----------------------------- MODULE BlockStore -----------------------------
(***************************************************************************)
(* What the write-back cache of the CBE promises to the modules that use   *)
(* it: a store of blocks that answers every read with the last completed   *)
(* write, that may make blocks stable whenever it likes, and that answers  *)
(* a sync only when every completed write is stable.  Module Cache is      *)
(* shown to implement this specification.                                  *)
(***************************************************************************)
EXTENDS Integers

CONSTANTS
  PBA,        \* physical block addresses
  Data,       \* values of a block
  NrOfJobs    \* number of operations the store accepts at a time

VARIABLES
  jobs,       \* the operations, by job index
  store,      \* the value of every block, as a reader must see it
  stable,     \* the value of every block on the block device
  error       \* "None", or why the store stopped for ever

vars == <<jobs, store, stable, error>>

JobIndex == 0 .. NrOfJobs - 1

Job == [state : {"Invalid", "Submitted", "Completed"},
        op    : {"Read", "Write", "Sync"},
        pba   : PBA,
        data  : Data]

TypeOK ==
  /\ jobs \in [JobIndex -> Job]
  /\ store \in [PBA -> Data]
  /\ stable \in [PBA -> Data]
  /\ error \in {"None", "IO", "Cache"}

(* Stands for the contents of a buffer nobody will read any more. *)
AnyData == CHOOSE d \in Data : TRUE

(***************************************************************************)
(* Operations of the users.                                                *)
(***************************************************************************)
Active(j) == jobs[j].state # "Invalid"

(* The users never have two conflicting operations in flight. *)
Admissible(op, p) ==
  \A j \in JobIndex : Active(j) =>
    /\ jobs[j].op = "Write" => jobs[j].pba # p
    /\ op = "Write" => jobs[j].op # "Sync" /\ jobs[j].pba # p

Submit(j, op, p, d) ==
  /\ ~Active(j)
  /\ Admissible(op, p)
  /\ jobs' = [jobs EXCEPT ![j] = [state |-> "Submitted", op |-> op, pba |-> p, data |-> d]]
  /\ UNCHANGED <<store, stable, error>>

Drop(j) ==
  /\ jobs[j].state = "Completed"
  /\ jobs' = [jobs EXCEPT ![j].state = "Invalid", ![j].data = AnyData]
  /\ UNCHANGED <<store, stable, error>>

(***************************************************************************)
(* Answers of the store.                                                   *)
(***************************************************************************)
CompleteRead(j) ==
  /\ jobs[j].state = "Submitted" /\ jobs[j].op = "Read"
  /\ jobs' = [jobs EXCEPT ![j].state = "Completed", ![j].data = store[jobs[j].pba]]
  /\ UNCHANGED <<store, stable, error>>

CompleteWrite(j) ==
  /\ jobs[j].state = "Submitted" /\ jobs[j].op = "Write"
  /\ jobs' = [jobs EXCEPT ![j].state = "Completed", ![j].data = AnyData]
  /\ store' = [store EXCEPT ![jobs[j].pba] = jobs[j].data]
  /\ UNCHANGED <<stable, error>>

CompleteSync(j) ==
  /\ jobs[j].state = "Submitted" /\ jobs[j].op = "Sync"
  /\ stable = store
  /\ jobs' = [jobs EXCEPT ![j].state = "Completed", ![j].data = AnyData]
  /\ UNCHANGED <<store, stable, error>>

(* One block reaches the device, with the value readers see. *)
Persist(p) ==
  /\ stable' = [stable EXCEPT ![p] = store[p]]
  /\ UNCHANGED <<jobs, store, error>>

(* The device failed: the store stops. *)
Stop ==
  /\ error' = "IO"
  /\ UNCHANGED <<jobs, store, stable>>

-----------------------------------------------------------------------------
Init ==
  /\ jobs = [j \in JobIndex |-> [state |-> "Invalid", op |-> "Read", pba |-> 0,
                                 data |-> AnyData]]
  /\ store \in [PBA -> Data]
  /\ stable = store
  /\ error = "None"

Next ==
  /\ error = "None"
  /\ \/ \E j \in JobIndex, op \in {"Read", "Write", "Sync"}, p \in PBA, d \in Data :
          Submit(j, op, p, d)
     \/ \E j \in JobIndex :
          Drop(j) \/ CompleteRead(j) \/ CompleteWrite(j) \/ CompleteSync(j)
     \/ \E p \in PBA : Persist(p)
     \/ Stop

Spec == Init /\ [][Next]_vars
=============================================================================
