------------------------------- MODULE Cache --------------------------------
(***************************************************************************)
(* The write-back cache of the CBE (package CBE.Cache), through which the  *)
(* inner nodes of all trees are read and written, together with the part   *)
(* of CBE.Library that drives it and with the entries of CBE.Block_IO that *)
(* carry its requests to the back end.                                     *)
(*                                                                         *)
(* The library is one thread.  Its Execute runs, in this order, the jobs   *)
(* of the cache (Execute_Each_Job), hands the requests the cache generated *)
(* to Block_IO, the completed jobs to their users, and the requests the    *)
(* back end completed to the cache.  Each iteration of one of these loops  *)
(* is a step here; "at" says where in Execute the library is.  Users       *)
(* submit, and the back end works, between two passes.                     *)
(***************************************************************************)
EXTENDS Integers

CONSTANTS
  PBA,          \* physical block addresses
  Data,         \* values of a block
  Nr_Of_Jobs,   \* operations the cache accepts at a time
  Nr_Of_Slots,  \* blocks the cache can hold
  Nr_Of_Entries \* requests Block_IO can hold

ASSUME CacheAssumption ==
  /\ PBA \subseteq Nat /\ 0 \in PBA
  /\ Data # {}
  /\ Nr_Of_Jobs \in Nat \ {0}
  /\ Nr_Of_Slots \in Nat
  /\ Nr_Of_Jobs <= Nr_Of_Slots
  /\ Nr_Of_Entries \in Nat \ {0}

VARIABLES
  jobs,    \* operations of the users of the cache, by job index
  slots,   \* cached blocks, by slot index
  at,      \* where in Execute the library is: see below
  io,      \* entries of Block_IO
  disk,    \* blocks on the block device
  error    \* "None", or why Program_Error was raised

vars == <<jobs, slots, at, io, disk, error>>

-----------------------------------------------------------------------------
(***************************************************************************)
(* State.                                                                  *)
(***************************************************************************)
Jobs_Index  == 0 .. Nr_Of_Jobs - 1
Slots_Index == 0 .. Nr_Of_Slots - 1
Data_Index  == 0 .. Nr_Of_Entries - 1

(* Values of "at": a job's index inside Execute_Each_Job, else one of these. *)
Generated == Nr_Of_Jobs
Completed == Nr_Of_Jobs + 1
Answered  == Nr_Of_Jobs + 2
Idle      == Nr_Of_Jobs + 3

Reading  == {"Read_Generated", "Read_In_Progress"}
Writing  == {"Write_Generated", "Write_In_Progress"}
(* Mutant: a read is answered while the data are still on their way. *)
Readable_Too_Early == {"Clean", "Dirty", "Read_In_Progress"} \cup Writing

Readable == {"Clean", "Dirty"} \cup Writing

Job_Type == [state : {"Invalid", "Submitted", "Completed"},
             op    : {"Read", "Write", "Sync"},
             pba   : PBA,
             data  : Data]

Slot_Type == [state : {"Invalid"} \cup Reading \cup Readable,
              pba   : PBA,
              data  : Data]

Entry_Type == [state   : {"Unused", "Pending", "In_Progress", "Complete"},
               op      : {"Read", "Write"},
               slot    : Slots_Index,
               pba     : PBA,
               data    : Data,
               success : BOOLEAN]

TypeOK ==
  /\ jobs \in [Jobs_Index -> Job_Type]
  /\ slots \in [Slots_Index -> Slot_Type]
  /\ at \in 0 .. Idle
  /\ io \in [Data_Index -> Entry_Type]
  /\ disk \in [PBA -> Data]
  /\ error \in {"None", "IO", "Cache"}

(* Stands for the contents of a buffer nobody will read any more. *)
AnyData == CHOOSE d \in Data : TRUE

Invalid_Entry == [state |-> "Unused", op |-> "Read", slot |-> 0, pba |-> 0,
                  data |-> AnyData, success |-> FALSE]

Init ==
  /\ jobs = [j \in Jobs_Index |-> [state |-> "Invalid", op |-> "Read", pba |-> 0, data |-> AnyData]]
  /\ slots = [s \in Slots_Index |-> [state |-> "Invalid", pba |-> 0, data |-> AnyData]]
  /\ at = Idle
  /\ io = [e \in Data_Index |-> Invalid_Entry]
  /\ disk \in [PBA -> Data]
  /\ error = "None"

(* x is the element of S that a loop over the indices meets first. *)
IsFirst(x, S) == x \in S /\ \A y \in S : x <= y

-----------------------------------------------------------------------------
(***************************************************************************)
(* The users of the cache.  They do not submit operations that fail        *)
(* Submit_Primitive_Assertions.                                            *)
(***************************************************************************)
Active(j) == jobs[j].state # "Invalid"

(* Mutant: writes are accepted while a sync is under way. *)
Submit_Primitive_Assertions_Without_Sync(op, p) ==
  \A j \in Jobs_Index : Active(j) =>
    /\ jobs[j].op = "Write" => jobs[j].pba # p
    /\ op = "Write" => jobs[j].pba # p

Submit_Primitive_Assertions(op, p) ==
  \A j \in Jobs_Index : Active(j) =>
    /\ jobs[j].op = "Write" => jobs[j].pba # p
    /\ op = "Write" => jobs[j].op # "Sync" /\ jobs[j].pba # p

Submit_Primitive(j, op, p, d) ==
  /\ at = Idle
  /\ IsFirst(j, {k \in Jobs_Index : ~Active(k)})
  /\ Submit_Primitive_Assertions(op, p)
  /\ jobs' = [jobs EXCEPT ![j] = [state |-> "Submitted", op |-> op, pba |-> p, data |-> d]]
  /\ UNCHANGED <<slots, at, io, disk, error>>

-----------------------------------------------------------------------------
(***************************************************************************)
(* Execution of the jobs.                                                  *)
(***************************************************************************)
(* Jobs that have been dropped keep a slot from being evicted as well. *)
Clean_Slot_Evictable(s) ==
  \A j \in Jobs_Index : jobs[j].op \in {"Read", "Write"} => jobs[j].pba # slots[s].pba

(* Mutant: slots that wait for their data are not found. *)
Matching_Readable_Only(p) == {s \in Slots_Index : slots[s].state \in Readable /\ slots[s].pba = p}

Matching(p) == {s \in Slots_Index : slots[s].state # "Invalid" /\ slots[s].pba = p}

(* Mutant: clean slots are kept for ever. *)
Evictable_If_Invalid == {s \in Slots_Index : slots[s].state = "Invalid"}

Evictable == {s \in Slots_Index : \/ slots[s].state = "Invalid"
                                  \/ slots[s].state = "Clean" /\ Clean_Slot_Evictable(s)}

InState(S) == {s \in Slots_Index : slots[s].state \in S}

Complete(j, d) == jobs' = [jobs EXCEPT ![j].state = "Completed", ![j].data = d]

(* Mutant: the slot counts as clean before its data have been written. *)
Write_Back_Marks_Clean ==
  /\ \E s \in Slots_Index :
       /\ IsFirst(s, InState({"Dirty"}))
       /\ slots' = [slots EXCEPT ![s].state = "Clean"]
  /\ UNCHANGED error

Write_Back_One_Dirty_Slot ==
  \/ /\ \E s \in Slots_Index :
          /\ IsFirst(s, InState({"Dirty"}))
          /\ slots' = [slots EXCEPT ![s].state = "Write_Generated"]
     /\ UNCHANGED error
  \/ /\ InState({"Dirty"}) = {}
     /\ error' = "Cache"
     /\ UNCHANGED slots

(* Mutant: a sync does not wait for the writes under way. *)
Job_Execute_Sync_Dirty_Only(j) ==
  /\ slots' = [s \in Slots_Index |->
                 IF slots[s].state = "Dirty"
                   THEN [slots[s] EXCEPT !.state = "Write_Generated"]
                   ELSE slots[s]]
  /\ IF InState({"Dirty"}) = {} THEN Complete(j, AnyData) ELSE UNCHANGED jobs
  /\ UNCHANGED error

(* Mutant: a sync requests writes again that are under way. *)
Job_Execute_Sync_Requests_Again(j) ==
  LET pending == InState({"Dirty"} \cup Writing)
  IN  /\ slots' = [s \in Slots_Index |->
                     IF s \in pending THEN [slots[s] EXCEPT !.state = "Write_Generated"]
                                      ELSE slots[s]]
      /\ IF pending = {} THEN Complete(j, AnyData) ELSE UNCHANGED jobs
      /\ UNCHANGED error

Job_Execute_Sync(j) ==
  LET pending == InState({"Dirty"} \cup Writing)
  IN  /\ slots' = [s \in Slots_Index |->
                     IF slots[s].state = "Dirty"
                       THEN [slots[s] EXCEPT !.state = "Write_Generated"]
                       ELSE slots[s]]
      /\ IF pending = {} THEN Complete(j, AnyData) ELSE UNCHANGED jobs
      /\ UNCHANGED error

(* Nothing can be reused: wait for a write-back, or start one. *)
Make_Room ==
  /\ Evictable = {}
  /\ \/ InState(Writing) # {} /\ UNCHANGED <<slots, error>>
     \/ InState(Writing) = {} /\ Write_Back_One_Dirty_Slot

Job_Execute_Read(j) ==
  LET p == jobs[j].pba
  IN  \/ \E s \in Slots_Index :
           /\ IsFirst(s, Matching(p))
           /\ IF slots[s].state \in Readable
                THEN Complete(j, slots[s].data)
                ELSE UNCHANGED jobs
           /\ UNCHANGED <<slots, error>>
      \/ /\ Matching(p) = {}
         /\ \E s \in Slots_Index :
              /\ IsFirst(s, Evictable)
              /\ slots' = [slots EXCEPT ![s] = [state |-> "Read_Generated", pba |-> p,
                                                data |-> AnyData]]
         /\ UNCHANGED <<jobs, error>>
      \/ /\ Matching(p) = {}
         /\ Make_Room
         /\ UNCHANGED jobs

Job_Execute_Write(j) ==
  LET p == jobs[j].pba
      Put(s) == slots' = [slots EXCEPT ![s] = [state |-> "Dirty", pba |-> p,
                                               data |-> jobs[j].data]]
  IN  \/ \E s \in Slots_Index :
           /\ IsFirst(s, Matching(p))
           /\ IF slots[s].state \in {"Clean", "Dirty"}
                THEN Put(s) /\ Complete(j, AnyData)
                ELSE UNCHANGED <<slots, jobs>>
           /\ UNCHANGED error
      \/ /\ Matching(p) = {}
         /\ \E s \in Slots_Index :
              /\ IsFirst(s, Evictable)
              /\ Put(s)
         /\ Complete(j, AnyData)
         /\ UNCHANGED error
      \/ /\ Matching(p) = {}
         /\ Make_Room
         /\ UNCHANGED jobs

Job_Execute(j) ==
  \/ jobs[j].state # "Submitted" /\ UNCHANGED <<jobs, slots, error>>
  \/ /\ jobs[j].state = "Submitted"
     /\ \/ jobs[j].op = "Sync"  /\ Job_Execute_Sync(j)
        \/ jobs[j].op = "Read"  /\ Job_Execute_Read(j)
        \/ jobs[j].op = "Write" /\ Job_Execute_Write(j)

(* One iteration of Execute_Each_Job. *)
Execute_Each_Job ==
  /\ at \in Jobs_Index
  /\ Job_Execute(at)
  /\ at' = at + 1
  /\ UNCHANGED <<io, disk>>

-----------------------------------------------------------------------------
(***************************************************************************)
(* The library moves requests between the cache and Block_IO.              *)
(***************************************************************************)
(* Execute_Cache_Generated_Prims: the data of a write is copied here. *)
Drop_Generated_Primitive(s, e) ==
  /\ at = Generated
  /\ IsFirst(s, InState({"Read_Generated", "Write_Generated"}))
  /\ IsFirst(e, {f \in Data_Index : io[f].state = "Unused"})
  /\ LET op == IF slots[s].state = "Read_Generated" THEN "Read" ELSE "Write"
     IN  /\ slots' = [slots EXCEPT ![s].state = IF op = "Read" THEN "Read_In_Progress"
                                                               ELSE "Write_In_Progress"]
         /\ io' = [io EXCEPT ![e] =
                     [state |-> "Pending", op |-> op, slot |-> s, pba |-> slots[s].pba,
                      data |-> IF op = "Write" THEN slots[s].data ELSE AnyData,
                      success |-> FALSE]]
  /\ UNCHANGED <<jobs, at, disk, error>>

(* Execute_Cache_Completed_Prims: the user takes the answer.  The job keeps *)
(* its operation and its address: see Clean_Slot_Evictable.                *)
Drop_Completed_Primitive(j) ==
  /\ at = Completed
  /\ IsFirst(j, {k \in Jobs_Index : jobs[k].state = "Completed"})
  /\ jobs' = [jobs EXCEPT ![j].state = "Invalid", ![j].data = AnyData]
  /\ UNCHANGED <<slots, at, io, disk, error>>

(* Execute_IO: a failed request stops the library. *)
Mark_Generated_Primitive_Complete(e) ==
  /\ at = Answered
  /\ IsFirst(e, {f \in Data_Index : io[f].state = "Complete"})
  /\ \/ /\ ~io[e].success
        /\ error' = "IO"
        /\ UNCHANGED <<slots, io>>
     \/ /\ io[e].success
        /\ slots[io[e].slot].state \in {"Read_In_Progress", "Write_In_Progress"}
        /\ slots' = [slots EXCEPT ![io[e].slot].state = "Clean",
                                  ![io[e].slot].data = IF io[e].op = "Read" THEN io[e].data ELSE @]
        /\ io' = [io EXCEPT ![e] = Invalid_Entry]
        /\ UNCHANGED error
     \/ /\ io[e].success
        /\ slots[io[e].slot].state \notin {"Read_In_Progress", "Write_In_Progress"}
        /\ error' = "Cache"
        /\ UNCHANGED <<slots, io>>
  /\ UNCHANGED <<jobs, at, disk>>

(* A loop of Execute is left when there is nothing (more) to do for it. *)
Advance ==
  /\ \/ /\ at = Idle
        /\ at' = 0
     \/ /\ at = Generated
        /\ \/ InState({"Read_Generated", "Write_Generated"}) = {}
           \/ \A e \in Data_Index : io[e].state # "Unused"
        /\ at' = Completed
     \/ /\ at = Completed
        /\ \A j \in Jobs_Index : jobs[j].state # "Completed"
        /\ at' = Answered
     \/ /\ at = Answered
        /\ \A e \in Data_Index : io[e].state # "Complete"
        /\ at' = Idle
  /\ UNCHANGED <<jobs, slots, io, disk, error>>

-----------------------------------------------------------------------------
(***************************************************************************)
(* The back end, outside of the library.                                   *)
(***************************************************************************)
IO_Request_In_Progress(e) ==
  /\ at = Idle
  /\ IsFirst(e, {f \in Data_Index : io[f].state = "Pending"})
  /\ io' = [io EXCEPT ![e].state = "In_Progress"]
  /\ UNCHANGED <<jobs, slots, at, disk, error>>

IO_Request_Completed(e, success) ==
  /\ at = Idle
  /\ io[e].state = "In_Progress"
  /\ io' = [io EXCEPT ![e].state = "Complete", ![e].success = success,
                      ![e].data = IF success /\ io[e].op = "Read" THEN disk[io[e].pba] ELSE @]
  /\ disk' = IF success /\ io[e].op = "Write" THEN [disk EXCEPT ![io[e].pba] = io[e].data]
                                              ELSE disk
  /\ UNCHANGED <<jobs, slots, at, error>>

-----------------------------------------------------------------------------
Users ==
  \E j \in Jobs_Index :
    \/ \E p \in PBA, d \in Data : Submit_Primitive(j, "Write", p, d)
    \/ \E p \in PBA : Submit_Primitive(j, "Read", p, AnyData)
    \/ Submit_Primitive(j, "Sync", 0, AnyData)

Library ==
  \/ Advance
  \/ Execute_Each_Job
  \/ \E j \in Jobs_Index : Drop_Completed_Primitive(j)
  \/ \E s \in Slots_Index, e \in Data_Index : Drop_Generated_Primitive(s, e)
  \/ \E e \in Data_Index : Mark_Generated_Primitive_Complete(e)

BackEnd ==
  \E e \in Data_Index :
    \/ IO_Request_In_Progress(e)
    \/ \E success \in BOOLEAN : IO_Request_Completed(e, success)

Next == error = "None" /\ (Users \/ Library \/ BackEnd)

Spec == Init /\ [][Next]_vars

-----------------------------------------------------------------------------
(***************************************************************************)
(* Correctness.                                                            *)
(***************************************************************************)
(* No block is cached twice: otherwise a write could go to one copy while  *)
(* a later read or the write-back takes the other one.                     *)
SlotsDistinct ==
  \A s, t \in Slots_Index :
    s # t /\ slots[s].state # "Invalid" /\ slots[t].state # "Invalid"
      => slots[s].pba # slots[t].pba

(* With at least as many slots as jobs the cache never raises              *)
(* Program_Error: whenever a job finds no reusable slot and no write-back  *)
(* under way, there is a dirty slot to write back, and an answer of the    *)
(* back end always meets the slot that asked for it.                       *)
NoProgramError == error # "Cache"

(* A slot is discarded without being written back when it is clean: it     *)
(* must then hold what the block device holds.                             *)
CleanIsStable ==
  \A s \in Slots_Index : slots[s].state = "Clean" => slots[s].data = disk[slots[s].pba]

(* A slot waits for data only as long as a job waits for that slot.  So    *)
(* slots that nobody waits for can always be reused, which is why the      *)
(* cache never runs out of slots: see NoProgramError.                      *)
ReadPinned ==
  \A s \in Slots_Index :
    slots[s].state \in Reading =>
      \E j \in Jobs_Index : /\ jobs[j].state = "Submitted"
                            /\ jobs[j].op = "Read"
                            /\ jobs[j].pba = slots[s].pba

(* A request at the back end belongs to one slot, which stays put until    *)
(* the answer is there: it is not evicted, written, or requested again.    *)
IoConsistent ==
  /\ \A e \in Data_Index : io[e].state # "Unused" =>
       /\ slots[io[e].slot].state = IF io[e].op = "Read" THEN "Read_In_Progress"
                                                         ELSE "Write_In_Progress"
       /\ slots[io[e].slot].pba = io[e].pba
       /\ io[e].op = "Write" => io[e].data = slots[io[e].slot].data
       /\ io[e].state = "Complete" /\ io[e].success => io[e].data = disk[io[e].pba]
  /\ \A e, f \in Data_Index :
       e # f /\ io[e].state # "Unused" /\ io[f].state # "Unused" => io[e].slot # io[f].slot

(* The inductive invariant of module CacheProofs. *)
IInv == /\ TypeOK
        /\ SlotsDistinct
        /\ NoProgramError
        /\ CleanIsStable
        /\ ReadPinned
        /\ IoConsistent

(* The value a reader of the cache must see for every block, given the     *)
(* slots sl and the device dk.                                             *)
StoreOf(sl, dk) ==
  LET Holds(s, p) == sl[s].state \in Readable /\ sl[s].pba = p
  IN  [p \in PBA |-> IF \E s \in Slots_Index : Holds(s, p)
                       THEN sl[CHOOSE s \in Slots_Index : Holds(s, p)].data
                       ELSE dk[p]]

Store == StoreOf(slots, disk)

(* The cache implements the block store: every read returns the last       *)
(* completed write, eviction and write-back never change what a reader     *)
(* sees, and a sync completes only when all writes are on the device.      *)
B == INSTANCE BlockStore WITH NrOfJobs <- Nr_Of_Jobs, store <- Store, stable <- disk

ImplementsBlockStore == B!Spec

(* Fairness: the front end calls Execute again and again, which always     *)
(* runs to its end, and the back end works on every request between some   *)
(* two passes.  Users need not do anything.                                *)
Fairness == WF_vars(Next /\ Library) /\ SF_vars(Next /\ BackEnd)

FairSpec == Spec /\ Fairness

(* A sync is answered however the other users behave, unless the back end  *)
(* fails: no write is accepted after it, so the dirty slots run out.       *)
SyncTerminates ==
  \A j \in Jobs_Index :
    (jobs[j].state = "Submitted" /\ jobs[j].op = "Sync")
      ~> (jobs[j].state = "Completed" \/ error # "None")
=============================================================================
