---------------------------- MODULE BlockIOProofs ----------------------------
(***************************************************************************)
(* Proofs about module BlockIO, for every number of requests, every size   *)
(* of a block, and files that transfer blocks in parts or not.             *)
(***************************************************************************)
EXTENDS BlockIO, TLAPS

-----------------------------------------------------------------------------
(* The job carries out the request that is in progress, if there is one,   *)
(* and has taken its request before it transfers anything.                 *)
JobMeetsEntry ==
  /\ \A e \in InState("In_Progress") : job.state # "none" /\ job.index = e
  /\ job.state = "IN_PROGRESS" => entries[job.index].state = "In_Progress"
  /\ job.state = "PENDING" => entries[job.index].state \in {"Pending", "In_Progress"}

(* Nothing has been transferred of a request that nobody has taken. *)
PendingIsFresh == \A e \in InState("Pending") : done[e] = 0

(* If the file transfers whole blocks, a job takes its request only once. *)
TakenOnce ==
  ~Partial_Transfer =>
    /\ NoProgramError
    /\ job.state = "PENDING" => entries[job.index].state = "Pending"

IInv ==
  /\ TypeOK
  /\ WholeBlock
  /\ RaisedOnlyOnRetry
  /\ JobMeetsEntry
  /\ PendingIsFresh
  /\ TakenOnce

-----------------------------------------------------------------------------
(* Initially there is no request and no job. *)
THEOREM InitIInv == Init => IInv
<1> SUFFICES ASSUME Init PROVE IInv
  OBVIOUS
<1> USE BlockIOAssumption
<1>1. TypeOK
  <2>1. Invalid_Entry \in Entry_Type /\ No_Job \in Job_Type
    BY DEF Invalid_Entry, Entry_Type, Operation, No_Job, Job_Type, Data_Index
  <2>2. 0 \in 0 .. Block_Size
    OBVIOUS
  <2> QED BY <2>1, <2>2 DEF Init, TypeOK
<1>2. WholeBlock /\ RaisedOnlyOnRetry /\ JobMeetsEntry
  BY DEF Init, WholeBlock, RaisedOnlyOnRetry, JobMeetsEntry, InState, Invalid_Entry, No_Job
<1>3. PendingIsFresh /\ TakenOnce
  BY DEF Init, PendingIsFresh, TakenOnce, NoProgramError, InState, Invalid_Entry, No_Job
<1> QED BY <1>1, <1>2, <1>3 DEF IInv

(* Submit_Primitive keeps the invariant: the entry it takes is not the     *)
(* job's, and starts without progress.                                     *)
LEMMA SubmitIInv ==
  ASSUME IInv, NEW e \in Data_Index, NEW op \in Operation, Submit_Primitive(e, op)
  PROVE  IInv'
<1> USE BlockIOAssumption
<1>1. entries[e].state = "Unused"
  BY DEF Submit_Primitive, IsFirst, InState
<1>2. /\ entries' = [entries EXCEPT ![e] = [state |-> "Pending", op |-> op, success |-> FALSE]]
      /\ done' = [done EXCEPT ![e] = 0]
      /\ job' = job /\ raised' = raised
  BY DEF Submit_Primitive
<1>3. TypeOK'
  BY <1>2 DEF IInv, TypeOK, Entry_Type
<1>4. job.state # "none" => job.index \in Data_Index /\ job.index # e
  BY <1>1 DEF IInv, TypeOK, JobMeetsEntry, Job_Type
<1>5. WholeBlock'
  BY <1>1, <1>2, <1>4 DEF IInv, TypeOK, WholeBlock, InState, Entry_Type
<1>6. (RaisedOnlyOnRetry /\ TakenOnce)'
  BY <1>1, <1>2, <1>4
     DEF IInv, TypeOK, RaisedOnlyOnRetry, TakenOnce, NoProgramError, Job_Type
<1>7. (JobMeetsEntry /\ PendingIsFresh)'
  BY <1>1, <1>2, <1>4 DEF IInv, TypeOK, JobMeetsEntry, PendingIsFresh, InState, Job_Type
<1> QED BY <1>3, <1>5, <1>6, <1>7 DEF IInv

(* Drop_Completed_Primitive keeps the invariant: the job has left its      *)
(* entry already.                                                          *)
LEMMA DropIInv ==
  ASSUME IInv, NEW e \in Data_Index, Drop_Completed_Primitive(e)
  PROVE  IInv'
<1> USE BlockIOAssumption
<1>1. entries[e].state = "Complete"
  BY DEF Drop_Completed_Primitive, IsFirst, InState
<1>2. /\ entries' = [entries EXCEPT ![e] = Invalid_Entry]
      /\ done' = done /\ job' = job /\ raised' = raised
  BY DEF Drop_Completed_Primitive
<1>3. TypeOK'
  BY <1>2 DEF IInv, TypeOK, Entry_Type, Invalid_Entry, Operation
<1>4. job.state # "none" => job.index \in Data_Index /\ job.index # e
  BY <1>1 DEF IInv, TypeOK, JobMeetsEntry, Job_Type
<1>5. WholeBlock'
  BY <1>1, <1>2, <1>4 DEF IInv, TypeOK, WholeBlock, InState, Entry_Type, Invalid_Entry
<1>6. (RaisedOnlyOnRetry /\ TakenOnce)'
  BY <1>1, <1>2, <1>4
     DEF IInv, TypeOK, RaisedOnlyOnRetry, TakenOnce, NoProgramError, Job_Type
<1>7. (JobMeetsEntry /\ PendingIsFresh)'
  BY <1>1, <1>2, <1>4
     DEF IInv, TypeOK, JobMeetsEntry, PendingIsFresh, InState, Job_Type, Invalid_Entry
<1> QED BY <1>3, <1>5, <1>6, <1>7 DEF IInv

(* Construct_Job keeps the invariant: the whole block is left to the job.  *)
LEMMA ConstructIInv ==
  ASSUME IInv, NEW e \in Data_Index, Construct_Job(e), ~raised
  PROVE  IInv'
<1> USE BlockIOAssumption
<1>1. entries[e].state = "Pending" /\ job.state = "none"
  BY DEF Construct_Job, IsFirst, InState
<1>2. /\ job' = [state |-> "PENDING", index |-> e, count |-> Block_Size]
      /\ entries' = entries /\ done' = done /\ raised' = raised
  BY DEF Construct_Job
<1>3. TypeOK'
  BY <1>2 DEF IInv, TypeOK, Job_Type
<1>4. done[e] = 0
  BY <1>1 DEF IInv, PendingIsFresh, InState
<1>5. WholeBlock'
  BY <1>1, <1>2, <1>4 DEF IInv, WholeBlock, InState
<1>6. (RaisedOnlyOnRetry /\ TakenOnce /\ PendingIsFresh)'
  BY <1>1, <1>2 DEF IInv, TypeOK, RaisedOnlyOnRetry, TakenOnce, NoProgramError,
                    PendingIsFresh, InState
<1>7. JobMeetsEntry'
  BY <1>1, <1>2 DEF IInv, JobMeetsEntry, InState
<1> QED BY <1>3, <1>5, <1>6, <1>7 DEF IInv

(* IO_Request_In_Progress keeps the invariant.  It raises Program_Error    *)
(* only for a request the job has taken before.                            *)
LEMMA InProgressIInv ==
  ASSUME IInv, IO_Request_In_Progress, ~raised
  PROVE  IInv'
<1> USE BlockIOAssumption
<1>1. job.state = "PENDING" /\ job.index \in Data_Index
  BY DEF IO_Request_In_Progress, IInv, TypeOK, Job_Type
<1>2. CASE entries[job.index].state # "Pending" /\ Raise_Program_Error
  <2>1. raised' = TRUE /\ entries' = entries /\ job' = job /\ done' = done
    BY <1>2 DEF Raise_Program_Error
  <2>2. entries[job.index].state = "In_Progress"
    BY <1>1, <1>2 DEF IInv, JobMeetsEntry
  <2>3. (TypeOK /\ WholeBlock /\ JobMeetsEntry /\ PendingIsFresh)'
    BY <2>1 DEF IInv, TypeOK, WholeBlock, JobMeetsEntry, PendingIsFresh, InState
  <2>4. (RaisedOnlyOnRetry /\ TakenOnce)'
    BY <1>1, <1>2, <2>1, <2>2 DEF IInv, RaisedOnlyOnRetry, TakenOnce
  <2> QED BY <2>3, <2>4 DEF IInv
<1>3. CASE /\ entries[job.index].state = "Pending"
           /\ entries' = [entries EXCEPT ![job.index].state = "In_Progress"]
           /\ job' = [job EXCEPT !.state = "IN_PROGRESS"]
           /\ UNCHANGED <<done, raised>>
  <2>1. TypeOK'
    BY <1>3 DEF IInv, TypeOK, Entry_Type, Job_Type
  <2>2. WholeBlock'
    BY <1>1, <1>3 DEF IInv, TypeOK, WholeBlock, InState, Entry_Type, Job_Type
  <2>3. (JobMeetsEntry /\ PendingIsFresh)'
    BY <1>1, <1>3 DEF IInv, TypeOK, JobMeetsEntry, PendingIsFresh, InState, Entry_Type, Job_Type
  <2>4. (RaisedOnlyOnRetry /\ TakenOnce)'
    BY <1>1, <1>3 DEF IInv, TypeOK, RaisedOnlyOnRetry, TakenOnce, NoProgramError, Job_Type
  <2> QED BY <2>1, <2>2, <2>3, <2>4 DEF IInv
<1> QED BY <1>2, <1>3 DEF IO_Request_In_Progress

(* IO_Request_Completed keeps the invariant, if success is reported only   *)
(* for all that was left of the block.                                     *)
LEMMA CompletedIInv ==
  ASSUME IInv, ~raised, job.state = "IN_PROGRESS",
         NEW success \in BOOLEAN, NEW out \in 0 .. job.count,
         success /\ entries[job.index].op # "Sync" => out = job.count,
         IO_Request_Completed(success, out)
  PROVE  IInv'
<1> USE BlockIOAssumption
<1>1. /\ job.index \in Data_Index
      /\ entries[job.index].state = "In_Progress"
      /\ done[job.index] + job.count = Block_Size
  BY DEF IInv, TypeOK, Job_Type, JobMeetsEntry, WholeBlock
<1>2. /\ entries' = [entries EXCEPT ![job.index].state = "Complete",
                                    ![job.index].success = success]
      /\ done' = [done EXCEPT ![job.index] = @ + out]
      /\ job' = No_Job
      /\ raised' = raised
  BY <1>1 DEF IO_Request_Completed
<1>3. TypeOK'
  <2>1. job.count \in 0 .. Block_Size /\ done[job.index] \in 0 .. Block_Size
    BY <1>1 DEF IInv, TypeOK, Job_Type
  <2>2. done[job.index] + out \in 0 .. Block_Size
    BY <1>1, <2>1
  <2>3. done' \in [Data_Index -> 0 .. Block_Size]
    BY <1>2, <2>2 DEF IInv, TypeOK
  <2>4. No_Job \in Job_Type
    BY DEF No_Job, Job_Type, Data_Index
  <2>5. entries' \in [Data_Index -> Entry_Type]
    <3> DEFINE k == job.index
               e == [[entries[k] EXCEPT !.state = "Complete"] EXCEPT !.success = success]
    <3>1. entries \in [Data_Index -> Entry_Type] /\ k \in Data_Index
      BY <1>1 DEF IInv, TypeOK
    <3>2. e \in Entry_Type
      <4>1. entries[k] \in Entry_Type /\ success \in BOOLEAN
        BY <3>1
      <4> QED BY ONLY <4>1 DEF Entry_Type
    <3>3. entries' = [entries EXCEPT ![k] = e]
      BY <1>2, <3>1 DEF Entry_Type
    <3> HIDE DEF k, e
    <3> QED BY ONLY <3>1, <3>2, <3>3
  <2> QED BY <1>2, <2>3, <2>4, <2>5 DEF IInv, TypeOK
<1>4. WholeBlock'
  BY <1>1, <1>2 DEF IInv, TypeOK, WholeBlock, InState, Entry_Type, No_Job
<1>5. (JobMeetsEntry /\ PendingIsFresh)'
  BY <1>1, <1>2 DEF IInv, TypeOK, JobMeetsEntry, PendingIsFresh, InState, Entry_Type, No_Job
<1>6. (RaisedOnlyOnRetry /\ TakenOnce)'
  BY <1>2 DEF IInv, RaisedOnlyOnRetry, TakenOnce, NoProgramError, No_Job
<1> QED BY <1>3, <1>4, <1>5, <1>6 DEF IInv

(* Transfer keeps the invariant: what was transferred and what is left to  *)
(* the job remain the whole block.                                         *)
LEMMA TransferIInv ==
  ASSUME IInv, ~raised, NEW out \in 0 .. job.count, Partial_Transfer \/ out = job.count,
         Transfer(out)
  PROVE  IInv'
<1> USE BlockIOAssumption
<1>1. CASE out = job.count
  BY <1>1, CompletedIInv DEF Transfer
<1>2. CASE out # job.count
  <2>1. /\ job.index \in Data_Index
        /\ job.count \in 0 .. Block_Size
        /\ done[job.index] \in 0 .. Block_Size
        /\ entries[job.index].state = "In_Progress"
        /\ done[job.index] + job.count = Block_Size
    BY DEF Transfer, IInv, TypeOK, Job_Type, JobMeetsEntry, WholeBlock
  <2>2. /\ job' = [job EXCEPT !.state = "PENDING", !.count = @ - out]
        /\ done' = [done EXCEPT ![job.index] = @ + out]
        /\ entries' = entries /\ raised' = raised
    BY <1>2 DEF Transfer
  <2>3. done[job.index] + out \in 0 .. Block_Size /\ job.count - out \in 0 .. Block_Size
    BY <2>1
  <2>4. TypeOK'
    BY <2>2, <2>3 DEF IInv, TypeOK, Job_Type
  <2>5. WholeBlock'
    BY <2>1, <2>2, <2>3 DEF IInv, TypeOK, WholeBlock, InState, Job_Type
  <2>6. (JobMeetsEntry /\ PendingIsFresh)'
    BY <2>1, <2>2 DEF IInv, TypeOK, JobMeetsEntry, PendingIsFresh, InState, Job_Type
  <2>7. (RaisedOnlyOnRetry /\ TakenOnce)'
    BY <1>2, <2>2 DEF IInv, RaisedOnlyOnRetry, TakenOnce
  <2> QED BY <2>4, <2>5, <2>6, <2>7 DEF IInv
<1> QED BY <1>1, <1>2

(* Every step of the library and of the plugin keeps the invariant. *)
THEOREM NextIInv == IInv /\ [Next]_vars => IInv'
<1> SUFFICES ASSUME IInv, [Next]_vars PROVE IInv'
  OBVIOUS
<1> USE BlockIOAssumption
<1>1. CASE UNCHANGED vars
  BY <1>1 DEF vars, IInv, TypeOK, WholeBlock, RaisedOnlyOnRetry, JobMeetsEntry,
              PendingIsFresh, TakenOnce, NoProgramError, InState
<1>2. CASE ~raised /\ Library
  BY <1>2, SubmitIInv, DropIInv DEF Library
<1>3. CASE ~raised /\ Plugin
  <2>1. CASE \E e \in Data_Index : Construct_Job(e)
    BY <1>3, <2>1, ConstructIInv
  <2>2. CASE IO_Request_In_Progress
    BY <1>3, <2>2, InProgressIInv
  <2>3. CASE \E out \in 0 .. job.count : (Partial_Transfer \/ out = job.count) /\ Transfer(out)
    BY <1>3, <2>3, TransferIInv
  <2>4. job.count \in Nat
    BY DEF IInv, TypeOK, Job_Type
  <2>5. CASE Sync
    <3>1. /\ job.state = "IN_PROGRESS"
          /\ entries[job.index].op = "Sync"
          /\ IO_Request_Completed(TRUE, 0)
      BY <2>5 DEF Sync
    <3>2. 0 \in 0 .. job.count
      BY <2>4
    <3> QED BY <1>3, <3>1, <3>2, CompletedIInv
  <2>6. CASE Fail
    <3>1. /\ job.state = "IN_PROGRESS"
          /\ IO_Request_Completed(FALSE, 0)
      BY <2>6 DEF Fail
    <3>2. 0 \in 0 .. job.count
      BY <2>4
    <3> QED BY <1>3, <3>1, <3>2, CompletedIInv
  <2> QED BY <1>3, <2>1, <2>2, <2>3, <2>5, <2>6 DEF Plugin, Execute_Job
<1> QED BY <1>1, <1>2, <1>3 DEF Next

(* The inductive invariant holds in every state. *)
THEOREM Invariance == Spec => []IInv
BY InitIInv, NextIInv, PTL DEF Spec

-----------------------------------------------------------------------------
(* Requests, job and progress always have their types: no transfer goes    *)
(* beyond the block.                                                       *)
THEOREM TypeCorrect == Spec => []TypeOK
<1>1. IInv => TypeOK
  BY DEF IInv
<1> QED BY <1>1, Invariance, PTL

(* io_job.h reports success only after it has transferred a whole block,   *)
(* however the file splits the transfer.                                   *)
THEOREM SuccessMeansWholeBlock == Spec => []WholeBlock
<1>1. IInv => WholeBlock
  BY DEF IInv
<1> QED BY <1>1, Invariance, PTL

(* Block_IO raises Program_Error only when io_job.h goes on with a request *)
(* after a partial transfer.                                               *)
THEOREM OnlyRetriesRaise == Spec => []RaisedOnlyOnRetry
<1>1. IInv => RaisedOnlyOnRetry
  BY DEF IInv
<1> QED BY <1>1, Invariance, PTL

(* With a file that transfers whole blocks only, Block_IO never raises     *)
(* Program_Error: each request is taken once and completed once.           *)
THEOREM WholeTransfersNeverRaise ==
  ASSUME ~Partial_Transfer PROVE Spec => []NoProgramError
<1>1. IInv => NoProgramError
  BY DEF IInv, TakenOnce
<1> QED BY <1>1, Invariance, PTL
=============================================================================
