------------------------------- MODULE BlockIO ------------------------------
(***************************************************************************)
(* The requests of the CBE for its block device (package CBE.Block_IO) and *)
(* the job of the VFS plugin that carries them out (struct Io_job), one at *)
(* a time, on a file of the virtual file system.  The file may let a job   *)
(* wait, may fail, and may transfer a block in several parts.  Library and *)
(* plugin are one thread: one of them runs, to its end, at a time.         *)
(***************************************************************************)
EXTENDS Integers

CONSTANTS
  Nr_Of_Entries,   \* requests Block_IO can hold: 1 in the code
  Block_Size,      \* bound: parts of a block the file can transfer
  Partial_Transfer \* whether the file may transfer a part of what is asked for

ASSUME BlockIOAssumption ==
  /\ Nr_Of_Entries \in Nat \ {0}
  /\ Block_Size \in Nat \ {0}
  /\ Partial_Transfer \in BOOLEAN

VARIABLES
  entries,  \* the requests, by data index
  job,      \* the job of the plugin
  done,     \* parts of the block of each request that have been transferred
  raised    \* whether Program_Error was raised

vars == <<entries, job, done, raised>>

Data_Index == 0 .. Nr_Of_Entries - 1
Operation  == {"Read", "Write", "Sync"}

Entry_Type == [state : {"Unused", "Pending", "In_Progress", "Complete"},
               op : Operation, success : BOOLEAN]

Job_Type == [state : {"none", "PENDING", "IN_PROGRESS"},
             index : Data_Index,
             count : 0 .. Block_Size]   \* _current_count

(* Never more of a block is transferred than it has, and a job never has   *)
(* more left than a block, nor less than nothing: it goes once its request *)
(* is completed.                                                           *)
TypeOK ==
  /\ entries \in [Data_Index -> Entry_Type]
  /\ job \in Job_Type
  /\ done \in [Data_Index -> 0 .. Block_Size]
  /\ raised \in BOOLEAN

Invalid_Entry == [state |-> "Unused", op |-> "Read", success |-> FALSE]
No_Job        == [state |-> "none", index |-> 0, count |-> 0]

Init ==
  /\ entries = [e \in Data_Index |-> Invalid_Entry]
  /\ job = No_Job
  /\ done = [e \in Data_Index |-> 0]
  /\ raised = FALSE

InState(s) == {e \in Data_Index : entries[e].state = s}

IsFirst(x, S) == x \in S /\ \A y \in S : x <= y

Raise_Program_Error == raised' = TRUE /\ UNCHANGED <<entries, job, done>>

-----------------------------------------------------------------------------
(***************************************************************************)
(* The library.                                                            *)
(***************************************************************************)
Submit_Primitive(e, op) ==
  /\ IsFirst(e, InState("Unused"))
  /\ entries' = [entries EXCEPT ![e] = [state |-> "Pending", op |-> op, success |-> FALSE]]
  /\ done' = [done EXCEPT ![e] = 0]
  /\ UNCHANGED <<job, raised>>

(* A request that failed makes the library raise Program_Error: it stops.  *)
Drop_Completed_Primitive(e) ==
  /\ IsFirst(e, InState("Complete"))
  /\ entries[e].success
  /\ entries' = [entries EXCEPT ![e] = Invalid_Entry]
  /\ UNCHANGED <<job, done, raised>>

-----------------------------------------------------------------------------
(***************************************************************************)
(* The plugin.                                                             *)
(***************************************************************************)
(* _handle_cbe_backend: there is no job, and the library has a request. *)
Construct_Job(e) ==
  /\ job.state = "none"
  /\ IsFirst(e, InState("Pending"))
  /\ job' = [state |-> "PENDING", index |-> e, count |-> Block_Size]
  /\ UNCHANGED <<entries, done, raised>>

(* execute, from the state PENDING: the file takes the request.  A file    *)
(* that does not take it leaves everything as it is.                       *)
IO_Request_In_Progress ==
  /\ job.state = "PENDING"
  /\ \/ /\ entries[job.index].state # "Pending"
        /\ Raise_Program_Error
     \/ /\ entries[job.index].state = "Pending"
        /\ entries' = [entries EXCEPT ![job.index].state = "In_Progress"]
        /\ job' = [job EXCEPT !.state = "IN_PROGRESS"]
        /\ UNCHANGED <<done, raised>>

(* Mutant: the job stays after its request has been completed. *)
IO_Request_Completed_Keeps_Job(success, out) ==
  \/ /\ entries[job.index].state # "In_Progress"
     /\ Raise_Program_Error
  \/ /\ entries[job.index].state = "In_Progress"
     /\ entries' = [entries EXCEPT ![job.index].state = "Complete",
                                   ![job.index].success = success]
     /\ done' = [done EXCEPT ![job.index] = @ + out]
     /\ UNCHANGED <<job, raised>>

IO_Request_Completed(success, out) ==
  \/ /\ entries[job.index].state # "In_Progress"
     /\ Raise_Program_Error
  \/ /\ entries[job.index].state = "In_Progress"
     /\ entries' = [entries EXCEPT ![job.index].state = "Complete",
                                   ![job.index].success = success]
     /\ done' = [done EXCEPT ![job.index] = @ + out]
     /\ job' = No_Job
     /\ UNCHANGED raised

(* Mutant: a part of the block is taken for the whole block. *)
Transfer_Once(out) ==
  /\ job.state = "IN_PROGRESS"
  /\ entries[job.index].op \in {"Read", "Write"}
  /\ IO_Request_Completed(TRUE, out)

(* execute, from the state IN_PROGRESS, with what the file answers. *)
Transfer(out) ==
  /\ job.state = "IN_PROGRESS"
  /\ entries[job.index].op \in {"Read", "Write"}
  /\ IF out = job.count
       THEN IO_Request_Completed(TRUE, out)
       ELSE /\ job' = [job EXCEPT !.state = "PENDING", !.count = @ - out]
            /\ done' = [done EXCEPT ![job.index] = @ + out]
            /\ UNCHANGED <<entries, raised>>

Sync ==
  /\ job.state = "IN_PROGRESS"
  /\ entries[job.index].op = "Sync"
  /\ IO_Request_Completed(TRUE, 0)

Fail ==
  /\ job.state = "IN_PROGRESS"
  /\ IO_Request_Completed(FALSE, 0)

Execute_Job ==
  \/ IO_Request_In_Progress
  \/ \E out \in 0 .. job.count : (Partial_Transfer \/ out = job.count) /\ Transfer(out)
  \/ Sync
  \/ Fail

-----------------------------------------------------------------------------
Library ==
  \E e \in Data_Index :
    \/ \E op \in Operation : Submit_Primitive(e, op)
    \/ Drop_Completed_Primitive(e)

Plugin ==
  \/ \E e \in Data_Index : Construct_Job(e)
  \/ Execute_Job

Next == ~raised /\ (Library \/ Plugin)

Spec == Init /\ [][Next]_vars

-----------------------------------------------------------------------------
(* A request is reported as successful only after all parts of its block   *)
(* have been transferred, and what is left to the job is what the request  *)
(* still misses.                                                           *)
WholeBlock ==
  /\ \A e \in InState("Complete") :
       entries[e].success /\ entries[e].op # "Sync" => done[e] = Block_Size
  /\ job.state # "none" => done[job.index] + job.count = Block_Size

(* The only way in which the plugin breaks the protocol of Block_IO is to   *)
(* report once more as taken what this job has taken already, to go on     *)
(* with it: never does it complete a request twice, or one not taken.      *)
RaisedOnlyOnRetry ==
  raised => job.state = "PENDING" /\ entries[job.index].state = "In_Progress"

(* The plugin reports each request once as taken and once as completed, in *)
(* this order: else Block_IO raises Program_Error.                         *)
NoProgramError == ~raised
=============================================================================
