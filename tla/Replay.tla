------------------------------- MODULE Replay -------------------------------
(***************************************************************************)
(* The component vfs_replay (class Vfs_replay): it carries out a list of   *)
(* requests on the data file of the VFS plugin, which runs in the same     *)
(* thread, one after the other, and each in as many calls as it takes.  It *)
(* goes on when it is told of progress: after each I/O signal, and by the  *)
(* signal that the plugin sends for the handle it has enqueued.            *)
(***************************************************************************)
EXTENDS Vfs

CONSTANT file   \* _vfs_handle

ASSUME ReplayAssumption == file \in Handles

VARIABLES
  request,      \* _current_request
  step,         \* where _process_replay is: waiting for a signal, at the start
                \* of its loop, in a call of the plugin, or to be run next
  local,        \* progress, in the run of _handle_request
  finished,     \* _finished
  reactivate    \* the signal for _reactivate_handler is pending

replay == <<request, step, local, finished, reactivate>>

No_Current_Request ==
  [type |-> "INVALID", state |-> "NONE", offset |-> 0, count |-> 0,
   current_offset |-> 0, current_count |-> 0, success |-> FALSE, complete |-> FALSE]

ReplayInit ==
  /\ Init
  /\ request = No_Current_Request /\ step = "loop" /\ local = FALSE
  /\ finished = FALSE /\ reactivate = FALSE

Running == pc = "idle" /\ step = "loop" /\ ~finished

(* The end of the loop in _process_replay: the list may go on or end. *)
Next_Node ==
  \/ step' = "loop" /\ UNCHANGED finished
  \/ step' = "waiting" /\ finished' = TRUE

-----------------------------------------------------------------------------
(* _handle_request, with the next node of the list.  All states up to the  *)
(* one that makes the call fall through.                                   *)
Begin(type, offset, count) ==
  /\ Running /\ request.state = "NONE"
  /\ \/ offset + count <= Size
     \/ /\ type \in Beyond_End /\ Unaligned(offset, count)
        /\ (offset % BLOCK_SIZE) + count <= BLOCK_SIZE
  /\ request' = [type |-> type, state |-> "IN_PROGRESS", offset |-> offset, count |-> count,
                 current_offset |-> offset, current_count |-> count,
                 success |-> FALSE, complete |-> FALSE]
  /\ step' = "calling" /\ local' = TRUE
  /\ Ask(file, type, offset, count)
  /\ UNCHANGED <<finished, reactivate>>

(* A node of a type that it does not know: the request before it decides. *)
Begin_Invalid ==
  /\ Running /\ request.state = "NONE"
  /\ request' = [request EXCEPT !.type = "INVALID", !.complete = TRUE]
  /\ \/ request.success /\ Next_Node
     \/ ~request.success /\ step' = "waiting" /\ finished' = TRUE
  /\ UNCHANGED <<vars, local, reactivate>>

Proceed ==
  /\ Running /\ request.state # "NONE"
  /\ request' = [request EXCEPT !.state = "IN_PROGRESS"]
  /\ step' = "calling" /\ local' = (request.state = "PENDING")
  /\ Call(file, request.type, request.current_offset, request.current_count)
  /\ UNCHANGED <<finished, reactivate>>

(* The call returns.  Whether the loop goes on depends on the progress     *)
(* that was made before the call.                                          *)
Go_On == step' = (IF local THEN "loop" ELSE "waiting") /\ UNCHANGED finished

Call_Queued ==
  /\ pc = "idle" /\ step = "calling" /\ users[file].state = "queued"
  /\ Go_On
  /\ UNCHANGED <<vars, request, local, reactivate>>

Call_Answered_At_Start ==
  /\ pc = "idle" /\ step = "calling" /\ users[file].state = "idle"
  /\ LET left == request.current_count - users[file].out
         all  == request.type = "SYNC" \/ left = 0
     IN /\ request' = [request EXCEPT
             !.current_count = left, !.success = TRUE, !.complete = all,
             !.state = IF all THEN "NONE" ELSE "PENDING"]
        /\ IF all THEN Next_Node ELSE Go_On
  /\ UNCHANGED <<vars, local, reactivate>>

Call_Answered ==
  /\ pc = "idle" /\ step = "calling" /\ users[file].state = "idle"
  /\ LET left == request.current_count - users[file].out
         all  == request.type = "SYNC" \/ left = 0
     IN /\ request' = [request EXCEPT
             !.current_offset = @ + users[file].out, !.current_count = left,
             !.success = TRUE, !.complete = all,
             !.state = IF all THEN "NONE" ELSE "PENDING"]
        /\ IF all THEN Next_Node ELSE Go_On
  /\ UNCHANGED <<vars, local, reactivate>>

-----------------------------------------------------------------------------
(* Signals: the entry point handles one at a time, while nothing runs. *)
Idle == pc = "idle" /\ step = "waiting"

(* An I/O signal goes to the plugin; when the plugin is done the entry     *)
(* point calls handle_io_progress.                                         *)
Dispatch_IO_Signal ==
  /\ Idle /\ Handle_IO
  /\ step' = "after_io"
  /\ UNCHANGED <<request, local, finished>>

Handle_IO_Progress_By_Response ==
  /\ pc = "idle" /\ step = "after_io"
  /\ step' = "waiting"
  /\ UNCHANGED <<vars, request, local, finished, reactivate>>

Handle_IO_Progress ==
  /\ pc = "idle" /\ step = "after_io"
  /\ step' = IF finished THEN "waiting" ELSE "loop"
  /\ UNCHANGED <<vars, request, local, finished, reactivate>>

Dispatch_Reactivate ==
  /\ Idle /\ reactivate
  /\ reactivate' = FALSE
  /\ step' = IF finished THEN "waiting" ELSE "loop"
  /\ UNCHANGED <<vars, request, local, finished>>

(* io_progress_response, called by the plugin for the handle. *)
Response == reactivate' = (reactivate \/ (users'[file].woken /\ ~users[file].woken))

-----------------------------------------------------------------------------
Vfs_replay ==
  \/ \E r \in Requests : Begin(r[1], r[2], r[3])
  \/ Begin_Invalid \/ Proceed \/ Call_Queued \/ Call_Answered
  \/ Handle_IO_Progress \/ Dispatch_Reactivate
  \/ Dispatch_IO_Signal /\ Response

Plugin == Handling /\ Response /\ UNCHANGED <<request, step, local, finished>>

Device == Device_Answers /\ UNCHANGED replay

ReplayNext == ~thrown /\ (Vfs_replay \/ Plugin \/ Device)

(* The thread runs, and the device answers.  The control files are not     *)
(* used: nobody else has access to the file system of this component.      *)
ReplayVars == <<vars, replay>>

ReplaySpec ==
  /\ ReplayInit /\ [][ReplayNext]_ReplayVars
  /\ WF_ReplayVars(~thrown /\ (Vfs_replay \/ Plugin))
  /\ WF_ReplayVars(~thrown /\ Device)

-----------------------------------------------------------------------------
(* A request of the list is finished, however many calls it takes and in   *)
(* whatever order the device answers, signals are handled, and a rekeying  *)
(* that was under way goes on: no call waits for a signal that never comes. *)
RequestFinishes == request.state # "NONE" ~> request.state = "NONE"

(* A rekeying and an extension are finished although the plugin only works *)
(* on them when somebody calls it.                                         *)
BackgroundFinishes ==
  \A op \in Background : InLibrary(op) ~> ~InLibrary(op)

(* What has been reported as written is in the file, all of it: no part of *)
(* a request that took several calls is left out, or put elsewhere.        *)
ReplayedIsStored ==
  request.complete /\ request.type = "WRITE" /\ request.state = "NONE" =>
    \A b \in request.offset .. request.offset + request.count - 1 : bytes[b] = Payload[0]
=============================================================================
