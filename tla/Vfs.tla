-------------------------------- MODULE Vfs ---------------------------------
(***************************************************************************)
(* The VFS plugin (class Wrapper and the data and control files): a data   *)
(* file of bytes on top of a library that knows blocks, one request of the *)
(* data file at a time.  A request that is not aligned to blocks is turned *)
(* into the reading, and the writing, of one helper block.  The control    *)
(* files start requests in the background.                                 *)
(*                                                                         *)
(* The library is modelled as far as the plugin sees it: it works on the   *)
(* head of its pool of requests, may need the back end in each step, and   *)
(* lets other requests pass between the steps of a long one (module        *)
(* RequestPool).  The device answers at any time, with a signal.  All code *)
(* of the plugin runs in one thread: pc is where handle_frontend_request   *)
(* is, and caller for whom it runs.                                        *)
(***************************************************************************)
EXTENDS Integers, FiniteSets, Sequences, SequencesExt

CONSTANTS
  Handles,              \* open handles of the data file
  Nobody,               \* no handle
  BLOCK_SIZE,           \* bytes in a block
  Max_Vba,              \* bound: the last block the device may be extended to
  Max_Count,            \* bound: bytes in a request of a user
  Payload,              \* what users write: bytes, indexed from 0
  Requests,             \* what users ask for: <<operation, offset, count>>
  Background,           \* operations users start through the control files
  Max_Background,       \* bound: such operations at a time
  Nr_Of_Steps,          \* bound: steps of a rekeying or an extension
  Nr_Of_Requests,       \* size of the pool of the library
  Beyond_End            \* operations that users ask for unaligned past the end

In_Background == {"REKEY", "EXTEND_VBD", "CREATE_SNAPSHOT", "DISCARD_SNAPSHOT"}

ASSUME VfsAssumption ==
  /\ BLOCK_SIZE \in Nat \ {0}
  /\ Max_Vba \in Nat /\ Max_Count \in Nat
  /\ DOMAIN Payload = 0 .. Max_Count - 1
  /\ Requests \subseteq {"READ", "WRITE", "SYNC"} \X Nat \X (0 .. Max_Count)
  /\ Background \subseteq In_Background
  /\ Nr_Of_Requests \in Nat \ {0} /\ Nr_Of_Steps \in Nat \ {0}
  /\ Max_Background \in Nat
  /\ {Nobody, "control", "notify"} \cap Handles = {}

VARIABLES
  frontend,      \* _frontend_request
  helper_read,   \* _helper_read_request
  helper_write,  \* _helper_write_request
  enqueued,      \* _enqueued_vfs_handle
  io_pending,    \* _io_progress_pending
  rekey,         \* _rekey_obj
  extend,        \* _extend_obj
  snapshot_requests,  \* operations whose _..._snapshot_request is valid
  pc, caller, progress,  \* the run of handle_frontend_request
  thrown,        \* whether the plugin has thrown -1
  pool,          \* the requests in the library
  bytes,         \* the blocks of the virtual block device, byte by byte
  max_vba,       \* the last block of the virtual block device
  io,            \* the request of the library for the back end, and its Io_job
  io_signal,     \* an I/O signal of the back end is pending
  users,         \* what the user of each handle has asked for
  buffer         \* the user's buffer for a request of the handle

wrapper == <<frontend, helper_read, helper_write, enqueued, io_pending, rekey, extend,
             snapshot_requests, thrown>>
control == <<pc, caller, progress>>
device  == <<bytes, max_vba, io, io_signal>>
vars    == <<wrapper, control, pool, device, users, buffer>>

Size      == (max_vba + 1) * BLOCK_SIZE
Byte      == {0} \cup {Payload[k] : k \in DOMAIN Payload}
Offsets   == 0 .. BLOCK_SIZE - 1
Block(vba) == [k \in Offsets |-> bytes[vba * BLOCK_SIZE + k]]
Zeros     == [k \in Offsets |-> 0]

No_Request == [state |-> "NONE", op |-> "READ", vba |-> 0, blocks |-> 0, count |-> 0,
               helper_offset |-> 0, data |-> Nobody]
No_Helper  == [state |-> "NONE", vba |-> 0, block |-> Zeros]

No_User    == [state |-> "idle", op |-> "READ", offset |-> 0, count |-> 0, out |-> 0,
               woken |-> FALSE]
Unread     == [k \in 0 .. Max_Count - 1 |-> -1]

Library_Request(op, vba, blocks, data) ==
  [op |-> op, vba |-> vba, blocks |-> blocks, data |-> data,
   index |-> 0, phase |-> "run", block |-> Zeros, success |-> TRUE]

(* A rekeying and an extension take several steps, other requests one.     *)
Steps(op) == IF op \in {"REKEY", "EXTEND_VBD"} THEN Nr_Of_Steps ELSE 1

Incomplete    == {i \in DOMAIN pool : pool[i].phase # "complete"}
IsHead(i)     == i \in Incomplete /\ \A k \in Incomplete : i <= k
Client_Request_Acceptable == Len(pool) < Nr_Of_Requests
InLibrary(op) == \E i \in Incomplete : pool[i].op = op

Init ==
  /\ frontend = No_Request /\ helper_read = No_Helper /\ helper_write = No_Helper
  /\ enqueued = Nobody /\ io_pending = FALSE /\ snapshot_requests = {}
  /\ rekey = [state |-> "UNKNOWN", last_result |-> "NONE"]
  /\ extend = [state |-> "UNKNOWN", last_result |-> "NONE"]
  /\ pc = "idle" /\ caller = Nobody /\ progress = FALSE /\ thrown = FALSE
  /\ pool = <<Library_Request("INITIALIZE", 0, 1, Nobody)>>
  /\ bytes = [b \in 0 .. (Max_Vba + 1) * BLOCK_SIZE - 1 |-> 0]
  /\ max_vba \in 0 .. Max_Vba
  /\ io = "none" /\ io_signal = FALSE
  /\ users = [h \in Handles |-> No_User]
  /\ buffer = [h \in Handles |-> Unread]

-----------------------------------------------------------------------------
(***************************************************************************)
(* The library, seen through its interface.                                *)
(***************************************************************************)
Append_To_Pool(r) == pool' = Append(pool, r)

Preponable(r) == r.op \in {"READ", "WRITE", "SYNC", "DISCARD_SNAPSHOT"}

Next_Block(r, success) ==
  [r EXCEPT !.index = @ + 1, !.block = Zeros, !.success = success,
            !.phase = IF r.index + 1 = r.blocks THEN "complete" ELSE "run"]

(* A step of a long request is done: the requests behind it pass.          *)
Let_Others_Pass(i) ==
  LET Passing == {k \in i + 1 .. Len(pool) : \A l \in i + 1 .. k : Preponable(pool[l])}
      last    == IF Passing = {} THEN i ELSE CHOOSE k \in Passing : \A l \in Passing : l <= k
  IN SubSeq(pool, 1, i - 1) \o SubSeq(pool, i + 1, last)
       \o <<Next_Block(pool[i], TRUE)>> \o SubSeq(pool, last + 1, Len(pool))

(* The library needs the back end before it can go on: in any step, and to *)
(* write a block.                                                          *)
Generate_IO(i) ==
  /\ \/ pool[i].phase = "run" /\ pool' = [pool EXCEPT ![i].phase = "io"]
     \/ pool[i].phase = "encrypted" /\ pool' = [pool EXCEPT ![i].phase = "write_io"]
  /\ pool[i].op \in {"READ", "WRITE"} => pool[i].vba + pool[i].index <= max_vba
  /\ io' = "generated"
  /\ UNCHANGED <<bytes, max_vba>>

(* A block that does not exist is completed without success.  One that     *)
(* exists is read, to be decrypted, or the data to be written are asked    *)
(* for.                                                                    *)
Execute_Block(i) ==
  LET r == pool[i]  vba == r.vba + r.index IN
  /\ r.op \in {"READ", "WRITE"} /\ r.phase \in {"run", "io_done"}
  /\ pool' = [pool EXCEPT ![i] =
                IF vba > max_vba THEN Next_Block(r, FALSE)
                ELSE IF r.op = "READ" THEN [r EXCEPT !.phase = "decrypt", !.block = Block(vba)]
                ELSE [r EXCEPT !.phase = "required"]]
  /\ UNCHANGED <<bytes, max_vba, io>>

Write_Block(i) ==
  LET r == pool[i]  first == (r.vba + r.index) * BLOCK_SIZE IN
  /\ r.phase = "write_io_done"
  /\ bytes' = [b \in DOMAIN bytes |->
                 IF b - first \in Offsets THEN r.block[b - first] ELSE bytes[b]]
  /\ pool' = [pool EXCEPT ![i] = Next_Block(r, TRUE)]
  /\ UNCHANGED <<max_vba, io>>

(* The other requests are done, or done with a step.  The request of the   *)
(* library itself that reads the superblock turns into a rekeying, or an   *)
(* extension, that was under way.                                          *)
Execute_Other(i) ==
  LET r == pool[i] IN
  /\ r.op \notin {"READ", "WRITE"} /\ r.phase \in {"run", "io_done"}
  /\ \/ /\ r.op # "INITIALIZE" /\ r.index + 1 = r.blocks
        /\ pool' = [pool EXCEPT ![i] = Next_Block(r, TRUE)]
        /\ max_vba' = IF r.op = "EXTEND_VBD" /\ max_vba < Max_Vba THEN max_vba + 1 ELSE max_vba
     \/ /\ r.op # "INITIALIZE" /\ r.index + 1 < r.blocks
        /\ pool' = Let_Others_Pass(i)
        /\ UNCHANGED max_vba
     \/ /\ r.op = "INITIALIZE"
        /\ \/ pool' = RemoveAt(pool, i)
           \/ \E op \in {"REKEY", "EXTEND_VBD"} \cap Background :
                pool' = [pool EXCEPT ![i] = Library_Request(op, 0, Steps(op), Nobody)]
        /\ UNCHANGED max_vba
  /\ UNCHANGED <<bytes, io>>

Library_Waits(i) == pool[i].phase \notin {"run", "io_done", "encrypted", "write_io_done"}

-----------------------------------------------------------------------------
(***************************************************************************)
(* handle_frontend_request: pass after pass through the front end, the     *)
(* back end and the crypto functions, until nothing makes progress.        *)
(***************************************************************************)
Handle_Frontend_Request(for) == pc' = "submit" /\ caller' = for /\ progress' = FALSE

Submit_Helper_Read ==
  /\ helper_read.state = "PENDING" /\ Client_Request_Acceptable
  /\ Append_To_Pool(Library_Request("READ", helper_read.vba, 1, Nobody))
  /\ helper_read' = [helper_read EXCEPT !.state = "IN_PROGRESS"]
  /\ UNCHANGED <<helper_write, frontend>>

Submit_Helper_Write_Keeps_Pending ==
  /\ helper_write.state = "PENDING" /\ Client_Request_Acceptable
  /\ Append_To_Pool(Library_Request("WRITE", helper_write.vba, 1, Nobody))
  /\ UNCHANGED <<helper_read, helper_write, frontend>>

Submit_Helper_Write ==
  /\ helper_write.state = "PENDING" /\ Client_Request_Acceptable
  /\ Append_To_Pool(Library_Request("WRITE", helper_write.vba, 1, Nobody))
  /\ helper_write' = [helper_write EXCEPT !.state = "IN_PROGRESS"]
  /\ UNCHANGED <<helper_read, frontend>>

Out_Of_Range == frontend.vba > max_vba \/ frontend.vba + frontend.blocks > max_vba + 1

Submit_Frontend ==
  /\ frontend.state = "PENDING" /\ ~Out_Of_Range /\ Client_Request_Acceptable
  /\ Append_To_Pool(Library_Request(frontend.op, frontend.vba, frontend.blocks, frontend.data))
  /\ frontend' = [frontend EXCEPT !.state = "IN_PROGRESS"]
  /\ UNCHANGED <<helper_read, helper_write>>

Something_Pending == "PENDING" \in {helper_read.state, helper_write.state, frontend.state}

Submit_Requests ==
  /\ pc = "submit"
  /\ \/ Submit_Helper_Read \/ Submit_Helper_Write \/ Submit_Frontend
     \/ /\ ~Something_Pending \/ ~Client_Request_Acceptable
        /\ ~(frontend.state = "PENDING" /\ Out_Of_Range)
        /\ UNCHANGED <<pool, frontend, helper_read, helper_write>>
  /\ pc' = "execute"
  /\ UNCHANGED <<enqueued, io_pending, rekey, extend, snapshot_requests, thrown, caller,
                 progress, device, users, buffer>>

(* A request out of range ends this pass through the front end. *)
Reject_Frontend ==
  /\ pc = "submit"
  /\ frontend.state = "PENDING" /\ Out_Of_Range
  /\ frontend' = [frontend EXCEPT !.state = "ERROR_EOF"]
  /\ pc' = "backend"
  /\ UNCHANGED <<helper_read, helper_write, enqueued, io_pending, rekey, extend,
                 snapshot_requests, thrown, caller, progress, pool, device, users, buffer>>

Execute ==
  /\ pc = "execute" /\ pc' = "complete"
  /\ \/ /\ Incomplete = {} \/ \E i \in Incomplete : IsHead(i) /\ Library_Waits(i)
        /\ UNCHANGED <<pool, bytes, max_vba, io, progress>>
     \/ \E i \in Incomplete :
          /\ IsHead(i)
          /\ Generate_IO(i) \/ Execute_Block(i) \/ Write_Block(i) \/ Execute_Other(i)
          /\ progress' = TRUE
  /\ UNCHANGED <<wrapper, caller, io_signal, users, buffer>>

-----------------------------------------------------------------------------
(* What becomes of a request that the library has completed.               *)
Finished(success) ==
  [state |-> "IDLE", last_result |-> IF success THEN "SUCCESS" ELSE "FAILED"]

Complete_Background(r) ==
  \/ /\ r.op = "REKEY" /\ rekey' = Finished(r.success)
     /\ UNCHANGED <<extend, snapshot_requests>>
  \/ /\ r.op = "EXTEND_VBD" /\ extend' = Finished(r.success)
     /\ UNCHANGED <<rekey, snapshot_requests>>
  \/ /\ r.op \in {"CREATE_SNAPSHOT", "DISCARD_SNAPSHOT"}
     /\ snapshot_requests' = snapshot_requests \ {r.op}
     /\ UNCHANGED <<rekey, extend>>

Complete_Data(r) ==
  \/ /\ ~r.success
     /\ helper_read' = No_Helper /\ helper_write' = No_Helper
     /\ frontend' = [frontend EXCEPT !.state = "COMPLETE"]
  \/ /\ r.success /\ helper_read.state = "IN_PROGRESS"
     /\ helper_read' = [helper_read EXCEPT !.state = "COMPLETE"]
     /\ UNCHANGED <<helper_write, frontend>>
  \/ /\ r.success /\ helper_read.state # "IN_PROGRESS" /\ helper_write.state = "IN_PROGRESS"
     /\ helper_write' = [helper_write EXCEPT !.state = "COMPLETE"]
     /\ UNCHANGED <<helper_read, frontend>>
  \/ /\ r.success /\ "IN_PROGRESS" \notin {helper_read.state, helper_write.state}
     /\ frontend' = [frontend EXCEPT !.state = "COMPLETE"]
     /\ UNCHANGED <<helper_read, helper_write>>

Of_Data_File_Or_Snapshot(r) ==
  r.op \in {"READ", "WRITE", "SYNC", "CREATE_SNAPSHOT", "DISCARD_SNAPSHOT"}

Of_Data_File(r) == r.op \in {"READ", "WRITE", "SYNC"}

(* One pass of the loop over the completed requests: a data request that   *)
(* failed leaves the loop.                                                 *)
Drop_Completed(i) ==
  /\ pc = "complete" /\ pool[i].phase = "complete"
  /\ pool' = RemoveAt(pool, i)
  /\ progress' = TRUE
  /\ \/ /\ Of_Data_File(pool[i])
        /\ Complete_Data(pool[i])
        /\ pc' = IF pool[i].success THEN "complete" ELSE "helpers"
        /\ UNCHANGED <<rekey, extend, snapshot_requests>>
     \/ /\ ~Of_Data_File(pool[i])
        /\ Complete_Background(pool[i])
        /\ pc' = "complete"
        /\ UNCHANGED <<helper_read, helper_write, frontend>>
  /\ UNCHANGED <<enqueued, io_pending, thrown, caller, device, users, buffer>>

-----------------------------------------------------------------------------
(* What becomes of a helper request that is complete: the part of its block *)
(* that was asked for is given to the user, or replaced in the block that   *)
(* is written next.                                                         *)
Part_To_End_Of_Block(k) == k >= frontend.helper_offset

Part(k) == k - frontend.helper_offset \in 0 .. frontend.count - 1

Helper_Read_Complete ==
  /\ helper_read.state = "COMPLETE"
  /\ \/ /\ frontend.op = "READ"
        /\ buffer' = [buffer EXCEPT ![frontend.data] =
             [k \in DOMAIN @ |-> IF k < frontend.count
                                   THEN helper_read.block[frontend.helper_offset + k] ELSE @[k]]]
        /\ frontend' = [frontend EXCEPT !.state = "COMPLETE"]
        /\ UNCHANGED helper_write
     \/ /\ frontend.op = "WRITE"
        /\ helper_write' = [state |-> "PENDING", vba |-> helper_read.vba,
             block |-> [k \in Offsets |-> IF Part(k) THEN Payload[k - frontend.helper_offset]
                                                     ELSE helper_read.block[k]]]
        /\ UNCHANGED <<buffer, frontend>>
  /\ helper_read' = No_Helper

Helper_Write_Complete ==
  /\ helper_write.state = "COMPLETE"
  /\ helper_write' = No_Helper
  /\ frontend' = [frontend EXCEPT !.state = "COMPLETE"]
  /\ UNCHANGED <<buffer, helper_read>>

Helpers_Complete ==
  /\ pc = "helpers" \/ (pc = "complete" /\ Incomplete = DOMAIN pool)
  /\ pc' = "client_data"
  /\ \/ /\ Helper_Read_Complete \/ Helper_Write_Complete
        /\ progress' = TRUE
     \/ /\ "COMPLETE" \notin {helper_read.state, helper_write.state}
        /\ UNCHANGED <<buffer, frontend, helper_read, helper_write, progress>>
  /\ UNCHANGED <<enqueued, io_pending, rekey, extend, snapshot_requests, thrown, caller,
                 pool, device, users>>

-----------------------------------------------------------------------------
(* The library has a block for the user, or needs one of the user's.  The  *)
(* helper request comes first: while it is in progress, the request of the *)
(* user is so, too.                                                        *)
Client_Data_Ready(i) ==
  LET r == pool[i] IN
  /\ r.phase = "ready"
  /\ \/ /\ helper_read.state = "IN_PROGRESS"
        /\ helper_read' = [helper_read EXCEPT !.block = r.block]
        /\ UNCHANGED <<buffer, thrown>>
     \/ /\ helper_read.state # "IN_PROGRESS" /\ frontend.state = "IN_PROGRESS"
        /\ buffer' = [buffer EXCEPT ![r.data] =
             [k \in DOMAIN @ |-> IF k - r.index * BLOCK_SIZE \in Offsets
                                   THEN r.block[k - r.index * BLOCK_SIZE] ELSE @[k]]]
        /\ UNCHANGED <<helper_read, thrown>>
     \/ /\ "IN_PROGRESS" \notin {helper_read.state, frontend.state}
        /\ thrown' = TRUE
        /\ UNCHANGED <<helper_read, buffer>>
  /\ pool' = [pool EXCEPT ![i] = Next_Block(r, TRUE)]

Client_Data_Required(i) ==
  LET r == pool[i]
      Supply(block) == pool' = [pool EXCEPT ![i].block = block, ![i].phase = "encrypt"]
  IN
  /\ r.phase = "required"
  /\ \/ /\ helper_write.state = "IN_PROGRESS"
        /\ Supply(helper_write.block)
        /\ UNCHANGED thrown
     \/ /\ helper_write.state # "IN_PROGRESS" /\ frontend.state = "IN_PROGRESS"
        /\ Supply([k \in Offsets |-> Payload[r.index * BLOCK_SIZE + k]])
        /\ UNCHANGED thrown
     \/ /\ "IN_PROGRESS" \notin {helper_write.state, frontend.state}
        /\ thrown' = TRUE
        /\ UNCHANGED pool
  /\ UNCHANGED <<helper_read, buffer>>

Client_Data ==
  /\ pc = "client_data" /\ pc' = "backend"
  /\ \/ /\ \E i \in Incomplete : IsHead(i) /\ (Client_Data_Ready(i) \/ Client_Data_Required(i))
        /\ progress' = TRUE
     \/ /\ \A i \in Incomplete : IsHead(i) => pool[i].phase \notin {"ready", "required"}
        /\ UNCHANGED <<pool, helper_read, buffer, thrown, progress>>
  /\ UNCHANGED <<frontend, helper_write, enqueued, io_pending, rekey, extend,
                 snapshot_requests, caller, device, users>>

-----------------------------------------------------------------------------
(* The job of the back end.  The device may answer at once.                *)
IO_Done ==
  /\ io' = "none"
  /\ \E i \in Incomplete :
       /\ IsHead(i)
       /\ pool' = [pool EXCEPT ![i].phase =
                     IF @ = "io" THEN "io_done" ELSE "write_io_done"]

Handle_Cbe_Backend ==
  \/ /\ io = "generated"
     /\ \/ io' = "submitted" /\ UNCHANGED pool
        \/ IO_Done
  \/ io = "finished" /\ IO_Done

(* Blocks are encrypted and decrypted at once. *)
Handle_Crypto ==
  /\ \E i \in Incomplete :
       /\ IsHead(i) /\ pool[i].phase \in {"decrypt", "encrypt"}
       /\ pool' = [pool EXCEPT ![i].phase = IF @ = "decrypt" THEN "ready" ELSE "encrypted"]
  /\ UNCHANGED io

(* The rest of a pass: back end and crypto functions.  Of these only one    *)
(* can have something to do, as the library works on one block at a time.  *)
Backend_And_Crypto ==
  /\ pc = "backend" /\ progress' = FALSE
  /\ \/ /\ Handle_Cbe_Backend \/ Handle_Crypto
        /\ pc' = "submit"
     \/ /\ io \in {"none", "submitted"}
        /\ \A i \in Incomplete : IsHead(i) => pool[i].phase \notin {"decrypt", "encrypt"}
        /\ pc' = IF progress THEN "submit" ELSE "return"
        /\ UNCHANGED <<io, pool>>
  /\ UNCHANGED <<wrapper, caller, bytes, max_vba, io_signal, users, buffer>>

-----------------------------------------------------------------------------
(* No progress: handle_frontend_request returns to its caller.             *)
InfoValid == ~InLibrary("INITIALIZE")

Look_At_Info_Unchecked ==
  LET Known(obj, op) ==
        IF obj.state = "UNKNOWN"
          THEN [obj EXCEPT !.state = IF InLibrary(op) THEN "IN_PROGRESS" ELSE "IDLE"]
          ELSE obj
  IN rekey' = Known(rekey, "REKEY") /\ extend' = Known(extend, "EXTEND_VBD")

Look_At_Info ==
  LET Known(obj, op) ==
        IF obj.state = "UNKNOWN" /\ InfoValid
          THEN [obj EXCEPT !.state = IF InLibrary(op) THEN "IN_PROGRESS" ELSE "IDLE"]
          ELSE obj
  IN rekey' = Known(rekey, "REKEY") /\ extend' = Known(extend, "EXTEND_VBD")

Ack_Frontend_Request == frontend' = No_Request /\ enqueued' = Nobody

(* The end of read, write and sync, by the state of the request that the   *)
(* plugin holds.                                                           *)
Queued_Without_Handle(h) ==
  /\ frontend.state \in {"PENDING", "IN_PROGRESS"}
  /\ users' = [users EXCEPT ![h].state = "queued"]
  /\ UNCHANGED <<enqueued, io_pending, frontend, buffer>>

Queued(h) ==
  /\ frontend.state \in {"PENDING", "IN_PROGRESS"}
  /\ enqueued' = h
  /\ io_pending' = FALSE
  /\ users' = [users EXCEPT ![h].state = "queued", ![h].woken = io_pending]
  /\ UNCHANGED <<frontend, buffer>>

Answered(h) ==
  /\ frontend.state \in {"COMPLETE", "ERROR_EOF"}
  /\ users' = [users EXCEPT ![h] =
       [No_User EXCEPT !.out = IF frontend.state = "COMPLETE" THEN frontend.count ELSE 0]]
  /\ buffer' = [buffer EXCEPT ![h] = Unread]
  /\ Ack_Frontend_Request
  /\ UNCHANGED io_pending

Return ==
  /\ pc = "return"
  /\ pc' = "idle" /\ caller' = Nobody /\ UNCHANGED progress
  /\ Look_At_Info
  /\ \/ \E h \in Handles : caller = h /\ (Queued(h) \/ Answered(h))
     \/ /\ caller \notin Handles
        /\ io_pending' = (io_pending \/ caller = "notify")
        /\ UNCHANGED <<frontend, enqueued, users, buffer>>
  /\ UNCHANGED <<helper_read, helper_write, snapshot_requests, thrown, pool, device>>

-----------------------------------------------------------------------------
(***************************************************************************)
(* Users of the data file: read, write and sync of a handle.  A call that  *)
(* is queued is made again, with the same arguments.                       *)
(***************************************************************************)
Unaligned(offset, count) == (offset % BLOCK_SIZE) # 0 \/ count < BLOCK_SIZE

Helper_Offset_In_File(offset) == offset

Helper_Offset(offset) == offset % BLOCK_SIZE

Minimum(a, b) == IF a <= b THEN a ELSE b

Submit_Frontend_Request(h, op, offset, count) ==
  LET vba  == offset \div BLOCK_SIZE
      skip == Helper_Offset(offset)
      request == [No_Request EXCEPT !.op = op, !.data = h]
  IN
  \/ /\ op = "SYNC"
     /\ frontend' = [request EXCEPT !.state = "PENDING", !.blocks = 1]
     /\ UNCHANGED helper_read
  \/ /\ op # "SYNC" /\ Unaligned(offset, count)
     /\ helper_read' = [state |-> "PENDING", vba |-> vba, block |-> Zeros]
     /\ frontend' = [request EXCEPT !.state = "IN_PROGRESS", !.vba = vba,
                       !.helper_offset = skip, !.count = Minimum(count, BLOCK_SIZE - skip)]
  \/ /\ op # "SYNC" /\ ~Unaligned(offset, count)
     /\ frontend' = [request EXCEPT !.state = "PENDING", !.vba = vba,
                       !.blocks = count \div BLOCK_SIZE, !.count = count - (count % BLOCK_SIZE)]
     /\ UNCHANGED helper_read

Call(h, op, offset, count) ==
  /\ pc = "idle"
  /\ \/ /\ frontend.state = "NONE" /\ ~Client_Request_Acceptable
        /\ users' = [users EXCEPT ![h] = [state |-> "queued", op |-> op, offset |-> offset,
                                          count |-> count, out |-> 0, woken |-> FALSE]]
        /\ UNCHANGED <<control, frontend, helper_read>>
     \/ /\ frontend.state # "NONE" \/ Client_Request_Acceptable
        /\ users' = [users EXCEPT ![h] = [state |-> "calling", op |-> op, offset |-> offset,
                                          count |-> count, out |-> 0, woken |-> FALSE]]
        /\ IF frontend.state = "NONE"
             THEN Submit_Frontend_Request(h, op, offset, count)
             ELSE UNCHANGED <<frontend, helper_read>>
        /\ Handle_Frontend_Request(h)
  /\ UNCHANGED <<helper_write, enqueued, io_pending, rekey, extend, snapshot_requests, thrown,
                 pool, device, buffer>>

Ask(h, op, offset, count) ==
  /\ users[h].state = "idle"
  /\ op \in Beyond_End \/ offset < Size \/ ~Unaligned(offset, count)
  /\ Call(h, op, offset, count)

Retry(h) ==
  /\ users[h].state = "queued"
  /\ Call(h, users[h].op, users[h].offset, users[h].count)

-----------------------------------------------------------------------------
(* Users of the control files.  What they read of an operation: *)
Shown(obj) ==
  [state  |-> CASE obj.state = "UNKNOWN" -> "unknown" [] obj.state = "IDLE" -> "idle"
                [] obj.state = "IN_PROGRESS" -> "in-progress",
   result |-> CASE obj.state = "IN_PROGRESS" \/ obj.last_result = "NONE" -> "none"
                [] obj.state # "IN_PROGRESS" /\ obj.last_result = "SUCCESS" -> "success"
                [] obj.state # "IN_PROGRESS" /\ obj.last_result = "FAILED" -> "failed"]

Start(op) ==
  /\ pc = "idle" /\ op \in Background /\ Client_Request_Acceptable
  /\ Cardinality({o \in In_Background : InLibrary(o)}) < Max_Background
  /\ Append_To_Pool(Library_Request(op, 0, Steps(op), Nobody))
  /\ Handle_Frontend_Request("control")
  /\ UNCHANGED <<frontend, helper_read, helper_write, enqueued, io_pending, thrown, device,
                 users, buffer>>

Start_Rekeying ==
  /\ rekey.state = "IDLE"
  /\ rekey' = [state |-> "IN_PROGRESS", last_result |-> "FAILED"]
  /\ Start("REKEY")
  /\ UNCHANGED <<extend, snapshot_requests>>

Start_Extending ==
  /\ extend.state = "IDLE"
  /\ extend' = [state |-> "IN_PROGRESS", last_result |-> "NONE"]
  /\ Start("EXTEND_VBD")
  /\ UNCHANGED <<rekey, snapshot_requests>>

Create_Or_Discard_Snapshot(op) ==
  /\ op \in {"CREATE_SNAPSHOT", "DISCARD_SNAPSHOT"} \ snapshot_requests
  /\ snapshot_requests' = snapshot_requests \cup {op}
  /\ Start(op)
  /\ UNCHANGED <<rekey, extend>>

-----------------------------------------------------------------------------
(* The device, and the signal with which it answers.  It may answer at any *)
(* time, but what it answers, and the signal, are looked at there only.    *)
Device_Answers ==
  /\ io = "submitted" /\ pc \in {"idle", "backend"}
  /\ io' = "finished" /\ io_signal' = TRUE
  /\ UNCHANGED <<wrapper, control, pool, bytes, max_vba, users, buffer>>

Handle_IO_Of_Enqueued ==
  /\ pc = "idle" /\ io_signal
  /\ io_signal' = FALSE
  /\ users' = [h \in Handles |-> [users[h] EXCEPT !.woken = @ \/ h = enqueued]]
  /\ UNCHANGED <<wrapper, control, pool, bytes, max_vba, io, buffer>>

Handle_IO ==
  /\ pc = "idle" /\ io_signal
  /\ io_signal' = FALSE
  /\ \/ /\ enqueued # Nobody
        /\ users' = [users EXCEPT ![enqueued].woken = TRUE]
        /\ UNCHANGED control
     \/ /\ enqueued = Nobody
        /\ Handle_Frontend_Request("notify")
        /\ UNCHANGED users
  /\ UNCHANGED <<wrapper, pool, bytes, max_vba, io, buffer>>

-----------------------------------------------------------------------------
Handling ==
  \/ Submit_Requests \/ Reject_Frontend \/ Execute
  \/ \E i \in DOMAIN pool : Drop_Completed(i)
  \/ Helpers_Complete \/ Client_Data \/ Backend_And_Crypto \/ Return

Control_Files ==
  \/ Start_Rekeying \/ Start_Extending
  \/ \E op \in {"CREATE_SNAPSHOT", "DISCARD_SNAPSHOT"} : Create_Or_Discard_Snapshot(op)

Data_File(h) ==
  \/ \E r \in Requests : Ask(h, r[1], r[2], r[3])
  \/ Retry(h)

Next ==
  /\ ~thrown
  /\ \/ Handling \/ Control_Files \/ Device_Answers \/ Handle_IO
     \/ \E h \in Handles : Data_File(h)

Spec == Init /\ [][Next]_vars
-----------------------------------------------------------------------------
Request_Type ==
  [op : {"READ", "WRITE", "SYNC", "INITIALIZE"} \cup In_Background,
   vba : Nat, blocks : Nat, data : Handles \cup {Nobody}, index : Nat,
   phase : {"run", "io", "io_done", "decrypt", "ready", "required", "encrypt", "encrypted",
            "write_io", "write_io_done", "complete"},
   block : [Offsets -> Byte], success : BOOLEAN]

Helper_Type(states) == [state : states, vba : Nat, block : [Offsets -> Byte]]

TypeOK ==
  /\ frontend \in [state : {"NONE", "PENDING", "IN_PROGRESS", "COMPLETE", "ERROR_EOF"},
                   op : {"READ", "WRITE", "SYNC"}, vba : Nat, blocks : Nat,
                   count : 0 .. Max_Count, helper_offset : Offsets,
                   data : Handles \cup {Nobody}]
  /\ helper_read \in Helper_Type({"NONE", "PENDING", "IN_PROGRESS", "COMPLETE"})
  /\ helper_write \in Helper_Type({"NONE", "PENDING", "IN_PROGRESS", "COMPLETE"})
  /\ enqueued \in Handles \cup {Nobody} /\ io_pending \in BOOLEAN
  /\ snapshot_requests \subseteq In_Background
  /\ rekey.state \in {"UNKNOWN", "IDLE", "IN_PROGRESS"}
  /\ extend.state \in {"UNKNOWN", "IDLE", "IN_PROGRESS"}
  /\ \A i \in DOMAIN pool : pool[i] \in Request_Type
  /\ Len(pool) <= Nr_Of_Requests
  /\ bytes \in [0 .. (Max_Vba + 1) * BLOCK_SIZE - 1 -> Byte] /\ max_vba \in 0 .. Max_Vba
  /\ io \in {"none", "generated", "submitted", "finished"} /\ io_signal \in BOOLEAN
  /\ \A h \in Handles : users[h].state \in {"idle", "calling", "queued"}

(* The library never asks for, or offers, a block when no request of the   *)
(* data file is in progress: the plugin would not know where it belongs.   *)
NoThrow == ~thrown

(* A request that the plugin holds as in progress is worked on: the        *)
(* library has it, or a helper request for it is about to be submitted;    *)
(* and the library never has two requests of the data file, whose blocks   *)
(* the plugin could not tell apart.                                        *)
RequestIsWorkedOn ==
  LET OfDataFile == {i \in DOMAIN pool : pool[i].op \in {"READ", "WRITE", "SYNC"}} IN
  /\ \A i, k \in OfDataFile : i = k
  /\ pc = "idle" =>
       (frontend.state = "IN_PROGRESS" <=>
          OfDataFile # {} \/ "PENDING" \in {helper_read.state, helper_write.state})

(* What the control files say is so: an operation is in progress as long   *)
(* as the library works on it, and is not forgotten, also if it was under  *)
(* way before the start, or is done before the call that started it is;    *)
(* and no operation is said to have failed, since none does.               *)
ControlFilesTruthful ==
  pc = "idle" =>
    /\ Shown(rekey).state # "unknown" => (Shown(rekey).state = "in-progress" <=> InLibrary("REKEY"))
    /\ Shown(extend).state # "unknown" =>
         (Shown(extend).state = "in-progress" <=> InLibrary("EXTEND_VBD"))
    /\ "failed" \notin {Shown(rekey).result, Shown(extend).result}
    /\ \A op \in {"CREATE_SNAPSHOT", "DISCARD_SNAPSHOT"} :
         op \in snapshot_requests <=> InLibrary(op)

(* A user who waits for the answer of a request is woken: it has been told *)
(* to try again, a signal is on its way to tell it, or the device has not  *)
(* answered yet.                                                           *)
NoLostWakeup ==
  pc = "idle" => \A h \in Handles :
    users[h].state = "queued" => users[h].woken \/ io_signal \/ io = "submitted"

(* The data file is a file of bytes.  A user's request counts as accepted  *)
(* when the plugin has handed it, or its helper, to the library.           *)
Accepted(h) ==
  /\ users[h].state # "idle"
  /\ frontend.data = h
  /\ frontend.state \in {"IN_PROGRESS", "COMPLETE", "ERROR_EOF"}
  /\ helper_read.state # "PENDING"

Out(h) == IF frontend.state = "ERROR_EOF" THEN 0 ELSE frontend.count

ByteFile_Users ==
  [h \in Handles |->
     IF users[h].state = "idle" THEN [state |-> "idle", op |-> "READ", offset |-> 0, count |-> 0,
                                      data |-> <<>>]
     ELSE [op |-> users[h].op, offset |-> users[h].offset, count |-> users[h].count,
           state |-> IF Accepted(h) THEN "accepted" ELSE "asked",
           data  |-> IF Accepted(h) THEN [k \in 0 .. Out(h) - 1 |-> buffer[h][k]] ELSE <<>>]]

File == INSTANCE ByteFile WITH size <- Size, users <- ByteFile_Users,
                               Max_Size <- (Max_Vba + 1) * BLOCK_SIZE

ImplementsByteFile == File!Spec
=============================================================================
