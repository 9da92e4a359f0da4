------------------------------ MODULE ByteFile ------------------------------
(***************************************************************************)
(* What the users of the data file of the VFS plugin may rely on: a file   *)
(* of bytes.  A request is accepted for its first bytes, as many as the    *)
(* plugin likes; it then affects these bytes only, and is answered when    *)
(* all of them are written or read.                                        *)
(***************************************************************************)
EXTENDS Integers

CONSTANTS
  Handles,   \* handles of the file
  Payload,   \* what the users write: a sequence of bytes, indexed from 0
  Max_Size   \* bound on the size of the file

VARIABLES
  bytes,     \* the content, up to the bound
  size,      \* the current size of the file
  users      \* what the user of each handle waits for, and what it got so far

vars == <<bytes, size, users>>

Positions == DOMAIN Payload

No_User == [state |-> "idle", op |-> "READ", offset |-> 0, count |-> 0, data |-> <<>>]

Bytes_Of(h) == DOMAIN users[h].data

Request(h, op, offset, count) ==
  /\ users[h] = No_User
  /\ users' = [users EXCEPT ![h] = [state |-> "asked", op |-> op, offset |-> offset,
                                    count |-> count, data |-> <<>>]]
  /\ UNCHANGED <<bytes, size>>

Accept(h, out) ==
  /\ users[h].state = "asked"
  /\ out \in 0 .. users[h].count
  /\ out = 0 \/ users[h].offset + out <= size
  /\ users' = [users EXCEPT ![h].state = "accepted", ![h].data = [k \in 0 .. out - 1 |-> -1]]
  /\ UNCHANGED <<bytes, size>>

Read(h, some) ==
  /\ users[h].state = "accepted" /\ users[h].op = "READ"
  /\ some \subseteq Bytes_Of(h)
  /\ users' = [users EXCEPT ![h].data =
       [k \in DOMAIN @ |-> IF k \in some THEN bytes[users[h].offset + k] ELSE @[k]]]
  /\ UNCHANGED <<bytes, size>>

Write(h, some) ==
  /\ users[h].state = "accepted" /\ users[h].op = "WRITE"
  /\ some \subseteq Bytes_Of(h)
  /\ bytes' = [b \in DOMAIN bytes |->
                 IF b - users[h].offset \in some THEN Payload[b - users[h].offset] ELSE bytes[b]]
  /\ UNCHANGED <<size, users>>

(* All bytes have been read, or written. *)
Answer(h) ==
  /\ users[h].state = "accepted"
  /\ \A k \in Bytes_Of(h) :
       CASE users[h].op = "READ"  -> users[h].data[k] = bytes[users[h].offset + k]
         [] users[h].op = "WRITE" -> Payload[k] = bytes[users[h].offset + k]
  /\ users' = [users EXCEPT ![h] = No_User]
  /\ UNCHANGED <<bytes, size>>

(* The virtual block device is extended. *)
Grow == size' \in size .. Max_Size /\ UNCHANGED <<bytes, users>>

Next ==
  \/ Grow
  \/ \E h \in Handles :
       \/ \E op \in {"READ", "WRITE", "SYNC"}, offset \in 0 .. Max_Size,
             count \in 0 .. Max_Size : Request(h, op, offset, count)
       \/ \E out \in 0 .. Max_Size : Accept(h, out)
       \/ \E some \in SUBSET Positions : Read(h, some) \/ Write(h, some)
       \/ Answer(h)

Init ==
  /\ bytes \in [0 .. Max_Size - 1 -> {0}]
  /\ size \in 0 .. Max_Size
  /\ users = [h \in Handles |-> No_User]

Spec == Init /\ [][Next]_vars
=============================================================================
