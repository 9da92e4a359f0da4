------------------------------ MODULE VfsProofs ------------------------------
(***************************************************************************)
(* Proofs about modules Vfs and Replay, for any size of a block, of the    *)
(* device and of the pool, and whatever users ask for.  The first part, of *)
(* the plugin's own state, is for any handles of the data file; only that  *)
(* no wakeup is lost needs that there is one handle.  So do the other two, *)
(* that the data file implements ByteFile, and that what Replay reports as *)
(* written is stored.                                                      *)
(***************************************************************************)
EXTENDS Replay, SequenceTheorems, WellFoundedInduction, TLAPS

(* The values of the variables.                                            *)
Data_Ops == {"READ", "WRITE", "SYNC"}
PCs == {"idle", "submit", "execute", "complete", "helpers", "client_data", "backend", "return"}

Obj_Type == [state : {"UNKNOWN", "IDLE", "IN_PROGRESS"},
             last_result : {"NONE", "SUCCESS", "FAILED"}]

User_Type == [state : {"idle", "calling", "queued"}, op : Data_Ops, offset : Nat,
              count : 0 .. Max_Count, out : 0 .. Max_Count, woken : BOOLEAN]

(* Types, of what TypeOK leaves out as well: the pool is a sequence, and what *)
(* each handle's user has asked for.                                       *)
Types ==
  /\ TypeOK
  /\ pool \in Seq(Request_Type)
  /\ users \in [Handles -> User_Type]
  /\ rekey \in Obj_Type /\ extend \in Obj_Type
  /\ pc \in PCs /\ caller \in Handles \cup {Nobody, "control", "notify"}
  /\ progress \in BOOLEAN /\ thrown \in BOOLEAN

(* Requests of the data file, and operations, in the pool.                 *)
OfDataFile(i) == pool[i].op \in Data_Ops

InPool(op) == \E i \in DOMAIN pool : pool[i].op = op

(* A helper request that the plugin holds, and the library has not.        *)
Held == {"PENDING", "COMPLETE"}

(* The library has one request of the data file at most, and one of each   *)
(* operation of the control files.                                         *)
DistinctOps ==
  /\ \A i, k \in DOMAIN pool : OfDataFile(i) /\ OfDataFile(k) => i = k
  /\ \A i, k \in DOMAIN pool : pool[i].op = pool[k].op => i = k

(* Only blocks that are read are decrypted, and only those that are written *)
(* are asked for; nothing but a request of the data file can fail; there is a *)
(* block left as long as a request is not complete.                        *)
RequestConsistent(r) ==
  /\ r.phase \in {"decrypt", "ready"} => r.op = "READ"
  /\ r.phase \in {"required", "encrypt", "encrypted", "write_io", "write_io_done"} =>
       r.op = "WRITE"
  /\ r.op = "INITIALIZE" => r.phase \in {"run", "io", "io_done"}
  /\ r.op \notin Data_Ops => r.success
  /\ r.phase # "complete" => r.index < r.blocks
  /\ r.op = "SYNC" => r.blocks = 1

(* The requests in the pool are so.                                        *)
RequestsConsistent == \A i \in DOMAIN pool : RequestConsistent(pool[i])

(* The library works on the first request that is not complete, and waits  *)
(* for the back end exactly if that one waits.                             *)
OnlyHeadWorkedOn ==
  /\ \A i, k \in Incomplete : k < i => pool[i].phase = "run"
  /\ \A i \in DOMAIN pool : pool[i].phase \in {"io", "write_io"} => io # "none"
  /\ io # "none" => \E i \in DOMAIN pool : pool[i].phase \in {"io", "write_io"}

(* A request that is in progress is in one place: at the library, or in one *)
(* of the two helper requests; and each of these belongs to such a request. *)
OneHolder ==
  /\ \A i \in DOMAIN pool : OfDataFile(i) =>
       /\ frontend.state = "IN_PROGRESS"
       /\ helper_read.state \notin Held /\ helper_write.state \notin Held
  /\ helper_read.state # "NONE" =>
       helper_write.state = "NONE" /\ frontend.state = "IN_PROGRESS" /\ frontend.op # "SYNC"
  /\ helper_write.state # "NONE" => frontend.state = "IN_PROGRESS" /\ frontend.op = "WRITE"
  /\ frontend.state = "IN_PROGRESS" =>
       \/ helper_read.state \in Held \/ helper_write.state \in Held
       \/ \E i \in DOMAIN pool : OfDataFile(i)

(* The request of the data file at the library is the helper request that is *)
(* in progress, or else the one of the user.  What is written of it block by *)
(* block is within the data of the user.                                   *)
Matching ==
  /\ \A i \in DOMAIN pool : OfDataFile(i) =>
       /\ helper_read.state = "IN_PROGRESS" => pool[i].op = "READ"
       /\ helper_write.state = "IN_PROGRESS" => pool[i].op = "WRITE"
       /\ "IN_PROGRESS" \notin {helper_read.state, helper_write.state} =>
            pool[i].op = frontend.op /\ pool[i].blocks = frontend.blocks 
  /\ frontend.op = "WRITE" => frontend.blocks * BLOCK_SIZE <= Max_Count

(* Where handle_frontend_request may meet requests that are to be submitted, *)
(* or helper requests that are complete, and that there is room for them.  *)
Pending ==
  /\ frontend.state = "PENDING" =>
       /\ pc = "submit" /\ ~progress /\ Incomplete = DOMAIN pool
       /\ frontend.blocks > 0 /\ (frontend.op = "SYNC" => frontend.blocks = 1)
  /\ helper_read.state = "PENDING" => pc = "submit"
  /\ helper_write.state = "PENDING" =>
        pc = "submit" \/ (pc \in {"client_data", "backend"} /\ progress)
  /\ "COMPLETE" \in {helper_read.state, helper_write.state} => pc = "complete" /\ progress
  /\ Something_Pending \/ "COMPLETE" \in {helper_read.state, helper_write.state} => Client_Request_Acceptable

(* Without progress in a pass the library had nothing to do: at the end of it *)
(* no request is left that is complete, or that waits for the plugin, and the *)
(* request of the user, if it is in progress, waits for the device.        *)
Quiet ==
  /\ pc = "helpers" => progress
  /\ (pc \in {"client_data", "backend"} /\ ~progress) \/ pc \in {"return", "idle"} =>
       Incomplete = DOMAIN pool
  /\ pc \in {"complete", "client_data", "backend"} /\ ~progress /\ frontend.state # "ERROR_EOF" =>
       \A i \in Incomplete : IsHead(i) => Library_Waits(i)
  /\ pc = "backend" /\ ~progress /\ frontend.state # "ERROR_EOF" =>
       \A i \in Incomplete : pool[i].phase \notin {"ready", "required"}
  /\ pc = "return" /\ frontend.state = "IN_PROGRESS" => io = "submitted"

(* What the plugin knows of the operations of the control files.           *)
ControlFiles ==
  /\ rekey.state = "IN_PROGRESS" => InPool("REKEY")
  /\ InPool("REKEY") => rekey.state # "IDLE"
  /\ extend.state = "IN_PROGRESS" => InPool("EXTEND_VBD")
  /\ InPool("EXTEND_VBD") => extend.state # "IDLE"
  /\ InPool("INITIALIZE") => /\ rekey.state = "UNKNOWN" /\ extend.state = "UNKNOWN"
                             /\ ~InPool("REKEY") /\ ~InPool("EXTEND_VBD")
  /\ rekey.state # "IN_PROGRESS" => rekey.last_result # "FAILED"
  /\ extend.state # "IN_PROGRESS" => extend.last_result # "FAILED"
  /\ \A op \in {"CREATE_SNAPSHOT", "DISCARD_SNAPSHOT"} : op \in snapshot_requests <=> InPool(op)

(* The inductive invariant.                                                *)
IInv ==
  /\ Types
  /\ NoThrow
  /\ DistinctOps
  /\ RequestsConsistent
  /\ OnlyHeadWorkedOn
  /\ OneHolder
  /\ Matching
  /\ Pending
  /\ Quiet
  /\ ControlFiles

(* With one handle: whoever waits is the one that will be woken, and the   *)
(* device, or the signal, or the wakeup is under way.                      *)
WInv ==
  \A u \in Handles : users[u].state = "queued" =>
     /\ enqueued = u
     /\ users[u].woken \/ io_signal \/ io = "submitted"

-----------------------------------------------------------------------------
(* Phases and operations of a request of the library.                      *)
Phases == {"run", "io", "io_done", "decrypt", "ready", "required", "encrypt", "encrypted",
           "write_io", "write_io_done", "complete"}

Ops == Data_Ops \cup {"INITIALIZE"} \cup In_Background

(* An empty block is a block.                                              *)
LEMMA ZerosType == Zeros \in [Offsets -> Byte]
BY DEF Zeros, Byte

(* The request after one of its blocks. *)
LEMMA NextBlock ==
  ASSUME NEW r \in Request_Type, NEW success \in BOOLEAN
  PROVE  /\ Next_Block(r, success) \in Request_Type
         /\ Next_Block(r, success).op = r.op
         /\ Next_Block(r, success).vba = r.vba
         /\ Next_Block(r, success).blocks = r.blocks
         /\ Next_Block(r, success).data = r.data
         /\ Next_Block(r, success).index = r.index + 1
         /\ Next_Block(r, success).success = success
         /\ Next_Block(r, success).block = Zeros
         /\ Next_Block(r, success).phase = IF r.index + 1 = r.blocks THEN "complete" ELSE "run"
<1> DEFINE p == IF r.index + 1 = r.blocks THEN "complete" ELSE "run"
<1>1. p \in {"complete", "run"} /\ r.index + 1 \in Nat
  BY DEF Request_Type
<1>2. Next_Block(r, success) = [r EXCEPT !.index = r.index + 1, !.block = Zeros,
                                         !.success = success, !.phase = p]
  BY DEF Next_Block
<1> HIDE DEF p
<1>3. [r EXCEPT !.index = r.index + 1, !.block = Zeros, !.success = success, !.phase = p]
        \in Request_Type
  BY <1>1, ZerosType DEF Request_Type
<1>4. DOMAIN r = {"op", "vba", "blocks", "data", "index", "phase", "block", "success"}
  BY DEF Request_Type
<1>5. /\ Next_Block(r, success).op = r.op
      /\ Next_Block(r, success).vba = r.vba
      /\ Next_Block(r, success).blocks = r.blocks
      /\ Next_Block(r, success).data = r.data
      /\ Next_Block(r, success).index = r.index + 1
      /\ Next_Block(r, success).success = success
      /\ Next_Block(r, success).block = Zeros
      /\ Next_Block(r, success).phase = p
  BY <1>2, <1>4
<1> QED BY <1>2, <1>3, <1>5 DEF p

(* A new request of the data file. *)
LEMMA DataRequest ==
  ASSUME NEW op \in Data_Ops, NEW vba \in Nat, NEW blocks \in Nat \ {0},
         NEW data \in Handles \cup {Nobody}, op = "SYNC" => blocks = 1
  PROVE  /\ Library_Request(op, vba, blocks, data) \in Request_Type
         /\ Library_Request(op, vba, blocks, data).op = op
         /\ Library_Request(op, vba, blocks, data).blocks = blocks
         /\ Library_Request(op, vba, blocks, data).phase = "run"
         /\ RequestConsistent(Library_Request(op, vba, blocks, data))
<1> DEFINE r == Library_Request(op, vba, blocks, data)
<1>1. r \in Request_Type
  BY ZerosType DEF Library_Request, Request_Type, Data_Ops
<1>2. /\ r.op = op /\ r.phase = "run" /\ r.index = 0 /\ r.blocks = blocks /\ r.success = TRUE
      /\ r.vba = vba /\ r.data = data
  BY DEF Library_Request
<1> HIDE DEF r
<1>3. RequestConsistent(r)
  BY <1>2 DEF RequestConsistent, Data_Ops
<1> QED BY <1>1, <1>2, <1>3 DEF r

(* A new request of the control files. *)
LEMMA BackgroundRequest ==
  ASSUME NEW op \in In_Background
  PROVE  /\ Library_Request(op, 0, Steps(op), Nobody) \in Request_Type
         /\ Library_Request(op, 0, Steps(op), Nobody).op = op
         /\ Library_Request(op, 0, Steps(op), Nobody).phase = "run"
         /\ RequestConsistent(Library_Request(op, 0, Steps(op), Nobody))
<1> DEFINE n == Steps(op)
           r == Library_Request(op, 0, n, Nobody)
<1>1. n \in Nat \ {0}
  BY VfsAssumption DEF Steps
<1> HIDE DEF n
<1>2. r \in Request_Type
  BY <1>1, ZerosType DEF Library_Request, Request_Type
<1>3. r.op = op /\ r.phase = "run" /\ r.index = 0 /\ r.blocks = n /\ r.success = TRUE
  BY DEF Library_Request
<1> HIDE DEF r
<1>4. RequestConsistent(r)
  BY <1>1, <1>3 DEF RequestConsistent, In_Background
<1> QED BY <1>2, <1>3, <1>4 DEF n, r

(* A request in another phase, and with other data. *)
LEMMA OtherPhase ==
  ASSUME NEW r \in Request_Type, NEW phase \in Phases, NEW block \in [Offsets -> Byte]
  PROVE  LET s == [r EXCEPT !.block = block, !.phase = phase] IN
         /\ s \in Request_Type
         /\ s.op = r.op /\ s.vba = r.vba /\ s.blocks = r.blocks /\ s.data = r.data
         /\ s.index = r.index /\ s.success = r.success /\ s.phase = phase /\ s.block = block
BY DEF Request_Type, Phases

(* A request in another phase, with the same data.                         *)
LEMMA OtherPhaseOnly ==
  ASSUME NEW r \in Request_Type, NEW phase \in Phases
  PROVE  LET s == [r EXCEPT !.phase = phase] IN
         /\ s \in Request_Type
         /\ s.op = r.op /\ s.vba = r.vba /\ s.blocks = r.blocks /\ s.data = r.data
         /\ s.index = r.index /\ s.success = r.success /\ s.phase = phase /\ s.block = r.block
BY DEF Request_Type, Phases

(* A sequence of requests without one of them.                             *)
LEMMA Removed ==
  ASSUME NEW s \in Seq(Request_Type), NEW i \in DOMAIN s
  PROVE  /\ RemoveAt(s, i) \in Seq(Request_Type)
         /\ Len(RemoveAt(s, i)) = Len(s) - 1
         /\ \A k \in 1 .. Len(s) - 1 : RemoveAt(s, i)[k] = s[IF k < i THEN k ELSE k + 1]
<1> DEFINE a == SubSeq(s, 1, i - 1)
           b == SubSeq(s, i + 1, Len(s))
<1>1. Len(s) \in Nat /\ i \in 1 .. Len(s)
  BY LenProperties
<1>2. /\ a \in Seq(Request_Type) /\ Len(a) = i - 1
      /\ \A k \in 1 .. i - 1 : a[k] = s[k]
  BY <1>1, SubSeqProperties
<1>3. /\ b \in Seq(Request_Type) /\ Len(b) = Len(s) - i
      /\ \A k \in 1 .. Len(s) - i : b[k] = s[i + k]
  <2>1. \A k \in (i + 1) .. Len(s) : s[k] \in Request_Type
    BY <1>1, ElementOfSeq
  <2>2. CASE i = Len(s)
    BY <1>1, <2>2, SubSeqEmpty
  <2>3. CASE i < Len(s)
    BY <1>1, <2>3, SubSeqProperties
  <2> QED BY <1>1, <2>2, <2>3
<1> HIDE DEF a, b
<1>4. /\ a \o b \in Seq(Request_Type) /\ Len(a \o b) = Len(s) - 1
      /\ \A k \in 1 .. Len(s) - 1 : (a \o b)[k] = IF k <= i - 1 THEN a[k] ELSE b[k - (i - 1)]
  <2>1. /\ a \o b \in Seq(Request_Type) /\ Len(a \o b) = Len(a) + Len(b)
        /\ \A k \in 1 .. Len(a) + Len(b) :
             (a \o b)[k] = IF k <= Len(a) THEN a[k] ELSE b[k - Len(a)]
    BY <1>2, <1>3, ConcatProperties
  <2>2. Len(a) + Len(b) = Len(s) - 1
    BY <1>1, <1>2, <1>3
  <2> QED BY <1>2, <2>1, <2>2
<1>5. ASSUME NEW k \in 1 .. Len(s) - 1
      PROVE  (a \o b)[k] = s[IF k < i THEN k ELSE k + 1]
  <2>1. CASE k < i
    BY <1>1, <1>2, <1>4, <2>1
  <2>2. CASE ~(k < i)
    <3>1. k - (i - 1) \in 1 .. Len(s) - i /\ i + (k - (i - 1)) = k + 1 /\ ~(k <= i - 1)
      BY <1>1, <2>2
    <3>2. (a \o b)[k] = b[k - (i - 1)]
      BY <1>4, <3>1
    <3>3. b[k - (i - 1)] = s[k + 1]
      BY <1>3, <3>1
    <3> QED BY <2>2, <3>2, <3>3
  <2> QED BY <2>1, <2>2
<1>6. RemoveAt(s, i) = a \o b
  BY DEF RemoveAt, a, b
<1> QED BY <1>4, <1>5, <1>6

(* A set of numbers with a bound has a largest element. *)
LEMMA LargestExists ==
  ASSUME NEW N \in Nat, NEW S \in SUBSET (0 .. N), S # {}
  PROVE  \E k \in S : \A l \in S : l <= k
<1> DEFINE Left == {n \in Nat : \E k \in S : n = N - k}
           R == OpToRel(<, Nat)
<1>1. PICK e \in S : TRUE
  OBVIOUS
<1>2. N - e \in Left
  BY <1>1
<1>3. PICK n \in Left : \A m \in Left : ~(<<m, n>> \in R)
  <2> HIDE DEF Left, R
  <2>1. IsWellFoundedOn(R, Nat)
    BY NatLessThanWellFounded DEF R
  <2>2. Left \subseteq Nat
    BY DEF Left
  <2> QED BY <1>2, <2>1, <2>2, WFMin
<1>4. \A m \in Left : ~(m < n)
  BY <1>3 DEF OpToRel
<1>5. PICK k \in S : n = N - k
  BY <1>3
<1>6. ASSUME NEW l \in S PROVE l <= k
  <2>1. N - l \in Left
    OBVIOUS
  <2> HIDE DEF Left
  <2>2. ~(N - l < n)
    BY <1>4, <2>1
  <2> QED BY <1>5, <2>2
<1> QED BY <1>5, <1>6

(* The sequence s with element i put behind the elements up to last, as e. *)
Put_Behind(s, i, last, e) ==
  SubSeq(s, 1, i - 1) \o SubSeq(s, i + 1, last) \o <<e>> \o SubSeq(s, last + 1, Len(s))

(* Its elements.                                                           *)
LEMMA PutBehind ==
  ASSUME NEW S, NEW s \in Seq(S), NEW i \in DOMAIN s, NEW last \in i .. Len(s), NEW e \in S
  PROVE  /\ Put_Behind(s, i, last, e) \in Seq(S)
         /\ Len(Put_Behind(s, i, last, e)) = Len(s)
         /\ \A k \in 1 .. Len(s) :
              Put_Behind(s, i, last, e)[k] =
                IF k < i \/ k > last THEN s[k] ELSE IF k < last THEN s[k + 1] ELSE e
<1> DEFINE a == SubSeq(s, 1, i - 1)
           b == SubSeq(s, i + 1, last)
           c == <<e>>
           d == SubSeq(s, last + 1, Len(s))
<1>1. Len(s) \in Nat /\ i \in 1 .. Len(s) /\ last \in 1 .. Len(s)
  BY LenProperties
<1>2. \A k \in 1 .. Len(s) : s[k] \in S
  BY ElementOfSeq
<1>3. /\ a \in Seq(S) /\ Len(a) = i - 1
      /\ \A k \in 1 .. i - 1 : a[k] = s[k]
  BY <1>1, <1>2, SubSeqProperties
<1>4. /\ b \in Seq(S) /\ Len(b) = last - i
      /\ \A k \in 1 .. last - i : b[k] = s[i + k]
  <2>1. \A k \in i + 1 .. last : s[k] \in S
    BY <1>1, <1>2
  <2> QED BY <1>1, <2>1, SubSeqProperties
<1>5. c \in Seq(S) /\ Len(c) = 1 /\ c[1] = e
  OBVIOUS
<1>6. /\ d \in Seq(S) /\ Len(d) = Len(s) - last
      /\ \A k \in 1 .. Len(s) - last : d[k] = s[last + k]
  <2>1. \A k \in last + 1 .. Len(s) : s[k] \in S
    BY <1>1, <1>2
  <2> QED BY <1>1, <2>1, SubSeqProperties
<1> HIDE DEF a, b, c, d
<1> DEFINE ab == a \o b
<1>7. /\ ab \in Seq(S)
      /\ Len(ab) = last - 1
      /\ \A k \in 1 .. last - 1 : ab[k] = IF k < i THEN s[k] ELSE s[k + 1]
  <2>1. /\ ab \in Seq(S)
        /\ Len(ab) = Len(a) + Len(b)
        /\ \A k \in 1 .. Len(a) + Len(b) :
             ab[k] = IF k <= Len(a) THEN a[k] ELSE b[k - Len(a)]
    BY <1>3, <1>4, ConcatProperties
  <2> HIDE DEF ab
  <2>2. Len(a) + Len(b) = last - 1
    BY <1>1, <1>3, <1>4
  <2>3. ASSUME NEW k \in 1 .. last - 1, k < i PROVE ab[k] = s[k]
    BY <1>1, <1>3, <2>1, <2>2, <2>3
  <2>4. ASSUME NEW k \in 1 .. last - 1, ~(k < i) PROVE ab[k] = s[k + 1]
    <3>1. k - (i - 1) \in 1 .. last - i /\ i + (k - (i - 1)) = k + 1 /\ ~(k <= i - 1)
      BY <1>1, <2>4
    <3>2. b[k - (i - 1)] = s[k + 1]
      BY <1>4, <3>1
    <3> QED BY <1>3, <2>1, <2>2, <3>1, <3>2
  <2> QED BY <2>1, <2>2, <2>3, <2>4
<1> HIDE DEF ab
<1> DEFINE abc == ab \o c
<1>8. /\ abc \in Seq(S)
      /\ Len(abc) = last
      /\ \A k \in 1 .. last : abc[k] = IF k < last THEN ab[k] ELSE e
  <2>1. /\ abc \in Seq(S)
        /\ Len(abc) = Len(ab) + Len(c)
        /\ \A k \in 1 .. Len(ab) + Len(c) :
             abc[k] = IF k <= Len(ab) THEN ab[k] ELSE c[k - Len(ab)]
    BY <1>5, <1>7, ConcatProperties
  <2> QED BY <1>1, <1>5, <1>7, <2>1
<1> HIDE DEF abc
<1> DEFINE t == abc \o d
<1>9. /\ t \in Seq(S)
      /\ Len(t) = Len(s)
      /\ \A k \in 1 .. Len(s) : t[k] = IF k <= last THEN abc[k] ELSE s[k]
  <2>1. /\ t \in Seq(S)
        /\ Len(t) = Len(abc) + Len(d)
        /\ \A k \in 1 .. Len(abc) + Len(d) :
             t[k] = IF k <= Len(abc) THEN abc[k] ELSE d[k - Len(abc)]
    BY <1>6, <1>8, ConcatProperties
  <2> HIDE DEF t
  <2>2. Len(abc) + Len(d) = Len(s)
    BY <1>1, <1>6, <1>8
  <2>3. ASSUME NEW k \in 1 .. Len(s), k > last PROVE t[k] = s[k]
    <3>1. k - last \in 1 .. Len(s) - last /\ last + (k - last) = k
      BY <1>1, <2>3
    <3> QED BY <1>1, <1>6, <1>8, <2>1, <2>2, <2>3, <3>1
  <2> QED BY <1>1, <1>8, <2>1, <2>2, <2>3
<1> HIDE DEF t
<1>10. ASSUME NEW k \in 1 .. Len(s)
       PROVE  t[k] = IF k < i \/ k > last THEN s[k] ELSE IF k < last THEN s[k + 1] ELSE e
  <2>1. CASE k > last
    BY <1>1, <1>9, <2>1
  <2>2. CASE ~(k > last)
    <3>1. k \in 1 .. last /\ t[k] = abc[k]
      BY <1>1, <1>9, <2>2
    <3>2. abc[k] = IF k < last THEN ab[k] ELSE e
      BY <1>8, <3>1
    <3>3. k < last => k \in 1 .. last - 1
      BY <1>1, <3>1
    <3>4. k < last => ab[k] = IF k < i THEN s[k] ELSE s[k + 1]
      BY <1>7, <3>3
    <3>5. CASE k < last
      BY <1>1, <2>2, <3>1, <3>2, <3>4, <3>5
    <3>6. CASE ~(k < last)
      BY <1>1, <2>2, <3>1, <3>2, <3>6
    <3> QED BY <3>5, <3>6
  <2> QED BY <2>1, <2>2
<1>11. Put_Behind(s, i, last, e) = t
  BY DEF Put_Behind, a, b, c, d, ab, abc, t
<1> QED BY <1>9, <1>10, <1>11

(* After a step of request i the requests behind it, up to one of them,    *)
(* are in front of it.                                                     *)
LEMMA OthersPassed ==
  ASSUME pool \in Seq(Request_Type), NEW i \in DOMAIN pool
  PROVE  /\ Let_Others_Pass(i) \in Seq(Request_Type)
         /\ Len(Let_Others_Pass(i)) = Len(pool)
         /\ \E last \in i .. Len(pool) : \A k \in 1 .. Len(pool) :
              Let_Others_Pass(i)[k] =
                IF k < i \/ k > last THEN pool[k]
                ELSE IF k < last THEN pool[k + 1] ELSE Next_Block(pool[i], TRUE)
<1> DEFINE Passing == {k \in i + 1 .. Len(pool) : \A l \in i + 1 .. k : Preponable(pool[l])}
           final == IF Passing = {} THEN i
                   ELSE CHOOSE k \in Passing : \A l \in Passing : l <= k
<1>1. Len(pool) \in Nat /\ i \in 1 .. Len(pool)
  BY LenProperties
<1>2. final \in i .. Len(pool)
  <2>1. CASE Passing = {}
    BY <1>1, <2>1
  <2>2. CASE Passing # {}
    <3>1. Passing \in SUBSET (0 .. Len(pool)) /\ \A k \in Passing : k \in i .. Len(pool)
      BY <1>1
    <3> HIDE DEF Passing
    <3>2. \E k \in Passing : \A l \in Passing : l <= k
      BY <1>1, <2>2, <3>1, LargestExists
    <3> QED BY <2>2, <3>1, <3>2
  <2> QED BY <2>1, <2>2
<1>3. Let_Others_Pass(i) =
        SubSeq(pool, 1, i - 1) \o SubSeq(pool, i + 1, final) \o <<Next_Block(pool[i], TRUE)>>
          \o SubSeq(pool, final + 1, Len(pool))
  BY DEF Let_Others_Pass
<1> DEFINE next == Next_Block(pool[i], TRUE)
<1>4. next \in Request_Type
  BY <1>1, ElementOfSeq, NextBlock
<1> HIDE DEF next
<1> DEFINE moved == Put_Behind(pool, i, final, next)
<1> HIDE DEF final, Passing
<1>5. /\ moved \in Seq(Request_Type)
      /\ Len(moved) = Len(pool)
      /\ \A k \in 1 .. Len(pool) :
           moved[k] = IF k < i \/ k > final THEN pool[k]
                  ELSE IF k < final THEN pool[k + 1] ELSE next
  <2>1. ASSUME NEW s \in Seq(Request_Type), NEW n \in DOMAIN s, NEW m \in n .. Len(s),
               NEW r \in Request_Type
        PROVE  /\ Put_Behind(s, n, m, r) \in Seq(Request_Type)
               /\ Len(Put_Behind(s, n, m, r)) = Len(s)
               /\ \A k \in 1 .. Len(s) :
                    Put_Behind(s, n, m, r)[k] =
                      IF k < n \/ k > m THEN s[k] ELSE IF k < m THEN s[k + 1] ELSE r
    BY PutBehind
  <2> QED BY <1>2, <1>4, <2>1
<1> HIDE DEF moved
<1>6. \E l \in i .. Len(pool) : \A k \in 1 .. Len(pool) :
        moved[k] = IF k < i \/ k > l THEN pool[k]
               ELSE IF k < l THEN pool[k + 1] ELSE next
  BY <1>2, <1>5
<1>7. moved = Let_Others_Pass(i)
  BY <1>3 DEF next, moved, Put_Behind
<1> QED BY <1>5, <1>6, <1>7 DEF next

-----------------------------------------------------------------------------
(***************************************************************************)
(* The pool.                                                               *)
(***************************************************************************)
LEMMA PoolFacts ==
  ASSUME Types
  PROVE  /\ Len(pool) \in Nat /\ DOMAIN pool = 1 .. Len(pool)
         /\ \A i \in DOMAIN pool : pool[i] \in Request_Type
BY LenProperties, ElementOfSeq DEF Types

(* What is not the head waits, or is complete. *)
LEMMA OthersRun ==
  ASSUME Types, OnlyHeadWorkedOn, NEW i \in Incomplete, IsHead(i)
  PROVE  \A k \in DOMAIN pool : k # i => pool[k].phase \in {"run", "complete"}
BY PoolFacts DEF IsHead, OnlyHeadWorkedOn, Incomplete

(* The library waits for the back end with the head only. *)
LEMMA HeadWaitsForIO ==
  ASSUME Types, OnlyHeadWorkedOn, NEW i \in Incomplete, IsHead(i)
  PROVE  io # "none" <=> pool[i].phase \in {"io", "write_io"}
BY OthersRun DEF OnlyHeadWorkedOn, Incomplete

(* Another request takes the place of the head of the pool. *)
LEMMA HeadUpdated ==
  ASSUME Types, DistinctOps, RequestsConsistent, OnlyHeadWorkedOn,
         NEW i \in Incomplete, IsHead(i), NEW r \in Request_Type,
         pool' = [pool EXCEPT ![i] = r],
         r.op = pool[i].op, RequestConsistent(r),
         r.phase \in {"io", "write_io"} <=> io' # "none"
  PROVE  /\ pool' \in Seq(Request_Type)
         /\ Len(pool') = Len(pool) /\ DOMAIN pool' = DOMAIN pool
         /\ pool'[i] = r /\ \A k \in DOMAIN pool : k # i => pool'[k] = pool[k]
         /\ DistinctOps' /\ RequestsConsistent' /\ OnlyHeadWorkedOn'
<1>1. /\ Len(pool) \in Nat /\ DOMAIN pool = 1 .. Len(pool)
      /\ i \in DOMAIN pool /\ pool \in Seq(Request_Type)
  BY PoolFacts DEF Incomplete, Types
<1>2. pool' \in Seq(Request_Type) /\ Len(pool') = Len(pool) /\ DOMAIN pool' = DOMAIN pool
  BY <1>1, ExceptSeq
<1>3. pool'[i] = r /\ \A k \in DOMAIN pool : k # i => pool'[k] = pool[k]
  BY <1>1
<1>4. \A k \in DOMAIN pool : pool'[k].op = pool[k].op
  BY <1>3
<1>5. DistinctOps'
  BY <1>2, <1>4 DEF DistinctOps, OfDataFile
<1>6. RequestsConsistent'
  BY <1>2, <1>3 DEF RequestsConsistent
<1>7. \A k \in Incomplete : k # i => k > i /\ pool[k].phase = "run"
  BY <1>1 DEF IsHead, OnlyHeadWorkedOn, Incomplete
<1>8. \A k \in DOMAIN pool : k # i => pool[k].phase \in {"run", "complete"}
  BY <1>7 DEF Incomplete
<1>9. OnlyHeadWorkedOn'
  <2>1. ASSUME NEW k \in Incomplete', NEW m \in Incomplete', m < k
        PROVE  pool'[k].phase = "run"
    <3>1. k \in DOMAIN pool /\ m \in DOMAIN pool
      BY <1>2 DEF Incomplete
    <3>2. k # i
      <4>1. CASE m \in Incomplete
        BY <1>1, <1>7, <2>1, <3>1, <4>1
      <4>2. CASE m = i
        BY <1>1, <2>1, <4>2
      <4> QED BY <1>2, <1>3, <3>1, <4>1, <4>2 DEF Incomplete
    <3> QED BY <1>2, <1>3, <1>8, <3>1, <3>2 DEF Incomplete
  <2>2. \A k \in DOMAIN pool' : pool'[k].phase \in {"io", "write_io"} => io' # "none"
    BY <1>2, <1>3, <1>8
  <2>3. io' # "none" => \E k \in DOMAIN pool' : pool'[k].phase \in {"io", "write_io"}
    BY <1>1, <1>2, <1>3
  <2> QED BY <2>1, <2>2, <2>3 DEF OnlyHeadWorkedOn
<1> QED BY <1>2, <1>3, <1>5, <1>6, <1>9

(* A request is appended whose operation is new to the pool.               *)
LEMMA PoolAppended ==
  ASSUME Types, DistinctOps, RequestsConsistent, OnlyHeadWorkedOn,
         NEW r \in Request_Type, Append_To_Pool(r), io' = io,
         ~InPool(r.op), r.op \in Data_Ops => \A k \in DOMAIN pool : ~OfDataFile(k),
         RequestConsistent(r), r.phase = "run"
  PROVE  /\ pool' \in Seq(Request_Type)
         /\ Len(pool') = Len(pool) + 1 /\ DOMAIN pool' = 1 .. Len(pool) + 1
         /\ pool'[Len(pool) + 1] = r /\ \A k \in DOMAIN pool : pool'[k] = pool[k]
         /\ DistinctOps' /\ RequestsConsistent' /\ OnlyHeadWorkedOn'
<1>1. Len(pool) \in Nat /\ DOMAIN pool = 1 .. Len(pool) /\ pool \in Seq(Request_Type)
  BY PoolFacts DEF Types
<1>2. /\ pool' \in Seq(Request_Type) /\ Len(pool') = Len(pool) + 1
      /\ DOMAIN pool' = 1 .. Len(pool) + 1 /\ pool'[Len(pool) + 1] = r
      /\ \A k \in DOMAIN pool : pool'[k] = pool[k]
  BY <1>1, AppendProperties, LenProperties DEF Append_To_Pool
<1>3. DistinctOps'
  BY <1>1, <1>2 DEF DistinctOps, OfDataFile, InPool
<1>4. RequestsConsistent'
  BY <1>1, <1>2 DEF RequestsConsistent
<1>5. OnlyHeadWorkedOn'
  BY <1>1, <1>2 DEF OnlyHeadWorkedOn, Incomplete
<1> QED BY <1>2, <1>3, <1>4, <1>5

(* A request that is complete is removed. *)
LEMMA PoolRemoved ==
  ASSUME Types, DistinctOps, RequestsConsistent, OnlyHeadWorkedOn,
         NEW i \in DOMAIN pool, pool[i].phase \notin {"io", "write_io"},
         pool' = RemoveAt(pool, i), io' = io
  PROVE  /\ pool' \in Seq(Request_Type)
         /\ Len(pool') = Len(pool) - 1 /\ DOMAIN pool' = 1 .. Len(pool) - 1
         /\ \A k \in DOMAIN pool' : \E m \in DOMAIN pool : m # i /\ pool'[k] = pool[m]
         /\ \A m \in DOMAIN pool : m # i => \E k \in DOMAIN pool' : pool'[k] = pool[m]
         /\ DistinctOps' /\ RequestsConsistent' /\ OnlyHeadWorkedOn'
<1>1. Len(pool) \in Nat /\ DOMAIN pool = 1 .. Len(pool) /\ pool \in Seq(Request_Type)
  BY PoolFacts DEF Types
<1> DEFINE from(k) == IF k < i THEN k ELSE k + 1
<1>2. /\ pool' \in Seq(Request_Type) /\ Len(pool') = Len(pool) - 1
      /\ DOMAIN pool' = 1 .. Len(pool) - 1
      /\ \A k \in DOMAIN pool' : pool'[k] = pool[from(k)]
  <2>1. /\ pool' \in Seq(Request_Type)
        /\ Len(pool') = Len(pool) - 1
        /\ \A k \in 1 .. Len(pool) - 1 : pool'[k] = pool[IF k < i THEN k ELSE k + 1]
    BY <1>1, Removed
  <2>2. DOMAIN pool' = 1 .. Len(pool) - 1
    BY <2>1, LenProperties
  <2> QED BY <2>1, <2>2
<1>3. \A k \in DOMAIN pool' : from(k) \in DOMAIN pool /\ from(k) # i
  BY <1>1, <1>2
<1>4. \A k, m \in DOMAIN pool' : k < m => from(k) < from(m)
  BY <1>1, <1>2
<1>5. \A k, m \in DOMAIN pool' : from(k) = from(m) => k = m
  BY <1>1, <1>2
<1>6. ASSUME NEW m \in DOMAIN pool, m # i
      PROVE  \E k \in DOMAIN pool' : from(k) = m
  <2> DEFINE k == IF m < i THEN m ELSE m - 1
  <2>1. k \in DOMAIN pool' /\ from(k) = m
    BY <1>1, <1>2, <1>6
  <2> QED BY <2>1
<1> HIDE DEF from
<1>7. DistinctOps'
  BY <1>2, <1>3, <1>5, SMTT(30) DEF DistinctOps, OfDataFile
<1>8. RequestsConsistent'
  BY <1>2, <1>3 DEF RequestsConsistent
<1>9. OnlyHeadWorkedOn'
  <2>1. \A k, m \in Incomplete' : m < k => pool'[k].phase = "run"
    BY <1>2, <1>3, <1>4 DEF OnlyHeadWorkedOn, Incomplete
  <2>2. \A k \in DOMAIN pool' : pool'[k].phase \in {"io", "write_io"} => io' # "none"
    BY <1>2, <1>3 DEF OnlyHeadWorkedOn
  <2>3. io' # "none" => \E k \in DOMAIN pool' : pool'[k].phase \in {"io", "write_io"}
    BY <1>2, <1>6 DEF OnlyHeadWorkedOn
  <2> QED BY <2>1, <2>2, <2>3 DEF OnlyHeadWorkedOn
<1> QED BY <1>2, <1>3, <1>6, <1>7, <1>8, <1>9

(* The head of the pool is done with a step. *)
LEMMA PoolPassed ==
  ASSUME Types, DistinctOps, RequestsConsistent, OnlyHeadWorkedOn,
         NEW i \in Incomplete, IsHead(i), pool[i].index + 1 < pool[i].blocks,
         pool[i].op \notin Data_Ops \cup {"INITIALIZE"},
         pool[i].phase \notin {"io", "write_io"},
         pool' = Let_Others_Pass(i), io' = io
  PROVE  /\ pool' \in Seq(Request_Type)
         /\ Len(pool') = Len(pool) /\ DOMAIN pool' = DOMAIN pool
         /\ \A k \in DOMAIN pool' : \E m \in DOMAIN pool :
              pool'[k].op = pool[m].op /\ (m = i \/ pool'[k] = pool[m])
         /\ \A m \in DOMAIN pool : \E k \in DOMAIN pool' :
              pool'[k].op = pool[m].op /\ (m = i \/ pool'[k] = pool[m])
         /\ DistinctOps' /\ RequestsConsistent' /\ OnlyHeadWorkedOn'
<1>1. /\ Len(pool) \in Nat /\ DOMAIN pool = 1 .. Len(pool)
      /\ i \in DOMAIN pool /\ pool[i] \in Request_Type /\ pool \in Seq(Request_Type)
  BY PoolFacts DEF Types, Incomplete
<1> DEFINE next == Next_Block(pool[i], TRUE)
<1>2. /\ next.op = pool[i].op /\ next.phase = "run" /\ next.index = pool[i].index + 1
      /\ next.blocks = pool[i].blocks /\ next.success = TRUE
  <2>1. pool[i].index \in Nat /\ pool[i].blocks \in Nat
    BY <1>1 DEF Request_Type
  <2>2. pool[i].index + 1 # pool[i].blocks
    BY <2>1
  <2> QED BY <1>1, <2>2, NextBlock
<1> HIDE DEF next
<1>3. PICK last \in i .. Len(pool) :
        \A k \in 1 .. Len(pool) :
          pool'[k] = IF k < i \/ k > last THEN pool[k] ELSE IF k < last THEN pool[k + 1] ELSE next
  BY <1>1, OthersPassed DEF next
<1>4. pool' \in Seq(Request_Type) /\ Len(pool') = Len(pool) /\ DOMAIN pool' = DOMAIN pool
  BY <1>1, OthersPassed, LenProperties
<1> DEFINE from(k) == IF k < i \/ k > last THEN k ELSE IF k < last THEN k + 1 ELSE i
<1>5. \A k \in DOMAIN pool :
        /\ from(k) \in DOMAIN pool
        /\ pool'[k] = IF from(k) = i THEN next ELSE pool[from(k)]
  BY <1>1, <1>3
<1>6. \A k, m \in DOMAIN pool : from(k) = from(m) => k = m
  BY <1>1, <1>3
<1>7. ASSUME NEW m \in DOMAIN pool
      PROVE  \E k \in DOMAIN pool : from(k) = m
  <2> DEFINE k == IF m < i \/ m > last THEN m ELSE IF m > i THEN m - 1 ELSE last
  <2>1. k \in DOMAIN pool /\ from(k) = m
    BY <1>1, <1>3, <1>7
  <2> QED BY <2>1
<1> HIDE DEF from
<1>8. \A k \in DOMAIN pool : pool'[k].op = pool[from(k)].op
  BY <1>1, <1>2, <1>5
<1>9. DistinctOps'
  <2>1. \A k, m \in DOMAIN pool' : OfDataFile(k)' /\ OfDataFile(m)' => k = m
    BY <1>4, <1>5, <1>6, <1>8 DEF DistinctOps, OfDataFile
  <2>2. \A k, m \in DOMAIN pool' : pool'[k].op = pool'[m].op => k = m
    BY <1>4, <1>5, <1>6, <1>8 DEF DistinctOps
  <2> QED BY <2>1, <2>2 DEF DistinctOps
<1>10. RequestsConsistent'
  <2>1. RequestConsistent(next)
    BY <1>1, <1>2 DEF RequestConsistent, Request_Type, Data_Ops
  <2> QED BY <1>4, <1>5, <2>1 DEF RequestsConsistent
<1>11. \A k \in DOMAIN pool : k # i => pool[k].phase \in {"run", "complete"}
  BY <1>1 DEF IsHead, OnlyHeadWorkedOn, Incomplete
<1>12. \A k \in DOMAIN pool : pool'[k].phase \in {"run", "complete"}
  BY <1>2, <1>5, <1>11
<1>13. OnlyHeadWorkedOn'
  <2>1. io = "none"
    BY <1>11 DEF OnlyHeadWorkedOn
  <2> QED BY <1>4, <1>12, <2>1 DEF OnlyHeadWorkedOn, Incomplete
<1>14. \A k \in DOMAIN pool' : \E m \in DOMAIN pool :
         pool'[k].op = pool[m].op /\ (m = i \/ pool'[k] = pool[m])
  BY <1>4, <1>5, <1>8
<1>15. \A m \in DOMAIN pool : \E k \in DOMAIN pool' :
         pool'[k].op = pool[m].op /\ (m = i \/ pool'[k] = pool[m])
  <2> SUFFICES ASSUME NEW m \in DOMAIN pool
               PROVE  \E k \in DOMAIN pool' :
                        pool'[k].op = pool[m].op /\ (m = i \/ pool'[k] = pool[m])
    OBVIOUS
  <2>1. PICK k \in DOMAIN pool : from(k) = m
    BY <1>7
  <2> QED BY <1>4, <1>5, <1>8, <2>1
<1> QED BY <1>4, <1>9, <1>10, <1>13, <1>14, <1>15

(* Steps after which the pool holds the same request of the data file.     *)
LEMMA SameDataRequest ==
  ASSUME OneHolder, Matching,
         \A k \in DOMAIN pool' : OfDataFile(k)' => \E m \in DOMAIN pool :
           OfDataFile(m) /\ pool'[k].op = pool[m].op /\ pool'[k].blocks = pool[m].blocks,
         \A m \in DOMAIN pool : OfDataFile(m) => \E k \in DOMAIN pool' : OfDataFile(k)',
         frontend' = frontend,
         helper_read'.state = helper_read.state, helper_write'.state = helper_write.state
  PROVE  OneHolder' /\ Matching'
<1>1. OneHolder'
  BY DEF OneHolder
<1>2. Matching'
  BY DEF Matching
<1> QED BY <1>1, <1>2

(* Steps after which it holds requests of the same operations.             *)
LEMMA SameRequests ==
  ASSUME OneHolder, Matching, ControlFiles,
         \A k \in DOMAIN pool' : \E m \in DOMAIN pool :
           pool'[k].op = pool[m].op /\ (OfDataFile(m) => pool'[k].blocks = pool[m].blocks),
         \A m \in DOMAIN pool : \E k \in DOMAIN pool' : pool'[k].op = pool[m].op,
         UNCHANGED <<frontend, rekey, extend, snapshot_requests>>,
         helper_read'.state = helper_read.state, helper_write'.state = helper_write.state
  PROVE  OneHolder' /\ Matching' /\ ControlFiles'
<1>1. \A k \in DOMAIN pool' : OfDataFile(k)' => \E m \in DOMAIN pool :
        OfDataFile(m) /\ pool'[k].op = pool[m].op /\ pool'[k].blocks = pool[m].blocks
  BY DEF OfDataFile
<1>2. \A m \in DOMAIN pool : OfDataFile(m) => \E k \in DOMAIN pool' : OfDataFile(k)'
  BY DEF OfDataFile
<1>3. \A op : InPool(op)' <=> InPool(op)
  BY DEF InPool
<1>4. ControlFiles'
  BY <1>3 DEF ControlFiles
<1> QED BY <1>1, <1>2, <1>4, SameDataRequest

-----------------------------------------------------------------------------
(***************************************************************************)
(* The library works on the head of its pool.                              *)
(***************************************************************************)
(* What is common to its steps. *)
LEMMA Executed ==
  ASSUME IInv, pc = "execute", pc' = "complete", progress' = TRUE,
         UNCHANGED <<wrapper, caller, io_signal, users, buffer>>,
         pool' \in Seq(Request_Type), Len(pool') <= Len(pool),
         bytes' \in [0 .. (Max_Vba + 1) * BLOCK_SIZE - 1 -> Byte],
         max_vba' \in 0 .. Max_Vba, io' \in {"none", "generated", "submitted", "finished"},
         DistinctOps', RequestsConsistent', OnlyHeadWorkedOn', OneHolder', Matching',
         ControlFiles'
  PROVE  IInv'
<1>1. Len(pool) \in Nat /\ Len(pool') \in Nat
  BY LenProperties DEF IInv, Types
<1>2. Types'
  <2>1. \A k \in DOMAIN pool' : pool'[k] \in Request_Type
    BY LenProperties, ElementOfSeq
  <2>2. Len(pool') <= Nr_Of_Requests
    BY <1>1, VfsAssumption DEF IInv, Types, TypeOK
  <2>3. TypeOK'
    BY <2>1, <2>2 DEF IInv, Types, TypeOK, wrapper
  <2> QED BY <2>3 DEF IInv, Types, PCs, wrapper
<1>3. NoThrow'
  BY DEF IInv, NoThrow, wrapper
<1>4. Pending'
  BY DEF IInv, Pending, Something_Pending, wrapper
<1>5. Quiet'
  BY DEF Quiet
<1> QED BY <1>2, <1>3, <1>4, <1>5 DEF IInv

(* The bytes of a block of the device. *)
LEMMA Product ==
  ASSUME NEW a \in Nat, NEW b \in Nat, NEW c \in Nat, a <= b
  PROVE  a * c \in Nat /\ b * c \in Nat /\ a * c <= b * c /\ (a + 1) * c = a * c + c
OBVIOUS

(* Each block that exists can be read.                                     *)
LEMMA BlockType ==
  ASSUME Types, NEW vba \in Nat, vba <= max_vba
  PROVE  Block(vba) \in [Offsets -> Byte]
<1>1. /\ vba \in Nat /\ Max_Vba \in Nat /\ vba <= Max_Vba /\ BLOCK_SIZE \in Nat
      /\ bytes \in [0 .. (Max_Vba + 1) * BLOCK_SIZE - 1 -> Byte]
  BY VfsAssumption DEF Types, TypeOK
<1>2. /\ vba * BLOCK_SIZE \in Nat /\ Max_Vba * BLOCK_SIZE \in Nat
      /\ vba * BLOCK_SIZE <= Max_Vba * BLOCK_SIZE
      /\ (Max_Vba + 1) * BLOCK_SIZE = Max_Vba * BLOCK_SIZE + BLOCK_SIZE
  BY <1>1, Product
<1>3. \A k \in Offsets : vba * BLOCK_SIZE + k \in 0 .. (Max_Vba + 1) * BLOCK_SIZE - 1
  <2> DEFINE p == vba * BLOCK_SIZE  q == Max_Vba * BLOCK_SIZE  m == (Max_Vba + 1) * BLOCK_SIZE
  <2>1. p \in Nat /\ q \in Nat /\ p <= q /\ m = q + BLOCK_SIZE
    BY <1>2
  <2> HIDE DEF p, q, m
  <2>2. \A k \in Offsets : p + k \in 0 .. m - 1
    BY <1>1, <2>1 DEF Offsets
  <2> QED BY <2>2 DEF p, m
<1> QED BY <1>1, <1>3 DEF Block

(* A step at the head of the pool.                                         *)
LEMMA ExecuteHead ==
  ASSUME IInv, Execute, NEW i \in Incomplete, IsHead(i),
         NEW r \in Request_Type, pool' = [pool EXCEPT ![i] = r],
         r.op = pool[i].op, r.blocks = pool[i].blocks, RequestConsistent(r),
         r.phase \in {"io", "write_io"} <=> io' # "none", progress' = TRUE,
         bytes' \in [0 .. (Max_Vba + 1) * BLOCK_SIZE - 1 -> Byte],
         max_vba' \in 0 .. Max_Vba, io' \in {"none", "generated", "submitted", "finished"}
  PROVE  IInv'
<1>1. /\ pool' \in Seq(Request_Type)
      /\ Len(pool') = Len(pool) /\ DOMAIN pool' = DOMAIN pool
      /\ pool'[i] = r /\ \A k \in DOMAIN pool : k # i => pool'[k] = pool[k]
      /\ DistinctOps' /\ RequestsConsistent' /\ OnlyHeadWorkedOn'
  BY HeadUpdated DEF IInv
<1>2. i \in DOMAIN pool
  BY DEF Incomplete
<1>3. OneHolder' /\ Matching' /\ ControlFiles'
  BY <1>1, <1>2, SameRequests DEF IInv, Execute, wrapper
<1>4. Len(pool) \in Nat
  BY PoolFacts DEF IInv
<1> QED BY <1>1, <1>3, <1>4, Executed DEF Execute

(* A request that is not complete.                                         *)
LEMMA HeadFacts ==
  ASSUME IInv, NEW i \in Incomplete
  PROVE  /\ i \in DOMAIN pool /\ pool[i] \in Request_Type /\ RequestConsistent(pool[i])
         /\ pool[i].phase # "complete" /\ pool[i].index < pool[i].blocks
BY PoolFacts DEF IInv, Incomplete, RequestsConsistent, RequestConsistent

(* The library needs the back end.                                         *)
LEMMA ExecuteGenerateIO ==
  ASSUME IInv, Execute, NEW i \in Incomplete, IsHead(i), Generate_IO(i), progress' = TRUE
  PROVE  IInv'
<1>1. /\ pool[i] \in Request_Type /\ RequestConsistent(pool[i])
      /\ pool[i].index < pool[i].blocks
  BY HeadFacts
<1>2. /\ UNCHANGED <<bytes, max_vba>> /\ io' = "generated"
      /\ bytes \in [0 .. (Max_Vba + 1) * BLOCK_SIZE - 1 -> Byte] /\ max_vba \in 0 .. Max_Vba
  BY DEF IInv, Types, TypeOK, Generate_IO
<1>3. PICK phase \in {"io", "write_io"} :
        /\ pool' = [pool EXCEPT ![i].phase = phase]
        /\ phase = "io" => pool[i].phase = "run"
        /\ phase = "write_io" => pool[i].phase = "encrypted"
  BY DEF Generate_IO
<1> DEFINE r == [pool[i] EXCEPT !.phase = phase]
<1>4. /\ r \in Request_Type /\ r.op = pool[i].op /\ r.blocks = pool[i].blocks
      /\ r.index = pool[i].index /\ r.success = pool[i].success /\ r.phase = phase
  <2>1. phase \in Phases
    BY DEF Phases
  <2> QED BY <1>1, <2>1, OtherPhaseOnly
<1>5. pool' = [pool EXCEPT ![i] = r]
  BY <1>3
<1> HIDE DEF r
<1>6. RequestConsistent(r)
  BY <1>1, <1>3, <1>4 DEF RequestConsistent
<1> QED BY <1>2, <1>3, <1>4, <1>5, <1>6, ExecuteHead

(* It begins with a block of a read or write.                              *)
LEMMA ExecuteBlock ==
  ASSUME IInv, Execute, NEW i \in Incomplete, IsHead(i), Execute_Block(i), progress' = TRUE
  PROVE  IInv'
<1>1. /\ i \in DOMAIN pool /\ pool[i] \in Request_Type /\ RequestConsistent(pool[i])
      /\ pool[i].index < pool[i].blocks
      /\ pool[i].index \in Nat /\ pool[i].blocks \in Nat /\ pool[i].vba \in Nat
  BY HeadFacts DEF Request_Type
<1>2. /\ UNCHANGED <<bytes, max_vba, io>> /\ max_vba \in 0 .. Max_Vba
      /\ bytes \in [0 .. (Max_Vba + 1) * BLOCK_SIZE - 1 -> Byte]
      /\ io \in {"none", "generated", "submitted", "finished"}
      /\ pool[i].phase \in {"run", "io_done"} /\ pool[i].op \in {"READ", "WRITE"}
  BY DEF IInv, Types, TypeOK, Execute_Block
<1>3. io = "none"
  BY <1>2, HeadWaitsForIO DEF IInv
<1> DEFINE vba == pool[i].vba + pool[i].index
           new == IF vba > max_vba THEN Next_Block(pool[i], FALSE)
                  ELSE IF pool[i].op = "READ"
                    THEN [pool[i] EXCEPT !.phase = "decrypt", !.block = Block(vba)]
                  ELSE [pool[i] EXCEPT !.phase = "required"]
<1>4. pool' = [pool EXCEPT ![i] = new]
  BY DEF Execute_Block
<1>5. CASE vba > max_vba
  <2> DEFINE r == Next_Block(pool[i], FALSE)
  <2>1. pool' = [pool EXCEPT ![i] = r]
    BY <1>4, <1>5
  <2>2. /\ r \in Request_Type /\ r.op = pool[i].op /\ r.blocks = pool[i].blocks
        /\ r.index = pool[i].index + 1
        /\ r.phase = IF pool[i].index + 1 = pool[i].blocks THEN "complete" ELSE "run"
    BY <1>1, NextBlock
  <2> HIDE DEF r
  <2>3. RequestConsistent(r)
    BY <1>1, <1>2, <2>2 DEF RequestConsistent, Data_Ops
  <2> QED BY <1>2, <1>3, <2>1, <2>2, <2>3, ExecuteHead
<1>6. CASE ~(vba > max_vba) /\ pool[i].op = "READ"
  <2> DEFINE r == [pool[i] EXCEPT !.phase = "decrypt", !.block = Block(vba)]
  <2>1. pool' = [pool EXCEPT ![i] = r]
    BY <1>4, <1>6
  <2>2. Block(vba) \in [Offsets -> Byte]
    <3>1. Types
      BY DEF IInv
    <3>2. vba \in Nat
      BY <1>1
    <3>3. vba <= max_vba
      BY <1>2, <1>6, <3>2
    <3> HIDE DEF vba
    <3> QED BY <3>1, <3>2, <3>3, BlockType
  <2>3. /\ r \in Request_Type /\ r.op = pool[i].op /\ r.blocks = pool[i].blocks
        /\ r.index = pool[i].index /\ r.phase = "decrypt" /\ r.success = pool[i].success
    BY <1>1, <2>2 DEF Request_Type
  <2> HIDE DEF r
  <2>4. RequestConsistent(r)
    BY <1>1, <1>6, <2>3 DEF RequestConsistent, Data_Ops
  <2> QED BY <1>2, <1>3, <2>1, <2>3, <2>4, ExecuteHead
<1>7. CASE ~(vba > max_vba) /\ pool[i].op = "WRITE"
  <2> DEFINE r == [pool[i] EXCEPT !.phase = "required"]
  <2>1. pool' = [pool EXCEPT ![i] = r]
    BY <1>4, <1>7
  <2>2. /\ r \in Request_Type /\ r.op = pool[i].op /\ r.blocks = pool[i].blocks
        /\ r.index = pool[i].index /\ r.phase = "required" /\ r.success = pool[i].success
    BY <1>1, OtherPhaseOnly DEF Phases
  <2> HIDE DEF r
  <2>3. RequestConsistent(r)
    BY <1>1, <1>7, <2>2 DEF RequestConsistent, Data_Ops
  <2> QED BY <1>2, <1>3, <2>1, <2>2, <2>3, ExecuteHead
<1> QED BY <1>2, <1>5, <1>6, <1>7

(* It ends with the block of a write.                                      *)
LEMMA ExecuteWrite ==
  ASSUME IInv, Execute, NEW i \in Incomplete, IsHead(i), Write_Block(i), progress' = TRUE
  PROVE  IInv'
<1>1. /\ i \in DOMAIN pool /\ pool[i] \in Request_Type /\ RequestConsistent(pool[i])
      /\ pool[i].index < pool[i].blocks
      /\ pool[i].index \in Nat /\ pool[i].blocks \in Nat /\ pool[i].vba \in Nat
  BY HeadFacts DEF Request_Type
<1>2. /\ UNCHANGED <<max_vba, io>> /\ max_vba \in 0 .. Max_Vba
      /\ bytes \in [0 .. (Max_Vba + 1) * BLOCK_SIZE - 1 -> Byte]
      /\ io \in {"none", "generated", "submitted", "finished"}
      /\ pool[i].phase = "write_io_done"
  BY DEF IInv, Types, TypeOK, Write_Block
<1>3. io = "none"
  BY <1>2, HeadWaitsForIO DEF IInv
<1>4. bytes' \in [0 .. (Max_Vba + 1) * BLOCK_SIZE - 1 -> Byte]
  <2>1. pool[i].block \in [Offsets -> Byte]
    BY <1>1 DEF Request_Type
  <2> DEFINE first == (pool[i].vba + pool[i].index) * BLOCK_SIZE
  <2>2. bytes' = [b \in DOMAIN bytes |->
                    IF b - first \in Offsets THEN pool[i].block[b - first] ELSE bytes[b]]
    BY DEF Write_Block
  <2> HIDE DEF first
  <2> QED BY <1>2, <2>1, <2>2
<1> DEFINE r == Next_Block(pool[i], TRUE)
<1>5. pool' = [pool EXCEPT ![i] = r]
  BY DEF Write_Block
<1>6. /\ r \in Request_Type /\ r.op = pool[i].op /\ r.blocks = pool[i].blocks
      /\ r.index = pool[i].index + 1
      /\ r.phase = IF pool[i].index + 1 = pool[i].blocks THEN "complete" ELSE "run"
  BY <1>1, NextBlock
<1> HIDE DEF r
<1>7. RequestConsistent(r)
  BY <1>1, <1>2, <1>6 DEF RequestConsistent, Data_Ops
<1> QED BY <1>2, <1>3, <1>4, <1>5, <1>6, <1>7, ExecuteHead

(* It does a step of another request.                                      *)
LEMMA ExecuteOther ==
  ASSUME IInv, Execute, NEW i \in Incomplete, IsHead(i), Execute_Other(i), progress' = TRUE
  PROVE  IInv'
<1>1. /\ i \in DOMAIN pool /\ pool[i] \in Request_Type /\ RequestConsistent(pool[i])
      /\ pool[i].index < pool[i].blocks
      /\ pool[i].index \in Nat /\ pool[i].blocks \in Nat /\ Len(pool) \in Nat
  BY HeadFacts, PoolFacts DEF Request_Type, IInv
<1> DEFINE grown == IF pool[i].op = "EXTEND_VBD" /\ max_vba < Max_Vba THEN max_vba + 1 ELSE max_vba
<1>9. max_vba \in 0 .. Max_Vba /\ grown \in 0 .. Max_Vba
  BY VfsAssumption DEF IInv, Types, TypeOK
<1>10. max_vba' \in {max_vba, grown}
  BY DEF Execute_Other
<1>2. /\ UNCHANGED <<bytes, io>> /\ max_vba' \in 0 .. Max_Vba
      /\ bytes \in [0 .. (Max_Vba + 1) * BLOCK_SIZE - 1 -> Byte]
      /\ io \in {"none", "generated", "submitted", "finished"}
      /\ pool[i].phase \in {"run", "io_done"} /\ pool[i].op \notin {"READ", "WRITE"}
  BY <1>9, <1>10 DEF IInv, Types, TypeOK, Execute_Other
<1>3. io = "none"
  BY <1>2, HeadWaitsForIO DEF IInv
<1>4. UNCHANGED wrapper
  BY DEF Execute
<1>5. CASE pool' = [pool EXCEPT ![i] = Next_Block(pool[i], TRUE)]
           /\ pool[i].index + 1 = pool[i].blocks /\ pool[i].op # "INITIALIZE"
  <2> DEFINE r == Next_Block(pool[i], TRUE)
  <2>1. /\ r \in Request_Type /\ r.op = pool[i].op /\ r.blocks = pool[i].blocks
        /\ r.index = pool[i].index + 1 /\ r.phase = "complete" /\ r.success = TRUE
    BY <1>1, <1>5, NextBlock
  <2> HIDE DEF r
  <2>2. RequestConsistent(r)
    BY <1>1, <1>2, <1>5, <2>1 DEF RequestConsistent
  <2>3. pool' = [pool EXCEPT ![i] = r]
    BY <1>5 DEF r
  <2> QED BY <1>2, <1>3, <2>1, <2>2, <2>3, ExecuteHead
<1>6. CASE /\ pool' = Let_Others_Pass(i) /\ pool[i].op # "INITIALIZE"
           /\ pool[i].index + 1 < pool[i].blocks
  <2>1. CASE pool[i].op \notin Data_Ops
    <3>1. /\ pool' \in Seq(Request_Type)
          /\ Len(pool') = Len(pool) /\ DOMAIN pool' = DOMAIN pool
          /\ \A k \in DOMAIN pool' : \E m \in DOMAIN pool :
               pool'[k].op = pool[m].op /\ (m = i \/ pool'[k] = pool[m])
          /\ \A m \in DOMAIN pool : \E k \in DOMAIN pool' :
               pool'[k].op = pool[m].op /\ (m = i \/ pool'[k] = pool[m])
          /\ DistinctOps' /\ RequestsConsistent' /\ OnlyHeadWorkedOn'
      BY <1>2, <1>6, <2>1, PoolPassed DEF IInv
    <3>2. \A k \in DOMAIN pool' : \E m \in DOMAIN pool :
            pool'[k].op = pool[m].op /\ (OfDataFile(m) => pool'[k].blocks = pool[m].blocks)
      BY <2>1, <3>1 DEF OfDataFile
    <3>3. OneHolder' /\ Matching' /\ ControlFiles'
      BY <1>4, <3>1, <3>2, SameRequests DEF IInv, wrapper
    <3> QED BY <1>1, <1>2, <3>1, <3>3, Executed DEF Execute
  <2>2. CASE pool[i].op = "SYNC"
    BY <1>1, <1>6, <2>2 DEF RequestConsistent
  <2> QED BY <1>2, <2>1, <2>2 DEF Data_Ops
<1>7. CASE pool' = RemoveAt(pool, i) /\ pool[i].op = "INITIALIZE"
  <2>1. /\ pool' \in Seq(Request_Type)
        /\ Len(pool') = Len(pool) - 1 /\ DOMAIN pool' = 1 .. Len(pool) - 1
        /\ \A k \in DOMAIN pool' : \E m \in DOMAIN pool : m # i /\ pool'[k] = pool[m]
        /\ \A m \in DOMAIN pool : m # i => \E k \in DOMAIN pool' : pool'[k] = pool[m]
        /\ DistinctOps' /\ RequestsConsistent' /\ OnlyHeadWorkedOn'
    BY <1>1, <1>2, <1>7, PoolRemoved DEF IInv
  <2>2. OneHolder' /\ Matching'
    <3>1. \A k \in DOMAIN pool' : OfDataFile(k)' => \E m \in DOMAIN pool :
            OfDataFile(m) /\ pool'[k].op = pool[m].op /\ pool'[k].blocks = pool[m].blocks
      BY <2>1 DEF OfDataFile
    <3>2. \A m \in DOMAIN pool : OfDataFile(m) => \E k \in DOMAIN pool' : OfDataFile(k)'
      BY <1>7, <2>1 DEF OfDataFile, Data_Ops
    <3> QED BY <1>4, <3>1, <3>2, SameDataRequest DEF IInv, wrapper
  <2>3. ASSUME NEW op \in Ops \ {"INITIALIZE"} PROVE InPool(op)' <=> InPool(op)
    <3>1. \A k \in DOMAIN pool' : \E m \in DOMAIN pool : pool'[k].op = pool[m].op
      BY <2>1
    <3>2. \A m \in DOMAIN pool : pool[m].op = op => \E k \in DOMAIN pool' : pool'[k].op = op
      BY <1>7, <2>1
    <3> QED BY <3>1, <3>2 DEF InPool
  <2>4. ~InPool("INITIALIZE")'
    BY <1>1, <1>7, <2>1 DEF InPool, IInv, DistinctOps
  <2>5. ControlFiles'
    BY <1>4, <2>3, <2>4 DEF IInv, ControlFiles, wrapper, Ops, In_Background
  <2> QED BY <1>1, <1>2, <2>1, <2>2, <2>5, Executed DEF Execute
<1>8. ASSUME NEW op \in {"REKEY", "EXTEND_VBD"} \cap Background, pool[i].op = "INITIALIZE",
             pool' = [pool EXCEPT ![i] = Library_Request(op, 0, Steps(op), Nobody)]
      PROVE  IInv'
  <2> DEFINE r == Library_Request(op, 0, Steps(op), Nobody)
  <2>1. r \in Request_Type /\ r.op = op /\ r.phase = "run" /\ RequestConsistent(r)
    BY BackgroundRequest DEF In_Background
  <2> HIDE DEF r
  <2>2. /\ DOMAIN pool = 1 .. Len(pool) /\ pool \in Seq(Request_Type)
        /\ pool' = [pool EXCEPT ![i] = r]
    BY <1>8, PoolFacts DEF IInv, Types, r
  <2>3. /\ pool' \in Seq(Request_Type) /\ Len(pool') = Len(pool) /\ DOMAIN pool' = DOMAIN pool
        /\ pool'[i] = r /\ \A k \in DOMAIN pool : k # i => pool'[k] = pool[k]
    BY <1>1, <2>1, <2>2, ExceptSeq
  <2>4. InPool("INITIALIZE") /\ ~InPool("REKEY") /\ ~InPool("EXTEND_VBD")
    BY <1>1, <1>8 DEF InPool, IInv, ControlFiles
  <2>5. DistinctOps'
    BY <1>1, <1>8, <2>1, <2>3, <2>4 DEF IInv, DistinctOps, OfDataFile, InPool, Data_Ops
  <2>6. RequestsConsistent'
    BY <2>1, <2>3 DEF IInv, RequestsConsistent
  <2>7. OnlyHeadWorkedOn'
    <3>1. \A k \in DOMAIN pool' : pool'[k].phase \in {"run", "complete"}
      BY <2>1, <2>3, OthersRun DEF IInv
    <3> QED BY <1>2, <1>3, <3>1 DEF OnlyHeadWorkedOn, Incomplete
  <2>8. OneHolder' /\ Matching'
    <3>1. \A k \in DOMAIN pool' : OfDataFile(k)' => \E m \in DOMAIN pool :
            OfDataFile(m) /\ pool'[k].op = pool[m].op /\ pool'[k].blocks = pool[m].blocks
      BY <2>1, <2>3 DEF OfDataFile, Data_Ops
    <3>2. \A m \in DOMAIN pool : OfDataFile(m) => \E k \in DOMAIN pool' : OfDataFile(k)'
      BY <1>8, <2>3 DEF OfDataFile, Data_Ops
    <3> QED BY <1>4, <3>1, <3>2, SameDataRequest DEF IInv, wrapper
  <2>9. /\ ~InPool("INITIALIZE")' /\ InPool(op)'
        /\ \A o \in Ops \ {"INITIALIZE", op} : InPool(o)' <=> InPool(o)
    BY <1>1, <1>8, <2>1, <2>3 DEF InPool, IInv, DistinctOps
  <2>10. ControlFiles'
    BY <1>4, <2>4, <2>9 DEF IInv, ControlFiles, wrapper, Ops, In_Background
  <2> QED BY <1>1, <1>2, <2>3, <2>5, <2>6, <2>7, <2>8, <2>10, Executed DEF Execute
<1> QED BY <1>5, <1>6, <1>7, <1>8 DEF Execute_Other

(* Each pass of the library keeps the invariant.                           *)
LEMMA ExecuteStep ==
  ASSUME IInv, Execute
  PROVE  IInv'
<1>1. CASE /\ Incomplete = {} \/ \E i \in Incomplete : IsHead(i) /\ Library_Waits(i)
           /\ UNCHANGED <<pool, bytes, max_vba, io, progress>>
  <2>1. UNCHANGED <<wrapper, caller, io_signal, users, buffer>> /\ pc = "execute" /\ pc' = "complete"
    BY DEF Execute
  <2>2. Types'
    BY <1>1, <2>1 DEF IInv, Types, TypeOK, PCs, wrapper
  <2>3. NoThrow' /\ Pending'
    BY <1>1, <2>1 DEF IInv, NoThrow, Pending, Something_Pending, wrapper, Client_Request_Acceptable
  <2>4. DistinctOps' /\ RequestsConsistent' /\ OnlyHeadWorkedOn'
    BY <1>1 DEF IInv, DistinctOps, OfDataFile, RequestsConsistent, OnlyHeadWorkedOn, Incomplete
  <2>5. OneHolder' /\ Matching' /\ ControlFiles'
    BY <1>1, <2>1 DEF IInv, OneHolder, Matching, ControlFiles, OfDataFile, InPool, wrapper
  <2>6. \A i \in Incomplete : IsHead(i) => Library_Waits(i)
    BY <1>1, PoolFacts DEF IsHead, Incomplete, IInv
  <2>7. Quiet'
    BY <1>1, <2>1, <2>6 DEF IInv, Quiet, Incomplete, IsHead, Library_Waits
  <2> QED BY <2>2, <2>3, <2>4, <2>5, <2>7 DEF IInv
<1>2. CASE \E i \in Incomplete :
             /\ IsHead(i)
             /\ Generate_IO(i) \/ Execute_Block(i) \/ Write_Block(i) \/ Execute_Other(i)
             /\ progress' = TRUE
  BY <1>2, ExecuteGenerateIO, ExecuteBlock, ExecuteWrite, ExecuteOther
<1> QED BY <1>1, <1>2 DEF Execute

-----------------------------------------------------------------------------
(***************************************************************************)
(* Requests are submitted to the library.                                  *)
(***************************************************************************)
LEMMA Submitted ==
  ASSUME IInv, Submit_Requests, Client_Request_Acceptable,
         NEW r \in Request_Type, Append_To_Pool(r),
         r.op \in Data_Ops, RequestConsistent(r), r.phase = "run",
         \A k \in DOMAIN pool : ~OfDataFile(k)
  PROVE  /\ pool' \in Seq(Request_Type)
         /\ DistinctOps' /\ RequestsConsistent' /\ OnlyHeadWorkedOn'
         /\ \A k \in DOMAIN pool' : OfDataFile(k)' => pool'[k] = r
         /\ \E k \in DOMAIN pool' : OfDataFile(k)'
         /\ Len(pool') <= Nr_Of_Requests
         /\ ControlFiles'
<1>1. ~InPool(r.op) /\ io' = io /\ Len(pool) \in Nat /\ DOMAIN pool = 1 .. Len(pool)
  BY PoolFacts DEF InPool, OfDataFile, Submit_Requests, device, IInv
<1>2. /\ pool' \in Seq(Request_Type)
      /\ Len(pool') = Len(pool) + 1 /\ DOMAIN pool' = 1 .. Len(pool) + 1
      /\ pool'[Len(pool) + 1] = r /\ \A k \in DOMAIN pool : pool'[k] = pool[k]
      /\ DistinctOps' /\ RequestsConsistent' /\ OnlyHeadWorkedOn'
  BY <1>1, PoolAppended DEF IInv
<1>3. \A op \in Ops \ Data_Ops : InPool(op)' <=> InPool(op)
  BY <1>1, <1>2 DEF InPool
<1>4. ControlFiles'
  BY <1>3 DEF IInv, ControlFiles, Submit_Requests, Ops, Data_Ops, In_Background
<1>5. Len(pool') <= Nr_Of_Requests
  BY <1>1, <1>2, VfsAssumption DEF Client_Request_Acceptable
<1>6. \A k \in DOMAIN pool' : OfDataFile(k)' => pool'[k] = r
  BY <1>1, <1>2 DEF OfDataFile
<1>7. \E k \in DOMAIN pool' : OfDataFile(k)'
  <2>1. Len(pool) + 1 \in DOMAIN pool'
    BY <1>1, <1>2
  <2> QED BY <1>2, <2>1 DEF OfDataFile
<1> QED BY <1>2, <1>4, <1>5, <1>6, <1>7

(* What is common to the cases of Submit_Requests.                         *)
LEMMA AfterSubmit ==
  ASSUME IInv, Submit_Requests,
         pool' \in Seq(Request_Type), Len(pool') <= Nr_Of_Requests,
         DistinctOps', RequestsConsistent', OnlyHeadWorkedOn',
         OneHolder', Matching', ControlFiles',
         frontend' \in {frontend, [frontend EXCEPT !.state = "IN_PROGRESS"]},
         helper_read' \in {helper_read, [helper_read EXCEPT !.state = "IN_PROGRESS"]},
         helper_write' \in {helper_write, [helper_write EXCEPT !.state = "IN_PROGRESS"]},
         ~Something_Pending'
  PROVE  IInv'
<1>1. /\ UNCHANGED <<enqueued, io_pending, rekey, extend, snapshot_requests, thrown, caller,
                     progress, device, users, buffer>>
      /\ pc = "submit" /\ pc' = "execute"
  BY DEF Submit_Requests
<1>2. Types'
  <2>1. \A k \in DOMAIN pool' : pool'[k] \in Request_Type
    BY LenProperties, ElementOfSeq
  <2>2. frontend' \in [state : {"NONE", "PENDING", "IN_PROGRESS", "COMPLETE", "ERROR_EOF"},
                       op : {"READ", "WRITE", "SYNC"}, vba : Nat, blocks : Nat,
                       count : 0 .. Max_Count, helper_offset : Offsets,
                       data : Handles \cup {Nobody}]
    BY DEF IInv, Types, TypeOK
  <2>3. /\ helper_read' \in Helper_Type({"NONE", "PENDING", "IN_PROGRESS", "COMPLETE"})
        /\ helper_write' \in Helper_Type({"NONE", "PENDING", "IN_PROGRESS", "COMPLETE"})
    BY DEF IInv, Types, TypeOK, Helper_Type
  <2>4. TypeOK'
    BY <1>1, <2>1, <2>2, <2>3 DEF IInv, Types, TypeOK, device
  <2> QED BY <1>1, <2>4 DEF IInv, Types, PCs
<1>3. NoThrow'
  BY <1>1 DEF IInv, NoThrow
<1>4. "COMPLETE" \notin {helper_read'.state, helper_write'.state}
  BY <1>1 DEF IInv, Pending, Types, TypeOK, Helper_Type
<1>5. Pending'
  BY <1>1, <1>4 DEF Pending, Something_Pending
<1>6. Quiet'
  BY <1>1 DEF Quiet
<1> QED BY <1>2, <1>3, <1>5, <1>6 DEF IInv

(* Submitting a request, or none.                                          *)
LEMMA SubmitStep ==
  ASSUME IInv, Submit_Requests
  PROVE  IInv'
<1>1. /\ UNCHANGED <<enqueued, io_pending, rekey, extend, snapshot_requests, thrown, caller,
                     progress, device, users, buffer>>
      /\ pc = "submit"
  BY DEF Submit_Requests
<1>2. /\ DOMAIN frontend = DOMAIN No_Request
      /\ DOMAIN helper_read = DOMAIN No_Helper /\ DOMAIN helper_write = DOMAIN No_Helper
      /\ helper_read.vba \in Nat /\ helper_write.vba \in Nat
      /\ frontend.op \in Data_Ops /\ frontend.vba \in Nat /\ frontend.blocks \in Nat
      /\ frontend.data \in Handles \cup {Nobody}
  BY DEF IInv, Types, TypeOK, Helper_Type, No_Request, No_Helper, Data_Ops
<1>3. CASE Submit_Helper_Read
  <2> DEFINE r == Library_Request("READ", helper_read.vba, 1, Nobody)
  <2>1. /\ r \in Request_Type /\ r.op = "READ" /\ r.phase = "run" /\ RequestConsistent(r)
    BY <1>2, DataRequest DEF Data_Ops
  <2>2. /\ Client_Request_Acceptable /\ Append_To_Pool(r) /\ helper_read.state = "PENDING"
        /\ helper_read' = [helper_read EXCEPT !.state = "IN_PROGRESS"]
        /\ UNCHANGED <<helper_write, frontend>>
    BY <1>3 DEF Submit_Helper_Read
  <2> HIDE DEF r
  <2>3. \A k \in DOMAIN pool : ~OfDataFile(k)
    BY <2>2 DEF IInv, OneHolder, Held
  <2>4. /\ pool' \in Seq(Request_Type)
        /\ DistinctOps' /\ RequestsConsistent' /\ OnlyHeadWorkedOn'
        /\ \A k \in DOMAIN pool' : OfDataFile(k)' => pool'[k] = r
        /\ \E k \in DOMAIN pool' : OfDataFile(k)'
        /\ Len(pool') <= Nr_Of_Requests
        /\ ControlFiles'
    BY <2>1, <2>2, <2>3, Submitted DEF Data_Ops
  <2>5. /\ frontend'.state = "IN_PROGRESS" /\ frontend' = frontend /\ frontend.op # "SYNC"
        /\ helper_read'.state = "IN_PROGRESS" /\ helper_write'.state = "NONE"
    BY <1>2, <2>2 DEF IInv, OneHolder, No_Helper
  <2>6. OneHolder'
    BY <2>4, <2>5 DEF OneHolder, Held
  <2>7. Matching'
    BY <2>1, <2>4, <2>5 DEF IInv, Matching
  <2>8. ~Something_Pending'
    BY <2>5 DEF Something_Pending
  <2> QED BY <2>2, <2>4, <2>6, <2>7, <2>8, AfterSubmit
<1>4. CASE Submit_Helper_Write
  <2> DEFINE r == Library_Request("WRITE", helper_write.vba, 1, Nobody)
  <2>1. /\ r \in Request_Type /\ r.op = "WRITE" /\ r.phase = "run" /\ RequestConsistent(r)
    BY <1>2, DataRequest DEF Data_Ops
  <2>2. /\ Client_Request_Acceptable /\ Append_To_Pool(r) /\ helper_write.state = "PENDING"
        /\ helper_write' = [helper_write EXCEPT !.state = "IN_PROGRESS"]
        /\ UNCHANGED <<helper_read, frontend>>
    BY <1>4 DEF Submit_Helper_Write
  <2> HIDE DEF r
  <2>3. \A k \in DOMAIN pool : ~OfDataFile(k)
    BY <2>2 DEF IInv, OneHolder, Held
  <2>4. /\ pool' \in Seq(Request_Type)
        /\ DistinctOps' /\ RequestsConsistent' /\ OnlyHeadWorkedOn'
        /\ \A k \in DOMAIN pool' : OfDataFile(k)' => pool'[k] = r
        /\ \E k \in DOMAIN pool' : OfDataFile(k)'
        /\ Len(pool') <= Nr_Of_Requests
        /\ ControlFiles'
    BY <2>1, <2>2, <2>3, Submitted DEF Data_Ops
  <2>5. /\ frontend'.state = "IN_PROGRESS" /\ frontend' = frontend /\ frontend.op = "WRITE"
        /\ helper_read'.state = "NONE" /\ helper_write'.state = "IN_PROGRESS"
    BY <1>2, <2>2 DEF IInv, OneHolder, No_Helper
  <2>6. OneHolder'
    BY <2>4, <2>5 DEF OneHolder, Held
  <2>7. Matching'
    BY <2>1, <2>4, <2>5 DEF IInv, Matching
  <2>8. ~Something_Pending'
    BY <2>5 DEF Something_Pending
  <2> QED BY <2>2, <2>4, <2>6, <2>7, <2>8, AfterSubmit
<1>5. CASE Submit_Frontend
  <2> DEFINE r == Library_Request(frontend.op, frontend.vba, frontend.blocks, frontend.data)
  <2>1. frontend.state = "PENDING" /\ Client_Request_Acceptable /\ Append_To_Pool(r)
        /\ frontend' = [frontend EXCEPT !.state = "IN_PROGRESS"]
        /\ UNCHANGED <<helper_read, helper_write>>
    BY <1>5 DEF Submit_Frontend
  <2>2. /\ r \in Request_Type /\ r.op = frontend.op /\ r.phase = "run" /\ RequestConsistent(r)
        /\ r.blocks = frontend.blocks
    BY <1>2, <2>1, DataRequest DEF IInv, Pending
  <2> HIDE DEF r
  <2>3. \A k \in DOMAIN pool : ~OfDataFile(k)
    BY <2>1 DEF IInv, OneHolder
  <2>4. /\ pool' \in Seq(Request_Type)
        /\ DistinctOps' /\ RequestsConsistent' /\ OnlyHeadWorkedOn'
        /\ \A k \in DOMAIN pool' : OfDataFile(k)' => pool'[k] = r
        /\ \E k \in DOMAIN pool' : OfDataFile(k)'
        /\ Len(pool') <= Nr_Of_Requests
        /\ ControlFiles'
    BY <1>2, <2>1, <2>2, <2>3, Submitted
  <2>5. /\ frontend'.state = "IN_PROGRESS" /\ frontend'.op = frontend.op
        /\ frontend'.blocks = frontend.blocks
        /\ helper_read'.state = "NONE" /\ helper_write'.state = "NONE"
    BY <1>2, <2>1 DEF IInv, OneHolder, No_Request
  <2>6. OneHolder'
    BY <2>4, <2>5 DEF OneHolder, Held
  <2>7. Matching'
    BY <2>2, <2>4, <2>5 DEF IInv, Matching
  <2>8. ~Something_Pending'
    BY <2>5 DEF Something_Pending
  <2> QED BY <2>1, <2>4, <2>6, <2>7, <2>8, AfterSubmit
<1>6. CASE /\ ~Something_Pending \/ ~Client_Request_Acceptable
           /\ UNCHANGED <<pool, frontend, helper_read, helper_write>>
  <2>1. ~Something_Pending'
    BY <1>6 DEF IInv, Pending, Something_Pending
  <2>2. DistinctOps' /\ RequestsConsistent' /\ OnlyHeadWorkedOn'
    BY <1>1, <1>6 DEF IInv, DistinctOps, OfDataFile, RequestsConsistent, OnlyHeadWorkedOn,
                      Incomplete, device
  <2>3. OneHolder' /\ Matching' /\ ControlFiles'
    BY <1>1, <1>6 DEF IInv, OneHolder, Matching, ControlFiles, OfDataFile, InPool
  <2>4. pool' \in Seq(Request_Type) /\ Len(pool') <= Nr_Of_Requests
    BY <1>6 DEF IInv, Types, TypeOK
  <2> QED BY <1>6, <2>1, <2>2, <2>3, <2>4, AfterSubmit
<1> QED BY <1>3, <1>4, <1>5, <1>6 DEF Submit_Requests

(* A request out of range ends.                                            *)
LEMMA RejectStep ==
  ASSUME IInv, Reject_Frontend
  PROVE  IInv'
<1>1. /\ pc = "submit" /\ pc' = "backend" /\ frontend.state = "PENDING"
      /\ frontend' = [frontend EXCEPT !.state = "ERROR_EOF"]
      /\ UNCHANGED <<helper_read, helper_write, enqueued, io_pending, rekey, extend,
                     snapshot_requests, thrown, caller, progress, pool, device, users, buffer>>
  BY DEF Reject_Frontend
<1>2. /\ frontend' \in [state : {"NONE", "PENDING", "IN_PROGRESS", "COMPLETE", "ERROR_EOF"},
                        op : {"READ", "WRITE", "SYNC"}, vba : Nat, blocks : Nat,
                        count : 0 .. Max_Count, helper_offset : Offsets,
                        data : Handles \cup {Nobody}]
      /\ frontend'.state = "ERROR_EOF" /\ frontend'.op = frontend.op
      /\ frontend'.blocks = frontend.blocks
  BY <1>1 DEF IInv, Types, TypeOK
<1>3. Types'
  BY <1>1, <1>2 DEF IInv, Types, TypeOK, PCs, device
<1>4. helper_read.state = "NONE" /\ helper_write.state = "NONE"
  BY <1>1 DEF IInv, OneHolder
<1>5. \A i \in DOMAIN pool : ~OfDataFile(i)
  BY <1>1 DEF IInv, OneHolder
<1>6. OneHolder' /\ Matching'
  BY <1>1, <1>2, <1>4, <1>5 DEF IInv, OneHolder, Matching, OfDataFile
<1>7. Pending' /\ Quiet'
  BY <1>1, <1>2, <1>4 DEF IInv, Pending, Quiet, Something_Pending, Incomplete
<1>8. NoThrow' /\ DistinctOps' /\ RequestsConsistent' /\ OnlyHeadWorkedOn' /\ ControlFiles'
  BY <1>1 DEF IInv, NoThrow, DistinctOps, RequestsConsistent, OnlyHeadWorkedOn, ControlFiles,
              Incomplete, OfDataFile, InPool, device
<1> QED BY <1>3, <1>6, <1>7, <1>8 DEF IInv

-----------------------------------------------------------------------------
(***************************************************************************)
(* Requests that are complete are dropped, and so are helper requests.     *)
(***************************************************************************)
(* What is left in the pool when a request has been dropped.               *)
LEMMA Dropped ==
  ASSUME IInv, NEW i \in DOMAIN pool, Drop_Completed(i)
  PROVE  /\ pool' \in Seq(Request_Type) /\ Len(pool') <= Nr_Of_Requests
         /\ \A k \in DOMAIN pool' : pool'[k] \in Request_Type
         /\ Client_Request_Acceptable'
         /\ DistinctOps' /\ RequestsConsistent' /\ OnlyHeadWorkedOn'
         /\ \A op \in Ops : InPool(op)' <=> InPool(op) /\ op # pool[i].op
         /\ OfDataFile(i) => \A k \in DOMAIN pool' : ~OfDataFile(k)'
         /\ ~OfDataFile(i) =>
              /\ \A k \in DOMAIN pool' : OfDataFile(k)' => \E m \in DOMAIN pool :
                   OfDataFile(m) /\ pool'[k].op = pool[m].op /\ pool'[k].blocks = pool[m].blocks
              /\ \A m \in DOMAIN pool : OfDataFile(m) => \E k \in DOMAIN pool' : OfDataFile(k)'
<1>1. /\ pool[i].phase = "complete" /\ pool' = RemoveAt(pool, i) /\ io' = io
      /\ Len(pool) \in Nat /\ Len(pool) <= Nr_Of_Requests
  BY PoolFacts DEF Drop_Completed, device, IInv, Types, TypeOK
<1>2. /\ pool' \in Seq(Request_Type)
      /\ Len(pool') = Len(pool) - 1
      /\ \A k \in DOMAIN pool' : \E m \in DOMAIN pool : m # i /\ pool'[k] = pool[m]
      /\ \A m \in DOMAIN pool : m # i => \E k \in DOMAIN pool' : pool'[k] = pool[m]
      /\ DistinctOps' /\ RequestsConsistent' /\ OnlyHeadWorkedOn'
  BY <1>1, PoolRemoved DEF IInv
<1>3. Len(pool') <= Nr_Of_Requests /\ Client_Request_Acceptable'
  BY <1>1, <1>2, VfsAssumption DEF Client_Request_Acceptable
<1>4. \A k \in DOMAIN pool' : pool'[k] \in Request_Type
  BY <1>2, LenProperties, ElementOfSeq
<1>5. \A m \in DOMAIN pool : m # i => pool[m].op # pool[i].op
  BY DEF IInv, DistinctOps
<1>6. \A op \in Ops : InPool(op)' <=> InPool(op) /\ op # pool[i].op
  <2>1. ASSUME NEW op, InPool(op)' PROVE InPool(op) /\ op # pool[i].op
    BY <1>2, <1>5, <2>1 DEF InPool
  <2>2. ASSUME NEW op, InPool(op), op # pool[i].op PROVE InPool(op)'
    BY <1>2, <2>2 DEF InPool
  <2> QED BY <2>1, <2>2
<1>7. OfDataFile(i) => \A k \in DOMAIN pool' : ~OfDataFile(k)'
  BY <1>2 DEF OfDataFile, IInv, DistinctOps
<1>8. ~OfDataFile(i) =>
        /\ \A k \in DOMAIN pool' : OfDataFile(k)' => \E m \in DOMAIN pool :
             OfDataFile(m) /\ pool'[k].op = pool[m].op /\ pool'[k].blocks = pool[m].blocks
        /\ \A m \in DOMAIN pool : OfDataFile(m) => \E k \in DOMAIN pool' : OfDataFile(k)'
  BY <1>2 DEF OfDataFile
<1> QED BY <1>2, <1>3, <1>4, <1>6, <1>7, <1>8

(* A request of the data file is complete.                                 *)
LEMMA DropData ==
  ASSUME IInv, NEW i \in DOMAIN pool, Drop_Completed(i), Of_Data_File(pool[i])
  PROVE  IInv'
<1>1. /\ pc = "complete" /\ pc' \in {"complete", "helpers"} /\ progress' = TRUE
      /\ Complete_Data(pool[i]) /\ (pc' = "helpers" <=> ~pool[i].success)
      /\ UNCHANGED <<enqueued, io_pending, rekey, extend, snapshot_requests, thrown, caller,
                     device, users, buffer>>
  BY DEF Drop_Completed
<1>2. OfDataFile(i)
  BY DEF OfDataFile, Of_Data_File, Data_Ops
<1>3. /\ pool' \in Seq(Request_Type) /\ Len(pool') <= Nr_Of_Requests
      /\ \A k \in DOMAIN pool' : pool'[k] \in Request_Type /\ ~OfDataFile(k)'
      /\ Client_Request_Acceptable'
      /\ DistinctOps' /\ RequestsConsistent' /\ OnlyHeadWorkedOn'
      /\ \A op \in Ops \ Data_Ops : InPool(op)' <=> InPool(op)
  BY <1>2, Dropped DEF OfDataFile
<1>4. /\ frontend.state = "IN_PROGRESS"
      /\ helper_read.state \in {"NONE", "IN_PROGRESS"}
      /\ helper_write.state \in {"NONE", "IN_PROGRESS"}
      /\ helper_read.state # "NONE" => helper_write.state = "NONE" /\ frontend.op # "SYNC"
      /\ helper_write.state # "NONE" => frontend.op = "WRITE"
      /\ frontend.op = "WRITE" => frontend.blocks * BLOCK_SIZE <= Max_Count
  BY <1>2 DEF IInv, OneHolder, Matching, Held, Types, TypeOK, Helper_Type
<1>5. /\ frontend'.state \in {"IN_PROGRESS", "COMPLETE"}
      /\ frontend'.op = frontend.op /\ frontend'.blocks = frontend.blocks
      /\ helper_read'.state \in {"NONE", "COMPLETE"}
      /\ helper_write'.state \in {"NONE", "COMPLETE"}
      /\ helper_read'.state # "NONE" =>
           helper_read.state # "NONE" /\ helper_write'.state = "NONE"
      /\ helper_write'.state # "NONE" => helper_write.state # "NONE"
      /\ frontend'.state = "IN_PROGRESS" <=> "COMPLETE" \in {helper_read'.state, helper_write'.state}
      /\ "COMPLETE" \in {helper_read'.state, helper_write'.state} => pool[i].success
  BY <1>1, <1>4 DEF Complete_Data, IInv, Types, TypeOK, Helper_Type, No_Helper
<1>6. /\ frontend' \in [state : {"NONE", "PENDING", "IN_PROGRESS", "COMPLETE", "ERROR_EOF"},
                        op : {"READ", "WRITE", "SYNC"}, vba : Nat, blocks : Nat,
                        count : 0 .. Max_Count, helper_offset : Offsets,
                        data : Handles \cup {Nobody}]
      /\ helper_read' \in Helper_Type({"NONE", "PENDING", "IN_PROGRESS", "COMPLETE"})
      /\ helper_write' \in Helper_Type({"NONE", "PENDING", "IN_PROGRESS", "COMPLETE"})
  <2>1. /\ frontend \in [state : {"NONE", "PENDING", "IN_PROGRESS", "COMPLETE", "ERROR_EOF"},
                          op : {"READ", "WRITE", "SYNC"}, vba : Nat, blocks : Nat,
                          count : 0 .. Max_Count, helper_offset : Offsets,
                          data : Handles \cup {Nobody}]
        /\ helper_read \in Helper_Type({"NONE", "PENDING", "IN_PROGRESS", "COMPLETE"})
        /\ helper_write \in Helper_Type({"NONE", "PENDING", "IN_PROGRESS", "COMPLETE"})
    BY DEF IInv, Types, TypeOK
  <2>2. No_Helper \in Helper_Type({"NONE", "PENDING", "IN_PROGRESS", "COMPLETE"})
    BY ZerosType DEF Helper_Type, No_Helper
  <2> QED BY <1>1, <2>1, <2>2 DEF Complete_Data, Helper_Type
<1>7. Types'
  <2>1. TypeOK'
    BY <1>1, <1>3, <1>6 DEF IInv, Types, TypeOK, device
  <2> QED BY <1>1, <1>3, <2>1 DEF IInv, Types, PCs
<1>8. OneHolder'
  BY <1>3, <1>4, <1>5 DEF OneHolder, Held
<1>9. Matching'
  BY <1>3, <1>4, <1>5 DEF Matching
<1>10. Pending'
  BY <1>1, <1>3, <1>5 DEF Pending, Something_Pending
<1>11. Quiet'
  BY <1>1 DEF Quiet
<1>12. ControlFiles'
  BY <1>1, <1>3 DEF IInv, ControlFiles, Ops, Data_Ops, In_Background
<1>13. NoThrow'
  BY <1>1 DEF IInv, NoThrow
<1> QED BY <1>3, <1>7, <1>8, <1>9, <1>10, <1>11, <1>12, <1>13 DEF IInv

(* A request of the control files is complete.                             *)
LEMMA DropBackground ==
  ASSUME IInv, NEW i \in DOMAIN pool, Drop_Completed(i), ~Of_Data_File(pool[i])
  PROVE  IInv'
<1>1. /\ pc = "complete" /\ pc' = "complete" /\ progress' = TRUE
      /\ Complete_Background(pool[i]) /\ pool[i].phase = "complete"
      /\ UNCHANGED <<frontend, helper_read, helper_write, enqueued, io_pending, thrown, caller,
                     device, users, buffer>>
  BY DEF Drop_Completed
<1>2. ~OfDataFile(i) /\ pool[i].success
  BY DEF OfDataFile, Of_Data_File, Data_Ops, IInv, RequestsConsistent, RequestConsistent
<1>3. /\ pool' \in Seq(Request_Type) /\ Len(pool') <= Nr_Of_Requests
      /\ \A k \in DOMAIN pool' : pool'[k] \in Request_Type
      /\ Client_Request_Acceptable'
      /\ DistinctOps' /\ RequestsConsistent' /\ OnlyHeadWorkedOn'
      /\ \A op \in Ops : InPool(op)' <=> InPool(op) /\ op # pool[i].op
      /\ \A k \in DOMAIN pool' : OfDataFile(k)' => \E m \in DOMAIN pool :
           OfDataFile(m) /\ pool'[k].op = pool[m].op /\ pool'[k].blocks = pool[m].blocks
      /\ \A m \in DOMAIN pool : OfDataFile(m) => \E k \in DOMAIN pool' : OfDataFile(k)'
  BY <1>2, Dropped
<1>4. OneHolder' /\ Matching'
  BY <1>1, <1>3, SameDataRequest DEF IInv
<1>5. rekey' \in Obj_Type /\ extend' \in Obj_Type /\ snapshot_requests' \subseteq In_Background
  BY <1>1 DEF Complete_Background, Finished, IInv, Types, TypeOK, Obj_Type
<1>6. Types'
  <2>1. TypeOK'
    BY <1>1, <1>3, <1>5 DEF IInv, Types, TypeOK, device, Obj_Type
  <2> QED BY <1>1, <1>3, <1>5, <2>1 DEF IInv, Types, PCs
<1>7. Pending' /\ Quiet'
  BY <1>1, <1>3 DEF IInv, Pending, Quiet, Something_Pending
<1>8. ControlFiles'
  <2>1. InPool(pool[i].op)
    BY DEF InPool
  <2>2. CASE pool[i].op = "REKEY"
    <3>1. rekey'.state = "IDLE" /\ rekey'.last_result = "SUCCESS" /\ UNCHANGED <<extend, snapshot_requests>>
      BY <1>1, <1>2, <2>2 DEF Complete_Background, Finished
    <3>2. /\ ~InPool("REKEY")' /\ InPool("REKEY")
          /\ \A op \in Ops \ {"REKEY"} : InPool(op)' <=> InPool(op)
      BY <1>3, <2>1, <2>2 DEF Ops, In_Background
    <3> QED BY <3>1, <3>2 DEF IInv, ControlFiles, Ops, In_Background
  <2>3. CASE pool[i].op = "EXTEND_VBD"
    <3>1. extend'.state = "IDLE" /\ extend'.last_result = "SUCCESS" /\ UNCHANGED <<rekey, snapshot_requests>>
      BY <1>1, <1>2, <2>3 DEF Complete_Background, Finished
    <3>2. /\ ~InPool("EXTEND_VBD")' /\ InPool("EXTEND_VBD")
          /\ \A op \in Ops \ {"EXTEND_VBD"} : InPool(op)' <=> InPool(op)
      BY <1>3, <2>1, <2>3 DEF Ops, In_Background
    <3> QED BY <3>1, <3>2 DEF IInv, ControlFiles, Ops, In_Background
  <2>4. CASE pool[i].op \in {"CREATE_SNAPSHOT", "DISCARD_SNAPSHOT"}
    <3>1. snapshot_requests' = snapshot_requests \ {pool[i].op} /\ UNCHANGED <<rekey, extend>>
      BY <1>1, <2>4 DEF Complete_Background
    <3>2. \A op \in {"REKEY", "EXTEND_VBD", "INITIALIZE"} : InPool(op)' <=> InPool(op)
      BY <1>3, <2>4 DEF Ops, In_Background
    <3>3. \A op \in {"CREATE_SNAPSHOT", "DISCARD_SNAPSHOT"} :
            op \in snapshot_requests' <=> InPool(op)'
      BY <1>3, <2>1, <2>4, <3>1 DEF IInv, ControlFiles, Ops, In_Background
    <3> QED BY <3>1, <3>2, <3>3 DEF IInv, ControlFiles
  <2> QED BY <1>1, <2>2, <2>3, <2>4 DEF Complete_Background
<1>9. NoThrow'
  BY <1>1 DEF IInv, NoThrow
<1> QED BY <1>3, <1>4, <1>6, <1>7, <1>8, <1>9 DEF IInv

(* The block of a helper request with a part of the user's data in it.     *)
LEMMA HelperBlock ==
  ASSUME Types, NEW block \in [Offsets -> Byte]
  PROVE  [k \in Offsets |-> IF Part(k) THEN Payload[k - frontend.helper_offset] ELSE block[k]]
           \in [Offsets -> Byte]
<1>1. frontend.count \in 0 .. Max_Count /\ frontend.helper_offset \in Nat
  BY DEF Types, TypeOK, Offsets
<1>2. ASSUME NEW k \in Offsets, Part(k) PROVE Payload[k - frontend.helper_offset] \in Byte
  <2>1. k - frontend.helper_offset \in DOMAIN Payload
    BY <1>1, <1>2, VfsAssumption DEF Part, Offsets
  <2> QED BY <2>1 DEF Byte
<1> QED BY <1>2

(* The end of a helper request, or none.                                   *)
LEMMA HelpersStep ==
  ASSUME IInv, Helpers_Complete
  PROVE  IInv'
<1>1. /\ pc \in {"helpers", "complete"} /\ pc' = "client_data"
      /\ pc = "complete" => Incomplete = DOMAIN pool
      /\ UNCHANGED <<enqueued, io_pending, rekey, extend, snapshot_requests, thrown, caller,
                     pool, device, users>>
  BY DEF Helpers_Complete
<1>2. /\ DistinctOps' /\ RequestsConsistent' /\ OnlyHeadWorkedOn' /\ ControlFiles' /\ NoThrow'
      /\ Incomplete' = Incomplete
  BY <1>1 DEF IInv, NoThrow, DistinctOps, RequestsConsistent, OnlyHeadWorkedOn, ControlFiles,
              Incomplete, OfDataFile, InPool, device
<1>3. "PENDING" \notin {helper_read.state, helper_write.state, frontend.state}
  BY <1>1 DEF IInv, Pending
<1>4. CASE Helper_Read_Complete
  <2>1. /\ helper_read.state = "COMPLETE" /\ helper_write.state = "NONE"
        /\ frontend.state = "IN_PROGRESS" /\ progress' = TRUE /\ helper_read' = No_Helper
        /\ Client_Request_Acceptable
        /\ \A i \in DOMAIN pool : ~OfDataFile(i)
    BY <1>1, <1>4 DEF Helpers_Complete, Helper_Read_Complete, IInv, OneHolder, Held, Pending
  <2>2. /\ frontend' \in [state : {"NONE", "PENDING", "IN_PROGRESS", "COMPLETE", "ERROR_EOF"},
                          op : {"READ", "WRITE", "SYNC"}, vba : Nat, blocks : Nat,
                          count : 0 .. Max_Count, helper_offset : Offsets,
                          data : Handles \cup {Nobody}]
        /\ frontend'.op = frontend.op /\ frontend'.blocks = frontend.blocks
        /\ \/ frontend'.state = "COMPLETE" /\ helper_write'.state = "NONE"
           \/ frontend'.state = "IN_PROGRESS" /\ helper_write'.state = "PENDING" /\ frontend.op = "WRITE"
    BY <1>4, <2>1 DEF Helper_Read_Complete, IInv, Types, TypeOK
  <2>3. /\ helper_write' \in Helper_Type({"NONE", "PENDING", "IN_PROGRESS", "COMPLETE"})
        /\ helper_read' \in Helper_Type({"NONE", "PENDING", "IN_PROGRESS", "COMPLETE"})
        /\ helper_read'.state = "NONE"
    <3>1. helper_read.block \in [Offsets -> Byte] /\ helper_read.vba \in Nat
      BY DEF IInv, Types, TypeOK, Helper_Type
    <3> DEFINE block == [k \in Offsets |-> IF Part(k) THEN Payload[k - frontend.helper_offset]
                                                      ELSE helper_read.block[k]]
    <3>2. block \in [Offsets -> Byte]
      BY <3>1, HelperBlock DEF IInv
    <3>3. \/ helper_write' = helper_write
          \/ helper_write' = [state |-> "PENDING", vba |-> helper_read.vba, block |-> block]
      BY <1>4 DEF Helper_Read_Complete
    <3> HIDE DEF block
    <3> QED BY <2>1, <3>1, <3>2, <3>3, ZerosType DEF IInv, Types, TypeOK, Helper_Type, No_Helper
  <2>4. Types'
    <3>1. TypeOK'
      BY <1>1, <2>2, <2>3 DEF IInv, Types, TypeOK, device
    <3> QED BY <1>1, <2>1, <3>1 DEF IInv, Types, PCs
  <2>5. OneHolder' /\ Matching'
    BY <1>1, <2>1, <2>2, <2>3 DEF IInv, OneHolder, Matching, Held, OfDataFile
  <2>6. Pending' /\ Quiet'
    BY <1>1, <2>1, <2>2, <2>3 DEF Pending, Quiet, Something_Pending, Client_Request_Acceptable
  <2> QED BY <1>2, <2>4, <2>5, <2>6 DEF IInv
<1>5. CASE Helper_Write_Complete
  <2>1. /\ helper_write.state = "COMPLETE" /\ helper_read.state = "NONE"
        /\ frontend.state = "IN_PROGRESS" /\ progress' = TRUE
        /\ helper_write' = No_Helper /\ UNCHANGED helper_read
        /\ frontend' = [frontend EXCEPT !.state = "COMPLETE"]
        /\ \A i \in DOMAIN pool : ~OfDataFile(i)
    BY <1>1, <1>5 DEF Helpers_Complete, Helper_Write_Complete, IInv, OneHolder, Held
  <2>2. /\ frontend' \in [state : {"NONE", "PENDING", "IN_PROGRESS", "COMPLETE", "ERROR_EOF"},
                          op : {"READ", "WRITE", "SYNC"}, vba : Nat, blocks : Nat,
                          count : 0 .. Max_Count, helper_offset : Offsets,
                          data : Handles \cup {Nobody}]
        /\ frontend'.op = frontend.op /\ frontend'.blocks = frontend.blocks
        /\ frontend'.state = "COMPLETE"
    BY <2>1 DEF IInv, Types, TypeOK
  <2>3. /\ helper_write' \in Helper_Type({"NONE", "PENDING", "IN_PROGRESS", "COMPLETE"})
        /\ helper_write'.state = "NONE"
    BY <2>1, ZerosType DEF Helper_Type, No_Helper
  <2>4. Types'
    <3>1. TypeOK'
      BY <1>1, <2>1, <2>2, <2>3 DEF IInv, Types, TypeOK, device
    <3> QED BY <1>1, <2>1, <3>1 DEF IInv, Types, PCs
  <2>5. OneHolder' /\ Matching'
    BY <1>1, <2>1, <2>2, <2>3 DEF IInv, OneHolder, Matching, Held, OfDataFile
  <2>6. Pending' /\ Quiet'
    BY <1>1, <2>1, <2>2, <2>3 DEF Pending, Quiet, Something_Pending
  <2> QED BY <1>2, <2>4, <2>5, <2>6 DEF IInv
<1>6. CASE /\ "COMPLETE" \notin {helper_read.state, helper_write.state}
           /\ UNCHANGED <<buffer, frontend, helper_read, helper_write, progress>>
  <2>1. Types'
    BY <1>1, <1>6 DEF IInv, Types, TypeOK, PCs, device
  <2>2. OneHolder' /\ Matching'
    BY <1>1, <1>6 DEF IInv, OneHolder, Matching, OfDataFile
  <2>3. Pending'
    BY <1>1, <1>3, <1>6 DEF Pending, Something_Pending
  <2>4. Quiet'
    BY <1>1, <1>2, <1>6 DEF IInv, Quiet, IsHead, Library_Waits
  <2> QED BY <1>2, <2>1, <2>2, <2>3, <2>4 DEF IInv
<1> QED BY <1>4, <1>5, <1>6 DEF Helpers_Complete

-----------------------------------------------------------------------------
(***************************************************************************)
(* Blocks go to and from the user, the device and the crypto functions.    *)
(***************************************************************************)
(* What is common to the steps at the head of the pool that leave the      *)
(* front end as it is.                                                     *)
LEMMA HeadStep ==
  ASSUME IInv, NEW i \in Incomplete, IsHead(i), NEW r \in Request_Type,
         pool' = [pool EXCEPT ![i] = r],
         r.op = pool[i].op, r.blocks = pool[i].blocks, RequestConsistent(r),
         r.phase \in {"io", "write_io"} <=> io' # "none",
         io' \in {"none", "generated", "submitted", "finished"},
         helper_read' \in Helper_Type({"NONE", "PENDING", "IN_PROGRESS", "COMPLETE"}),
         helper_read'.state = helper_read.state,
         pc \in {"client_data", "backend"}, pc' \in {"submit", "backend"},
         pc' = "submit" \/ progress', progress' \in BOOLEAN,
         UNCHANGED <<frontend, helper_write, enqueued, io_pending, rekey, extend,
                     snapshot_requests, thrown, caller, bytes, max_vba, io_signal, users>>
  PROVE  IInv'
<1>1. /\ pool' \in Seq(Request_Type)
      /\ Len(pool') = Len(pool) /\ DOMAIN pool' = DOMAIN pool
      /\ pool'[i] = r /\ \A k \in DOMAIN pool : k # i => pool'[k] = pool[k]
      /\ DistinctOps' /\ RequestsConsistent' /\ OnlyHeadWorkedOn'
  BY HeadUpdated DEF IInv
<1>2. i \in DOMAIN pool
  BY DEF Incomplete
<1>3. OneHolder' /\ Matching' /\ ControlFiles'
  BY <1>1, <1>2, SameRequests DEF IInv
<1>4. Types'
  <2>1. \A k \in DOMAIN pool' : pool'[k] \in Request_Type
    BY <1>1, LenProperties, ElementOfSeq
  <2>2. TypeOK'
    BY <1>1, <2>1 DEF IInv, Types, TypeOK
  <2> QED BY <1>1, <2>2 DEF IInv, Types, PCs
<1>5. Pending'
  BY <1>1 DEF IInv, Pending, Something_Pending, Client_Request_Acceptable
<1>6. Quiet'
  BY DEF Quiet
<1>7. NoThrow'
  BY DEF IInv, NoThrow
<1> QED BY <1>1, <1>3, <1>4, <1>5, <1>6, <1>7 DEF IInv

(* A block for the user: since only blocks that are read are ready, and the *)
(* library has them of a request in progress only, the plugin knows where it *)
(* belongs.                                                                *)
LEMMA ClientDataReady ==
  ASSUME IInv, Client_Data, NEW i \in Incomplete, IsHead(i), Client_Data_Ready(i),
         progress' = TRUE
  PROVE  IInv'
<1>1. /\ i \in DOMAIN pool /\ pool[i] \in Request_Type /\ RequestConsistent(pool[i])
      /\ pool[i].index < pool[i].blocks
      /\ pool[i].index \in Nat /\ pool[i].blocks \in Nat
      /\ pool[i].block \in [Offsets -> Byte]
  BY HeadFacts DEF Request_Type
<1>2. /\ pool[i].phase = "ready" /\ pc = "client_data" /\ pc' = "backend"
      /\ pool' = [pool EXCEPT ![i] = Next_Block(pool[i], TRUE)]
      /\ UNCHANGED <<frontend, helper_write, enqueued, io_pending, rekey, extend,
                     snapshot_requests, caller, device, users>>
      /\ io \in {"none", "generated", "submitted", "finished"}
  BY DEF Client_Data, Client_Data_Ready, IInv, Types, TypeOK
<1>3. io = "none"
  BY <1>2, HeadWaitsForIO DEF IInv
<1>4. pool[i].op = "READ" /\ OfDataFile(i) /\ frontend.state = "IN_PROGRESS"
  BY <1>1, <1>2 DEF RequestConsistent, OfDataFile, Data_Ops, IInv, OneHolder
<1>5. /\ helper_read' \in {helper_read, [helper_read EXCEPT !.block = pool[i].block]}
      /\ UNCHANGED thrown
  BY <1>4 DEF Client_Data_Ready
<1>6. /\ helper_read' \in Helper_Type({"NONE", "PENDING", "IN_PROGRESS", "COMPLETE"})
      /\ helper_read'.state = helper_read.state
  BY <1>1, <1>5 DEF IInv, Types, TypeOK, Helper_Type
<1> DEFINE r == Next_Block(pool[i], TRUE)
<1>7. /\ r \in Request_Type /\ r.op = pool[i].op /\ r.blocks = pool[i].blocks
      /\ r.index = pool[i].index + 1
      /\ r.phase = IF pool[i].index + 1 = pool[i].blocks THEN "complete" ELSE "run"
  BY <1>1, NextBlock
<1>8. pool' = [pool EXCEPT ![i] = r]
  BY <1>2
<1> HIDE DEF r
<1>9. RequestConsistent(r)
  BY <1>1, <1>4, <1>7 DEF RequestConsistent, Data_Ops
<1> QED BY <1>2, <1>3, <1>5, <1>6, <1>7, <1>8, <1>9, HeadStep DEF device

(* The block of the user's data for a block of a request.                  *)
LEMMA SuppliedBlock ==
  ASSUME IInv, NEW i \in Incomplete, pool[i].op = "WRITE", helper_write.state # "IN_PROGRESS"
  PROVE  [k \in Offsets |-> Payload[pool[i].index * BLOCK_SIZE + k]] \in [Offsets -> Byte]
<1>1. /\ i \in DOMAIN pool /\ pool[i].index < pool[i].blocks
      /\ pool[i].index \in Nat /\ pool[i].blocks \in Nat
  BY HeadFacts DEF Request_Type
<1>2. OfDataFile(i) /\ helper_read.state # "IN_PROGRESS"
  BY <1>1 DEF OfDataFile, Data_Ops, IInv, Matching
<1>3. pool[i].op = frontend.op /\ pool[i].blocks = frontend.blocks
      /\ frontend.blocks * BLOCK_SIZE <= Max_Count
  BY <1>1, <1>2 DEF IInv, Matching
<1> DEFINE p == pool[i].index * BLOCK_SIZE
<1>4. p \in Nat /\ p + BLOCK_SIZE <= Max_Count /\ BLOCK_SIZE \in Nat /\ Max_Count \in Nat
  <2>1. pool[i].index + 1 \in Nat /\ pool[i].index + 1 <= frontend.blocks
        /\ BLOCK_SIZE \in Nat /\ Max_Count \in Nat
    BY <1>1, <1>3, VfsAssumption
  <2>2. /\ (pool[i].index + 1) * BLOCK_SIZE \in Nat /\ frontend.blocks * BLOCK_SIZE \in Nat
        /\ (pool[i].index + 1) * BLOCK_SIZE <= frontend.blocks * BLOCK_SIZE
    BY <1>1, <1>3, <2>1, Product
  <2>3. p \in Nat /\ (pool[i].index + 1) * BLOCK_SIZE = p + BLOCK_SIZE
    BY <1>1, <2>1, Product
  <2> HIDE DEF p
  <2> QED BY <1>3, <2>1, <2>2, <2>3
<1> HIDE DEF p
<1>5. \A k \in Offsets : Payload[p + k] \in Byte
  <2>1. \A k \in Offsets : p + k \in DOMAIN Payload
    BY <1>4, VfsAssumption DEF Offsets
  <2> QED BY <2>1 DEF Byte
<1> QED BY <1>5 DEF p

(* A block of the user's, by the same argument.                            *)
LEMMA ClientDataRequired ==
  ASSUME IInv, Client_Data, NEW i \in Incomplete, IsHead(i), Client_Data_Required(i),
         progress' = TRUE
  PROVE  IInv'
<1>1. /\ i \in DOMAIN pool /\ pool[i] \in Request_Type /\ RequestConsistent(pool[i])
      /\ pool[i].index < pool[i].blocks
  BY HeadFacts
<1>2. /\ pool[i].phase = "required" /\ pc = "client_data" /\ pc' = "backend"
      /\ UNCHANGED <<frontend, helper_read, helper_write, enqueued, io_pending, rekey, extend,
                     snapshot_requests, caller, device, users>>
      /\ io \in {"none", "generated", "submitted", "finished"}
      /\ helper_read \in Helper_Type({"NONE", "PENDING", "IN_PROGRESS", "COMPLETE"})
  BY DEF Client_Data, Client_Data_Required, IInv, Types, TypeOK
<1>3. io = "none"
  BY <1>2, HeadWaitsForIO DEF IInv
<1>4. pool[i].op = "WRITE" /\ OfDataFile(i) /\ frontend.state = "IN_PROGRESS"
  BY <1>1, <1>2 DEF RequestConsistent, OfDataFile, Data_Ops, IInv, OneHolder
<1>5. PICK block \in [Offsets -> Byte] :
        /\ pool' = [pool EXCEPT ![i].block = block, ![i].phase = "encrypt"]
        /\ UNCHANGED thrown
  <2>1. CASE helper_write.state = "IN_PROGRESS"
    <3>1. helper_write.block \in [Offsets -> Byte]
      BY DEF IInv, Types, TypeOK, Helper_Type
    <3> QED BY <2>1, <3>1 DEF Client_Data_Required
  <2>2. CASE helper_write.state # "IN_PROGRESS"
    <3> DEFINE block == [k \in Offsets |-> Payload[pool[i].index * BLOCK_SIZE + k]]
    <3>1. block \in [Offsets -> Byte]
      BY <1>4, <2>2, SuppliedBlock
    <3>2. /\ pool' = [pool EXCEPT ![i].block = block, ![i].phase = "encrypt"]
          /\ UNCHANGED thrown
      BY <1>4, <2>2 DEF Client_Data_Required
    <3> HIDE DEF block
    <3> QED BY <3>1, <3>2
  <2> QED BY <2>1, <2>2
<1> DEFINE r == [pool[i] EXCEPT !.block = block, !.phase = "encrypt"]
<1>6. /\ r \in Request_Type /\ r.op = pool[i].op /\ r.blocks = pool[i].blocks
      /\ r.index = pool[i].index /\ r.phase = "encrypt" /\ r.success = pool[i].success
  BY <1>1 DEF Request_Type
<1>7. pool' = [pool EXCEPT ![i] = r]
  BY <1>1, <1>5, PoolFacts DEF IInv
<1> HIDE DEF r
<1>8. RequestConsistent(r)
  BY <1>1, <1>4, <1>6 DEF RequestConsistent, Data_Ops
<1> QED BY <1>2, <1>3, <1>5, <1>6, <1>7, <1>8, HeadStep DEF device

(* Handing over a block, or none.                                          *)
LEMMA ClientDataStep ==
  ASSUME IInv, Client_Data
  PROVE  IInv'
<1>1. CASE /\ \E i \in Incomplete : IsHead(i) /\ (Client_Data_Ready(i) \/ Client_Data_Required(i))
           /\ progress' = TRUE
  BY <1>1, ClientDataReady, ClientDataRequired
<1>2. CASE /\ \A i \in Incomplete : IsHead(i) => pool[i].phase \notin {"ready", "required"}
           /\ UNCHANGED <<pool, helper_read, buffer, thrown, progress>>
  <2>1. /\ pc = "client_data" /\ pc' = "backend"
        /\ UNCHANGED <<frontend, helper_read, helper_write, enqueued, io_pending, rekey, extend,
                       snapshot_requests, thrown, caller, progress, pool, device, users>>
    BY <1>2 DEF Client_Data
  <2>2. /\ DistinctOps' /\ RequestsConsistent' /\ OnlyHeadWorkedOn' /\ ControlFiles' /\ NoThrow'
        /\ OneHolder' /\ Matching' /\ Incomplete' = Incomplete
    BY <2>1 DEF IInv, NoThrow, DistinctOps, RequestsConsistent, OnlyHeadWorkedOn, ControlFiles,
                OneHolder, Matching, Incomplete, OfDataFile, InPool, device
  <2>3. Types'
    BY <2>1 DEF IInv, Types, TypeOK, PCs, device
  <2>4. Pending'
    BY <2>1 DEF IInv, Pending, Something_Pending, Client_Request_Acceptable
  <2>5. \A i \in Incomplete : pool[i].phase \notin {"ready", "required"}
    BY <1>2, PoolFacts DEF IInv, OnlyHeadWorkedOn, IsHead, Incomplete
  <2>6. Quiet'
    BY <2>1, <2>2, <2>5 DEF IInv, Quiet, IsHead, Library_Waits
  <2> QED BY <2>2, <2>3, <2>4, <2>6 DEF IInv
<1> QED BY <1>1, <1>2 DEF Client_Data

(* A pool with something to do has a head.                                 *)
LEMMA HeadExists ==
  ASSUME Types, Incomplete # {}
  PROVE  \E i \in Incomplete : IsHead(i)
<1> DEFINE R == OpToRel(<, Nat)
<1>1. Incomplete \subseteq Nat
  BY PoolFacts DEF Incomplete
<1>2. PICK e \in Incomplete : TRUE
  OBVIOUS
<1>3. PICK i \in Incomplete : \A k \in Incomplete : ~(<<k, i>> \in R)
  <2> HIDE DEF R
  <2>1. IsWellFoundedOn(R, Nat)
    BY NatLessThanWellFounded DEF R
  <2> QED BY <1>1, <1>2, <2>1, WFMin
<1>4. \A k \in Incomplete : ~(k < i)
  BY <1>1, <1>3 DEF OpToRel
<1>5. \A k \in Incomplete : i <= k
  BY <1>1, <1>4
<1> QED BY <1>5 DEF IsHead

(* What is common to the answers of the device and of the crypto functions. *)
LEMMA BackendHead ==
  ASSUME IInv, Backend_And_Crypto, NEW i \in Incomplete, IsHead(i), NEW phase \in Phases,
         pool' = [pool EXCEPT ![i].phase = phase],
         io' = "none", pc' = "submit",
         \/ pool[i].phase = "io" /\ phase = "io_done"
         \/ pool[i].phase = "write_io" /\ phase = "write_io_done"
         \/ pool[i].phase = "decrypt" /\ phase = "ready"
         \/ pool[i].phase = "encrypt" /\ phase = "encrypted"
  PROVE  IInv'
<1>1. /\ i \in DOMAIN pool /\ pool[i] \in Request_Type /\ RequestConsistent(pool[i])
      /\ pool[i].index < pool[i].blocks
  BY HeadFacts
<1>2. /\ pc = "backend" /\ progress' = FALSE
      /\ UNCHANGED <<wrapper, caller, bytes, max_vba, io_signal, users, buffer>>
      /\ helper_read \in Helper_Type({"NONE", "PENDING", "IN_PROGRESS", "COMPLETE"})
  BY DEF Backend_And_Crypto, IInv, Types, TypeOK
<1> DEFINE r == [pool[i] EXCEPT !.phase = phase]
<1>3. /\ r \in Request_Type /\ r.op = pool[i].op /\ r.blocks = pool[i].blocks
      /\ r.index = pool[i].index /\ r.phase = phase /\ r.success = pool[i].success
  BY <1>1, OtherPhaseOnly
<1>4. pool' = [pool EXCEPT ![i] = r]
  OBVIOUS
<1> HIDE DEF r
<1>5. RequestConsistent(r)
  BY <1>1, <1>3 DEF RequestConsistent, Data_Ops
<1> QED BY <1>2, <1>3, <1>4, <1>5, HeadStep DEF wrapper

(* The end of a pass: if it made no progress, the request of the user waits *)
(* for the device.                                                         *)
LEMMA BackendStep ==
  ASSUME IInv, Backend_And_Crypto
  PROVE  IInv'
<1>1. /\ pc = "backend" /\ progress' = FALSE
      /\ UNCHANGED <<wrapper, caller, bytes, max_vba, io_signal, users, buffer>>
  BY DEF Backend_And_Crypto
<1>2. CASE IO_Done /\ io # "none" /\ pc' = "submit"
  <2>1. PICK i \in Incomplete :
          /\ IsHead(i)
          /\ pool' = [pool EXCEPT ![i].phase = IF @ = "io" THEN "io_done" ELSE "write_io_done"]
    BY <1>2 DEF IO_Done
  <2>2. pool[i].phase \in {"io", "write_io"}
    BY <1>2, <2>1, HeadWaitsForIO DEF IInv
  <2>3. CASE pool[i].phase = "io"
    BY <1>2, <2>1, <2>3, BackendHead DEF IO_Done, Phases
  <2>4. CASE pool[i].phase = "write_io"
    BY <1>2, <2>1, <2>4, BackendHead DEF IO_Done, Phases
  <2> QED BY <2>2, <2>3, <2>4
<1>3. CASE Handle_Crypto /\ pc' = "submit"
  <2>1. PICK i \in Incomplete :
          /\ IsHead(i) /\ pool[i].phase \in {"decrypt", "encrypt"}
          /\ pool' = [pool EXCEPT ![i].phase = IF @ = "decrypt" THEN "ready" ELSE "encrypted"]
    BY <1>3 DEF Handle_Crypto
  <2>2. io' = "none"
    BY <1>3, <2>1, HeadWaitsForIO DEF IInv, Handle_Crypto
  <2>3. CASE pool[i].phase = "decrypt"
    BY <1>3, <2>1, <2>2, <2>3, BackendHead DEF Phases
  <2>4. CASE pool[i].phase = "encrypt"
    BY <1>3, <2>1, <2>2, <2>4, BackendHead DEF Phases
  <2> QED BY <2>1, <2>3, <2>4
<1>4. ASSUME UNCHANGED pool, io' # "none" <=> io # "none",
             io' \in {"none", "generated", "submitted", "finished"}, pc' \in PCs
      PROVE  /\ Types' /\ NoThrow' /\ DistinctOps' /\ RequestsConsistent' /\ OnlyHeadWorkedOn'
             /\ OneHolder' /\ Matching' /\ ControlFiles'
  <2>1. Types'
    <3>1. TypeOK'
      BY <1>1, <1>4 DEF IInv, Types, TypeOK, wrapper
    <3>2. progress' \in BOOLEAN
      BY <1>1
    <3> QED BY <1>1, <1>4, <3>1, <3>2 DEF IInv, Types, wrapper
  <2>2. NoThrow' /\ DistinctOps' /\ RequestsConsistent' /\ OnlyHeadWorkedOn'
    BY <1>1, <1>4 DEF IInv, NoThrow, DistinctOps, RequestsConsistent, OnlyHeadWorkedOn,
                      Incomplete, OfDataFile, wrapper
  <2>3. OneHolder' /\ Matching' /\ ControlFiles'
    BY <1>1, <1>4 DEF IInv, OneHolder, Matching, ControlFiles, OfDataFile, InPool, wrapper
  <2> QED BY <2>1, <2>2, <2>3
<1>5. CASE io = "generated" /\ io' = "submitted" /\ UNCHANGED pool /\ pc' = "submit"
  <2>1. Pending'
    BY <1>1, <1>5 DEF IInv, Pending, Something_Pending, Client_Request_Acceptable, wrapper
  <2>2. Quiet'
    BY <1>5 DEF Quiet
  <2> QED BY <1>4, <1>5, <2>1, <2>2 DEF IInv, PCs
<1>6. CASE /\ io \in {"none", "submitted"}
           /\ \A i \in Incomplete : IsHead(i) => pool[i].phase \notin {"decrypt", "encrypt"}
           /\ pc' = IF progress THEN "submit" ELSE "return"
           /\ UNCHANGED <<io, pool>>
  <2>1. frontend.state # "PENDING" /\ helper_read.state # "PENDING"
        /\ (helper_write.state = "PENDING" => progress)
        /\ "COMPLETE" \notin {helper_read.state, helper_write.state}
    BY <1>1 DEF IInv, Pending
  <2>2. Pending'
    BY <1>1, <1>6, <2>1 DEF IInv, Pending, Something_Pending, Client_Request_Acceptable, wrapper
  <2>3. ASSUME ~progress PROVE Incomplete = DOMAIN pool
    BY <1>1, <2>3 DEF IInv, Quiet
  <2>4. ASSUME ~progress, frontend.state = "IN_PROGRESS"
        PROVE  io = "submitted"
    <3>1. \E i \in DOMAIN pool : OfDataFile(i)
      BY <2>1, <2>4 DEF IInv, OneHolder, Held
    <3>2. PICK i \in Incomplete : IsHead(i)
      BY <2>3, <2>4, <3>1, HeadExists DEF IInv
    <3>3. Library_Waits(i) /\ pool[i].phase \notin {"ready", "required"}
      BY <1>1, <2>4, <3>2 DEF IInv, Quiet
    <3>4. pool[i].phase \in {"io", "write_io"}
      BY <1>6, <3>2, <3>3, HeadFacts DEF Library_Waits, Request_Type
    <3> QED BY <1>6, <3>2, <3>4, HeadWaitsForIO DEF IInv
  <2>5. Quiet'
    BY <1>1, <1>6, <2>3, <2>4 DEF Quiet, Incomplete, wrapper
  <2> QED BY <1>4, <1>6, <2>2, <2>5 DEF IInv, PCs
<1> QED BY <1>2, <1>3, <1>5, <1>6 DEF Backend_And_Crypto, Handle_Cbe_Backend

-----------------------------------------------------------------------------
(***************************************************************************)
(* handle_frontend_request returns, and is called.                         *)
(***************************************************************************)
LEMMA ReturnStep ==
  ASSUME IInv, Return
  PROVE  IInv'
<1>1. /\ pc = "return" /\ pc' = "idle" /\ caller' = Nobody /\ Look_At_Info
      /\ UNCHANGED <<progress, helper_read, helper_write, snapshot_requests, thrown, pool, device>>
  BY DEF Return
<1>2. /\ Incomplete = DOMAIN pool
      /\ "PENDING" \notin {helper_read.state, helper_write.state, frontend.state}
      /\ "COMPLETE" \notin {helper_read.state, helper_write.state}
  BY <1>1 DEF IInv, Quiet, Pending
<1>3. \A op : InPool(op) <=> InLibrary(op)
  BY <1>2 DEF InPool, InLibrary
<1>4. /\ DistinctOps' /\ RequestsConsistent' /\ OnlyHeadWorkedOn' /\ NoThrow'
      /\ Incomplete' = Incomplete /\ \A op : InPool(op)' <=> InPool(op)
  BY <1>1 DEF IInv, NoThrow, DistinctOps, RequestsConsistent, OnlyHeadWorkedOn,
              Incomplete, OfDataFile, InPool, device
<1>5. /\ rekey' \in Obj_Type /\ extend' \in Obj_Type
      /\ rekey'.last_result = rekey.last_result /\ extend'.last_result = extend.last_result
      /\ rekey'.state = IF rekey.state = "UNKNOWN" /\ ~InPool("INITIALIZE")
                          THEN IF InPool("REKEY") THEN "IN_PROGRESS" ELSE "IDLE" ELSE rekey.state
      /\ extend'.state = IF extend.state = "UNKNOWN" /\ ~InPool("INITIALIZE")
                           THEN IF InPool("EXTEND_VBD") THEN "IN_PROGRESS" ELSE "IDLE"
                           ELSE extend.state
  BY <1>1, <1>3 DEF Look_At_Info, InfoValid, IInv, Types, Obj_Type
<1>6. ControlFiles'
  BY <1>1, <1>4, <1>5 DEF IInv, ControlFiles
<1>7. /\ \/ UNCHANGED frontend
         \/ frontend' = No_Request /\ frontend.state \in {"COMPLETE", "ERROR_EOF"}
      /\ enqueued' \in Handles \cup {Nobody} /\ io_pending' \in BOOLEAN
      /\ users' \in [Handles -> User_Type]
  <2>1. ASSUME NEW h \in Handles, Queued(h)
        PROVE  /\ UNCHANGED frontend /\ enqueued' \in Handles \cup {Nobody}
               /\ io_pending' \in BOOLEAN /\ users' \in [Handles -> User_Type]
    <3>1. users[h] \in User_Type /\ io_pending \in BOOLEAN /\ users \in [Handles -> User_Type]
      BY DEF IInv, Types, TypeOK
    <3> DEFINE u == [users[h] EXCEPT !.state = "queued", !.woken = io_pending]
    <3>2. u \in User_Type
      BY <3>1 DEF User_Type
    <3>3. users' = [users EXCEPT ![h] = u]
      BY <2>1, <3>1 DEF Queued
    <3> HIDE DEF u
    <3> QED BY <2>1, <3>1, <3>2, <3>3 DEF Queued
  <2>2. ASSUME NEW h \in Handles, Answered(h)
        PROVE  /\ frontend' = No_Request /\ frontend.state \in {"COMPLETE", "ERROR_EOF"}
               /\ enqueued' \in Handles \cup {Nobody}
               /\ io_pending' \in BOOLEAN /\ users' \in [Handles -> User_Type]
    <3>1. frontend.count \in 0 .. Max_Count /\ 0 \in 0 .. Max_Count
      BY VfsAssumption DEF IInv, Types, TypeOK
    <3> DEFINE u == [No_User EXCEPT !.out = IF frontend.state = "COMPLETE" THEN frontend.count ELSE 0]
    <3>2. u \in User_Type
      BY <3>1 DEF No_User, User_Type, Data_Ops
    <3>3. users' = [users EXCEPT ![h] = u]
      BY <2>2 DEF Answered
    <3> HIDE DEF u
    <3> QED BY <2>2, <3>2, <3>3 DEF Answered, Ack_Frontend_Request, IInv, Types, TypeOK
  <2>3. CASE caller \notin Handles /\ io_pending' = (io_pending \/ caller = "notify")
             /\ UNCHANGED <<frontend, enqueued, users, buffer>>
    BY <2>3 DEF IInv, Types, TypeOK
  <2> QED BY <2>1, <2>2, <2>3 DEF Return
<1>8. No_Request \in [state : {"NONE", "PENDING", "IN_PROGRESS", "COMPLETE", "ERROR_EOF"},
                      op : {"READ", "WRITE", "SYNC"}, vba : Nat, blocks : Nat,
                      count : 0 .. Max_Count, helper_offset : Offsets,
                      data : Handles \cup {Nobody}]
  BY VfsAssumption DEF No_Request, Offsets
<1>9. Types'
  <2>1. TypeOK'
    BY <1>1, <1>5, <1>7, <1>8 DEF IInv, Types, TypeOK, device, User_Type, Obj_Type
  <2> QED BY <1>1, <1>5, <1>7, <2>1 DEF IInv, Types, PCs
<1>10. /\ frontend' = frontend
       \/ /\ frontend'.state = "NONE" /\ frontend'.op = "READ"
          /\ frontend.state \in {"COMPLETE", "ERROR_EOF"}
  BY <1>7 DEF No_Request
<1>11. OneHolder'
  BY <1>1, <1>10 DEF IInv, OneHolder, OfDataFile
<1>12. Matching'
  BY <1>1, <1>10, <1>11 DEF IInv, Matching, OneHolder, OfDataFile
<1>13. Pending' /\ Quiet'
  BY <1>1, <1>2, <1>4, <1>10 DEF Pending, Quiet, Something_Pending
<1> QED BY <1>4, <1>6, <1>9, <1>11, <1>12, <1>13 DEF IInv

(* Blocks and bytes of a request.                                          *)
LEMMA DivMod ==
  ASSUME NEW a \in Nat, NEW b \in Nat \ {0}
  PROVE  /\ a \div b \in Nat /\ a % b \in 0 .. b - 1
         /\ (a \div b) * b <= a /\ a - (a % b) \in 0 .. a
         /\ a >= b => a \div b > 0
OBVIOUS

(* What a request of a user becomes.                                       *)
LEMMA SubmittedFrontend ==
  ASSUME IInv, NEW h \in Handles, NEW op \in Data_Ops, NEW offset \in Nat,
         NEW count \in 0 .. Max_Count, Submit_Frontend_Request(h, op, offset, count),
         helper_read.state = "NONE"
  PROVE  /\ frontend' \in [state : {"NONE", "PENDING", "IN_PROGRESS", "COMPLETE", "ERROR_EOF"},
                           op : {"READ", "WRITE", "SYNC"}, vba : Nat, blocks : Nat,
                           count : 0 .. Max_Count, helper_offset : Offsets,
                           data : Handles \cup {Nobody}]
         /\ helper_read' \in Helper_Type({"NONE", "PENDING", "IN_PROGRESS", "COMPLETE"})
         /\ \/ /\ frontend'.state = "PENDING" /\ helper_read'.state = "NONE"
               /\ frontend'.blocks > 0 /\ (frontend'.op = "SYNC" => frontend'.blocks = 1)
            \/ /\ frontend'.state = "IN_PROGRESS" /\ helper_read'.state = "PENDING"
               /\ frontend'.op # "SYNC"
         /\ frontend'.op = "WRITE" => frontend'.blocks * BLOCK_SIZE <= Max_Count
<1> DEFINE vba == offset \div BLOCK_SIZE
           skip == offset % BLOCK_SIZE
           blocks == count \div BLOCK_SIZE
           part == Minimum(count, BLOCK_SIZE - skip)
           whole == count - (count % BLOCK_SIZE)
           Request_Of(state, b, v, n, o) ==
             [state |-> state, op |-> op, vba |-> v, blocks |-> b, count |-> n,
              helper_offset |-> o, data |-> h]
<1>1. /\ BLOCK_SIZE \in Nat \ {0} /\ Max_Count \in Nat /\ count \in Nat /\ count <= Max_Count
      /\ 0 \in Offsets
  BY VfsAssumption DEF Offsets
<1>2. vba \in Nat /\ skip \in Offsets
  BY <1>1, DivMod DEF Offsets
<1>3. /\ blocks \in Nat /\ blocks * BLOCK_SIZE <= count /\ whole \in 0 .. Max_Count
      /\ count >= BLOCK_SIZE => blocks > 0
  <2>1. /\ blocks \in Nat /\ blocks * BLOCK_SIZE <= count /\ whole \in 0 .. count
        /\ count >= BLOCK_SIZE => blocks > 0
    BY <1>1, DivMod
  <2> HIDE DEF whole, blocks
  <2> QED BY <1>1, <2>1
<1>4. part \in 0 .. Max_Count
  <2> HIDE DEF skip
  <2> QED BY <1>1, <1>2 DEF Minimum, Offsets
<1>5. blocks * BLOCK_SIZE <= Max_Count /\ 0 * BLOCK_SIZE <= Max_Count
  <2>1. blocks * BLOCK_SIZE \in Nat
    BY <1>1, <1>3, Product
  <2> DEFINE bytes_of == blocks * BLOCK_SIZE
  <2>2. bytes_of \in Nat /\ bytes_of <= count
    BY <1>3, <2>1
  <2> HIDE DEF bytes_of
  <2>3. bytes_of <= Max_Count
    BY <1>1, <2>2
  <2> QED BY <1>1, <2>3 DEF bytes_of
<1>6. \/ /\ op = "SYNC" /\ UNCHANGED helper_read
         /\ frontend' = Request_Of("PENDING", 1, 0, 0, 0)
      \/ /\ op # "SYNC" /\ helper_read' = [state |-> "PENDING", vba |-> vba, block |-> Zeros]
         /\ frontend' = Request_Of("IN_PROGRESS", 0, vba, part, skip)
      \/ /\ op # "SYNC" /\ ~Unaligned(offset, count) /\ UNCHANGED helper_read
         /\ frontend' = Request_Of("PENDING", blocks, vba, whole, 0)
  BY ZenonT(40) DEF Submit_Frontend_Request, No_Request, Helper_Offset
<1>7. ~Unaligned(offset, count) => count >= BLOCK_SIZE
  BY <1>1 DEF Unaligned
<1>8. /\ helper_read \in Helper_Type({"NONE", "PENDING", "IN_PROGRESS", "COMPLETE"})
      /\ [state |-> "PENDING", vba |-> vba, block |-> Zeros]
           \in Helper_Type({"NONE", "PENDING", "IN_PROGRESS", "COMPLETE"})
  BY <1>2, ZerosType DEF IInv, Types, TypeOK, Helper_Type
<1> HIDE DEF vba, skip, blocks, part, whole
<1>9. CASE /\ op = "SYNC" /\ UNCHANGED helper_read
           /\ frontend' = Request_Of("PENDING", 1, 0, 0, 0)
  BY <1>1, <1>8, <1>9 DEF Data_Ops
<1>10. CASE /\ op # "SYNC" /\ helper_read' = [state |-> "PENDING", vba |-> vba, block |-> Zeros]
            /\ frontend' = Request_Of("IN_PROGRESS", 0, vba, part, skip)
  BY <1>2, <1>4, <1>5, <1>8, <1>10 DEF Data_Ops
<1>11. CASE /\ op # "SYNC" /\ ~Unaligned(offset, count) /\ UNCHANGED helper_read
            /\ frontend' = Request_Of("PENDING", blocks, vba, whole, 0)
  BY <1>1, <1>2, <1>3, <1>5, <1>7, <1>8, <1>11 DEF Data_Ops
<1> QED BY <1>6, <1>9, <1>10, <1>11

(* A call of a user, for the first time or again.                          *)
LEMMA CallStep ==
  ASSUME IInv, NEW h \in Handles, NEW op \in Data_Ops, NEW offset \in Nat,
         NEW count \in 0 .. Max_Count, Call(h, op, offset, count)
  PROVE  IInv'
<1>1. /\ pc = "idle"
      /\ UNCHANGED <<helper_write, enqueued, io_pending, rekey, extend, snapshot_requests, thrown,
                     pool, device, buffer>>
  BY DEF Call
<1>2. /\ Incomplete = DOMAIN pool
      /\ "PENDING" \notin {helper_read.state, helper_write.state, frontend.state}
      /\ "COMPLETE" \notin {helper_read.state, helper_write.state}
  BY <1>1 DEF IInv, Quiet, Pending
<1>3. users' \in [Handles -> User_Type]
  <2> DEFINE u(state) == [state |-> state, op |-> op, offset |-> offset,
                          count |-> count, out |-> 0, woken |-> FALSE]
  <2>1. u("queued") \in User_Type /\ u("calling") \in User_Type
    BY VfsAssumption DEF User_Type
  <2>2. users' = [users EXCEPT ![h] = u("queued")] \/ users' = [users EXCEPT ![h] = u("calling")]
    BY DEF Call
  <2> HIDE DEF u
  <2> QED BY <2>1, <2>2 DEF IInv, Types
<1>4. \A u \in Handles : users'[u].state \in {"idle", "calling", "queued"}
  BY <1>3 DEF User_Type
<1>5. /\ DistinctOps' /\ RequestsConsistent' /\ OnlyHeadWorkedOn' /\ ControlFiles' /\ NoThrow'
      /\ Incomplete' = Incomplete
  BY <1>1 DEF IInv, NoThrow, DistinctOps, RequestsConsistent, OnlyHeadWorkedOn, ControlFiles,
              Incomplete, OfDataFile, InPool, device
<1>6. CASE UNCHANGED <<control, frontend, helper_read>>
  <2>1. Types'
    <3>1. TypeOK'
      BY <1>1, <1>6, <1>4 DEF IInv, Types, TypeOK, device
    <3> QED BY <1>1, <1>3, <1>6, <3>1 DEF IInv, Types, control
  <2>2. OneHolder' /\ Matching'
    BY <1>1, <1>6 DEF IInv, OneHolder, Matching, OfDataFile
  <2>3. Pending' /\ Quiet'
    BY <1>1, <1>2, <1>5, <1>6 DEF Pending, Quiet, Something_Pending, control
  <2> QED BY <1>5, <2>1, <2>2, <2>3 DEF IInv
<1>7. CASE /\ frontend.state # "NONE" \/ Client_Request_Acceptable
           /\ IF frontend.state = "NONE" THEN Submit_Frontend_Request(h, op, offset, count)
              ELSE UNCHANGED <<frontend, helper_read>>
           /\ Handle_Frontend_Request(h)
  <2>1. pc' = "submit" /\ caller' = h /\ progress' = FALSE
    BY <1>7 DEF Handle_Frontend_Request
  <2>2. CASE frontend.state # "NONE"
    <3>1. UNCHANGED <<frontend, helper_read>>
      BY <1>7, <2>2
    <3>2. Types'
      <4>1. TypeOK'
        BY <1>1, <1>4, <3>1 DEF IInv, Types, TypeOK, device
      <4> QED BY <1>1, <1>3, <2>1, <4>1 DEF IInv, Types, PCs
    <3>3. OneHolder' /\ Matching'
      BY <1>1, <3>1 DEF IInv, OneHolder, Matching, OfDataFile
    <3>4. Pending' /\ Quiet'
      BY <1>1, <1>2, <2>1, <3>1 DEF Pending, Quiet, Something_Pending
    <3> QED BY <1>5, <3>2, <3>3, <3>4 DEF IInv
  <2>3. CASE frontend.state = "NONE"
    <3>1. Submit_Frontend_Request(h, op, offset, count) /\ Client_Request_Acceptable
      BY <1>7, <2>3
    <3>2. /\ helper_read.state = "NONE" /\ helper_write.state = "NONE"
          /\ \A i \in DOMAIN pool : ~OfDataFile(i)
      BY <2>3 DEF IInv, OneHolder
    <3>3. /\ frontend' \in [state : {"NONE", "PENDING", "IN_PROGRESS", "COMPLETE", "ERROR_EOF"},
                            op : {"READ", "WRITE", "SYNC"}, vba : Nat, blocks : Nat,
                            count : 0 .. Max_Count, helper_offset : Offsets,
                            data : Handles \cup {Nobody}]
          /\ helper_read' \in Helper_Type({"NONE", "PENDING", "IN_PROGRESS", "COMPLETE"})
          /\ \/ /\ frontend'.state = "PENDING" /\ helper_read'.state = "NONE"
                /\ frontend'.blocks > 0 /\ (frontend'.op = "SYNC" => frontend'.blocks = 1)
             \/ /\ frontend'.state = "IN_PROGRESS" /\ helper_read'.state = "PENDING"
                /\ frontend'.op # "SYNC"
          /\ frontend'.op = "WRITE" => frontend'.blocks * BLOCK_SIZE <= Max_Count
      BY <3>1, <3>2, SubmittedFrontend
    <3>4. Types'
      <4>1. TypeOK'
        BY <1>1, <1>4, <3>3 DEF IInv, Types, TypeOK, device
      <4> QED BY <1>1, <1>3, <2>1, <4>1 DEF IInv, Types, PCs
    <3>5. OneHolder' /\ Matching'
      BY <1>1, <3>2, <3>3 DEF OneHolder, Matching, OfDataFile, Held
    <3>6. Pending' /\ Quiet'
      BY <1>1, <1>2, <1>5, <2>1, <3>1, <3>2, <3>3 DEF Pending, Quiet, Something_Pending, Client_Request_Acceptable
    <3> QED BY <1>5, <3>4, <3>5, <3>6 DEF IInv
  <2> QED BY <2>2, <2>3
<1> QED BY <1>6, <1>7 DEF Call

-----------------------------------------------------------------------------
(***************************************************************************)
(* The control files, and the signals of the device.                       *)
(***************************************************************************)
(* What is common to the operations of the control files.                  *)
LEMMA Started ==
  ASSUME IInv, NEW op \in In_Background, Start(op), ~InPool(op)
  PROVE  /\ DistinctOps' /\ RequestsConsistent' /\ OnlyHeadWorkedOn' /\ NoThrow'
         /\ OneHolder' /\ Matching' /\ Pending' /\ Quiet'
         /\ \A o \in Ops : InPool(o)' <=> InPool(o) \/ o = op
         /\ rekey' \in Obj_Type /\ extend' \in Obj_Type
              /\ snapshot_requests' \subseteq In_Background => Types'
<1>1. /\ pc = "idle" /\ Client_Request_Acceptable
      /\ Append_To_Pool(Library_Request(op, 0, Steps(op), Nobody))
      /\ pc' = "submit" /\ caller' = "control" /\ progress' = FALSE
      /\ UNCHANGED <<frontend, helper_read, helper_write, enqueued, io_pending, thrown, device,
                     users, buffer>>
  BY DEF Start, Handle_Frontend_Request
<1> DEFINE r == Library_Request(op, 0, Steps(op), Nobody)
<1>2. /\ r \in Request_Type /\ r.op = op /\ r.phase = "run" /\ RequestConsistent(r)
      /\ Append_To_Pool(r)
  BY <1>1, BackgroundRequest
<1> HIDE DEF r
<1>3. Len(pool) \in Nat /\ DOMAIN pool = 1 .. Len(pool) /\ io' = io /\ op \notin Data_Ops
  BY <1>1, PoolFacts DEF IInv, device, In_Background, Data_Ops
<1>4. /\ pool' \in Seq(Request_Type)
      /\ Len(pool') = Len(pool) + 1 /\ DOMAIN pool' = 1 .. Len(pool) + 1
      /\ pool'[Len(pool) + 1] = r /\ \A k \in DOMAIN pool : pool'[k] = pool[k]
      /\ DistinctOps' /\ RequestsConsistent' /\ OnlyHeadWorkedOn'
  BY <1>2, <1>3, PoolAppended DEF IInv
<1>5. \A o \in Ops : InPool(o)' <=> InPool(o) \/ o = op
  <2>1. Len(pool) + 1 \in DOMAIN pool'
    BY <1>3, <1>4
  <2>2. ASSUME NEW o, InPool(o) \/ o = op PROVE InPool(o)'
    BY <1>2, <1>3, <1>4, <2>1, <2>2 DEF InPool
  <2>3. ASSUME NEW o, InPool(o)' PROVE InPool(o) \/ o = op
    BY <1>2, <1>3, <1>4, <2>3 DEF InPool
  <2> QED BY <2>2, <2>3
<1>6. OneHolder' /\ Matching'
  <2>1. \A k \in DOMAIN pool' : OfDataFile(k)' => \E m \in DOMAIN pool :
          OfDataFile(m) /\ pool'[k].op = pool[m].op /\ pool'[k].blocks = pool[m].blocks
    BY <1>2, <1>3, <1>4 DEF OfDataFile
  <2>2. \A m \in DOMAIN pool : OfDataFile(m) => \E k \in DOMAIN pool' : OfDataFile(k)'
    BY <1>3, <1>4 DEF OfDataFile
  <2> QED BY <1>1, <2>1, <2>2, SameDataRequest DEF IInv
<1>7. Pending' /\ Quiet' /\ NoThrow'
  BY <1>1 DEF IInv, Pending, Quiet, NoThrow, Something_Pending
<1>8. ASSUME rekey' \in Obj_Type, extend' \in Obj_Type, snapshot_requests' \subseteq In_Background
      PROVE  Types'
  <2>1. \A k \in DOMAIN pool' : pool'[k] \in Request_Type
    BY <1>4, LenProperties, ElementOfSeq
  <2>2. Len(pool') <= Nr_Of_Requests
    BY <1>1, <1>3, <1>4, VfsAssumption DEF Client_Request_Acceptable
  <2>3. TypeOK'
    BY <1>1, <1>8, <2>1, <2>2 DEF IInv, Types, TypeOK, device, Obj_Type
  <2> QED BY <1>1, <1>4, <1>8, <2>3 DEF IInv, Types, PCs
<1> QED BY <1>4, <1>5, <1>6, <1>7, <1>8

(* An operation of the control files is started.                           *)
LEMMA ControlStep ==
  ASSUME IInv, Control_Files
  PROVE  IInv'
<1>1. CASE Start_Rekeying
  <2>1. /\ rekey.state = "IDLE" /\ Start("REKEY")
        /\ rekey' = [state |-> "IN_PROGRESS", last_result |-> "FAILED"]
        /\ UNCHANGED <<extend, snapshot_requests>>
    BY <1>1 DEF Start_Rekeying
  <2>2. ~InPool("REKEY") /\ ~InPool("INITIALIZE")
    BY <2>1 DEF IInv, ControlFiles
  <2>3. rekey' \in Obj_Type /\ extend' \in Obj_Type /\ snapshot_requests' \subseteq In_Background
    BY <2>1 DEF IInv, Types, TypeOK, Obj_Type
  <2>4. /\ DistinctOps' /\ RequestsConsistent' /\ OnlyHeadWorkedOn' /\ NoThrow'
        /\ OneHolder' /\ Matching' /\ Pending' /\ Quiet' /\ Types'
        /\ \A o \in Ops : InPool(o)' <=> InPool(o) \/ o = "REKEY"
    BY <2>1, <2>2, <2>3, Started DEF In_Background
  <2>5. ControlFiles'
    BY <2>1, <2>2, <2>4 DEF IInv, ControlFiles, Ops, In_Background
  <2> QED BY <2>4, <2>5 DEF IInv
<1>2. CASE Start_Extending
  <2>1. /\ extend.state = "IDLE" /\ Start("EXTEND_VBD")
        /\ extend' = [state |-> "IN_PROGRESS", last_result |-> "NONE"]
        /\ UNCHANGED <<rekey, snapshot_requests>>
    BY <1>2 DEF Start_Extending
  <2>2. ~InPool("EXTEND_VBD") /\ ~InPool("INITIALIZE")
    BY <2>1 DEF IInv, ControlFiles
  <2>3. rekey' \in Obj_Type /\ extend' \in Obj_Type /\ snapshot_requests' \subseteq In_Background
    BY <2>1 DEF IInv, Types, TypeOK, Obj_Type
  <2>4. /\ DistinctOps' /\ RequestsConsistent' /\ OnlyHeadWorkedOn' /\ NoThrow'
        /\ OneHolder' /\ Matching' /\ Pending' /\ Quiet' /\ Types'
        /\ \A o \in Ops : InPool(o)' <=> InPool(o) \/ o = "EXTEND_VBD"
    BY <2>1, <2>2, <2>3, Started DEF In_Background
  <2>5. ControlFiles'
    BY <2>1, <2>2, <2>4 DEF IInv, ControlFiles, Ops, In_Background
  <2> QED BY <2>4, <2>5 DEF IInv
<1>3. ASSUME NEW op \in {"CREATE_SNAPSHOT", "DISCARD_SNAPSHOT"}, Create_Or_Discard_Snapshot(op)
      PROVE  IInv'
  <2>1. /\ op \notin snapshot_requests /\ Start(op)
        /\ snapshot_requests' = snapshot_requests \cup {op}
        /\ UNCHANGED <<rekey, extend>>
    BY <1>3 DEF Create_Or_Discard_Snapshot
  <2>2. ~InPool(op) /\ op \in In_Background
    BY <2>1 DEF IInv, ControlFiles, In_Background
  <2>3. rekey' \in Obj_Type /\ extend' \in Obj_Type /\ snapshot_requests' \subseteq In_Background
    BY <2>1, <2>2 DEF IInv, Types, TypeOK
  <2>4. /\ DistinctOps' /\ RequestsConsistent' /\ OnlyHeadWorkedOn' /\ NoThrow'
        /\ OneHolder' /\ Matching' /\ Pending' /\ Quiet' /\ Types'
        /\ \A o \in Ops : InPool(o)' <=> InPool(o) \/ o = op
    BY <2>1, <2>2, <2>3, Started
  <2>5. ControlFiles'
    BY <2>1, <2>4 DEF IInv, ControlFiles, Ops, In_Background
  <2> QED BY <2>4, <2>5 DEF IInv
<1> QED BY <1>1, <1>2, <1>3 DEF Control_Files

(* The device answers.                                                     *)
LEMMA DeviceStep ==
  ASSUME IInv, Device_Answers
  PROVE  IInv'
<1>1. /\ io = "submitted" /\ pc \in {"idle", "backend"} /\ io' = "finished" /\ io_signal' = TRUE
      /\ UNCHANGED <<wrapper, control, pool, bytes, max_vba, users, buffer>>
  BY DEF Device_Answers
<1>2. /\ DistinctOps' /\ RequestsConsistent' /\ OnlyHeadWorkedOn' /\ ControlFiles' /\ NoThrow'
      /\ Incomplete' = Incomplete
  BY <1>1 DEF IInv, NoThrow, DistinctOps, RequestsConsistent, OnlyHeadWorkedOn, ControlFiles,
              Incomplete, OfDataFile, InPool, wrapper
<1>3. OneHolder' /\ Matching'
  BY <1>1 DEF IInv, OneHolder, Matching, OfDataFile, wrapper
<1>4. Types'
  <2>1. TypeOK'
    BY <1>1 DEF IInv, Types, TypeOK, wrapper
  <2> QED BY <1>1, <2>1 DEF IInv, Types, wrapper, control
<1>5. Pending'
  BY <1>1 DEF IInv, Pending, Something_Pending, Client_Request_Acceptable, Incomplete, wrapper, control
<1>6. Quiet'
  BY <1>1, <1>2 DEF IInv, Quiet, IsHead, Library_Waits, wrapper, control
<1> QED BY <1>2, <1>3, <1>4, <1>5, <1>6 DEF IInv

(* Its signal is handled: the user is woken, or the plugin goes on.        *)
LEMMA SignalStep ==
  ASSUME IInv, Handle_IO
  PROVE  IInv'
<1>1. /\ pc = "idle" /\ io_signal' = FALSE
      /\ UNCHANGED <<wrapper, pool, bytes, max_vba, io, buffer>>
  BY DEF Handle_IO
<1>2. /\ DistinctOps' /\ RequestsConsistent' /\ OnlyHeadWorkedOn' /\ ControlFiles' /\ NoThrow'
      /\ Incomplete' = Incomplete
  BY <1>1 DEF IInv, NoThrow, DistinctOps, RequestsConsistent, OnlyHeadWorkedOn, ControlFiles,
              Incomplete, OfDataFile, InPool, wrapper
<1>3. OneHolder' /\ Matching'
  BY <1>1 DEF IInv, OneHolder, Matching, OfDataFile, wrapper
<1>4. /\ users' \in [Handles -> User_Type] /\ pc' \in {"idle", "submit"}
      /\ caller' \in Handles \cup {Nobody, "control", "notify"} /\ progress' \in BOOLEAN
      /\ pc' = "idle" => UNCHANGED control
  <2>1. CASE enqueued # Nobody /\ users' = [users EXCEPT ![enqueued].woken = TRUE]
             /\ UNCHANGED control
    <3>1. enqueued \in Handles /\ users \in [Handles -> User_Type] /\ users[enqueued] \in User_Type
      BY <2>1 DEF IInv, Types, TypeOK
    <3> DEFINE u == [users[enqueued] EXCEPT !.woken = TRUE]
    <3>2. u \in User_Type
      BY <3>1 DEF User_Type
    <3>3. users' = [users EXCEPT ![enqueued] = u]
      BY <2>1, <3>1
    <3> HIDE DEF u
    <3> QED BY <1>1, <2>1, <3>1, <3>2, <3>3 DEF IInv, Types, control
  <2>2. CASE Handle_Frontend_Request("notify") /\ UNCHANGED users
    BY <2>2 DEF IInv, Types, Handle_Frontend_Request
  <2> QED BY <2>1, <2>2 DEF Handle_IO
<1>5. Types'
  <2>1. \A u \in Handles : users'[u].state \in {"idle", "calling", "queued"}
    BY <1>4 DEF User_Type
  <2>3. UNCHANGED <<frontend, helper_read, helper_write, enqueued, io_pending, rekey, extend,
                    snapshot_requests, pool, bytes, max_vba, io>> /\ io_signal' \in BOOLEAN
    BY <1>1 DEF wrapper
  <2>2. TypeOK'
    BY <2>1, <2>3 DEF IInv, Types, TypeOK
  <2> QED BY <1>1, <1>4, <2>2 DEF IInv, Types, PCs, wrapper
<1>6. "PENDING" \notin {helper_read.state, helper_write.state, frontend.state}
      /\ "COMPLETE" \notin {helper_read.state, helper_write.state}
  BY <1>1 DEF IInv, Pending
<1>7. Pending' /\ Quiet'
  BY <1>1, <1>2, <1>4, <1>6 DEF IInv, Pending, Quiet, Something_Pending, wrapper
<1> QED BY <1>2, <1>3, <1>5, <1>7 DEF IInv

-----------------------------------------------------------------------------
(***************************************************************************)
(* The inductive invariant holds at the start, and in each step.           *)
(***************************************************************************)
LEMMA IInvInit == Init => IInv
<1> SUFFICES ASSUME Init PROVE IInv
  OBVIOUS
<1> DEFINE r == Library_Request("INITIALIZE", 0, 1, Nobody)
<1>1. /\ r \in Request_Type /\ r.op = "INITIALIZE" /\ r.phase = "run" /\ RequestConsistent(r)
  BY ZerosType DEF Library_Request, Request_Type, RequestConsistent, Data_Ops
<1> HIDE DEF r
<1>2. pool = <<r>> /\ pool \in Seq(Request_Type) /\ Len(pool) = 1 /\ DOMAIN pool = {1} /\ pool[1] = r
  BY <1>1 DEF Init, r
<1>3. /\ BLOCK_SIZE \in Nat \ {0} /\ Max_Vba \in Nat /\ Max_Count \in Nat
      /\ Nr_Of_Requests >= 1 /\ 0 \in Offsets
  BY VfsAssumption DEF Offsets
<1>4. frontend \in [state : {"NONE", "PENDING", "IN_PROGRESS", "COMPLETE", "ERROR_EOF"},
                    op : {"READ", "WRITE", "SYNC"}, vba : Nat, blocks : Nat,
                    count : 0 .. Max_Count, helper_offset : Offsets,
                    data : Handles \cup {Nobody}]
  BY <1>3 DEF Init, No_Request
<1>5. /\ helper_read \in Helper_Type({"NONE", "PENDING", "IN_PROGRESS", "COMPLETE"})
      /\ helper_write \in Helper_Type({"NONE", "PENDING", "IN_PROGRESS", "COMPLETE"})
  BY ZerosType DEF Init, No_Helper, Helper_Type
<1>6. bytes \in [0 .. (Max_Vba + 1) * BLOCK_SIZE - 1 -> Byte]
  BY DEF Init, Byte
<1>7. users \in [Handles -> User_Type] /\ \A u \in Handles : users[u].state \in {"idle", "calling", "queued"}
  BY <1>3 DEF Init, No_User, User_Type, Data_Ops
<1>8. Types
  <2>1. TypeOK
    BY <1>1, <1>2, <1>3, <1>4, <1>5, <1>6, <1>7 DEF Init, TypeOK
  <2> QED BY <1>2, <1>7, <2>1 DEF Init, Types, Obj_Type, PCs
<1>9. NoThrow /\ DistinctOps /\ RequestsConsistent /\ OnlyHeadWorkedOn
  BY <1>1, <1>2 DEF Init, NoThrow, DistinctOps, RequestsConsistent, OnlyHeadWorkedOn, Incomplete,
                    OfDataFile
<1>10. OneHolder /\ Matching
  BY <1>1, <1>2 DEF Init, OneHolder, Matching, OfDataFile, Data_Ops, No_Request, No_Helper
<1>11. Pending /\ Quiet
  BY <1>1, <1>2 DEF Init, Pending, Quiet, Something_Pending, No_Request, No_Helper, Incomplete
<1>12. ControlFiles
  BY <1>1, <1>2 DEF Init, ControlFiles, InPool
<1> QED BY <1>8, <1>9, <1>10, <1>11, <1>12 DEF IInv

(* Each step keeps the invariant.                                          *)
LEMMA IInvStep == IInv /\ [Next]_vars => IInv'
<1> SUFFICES ASSUME IInv, [Next]_vars PROVE IInv'
  OBVIOUS
<1>1. CASE Submit_Requests
  BY <1>1, SubmitStep
<1>2. CASE Reject_Frontend
  BY <1>2, RejectStep
<1>3. CASE Execute
  BY <1>3, ExecuteStep
<1>4. ASSUME NEW i \in DOMAIN pool, Drop_Completed(i) PROVE IInv'
  BY <1>4, DropData, DropBackground
<1>5. CASE Helpers_Complete
  BY <1>5, HelpersStep
<1>6. CASE Client_Data
  BY <1>6, ClientDataStep
<1>7. CASE Backend_And_Crypto
  BY <1>7, BackendStep
<1>8. CASE Return
  BY <1>8, ReturnStep
<1>9. CASE Control_Files
  BY <1>9, ControlStep
<1>10. CASE Device_Answers
  BY <1>10, DeviceStep
<1>11. CASE Handle_IO
  BY <1>11, SignalStep
<1>12. ASSUME NEW h \in Handles, NEW r \in Requests, Ask(h, r[1], r[2], r[3]) PROVE IInv'
  <2>1. r[1] \in Data_Ops /\ r[2] \in Nat /\ r[3] \in 0 .. Max_Count
    BY VfsAssumption DEF Data_Ops
  <2>2. Call(h, r[1], r[2], r[3])
    BY <1>12 DEF Ask
  <2> QED BY <2>1, <2>2, CallStep
<1>13. ASSUME NEW h \in Handles, Retry(h) PROVE IInv'
  <2>1. users[h] \in User_Type
    BY DEF IInv, Types
  <2>2. users[h].op \in Data_Ops /\ users[h].offset \in Nat /\ users[h].count \in 0 .. Max_Count
    BY <2>1 DEF User_Type
  <2>3. Call(h, users[h].op, users[h].offset, users[h].count)
    BY <1>13 DEF Retry
  <2> QED BY <2>2, <2>3, CallStep
<1>14. CASE UNCHANGED vars
  <2>1. UNCHANGED <<frontend, helper_read, helper_write, enqueued, io_pending, rekey, extend,
                    snapshot_requests, pc, caller, progress, thrown, pool, bytes, max_vba, io,
                    io_signal, users>>
    BY <1>14 DEF vars, wrapper, control, device
  <2>2. Types'
    <3>1. TypeOK'
      BY <2>1 DEF IInv, Types, TypeOK
    <3> QED BY <2>1, <3>1 DEF IInv, Types
  <2>3. /\ DistinctOps' /\ RequestsConsistent' /\ OnlyHeadWorkedOn' /\ ControlFiles' /\ NoThrow'
        /\ OneHolder' /\ Matching' /\ Incomplete' = Incomplete
    BY <2>1 DEF IInv, NoThrow, DistinctOps, RequestsConsistent, OnlyHeadWorkedOn, ControlFiles,
                OneHolder, Matching, Incomplete, OfDataFile, InPool
  <2>4. Pending' /\ Quiet'
    BY <2>1, <2>3 DEF IInv, Pending, Quiet, Something_Pending, Client_Request_Acceptable,
                      IsHead, Library_Waits
  <2> QED BY <2>2, <2>3, <2>4 DEF IInv
<1> QED BY <1>1, <1>2, <1>3, <1>4, <1>5, <1>6, <1>7, <1>8, <1>9, <1>10, <1>11, <1>12, <1>13, <1>14
        DEF Next, Handling, Data_File

-----------------------------------------------------------------------------
(***************************************************************************)
(* What the invariant says.                                                *)
(***************************************************************************)
(* The request of the data file at the library is of the request in progress. *)
LEMMA WorkedOn == IInv => RequestIsWorkedOn
<1> SUFFICES ASSUME IInv PROVE RequestIsWorkedOn
  OBVIOUS
<1> DEFINE Of == {i \in DOMAIN pool : pool[i].op \in {"READ", "WRITE", "SYNC"}}
<1>1. \A i : i \in Of <=> i \in DOMAIN pool /\ OfDataFile(i)
  BY DEF OfDataFile, Data_Ops
<1> HIDE DEF Of
<1>2. \A i, k \in Of : i = k
  BY <1>1 DEF IInv, DistinctOps
<1>3. ASSUME pc = "idle"
      PROVE  frontend.state = "IN_PROGRESS" <=>
               Of # {} \/ "PENDING" \in {helper_read.state, helper_write.state}
  <2>1. /\ "PENDING" \notin {helper_read.state, helper_write.state}
        /\ "COMPLETE" \notin {helper_read.state, helper_write.state}
    BY <1>3 DEF IInv, Pending
  <2>2. frontend.state = "IN_PROGRESS" <=> \E i \in DOMAIN pool : OfDataFile(i)
    BY <2>1 DEF IInv, OneHolder, Held
  <2> QED BY <1>1, <2>1, <2>2
<1> QED BY <1>2, <1>3 DEF RequestIsWorkedOn, Of

(* Each operation is in the pool exactly as long as its control file says so. *)
LEMMA Truthful == IInv => ControlFilesTruthful
<1> SUFFICES ASSUME IInv, pc = "idle"
             PROVE  /\ Shown(rekey).state # "unknown" =>
                         (Shown(rekey).state = "in-progress" <=> InLibrary("REKEY"))
                    /\ Shown(extend).state # "unknown" =>
                         (Shown(extend).state = "in-progress" <=> InLibrary("EXTEND_VBD"))
                    /\ "failed" \notin {Shown(rekey).result, Shown(extend).result}
                    /\ \A op \in {"CREATE_SNAPSHOT", "DISCARD_SNAPSHOT"} :
                         op \in snapshot_requests <=> InLibrary(op)
  BY DEF ControlFilesTruthful
<1>1. \A op : InPool(op) <=> InLibrary(op)
  BY DEF IInv, Quiet, InPool, InLibrary
<1>2. ASSUME NEW obj \in Obj_Type
      PROVE  /\ Shown(obj).state = "unknown" <=> obj.state = "UNKNOWN"
             /\ Shown(obj).state = "in-progress" <=> obj.state = "IN_PROGRESS"
             /\ (obj.state # "IN_PROGRESS" => obj.last_result # "FAILED") =>
                  Shown(obj).result # "failed"
  <2>1. /\ obj.state \in {"UNKNOWN", "IDLE", "IN_PROGRESS"}
        /\ obj.last_result \in {"NONE", "SUCCESS", "FAILED"}
    BY DEF Obj_Type
  <2> QED BY <2>1 DEF Shown
<1>3. rekey \in Obj_Type /\ extend \in Obj_Type
  BY DEF IInv, Types
<1>4. ControlFiles
  BY DEF IInv
<1>5. Shown(rekey).state # "unknown" => (Shown(rekey).state = "in-progress" <=> InLibrary("REKEY"))
  BY <1>1, <1>2, <1>3, <1>4 DEF ControlFiles, Obj_Type
<1>6. Shown(extend).state # "unknown" =>
        (Shown(extend).state = "in-progress" <=> InLibrary("EXTEND_VBD"))
  BY <1>1, <1>2, <1>3, <1>4 DEF ControlFiles, Obj_Type
<1>7. "failed" \notin {Shown(rekey).result, Shown(extend).result}
  BY <1>2, <1>3, <1>4 DEF ControlFiles
<1> QED BY <1>1, <1>4, <1>5, <1>6, <1>7 DEF ControlFiles

(* The plugin is always in a state of the invariant.                       *)
THEOREM Invariance == Spec => []IInv
BY IInvInit, IInvStep, PTL DEF Spec

(* Type correctness.                                                       *)
THEOREM TypeCorrect == Spec => []TypeOK
<1>1. IInv => TypeOK
  BY DEF IInv, Types
<1> QED BY <1>1, Invariance, PTL

(* The library never has, or needs, a block that the plugin cannot assign to *)
(* a request: the plugin never throws -1.                                  *)
THEOREM NeverThrows == Spec => []NoThrow
<1>1. IInv => NoThrow
  BY DEF IInv
<1> QED BY <1>1, Invariance, PTL

(* A request in progress is at the library, or on its way there, and alone. *)
THEOREM AlwaysWorkedOn == Spec => []RequestIsWorkedOn
BY WorkedOn, Invariance, PTL

(* The control files say what the library does.                            *)
THEOREM AlwaysTruthful == Spec => []ControlFilesTruthful
BY Truthful, Invariance, PTL

-----------------------------------------------------------------------------
(***************************************************************************)
(* With one handle no wakeup is lost.                                      *)
(***************************************************************************)
(* Without a request of the data file, four requests at most are in the    *)
(* pool: one of each operation, and no rekeying or extension besides the   *)
(* request that reads the superblock.                                      *)
LEMMA FewRequests ==
  ASSUME IInv, \A i \in DOMAIN pool : ~OfDataFile(i), Nr_Of_Requests >= 5
  PROVE  Client_Request_Acceptable
<1> SUFFICES ASSUME ~Client_Request_Acceptable PROVE FALSE
  OBVIOUS
<1>1. /\ Len(pool) \in Nat /\ DOMAIN pool = 1 .. Len(pool)
      /\ \A i \in DOMAIN pool : pool[i].op \in Ops \ Data_Ops
  BY PoolFacts DEF IInv, OfDataFile, Request_Type, Ops, Data_Ops
<1>2. Len(pool) >= 5
  BY <1>1, VfsAssumption DEF Client_Request_Acceptable
<1>3. {1, 2, 3, 4, 5} \subseteq DOMAIN pool
  BY <1>1, <1>2
<1>4. \A i, k \in DOMAIN pool : pool[i].op = pool[k].op => i = k
  BY DEF IInv, DistinctOps
<1>5. \E S \in {In_Background, {"INITIALIZE", "CREATE_SNAPSHOT", "DISCARD_SNAPSHOT"}} :
        \A i \in DOMAIN pool : pool[i].op \in S
  BY <1>1 DEF IInv, ControlFiles, InPool, Ops, Data_Ops, In_Background
<1>6. CASE \A i \in DOMAIN pool : pool[i].op \in In_Background
  BY <1>3, <1>4, <1>6 DEF In_Background
<1>7. CASE \A i \in DOMAIN pool : pool[i].op \in {"INITIALIZE", "CREATE_SNAPSHOT", "DISCARD_SNAPSHOT"}
  BY <1>3, <1>4, <1>7
<1> QED BY <1>5, <1>6, <1>7

(* The device is waited for until it answers, and then with a signal.      *)
LEMMA WaitedFor ==
  ASSUME IInv, [Next]_vars, io = "submitted"
  PROVE  io' = "submitted" \/ io_signal'
<1>1. CASE Execute
  <2>1. ASSUME NEW i \in Incomplete, IsHead(i), Generate_IO(i) PROVE FALSE
    <3>1. pool[i].phase \notin {"io", "write_io"}
      BY <2>1 DEF Generate_IO
    <3> QED BY <2>1, <3>1, HeadWaitsForIO DEF IInv
  <2> QED BY <1>1, <2>1 DEF Execute, Execute_Block, Write_Block, Execute_Other
<1>2. CASE Handling /\ ~Execute
  BY <1>2 DEF Handling, Submit_Requests, Reject_Frontend, Drop_Completed, Helpers_Complete,
              Client_Data, Backend_And_Crypto, Handle_Cbe_Backend, Handle_Crypto, Return, device
<1>3. CASE Control_Files
  BY <1>3 DEF Control_Files, Start_Rekeying, Start_Extending, Create_Or_Discard_Snapshot, Start,
              device
<1>4. CASE Device_Answers
  BY <1>4 DEF Device_Answers
<1>5. CASE Handle_IO
  BY <1>5 DEF Handle_IO
<1>6. CASE \E h \in Handles : Data_File(h)
  BY <1>6 DEF Data_File, Ask, Retry, Call, device
<1>7. CASE UNCHANGED vars
  BY <1>7 DEF vars, device
<1> QED BY <1>1, <1>2, <1>3, <1>4, <1>5, <1>6, <1>7 DEF Next

(* The signal stays until it is handled.                                   *)
LEMMA SignalStays ==
  ASSUME [Next]_vars, ~Handle_IO, io_signal
  PROVE  io_signal'
<1>1. CASE Handling
  BY <1>1 DEF Handling, Submit_Requests, Reject_Frontend, Execute, Drop_Completed,
              Helpers_Complete, Client_Data, Backend_And_Crypto, Return, device
<1>2. CASE Control_Files
  BY <1>2 DEF Control_Files, Start_Rekeying, Start_Extending, Create_Or_Discard_Snapshot, Start,
              device
<1>3. CASE Device_Answers
  BY <1>3 DEF Device_Answers
<1>4. CASE \E h \in Handles : Data_File(h)
  BY <1>4 DEF Data_File, Ask, Retry, Call, device
<1>5. CASE UNCHANGED vars
  BY <1>5 DEF vars, device
<1> QED BY <1>1, <1>2, <1>3, <1>4, <1>5 DEF Next

(* Each step keeps it: the user is enqueued when its request waits for the *)
(* device; a call is not turned away for want of room, since the pool has  *)
(* room for one request of each operation.                                 *)
LEMMA WInvStep ==
  ASSUME NEW h, Handles = {h}, Nr_Of_Requests >= 5, IInv, WInv, [Next]_vars
  PROVE  WInv'
<1>1. h \in Handles /\ h # Nobody /\ users \in [Handles -> User_Type]
  BY VfsAssumption DEF IInv, Types
<1>2. SUFFICES ASSUME users'[h].state = "queued"
               PROVE  enqueued' = h /\ (users'[h].woken \/ io_signal' \/ io' = "submitted")
  BY <1>1 DEF WInv
<1>3. ASSUME UNCHANGED <<users, enqueued>>, ~Handle_IO
      PROVE  enqueued' = h /\ (users'[h].woken \/ io_signal' \/ io' = "submitted")
  BY <1>1, <1>2, <1>3, WaitedFor, SignalStays DEF WInv
<1>4. CASE Return
  <2>1. CASE Queued(h)
    <3>1. /\ enqueued' = h /\ frontend.state \in {"PENDING", "IN_PROGRESS"} /\ pc = "return"
          /\ UNCHANGED io
      BY <1>4, <2>1 DEF Queued, Return, device
    <3>2. io = "submitted"
      BY <3>1 DEF IInv, Quiet, Pending
    <3> QED BY <3>1, <3>2
  <2>2. CASE Answered(h)
    <3>1. users' = [users EXCEPT ![h] =
            [No_User EXCEPT !.out = IF frontend.state = "COMPLETE" THEN frontend.count ELSE 0]]
      BY <2>2 DEF Answered
    <3> QED BY <1>1, <1>2, <3>1 DEF No_User
  <2>3. CASE UNCHANGED <<users, enqueued>>
    <3>1. ~Handle_IO
      BY <1>4 DEF Return, Handle_IO
    <3> QED BY <1>3, <2>3, <3>1
  <2> QED BY <1>1, <1>4, <2>1, <2>2, <2>3 DEF Return
<1>5. CASE Handle_IO
  <2>1. CASE enqueued # Nobody /\ users' = [users EXCEPT ![enqueued].woken = TRUE]
    <3>1. enqueued = h /\ enqueued' = enqueued
      BY <1>1, <1>5, <2>1 DEF IInv, Types, TypeOK, Handle_IO, wrapper
    <3>2. users[h] \in User_Type
      BY <1>1
    <3>3. users'[h].woken = TRUE
      BY <1>1, <2>1, <3>1, <3>2 DEF User_Type
    <3> QED BY <3>1, <3>3
  <2>2. CASE enqueued = Nobody /\ UNCHANGED users
    BY <1>1, <1>2, <2>2 DEF WInv
  <2> QED BY <1>5, <2>1, <2>2 DEF Handle_IO
<1>6. ASSUME NEW op, NEW offset, NEW count, Call(h, op, offset, count)
      PROVE  FALSE
  <2>1. frontend.state = "NONE" => \A i \in DOMAIN pool : ~OfDataFile(i)
    BY DEF IInv, OneHolder
  <2>2. frontend.state = "NONE" => Client_Request_Acceptable
    BY <2>1, FewRequests
  <2>3. users' = [users EXCEPT ![h] = [state |-> "calling", op |-> op, offset |-> offset,
                                       count |-> count, out |-> 0, woken |-> FALSE]]
    BY <1>6, <2>2 DEF Call
  <2> QED BY <1>1, <1>2, <2>3
<1>7. CASE Data_File(h)
  BY <1>6, <1>7 DEF Data_File, Ask, Retry
<1>8. CASE (Handling /\ ~Return) \/ Control_Files \/ Device_Answers \/ UNCHANGED vars
  <2>1. UNCHANGED <<users, enqueued>>
    <3>1. CASE Handling /\ ~Return
      BY <3>1 DEF Handling, Submit_Requests, Reject_Frontend, Execute, Drop_Completed,
                  Helpers_Complete, Client_Data, Backend_And_Crypto, wrapper
    <3>2. CASE Control_Files
      BY <3>2 DEF Control_Files, Start_Rekeying, Start_Extending, Create_Or_Discard_Snapshot, Start
    <3>3. CASE Device_Answers
      BY <3>3 DEF Device_Answers, wrapper
    <3>4. CASE UNCHANGED vars
      BY <3>4 DEF vars, wrapper
    <3> QED BY <1>8, <3>1, <3>2, <3>3, <3>4
  <2> QED BY <1>3, <1>5, <2>1
<1> QED BY <1>1, <1>4, <1>5, <1>7, <1>8 DEF Next

(* With one handle, and a pool as large as that, whoever waits is woken.  The *)
(* pool of the code has 16 entries.                                        *)
THEOREM WakeupsKept ==
  ASSUME NEW h, Handles = {h}, Nr_Of_Requests >= 5
  PROVE  Spec => []NoLostWakeup
<1>1. Init => WInv
  BY DEF Init, WInv, No_User
<1>2. IInv /\ WInv /\ [Next]_vars => WInv'
  BY WInvStep
<1>3. WInv => NoLostWakeup
  BY DEF WInv, NoLostWakeup
<1> QED BY <1>1, <1>2, <1>3, Invariance, PTL DEF Spec

-----------------------------------------------------------------------------
(***************************************************************************)
(* The data file of module Vfs implements ByteFile: a file of bytes, for   *)
(* any size of a block and of the device, any requests, and any operations *)
(* of the control files meanwhile.  There is one handle, the pool has room *)
(* for one request of each operation, and no request that is not aligned   *)
(* begins past the end: with two handles, or with such a request, the      *)
(* implication is false (MCVfsEnd.cfg has the latter).                     *)
(***************************************************************************)
(* What is assumed of the constants. *)
OneUser(h) ==
  /\ Handles = {h}
  /\ Nr_Of_Requests >= 5
  /\ Beyond_End = {}
  /\ Requests \subseteq Data_Ops \X (0 .. (Max_Vba + 1) * BLOCK_SIZE)
                              \X (0 .. (Max_Vba + 1) * BLOCK_SIZE)

(* The bytes of a request of the user, and those of its first blocks.      *)
Read_Right(h, n) == \A k \in 0 .. n - 1 : buffer[h][k] = bytes[users[h].offset + k]

Written_Right(h, n) == \A k \in 0 .. n - 1 : bytes[users[h].offset + k] = Payload[k]

(* The plugin holds the request of the user, and it is for whole blocks,   *)
(* or for a part of one.                                                   *)
UsersRequest(h) ==
  /\ users[h].state = "idle" <=> frontend.state = "NONE"
  /\ frontend.state # "NONE" =>
       /\ frontend.data = h /\ frontend.op = users[h].op
       /\ frontend.count <= users[h].count
       /\ IF frontend.op = "SYNC" THEN frontend.count = 0 /\ frontend.blocks = 1
          ELSE users[h].offset = frontend.vba * BLOCK_SIZE + frontend.helper_offset
       /\ frontend.op # "SYNC" /\ frontend.blocks = 0 =>
            frontend.helper_offset + frontend.count <= BLOCK_SIZE
       /\ frontend.op # "SYNC" /\ frontend.blocks # 0 =>
            frontend.helper_offset = 0 /\ frontend.count = frontend.blocks * BLOCK_SIZE

(* A helper request is for the block of the user's request, with what is   *)
(* to be written of it replaced.                                           *)
ReadsBlock ==
  helper_read.state # "NONE" =>
    /\ helper_read.vba = frontend.vba /\ frontend.vba <= max_vba /\ frontend.blocks = 0
    /\ helper_read.state = "COMPLETE" => helper_read.block = Block(frontend.vba)

WritesBlock ==
  helper_write.state # "NONE" =>
    /\ helper_write.vba = frontend.vba /\ frontend.vba <= max_vba /\ frontend.blocks = 0
    /\ \A k \in Offsets :
         helper_write.block[k] = IF Part(k) THEN Payload[k - frontend.helper_offset]
                                            ELSE bytes[frontend.vba * BLOCK_SIZE + k]
    /\ helper_write.state = "COMPLETE" => helper_write.block = Block(frontend.vba)

(* The requests of the data file that the library has: one, or none.       *)
DataRequests == {pool[i] : i \in {k \in DOMAIN pool : OfDataFile(k)}}

(* Such a request is for blocks that exist. *)
InRange(h, r) ==
  /\ r.success /\ r.vba = frontend.vba
  /\ r.phase = "complete" => r.index = r.blocks
  /\ r.op # "SYNC" => r.vba + r.blocks <= max_vba + 1
  /\ IF "IN_PROGRESS" \in {helper_read.state, helper_write.state}
       THEN r.blocks = 1
       ELSE r.data = h /\ frontend.blocks # 0

(* What has been read of it so far is there, and what has been written.    *)
ReadSoFar(h, r) ==
  r.op = "READ" =>
    /\ r.phase \in {"decrypt", "ready"} => r.block = Block(r.vba + r.index)
    /\ IF helper_read.state = "IN_PROGRESS"
         THEN r.phase = "complete" => helper_read.block = Block(r.vba)
         ELSE Read_Right(h, r.index * BLOCK_SIZE)

WrittenSoFar(h, r) ==
  r.op = "WRITE" =>
    /\ r.phase \in {"encrypt", "encrypted", "write_io", "write_io_done"} =>
         \A k \in Offsets :
           r.block[k] = IF helper_write.state = "IN_PROGRESS" THEN helper_write.block[k]
                        ELSE Payload[r.index * BLOCK_SIZE + k]
    /\ IF helper_write.state = "IN_PROGRESS"
         THEN r.phase = "complete" => helper_write.block = Block(r.vba)
         ELSE Written_Right(h, r.index * BLOCK_SIZE)

Right(h, r) == InRange(h, r) /\ ReadSoFar(h, r) /\ WrittenSoFar(h, r)

AtLibrary(h) == \A r \in DataRequests : Right(h, r)

(* A request that is complete has been carried out. *)
CarriedOut(h) ==
  frontend.state = "COMPLETE" =>
    /\ frontend.op = "READ" => Read_Right(h, frontend.count)
    /\ frontend.op = "WRITE" => Written_Right(h, frontend.count)

(* The buffer of the user is filled by the plugin only. *)
Buffers(h) ==
  /\ buffer \in [Handles -> [0 .. Max_Count - 1 -> Byte \cup {-1}]]
  /\ frontend.state \in {"NONE", "PENDING"} \/ helper_read.state = "PENDING" => buffer[h] = Unread

DInv(h) ==
  /\ UsersRequest(h)
  /\ ReadsBlock
  /\ WritesBlock
  /\ AtLibrary(h)
  /\ CarriedOut(h)
  /\ Buffers(h)

-----------------------------------------------------------------------------
(***************************************************************************)
(* Steps that leave the bytes, the request of the user and the helper      *)
(* requests as they are.                                                   *)
(***************************************************************************)
(* The user waits for the same request, or for none. *)
SameRequest(h) ==
  /\ users'[h].state = "idle" <=> users[h].state = "idle"
  /\ users'[h].op = users[h].op
  /\ users'[h].offset = users[h].offset
  /\ users'[h].count = users[h].count

(* The requests in the pool are records. *)
LEMMA DataFacts ==
  ASSUME IInv
  PROVE  /\ \A r \in DataRequests : /\ r \in Request_Type /\ r.op \in Data_Ops
                                     /\ RequestConsistent(r)
                                     /\ frontend.state = "IN_PROGRESS"
                                     /\ helper_read.state \notin Held
                                     /\ helper_write.state \notin Held
         /\ \A i \in DOMAIN pool : OfDataFile(i) => DataRequests = {pool[i]}
BY PoolFacts DEF IInv, DataRequests, OfDataFile, RequestsConsistent, OneHolder, DistinctOps

(* What holds of the request of the user, and of one at the library, holds *)
(* after such a step.                                                      *)
LEMMA Kept ==
  ASSUME NEW h, OneUser(h), IInv, DInv(h), SameRequest(h),
         UNCHANGED <<frontend, helper_read, helper_write, bytes, buffer>>,
         max_vba' \in Nat, max_vba' >= max_vba
  PROVE  /\ UsersRequest(h)' /\ ReadsBlock' /\ WritesBlock' /\ CarriedOut(h)' /\ Buffers(h)'
         /\ \A r \in Request_Type : Right(h, r) => Right(h, r)'
<1>1. /\ max_vba \in Nat /\ frontend.vba \in Nat
      /\ \A vba : Block(vba)' = Block(vba)
      /\ \A k : Part(k)' <=> Part(k)
      /\ \A n : Read_Right(h, n)' <=> Read_Right(h, n)
      /\ \A n : Written_Right(h, n)' <=> Written_Right(h, n)
  BY VfsAssumption DEF SameRequest, Block, Part, Read_Right, Written_Right, IInv, Types, TypeOK
<1>2. UsersRequest(h)'
  BY DEF DInv, UsersRequest, SameRequest
<1>3. ReadsBlock'
  BY <1>1 DEF DInv, ReadsBlock, Block
<1>4. WritesBlock'
  BY <1>1 DEF DInv, WritesBlock, Block
<1>5. CarriedOut(h)'
  BY DEF DInv, CarriedOut, Read_Right, Written_Right, SameRequest
<1>6. Buffers(h)'
  BY DEF DInv, Buffers
<1>7. ASSUME NEW r \in Request_Type, Right(h, r)
      PROVE  Right(h, r)'
  <2>1. r.vba + r.blocks \in Nat
    BY DEF Request_Type
  <2>2. InRange(h, r)'
    BY <1>1, <1>7, <2>1 DEF Right, InRange
  <2>3. ReadSoFar(h, r)'
    BY <1>1, <1>7 DEF Right, ReadSoFar, Block, Read_Right, SameRequest
  <2>4. WrittenSoFar(h, r)'
    BY <1>1, <1>7 DEF Right, WrittenSoFar, Block, Written_Right, SameRequest
  <2> QED BY <2>2, <2>3, <2>4 DEF Right
<1> QED BY <1>2, <1>3, <1>4, <1>5, <1>6, <1>7

(* So it does in the pool, when the requests there are right.              *)
LEMMA KeptPool ==
  ASSUME NEW h, OneUser(h), IInv, DInv(h), SameRequest(h),
         UNCHANGED <<frontend, helper_read, helper_write, bytes, buffer>>,
         max_vba' \in Nat, max_vba' >= max_vba,
         \A r \in DataRequests' :
           r \in DataRequests \/ (r \in Request_Type /\ Right(h, r))
  PROVE  DInv(h)'
<1>1. \A r \in DataRequests' : r \in Request_Type /\ Right(h, r)
  BY DataFacts DEF DInv, AtLibrary
<1>2. AtLibrary(h)'
  BY <1>1, Kept DEF AtLibrary
<1> QED BY <1>2, Kept DEF DInv

(* Another request takes the place of one in the pool.                     *)
LEMMA Replaced ==
  ASSUME IInv, NEW i \in DOMAIN pool, NEW s, pool' = [pool EXCEPT ![i] = s],
         s.op = pool[i].op
  PROVE  DataRequests' = IF OfDataFile(i) THEN {s} ELSE DataRequests
<1>1. /\ DOMAIN pool' = DOMAIN pool /\ pool'[i] = s
      /\ \A k \in DOMAIN pool : k # i => pool'[k] = pool[k]
  BY PoolFacts DEF IInv
<1>2. \A k \in DOMAIN pool : OfDataFile(k)' <=> OfDataFile(k)
  BY <1>1 DEF OfDataFile
<1>3. CASE OfDataFile(i)
  BY <1>1, <1>2, <1>3 DEF DataRequests, IInv, DistinctOps
<1>4. CASE ~OfDataFile(i)
  BY <1>1, <1>2, <1>4 DEF DataRequests
<1> QED BY <1>3, <1>4

(* A request whose phase changes, and nothing else.                        *)
LEMMA OtherPhaseRight ==
  ASSUME NEW h, NEW r \in Request_Type, NEW phase \in Phases \ {"complete"}, Right(h, r),
         phase \in {"decrypt", "ready"} => r.phase \in {"decrypt", "ready"},
         phase \in {"encrypt", "encrypted", "write_io", "write_io_done"} =>
           r.phase \in {"encrypt", "encrypted", "write_io", "write_io_done"}
  PROVE  /\ [r EXCEPT !.phase = phase] \in Request_Type
         /\ [r EXCEPT !.phase = phase].op = r.op
         /\ Right(h, [r EXCEPT !.phase = phase])
<1> DEFINE s == [r EXCEPT !.phase = phase]
<1>1. /\ s \in Request_Type
      /\ s.op = r.op /\ s.vba = r.vba /\ s.blocks = r.blocks /\ s.data = r.data
      /\ s.index = r.index /\ s.success = r.success /\ s.phase = phase /\ s.block = r.block
  BY OtherPhaseOnly
<1> HIDE DEF s
<1>2. InRange(h, s)
  BY <1>1 DEF Right, InRange
<1>3. ReadSoFar(h, s)
  BY <1>1 DEF Right, ReadSoFar
<1>4. WrittenSoFar(h, s)
  BY <1>1 DEF Right, WrittenSoFar
<1> QED BY <1>1, <1>2, <1>3, <1>4 DEF Right, s

(* The head of the pool is in another phase.                               *)
LEMMA HeadPhase ==
  ASSUME NEW h, OneUser(h), IInv, DInv(h), SameRequest(h),
         UNCHANGED <<frontend, helper_read, helper_write, bytes, buffer, max_vba>>,
         NEW i \in DOMAIN pool, NEW phase \in Phases \ {"complete"},
         pool' = [pool EXCEPT ![i].phase = phase],
         phase \in {"decrypt", "ready"} => pool[i].phase \in {"decrypt", "ready"},
         phase \in {"encrypt", "encrypted", "write_io", "write_io_done"} =>
           pool[i].phase \in {"encrypt", "encrypted", "write_io", "write_io_done"}
  PROVE  DInv(h)'
<1> DEFINE s == [pool[i] EXCEPT !.phase = phase]
<1>1. pool[i] \in Request_Type /\ pool' = [pool EXCEPT ![i] = s]
  BY PoolFacts DEF IInv
<1>2. s.op = pool[i].op /\ s \in Request_Type
  BY <1>1, OtherPhaseOnly
<1>3. OfDataFile(i) => Right(h, s)
  <2> SUFFICES ASSUME OfDataFile(i) PROVE Right(h, s)
    OBVIOUS
  <2>1. Right(h, pool[i])
    BY DEF DInv, AtLibrary, DataRequests
  <2> QED BY <1>1, <2>1, OtherPhaseRight
<1> HIDE DEF s
<1>4. DataRequests' = IF OfDataFile(i) THEN {s} ELSE DataRequests
  BY <1>1, <1>2, Replaced
<1>5. \A r \in DataRequests' : r \in DataRequests \/ (r \in Request_Type /\ Right(h, r))
  BY <1>2, <1>3, <1>4
<1>6. max_vba' \in Nat /\ max_vba' >= max_vba
  BY VfsAssumption DEF IInv, Types, TypeOK
<1> QED BY <1>5, <1>6, KeptPool

-----------------------------------------------------------------------------
(***************************************************************************)
(* The library works on the head of its pool.                              *)
(***************************************************************************)
(* Steps of the library leave the plugin as it is. *)
LEMMA ExecuteKeeps ==
  ASSUME Execute, NEW h
  PROVE  SameRequest(h) /\ UNCHANGED <<frontend, helper_read, helper_write, buffer>>
BY DEF Execute, SameRequest, wrapper

(* The blocks of a request in progress exist. *)
LEMMA BlockExists ==
  ASSUME NEW h, IInv, NEW r \in Request_Type, InRange(h, r), r.op # "SYNC", r.index < r.blocks
  PROVE  /\ r.vba + r.index \in 0 .. max_vba /\ max_vba \in 0 .. Max_Vba
         /\ r.vba \in Nat /\ r.index \in Nat
BY VfsAssumption, SMTT(30) DEF InRange, Request_Type, IInv, Types, TypeOK

(* A block is read, or the data to be written are asked for: all blocks    *)
(* exist.                                                                  *)
LEMMA ExecuteBlockD ==
  ASSUME NEW h, OneUser(h), IInv, DInv(h), Execute,
         NEW i \in Incomplete, IsHead(i), Execute_Block(i)
  PROVE  DInv(h)'
<1>1. /\ i \in DOMAIN pool /\ pool[i] \in Request_Type /\ pool[i].index < pool[i].blocks
      /\ pool[i].op \in {"READ", "WRITE"} /\ pool[i].phase \in {"run", "io_done"}
      /\ UNCHANGED <<bytes, max_vba>>
  BY HeadFacts DEF Execute_Block
<1>2. OfDataFile(i) /\ Right(h, pool[i])
  BY <1>1 DEF DInv, AtLibrary, DataRequests, OfDataFile, Data_Ops
<1> DEFINE vba == pool[i].vba + pool[i].index
<1>3. vba \in 0 .. max_vba /\ max_vba \in 0 .. Max_Vba
  BY <1>1, <1>2, BlockExists DEF Right
<1>4. ~(vba > max_vba) /\ vba \in Nat /\ vba <= max_vba /\ max_vba' \in Nat /\ max_vba' >= max_vba
  BY <1>1, <1>3, VfsAssumption
<1>5. CASE pool[i].op = "READ"
  <2> DEFINE s == [pool[i] EXCEPT !.phase = "decrypt", !.block = Block(vba)]
  <2>1. pool' = [pool EXCEPT ![i] = s]
    BY <1>4, <1>5 DEF Execute_Block
  <2>2. Block(vba) \in [Offsets -> Byte]
    BY <1>4, BlockType DEF IInv
  <2>3. /\ s \in Request_Type /\ s.op = "READ" /\ s.vba = pool[i].vba
        /\ s.blocks = pool[i].blocks /\ s.data = pool[i].data /\ s.index = pool[i].index
        /\ s.success = pool[i].success /\ s.phase = "decrypt" /\ s.block = Block(vba)
    BY <1>1, <1>5, <2>2 DEF Request_Type
  <2>4. s.block = Block(s.vba + s.index)
    BY <2>3
  <2> HIDE DEF s, vba
  <2>5. InRange(h, s) /\ ReadSoFar(h, s) /\ WrittenSoFar(h, s)
    BY <1>2, <1>5, <2>3, <2>4 DEF Right, InRange, ReadSoFar, WrittenSoFar
  <2>6. DataRequests' = {s}
    BY <1>1, <1>2, <1>5, <2>1, <2>3, Replaced
  <2>7. \A r \in DataRequests' : r \in DataRequests \/ (r \in Request_Type /\ Right(h, r))
    BY <2>3, <2>5, <2>6 DEF Right
  <2> QED BY <1>1, <1>4, <2>7, ExecuteKeeps, KeptPool
<1>6. CASE pool[i].op = "WRITE"
  <2>1. pool' = [pool EXCEPT ![i].phase = "required"]
    BY <1>4, <1>6 DEF Execute_Block
  <2> QED BY <1>1, <2>1, ExecuteKeeps, HeadPhase DEF Phases
<1> QED BY <1>1, <1>5, <1>6

(* Other requests are done, or done with a step. *)
LEMMA ExecuteOtherD ==
  ASSUME NEW h, OneUser(h), IInv, DInv(h), Execute,
         NEW i \in Incomplete, IsHead(i), Execute_Other(i)
  PROVE  DInv(h)' /\ max_vba' \in max_vba .. Max_Vba
<1>1. /\ i \in DOMAIN pool /\ pool[i] \in Request_Type /\ RequestConsistent(pool[i])
      /\ pool[i].index < pool[i].blocks
      /\ pool[i].index \in Nat /\ pool[i].blocks \in Nat /\ pool[i].vba \in Nat
  BY HeadFacts DEF Request_Type
<1>2. /\ UNCHANGED <<bytes, io>>
      /\ pool[i].phase \in {"run", "io_done"} /\ pool[i].op \notin {"READ", "WRITE"}
  BY DEF Execute_Other
<1>3. max_vba' \in max_vba .. Max_Vba /\ max_vba \in Nat
  <2>1. max_vba \in 0 .. Max_Vba /\ Max_Vba \in Nat
    BY VfsAssumption DEF IInv, Types, TypeOK
  <2>2. max_vba' = max_vba \/ (max_vba < Max_Vba /\ max_vba' = max_vba + 1)
    BY DEF Execute_Other
  <2> QED BY <2>1, <2>2
<1>4. SUFFICES \A r \in DataRequests' : r \in DataRequests \/ (r \in Request_Type /\ Right(h, r))
  BY <1>2, <1>3, ExecuteKeeps, KeptPool
<1>5. CASE /\ pool' = [pool EXCEPT ![i] = Next_Block(pool[i], TRUE)]
           /\ pool[i].index + 1 = pool[i].blocks
  <2> DEFINE s == Next_Block(pool[i], TRUE)
  <2>1. /\ s \in Request_Type /\ s.op = pool[i].op /\ s.vba = pool[i].vba
        /\ s.blocks = pool[i].blocks /\ s.data = pool[i].data /\ s.index = pool[i].index + 1
        /\ s.success = TRUE /\ s.phase = "complete"
    BY <1>1, <1>5, NextBlock
  <2>2. pool' = [pool EXCEPT ![i] = s]
    BY <1>5
  <2> HIDE DEF s
  <2>3. DataRequests' = IF OfDataFile(i) THEN {s} ELSE DataRequests
    BY <1>1, <2>1, <2>2, Replaced
  <2>4. OfDataFile(i) => Right(h, s)
    <3> SUFFICES ASSUME OfDataFile(i) PROVE Right(h, s)
      OBVIOUS
    <3>1. Right(h, pool[i]) /\ s.op = "SYNC"
      BY <1>1, <1>2, <2>1 DEF DInv, AtLibrary, DataRequests, OfDataFile, Data_Ops
    <3> QED BY <1>5, <2>1, <3>1 DEF Right, InRange, ReadSoFar, WrittenSoFar
  <2> QED BY <2>1, <2>3, <2>4
<1>6. CASE pool' = Let_Others_Pass(i) /\ pool[i].op # "INITIALIZE" /\ pool[i].index + 1 < pool[i].blocks
  <2>1. pool[i].op \notin Data_Ops
    BY <1>1, <1>2, <1>6 DEF RequestConsistent, Data_Ops
  <2>2. \A k \in DOMAIN pool' : \E m \in DOMAIN pool :
          pool'[k].op = pool[m].op /\ (m = i \/ pool'[k] = pool[m])
    BY <1>2, <1>6, <2>1, PoolPassed DEF IInv
  <2> QED BY <2>1, <2>2 DEF DataRequests, OfDataFile
<1>7. CASE pool' = RemoveAt(pool, i)
  <2>1. \A k \in DOMAIN pool' : \E m \in DOMAIN pool : m # i /\ pool'[k] = pool[m]
    BY <1>1, <1>2, <1>7, PoolRemoved DEF IInv
  <2> QED BY <2>1 DEF DataRequests, OfDataFile
<1>8. ASSUME NEW op \in {"REKEY", "EXTEND_VBD"} \cap Background, pool[i].op = "INITIALIZE",
             pool' = [pool EXCEPT ![i] = Library_Request(op, 0, Steps(op), Nobody)]
      PROVE  \A r \in DataRequests' : r \in DataRequests
  <2> DEFINE s == Library_Request(op, 0, Steps(op), Nobody)
  <2>1. s.op = op /\ pool' = [pool EXCEPT ![i] = s]
    BY <1>8 DEF Library_Request
  <2> HIDE DEF s
  <2>2. /\ DOMAIN pool' = DOMAIN pool /\ pool'[i].op = op
        /\ \A k \in DOMAIN pool : k # i => pool'[k] = pool[k]
    BY <1>1, <2>1, PoolFacts DEF IInv
  <2> QED BY <1>8, <2>2 DEF DataRequests, OfDataFile, Data_Ops
<1> QED BY <1>5, <1>6, <1>7, <1>8 DEF Execute_Other

(* Where the blocks of a request are. *)
LEMMA PositionsOfBlock ==
  ASSUME NEW v \in Nat, NEW n \in Nat, NEW m \in Nat, n < m
  PROVE  /\ v * BLOCK_SIZE \in Nat /\ n * BLOCK_SIZE \in Nat /\ m * BLOCK_SIZE \in Nat
         /\ (v + n) * BLOCK_SIZE = v * BLOCK_SIZE + n * BLOCK_SIZE
         /\ (n + 1) * BLOCK_SIZE = n * BLOCK_SIZE + BLOCK_SIZE
         /\ n * BLOCK_SIZE + BLOCK_SIZE <= m * BLOCK_SIZE
<1>1. BLOCK_SIZE \in Nat /\ n + 1 \in Nat /\ n + 1 <= m
  BY VfsAssumption
<1>2. /\ (n + 1) * BLOCK_SIZE <= m * BLOCK_SIZE
      /\ v * BLOCK_SIZE \in Nat /\ n * BLOCK_SIZE \in Nat /\ m * BLOCK_SIZE \in Nat
      /\ (n + 1) * BLOCK_SIZE = n * BLOCK_SIZE + BLOCK_SIZE
  BY <1>1, Product
<1>3. \A a, b, c \in Nat : (a + b) * c = a * c + b * c
  OBVIOUS
<1> QED BY <1>1, <1>2, <1>3

(* The bytes of a block that exists.                                       *)
LEMMA BytesOfBlock ==
  ASSUME IInv, NEW v \in Nat, v <= max_vba
  PROVE  /\ v * BLOCK_SIZE \in Nat
         /\ \A k \in Offsets : v * BLOCK_SIZE + k \in DOMAIN bytes
<1>1. /\ max_vba \in 0 .. Max_Vba /\ Max_Vba \in Nat /\ BLOCK_SIZE \in Nat
      /\ DOMAIN bytes = 0 .. (Max_Vba + 1) * BLOCK_SIZE - 1
  BY VfsAssumption DEF IInv, Types, TypeOK
<1> DEFINE p == v * BLOCK_SIZE  m == (Max_Vba + 1) * BLOCK_SIZE
<1>2. p \in Nat /\ m \in Nat /\ p + BLOCK_SIZE <= m
  <2>1. v < Max_Vba + 1 /\ Max_Vba + 1 \in Nat
    BY <1>1
  <2> QED BY <2>1, PositionsOfBlock
<1> HIDE DEF p, m
<1>3. \A k \in Offsets : p + k \in 0 .. m - 1
  BY <1>1, <1>2 DEF Offsets
<1> QED BY <1>1, <1>2, <1>3 DEF p, m

(* Some bytes of the request of the user are written, and no others.       *)
Writes(h, some) ==
  bytes' = [b \in DOMAIN bytes |->
              IF b - users[h].offset \in some THEN Payload[b - users[h].offset] ELSE bytes[b]]

(* What is known when a block is written.                                  *)
LEMMA WriteFacts ==
  ASSUME NEW h, OneUser(h), IInv, DInv(h), Execute,
         NEW i \in Incomplete, IsHead(i), Write_Block(i)
  PROVE  /\ i \in DOMAIN pool /\ pool[i] \in Request_Type /\ OfDataFile(i) /\ Right(h, pool[i])
         /\ pool[i].op = "WRITE" /\ pool[i].index < pool[i].blocks
         /\ pool[i].index \in Nat /\ pool[i].blocks \in Nat /\ pool[i].vba \in Nat
         /\ pool[i].vba = frontend.vba
         /\ pool[i].vba + pool[i].index \in Nat /\ pool[i].vba + pool[i].index <= max_vba
         /\ frontend.state = "IN_PROGRESS" /\ frontend.op = "WRITE" /\ helper_read.state = "NONE"
         /\ helper_write.state \in {"NONE", "IN_PROGRESS"}
         /\ Next_Block(pool[i], TRUE) \in Request_Type
         /\ DataRequests' = {Next_Block(pool[i], TRUE)}
         /\ frontend.count \in Nat /\ frontend.count <= Max_Count
         /\ users[h].offset = frontend.vba * BLOCK_SIZE + frontend.helper_offset
         /\ frontend.helper_offset \in Nat /\ users[h].offset \in Nat
         /\ max_vba' = max_vba /\ max_vba \in Nat
<1>1. /\ i \in DOMAIN pool /\ pool[i] \in Request_Type /\ RequestConsistent(pool[i])
      /\ pool[i].index < pool[i].blocks
      /\ pool[i].index \in Nat /\ pool[i].blocks \in Nat /\ pool[i].vba \in Nat
  BY HeadFacts DEF Request_Type
<1>2. pool[i].op = "WRITE" /\ OfDataFile(i)
  BY <1>1 DEF Write_Block, RequestConsistent, OfDataFile, Data_Ops
<1>3. Right(h, pool[i])
  BY <1>1, <1>2 DEF DInv, AtLibrary, DataRequests
<1>4. /\ frontend.state = "IN_PROGRESS" /\ helper_read.state \notin Held
      /\ helper_write.state \notin Held
  BY <1>1, <1>2 DEF IInv, OneHolder
<1>5. helper_read.state # "IN_PROGRESS"
  BY <1>1, <1>2 DEF IInv, Matching
<1>6. helper_read.state = "NONE" /\ helper_write.state \in {"NONE", "IN_PROGRESS"}
  BY <1>4, <1>5 DEF Held, IInv, Types, TypeOK, Helper_Type
<1>7. frontend.op = "WRITE"
  BY <1>1, <1>2, <1>5, <1>6 DEF IInv, Matching, OneHolder
<1>8. /\ Next_Block(pool[i], TRUE) \in Request_Type
      /\ Next_Block(pool[i], TRUE).op = pool[i].op
  BY <1>1, NextBlock
<1>9. DataRequests' = {Next_Block(pool[i], TRUE)}
  BY <1>1, <1>2, <1>8, Replaced DEF Write_Block
<1>10. /\ pool[i].vba + pool[i].index \in 0 .. max_vba /\ max_vba \in 0 .. Max_Vba
  BY <1>1, <1>2, <1>3, BlockExists DEF Right
<1>11. /\ frontend.count \in Nat /\ frontend.count <= Max_Count /\ frontend.helper_offset \in Nat
       /\ max_vba \in Nat
  BY VfsAssumption DEF IInv, Types, TypeOK, Offsets
<1>12. users[h].offset = frontend.vba * BLOCK_SIZE + frontend.helper_offset
  BY <1>4, <1>7 DEF DInv, UsersRequest
<1>13. users[h].offset \in Nat
  BY DEF IInv, Types, User_Type, OneUser
<1>14. pool[i].vba = frontend.vba
  BY <1>3 DEF Right, InRange
<1>15. max_vba' = max_vba
  BY DEF Write_Block
<1>16. pool[i].vba + pool[i].index \in Nat /\ pool[i].vba + pool[i].index <= max_vba
  BY <1>10, <1>11
<1> QED BY <1>1, <1>2, <1>3, <1>4, <1>6, <1>7, <1>8, <1>9, <1>11, <1>12, <1>13, <1>14, <1>15,
           <1>16

(* The block of a helper request is written.                               *)
LEMMA WriteHelperBlock ==
  ASSUME NEW h, OneUser(h), IInv, DInv(h), Execute,
         NEW i \in Incomplete, IsHead(i), Write_Block(i), helper_write.state = "IN_PROGRESS"
  PROVE  DInv(h)' /\ Writes(h, 0 .. frontend.count - 1)
<1> DEFINE base == frontend.vba * BLOCK_SIZE
<1>1. /\ pool[i] \in Request_Type /\ Right(h, pool[i]) /\ pool[i].op = "WRITE"
      /\ pool[i].index = 0 /\ pool[i].blocks = 1
      /\ pool[i].vba = frontend.vba /\ frontend.vba \in Nat /\ frontend.vba <= max_vba
      /\ pool[i].phase = "write_io_done" /\ UNCHANGED max_vba
      /\ frontend.state = "IN_PROGRESS" /\ helper_read.state = "NONE"
  <2>1. /\ pool[i] \in Request_Type /\ Right(h, pool[i]) /\ pool[i].op = "WRITE"
        /\ pool[i].index < pool[i].blocks /\ pool[i].index \in Nat
        /\ pool[i].vba = frontend.vba /\ pool[i].vba \in Nat
        /\ pool[i].vba + pool[i].index <= max_vba /\ max_vba \in Nat
        /\ frontend.state = "IN_PROGRESS" /\ helper_read.state = "NONE"
    BY WriteFacts
  <2>2. pool[i].blocks = 1
    BY <2>1 DEF Right, InRange
  <2>3. pool[i].index = 0
    BY <2>1, <2>2
  <2>4. pool[i].phase = "write_io_done" /\ UNCHANGED max_vba
    BY DEF Write_Block
  <2> QED BY <2>1, <2>2, <2>3, <2>4
<1>2. /\ frontend.helper_offset + frontend.count <= BLOCK_SIZE
      /\ frontend.count \in Nat /\ frontend.helper_offset \in Nat
      /\ users[h].offset = base + frontend.helper_offset /\ BLOCK_SIZE \in Nat
  BY WriteFacts, VfsAssumption DEF DInv, WritesBlock, UsersRequest
<1>3. /\ base \in Nat /\ \A k \in Offsets : base + k \in DOMAIN bytes
      /\ DOMAIN bytes \subseteq Int
  BY <1>1, BytesOfBlock DEF IInv, Types, TypeOK
<1>4. \A k \in Offsets :
        helper_write.block[k] = IF Part(k) THEN Payload[k - frontend.helper_offset]
                                           ELSE bytes[base + k]
  BY DEF DInv, WritesBlock
<1>5. bytes' = [b \in DOMAIN bytes |->
                  IF b - base \in Offsets THEN pool[i].block[b - base] ELSE bytes[b]]
  BY <1>1 DEF Write_Block
<1>6. \A k \in Offsets : pool[i].block[k] = helper_write.block[k]
  BY <1>1 DEF Right, WrittenSoFar
<1>7. /\ SameRequest(h) /\ UNCHANGED <<frontend, helper_read, helper_write, buffer>>
  BY ExecuteKeeps
<1>8. PICK s \in Request_Type : s = Next_Block(pool[i], TRUE) /\ DataRequests' = {s}
  BY WriteFacts
<1>9. /\ s.op = "WRITE" /\ s.vba = frontend.vba /\ s.blocks = 1 /\ s.index = 1
      /\ s.success = TRUE /\ s.phase = "complete"
  <2>1. /\ s.op = pool[i].op /\ s.vba = pool[i].vba /\ s.blocks = pool[i].blocks
        /\ s.index = pool[i].index + 1 /\ s.success = TRUE
        /\ s.phase = IF pool[i].index + 1 = pool[i].blocks THEN "complete" ELSE "run"
    BY <1>1, <1>8, NextBlock
  <2> QED BY <1>1, <2>1
<1>10. \A k \in Offsets : bytes'[base + k] = helper_write.block[k]
  <2> SUFFICES ASSUME NEW k \in Offsets PROVE bytes'[base + k] = helper_write.block[k]
    OBVIOUS
  <2> HIDE DEF base
  <2>1. base + k \in DOMAIN bytes /\ (base + k) - base = k
    BY <1>3 DEF Offsets
  <2> QED BY <1>5, <1>6, <2>1
<1>11. UsersRequest(h)' /\ ReadsBlock' /\ CarriedOut(h)' /\ Buffers(h)'
  BY <1>1, <1>7 DEF DInv, UsersRequest, SameRequest, ReadsBlock, CarriedOut, Buffers
<1>12. WritesBlock'
  <2>1. \A k : Part(k)' <=> Part(k)
    BY <1>7 DEF Part
  <2>2. \A k \in Offsets :
          helper_write.block[k] = IF Part(k) THEN Payload[k - frontend.helper_offset]
                                             ELSE bytes'[base + k]
    BY <1>4, <1>10
  <2> QED BY <1>1, <1>7, <2>1, <2>2 DEF DInv, WritesBlock
<1>13. AtLibrary(h)'
  <2>1. InRange(h, s)'
    BY <1>1, <1>7, <1>9, WriteFacts DEF Right, InRange
  <2>2. helper_write.block = Block(s.vba)'
    <3>1. helper_write.block \in [Offsets -> Byte]
      BY DEF IInv, Types, TypeOK, Helper_Type
    <3> QED BY <1>9, <1>10, <3>1 DEF Block
  <2>3. ReadSoFar(h, s)' /\ WrittenSoFar(h, s)'
    BY <1>7, <1>9, <2>2 DEF ReadSoFar, WrittenSoFar
  <2> QED BY <1>8, <2>1, <2>3 DEF AtLibrary, Right
<1>14. Writes(h, 0 .. frontend.count - 1)
  <2> DEFINE offset == users[h].offset
  <2> HIDE DEF base, offset
  <2>1. offset = base + frontend.helper_offset
    BY <1>2 DEF offset
  <2>2. ASSUME NEW b \in DOMAIN bytes
        PROVE  bytes'[b] = IF b - offset \in 0 .. frontend.count - 1 THEN Payload[b - offset]
                                                                     ELSE bytes[b]
    <3>1. b \in Int
      BY <1>3
    <3>2. CASE b - base \in Offsets
      <4>1. Part(b - base) <=> b - offset \in 0 .. frontend.count - 1
        BY <1>2, <1>3, <2>1, <3>1 DEF Part
      <4>2. (b - base) - frontend.helper_offset = b - offset /\ base + (b - base) = b
        BY <1>2, <1>3, <2>1, <3>1
      <4> QED BY <1>4, <1>5, <1>6, <3>2, <4>1, <4>2
    <3>3. CASE b - base \notin Offsets
      <4>1. b - offset \notin 0 .. frontend.count - 1
        BY <1>2, <1>3, <2>1, <3>1, <3>3 DEF Offsets
      <4> QED BY <1>5, <3>3, <4>1
    <3> QED BY <3>2, <3>3
  <2> QED BY <1>5, <2>2 DEF Writes, offset
<1> QED BY <1>11, <1>12, <1>13, <1>14 DEF DInv

(* A block of the data of the user is written.                             *)
LEMMA WriteUsersBlock ==
  ASSUME NEW h, OneUser(h), IInv, DInv(h), Execute,
         NEW i \in Incomplete, IsHead(i), Write_Block(i), helper_write.state # "IN_PROGRESS"
  PROVE  DInv(h)' /\ \E some \in SUBSET (0 .. frontend.count - 1) : Writes(h, some)
<1> DEFINE base == frontend.vba * BLOCK_SIZE
           p == pool[i].index * BLOCK_SIZE
           offset == users[h].offset
           some == {k \in 0 .. frontend.count - 1 : k - p \in Offsets}
<1>1. /\ i \in DOMAIN pool /\ OfDataFile(i)
      /\ pool[i] \in Request_Type /\ Right(h, pool[i]) /\ pool[i].op = "WRITE"
      /\ pool[i].index < pool[i].blocks /\ pool[i].index \in Nat /\ pool[i].blocks \in Nat
      /\ pool[i].vba = frontend.vba /\ frontend.vba \in Nat
      /\ pool[i].vba + pool[i].index \in Nat /\ pool[i].vba + pool[i].index <= max_vba
      /\ frontend.state = "IN_PROGRESS" /\ frontend.op = "WRITE"
      /\ helper_read.state = "NONE" /\ helper_write.state = "NONE"
  BY WriteFacts
<1>2. pool[i].blocks = frontend.blocks /\ frontend.blocks # 0
  BY <1>1 DEF IInv, Matching, Right, InRange
<1>3. frontend.helper_offset = 0 /\ frontend.count = pool[i].blocks * BLOCK_SIZE
  BY <1>1, <1>2 DEF DInv, UsersRequest
<1>4. offset = base
  <2>1. offset = base + frontend.helper_offset
    BY WriteFacts
  <2>2. base \in Nat
    BY <1>1, VfsAssumption, Product
  <2> HIDE DEF base, offset
  <2> QED BY <1>3, <2>1, <2>2
<1>5. /\ base \in Nat /\ p \in Nat /\ BLOCK_SIZE \in Nat /\ frontend.count \in Nat
      /\ (frontend.vba + pool[i].index) * BLOCK_SIZE = base + p
      /\ (pool[i].index + 1) * BLOCK_SIZE = p + BLOCK_SIZE
      /\ p + BLOCK_SIZE <= frontend.count
  <2>1. /\ base \in Nat /\ p \in Nat /\ pool[i].blocks * BLOCK_SIZE \in Nat
        /\ (frontend.vba + pool[i].index) * BLOCK_SIZE = base + p
        /\ (pool[i].index + 1) * BLOCK_SIZE = p + BLOCK_SIZE
        /\ p + BLOCK_SIZE <= pool[i].blocks * BLOCK_SIZE
    BY <1>1, PositionsOfBlock
  <2> QED BY <1>3, <2>1, VfsAssumption
<1>6. /\ DOMAIN bytes \subseteq Int
      /\ \A k \in 0 .. p + BLOCK_SIZE - 1 : base + k \in DOMAIN bytes
  <2>1. \A k \in Offsets : (frontend.vba + pool[i].index) * BLOCK_SIZE + k \in DOMAIN bytes
    BY <1>1, BytesOfBlock
  <2>2. PICK m : DOMAIN bytes = 0 .. m /\ m \in Int
    <3>1. (Max_Vba + 1) * BLOCK_SIZE - 1 \in Int
      BY VfsAssumption
    <3> QED BY <3>1 DEF IInv, Types, TypeOK
  <2>3. \A k \in Offsets : base + p + k \in 0 .. m
    BY <1>5, <2>1, <2>2
  <2> HIDE DEF base, p
  <2>4. BLOCK_SIZE - 1 \in Offsets
    BY VfsAssumption DEF Offsets
  <2>5. base + p + (BLOCK_SIZE - 1) <= m
    BY <1>5, <2>2, <2>3, <2>4
  <2> QED BY <1>5, <2>2, <2>5
<1>7. \A k \in Offsets : pool[i].block[k] = Payload[p + k]
  <2>1. pool[i].phase = "write_io_done"
    BY DEF Write_Block
  <2> QED BY <1>1, <2>1 DEF Right, WrittenSoFar
<1>8. bytes' = [b \in DOMAIN bytes |->
                  IF b - (base + p) \in Offsets THEN pool[i].block[b - (base + p)] ELSE bytes[b]]
  BY <1>1, <1>5 DEF Write_Block
<1>9. /\ SameRequest(h) /\ UNCHANGED <<frontend, helper_read, helper_write, buffer, max_vba>>
  BY ExecuteKeeps DEF Write_Block
<1>10. PICK s \in Request_Type : s = Next_Block(pool[i], TRUE) /\ DataRequests' = {s}
  BY WriteFacts
<1>11. /\ s.op = "WRITE" /\ s.vba = frontend.vba /\ s.blocks = pool[i].blocks
       /\ s.data = pool[i].data /\ s.index = pool[i].index + 1 /\ s.success = TRUE
       /\ s.phase = IF pool[i].index + 1 = pool[i].blocks THEN "complete" ELSE "run"
  BY <1>1, <1>10, NextBlock
<1>12. Writes(h, some)
  <2> HIDE DEF base, p, offset
  <2>1. ASSUME NEW b \in DOMAIN bytes
        PROVE  bytes'[b] = IF b - offset \in some THEN Payload[b - offset] ELSE bytes[b]
    <3>1. b \in Int
      BY <1>6
    <3>2. b - offset \in some <=> b - (base + p) \in Offsets
      BY <1>4, <1>5, <3>1 DEF Offsets
    <3>3. p + (b - (base + p)) = b - offset
      BY <1>4, <1>5, <3>1
    <3> QED BY <1>7, <1>8, <3>2, <3>3
  <2> QED BY <1>8, <2>1 DEF Writes, offset
<1>13. \A k \in 0 .. p + BLOCK_SIZE - 1 : bytes'[offset + k] = Payload[k]
  <2>1. \A k \in 0 .. p - 1 : bytes[offset + k] = Payload[k]
    BY <1>1 DEF Right, WrittenSoFar, Written_Right
  <2> HIDE DEF base, p, offset
  <2>2. ASSUME NEW k \in 0 .. p + BLOCK_SIZE - 1
        PROVE  bytes'[offset + k] = Payload[k]
    <3>1. base + k \in DOMAIN bytes /\ offset + k = base + k /\ (base + k) - (base + p) = k - p
      BY <1>4, <1>5, <1>6
    <3>2. CASE k < p
      <4>1. k - p \notin Offsets /\ k \in 0 .. p - 1
        BY <1>5, <3>2 DEF Offsets
      <4> QED BY <1>8, <2>1, <3>1, <4>1
    <3>3. CASE ~(k < p)
      <4>1. k - p \in Offsets /\ p + (k - p) = k
        BY <1>5, <3>3 DEF Offsets
      <4> QED BY <1>7, <1>8, <3>1, <4>1
    <3> QED BY <3>2, <3>3
  <2> QED BY <2>2
<1>14. UsersRequest(h)' /\ ReadsBlock' /\ WritesBlock' /\ CarriedOut(h)' /\ Buffers(h)'
  BY <1>1, <1>9 DEF DInv, UsersRequest, SameRequest, ReadsBlock, WritesBlock, CarriedOut, Buffers
<1>15. AtLibrary(h)'
  <2>1. InRange(h, s)'
    BY <1>1, <1>9, <1>11 DEF Right, InRange
  <2>2. Written_Right(h, s.index * BLOCK_SIZE)'
    BY <1>5, <1>9, <1>11, <1>13 DEF Written_Right, SameRequest
  <2>3. ReadSoFar(h, s)' /\ WrittenSoFar(h, s)'
    BY <1>1, <1>9, <1>11, <2>2 DEF ReadSoFar, WrittenSoFar
  <2> QED BY <1>10, <2>1, <2>3 DEF AtLibrary, Right
<1>16. \E t \in SUBSET (0 .. frontend.count - 1) : Writes(h, t)
  <2>1. some \in SUBSET (0 .. frontend.count - 1)
    OBVIOUS
  <2> HIDE DEF some
  <2> QED BY <1>12, <2>1
<1> QED BY <1>14, <1>15, <1>16 DEF DInv

(* The library waits for the back end. *)
LEMMA GenerateIOD ==
  ASSUME NEW h, OneUser(h), IInv, DInv(h), Execute, NEW i \in Incomplete, Generate_IO(i)
  PROVE  DInv(h)'
<1>1. PICK phase \in {"io", "write_io"} :
        /\ pool' = [pool EXCEPT ![i].phase = phase]
        /\ phase = "write_io" => pool[i].phase = "encrypted"
  BY DEF Generate_IO
<1>2. phase \in Phases \ {"complete"} /\ i \in DOMAIN pool /\ UNCHANGED <<bytes, max_vba>>
  BY DEF Phases, Incomplete, Generate_IO
<1> QED BY <1>1, <1>2, ExecuteKeeps, HeadPhase

(* Each pass of the library. *)
LEMMA ExecuteD ==
  ASSUME NEW h, OneUser(h), IInv, DInv(h), Execute
  PROVE  DInv(h)'
<1>1. CASE UNCHANGED <<pool, bytes, max_vba, io, progress>>
  <2>1. DataRequests' = DataRequests
    BY <1>1 DEF DataRequests, OfDataFile
  <2>2. max_vba' \in Nat /\ max_vba' >= max_vba
    BY <1>1, VfsAssumption DEF IInv, Types, TypeOK
  <2> QED BY <1>1, <2>1, <2>2, ExecuteKeeps, KeptPool
<1>2. ASSUME NEW i \in Incomplete, IsHead(i),
             Generate_IO(i) \/ Execute_Block(i) \/ Write_Block(i) \/ Execute_Other(i)
      PROVE  DInv(h)'
  BY <1>2, GenerateIOD, ExecuteBlockD, WriteHelperBlock, WriteUsersBlock, ExecuteOtherD
<1> QED BY <1>1, <1>2 DEF Execute

-----------------------------------------------------------------------------
(***************************************************************************)
(* Requests are submitted, or turned away.                                 *)
(***************************************************************************)
(* The library has got a request.                                          *)
LEMMA SubmittedD ==
  ASSUME IInv, Submit_Requests, Client_Request_Acceptable,
         NEW op \in Data_Ops, NEW vba \in Nat, NEW blocks \in Nat \ {0},
         NEW data \in Handles \cup {Nobody}, op = "SYNC" => blocks = 1,
         Append_To_Pool(Library_Request(op, vba, blocks, data)),
         \A k \in DOMAIN pool : ~OfDataFile(k)
  PROVE  \E r \in Request_Type :
           /\ DataRequests' = {r}
           /\ r.op = op /\ r.vba = vba /\ r.blocks = blocks /\ r.data = data
           /\ r.index = 0 /\ r.phase = "run" /\ r.success
<1>1. PICK r \in Request_Type :
        r = Library_Request(op, vba, blocks, data) /\ RequestConsistent(r)
  BY DataRequest
<1>2. /\ r.op = op /\ r.vba = vba /\ r.blocks = blocks /\ r.data = data
      /\ r.index = 0 /\ r.phase = "run" /\ r.success = TRUE
  BY <1>1 DEF Library_Request
<1>3. /\ \A k \in DOMAIN pool' : OfDataFile(k)' => pool'[k] = r
      /\ \E k \in DOMAIN pool' : OfDataFile(k)'
  BY <1>1, <1>2, Submitted
<1>4. DataRequests' = {r}
  BY <1>3 DEF DataRequests
<1> QED BY <1>2, <1>4

(* The reading of a block for the request of the user. *)
LEMMA SubmitHelperReadD ==
  ASSUME NEW h, OneUser(h), IInv, DInv(h), Submit_Requests, Submit_Helper_Read
  PROVE  DInv(h)'
<1>1. /\ UNCHANGED <<device, users, buffer, frontend, helper_write>>
      /\ helper_read.state = "PENDING"
      /\ helper_read' = [helper_read EXCEPT !.state = "IN_PROGRESS"]
  BY DEF Submit_Requests, Submit_Helper_Read
<1>2. /\ helper_read'.state = "IN_PROGRESS" /\ helper_read'.vba = helper_read.vba
      /\ helper_read'.block = helper_read.block /\ helper_read.vba \in Nat
      /\ helper_write.state = "NONE" /\ frontend.state = "IN_PROGRESS"
      /\ \A k \in DOMAIN pool : ~OfDataFile(k)
  BY <1>1 DEF IInv, Types, TypeOK, Helper_Type, OneHolder, Held
<1>3. PICK r \in Request_Type :
        /\ DataRequests' = {r}
        /\ r.op = "READ" /\ r.vba = helper_read.vba /\ r.blocks = 1 /\ r.data = Nobody
        /\ r.index = 0 /\ r.phase = "run" /\ r.success
  BY <1>2, SubmittedD DEF Submit_Helper_Read, Data_Ops
<1>4. /\ helper_read.vba = frontend.vba /\ frontend.vba <= max_vba /\ frontend.blocks = 0
  BY <1>1 DEF DInv, ReadsBlock
<1>5. /\ UsersRequest(h)' /\ ReadsBlock' /\ WritesBlock' /\ CarriedOut(h)' /\ Buffers(h)'
  BY <1>1, <1>2, <1>4 DEF DInv, UsersRequest, ReadsBlock, WritesBlock, CarriedOut, Buffers, device
<1>6. max_vba \in Nat /\ max_vba' = max_vba
  BY <1>1, VfsAssumption DEF device, IInv, Types, TypeOK
<1>7. Right(h, r)'
  <2>1. InRange(h, r)'
    BY <1>1, <1>2, <1>3, <1>4, <1>6 DEF InRange
  <2>2. ReadSoFar(h, r)' /\ WrittenSoFar(h, r)'
    BY <1>2, <1>3 DEF ReadSoFar, WrittenSoFar
  <2> QED BY <2>1, <2>2 DEF Right
<1> QED BY <1>3, <1>5, <1>7 DEF DInv, AtLibrary

(* The writing of the block. *)
LEMMA SubmitHelperWriteD ==
  ASSUME NEW h, OneUser(h), IInv, DInv(h), Submit_Requests, Submit_Helper_Write
  PROVE  DInv(h)'
<1>1. /\ UNCHANGED <<device, users, buffer, frontend, helper_read>>
      /\ helper_write.state = "PENDING"
      /\ helper_write' = [helper_write EXCEPT !.state = "IN_PROGRESS"]
  BY DEF Submit_Requests, Submit_Helper_Write
<1>2. /\ helper_write'.state = "IN_PROGRESS" /\ helper_write'.vba = helper_write.vba
      /\ helper_write'.block = helper_write.block /\ helper_write.vba \in Nat
      /\ helper_read.state = "NONE" /\ frontend.state = "IN_PROGRESS"
      /\ \A k \in DOMAIN pool : ~OfDataFile(k)
  BY <1>1 DEF IInv, Types, TypeOK, Helper_Type, OneHolder, Held
<1>3. PICK r \in Request_Type :
        /\ DataRequests' = {r}
        /\ r.op = "WRITE" /\ r.vba = helper_write.vba /\ r.blocks = 1 /\ r.data = Nobody
        /\ r.index = 0 /\ r.phase = "run" /\ r.success
  BY <1>2, SubmittedD DEF Submit_Helper_Write, Data_Ops
<1>4. /\ helper_write.vba = frontend.vba /\ frontend.vba <= max_vba /\ frontend.blocks = 0
      /\ \A k \in Offsets :
           helper_write.block[k] = IF Part(k) THEN Payload[k - frontend.helper_offset]
                                              ELSE bytes[frontend.vba * BLOCK_SIZE + k]
  BY <1>1 DEF DInv, WritesBlock
<1>5. UsersRequest(h)' /\ ReadsBlock' /\ CarriedOut(h)' /\ Buffers(h)'
  BY <1>1, <1>2 DEF DInv, UsersRequest, ReadsBlock, CarriedOut, Buffers, device
<1>6. WritesBlock'
  <2>1. /\ \A k : Part(k)' <=> Part(k)
        /\ UNCHANGED <<bytes, max_vba>>
    BY <1>1 DEF Part, device
  <2> QED BY <1>1, <1>2, <1>4, <2>1 DEF WritesBlock
<1>7. max_vba \in Nat /\ max_vba' = max_vba
  BY <1>1, VfsAssumption DEF device, IInv, Types, TypeOK
<1>8. Right(h, r)'
  <2>1. InRange(h, r)'
    BY <1>1, <1>2, <1>3, <1>4, <1>7 DEF InRange
  <2>2. ReadSoFar(h, r)' /\ WrittenSoFar(h, r)'
    BY <1>2, <1>3 DEF ReadSoFar, WrittenSoFar
  <2> QED BY <2>1, <2>2 DEF Right
<1> QED BY <1>3, <1>5, <1>6, <1>8 DEF DInv, AtLibrary

(* The request of the user itself. *)
LEMMA SubmitFrontendD ==
  ASSUME NEW h, OneUser(h), IInv, DInv(h), Submit_Requests, Submit_Frontend
  PROVE  DInv(h)'
<1>1. /\ UNCHANGED <<device, users, buffer, helper_read, helper_write>>
      /\ frontend.state = "PENDING" /\ ~Out_Of_Range
      /\ frontend' = [frontend EXCEPT !.state = "IN_PROGRESS"]
  BY DEF Submit_Requests, Submit_Frontend
<1>2. /\ frontend'.state = "IN_PROGRESS" /\ frontend'.op = frontend.op
      /\ frontend'.vba = frontend.vba /\ frontend'.blocks = frontend.blocks
      /\ frontend'.count = frontend.count /\ frontend'.helper_offset = frontend.helper_offset
      /\ frontend'.data = frontend.data
      /\ frontend.vba \in Nat /\ frontend.blocks \in Nat /\ frontend.op \in Data_Ops
      /\ frontend.data \in Handles \cup {Nobody}
  BY <1>1 DEF IInv, Types, TypeOK, Data_Ops
<1>3. /\ helper_read.state = "NONE" /\ helper_write.state = "NONE"
      /\ frontend.blocks > 0 /\ (frontend.op = "SYNC" => frontend.blocks = 1)
      /\ \A k \in DOMAIN pool : ~OfDataFile(k)
  BY <1>1 DEF IInv, OneHolder, Pending
<1>4. PICK r \in Request_Type :
        /\ DataRequests' = {r}
        /\ r.op = frontend.op /\ r.vba = frontend.vba /\ r.blocks = frontend.blocks
        /\ r.data = frontend.data /\ r.index = 0 /\ r.phase = "run" /\ r.success
  <2>1. frontend.blocks \in Nat \ {0}
    BY <1>2, <1>3
  <2> QED BY <1>2, <1>3, <2>1, SubmittedD DEF Submit_Frontend
<1>5. frontend.data = h
  BY <1>1 DEF DInv, UsersRequest
<1>6. UsersRequest(h)' /\ ReadsBlock' /\ WritesBlock' /\ CarriedOut(h)' /\ Buffers(h)'
  BY <1>1, <1>2, <1>3 DEF DInv, UsersRequest, ReadsBlock, WritesBlock, CarriedOut, Buffers
<1>7. max_vba \in Nat /\ max_vba' = max_vba /\ frontend.vba + frontend.blocks <= max_vba + 1
  BY <1>1, <1>2, VfsAssumption DEF device, IInv, Types, TypeOK, Out_Of_Range
<1>8. Right(h, r)'
  <2>1. InRange(h, r)'
    BY <1>1, <1>2, <1>3, <1>4, <1>5, <1>7 DEF InRange
  <2>2. r.index * BLOCK_SIZE = 0
    BY <1>4, VfsAssumption
  <2>3. ReadSoFar(h, r)' /\ WrittenSoFar(h, r)'
    BY <1>1, <1>3, <1>4, <2>2 DEF ReadSoFar, WrittenSoFar, Read_Right, Written_Right
  <2> QED BY <2>1, <2>3 DEF Right
<1> QED BY <1>4, <1>6, <1>8 DEF DInv, AtLibrary

(* A request out of range. *)
LEMMA RejectD ==
  ASSUME NEW h, OneUser(h), IInv, DInv(h), Reject_Frontend
  PROVE  DInv(h)'
<1>1. /\ UNCHANGED <<device, users, buffer, helper_read, helper_write, pool>>
      /\ frontend.state = "PENDING"
      /\ frontend' = [frontend EXCEPT !.state = "ERROR_EOF"]
  BY DEF Reject_Frontend
<1>2. /\ frontend'.state = "ERROR_EOF" /\ frontend'.op = frontend.op
      /\ frontend'.vba = frontend.vba /\ frontend'.blocks = frontend.blocks
      /\ frontend'.count = frontend.count /\ frontend'.helper_offset = frontend.helper_offset
      /\ frontend'.data = frontend.data
  BY <1>1 DEF IInv, Types, TypeOK
<1>3. /\ helper_read.state = "NONE" /\ helper_write.state = "NONE" /\ DataRequests = {}
  BY <1>1 DEF IInv, OneHolder, DataRequests
<1>4. AtLibrary(h)'
  BY <1>1, <1>3 DEF AtLibrary, DataRequests, OfDataFile
<1> QED BY <1>1, <1>2, <1>3, <1>4
        DEF DInv, UsersRequest, ReadsBlock, WritesBlock, CarriedOut, Buffers

-----------------------------------------------------------------------------
(***************************************************************************)
(* What the library has completed.                                         *)
(***************************************************************************)
LEMMA DropD ==
  ASSUME NEW h, OneUser(h), IInv, DInv(h), NEW i \in DOMAIN pool, Drop_Completed(i)
  PROVE  DInv(h)'
<1>1. /\ pool[i].phase = "complete" /\ pool[i] \in Request_Type
      /\ UNCHANGED <<device, users, buffer>>
      /\ SameRequest(h)
  BY PoolFacts DEF Drop_Completed, SameRequest, IInv
<1>2. max_vba \in Nat /\ UNCHANGED <<bytes, max_vba>>
  BY <1>1, VfsAssumption DEF device, IInv, Types, TypeOK
<1>3. CASE ~OfDataFile(i)
  <2>1. pool' = RemoveAt(pool, i) /\ io' = io
    BY DEF Drop_Completed, device
  <2>2. \A k \in DOMAIN pool' : \E m \in DOMAIN pool : m # i /\ pool'[k] = pool[m]
    BY <1>1, <2>1, PoolRemoved DEF IInv
  <2>3. DataRequests' \subseteq DataRequests
    BY <2>2 DEF DataRequests, OfDataFile
  <2>4. UNCHANGED <<frontend, helper_read, helper_write>>
    BY <1>3 DEF Drop_Completed, Of_Data_File, OfDataFile, Data_Ops
  <2>5. max_vba' \in Nat /\ max_vba' >= max_vba
    BY <1>2
  <2> QED BY <1>1, <1>2, <2>3, <2>4, <2>5, KeptPool
<1>4. CASE OfDataFile(i)
  <2>1. AtLibrary(h)'
    <3>1. \A k \in DOMAIN pool' : ~OfDataFile(k)'
      BY <1>4, Dropped
    <3> QED BY <3>1 DEF AtLibrary, DataRequests
  <2>2. Right(h, pool[i]) /\ Complete_Data(pool[i])
    BY <1>4 DEF DInv, AtLibrary, DataRequests, Drop_Completed, OfDataFile, Of_Data_File, Data_Ops
  <2>3. /\ pool[i].success /\ pool[i].vba = frontend.vba /\ pool[i].index = pool[i].blocks
    BY <1>1, <2>2 DEF Right, InRange
  <2>4. /\ frontend.state = "IN_PROGRESS"
        /\ helper_read.state \notin Held /\ helper_write.state \notin Held
        /\ helper_read.state # "NONE" => helper_write.state = "NONE"
    BY <1>4 DEF IInv, OneHolder
  <2>5. DOMAIN helper_read = DOMAIN No_Helper /\ DOMAIN helper_write = DOMAIN No_Helper
        /\ DOMAIN frontend = DOMAIN No_Request
    BY DEF IInv, Types, TypeOK, Helper_Type, No_Helper, No_Request
  <2>6. CASE helper_read.state = "IN_PROGRESS"
    <3>1. /\ helper_read' = [helper_read EXCEPT !.state = "COMPLETE"]
          /\ UNCHANGED <<helper_write, frontend>>
      BY <2>2, <2>3, <2>6 DEF Complete_Data
    <3>2. /\ helper_read'.state = "COMPLETE" /\ helper_read'.vba = helper_read.vba
          /\ helper_read'.block = helper_read.block
      BY <2>5, <3>1 DEF No_Helper
    <3>3. helper_read.block = Block(frontend.vba)
      <4>1. pool[i].op = "READ"
        BY <1>4, <2>6 DEF IInv, Matching
      <4> QED BY <1>1, <2>2, <2>3, <2>6, <4>1 DEF Right, ReadSoFar
    <3>4. ReadsBlock'
      BY <1>2, <2>6, <3>1, <3>2, <3>3 DEF DInv, ReadsBlock, Block
    <3> QED BY <1>1, <1>2, <2>1, <2>4, <2>6, <3>1, <3>2, <3>4
            DEF DInv, UsersRequest, WritesBlock, CarriedOut, Buffers
  <2>7. CASE helper_write.state = "IN_PROGRESS"
    <3>0. helper_read.state # "IN_PROGRESS"
      BY <2>4, <2>7
    <3>1. /\ helper_write' = [helper_write EXCEPT !.state = "COMPLETE"]
          /\ UNCHANGED <<helper_read, frontend>>
      BY <2>2, <2>3, <2>7, <3>0 DEF Complete_Data
    <3>2. /\ helper_write'.state = "COMPLETE" /\ helper_write'.vba = helper_write.vba
          /\ helper_write'.block = helper_write.block
      BY <2>5, <3>1 DEF No_Helper
    <3>3. helper_write.block = Block(frontend.vba)
      <4>1. pool[i].op = "WRITE"
        BY <1>4, <2>7 DEF IInv, Matching
      <4> QED BY <1>1, <2>2, <2>3, <2>7, <4>1 DEF Right, WrittenSoFar
    <3>4. WritesBlock'
      <4>1. /\ \A k : Part(k)' <=> Part(k)
            /\ Block(frontend.vba)' = Block(frontend.vba)
        BY <1>2, <3>1 DEF Part, Block
      <4> QED BY <1>2, <2>7, <3>1, <3>2, <3>3, <4>1 DEF DInv, WritesBlock
    <3> QED BY <1>1, <1>2, <2>1, <2>4, <2>7, <3>0, <3>1, <3>2, <3>4
            DEF DInv, UsersRequest, ReadsBlock, CarriedOut, Buffers
  <2>8. CASE "IN_PROGRESS" \notin {helper_read.state, helper_write.state}
    <3>1. /\ frontend' = [frontend EXCEPT !.state = "COMPLETE"]
          /\ UNCHANGED <<helper_read, helper_write>>
      BY <2>2, <2>3, <2>8 DEF Complete_Data
    <3>2. /\ frontend'.state = "COMPLETE" /\ frontend'.op = frontend.op
          /\ frontend'.vba = frontend.vba /\ frontend'.blocks = frontend.blocks
          /\ frontend'.count = frontend.count /\ frontend'.helper_offset = frontend.helper_offset
          /\ frontend'.data = frontend.data
      BY <2>5, <3>1 DEF No_Request
    <3>3. helper_read.state = "NONE" /\ helper_write.state = "NONE"
      BY <2>4, <2>8 DEF Held, IInv, Types, TypeOK, Helper_Type
    <3>4. pool[i].op = frontend.op /\ pool[i].blocks = frontend.blocks /\ frontend.blocks # 0
      BY <1>4, <2>2, <2>8 DEF IInv, Matching, Right, InRange
    <3>5. frontend.op # "SYNC" => frontend.count = pool[i].index * BLOCK_SIZE
      BY <2>3, <2>4, <3>4 DEF DInv, UsersRequest
    <3>6. CarriedOut(h)'
      <4>1. frontend.op = "READ" => Read_Right(h, frontend.count)
        BY <2>2, <2>8, <3>4, <3>5 DEF Right, ReadSoFar
      <4>2. frontend.op = "WRITE" => Written_Right(h, frontend.count)
        BY <2>2, <2>8, <3>4, <3>5 DEF Right, WrittenSoFar
      <4> QED BY <1>1, <1>2, <3>2, <4>1, <4>2 DEF CarriedOut, Read_Right, Written_Right
    <3> QED BY <1>1, <1>2, <2>1, <2>4, <3>1, <3>2, <3>3, <3>6
            DEF DInv, UsersRequest, ReadsBlock, WritesBlock, Buffers
  <2> QED BY <2>6, <2>7, <2>8
<1> QED BY <1>3, <1>4

-----------------------------------------------------------------------------
(***************************************************************************)
(* What the plugin does with helper requests that are complete, and with   *)
(* the blocks of a request.                                                *)
(***************************************************************************)
(* Some bytes of the request of the user are read, and no others.          *)
Reads(h, some) ==
  /\ \A k \in some : buffer'[h][k] = bytes[users[h].offset + k]
  /\ \A k \in 0 .. frontend.count - 1 : k \notin some => buffer'[h][k] = buffer[h][k]

(* The part of a block that the user has asked for. *)
LEMMA HelperReadD ==
  ASSUME NEW h, OneUser(h), IInv, DInv(h), Helpers_Complete, Helper_Read_Complete,
         frontend.op = "READ"
  PROVE  DInv(h)' /\ Reads(h, 0 .. frontend.count - 1)
<1> DEFINE base == frontend.vba * BLOCK_SIZE
           offset == users[h].offset
<1>1. /\ helper_read.state = "COMPLETE" /\ frontend.state = "IN_PROGRESS"
      /\ helper_write.state = "NONE" /\ DataRequests = {}
      /\ frontend.vba \in Nat /\ frontend.count \in Nat /\ frontend.count <= Max_Count
      /\ frontend.helper_offset \in Nat /\ Max_Count \in Nat
  BY VfsAssumption DEF Helper_Read_Complete, IInv, OneHolder, Held, DataRequests, Types, TypeOK, Offsets
<1>2. /\ helper_read.block = Block(frontend.vba) /\ frontend.blocks = 0 /\ frontend.data = h
      /\ offset = base + frontend.helper_offset
      /\ frontend.helper_offset + frontend.count <= BLOCK_SIZE
  BY <1>1 DEF DInv, ReadsBlock, UsersRequest
<1>3. /\ buffer' = [buffer EXCEPT ![h] =
           [k \in DOMAIN @ |-> IF k < frontend.count
                                 THEN helper_read.block[frontend.helper_offset + k] ELSE @[k]]]
      /\ frontend' = [frontend EXCEPT !.state = "COMPLETE"]
      /\ UNCHANGED helper_write /\ helper_read' = No_Helper
      /\ UNCHANGED <<pool, device, users>>
  BY <1>2 DEF Helper_Read_Complete, Helpers_Complete
<1>4. /\ buffer \in [Handles -> [0 .. Max_Count - 1 -> Byte \cup {-1}]] /\ h \in Handles
  BY DEF DInv, Buffers, OneUser
<1>5. base \in Nat /\ BLOCK_SIZE \in Nat
  BY <1>1, VfsAssumption, Product
<1>6. \A k \in 0 .. frontend.count - 1 :
        /\ frontend.helper_offset + k \in Offsets /\ k \in 0 .. Max_Count - 1
        /\ helper_read.block[frontend.helper_offset + k] = bytes[offset + k]
  <2> HIDE DEF base, offset
  <2>1. \A k \in Offsets : helper_read.block[k] = bytes[base + k]
    BY <1>2 DEF Block, base
  <2> SUFFICES ASSUME NEW k \in 0 .. frontend.count - 1
               PROVE  /\ frontend.helper_offset + k \in Offsets /\ k \in 0 .. Max_Count - 1
                      /\ helper_read.block[frontend.helper_offset + k] = bytes[offset + k]
    OBVIOUS
  <2>2. /\ frontend.helper_offset + k \in Offsets /\ k \in 0 .. Max_Count - 1
        /\ base + (frontend.helper_offset + k) = offset + k
    BY <1>1, <1>2, <1>5 DEF Offsets
  <2> QED BY <2>1, <2>2
<1>7. \A k \in 0 .. frontend.count - 1 : buffer'[h][k] = bytes[offset + k]
  BY <1>1, <1>3, <1>4, <1>6
<1>8. buffer' \in [Handles -> [0 .. Max_Count - 1 -> Byte \cup {-1}]]
  <2>1. helper_read.block \in [Offsets -> Byte]
    BY DEF IInv, Types, TypeOK, Helper_Type
  <2>2. [k \in DOMAIN buffer[h] |-> IF k < frontend.count
           THEN helper_read.block[frontend.helper_offset + k] ELSE buffer[h][k]]
          \in [0 .. Max_Count - 1 -> Byte \cup {-1}]
    <3>1. \A k \in 0 .. Max_Count - 1 : k < frontend.count =>
            helper_read.block[frontend.helper_offset + k] \in Byte
      BY <1>1, <1>6, <2>1
    <3> QED BY <1>4, <3>1
  <2> QED BY <1>3, <1>4, <2>2
<1>9. /\ frontend'.state = "COMPLETE" /\ frontend'.op = frontend.op
      /\ frontend'.vba = frontend.vba /\ frontend'.blocks = frontend.blocks
      /\ frontend'.count = frontend.count /\ frontend'.helper_offset = frontend.helper_offset
      /\ frontend'.data = frontend.data
  BY <1>3 DEF IInv, Types, TypeOK
<1>10. helper_read'.state = "NONE"
  BY <1>3 DEF No_Helper
<1>11. AtLibrary(h)'
  BY <1>1, <1>3 DEF AtLibrary, DataRequests, OfDataFile
<1>12. UsersRequest(h)' /\ ReadsBlock' /\ WritesBlock'
  BY <1>1, <1>3, <1>9, <1>10 DEF DInv, UsersRequest, ReadsBlock, WritesBlock
<1>13. CarriedOut(h)'
  BY <1>3, <1>7, <1>9 DEF CarriedOut, Read_Right, device
<1>14. Buffers(h)'
  BY <1>8, <1>9, <1>10 DEF Buffers
<1>15. Reads(h, 0 .. frontend.count - 1)
  BY <1>7 DEF Reads
<1> QED BY <1>11, <1>12, <1>13, <1>14, <1>15 DEF DInv

(* The block that is written next: the one that was read, with the part    *)
(* that the user writes replaced.                                          *)
LEMMA HelperReplacesD ==
  ASSUME NEW h, OneUser(h), IInv, DInv(h), Helpers_Complete, Helper_Read_Complete,
         frontend.op = "WRITE"
  PROVE  DInv(h)'
<1>1. /\ helper_read.state = "COMPLETE" /\ frontend.state = "IN_PROGRESS"
      /\ helper_write.state = "NONE" /\ DataRequests = {}
  BY DEF Helper_Read_Complete, IInv, OneHolder, Held, DataRequests
<1>2. /\ helper_read.block = Block(frontend.vba) /\ frontend.blocks = 0
      /\ helper_read.vba = frontend.vba /\ frontend.vba <= max_vba
  BY <1>1 DEF DInv, ReadsBlock
<1>3. /\ helper_write' = [state |-> "PENDING", vba |-> helper_read.vba,
           block |-> [k \in Offsets |-> IF Part(k) THEN Payload[k - frontend.helper_offset]
                                                   ELSE helper_read.block[k]]]
      /\ UNCHANGED <<buffer, frontend, pool, bytes, max_vba, users>>
      /\ helper_read' = No_Helper
  BY DEF Helper_Read_Complete, Helpers_Complete, device
<1>4. /\ helper_write'.state = "PENDING" /\ helper_write'.vba = frontend.vba
      /\ helper_read'.state = "NONE"
      /\ \A k \in Offsets :
           helper_write'.block[k] = IF Part(k) THEN Payload[k - frontend.helper_offset]
                                               ELSE bytes[frontend.vba * BLOCK_SIZE + k]
  BY <1>2, <1>3 DEF No_Helper, Block
<1>5. WritesBlock'
  <2>1. \A k : Part(k)' <=> Part(k)
    BY <1>3 DEF Part
  <2> QED BY <1>2, <1>3, <1>4, <2>1 DEF WritesBlock
<1>6. AtLibrary(h)'
  BY <1>1, <1>3 DEF AtLibrary, DataRequests, OfDataFile
<1> QED BY <1>1, <1>3, <1>4, <1>5, <1>6 DEF DInv, UsersRequest, ReadsBlock, CarriedOut, Buffers

(* The block has been written. *)
LEMMA HelperWriteD ==
  ASSUME NEW h, OneUser(h), IInv, DInv(h), Helpers_Complete, Helper_Write_Complete
  PROVE  DInv(h)'
<1> DEFINE base == frontend.vba * BLOCK_SIZE
           offset == users[h].offset
<1>1. /\ helper_write.state = "COMPLETE" /\ frontend.state = "IN_PROGRESS"
      /\ helper_read.state = "NONE" /\ DataRequests = {} /\ frontend.op = "WRITE"
      /\ frontend.vba \in Nat /\ frontend.count \in Nat /\ frontend.helper_offset \in Nat
  BY VfsAssumption, SMTT(30) DEF Helper_Write_Complete, IInv, OneHolder, Held, DataRequests, Types, TypeOK, Offsets
<1>2. /\ helper_write.block = Block(frontend.vba) /\ frontend.blocks = 0
      /\ offset = base + frontend.helper_offset
      /\ frontend.helper_offset + frontend.count <= BLOCK_SIZE
  BY <1>1 DEF DInv, WritesBlock, UsersRequest
<1>3. /\ frontend' = [frontend EXCEPT !.state = "COMPLETE"]
      /\ helper_write' = No_Helper /\ UNCHANGED <<buffer, helper_read, pool, bytes, users>>
  BY DEF Helper_Write_Complete, Helpers_Complete, device
<1>4. /\ frontend'.state = "COMPLETE" /\ frontend'.op = frontend.op
      /\ frontend'.vba = frontend.vba /\ frontend'.blocks = frontend.blocks
      /\ frontend'.count = frontend.count /\ frontend'.helper_offset = frontend.helper_offset
      /\ frontend'.data = frontend.data
  BY <1>3 DEF IInv, Types, TypeOK
<1>5. helper_write'.state = "NONE"
  BY <1>3 DEF No_Helper
<1>6. Written_Right(h, frontend.count)
  <2>1. \A k \in Offsets : Part(k) => bytes[base + k] = Payload[k - frontend.helper_offset]
    BY <1>1, <1>2 DEF DInv, WritesBlock, Block
  <2>2. base \in Nat /\ BLOCK_SIZE \in Nat
    BY <1>1, VfsAssumption, Product
  <2> HIDE DEF base, offset
  <2>3. ASSUME NEW k \in 0 .. frontend.count - 1
        PROVE  bytes[offset + k] = Payload[k]
    <3>1. /\ frontend.helper_offset + k \in Offsets /\ Part(frontend.helper_offset + k)
          /\ base + (frontend.helper_offset + k) = offset + k
          /\ (frontend.helper_offset + k) - frontend.helper_offset = k
      BY <1>1, <1>2, <2>2 DEF Offsets, Part
    <3> QED BY <2>1, <3>1
  <2> QED BY <2>3 DEF Written_Right, offset
<1>7. CarriedOut(h)'
  BY <1>1, <1>3, <1>4, <1>6 DEF CarriedOut, Written_Right
<1>8. AtLibrary(h)'
  BY <1>1, <1>3 DEF AtLibrary, DataRequests, OfDataFile
<1> QED BY <1>1, <1>3, <1>4, <1>5, <1>7, <1>8
        DEF DInv, UsersRequest, ReadsBlock, WritesBlock, Buffers

(* No helper request is complete. *)
LEMMA HelpersD ==
  ASSUME NEW h, OneUser(h), IInv, DInv(h), Helpers_Complete
  PROVE  DInv(h)'
<1>1. CASE Helper_Read_Complete
  BY <1>1, HelperReadD, HelperReplacesD DEF Helper_Read_Complete
<1>2. CASE Helper_Write_Complete
  BY <1>2, HelperWriteD
<1>3. CASE UNCHANGED <<buffer, frontend, helper_read, helper_write, progress>>
  <2>1. DataRequests' = DataRequests /\ SameRequest(h)
    BY DEF Helpers_Complete, DataRequests, OfDataFile, SameRequest
  <2>2. max_vba' \in Nat /\ max_vba' >= max_vba /\ UNCHANGED bytes
    BY VfsAssumption DEF Helpers_Complete, device, IInv, Types, TypeOK
  <2> QED BY <1>3, <2>1, <2>2, KeptPool
<1> QED BY <1>1, <1>2, <1>3 DEF Helpers_Complete

(* A block that is read for a helper request. *)
LEMMA ReadyForHelperD ==
  ASSUME NEW h, OneUser(h), IInv, DInv(h), Client_Data,
         NEW i \in Incomplete, IsHead(i), Client_Data_Ready(i),
         helper_read.state = "IN_PROGRESS"
  PROVE  DInv(h)' /\ UNCHANGED buffer /\ helper_read'.state = "IN_PROGRESS"
<1>1. /\ i \in DOMAIN pool /\ pool[i] \in Request_Type /\ RequestConsistent(pool[i])
      /\ pool[i].index < pool[i].blocks
      /\ pool[i].index \in Nat /\ pool[i].blocks \in Nat /\ pool[i].vba \in Nat
      /\ pool[i].phase = "ready"
  BY HeadFacts DEF Request_Type, Client_Data_Ready
<1>2. pool[i].op = "READ" /\ OfDataFile(i) /\ frontend.state = "IN_PROGRESS"
  BY <1>1 DEF RequestConsistent, OfDataFile, Data_Ops, IInv, OneHolder
<1>3. Right(h, pool[i]) /\ helper_write.state = "NONE"
  BY <1>1, <1>2 DEF DInv, AtLibrary, DataRequests, IInv, OneHolder
<1>4. pool[i].blocks = 1 /\ pool[i].vba = frontend.vba
  BY <1>3 DEF Right, InRange
<1>5. pool[i].index = 0 /\ pool[i].vba + pool[i].index = pool[i].vba
  BY <1>1, <1>4
<1>6. pool[i].block = Block(frontend.vba)
  <2>1. pool[i].block = Block(pool[i].vba + pool[i].index)
    BY <1>1, <1>2, <1>3 DEF Right, ReadSoFar
  <2> QED BY <1>4, <1>5, <2>1
<1>7. /\ helper_read' = [helper_read EXCEPT !.block = pool[i].block]
      /\ UNCHANGED <<buffer, frontend, helper_write, bytes, max_vba, users>>
      /\ pool' = [pool EXCEPT ![i] = Next_Block(pool[i], TRUE)]
  BY DEF Client_Data_Ready, Client_Data, device
<1>8. /\ helper_read'.state = "IN_PROGRESS" /\ helper_read'.vba = helper_read.vba
      /\ helper_read'.block = Block(frontend.vba)
  BY <1>6, <1>7 DEF IInv, Types, TypeOK, Helper_Type
<1>9. PICK s \in Request_Type :
        /\ s = Next_Block(pool[i], TRUE) /\ s.op = pool[i].op /\ s.vba = pool[i].vba
        /\ s.blocks = pool[i].blocks /\ s.data = pool[i].data /\ s.index = pool[i].index + 1
        /\ s.success = TRUE
        /\ s.phase = IF pool[i].index + 1 = pool[i].blocks THEN "complete" ELSE "run"
  BY <1>1, NextBlock
<1>10. DataRequests' = {s}
  BY <1>1, <1>2, <1>7, <1>9, Replaced
<1>11. /\ s.op = "READ" /\ s.vba = frontend.vba /\ s.blocks = 1 /\ s.index = 1
       /\ s.success = TRUE /\ s.phase = "complete"
  <2>1. pool[i].index + 1 = 1
    BY <1>5
  <2> QED BY <1>2, <1>4, <1>9, <2>1
<1>12. AtLibrary(h)'
  <2>1. pool[i].vba + pool[i].blocks <= max_vba + 1
    BY <1>2, <1>3 DEF Right, InRange
  <2>2. InRange(h, s)'
    BY <1>4, <1>7, <1>8, <1>11, <2>1 DEF InRange
  <2>3. ReadSoFar(h, s)' /\ WrittenSoFar(h, s)'
    BY <1>7, <1>8, <1>11 DEF ReadSoFar, WrittenSoFar, Block
  <2> QED BY <1>10, <2>2, <2>3 DEF AtLibrary, Right
<1>13. ReadsBlock'
  BY <1>7, <1>8 DEF DInv, ReadsBlock
<1>14. UsersRequest(h)' /\ WritesBlock' /\ CarriedOut(h)' /\ Buffers(h)'
  BY <1>2, <1>3, <1>7, <1>8 DEF DInv, UsersRequest, WritesBlock, CarriedOut, Buffers
<1> QED BY <1>7, <1>8, <1>12, <1>13, <1>14 DEF DInv

(* A block that is read for the user. *)
LEMMA ReadyForUserD ==
  ASSUME NEW h, OneUser(h), IInv, DInv(h), Client_Data,
         NEW i \in Incomplete, IsHead(i), Client_Data_Ready(i),
         helper_read.state # "IN_PROGRESS"
  PROVE  /\ DInv(h)' /\ UNCHANGED helper_read
         /\ frontend.state = "IN_PROGRESS" /\ frontend.op = "READ" /\ helper_read.state = "NONE"
         /\ \E some \in SUBSET (0 .. frontend.count - 1) : Reads(h, some)
<1> DEFINE base == frontend.vba * BLOCK_SIZE
           p == pool[i].index * BLOCK_SIZE
           offset == users[h].offset
           some == {k \in 0 .. frontend.count - 1 : k - p \in Offsets}
<1>1. /\ i \in DOMAIN pool /\ pool[i] \in Request_Type /\ RequestConsistent(pool[i])
      /\ pool[i].index < pool[i].blocks
      /\ pool[i].index \in Nat /\ pool[i].blocks \in Nat /\ pool[i].vba \in Nat
      /\ pool[i].phase = "ready" /\ pool[i].block \in [Offsets -> Byte]
  BY HeadFacts DEF Request_Type, Client_Data_Ready
<1>2. /\ pool[i].op = "READ" /\ OfDataFile(i) /\ frontend.state = "IN_PROGRESS"
      /\ helper_read.state \notin Held /\ helper_write.state \notin Held
  BY <1>1 DEF RequestConsistent, OfDataFile, Data_Ops, IInv, OneHolder
<1>3. Right(h, pool[i])
  BY <1>1, <1>2 DEF DInv, AtLibrary, DataRequests
<1>4. helper_write.state # "IN_PROGRESS"
  BY <1>1, <1>2 DEF IInv, Matching
<1>5. helper_read.state = "NONE" /\ helper_write.state = "NONE"
  BY <1>2, <1>4 DEF Held, IInv, Types, TypeOK, Helper_Type
<1>6. /\ pool[i].op = frontend.op /\ pool[i].blocks = frontend.blocks
      /\ frontend.blocks # 0 /\ pool[i].data = h /\ pool[i].vba = frontend.vba
  BY <1>1, <1>2, <1>3, <1>5 DEF IInv, Matching, Right, InRange
<1>7. /\ frontend.helper_offset = 0 /\ frontend.count = pool[i].blocks * BLOCK_SIZE
      /\ offset = base + frontend.helper_offset
  BY <1>2, <1>6 DEF DInv, UsersRequest
<1>8. /\ base \in Nat /\ p \in Nat /\ BLOCK_SIZE \in Nat /\ frontend.count \in Nat
      /\ (pool[i].vba + pool[i].index) * BLOCK_SIZE = base + p
      /\ (pool[i].index + 1) * BLOCK_SIZE = p + BLOCK_SIZE
      /\ p + BLOCK_SIZE <= frontend.count
  <2>1. /\ base \in Nat /\ p \in Nat /\ pool[i].blocks * BLOCK_SIZE \in Nat
        /\ (frontend.vba + pool[i].index) * BLOCK_SIZE = base + p
        /\ (pool[i].index + 1) * BLOCK_SIZE = p + BLOCK_SIZE
        /\ p + BLOCK_SIZE <= pool[i].blocks * BLOCK_SIZE
    BY <1>1, <1>6, PositionsOfBlock
  <2> QED BY <1>6, <1>7, <2>1, VfsAssumption
<1>9. offset = base
  <2> HIDE DEF base, offset
  <2> QED BY <1>7, <1>8
<1>10. frontend.count <= Max_Count /\ Max_Count \in Nat
  BY VfsAssumption DEF IInv, Types, TypeOK
<1>11. \A k \in Offsets : pool[i].block[k] = bytes[base + p + k]
  <2>1. pool[i].block = Block(pool[i].vba + pool[i].index)
    BY <1>1, <1>2, <1>3 DEF Right, ReadSoFar
  <2>2. \A k \in Offsets : pool[i].block[k] = bytes[(pool[i].vba + pool[i].index) * BLOCK_SIZE + k]
    BY <2>1 DEF Block
  <2> QED BY <1>8, <2>2
<1>12. /\ buffer' = [buffer EXCEPT ![h] =
             [k \in DOMAIN @ |-> IF k - p \in Offsets THEN pool[i].block[k - p] ELSE @[k]]]
       /\ pool' = [pool EXCEPT ![i] = Next_Block(pool[i], TRUE)]
       /\ UNCHANGED <<frontend, helper_read, helper_write, bytes, max_vba, users>>
  BY <1>2, <1>5, <1>6 DEF Client_Data_Ready, Client_Data, device
<1>13. /\ buffer \in [Handles -> [0 .. Max_Count - 1 -> Byte \cup {-1}]] /\ h \in Handles
  BY DEF DInv, Buffers, OneUser
<1>14. /\ buffer' \in [Handles -> [0 .. Max_Count - 1 -> Byte \cup {-1}]]
       /\ \A k \in 0 .. Max_Count - 1 :
            buffer'[h][k] = IF k - p \in Offsets THEN bytes[base + k] ELSE buffer[h][k]
  <2> HIDE DEF base, p
  <2> DEFINE new == [k \in 0 .. Max_Count - 1 |-> IF k - p \in Offsets THEN pool[i].block[k - p]
                                                                       ELSE buffer[h][k]]
  <2>1. new \in [0 .. Max_Count - 1 -> Byte \cup {-1}]
    BY <1>1, <1>13
  <2>2. \A k \in 0 .. Max_Count - 1 : k - p \in Offsets => pool[i].block[k - p] = bytes[base + k]
    <3> SUFFICES ASSUME NEW k \in 0 .. Max_Count - 1, k - p \in Offsets
                 PROVE  pool[i].block[k - p] = bytes[base + k]
      OBVIOUS
    <3>1. base + p + (k - p) = base + k
      BY <1>8, <1>10
    <3> QED BY <1>11, <3>1
  <2>3. buffer' = [buffer EXCEPT ![h] = new]
    BY <1>12, <1>13
  <2>4. \A k \in 0 .. Max_Count - 1 :
          new[k] = IF k - p \in Offsets THEN bytes[base + k] ELSE buffer[h][k]
    BY <2>2
  <2> HIDE DEF new
  <2> QED BY <1>13, <2>1, <2>3, <2>4
<1>15. Reads(h, some)
  <2> HIDE DEF base, p, offset
  <2>1. \A k \in 0 .. frontend.count - 1 : k \in 0 .. Max_Count - 1
    BY <1>8, <1>10
  <2>2. \A k \in some : buffer'[h][k] = bytes[offset + k]
    BY <1>9, <1>14, <2>1
  <2>3. \A k \in 0 .. frontend.count - 1 : k \notin some => buffer'[h][k] = buffer[h][k]
    BY <1>14, <2>1
  <2> HIDE DEF some
  <2> QED BY <2>2, <2>3 DEF Reads, offset
<1>16. \A k \in 0 .. p + BLOCK_SIZE - 1 : buffer'[h][k] = bytes[offset + k]
  <2>1. \A k \in 0 .. p - 1 : buffer[h][k] = bytes[offset + k]
    BY <1>2, <1>3, <1>5 DEF Right, ReadSoFar, Read_Right
  <2> HIDE DEF base, p, offset
  <2>2. ASSUME NEW k \in 0 .. p + BLOCK_SIZE - 1
        PROVE  buffer'[h][k] = bytes[offset + k]
    <3>1. k \in 0 .. Max_Count - 1
      BY <1>8, <1>10
    <3>2. CASE k < p
      <4>1. k - p \notin Offsets /\ k \in 0 .. p - 1
        BY <1>8, <3>2 DEF Offsets
      <4> QED BY <1>14, <2>1, <3>1, <4>1
    <3>3. CASE ~(k < p)
      <4>1. k - p \in Offsets
        BY <1>8, <3>3 DEF Offsets
      <4> QED BY <1>9, <1>14, <3>1, <4>1
    <3> QED BY <3>2, <3>3
  <2> QED BY <2>2
<1>17. PICK s \in Request_Type :
         /\ s = Next_Block(pool[i], TRUE) /\ s.op = pool[i].op /\ s.vba = pool[i].vba
         /\ s.blocks = pool[i].blocks /\ s.data = pool[i].data /\ s.index = pool[i].index + 1
         /\ s.success = TRUE
         /\ s.phase = IF pool[i].index + 1 = pool[i].blocks THEN "complete" ELSE "run"
  BY <1>1, NextBlock
<1>18. DataRequests' = {s}
  BY <1>1, <1>2, <1>12, <1>17, Replaced
<1>19. AtLibrary(h)'
  <2>1. InRange(h, s)'
    BY <1>3, <1>5, <1>6, <1>12, <1>17 DEF Right, InRange
  <2>2. Read_Right(h, s.index * BLOCK_SIZE)'
    <3>1. s.index * BLOCK_SIZE = p + BLOCK_SIZE
      BY <1>8, <1>17
    <3>2. UNCHANGED <<bytes, users>>
      BY <1>12
    <3> DEFINE n == s.index * BLOCK_SIZE
    <3>3. \A k \in 0 .. n - 1 : buffer'[h][k] = bytes'[users'[h].offset + k]
      <4>1. n = p + BLOCK_SIZE /\ p \in Nat /\ BLOCK_SIZE \in Nat
        BY <1>8, <3>1
      <4>2. users'[h].offset = offset /\ bytes' = bytes
        BY <3>2
      <4> HIDE DEF n, p, offset
      <4>3. 0 .. n - 1 = 0 .. p + BLOCK_SIZE - 1
        BY <4>1
      <4>4. \A k \in 0 .. n - 1 : buffer'[h][k] = bytes[offset + k]
        BY <1>16, <4>3
      <4> QED BY <4>2, <4>4
    <3> QED BY <3>3 DEF Read_Right
  <2>3. ReadSoFar(h, s)' /\ WrittenSoFar(h, s)'
    BY <1>2, <1>5, <1>12, <1>17, <2>2 DEF ReadSoFar, WrittenSoFar
  <2> QED BY <1>18, <2>1, <2>3 DEF AtLibrary, Right
<1>20. UsersRequest(h)' /\ ReadsBlock' /\ WritesBlock' /\ CarriedOut(h)' /\ Buffers(h)'
  BY <1>2, <1>5, <1>12, <1>14 DEF DInv, UsersRequest, ReadsBlock, WritesBlock, CarriedOut, Buffers
<1>21. \E t \in SUBSET (0 .. frontend.count - 1) : Reads(h, t)
  <2>1. some \in SUBSET (0 .. frontend.count - 1)
    OBVIOUS
  <2> HIDE DEF some
  <2> QED BY <1>15, <2>1
<1> QED BY <1>2, <1>5, <1>6, <1>12, <1>19, <1>20, <1>21 DEF DInv

(* A block of the user's, or of the helper request. *)
LEMMA RequiredD ==
  ASSUME NEW h, OneUser(h), IInv, DInv(h), Client_Data,
         NEW i \in Incomplete, IsHead(i), Client_Data_Required(i)
  PROVE  DInv(h)' /\ UNCHANGED <<buffer, helper_read>>
<1>1. /\ i \in DOMAIN pool /\ pool[i] \in Request_Type /\ RequestConsistent(pool[i])
      /\ pool[i].phase = "required"
  BY HeadFacts DEF Client_Data_Required
<1>2. pool[i].op = "WRITE" /\ OfDataFile(i) /\ frontend.state = "IN_PROGRESS"
  BY <1>1 DEF RequestConsistent, OfDataFile, Data_Ops, IInv, OneHolder
<1>3. Right(h, pool[i])
  BY <1>1, <1>2 DEF DInv, AtLibrary, DataRequests
<1>4. PICK block \in [Offsets -> Byte] :
        /\ pool' = [pool EXCEPT ![i].block = block, ![i].phase = "encrypt"]
        /\ \A k \in Offsets :
             block[k] = IF helper_write.state = "IN_PROGRESS" THEN helper_write.block[k]
                        ELSE Payload[pool[i].index * BLOCK_SIZE + k]
  <2>1. CASE helper_write.state = "IN_PROGRESS"
    <3>1. helper_write.block \in [Offsets -> Byte]
      BY DEF IInv, Types, TypeOK, Helper_Type
    <3> QED BY <2>1, <3>1 DEF Client_Data_Required
  <2>2. CASE helper_write.state # "IN_PROGRESS"
    <3> DEFINE block == [k \in Offsets |-> Payload[pool[i].index * BLOCK_SIZE + k]]
    <3>1. block \in [Offsets -> Byte]
      BY <1>2, <2>2, SuppliedBlock
    <3>2. pool' = [pool EXCEPT ![i].block = block, ![i].phase = "encrypt"]
      BY <1>2, <2>2 DEF Client_Data_Required
    <3>3. \A k \in Offsets : block[k] = Payload[pool[i].index * BLOCK_SIZE + k]
      OBVIOUS
    <3> HIDE DEF block
    <3> QED BY <2>2, <3>1, <3>2, <3>3
  <2> QED BY <2>1, <2>2
<1>5. PICK s \in Request_Type :
        /\ s = [pool[i] EXCEPT !.block = block, !.phase = "encrypt"]
        /\ s.op = pool[i].op /\ s.vba = pool[i].vba /\ s.blocks = pool[i].blocks
        /\ s.data = pool[i].data /\ s.index = pool[i].index /\ s.success = pool[i].success
        /\ s.phase = "encrypt" /\ s.block = block
  <2> DEFINE s == [pool[i] EXCEPT !.block = block, !.phase = "encrypt"]
  <2>1. /\ s \in Request_Type
        /\ s.op = pool[i].op /\ s.vba = pool[i].vba /\ s.blocks = pool[i].blocks
        /\ s.data = pool[i].data /\ s.index = pool[i].index /\ s.success = pool[i].success
        /\ s.phase = "encrypt" /\ s.block = block
    BY <1>1 DEF Request_Type
  <2> QED BY <2>1
<1>6. pool' = [pool EXCEPT ![i] = s]
  BY <1>1, <1>4, <1>5, PoolFacts DEF IInv
<1>7. DataRequests' = {s}
  BY <1>1, <1>2, <1>5, <1>6, Replaced
<1>8. Right(h, s)
  <2>1. InRange(h, s)
    BY <1>3, <1>5 DEF Right, InRange
  <2>2. ReadSoFar(h, s) /\ WrittenSoFar(h, s)
    BY <1>2, <1>3, <1>4, <1>5 DEF Right, ReadSoFar, WrittenSoFar
  <2> QED BY <2>1, <2>2 DEF Right
<1>9. /\ UNCHANGED <<frontend, helper_read, helper_write, bytes, buffer, max_vba>>
      /\ SameRequest(h)
  BY DEF Client_Data_Required, Client_Data, device, SameRequest
<1>10. max_vba' \in Nat /\ max_vba' >= max_vba
  BY <1>9, VfsAssumption DEF IInv, Types, TypeOK
<1> QED BY <1>7, <1>8, <1>9, <1>10, KeptPool

(* A block of a request, or none. *)
LEMMA ClientDataD ==
  ASSUME NEW h, OneUser(h), IInv, DInv(h), Client_Data
  PROVE  DInv(h)'
<1>1. ASSUME NEW i \in Incomplete, IsHead(i), Client_Data_Ready(i) \/ Client_Data_Required(i)
      PROVE  DInv(h)'
  BY <1>1, ReadyForHelperD, ReadyForUserD, RequiredD
<1>2. CASE UNCHANGED <<pool, helper_read, buffer, thrown, progress>>
  <2>1. DataRequests' = DataRequests /\ SameRequest(h)
    BY <1>2 DEF Client_Data, DataRequests, OfDataFile, SameRequest
  <2>2. /\ max_vba' \in Nat /\ max_vba' >= max_vba
        /\ UNCHANGED <<frontend, helper_read, helper_write, bytes, buffer>>
    BY <1>2, VfsAssumption DEF Client_Data, device, IInv, Types, TypeOK
  <2> QED BY <2>1, <2>2, KeptPool
<1> QED BY <1>1, <1>2 DEF Client_Data

(* The device and the crypto functions. *)
LEMMA BackendD ==
  ASSUME NEW h, OneUser(h), IInv, DInv(h), Backend_And_Crypto
  PROVE  DInv(h)'
<1>1. /\ UNCHANGED <<frontend, helper_read, helper_write, bytes, buffer, max_vba>>
      /\ SameRequest(h)
  BY DEF Backend_And_Crypto, wrapper, SameRequest
<1>2. CASE UNCHANGED pool
  <2>1. DataRequests' = DataRequests
    BY <1>2 DEF DataRequests, OfDataFile
  <2>2. max_vba' \in Nat /\ max_vba' >= max_vba
    BY <1>1, VfsAssumption DEF IInv, Types, TypeOK
  <2> QED BY <1>1, <2>1, <2>2, KeptPool
<1>3. CASE IO_Done /\ io # "none"
  <2>1. PICK i \in Incomplete :
          /\ IsHead(i)
          /\ pool' = [pool EXCEPT ![i].phase = IF @ = "io" THEN "io_done" ELSE "write_io_done"]
    BY <1>3 DEF IO_Done
  <2>2. pool[i].phase \in {"io", "write_io"} /\ i \in DOMAIN pool
    BY <1>3, <2>1, HeadWaitsForIO DEF IInv, Incomplete
  <2>3. CASE pool[i].phase = "io"
    BY <1>1, <2>1, <2>2, <2>3, HeadPhase DEF Phases
  <2>4. CASE pool[i].phase = "write_io"
    BY <1>1, <2>1, <2>2, <2>4, HeadPhase DEF Phases
  <2> QED BY <2>2, <2>3, <2>4
<1>4. CASE Handle_Crypto
  <2>1. PICK i \in Incomplete :
          /\ pool[i].phase \in {"decrypt", "encrypt"}
          /\ pool' = [pool EXCEPT ![i].phase = IF @ = "decrypt" THEN "ready" ELSE "encrypted"]
    BY <1>4 DEF Handle_Crypto
  <2>2. i \in DOMAIN pool
    BY DEF Incomplete
  <2>3. CASE pool[i].phase = "decrypt"
    BY <1>1, <2>1, <2>2, <2>3, HeadPhase DEF Phases
  <2>4. CASE pool[i].phase = "encrypt"
    BY <1>1, <2>1, <2>2, <2>4, HeadPhase DEF Phases
  <2> QED BY <2>1, <2>3, <2>4
<1> QED BY <1>2, <1>3, <1>4 DEF Backend_And_Crypto, Handle_Cbe_Backend

-----------------------------------------------------------------------------
(***************************************************************************)
(* The user asks, and is answered.                                         *)
(***************************************************************************)
(* The answer ends the request.                                            *)
LEMMA AnsweredD ==
  ASSUME NEW h, OneUser(h), IInv, DInv(h), Return, Answered(h)
  PROVE  DInv(h)' /\ users'[h].state = "idle"
<1>1. /\ frontend.state \in {"COMPLETE", "ERROR_EOF"}
      /\ UNCHANGED <<pool, device, helper_read, helper_write>>
      /\ frontend' = No_Request /\ buffer' = [buffer EXCEPT ![h] = Unread]
      /\ users' = [users EXCEPT ![h] =
           [No_User EXCEPT !.out = IF frontend.state = "COMPLETE" THEN frontend.count ELSE 0]]
  BY DEF Answered, Return, Ack_Frontend_Request
<1>2. h \in Handles /\ users \in [Handles -> User_Type]
  BY DEF OneUser, IInv, Types
<1>3. users'[h].state = "idle"
  BY <1>1, <1>2 DEF No_User
<1>4. /\ helper_read.state = "NONE" /\ helper_write.state = "NONE" /\ DataRequests = {}
  BY <1>1 DEF IInv, OneHolder, DataRequests
<1>5. frontend'.state = "NONE"
  BY <1>1 DEF No_Request
<1>6. AtLibrary(h)'
  BY <1>1, <1>4 DEF AtLibrary, DataRequests, OfDataFile
<1>7. Buffers(h)'
  <2>1. buffer'[h] = Unread /\ Unread \in [0 .. Max_Count - 1 -> Byte \cup {-1}]
    BY <1>1, <1>2 DEF DInv, Buffers, Unread
  <2> QED BY <1>1, <2>1 DEF DInv, Buffers
<1>8. UsersRequest(h)' /\ ReadsBlock' /\ WritesBlock' /\ CarriedOut(h)'
  BY <1>1, <1>3, <1>4, <1>5 DEF UsersRequest, ReadsBlock, WritesBlock, CarriedOut
<1> QED BY <1>3, <1>6, <1>7, <1>8 DEF DInv

(* It is queued, or there is none. *)
LEMMA ReturnD ==
  ASSUME NEW h, OneUser(h), IInv, DInv(h), Return, ~Answered(h)
  PROVE  /\ DInv(h)' /\ SameRequest(h)
         /\ UNCHANGED <<frontend, helper_read, helper_write, device, buffer>>
<1>1. UNCHANGED <<pool, device, helper_read, helper_write>>
  BY DEF Return
<1>2. h \in Handles /\ users \in [Handles -> User_Type] /\ \A u \in Handles : u = h
  BY DEF OneUser, IInv, Types
<1>3. UNCHANGED <<frontend, buffer>> /\ SameRequest(h)
  <2>1. CASE Queued(h)
    <3>1. frontend.state # "NONE" /\ UNCHANGED <<frontend, buffer>>
      BY <2>1 DEF Queued
    <3>2. users'[h] = [users[h] EXCEPT !.state = "queued", !.woken = io_pending]
      BY <1>2, <2>1 DEF Queued
    <3>3. DOMAIN users[h] = DOMAIN No_User
      BY <1>2 DEF User_Type, No_User
    <3>4. /\ users'[h].state = "queued" /\ users'[h].op = users[h].op
          /\ users'[h].offset = users[h].offset /\ users'[h].count = users[h].count
      BY <3>2, <3>3 DEF No_User
    <3>5. users[h].state # "idle"
      BY <3>1 DEF DInv, UsersRequest
    <3> QED BY <3>1, <3>4, <3>5 DEF SameRequest
  <2>2. CASE UNCHANGED <<frontend, enqueued, users, buffer>>
    BY <2>2 DEF SameRequest
  <2> QED BY <1>2, <2>1, <2>2 DEF Return
<1>4. DataRequests' = DataRequests
  BY <1>1 DEF DataRequests, OfDataFile
<1>5. max_vba' \in Nat /\ max_vba' >= max_vba /\ UNCHANGED bytes
  BY <1>1, VfsAssumption DEF device, IInv, Types, TypeOK
<1> QED BY <1>1, <1>3, <1>4, <1>5, KeptPool

(* A number is its quotient times the divisor, and the rest.               *)
LEMMA QuotientAndRest ==
  ASSUME NEW a \in Nat, NEW b \in Nat \ {0}
  PROVE  a = (a \div b) * b + (a % b) /\ a - (a % b) = (a \div b) * b
OBVIOUS

(* What a request of the user becomes, by whether it is for whole blocks.  *)
LEMMA SubmittedRequestD ==
  ASSUME NEW h, OneUser(h), IInv, NEW op \in Data_Ops, NEW offset \in Nat,
         NEW count \in 0 .. Max_Count, Submit_Frontend_Request(h, op, offset, count),
         offset < Size \/ ~Unaligned(offset, count)
  PROVE  /\ frontend'.data = h /\ frontend'.op = op /\ frontend'.count <= count
         /\ \/ /\ op = "SYNC" /\ UNCHANGED helper_read
               /\ frontend'.state = "PENDING" /\ frontend'.count = 0 /\ frontend'.blocks = 1
            \/ /\ op # "SYNC" /\ frontend'.state = "IN_PROGRESS" /\ helper_read'.state = "PENDING"
               /\ helper_read'.vba = frontend'.vba /\ frontend'.vba <= max_vba
               /\ frontend'.blocks = 0 /\ frontend'.helper_offset + frontend'.count <= BLOCK_SIZE
               /\ offset = frontend'.vba * BLOCK_SIZE + frontend'.helper_offset
            \/ /\ op # "SYNC" /\ frontend'.state = "PENDING" /\ UNCHANGED helper_read
               /\ frontend'.blocks # 0 /\ frontend'.helper_offset = 0
               /\ frontend'.count = frontend'.blocks * BLOCK_SIZE
               /\ offset = frontend'.vba * BLOCK_SIZE + frontend'.helper_offset
<1> DEFINE vba == offset \div BLOCK_SIZE
           skip == offset % BLOCK_SIZE
           blocks == count \div BLOCK_SIZE
           part == Minimum(count, BLOCK_SIZE - skip)
           whole == count - (count % BLOCK_SIZE)
           Request_Of(state, b, v, n, o) ==
             [state |-> state, op |-> op, vba |-> v, blocks |-> b, count |-> n,
              helper_offset |-> o, data |-> h]
<1>1. /\ BLOCK_SIZE \in Nat \ {0} /\ Max_Count \in Nat /\ count \in Nat /\ count <= Max_Count
      /\ max_vba \in Nat
  BY VfsAssumption DEF IInv, Types, TypeOK
<1>2. vba \in Nat /\ skip \in 0 .. BLOCK_SIZE - 1 /\ offset = vba * BLOCK_SIZE + skip
  BY <1>1, DivMod, QuotientAndRest
<1>3. /\ whole = blocks * BLOCK_SIZE /\ whole <= count
      /\ count >= BLOCK_SIZE => blocks # 0
  <2>1. whole = blocks * BLOCK_SIZE
    BY <1>1, QuotientAndRest
  <2>2. whole \in 0 .. count /\ (count >= BLOCK_SIZE => blocks > 0) /\ blocks \in Nat
    BY <1>1, DivMod
  <2> HIDE DEF whole, blocks
  <2> QED BY <1>1, <2>1, <2>2
<1>4. part <= count /\ skip + part <= BLOCK_SIZE
  <2> HIDE DEF skip
  <2> QED BY <1>1, <1>2 DEF Minimum
<1>5. \/ /\ op = "SYNC" /\ UNCHANGED helper_read
         /\ frontend' = Request_Of("PENDING", 1, 0, 0, 0)
      \/ /\ op # "SYNC" /\ helper_read' = [state |-> "PENDING", vba |-> vba, block |-> Zeros]
         /\ frontend' = Request_Of("IN_PROGRESS", 0, vba, part, skip) /\ Unaligned(offset, count)
      \/ /\ op # "SYNC" /\ ~Unaligned(offset, count) /\ UNCHANGED helper_read
         /\ frontend' = Request_Of("PENDING", blocks, vba, whole, 0)
  BY DEF Submit_Frontend_Request, No_Request, Helper_Offset
<1>6. ~Unaligned(offset, count) => count >= BLOCK_SIZE /\ skip = 0
  BY <1>1 DEF Unaligned
<1>7. offset < Size => vba <= max_vba
  <2> SUFFICES ASSUME offset < Size, ~(vba <= max_vba) PROVE FALSE
    OBVIOUS
  <2> DEFINE p == vba * BLOCK_SIZE  q == max_vba * BLOCK_SIZE  s == (max_vba + 1) * BLOCK_SIZE
  <2>1. max_vba < vba
    <3> HIDE DEF vba
    <3> QED BY <1>1, <1>2
  <2>2. p \in Nat /\ q \in Nat /\ s = q + BLOCK_SIZE /\ q + BLOCK_SIZE <= p
    <3> HIDE DEF vba
    <3> QED BY <1>1, <1>2, <2>1, PositionsOfBlock
  <2>3. offset = p + skip /\ offset < s
    BY <1>2 DEF Size
  <2> HIDE DEF p, q, s, vba, skip
  <2> QED BY <1>1, <1>2, <2>2, <2>3
<1> HIDE DEF vba, skip, blocks, part, whole
<1>8. CASE /\ op = "SYNC" /\ UNCHANGED helper_read
           /\ frontend' = Request_Of("PENDING", 1, 0, 0, 0)
  BY <1>1, <1>8
<1>9. CASE /\ op # "SYNC" /\ helper_read' = [state |-> "PENDING", vba |-> vba, block |-> Zeros]
           /\ frontend' = Request_Of("IN_PROGRESS", 0, vba, part, skip) /\ Unaligned(offset, count)
  BY <1>2, <1>4, <1>7, <1>9
<1>10. CASE /\ op # "SYNC" /\ ~Unaligned(offset, count) /\ UNCHANGED helper_read
            /\ frontend' = Request_Of("PENDING", blocks, vba, whole, 0)
  <2>1. vba * BLOCK_SIZE + 0 = vba * BLOCK_SIZE + skip
    BY <1>6, <1>10
  <2> QED BY <1>1, <1>2, <1>3, <1>6, <1>10, <2>1
<1> QED BY <1>5, <1>8, <1>9, <1>10

(* The user asks.  The library has no request of the data file, so that it *)
(* takes one, and the plugin makes one, or one for the block that it needs. *)
LEMMA AskD ==
  ASSUME NEW h, OneUser(h), IInv, DInv(h), NEW op \in Data_Ops, NEW offset \in Nat,
         NEW count \in 0 .. Max_Count, Ask(h, op, offset, count)
  PROVE  /\ DInv(h)'
         /\ users[h].state = "idle" /\ users'[h].state # "idle" /\ users'[h].op = op
         /\ users'[h].offset = offset /\ users'[h].count = count
         /\ frontend'.state = "PENDING" \/ helper_read'.state = "PENDING"
         /\ UNCHANGED <<bytes, max_vba>>
<1>1. /\ users[h].state = "idle" /\ Call(h, op, offset, count)
      /\ offset < Size \/ ~Unaligned(offset, count)
      /\ h \in Handles /\ users \in [Handles -> User_Type]
  BY DEF Ask, OneUser, IInv, Types
<1>2. UNCHANGED <<helper_write, pool, bytes, max_vba, buffer>>
  BY <1>1 DEF Call, device
<1>3. frontend.state = "NONE"
  BY <1>1 DEF DInv, UsersRequest
<1>4. /\ helper_read.state = "NONE" /\ helper_write.state = "NONE" /\ DataRequests = {}
      /\ \A i \in DOMAIN pool : ~OfDataFile(i)
  BY <1>3 DEF IInv, OneHolder, DataRequests
<1>5. Client_Request_Acceptable
  BY <1>4, FewRequests DEF OneUser
<1>6. /\ Submit_Frontend_Request(h, op, offset, count)
      /\ users' = [users EXCEPT ![h] = [state |-> "calling", op |-> op, offset |-> offset,
                                        count |-> count, out |-> 0, woken |-> FALSE]]
  BY <1>1, <1>3, <1>5 DEF Call
<1>7. /\ users'[h].state # "idle" /\ users'[h].op = op
      /\ users'[h].offset = offset /\ users'[h].count = count
  BY <1>1, <1>6
<1>8. /\ frontend'.data = h /\ frontend'.op = op /\ frontend'.count <= count
      /\ \/ /\ op = "SYNC" /\ UNCHANGED helper_read
            /\ frontend'.state = "PENDING" /\ frontend'.count = 0 /\ frontend'.blocks = 1
         \/ /\ op # "SYNC" /\ frontend'.state = "IN_PROGRESS" /\ helper_read'.state = "PENDING"
            /\ helper_read'.vba = frontend'.vba /\ frontend'.vba <= max_vba
            /\ frontend'.blocks = 0 /\ frontend'.helper_offset + frontend'.count <= BLOCK_SIZE
            /\ offset = frontend'.vba * BLOCK_SIZE + frontend'.helper_offset
         \/ /\ op # "SYNC" /\ frontend'.state = "PENDING" /\ UNCHANGED helper_read
            /\ frontend'.blocks # 0 /\ frontend'.helper_offset = 0
            /\ frontend'.count = frontend'.blocks * BLOCK_SIZE
            /\ offset = frontend'.vba * BLOCK_SIZE + frontend'.helper_offset
  BY <1>1, <1>6, SubmittedRequestD
<1>9. UsersRequest(h)'
  BY <1>7, <1>8 DEF UsersRequest
<1>10. ReadsBlock'
  BY <1>2, <1>4, <1>8 DEF ReadsBlock
<1>11. WritesBlock' /\ AtLibrary(h)'
  BY <1>2, <1>4 DEF WritesBlock, AtLibrary, DataRequests, OfDataFile
<1>12. CarriedOut(h)' /\ Buffers(h)'
  BY <1>2, <1>3, <1>8 DEF CarriedOut, DInv, Buffers
<1> QED BY <1>1, <1>2, <1>7, <1>8, <1>9, <1>10, <1>11, <1>12 DEF DInv

(* It asks again: the plugin has its request already. *)
LEMMA RetryD ==
  ASSUME NEW h, OneUser(h), IInv, DInv(h), Retry(h)
  PROVE  /\ DInv(h)' /\ SameRequest(h)
         /\ UNCHANGED <<frontend, helper_read, device, buffer>>
<1>1. /\ users[h].state = "queued" /\ Call(h, users[h].op, users[h].offset, users[h].count)
      /\ h \in Handles /\ users \in [Handles -> User_Type]
  BY DEF Retry, OneUser, IInv, Types
<1>2. UNCHANGED <<helper_write, pool, device, buffer>>
  BY <1>1 DEF Call
<1>3. frontend.state # "NONE"
  BY <1>1 DEF DInv, UsersRequest
<1>4. UNCHANGED <<frontend, helper_read>>
  BY <1>1, <1>3 DEF Call
<1>5. SameRequest(h)
  <2>1. users' = [users EXCEPT ![h] = [state |-> "calling", op |-> users[h].op,
                    offset |-> users[h].offset, count |-> users[h].count, out |-> 0,
                    woken |-> FALSE]]
    BY <1>1, <1>3 DEF Call
  <2> QED BY <1>1, <2>1 DEF SameRequest
<1>6. DataRequests' = DataRequests
  BY <1>2 DEF DataRequests, OfDataFile
<1>7. max_vba' \in Nat /\ max_vba' >= max_vba /\ UNCHANGED bytes
  BY <1>2, VfsAssumption DEF device, IInv, Types, TypeOK
<1> QED BY <1>2, <1>4, <1>5, <1>6, <1>7, KeptPool

-----------------------------------------------------------------------------
(***************************************************************************)
(* The control files, and the signals of the device.                       *)
(***************************************************************************)
(* No request of the data file is added. *)
LEMMA ControlD ==
  ASSUME NEW h, OneUser(h), IInv, DInv(h), Control_Files
  PROVE  /\ DInv(h)' /\ SameRequest(h)
         /\ UNCHANGED <<frontend, helper_read, device, buffer>>
<1>1. PICK op \in In_Background : Start(op)
  BY DEF Control_Files, Start_Rekeying, Start_Extending, Create_Or_Discard_Snapshot, In_Background
<1>2. /\ Append_To_Pool(Library_Request(op, 0, Steps(op), Nobody))
      /\ UNCHANGED <<frontend, helper_read, helper_write, device, users, buffer>>
  BY <1>1 DEF Start
<1>3. PICK r \in Request_Type : r.op = op /\ Append_To_Pool(r)
  BY <1>2, BackgroundRequest
<1>4. /\ DOMAIN pool' = DOMAIN pool \cup {Len(pool) + 1} /\ pool'[Len(pool) + 1] = r
      /\ \A k \in DOMAIN pool : pool'[k] = pool[k]
  BY <1>3, PoolFacts DEF Append_To_Pool, IInv
<1>5. \A k \in DOMAIN pool' : OfDataFile(k)' <=> k \in DOMAIN pool /\ OfDataFile(k)
  BY <1>3, <1>4, PoolFacts DEF OfDataFile, In_Background, Data_Ops, IInv
<1>6. DataRequests' = DataRequests
  BY <1>4, <1>5 DEF DataRequests
<1>7. max_vba' \in Nat /\ max_vba' >= max_vba /\ UNCHANGED bytes /\ SameRequest(h)
  BY <1>2, VfsAssumption DEF device, IInv, Types, TypeOK, SameRequest
<1> QED BY <1>2, <1>6, <1>7, KeptPool

(* The device answers, its signal is handled, or nothing happens. *)
LEMMA SignalD ==
  ASSUME NEW h, OneUser(h), IInv, DInv(h), Device_Answers \/ Handle_IO \/ UNCHANGED vars
  PROVE  /\ DInv(h)' /\ SameRequest(h)
         /\ UNCHANGED <<frontend, helper_read, bytes, max_vba, buffer>>
<1>1. UNCHANGED <<frontend, helper_read, helper_write, pool, bytes, max_vba, buffer>>
  BY DEF Device_Answers, Handle_IO, vars, wrapper, device
<1>2. SameRequest(h)
  <2>1. CASE UNCHANGED users
    BY <2>1 DEF SameRequest
  <2>2. CASE enqueued # Nobody /\ users' = [users EXCEPT ![enqueued].woken = TRUE]
    <3>1. /\ h \in Handles /\ enqueued = h /\ users \in [Handles -> User_Type]
          /\ DOMAIN users[h] = DOMAIN No_User
      BY <2>2 DEF OneUser, IInv, Types, TypeOK, User_Type, No_User
    <3>2. users'[h] = [users[h] EXCEPT !.woken = TRUE]
      BY <2>2, <3>1
    <3> QED BY <3>1, <3>2 DEF SameRequest, No_User
  <2> QED BY <2>1, <2>2 DEF Device_Answers, Handle_IO, vars
<1>3. DataRequests' = DataRequests
  BY <1>1 DEF DataRequests, OfDataFile
<1>4. max_vba' \in Nat /\ max_vba' >= max_vba
  BY <1>1, VfsAssumption DEF IInv, Types, TypeOK
<1> QED BY <1>1, <1>2, <1>3, <1>4, KeptPool

-----------------------------------------------------------------------------
(***************************************************************************)
(* What is known of the bytes holds at the start, and in each step.        *)
(***************************************************************************)
LEMMA DInvInit ==
  ASSUME NEW h, OneUser(h), Init
  PROVE  DInv(h)
<1>1. /\ frontend.state = "NONE" /\ helper_read.state = "NONE" /\ helper_write.state = "NONE"
      /\ users[h].state = "idle"
  BY DEF Init, No_Request, No_Helper, No_User, OneUser
<1>2. DataRequests = {}
  BY DEF Init, DataRequests, OfDataFile, Library_Request, Data_Ops
<1>3. Buffers(h)
  <2>1. Unread \in [0 .. Max_Count - 1 -> Byte \cup {-1}]
    BY DEF Unread
  <2> QED BY <2>1 DEF Init, Buffers, OneUser
<1> QED BY <1>1, <1>2, <1>3
        DEF DInv, UsersRequest, ReadsBlock, WritesBlock, AtLibrary, CarriedOut

(* The steps of handle_frontend_request. *)
LEMMA HandlingD ==
  ASSUME NEW h, OneUser(h), IInv, DInv(h), Handling
  PROVE  DInv(h)'
<1>1. CASE Submit_Requests
  <2>1. CASE UNCHANGED <<pool, frontend, helper_read, helper_write>>
    <3>1. DataRequests' = DataRequests /\ SameRequest(h)
      BY <1>1, <2>1 DEF DataRequests, OfDataFile, Submit_Requests, SameRequest
    <3>2. UNCHANGED <<bytes, buffer>> /\ max_vba' \in Nat /\ max_vba' >= max_vba
      BY <1>1, VfsAssumption DEF Submit_Requests, device, IInv, Types, TypeOK
    <3> QED BY <2>1, <3>1, <3>2, KeptPool
  <2> QED BY <1>1, <2>1, SubmitHelperReadD, SubmitHelperWriteD, SubmitFrontendD DEF Submit_Requests
<1>2. CASE Return
  BY <1>2, ReturnD, AnsweredD
<1> QED BY <1>1, <1>2, RejectD, ExecuteD, DropD, HelpersD, ClientDataD, BackendD DEF Handling

LEMMA DInvStep ==
  ASSUME NEW h, OneUser(h), IInv, DInv(h), [Next]_vars
  PROVE  DInv(h)'
<1>1. ASSUME NEW r \in Requests, Ask(h, r[1], r[2], r[3]) PROVE DInv(h)'
  <2>1. r[1] \in Data_Ops /\ r[2] \in Nat /\ r[3] \in 0 .. Max_Count
    BY VfsAssumption DEF Data_Ops
  <2> QED BY <1>1, <2>1, AskD
<1>2. ASSUME NEW u \in Handles, Data_File(u) PROVE DInv(h)'
  <2>1. u = h
    BY DEF OneUser
  <2> QED BY <1>1, <1>2, <2>1, RetryD DEF Data_File
<1> QED BY <1>2, HandlingD, ControlD, SignalD DEF Next

-----------------------------------------------------------------------------
(***************************************************************************)
(* The steps, as seen by the user of the file of bytes.                    *)
(***************************************************************************)
(* What the user sees of its request. *)
Seen(h) ==
  IF users[h].state = "idle" THEN File!No_User
  ELSE [op |-> users[h].op, offset |-> users[h].offset, count |-> users[h].count,
        state |-> IF Accepted(h) THEN "accepted" ELSE "asked",
        data  |-> IF Accepted(h) THEN [k \in 0 .. Out(h) - 1 |-> buffer[h][k]] ELSE <<>>]

LEMMA OneSeen ==
  ASSUME NEW h, OneUser(h)
  PROVE  ByteFile_Users = [u \in {h} |-> Seen(h)] /\ ByteFile_Users' = [u \in {h} |-> Seen(h)']
BY DEF OneUser, ByteFile_Users, Seen, File!No_User

(* The size of the file is within the bound, and grows with the device. *)
LEMMA Sizes ==
  ASSUME IInv, NEW v \in Nat, v <= max_vba + 1
  PROVE  /\ v * BLOCK_SIZE \in Nat /\ v * BLOCK_SIZE <= Size /\ Size \in Nat
         /\ Size <= (Max_Vba + 1) * BLOCK_SIZE /\ (Max_Vba + 1) * BLOCK_SIZE \in Nat
<1>1. /\ max_vba \in 0 .. Max_Vba /\ Max_Vba \in Nat /\ BLOCK_SIZE \in Nat \ {0}
  BY VfsAssumption DEF IInv, Types, TypeOK
<1>2. ASSUME NEW a \in Nat, NEW b \in Nat, a <= b
      PROVE  a * BLOCK_SIZE \in Nat /\ b * BLOCK_SIZE \in Nat /\ a * BLOCK_SIZE <= b * BLOCK_SIZE
  <2>1. CASE a = b
    BY <1>1, <2>1, Product
  <2>2. CASE a < b
    <3> DEFINE p == a * BLOCK_SIZE  q == b * BLOCK_SIZE
    <3>1. p \in Nat /\ q \in Nat /\ p + BLOCK_SIZE <= q
      BY <2>2, PositionsOfBlock
    <3> HIDE DEF p, q
    <3>2. p <= q
      BY <1>1, <3>1
    <3> QED BY <3>1, <3>2 DEF p, q
  <2> QED BY <1>2, <2>1, <2>2
<1>3. max_vba + 1 \in Nat /\ Max_Vba + 1 \in Nat /\ max_vba + 1 <= Max_Vba + 1
  BY <1>1
<1> QED BY <1>2, <1>3 DEF Size

(* It sees nothing of a step that leaves its request as accepted as it is, *)
(* and the bytes it has got.                                               *)
LEMMA SeenSame ==
  ASSUME NEW h, OneUser(h), SameRequest(h), Accepted(h)' <=> Accepted(h),
         Accepted(h) => /\ Out(h)' = Out(h)
                        /\ \A k \in 0 .. Out(h) - 1 : buffer'[h][k] = buffer[h][k]
  PROVE  ByteFile_Users' = ByteFile_Users
<1>1. Accepted(h) => [k \in 0 .. Out(h)' - 1 |-> buffer'[h][k]] = [k \in 0 .. Out(h) - 1 |-> buffer[h][k]]
  OBVIOUS
<1>2. Seen(h)' = Seen(h)
  BY <1>1 DEF Seen, SameRequest, File!No_User
<1> QED BY <1>2, OneSeen

(* So it is when the plugin does nothing about the request. *)
LEMMA SeenKept ==
  ASSUME NEW h, OneUser(h), SameRequest(h), UNCHANGED <<frontend, buffer>>,
         helper_read'.state = "PENDING" <=> helper_read.state = "PENDING"
  PROVE  ByteFile_Users' = ByteFile_Users
<1>1. (Accepted(h)' <=> Accepted(h)) /\ Out(h)' = Out(h)
  BY DEF Accepted, SameRequest, Out
<1> QED BY <1>1, SeenSame

(* Nothing happens to the file of bytes. *)
LEMMA Stutters ==
  ASSUME UNCHANGED <<bytes, max_vba, ByteFile_Users>>
  PROVE  [File!Next]_File!vars
BY DEF File!vars, Size

(* The request is accepted.                                                *)
LEMMA Accepts ==
  ASSUME NEW h, OneUser(h), IInv, SameRequest(h), ~Accepted(h), Accepted(h)',
         buffer[h] = Unread, UNCHANGED <<bytes, max_vba, buffer>>, Out(h)' \in Nat,
         Out(h)' = 0 \/ users[h].offset + Out(h)' <= Size, Out(h)' <= users[h].count
  PROVE  [File!Next]_File!vars
<1> DEFINE out == Out(h)'
<1>1. /\ users[h].offset \in Nat /\ users[h].count \in 0 .. Max_Count /\ Max_Count \in Nat
      /\ h \in Handles
  BY VfsAssumption DEF OneUser, IInv, Types, User_Type
<1>2. /\ Size \in Nat /\ Size <= (Max_Vba + 1) * BLOCK_SIZE
      /\ (Max_Vba + 1) * BLOCK_SIZE \in Nat /\ Size' = Size
  BY Sizes, VfsAssumption DEF IInv, Types, TypeOK, Size
<1>3. out \in 0 .. (Max_Vba + 1) * BLOCK_SIZE /\ out \in 0 .. users[h].count
  <2> DEFINE m == (Max_Vba + 1) * BLOCK_SIZE
  <2> HIDE DEF m, out
  <2>1. out \in Nat /\ (out = 0 \/ users[h].offset + out <= Size) /\ out <= users[h].count
    BY DEF out
  <2>2. Size <= m /\ m \in Nat /\ Size \in Nat
    BY <1>2 DEF m
  <2>3. out \in 0 .. m /\ out \in 0 .. users[h].count
    BY <1>1, <2>1, <2>2
  <2> QED BY <2>3 DEF m
<1>4. users[h].state # "idle" /\ users'[h].state # "idle"
  BY DEF Accepted, SameRequest
<1>5. [k \in 0 .. out - 1 |-> buffer'[h][k]] = [k \in 0 .. out - 1 |-> -1]
  <2>1. \A k \in 0 .. out - 1 : k \in 0 .. Max_Count - 1
    BY <1>1, <1>3
  <2> QED BY <2>1 DEF Unread
<1> DEFINE a == [op |-> users[h].op, offset |-> users[h].offset, count |-> users[h].count,
                 state |-> "asked", data |-> <<>>]
           b == [op |-> users[h].op, offset |-> users[h].offset, count |-> users[h].count,
                 state |-> "accepted", data |-> [k \in 0 .. out - 1 |-> -1]]
<1>6. Seen(h) = a
  BY <1>4 DEF Seen
<1>7. Seen(h)' = b
  BY <1>4, <1>5 DEF Seen, SameRequest
<1>8. ByteFile_Users = [u \in {h} |-> a] /\ ByteFile_Users' = [u \in {h} |-> b]
  BY <1>6, <1>7, OneSeen
<1>9. ByteFile_Users' = [ByteFile_Users EXCEPT ![h].state = "accepted",
                                               ![h].data = [k \in 0 .. out - 1 |-> -1]]
  BY <1>8
<1>10. ByteFile_Users[h].state = "asked" /\ ByteFile_Users[h].count = users[h].count
      /\ ByteFile_Users[h].offset = users[h].offset
  BY <1>8
<1>11. File!Accept(h, out)
  BY <1>2, <1>3, <1>9, <1>10 DEF File!Accept
<1> QED BY <1>1, <1>3, <1>11 DEF File!Next

(* What the user sees of a request that is accepted. *)
LEMMA SeenAccepted ==
  ASSUME NEW h, OneUser(h), Accepted(h)
  PROVE  /\ ByteFile_Users[h].state = "accepted" /\ ByteFile_Users[h].op = users[h].op
         /\ ByteFile_Users[h].offset = users[h].offset
         /\ ByteFile_Users[h].data = [k \in 0 .. Out(h) - 1 |-> buffer[h][k]]
         /\ File!Bytes_Of(h) = 0 .. Out(h) - 1
<1>1. users[h].state # "idle"
  BY DEF Accepted
<1>2. ByteFile_Users[h] = Seen(h)
  BY OneSeen
<1> QED BY <1>1, <1>2 DEF Seen, File!Bytes_Of

(* Bytes of a request are bytes of what is written. *)
LEMMA BytesOfRequest ==
  ASSUME NEW h, IInv, NEW some \in SUBSET (0 .. frontend.count - 1)
  PROVE  some \in SUBSET File!Positions
<1>1. frontend.count \in 0 .. Max_Count /\ Max_Count \in Nat /\ DOMAIN Payload = 0 .. Max_Count - 1
  BY VfsAssumption DEF IInv, Types, TypeOK
<1>2. 0 .. frontend.count - 1 \subseteq 0 .. Max_Count - 1
  BY <1>1
<1> QED BY <1>1, <1>2 DEF File!Positions

(* Bytes are read.                                                         *)
LEMMA ReadsBytes ==
  ASSUME NEW h, OneUser(h), IInv, SameRequest(h), UNCHANGED <<bytes, max_vba>>,
         Accepted(h), Accepted(h)', Out(h) = frontend.count, Out(h)' = frontend.count,
         users[h].op = "READ", NEW some \in SUBSET (0 .. frontend.count - 1), Reads(h, some)
  PROVE  [File!Next]_File!vars
<1>1. h \in Handles /\ some \in SUBSET File!Positions
  BY BytesOfRequest DEF OneUser
<1> DEFINE old == [k \in 0 .. frontend.count - 1 |-> buffer[h][k]]
           new == [k \in 0 .. frontend.count - 1 |-> buffer'[h][k]]
           Request(data) == [op |-> users[h].op, offset |-> users[h].offset,
                             count |-> users[h].count, state |-> "accepted", data |-> data]
<1>2. users[h].state # "idle" /\ users'[h].state # "idle"
  BY DEF Accepted
<1>3. Seen(h) = Request(old) /\ Seen(h)' = Request(new)
  BY <1>2 DEF Seen, SameRequest
<1>4. ByteFile_Users = [u \in {h} |-> Request(old)] /\ ByteFile_Users' = [u \in {h} |-> Request(new)]
  BY <1>3, OneSeen
<1>5. new = [k \in DOMAIN old |-> IF k \in some THEN bytes[users[h].offset + k] ELSE old[k]]
  BY DEF Reads
<1> HIDE DEF old, new
<1>6. ByteFile_Users[h] = Request(old)
  BY <1>4
<1>7. ByteFile_Users' = [ByteFile_Users EXCEPT ![h].data =
        [k \in DOMAIN @ |-> IF k \in some THEN bytes[ByteFile_Users[h].offset + k] ELSE @[k]]]
  <2>1. ByteFile_Users' = [ByteFile_Users EXCEPT ![h].data = new]
    BY <1>4
  <2>2. ByteFile_Users[h].data = old /\ ByteFile_Users[h].offset = users[h].offset
    BY <1>6
  <2> QED BY <1>5, <2>1, <2>2
<1>8. some \subseteq File!Bytes_Of(h)
  BY SeenAccepted
<1>9. File!Read(h, some)
  BY <1>7, <1>8, SeenAccepted DEF File!Read, Size
<1> QED BY <1>1, <1>9 DEF File!Next

(* Bytes are written. *)
LEMMA WritesBytes ==
  ASSUME NEW h, OneUser(h), IInv, UNCHANGED <<max_vba, ByteFile_Users>>,
         Accepted(h), Out(h) = frontend.count,
         users[h].op = "WRITE", NEW some \in SUBSET (0 .. frontend.count - 1), Writes(h, some)
  PROVE  [File!Next]_File!vars
<1>1. h \in Handles /\ some \in SUBSET File!Positions
  BY BytesOfRequest DEF OneUser
<1>2. some \subseteq File!Bytes_Of(h)
  BY SeenAccepted
<1>3. File!Write(h, some)
  BY <1>2, SeenAccepted DEF File!Write, Writes, Size
<1> QED BY <1>1, <1>3 DEF File!Next

-----------------------------------------------------------------------------
(***************************************************************************)
(* Each step is one of the file of bytes, or none.                         *)
(***************************************************************************)
(* The request of the plugin, or of the helper, is handed to the library.  *)
LEMMA SubmitImplements ==
  ASSUME NEW h, OneUser(h), IInv, DInv(h), Submit_Requests
  PROVE  [File!Next]_File!vars
<1>1. /\ UNCHANGED <<bytes, max_vba, users, buffer>> /\ SameRequest(h)
      /\ max_vba \in Nat /\ BLOCK_SIZE \in Nat \ {0} /\ frontend.vba \in Nat
      /\ frontend.count \in Nat /\ frontend.blocks \in Nat /\ frontend.helper_offset \in Nat
      /\ users[h].offset \in Nat /\ DOMAIN frontend = DOMAIN No_Request
      /\ DOMAIN helper_read = DOMAIN No_Helper
  BY VfsAssumption DEF Submit_Requests, device, SameRequest, IInv, Types, TypeOK, Helper_Type,
                       Offsets, OneUser, User_Type, No_Request, No_Helper
<1>2. CASE Submit_Helper_Read
  <2>1. /\ helper_read.state = "PENDING" /\ UNCHANGED frontend
        /\ helper_read'.state = "IN_PROGRESS"
    BY <1>1, <1>2 DEF Submit_Helper_Read, No_Helper
  <2>2. /\ frontend.state = "IN_PROGRESS" /\ frontend.op # "SYNC" /\ frontend.blocks = 0
        /\ frontend.vba <= max_vba /\ buffer[h] = Unread
    BY <2>1 DEF IInv, OneHolder, DInv, ReadsBlock, Buffers
  <2>3. /\ users[h].state # "idle" /\ frontend.data = h /\ frontend.count <= users[h].count
        /\ users[h].offset = frontend.vba * BLOCK_SIZE + frontend.helper_offset
        /\ frontend.helper_offset + frontend.count <= BLOCK_SIZE
    BY <2>2 DEF DInv, UsersRequest
  <2>4. users[h].offset + frontend.count <= Size
    <3> DEFINE p == frontend.vba * BLOCK_SIZE
    <3>1. (frontend.vba + 1) * BLOCK_SIZE = p + BLOCK_SIZE /\ p \in Nat
      BY <1>1, PositionsOfBlock
    <3>2. frontend.vba + 1 \in Nat /\ frontend.vba + 1 <= max_vba + 1
      BY <1>1, <2>2
    <3>3. p + BLOCK_SIZE <= Size /\ Size \in Nat
      <4>1. (frontend.vba + 1) * BLOCK_SIZE <= Size /\ Size \in Nat
        BY <3>2, Sizes
      <4> QED BY <3>1, <4>1
    <3>4. users[h].offset = p + frontend.helper_offset
      BY <2>3
    <3> HIDE DEF p
    <3> QED BY <1>1, <2>3, <3>1, <3>3, <3>4
  <2>5. ~Accepted(h) /\ Accepted(h)' /\ Out(h)' = frontend.count
    BY <1>1, <2>1, <2>2, <2>3 DEF Accepted, Out
  <2> QED BY <1>1, <2>2, <2>3, <2>4, <2>5, Accepts
<1>3. CASE Submit_Frontend
  <2>1. /\ frontend.state = "PENDING" /\ ~Out_Of_Range /\ UNCHANGED helper_read
        /\ frontend' = [frontend EXCEPT !.state = "IN_PROGRESS"]
    BY <1>3 DEF Submit_Frontend
  <2>2. frontend'.state = "IN_PROGRESS" /\ frontend'.data = frontend.data /\ frontend'.count = frontend.count
    BY <1>1, <2>1 DEF No_Request
  <2>3. helper_read.state # "PENDING" /\ buffer[h] = Unread /\ frontend.blocks # 0
    BY <2>1 DEF IInv, OneHolder, Pending, DInv, Buffers
  <2>4. /\ users[h].state # "idle" /\ frontend.data = h /\ frontend.count <= users[h].count
        /\ IF frontend.op = "SYNC" THEN frontend.count = 0
           ELSE /\ users[h].offset = frontend.vba * BLOCK_SIZE + frontend.helper_offset
                /\ frontend.helper_offset = 0 /\ frontend.count = frontend.blocks * BLOCK_SIZE
    BY <2>1, <2>3 DEF DInv, UsersRequest
  <2>5. frontend.count = 0 \/ users[h].offset + frontend.count <= Size
    <3> SUFFICES ASSUME frontend.op # "SYNC" PROVE users[h].offset + frontend.count <= Size
      BY <2>4
    <3> DEFINE p == frontend.vba * BLOCK_SIZE  q == frontend.blocks * BLOCK_SIZE
    <3>1. (frontend.vba + frontend.blocks) * BLOCK_SIZE = p + q /\ p \in Nat
      BY <1>1, PositionsOfBlock
    <3>2. frontend.vba + frontend.blocks \in Nat /\ frontend.vba + frontend.blocks <= max_vba + 1
      BY <1>1, <2>1 DEF Out_Of_Range
    <3>3. (frontend.vba + frontend.blocks) * BLOCK_SIZE <= Size /\ Size \in Nat
      BY <3>2, Sizes
    <3>4. p + q <= Size
      BY <3>1, <3>3
    <3>5. users[h].offset = p + frontend.helper_offset /\ frontend.helper_offset = 0 /\ frontend.count = q
      BY <2>4
    <3> HIDE DEF p, q
    <3> QED BY <1>1, <3>1, <3>3, <3>4, <3>5
  <2>6. ~Accepted(h) /\ Accepted(h)' /\ Out(h)' = frontend.count
    BY <1>1, <2>1, <2>2, <2>3, <2>4 DEF Accepted, Out
  <2> QED BY <1>1, <2>3, <2>4, <2>5, <2>6, Accepts
<1>4. CASE UNCHANGED <<frontend, helper_read>>
  BY <1>1, <1>4, SeenKept, Stutters
<1> QED BY <1>2, <1>3, <1>4 DEF Submit_Requests, Submit_Helper_Write

(* A request past the end is accepted for no bytes. *)
LEMMA RejectImplements ==
  ASSUME NEW h, OneUser(h), IInv, DInv(h), Reject_Frontend
  PROVE  [File!Next]_File!vars
<1>1. /\ UNCHANGED <<bytes, max_vba, users, buffer, helper_read>> /\ SameRequest(h)
      /\ frontend.state = "PENDING" /\ frontend' = [frontend EXCEPT !.state = "ERROR_EOF"]
  BY DEF Reject_Frontend, device, SameRequest
<1>2. DOMAIN frontend = DOMAIN No_Request /\ users[h].count \in Nat
  BY VfsAssumption DEF IInv, Types, TypeOK, No_Request, OneUser, User_Type
<1>3. frontend'.state = "ERROR_EOF" /\ frontend'.data = frontend.data
  BY <1>1, <1>2 DEF No_Request
<1>4. /\ helper_read.state # "PENDING" /\ buffer[h] = Unread
      /\ users[h].state # "idle" /\ frontend.data = h
  BY <1>1 DEF IInv, OneHolder, DInv, Buffers, UsersRequest
<1>5. ~Accepted(h) /\ Accepted(h)' /\ Out(h)' = 0
  BY <1>1, <1>3, <1>4 DEF Accepted, Out
<1> QED BY <1>1, <1>2, <1>4, <1>5, Accepts

(* The library works: it writes a block, or extends the device, or neither. *)
LEMMA ExecuteImplements ==
  ASSUME NEW h, OneUser(h), IInv, DInv(h), Execute
  PROVE  [File!Next]_File!vars
<1>1. SameRequest(h) /\ UNCHANGED <<frontend, helper_read, helper_write, buffer>>
  BY ExecuteKeeps
<1>2. UNCHANGED ByteFile_Users
  BY <1>1, SeenKept
<1>3. CASE UNCHANGED <<bytes, max_vba>>
  BY <1>2, <1>3, Stutters
<1>4. ASSUME NEW i \in Incomplete, IsHead(i), Write_Block(i) PROVE [File!Next]_File!vars
  <2>1. /\ frontend.state = "IN_PROGRESS" /\ frontend.op = "WRITE" /\ helper_read.state = "NONE"
        /\ max_vba' = max_vba
    BY <1>4, WriteFacts
  <2>2. users[h].op = "WRITE" /\ Accepted(h) /\ Out(h) = frontend.count
    BY <2>1 DEF DInv, UsersRequest, Accepted, Out
  <2>3. PICK some \in SUBSET (0 .. frontend.count - 1) : Writes(h, some)
    BY <1>4, WriteHelperBlock, WriteUsersBlock
  <2> QED BY <1>2, <2>1, <2>2, <2>3, WritesBytes
<1>5. ASSUME NEW i \in Incomplete, IsHead(i), Execute_Other(i) PROVE [File!Next]_File!vars
  <2>1. max_vba' \in max_vba .. Max_Vba /\ UNCHANGED bytes
    BY <1>5, ExecuteOtherD DEF Execute_Other
  <2>2. max_vba \in Nat /\ Max_Vba \in Nat /\ BLOCK_SIZE \in Nat \ {0}
    BY VfsAssumption DEF IInv, Types, TypeOK
  <2>3. CASE max_vba' = max_vba
    BY <1>2, <2>1, <2>3, Stutters
  <2>4. CASE max_vba' # max_vba
    <3>1. /\ max_vba + 1 \in Nat /\ max_vba' + 1 \in Nat /\ Max_Vba + 1 \in Nat
          /\ max_vba + 1 < max_vba' + 1
          /\ max_vba' + 1 = Max_Vba + 1 \/ max_vba' + 1 < Max_Vba + 1
      <4>1. \A a, c \in Nat : \A b \in a .. c :
              b # a => /\ a + 1 \in Nat /\ b + 1 \in Nat /\ c + 1 \in Nat /\ a + 1 < b + 1
                       /\ b + 1 = c + 1 \/ b + 1 < c + 1
        OBVIOUS
      <4> QED BY <2>1, <2>2, <2>4, <4>1
    <3> DEFINE p == (max_vba + 1) * BLOCK_SIZE  q == (max_vba' + 1) * BLOCK_SIZE
               m == (Max_Vba + 1) * BLOCK_SIZE
    <3>2. p \in Nat /\ q \in Nat /\ p + BLOCK_SIZE <= q
      BY <3>1, PositionsOfBlock
    <3>3. q <= m /\ m \in Nat
      <4>1. CASE max_vba' + 1 = Max_Vba + 1
        <5>1. q = m
          BY <4>1
        <5> HIDE DEF q, m
        <5> QED BY <3>2, <5>1
      <4>2. CASE max_vba' + 1 < Max_Vba + 1
        <5>1. m \in Nat /\ q + BLOCK_SIZE <= m
          BY <3>1, <4>2, PositionsOfBlock
        <5> HIDE DEF m, q
        <5> QED BY <2>2, <3>2, <5>1
      <4> QED BY <3>1, <4>1, <4>2
    <3>4. q \in p .. m
      <4> HIDE DEF p, q, m
      <4> QED BY <2>2, <3>2, <3>3
    <3>5. File!Grow
      BY <1>2, <2>1, <3>4 DEF File!Grow, Size
    <3> QED BY <3>5 DEF File!Next
  <2> QED BY <2>3, <2>4
<1>6. ASSUME NEW i \in Incomplete, Generate_IO(i) \/ Execute_Block(i)
      PROVE  [File!Next]_File!vars
  BY <1>3, <1>6 DEF Generate_IO, Execute_Block
<1> QED BY <1>3, <1>4, <1>5, <1>6 DEF Execute

(* A request that the library has completed is accepted, and stays so.     *)
LEMMA DropImplements ==
  ASSUME NEW h, OneUser(h), IInv, DInv(h), NEW i \in DOMAIN pool, Drop_Completed(i)
  PROVE  [File!Next]_File!vars
<1>1. UNCHANGED <<bytes, max_vba, buffer>> /\ SameRequest(h)
  BY DEF Drop_Completed, device, SameRequest
<1>2. CASE Of_Data_File(pool[i]) /\ Complete_Data(pool[i])
  <2>1. frontend.state = "IN_PROGRESS" /\ helper_read.state # "PENDING"
    BY <1>2 DEF IInv, OneHolder, OfDataFile, Of_Data_File, Data_Ops, Held
  <2>2. DOMAIN frontend = DOMAIN No_Request /\ DOMAIN helper_read = DOMAIN No_Helper
    BY DEF IInv, Types, TypeOK, Helper_Type, No_Request, No_Helper
  <2>3. /\ frontend'.state \in {"IN_PROGRESS", "COMPLETE"}
        /\ frontend'.count = frontend.count /\ frontend'.data = frontend.data
        /\ helper_read'.state # "PENDING"
    BY <1>2, <2>1, <2>2 DEF Complete_Data, No_Request, No_Helper
  <2>4. (Accepted(h)' <=> Accepted(h)) /\ Out(h)' = Out(h)
    BY <1>1, <2>1, <2>3 DEF Accepted, Out, SameRequest
  <2> QED BY <1>1, <2>4, SeenSame, Stutters
<1>3. CASE UNCHANGED <<frontend, helper_read>>
  BY <1>1, <1>3, SeenKept, Stutters
<1> QED BY <1>2, <1>3 DEF Drop_Completed

(* What has been read for the user is given to it, or replaced in part; a  *)
(* request whose block is written is complete.                             *)
LEMMA HelpersImplement ==
  ASSUME NEW h, OneUser(h), IInv, DInv(h), Helpers_Complete
  PROVE  [File!Next]_File!vars
<1>1. UNCHANGED <<bytes, max_vba>> /\ SameRequest(h)
  BY DEF Helpers_Complete, device, SameRequest
<1>2. DOMAIN frontend = DOMAIN No_Request
  BY DEF IInv, Types, TypeOK, No_Request
<1>3. CASE Helper_Read_Complete
  <2>1. /\ helper_read.state = "COMPLETE" /\ frontend.state = "IN_PROGRESS"
        /\ helper_read'.state = "NONE"
    BY <1>3 DEF Helper_Read_Complete, IInv, OneHolder, No_Helper
  <2>2. CASE frontend.op = "READ"
    <3>1. frontend' = [frontend EXCEPT !.state = "COMPLETE"]
      BY <1>3, <2>2 DEF Helper_Read_Complete
    <3>2. /\ frontend'.state = "COMPLETE" /\ frontend'.count = frontend.count
          /\ frontend'.data = frontend.data
      BY <1>2, <3>1 DEF No_Request
    <3>3. users[h].op = "READ" /\ users[h].state # "idle" /\ frontend.data = h
      BY <2>1, <2>2 DEF DInv, UsersRequest
    <3>4. /\ Accepted(h) /\ Accepted(h)' /\ Out(h) = frontend.count /\ Out(h)' = frontend.count
      BY <1>1, <2>1, <3>2, <3>3 DEF Accepted, Out, SameRequest
    <3>5. Reads(h, 0 .. frontend.count - 1)
      BY <1>3, <2>2, HelperReadD
    <3> QED BY <1>1, <3>3, <3>4, <3>5, ReadsBytes
  <2>3. CASE frontend.op = "WRITE"
    <3>1. UNCHANGED <<frontend, buffer>>
      BY <1>3, <2>3 DEF Helper_Read_Complete
    <3> QED BY <1>1, <2>1, <3>1, SeenKept, Stutters
  <2> QED BY <1>3, <2>2, <2>3 DEF Helper_Read_Complete
<1>4. CASE Helper_Write_Complete
  <2>1. /\ frontend.state = "IN_PROGRESS" /\ UNCHANGED <<buffer, helper_read>>
        /\ frontend' = [frontend EXCEPT !.state = "COMPLETE"]
    BY <1>4 DEF Helper_Write_Complete, IInv, OneHolder
  <2>2. /\ frontend'.state = "COMPLETE" /\ frontend'.count = frontend.count
        /\ frontend'.data = frontend.data
    BY <1>2, <2>1 DEF No_Request
  <2>3. (Accepted(h)' <=> Accepted(h)) /\ Out(h)' = Out(h)
    BY <1>1, <2>1, <2>2 DEF Accepted, Out, SameRequest
  <2> QED BY <1>1, <2>1, <2>3, SeenSame, Stutters
<1>5. CASE UNCHANGED <<buffer, frontend, helper_read>>
  BY <1>1, <1>5, SeenKept, Stutters
<1> QED BY <1>3, <1>4, <1>5 DEF Helpers_Complete

(* A block is read, by the plugin or by the user, or data are written.     *)
LEMMA ClientDataImplements ==
  ASSUME NEW h, OneUser(h), IInv, DInv(h), Client_Data
  PROVE  [File!Next]_File!vars
<1>1. UNCHANGED <<bytes, max_vba, frontend>> /\ SameRequest(h)
  BY DEF Client_Data, device, SameRequest
<1>2. ASSUME NEW i \in Incomplete, IsHead(i), Client_Data_Ready(i) PROVE [File!Next]_File!vars
  <2>1. CASE helper_read.state = "IN_PROGRESS"
    <3>1. UNCHANGED buffer /\ helper_read'.state = "IN_PROGRESS"
      BY <1>2, <2>1, ReadyForHelperD
    <3> QED BY <1>1, <2>1, <3>1, SeenKept, Stutters
  <2>2. CASE helper_read.state # "IN_PROGRESS"
    <3>1. /\ UNCHANGED helper_read /\ frontend.state = "IN_PROGRESS" /\ frontend.op = "READ"
          /\ helper_read.state = "NONE"
      BY <1>2, <2>2, ReadyForUserD
    <3>2. PICK some \in SUBSET (0 .. frontend.count - 1) : Reads(h, some)
      BY <1>2, <2>2, ReadyForUserD
    <3>3. users[h].op = "READ" /\ users[h].state # "idle" /\ frontend.data = h
      BY <3>1 DEF DInv, UsersRequest
    <3>4. Accepted(h) /\ Accepted(h)' /\ Out(h) = frontend.count /\ Out(h)' = frontend.count
      BY <1>1, <3>1, <3>3 DEF Accepted, Out, SameRequest
    <3> QED BY <1>1, <3>2, <3>3, <3>4, ReadsBytes
  <2> QED BY <2>1, <2>2
<1>3. ASSUME NEW i \in Incomplete, IsHead(i), Client_Data_Required(i)
      PROVE  [File!Next]_File!vars
  BY <1>1, <1>3, RequiredD, SeenKept, Stutters
<1>4. CASE UNCHANGED <<pool, helper_read, buffer, thrown, progress>>
  BY <1>1, <1>4, SeenKept, Stutters
<1> QED BY <1>2, <1>3, <1>4 DEF Client_Data

(* The back end and the crypto functions are not seen. *)
LEMMA BackendImplements ==
  ASSUME NEW h, OneUser(h), Backend_And_Crypto
  PROVE  [File!Next]_File!vars
<1>1. SameRequest(h) /\ UNCHANGED <<frontend, helper_read, bytes, max_vba, buffer>>
  BY DEF Backend_And_Crypto, wrapper, SameRequest
<1> QED BY <1>1, SeenKept, Stutters

(* The user gets its answer: all bytes are read, or written.               *)
LEMMA ReturnImplements ==
  ASSUME NEW h, OneUser(h), IInv, DInv(h), Return
  PROVE  [File!Next]_File!vars
<1>1. CASE ~Answered(h)
  <2>1. SameRequest(h) /\ UNCHANGED <<frontend, helper_read, bytes, max_vba, buffer>>
    BY <1>1, ReturnD DEF device
  <2> QED BY <2>1, SeenKept, Stutters
<1>2. CASE Answered(h)
  <2>1. /\ frontend.state \in {"COMPLETE", "ERROR_EOF"} /\ UNCHANGED <<bytes, max_vba>>
        /\ users'[h].state = "idle" /\ h \in Handles
    BY <1>2, AnsweredD DEF Answered, Return, device, OneUser
  <2>2. /\ users[h].state # "idle" /\ frontend.data = h /\ frontend.op = users[h].op
        /\ frontend.op = "SYNC" => frontend.count = 0
        /\ helper_read.state = "NONE" /\ users[h].op \in Data_Ops
    BY <2>1 DEF DInv, UsersRequest, IInv, OneHolder, Types, User_Type, OneUser
  <2>3. Accepted(h)
    BY <2>1, <2>2 DEF Accepted
  <2>4. Seen(h)' = File!No_User
    BY <2>1 DEF Seen
  <2>5. ByteFile_Users' = [ByteFile_Users EXCEPT ![h] = File!No_User]
    BY <2>4, OneSeen
  <2>6. ASSUME NEW k \in 0 .. Out(h) - 1
        PROVE  /\ users[h].op \in {"READ", "WRITE"}
               /\ users[h].op = "READ" => buffer[h][k] = bytes[users[h].offset + k]
               /\ users[h].op = "WRITE" => Payload[k] = bytes[users[h].offset + k]
    <3>1. frontend.state = "COMPLETE" /\ k \in 0 .. frontend.count - 1
      BY <2>1 DEF Out
    <3>2. frontend.op # "SYNC"
      BY <2>2, <3>1
    <3> QED BY <2>2, <3>1, <3>2 DEF DInv, CarriedOut, Read_Right, Written_Right, Data_Ops
  <2>7. /\ ByteFile_Users[h].state = "accepted" /\ ByteFile_Users[h].op = users[h].op
        /\ ByteFile_Users[h].offset = users[h].offset
        /\ \A k \in 0 .. Out(h) - 1 : ByteFile_Users[h].data[k] = buffer[h][k]
        /\ File!Bytes_Of(h) = 0 .. Out(h) - 1
    <3>1. /\ ByteFile_Users[h].state = "accepted" /\ ByteFile_Users[h].op = users[h].op
          /\ ByteFile_Users[h].offset = users[h].offset
          /\ ByteFile_Users[h].data = [k \in 0 .. Out(h) - 1 |-> buffer[h][k]]
          /\ File!Bytes_Of(h) = 0 .. Out(h) - 1
      BY <2>3, SeenAccepted
    <3>2. \A k \in 0 .. Out(h) - 1 :
            [m \in 0 .. Out(h) - 1 |-> buffer[h][m]][k] = buffer[h][k]
      OBVIOUS
    <3> QED BY <3>1, <3>2
  <2>8. File!Answer(h)
    BY <2>1, <2>5, <2>6, <2>7 DEF File!Answer, Size
  <2> QED BY <2>1, <2>8 DEF File!Next
<1> QED BY <1>1, <1>2

(* The user asks. *)
LEMMA AskImplements ==
  ASSUME NEW h, OneUser(h), IInv, DInv(h), NEW r \in Requests, Ask(h, r[1], r[2], r[3])
  PROVE  [File!Next]_File!vars
<1>1. /\ r[1] \in Data_Ops /\ r[2] \in Nat /\ r[3] \in 0 .. Max_Count
      /\ r[2] \in 0 .. (Max_Vba + 1) * BLOCK_SIZE /\ r[3] \in 0 .. (Max_Vba + 1) * BLOCK_SIZE
      /\ h \in Handles
  BY VfsAssumption DEF Data_Ops, OneUser
<1>2. /\ users[h].state = "idle" /\ users'[h].state # "idle" /\ users'[h].op = r[1]
      /\ users'[h].offset = r[2] /\ users'[h].count = r[3]
      /\ frontend'.state = "PENDING" \/ helper_read'.state = "PENDING"
      /\ UNCHANGED <<bytes, max_vba>>
  BY <1>1, AskD
<1>3. ~Accepted(h)'
  BY <1>2 DEF Accepted
<1>4. /\ Seen(h) = File!No_User
      /\ Seen(h)' = [state |-> "asked", op |-> r[1], offset |-> r[2], count |-> r[3],
                     data |-> <<>>]
  BY <1>2, <1>3 DEF Seen
<1>5. /\ ByteFile_Users[h] = File!No_User
      /\ ByteFile_Users' = [ByteFile_Users EXCEPT ![h] =
           [state |-> "asked", op |-> r[1], offset |-> r[2], count |-> r[3], data |-> <<>>]]
  BY <1>4, OneSeen
<1>6. File!Request(h, r[1], r[2], r[3])
  BY <1>2, <1>5 DEF File!Request, Size
<1> QED BY <1>1, <1>6 DEF File!Next, Data_Ops

(* The steps of handle_frontend_request. *)
LEMMA HandlingImplements ==
  ASSUME NEW h, OneUser(h), IInv, DInv(h), Handling
  PROVE  [File!Next]_File!vars
BY SubmitImplements, RejectImplements, ExecuteImplements, DropImplements, HelpersImplement,
   ClientDataImplements, BackendImplements, ReturnImplements DEF Handling

LEMMA StepImplements ==
  ASSUME NEW h, OneUser(h), IInv, DInv(h), [Next]_vars
  PROVE  [File!Next]_File!vars
<1>1. ASSUME NEW u \in Handles, Data_File(u) PROVE [File!Next]_File!vars
  <2>1. u = h
    BY DEF OneUser
  <2>2. CASE Retry(h)
    <3>1. SameRequest(h) /\ UNCHANGED <<frontend, helper_read, bytes, max_vba, buffer>>
      BY <2>2, RetryD DEF device
    <3> QED BY <3>1, SeenKept, Stutters
  <2> QED BY <1>1, <2>1, <2>2, AskImplements DEF Data_File
<1>2. CASE Control_Files
  <2>1. SameRequest(h) /\ UNCHANGED <<frontend, helper_read, bytes, max_vba, buffer>>
    BY <1>2, ControlD DEF device
  <2> QED BY <2>1, SeenKept, Stutters
<1>3. CASE Device_Answers \/ Handle_IO \/ UNCHANGED vars
  <2>1. SameRequest(h) /\ UNCHANGED <<frontend, helper_read, bytes, max_vba, buffer>>
    BY <1>3, SignalD
  <2> QED BY <2>1, SeenKept, Stutters
<1> QED BY <1>1, <1>2, <1>3, HandlingImplements DEF Next

(* The file is of zeros at first. *)
LEMMA InitImplements ==
  ASSUME NEW h, OneUser(h), Init
  PROVE  File!Init
<1>1. IInv /\ max_vba + 1 \in Nat
  BY IInvInit, VfsAssumption DEF IInv, Types, TypeOK
<1>2. bytes \in [0 .. (Max_Vba + 1) * BLOCK_SIZE - 1 -> {0}]
  BY DEF Init
<1>3. Size \in 0 .. (Max_Vba + 1) * BLOCK_SIZE
  <2> DEFINE m == (Max_Vba + 1) * BLOCK_SIZE
  <2>1. Size \in Nat /\ Size <= m /\ m \in Nat
    BY <1>1, Sizes
  <2> HIDE DEF m
  <2>2. Size \in 0 .. m
    BY <2>1
  <2> QED BY <2>2 DEF m
<1>4. ByteFile_Users = [u \in Handles |-> File!No_User]
  <2>1. \A u \in Handles : users[u].state = "idle"
    BY DEF Init, No_User
  <2> QED BY <2>1 DEF ByteFile_Users, File!No_User
<1> QED BY <1>2, <1>3, <1>4 DEF File!Init

(* The data file of the VFS plugin is a file of bytes.  A read returns what *)
(* is there, a write changes the bytes that are asked for and no others, in *)
(* whatever pieces, and is answered when it has been carried out, also when *)
(* a part of a block only is to be written, and when the device is extended *)
(* or rekeyed meanwhile.                                                   *)
THEOREM Refinement ==
  ASSUME NEW h, OneUser(h)
  PROVE  Spec => ImplementsByteFile
<1>1. Init => IInv /\ DInv(h) /\ File!Init
  BY IInvInit, DInvInit, InitImplements
<1>2. IInv /\ DInv(h) /\ [Next]_vars => IInv' /\ DInv(h)'
  BY IInvStep, DInvStep
<1>3. IInv /\ DInv(h) /\ [Next]_vars => [File!Next]_File!vars
  BY StepImplements
<1> QED BY <1>1, <1>2, <1>3, PTL DEF Spec, ImplementsByteFile, File!Spec

-----------------------------------------------------------------------------
(***************************************************************************)
(* What Replay reports as written is in the file.                          *)
(***************************************************************************)
(* vfs_replay writes the same byte everywhere. *)
SameByte == \A k \in DOMAIN Payload : Payload[k] = Payload[0]

(* Bytes from "first" on, up to the one before "end", are written; and, of *)
(* a step, are so after it.                                                *)
Stored(first, end) == \A b \in first .. end - 1 : bytes[b] = Payload[0]

StoredThen(first, end) == \A b \in first .. end - 1 : bytes'[b] = Payload[0]

(* The values of the variables. *)
Request_States == {"NONE", "PENDING", "IN_PROGRESS"}

ReplayTypes ==
  /\ request \in [type : Data_Ops \cup {"INVALID"}, state : Request_States, offset : Nat,
                  count : 0 .. Max_Count, current_offset : Nat, current_count : 0 .. Max_Count,
                  success : BOOLEAN, complete : BOOLEAN]
  /\ step \in {"loop", "calling", "after_io", "waiting"}

(* The plugin runs for the call of the replay, or for a signal.            *)
InCall ==
  /\ pc # "idle" => step \in {"calling", "after_io"}
  /\ pc # "idle" => (caller = file <=> users[file].state = "calling")
  /\ users[file].state = "calling" => pc # "idle" /\ step = "calling"

(* The plugin has been asked for what is left of the request; once it has  *)
(* answered, at most that has been done.                                   *)
AskedFor ==
  /\ users[file].state # "idle" =>
       /\ request.state # "NONE" /\ users[file].op = request.type
       /\ users[file].offset = request.current_offset
       /\ users[file].count = request.current_count
  /\ step = "calling" =>
       request.state # "NONE" /\ (users[file].state = "idle" => users[file].out <= request.current_count)
  /\ request.state # "NONE" /\ users[file].state = "idle" /\ step # "calling" =>
       request.type # "SYNC" /\ request.current_count > 0

(* What is left is the end of the request, and that exists.                *)
Remains ==
  /\ request.offset + request.count <= Size
  /\ request.state # "NONE" =>
       /\ request.type # "INVALID"
       /\ request.offset <= request.current_offset
       /\ request.current_offset + request.current_count = request.offset + request.count

(* What has been reported is stored.                                       *)
StoredSoFar ==
  request.state # "NONE" /\ request.type = "WRITE" =>
    /\ Stored(request.offset, request.current_offset)
    /\ step = "calling" /\ users[file].state = "idle" =>
         Stored(request.current_offset, request.current_offset + users[file].out)

(* All that is known of the request of the list. *)
RInv == ReplayTypes /\ InCall /\ AskedFor /\ Remains /\ StoredSoFar /\ ReplayedIsStored

(* The inductive invariant. *)
ReplayIInv == IInv /\ DInv(file) /\ RInv

-----------------------------------------------------------------------------
(* What every step does with the bytes.                                    *)
BytesKept ==
  /\ DOMAIN bytes' = DOMAIN bytes
  /\ \A b \in DOMAIN bytes : bytes'[b] = bytes[b] \/ bytes'[b] = Payload[0]
  /\ max_vba' \in max_vba .. Max_Vba

(* The file is as long as the device, which has room for all its bytes.    *)
LEMMA SizeFacts ==
  ASSUME IInv
  PROVE  /\ Size \in Nat /\ DOMAIN bytes = 0 .. (Max_Vba + 1) * BLOCK_SIZE - 1
         /\ Size <= (Max_Vba + 1) * BLOCK_SIZE /\ (Max_Vba + 1) * BLOCK_SIZE \in Nat
         /\ max_vba \in Nat
<1>1. max_vba \in Nat /\ 0 <= max_vba + 1
  BY VfsAssumption DEF IInv, Types, TypeOK
<1>2. /\ Size \in Nat /\ Size <= (Max_Vba + 1) * BLOCK_SIZE
      /\ (Max_Vba + 1) * BLOCK_SIZE \in Nat
  BY <1>1, Sizes
<1>3. DOMAIN bytes = 0 .. (Max_Vba + 1) * BLOCK_SIZE - 1
  BY DEF IInv, Types, TypeOK
<1> QED BY <1>1, <1>2, <1>3

(* It becomes longer only. *)
LEMMA SizeGrows ==
  ASSUME IInv, max_vba' \in max_vba .. Max_Vba
  PROVE  Size' \in Nat /\ Size <= Size'
<1>0. max_vba \in Nat /\ Max_Vba \in Nat /\ BLOCK_SIZE \in Nat
  BY SizeFacts, VfsAssumption
<1>a. \A a, c \in Nat : \A b \in a .. c : a + 1 \in Nat /\ b + 1 \in Nat /\ a + 1 <= b + 1
  OBVIOUS
<1>1. /\ BLOCK_SIZE \in Nat
      /\ max_vba + 1 \in Nat /\ max_vba' + 1 \in Nat /\ max_vba + 1 <= max_vba' + 1
  BY <1>0, <1>a
<1>2. \A a, b \in Nat : a <= b => b * BLOCK_SIZE \in Nat /\ a * BLOCK_SIZE <= b * BLOCK_SIZE
  BY <1>1, Product
<1>3. /\ (max_vba' + 1) * BLOCK_SIZE \in Nat
      /\ (max_vba + 1) * BLOCK_SIZE <= (max_vba' + 1) * BLOCK_SIZE
  BY <1>1, <1>2
<1> QED BY <1>3 DEF Size

(* What is stored stays so, while nobody writes another byte. *)
LEMMA StoredKept ==
  ASSUME IInv, BytesKept, NEW first \in Nat, NEW end \in Nat, end <= Size, Stored(first, end)
  PROVE  StoredThen(first, end)
<1>1. \A b \in first .. end - 1 : b \in DOMAIN bytes
  BY SizeFacts
<1> QED BY <1>1 DEF BytesKept, Stored, StoredThen

(* Steps of the plugin change bytes to the one byte only.                  *)
LEMMA HandlingBytes ==
  ASSUME OneUser(file), SameByte, IInv, DInv(file), Handling
  PROVE  BytesKept
<1>1. max_vba \in 0 .. Max_Vba /\ Max_Vba \in Nat
  BY VfsAssumption DEF IInv, Types, TypeOK
<1>2. CASE UNCHANGED <<bytes, max_vba>>
  BY <1>1, <1>2 DEF BytesKept
<1>3. ASSUME NEW i \in Incomplete, IsHead(i), Write_Block(i), Execute PROVE BytesKept
  <2>1. PICK some \in SUBSET (0 .. frontend.count - 1) : Writes(file, some)
    BY <1>3, WriteHelperBlock, WriteUsersBlock
  <2>2. \A k \in some : k \in DOMAIN Payload
    BY VfsAssumption DEF IInv, Types, TypeOK
  <2>3. max_vba' = max_vba
    BY <1>3 DEF Write_Block
  <2> QED BY <1>1, <2>1, <2>2, <2>3 DEF Writes, SameByte, BytesKept
<1>4. ASSUME NEW i \in Incomplete, IsHead(i), Execute_Other(i), Execute PROVE BytesKept
  BY <1>4, ExecuteOtherD DEF Execute_Other, BytesKept
<1>5. CASE Execute
  BY <1>2, <1>3, <1>4, <1>5 DEF Execute, Generate_IO, Execute_Block
<1> QED BY <1>2, <1>5 DEF Handling, Submit_Requests, Reject_Frontend, Drop_Completed,
     Helpers_Complete, Client_Data, Backend_And_Crypto, Return, device

(* What Handling does to what the plugin has been asked for.               *)
LEMMA HandlingUsers ==
  ASSUME OneUser(file), IInv, DInv(file), InCall, Handling, UNCHANGED step
  PROVE  /\ InCall'
         /\ \/ UNCHANGED users
            \/ /\ users[file].state = "calling" /\ users'[file].state = "queued"
               /\ SameRequest(file)
            \/ /\ users[file].state = "calling" /\ users'[file].state = "idle"
               /\ users'[file].out = IF frontend.state = "COMPLETE" THEN frontend.count ELSE 0
               /\ UNCHANGED bytes
<1>1. file \in Handles /\ users \in [Handles -> User_Type] /\ pc \in PCs
  BY DEF OneUser, IInv, Types
<1>2. CASE UNCHANGED <<users, caller>> /\ pc # "idle" /\ pc' # "idle"
  BY <1>2 DEF InCall
<1>3. CASE Return /\ caller = file /\ Queued(file)
  <2>1. /\ users[file].state = "calling" /\ pc' = "idle"
        /\ users' = [users EXCEPT ![file].state = "queued", ![file].woken = io_pending]
    BY <1>3 DEF Return, Queued, InCall
  <2>2. DOMAIN users[file] = DOMAIN No_User
    BY <1>1 DEF User_Type, No_User
  <2>3. users'[file].state = "queued" /\ SameRequest(file)
    BY <1>1, <2>1, <2>2 DEF SameRequest, No_User
  <2> QED BY <2>1, <2>3 DEF InCall
<1>4. CASE Return /\ caller = file /\ Answered(file)
  <2>1. /\ users[file].state = "calling" /\ pc' = "idle" /\ UNCHANGED bytes
        /\ users' = [users EXCEPT ![file] = [No_User EXCEPT !.out =
                       IF frontend.state = "COMPLETE" THEN frontend.count ELSE 0]]
    BY <1>4 DEF Return, Answered, InCall, device
  <2>2. /\ users'[file].state = "idle"
        /\ users'[file].out = IF frontend.state = "COMPLETE" THEN frontend.count ELSE 0
    BY <1>1, <2>1 DEF No_User
  <2> QED BY <2>1, <2>2 DEF InCall
<1>5. CASE Return /\ caller \notin Handles /\ UNCHANGED users
  BY <1>1, <1>5 DEF Return, InCall
<1>6. CASE Return
  BY <1>3, <1>4, <1>5, <1>6 DEF Return, OneUser
<1> QED BY <1>2, <1>6 DEF Handling, Submit_Requests, Reject_Frontend, Execute, Drop_Completed,
     Helpers_Complete, Client_Data, Backend_And_Crypto

-----------------------------------------------------------------------------
(* A request that is asked for, or asked for again. *)
LEMMA CallUsers ==
  ASSUME IInv, NEW op, NEW offset, NEW count, Call(file, op, offset, count),
         file \in Handles
  PROVE  /\ users'[file].state \in {"queued", "calling"}
         /\ users'[file].op = op /\ users'[file].offset = offset /\ users'[file].count = count
         /\ pc = "idle" /\ UNCHANGED <<bytes, max_vba>>
         /\ users'[file].state = "queued" => pc' = "idle"
         /\ users'[file].state = "calling" => pc' # "idle" /\ caller' = file
<1> DEFINE u(state) == [state |-> state, op |-> op, offset |-> offset,
                        count |-> count, out |-> 0, woken |-> FALSE]
<1>1. users \in [Handles -> User_Type]
  BY DEF IInv, Types
<1>2. /\ pc = "idle" /\ UNCHANGED <<bytes, max_vba>>
      /\ \/ users' = [users EXCEPT ![file] = u("queued")] /\ UNCHANGED pc
         \/ users' = [users EXCEPT ![file] = u("calling")] /\ pc' = "submit" /\ caller' = file
  BY DEF Call, Handle_Frontend_Request, control, device
<1>3. \/ users'[file] = u("queued") /\ UNCHANGED pc
      \/ users'[file] = u("calling") /\ pc' = "submit" /\ caller' = file
  BY <1>1, <1>2
<1> QED BY <1>2, <1>3

(* The plugin is asked for what is left of a request.                      *)
LEMMA Asks ==
  ASSUME OneUser(file), IInv, DInv(file), NEW op \in Data_Ops, NEW offset \in Nat,
         NEW count \in 0 .. Max_Count, Call(file, op, offset, count),
         \/ users[file].state = "idle" /\ (offset < Size \/ ~Unaligned(offset, count))
         \/ /\ users[file].state = "queued" /\ users[file].op = op
            /\ users[file].offset = offset /\ users[file].count = count
  PROVE  IInv' /\ DInv(file)'
<1>1. file \in Handles
  BY DEF OneUser
<1>2. CASE users[file].state = "idle" /\ (offset < Size \/ ~Unaligned(offset, count))
  BY <1>1, <1>2, CallStep, AskD DEF Ask
<1>3. CASE users[file].state = "queued" /\ users[file].op = op
           /\ users[file].offset = offset /\ users[file].count = count
  BY <1>1, <1>3, CallStep, RetryD DEF Retry
<1> QED BY <1>2, <1>3

(* Steps that leave the bytes as they are. *)
LEMMA BytesSame ==
  ASSUME IInv, UNCHANGED <<bytes, max_vba>>
  PROVE  BytesKept /\ Size' = Size /\ \A first, end : Stored(first, end)' = Stored(first, end)
<1>1. max_vba \in 0 .. Max_Vba /\ Max_Vba \in Nat
  BY VfsAssumption DEF IInv, Types, TypeOK
<1>2. max_vba \in max_vba .. Max_Vba
  BY <1>1
<1> QED BY <1>2 DEF BytesKept, Stored, Size

(* The next request of the list. *)
LEMMA BeginR ==
  ASSUME OneUser(file), SameByte, ReplayIInv, NEW r \in Requests, Begin(r[1], r[2], r[3])
  PROVE  ReplayIInv'
<1> DEFINE op == r[1]  offset == r[2]  count == r[3]
<1>1. op \in Data_Ops /\ offset \in Nat /\ count \in 0 .. Max_Count /\ Max_Count \in Nat
  BY VfsAssumption DEF Data_Ops
<1>2. /\ pc = "idle" /\ offset + count <= Size /\ step' = "calling"
      /\ users[file].state = "idle" /\ (offset < Size \/ ~Unaligned(offset, count))
      /\ Call(file, op, offset, count)
      /\ request' = [type |-> op, state |-> "IN_PROGRESS", offset |-> offset, count |-> count,
                     current_offset |-> offset, current_count |-> count,
                     success |-> FALSE, complete |-> FALSE]
  BY DEF Begin, Running, Ask, OneUser
<1> HIDE DEF op, offset, count
<1>3. users[file].state = "idle" /\ file \in Handles /\ IInv /\ DInv(file)
  BY <1>2 DEF OneUser, ReplayIInv
<1>4. IInv' /\ DInv(file)'
  BY <1>1, <1>2, <1>3, Asks
<1>5. /\ users'[file].state \in {"queued", "calling"}
      /\ users'[file].op = op /\ users'[file].offset = offset /\ users'[file].count = count
      /\ UNCHANGED <<bytes, max_vba>>
      /\ users'[file].state = "queued" => pc' = "idle"
      /\ users'[file].state = "calling" => pc' # "idle" /\ caller' = file
  BY <1>2, <1>3, CallUsers
<1>6. ReplayTypes'
  BY <1>1, <1>2 DEF ReplayTypes, Request_States
<1>7. InCall' /\ AskedFor'
  BY <1>2, <1>5 DEF InCall, AskedFor
<1>8. Remains'
  BY <1>1, <1>2, <1>3, <1>5, BytesSame DEF Remains, Data_Ops
<1>9. StoredSoFar' /\ ReplayedIsStored'
  BY <1>1, <1>2, <1>5 DEF StoredSoFar, ReplayedIsStored, Stored
<1> QED BY <1>4, <1>6, <1>7, <1>8, <1>9 DEF ReplayIInv, RInv

(* The request goes on, with what is left of it. *)
LEMMA ProceedR ==
  ASSUME OneUser(file), SameByte, ReplayIInv, Proceed
  PROVE  ReplayIInv'
<1>1. /\ request.type \in Data_Ops /\ request.current_offset \in Nat
      /\ request.current_count \in 0 .. Max_Count /\ Max_Count \in Nat
      /\ request.offset \in Nat /\ request.count \in Nat /\ request.state # "NONE"
  BY VfsAssumption DEF ReplayIInv, RInv, ReplayTypes, Remains, Proceed
<1>2. /\ pc = "idle" /\ step = "loop" /\ step' = "calling"
      /\ Call(file, request.type, request.current_offset, request.current_count)
      /\ request' = [request EXCEPT !.state = "IN_PROGRESS"]
  BY DEF Proceed, Running
<1>3. file \in Handles /\ IInv /\ DInv(file) /\ RInv /\ users \in [Handles -> User_Type]
  BY DEF OneUser, ReplayIInv, IInv, Types
<1>4. users[file].state = "idle" => request.current_offset < Size
  BY <1>1, <1>2, <1>3, SizeFacts DEF RInv, AskedFor, Remains
<1>5. users[file].state \in {"idle", "queued"}
  BY <1>2, <1>3 DEF RInv, InCall, User_Type
<1>6. IInv' /\ DInv(file)'
  BY <1>1, <1>2, <1>3, <1>4, <1>5, Asks DEF RInv, AskedFor
<1>7. /\ users'[file].state \in {"queued", "calling"}
      /\ users'[file].op = request.type /\ users'[file].offset = request.current_offset
      /\ users'[file].count = request.current_count
      /\ UNCHANGED <<bytes, max_vba>>
      /\ users'[file].state = "queued" => pc' = "idle"
      /\ users'[file].state = "calling" => pc' # "idle" /\ caller' = file
  BY <1>2, <1>3, CallUsers
<1>8. /\ ReplayTypes' /\ request'.state = "IN_PROGRESS" /\ request'.type = request.type
      /\ request'.offset = request.offset /\ request'.count = request.count
      /\ request'.current_offset = request.current_offset
      /\ request'.current_count = request.current_count
  BY <1>2, <1>3 DEF RInv, ReplayTypes, Request_States
<1>9. InCall' /\ AskedFor'
  BY <1>2, <1>7, <1>8 DEF InCall, AskedFor
<1>10. Remains'
  BY <1>1, <1>3, <1>7, <1>8, BytesSame DEF RInv, Remains
<1>11. StoredSoFar' /\ ReplayedIsStored'
  BY <1>1, <1>3, <1>7, <1>8, BytesSame DEF RInv, StoredSoFar, ReplayedIsStored
<1> QED BY <1>6, <1>8, <1>9, <1>10, <1>11 DEF ReplayIInv, RInv

-----------------------------------------------------------------------------
(* Steps of the replay that leave the plugin alone.                        *)
LEMMA PluginSame ==
  ASSUME OneUser(file), ReplayIInv, UNCHANGED vars
  PROVE  /\ IInv' /\ DInv(file)'
         /\ UNCHANGED <<pc, caller, users, bytes, max_vba>>
         /\ Size' = Size /\ \A first, end : Stored(first, end)' = Stored(first, end)
<1>1. [Next]_vars /\ UNCHANGED <<pc, caller, users, bytes, max_vba>>
  BY DEF vars, control, device
<1> QED BY <1>1, IInvStep, DInvStep, BytesSame DEF ReplayIInv

(* The replay waits, or goes on, with the request as it is.                *)
LEMMA OnlyStep ==
  ASSUME OneUser(file), ReplayIInv, UNCHANGED <<vars, request>>, pc = "idle", step' # "calling",
         step' \in {"loop", "after_io", "waiting"},
         step = "calling" => users[file].state = "queued"
  PROVE  ReplayIInv'
<1>1. /\ IInv' /\ DInv(file)'
      /\ UNCHANGED <<pc, caller, users, bytes, max_vba>>
      /\ Size' = Size /\ \A first, end : Stored(first, end)' = Stored(first, end)
  BY PluginSame
<1>2. RInv'
  BY <1>1 DEF ReplayIInv, RInv, ReplayTypes, InCall, AskedFor, Remains, StoredSoFar, ReplayedIsStored
<1> QED BY <1>1, <1>2 DEF ReplayIInv

(* A node of a type that is not known leaves what was stored alone. *)
LEMMA BeginInvalidR ==
  ASSUME OneUser(file), ReplayIInv, Begin_Invalid
  PROVE  ReplayIInv'
<1>1. /\ IInv' /\ DInv(file)'
      /\ UNCHANGED <<pc, caller, users, bytes, max_vba>>
      /\ Size' = Size
  BY PluginSame DEF Begin_Invalid
<1>2. /\ pc = "idle" /\ step = "loop" /\ request.state = "NONE" /\ step' \in {"loop", "waiting"}
      /\ request' = [request EXCEPT !.type = "INVALID", !.complete = TRUE] /\ ReplayTypes
  BY DEF Begin_Invalid, Running, Next_Node, ReplayIInv, RInv
<1>3. /\ ReplayTypes' /\ request'.state = "NONE" /\ request'.type = "INVALID"
      /\ request'.offset = request.offset /\ request'.count = request.count
  BY <1>2 DEF ReplayTypes, Request_States
<1>4. RInv'
  BY <1>1, <1>2, <1>3
     DEF ReplayIInv, RInv, InCall, AskedFor, Remains, StoredSoFar, ReplayedIsStored
<1> QED BY <1>1, <1>4 DEF ReplayIInv

(* The plugin has answered: what it has done is done, the rest remains.    *)
LEMMA CallAnsweredR ==
  ASSUME OneUser(file), ReplayIInv, Call_Answered
  PROVE  ReplayIInv'
<1> DEFINE out == users[file].out  left == request.current_count - out
           all == request.type = "SYNC" \/ left = 0
<1>1. /\ IInv' /\ DInv(file)'
      /\ UNCHANGED <<pc, caller, users, bytes, max_vba>>
      /\ Size' = Size /\ \A first, end : Stored(first, end)' = Stored(first, end)
  BY PluginSame DEF Call_Answered
<1>2. /\ pc = "idle" /\ step = "calling" /\ users[file].state = "idle" /\ step' \in {"loop", "waiting"}
      /\ request' = [request EXCEPT
             !.current_offset = @ + out, !.current_count = left,
             !.success = TRUE, !.complete = all,
             !.state = IF all THEN "NONE" ELSE "PENDING"]
  BY DEF Call_Answered, Next_Node, Go_On
<1>3. /\ out \in Nat /\ out <= request.current_count /\ request.state # "NONE"
      /\ request.offset \in Nat /\ request.count \in Nat /\ request.current_offset \in Nat
      /\ request.current_count \in 0 .. Max_Count /\ Max_Count \in Nat
  <2>1. users \in [Handles -> User_Type] /\ file \in Handles /\ Max_Count \in Nat
    BY VfsAssumption DEF ReplayIInv, IInv, Types, OneUser
  <2> QED BY <1>2, <2>1 DEF ReplayIInv, RInv, AskedFor, ReplayTypes, User_Type
<1>4. left \in 0 .. Max_Count /\ request.current_offset + out \in Nat
      /\ left + (request.current_offset + out) = request.current_count + request.current_offset
      /\ request.current_offset <= request.current_offset + out
  BY <1>3
<1>5. all \in BOOLEAN
  OBVIOUS
<1>6. /\ request'.offset = request.offset /\ request'.count = request.count
      /\ request'.type = request.type
      /\ request'.current_offset = request.current_offset + out
      /\ request'.current_count = left
      /\ request'.complete = all /\ request'.state = IF all THEN "NONE" ELSE "PENDING"
  BY <1>2 DEF ReplayIInv, RInv, ReplayTypes
<1> HIDE DEF left, all, out
<1>7. ReplayTypes'
  BY <1>2, <1>4, <1>5 DEF ReplayIInv, RInv, ReplayTypes, Request_States
<1>8. InCall'
  BY <1>1, <1>2 DEF ReplayIInv, RInv, InCall
<1>9. AskedFor'
  BY <1>1, <1>2, <1>4, <1>6 DEF AskedFor, all
<1>10. Remains'
  BY <1>1, <1>3, <1>4, <1>6 DEF ReplayIInv, RInv, Remains
<1>11. request.type = "WRITE" => Stored(request.offset, request.current_offset + out)
  BY <1>2, <1>3 DEF ReplayIInv, RInv, StoredSoFar, Stored, Remains, out
<1>12. StoredSoFar'
  BY <1>1, <1>2, <1>6, <1>11 DEF StoredSoFar
<1>13. ReplayedIsStored'
  <2> SUFFICES ASSUME request'.complete, request'.type = "WRITE", request'.state = "NONE"
               PROVE  Stored(request.offset, request.offset + request.count)
    <3>1. UNCHANGED bytes
      BY <1>1
    <3> QED BY <3>1, <1>3, <1>6 DEF ReplayedIsStored, Stored
  <2>1. all /\ left = 0 /\ request.type = "WRITE"
    BY <1>6 DEF all
  <2>2. request.current_offset + out = request.offset + request.count
    BY <2>1, <1>3, <1>4 DEF ReplayIInv, RInv, Remains
  <2> QED BY <1>11, <2>1, <2>2
<1> QED BY <1>1, <1>7, <1>8, <1>9, <1>10, <1>12, <1>13 DEF ReplayIInv, RInv

-----------------------------------------------------------------------------
(* What is stored of a request is still stored, and what the plugin has    *)
(* answered to have written is.                                            *)
LEMMA HandlingStored ==
  ASSUME OneUser(file), SameByte, ReplayIInv, Handling, UNCHANGED <<request, step>>,
         NEW first \in Nat, NEW mid \in Nat, NEW left \in Nat,
         first = request.offset, mid = request.current_offset, left = request.current_count,
         request.state # "NONE", request.type = "WRITE"
  PROVE  /\ StoredThen(first, mid)
         /\ step = "calling" /\ users'[file].state = "idle" =>
              StoredThen(mid, mid + users'[file].out)
<1>1. IInv /\ DInv(file) /\ RInv /\ BytesKept
  BY HandlingBytes DEF ReplayIInv
<1>2. /\ Size \in Nat /\ mid + left <= Size /\ mid <= Size
      /\ Stored(first, mid)
      /\ step = "calling" /\ users[file].state = "idle" =>
           Stored(mid, mid + users[file].out) /\ users[file].out <= left
  BY <1>1, SizeFacts DEF RInv, Remains, StoredSoFar, AskedFor, ReplayTypes
<1>3. StoredThen(first, mid)
  BY <1>1, <1>2, StoredKept
<1>4. users \in [Handles -> User_Type] /\ file \in Handles /\ Max_Count \in Nat
      /\ frontend.count \in 0 .. Max_Count
  BY <1>1, VfsAssumption DEF IInv, Types, TypeOK, OneUser
<1>5. ASSUME UNCHANGED users, step = "calling", users[file].state = "idle"
      PROVE  StoredThen(mid, mid + users[file].out)
  <2> DEFINE end == mid + users[file].out
  <2>1. users[file].out \in Nat
    BY <1>4 DEF User_Type
  <2>2. end \in Nat /\ end <= Size
    BY <1>2, <1>5, <2>1
  <2>3. Stored(mid, end)
    BY <1>2, <1>5
  <2> HIDE DEF end
  <2>4. StoredThen(mid, end)
    BY <1>1, <2>2, <2>3, StoredKept
  <2> QED BY <2>4 DEF end
<1>6. ASSUME users[file].state = "calling", users'[file].state = "idle", step = "calling",
             users'[file].out = IF frontend.state = "COMPLETE" THEN frontend.count ELSE 0,
             UNCHANGED bytes
      PROVE  StoredThen(mid, mid + users'[file].out)
  <2>1. CASE frontend.state # "COMPLETE"
    BY <1>4, <1>6, <2>1 DEF StoredThen
  <2>2. CASE frontend.state = "COMPLETE"
    <3>1. /\ users[file].offset = mid /\ users[file].op = "WRITE"
          /\ frontend.op = "WRITE"
      BY <1>1, <1>6, <2>2 DEF RInv, AskedFor, DInv, UsersRequest
    <3>2. Written_Right(file, frontend.count)
      BY <1>1, <2>2, <3>1 DEF DInv, CarriedOut
    <3>3. \A k \in 0 .. frontend.count - 1 : bytes[mid + k] = Payload[0]
      <4>1. \A k \in 0 .. frontend.count - 1 : k \in DOMAIN Payload
        BY <1>4, VfsAssumption
      <4> QED BY <3>1, <3>2, <4>1 DEF Written_Right, SameByte
    <3>4. \A b \in mid .. mid + frontend.count - 1 :
             b - mid \in 0 .. frontend.count - 1 /\ b = mid + (b - mid)
      BY <1>4
    <3>5. \A b \in mid .. mid + frontend.count - 1 : bytes[b] = Payload[0]
      BY <3>3, <3>4
    <3> QED BY <1>4, <1>6, <2>2, <3>5 DEF StoredThen
  <2> QED BY <2>1, <2>2
<1>7. /\ \/ UNCHANGED users
         \/ users'[file].state = "queued"
         \/ /\ users[file].state = "calling" /\ users'[file].state = "idle"
            /\ users'[file].out = IF frontend.state = "COMPLETE" THEN frontend.count ELSE 0
            /\ UNCHANGED bytes
  BY <1>1, HandlingUsers DEF RInv
<1> QED BY <1>3, <1>5, <1>6, <1>7

(* Each step of the plugin. *)
LEMMA HandlingR ==
  ASSUME OneUser(file), SameByte, ReplayIInv, Handling, UNCHANGED <<request, step>>
  PROVE  ReplayIInv'
<1>1. IInv /\ DInv(file) /\ RInv /\ request \in [type : Data_Ops \cup {"INVALID"},
        state : Request_States, offset : Nat, count : 0 .. Max_Count, current_offset : Nat,
        current_count : 0 .. Max_Count, success : BOOLEAN, complete : BOOLEAN]
      /\ Max_Count \in Nat /\ Size \in Nat
  BY VfsAssumption, SizeFacts DEF ReplayIInv, RInv, ReplayTypes
<1>2. [Next]_vars
  BY <1>1 DEF IInv, NoThrow, Next
<1>3. IInv' /\ DInv(file)' /\ BytesKept
  BY <1>1, <1>2, IInvStep, HandlingD, HandlingBytes
<1>4. Size' \in Nat /\ Size <= Size'
  BY <1>1, <1>3, SizeGrows DEF BytesKept
<1>5. /\ InCall'
      /\ \/ UNCHANGED users
         \/ /\ users[file].state = "calling" /\ users'[file].state = "queued"
            /\ SameRequest(file)
         \/ /\ users[file].state = "calling" /\ users'[file].state = "idle"
            /\ users'[file].out = IF frontend.state = "COMPLETE" THEN frontend.count ELSE 0
            /\ UNCHANGED bytes
  BY <1>1, HandlingUsers DEF RInv
<1>6. ReplayTypes'
  BY <1>1 DEF RInv, ReplayTypes
<1>7. Remains'
  <2>1. request.offset + request.count <= Size'
    BY <1>1, <1>4 DEF RInv, Remains
  <2> QED BY <1>1, <2>1 DEF RInv, Remains
<1>8. users[file].state # "idle" =>
        /\ frontend.count \in Nat /\ frontend.count <= users[file].count
        /\ users[file].count \in Nat
  <2>1. users \in [Handles -> User_Type] /\ file \in Handles /\ frontend.count \in 0 .. Max_Count
    BY <1>1 DEF IInv, Types, TypeOK, OneUser
  <2> QED BY <1>1, <2>1 DEF DInv, UsersRequest, User_Type
<1>9. AskedFor'
  <2>1. CASE UNCHANGED users
    BY <1>1, <2>1 DEF RInv, AskedFor
  <2>2. CASE users[file].state = "calling" /\ users'[file].state = "queued" /\ SameRequest(file)
    BY <1>1, <2>2 DEF RInv, AskedFor, SameRequest
  <2>3. CASE /\ users[file].state = "calling" /\ users'[file].state = "idle"
             /\ users'[file].out = IF frontend.state = "COMPLETE" THEN frontend.count ELSE 0
    <3>1. step = "calling"
      BY <2>3, <1>1 DEF RInv, InCall
    <3>2. request.state # "NONE" /\ users[file].count = request.current_count
      BY <1>1, <2>3 DEF RInv, AskedFor
    <3>3. users'[file].out <= request.current_count
      BY <1>8, <2>3, <3>2
    <3> QED BY <2>3, <3>1, <3>2, <3>3 DEF AskedFor
  <2> QED BY <1>5, <2>1, <2>2, <2>3
<1>10. ReplayedIsStored'
  <2> SUFFICES ASSUME request.complete, request.type = "WRITE", request.state = "NONE"
               PROVE  \A b \in request.offset .. request.offset + request.count - 1 :
                        bytes'[b] = Payload[0]
    BY DEF ReplayedIsStored
  <2> DEFINE from == request.offset  to == request.offset + request.count
  <2>1. from \in Nat /\ to \in Nat /\ to <= Size /\ Stored(from, to)
    BY <1>1 DEF RInv, Remains, ReplayedIsStored, Stored
  <2> HIDE DEF from, to
  <2>2. StoredThen(from, to)
    BY <1>1, <1>3, <2>1, StoredKept
  <2>3. \A b \in from .. to - 1 : bytes'[b] = Payload[0]
    BY <2>2 DEF StoredThen
  <2>4. ASSUME NEW b \in request.offset .. request.offset + request.count - 1
        PROVE  b \in from .. to - 1
    BY <1>1, <2>4 DEF from, to
  <2> QED BY <2>3, <2>4
<1>11. StoredSoFar'
  <2> SUFFICES ASSUME request.state # "NONE", request.type = "WRITE"
               PROVE  /\ \A b \in request.offset .. request.current_offset - 1 : bytes'[b] = Payload[0]
                      /\ step = "calling" /\ users'[file].state = "idle" =>
                           \A b \in request.current_offset
                                      .. (request.current_offset + users'[file].out) - 1 :
                             bytes'[b] = Payload[0]
    <3>1. users' \in [Handles -> User_Type] /\ file \in Handles
      BY <1>3 DEF IInv, Types, OneUser
    <3>2. users'[file].out \in Nat /\ request.current_offset \in Nat
      BY <1>1, <3>1 DEF User_Type
    <3> QED BY <3>2 DEF StoredSoFar, Stored
  <2> DEFINE first == request.offset  mid == request.current_offset  left == request.current_count
  <2>1. first \in Nat /\ mid \in Nat /\ left \in Nat
        /\ first = request.offset /\ mid = request.current_offset /\ left = request.current_count
    BY <1>1
  <2> HIDE DEF first, mid, left
  <2>2. /\ StoredThen(first, mid)
        /\ step = "calling" /\ users'[file].state = "idle" =>
             StoredThen(mid, mid + users'[file].out)
    BY <2>1, HandlingStored
  <2>3. /\ \A b \in first .. mid - 1 : bytes'[b] = Payload[0]
        /\ step = "calling" /\ users'[file].state = "idle" =>
              \A b \in mid .. (mid + users'[file].out) - 1 : bytes'[b] = Payload[0]
    BY <2>2 DEF StoredThen
  <2> QED BY <2>1, <2>3
<1> QED BY <1>3, <1>5, <1>6, <1>7, <1>9, <1>10, <1>11 DEF ReplayIInv, RInv

(* A signal, or an answer of the device. *)
LEMMA SignalR ==
  ASSUME OneUser(file), ReplayIInv, Device_Answers \/ Handle_IO, UNCHANGED request,
         \/ Device_Answers /\ UNCHANGED step
         \/ Handle_IO /\ step = "waiting" /\ step' = "after_io"
  PROVE  ReplayIInv'
<1>1. IInv /\ DInv(file) /\ RInv /\ file \in Handles /\ users \in [Handles -> User_Type]
  BY DEF ReplayIInv, OneUser, IInv, Types
<1>2. [Next]_vars
  BY <1>1 DEF IInv, NoThrow, Next
<1>3. IInv' /\ DInv(file)' /\ SameRequest(file) /\ UNCHANGED <<bytes, max_vba>>
  BY <1>1, <1>2, IInvStep, SignalD
<1>4. Size' = Size /\ \A first, end : Stored(first, end)' = Stored(first, end)
  BY <1>1, <1>3, BytesSame
<1>5. users'[file].state = users[file].state /\ users'[file].out = users[file].out
  <2>1. CASE UNCHANGED users
    BY <2>1
  <2>2. CASE enqueued # Nobody /\ users' = [users EXCEPT ![enqueued].woken = TRUE]
    <3>1. DOMAIN users[file] = DOMAIN No_User
      BY <1>1 DEF User_Type, No_User
    <3>2. users'[file] = users[file] \/ users'[file] = [users[file] EXCEPT !.woken = TRUE]
      BY <1>1, <2>2
    <3> QED BY <3>1, <3>2 DEF No_User
  <2> QED BY <2>1, <2>2 DEF Device_Answers, Handle_IO
<1>6. InCall'
  <2>1. CASE Device_Answers /\ UNCHANGED step
    BY <1>1, <1>5, <2>1 DEF Device_Answers, control, RInv, InCall
  <2>2. CASE Handle_IO /\ step = "waiting" /\ step' = "after_io"
    <3>1. users[file].state # "calling" /\ users'[file].state # "calling"
      BY <1>1, <1>5, <2>2 DEF RInv, InCall
    <3>2. UNCHANGED <<pc, caller>> \/ caller' = "notify"
      BY <2>2 DEF Handle_IO, control, Handle_Frontend_Request
    <3>3. pc = "idle"
      BY <2>2 DEF Handle_IO
    <3>4. file # "notify"
      BY <1>1, VfsAssumption
    <3> QED BY <1>1, <2>2, <3>1, <3>2, <3>3, <3>4 DEF InCall
  <2> QED BY <2>1, <2>2
<1>7. ReplayTypes' /\ Remains' /\ ReplayedIsStored'
  BY <1>1, <1>3, <1>4 DEF RInv, ReplayTypes, Remains, ReplayedIsStored
<1>8. AskedFor'
  BY <1>1, <1>3, <1>5 DEF RInv, AskedFor, SameRequest
<1>9. StoredSoFar'
  BY <1>1, <1>4, <1>5 DEF RInv, StoredSoFar
<1> QED BY <1>3, <1>6, <1>7, <1>8, <1>9 DEF ReplayIInv, RInv

-----------------------------------------------------------------------------
(* At the start, and after each step. *)
LEMMA ReplayIInvInit ==
  ASSUME OneUser(file), ReplayInit
  PROVE  ReplayIInv
<1>1. IInv /\ DInv(file) /\ Size \in Nat
  BY IInvInit, DInvInit, SizeFacts DEF ReplayInit
<1>2. users[file].state = "idle" /\ pc = "idle"
  BY DEF ReplayInit, Init, OneUser, No_User
<1>3. request = No_Current_Request /\ step = "loop" /\ Max_Count \in Nat
  BY VfsAssumption DEF ReplayInit
<1>4. ReplayTypes
  BY <1>3 DEF ReplayTypes, No_Current_Request, Request_States, Data_Ops
<1>5. InCall /\ AskedFor /\ StoredSoFar /\ ReplayedIsStored
  BY <1>2, <1>3 DEF InCall, AskedFor, StoredSoFar, ReplayedIsStored, No_Current_Request
<1>6. Remains
  BY <1>1, <1>3 DEF Remains, No_Current_Request
<1> QED BY <1>1, <1>4, <1>5, <1>6 DEF ReplayIInv, RInv

(* The steps of the replay, of the plugin, and of the device. *)
LEMMA ReplayIInvStep ==
  ASSUME OneUser(file), SameByte, ReplayIInv, [ReplayNext]_ReplayVars
  PROVE  ReplayIInv'
<1>1. ASSUME NEW r \in Requests, Begin(r[1], r[2], r[3]) PROVE ReplayIInv'
  BY <1>1, BeginR
<1>2. CASE Begin_Invalid
  BY <1>2, BeginInvalidR
<1>3. CASE Proceed
  BY <1>3, ProceedR
<1>4. CASE Call_Queued
  BY <1>4, OnlyStep DEF Call_Queued, Go_On
<1>5. CASE Call_Answered
  BY <1>5, CallAnsweredR
<1>6. CASE Handle_IO_Progress \/ Dispatch_Reactivate
  BY <1>6, OnlyStep DEF Handle_IO_Progress, Dispatch_Reactivate, Idle
<1>7. CASE Dispatch_IO_Signal
  BY <1>7, SignalR DEF Dispatch_IO_Signal, Idle
<1>8. CASE Plugin
  BY <1>8, HandlingR DEF Plugin
<1>9. CASE Device
  BY <1>9, SignalR DEF Device, replay
<1>10. CASE UNCHANGED ReplayVars
  <2>1. UNCHANGED <<vars, request, step>>
    BY <1>10 DEF ReplayVars, replay
  <2>2. /\ IInv' /\ DInv(file)'
        /\ UNCHANGED <<pc, caller, users, bytes, max_vba>>
        /\ Size' = Size /\ \A first, end : Stored(first, end)' = Stored(first, end)
    BY <2>1, PluginSame
  <2>3. RInv'
    BY <2>1, <2>2 DEF ReplayIInv, RInv, ReplayTypes, InCall, AskedFor, Remains, StoredSoFar, ReplayedIsStored
  <2> QED BY <2>2, <2>3 DEF ReplayIInv
<1> QED BY <1>1, <1>2, <1>3, <1>4, <1>5, <1>6, <1>7, <1>8, <1>9, <1>10 DEF ReplayNext, Vfs_replay

(* While the list is replayed, what is left of a request is its end, the   *)
(* plugin works on that, and what comes before it is stored.               *)
THEOREM ReplayInvariance ==
  ASSUME OneUser(file), SameByte
  PROVE  ReplaySpec => []ReplayIInv
<1>1. ReplayInit => ReplayIInv
  BY ReplayIInvInit
<1>2. ReplayIInv /\ [ReplayNext]_ReplayVars => ReplayIInv'
  BY ReplayIInvStep
<1> QED BY <1>1, <1>2, PTL DEF ReplaySpec

(* What vfs_replay reports as written is in the file, in however many calls *)
(* and in whatever order the device answers: the request goes on where the *)
(* plugin stopped.                                                         *)
THEOREM AlwaysStored ==
  ASSUME OneUser(file), SameByte
  PROVE  ReplaySpec => []ReplayedIsStored
<1>1. ReplayIInv => ReplayedIsStored
  BY DEF ReplayIInv, RInv
<1> QED BY <1>1, ReplayInvariance, PTL
=============================================================================
