--------------------------- MODULE SuperblockProofs ---------------------------
(***************************************************************************)
(* Proofs about module SuperblockControl: what the trust anchor secures,   *)
(* and the keys at the crypto module.                                      *)
(* They hold for every number of snapshots, superblocks, generations,      *)
(* restarts and addresses, and whatever the clients request.  A start may  *)
(* come upon any superblock that an earlier run has written; that its keys *)
(* are there, and are those that the run to come needs, is part of what is *)
(* proved.                                                                 *)
(***************************************************************************)
EXTENDS SuperblockControl, TLAPS

-----------------------------------------------------------------------------
(* The job is at a step, which is to be carried out or has been. *)
At(steps) == \E step \in steps, p \in {"Pending", "Completed"} : job.state = <<step, p>>

Pending(step) == job.state = <<step, "Pending">>

(* The steps from the copy of the superblock on. *)
Copied == {"Encrypt_Current_Key", "Encrypt_Previous_Key", "Sync_Cache",
           "Write_SB", "Sync_Blk_IO", "Secure_SB"}

(* The records have their fields, and the slots are slots. *)
Shape ==
  /\ DOMAIN job = DOMAIN Job_Invalid
  /\ {sb_idx, job.SB_Idx, job.Read_SB_Idx} \subseteq Superblocks_Index
  /\ DOMAIN device = {"superblocks", "trees", "unsynced_sbs", "unsynced_trees"}
  /\ DOMAIN device.superblocks = Superblocks_Index

(* Without a job, no step is under way. *)
NoJobNoStep == job.op = "Invalid" => job.state = <<"Submitted">>

(* From the copy of the superblock until it is secured the superblock is   *)
(* what was copied.                                                        *)
CopyIsSuperblock ==
  At(Copied) => /\ DOMAIN job.SB_Ciphertext = {"plain", "values"}
                /\ job.SB_Ciphertext.plain = sb

(* Once the cache is synced, no block is changed in it. *)
NothingDirty ==
  Completed("Sync_Cache") \/ At({"Write_SB", "Sync_Blk_IO", "Secure_SB"}) => Dirty = {}

(* The superblock has been written to its slot. *)
SuperblockWritten ==
  Completed("Write_SB") \/ At({"Sync_Blk_IO"}) => device.superblocks[sb_idx].plain = sb

AllSynced == device.unsynced_sbs = {} /\ device.unsynced_trees = {}

(* The hash is about a superblock that is on the device for good. *)
HashIsOnDevice ==
  /\ Completed("Sync_Blk_IO") => AllSynced
  /\ Pending("Secure_SB") =>
       /\ AllSynced
       /\ \E i \in Superblocks_Index : device.superblocks[i].plain = job.Hash

IInv ==
  /\ Shape
  /\ NoJobNoStep
  /\ CopyIsSuperblock
  /\ NothingDirty
  /\ SuperblockWritten
  /\ HashIsOnDevice

-----------------------------------------------------------------------------
(* A state of the job names one step, and whether it has been carried out. *)
LEMMA StatesDiffer ==
  /\ \A a, b, c, d : <<a, b>> = <<c, d>> => a = c /\ b = d
  /\ \A a, b, c : <<a>> # <<b, c>>
OBVIOUS

(* The fields of a job. *)
LEMMA FieldsOfJob ==
  DOMAIN Job_Invalid = {"op", "state", "success", "Generation", "Nr_Of_Blks", "SB_Ciphertext",
                        "Snapshots", "Hash", "Request_Finished", "SB_Found", "SB_Idx",
                        "Read_SB_Idx"}
BY DEF Job_Invalid

(* A state of the job in which no part of the invariant but its shape says *)
(* anything.                                                               *)
Elsewhere == ~At(Copied)

(* Who leaves the steps of the superblock control, or does not enter them, *)
(* has only the shape to care for.                                         *)
LEMMA ElsewhereIInv ==
  ASSUME Shape', NoJobNoStep', Elsewhere'
  PROVE  IInv'
BY StatesDiffer DEF IInv, Elsewhere, At, Copied, CopyIsSuperblock, NothingDirty,
     SuperblockWritten, HashIsOnDevice, Completed, Pending

-----------------------------------------------------------------------------
(* Initially the superblock is yet to be read. *)
THEOREM InitIInv == Init => IInv
<1> SUFFICES ASSUME Init PROVE IInv
  OBVIOUS
<1> USE SuperblockAssumption
<1>1. Shape
  BY FieldsOfJob DEF Init, Shape, Initial_Device, Job_Invalid, Superblocks_Index
<1>2. job.state = <<"Submitted">>
  BY DEF Init, Job_Invalid
<1> QED BY <1>1, <1>2, StatesDiffer DEF IInv, NoJobNoStep, At, CopyIsSuperblock,
             NothingDirty, SuperblockWritten, HashIsOnDevice, Completed, Pending


-----------------------------------------------------------------------------
(* A new job is submitted, before any of its steps. *)
LEMMA SubmitIInv ==
  ASSUME IInv, NEW op \in Operations, Submit_Primitive(op)
  PROVE  IInv'
<1>1. PICK gen \in Generation, nr \in 1 .. Max_Nr_Of_Blks :
        job' = [job EXCEPT !.op = op, !.state = <<"Submitted">>, !.success = FALSE,
                           !.Generation = gen, !.Nr_Of_Blks = nr]
  BY DEF Submit_Primitive
<1>2. Shape' /\ job'.state = <<"Submitted">>
  BY <1>1, FieldsOfJob DEF IInv, Shape, Submit_Primitive
<1>3. Elsewhere'
  BY <1>2, StatesDiffer DEF Elsewhere, At
<1> QED BY <1>2, <1>3, ElsewhereIInv DEF NoJobNoStep

(* A finished job is dropped. *)
LEMMA DropIInv == IInv /\ Drop_Completed_Primitive => IInv'
<1> SUFFICES ASSUME IInv, Drop_Completed_Primitive PROVE IInv'
  OBVIOUS
<1> USE SuperblockAssumption
<1>1. job' = [Job_Invalid EXCEPT !.Request_Finished = job.Request_Finished]
  BY DEF Drop_Completed_Primitive
<1>2. /\ DOMAIN job' = DOMAIN Job_Invalid
      /\ job'.state = <<"Submitted">>
      /\ {job'.SB_Idx, job'.Read_SB_Idx} \subseteq Superblocks_Index
  BY <1>1 DEF Job_Invalid, Superblocks_Index
<1>3. Shape'
  BY <1>2 DEF IInv, Shape, Drop_Completed_Primitive
<1>4. Elsewhere'
  BY <1>2, StatesDiffer DEF Elsewhere, At
<1> QED BY <1>2, <1>3, <1>4, ElsewhereIInv DEF NoJobNoStep

(* Clients write only while there is no job. *)
LEMMA WritebackIInv ==
  ASSUME IInv, NEW v \in VBA, Execute_Writeback(v)
  PROVE  IInv'
<1>1. job' = job /\ job.op = "Invalid" /\ device' = device /\ sb_idx' = sb_idx
  BY DEF Execute_Writeback, Ready, Raise_Program_Error
<1>2. Shape' /\ NoJobNoStep' /\ job'.state = <<"Submitted">>
  BY <1>1 DEF IInv, Shape, NoJobNoStep
<1>3. Elsewhere'
  BY <1>2, StatesDiffer DEF Elsewhere, At
<1> QED BY <1>2, <1>3, ElsewhereIInv

(* The component starts anew: the superblock is yet to be read. *)
LEMMA RestartIInv == IInv /\ Restart => IInv'
<1> SUFFICES ASSUME IInv, Restart PROVE IInv'
  OBVIOUS
<1> USE SuperblockAssumption
<1>1. job' = [Job_Invalid EXCEPT !.op = "Initialize"] /\ sb_idx' = 0 /\ device' = device
  BY DEF Restart
<1>2. /\ DOMAIN job' = DOMAIN Job_Invalid
      /\ job'.state = <<"Submitted">>
      /\ {sb_idx', job'.SB_Idx, job'.Read_SB_Idx} \subseteq Superblocks_Index
  BY <1>1 DEF Job_Invalid, Superblocks_Index
<1>3. Shape'
  BY <1>1, <1>2 DEF IInv, Shape
<1>4. Elsewhere'
  BY <1>2, StatesDiffer DEF Elsewhere, At
<1> QED BY <1>2, <1>3, <1>4, ElsewhereIInv DEF NoJobNoStep

-----------------------------------------------------------------------------
(* What an answer changes of the job: its state, and what the other module *)
(* has put into it.                                                        *)
LEMMA AnswerShape ==
  ASSUME IInv, NEW step, NEW j, Answer(step, j), j.op = job.op, DOMAIN j = DOMAIN job,
         j.SB_Idx = job.SB_Idx, j.Read_SB_Idx = job.Read_SB_Idx,
         DOMAIN device' = DOMAIN device, DOMAIN device'.superblocks = DOMAIN device.superblocks
  PROVE  /\ Shape' /\ NoJobNoStep'
         /\ job'.state = <<step, "Completed">>
         /\ job'.SB_Ciphertext = j.SB_Ciphertext
         /\ job'.Hash = j.Hash
         /\ step \notin Copied => IInv'
<1>1. job' = [j EXCEPT !.state = <<step, "Completed">>] /\ sb_idx' = sb_idx
  BY DEF Answer
<1>2. /\ DOMAIN job' = DOMAIN job
      /\ job'.state = <<step, "Completed">>
      /\ job'.op = job.op /\ job'.SB_Idx = job.SB_Idx /\ job'.Read_SB_Idx = job.Read_SB_Idx
      /\ job'.SB_Ciphertext = j.SB_Ciphertext /\ job'.Hash = j.Hash
  BY <1>1, FieldsOfJob DEF IInv, Shape
<1>3. Shape'
  BY <1>1, <1>2 DEF IInv, Shape
<1>4. NoJobNoStep'
  BY <1>2, StatesDiffer DEF IInv, NoJobNoStep, Answer
<1>5. ASSUME step \notin Copied PROVE Elsewhere'
  BY <1>2, <1>5, StatesDiffer DEF Elsewhere, At, Copied
<1> QED BY <1>2, <1>3, <1>4, <1>5, ElsewhereIInv

(* The trust anchor encrypts keys into the copy, and takes the hash. *)
LEMMA TrustAnchorIInv == IInv /\ Trust_Anchor => IInv'
<1> SUFFICES ASSUME IInv, Trust_Anchor PROVE IInv'
  OBVIOUS
<1>0. UNCHANGED <<sb, sb_idx, cached, device>>
  BY DEF Trust_Anchor, Answer
<1>1. ASSUME NEW step \in {"Create_Key", "Decrypt_Current_Key", "Decrypt_Previous_Key"},
             Answer(step, job)
      PROVE  IInv'
  BY <1>0, <1>1, AnswerShape DEF Copied
<1>2. ASSUME NEW step \in {"Encrypt_Current_Key", "Encrypt_Previous_Key"}, NEW key,
             Answer(step, [job EXCEPT !.SB_Ciphertext.values = @ \cup {key}])
      PROVE  IInv'
  <2> DEFINE j == [job EXCEPT !.SB_Ciphertext.values = @ \cup {key}]
  <2>1. /\ DOMAIN j = DOMAIN job
        /\ j.op = job.op /\ j.SB_Idx = job.SB_Idx /\ j.Read_SB_Idx = job.Read_SB_Idx
        /\ j.SB_Ciphertext = [job.SB_Ciphertext EXCEPT !.values = @ \cup {key}]
    BY FieldsOfJob DEF IInv, Shape
  <2>2. Answer(step, j)
    BY <1>2
  <2> HIDE DEF j
  <2>3. Shape' /\ NoJobNoStep' /\ job'.state = <<step, "Completed">>
        /\ job'.SB_Ciphertext = j.SB_Ciphertext
    BY <1>0, <2>1, <2>2, AnswerShape
  <2>4. At(Copied)
    BY <2>2 DEF Answer, At, Copied
  <2>5. CopyIsSuperblock'
    BY <1>0, <2>1, <2>3, <2>4 DEF IInv, CopyIsSuperblock
  <2> QED BY <2>3, <2>5, StatesDiffer DEF IInv, NothingDirty, SuperblockWritten,
               HashIsOnDevice, Completed, Pending, At
<1>3. ASSUME Answer("Secure_SB", job) PROVE IInv'
  <2>1. Shape' /\ NoJobNoStep' /\ job'.state = <<"Secure_SB", "Completed">>
        /\ job'.SB_Ciphertext = job.SB_Ciphertext
    BY <1>0, <1>3, AnswerShape
  <2>2. At(Copied) /\ At({"Write_SB", "Sync_Blk_IO", "Secure_SB"})
    BY <1>3 DEF Answer, At, Copied
  <2>3. CopyIsSuperblock' /\ NothingDirty'
    BY <1>0, <2>1, <2>2 DEF IInv, CopyIsSuperblock, NothingDirty, Dirty
  <2> QED BY <2>1, <2>3, StatesDiffer DEF IInv, SuperblockWritten, HashIsOnDevice,
               Completed, Pending, At
<1> QED BY <1>1, <1>2, <1>3 DEF Trust_Anchor

(* The steps of the crypto module are before the copy of the superblock.   *)
LEMMA CryptoIInv == IInv /\ Crypto => IInv'
<1> SUFFICES ASSUME IInv, Crypto PROVE IInv'
  OBVIOUS
<1>1. UNCHANGED <<sb, sb_idx, cached, device>>
  BY DEF Crypto, Answer
<1>2. PICK step \in {"Add_Current_Key", "Add_Previous_Key", "Add_Key",
                     "Remove_Current_Key", "Remove_Previous_Key"} : Answer(step, job)
  BY DEF Crypto
<1> QED BY <1>1, <1>2, AnswerShape DEF Copied

-----------------------------------------------------------------------------
(* The cache is synced: nothing is left to be written back. *)
LEMMA CacheSyncIInv == IInv /\ Cache_Sync => IInv'
<1> SUFFICES ASSUME IInv, Cache_Sync PROVE IInv'
  OBVIOUS
<1>1. /\ device' = Written(Dirty) /\ UNCHANGED <<sb, sb_idx, cached>>
      /\ Answer("Sync_Cache", job)
  BY DEF Cache_Sync, Answer
<1>2. /\ DOMAIN device' = DOMAIN device
      /\ device'.superblocks = device.superblocks
      /\ device'.trees = [t \in Tree |-> IF t \in Dirty THEN cached[t] ELSE device.trees[t]]
  BY <1>1 DEF Written, IInv, Shape
<1>3. Shape' /\ NoJobNoStep' /\ job'.state = <<"Sync_Cache", "Completed">>
      /\ job'.SB_Ciphertext = job.SB_Ciphertext
  BY <1>1, <1>2, AnswerShape
<1>4. At(Copied)
  BY <1>1 DEF Answer, At, Copied
<1>5. CopyIsSuperblock'
  BY <1>1, <1>3, <1>4 DEF IInv, CopyIsSuperblock
<1>6. \A t \in Tree : cached'[t] = device'.trees[t]
  BY <1>1, <1>2 DEF Dirty
<1>7. NothingDirty'
  BY <1>6 DEF NothingDirty, Dirty
<1> QED BY <1>3, <1>5, <1>7, StatesDiffer DEF IInv, SuperblockWritten, HashIsOnDevice,
             Completed, Pending, At

(* The cache writes a block back, which it has not to do once it is synced. *)
LEMMA CacheWriteBackIInv == IInv /\ Cache_Write_Back => IInv'
<1> SUFFICES ASSUME IInv, Cache_Write_Back PROVE IInv'
  OBVIOUS
<1>1. PICK t \in Dirty : device' = Written({t})
  BY DEF Cache_Write_Back
<1>2. UNCHANGED <<sb, sb_idx, job, cached>>
  BY DEF Cache_Write_Back
<1>3. DOMAIN device' = DOMAIN device /\ device'.superblocks = device.superblocks
  BY <1>1 DEF Written, IInv, Shape
<1>4. ~(Completed("Sync_Cache") \/ At({"Write_SB", "Sync_Blk_IO", "Secure_SB"}))
  BY <1>1 DEF IInv, NothingDirty
<1>5. Shape' /\ NoJobNoStep' /\ CopyIsSuperblock'
  BY <1>2, <1>3 DEF IInv, Shape, NoJobNoStep, CopyIsSuperblock, At
<1>6. SuperblockWritten' /\ NothingDirty'
  BY <1>2, <1>3, <1>4 DEF IInv, SuperblockWritten, NothingDirty, At, Completed
<1>7. HashIsOnDevice'
  BY <1>2, <1>4 DEF HashIsOnDevice, At, Completed, Pending
<1> QED BY <1>5, <1>6, <1>7 DEF IInv

(* The device: a superblock is read, long before one is copied; one is     *)
(* written, and all that was written is synced.                            *)
LEMMA BlockIOIInv == IInv /\ Block_IO => IInv'
<1> SUFFICES ASSUME IInv, Block_IO PROVE IInv'
  OBVIOUS
<1>0. UNCHANGED <<sb, sb_idx, cached>>
  BY DEF Block_IO, Answer
<1>1. ASSUME NEW step \in {"Read_SB", "Read_Current_SB"}, NEW ciphertext, device' = device,
             Answer(step, [job EXCEPT !.SB_Ciphertext = ciphertext])
      PROVE  IInv'
  <2> DEFINE j == [job EXCEPT !.SB_Ciphertext = ciphertext]
  <2>1. /\ DOMAIN j = DOMAIN job
        /\ j.op = job.op /\ j.SB_Idx = job.SB_Idx /\ j.Read_SB_Idx = job.Read_SB_Idx
    BY FieldsOfJob DEF IInv, Shape
  <2>2. Answer(step, j)
    BY <1>1
  <2> HIDE DEF j
  <2> QED BY <1>1, <2>1, <2>2, AnswerShape DEF Copied
<1>2. ASSUME Answer("Write_SB", job),
             device' = [device EXCEPT !.superblocks[sb_idx] = job.SB_Ciphertext,
                                      !.unsynced_sbs = @ \cup {sb_idx}]
      PROVE  IInv'
  <2>1. /\ DOMAIN device' = DOMAIN device
        /\ DOMAIN device'.superblocks = DOMAIN device.superblocks
        /\ device'.superblocks[sb_idx] = job.SB_Ciphertext
        /\ device'.trees = device.trees
    BY <1>2 DEF IInv, Shape
  <2>2. Shape' /\ NoJobNoStep' /\ job'.state = <<"Write_SB", "Completed">>
        /\ job'.SB_Ciphertext = job.SB_Ciphertext
    BY <1>2, <2>1, AnswerShape
  <2>3. At(Copied) /\ At({"Write_SB", "Sync_Blk_IO", "Secure_SB"})
    BY <1>2 DEF Answer, At, Copied
  <2>4. CopyIsSuperblock' /\ NothingDirty'
    BY <1>0, <2>1, <2>2, <2>3 DEF IInv, CopyIsSuperblock, NothingDirty, Dirty
  <2>5. SuperblockWritten'
    BY <1>0, <2>1, <2>3 DEF IInv, CopyIsSuperblock, SuperblockWritten
  <2> QED BY <2>2, <2>4, <2>5, StatesDiffer DEF IInv, HashIsOnDevice, Completed, Pending
<1>3. ASSUME Answer("Sync_Blk_IO", job),
             device' = [device EXCEPT !.unsynced_sbs = {}, !.unsynced_trees = {}]
      PROVE  IInv'
  <2>1. /\ DOMAIN device' = DOMAIN device
        /\ device'.superblocks = device.superblocks
        /\ device'.trees = device.trees
        /\ AllSynced'
    BY <1>3 DEF IInv, Shape, AllSynced
  <2>2. Shape' /\ NoJobNoStep' /\ job'.state = <<"Sync_Blk_IO", "Completed">>
        /\ job'.SB_Ciphertext = job.SB_Ciphertext
    BY <1>3, <2>1, AnswerShape
  <2>3. /\ At(Copied) /\ At({"Sync_Blk_IO"})
        /\ At({"Write_SB", "Sync_Blk_IO", "Secure_SB"})
    BY <1>3 DEF Answer, At, Copied
  <2>4. CopyIsSuperblock' /\ NothingDirty' /\ SuperblockWritten'
    BY <1>0, <2>1, <2>2, <2>3
       DEF IInv, CopyIsSuperblock, NothingDirty, Dirty, SuperblockWritten
  <2> QED BY <2>1, <2>2, <2>4, StatesDiffer DEF IInv, HashIsOnDevice, Completed, Pending
<1> QED BY <1>1, <1>2, <1>3 DEF Block_IO

(* Rekeying and extending come before the copy of the superblock.          *)
LEMMA VBDRekeyingIInv == IInv /\ VBD_Rekeying => IInv'
<1> SUFFICES ASSUME IInv, VBD_Rekeying PROVE IInv'
  OBVIOUS
<1>1. CASE Raise_Program_Error
  <2>1. job' = job /\ device' = device /\ sb_idx' = sb_idx
    BY <1>1 DEF Raise_Program_Error
  <2>2. Shape' /\ NoJobNoStep'
    BY <2>1 DEF IInv, Shape, NoJobNoStep
  <2>3. Elsewhere'
    BY <2>1, StatesDiffer DEF VBD_Rekeying, Elsewhere, At, Copied
  <2> QED BY <2>2, <2>3, ElsewhereIInv
<1>2. CASE ~Raise_Program_Error
  <2>0. device' = device
    BY <1>2 DEF VBD_Rekeying
  <2>1. PICK step \in {"Rekey_VBA_In_VBD", "VBD_Ext_Step_In_VBD"} :
          \E nr, snaps : Answer(step, [job EXCEPT !.Nr_Of_Blks = nr, !.Snapshots = snaps])
    <3>1. CASE VBD_Rekeying_Rekey_VBA
      <4>1. PICK snaps : Answer("Rekey_VBA_In_VBD", [job EXCEPT !.Snapshots = snaps])
        BY <3>1 DEF VBD_Rekeying_Rekey_VBA
      <4>2. [job EXCEPT !.Snapshots = snaps]
              = [job EXCEPT !.Nr_Of_Blks = job.Nr_Of_Blks, !.Snapshots = snaps]
        BY FieldsOfJob DEF IInv, Shape
      <4> QED BY <4>1, <4>2
    <3>2. CASE \E left \in 0 .. job.Nr_Of_Blks - 1 : VBD_Rekeying_VBD_Extension_Step(left)
      BY <3>2 DEF VBD_Rekeying_VBD_Extension_Step
    <3> QED BY <1>2, <3>1, <3>2 DEF VBD_Rekeying
  <2>4. PICK nr, snaps : Answer(step, [job EXCEPT !.Nr_Of_Blks = nr, !.Snapshots = snaps])
    BY <2>1
  <2> DEFINE j == [job EXCEPT !.Nr_Of_Blks = nr, !.Snapshots = snaps]
  <2>2. /\ DOMAIN j = DOMAIN job
        /\ j.op = job.op /\ j.SB_Idx = job.SB_Idx /\ j.Read_SB_Idx = job.Read_SB_Idx
    BY FieldsOfJob DEF IInv, Shape
  <2>3. Answer(step, j)
    BY <2>4
  <2> HIDE DEF j
  <2> QED BY <2>0, <2>2, <2>3, AnswerShape DEF Copied
<1> QED BY <1>1, <1>2

(* So does the extension of the free tree. *)
LEMMA FTResizingIInv == IInv /\ FT_Resizing => IInv'
<1> SUFFICES ASSUME IInv, FT_Resizing PROVE IInv'
  OBVIOUS
<1>1. device' = device
  BY DEF FT_Resizing
<1>2. PICK left : Answer("FT_Ext_Step_In_FT", [job EXCEPT !.Nr_Of_Blks = left])
  BY DEF FT_Resizing
<1> DEFINE j == [job EXCEPT !.Nr_Of_Blks = left]
<1>3. /\ DOMAIN j = DOMAIN job
      /\ j.op = job.op /\ j.SB_Idx = job.SB_Idx /\ j.Read_SB_Idx = job.Read_SB_Idx
  BY FieldsOfJob DEF IInv, Shape
<1>4. Answer("FT_Ext_Step_In_FT", j)
  BY <1>2
<1> HIDE DEF j
<1> QED BY <1>1, <1>3, <1>4, AnswerShape DEF Copied

-----------------------------------------------------------------------------
(* Execute.  What an operation puts into the job "j" before it goes on to  *)
(* the state "state", other than one from the copy of the superblock on.   *)
LEMMA ElsewhereNext ==
  ASSUME IInv, job.op # "Invalid", NEW j, NEW state, job' = [j EXCEPT !.state = state],
         DOMAIN j = DOMAIN job, j.op = job.op,
         {sb_idx', j.SB_Idx, j.Read_SB_Idx} \subseteq Superblocks_Index, device' = device,
         \/ state = <<"Completed">>
         \/ \E step : step \notin Copied /\ state = <<step, "Pending">>
  PROVE  IInv'
<1>1. /\ DOMAIN job' = DOMAIN job /\ job'.op = job.op /\ job'.state = state
      /\ {job'.SB_Idx, job'.Read_SB_Idx} \subseteq Superblocks_Index
  BY FieldsOfJob DEF IInv, Shape
<1>2. Shape' /\ NoJobNoStep'
  BY <1>1 DEF IInv, Shape, NoJobNoStep
<1>3. Elsewhere'
  BY <1>1, StatesDiffer DEF Elsewhere, At
<1> QED BY <1>2, <1>3, ElsewhereIInv

(* The superblock is changed and copied in one. *)
LEMMA CopyIInv ==
  ASSUME IInv, job.op # "Invalid", NEW s, NEW j, Init_SB_Ciphertext(s, j), Idle_Ctrl,
         DOMAIN j = DOMAIN job, j.op = job.op,
         j.SB_Idx = job.SB_Idx, j.Read_SB_Idx = job.Read_SB_Idx
  PROVE  IInv'
<1>1. /\ job' = [j EXCEPT !.SB_Ciphertext = [plain |-> sb', values |-> {}],
                          !.state = <<"Encrypt_Current_Key", "Pending">>]
      /\ device' = device /\ sb_idx' = sb_idx
  BY DEF Init_SB_Ciphertext, Idle_Ctrl
<1>2. /\ DOMAIN job' = DOMAIN job /\ job'.op = job.op
      /\ job'.SB_Idx = job.SB_Idx /\ job'.Read_SB_Idx = job.Read_SB_Idx
      /\ job'.state = <<"Encrypt_Current_Key", "Pending">>
      /\ job'.SB_Ciphertext = [plain |-> sb', values |-> {}]
  BY <1>1, FieldsOfJob DEF IInv, Shape
<1>3. Shape' /\ NoJobNoStep'
  BY <1>1, <1>2 DEF IInv, Shape, NoJobNoStep
<1>4. CopyIsSuperblock'
  BY <1>2 DEF CopyIsSuperblock
<1> QED BY <1>2, <1>3, <1>4, StatesDiffer DEF IInv, NothingDirty, SuperblockWritten,
             HashIsOnDevice, Completed, Pending, At

(* The steps from the copy to the sync of the device, one after the other. *)
LEMMA PrepareIInv == IInv /\ Execute_Prepare /\ Idle_Ctrl => IInv'
<1> SUFFICES ASSUME IInv, Idle_Ctrl,
                    NEW step \in {"Encrypt_Current_Key", "Encrypt_Previous_Key",
                                  "Sync_Cache", "Write_SB"},
                    Completed(step), Then(Next_Step(step)),
                    UNCHANGED <<sb, sb_idx, curr_gen>>
             PROVE  IInv'
  BY DEF Execute_Prepare
<1> DEFINE next == Next_Step(step)
<1>1. /\ step = "Encrypt_Current_Key" => next \in {"Sync_Cache", "Encrypt_Previous_Key"}
      /\ step = "Encrypt_Previous_Key" => next = "Sync_Cache"
      /\ step = "Sync_Cache" => next = "Write_SB"
      /\ step = "Write_SB" => next = "Sync_Blk_IO"
  BY DEF Next_Step
<1> HIDE DEF next
<1>2. job' = [job EXCEPT !.state = <<next, "Pending">>] /\ UNCHANGED <<device, cached>>
  BY DEF Then, Idle_Ctrl, next
<1>3. /\ DOMAIN job' = DOMAIN job /\ job'.op = job.op
      /\ job'.SB_Idx = job.SB_Idx /\ job'.Read_SB_Idx = job.Read_SB_Idx
      /\ job'.state = <<next, "Pending">> /\ job'.SB_Ciphertext = job.SB_Ciphertext
  BY <1>2, FieldsOfJob DEF IInv, Shape
<1>4. Shape' /\ NoJobNoStep'
  BY <1>2, <1>3, StatesDiffer DEF IInv, Shape, NoJobNoStep, Completed
<1>5. At(Copied)
  BY DEF At, Copied, Completed
<1>6. CopyIsSuperblock'
  BY <1>3, <1>5 DEF IInv, CopyIsSuperblock
<1>7. step = "Write_SB" => At({"Write_SB", "Sync_Blk_IO", "Secure_SB"})
  BY DEF At, Completed
<1>8. NothingDirty'
  BY <1>1, <1>2, <1>3, <1>7, StatesDiffer DEF IInv, NothingDirty, Completed, At, Dirty
<1>9. SuperblockWritten'
  BY <1>1, <1>2, <1>3, StatesDiffer DEF IInv, SuperblockWritten, Completed, At
<1>10. HashIsOnDevice'
  BY <1>1, <1>3, StatesDiffer DEF HashIsOnDevice, Completed, Pending
<1> QED BY <1>4, <1>6, <1>8, <1>9, <1>10 DEF IInv

(* The device is synced: what the hash is taken of is what was copied,     *)
(* hence what is in the slot that is left.                                 *)
LEMMA SyncBlkIOCompletedIInv == IInv /\ Execute_Sync_Blk_IO_Completed /\ Idle_Ctrl => IInv'
<1> SUFFICES ASSUME IInv, Execute_Sync_Blk_IO_Completed, Idle_Ctrl PROVE IInv'
  OBVIOUS
<1> USE SuperblockAssumption
<1>1. /\ job' = [job EXCEPT !.Hash = sb, !.Generation = curr_gen,
                            !.state = <<"Secure_SB", "Pending">>]
      /\ UNCHANGED <<sb, device, cached>> /\ Completed("Sync_Blk_IO")
  BY DEF Execute_Sync_Blk_IO_Completed, Idle_Ctrl
<1>2. /\ DOMAIN job' = DOMAIN job /\ job'.op = job.op
      /\ job'.SB_Idx = job.SB_Idx /\ job'.Read_SB_Idx = job.Read_SB_Idx
      /\ job'.state = <<"Secure_SB", "Pending">> /\ job'.SB_Ciphertext = job.SB_Ciphertext
      /\ job'.Hash = sb
  BY <1>1, FieldsOfJob DEF IInv, Shape
<1>3. sb_idx' \in Superblocks_Index
  BY DEF IInv, Shape, Execute_Sync_Blk_IO_Completed, Next_SB_Idx, Superblocks_Index
<1>4. Shape' /\ NoJobNoStep'
  BY <1>1, <1>2, <1>3, StatesDiffer DEF IInv, Shape, NoJobNoStep, Completed
<1>5. /\ At(Copied) /\ At({"Sync_Blk_IO"})
      /\ At({"Write_SB", "Sync_Blk_IO", "Secure_SB"})
  BY <1>1 DEF At, Copied, Completed
<1>6. CopyIsSuperblock' /\ NothingDirty'
  BY <1>1, <1>2, <1>5 DEF IInv, CopyIsSuperblock, NothingDirty, Dirty
<1>7. SuperblockWritten'
  BY <1>2, StatesDiffer DEF SuperblockWritten, Completed, At
<1>8. device.superblocks[sb_idx].plain = sb /\ AllSynced /\ sb_idx \in Superblocks_Index
  BY <1>1, <1>5 DEF IInv, SuperblockWritten, HashIsOnDevice, Shape
<1>9. HashIsOnDevice'
  BY <1>1, <1>2, <1>8, StatesDiffer DEF HashIsOnDevice, AllSynced, Completed
<1> QED BY <1>4, <1>6, <1>7, <1>9 DEF IInv

(* The next step is one before the copy. *)
LEMMA ThenIInv ==
  ASSUME IInv, job.op # "Invalid", NEW step, step \notin Copied, Then(step),
         sb_idx' = sb_idx, device' = device
  PROVE  IInv'
<1>1. {sb_idx', job.SB_Idx, job.Read_SB_Idx} \subseteq Superblocks_Index
  BY DEF IInv, Shape
<1> QED BY <1>1, ElsewhereNext DEF Then

(* The job ends. *)
LEMMA EndIInv ==
  ASSUME IInv, job.op # "Invalid", NEW success,
         job' = [job EXCEPT !.success = success, !.state = <<"Completed">>],
         sb_idx' \in Superblocks_Index, device' = device
  PROVE  IInv'
<1> DEFINE j == [job EXCEPT !.success = success]
<1>1. /\ DOMAIN j = DOMAIN job /\ j.op = job.op
      /\ {sb_idx', j.SB_Idx, j.Read_SB_Idx} \subseteq Superblocks_Index
  BY FieldsOfJob DEF IInv, Shape
<1>2. job' = [j EXCEPT !.state = <<"Completed">>]
  OBVIOUS
<1> HIDE DEF j
<1> QED BY <1>1, <1>2, ElsewhereNext

(* Operations that only change the superblock before the copy. *)
LEMMA ShortOperationsIInv ==
  ASSUME IInv, Idle_Ctrl,
         \/ Execute_Sync \/ Execute_Create_Snapshot \/ Execute_Discard_Snapshot
         \/ Execute_Secure_SB_Completed
  PROVE  IInv'
<1>1. job.op # "Invalid"
  BY StatesDiffer DEF Execute_Sync, Execute_Create_Snapshot, Execute_Discard_Snapshot,
     Execute_Secure_SB_Completed, Submitted, Completed, IInv, NoJobNoStep
<1>2. ASSUME NEW s, Init_SB_Ciphertext(s, job) PROVE IInv'
  BY <1>1, <1>2, CopyIInv
<1>3. CASE Execute_Sync
  BY <1>2, <1>3 DEF Execute_Sync
<1>4. CASE Execute_Create_Snapshot
  BY <1>2, <1>4 DEF Execute_Create_Snapshot
<1>5. CASE Execute_Discard_Snapshot
  <2>1. ASSUME job' = [job EXCEPT !.success = FALSE, !.state = <<"Completed">>],
               UNCHANGED <<sb, sb_idx, curr_gen>>
        PROVE  IInv'
    <3>1. sb_idx' \in Superblocks_Index /\ device' = device
      BY <2>1 DEF IInv, Shape, Idle_Ctrl
    <3> QED BY <1>1, <2>1, <3>1, EndIInv
  <2> QED BY <1>2, <1>5, <2>1 DEF Execute_Discard_Snapshot
<1>6. CASE Execute_Secure_SB_Completed
  <2>1. sb_idx' \in Superblocks_Index /\ device' = device
    BY <1>6 DEF Execute_Secure_SB_Completed, IInv, Shape, Idle_Ctrl
  <2> QED BY <1>1, <1>6, <2>1, EndIInv DEF Execute_Secure_SB_Completed
<1> QED BY <1>3, <1>4, <1>5, <1>6

(* Rekeying: other modules have their steps before the copy. *)
LEMMA RekeyingIInv ==
  ASSUME IInv, Idle_Ctrl, Execute_Initialize_Rekeying \/ Execute_Rekey_VBA
  PROVE  IInv'
<1>1. job.op # "Invalid" /\ device' = device
  BY DEF Execute_Initialize_Rekeying, Execute_Rekey_VBA, Idle_Ctrl
<1>2. ASSUME NEW step \in {"Create_Key", "Add_Key", "Rekey_VBA_In_VBD",
                           "Remove_Previous_Key"},
             Then(step), sb_idx' = sb_idx
      PROVE  IInv'
  BY <1>1, <1>2, ThenIInv DEF Copied
<1>3. ASSUME NEW s, Init_SB_Ciphertext(s, job) PROVE IInv'
  BY <1>1, <1>3, CopyIInv
<1>4. ASSUME NEW s, NEW finished,
             Init_SB_Ciphertext(s, [job EXCEPT !.Request_Finished = finished])
      PROVE  IInv'
  <2> DEFINE j == [job EXCEPT !.Request_Finished = finished]
  <2>1. /\ DOMAIN j = DOMAIN job /\ j.op = job.op
        /\ j.SB_Idx = job.SB_Idx /\ j.Read_SB_Idx = job.Read_SB_Idx
    BY FieldsOfJob DEF IInv, Shape
  <2>2. Init_SB_Ciphertext(s, j)
    BY <1>4
  <2> HIDE DEF j
  <2> QED BY <1>1, <2>1, <2>2, CopyIInv
<1>5. CASE Execute_Initialize_Rekeying
  BY <1>2, <1>3, <1>5 DEF Execute_Initialize_Rekeying
<1>6. CASE Execute_Rekey_VBA
  BY <1>2, <1>4, <1>6 DEF Execute_Rekey_VBA
<1> QED BY <1>5, <1>6

(* The extension of a tree. *)
LEMMA ExtensionIInv == IInv /\ Idle_Ctrl /\ Execute_Extension_Step => IInv'
<1> SUFFICES ASSUME IInv, Idle_Ctrl, Execute_Extension_Step PROVE IInv'
  OBVIOUS
<1>1. job.op # "Invalid" /\ device' = device /\ job.op \in DOMAIN Extending
  BY DEF Execute_Extension_Step, Extending, Idle_Ctrl
<1>2. ASSUME NEW s, NEW finished,
             Init_SB_Ciphertext(s, [job EXCEPT !.Request_Finished = finished])
      PROVE  IInv'
  <2> DEFINE j == [job EXCEPT !.Request_Finished = finished]
  <2>1. /\ DOMAIN j = DOMAIN job /\ j.op = job.op
        /\ j.SB_Idx = job.SB_Idx /\ j.Read_SB_Idx = job.Read_SB_Idx
    BY FieldsOfJob DEF IInv, Shape
  <2>2. Init_SB_Ciphertext(s, j)
    BY <1>2
  <2> HIDE DEF j
  <2> QED BY <1>1, <2>1, <2>2, CopyIInv
<1>3. ASSUME NEW nr, job' = [job EXCEPT !.Nr_Of_Blks = nr,
                                        !.state = <<Extend_In[job.op], "Pending">>],
             UNCHANGED <<sb, sb_idx, curr_gen>>
      PROVE  IInv'
  <2> DEFINE j == [job EXCEPT !.Nr_Of_Blks = nr]
  <2>1. /\ DOMAIN j = DOMAIN job /\ j.op = job.op
        /\ {sb_idx', j.SB_Idx, j.Read_SB_Idx} \subseteq Superblocks_Index
    BY <1>3, FieldsOfJob DEF IInv, Shape
  <2>2. Extend_In[job.op] \notin Copied
    BY <1>1 DEF Extending, Extend_In, Copied
  <2>3. job' = [j EXCEPT !.state = <<Extend_In[job.op], "Pending">>]
    BY <1>3
  <2> HIDE DEF j
  <2> QED BY <1>1, <2>1, <2>2, <2>3, ElsewhereNext
<1> QED BY <1>2, <1>3 DEF Execute_Extension_Step

(* The end, and the start. *)
LEMMA DeinitializeIInv == IInv /\ Idle_Ctrl /\ Execute_Deinitialize => IInv'
<1> SUFFICES ASSUME IInv, Idle_Ctrl, Execute_Deinitialize PROVE IInv'
  OBVIOUS
<1>1. job.op # "Invalid" /\ device' = device /\ sb_idx' = sb_idx
      /\ sb_idx' \in Superblocks_Index
  BY DEF Execute_Deinitialize, Idle_Ctrl, IInv, Shape
<1>2. ASSUME NEW step \in {"Remove_Current_Key", "Remove_Previous_Key"}, Then(step)
      PROVE  IInv'
  BY <1>1, <1>2, ThenIInv DEF Copied
<1>3. ASSUME job' = [job EXCEPT !.success = TRUE, !.state = <<"Completed">>] PROVE IInv'
  BY <1>1, <1>3, EndIInv
<1> QED BY <1>2, <1>3 DEF Execute_Deinitialize

(* The start writes nothing. *)
LEMMA InitializeIInv == IInv /\ Idle_Ctrl /\ Execute_Initialize => IInv'
<1> SUFFICES ASSUME IInv, Idle_Ctrl, Execute_Initialize PROVE IInv'
  OBVIOUS
<1> USE SuperblockAssumption
<1>1. job.op # "Invalid" /\ device' = device
  BY DEF Execute_Initialize, Idle_Ctrl
<1>2. ASSUME NEW step \in {"Read_SB", "Decrypt_Current_Key", "Add_Current_Key",
                           "Decrypt_Previous_Key", "Add_Previous_Key"},
             Then(step), sb_idx' = sb_idx
      PROVE  IInv'
  BY <1>1, <1>2, ThenIInv DEF Copied
<1>3. CASE Init_SB_Plaintext
  <2>1. sb_idx' \in Superblocks_Index
    BY <1>3 DEF Init_SB_Plaintext, IInv, Shape
  <2> QED BY <1>1, <1>3, <2>1, EndIInv DEF Init_SB_Plaintext
<1>4. /\ DOMAIN Chosen = DOMAIN job /\ Chosen.op = job.op
      /\ Chosen.SB_Idx \in Superblocks_Index /\ Chosen.Read_SB_Idx = job.Read_SB_Idx
  BY FieldsOfJob DEF Chosen, IInv, Shape
<1>5. ASSUME job.Read_SB_Idx < Superblocks_Last, sb_idx' = sb_idx,
             job' = [Chosen EXCEPT !.Read_SB_Idx = @ + 1, !.state = <<"Read_SB", "Pending">>]
      PROVE  IInv'
  <2> DEFINE j == [Chosen EXCEPT !.Read_SB_Idx = @ + 1]
  <2>1. /\ DOMAIN j = DOMAIN job /\ j.op = job.op
        /\ {sb_idx', j.SB_Idx, j.Read_SB_Idx} \subseteq Superblocks_Index
    BY <1>4, <1>5, FieldsOfJob DEF IInv, Shape, Superblocks_Index
  <2>2. job' = [j EXCEPT !.state = <<"Read_SB", "Pending">>]
    BY <1>5
  <2> HIDE DEF j
  <2> QED BY <1>1, <2>1, <2>2, ElsewhereNext DEF Copied
<1>6. ASSUME sb_idx' = sb_idx, job' = [Chosen EXCEPT !.state = <<"Read_Current_SB", "Pending">>]
      PROVE  IInv'
  <2>1. {sb_idx', Chosen.SB_Idx, Chosen.Read_SB_Idx} \subseteq Superblocks_Index
    BY <1>4, <1>6 DEF IInv, Shape
  <2> QED BY <1>1, <1>4, <1>6, <2>1, ElsewhereNext DEF Copied
<1> QED BY <1>2, <1>3, <1>5, <1>6 DEF Execute_Initialize

(* Program_Error is raised before anything is changed. *)
LEMMA RaiseIInv == IInv /\ Raise_Program_Error => IInv'
BY DEF Raise_Program_Error, IInv, Shape, NoJobNoStep, CopyIsSuperblock, NothingDirty, Dirty,
       SuperblockWritten, HashIsOnDevice, AllSynced, At, Completed, Pending

(* All of Execute. *)
LEMMA ExecuteIInv == IInv /\ Execute => IInv'
BY PrepareIInv, SyncBlkIOCompletedIInv, ShortOperationsIInv, RekeyingIInv, ExtensionIInv,
   DeinitializeIInv, InitializeIInv, RaiseIInv DEF Execute

-----------------------------------------------------------------------------
(* Every step keeps the invariant. *)
THEOREM NextIInv == IInv /\ [Next]_vars => IInv'
<1> SUFFICES ASSUME IInv, [Next]_vars PROVE IInv'
  OBVIOUS
<1>1. CASE UNCHANGED vars
  BY <1>1 DEF vars, IInv, Shape, NoJobNoStep, CopyIsSuperblock, NothingDirty, Dirty,
     SuperblockWritten, HashIsOnDevice, AllSynced, At, Completed, Pending
<1>2. CASE Next
  BY <1>2, SubmitIInv, DropIInv, WritebackIInv, ExecuteIInv, TrustAnchorIInv, CryptoIInv,
     CacheSyncIInv, CacheWriteBackIInv, BlockIOIInv, VBDRekeyingIInv, FTResizingIInv,
     RestartIInv DEF Next
<1> QED BY <1>1, <1>2

(* What is known of the superblock on its way to the trust anchor, at any  *)
(* time and for all constants.                                             *)
THEOREM Invariance == Spec => []IInv
<1> QED BY InitIInv, NextIInv, PTL DEF Spec

(* Steps but a restart. *)
LEMMA OnlyRestartCounts ==
  ASSUME [Next]_vars, ~Restart
  PROVE  UNCHANGED restarts /\ (Trust_Anchor \/ UNCHANGED secured)
<1>1. CASE UNCHANGED vars
  BY <1>1 DEF vars
<1>2. CASE Execute
  BY <1>2 DEF Execute, Raise_Program_Error, Idle_Ctrl
<1>3. CASE (\E op \in Operations : Submit_Primitive(op)) \/ Drop_Completed_Primitive
  BY <1>3 DEF Submit_Primitive, Drop_Completed_Primitive
<1>4. CASE \E v \in VBA : Execute_Writeback(v)
  BY <1>4 DEF Execute_Writeback, Raise_Program_Error
<1>5. CASE Trust_Anchor \/ Crypto \/ Cache_Sync \/ Cache_Write_Back \/ Block_IO
  BY <1>5 DEF Trust_Anchor, Crypto, Cache_Sync, Cache_Write_Back, Block_IO, Answer
<1>6. CASE VBD_Rekeying
  BY <1>6 DEF VBD_Rekeying, Raise_Program_Error, VBD_Rekeying_Rekey_VBA,
     VBD_Rekeying_VBD_Extension_Step, Answer
<1>7. CASE FT_Resizing
  BY <1>7 DEF FT_Resizing, Answer
<1> QED BY <1>1, <1>2, <1>3, <1>4, <1>5, <1>6, <1>7 DEF Next

RestartsCounted == restarts \in Nat

(* By its count, a restart is told from other steps. *)
LEMMA RestartsAlwaysCounted == Spec => []RestartsCounted
<1>1. Init => RestartsCounted
  BY DEF Init, RestartsCounted
<1>2. RestartsCounted /\ [Next]_vars => RestartsCounted'
  BY OnlyRestartCounts DEF Restart, RestartsCounted
<1> QED BY <1>1, <1>2, PTL DEF Spec

(* The trust anchor secures only what is on the device for good.           *)
THEOREM SecuredStable == Spec => SecuredIsStable
<1>1. ASSUME IInv, RestartsCounted, [Next]_vars, secured' # secured, restarts' = restarts
      PROVE  \E i \in Superblocks_Index \ device.unsynced_sbs :
               /\ device.superblocks[i].plain = secured'
               /\ \A k \in Valid_Snaps(secured'.Snapshots) :
                    secured'.Snapshots[k].PBA \notin device.unsynced_trees \cup Dirty
  <2>1. Trust_Anchor
    BY <1>1, OnlyRestartCounts DEF Restart, RestartsCounted
  <2>2. Pending("Secure_SB") /\ secured' = job.Hash
    BY <1>1, <2>1 DEF Trust_Anchor, Answer, Pending
  <2>3. Dirty = {} /\ AllSynced
    BY <1>1, <2>2 DEF IInv, NothingDirty, HashIsOnDevice, At, Pending
  <2> QED BY <1>1, <2>2, <2>3 DEF IInv, HashIsOnDevice, AllSynced
<1> DEFINE Step == secured' # secured /\ restarts' = restarts =>
                     \E i \in Superblocks_Index \ device.unsynced_sbs :
                       /\ device.superblocks[i].plain = secured'
                       /\ \A k \in Valid_Snaps(secured'.Snapshots) :
                            secured'.Snapshots[k].PBA \notin device.unsynced_trees \cup Dirty
<1>2. IInv /\ RestartsCounted /\ [Next]_vars => [Step]_vars
  BY <1>1
<1> HIDE DEF Step
<1>3. Spec => [][Step]_vars
  BY <1>2, Invariance, RestartsAlwaysCounted, PTL DEF Spec
<1> QED BY <1>3 DEF Step, SecuredIsStable

-----------------------------------------------------------------------------
(***************************************************************************)
(* The keys at the crypto module.                                          *)
(***************************************************************************)
(* The keys by which a virtual block device is read and written. *)
Needed(s) == {s.Current_Key} \cup IF s.State = "Rekeying" THEN {s.Previous_Key} ELSE {}

Fields(s) ==
  /\ DOMAIN s = DOMAIN Superblock_Invalid
  /\ s.State \in {"Invalid", "Normal", "Rekeying", "Extending_VBD", "Extending_FT"}

(* A rekeying is from one key to another. *)
Keyed(s) ==
  s.State # "Invalid" =>
    /\ s.Current_Key \in Nat
    /\ s.State = "Rekeying" => s.Previous_Key # s.Current_Key

(* What a superblock on the device needs is in it. *)
Usable(c) ==
  /\ Fields(c.plain) /\ Keyed(c.plain)
  /\ c.plain.State # "Invalid" => Needed(c.plain) \subseteq c.values

DeviceUsable == \A i \in Superblocks_Index : Usable(device.superblocks[i])

Starting == job.op = "Initialize" /\ job.state # <<"Completed">>
NoJob    == job.op = "Invalid" \/ job.state = <<"Completed">>
Working  == ~Starting /\ ~NoJob

(* Each step belongs to the operations that take it. *)
StepOfOperation ==
  /\ At({"Read_SB", "Read_Current_SB", "Decrypt_Current_Key", "Add_Current_Key",
         "Decrypt_Previous_Key", "Add_Previous_Key"}) => job.op = "Initialize"
  /\ At({"Create_Key", "Add_Key"}) => job.op = "Initialize_Rekeying"
  /\ At({"Rekey_VBA_In_VBD"}) => job.op = "Rekey_VBA"
  /\ At({"VBD_Ext_Step_In_VBD"}) => job.op = "VBD_Extension_Step"
  /\ At({"FT_Ext_Step_In_FT"}) => job.op = "FT_Extension_Step"
  /\ At({"Remove_Current_Key"}) => job.op = "Deinitialize"
  /\ At({"Remove_Previous_Key"}) => job.op \in {"Rekey_VBA", "Deinitialize"}
  /\ At(Copied) => job.op \notin {"Initialize", "Deinitialize"}

(* What the start has found so far. *)
StartConsistent ==
  Starting =>
    /\ sb.State = "Invalid"
    /\ job.SB_Found => device.superblocks[job.SB_Idx].plain.State # "Invalid"
    /\ Completed("Read_SB") => job.SB_Ciphertext = device.superblocks[job.Read_SB_Idx]
    /\ Pending("Read_Current_SB") => job.SB_Found
    /\ \/ Completed("Read_Current_SB")
       \/ At({"Decrypt_Current_Key", "Add_Current_Key", "Decrypt_Previous_Key",
              "Add_Previous_Key"})
       => Usable(job.SB_Ciphertext) /\ job.SB_Ciphertext.plain.State # "Invalid"
    /\ At({"Decrypt_Previous_Key", "Add_Previous_Key"}) =>
         job.SB_Ciphertext.plain.State = "Rekeying"

(* The state of the superblock on which an operation works. *)
StateOfOperation ==
  Working =>
    /\ sb.State # "Invalid"
    /\ job.op = "Rekey_VBA" /\ ~At(Copied) => sb.State = "Rekeying"
    /\ job.op \in DOMAIN Extending => sb.State # "Rekeying"
    /\ At({"Add_Key"}) \/ (job.op = "Deinitialize" /\ At({"Remove_Previous_Key"})) =>
         sb.State = "Rekeying"
    /\ At({"Encrypt_Current_Key"}) /\ job.op = "Rekey_VBA" /\ job.Request_Finished =>
         sb.State # "Rekeying"

(* Which keys the crypto module has at each step. *)
KeysWhileStarting ==
  Starting =>
    /\ \/ Completed("Add_Current_Key") \/ At({"Decrypt_Previous_Key"})
       \/ Pending("Add_Previous_Key")
       => keys = {job.SB_Ciphertext.plain.Current_Key}
    /\ Completed("Add_Previous_Key") => keys = Needed(job.SB_Ciphertext.plain)
    /\ ~(Completed("Add_Current_Key") \/ At({"Decrypt_Previous_Key", "Add_Previous_Key"})) =>
         keys = {}

KeysWhileWorking ==
  Working =>
    CASE Pending("Add_Key")                 -> keys = Needed(sb) \ {sb.Current_Key}
      [] Completed("Remove_Current_Key")    -> keys = Needed(sb) \ {sb.Current_Key}
      [] At({"Remove_Previous_Key"}) /\ job.op = "Deinitialize" ->
           keys = IF Pending("Remove_Previous_Key") THEN {sb.Previous_Key} ELSE {}
      [] Completed("Remove_Previous_Key") /\ job.op = "Rekey_VBA" -> keys = {sb.Current_Key}
      [] OTHER -> keys = Needed(sb)

(* After the start, and after each operation but the last. *)
KeysWithoutJob ==
  NoJob => \/ keys = Needed(sb) /\ sb.State # "Invalid" /\ job.op # "Deinitialize"
           \/ keys = {} /\ job.op \in {"Invalid", "Deinitialize"}

(* The copy for the device gets its keys one after the other. *)
CopyHasKeys ==
  /\ Completed("Encrypt_Current_Key") \/ At({"Encrypt_Previous_Key", "Sync_Cache"})
     \/ Pending("Write_SB") =>
       sb.Current_Key \in job.SB_Ciphertext.values
  /\ Completed("Encrypt_Previous_Key") \/ At({"Sync_Cache"}) \/ Pending("Write_SB") =>
       Needed(sb) \subseteq job.SB_Ciphertext.values

KInv ==
  /\ Fields(sb) /\ Keyed(sb)
  /\ DeviceUsable
  /\ StepOfOperation
  /\ StartConsistent
  /\ StateOfOperation
  /\ KeysWhileStarting
  /\ KeysWhileWorking
  /\ KeysWithoutJob
  /\ CopyHasKeys
-----------------------------------------------------------------------------
(* The fields that the steps change one by one. *)
LEMMA FieldsOfSuperblock ==
  DOMAIN Superblock_Invalid = {"State", "Rekeying_VBA", "Resizing_Nr_Of_PBAs", "Previous_Key",
                               "Current_Key", "Snapshots", "Curr_Snap",
                               "Last_Secured_Generation"}
BY DEF Superblock_Invalid

(* Between two jobs and before the first step of one, little is to say.    *)
LEMMA AtNoStep ==
  ASSUME job'.state \in {<<"Submitted">>, <<"Completed">>}
  PROVE  /\ StepOfOperation' /\ CopyHasKeys'
         /\ \A steps : ~At(steps)'
         /\ \A step : ~Completed(step)' /\ ~Pending(step)'
BY StatesDiffer DEF At, Completed, Pending, StepOfOperation, CopyHasKeys

(* The device as the initializers leave it is usable. *)
LEMMA InitialDeviceUsable == \A i \in Superblocks_Index : Usable(Initial_Device.superblocks[i])
<1> TAKE i \in Superblocks_Index
<1>1. CASE i = 0
  <2>1. Initial_Device.superblocks[i] = [plain |-> Initial_Superblock, values |-> {1}]
    BY <1>1 DEF Initial_Device
  <2>2. /\ DOMAIN Initial_Superblock = DOMAIN Superblock_Invalid
        /\ Initial_Superblock.State = "Normal" /\ Initial_Superblock.Current_Key = 1
    BY FieldsOfSuperblock DEF Initial_Superblock, Superblock_Invalid
  <2> QED BY <2>1, <2>2 DEF Usable, Fields, Keyed, Needed
<1>2. CASE i # 0
  <2>1. Initial_Device.superblocks[i] = Ciphertext_Invalid
    BY <1>2 DEF Initial_Device
  <2> QED BY <2>1 DEF Usable, Fields, Keyed, Ciphertext_Invalid, Superblock_Invalid
<1> QED BY <1>1, <1>2

(* A start, whatever it is to find. *)
LEMMA StartKInv ==
  ASSUME DeviceUsable', sb' = Superblock_Invalid, keys' = {},
         job' = [Job_Invalid EXCEPT !.op = "Initialize"]
  PROVE  KInv'
<1>1. job'.op = "Initialize" /\ job'.state = <<"Submitted">> /\ ~job'.SB_Found
  BY DEF Job_Invalid
<1>2. Fields(sb)' /\ Keyed(sb)' /\ sb'.State = "Invalid"
  BY DEF Fields, Keyed, Superblock_Invalid
<1>3. Starting' /\ ~Working' /\ ~NoJob'
  BY <1>1, StatesDiffer DEF Starting, Working, NoJob
<1> QED BY <1>1, <1>2, <1>3, AtNoStep DEF KInv, StartConsistent, StateOfOperation,
             KeysWhileStarting, KeysWhileWorking, KeysWithoutJob

(* Initially there is no key, and the device is as the initializers left   *)
(* it.                                                                     *)
THEOREM InitKInv == Init => KInv
<1> SUFFICES ASSUME Init PROVE KInv
  OBVIOUS
<1>1. job.op = "Initialize" /\ job.state = <<"Submitted">> /\ ~job.SB_Found
  BY DEF Init, Job_Invalid
<1>2. Fields(sb) /\ Keyed(sb) /\ sb.State = "Invalid" /\ keys = {}
  BY DEF Init, Fields, Keyed, Superblock_Invalid
<1>3. Starting /\ ~Working /\ ~NoJob
  BY <1>1, StatesDiffer DEF Starting, Working, NoJob
<1>4. DeviceUsable
  BY InitialDeviceUsable DEF DeviceUsable, Init
<1>5. /\ \A steps : ~At(steps)
      /\ \A step : ~Completed(step) /\ ~Pending(step)
  BY <1>1, StatesDiffer DEF At, Completed, Pending
<1>6. StepOfOperation /\ CopyHasKeys
  BY <1>5 DEF StepOfOperation, CopyHasKeys
<1> QED BY <1>1, <1>2, <1>3, <1>4, <1>5, <1>6 DEF KInv, StartConsistent, StateOfOperation,
             KeysWhileStarting, KeysWhileWorking, KeysWithoutJob

(* Stopping loses the keys; what is on the device stays usable. *)
LEMMA RestartKInv == KInv /\ Restart => KInv'
BY StartKInv DEF KInv, DeviceUsable, Restart

-----------------------------------------------------------------------------
(* A job is submitted while the keys are there, and fits the superblock.   *)
LEMMA SubmitKInv ==
  ASSUME IInv, KInv, NEW op \in Operations, Submit_Primitive(op)
  PROVE  KInv'
<1>1. PICK gen \in Generation, nr \in 1 .. Max_Nr_Of_Blks :
        job' = [job EXCEPT !.op = op, !.state = <<"Submitted">>, !.success = FALSE,
                           !.Generation = gen, !.Nr_Of_Blks = nr]
  BY DEF Submit_Primitive
<1>2. job'.op = op /\ job'.state = <<"Submitted">>
  BY <1>1, FieldsOfJob DEF IInv, Shape
<1>3. UNCHANGED <<sb, keys, device>> /\ op \in Requestable[sb.State] /\ job.op = "Invalid"
      /\ keys # {}
  BY DEF Submit_Primitive, Ready
<1>4. op \notin {"Invalid", "Initialize"}
  BY DEF Operations
<1>5. Working' /\ ~Starting' /\ ~NoJob'
  BY <1>2, <1>4, StatesDiffer DEF Starting, Working, NoJob
<1>6. keys = Needed(sb) /\ sb.State # "Invalid"
  BY <1>3 DEF KInv, KeysWithoutJob, NoJob
<1>7. /\ op = "Rekey_VBA" => sb.State = "Rekeying"
      /\ op \in DOMAIN Extending => sb.State # "Rekeying"
  BY <1>3 DEF Requestable, KInv, Fields, Extending, Operations
<1>8. StateOfOperation' /\ KeysWhileWorking'
  BY <1>2, <1>3, <1>5, <1>6, <1>7, AtNoStep DEF StateOfOperation, KeysWhileWorking, Needed
<1>9. StartConsistent' /\ KeysWhileStarting' /\ KeysWithoutJob'
  BY <1>5 DEF StartConsistent, KeysWhileStarting, KeysWithoutJob
<1> QED BY <1>2, <1>3, <1>8, <1>9, AtNoStep DEF KInv, DeviceUsable

(* A finished job is dropped, the keys stay as it left them. *)
LEMMA DropKInv == IInv /\ KInv /\ Drop_Completed_Primitive => KInv'
<1> SUFFICES ASSUME IInv, KInv, Drop_Completed_Primitive PROVE KInv'
  OBVIOUS
<1>1. job' = [Job_Invalid EXCEPT !.Request_Finished = job.Request_Finished]
      /\ UNCHANGED <<sb, keys, device>> /\ NoJob
  BY DEF Drop_Completed_Primitive, NoJob
<1>2. job'.op = "Invalid" /\ job'.state = <<"Submitted">>
  BY <1>1 DEF Job_Invalid
<1>3. ~Working' /\ ~Starting' /\ NoJob'
  BY <1>2 DEF Working, Starting, NoJob
<1>4. KeysWithoutJob'
  BY <1>1, <1>2 DEF KInv, KeysWithoutJob, Needed
<1> QED BY <1>1, <1>2, <1>3, <1>4, AtNoStep DEF KInv, DeviceUsable, StartConsistent,
             StateOfOperation, KeysWhileStarting, KeysWhileWorking

(* A write changes the snapshots of the superblock only. *)
LEMMA WritebackKInv ==
  ASSUME IInv, KInv, NEW v \in VBA, Execute_Writeback(v)
  PROVE  KInv'
<1>1. job' = job /\ job.op = "Invalid" /\ UNCHANGED <<keys, device>>
  BY DEF Execute_Writeback, Ready, Raise_Program_Error
<1>2. /\ DOMAIN sb' = DOMAIN sb /\ sb'.State = sb.State
      /\ sb'.Current_Key = sb.Current_Key /\ sb'.Previous_Key = sb.Previous_Key
  <2>1. CASE sb' = sb
    BY <2>1
  <2>2. CASE \E h : sb' \in Writeback_Snaps(h)
    <3>1. PICK i, snap : sb' = [sb EXCEPT !.Curr_Snap = i, !.Snapshots[i] = snap]
      BY <2>2 DEF Writeback_Snaps
    <3> QED BY <3>1, FieldsOfSuperblock DEF KInv, Fields
  <2> QED BY <2>1, <2>2 DEF Execute_Writeback, Raise_Program_Error
<1>3. job'.state = <<"Submitted">> /\ NoJob /\ NoJob' /\ ~Starting' /\ ~Working'
  BY <1>1 DEF IInv, NoJobNoStep, NoJob, Starting, Working
<1>4. KeysWithoutJob'
  BY <1>1, <1>2, <1>3 DEF KInv, KeysWithoutJob, Needed
<1>5. Fields(sb)' /\ Keyed(sb)'
  BY <1>2 DEF KInv, Fields, Keyed
<1> QED BY <1>1, <1>3, <1>4, <1>5, AtNoStep DEF KInv, DeviceUsable, StartConsistent,
             StateOfOperation, KeysWhileStarting, KeysWhileWorking
-----------------------------------------------------------------------------
(* What of the job an answer leaves alone. *)
Kept_Of(j) ==
  /\ DOMAIN j = DOMAIN job /\ j.op = job.op /\ j.SB_Found = job.SB_Found
  /\ j.SB_Idx = job.SB_Idx /\ j.Read_SB_Idx = job.Read_SB_Idx
  /\ j.Request_Finished = job.Request_Finished

(* The job, before and after an answer. *)
LEMMA AnswerToJob ==
  ASSUME IInv, NEW step, NEW j, Answer(step, j), Kept_Of(j)
  PROVE  /\ DOMAIN job' = DOMAIN job /\ job'.op = job.op /\ job'.SB_Found = job.SB_Found
         /\ job'.SB_Idx = job.SB_Idx /\ job'.Read_SB_Idx = job.Read_SB_Idx
         /\ job'.Request_Finished = job.Request_Finished
         /\ job'.SB_Ciphertext = j.SB_Ciphertext
         /\ job.state = <<step, "Pending">> /\ job'.state = <<step, "Completed">>
         /\ UNCHANGED sb
         /\ \A steps : At(steps)' <=> At(steps)
         /\ \A steps : At(steps) <=> step \in steps
         /\ \A x : Completed(x)' <=> x = step
         /\ \A x : Pending(x) <=> x = step
         /\ \A x : ~Completed(x) /\ ~Pending(x)'
         /\ job.op # "Invalid" /\ ~NoJob /\ ~NoJob'
         /\ Starting <=> job.op = "Initialize"
         /\ Starting' <=> job.op = "Initialize"
         /\ Working <=> job.op # "Initialize"
         /\ Working' <=> job.op # "Initialize"
<1>1. job' = [j EXCEPT !.state = <<step, "Completed">>] /\ sb' = sb
      /\ job.state = <<step, "Pending">>
  BY DEF Answer
<1>2. /\ DOMAIN job' = DOMAIN job /\ job'.op = job.op /\ job'.SB_Found = job.SB_Found
      /\ job'.SB_Idx = job.SB_Idx /\ job'.Read_SB_Idx = job.Read_SB_Idx
      /\ job'.Request_Finished = job.Request_Finished
      /\ job'.SB_Ciphertext = j.SB_Ciphertext /\ job'.state = <<step, "Completed">>
  BY <1>1, FieldsOfJob DEF IInv, Shape, Kept_Of
<1>3. job.op # "Invalid"
  BY <1>1, StatesDiffer DEF IInv, NoJobNoStep
<1>4. ~NoJob /\ ~NoJob'
  BY <1>1, <1>2, <1>3, StatesDiffer DEF NoJob
<1>5. /\ Starting <=> job.op = "Initialize"
      /\ Starting' <=> job.op = "Initialize"
  BY <1>1, <1>2, StatesDiffer DEF Starting
<1>6. /\ \A steps : At(steps)' <=> step \in steps
      /\ \A steps : At(steps) <=> step \in steps
  BY <1>1, <1>2, StatesDiffer DEF At
<1>7. /\ \A x : Completed(x)' <=> x = step
      /\ \A x : Pending(x) <=> x = step
      /\ \A x : ~Completed(x) /\ ~Pending(x)'
  BY <1>1, <1>2, StatesDiffer DEF Completed, Pending
<1> QED BY <1>1, <1>2, <1>3, <1>4, <1>5, <1>6, <1>7 DEF Working

(* Answers of modules that deal with no key. *)
LEMMA QuietAnswerKInv ==
  ASSUME IInv, KInv, NEW step, NEW j, Answer(step, j), Kept_Of(j),
         j.SB_Ciphertext = job.SB_Ciphertext, keys' = keys,
         device'.superblocks = device.superblocks,
         step \in {"Create_Key", "Decrypt_Current_Key", "Decrypt_Previous_Key", "Secure_SB",
                   "Sync_Cache", "Sync_Blk_IO", "Rekey_VBA_In_VBD", "VBD_Ext_Step_In_VBD",
                   "FT_Ext_Step_In_FT"}
  PROVE  KInv'
<1>1. Fields(sb)' /\ Keyed(sb)' /\ DeviceUsable' /\ KeysWithoutJob'
  BY AnswerToJob DEF KInv, DeviceUsable, KeysWithoutJob
<1>2. StepOfOperation'
  BY AnswerToJob DEF KInv, StepOfOperation
<1>3. StartConsistent'
  BY AnswerToJob DEF KInv, StartConsistent
<1>4. StateOfOperation'
  BY AnswerToJob DEF KInv, StateOfOperation
<1>5. KeysWhileStarting'
  BY AnswerToJob DEF KInv, KeysWhileStarting
<1>6. KeysWhileWorking'
  BY AnswerToJob DEF KInv, KeysWhileWorking, Needed
<1>7. CopyHasKeys'
  BY AnswerToJob DEF KInv, CopyHasKeys, Needed
<1> QED BY <1>1, <1>2, <1>3, <1>4, <1>5, <1>6, <1>7 DEF KInv

(* Most answers leave the job but for its state. *)
LEMMA JobIsKept == IInv => Kept_Of(job)
BY DEF Kept_Of

(* The trust anchor encrypts the key into the copy. *)
LEMMA EncryptKInv ==
  ASSUME IInv, KInv, NEW step, NEW key,
         \/ step = "Encrypt_Current_Key" /\ key = sb.Current_Key
         \/ step = "Encrypt_Previous_Key" /\ key = sb.Previous_Key,
         Answer(step, [job EXCEPT !.SB_Ciphertext.values = @ \cup {key}]),
         UNCHANGED <<keys, device>>
  PROVE  KInv'
<1> DEFINE j == [job EXCEPT !.SB_Ciphertext.values = @ \cup {key}]
<1>0. Answer(step, j)
  OBVIOUS
<1>1. At(Copied)
  BY <1>0 DEF Answer, At, Copied
<1>2. DOMAIN job.SB_Ciphertext = {"plain", "values"}
  BY <1>1 DEF IInv, CopyIsSuperblock
<1>3. /\ Kept_Of(j)
      /\ j.SB_Ciphertext.values = job.SB_Ciphertext.values \cup {key}
  BY <1>2, FieldsOfJob DEF IInv, Shape, Kept_Of
<1> HIDE DEF j
<1>4. job'.SB_Ciphertext.values = job.SB_Ciphertext.values \cup {key}
  BY <1>0, <1>3, AnswerToJob
<1>5. Fields(sb)' /\ Keyed(sb)' /\ DeviceUsable' /\ KeysWithoutJob'
  BY <1>0, <1>3, AnswerToJob DEF KInv, DeviceUsable, KeysWithoutJob
<1>6. StepOfOperation' /\ StateOfOperation'
  BY <1>0, <1>3, AnswerToJob DEF KInv, StepOfOperation, StateOfOperation
<1>7. ~Starting' /\ job.op # "Initialize"
  BY <1>0, <1>1, <1>3, AnswerToJob DEF KInv, StepOfOperation
<1>8. KeysWhileWorking'
  BY <1>0, <1>3, AnswerToJob DEF KInv, KeysWhileWorking, Needed
<1>9. CopyHasKeys'
  BY <1>0, <1>3, <1>4, AnswerToJob DEF KInv, CopyHasKeys, Needed
<1> QED BY <1>5, <1>6, <1>7, <1>8, <1>9 DEF KInv, StartConsistent, KeysWhileStarting

(* The trust anchor makes, decrypts and encrypts keys and secures hashes. *)
LEMMA TrustAnchorKInv == IInv /\ KInv /\ Trust_Anchor => KInv'
<1> SUFFICES ASSUME IInv, KInv, Trust_Anchor PROVE KInv'
  OBVIOUS
<1>0. UNCHANGED <<keys, device>>
  BY DEF Trust_Anchor
<1>1. ASSUME NEW step \in {"Create_Key", "Decrypt_Current_Key", "Decrypt_Previous_Key",
                           "Secure_SB"}, Answer(step, job)
      PROVE  KInv'
  BY <1>0, <1>1, JobIsKept, QuietAnswerKInv
<1>2. ASSUME Answer("Encrypt_Current_Key",
                    [job EXCEPT !.SB_Ciphertext.values = @ \cup {sb.Current_Key}])
      PROVE  KInv'
  BY <1>0, <1>2, EncryptKInv
<1>3. ASSUME Answer("Encrypt_Previous_Key",
                    [job EXCEPT !.SB_Ciphertext.values = @ \cup {sb.Previous_Key}])
      PROVE  KInv'
  BY <1>0, <1>3, EncryptKInv
<1> QED BY <1>1, <1>2, <1>3 DEF Trust_Anchor

(* What an answer about a key leaves alone. *)
LEMMA KeyAnswerKInv ==
  ASSUME IInv, KInv, NEW step, Answer(step, job), device' = device,
         step \in {"Add_Current_Key", "Add_Previous_Key", "Add_Key", "Remove_Current_Key",
                   "Remove_Previous_Key"},
         KeysWhileStarting', KeysWhileWorking'
  PROVE  KInv'
<1>1. Kept_Of(job)
  BY JobIsKept
<1>2. Fields(sb)' /\ Keyed(sb)' /\ DeviceUsable' /\ KeysWithoutJob'
  BY <1>1, AnswerToJob DEF KInv, DeviceUsable, KeysWithoutJob
<1>3. StepOfOperation'
  BY <1>1, AnswerToJob DEF KInv, StepOfOperation
<1>4. StartConsistent'
  BY <1>1, AnswerToJob DEF KInv, StartConsistent
<1>5. StateOfOperation'
  BY <1>1, AnswerToJob DEF KInv, StateOfOperation
<1>6. CopyHasKeys'
  BY <1>1, AnswerToJob DEF KInv, CopyHasKeys
<1> QED BY <1>2, <1>3, <1>4, <1>5, <1>6 DEF KInv

(* The crypto module is given the keys of the superblock that is started   *)
(* from, and later those that a rekeying brings and takes away.            *)
LEMMA CryptoKInv == IInv /\ KInv /\ Crypto => KInv'
<1> SUFFICES ASSUME IInv, KInv, Crypto PROVE KInv'
  OBVIOUS
<1>0. device' = device /\ Kept_Of(job)
  BY JobIsKept DEF Crypto
<1> DEFINE plain == job.SB_Ciphertext.plain
           values == job.SB_Ciphertext.values
<1>1. ASSUME Answer("Add_Current_Key", job),
             keys' = keys \cup ({plain.Current_Key} \cap values)
      PROVE  KInv'
  <2>1. job.op = "Initialize" /\ Usable(job.SB_Ciphertext) /\ plain.State # "Invalid"
        /\ keys = {}
    BY <1>0, <1>1, AnswerToJob DEF KInv, StepOfOperation, StartConsistent, KeysWhileStarting
  <2>2. keys' = {plain.Current_Key}
    BY <1>1, <2>1 DEF Usable, Needed
  <2>3. KeysWhileStarting' /\ KeysWhileWorking'
    BY <1>0, <1>1, <2>1, <2>2, AnswerToJob DEF KeysWhileStarting, KeysWhileWorking
  <2> QED BY <1>0, <1>1, <2>3, KeyAnswerKInv
<1>2. ASSUME Answer("Add_Previous_Key", job),
             keys' = keys \cup ({plain.Previous_Key} \cap values)
      PROVE  KInv'
  <2>1. job.op = "Initialize" /\ Usable(job.SB_Ciphertext) /\ plain.State = "Rekeying"
        /\ keys = {plain.Current_Key}
    BY <1>0, <1>2, AnswerToJob DEF KInv, StepOfOperation, StartConsistent, KeysWhileStarting
  <2>2. keys' = Needed(plain)
    BY <1>2, <2>1 DEF Usable, Needed
  <2>3. KeysWhileStarting' /\ KeysWhileWorking'
    BY <1>0, <1>2, <2>1, <2>2, AnswerToJob DEF KeysWhileStarting, KeysWhileWorking, Needed
  <2> QED BY <1>0, <1>2, <2>3, KeyAnswerKInv
<1>3. ASSUME Answer("Add_Key", job), keys' = keys \cup {sb.Current_Key}
      PROVE  KInv'
  <2>1. job.op = "Initialize_Rekeying" /\ keys = Needed(sb) \ {sb.Current_Key}
    BY <1>0, <1>3, AnswerToJob DEF KInv, StepOfOperation, KeysWhileWorking
  <2>2. keys' = Needed(sb)
    BY <1>3, <2>1 DEF Needed
  <2>3. KeysWhileStarting' /\ KeysWhileWorking'
    BY <1>0, <1>3, <2>1, <2>2, AnswerToJob DEF KeysWhileStarting, KeysWhileWorking, Needed
  <2> QED BY <1>0, <1>3, <2>3, KeyAnswerKInv
<1>4. ASSUME Answer("Remove_Current_Key", job), keys' = keys \ {sb.Current_Key}
      PROVE  KInv'
  <2>1. job.op = "Deinitialize" /\ keys = Needed(sb)
    BY <1>0, <1>4, AnswerToJob DEF KInv, StepOfOperation, KeysWhileWorking
  <2>2. KeysWhileStarting' /\ KeysWhileWorking'
    BY <1>0, <1>4, <2>1, AnswerToJob DEF KeysWhileStarting, KeysWhileWorking, Needed
  <2> QED BY <1>0, <1>4, <2>2, KeyAnswerKInv
<1>5. ASSUME Answer("Remove_Previous_Key", job), keys' = keys \ {sb.Previous_Key}
      PROVE  KInv'
  <2>1. CASE job.op = "Rekey_VBA"
    <3>1. sb.State = "Rekeying" /\ keys = Needed(sb)
      BY <1>0, <1>5, <2>1, AnswerToJob DEF KInv, StateOfOperation, KeysWhileWorking, Copied
    <3>2. keys' = {sb.Current_Key}
      BY <1>5, <3>1 DEF KInv, Keyed, Needed
    <3>3. KeysWhileStarting' /\ KeysWhileWorking'
      BY <1>0, <1>5, <2>1, <3>2, AnswerToJob DEF KeysWhileStarting, KeysWhileWorking
    <3> QED BY <1>0, <1>5, <3>3, KeyAnswerKInv
  <2>2. CASE job.op = "Deinitialize"
    <3>1. keys = {sb.Previous_Key}
      BY <1>0, <1>5, <2>2, AnswerToJob DEF KInv, KeysWhileWorking
    <3>2. keys' = {}
      BY <1>5, <3>1
    <3>3. KeysWhileStarting' /\ KeysWhileWorking'
      BY <1>0, <1>5, <2>2, <3>2, AnswerToJob DEF KeysWhileStarting, KeysWhileWorking
    <3> QED BY <1>0, <1>5, <3>3, KeyAnswerKInv
  <2>3. job.op \in {"Rekey_VBA", "Deinitialize"}
    BY <1>0, <1>5, AnswerToJob DEF KInv, StepOfOperation
  <2> QED BY <2>1, <2>2, <2>3
<1>6. ASSUME NEW step \in {"Remove_Current_Key", "Remove_Previous_Key"},
             Answer(step, job), keys' = keys \ {Removed_Key(step)}
      PROVE  KInv'
  <2>1. CASE step = "Remove_Current_Key"
    BY <1>4, <1>6, <2>1 DEF Removed_Key
  <2>2. CASE step = "Remove_Previous_Key"
    BY <1>5, <1>6, <2>2 DEF Removed_Key
  <2> QED BY <2>1, <2>2
<1> QED BY <1>1, <1>2, <1>3, <1>6 DEF Crypto

-----------------------------------------------------------------------------
(* The cache writes trees, not superblocks. *)
LEMMA CacheSyncKInv == IInv /\ KInv /\ Cache_Sync => KInv'
<1> SUFFICES ASSUME IInv, KInv, Cache_Sync PROVE KInv'
  OBVIOUS
<1>1. Answer("Sync_Cache", job) /\ keys' = keys /\ device'.superblocks = device.superblocks
  BY DEF Cache_Sync, Written, IInv, Shape
<1> QED BY <1>1, JobIsKept, QuietAnswerKInv

(* So it does when it needs room. *)
LEMMA CacheWriteBackKInv == IInv /\ KInv /\ Cache_Write_Back => KInv'
<1> SUFFICES ASSUME IInv, KInv, Cache_Write_Back PROVE KInv'
  OBVIOUS
<1>1. UNCHANGED <<sb, job, keys>> /\ device'.superblocks = device.superblocks
  BY DEF Cache_Write_Back, Written, IInv, Shape
<1>2. Fields(sb)' /\ Keyed(sb)' /\ DeviceUsable' /\ StepOfOperation' /\ CopyHasKeys'
  BY <1>1 DEF KInv, DeviceUsable, StepOfOperation, CopyHasKeys, At, Completed, Pending, Needed
<1>3. StartConsistent' /\ KeysWhileStarting'
  BY <1>1 DEF KInv, StartConsistent, KeysWhileStarting, Starting, At, Completed, Pending, Needed
<1>4. StateOfOperation' /\ KeysWhileWorking' /\ KeysWithoutJob'
  BY <1>1 DEF KInv, StateOfOperation, KeysWhileWorking, KeysWithoutJob, Working, Starting,
     NoJob, At, Completed, Pending, Needed
<1> QED BY <1>2, <1>3, <1>4 DEF KInv

(* The device: what is written can be used, so what is read can.           *)
LEMMA BlockIOKInv == IInv /\ KInv /\ Block_IO => KInv'
<1> SUFFICES ASSUME IInv, KInv, Block_IO PROVE KInv'
  OBVIOUS
<1>0. keys' = keys
  BY DEF Block_IO
<1>1. ASSUME NEW step, NEW i, NEW ciphertext, ciphertext = device.superblocks[i],
             \/ step = "Read_SB" /\ i = job.Read_SB_Idx
             \/ step = "Read_Current_SB" /\ i = job.SB_Idx,
             Answer(step, [job EXCEPT !.SB_Ciphertext = ciphertext]), device' = device
      PROVE  KInv'
  <2> DEFINE j == [job EXCEPT !.SB_Ciphertext = ciphertext]
  <2>1. Answer(step, j)
    BY <1>1
  <2>2. Kept_Of(j) /\ j.SB_Ciphertext = ciphertext
    BY FieldsOfJob DEF IInv, Shape, Kept_Of
  <2> HIDE DEF j
  <2>3. job'.SB_Ciphertext = ciphertext /\ job.op = "Initialize"
    BY <1>1, <2>1, <2>2, AnswerToJob DEF KInv, StepOfOperation
  <2>4. Usable(device.superblocks[i])
    BY <1>1 DEF KInv, DeviceUsable, IInv, Shape
  <2>5. Fields(sb)' /\ Keyed(sb)' /\ DeviceUsable' /\ KeysWithoutJob'
    BY <1>1, <2>1, <2>2, AnswerToJob DEF KInv, DeviceUsable, KeysWithoutJob
  <2>6. StepOfOperation' /\ StateOfOperation'
    BY <1>1, <2>1, <2>2, <2>3, AnswerToJob DEF KInv, StepOfOperation, StateOfOperation
  <2>7. StartConsistent'
    BY <1>1, <2>1, <2>2, <2>3, <2>4, AnswerToJob DEF KInv, StartConsistent
  <2>8. KeysWhileStarting' /\ KeysWhileWorking'
    BY <1>0, <1>1, <2>1, <2>2, <2>3, AnswerToJob
       DEF KInv, KeysWhileStarting, KeysWhileWorking
  <2>9. CopyHasKeys'
    BY <1>1, <2>1, <2>2, AnswerToJob DEF CopyHasKeys
  <2> QED BY <2>5, <2>6, <2>7, <2>8, <2>9 DEF KInv
<1>2. ASSUME Answer("Write_SB", job),
             device' = [device EXCEPT !.superblocks[sb_idx] = job.SB_Ciphertext,
                                      !.unsynced_sbs = @ \cup {sb_idx}]
      PROVE  KInv'
  <2>1. At(Copied) /\ job.op # "Initialize" /\ Kept_Of(job)
    BY <1>2, JobIsKept, AnswerToJob DEF KInv, StepOfOperation, Copied
  <2>2. Usable(job.SB_Ciphertext)
    BY <1>2, <2>1, AnswerToJob DEF IInv, CopyIsSuperblock, KInv, CopyHasKeys, Usable
  <2>3. \A i \in Superblocks_Index :
          device'.superblocks[i] \in {device.superblocks[i], job.SB_Ciphertext}
    BY <1>2 DEF IInv, Shape
  <2>4. DeviceUsable'
    BY <2>2, <2>3 DEF KInv, DeviceUsable
  <2>5. Fields(sb)' /\ Keyed(sb)' /\ KeysWithoutJob'
    BY <1>2, <2>1, AnswerToJob DEF KInv, KeysWithoutJob
  <2>6. StepOfOperation' /\ StateOfOperation'
    BY <1>2, <2>1, AnswerToJob DEF KInv, StepOfOperation, StateOfOperation
  <2>7. StartConsistent' /\ KeysWhileStarting'
    BY <1>2, <2>1, AnswerToJob DEF StartConsistent, KeysWhileStarting
  <2>8. KeysWhileWorking'
    BY <1>0, <1>2, <2>1, AnswerToJob DEF KInv, KeysWhileWorking, Needed
  <2>9. CopyHasKeys'
    BY <1>2, <2>1, AnswerToJob DEF CopyHasKeys
  <2> QED BY <2>4, <2>5, <2>6, <2>7, <2>8, <2>9 DEF KInv
<1>3. ASSUME Answer("Sync_Blk_IO", job),
             device' = [device EXCEPT !.unsynced_sbs = {}, !.unsynced_trees = {}]
      PROVE  KInv'
  <2>1. device'.superblocks = device.superblocks
    BY <1>3 DEF IInv, Shape
  <2> QED BY <1>0, <1>3, <2>1, JobIsKept, QuietAnswerKInv
<1>4. ASSUME Answer("Read_SB",
                    [job EXCEPT !.SB_Ciphertext = device.superblocks[job.Read_SB_Idx]]),
             device' = device
      PROVE  KInv'
  BY <1>1, <1>4
<1>5. ASSUME Answer("Read_Current_SB",
                    [job EXCEPT !.SB_Ciphertext = device.superblocks[job.SB_Idx]]),
             device' = device
      PROVE  KInv'
  BY <1>1, <1>5
<1> QED BY <1>2, <1>3, <1>4, <1>5 DEF Block_IO

(* Program_Error is raised before anything is changed. *)
LEMMA RaiseKInv == KInv /\ Raise_Program_Error => KInv'
BY DEF Raise_Program_Error, KInv, DeviceUsable, StepOfOperation, StartConsistent,
       StateOfOperation, KeysWhileStarting, KeysWhileWorking, KeysWithoutJob, CopyHasKeys,
       Starting, Working, NoJob, Needed, At, Completed, Pending

(* Snapshots are rekeyed or extended, and only kept in the job so far. *)
LEMMA VBDRekeyingKInv == IInv /\ KInv /\ VBD_Rekeying => KInv'
<1> SUFFICES ASSUME IInv, KInv, VBD_Rekeying, ~Raise_Program_Error PROVE KInv'
  BY RaiseKInv
<1>1. UNCHANGED <<keys, device>>
  BY DEF VBD_Rekeying
<1>2. ASSUME NEW step \in {"Rekey_VBA_In_VBD", "VBD_Ext_Step_In_VBD"}, NEW nr, NEW snaps,
             Answer(step, [job EXCEPT !.Nr_Of_Blks = nr, !.Snapshots = snaps])
      PROVE  KInv'
  <2> DEFINE j == [job EXCEPT !.Nr_Of_Blks = nr, !.Snapshots = snaps]
  <2>1. Answer(step, j)
    BY <1>2
  <2>2. Kept_Of(j) /\ j.SB_Ciphertext = job.SB_Ciphertext
    BY FieldsOfJob DEF IInv, Shape, Kept_Of
  <2> HIDE DEF j
  <2> QED BY <1>1, <2>1, <2>2, QuietAnswerKInv
<1>3. CASE VBD_Rekeying_Rekey_VBA
  <2>1. PICK snaps : Answer("Rekey_VBA_In_VBD", [job EXCEPT !.Snapshots = snaps])
    BY <1>3 DEF VBD_Rekeying_Rekey_VBA
  <2>2. [job EXCEPT !.Snapshots = snaps]
          = [job EXCEPT !.Nr_Of_Blks = job.Nr_Of_Blks, !.Snapshots = snaps]
    BY FieldsOfJob DEF IInv, Shape
  <2>3. Answer("Rekey_VBA_In_VBD",
               [job EXCEPT !.Nr_Of_Blks = job.Nr_Of_Blks, !.Snapshots = snaps])
    BY <2>1, <2>2
  <2> QED BY <1>2, <2>3
<1>4. CASE \E left \in 0 .. job.Nr_Of_Blks - 1 : VBD_Rekeying_VBD_Extension_Step(left)
  BY <1>2, <1>4 DEF VBD_Rekeying_VBD_Extension_Step
<1> QED BY <1>3, <1>4 DEF VBD_Rekeying

(* The free tree is extended. *)
LEMMA FTResizingKInv == IInv /\ KInv /\ FT_Resizing => KInv'
<1> SUFFICES ASSUME IInv, KInv, FT_Resizing PROVE KInv'
  OBVIOUS
<1>1. PICK left : Answer("FT_Ext_Step_In_FT", [job EXCEPT !.Nr_Of_Blks = left])
  BY DEF FT_Resizing
<1> DEFINE j == [job EXCEPT !.Nr_Of_Blks = left]
<1>2. Answer("FT_Ext_Step_In_FT", j) /\ UNCHANGED <<keys, device>>
  BY <1>1 DEF FT_Resizing
<1>3. Kept_Of(j) /\ j.SB_Ciphertext = job.SB_Ciphertext
  BY FieldsOfJob DEF IInv, Shape, Kept_Of
<1> HIDE DEF j
<1> QED BY <1>2, <1>3, QuietAnswerKInv

-----------------------------------------------------------------------------
(* Execute.  The job goes on from a step that is carried out to another,   *)
(* and works on: what is said of the job in its new state.                 *)
LEMMA NextToJob ==
  ASSUME NEW step, NEW op, job'.op = op, job'.state = <<step, "Pending">>
  PROVE  /\ \A steps : At(steps)' <=> step \in steps
         /\ \A x : Pending(x)' <=> x = step
         /\ \A x : ~Completed(x)'
         /\ Starting' <=> op = "Initialize"
         /\ op # "Invalid" => (Working' <=> op # "Initialize") /\ ~NoJob'
<1>1. \A steps : At(steps)' <=> step \in steps
  BY StatesDiffer DEF At
<1>2. /\ \A x : Pending(x)' <=> x = step
      /\ \A x : ~Completed(x)'
  BY StatesDiffer DEF Completed, Pending
<1>3. Starting' <=> op = "Initialize"
  BY StatesDiffer DEF Starting
<1>4. op # "Invalid" => ~NoJob'
  BY StatesDiffer DEF NoJob
<1> QED BY <1>1, <1>2, <1>3, <1>4 DEF Working

(* The same of the job as it is. *)
LEMMA OfJob ==
  ASSUME NEW step, Completed(step)
  PROVE  /\ \A steps : At(steps) <=> step \in steps
         /\ \A x : Completed(x) <=> x = step
         /\ \A x : ~Pending(x)
         /\ Starting <=> job.op = "Initialize"
         /\ job.op # "Invalid" => (Working <=> job.op # "Initialize") /\ ~NoJob
         /\ IInv => job.op # "Invalid"
<1>1. job.state = <<step, "Completed">>
  BY DEF Completed
<1>2. \A steps : At(steps) <=> step \in steps
  BY <1>1, StatesDiffer DEF At
<1>3. /\ \A x : Completed(x) <=> x = step
      /\ \A x : ~Pending(x)
  BY <1>1, StatesDiffer DEF Completed, Pending
<1>4. Starting <=> job.op = "Initialize"
  BY <1>1, StatesDiffer DEF Starting
<1>5. job.op # "Invalid" => ~NoJob
  BY <1>1, StatesDiffer DEF NoJob
<1>6. IInv => job.op # "Invalid"
  BY <1>1, StatesDiffer DEF IInv, NoJobNoStep
<1> QED BY <1>2, <1>3, <1>4, <1>5, <1>6 DEF Working

(* The same of a job that has taken no step yet. *)
LEMMA OfSubmitted ==
  ASSUME NEW op, Submitted(op)
  PROVE  /\ \A steps : ~At(steps)
         /\ \A x : ~Completed(x) /\ ~Pending(x)
         /\ Starting <=> op = "Initialize"
         /\ op # "Invalid" => (Working <=> op # "Initialize") /\ ~NoJob
         /\ job.op = op
<1>1. job.state = <<"Submitted">> /\ job.op = op
  BY DEF Submitted
<1> QED BY <1>1, StatesDiffer DEF At, Completed, Pending, Starting, Working, NoJob

(* The superblock is changed and copied in one. *)
LEMMA CopyKInv ==
  ASSUME KInv, job.op \notin {"Invalid", "Initialize", "Deinitialize"},
         NEW s, NEW j, Init_SB_Ciphertext(s, j), Idle_Ctrl,
         DOMAIN j = DOMAIN Job_Invalid, j.op = job.op,
         Fields(s), Keyed(s), s.State # "Invalid", keys = Needed(s),
         job.op \in DOMAIN Extending => s.State # "Rekeying",
         job.op = "Rekey_VBA" /\ j.Request_Finished => s.State # "Rekeying"
  PROVE  KInv'
<1>1. /\ sb' = [s EXCEPT !.Snapshots[s.Curr_Snap].Gen = curr_gen] /\ UNCHANGED <<keys, device>>
      /\ job' = [j EXCEPT !.SB_Ciphertext = [plain |-> sb', values |-> {}],
                          !.state = <<"Encrypt_Current_Key", "Pending">>]
  BY DEF Init_SB_Ciphertext, Idle_Ctrl
<1>0. /\ DOMAIN sb' = DOMAIN s /\ sb'.State = s.State
      /\ sb'.Current_Key = s.Current_Key /\ sb'.Previous_Key = s.Previous_Key
  BY <1>1, FieldsOfSuperblock DEF Fields
<1>2. /\ job'.op = job.op /\ job'.state = <<"Encrypt_Current_Key", "Pending">>
      /\ job'.Request_Finished = j.Request_Finished
  BY <1>1, FieldsOfJob
<1>3. Fields(sb)' /\ Keyed(sb)' /\ DeviceUsable' /\ Needed(sb)' = Needed(s)
  BY <1>0, <1>1 DEF KInv, DeviceUsable, Fields, Keyed, Needed
<1>4. StepOfOperation' /\ CopyHasKeys'
  BY <1>2, NextToJob DEF StepOfOperation, CopyHasKeys
<1>5. StateOfOperation'
  BY <1>0, <1>2, NextToJob DEF StateOfOperation, Copied
<1>6. KeysWhileWorking'
  BY <1>1, <1>2, <1>3, NextToJob DEF KeysWhileWorking
<1> QED BY <1>2, <1>3, <1>4, <1>5, <1>6, NextToJob DEF KInv, StartConsistent,
             KeysWhileStarting, KeysWithoutJob

(* The job ends, and leaves the superblock the keys it needs. *)
LEMMA EndKInv ==
  ASSUME IInv, KInv, Idle_Ctrl, NEW success,
         job' = [job EXCEPT !.success = success, !.state = <<"Completed">>],
         Fields(sb)', Keyed(sb)',
         \/ keys = Needed(sb)' /\ sb'.State # "Invalid" /\ job.op # "Deinitialize"
         \/ keys = {} /\ job.op = "Deinitialize"
  PROVE  KInv'
<1>1. job'.state = <<"Completed">> /\ job'.op = job.op /\ UNCHANGED <<keys, device>>
  BY FieldsOfJob DEF IInv, Shape, Idle_Ctrl
<1>2. NoJob' /\ ~Working' /\ ~Starting'
  BY <1>1 DEF NoJob, Working, Starting
<1> QED BY <1>1, <1>2, AtNoStep DEF KInv, DeviceUsable, StartConsistent, StateOfOperation,
             KeysWhileStarting, KeysWhileWorking, KeysWithoutJob

(* The steps from the copy on.                                             *)
LEMMA PrepareKInv == IInv /\ KInv /\ Execute_Prepare /\ Idle_Ctrl => KInv'
<1> SUFFICES ASSUME IInv, KInv, Idle_Ctrl,
                    NEW step \in {"Encrypt_Current_Key", "Encrypt_Previous_Key",
                                  "Sync_Cache", "Write_SB"},
                    Completed(step), Then(Next_Step(step)),
                    UNCHANGED <<sb, sb_idx, curr_gen>>
             PROVE  KInv'
  BY DEF Execute_Prepare
<1> DEFINE next == Next_Step(step)
<1>1. /\ step = "Encrypt_Current_Key" =>
           next = IF job.op = "Rekey_VBA" /\ job.Request_Finished THEN "Sync_Cache"
                                                                  ELSE "Encrypt_Previous_Key"
      /\ step = "Encrypt_Previous_Key" => next = "Sync_Cache"
      /\ step = "Sync_Cache" => next = "Write_SB"
      /\ step = "Write_SB" => next = "Sync_Blk_IO"
  BY DEF Next_Step
<1> HIDE DEF next
<1>2. job' = [job EXCEPT !.state = <<next, "Pending">>] /\ UNCHANGED <<sb, keys, device>>
  BY DEF Then, Idle_Ctrl, next
<1>3. /\ job'.op = job.op /\ job'.state = <<next, "Pending">>
      /\ job'.SB_Ciphertext = job.SB_Ciphertext
      /\ job'.Request_Finished = job.Request_Finished
  BY <1>2, FieldsOfJob DEF IInv, Shape
<1>4. job.op \notin {"Invalid", "Initialize", "Deinitialize"}
  BY OfJob DEF KInv, StepOfOperation, Copied
<1>5. next \in {"Encrypt_Previous_Key", "Sync_Cache", "Write_SB", "Sync_Blk_IO"}
  BY <1>1
<1>6. Fields(sb)' /\ Keyed(sb)' /\ DeviceUsable' /\ Needed(sb)' = Needed(sb)
  BY <1>2 DEF KInv, DeviceUsable, Needed
<1>7. StepOfOperation'
  BY <1>3, <1>4, <1>5, NextToJob DEF StepOfOperation
<1>8. StateOfOperation'
  <2>1. job.op \in DOMAIN Extending => sb.State # "Rekeying"
    BY <1>4, OfJob DEF KInv, StateOfOperation
  <2>2. sb.State # "Invalid"
    BY <1>4, OfJob DEF KInv, StateOfOperation
  <2> QED BY <1>2, <1>3, <1>5, <2>1, <2>2, NextToJob DEF StateOfOperation, Copied
<1>9. KeysWhileWorking'
  <2>1. keys = Needed(sb)
    BY <1>4, OfJob DEF KInv, KeysWhileWorking
  <2> QED BY <1>2, <1>3, <1>5, <1>6, <2>1, NextToJob DEF KeysWhileWorking
<1>10. CopyHasKeys'
  <2>1. CASE step = "Encrypt_Current_Key"
    <3>1. sb.Current_Key \in job.SB_Ciphertext.values
      BY <2>1, OfJob DEF KInv, CopyHasKeys
    <3>2. job.op = "Rekey_VBA" /\ job.Request_Finished =>
            Needed(sb) \subseteq job.SB_Ciphertext.values
      BY <1>4, <2>1, <3>1, OfJob DEF KInv, StateOfOperation, Needed
    <3> QED BY <1>1, <1>2, <1>3, <1>6, <2>1, <3>1, <3>2, NextToJob DEF CopyHasKeys
  <2>2. CASE step \in {"Encrypt_Previous_Key", "Sync_Cache"}
    <3>1. sb.Current_Key \in job.SB_Ciphertext.values
          /\ Needed(sb) \subseteq job.SB_Ciphertext.values
      BY <2>2, OfJob DEF KInv, CopyHasKeys
    <3> QED BY <1>1, <1>2, <1>3, <1>6, <2>2, <3>1, NextToJob DEF CopyHasKeys
  <2>3. CASE step = "Write_SB"
    BY <1>1, <1>3, <2>3, NextToJob DEF CopyHasKeys
  <2> QED BY <2>1, <2>2, <2>3
<1> QED BY <1>3, <1>4, <1>6, <1>7, <1>8, <1>9, <1>10, NextToJob DEF KInv, StartConsistent,
             KeysWhileStarting, KeysWithoutJob

(* The hash is taken of a superblock that stays as it is. *)
LEMMA SyncBlkIOCompletedKInv ==
  IInv /\ KInv /\ Execute_Sync_Blk_IO_Completed /\ Idle_Ctrl => KInv'
<1> SUFFICES ASSUME IInv, KInv, Execute_Sync_Blk_IO_Completed, Idle_Ctrl PROVE KInv'
  OBVIOUS
<1>1. /\ job' = [job EXCEPT !.Hash = sb, !.Generation = curr_gen,
                            !.state = <<"Secure_SB", "Pending">>]
      /\ UNCHANGED <<sb, keys, device>> /\ Completed("Sync_Blk_IO")
  BY DEF Execute_Sync_Blk_IO_Completed, Idle_Ctrl
<1>2. job'.op = job.op /\ job'.state = <<"Secure_SB", "Pending">>
  BY <1>1, FieldsOfJob DEF IInv, Shape
<1>3. job.op \notin {"Invalid", "Initialize", "Deinitialize"}
  BY <1>1, OfJob DEF KInv, StepOfOperation, Copied
<1>4. Fields(sb)' /\ Keyed(sb)' /\ DeviceUsable' /\ Needed(sb)' = Needed(sb)
  BY <1>1 DEF KInv, DeviceUsable, Needed
<1>5. StepOfOperation' /\ CopyHasKeys'
  BY <1>2, <1>3, NextToJob DEF StepOfOperation, CopyHasKeys
<1>6. StateOfOperation'
  <2>1. /\ job.op \in DOMAIN Extending => sb.State # "Rekeying"
        /\ sb.State # "Invalid"
    BY <1>1, <1>3, OfJob DEF KInv, StateOfOperation
  <2> QED BY <1>1, <1>2, <1>3, <2>1, NextToJob DEF StateOfOperation, Copied
<1>7. KeysWhileWorking'
  <2>1. keys = Needed(sb)
    BY <1>1, <1>3, OfJob DEF KInv, KeysWhileWorking
  <2> QED BY <1>1, <1>2, <1>4, <2>1, NextToJob DEF KeysWhileWorking
<1> QED BY <1>2, <1>3, <1>4, <1>5, <1>6, <1>7, NextToJob DEF KInv, StartConsistent,
             KeysWhileStarting, KeysWithoutJob

(* The job ends with the keys that it was copied with. *)
LEMMA SecureSBCompletedKInv ==
  IInv /\ KInv /\ Execute_Secure_SB_Completed /\ Idle_Ctrl => KInv'
<1> SUFFICES ASSUME IInv, KInv, Execute_Secure_SB_Completed, Idle_Ctrl PROVE KInv'
  OBVIOUS
<1>1. /\ Completed("Secure_SB") /\ keys' = keys
      /\ sb' = [sb EXCEPT !.Last_Secured_Generation = job.Generation]
      /\ job' = [job EXCEPT !.success = TRUE, !.state = <<"Completed">>]
  BY DEF Execute_Secure_SB_Completed, Idle_Ctrl
<1>2. /\ DOMAIN sb' = DOMAIN sb /\ sb'.State = sb.State
      /\ sb'.Current_Key = sb.Current_Key /\ sb'.Previous_Key = sb.Previous_Key
  BY <1>1, FieldsOfSuperblock DEF KInv, Fields
<1>3. job.op \notin {"Invalid", "Initialize", "Deinitialize"}
  BY <1>1, OfJob DEF KInv, StepOfOperation, Copied
<1>4. keys = Needed(sb) /\ sb.State # "Invalid"
  BY <1>1, <1>3, OfJob DEF KInv, KeysWhileWorking, StateOfOperation
<1>5. Fields(sb)' /\ Keyed(sb)' /\ keys = Needed(sb)' /\ sb'.State # "Invalid"
  BY <1>2, <1>4 DEF KInv, Fields, Keyed, Needed
<1> QED BY <1>1, <1>3, <1>5, EndKInv

(* Sync, and the operations on snapshots: what is changed of the superblock *)
(* has nothing to do with keys.                                            *)
LEMMA SecureCurrGenKeeps ==
  ASSUME KInv, NEW snaps
  PROVE  LET s == Secure_Curr_Gen(snaps)
         IN /\ DOMAIN s = DOMAIN sb /\ s.State = sb.State
            /\ s.Current_Key = sb.Current_Key /\ s.Previous_Key = sb.Previous_Key
BY FieldsOfSuperblock DEF KInv, Fields, Secure_Curr_Gen

(* A copy of a superblock with the same state and keys. *)
LEMMA SameKeysKInv ==
  ASSUME IInv, KInv, Idle_Ctrl, NEW s, NEW op \in {"Sync", "Create_Snapshot", "Discard_Snapshot"},
         Submitted(op), Init_SB_Ciphertext(s, job),
         DOMAIN s = DOMAIN sb, s.State = sb.State,
         s.Current_Key = sb.Current_Key, s.Previous_Key = sb.Previous_Key
  PROVE  KInv'
<1>1. job.op \notin {"Invalid", "Initialize", "Deinitialize", "Rekey_VBA"}
      /\ job.op \notin DOMAIN Extending
  BY OfSubmitted DEF Extending
<1>2. keys = Needed(sb) /\ sb.State # "Invalid"
  BY OfSubmitted DEF KInv, KeysWhileWorking, StateOfOperation
<1>3. Fields(s) /\ Keyed(s) /\ keys = Needed(s) /\ s.State # "Invalid"
  BY <1>2 DEF KInv, Fields, Keyed, Needed
<1>4. DOMAIN job = DOMAIN Job_Invalid
  BY DEF IInv, Shape
<1> QED BY <1>1, <1>3, <1>4, CopyKInv

(* Each of them, with what it changes. *)
LEMMA ShortOperationsKInv ==
  ASSUME IInv, KInv, Idle_Ctrl,
         Execute_Sync \/ Execute_Create_Snapshot \/ Execute_Discard_Snapshot
  PROVE  KInv'
<1>1. CASE Execute_Sync
  BY <1>1, SecureCurrGenKeeps, SameKeysKInv DEF Execute_Sync
<1>2. CASE Execute_Create_Snapshot
  <2> DEFINE t == Secure_Curr_Gen(sb.Snapshots)
             s == [t EXCEPT !.Snapshots[t.Curr_Snap].Keep = TRUE]
  <2>1. Init_SB_Ciphertext(s, job) /\ Submitted("Create_Snapshot")
    BY <1>2 DEF Execute_Create_Snapshot
  <2>2. /\ DOMAIN t = DOMAIN sb /\ t.State = sb.State
        /\ t.Current_Key = sb.Current_Key /\ t.Previous_Key = sb.Previous_Key
    BY SecureCurrGenKeeps
  <2> HIDE DEF t
  <2>3. /\ DOMAIN s = DOMAIN sb /\ s.State = sb.State
        /\ s.Current_Key = sb.Current_Key /\ s.Previous_Key = sb.Previous_Key
    BY <2>2, FieldsOfSuperblock DEF KInv, Fields
  <2> HIDE DEF s
  <2> QED BY <2>1, <2>3, SameKeysKInv
<1>3. CASE Execute_Discard_Snapshot
  <2>0. Submitted("Discard_Snapshot")
    BY <1>3 DEF Execute_Discard_Snapshot
  <2>1. ASSUME NEW snaps, Init_SB_Ciphertext(Secure_Curr_Gen(snaps), job)
        PROVE  KInv'
    BY <2>0, <2>1, SecureCurrGenKeeps, SameKeysKInv
  <2>2. ASSUME job' = [job EXCEPT !.success = FALSE, !.state = <<"Completed">>], sb' = sb
        PROVE  KInv'
    <3>1. keys = Needed(sb) /\ sb.State # "Invalid"
      BY <2>0, OfSubmitted DEF KInv, KeysWhileWorking, StateOfOperation
    <3>2. Fields(sb)' /\ Keyed(sb)' /\ keys = Needed(sb)' /\ sb'.State # "Invalid"
      BY <2>2, <3>1 DEF KInv, Needed
    <3>3. job.op # "Deinitialize"
      BY <2>0 DEF Submitted
    <3> QED BY <2>2, <3>2, <3>3, EndKInv
  <2> QED BY <1>3, <2>1, <2>2 DEF Execute_Discard_Snapshot
<1> QED BY <1>1, <1>2, <1>3

(* The next step is one before the copy: what remains to be said of it.    *)
LEMMA ThenKInv ==
  ASSUME KInv, device' = device, NEW step \in Steps \ Copied, NEW op,
         job'.op = op, op # "Invalid", job'.state = <<step, "Pending">>,
         Fields(sb)', Keyed(sb)',
         StepOfOperation', StartConsistent', StateOfOperation', KeysWhileStarting',
         KeysWhileWorking'
  PROVE  KInv'
<1>1. DeviceUsable'
  BY DEF KInv, DeviceUsable
<1>2. KeysWithoutJob'
  BY NextToJob DEF KeysWithoutJob
<1>3. CopyHasKeys'
  BY NextToJob DEF CopyHasKeys, Copied
<1> QED BY <1>1, <1>2, <1>3 DEF KInv

(* What of the job stays when it goes on. *)
LEMMA ThenJob ==
  ASSUME IInv, NEW step, Then(step)
  PROVE  /\ job'.op = job.op /\ job'.state = <<step, "Pending">>
         /\ job'.SB_Ciphertext = job.SB_Ciphertext /\ job'.SB_Found = job.SB_Found
         /\ job'.SB_Idx = job.SB_Idx /\ job'.Read_SB_Idx = job.Read_SB_Idx
BY FieldsOfJob DEF Then, IInv, Shape

(* A rekeying starts with a new key, which is added before the copy.       *)
LEMMA InitializeRekeyingKInv ==
  ASSUME IInv, KInv, Idle_Ctrl, Execute_Initialize_Rekeying, ~Execute_Raises
  PROVE  KInv'
<1>0. job.op = "Initialize_Rekeying" /\ UNCHANGED <<keys, device>>
  BY DEF Execute_Initialize_Rekeying, Idle_Ctrl
<1>1. CASE Submitted("Initialize_Rekeying") /\ Then("Create_Key") /\ sb' = sb
  <2>1. keys = Needed(sb) /\ sb.State # "Invalid"
    BY <1>1, OfSubmitted DEF KInv, KeysWhileWorking, StateOfOperation
  <2>2. job'.op = "Initialize_Rekeying" /\ job'.state = <<"Create_Key", "Pending">>
    BY <1>0, <1>1, ThenJob
  <2>3. StepOfOperation' /\ StartConsistent' /\ KeysWhileStarting'
    BY <2>2, NextToJob DEF StepOfOperation, StartConsistent, KeysWhileStarting, Copied
  <2>4. StateOfOperation' /\ KeysWhileWorking'
    BY <1>0, <1>1, <2>1, <2>2, NextToJob DEF StateOfOperation, KeysWhileWorking, Needed,
       Extending
  <2>5. Fields(sb)' /\ Keyed(sb)'
    BY <1>1 DEF KInv
  <2> QED BY <1>0, <2>2, <2>3, <2>4, <2>5, ThenKInv DEF Steps, Copied
<1>2. CASE /\ Completed("Create_Key") /\ Then("Add_Key")
           /\ sb' = [sb EXCEPT !.State = "Rekeying", !.Rekeying_VBA = 0,
                               !.Previous_Key = sb.Current_Key,
                               !.Current_Key = sb.Current_Key + 1]
  <2>1. sb.State = "Normal"
    BY <1>0, <1>2 DEF Execute_Raises
  <2>2. keys = {sb.Current_Key}
    BY <1>0, <1>2, <2>1, OfJob DEF KInv, KeysWhileWorking, Needed
  <2>3. /\ DOMAIN sb' = DOMAIN sb /\ sb'.State = "Rekeying"
        /\ sb'.Previous_Key = sb.Current_Key /\ sb'.Current_Key = sb.Current_Key + 1
        /\ sb.Current_Key \in Nat
    BY <1>2, <2>1, FieldsOfSuperblock DEF KInv, Fields, Keyed
  <2>4. Fields(sb)' /\ Keyed(sb)'
    BY <2>3 DEF KInv, Fields, Keyed
  <2>5. keys' = Needed(sb)' \ {sb'.Current_Key}
    BY <1>0, <2>2, <2>3 DEF Needed
  <2>6. job'.op = "Initialize_Rekeying" /\ job'.state = <<"Add_Key", "Pending">>
    BY <1>0, <1>2, ThenJob
  <2>7. StepOfOperation' /\ StartConsistent' /\ KeysWhileStarting'
    BY <2>6, NextToJob DEF StepOfOperation, StartConsistent, KeysWhileStarting, Copied
  <2>8. StateOfOperation' /\ KeysWhileWorking'
    BY <2>3, <2>5, <2>6, NextToJob DEF StateOfOperation, KeysWhileWorking, Extending
  <2> QED BY <1>0, <2>4, <2>6, <2>7, <2>8, ThenKInv DEF Steps, Copied
<1>3. CASE Completed("Add_Key") /\ Init_SB_Ciphertext(sb, job)
  <2>1. keys = Needed(sb) /\ sb.State # "Invalid"
    BY <1>0, <1>3, OfJob DEF KInv, KeysWhileWorking, StateOfOperation
  <2>2. DOMAIN job = DOMAIN Job_Invalid /\ Fields(sb) /\ Keyed(sb)
    BY DEF IInv, Shape, KInv
  <2> QED BY <1>0, <1>3, <2>1, <2>2, CopyKInv DEF Extending
<1> QED BY <1>1, <1>2, <1>3 DEF Execute_Initialize_Rekeying

(* The last address of a rekeying takes the previous key away.             *)
LEMMA RekeyVBAKInv ==
  ASSUME IInv, KInv, Idle_Ctrl, Execute_Rekey_VBA, ~Execute_Raises
  PROVE  KInv'
<1>0. job.op = "Rekey_VBA" /\ UNCHANGED <<keys, device>>
  BY DEF Execute_Rekey_VBA, Idle_Ctrl
<1>1. CASE Submitted("Rekey_VBA") /\ Then("Rekey_VBA_In_VBD") /\ sb' = sb
  <2>1. keys = Needed(sb) /\ sb.State = "Rekeying"
    BY <1>1, OfSubmitted DEF KInv, KeysWhileWorking, Execute_Raises
  <2>2. job'.op = "Rekey_VBA" /\ job'.state = <<"Rekey_VBA_In_VBD", "Pending">>
    BY <1>0, <1>1, ThenJob
  <2>3. StepOfOperation' /\ StartConsistent' /\ KeysWhileStarting'
    BY <2>2, NextToJob DEF StepOfOperation, StartConsistent, KeysWhileStarting, Copied
  <2>4. StateOfOperation' /\ KeysWhileWorking'
    BY <1>0, <1>1, <2>1, <2>2, NextToJob DEF StateOfOperation, KeysWhileWorking, Needed,
       Extending
  <2>5. Fields(sb)' /\ Keyed(sb)'
    BY <1>1 DEF KInv
  <2> QED BY <1>0, <2>2, <2>3, <2>4, <2>5, ThenKInv DEF Steps, Copied
<1>2. CASE /\ Completed("Rekey_VBA_In_VBD")
           /\ Init_SB_Ciphertext([sb EXCEPT !.Snapshots = job.Snapshots, !.Rekeying_VBA = @ + 1],
                                 [job EXCEPT !.Request_Finished = FALSE])
  <2> DEFINE s == [sb EXCEPT !.Snapshots = job.Snapshots, !.Rekeying_VBA = @ + 1]
             j == [job EXCEPT !.Request_Finished = FALSE]
  <2>1. keys = Needed(sb) /\ sb.State = "Rekeying"
    BY <1>0, <1>2, OfJob DEF KInv, KeysWhileWorking, StateOfOperation, Copied
  <2>2. /\ DOMAIN s = DOMAIN sb /\ s.State = sb.State
        /\ s.Current_Key = sb.Current_Key /\ s.Previous_Key = sb.Previous_Key
    BY FieldsOfSuperblock DEF KInv, Fields
  <2>3. DOMAIN j = DOMAIN Job_Invalid /\ j.op = job.op /\ ~j.Request_Finished
    BY FieldsOfJob DEF IInv, Shape
  <2>4. Init_SB_Ciphertext(s, j)
    BY <1>2
  <2> HIDE DEF s, j
  <2>5. Fields(s) /\ Keyed(s) /\ keys = Needed(s) /\ s.State # "Invalid"
    BY <2>1, <2>2 DEF KInv, Fields, Keyed, Needed
  <2> QED BY <1>0, <2>3, <2>4, <2>5, CopyKInv DEF Extending
<1>3. CASE /\ Completed("Rekey_VBA_In_VBD") /\ Then("Remove_Previous_Key")
           /\ sb' = [sb EXCEPT !.Snapshots = job.Snapshots]
  <2>1. keys = Needed(sb) /\ sb.State = "Rekeying"
    BY <1>0, <1>3, OfJob DEF KInv, KeysWhileWorking, StateOfOperation, Copied
  <2>2. /\ DOMAIN sb' = DOMAIN sb /\ sb'.State = sb.State
        /\ sb'.Current_Key = sb.Current_Key /\ sb'.Previous_Key = sb.Previous_Key
    BY <1>3, FieldsOfSuperblock DEF KInv, Fields
  <2>3. job'.op = "Rekey_VBA" /\ job'.state = <<"Remove_Previous_Key", "Pending">>
    BY <1>0, <1>3, ThenJob
  <2>4. StepOfOperation' /\ StartConsistent' /\ KeysWhileStarting'
    BY <2>3, NextToJob DEF StepOfOperation, StartConsistent, KeysWhileStarting, Copied
  <2>5. StateOfOperation'
    BY <2>1, <2>2, <2>3, NextToJob DEF StateOfOperation, Extending
  <2>6. KeysWhileWorking'
    BY <1>0, <2>1, <2>2, <2>3, NextToJob DEF KeysWhileWorking, Needed
  <2>7. Fields(sb)' /\ Keyed(sb)'
    BY <2>1, <2>2 DEF KInv, Fields, Keyed
  <2> QED BY <1>0, <2>3, <2>4, <2>5, <2>6, <2>7, ThenKInv DEF Steps, Copied
<1>4. CASE /\ Completed("Remove_Previous_Key")
           /\ Init_SB_Ciphertext([sb EXCEPT !.Previous_Key = 0, !.State = "Normal"],
                                 [job EXCEPT !.Request_Finished = TRUE])
  <2> DEFINE s == [sb EXCEPT !.Previous_Key = 0, !.State = "Normal"]
             j == [job EXCEPT !.Request_Finished = TRUE]
  <2>1. keys = {sb.Current_Key} /\ sb.State = "Rekeying"
    BY <1>0, <1>4, OfJob DEF KInv, KeysWhileWorking, StateOfOperation, Copied
  <2>2. /\ DOMAIN s = DOMAIN sb /\ s.State = "Normal"
        /\ s.Current_Key = sb.Current_Key
    BY FieldsOfSuperblock DEF KInv, Fields
  <2>3. DOMAIN j = DOMAIN Job_Invalid /\ j.op = job.op
    BY FieldsOfJob DEF IInv, Shape
  <2>4. Init_SB_Ciphertext(s, j)
    BY <1>4
  <2> HIDE DEF s, j
  <2>5. Fields(s) /\ Keyed(s) /\ keys = Needed(s) /\ s.State \notin {"Invalid", "Rekeying"}
    BY <2>1, <2>2 DEF KInv, Fields, Keyed, Needed
  <2> QED BY <1>0, <2>3, <2>4, <2>5, CopyKInv DEF Extending
<1> QED BY <1>1, <1>2, <1>3, <1>4 DEF Execute_Rekey_VBA

(* An extension has nothing to do with keys, and never meets a rekeying.   *)
LEMMA ExtensionKInv ==
  ASSUME IInv, KInv, Idle_Ctrl, Execute_Extension_Step
  PROVE  KInv'
<1>0. job.op \in DOMAIN Extending /\ UNCHANGED <<keys, device>>
      /\ job.op \notin {"Invalid", "Initialize", "Initialize_Rekeying", "Deinitialize",
                        "Rekey_VBA"}
  BY DEF Execute_Extension_Step, Extending, Idle_Ctrl
<1>1. ASSUME NEW snaps, NEW curr, NEW state, NEW nr, NEW finished,
             keys = Needed(sb), sb.State \notin {"Invalid", "Rekeying"},
             state \in {"Normal", "Extending_VBD", "Extending_FT", sb.State},
             Init_SB_Ciphertext([sb EXCEPT !.Snapshots = snaps, !.Curr_Snap = curr,
                                           !.State = state, !.Resizing_Nr_Of_PBAs = nr],
                                [job EXCEPT !.Request_Finished = finished])
      PROVE  KInv'
  <2> DEFINE s == [sb EXCEPT !.Snapshots = snaps, !.Curr_Snap = curr,
                             !.State = state, !.Resizing_Nr_Of_PBAs = nr]
             j == [job EXCEPT !.Request_Finished = finished]
  <2>1. /\ DOMAIN s = DOMAIN sb /\ s.State = state
        /\ s.Current_Key = sb.Current_Key /\ s.Previous_Key = sb.Previous_Key
    BY FieldsOfSuperblock DEF KInv, Fields
  <2>2. DOMAIN j = DOMAIN Job_Invalid /\ j.op = job.op
    BY FieldsOfJob DEF IInv, Shape
  <2>3. Init_SB_Ciphertext(s, j)
    BY <1>1
  <2> HIDE DEF s, j
  <2>4. state \notin {"Invalid", "Rekeying"} /\ sb.Current_Key \in Nat
        /\ state \in {"Normal", "Extending_VBD", "Extending_FT"}
    BY <1>1 DEF KInv, Fields, Keyed
  <2>5. Fields(s) /\ Keyed(s) /\ keys = Needed(s)
    BY <1>1, <2>1, <2>4 DEF KInv, Fields, Keyed, Needed
  <2> QED BY <1>0, <2>1, <2>2, <2>3, <2>4, <2>5, CopyKInv
<1>2. sb.State \notin {"Invalid", "Rekeying"} /\ keys = Needed(sb)
  <2>1. CASE Submitted(job.op)
    BY <1>0, <2>1, OfSubmitted DEF KInv, StateOfOperation, KeysWhileWorking
  <2>2. CASE Completed(Extend_In[job.op])
    <3>1. Extend_In[job.op] \in {"VBD_Ext_Step_In_VBD", "FT_Ext_Step_In_FT"}
      BY <1>0 DEF Extending, Extend_In
    <3> QED BY <1>0, <2>2, <3>1, OfJob DEF KInv, StateOfOperation, KeysWhileWorking
  <2> QED BY <2>1, <2>2 DEF Execute_Extension_Step
<1>3. CASE Init_SB_Ciphertext([sb EXCEPT !.State = Extending[job.op],
                                         !.Resizing_Nr_Of_PBAs = job.Nr_Of_Blks],
                              [job EXCEPT !.Request_Finished = FALSE])
  <2>1. Extending[job.op] \in {"Extending_VBD", "Extending_FT"}
    BY <1>0 DEF Extending
  <2>2. [sb EXCEPT !.State = Extending[job.op], !.Resizing_Nr_Of_PBAs = job.Nr_Of_Blks]
          = [sb EXCEPT !.Snapshots = sb.Snapshots, !.Curr_Snap = sb.Curr_Snap,
                       !.State = Extending[job.op], !.Resizing_Nr_Of_PBAs = job.Nr_Of_Blks]
    BY FieldsOfSuperblock DEF KInv, Fields
  <2>3. Init_SB_Ciphertext(
          [sb EXCEPT !.Snapshots = sb.Snapshots, !.Curr_Snap = sb.Curr_Snap,
                     !.State = Extending[job.op], !.Resizing_Nr_Of_PBAs = job.Nr_Of_Blks],
          [job EXCEPT !.Request_Finished = FALSE])
    BY <1>3, <2>2
  <2> QED BY <1>1, <1>2, <2>1, <2>3
<1>4. ASSUME NEW snaps, NEW curr, NEW nr, NEW finished, NEW last,
             Init_SB_Ciphertext([sb EXCEPT !.Snapshots = snaps, !.Curr_Snap = curr,
                                           !.State = IF last THEN "Normal" ELSE @,
                                           !.Resizing_Nr_Of_PBAs = nr],
                                [job EXCEPT !.Request_Finished = finished])
      PROVE  KInv'
  BY <1>1, <1>2, <1>4
<1>5. CASE /\ Submitted(job.op) /\ sb' = sb
           /\ job' = [job EXCEPT !.Nr_Of_Blks = sb.Resizing_Nr_Of_PBAs,
                                 !.state = <<Extend_In[job.op], "Pending">>]
  <2> DEFINE step == Extend_In[job.op]
  <2>1. step \in {"VBD_Ext_Step_In_VBD", "FT_Ext_Step_In_FT"}
    BY <1>0 DEF Extending, Extend_In
  <2>2. job'.op = job.op /\ job'.state = <<step, "Pending">>
    BY <1>5, FieldsOfJob DEF IInv, Shape
  <2> HIDE DEF step
  <2>3. StepOfOperation' /\ StartConsistent' /\ KeysWhileStarting'
    <3>1. /\ step = "VBD_Ext_Step_In_VBD" => job.op = "VBD_Extension_Step"
          /\ step = "FT_Ext_Step_In_FT" => job.op = "FT_Extension_Step"
      BY <1>0 DEF Extending, Extend_In, step
    <3> QED BY <1>0, <2>1, <2>2, <3>1, NextToJob
        DEF StepOfOperation, StartConsistent, KeysWhileStarting, Copied
  <2>4. StateOfOperation' /\ KeysWhileWorking'
    BY <1>0, <1>2, <1>5, <2>1, <2>2, NextToJob DEF StateOfOperation, KeysWhileWorking, Needed
  <2>5. Fields(sb)' /\ Keyed(sb)'
    BY <1>5 DEF KInv
  <2> QED BY <1>0, <2>1, <2>2, <2>3, <2>4, <2>5, ThenKInv DEF Steps, Copied
<1> QED BY <1>3, <1>4, <1>5 DEF Execute_Extension_Step

(* The end takes all keys away. *)
LEMMA DeinitializeKInv ==
  ASSUME IInv, KInv, Idle_Ctrl, Execute_Deinitialize
  PROVE  KInv'
<1>0. job.op = "Deinitialize" /\ UNCHANGED <<keys, device>>
  BY DEF Execute_Deinitialize, Idle_Ctrl
<1>1. ASSUME NEW step \in {"Remove_Current_Key", "Remove_Previous_Key"}, Then(step), sb' = sb,
             StateOfOperation', KeysWhileWorking'
      PROVE  KInv'
  <2>1. job'.op = "Deinitialize" /\ job'.state = <<step, "Pending">>
    BY <1>0, <1>1, ThenJob
  <2>2. StepOfOperation' /\ StartConsistent' /\ KeysWhileStarting'
    BY <1>1, <2>1, NextToJob DEF StepOfOperation, StartConsistent, KeysWhileStarting, Copied
  <2>3. Fields(sb)' /\ Keyed(sb)'
    BY <1>1 DEF KInv
  <2> QED BY <1>0, <1>1, <2>1, <2>2, <2>3, ThenKInv DEF Steps, Copied
<1>2. CASE Submitted("Deinitialize") /\ Then("Remove_Current_Key") /\ sb' = sb
  <2>1. keys = Needed(sb) /\ sb.State # "Invalid"
    BY <1>2, OfSubmitted DEF KInv, KeysWhileWorking, StateOfOperation
  <2>2. job'.op = "Deinitialize" /\ job'.state = <<"Remove_Current_Key", "Pending">>
    BY <1>0, <1>2, ThenJob
  <2>3. StateOfOperation' /\ KeysWhileWorking'
    BY <1>0, <1>2, <2>1, <2>2, NextToJob DEF StateOfOperation, KeysWhileWorking, Needed,
       Extending
  <2> QED BY <1>1, <1>2, <2>3
<1>3. CASE /\ Completed("Remove_Current_Key") /\ sb.State = "Rekeying"
           /\ Then("Remove_Previous_Key") /\ sb' = sb
  <2>1. keys = Needed(sb) \ {sb.Current_Key}
    BY <1>0, <1>3, OfJob DEF KInv, KeysWhileWorking
  <2>2. keys = {sb.Previous_Key}
    BY <1>3, <2>1 DEF KInv, Keyed, Needed
  <2>3. job'.op = "Deinitialize" /\ job'.state = <<"Remove_Previous_Key", "Pending">>
    BY <1>0, <1>3, ThenJob
  <2>4. StateOfOperation' /\ KeysWhileWorking'
    BY <1>0, <1>3, <2>2, <2>3, NextToJob DEF StateOfOperation, KeysWhileWorking, Extending
  <2> QED BY <1>1, <1>3, <2>4
<1>4. CASE /\ \/ Completed("Remove_Current_Key") /\ sb.State # "Rekeying" /\ UNCHANGED sb
              \/ Completed("Remove_Previous_Key") /\ sb' = [sb EXCEPT !.State = "Invalid"]
           /\ job' = [job EXCEPT !.success = TRUE, !.state = <<"Completed">>]
  <2>1. keys = {}
    BY <1>0, <1>4, OfJob DEF KInv, KeysWhileWorking, Needed
  <2>2. Fields(sb)' /\ Keyed(sb)'
    BY <1>4, FieldsOfSuperblock DEF KInv, Fields, Keyed
  <2> QED BY <1>0, <1>4, <2>1, <2>2, EndKInv
<1> QED BY <1>2, <1>3, <1>4 DEF Execute_Deinitialize

(* The start reads superblocks until it has one that is usable, and takes  *)
(* it over with the keys that are in it.                                   *)
LEMMA StartGoesOn ==
  ASSUME IInv, KInv, device' = device, NEW step \in Steps \ Copied,
         step \notin {"Create_Key", "Add_Key", "Rekey_VBA_In_VBD", "VBD_Ext_Step_In_VBD",
                      "FT_Ext_Step_In_FT", "Remove_Current_Key", "Remove_Previous_Key"},
         job'.op = "Initialize", job'.state = <<step, "Pending">>, sb' = sb,
         StartConsistent', KeysWhileStarting'
  PROVE  KInv'
<1>1. StepOfOperation' /\ StateOfOperation' /\ KeysWhileWorking'
  BY NextToJob DEF StepOfOperation, StateOfOperation, KeysWhileWorking, Copied
<1>2. Fields(sb)' /\ Keyed(sb)'
  BY DEF KInv
<1> QED BY <1>1, <1>2, ThenKInv

(* What was found is on the device, and in the end something was found.    *)
LEMMA ReadSBKInv ==
  ASSUME IInv, KInv, Idle_Ctrl, job.op = "Initialize", Completed("Read_SB"), ~Execute_Raises,
         sb' = sb,
         job' = IF job.Read_SB_Idx < Superblocks_Last
                  THEN [Chosen EXCEPT !.Read_SB_Idx = @ + 1,
                                      !.state = <<"Read_SB", "Pending">>]
                  ELSE [Chosen EXCEPT !.state = <<"Read_Current_SB", "Pending">>]
  PROVE  KInv'
<1>0. UNCHANGED <<keys, device>> /\ keys = {} /\ sb.State = "Invalid"
  BY OfJob DEF Idle_Ctrl, KInv, KeysWhileStarting, StartConsistent
<1>1. /\ DOMAIN Chosen = DOMAIN job /\ Chosen.op = "Initialize"
      /\ Chosen.SB_Found => \/ job.SB_Found /\ Chosen.SB_Idx = job.SB_Idx
                            \/ Read_SB_Valid /\ Chosen.SB_Idx = job.Read_SB_Idx
      /\ job.SB_Found \/ Read_SB_Valid => Chosen.SB_Found
  BY FieldsOfJob DEF Chosen, IInv, Shape
<1>2. /\ job'.op = "Initialize" /\ job'.SB_Found = Chosen.SB_Found
      /\ job'.SB_Idx = Chosen.SB_Idx
      /\ job'.state = IF job.Read_SB_Idx < Superblocks_Last
                        THEN <<"Read_SB", "Pending">> ELSE <<"Read_Current_SB", "Pending">>
  BY <1>1, FieldsOfJob DEF IInv, Shape
<1>3. job'.SB_Found => device.superblocks[job'.SB_Idx].plain.State # "Invalid"
  BY <1>1, <1>2, OfJob DEF KInv, StartConsistent, Read_SB_Valid
<1>4. job.Read_SB_Idx = Superblocks_Last => job'.SB_Found
  BY <1>1, <1>2 DEF Execute_Raises
<1>5. job.Read_SB_Idx < Superblocks_Last \/ job.Read_SB_Idx = Superblocks_Last
  BY SuperblockAssumption DEF IInv, Shape, Superblocks_Index
<1>6. ASSUME NEW step \in {"Read_SB", "Read_Current_SB"}, job'.state = <<step, "Pending">>,
             step = "Read_Current_SB" => job'.SB_Found
      PROVE  KInv'
  <2>1. StartConsistent' /\ KeysWhileStarting'
    BY <1>0, <1>2, <1>3, <1>6, NextToJob DEF StartConsistent, KeysWhileStarting
  <2> QED BY <1>0, <1>2, <1>6, <2>1, StartGoesOn DEF Steps, Copied
<1> QED BY <1>2, <1>4, <1>5, <1>6

(* All steps of the start. *)
LEMMA InitializeKInv ==
  ASSUME IInv, KInv, Idle_Ctrl, Execute_Initialize, ~Execute_Raises
  PROVE  KInv'
<1>0. job.op = "Initialize" /\ UNCHANGED <<keys, device>>
  BY DEF Execute_Initialize, Idle_Ctrl
<1> DEFINE plain == job.SB_Ciphertext.plain
<1>1. ASSUME NEW step, Then(step)
      PROVE  /\ job'.op = "Initialize" /\ job'.state = <<step, "Pending">>
             /\ job'.SB_Ciphertext = job.SB_Ciphertext /\ job'.SB_Found = job.SB_Found
             /\ job'.SB_Idx = job.SB_Idx
  BY <1>0, <1>1, ThenJob
<1>2. CASE Submitted("Initialize") /\ Then("Read_SB") /\ sb' = sb
  <2>1. StartConsistent' /\ KeysWhileStarting'
    BY <1>0, <1>1, <1>2, OfSubmitted, NextToJob
       DEF KInv, StartConsistent, KeysWhileStarting
  <2> QED BY <1>0, <1>1, <1>2, <2>1, StartGoesOn DEF Steps, Copied
<1>3. ASSUME NEW step, NEW next, Completed(step), Then(next), sb' = sb,
             \/ step = "Read_Current_SB" /\ next = "Decrypt_Current_Key"
             \/ step = "Decrypt_Current_Key" /\ next = "Add_Current_Key"
             \/ /\ step = "Add_Current_Key" /\ next = "Decrypt_Previous_Key"
                /\ plain.State = "Rekeying"
             \/ step = "Decrypt_Previous_Key" /\ next = "Add_Previous_Key"
      PROVE  KInv'
  <2>1. /\ sb.State = "Invalid" /\ Usable(job.SB_Ciphertext) /\ plain.State # "Invalid"
        /\ step = "Decrypt_Previous_Key" => plain.State = "Rekeying"
        /\ job.SB_Found => device.superblocks[job.SB_Idx].plain.State # "Invalid"
    BY <1>0, <1>3, OfJob DEF KInv, StartConsistent
  <2>2. keys = IF step \in {"Add_Current_Key", "Decrypt_Previous_Key"}
                 THEN {plain.Current_Key} ELSE {}
    BY <1>0, <1>3, OfJob DEF KInv, KeysWhileStarting
  <2>3. StartConsistent'
    BY <1>0, <1>1, <1>3, <2>1, NextToJob DEF StartConsistent
  <2>4. KeysWhileStarting'
    BY <1>0, <1>1, <1>3, <2>2, NextToJob DEF KeysWhileStarting
  <2> QED BY <1>0, <1>1, <1>3, <2>3, <2>4, StartGoesOn DEF Steps, Copied
<1>4. CASE /\ Init_SB_Plaintext
           /\ \/ Completed("Add_Current_Key") /\ plain.State # "Rekeying"
              \/ Completed("Add_Previous_Key")
  <2>1. Usable(job.SB_Ciphertext) /\ plain.State # "Invalid"
    BY <1>0, <1>4, OfJob DEF KInv, StartConsistent
  <2>2. keys = Needed(plain)
    BY <1>0, <1>4, OfJob DEF KInv, KeysWhileStarting, Needed
  <2>3. Fields(sb)' /\ Keyed(sb)' /\ keys = Needed(sb)' /\ sb'.State # "Invalid"
    BY <1>4, <2>1, <2>2 DEF Init_SB_Plaintext, Usable
  <2> QED BY <1>0, <1>4, <2>3, EndKInv DEF Init_SB_Plaintext
<1> QED BY <1>0, <1>2, <1>3, <1>4, ReadSBKInv DEF Execute_Initialize

(* All of Execute. *)
LEMMA ExecuteKInv == IInv /\ KInv /\ Execute => KInv'
BY RaiseKInv, PrepareKInv, SyncBlkIOCompletedKInv, SecureSBCompletedKInv,
   ShortOperationsKInv, InitializeRekeyingKInv, RekeyVBAKInv, ExtensionKInv,
   DeinitializeKInv, InitializeKInv DEF Execute

-----------------------------------------------------------------------------
(* Every step keeps the invariant. *)
THEOREM NextKInv == IInv /\ KInv /\ [Next]_vars => KInv'
<1> SUFFICES ASSUME IInv, KInv, [Next]_vars PROVE KInv'
  OBVIOUS
<1>1. CASE UNCHANGED vars
  BY <1>1 DEF vars, KInv, DeviceUsable, StepOfOperation, StartConsistent, StateOfOperation,
     KeysWhileStarting, KeysWhileWorking, KeysWithoutJob, CopyHasKeys, Starting, Working,
     NoJob, Needed, At, Completed, Pending
<1>2. CASE Next
  BY <1>2, SubmitKInv, DropKInv, WritebackKInv, ExecuteKInv, TrustAnchorKInv, CryptoKInv,
     CacheSyncKInv, CacheWriteBackKInv, BlockIOKInv, VBDRekeyingKInv, FTResizingKInv,
     RestartKInv DEF Next
<1> QED BY <1>1, <1>2

(* At any time, whatever operation is under way and at whatever step of it, *)
(* the crypto module has the keys that this step expects, and every        *)
(* superblock on the device holds the keys by which it is to be read.      *)
THEOREM KeysInvariance == Spec => []KInv
<1> QED BY Invariance, InitKInv, NextKInv, PTL DEF Spec

(* Each operation finds the keys in use at the crypto module, none missing  *)
(* and no other, and leaves it so, but for the last one, which leaves none. *)
THEOREM RightKeys == Spec => []KeysAtCrypto
<1>1. KInv => KeysAtCrypto
  <2> SUFFICES ASSUME KInv PROVE KeysAtCrypto
    OBVIOUS
  <2>1. Needed(sb) = Keys_In_Use
    BY DEF Needed, Keys_In_Use
  <2>2. ASSUME job.op \in Operations, job.state = <<"Submitted">> PROVE keys = Keys_In_Use
    <3>1. Working
      BY <2>2, StatesDiffer DEF Working, Starting, NoJob, Operations
    <3>2. \A steps : ~At(steps)
      BY <2>2, StatesDiffer DEF At
    <3>3. \A step : ~Completed(step) /\ ~Pending(step)
      BY <2>2, StatesDiffer DEF Completed, Pending
    <3> QED BY <2>1, <3>1, <3>2, <3>3 DEF KInv, KeysWhileWorking
  <2>3. ASSUME job.op # "Invalid", job.state = <<"Completed">>
        PROVE  keys = IF job.op = "Deinitialize" THEN {} ELSE Keys_In_Use
    BY <2>1, <2>3 DEF KInv, KeysWithoutJob, NoJob
  <2> QED BY <2>2, <2>3 DEF KeysAtCrypto
<1> QED BY <1>1, KeysInvariance, PTL
=============================================================================
