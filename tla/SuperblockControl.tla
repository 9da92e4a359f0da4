-------------------------- MODULE SuperblockControl --------------------------
(***************************************************************************)
(* How the CBE makes a state of the virtual block device durable (package  *)
(* CBE.Superblock_Control), with what it works on: the superblock and the  *)
(* generation that the library keeps, the write-back of client data, which *)
(* changes the current snapshot, the trust anchor, the keys of the crypto  *)
(* module, the rekeying and the extension of the trees, and the device.    *)
(*                                                                         *)
(* A snapshot is the root of a tree, and a tree is taken as one block that *)
(* holds all data and, for each address, the key they are encrypted with.  *)
(* Blocks are allocated anew in each generation, so a block is named by    *)
(* the generation of the snapshot it was allocated for and the generation  *)
(* it was allocated in.  That blocks in use are not allocated again is the *)
(* matter of the free tree and assumed here.  The hash of a tree is the    *)
(* content of its block; the hash of a superblock is the superblock.       *)
(*                                                                         *)
(* The request pool hands on one request at a time, so there is one job,   *)
(* and nothing is written by clients while there is one.  A step of a job  *)
(* that another module carries out is Pending until that module answers:   *)
(* the state In_Progress between the two is left out.  Of a finished job   *)
(* only Request_Finished stays, as no step reads anything else of it.      *)
(***************************************************************************)
EXTENDS Integers, FiniteSets

CONSTANTS
  Snapshots_Last,    \* last index of a snapshot: 47 in the code
  Superblocks_Last,  \* last index of a superblock: 7 in the code
  VBA_Last,          \* bound: last address of the virtual block device
  Max_Generation,    \* bound: generations
  Max_Nr_Of_Blks,    \* bound: blocks by which a tree is extended
  Max_Restarts,      \* bound: restarts
  Client_Ops,        \* operations the clients request
  Restarted_Ops,     \* operations after a restart
  Max_Kept,          \* snapshots the clients keep at a time
  Discard_Current,   \* whether clients discard a snapshot taken of the current state
  Extend_Full,       \* whether they extend the free tree with few free snapshots left
  Write_Ahead        \* whether clients write what is yet to be rekeyed

Operations == {"Sync", "Create_Snapshot", "Discard_Snapshot", "Initialize_Rekeying",
               "Rekey_VBA", "VBD_Extension_Step", "FT_Extension_Step", "Deinitialize"}

ASSUME SuperblockAssumption ==
  /\ {Snapshots_Last, Superblocks_Last, VBA_Last, Max_Restarts, Max_Kept} \subseteq Nat
  /\ {Max_Generation, Max_Nr_Of_Blks} \subseteq Nat \ {0}
  /\ Client_Ops \cup Restarted_Ops \subseteq Operations \cup {"Write"}
  /\ {Discard_Current, Extend_Full, Write_Ahead} \subseteq BOOLEAN

VARIABLES
  sb,        \* Superblock
  sb_idx,    \* Cur_SB: the slot of the next superblock
  curr_gen,  \* Cur_Gen
  job,       \* the job of the superblock control
  keys,      \* IDs of the keys that the crypto module has
  secured,   \* Secured_SB_Hash of the trust anchor
  cached,    \* the blocks as the users of the cache see them
  device,    \* the block device
  restarts,  \* restarts so far
  raised     \* whether Program_Error was raised

vars == <<sb, sb_idx, curr_gen, job, keys, secured, cached, device, restarts, raised>>

-----------------------------------------------------------------------------
Snapshots_Index   == 0 .. Snapshots_Last
Superblocks_Index == 0 .. Superblocks_Last
VBA               == 0 .. VBA_Last
Generation        == 0 .. Max_Generation
Key_ID            == 0 .. Max_Generation + 1   \* 0: Key_ID_Invalid
Tree              == {t \in Generation \X Generation : t[1] <= t[2]}

Content == [data : {"x", "y", "none"}, key : [VBA -> Key_ID]]
Absent  == [data |-> "none", key |-> [v \in VBA |-> 0]]

Snapshot == [Valid : BOOLEAN, Keep : BOOLEAN, Gen : Generation, PBA : Tree, Hash : Content]
Snapshot_Invalid ==
  [Valid |-> FALSE, Keep |-> FALSE, Gen |-> 0, PBA |-> <<0, 0>>, Hash |-> Absent]

Superblock == [State : {"Invalid", "Normal", "Rekeying", "Extending_VBD", "Extending_FT"},
               Rekeying_VBA : VBA, Resizing_Nr_Of_PBAs : 0 .. Max_Nr_Of_Blks,
               Previous_Key : Key_ID, Current_Key : Key_ID,
               Snapshots : [Snapshots_Index -> Snapshot], Curr_Snap : Snapshots_Index,
               Last_Secured_Generation : Generation]
Superblock_Invalid ==
  [State |-> "Invalid", Rekeying_VBA |-> 0, Resizing_Nr_Of_PBAs |-> 0,
   Previous_Key |-> 0, Current_Key |-> 0,
   Snapshots |-> [i \in Snapshots_Index |-> Snapshot_Invalid], Curr_Snap |-> 0,
   Last_Secured_Generation |-> 0]

(* On the device: a superblock and the keys whose values it holds.         *)
Ciphertext         == [plain : Superblock, values : SUBSET Key_ID]
Ciphertext_Invalid == [plain |-> Superblock_Invalid, values |-> {}]

Steps == {"Read_SB", "Read_Current_SB", "Decrypt_Current_Key", "Add_Current_Key",
          "Decrypt_Previous_Key", "Add_Previous_Key", "Create_Key", "Add_Key",
          "Rekey_VBA_In_VBD", "VBD_Ext_Step_In_VBD", "FT_Ext_Step_In_FT",
          "Remove_Previous_Key", "Remove_Current_Key",
          "Encrypt_Current_Key", "Encrypt_Previous_Key", "Sync_Cache",
          "Write_SB", "Sync_Blk_IO", "Secure_SB"}

Job == [op : Operations \cup {"Invalid", "Initialize"},
        state : (Steps \X {"Pending", "Completed"}) \cup {<<"Submitted">>, <<"Completed">>},
        success : BOOLEAN, Generation : Generation, Nr_Of_Blks : 0 .. Max_Nr_Of_Blks,
        SB_Ciphertext : Ciphertext, Snapshots : [Snapshots_Index -> Snapshot],
        Hash : Superblock, Request_Finished : BOOLEAN,
        SB_Found : BOOLEAN, SB_Idx : Superblocks_Index, Read_SB_Idx : Superblocks_Index]
Job_Invalid ==
  [op |-> "Invalid", state |-> <<"Submitted">>, success |-> FALSE, Generation |-> 0,
   Nr_Of_Blks |-> 0, SB_Ciphertext |-> Ciphertext_Invalid,
   Snapshots |-> Superblock_Invalid.Snapshots, Hash |-> Superblock_Invalid,
   Request_Finished |-> FALSE, SB_Found |-> FALSE, SB_Idx |-> 0, Read_SB_Idx |-> 0]

(* "unsynced": what was written after the last sync of the device.         *)
Device == [superblocks : [Superblocks_Index -> Ciphertext], trees : [Tree -> Content],
           unsynced_sbs : SUBSET Superblocks_Index, unsynced_trees : SUBSET Tree]

TypeOK ==
  /\ sb \in Superblock
  /\ sb_idx \in Superblocks_Index
  /\ curr_gen \in 0 .. Max_Generation + 1
  /\ job \in Job
  /\ keys \subseteq Key_ID
  /\ secured \in Superblock
  /\ cached \in [Tree -> Content]
  /\ device \in Device
  /\ restarts \in 0 .. Max_Restarts
  /\ raised \in BOOLEAN

-----------------------------------------------------------------------------
(***************************************************************************)
(* Start-up, from what the initializer or an earlier run left on the       *)
(* device.                                                                 *)
(***************************************************************************)
Initial_Content == [data |-> "x", key |-> [v \in VBA |-> 1]]

Initial_Superblock ==
  [Superblock_Invalid EXCEPT
     !.State = "Normal", !.Current_Key = 1,
     !.Snapshots[0] = [Snapshot_Invalid EXCEPT !.Valid = TRUE, !.Hash = Initial_Content]]

Initial_Device ==
  [superblocks |-> [i \in Superblocks_Index |->
                      IF i = 0 THEN [plain |-> Initial_Superblock, values |-> {1}]
                               ELSE Ciphertext_Invalid],
   trees |-> [t \in Tree |-> IF t = <<0, 0>> THEN Initial_Content ELSE Absent],
   unsynced_sbs |-> {}, unsynced_trees |-> {}]

Init ==
  /\ sb = Superblock_Invalid
  /\ sb_idx = 0
  /\ curr_gen = 0
  /\ job = [Job_Invalid EXCEPT !.op = "Initialize"]
  /\ keys = {}
  /\ secured = Superblock_Invalid
  /\ device = Initial_Device
  /\ cached = device.trees
  /\ restarts = 0
  /\ raised = FALSE

(* The component stops at any point and starts again.                      *)
Restart ==
  /\ restarts < Max_Restarts
  /\ restarts' = restarts + 1
  /\ sb' = Superblock_Invalid
  /\ sb_idx' = 0
  /\ curr_gen' = 0
  /\ job' = [Job_Invalid EXCEPT !.op = "Initialize"]
  /\ keys' = {}
  /\ secured' = Superblock_Invalid
  /\ cached' = device.trees
  /\ UNCHANGED <<device, raised>>

Raise_Program_Error ==
  /\ raised' = TRUE
  /\ UNCHANGED <<sb, sb_idx, curr_gen, job, keys, secured, cached, device, restarts>>

-----------------------------------------------------------------------------
(***************************************************************************)
(* Snapshots.                                                              *)
(***************************************************************************)
Curr(s) == s.Snapshots[s.Curr_Snap]

Valid_Snaps(snaps) == {i \in Snapshots_Index : snaps[i].Valid}

Kept_Snaps(snaps) == {i \in Valid_Snaps(snaps) : snaps[i].Keep}

IsFirst(x, S) == x \in S /\ \A y \in S : x <= y

First(S) == CHOOSE x \in S : IsFirst(x, S)

Newest_Snapshot_Idx(snaps) ==
  First({i \in Valid_Snaps(snaps) :
           \A k \in Valid_Snaps(snaps) : snaps[k].Gen <= snaps[i].Gen})

(* Mutant: nothing is discarded. *)
Discard_No_Snapshots(snaps, gen, last_secured_gen) == snaps

Discard_Disposable_Snapshots(snaps, gen, last_secured_gen) ==
  [i \in Snapshots_Index |->
     [snaps[i] EXCEPT !.Valid = @ /\ \/ snaps[i].Keep
                                     \/ snaps[i].Gen \in {gen, last_secured_gen}]]

(* The key with which an address is read. *)
Key_For(s, v) ==
  IF s.State = "Rekeying" /\ s.Rekeying_VBA <= v THEN s.Previous_Key ELSE s.Current_Key

-----------------------------------------------------------------------------
(***************************************************************************)
(* The request pool.                                                       *)
(***************************************************************************)
Requestable ==
  [Invalid       |-> {},
   Normal        |-> Operations \ {"Rekey_VBA"},
   Rekeying      |-> {"Rekey_VBA", "Sync", "Discard_Snapshot"},
   Extending_VBD |-> {"VBD_Extension_Step", "Sync", "Discard_Snapshot"},
   Extending_FT  |-> {"FT_Extension_Step", "Sync", "Discard_Snapshot"}]

Ready(op) ==
  /\ job.op = "Invalid"
  /\ keys # {}                      \* no longer, once deinitialized
  /\ op \in IF restarts = 0 THEN Client_Ops ELSE Restarted_Ops
  /\ curr_gen <= Max_Generation

Submit_Primitive(op) ==
  /\ Ready(op)
  /\ op \in Requestable[sb.State]
  /\ op = "Create_Snapshot" => Cardinality(Kept_Snaps(sb.Snapshots)) < Max_Kept
  /\ \E gen \in Generation, nr \in 1 .. Max_Nr_Of_Blks :
       /\ IF op = "Discard_Snapshot"
            THEN Discard_Current \/ ~(Curr(sb).Keep /\ Curr(sb).Gen = gen)
            ELSE gen = 0
       /\ op \notin {"VBD_Extension_Step", "FT_Extension_Step"} => nr = 1
       /\ op = "FT_Extension_Step" /\ sb.State = "Normal" /\ ~Extend_Full =>
            Cardinality(Valid_Snaps(sb.Snapshots)) + nr + 1 <= Snapshots_Last
       /\ job' = [job EXCEPT !.op = op, !.state = <<"Submitted">>, !.success = FALSE,
                             !.Generation = gen, !.Nr_Of_Blks = nr]
  /\ UNCHANGED <<sb, sb_idx, curr_gen, keys, secured, cached, device, restarts, raised>>

Drop_Completed_Primitive ==
  /\ job.op # "Invalid"
  /\ job.state = <<"Completed">>
  /\ job' = [Job_Invalid EXCEPT !.Request_Finished = job.Request_Finished]
  /\ UNCHANGED <<sb, sb_idx, curr_gen, keys, secured, cached, device, restarts, raised>>

-----------------------------------------------------------------------------
(***************************************************************************)
(* A write of a client: its end in Execute_Writeback.                      *)
(***************************************************************************)
(* Mutant: a snapshot secured in the last generation is changed in place. *)
Writeback_Snaps_In_Place(h) ==
  {[sb EXCEPT !.Snapshots[sb.Curr_Snap].Gen = curr_gen,
              !.Snapshots[sb.Curr_Snap].PBA = <<curr_gen, curr_gen>>,
              !.Snapshots[sb.Curr_Snap].Hash = h]}

(* The superblock after the current snapshot has got the hash h, or none   *)
(* if there is no place for a snapshot.                                    *)
Writeback_Snaps(h) ==
  {[sb EXCEPT !.Curr_Snap = i,
              !.Snapshots[i] = [Curr(sb) EXCEPT
                 !.Gen = curr_gen, !.PBA = <<curr_gen, curr_gen>>, !.Hash = h,
                 !.Keep = @ /\ Curr(sb).Gen = curr_gen]] :
     i \in IF Curr(sb).Gen < curr_gen
             THEN {k \in Snapshots_Index :
                     IsFirst(k, Snapshots_Index \ Valid_Snaps(sb.Snapshots))}
             ELSE {sb.Curr_Snap}}

Other(d) == IF d = "x" THEN "y" ELSE "x"

(* Data are encrypted with the current key, whatever the address.          *)
Execute_Writeback(v) ==
  /\ Ready("Write")
  /\ sb.State # "Invalid"
  /\ Write_Ahead \/ Key_For(sb, v) = sb.Current_Key
  /\ LET h == [data |-> Other(Curr(sb).Hash.data),
               key |-> [Curr(sb).Hash.key EXCEPT ![v] = sb.Current_Key]]
     IN \/ /\ Writeback_Snaps(h) = {}
           /\ Raise_Program_Error
        \/ /\ sb' \in Writeback_Snaps(h)
           /\ cached' = [cached EXCEPT ![<<curr_gen, curr_gen>>] = h]
           /\ UNCHANGED <<sb_idx, curr_gen, job, keys, secured, device, restarts, raised>>

-----------------------------------------------------------------------------
(***************************************************************************)
(* Execute: the steps by which the superblock is secured, the same for all *)
(* operations.                                                             *)
(***************************************************************************)
Idle_Ctrl == UNCHANGED <<keys, secured, cached, device, restarts, raised>>

Completed(step) == job.state = <<step, "Completed">>

Then(step) == job' = [job EXCEPT !.state = <<step, "Pending">>]

(* Init_SB_Ciphertext_Without_Key_Values, and what the operations do around *)
(* it.  s and j are the superblock and the job so far.                      *)
Init_SB_Ciphertext(s, j) ==
  LET t == [s EXCEPT !.Snapshots[s.Curr_Snap].Gen = curr_gen]
  IN /\ sb' = t
     /\ job' = [j EXCEPT !.SB_Ciphertext = [plain |-> t, values |-> {}],
                         !.state = <<"Encrypt_Current_Key", "Pending">>]
     /\ UNCHANGED <<sb_idx, curr_gen>>

(* Mutant: the superblock is written before the cache is synced. *)
Next_Step_Without_Cache_Sync(step) ==
  CASE step = "Encrypt_Current_Key"  -> "Encrypt_Previous_Key"
    [] step = "Encrypt_Previous_Key" -> "Write_SB"
    [] step = "Sync_Cache"           -> "Write_SB"
    [] step = "Write_SB"             -> "Sync_Blk_IO"

Next_Step(step) ==
  CASE step = "Encrypt_Current_Key" ->
         IF job.op = "Rekey_VBA" /\ job.Request_Finished THEN "Sync_Cache"
                                                         ELSE "Encrypt_Previous_Key"
    [] step = "Encrypt_Previous_Key" -> "Sync_Cache"
    [] step = "Sync_Cache"           -> "Write_SB"
    [] step = "Write_SB"             -> "Sync_Blk_IO"

Execute_Prepare ==
  /\ \E step \in {"Encrypt_Current_Key", "Encrypt_Previous_Key", "Sync_Cache", "Write_SB"} :
       Completed(step) /\ Then(Next_Step(step))
  /\ UNCHANGED <<sb, sb_idx, curr_gen>>

(* Mutant: the slots are no ring. *)
Next_SB_Idx_Without_Wrap == sb_idx + 1

Next_SB_Idx == IF sb_idx < Superblocks_Last THEN sb_idx + 1 ELSE 0

(* Mutant: the trust anchor does not wait for the sync of the device. *)
Execute_Sync_Blk_IO_Completed_Unawaited ==
  /\ Completed("Write_SB")
  /\ sb_idx' = Next_SB_Idx
  /\ curr_gen' = curr_gen + 1
  /\ job' = [job EXCEPT !.Hash = sb, !.Generation = curr_gen,
                        !.state = <<"Secure_SB", "Pending">>]
  /\ UNCHANGED sb

Execute_Sync_Blk_IO_Completed ==
  /\ Completed("Sync_Blk_IO")
  /\ sb_idx' = Next_SB_Idx
  /\ curr_gen' = curr_gen + 1
  /\ job' = [job EXCEPT !.Hash = sb, !.Generation = curr_gen,
                        !.state = <<"Secure_SB", "Pending">>]
  /\ UNCHANGED sb

Execute_Secure_SB_Completed ==
  /\ Completed("Secure_SB")
  /\ sb' = [sb EXCEPT !.Last_Secured_Generation = job.Generation]
  /\ job' = [job EXCEPT !.success = TRUE, !.state = <<"Completed">>]
  /\ UNCHANGED <<sb_idx, curr_gen>>

-----------------------------------------------------------------------------
(***************************************************************************)
(* Execute: what the operations do before.                                 *)
(***************************************************************************)
Submitted(op) == job.op = op /\ job.state = <<"Submitted">>

Secure_Curr_Gen(snaps) ==
  [sb EXCEPT !.Snapshots = Discard_Disposable_Snapshots(
                             snaps, sb.Last_Secured_Generation, curr_gen),
             !.Last_Secured_Generation = curr_gen]

Execute_Sync ==
  /\ Submitted("Sync")
  /\ Init_SB_Ciphertext(Secure_Curr_Gen(sb.Snapshots), job)

Execute_Create_Snapshot ==
  /\ Submitted("Create_Snapshot")
  /\ LET s == Secure_Curr_Gen(sb.Snapshots)
     IN Init_SB_Ciphertext([s EXCEPT !.Snapshots[s.Curr_Snap].Keep = TRUE], job)

Execute_Discard_Snapshot ==
  /\ Submitted("Discard_Snapshot")
  /\ LET found == {i \in Kept_Snaps(sb.Snapshots) : sb.Snapshots[i].Gen = job.Generation}
     IN \/ \E i \in Snapshots_Index :
             /\ IsFirst(i, found)
             /\ Init_SB_Ciphertext(
                  Secure_Curr_Gen([sb.Snapshots EXCEPT ![i].Valid = FALSE]), job)
        \/ /\ found = {}
           /\ job' = [job EXCEPT !.success = FALSE, !.state = <<"Completed">>]
           /\ UNCHANGED <<sb, sb_idx, curr_gen>>

Execute_Initialize_Rekeying ==
  /\ job.op = "Initialize_Rekeying"
  /\ \/ /\ Submitted("Initialize_Rekeying")
        /\ Then("Create_Key")
        /\ UNCHANGED <<sb, sb_idx, curr_gen>>
     \/ /\ Completed("Create_Key")
        /\ sb' = [sb EXCEPT !.State = "Rekeying", !.Rekeying_VBA = 0,
                            !.Previous_Key = sb.Current_Key,
                            !.Current_Key = sb.Current_Key + 1]
        /\ Then("Add_Key")
        /\ UNCHANGED <<sb_idx, curr_gen>>
     \/ /\ Completed("Add_Key")
        /\ Init_SB_Ciphertext(sb, job)

Execute_Rekey_VBA ==
  /\ job.op = "Rekey_VBA"
  /\ \/ /\ Submitted("Rekey_VBA")   \* in the state Rekeying
        /\ Then("Rekey_VBA_In_VBD")
        /\ UNCHANGED <<sb, sb_idx, curr_gen>>
     \/ /\ Completed("Rekey_VBA_In_VBD")
        /\ sb.Rekeying_VBA < VBA_Last
        /\ Init_SB_Ciphertext([sb EXCEPT !.Snapshots = job.Snapshots, !.Rekeying_VBA = @ + 1],
                              [job EXCEPT !.Request_Finished = FALSE])
     \/ /\ Completed("Rekey_VBA_In_VBD")
        /\ sb.Rekeying_VBA = VBA_Last
        /\ sb' = [sb EXCEPT !.Snapshots = job.Snapshots]
        /\ Then("Remove_Previous_Key")
        /\ UNCHANGED <<sb_idx, curr_gen>>
     \/ /\ Completed("Remove_Previous_Key")
        /\ Init_SB_Ciphertext([sb EXCEPT !.Previous_Key = 0, !.State = "Normal"],
                              [job EXCEPT !.Request_Finished = TRUE])

Extending == [VBD_Extension_Step |-> "Extending_VBD", FT_Extension_Step |-> "Extending_FT"]
Extend_In == [VBD_Extension_Step |-> "VBD_Ext_Step_In_VBD",
              FT_Extension_Step  |-> "FT_Ext_Step_In_FT"]

(* The remaining number of blocks is not cleared at the end of an          *)
(* extension of the virtual block device.                                  *)
Execute_Extension_Step ==
  /\ job.op \in DOMAIN Extending
  /\ \/ /\ Submitted(job.op)
        /\ sb.State = "Normal"
        /\ Init_SB_Ciphertext([sb EXCEPT !.State = Extending[job.op],
                                         !.Resizing_Nr_Of_PBAs = job.Nr_Of_Blks],
                              [job EXCEPT !.Request_Finished = FALSE])
     \/ /\ Submitted(job.op)
        /\ sb.State = Extending[job.op]
        /\ job' = [job EXCEPT !.Nr_Of_Blks = sb.Resizing_Nr_Of_PBAs,
                              !.state = <<Extend_In[job.op], "Pending">>]
        /\ UNCHANGED <<sb, sb_idx, curr_gen>>
     \/ /\ Completed(Extend_In[job.op])
        /\ LET last == job.Nr_Of_Blks = 0
               vbd  == job.op = "VBD_Extension_Step"
           IN Init_SB_Ciphertext(
                [sb EXCEPT !.Snapshots = IF vbd THEN job.Snapshots ELSE @,
                           !.Curr_Snap = IF vbd THEN Newest_Snapshot_Idx(job.Snapshots) ELSE @,
                           !.State = IF last THEN "Normal" ELSE @,
                           !.Resizing_Nr_Of_PBAs = IF vbd /\ last THEN @ ELSE job.Nr_Of_Blks],
                [job EXCEPT !.Request_Finished = IF last THEN TRUE ELSE @])

Execute_Deinitialize ==
  /\ job.op = "Deinitialize"
  /\ \/ /\ Submitted("Deinitialize")
        /\ Then("Remove_Current_Key")
        /\ UNCHANGED sb
     \/ /\ Completed("Remove_Current_Key")
        /\ sb.State = "Rekeying"
        /\ Then("Remove_Previous_Key")
        /\ UNCHANGED sb
     \/ /\ \/ Completed("Remove_Current_Key") /\ sb.State # "Rekeying" /\ UNCHANGED sb
           \/ Completed("Remove_Previous_Key") /\ sb' = [sb EXCEPT !.State = "Invalid"]
        /\ job' = [job EXCEPT !.success = TRUE, !.state = <<"Completed">>]
  /\ UNCHANGED <<sb_idx, curr_gen>>

-----------------------------------------------------------------------------
(***************************************************************************)
(* Execute: the start, which chooses a superblock and takes it over.       *)
(***************************************************************************)
(* Of the superblock that was read, as the job sees it.                    *)
Read_SB_Valid == job.SB_Ciphertext.plain.State # "Invalid"

Read_SB_Gen ==
  LET snaps == job.SB_Ciphertext.plain.Snapshots IN snaps[Newest_Snapshot_Idx(snaps)].Gen

(* The superblock with the lowest generation is chosen.                    *)
Chosen == IF Read_SB_Valid /\ (job.SB_Found => Read_SB_Gen < job.Generation)
            THEN [job EXCEPT !.Generation = Read_SB_Gen, !.SB_Idx = job.Read_SB_Idx,
                             !.SB_Found = TRUE]
            ELSE job

Init_SB_Plaintext ==
  /\ sb' = job.SB_Ciphertext.plain
  /\ sb_idx' = job.SB_Idx
  /\ curr_gen' = job.Generation + 1
  /\ job' = [job EXCEPT !.success = TRUE, !.state = <<"Completed">>]

Execute_Initialize ==
  /\ job.op = "Initialize"
  /\ \/ /\ \/ Submitted("Initialize") /\ Then("Read_SB")
           \/ /\ Completed("Read_SB")
              /\ job' = IF job.Read_SB_Idx < Superblocks_Last
                          THEN [Chosen EXCEPT !.Read_SB_Idx = @ + 1,
                                              !.state = <<"Read_SB", "Pending">>]
                          ELSE [Chosen EXCEPT !.state = <<"Read_Current_SB", "Pending">>]
           \/ Completed("Read_Current_SB") /\ Then("Decrypt_Current_Key")
           \/ Completed("Decrypt_Current_Key") /\ Then("Add_Current_Key")
           \/ /\ Completed("Add_Current_Key")
              /\ job.SB_Ciphertext.plain.State = "Rekeying"
              /\ Then("Decrypt_Previous_Key")
           \/ Completed("Decrypt_Previous_Key") /\ Then("Add_Previous_Key")
        /\ UNCHANGED <<sb, sb_idx, curr_gen>>
     \/ /\ Completed("Add_Current_Key")
        /\ job.SB_Ciphertext.plain.State # "Rekeying"
        /\ Init_SB_Plaintext
     \/ /\ Completed("Add_Previous_Key")
        /\ Init_SB_Plaintext

(* Two superblocks of the same generation, a superblock without a snapshot, *)
(* none at all; a request that does not fit the state of the superblock.    *)
Execute_Raises ==
  \/ /\ job.op = "Initialize" /\ Completed("Read_SB")
     /\ IF Read_SB_Valid
          THEN \/ Valid_Snaps(job.SB_Ciphertext.plain.Snapshots) = {}
               \/ job.SB_Found /\ job.Generation = Read_SB_Gen
          ELSE job.Read_SB_Idx = Superblocks_Last /\ ~job.SB_Found
  \/ job.op = "Initialize_Rekeying" /\ Completed("Create_Key") /\ sb.State # "Normal"
  \/ Submitted("Rekey_VBA") /\ sb.State # "Rekeying"
  \/ /\ job.op \in DOMAIN Extending
     /\ \/ Submitted(job.op) /\ sb.State \notin {"Normal", Extending[job.op]}
        \/ Completed(Extend_In[job.op]) /\ job.Nr_Of_Blks >= sb.Resizing_Nr_Of_PBAs

Execute ==
  IF Execute_Raises
    THEN Raise_Program_Error
    ELSE /\ \/ Execute_Prepare
            \/ Execute_Sync_Blk_IO_Completed
            \/ Execute_Secure_SB_Completed
            \/ Execute_Sync
            \/ Execute_Create_Snapshot
            \/ Execute_Discard_Snapshot
            \/ Execute_Initialize_Rekeying
            \/ Execute_Rekey_VBA
            \/ Execute_Extension_Step
            \/ Execute_Deinitialize
            \/ Execute_Initialize
         /\ Idle_Ctrl

-----------------------------------------------------------------------------
(***************************************************************************)
(* The answers of the other modules.                                       *)
(***************************************************************************)
Answer(step, j) ==
  /\ job.state = <<step, "Pending">>
  /\ job' = [j EXCEPT !.state = <<step, "Completed">>]
  /\ UNCHANGED <<sb, sb_idx, curr_gen, restarts>>

Trust_Anchor ==
  /\ \/ /\ \E step \in {"Create_Key", "Decrypt_Current_Key", "Decrypt_Previous_Key"} :
             Answer(step, job)
        /\ UNCHANGED secured
     \/ /\ Answer("Encrypt_Current_Key",
                  [job EXCEPT !.SB_Ciphertext.values = @ \cup {sb.Current_Key}])
        /\ UNCHANGED secured
     \/ /\ Answer("Encrypt_Previous_Key",
                  [job EXCEPT !.SB_Ciphertext.values = @ \cup {sb.Previous_Key}])
        /\ UNCHANGED secured
     \/ Answer("Secure_SB", job) /\ secured' = job.Hash
  /\ UNCHANGED <<keys, cached, device, raised>>

(* Mutant: the current key is removed at the end of a rekeying. *)
Removed_Key_Current(step) == sb.Current_Key

Removed_Key(step) == IF step = "Remove_Current_Key" THEN sb.Current_Key ELSE sb.Previous_Key

(* A key found without its value is of no use to the crypto module.        *)
Crypto ==
  /\ \/ /\ Answer("Add_Current_Key", job)
        /\ keys' = keys \cup ({job.SB_Ciphertext.plain.Current_Key} \cap job.SB_Ciphertext.values)
     \/ /\ Answer("Add_Previous_Key", job)
        /\ keys' = keys \cup ({job.SB_Ciphertext.plain.Previous_Key} \cap job.SB_Ciphertext.values)
     \/ Answer("Add_Key", job) /\ keys' = keys \cup {sb.Current_Key}
     \/ \E step \in {"Remove_Current_Key", "Remove_Previous_Key"} :
          Answer(step, job) /\ keys' = keys \ {Removed_Key(step)}
  /\ UNCHANGED <<secured, cached, device, raised>>

Dirty == {t \in Tree : cached[t] # device.trees[t]}

Written(T) ==
  [device EXCEPT !.trees = [t \in Tree |-> IF t \in T THEN cached[t] ELSE @[t]],
                 !.unsynced_trees = @ \cup T]

Cache_Sync ==
  /\ Answer("Sync_Cache", job)
  /\ device' = Written(Dirty)
  /\ UNCHANGED <<keys, secured, cached, raised>>

(* The cache writes blocks back whenever it needs room. *)
Cache_Write_Back ==
  /\ \E t \in Dirty : device' = Written({t})
  /\ UNCHANGED <<sb, sb_idx, curr_gen, job, keys, secured, cached, restarts, raised>>

Block_IO ==
  /\ \/ /\ Answer("Read_SB",
                  [job EXCEPT !.SB_Ciphertext = device.superblocks[job.Read_SB_Idx]])
        /\ UNCHANGED device
     \/ /\ Answer("Read_Current_SB",
                  [job EXCEPT !.SB_Ciphertext = device.superblocks[job.SB_Idx]])
        /\ UNCHANGED device
     \/ /\ Answer("Write_SB", job)
        /\ device' = [device EXCEPT !.superblocks[sb_idx] = job.SB_Ciphertext,
                                    !.unsynced_sbs = @ \cup {sb_idx}]
     \/ /\ Answer("Sync_Blk_IO", job)
        /\ device' = [device EXCEPT !.unsynced_sbs = {}, !.unsynced_trees = {}]
  /\ UNCHANGED <<keys, secured, cached, raised>>

(* The snapshots that VBD_Rekeying works on. *)
Rekeying_Snaps ==
  Discard_Disposable_Snapshots(sb.Snapshots, curr_gen, sb.Last_Secured_Generation)

(* The newest tree gets blocks of the current generation, an older one new  *)
(* blocks in its own; all get the new key for the address.                  *)
Rekeyed_Snap(snaps, i) ==
  [snaps[i] EXCEPT
     !.PBA = IF i = Newest_Snapshot_Idx(snaps) THEN <<curr_gen, curr_gen>>
                                               ELSE <<snaps[i].Gen, curr_gen>>,
     !.Hash.key[sb.Rekeying_VBA] = sb.Current_Key]

(* Mutant: only the newest snapshot is rekeyed. *)
Rekeyed_Newest_Only(snaps) == {Newest_Snapshot_Idx(snaps)}

Rekeyed_Idxs(snaps) == Valid_Snaps(snaps)

VBD_Rekeying_Rekey_VBA ==
  LET old == Rekeying_Snaps
      new == [i \in Snapshots_Index |->
                IF i \in Rekeyed_Idxs(old) THEN Rekeyed_Snap(old, i) ELSE old[i]]
  IN /\ Answer("Rekey_VBA_In_VBD", [job EXCEPT !.Snapshots = new])
     /\ cached' = [t \in Tree |->
                     IF \E i \in Rekeyed_Idxs(old) : new[i].PBA = t
                       THEN (CHOOSE x \in {new[i] : i \in Rekeyed_Idxs(old)} : x.PBA = t).Hash
                       ELSE cached[t]]

(* The newest snapshot gets the new leaves; if it is of an older            *)
(* generation, in a snapshot of its own.                                    *)
VBD_Rekeying_VBD_Extension_Step(left) ==
  LET old == Rekeying_Snaps
      n   == Newest_Snapshot_Idx(old)
      i   == IF old[n].Gen < curr_gen THEN First(Snapshots_Index \ Valid_Snaps(old)) ELSE n
  IN /\ Answer("VBD_Ext_Step_In_VBD",
              [job EXCEPT !.Nr_Of_Blks = left,
                          !.Snapshots = [old EXCEPT ![i] =
                             [old[n] EXCEPT !.Gen = curr_gen, !.PBA = <<curr_gen, curr_gen>>,
                                            !.Keep = FALSE]]])
     /\ cached' = [cached EXCEPT ![<<curr_gen, curr_gen>>] = old[n].Hash]

(* There is no snapshot left, or no place for another one. *)
VBD_Rekeying_Raises ==
  LET valid == Valid_Snaps(Rekeying_Snaps)
  IN \/ valid = {}
     \/ /\ job.op = "VBD_Extension_Step"
        /\ valid = Snapshots_Index
        /\ Rekeying_Snaps[Newest_Snapshot_Idx(Rekeying_Snaps)].Gen < curr_gen

VBD_Rekeying ==
  /\ job.state \in {<<"Rekey_VBA_In_VBD", "Pending">>, <<"VBD_Ext_Step_In_VBD", "Pending">>}
  /\ IF VBD_Rekeying_Raises
       THEN Raise_Program_Error
       ELSE /\ \/ VBD_Rekeying_Rekey_VBA
               \/ \E left \in 0 .. job.Nr_Of_Blks - 1 : VBD_Rekeying_VBD_Extension_Step(left)
            /\ UNCHANGED <<keys, secured, device, raised>>

FT_Resizing ==
  /\ \E left \in 0 .. job.Nr_Of_Blks - 1 :
       Answer("FT_Ext_Step_In_FT", [job EXCEPT !.Nr_Of_Blks = left])
  /\ UNCHANGED <<keys, secured, cached, device, raised>>

-----------------------------------------------------------------------------
Next ==
  /\ ~raised
  /\ \/ \E op \in Operations : Submit_Primitive(op)
     \/ Drop_Completed_Primitive
     \/ \E v \in VBA : Execute_Writeback(v)
     \/ Execute
     \/ Trust_Anchor
     \/ Crypto
     \/ Cache_Sync
     \/ Cache_Write_Back
     \/ Block_IO
     \/ VBD_Rekeying
     \/ FT_Resizing
     \/ Restart

Spec == Init /\ [][Next]_vars

-----------------------------------------------------------------------------
(***************************************************************************)
(* Properties.                                                             *)
(***************************************************************************)
(* The job, the superblock and what the modules keep stay in range.        *)
(* TypeOK, above. *)

(* No operation ever meets a superblock, a snapshot or a number of         *)
(* snapshots that makes it raise Program_Error.                            *)
NoProgramError == ~raised

Found(c) == c.plain.State # "Invalid"

(* The slot of the newest superblock on the device: the one the checker    *)
(* looks at.                                                               *)
Newest(superblocks) ==
  CHOOSE i \in Superblocks_Index :
    /\ Found(superblocks[i])
    /\ \A k \in Superblocks_Index :
         Found(superblocks[k]) => Curr(superblocks[k].plain).Gen <= Curr(superblocks[i].plain).Gen

Readable(s, h) == \A v \in VBA : h.key[v] = Key_For(s, v)

(* All that a superblock refers to is on the device, and can be decrypted  *)
(* with the keys whose values the superblock holds.                        *)
Complete(c) ==
  /\ Curr(c.plain).Valid
  /\ \A i \in Valid_Snaps(c.plain.Snapshots) :
       LET snap == c.plain.Snapshots[i]
       IN device.trees[snap.PBA] = snap.Hash /\ Readable(c.plain, snap.Hash)
  /\ {Key_For(c.plain, v) : v \in VBA} \cup {c.plain.Current_Key} \subseteq c.values

(* At whatever point the component stops, the newest superblock on the     *)
(* device has a current snapshot, and all trees it refers to are on the    *)
(* device, unchanged since, and readable with the keys it holds.           *)
NewestComplete == Complete(device.superblocks[Newest(device.superblocks)])

(* The trust anchor secures the hash of a superblock only when that        *)
(* superblock and all trees it refers to have reached the device and been  *)
(* synced: in between nothing may have changed, neither in the superblock  *)
(* nor, in the cache, of the trees.                                        *)
SecuredIsStable ==
  [][secured' # secured /\ restarts' = restarts =>
       \E i \in Superblocks_Index \ device.unsynced_sbs :
         /\ device.superblocks[i].plain = secured'
         /\ \A k \in Valid_Snaps(secured'.Snapshots) :
              secured'.Snapshots[k].PBA \notin device.unsynced_trees \cup Dirty]_vars

(* A snapshot the client keeps is there with the same data, whatever is    *)
(* written, rekeyed or extended, until the client discards that snapshot.  *)
KeptSnapshotsUnchanged ==
  [][restarts' = restarts =>
       \A i \in Kept_Snaps(sb.Snapshots) :
         \/ /\ i \in Kept_Snaps(sb'.Snapshots)
            /\ cached'[sb'.Snapshots[i].PBA].data = cached[sb.Snapshots[i].PBA].data
         \/ job.op = "Discard_Snapshot" /\ sb.Snapshots[i].Gen = job.Generation]_vars

(* Between two requests each snapshot can be read: its tree has the hash   *)
(* the snapshot tells, and every address is encrypted with the key by      *)
(* which a read of it would be decrypted, also half-way in a rekeying.     *)
SnapshotsReadable ==
  sb.State # "Invalid" /\ job.op = "Invalid" =>
    \A i \in Valid_Snaps(sb.Snapshots) :
      /\ cached[sb.Snapshots[i].PBA] = sb.Snapshots[i].Hash
      /\ Readable(sb, sb.Snapshots[i].Hash)

Keys_In_Use ==
  {sb.Current_Key} \cup (IF sb.State = "Rekeying" THEN {sb.Previous_Key} ELSE {})

(* Each operation finds the crypto module with the keys that reads and     *)
(* writes may need, none missing and none that is out of use, and leaves   *)
(* it so: with the key it has created, without the one it has replaced,    *)
(* and only the last operation, Deinitialize, without any.                 *)
KeysAtCrypto ==
  /\ job.op \in Operations /\ job.state = <<"Submitted">> => keys = Keys_In_Use
  /\ job.op # "Invalid" /\ job.state = <<"Completed">> =>
       keys = IF job.op = "Deinitialize" THEN {} ELSE Keys_In_Use

(* What the checker and the dumper take for the last state is what a start *)
(* takes over: the newest superblock.                                      *)
StartsFromNewest ==
  [][sb.State = "Invalid" /\ sb'.State # "Invalid" =>
       sb' = device.superblocks[Newest(device.superblocks)].plain]_vars
=============================================================================
