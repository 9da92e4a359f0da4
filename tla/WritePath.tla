------------------------------ MODULE WritePath ------------------------------
(***************************************************************************)
(* How the data of a client get into the trees of the CBE, and how they    *)
(* are rekeyed there: the handling of a write by the library (Execute_SCD, *)
(* Execute_Free_Tree, Execute_Writeback) with Translation, New_Free_Tree,  *)
(* Meta_Tree and Write_Back, the rekeying of an address in all snapshots   *)
(* (package CBE.VBD_Rekeying), and what the superblock control changes of  *)
(* the superblock.  SuperblockControl has the steps by which a superblock  *)
(* is secured; here they are one step.  That no block is changed that is   *)
(* still needed, assumed there, is what this module is about.              *)
(*                                                                         *)
(* The request pool hands on one request at a time, and while a write is   *)
(* under way no other one is translated.  "blocks" is what the users of    *)
(* the cache see; the data of a leaf is the number of the write and the    *)
(* key it is encrypted with.  Translation, as all others, checks the hash  *)
(* of a node before it uses the node, and the hash is the content: so a    *)
(* walk down a tree follows the hashes.                                    *)
(***************************************************************************)
EXTENDS FreeTree, FiniteSetsExt

CONSTANTS
  Snapshots_Last,   \* last index of a snapshot: 47 in the code
  Free_Leafs,       \* leaves of the free tree
  Meta_Leafs,       \* leaves of the meta tree
  Written,          \* bound: addresses the clients write
  Max_Writes,       \* bound: writes
  Max_Secures,      \* bound: superblocks secured on behalf of clients
  Max_Kept,         \* bound: snapshots kept at a time
  Max_Key,          \* bound: last key, by the number of rekeyings
  Write_Ahead       \* whether clients write what is yet to be rekeyed

(* Nodes to hold n nodes of the level below.                               *)
Nr_Of_Nodes(n, degree) == (n + degree - 1) \div degree

Nr_Of_VBD_Nodes[l \in Level] ==
  IF l = 0 THEN Leafs ELSE Nr_Of_Nodes(Nr_Of_VBD_Nodes[l - 1], Degree)

ASSUME WritePathAssumption ==
  /\ {Max_Writes, Max_Secures, Max_Kept, Snapshots_Last} \subseteq Nat
  /\ {Degree, Free_Degree, Meta_Degree, Max_Level} \subseteq Nat \ {0, 1}
  /\ {Leafs, Free_Leafs, Meta_Leafs} \subseteq Nat \ {0}
  /\ Nr_Of_VBD_Nodes[Max_Level] = 1
  /\ Nr_Of_Nodes(Nr_Of_Nodes(Free_Leafs, Free_Degree), Free_Degree) = 1
  /\ Nr_Of_Nodes(Nr_Of_Nodes(Meta_Leafs, Meta_Degree), Meta_Degree) = 1
  /\ Written \subseteq VBA
  /\ Max_Key \in Nat \ {0}
  /\ Write_Ahead \in BOOLEAN

VARIABLES
  blocks,    \* the content of each block
  sb,        \* Superblock
  cur_gen,   \* Cur_Gen
  job,       \* the write under way: its phase and what it asks of the free tree
  rkg,       \* the job of VBD_Rekeying, never reset
  secured,   \* the superblock secured last
  error,     \* why Program_Error was raised
  count      \* writes, and superblocks secured for clients, so far

vars == <<blocks, sb, cur_gen, job, rkg, secured, error, count>>

-----------------------------------------------------------------------------
(***************************************************************************)
(* The device as the initializers leave it: the nodes one after the other, *)
(* level by level from the leaves, all of generation 0.                    *)
(***************************************************************************)
First_PBA[l \in 0 .. Max_Level + 1] ==
  IF l = 0 THEN 1 ELSE First_PBA[l - 1] + Nr_Of_VBD_Nodes[l - 1]

(* The places for nodes at a level: the root, or all children of the nodes *)
(* above.                                                                  *)
VBD_Places(l) == IF l = Max_Level THEN {0} ELSE 0 .. Degree * Nr_Of_VBD_Nodes[l + 1] - 1

Initial_VBD[l \in Level] ==
  [i \in VBD_Places(l) |->
     IF i >= Nr_Of_VBD_Nodes[l] THEN Type_1_Node_Invalid
     ELSE [PBA |-> First_PBA[l] + i, Gen |-> 0,
           Hash |-> IF l = 0 THEN Zeros
                    ELSE [c \in 0 .. Degree - 1 |-> Initial_VBD[l - 1][i * Degree + c]]]]

(* A tree of type-2 nodes: its leaves from the block "first" on, then the  *)
(* level-1 nodes, then the root.                                           *)
Initial_T2_Tree(first, degree, leafs) ==
  LET nodes      == Nr_Of_Nodes(leafs, degree)
      entries(i) == [c \in 0 .. degree - 1 |->
                       IF i * degree + c < leafs THEN Type_2_Node(first + i * degree + c)
                       ELSE Type_2_Node_Invalid]
  IN [PBA |-> first + leafs + nodes, Gen |-> 0,
      Hash |-> [i \in 0 .. degree - 1 |->
                  IF i >= nodes THEN Type_1_Node_Invalid
                  ELSE [PBA |-> first + leafs + i, Gen |-> 0, Hash |-> entries(i)]]]

Free_First == First_PBA[Max_Level + 1]
Free_Root  == Initial_T2_Tree(Free_First, Free_Degree, Free_Leafs)
Meta_First == Free_Root.PBA + 1
Meta_Root  == Initial_T2_Tree(Meta_First, Meta_Degree, Meta_Leafs)
PBA        == 1 .. Meta_Root.PBA

Child_Nodes(node) == {node.Hash[i] : i \in DOMAIN node.Hash} \ {Type_1_Node_Invalid}

Initial_Blocks ==
  LET inner == {Free_Root, Meta_Root} \cup Child_Nodes(Free_Root) \cup Child_Nodes(Meta_Root)
               \cup UNION {{Initial_VBD[l][i] : i \in 0 .. Nr_Of_VBD_Nodes[l] - 1} :
                             l \in 1 .. Max_Level}
  IN [p \in PBA |-> IF \E n \in inner : n.PBA = p
                    THEN (CHOOSE n \in inner : n.PBA = p).Hash ELSE Zeros]

Snapshots_Index  == 0 .. Snapshots_Last
Snapshot_Invalid == [Valid |-> FALSE, Keep |-> FALSE, Gen |-> 0, PBA |-> 0, Hash |-> Zeros]
Valid_Snap_Slot  == [Valid |-> TRUE, Keep |-> FALSE, Gen |-> 0,
                     PBA |-> Initial_VBD[Max_Level][0].PBA,
                     Hash |-> Initial_VBD[Max_Level][0].Hash]

Valid_SB_Slot ==
  [State |-> "Normal", Rekeying_VBA |-> 0, Current_Key |-> 1, Previous_Key |-> 0,
   Snapshots |-> [i \in Snapshots_Index |-> IF i = 0 THEN Valid_Snap_Slot
                                                     ELSE Snapshot_Invalid],
   Curr_Snap |-> 0, Last_Secured_Generation |-> 0, Free |-> Free_Root, Meta |-> Meta_Root]

No_PBAs == [l \in Level |-> 0]

Init ==
  /\ blocks = Initial_Blocks
  /\ sb = Valid_SB_Slot
  /\ cur_gen = 1
  /\ job = [phase |-> "Idle"]
  /\ rkg = [VBA |-> 0, Snapshots |-> [i \in Snapshots_Index |-> Snapshot_Invalid],
            Snapshot_Idx |-> 0, First_Snapshot |-> FALSE,
            Old_PBAs |-> No_PBAs, New_PBAs |-> No_PBAs, Blks |-> [l \in Level |-> Zeros]]
  /\ secured = Valid_SB_Slot
  /\ error = "none"
  /\ count = [writes |-> 0, secures |-> 0]

-----------------------------------------------------------------------------
Curr(s) == s.Snapshots[s.Curr_Snap]

Valid_Snaps(snaps) == {i \in Snapshots_Index : snaps[i].Valid}

Newest(snaps, S) == CHOOSE i \in S : \A k \in S : snaps[k].Gen <= snaps[i].Gen

(* Mutant: no snapshot is discarded.                                       *)
Discard_No_Snapshots(snaps, gen, last_secured_gen) == snaps

Discard_Disposable_Snapshots(snaps, gen, last_secured_gen) ==
  [i \in Snapshots_Index |->
     [snaps[i] EXCEPT !.Valid = @ /\ \/ snaps[i].Keep
                                     \/ snaps[i].Gen \in {gen, last_secured_gen}]]

(* The nodes on the way from the root of a snapshot to an address.         *)
Type_1_Node_Walk(snap, vba) ==
  LET w[l \in Level] ==
        IF l = Max_Level THEN [PBA |-> snap.PBA, Gen |-> snap.Gen, Hash |-> snap.Hash]
        ELSE w[l + 1].Hash[Child_Idx_For_VBA(vba, l + 1)]
  IN w

Readable(walk, levels) == \A l \in levels : Check_Node_Hash(blocks, walk[l])

(* The key by which an address is read.                                    *)
Key_For(s, vba) ==
  IF s.State = "Rekeying" /\ s.Rekeying_VBA <= vba THEN s.Previous_Key ELSE s.Current_Key

Initial_Generation == 0

(* The data of a leaf, by their encryption.                                *)
Leaf(data, key) == [i \in {0} |-> [Data |-> data, Key |-> key]]
Garbage == -1
Decrypted(leaf, key) == IF leaf[0].Key = key THEN leaf[0].Data ELSE Garbage

Raise_Program_Error(why) ==
  /\ error' = why
  /\ UNCHANGED <<blocks, sb, cur_gen, job, rkg, secured, count>>

Ready(phase) == error = "none" /\ job.phase = phase

-----------------------------------------------------------------------------
(***************************************************************************)
(* A write: first the nodes on the way to the address that must not be     *)
(* changed in place are exchanged, then the branch is written.             *)
(***************************************************************************)
In_Place(node, l) ==
  \/ node.Gen = cur_gen
  \/ node.Gen = Initial_Generation /\ l \in {0, Max_Level}

FT_Request(vba, old_blocks, new_blocks, free_gen, tag) ==
  [VBA |-> vba, Old_Blocks |-> old_blocks, New_Blocks |-> new_blocks, Gen |-> cur_gen,
   Free_Gen |-> free_gen, Tag |-> tag, Rekeying |-> sb.State = "Rekeying",
   Previous_Key_ID |-> sb.Previous_Key, Current_Key_ID |-> sb.Current_Key,
   Rekeying_VBA |-> sb.Rekeying_VBA]

Execute_SCD(vba) ==
  LET walk == Type_1_Node_Walk(Curr(sb), vba)
      new  == [l \in Level |-> IF In_Place(walk[l], l) THEN walk[l].PBA ELSE 0]
  IN /\ Ready("Idle")
     /\ count.writes < Max_Writes
     /\ Write_Ahead \/ Key_For(sb, vba) = sb.Current_Key
     /\ \/ /\ ~Readable(walk, 1 .. Max_Level)
           /\ Raise_Program_Error("hash")
        \/ /\ Readable(walk, 1 .. Max_Level)
           /\ job' = [phase |-> IF \E l \in Level : new[l] = 0 THEN "Free_Tree"
                                                               ELSE "Write_Back",
                      req |-> FT_Request(vba, walk, new, cur_gen, "Pool_VBD")]
           /\ UNCHANGED <<blocks, sb, cur_gen, rkg, secured, error, count>>

Alloc(req) ==
  Free_Tree_Alloc(blocks, sb.Free, sb.Meta, sb.Snapshots, sb.Last_Secured_Generation, req)

Execute_Free_Tree ==
  /\ Ready("Free_Tree")
  /\ \E ft \in {Alloc(job.req)} :
       \/ /\ ft.error # "none"
          /\ Raise_Program_Error(ft.error)
       \/ /\ ft.error = "none"
          /\ blocks' = ft.blocks
          /\ sb' = [sb EXCEPT !.Free = ft.node, !.Meta = ft.meta]
          /\ job' = [job EXCEPT !.phase = "Write_Back", !.req.New_Blocks = ft.new]
          /\ UNCHANGED <<cur_gen, rkg, secured, error, count>>

(* The blocks after the levels in L of a branch were written.              *)
Branch_Written(old, new, content, L) ==
  [p \in PBA |-> IF \E l \in L : new[l] = p
                 THEN content[CHOOSE l \in L : new[l] = p] ELSE old[p]]

(* Update: what is written at each level.                                  *)
Updated_Branch(req, leaf) ==
  LET content[l \in Level] ==
        IF l = 0 THEN leaf
        ELSE [blocks[req.Old_Blocks[l].PBA] EXCEPT ![Child_Idx_For_VBA(req.VBA, l)] =
                Update_Parent(req.New_Blocks[l - 1], req.Gen, content[l - 1])]
  IN content

Slots_For_Write ==
  IF Curr(sb).Gen < cur_gen
  THEN {i \in Snapshots_Index : /\ ~sb.Snapshots[i].Valid
                                /\ \A k \in 0 .. i - 1 : sb.Snapshots[k].Valid}
  ELSE {sb.Curr_Snap}

Execute_Writeback ==
  LET new     == job.req.New_Blocks
      content == Updated_Branch(job.req, Leaf(count.writes + 1, sb.Current_Key))
      snap    == [Curr(sb) EXCEPT !.Gen = cur_gen, !.PBA = new[Max_Level],
                                  !.Hash = content[Max_Level],
                                  !.Keep = @ /\ Curr(sb).Gen = cur_gen]
  IN /\ Ready("Write_Back")
     /\ \/ /\ Slots_For_Write = {}
           /\ Raise_Program_Error("snapshots_full")
        \/ /\ \E i \in Slots_For_Write :
                sb' = [sb EXCEPT !.Curr_Snap = i, !.Snapshots[i] = snap]
           /\ blocks' = Branch_Written(blocks, new, content, Level)
           /\ job' = [phase |-> "Idle"]
           /\ count' = [count EXCEPT !.writes = @ + 1]
           /\ UNCHANGED <<cur_gen, rkg, secured, error>>

-----------------------------------------------------------------------------
(***************************************************************************)
(* The superblock.  An operation that discards snapshots sets the          *)
(* generation secured last before the copy for the device is made, one     *)
(* that rekeys sets it when the superblock is secured.                     *)
(***************************************************************************)
Secure(s) ==
  /\ secured' = s
  /\ sb' = [s EXCEPT !.Last_Secured_Generation = cur_gen]
  /\ cur_gen' = cur_gen + 1
  /\ UNCHANGED error

Curr_Gen_Set(s) == [s EXCEPT !.Snapshots[s.Curr_Snap].Gen = cur_gen]

Secure_Curr_Gen(snaps) ==
  Curr_Gen_Set([sb EXCEPT !.Snapshots = Discard_Disposable_Snapshots(
                                          snaps, cur_gen, sb.Last_Secured_Generation),
                          !.Last_Secured_Generation = cur_gen])

Kept_Snaps(s) == {i \in Valid_Snaps(s.Snapshots) : s.Snapshots[i].Keep}

For_Client(s) ==
  /\ Ready("Idle")
  /\ count.secures < Max_Secures
  /\ Secure(s)
  /\ count' = [count EXCEPT !.secures = @ + 1]
  /\ UNCHANGED <<blocks, job, rkg>>

Execute_Sync == For_Client(Secure_Curr_Gen(sb.Snapshots))

(* It does not overtake a rekeying.                                        *)
Execute_Create_Snapshot ==
  /\ sb.State = "Normal"
  /\ Cardinality(Kept_Snaps(sb)) < Max_Kept
  /\ LET s == Secure_Curr_Gen(sb.Snapshots)
     IN For_Client([s EXCEPT !.Snapshots[s.Curr_Snap].Keep = TRUE])

Execute_Discard_Snapshot(i) ==
  /\ i \in Kept_Snaps(sb) \ {sb.Curr_Snap}
  /\ For_Client(Secure_Curr_Gen([sb.Snapshots EXCEPT ![i].Valid = FALSE]))

Execute_Initialize_Rekeying ==
  /\ sb.State = "Normal"
  /\ sb.Current_Key < Max_Key
  /\ For_Client(Curr_Gen_Set(
       [sb EXCEPT !.State = "Rekeying", !.Rekeying_VBA = 0, !.Previous_Key = sb.Current_Key,
                  !.Current_Key = sb.Current_Key + 1]))

-----------------------------------------------------------------------------
(***************************************************************************)
(* The rekeying of an address, in one snapshot after the other from the    *)
(* newest on.  A node that a snapshot shares with the one before is found  *)
(* by its block, and takes the new block of that one.  Old_PBAs and Blks   *)
(* are T1_Blks_Old_PBAs and T1_Blks with Data_Blk_Old_PBA and Data_Blk at  *)
(* level 0.                                                                *)
(***************************************************************************)
Submit_Rekey_VBA ==
  LET snaps == Discard_Disposable_Snapshots(sb.Snapshots, cur_gen, sb.Last_Secured_Generation)
  IN /\ Ready("Idle")
     /\ sb.State = "Rekeying"
     /\ rkg' = [rkg EXCEPT !.VBA = sb.Rekeying_VBA, !.Snapshots = snaps,
                           !.Snapshot_Idx = Newest(snaps, Valid_Snaps(snaps)),
                           !.First_Snapshot = TRUE]
     /\ job' = [phase |-> "Rekey_VBA"]
     /\ UNCHANGED <<blocks, sb, cur_gen, secured, error, count>>

(* Mutant: the blocks of the address before are taken for shared ones.     *)
Shared_With_Last(walk) == {l \in Level : rkg.Old_PBAs[l] = walk[l].PBA}

Shared_Levels(walk) ==
  {l \in Level : ~rkg.First_Snapshot /\ rkg.Old_PBAs[l] = walk[l].PBA}

Min_Lvl_Idx(walk) ==
  IF Shared_Levels(walk) = {} THEN 0 ELSE Max(Shared_Levels(walk)) + 1

(* The levels whose nodes are read, and written to new blocks.  A leaf     *)
(* that was never written has a block, but no data to be encrypted anew.   *)
Levels_Read(walk) ==
  {l \in Level : /\ l >= Min_Lvl_Idx(walk)
                 /\ l = 0 => walk[0].Gen # Initial_Generation}

Rekeyed_Branch(walk, new) ==
  LET content[l \in Level] ==
        IF l \notin Levels_Read(walk) THEN rkg.Blks[l]
        ELSE IF l = 0
        THEN Leaf(Decrypted(blocks[walk[0].PBA], sb.Previous_Key), sb.Current_Key)
        ELSE [blocks[walk[l].PBA] EXCEPT
                ![Child_Idx_For_VBA(rkg.VBA, l)].PBA  = new[l - 1],
                ![Child_Idx_For_VBA(rkg.VBA, l)].Hash = content[l - 1]]
  IN content

Free_Gen_For(snap) == IF rkg.First_Snapshot THEN cur_gen ELSE snap.Gen + 1

Alloc_Request(snap, walk) ==
  FT_Request(rkg.VBA, walk,
             [l \in Level |-> IF l >= Min_Lvl_Idx(walk) THEN 0 ELSE rkg.New_PBAs[l]],
             Free_Gen_For(snap),
             IF rkg.First_Snapshot THEN "Rkg_Curr_Gen_Blks" ELSE "Rkg_Old_Gen_Blks")

(* Without an allocation if the snapshot shares its root.                  *)
Alloc_For(snap, walk) ==
  IF Min_Lvl_Idx(walk) > Max_Level
  THEN [blocks |-> blocks, node |-> sb.Free, meta |-> sb.Meta, new |-> rkg.New_PBAs,
        error |-> "none"]
  ELSE Alloc(Alloc_Request(snap, walk))

Rekeyed(i, walk, ft, content) ==
  LET older == {k \in Valid_Snaps(rkg.Snapshots) :
                  rkg.Snapshots[k].Gen < rkg.Snapshots[i].Gen}
  IN /\ blocks' = Branch_Written(ft.blocks, ft.new, content, Levels_Read(walk))
     /\ sb' = [sb EXCEPT !.Free = ft.node, !.Meta = ft.meta]
     /\ rkg' = [rkg EXCEPT
                  !.Snapshots[i].PBA  = ft.new[Max_Level],
                  !.Snapshots[i].Hash = content[Max_Level],
                  !.Old_PBAs = [l \in Level |-> IF l \in Levels_Read(walk)
                                                THEN walk[l].PBA ELSE @[l]],
                  !.New_PBAs = ft.new,
                  !.Blks = content,
                  !.First_Snapshot = FALSE,
                  !.Snapshot_Idx = IF older = {} THEN i ELSE Newest(rkg.Snapshots, older)]
     /\ job' = [phase |-> IF older = {} THEN "VBA_Rekeyed" ELSE "Rekey_VBA"]
     /\ UNCHANGED <<cur_gen, secured, error, count>>

Rekey_Snapshot ==
  /\ Ready("Rekey_VBA")
  /\ \E walk \in {Type_1_Node_Walk(rkg.Snapshots[rkg.Snapshot_Idx], rkg.VBA)} :
       \/ /\ ~Readable(walk, Levels_Read(walk))
          /\ Raise_Program_Error("hash")
       \/ /\ Readable(walk, Levels_Read(walk))
          /\ \E ft \in {Alloc_For(rkg.Snapshots[rkg.Snapshot_Idx], walk)} :
               \/ /\ ft.error # "none"
                  /\ Raise_Program_Error(ft.error)
               \/ /\ ft.error = "none"
                  /\ \E content \in {Rekeyed_Branch(walk, ft.new)} :
                       Rekeyed(rkg.Snapshot_Idx, walk, ft, content)

Execute_Rekey_VBA_Completed ==
  LET rekeyed == [sb EXCEPT !.Snapshots = rkg.Snapshots]
  IN /\ Ready("VBA_Rekeyed")
     /\ Secure(Curr_Gen_Set(
          IF sb.Rekeying_VBA < Max_VBA
          THEN [rekeyed EXCEPT !.Rekeying_VBA = @ + 1]
          ELSE [rekeyed EXCEPT !.Previous_Key = 0, !.State = "Normal"]))
     /\ job' = [phase |-> "Idle"]
     /\ UNCHANGED <<blocks, rkg, count>>

-----------------------------------------------------------------------------
Next ==
  \/ \E vba \in Written : Execute_SCD(vba)
  \/ Execute_Free_Tree
  \/ Execute_Writeback
  \/ Execute_Sync
  \/ Execute_Create_Snapshot
  \/ \E i \in Snapshots_Index : Execute_Discard_Snapshot(i)
  \/ Execute_Initialize_Rekeying
  \/ Submit_Rekey_VBA
  \/ Rekey_Snapshot
  \/ Execute_Rekey_VBA_Completed

Spec == Init /\ [][Next]_vars

-----------------------------------------------------------------------------
(***************************************************************************)
(* Properties.                                                             *)
(***************************************************************************)

(* Whatever is written, rekeyed and discarded, no hash of a node differs   *)
(* from what its parent says, and there is always a slot for the snapshot  *)
(* of a new generation.  The trees may run out of blocks.                  *)
NoProgramError == error \notin {"hash", "snapshots_full"}

(* All nodes of a tree, level by level.                                    *)
Child_Nodes_Of(nodes) == UNION {Child_Nodes(n) : n \in nodes}
Tree_Nodes(root, top) ==
  LET at[l \in 0 .. top] == IF l = top THEN {root} ELSE Child_Nodes_Of(at[l + 1])
  IN at

Root_Of(snap) == [PBA |-> snap.PBA, Gen |-> snap.Gen, Hash |-> snap.Hash]

(* Copy on write: at any time, all snapshots of the superblock that was    *)
(* secured last can be read, and its free tree be searched, so that the    *)
(* CBE can be started from it.  No write and no rekeying changes a block   *)
(* of it.  But for the roots and the nodes of the free tree that have      *)
(* generation 0, as the initializers made them: these change in place.     *)
SecuredIntact ==
  /\ \A i \in Valid_Snaps(secured.Snapshots) :
       LET nodes == Tree_Nodes(Root_Of(secured.Snapshots[i]), Max_Level)
       IN \A l \in Level : \A n \in nodes[l] :
            (n.Gen # Initial_Generation \/ l \in 1 .. Max_Level - 1) => Check_Node_Hash(blocks, n)
  /\ \A n \in {secured.Free} \cup Child_Nodes(secured.Free) :
       n.Gen # Initial_Generation => Check_Node_Hash(blocks, n)

(* The same of the meta tree, on which the free tree depends to be         *)
(* changed.                                                                *)
SecuredMetaIntact ==
  \A n \in {secured.Meta} \cup Child_Nodes(secured.Meta) :
    n.Gen # Initial_Generation => Check_Node_Hash(blocks, n)

(* No block is lost, and none is used twice: each is one node of the       *)
(* current tree or one leaf of the free tree, or one inner node of the     *)
(* free tree or of the meta tree or one leaf of the meta tree.  While a    *)
(* write has its new blocks, but not yet given up the old ones, some are   *)
(* on their way.                                                           *)
Current_Tree ==
  IF job.phase \in {"Rekey_VBA", "VBA_Rekeyed"} THEN rkg.Snapshots[sb.Curr_Snap] ELSE Curr(sb)

VBD_Nodes(snap) ==
  LET at[l \in Level] ==
        [k \in VBD_Places(l) |->
           IF l = Max_Level THEN [PBA |-> snap.PBA, Hash |-> snap.Hash]
           ELSE at[l + 1][k \div Degree].Hash[k % Degree]]
  IN at

T2_Tree_Uses(name, root) ==
  LET valid == {i \in DOMAIN root.Hash : root.Hash[i].PBA # 0}
  IN {<<name, -1, -1, root.PBA>>}
     \cup {<<name, i, -1, root.Hash[i].PBA>> : i \in valid}
     \cup UNION {{<<name, i, j, root.Hash[i].Hash[j].PBA>> : j \in DOMAIN root.Hash[i].Hash} :
                   i \in valid}

Uses ==
  LET vbd == VBD_Nodes(Current_Tree)
  IN {u \in T2_Tree_Uses("Free", sb.Free) \cup T2_Tree_Uses("Meta", sb.Meta)
            \cup UNION {{<<"VBD", l, k, vbd[l][k].PBA>> : k \in DOMAIN vbd[l]} : l \in Level} :
        u[4] # 0}

EachBlockOnce ==
  job.phase # "Write_Back" =>
    /\ {u[4] : u \in Uses} = PBA
    /\ Cardinality(Uses) = Cardinality(PBA)

(* What is read at an address of a snapshot.                               *)
Read_Data(snap, vba) ==
  LET walk == Type_1_Node_Walk(snap, vba)
  IN IF ~Readable(walk, 1 .. Max_Level) THEN Garbage
     ELSE IF walk[0].Gen = Initial_Generation THEN 0
     ELSE IF ~Readable(walk, {0}) THEN Garbage
     ELSE Decrypted(blocks[walk[0].PBA], Key_For(sb, vba))

(* Reading gives the data written last, and of a snapshot the data of its  *)
(* creation, at each address, whatever is written after, rekeyed or being  *)
(* rekeyed, discarded, and secured.                                        *)
Store == INSTANCE SnapshotStore
  WITH Address <- VBA, Data <- 1 .. Max_Writes, Zero <- 0, Place <- Snapshots_Index,
       current <- [a \in VBA |-> Read_Data(Curr(sb), a)],
       kept    <- [i \in Snapshots_Index |->
                     IF i \in Kept_Snaps(sb) THEN [a \in VBA |-> Read_Data(sb.Snapshots[i], a)]
                     ELSE [a \in {} |-> 0]]

ImplementsSnapshotStore == Store!Spec
=============================================================================
