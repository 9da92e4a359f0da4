------------------------------- MODULE FreeTree -------------------------------
(***************************************************************************)
(* The allocation of blocks for the nodes of the virtual block device      *)
(* (package CBE.New_Free_Tree).  The leaves of the free tree are the       *)
(* blocks that the current state of the virtual block device does not use. *)
(* Who changes a node that must be kept takes a block from a leaf and puts *)
(* the block of the old node in its place, with the generations between    *)
(* which that was in use.  A block is handed out again only when neither a *)
(* snapshot nor the superblock that was secured last may refer to it.      *)
(*                                                                         *)
(* As in MetaTree a request is one operator, and the tree has an inner     *)
(* level above that of its type-2 nodes.                                   *)
(***************************************************************************)
EXTENDS MetaTree

CONSTANTS
  Degree,       \* children of a node of the virtual block device
  Max_Level,    \* level of the root of the virtual block device
  Leafs,        \* number of its leaves
  Free_Degree   \* children of a node of the free tree: 64 in the code

Level   == 0 .. Max_Level
VBA     == 0 .. Leafs - 1
Max_VBA == Leafs - 1

(* The leaves below a node at level l of the virtual block device.         *)
VBD_Node_Nr_Of_VBAs[l \in Level] == IF l = 0 THEN 1 ELSE Degree * VBD_Node_Nr_Of_VBAs[l - 1]

VBD_Node_Lowest_VBA(l, vba)  == vba - (vba % VBD_Node_Nr_Of_VBAs[l])
VBD_Node_Highest_VBA(l, vba) == VBD_Node_Lowest_VBA(l, vba) + VBD_Node_Nr_Of_VBAs[l] - 1

(* The index of the child on the way to an address, in a node at level l.  *)
Child_Idx_For_VBA(vba, l) == (vba \div VBD_Node_Nr_Of_VBAs[l - 1]) % Degree

-----------------------------------------------------------------------------
(* Whether a node of the free tree is changed in place.                    *)
Node_Volatile_In_FT(node, gen) == node.Gen = 0 \/ node.Gen = gen

(* A request: the generation, that up to which the old nodes were in use,  *)
(* the old node and the new block at each level (0: one is needed), the    *)
(* address and the state of a rekeying.                                    *)
Kept_By(node, snap) == /\ snap.Valid
                       /\ node.Free_Gen > snap.Gen
                       /\ node.Alloc_Gen < snap.Gen + 1

(* Mutant: the superblock secured last is forgotten.                       *)
Usable_If_Not_Kept(node, snapshots, last_secured_gen, req) ==
  /\ node.PBA # 0
  /\ ~node.Reserved \/ \A i \in DOMAIN snapshots : ~Kept_By(node, snapshots[i])

Check_Type_2_Leaf_Usable(node, snapshots, last_secured_gen, req) ==
  /\ node.PBA # 0
  /\ node.Free_Gen <= last_secured_gen
  /\ \/ ~node.Reserved
     \/ /\ req.Rekeying
        /\ node.Last_Key_ID = req.Previous_Key_ID
        /\ node.Last_VBA < req.Rekeying_VBA
     \/ \A i \in DOMAIN snapshots : ~Kept_By(node, snapshots[i])

(* Mutant: the block of the old node is not given back.                    *)
Given_Back_No_Block(entry, l, req) ==
  [entry EXCEPT !.Alloc_Gen = req.Old_Blocks[l].Gen, !.Free_Gen = req.Free_Gen,
                !.Last_VBA = VBD_Node_Lowest_VBA(l, req.VBA)]

(* The entry after its block was taken for the node at level l.            *)
Given_Back(entry, l, req) ==
  [entry EXCEPT !.PBA = req.Old_Blocks[l].PBA, !.Alloc_Gen = req.Old_Blocks[l].Gen,
                !.Free_Gen = req.Free_Gen, !.Last_VBA = VBD_Node_Lowest_VBA(l, req.VBA)]

Exchange_Type_2_Leaf(entry, l, req) ==
  CASE req.Tag = "Pool_VBD" ->
         [Given_Back(entry, l, req) EXCEPT
            !.Last_Key_ID = IF req.Rekeying /\ req.VBA >= req.Rekeying_VBA
                            THEN req.Previous_Key_ID ELSE req.Current_Key_ID,
            !.Reserved    = TRUE]
    [] req.Tag = "Rkg_Curr_Gen_Blks" ->
         [Given_Back(entry, l, req) EXCEPT
            !.Last_Key_ID = req.Previous_Key_ID, !.Reserved = FALSE]
    [] req.Tag = "Rkg_Old_Gen_Blks" ->
         LET left == /\ req.Rekeying_VBA < VBD_Node_Highest_VBA(l, req.VBA)
                     /\ req.Rekeying_VBA < Max_VBA
         IN [Given_Back(entry, l, req) EXCEPT
               !.PBA         = entry.PBA,
               !.Last_VBA    = IF left THEN req.Rekeying_VBA + 1 ELSE @,
               !.Last_Key_ID = IF left THEN req.Previous_Key_ID ELSE req.Current_Key_ID,
               !.Reserved    = TRUE]

(* The block to which a node of the free tree is written: its own, or one  *)
(* that the meta tree gives in exchange.                                   *)
Block_For_Node(s, node, gen) ==
  IF Node_Volatile_In_FT(node, gen)
  THEN [blocks |-> s.blocks, root |-> s.meta, new_pba |-> node.PBA, mismatch |-> FALSE]
  ELSE Meta_Tree_Alloc(s.blocks, s.meta, node.PBA, gen)

Node_Written(s, mt, gen, content) ==
  IF mt.mismatch THEN [s EXCEPT !.error = "hash"]
  ELSE IF mt.new_pba = 0 THEN [s EXCEPT !.error = "meta_tree_full"]
  ELSE [s EXCEPT !.blocks = [mt.blocks EXCEPT ![mt.new_pba] = content],
                 !.meta   = mt.root,
                 !.node   = Update_Parent(mt.new_pba, gen, content)]

(* The usable entries, the last first, serve the levels that need a block, *)
(* the lowest first.                                                       *)
Nr_After(x, S) == Cardinality({y \in S : y > x})

Type_2_Leaf_Turns(s, entries, snapshots, last_secured_gen, req) ==
  LET needing == {l \in Level : s.new[l] = 0}
      usable  == {j \in 0 .. Free_Degree - 1 :
                    Check_Type_2_Leaf_Usable(entries[j], snapshots, last_secured_gen, req)}
  IN {t \in usable \X needing : Nr_After(t[1], usable) = Nr_Before(t[2], needing)}

Exchange_Type_2_Leafs(s, i, entries, turns, req) ==
  LET new == [j \in DOMAIN entries |->
                IF j \in Serving(turns)
                THEN Exchange_Type_2_Leaf(entries[j], Taker(turns, j), req) ELSE entries[j]]
      w   == Node_Written(s, Block_For_Node(s, s.entries[i], req.Gen), req.Gen, new)
  IN [w EXCEPT !.entries[i] = w.node,
               !.new = [l \in Level |-> IF l \in Served(turns)
                                        THEN entries[Server(turns, l)].PBA ELSE @[l]]]

(* The visit of the level-1 node that is child i of the root.  A node      *)
(* without a usable entry is left as it is.                                *)
Visit_Level_1_Node(s, i, snapshots, last_secured_gen, req) ==
  LET entries == s.blocks[s.entries[i].PBA]
      turns   == Type_2_Leaf_Turns(s, entries, snapshots, last_secured_gen, req)
  IN IF \/ s.error # "none" \/ s.entries[i].PBA = 0
        \/ \A l \in Level : s.new[l] # 0 THEN s
     ELSE IF ~Check_Node_Hash(s.blocks, s.entries[i]) THEN [s EXCEPT !.error = "hash"]
     ELSE IF turns = {} THEN s
     ELSE Exchange_Type_2_Leafs(s, i, entries, turns, req)

(* A request to the free tree: the children of the root are visited from   *)
(* the last to the first until no level needs a block, then the root is    *)
(* written.  If the scan before found too few blocks nothing is changed.   *)
(* The result but for its error counts only if there is none.              *)
Free_Root_Read(blocks, free, meta, req) ==
  [blocks |-> blocks, node |-> free, meta |-> meta, entries |-> blocks[free.PBA],
   new |-> req.New_Blocks, error |-> "none"]

Children_Visited(blocks, free, meta, snapshots, last_secured_gen, req) ==
  LET after[i \in 0 .. Free_Degree] ==
        IF i = 0 THEN Free_Root_Read(blocks, free, meta, req)
        ELSE Visit_Level_1_Node(after[i - 1], Free_Degree - i, snapshots, last_secured_gen, req)
  IN after

Free_Root_Written(s, free, gen) ==
  IF s.error # "none" THEN s
  ELSE IF \E l \in Level : s.new[l] = 0 THEN [s EXCEPT !.error = "free_tree_full"]
  ELSE Node_Written(s, Block_For_Node(s, free, gen), gen, s.entries)

Free_Tree_Alloc(blocks, free, meta, snapshots, last_secured_gen, req) ==
  IF ~Check_Node_Hash(blocks, free)
  THEN [Free_Root_Read(blocks, free, meta, req) EXCEPT !.error = "hash"]
  ELSE Free_Root_Written(
         Children_Visited(blocks, free, meta, snapshots, last_secured_gen, req)[Free_Degree],
         free, req.Gen)
=============================================================================
