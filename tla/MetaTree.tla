------------------------------- MODULE MetaTree -------------------------------
(***************************************************************************)
(* The nodes of the trees of the CBE and the allocation of a block of the  *)
(* meta tree (package CBE.Meta_Tree).  The leaves of the meta tree are the *)
(* spare blocks for the inner nodes of the free tree and of the meta tree  *)
(* itself: who changes such a node writes it to a spare block and gives    *)
(* back the block it was in.                                               *)
(*                                                                         *)
(* "blocks" is the content of all blocks as the users of the cache see it. *)
(* An inner node is a function from the index of a child to what the node  *)
(* holds of that child.  The hash of a block is its content.  A request is *)
(* handled without a step of another module in between, so it is one       *)
(* operator here.  The tree has an inner level above that of its type-2    *)
(* nodes, the least the code admits for the free tree.                     *)
(***************************************************************************)
EXTENDS Integers, FiniteSets, Sequences

CONSTANTS
  Meta_Degree   \* children of a node of the meta tree: 64 in the code

(* A node as its parent knows it.  PBA 0 is that of an invalid node.       *)
Zeros               == [i \in {} |-> 0]
Type_1_Node_Invalid == [PBA |-> 0, Gen |-> 0, Hash |-> Zeros]

(* A leaf of the free tree or of the meta tree: the block PBA, when it was *)
(* allocated for what it held last, and when that was given up.            *)
Type_2_Node(pba) ==
  [PBA |-> pba, Alloc_Gen |-> 0, Free_Gen |-> 0, Last_VBA |-> 0, Last_Key_ID |-> 0,
   Reserved |-> FALSE]
Type_2_Node_Invalid == Type_2_Node(0)

Check_Node_Hash(blocks, node) == blocks[node.PBA] = node.Hash

(* The node as its parent has to know it after "content" was written.      *)
Update_Parent(pba, gen, content) == [PBA |-> pba, Gen |-> gen, Hash |-> content]

-----------------------------------------------------------------------------
(* Whether a node of the meta tree is changed in place.                    *)
Node_Volatile(node, gen) == node.Gen = 0 \/ node.Gen # gen

Check_Level_0_Usable(node, gen) == node # Type_2_Node_Invalid /\ node.Alloc_Gen # gen

(* A block is given back for the one that is taken from the entry.         *)
Exchanged(entry, pba, gen) ==
  [entry EXCEPT !.PBA = pba, !.Alloc_Gen = gen, !.Free_Gen = gen, !.Reserved = FALSE]

(* Who takes what, as pairs: the first to give serves the first to take,   *)
(* the second the second.                                                  *)
Nr_Before(x, S)   == Cardinality({y \in S : y < x})
Serving(turns)    == {t[1] : t \in turns}
Served(turns)     == {t[2] : t \in turns}
Taker(turns, x)   == CHOOSE y \in Served(turns) : <<x, y>> \in turns
Server(turns, y)  == CHOOSE x \in Serving(turns) : <<x, y>> \in turns

(* Who waits for a block: the level-1 node (1) and the root (2) if they    *)
(* must not be changed in place, then the request (3).                     *)
Waiting(s, gen) ==
  {w \in 1 .. 3 : /\ w = 1 => ~Node_Volatile(s.root, gen)
                  /\ w = 2 => ~s.volatile}

(* The usable entries serve those that wait, each in their order.          *)
Level_0_Turns(s, entries, gen) ==
  LET usable == {j \in 0 .. Meta_Degree - 1 : Check_Level_0_Usable(entries[j], gen)}
  IN {t \in usable \X Waiting(s, gen) :
        Nr_Before(t[1], usable) = Nr_Before(t[2], Waiting(s, gen))}

Handle_Level_0_Nodes(s, i, entries, turns, old_pba, gen) ==
  LET held   == <<s.entries[i].PBA, s.root.PBA, old_pba>>
      now(w) == IF w \in Served(turns) THEN entries[Server(turns, w)].PBA ELSE held[w]
      new    == [j \in DOMAIN entries |->
                   IF j \in Serving(turns) THEN Exchanged(entries[j], held[Taker(turns, j)], gen)
                   ELSE entries[j]]
  IN [blocks   |-> [s.blocks EXCEPT ![now(1)] = new],
      root     |-> [s.root EXCEPT !.PBA = now(2),
                                  !.Gen = IF 2 \in Served(turns) THEN gen ELSE @],
      volatile |-> s.volatile \/ 2 \in Served(turns),
      entries  |-> [s.entries EXCEPT ![i] = Update_Parent(now(1), gen, new)],
      dirty    |-> TRUE,
      new_pba  |-> IF 3 \in Served(turns) THEN now(3) ELSE 0,
      mismatch |-> FALSE]

(* The visit of the level-1 node that is child i of the root.              *)
Handle_Level_1_Node(s, i, old_pba, gen) ==
  LET l1      == s.entries[i]
      entries == s.blocks[l1.PBA]
      turns   == Level_0_Turns(s, entries, gen)
  IN IF s.new_pba # 0 \/ s.mismatch \/ l1 = Type_1_Node_Invalid THEN s
     ELSE IF ~Check_Node_Hash(s.blocks, l1) THEN [s EXCEPT !.mismatch = TRUE]
     ELSE IF turns = {} THEN s
     ELSE Handle_Level_0_Nodes(s, i, entries, turns, old_pba, gen)

(* The children of the root are visited from the first to the last.        *)
Root_Read(blocks, root, gen) ==
  [blocks |-> blocks, root |-> root, volatile |-> Node_Volatile(root, gen),
   entries |-> blocks[root.PBA], dirty |-> FALSE, new_pba |-> 0, mismatch |-> FALSE]

Children_Handled(blocks, root, old_pba, gen) ==
  LET after[i \in 0 .. Meta_Degree] ==
        IF i = 0 THEN Root_Read(blocks, root, gen)
        ELSE Handle_Level_1_Node(after[i - 1], i - 1, old_pba, gen)
  IN after

Root_Written(s, gen) ==
  IF s.dirty
  THEN [s EXCEPT !.blocks[s.root.PBA] = s.entries,
                 !.root = Update_Parent(s.root.PBA, gen, s.entries)]
  ELSE s

(* A block in exchange for old_pba.  The result: the blocks, the root, the *)
(* new PBA, 0 if there is none, and whether a hash did not match.          *)
Meta_Tree_Alloc(blocks, root, old_pba, gen) ==
  IF ~Check_Node_Hash(blocks, root)
  THEN [Root_Read(blocks, root, gen) EXCEPT !.mismatch = TRUE]
  ELSE Root_Written(Children_Handled(blocks, root, old_pba, gen)[Meta_Degree], gen)
=============================================================================
