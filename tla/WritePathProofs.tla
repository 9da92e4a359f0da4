--------------------------- MODULE WritePathProofs ---------------------------
(***************************************************************************)
(* No block is lost, and none is used twice (EachBlockOnce), for every     *)
(* size of the trees and any number of snapshots.                          *)
(*                                                                         *)
(* A place is where a block can be used: a node of the current tree, a     *)
(* node or a leaf of the free tree or of the meta tree.  Every change of   *)
(* the trees is an exchange of blocks between pairs of places, by which    *)
(* what is used stays the same and remains used once (Exchange).  A        *)
(* request to the meta tree exchanges the blocks of its nodes, and that of *)
(* the caller, with those of leaves, a request to the free tree those of   *)
(* the nodes on the way to an address with those of leaves.  While a write *)
(* has its new blocks but has not written them, these count for the nodes  *)
(* on the way (Used_VBD).                                                  *)
(***************************************************************************)
EXTENDS WritePath, FiniteSetTheorems, WellFoundedInduction, TLAPS

-----------------------------------------------------------------------------
(***************************************************************************)
(* Exchanges of blocks between places.                                     *)
(***************************************************************************)

(* What holds of 0 and of the successor of each number it holds of, holds  *)
(* of all natural numbers.                                                 *)
LEMMA SetInduction ==
  ASSUME NEW S, 0 \in S, \A n \in Nat : n \in S => n + 1 \in S
  PROVE  Nat \subseteq S
<1> DEFINE R == OpToRel(<, Nat)
<1> SUFFICES ASSUME NEW x \in Nat, x \notin S PROVE FALSE
  OBVIOUS
<1>1. IsWellFoundedOn(R, Nat)
  BY NatLessThanWellFounded
<1> DEFINE T == {n \in Nat : n \notin S}
<1>2. PICK m \in T : \A y \in T : ~(<<y, m>> \in R)
  BY <1>1, WFMin, T \subseteq Nat, x \in T
<1>3. m \in Nat /\ m \notin S /\ m # 0
  OBVIOUS
<1>4. m - 1 \in Nat /\ m - 1 < m /\ (m - 1) + 1 = m
  BY <1>3
<1>5. m - 1 \notin S
  BY <1>3, <1>4
<1>6. <<m - 1, m>> \in R
  BY <1>3, <1>4 DEF OpToRel
<1> QED BY <1>2, <1>4, <1>5, <1>6

(* A use of blocks: what block each place has, 0 if none.                  *)
Inj(f)    == \A p, q \in DOMAIN f : f[p] = f[q] /\ f[p] # 0 => p = q
Blocks(f) == {f[p] : p \in DOMAIN f} \ {0}

(* Exchanging the blocks of pairs of places keeps what is used, and that   *)
(* each block is used once.                                                *)
LEMMA Exchange ==
  ASSUME NEW f, NEW g, NEW pi, DOMAIN g = DOMAIN f,
         \A p \in DOMAIN f : pi[p] \in DOMAIN f /\ pi[pi[p]] = p /\ g[p] = f[pi[p]]
  PROVE  (Inj(f) => Inj(g)) /\ Blocks(g) = Blocks(f)
<1>1. ASSUME Inj(f), NEW p \in DOMAIN g, NEW q \in DOMAIN g, g[p] = g[q], g[p] # 0
      PROVE  p = q
  <2>1. pi[p] = pi[q]
    BY <1>1 DEF Inj
  <2> QED BY <2>1
<1>2. \A p \in DOMAIN f : f[p] = g[pi[p]]
  OBVIOUS
<1>3. Blocks(g) = Blocks(f)
  BY <1>2 DEF Blocks
<1> QED BY <1>1, <1>3 DEF Inj

(* Pairs of which no two share what gives or what takes.                   *)
Matching(turns) == \A t, u \in turns : t[1] = u[1] <=> t[2] = u[2]

(* Each partner has the other one as its partner.                          *)
LEMMA Partners ==
  ASSUME NEW turns, Matching(turns), \A t \in turns : t = <<t[1], t[2]>>
  PROVE  /\ \A w \in Served(turns) : /\ Server(turns, w) \in Serving(turns)
                                     /\ Taker(turns, Server(turns, w)) = w
         /\ \A j \in Serving(turns) : /\ Taker(turns, j) \in Served(turns)
                                      /\ Server(turns, Taker(turns, j)) = j
<1>1. \A w \in Served(turns) : Server(turns, w) \in Serving(turns) /\ <<Server(turns, w), w>> \in turns
  <2> TAKE w \in Served(turns)
  <2>1. \E x \in Serving(turns) : <<x, w>> \in turns
    BY DEF Served, Serving
  <2> QED BY <2>1 DEF Server
<1>2. \A j \in Serving(turns) : Taker(turns, j) \in Served(turns) /\ <<j, Taker(turns, j)>> \in turns
  <2> TAKE j \in Serving(turns)
  <2>1. \E y \in Served(turns) : <<j, y>> \in turns
    BY DEF Served, Serving
  <2> QED BY <2>1 DEF Taker
<1>3. \A x, y, z : <<x, y>> \in turns /\ <<x, z>> \in turns => y = z
  BY DEF Matching
<1>4. \A x, y, z : <<y, x>> \in turns /\ <<z, x>> \in turns => y = z
  BY DEF Matching
<1>5. \A w \in Served(turns) : Taker(turns, Server(turns, w)) = w
  BY <1>1, <1>2, <1>3
<1>6. \A j \in Serving(turns) : Server(turns, Taker(turns, j)) = j
  BY <1>1, <1>2, <1>4
<1> QED BY <1>1, <1>2, <1>5, <1>6

(* The number of what is before, or after, tells the elements of a finite  *)
(* set of numbers apart.                                                   *)
LEMMA Before ==
  ASSUME NEW S \in SUBSET Int, IsFiniteSet(S), NEW x \in S, NEW y \in S,
         Nr_Before(x, S) = Nr_Before(y, S)
  PROVE  x = y
<1>1. ASSUME NEW a \in S, NEW b \in S, a < b PROVE Nr_Before(a, S) # Nr_Before(b, S)
  <2> DEFINE A == {z \in S : z < a}
             B == {z \in S : z < b}
  <2>1. A \subseteq B /\ a \in B /\ a \notin A
    <3>1. a \in Int /\ b \in Int /\ \A z \in S : z \in Int
      OBVIOUS
    <3>2. \A z \in S : z < a => z < b
      BY <3>1, <1>1
    <3>3. ~(a < a) /\ ~(b > b)
      BY <3>1
    <3> QED BY <3>2, <3>3, <1>1
  <2>2. B \subseteq S
    OBVIOUS
  <2>3. IsFiniteSet(B)
    BY <2>2, FS_Subset
  <2> HIDE DEF A, B
  <2>4. Cardinality(A) # Cardinality(B)
    BY <2>1, <2>3, FS_Subset
  <2> QED BY <2>4 DEF A, B, Nr_Before
<1>2. x < y \/ y < x \/ x = y
  OBVIOUS
<1> QED BY <1>1, <1>2

(* The same, counted from the last one on.                                 *)
LEMMA After ==
  ASSUME NEW S \in SUBSET Int, IsFiniteSet(S), NEW x \in S, NEW y \in S,
         Nr_After(x, S) = Nr_After(y, S)
  PROVE  x = y
<1>1. ASSUME NEW a \in S, NEW b \in S, a < b PROVE Nr_After(a, S) # Nr_After(b, S)
  <2> DEFINE A == {z \in S : z > a}
             B == {z \in S : z > b}
  <2>1. B \subseteq A /\ b \in A /\ b \notin B
    <3>1. a \in Int /\ b \in Int /\ \A z \in S : z \in Int
      OBVIOUS
    <3>2. b > a /\ \A z \in S : z > b => z > a
      BY <3>1, <1>1
    <3>3. ~(a < a) /\ ~(b > b)
      BY <3>1
    <3> QED BY <3>2, <3>3, <1>1
  <2>2. A \subseteq S
    OBVIOUS
  <2>3. IsFiniteSet(A)
    BY <2>2, FS_Subset
  <2> HIDE DEF A, B
  <2>4. Cardinality(A) # Cardinality(B)
    BY <2>1, <2>3, FS_Subset
  <2> QED BY <2>4 DEF A, B, Nr_After
<1>2. x < y \/ y < x \/ x = y
  OBVIOUS
<1> QED BY <1>1, <1>2

-----------------------------------------------------------------------------
(***************************************************************************)
(* The meta tree.                                                          *)
(***************************************************************************)

(* The use of blocks by a tree of type-2 nodes and by the caller of its    *)
(* allocation: that of the root at <<-1, -1>>, of its child i at <<i, -1>>,*)
(* of leaf j of that at <<i, j>>, that of the caller at <<-2, -2>>.        *)
T2_Place == Int \X Int
Root_Place   == <<-1, -1>>
Caller_Place == <<-2, -2>>
Node_Place(i)    == <<i, -1>>
Leaf_Place(i, j) == <<i, j>>
Leaf_PBA(entries, i, j) == entries[i].Hash[j].PBA

T2_Use(degree, pba, entries, caller) ==
  [p \in T2_Place |->
     IF p = Root_Place THEN pba
     ELSE IF p = Caller_Place THEN caller
     ELSE IF p[1] \notin 0 .. degree - 1 THEN 0
     ELSE IF p[2] = -1 THEN entries[p[1]].PBA
     ELSE IF p[2] \in 0 .. degree - 1 /\ entries[p[1]].PBA # 0 THEN Leaf_PBA(entries, p[1], p[2])
     ELSE 0]

(* The form of the level-1 nodes of such a tree.                           *)
T2_Entries(degree, entries) ==
  /\ DOMAIN entries = 0 .. degree - 1
  /\ \A i \in 0 .. degree - 1 :
       entries[i].PBA # 0 => /\ DOMAIN entries[i].Hash = 0 .. degree - 1
                             /\ \A j \in 0 .. degree - 1 : "PBA" \in DOMAIN entries[i].Hash[j]

(* In the meta tree only an invalid node has no block.                     *)
Meta_Entries(entries) ==
  /\ T2_Entries(Meta_Degree, entries)
  /\ \A i \in 0 .. Meta_Degree - 1 :
       /\ entries[i].PBA = 0 => entries[i] = Type_1_Node_Invalid
       /\ entries[i].PBA # 0 => \A j \in 0 .. Meta_Degree - 1 :
            entries[i].Hash[j].PBA = 0 => entries[i].Hash[j] = Type_2_Node_Invalid

T1_Root(root) == DOMAIN root = {"PBA", "Gen", "Hash"} /\ root.PBA # 0
Meta_Root_OK(root) == T1_Root(root) /\ Meta_Entries(root.Hash)

(* The state of a request to the meta tree, for which no hash was found to *)
(* differ.                                                                 *)
Asked(s, old_pba) == IF s.new_pba = 0 THEN old_pba ELSE s.new_pba
Meta_Use(s, old_pba) == T2_Use(Meta_Degree, s.root.PBA, s.entries, Asked(s, old_pba))

Meta_State(s) ==
  /\ DOMAIN s = {"blocks", "root", "volatile", "entries", "dirty", "new_pba", "mismatch"}
  /\ s.mismatch \in BOOLEAN

Meta_Inv(s, blks, old_pba, used) ==
  /\ T1_Root(s.root)
  /\ Meta_Entries(s.entries)
  /\ Inj(Meta_Use(s, old_pba)) /\ Blocks(Meta_Use(s, old_pba)) = used
  /\ DOMAIN s.blocks = DOMAIN blks
  /\ \A p \in DOMAIN blks \ used : s.blocks[p] = blks[p]
  /\ s.new_pba # 0 => s.dirty

(* The places differ from each other.                                      *)
LEMMA T2Places ==
  /\ Root_Place \in T2_Place /\ Caller_Place \in T2_Place /\ Root_Place # Caller_Place
  /\ \A i \in Nat : /\ Node_Place(i) \in T2_Place
                     /\ Node_Place(i) # Root_Place /\ Node_Place(i) # Caller_Place
                     /\ \A k \in Nat : Node_Place(i) = Node_Place(k) => i = k
  /\ \A i, j \in Nat :
       /\ Leaf_Place(i, j) \in T2_Place
       /\ Leaf_Place(i, j) # Root_Place /\ Leaf_Place(i, j) # Caller_Place
       /\ \A k \in Nat : Leaf_Place(i, j) # Node_Place(k)
       /\ \A k, l \in Nat : Leaf_Place(i, j) = Leaf_Place(k, l) => i = k /\ j = l
  BY DEF T2_Place, Root_Place, Caller_Place, Node_Place, Leaf_Place

(* What the places of a tree are used for.                                 *)
LEMMA T2UseLeaf ==
  ASSUME NEW d \in Nat, NEW pba, NEW entries, NEW caller,
         NEW i \in 0 .. d - 1, NEW j \in 0 .. d - 1
  PROVE  T2_Use(d, pba, entries, caller)[Leaf_Place(i, j)] =
           IF entries[i].PBA # 0 THEN Leaf_PBA(entries, i, j) ELSE 0
<1>1. /\ i \in Nat /\ j \in Nat /\ j # -1
      /\ Leaf_Place(i, j)[1] = i /\ Leaf_Place(i, j)[2] = j
  BY DEF Leaf_Place
<1>2. /\ Leaf_Place(i, j) \in T2_Place
      /\ Leaf_Place(i, j) # Root_Place /\ Leaf_Place(i, j) # Caller_Place
  BY <1>1, T2Places
<1> QED BY <1>1, <1>2 DEF T2_Use

(* The block of a level-1 node.                                            *)
LEMMA T2UseNode ==
  ASSUME NEW d \in Nat, NEW pba, NEW entries, NEW caller, NEW i \in 0 .. d - 1
  PROVE  T2_Use(d, pba, entries, caller)[Node_Place(i)] = entries[i].PBA
<1>1. i \in Nat /\ Node_Place(i)[1] = i /\ Node_Place(i)[2] = -1
  BY DEF Node_Place
<1>2. /\ Node_Place(i) \in T2_Place
      /\ Node_Place(i) # Root_Place /\ Node_Place(i) # Caller_Place
  BY <1>1, T2Places
<1> QED BY <1>1, <1>2 DEF T2_Use

(* The block of the root, and that of the caller.                          *)
LEMMA T2UseTop ==
  ASSUME NEW d, NEW pba, NEW entries, NEW caller
  PROVE  /\ DOMAIN T2_Use(d, pba, entries, caller) = T2_Place
         /\ T2_Use(d, pba, entries, caller)[Root_Place] = pba
         /\ T2_Use(d, pba, entries, caller)[Caller_Place] = caller
  BY T2Places DEF T2_Use

(* A tree of which only child i and the root are changed.                  *)
LEMMA T2UseSame ==
  ASSUME NEW d \in Nat, NEW pba, NEW entries, NEW caller, NEW pba2, NEW entries2, NEW caller2,
         NEW i \in 0 .. d - 1, \A k \in 0 .. d - 1 : k # i => entries2[k] = entries[k],
         NEW p \in T2_Place, p # Root_Place, p # Caller_Place, p # Node_Place(i),
         \A j \in 0 .. d - 1 : p # Leaf_Place(i, j)
  PROVE  T2_Use(d, pba2, entries2, caller2)[p] = T2_Use(d, pba, entries, caller)[p]
<1>1. p = <<p[1], p[2]>> /\ p[1] \in Int /\ p[2] \in Int
  BY DEF T2_Place
<1>2. p[1] = i => p[2] # -1 /\ p[2] \notin 0 .. d - 1
  BY <1>1 DEF Node_Place, Leaf_Place
<1>3. \A k \in 0 .. d - 1 : \A j : k # i => Leaf_PBA(entries, k, j) = Leaf_PBA(entries2, k, j)
  BY DEF Leaf_PBA
<1>4. CASE p[1] = i
  <2>1. T2_Use(d, pba2, entries2, caller2)[p] = 0
    BY <1>4, <1>2 DEF T2_Use
  <2>2. T2_Use(d, pba, entries, caller)[p] = 0
    BY <1>4, <1>2 DEF T2_Use
  <2> QED BY <2>1, <2>2
<1>5. CASE p[1] \in 0 .. d - 1 /\ p[1] # i
  <2>1. /\ entries[p[1]] = entries2[p[1]]
        /\ Leaf_PBA(entries, p[1], p[2]) = Leaf_PBA(entries2, p[1], p[2])
    BY <1>5, <1>3
  <2> QED BY <2>1 DEF T2_Use
<1>6. CASE p[1] \notin 0 .. d - 1
  BY <1>6 DEF T2_Use
<1> QED BY <1>4, <1>5, <1>6

(* Two that serve, or are served, are told apart by their turn.            *)
LEMMA Level0Turns ==
  ASSUME Meta_Degree \in Nat, NEW s, NEW entries, NEW gen
  PROVE  /\ Matching(Level_0_Turns(s, entries, gen))
         /\ \A t \in Level_0_Turns(s, entries, gen) : t = <<t[1], t[2]>>
         /\ \A w \in Served(Level_0_Turns(s, entries, gen)) : w \in 1 .. 3
         /\ \A j \in Serving(Level_0_Turns(s, entries, gen)) :
              j \in 0 .. Meta_Degree - 1 /\ Check_Level_0_Usable(entries[j], gen)
<1> DEFINE U == {j \in 0 .. Meta_Degree - 1 : Check_Level_0_Usable(entries[j], gen)}
           W == Waiting(s, gen)
           M == Level_0_Turns(s, entries, gen)
<1>1. M = {t \in U \X W : Nr_Before(t[1], U) = Nr_Before(t[2], W)}
  BY DEF Level_0_Turns
<1>2. IsFiniteSet(U) /\ U \in SUBSET Int
  <2>1. IsFiniteSet(0 .. Meta_Degree - 1)
    BY FS_Interval
  <2>2. U \subseteq 0 .. Meta_Degree - 1
    OBVIOUS
  <2>3. IsFiniteSet(U)
    BY <2>1, <2>2, FS_Subset
  <2>4. 0 .. Meta_Degree - 1 \subseteq Int
    OBVIOUS
  <2> QED BY <2>2, <2>3, <2>4
<1>3. IsFiniteSet(W) /\ W \in SUBSET Int /\ W \subseteq 1 .. 3
  <2>0. 1 \in Int /\ 3 \in Int
    OBVIOUS
  <2>1. IsFiniteSet(1 .. 3)
    BY ONLY <2>0, FS_Interval
  <2>2. W \subseteq 1 .. 3
    BY DEF Waiting
  <2>3. IsFiniteSet(W)
    BY <2>1, <2>2, FS_Subset
  <2>4. 1 .. 3 \subseteq Int
    OBVIOUS
  <2> QED BY <2>2, <2>3, <2>4
<1> HIDE DEF M, W
<1>4. ASSUME NEW t \in M, NEW u \in M PROVE t[1] = u[1] <=> t[2] = u[2]
  <2>1. /\ t[1] \in U /\ u[1] \in U /\ t[2] \in W /\ u[2] \in W
        /\ Nr_Before(t[1], U) = Nr_Before(t[2], W) /\ Nr_Before(u[1], U) = Nr_Before(u[2], W)
    BY <1>1
  <2> HIDE DEF U
  <2>2. t[1] = u[1] => t[2] = u[2]
    BY <2>1, <1>3, Before
  <2>3. t[2] = u[2] => t[1] = u[1]
    BY <2>1, <1>2, Before
  <2> QED BY <2>2, <2>3
<1>5. Matching(M)
  BY <1>4 DEF Matching
<1>6. \A w \in Served(M) : w \in 1 .. 3
  BY <1>1, <1>3 DEF Served
<1>7. \A j \in Serving(M) : j \in U
  BY <1>1 DEF Serving
<1>8. \A t \in M : t = <<t[1], t[2]>>
  BY <1>1
<1> QED BY <1>5, <1>6, <1>7, <1>8 DEF M

(* What a level-1 node gives and takes: each usable entry exchanges its    *)
(* block with the one it serves.                                           *)
Held_Place(i, w) == IF w = 1 THEN Node_Place(i) ELSE IF w = 2 THEN Root_Place ELSE Caller_Place

(* A level-1 node of the meta tree is handled: blocks are exchanged between*)
(* its leaves and those they serve, and no other place is concerned.       *)
LEMMA Level0Handled ==
  ASSUME Meta_Degree \in Nat, NEW s, NEW i \in 0 .. Meta_Degree - 1, NEW old_pba, NEW gen,
         NEW blks, NEW used, Meta_Inv(s, blks, old_pba, used), Meta_State(s),
         s.new_pba = 0, old_pba # 0, s.entries[i].PBA # 0,
         NEW entries, entries = s.entries[i].Hash,
         NEW turns, turns = Level_0_Turns(s, entries, gen)
  PROVE  LET r == Handle_Level_0_Nodes(s, i, entries, turns, old_pba, gen)
         IN Meta_Inv(r, blks, old_pba, used) /\ Meta_State(r) /\ r.mismatch = FALSE
<1> DEFINE d        == Meta_Degree
           held     == <<s.entries[i].PBA, s.root.PBA, old_pba>>
           now(w)   == IF w \in Served(turns) THEN entries[Server(turns, w)].PBA ELSE held[w]
           new      == [j \in DOMAIN entries |->
                          IF j \in Serving(turns)
                          THEN Exchanged(entries[j], held[Taker(turns, j)], gen) ELSE entries[j]]
           r        == Handle_Level_0_Nodes(s, i, entries, turns, old_pba, gen)
           f        == Meta_Use(s, old_pba)
           g        == Meta_Use(r, old_pba)
<1>1. /\ Matching(turns)
      /\ \A w \in Served(turns) : w \in {1, 2, 3}
      /\ \A j \in Serving(turns) : j \in 0 .. d - 1 /\ Check_Level_0_Usable(entries[j], gen)
  BY Level0Turns
<1>2. /\ \A w \in Served(turns) : /\ Server(turns, w) \in Serving(turns)
                                  /\ Taker(turns, Server(turns, w)) = w
      /\ \A j \in Serving(turns) : /\ Taker(turns, j) \in Served(turns)
                                   /\ Server(turns, Taker(turns, j)) = j
  <2>1. \A t \in turns : t = <<t[1], t[2]>>
    BY Level0Turns
  <2>2. Matching(turns)
    BY <1>1
  <2> QED BY ONLY <2>1, <2>2, Partners
<1>3. /\ DOMAIN entries = 0 .. d - 1
      /\ \A j \in 0 .. d - 1 : /\ "PBA" \in DOMAIN entries[j]
                               /\ entries[j].PBA = 0 => entries[j] = Type_2_Node_Invalid
  BY DEF Meta_Inv, Meta_Entries, T2_Entries
<1>4. \A j \in Serving(turns) : entries[j].PBA # 0
  BY <1>1, <1>3 DEF Check_Level_0_Usable
<1>5. /\ r.blocks = [s.blocks EXCEPT ![now(1)] = new]
      /\ r.root = [s.root EXCEPT !.PBA = now(2), !.Gen = IF 2 \in Served(turns) THEN gen ELSE @]
      /\ r.entries = [s.entries EXCEPT ![i] = [PBA |-> now(1), Gen |-> gen, Hash |-> new]]
      /\ r.dirty = TRUE /\ r.mismatch = FALSE
      /\ r.new_pba = IF 3 \in Served(turns) THEN now(3) ELSE 0
  BY DEF Handle_Level_0_Nodes, Update_Parent
<1>6. Meta_State(r)
  BY DEF Handle_Level_0_Nodes, Meta_State
<1>7. held[1] # 0 /\ held[2] # 0 /\ held[3] # 0
  BY DEF Meta_Inv, T1_Root
<1>8. \A w \in {1, 2, 3} : now(w) # 0
  BY <1>1, <1>2, <1>4, <1>7
<1>9. \A w \in Served(turns) : w \in {1, 2, 3} /\ held[w] # 0
  BY <1>1, <1>7
<1> HIDE DEF held
<1>10. /\ DOMAIN new = 0 .. d - 1
       /\ \A j \in 0 .. d - 1 :
            /\ "PBA" \in DOMAIN new[j]
            /\ new[j].PBA = IF j \in Serving(turns) THEN held[Taker(turns, j)] ELSE entries[j].PBA
            /\ new[j].PBA = 0 => new[j] = Type_2_Node_Invalid
  <2> SUFFICES ASSUME NEW j \in 0 .. d - 1
               PROVE  /\ "PBA" \in DOMAIN new[j]
                      /\ new[j].PBA = IF j \in Serving(turns) THEN held[Taker(turns, j)]
                                      ELSE entries[j].PBA
                      /\ new[j].PBA = 0 => new[j] = Type_2_Node_Invalid
    BY <1>3
  <2>1. CASE j \in Serving(turns)
    <3>1. new[j] = [entries[j] EXCEPT !.PBA = held[Taker(turns, j)], !.Alloc_Gen = gen,
                                      !.Free_Gen = gen, !.Reserved = FALSE]
      BY <1>3, <2>1 DEF Exchanged
    <3>2. DOMAIN new[j] = DOMAIN entries[j] /\ new[j].PBA = held[Taker(turns, j)]
      BY <1>3, <3>1
    <3> QED BY <3>2, <1>3, <1>2, <1>9, <2>1
  <2>2. CASE j \notin Serving(turns)
    <3>1. new[j] = entries[j]
      BY <1>3, <2>2
    <3> QED BY <3>1, <1>3, <2>2
  <2> QED BY <2>1, <2>2
<1> HIDE DEF now, new, r
<1>11. T1_Root(r.root) /\ r.root.PBA = now(2)
  BY <1>5, <1>8 DEF Meta_Inv, T1_Root
<1>12. /\ DOMAIN r.entries = 0 .. d - 1
       /\ r.entries[i] = [PBA |-> now(1), Gen |-> gen, Hash |-> new]
       /\ \A k \in 0 .. d - 1 : k # i => r.entries[k] = s.entries[k]
  BY <1>5 DEF Meta_Inv, Meta_Entries, T2_Entries
<1>13. Meta_Entries(r.entries)
  BY <1>8, <1>10, <1>12, SMTT(30) DEF Meta_Inv, Meta_Entries, T2_Entries
<1> DEFINE pi == [p \in T2_Place |->
                    IF \E w \in Served(turns) : p = Held_Place(i, w)
                    THEN Leaf_Place(i, Server(turns, CHOOSE w \in Served(turns) : p = Held_Place(i, w)))
                    ELSE IF \E j \in Serving(turns) : p = Leaf_Place(i, j)
                    THEN Held_Place(i, Taker(turns, CHOOSE j \in Serving(turns) : p = Leaf_Place(i, j)))
                    ELSE p]
<1>14. i \in Nat /\ \A j \in 0 .. d - 1 : j \in Nat
  OBVIOUS
<1>20. /\ \A w \in {1, 2, 3} : /\ Held_Place(i, w) \in T2_Place
                               /\ \A j \in Nat : Held_Place(i, w) # Leaf_Place(i, j)
                               /\ \A x \in {1, 2, 3} : Held_Place(i, w) = Held_Place(i, x) => w = x
  BY <1>14, T2Places DEF Held_Place
<1>21. \A w \in Served(turns) : pi[Held_Place(i, w)] = Leaf_Place(i, Server(turns, w))
  <2> SUFFICES ASSUME NEW w \in Served(turns)
               PROVE  pi[Held_Place(i, w)] = Leaf_Place(i, Server(turns, w))
    OBVIOUS
  <2> DEFINE h == Held_Place(i, w)
  <2>1. /\ h \in T2_Place /\ w \in Served(turns)
        /\ \A x \in Served(turns) : h = Held_Place(i, x) => x = w
    BY <1>1, <1>20
  <2> HIDE DEF h
  <2>2. (CHOOSE x \in Served(turns) : h = Held_Place(i, x)) = w /\ h = Held_Place(i, w)
    BY ONLY <2>1 DEF h
  <2> QED BY ONLY <2>1, <2>2
<1>22. \A j \in Serving(turns) : /\ Leaf_Place(i, j) \in T2_Place
                                  /\ pi[Leaf_Place(i, j)] = Held_Place(i, Taker(turns, j))
  <2> SUFFICES ASSUME NEW j \in Serving(turns)
               PROVE  /\ Leaf_Place(i, j) \in T2_Place
                      /\ pi[Leaf_Place(i, j)] = Held_Place(i, Taker(turns, j))
    OBVIOUS
  <2> DEFINE h == Leaf_Place(i, j)
  <2>1. /\ h \in T2_Place /\ j \in Serving(turns)
        /\ ~\E w \in Served(turns) : h = Held_Place(i, w)
    BY <1>1, <1>14, <1>20, T2Places
  <2>2. \A k \in Serving(turns) : h = Leaf_Place(i, k) => k = j
    BY DEF Leaf_Place
  <2> HIDE DEF h
  <2>3. (CHOOSE k \in Serving(turns) : h = Leaf_Place(i, k)) = j /\ h = Leaf_Place(i, j)
    BY ONLY <2>1, <2>2 DEF h
  <2>4. h \in T2_Place /\ pi[h] = Held_Place(i, Taker(turns, j))
    BY ONLY <2>1, <2>3
  <2> QED BY <2>4 DEF h
<1>23. \A p \in T2_Place : \/ \E w \in Served(turns) : p = Held_Place(i, w)
                           \/ \E j \in Serving(turns) : p = Leaf_Place(i, j)
                           \/ pi[p] = p
  OBVIOUS
<1> HIDE DEF pi
<1>24. \A p \in T2_Place : pi[p] \in T2_Place /\ pi[pi[p]] = p
  <2> TAKE p \in T2_Place
  <2>4. ASSUME NEW w \in Served(turns), p = Held_Place(i, w)
        PROVE  pi[p] \in T2_Place /\ pi[pi[p]] = p
    BY <2>4, <1>21, <1>22, <1>2
  <2>5. ASSUME NEW j \in Serving(turns), p = Leaf_Place(i, j)
        PROVE  pi[p] \in T2_Place /\ pi[pi[p]] = p
    <3>1. Taker(turns, j) \in Served(turns) /\ Server(turns, Taker(turns, j)) = j
      BY <1>2
    <3>2. pi[p] = Held_Place(i, Taker(turns, j))
      BY <2>5, <1>22
    <3>3. pi[p] \in T2_Place
      BY <3>1, <3>2, <1>1, <1>20
    <3> QED BY <3>1, <3>2, <3>3, <2>5, <1>21
  <2> QED BY <2>4, <2>5, <1>23
<1>25. f = T2_Use(d, s.root.PBA, s.entries, old_pba) /\ g = T2_Use(d, r.root.PBA, r.entries, Asked(r, old_pba))
  BY DEF Meta_Use, Asked
<1>26. \A j \in 0 .. d - 1 : /\ Leaf_PBA(s.entries, i, j) = entries[j].PBA
                             /\ Leaf_PBA(r.entries, i, j) = new[j].PBA
  BY <1>12 DEF Leaf_PBA
<1>15. \A p \in T2_Place : g[p] = f[pi[p]]
  <2> HIDE DEF f, g, pi
  <2>2. \A w \in {1, 2, 3} : f[Held_Place(i, w)] = held[w] /\ g[Held_Place(i, w)] = now(w)
    <3>1. f[Node_Place(i)] = held[1] /\ f[Root_Place] = held[2] /\ f[Caller_Place] = held[3]
      BY <1>25, T2UseNode, T2UseTop DEF held
    <3>2. Asked(r, old_pba) = now(3)
      BY <1>5, <1>8 DEF held, now, Asked
    <3>3. g[Caller_Place] = now(3)
      BY <1>25, <3>2, T2UseTop
    <3>4. g[Node_Place(i)] = now(1) /\ g[Root_Place] = now(2)
      BY <1>11, <1>12, <1>25, T2UseNode, T2UseTop
    <3> QED BY <3>1, <3>3, <3>4 DEF Held_Place
  <2>3. \A j \in 0 .. d - 1 : f[Leaf_Place(i, j)] = entries[j].PBA /\ g[Leaf_Place(i, j)] = new[j].PBA
    <3> TAKE j \in 0 .. d - 1
    <3>1. f[Leaf_Place(i, j)] = entries[j].PBA
      BY <1>25, <1>26, T2UseLeaf
    <3>2. g[Leaf_Place(i, j)] = new[j].PBA
      BY <1>25, <1>26, T2UseLeaf, <1>12, <1>8
    <3> QED BY <3>1, <3>2
  <2> TAKE p \in T2_Place
  <2>6. ASSUME NEW w \in Served(turns), p = Held_Place(i, w) PROVE g[p] = f[pi[p]]
    <3>1. g[p] = now(w) /\ pi[p] = Leaf_Place(i, Server(turns, w))
      BY <2>6, <2>2, <1>21, <1>1
    <3>2. f[pi[p]] = entries[Server(turns, w)].PBA
      BY <3>1, <2>3, <1>1, <1>2
    <3> QED BY <3>1, <3>2 DEF now
  <2>7. ASSUME NEW j \in Serving(turns), p = Leaf_Place(i, j) PROVE g[p] = f[pi[p]]
    <3>1. g[p] = held[Taker(turns, j)] /\ pi[p] = Held_Place(i, Taker(turns, j))
      BY <2>7, <2>3, <1>22, <1>1, <1>10
    <3> QED BY <3>1, <2>2, <1>1, <1>2
  <2>8. CASE ~(\E w \in Served(turns) : p = Held_Place(i, w)) /\ ~(\E j \in Serving(turns) : p = Leaf_Place(i, j))
    <3>1. pi[p] = p
      BY <2>8, <1>23
    <3>2. ASSUME NEW w \in {1, 2, 3}, p = Held_Place(i, w) PROVE g[p] = f[p]
      BY <3>2, <2>8, <2>2 DEF now
    <3>3. ASSUME NEW j \in 0 .. d - 1, p = Leaf_Place(i, j) PROVE g[p] = f[p]
      BY <3>3, <2>8, <2>3, <1>10
    <3>4. CASE /\ p # Node_Place(i) /\ p # Root_Place /\ p # Caller_Place
               /\ ~(\E j \in 0 .. d - 1 : p = Leaf_Place(i, j))
      <4>1. /\ d \in Nat /\ i \in 0 .. d - 1 /\ p \in T2_Place
            /\ p # Root_Place /\ p # Caller_Place /\ p # Node_Place(i)
            /\ \A j \in 0 .. d - 1 : p # Leaf_Place(i, j)
        BY <3>4
      <4> DEFINE p1 == s.root.PBA
                 e1 == s.entries
                 c1 == old_pba
                 p2 == r.root.PBA
                 e2 == r.entries
                 c2 == Asked(r, old_pba)
      <4>2. /\ \A k \in 0 .. d - 1 : k # i => e2[k] = e1[k]
            /\ f = T2_Use(d, p1, e1, c1) /\ g = T2_Use(d, p2, e2, c2)
        BY <1>12, <1>25
      <4> HIDE DEF p1, e1, c1, p2, e2, c2, d
      <4>3. g[p] = f[p]
        BY ONLY <4>1, <4>2, T2UseSame
      <4> QED BY <4>3, <3>1
    <3> QED BY <3>1, <3>2, <3>3, <3>4 DEF Held_Place
  <2> QED BY <2>6, <2>7, <2>8
<1>16. DOMAIN f = T2_Place /\ DOMAIN g = T2_Place
  BY <1>25, T2UseTop
<1>17. Inj(g) /\ Blocks(g) = used
  <2> HIDE DEF f, g, pi
  <2>1. Inj(f) /\ Blocks(f) = used
    BY DEF Meta_Inv, f
  <2> QED BY <2>1, <1>24, <1>15, <1>16, Exchange
<1>18. now(1) \in used
  <2>1. g[Node_Place(i)] = now(1)
    BY <1>25, <1>12, T2UseNode
  <2>2. Node_Place(i) \in T2_Place
    BY <1>14, T2Places
  <2> HIDE DEF g
  <2> QED BY <2>1, <2>2, <1>8, <1>16, <1>17 DEF Blocks
<1>19. DOMAIN r.blocks = DOMAIN blks /\ \A p \in DOMAIN blks \ used : r.blocks[p] = blks[p]
  BY <1>5, <1>18 DEF Meta_Inv
<1> QED BY <1>5, <1>6, <1>11, <1>13, <1>17, <1>19 DEF Meta_Inv, r

(* The states after the visits are as the code says.                       *)
LEMMA ChildrenHandled ==
  ASSUME Meta_Degree \in Nat, NEW blks, NEW root, NEW old_pba, NEW gen
  PROVE  /\ Children_Handled(blks, root, old_pba, gen)[0] = Root_Read(blks, root, gen)
         /\ \A i \in 1 .. Meta_Degree :
              Children_Handled(blks, root, old_pba, gen)[i] =
                Handle_Level_1_Node(Children_Handled(blks, root, old_pba, gen)[i - 1], i - 1,
                                    old_pba, gen)
<1> DEFINE Start      == Root_Read(blks, root, gen)
           Visit(s, i) == Handle_Level_1_Node(s, i - 1, old_pba, gen)
           Is(g, n)   == g = [i \in 0 .. n |-> IF i = 0 THEN Start ELSE Visit(g[i - 1], i)]
           S          == {n \in Nat : \E g : Is(g, n)}
<1> HIDE DEF Start, Visit
<1>1. 0 \in S
  <2>1. Is([i \in 0 .. 0 |-> Start], 0)
    OBVIOUS
  <2> QED BY <2>1
<1>2. ASSUME NEW n \in Nat, n \in S PROVE n + 1 \in S
  <2>1. PICK g : Is(g, n)
    BY <1>2
  <2> DEFINE h == [i \in 0 .. n + 1 |-> IF i = n + 1 THEN Visit(g[n], i) ELSE g[i]]
  <2>2. \A i \in 0 .. n + 1 : h[i] = IF i = 0 THEN Start ELSE Visit(h[i - 1], i)
    <3> TAKE i \in 0 .. n + 1
    <3>1. CASE i = n + 1
      <4>1. h[i] = Visit(g[n], i) /\ h[i - 1] = g[n]
        BY <3>1
      <4> QED BY <4>1, <3>1
    <3>2. CASE i # n + 1
      <4>1. i \in 0 .. n /\ h[i] = g[i]
        BY <3>2
      <4>2. i # 0 => h[i - 1] = g[i - 1]
        BY <3>2
      <4>3. g[i] = IF i = 0 THEN Start ELSE Visit(g[i - 1], i)
        BY <2>1, <4>1
      <4> QED BY <4>1, <4>2, <4>3
    <3> QED BY <3>1, <3>2
  <2>3. Is(h, n + 1)
    BY <2>2
  <2> HIDE DEF Is, h
  <2> QED BY <2>3
<1> HIDE DEF Is
<1>3. Meta_Degree \in S
  BY <1>1, <1>2, SetInduction
<1>4. PICK g : Is(g, Meta_Degree)
  BY <1>3
<1> DEFINE after == Children_Handled(blks, root, old_pba, gen)
<1>5. after = CHOOSE w : w = [i \in 0 .. Meta_Degree |->
                                IF i = 0 THEN Start ELSE Visit(w[i - 1], i)]
  BY DEF Children_Handled, Start, Visit
<1>6. after = [i \in 0 .. Meta_Degree |-> IF i = 0 THEN Start ELSE Visit(after[i - 1], i)]
  <2> HIDE DEF after
  <2> QED BY <1>4, <1>5 DEF Is
<1> HIDE DEF after
<1>7. after[0] = Start /\ \A i \in 1 .. Meta_Degree : after[i] = Visit(after[i - 1], i)
  BY <1>6
<1> QED BY <1>7 DEF after, Start, Visit

(* A visit keeps each block in use once.                                   *)
LEMMA Level1Handled ==
  ASSUME Meta_Degree \in Nat, NEW s, NEW i \in 0 .. Meta_Degree - 1, NEW old_pba, NEW gen,
         NEW blks, NEW used, old_pba # 0, Meta_State(s),
         ~s.mismatch => Meta_Inv(s, blks, old_pba, used),
         NEW r, r = Handle_Level_1_Node(s, i, old_pba, gen)
  PROVE  Meta_State(r) /\ (~r.mismatch => Meta_Inv(r, blks, old_pba, used))
<1> DEFINE entries == s.blocks[s.entries[i].PBA]
           turns   == Level_0_Turns(s, entries, gen)
<1>1. CASE s.new_pba # 0 \/ s.mismatch \/ s.entries[i] = Type_1_Node_Invalid
  BY <1>1 DEF Handle_Level_1_Node
<1>2. CASE /\ ~(s.new_pba # 0 \/ s.mismatch \/ s.entries[i] = Type_1_Node_Invalid)
           /\ ~Check_Node_Hash(s.blocks, s.entries[i])
  <2>1. r = [s EXCEPT !.mismatch = TRUE]
    BY <1>2 DEF Handle_Level_1_Node
  <2> QED BY <2>1 DEF Meta_State
<1>3. CASE /\ ~(s.new_pba # 0 \/ s.mismatch \/ s.entries[i] = Type_1_Node_Invalid)
           /\ Check_Node_Hash(s.blocks, s.entries[i]) /\ turns = {}
  <2>1. r = s
    BY <1>3 DEF Handle_Level_1_Node
  <2> QED BY <2>1
<1>4. CASE /\ ~(s.new_pba # 0 \/ s.mismatch \/ s.entries[i] = Type_1_Node_Invalid)
           /\ Check_Node_Hash(s.blocks, s.entries[i]) /\ turns # {}
  <2>1. r = Handle_Level_0_Nodes(s, i, entries, turns, old_pba, gen)
    BY <1>4 DEF Handle_Level_1_Node
  <2>2. Meta_Inv(s, blks, old_pba, used) /\ s.new_pba = 0
    BY <1>4
  <2>3. s.entries[i].PBA # 0
    BY <2>2, <1>4 DEF Meta_Inv, Meta_Entries
  <2>4. entries = s.entries[i].Hash
    BY <1>4 DEF Check_Node_Hash
  <2> HIDE DEF entries, turns
  <2>5. turns = Level_0_Turns(s, entries, gen)
    BY DEF turns
  <2>6. Meta_Inv(r, blks, old_pba, used) /\ Meta_State(r)
    BY <2>1, <2>2, <2>3, <2>4, <2>5, Level0Handled, ZenonT(40)
  <2> QED BY <2>6
<1> QED BY <1>1, <1>2, <1>3, <1>4

(* The use of blocks by the meta tree whose root is "root", and a caller   *)
(* that has the block "caller".                                            *)
Root_Use(degree, root, caller) == T2_Use(degree, root.PBA, root.Hash, caller)

(* A request to the meta tree exchanges blocks: what the tree and the      *)
(* caller use is the same as before, and each block once, and no other     *)
(* block is written.                                                       *)
LEMMA MetaTreeAlloc ==
  ASSUME Meta_Degree \in Nat, NEW blks, NEW root, NEW old_pba, NEW gen,
         Meta_Root_OK(root), old_pba # 0, Inj(Root_Use(Meta_Degree, root, old_pba)),
         NEW r, r = Meta_Tree_Alloc(blks, root, old_pba, gen),
         ~r.mismatch, r.new_pba # 0
  PROVE  LET used == Blocks(Root_Use(Meta_Degree, root, old_pba))
         IN /\ Meta_Root_OK(r.root)
            /\ Inj(Root_Use(Meta_Degree, r.root, r.new_pba))
            /\ Blocks(Root_Use(Meta_Degree, r.root, r.new_pba)) = used
            /\ DOMAIN r.blocks = DOMAIN blks
            /\ \A p \in DOMAIN blks \ used : r.blocks[p] = blks[p]
<1> DEFINE used  == Blocks(Root_Use(Meta_Degree, root, old_pba))
           after == Children_Handled(blks, root, old_pba, gen)
           start == Root_Read(blks, root, gen)
           Good(s) == Meta_State(s) /\ (~s.mismatch => Meta_Inv(s, blks, old_pba, used))
           S     == {n \in Nat : n <= Meta_Degree => Good(after[n])}
           w     == after[Meta_Degree]
<1>1. Check_Node_Hash(blks, root)
  BY DEF Meta_Tree_Alloc, Root_Read
<1>2. r = Root_Written(w, gen)
  BY <1>1 DEF Meta_Tree_Alloc
<1>3. Good(start)
  <2>1. Meta_State(start)
    BY DEF Root_Read, Meta_State
  <2>2. start.root = root /\ start.entries = root.Hash /\ start.blocks = blks /\ start.new_pba = 0
    BY <1>1 DEF Root_Read, Check_Node_Hash
  <2>3. Meta_Use(start, old_pba) = Root_Use(Meta_Degree, root, old_pba)
    BY <2>2 DEF Meta_Use, Root_Use, Asked
  <2> HIDE DEF start
  <2> QED BY <2>1, <2>2, <2>3 DEF Meta_Inv, Meta_Root_OK
<1>4. 0 \in S
  BY <1>3, ChildrenHandled
<1>5. ASSUME NEW n \in Nat, n \in S PROVE n + 1 \in S
  <2> SUFFICES ASSUME n + 1 <= Meta_Degree PROVE Good(after[n + 1])
    OBVIOUS
  <2>1. n \in 0 .. Meta_Degree - 1 /\ n + 1 \in 1 .. Meta_Degree /\ (n + 1) - 1 = n /\ n <= Meta_Degree
    OBVIOUS
  <2>2. after[n + 1] = Handle_Level_1_Node(after[n], n, old_pba, gen)
    BY <2>1, ChildrenHandled
  <2>3. Good(after[n])
    BY <1>5, <2>1
  <2> HIDE DEF after, used
  <2> QED BY <2>1, <2>2, <2>3, Level1Handled
<1> HIDE DEF Good, after, used
<1>6. Good(w)
  <2> HIDE DEF S
  <2>1. Meta_Degree \in S
    BY <1>4, <1>5, SetInduction
  <2> QED BY <2>1 DEF S
<1> HIDE DEF w
<1>7. r.mismatch = w.mismatch /\ r.new_pba = w.new_pba
  BY <1>2, <1>6 DEF Root_Written, Good, Meta_State
<1>8. Meta_Inv(w, blks, old_pba, used) /\ w.new_pba # 0 /\ w.dirty /\ Meta_State(w)
  BY <1>6, <1>7 DEF Good, Meta_Inv
<1>9. r = [w EXCEPT !.blocks[w.root.PBA] = w.entries,
                    !.root = [PBA |-> w.root.PBA, Gen |-> gen, Hash |-> w.entries]]
  BY <1>2, <1>8 DEF Root_Written, Update_Parent
<1>10. /\ r.root = [PBA |-> w.root.PBA, Gen |-> gen, Hash |-> w.entries]
       /\ r.blocks = [w.blocks EXCEPT ![w.root.PBA] = w.entries]
  BY <1>9, <1>8 DEF Meta_State
<1>11. Meta_Root_OK(r.root)
  BY <1>8, <1>10 DEF Meta_Root_OK, Meta_Inv, T1_Root
<1>12. Root_Use(Meta_Degree, r.root, r.new_pba) = Meta_Use(w, old_pba)
  BY <1>7, <1>8, <1>10 DEF Root_Use, Meta_Use, Asked
<1>13. w.root.PBA \in used
  <2>1. /\ Meta_Use(w, old_pba)[Root_Place] = w.root.PBA
        /\ DOMAIN Meta_Use(w, old_pba) = T2_Place
    BY T2UseTop DEF Meta_Use
  <2>2. used = Blocks(Meta_Use(w, old_pba)) /\ w.root.PBA # 0
    BY <1>8 DEF Meta_Inv, T1_Root
  <2> QED BY <2>1, <2>2, T2Places DEF Blocks
<1>14. DOMAIN r.blocks = DOMAIN blks /\ \A p \in DOMAIN blks \ used : r.blocks[p] = blks[p]
  BY <1>8, <1>10, <1>13 DEF Meta_Inv
<1>15. Inj(Root_Use(Meta_Degree, r.root, r.new_pba)) /\ Blocks(Root_Use(Meta_Degree, r.root, r.new_pba)) = used
  BY <1>12, <1>8 DEF Meta_Inv
<1> QED BY <1>11, <1>14, <1>15 DEF used

-----------------------------------------------------------------------------
(***************************************************************************)
(* The free tree.                                                          *)
(***************************************************************************)

(* All places: those of the virtual block device, a level and an index,    *)
(* those of the free tree, and those of the meta tree.                     *)
V_Place == Int \X Int
Place   == ({"VBD"} \X V_Place) \cup ({"Free"} \X T2_Place) \cup ({"Meta"} \X T2_Place)
VBD_Place(p)  == <<"VBD", p>>
Free_Place(p) == <<"Free", p>>
Meta_Place(p) == <<"Meta", p>>

All_Use(v, f, m) ==
  [p \in Place |-> IF p[1] = "VBD" THEN v[p[2]] ELSE IF p[1] = "Free" THEN f[p[2]] ELSE m[p[2]]]


(* The places differ from each other.                                      *)
LEMMA Places ==
  /\ \A p \in V_Place : VBD_Place(p) \in Place
  /\ \A p \in T2_Place : Free_Place(p) \in Place /\ Meta_Place(p) \in Place
  /\ \A p, q : VBD_Place(p) # Free_Place(q) /\ VBD_Place(p) # Meta_Place(q)
               /\ Free_Place(p) # Meta_Place(q)
  /\ \A p, q : VBD_Place(p) = VBD_Place(q) => p = q
  /\ \A p, q : Free_Place(p) = Free_Place(q) => p = q
  /\ \A p, q : Meta_Place(p) = Meta_Place(q) => p = q
  /\ \A p \in Place : \/ \E q \in V_Place : p = VBD_Place(q)
                      \/ \E q \in T2_Place : p = Free_Place(q)
                      \/ \E q \in T2_Place : p = Meta_Place(q)
<1>1. /\ \A p \in V_Place : VBD_Place(p) \in Place
      /\ \A p \in T2_Place : Free_Place(p) \in Place /\ Meta_Place(p) \in Place
  BY DEF Place, VBD_Place, Free_Place, Meta_Place
<1>2. /\ \A p, q : VBD_Place(p) # Free_Place(q) /\ VBD_Place(p) # Meta_Place(q)
                   /\ Free_Place(p) # Meta_Place(q)
      /\ \A p, q : VBD_Place(p) = VBD_Place(q) => p = q
      /\ \A p, q : Free_Place(p) = Free_Place(q) => p = q
      /\ \A p, q : Meta_Place(p) = Meta_Place(q) => p = q
  BY DEF VBD_Place, Free_Place, Meta_Place
<1>3. \A p \in Place : \/ \E q \in V_Place : p = VBD_Place(q)
                       \/ \E q \in T2_Place : p = Free_Place(q)
                       \/ \E q \in T2_Place : p = Meta_Place(q)
  BY DEF Place, VBD_Place, Free_Place, Meta_Place
<1> QED BY <1>1, <1>2, <1>3

(* What all places are used for.                                           *)
LEMMA AllUse ==
  ASSUME NEW v, NEW f, NEW m
  PROVE  /\ DOMAIN All_Use(v, f, m) = Place
         /\ \A p \in V_Place : All_Use(v, f, m)[VBD_Place(p)] = v[p]
         /\ \A p \in T2_Place : /\ All_Use(v, f, m)[Free_Place(p)] = f[p]
                                /\ All_Use(v, f, m)[Meta_Place(p)] = m[p]
<1>1. /\ \A p \in V_Place : VBD_Place(p) \in Place /\ VBD_Place(p)[1] = "VBD" /\ VBD_Place(p)[2] = p
      /\ \A p \in T2_Place : /\ Free_Place(p) \in Place /\ Free_Place(p)[1] = "Free" /\ Free_Place(p)[2] = p
                             /\ Meta_Place(p) \in Place /\ Meta_Place(p)[1] = "Meta" /\ Meta_Place(p)[2] = p
  <2>1. \A p : /\ VBD_Place(p)[1] = "VBD" /\ VBD_Place(p)[2] = p
               /\ Free_Place(p)[1] = "Free" /\ Free_Place(p)[2] = p
               /\ Meta_Place(p)[1] = "Meta" /\ Meta_Place(p)[2] = p
    BY DEF VBD_Place, Free_Place, Meta_Place
  <2> QED BY <2>1, Places
<1> QED BY <1>1 DEF All_Use

(* A part of a use of which each block is used once.                       *)
LEMMA PartInj ==
  ASSUME NEW g, NEW f, NEW h, Inj(g),
         \A x \in DOMAIN f : h[x] \in DOMAIN g /\ f[x] = g[h[x]],
         \A x, y \in DOMAIN f : h[x] = h[y] => x = y
  PROVE  Inj(f)
  BY DEF Inj

(* Exchanging within a part keeps the whole.                               *)
LEMMA Embedded ==
  ASSUME NEW g, NEW g2, NEW f, NEW f2, NEW h, DOMAIN g2 = DOMAIN g, DOMAIN f2 = DOMAIN f,
         \A x \in DOMAIN f : h[x] \in DOMAIN g /\ f[x] = g[h[x]] /\ f2[x] = g2[h[x]],
         \A x, y \in DOMAIN f : h[x] = h[y] => x = y,
         \A p \in DOMAIN g : (\A x \in DOMAIN f : p # h[x]) => g2[p] = g[p],
         Inj(g), Inj(f2), Blocks(f2) = Blocks(f)
  PROVE  Inj(g2) /\ Blocks(g2) = Blocks(g)
<1> DEFINE In(p) == \E x \in DOMAIN f : p = h[x]
<1>1. \A p \in DOMAIN g : In(p) /\ g2[p] # 0 => \E q \in DOMAIN g : In(q) /\ g[q] = g2[p]
  <2> TAKE p \in DOMAIN g
  <2> HAVE In(p) /\ g2[p] # 0
  <2>1. PICK x \in DOMAIN f : p = h[x]
    OBVIOUS
  <2>2. g2[p] \in Blocks(f)
    <3>1. g2[p] = f2[x] /\ x \in DOMAIN f2
      BY <2>1
    <3>2. g2[p] \in Blocks(f2)
      BY <3>1 DEF Blocks
    <3> QED BY <3>2
  <2>3. PICK y \in DOMAIN f : f[y] = g2[p]
    BY <2>2 DEF Blocks
  <2> QED BY <2>3
<1>2. \A p \in DOMAIN g : In(p) /\ g[p] # 0 => \E q \in DOMAIN g : In(q) /\ g2[q] = g[p]
  <2> TAKE p \in DOMAIN g
  <2> HAVE In(p) /\ g[p] # 0
  <2>1. PICK x \in DOMAIN f : p = h[x]
    OBVIOUS
  <2>2. g[p] \in Blocks(f2)
    <3>1. g[p] = f[x]
      BY <2>1
    <3>2. g[p] \in Blocks(f)
      BY <3>1 DEF Blocks
    <3> QED BY <3>2
  <2>3. PICK y \in DOMAIN f : f2[y] = g[p]
    BY <2>2 DEF Blocks
  <2> QED BY <2>3
<1>3. ASSUME NEW p \in DOMAIN g, NEW q \in DOMAIN g, g2[p] = g2[q], g2[p] # 0, In(p), In(q)
      PROVE  p = q
  BY <1>3 DEF Inj
<1>4. \A p \in DOMAIN g : ~In(p) => g2[p] = g[p]
  OBVIOUS
<1> HIDE DEF In
<1>5. ASSUME NEW p \in DOMAIN g, NEW q \in DOMAIN g, g2[p] = g2[q], g2[p] # 0, In(p), ~In(q)
      PROVE  FALSE
  BY <1>5, <1>1, <1>4 DEF Inj
<1>6. ASSUME NEW p \in DOMAIN g, NEW q \in DOMAIN g, g2[p] = g2[q], g2[p] # 0, ~In(p), ~In(q)
      PROVE  p = q
  BY <1>6, <1>4 DEF Inj
<1>7. Inj(g2)
  <2>1. ASSUME NEW p \in DOMAIN g, NEW q \in DOMAIN g, g2[p] = g2[q], g2[p] # 0 PROVE p = q
    BY <2>1, <1>3, <1>5, <1>6
  <2> QED BY <2>1 DEF Inj
<1>8. \A p \in DOMAIN g : g2[p] # 0 => g2[p] \in Blocks(g)
  BY <1>1, <1>4 DEF Blocks
<1>9. \A p \in DOMAIN g : g[p] # 0 => g[p] \in Blocks(g2)
  BY <1>2, <1>4 DEF Blocks
<1>10. Blocks(g2) = Blocks(g)
  BY <1>8, <1>9 DEF Blocks
<1> QED BY <1>7, <1>10

(* The use of all blocks when the meta tree has the root "meta".           *)
Meta_Part(g, meta) ==
  \A p \in T2_Place : g[Meta_Place(p)] = Root_Use(Meta_Degree, meta, 0)[p]

(* A node of the free tree is written to its own block or exchanges it     *)
(* with the meta tree; "q" is its place, "g2" the use thereafter.          *)
LEMMA BlockForNode ==
  ASSUME Meta_Degree \in Nat, NEW s, NEW node, NEW gen, NEW g, DOMAIN g = Place, Inj(g),
         Meta_Root_OK(s.meta), Meta_Part(g, s.meta),
         NEW q \in T2_Place, g[Free_Place(q)] = node.PBA, node.PBA # 0,
         NEW inner, node.PBA \in inner,
         \A p \in T2_Place : g[Meta_Place(p)] \in inner \cup {0},
         NEW mt, mt = Block_For_Node(s, node, gen), ~mt.mismatch, mt.new_pba # 0,
         NEW g2, DOMAIN g2 = Place, Meta_Part(g2, mt.root), g2[Free_Place(q)] = mt.new_pba,
         \A p \in V_Place : g2[VBD_Place(p)] = g[VBD_Place(p)],
         \A p \in T2_Place \ {q} : g2[Free_Place(p)] = g[Free_Place(p)]
  PROVE  /\ Meta_Root_OK(mt.root)
         /\ Inj(g2) /\ Blocks(g2) = Blocks(g)
         /\ mt.new_pba \in inner
         /\ \A p \in T2_Place : g2[Meta_Place(p)] \in inner \cup {0}
         /\ DOMAIN mt.blocks = DOMAIN s.blocks
         /\ \A p \in DOMAIN s.blocks \ inner : mt.blocks[p] = s.blocks[p]
<1>1. CASE Node_Volatile_In_FT(node, gen)
  <2>1. mt.blocks = s.blocks /\ mt.root = s.meta /\ mt.new_pba = node.PBA
    BY <1>1 DEF Block_For_Node
  <2>2. \A p \in Place : g2[p] = g[p]
    <3> TAKE p \in Place
    <3>1. CASE \E x \in V_Place : p = VBD_Place(x)
      BY <3>1
    <3>2. CASE \E x \in T2_Place : p = Free_Place(x)
      BY <3>2, <2>1
    <3>3. CASE \E x \in T2_Place : p = Meta_Place(x)
      BY <3>3, <2>1 DEF Meta_Part
    <3> QED BY <3>1, <3>2, <3>3, Places
  <2>3. Inj(g2)
    BY <2>2 DEF Inj
  <2>4. Blocks(g2) = Blocks(g)
    BY <2>2 DEF Blocks
  <2>5. \A p \in T2_Place : Meta_Place(p) \in Place
    BY Places
  <2> QED BY <2>1, <2>2, <2>3, <2>4, <2>5
<1>2. CASE ~Node_Volatile_In_FT(node, gen)
  <2> DEFINE f  == Root_Use(Meta_Degree, s.meta, node.PBA)
             f2 == Root_Use(Meta_Degree, mt.root, mt.new_pba)
             h  == [p \in T2_Place |-> IF p = Caller_Place THEN Free_Place(q) ELSE Meta_Place(p)]
  <2>1. mt = Meta_Tree_Alloc(s.blocks, s.meta, node.PBA, gen)
    BY <1>2 DEF Block_For_Node
  <2>2. DOMAIN f = T2_Place /\ DOMAIN f2 = T2_Place
    BY T2UseTop DEF Root_Use
  <2>3. \A root, c : \A p \in T2_Place :
          /\ p # Caller_Place => Root_Use(Meta_Degree, root, c)[p] = Root_Use(Meta_Degree, root, 0)[p]
          /\ Root_Use(Meta_Degree, root, c)[Caller_Place] = c
    BY T2Places DEF Root_Use, T2_Use
  <2>4. \A x \in T2_Place : h[x] \in Place /\ f[x] = g[h[x]] /\ f2[x] = g2[h[x]]
    <3> TAKE x \in T2_Place
    <3>1. CASE x = Caller_Place
      <4>1. f[x] = node.PBA /\ f2[x] = mt.new_pba
        BY <3>1, <2>3
      <4>2. h[x] = Free_Place(q)
        BY <3>1
      <4> QED BY <4>1, <4>2, Places
    <3>2. CASE x # Caller_Place
      <4>1. f[x] = g[Meta_Place(x)] /\ f2[x] = g2[Meta_Place(x)]
        BY <3>2, <2>3 DEF Meta_Part
      <4>2. h[x] = Meta_Place(x)
        BY <3>2
      <4> QED BY <4>1, <4>2, Places
    <3> QED BY <3>1, <3>2
  <2>5. \A x, y \in T2_Place : h[x] = h[y] => x = y
    BY Places
  <2>6. \A p \in Place : (\A x \in T2_Place : p # h[x]) => g2[p] = g[p]
    <3> SUFFICES ASSUME NEW p \in Place, \A x \in T2_Place : p # h[x] PROVE g2[p] = g[p]
      OBVIOUS
    <3>1. p # Free_Place(q)
      BY T2Places
    <3>2. \A x \in T2_Place : x # Caller_Place => p # Meta_Place(x)
      OBVIOUS
    <3>3. g2[Meta_Place(Caller_Place)] = g[Meta_Place(Caller_Place)]
      BY <2>3, T2Places DEF Meta_Part
    <3> QED BY <3>1, <3>2, <3>3, Places
  <2> HIDE DEF f, f2, h
  <2>7. Inj(f)
    BY <2>2, <2>4, <2>5, PartInj
  <2>8. /\ Meta_Root_OK(mt.root)
        /\ Inj(f2) /\ Blocks(f2) = Blocks(f)
        /\ DOMAIN mt.blocks = DOMAIN s.blocks
        /\ \A p \in DOMAIN s.blocks \ Blocks(f) : mt.blocks[p] = s.blocks[p]
    BY <2>1, <2>7, MetaTreeAlloc DEF f, f2
  <2>9. Inj(g2) /\ Blocks(g2) = Blocks(g)
    <3>1. DOMAIN g2 = DOMAIN g /\ DOMAIN f2 = DOMAIN f
      BY <2>2
    <3>2. \A x \in DOMAIN f : h[x] \in DOMAIN g /\ f[x] = g[h[x]] /\ f2[x] = g2[h[x]]
      BY <2>2, <2>4
    <3>3. \A x, y \in DOMAIN f : h[x] = h[y] => x = y
      BY <2>2, <2>5
    <3>4. \A p \in DOMAIN g : (\A x \in DOMAIN f : p # h[x]) => g2[p] = g[p]
      BY <2>2, <2>6
    <3>5. Inj(g) /\ Inj(f2) /\ Blocks(f2) = Blocks(f)
      BY <2>8
    <3> QED BY ONLY <3>1, <3>2, <3>3, <3>4, <3>5, Embedded
  <2>10. Blocks(f) \subseteq inner
    <3> SUFFICES ASSUME NEW x \in T2_Place, f[x] # 0 PROVE f[x] \in inner
      BY <2>2 DEF Blocks
    <3>1. CASE x = Caller_Place
      BY <3>1, <2>4 DEF h
    <3>2. CASE x # Caller_Place
      BY <3>2, <2>4 DEF h
    <3> QED BY <3>1, <3>2
  <2>11. \A x \in T2_Place : f2[x] \in inner \cup {0}
    BY <2>2, <2>8, <2>10 DEF Blocks
  <2>12. mt.new_pba \in inner
    <3>1. f2[Caller_Place] = mt.new_pba
      BY <2>3, T2Places DEF f2
    <3> QED BY <3>1, <2>11, T2Places
  <2>13. \A p \in T2_Place : g2[Meta_Place(p)] \in inner \cup {0}
    <3> TAKE p \in T2_Place
    <3>1. CASE p # Caller_Place
      <4>1. g2[Meta_Place(p)] = f2[p]
        BY <3>1, <2>4 DEF h
      <4> QED BY <4>1, <2>11
    <3>2. CASE p = Caller_Place
      <4>1. g2[Meta_Place(p)] = 0
        BY <3>2, <2>3 DEF Meta_Part
      <4> QED BY <4>1
    <3> QED BY <3>1, <3>2
  <2> QED BY <2>8, <2>9, <2>10, <2>12, <2>13
<1> QED BY <1>1, <1>2

(* The use by the virtual block device when the nodes on the way to an     *)
(* address, at the places "at", have got the blocks "new" so far.          *)
V_Use(v, at, new) ==
  [p \in V_Place |-> IF \E l \in Level : p = at[l] /\ new[l] # 0
                     THEN new[CHOOSE l \in Level : p = at[l]] ELSE v[p]]

(* Blocks for old generations are not for the current tree.                *)
Taken(req, new) == IF req.Tag = "Rkg_Old_Gen_Blks" THEN [l \in Level |-> 0] ELSE new

Way(at) == \A l \in Level : at[l] \in V_Place /\ \A k \in Level : at[k] = at[l] => k = l

Free_Use(s, free, v, at, req) ==
  All_Use(V_Use(v, at, Taken(req, s.new)), T2_Use(Free_Degree, free.PBA, s.entries, 0),
          Root_Use(Meta_Degree, s.meta, 0))

(* A request: the old nodes are those at the places "at", unless they are  *)
(* nodes of an older snapshot.                                             *)
Request_For(req, v, at) ==
  /\ Way(at)
  /\ req.Tag \in {"Pool_VBD", "Rkg_Curr_Gen_Blks", "Rkg_Old_Gen_Blks"}
  /\ req.Tag # "Rkg_Old_Gen_Blks" => \A l \in Level : req.Old_Blocks[l].PBA = v[at[l]]

(* The state of a request to the free tree, for which no error was found.  *)
Free_State(s) == DOMAIN s = {"blocks", "node", "meta", "entries", "new", "error"}

Free_Inv(s, free, v, at, req, blks, used, inner) ==
  /\ T2_Entries(Free_Degree, s.entries)
  /\ Meta_Root_OK(s.meta)
  /\ DOMAIN s.new = Level
  /\ Inj(Free_Use(s, free, v, at, req)) /\ Blocks(Free_Use(s, free, v, at, req)) = used
  /\ \A p \in T2_Place : Root_Use(Meta_Degree, s.meta, 0)[p] \in inner \cup {0}
  /\ \A i \in 0 .. Free_Degree - 1 : s.entries[i].PBA \in inner \cup {0}
  /\ DOMAIN s.blocks = DOMAIN blks
  /\ \A p \in DOMAIN blks \ inner : s.blocks[p] = blks[p]

(* What the places of the virtual block device are used for.               *)
LEMMA VUseAt ==
  ASSUME NEW v, NEW at, NEW new, Way(at)
  PROVE  /\ DOMAIN V_Use(v, at, new) = V_Place
         /\ \A l \in Level : /\ new[l] # 0 => V_Use(v, at, new)[at[l]] = new[l]
                             /\ new[l] = 0 => V_Use(v, at, new)[at[l]] = v[at[l]]
         /\ \A p \in V_Place : (\A l \in Level : p # at[l]) => V_Use(v, at, new)[p] = v[p]
<1>1. \A l \in Level : at[l] \in V_Place /\ (CHOOSE k \in Level : at[l] = at[k]) = l
  BY DEF Way
<1>2. ASSUME NEW l \in Level PROVE /\ new[l] # 0 => V_Use(v, at, new)[at[l]] = new[l]
                                   /\ new[l] = 0 => V_Use(v, at, new)[at[l]] = v[at[l]]
  <2>1. (\E k \in Level : at[l] = at[k] /\ new[k] # 0) <=> new[l] # 0
    BY DEF Way
  <2> QED BY <1>1, <2>1 DEF V_Use
<1> QED BY <1>2 DEF V_Use

(* Which entry serves which level is told by their turn.                   *)
LEMMA Type2LeafTurns ==
  ASSUME Free_Degree \in Nat, Max_Level \in Nat, NEW s, NEW entries, NEW snapshots,
         NEW gen, NEW req
  PROVE  LET turns == Type_2_Leaf_Turns(s, entries, snapshots, gen, req)
         IN /\ Matching(turns)
            /\ \A t \in turns : t = <<t[1], t[2]>>
            /\ \A l \in Served(turns) : l \in Level /\ s.new[l] = 0
            /\ \A j \in Serving(turns) : j \in 0 .. Free_Degree - 1 /\ entries[j].PBA # 0
<1> DEFINE U == {j \in 0 .. Free_Degree - 1 :
                   Check_Type_2_Leaf_Usable(entries[j], snapshots, gen, req)}
           W == {l \in Level : s.new[l] = 0}
           M == Type_2_Leaf_Turns(s, entries, snapshots, gen, req)
<1>1. M = {t \in U \X W : Nr_After(t[1], U) = Nr_Before(t[2], W)}
  BY DEF Type_2_Leaf_Turns
<1>2. IsFiniteSet(U) /\ U \in SUBSET Int
  <2>1. IsFiniteSet(0 .. Free_Degree - 1)
    BY FS_Interval
  <2>2. U \subseteq 0 .. Free_Degree - 1
    OBVIOUS
  <2>3. IsFiniteSet(U)
    BY <2>1, <2>2, FS_Subset
  <2>4. 0 .. Free_Degree - 1 \subseteq Int
    OBVIOUS
  <2> QED BY <2>2, <2>3, <2>4
<1>3. IsFiniteSet(W) /\ W \in SUBSET Int
  <2>1. IsFiniteSet(Level)
    <3>1. 0 \in Int /\ Max_Level \in Int
      OBVIOUS
    <3> QED BY ONLY <3>1, FS_Interval DEF Level
  <2>2. W \subseteq Level
    OBVIOUS
  <2>3. IsFiniteSet(W)
    BY <2>1, <2>2, FS_Subset
  <2>4. Level \subseteq Int
    BY DEF Level
  <2> QED BY <2>2, <2>3, <2>4
<1>9. \A j \in U : j \in 0 .. Free_Degree - 1 /\ entries[j].PBA # 0
  BY DEF Check_Type_2_Leaf_Usable
<1>10. \A l \in W : l \in Level /\ s.new[l] = 0
  OBVIOUS
<1> HIDE DEF M, W, U
<1>4. ASSUME NEW t \in M, NEW u \in M PROVE t[1] = u[1] <=> t[2] = u[2]
  <2>1. /\ t[1] \in U /\ u[1] \in U /\ t[2] \in W /\ u[2] \in W
        /\ Nr_After(t[1], U) = Nr_Before(t[2], W) /\ Nr_After(u[1], U) = Nr_Before(u[2], W)
    BY <1>1
  <2>2. t[1] = u[1] => t[2] = u[2]
    BY <2>1, <1>3, Before
  <2>3. t[2] = u[2] => t[1] = u[1]
    BY <2>1, <1>2, After
  <2> QED BY <2>2, <2>3
<1>5. Matching(M)
  BY <1>4 DEF Matching
<1>6. \A w \in Served(M) : w \in W
  BY <1>1 DEF Served
<1>7. \A j \in Serving(M) : j \in U
  BY <1>1 DEF Serving
<1>8. \A t \in M : t = <<t[1], t[2]>>
  BY <1>1
<1> QED BY <1>5, <1>6, <1>7, <1>8, <1>9, <1>10 DEF M

(* The block that an exchanged entry has.                                  *)
LEMMA ExchangedLeaf ==
  ASSUME NEW entry, NEW l, NEW req, "PBA" \in DOMAIN entry,
         req.Tag \in {"Pool_VBD", "Rkg_Curr_Gen_Blks", "Rkg_Old_Gen_Blks"}
  PROVE  /\ "PBA" \in DOMAIN Exchange_Type_2_Leaf(entry, l, req)
         /\ req.Tag = "Rkg_Old_Gen_Blks" => Exchange_Type_2_Leaf(entry, l, req).PBA = entry.PBA
         /\ req.Tag # "Rkg_Old_Gen_Blks" =>
              Exchange_Type_2_Leaf(entry, l, req).PBA = req.Old_Blocks[l].PBA
<1>1. DOMAIN Given_Back(entry, l, req) = DOMAIN entry /\ Given_Back(entry, l, req).PBA = req.Old_Blocks[l].PBA
  BY DEF Given_Back
<1>2. CASE req.Tag = "Pool_VBD"
  BY <1>1, <1>2 DEF Exchange_Type_2_Leaf
<1>3. CASE req.Tag = "Rkg_Curr_Gen_Blks"
  BY <1>1, <1>3 DEF Exchange_Type_2_Leaf
<1>4. CASE req.Tag = "Rkg_Old_Gen_Blks"
  BY <1>1, <1>4 DEF Exchange_Type_2_Leaf
<1> QED BY <1>2, <1>3, <1>4

(* The entries of a leaf node give their blocks to the levels they serve,  *)
(* and get those of the old nodes.                                         *)
LEMMA LeafsExchanged ==
  ASSUME Free_Degree \in Nat, NEW v, NEW at, NEW req, Request_For(req, v, at),
         req.Tag # "Rkg_Old_Gen_Blks", NEW turns, Matching(turns),
         \A t \in turns : t = <<t[1], t[2]>>,
         NEW i \in 0 .. Free_Degree - 1, NEW pba, NEW m, NEW e2, NEW e3, NEW new2, NEW new3,
         DOMAIN e2[i].Hash = 0 .. Free_Degree - 1,
         \A j \in Serving(turns) : j \in 0 .. Free_Degree - 1 /\ Leaf_PBA(e2, i, j) # 0,
         \A l \in Served(turns) : l \in Level /\ new2[l] = 0,
         e2[i].PBA # 0, e3[i].PBA = e2[i].PBA,
         \A k \in 0 .. Free_Degree - 1 : k # i => e3[k] = e2[k],
         \A j \in 0 .. Free_Degree - 1 : Leaf_PBA(e3, i, j) =
            IF j \in Serving(turns) THEN v[at[Taker(turns, j)]] ELSE Leaf_PBA(e2, i, j),
         \A l \in Level : new3[l] =
            IF l \in Served(turns) THEN Leaf_PBA(e2, i, Server(turns, l)) ELSE new2[l],
         NEW g2, g2 = All_Use(V_Use(v, at, new2), T2_Use(Free_Degree, pba, e2, 0), m),
         NEW g3, g3 = All_Use(V_Use(v, at, new3), T2_Use(Free_Degree, pba, e3, 0), m)
  PROVE  (Inj(g2) => Inj(g3)) /\ Blocks(g3) = Blocks(g2)
<1> DEFINE d       == Free_Degree
           Old(l)  == VBD_Place(at[l])
           Leaf_(j) == Free_Place(Leaf_Place(i, j))
           pi == [p \in Place |->
                    IF \E l \in Served(turns) : p = Old(l)
                    THEN Leaf_(Server(turns, CHOOSE l \in Served(turns) : p = Old(l)))
                    ELSE IF \E j \in Serving(turns) : p = Leaf_(j)
                    THEN Old(Taker(turns, CHOOSE j \in Serving(turns) : p = Leaf_(j)))
                    ELSE p]
<1>1. Way(at) /\ \A l \in Level : req.Old_Blocks[l].PBA = v[at[l]]
  BY DEF Request_For
<1>2. /\ \A l \in Served(turns) : /\ Server(turns, l) \in Serving(turns)
                                  /\ Taker(turns, Server(turns, l)) = l
      /\ \A j \in Serving(turns) : /\ Taker(turns, j) \in Served(turns)
                                   /\ Server(turns, Taker(turns, j)) = j
  BY ONLY Matching(turns), \A t \in turns : t = <<t[1], t[2]>>, Partners
<1>3. i \in Nat /\ \A j \in 0 .. d - 1 : j \in Nat
  OBVIOUS
<1>4. \A l \in Level : /\ Old(l) \in Place /\ at[l] \in V_Place
                       /\ \A k \in Level : Old(l) = Old(k) => l = k
                       /\ \A j : Old(l) # Leaf_(j)
  <2> TAKE l \in Level
  <2>1. at[l] \in V_Place /\ \A k \in Level : at[k] = at[l] => k = l
    BY <1>1 DEF Way
  <2>2. Old(l) \in Place /\ \A k \in Level : Old(l) = Old(k) => l = k
    BY ONLY <2>1, Places
  <2>3. \A j : Old(l) # Leaf_(j)
    BY ONLY Places
  <2> QED BY <2>1, <2>2, <2>3
<1>5. \A j \in 0 .. d - 1 : /\ Leaf_(j) \in Place /\ Leaf_Place(i, j) \in T2_Place
                            /\ \A k \in 0 .. d - 1 : Leaf_(j) = Leaf_(k) => j = k
  <2> TAKE j \in 0 .. d - 1
  <2>1. Leaf_Place(i, j) \in T2_Place
    BY <1>3, T2Places
  <2>2. ASSUME NEW k \in 0 .. d - 1, Leaf_(j) = Leaf_(k) PROVE j = k
    <3>1. Leaf_Place(i, j) = Leaf_Place(i, k)
      BY <2>2, Places
    <3> QED BY <3>1, <1>3, T2Places
  <2> QED BY <2>1, <2>2, Places
<1>10. /\ DOMAIN g2 = Place /\ DOMAIN g3 = Place
       /\ \A p \in V_Place : /\ g2[VBD_Place(p)] = V_Use(v, at, new2)[p]
                             /\ g3[VBD_Place(p)] = V_Use(v, at, new3)[p]
       /\ \A p \in T2_Place : /\ g2[Free_Place(p)] = T2_Use(d, pba, e2, 0)[p]
                              /\ g3[Free_Place(p)] = T2_Use(d, pba, e3, 0)[p]
                              /\ g2[Meta_Place(p)] = m[p] /\ g3[Meta_Place(p)] = m[p]
  BY AllUse
<1>11. \A l \in Level : /\ g2[Old(l)] = V_Use(v, at, new2)[at[l]]
                        /\ g3[Old(l)] = V_Use(v, at, new3)[at[l]]
  BY <1>10, <1>4
<1>12. \A j \in 0 .. d - 1 : g2[Leaf_(j)] = Leaf_PBA(e2, i, j) /\ g3[Leaf_(j)] = Leaf_PBA(e3, i, j)
  <2> TAKE j \in 0 .. d - 1
  <2>1. T2_Use(d, pba, e2, 0)[Leaf_Place(i, j)] = Leaf_PBA(e2, i, j)
    BY T2UseLeaf
  <2>2. T2_Use(d, pba, e3, 0)[Leaf_Place(i, j)] = Leaf_PBA(e3, i, j)
    <3>1. e3[i].PBA # 0
      OBVIOUS
    <3>2. d \in Nat /\ i \in 0 .. d - 1 /\ j \in 0 .. d - 1
      OBVIOUS
    <3> HIDE DEF d
    <3> QED BY ONLY <3>1, <3>2, T2UseLeaf
  <2> QED BY <2>1, <2>2, <1>10, <1>5
<1> HIDE DEF Old, Leaf_
<1>13. \A l \in Served(turns) : /\ g2[Old(l)] = v[at[l]]
                                /\ g3[Old(l)] = Leaf_PBA(e2, i, Server(turns, l))
  <2> TAKE l \in Served(turns)
  <2>1. l \in Level /\ new2[l] = 0 /\ new3[l] = Leaf_PBA(e2, i, Server(turns, l)) /\ new3[l] # 0
    BY <1>2
  <2> QED BY <2>1, <1>1, <1>11, VUseAt
<1>14. \A l \in Served(turns) : pi[Old(l)] = Leaf_(Server(turns, l))
  BY <1>4
<1>15. \A j \in Serving(turns) : pi[Leaf_(j)] = Old(Taker(turns, j))
  <2> TAKE j \in Serving(turns)
  <2>1. Leaf_(j) \in Place /\ ~\E l \in Served(turns) : Leaf_(j) = Old(l)
    BY <1>4, <1>5
  <2>2. \A k \in Serving(turns) : Leaf_(j) = Leaf_(k) => k = j
    BY <1>5
  <2>3. (CHOOSE k \in Serving(turns) : Leaf_(j) = Leaf_(k)) = j
    BY <2>2
  <2> QED BY <2>1, <2>3
<1>16. \A p \in Place : \/ \E l \in Served(turns) : p = Old(l)
                        \/ \E j \in Serving(turns) : p = Leaf_(j)
                        \/ /\ pi[p] = p
                           /\ \A l \in Served(turns) : p # Old(l)
                           /\ \A j \in Serving(turns) : p # Leaf_(j)
  OBVIOUS
<1> HIDE DEF pi
<1>17. ASSUME NEW p \in Place PROVE pi[p] \in Place /\ pi[pi[p]] = p /\ g3[p] = g2[pi[p]]
  <2>1. ASSUME NEW l \in Served(turns), p = Old(l) PROVE pi[p] \in Place /\ pi[pi[p]] = p /\ g3[p] = g2[pi[p]]
    <3>1. pi[p] = Leaf_(Server(turns, l)) /\ Server(turns, l) \in Serving(turns)
      BY <2>1, <1>2, <1>14
    <3>2. Server(turns, l) \in 0 .. d - 1 /\ Taker(turns, Server(turns, l)) = l
      BY <3>1, <1>2
    <3> QED BY <2>1, <3>1, <3>2, <1>5, <1>12, <1>13, <1>15
  <2>2. ASSUME NEW j \in Serving(turns), p = Leaf_(j) PROVE pi[p] \in Place /\ pi[pi[p]] = p /\ g3[p] = g2[pi[p]]
    <3>1. pi[p] = Old(Taker(turns, j)) /\ Taker(turns, j) \in Served(turns)
      BY <2>2, <1>2, <1>15
    <3>2. Taker(turns, j) \in Level /\ Server(turns, Taker(turns, j)) = j
      BY <3>1, <1>2
    <3> QED BY <2>2, <3>1, <3>2, <1>4, <1>12, <1>13, <1>14
  <2>3. CASE /\ pi[p] = p
             /\ \A l \in Served(turns) : p # Old(l)
             /\ \A j \in Serving(turns) : p # Leaf_(j)
    <3>1. ASSUME NEW q \in V_Place, p = VBD_Place(q) PROVE g3[p] = g2[p]
      <4>1. CASE \E l \in Level : q = at[l]
        <5>1. PICK l \in Level : q = at[l]
          BY <4>1
        <5>2. l \notin Served(turns) /\ new3[l] = new2[l]
          BY <5>1, <2>3, <3>1 DEF Old
        <5> QED BY <5>1, <5>2, <3>1, <1>1, <1>10, VUseAt
      <4>2. CASE ~\E l \in Level : q = at[l]
        BY <4>2, <3>1, <1>1, <1>10, VUseAt
      <4> QED BY <4>1, <4>2
    <3>2. ASSUME NEW q \in T2_Place, p = Free_Place(q) PROVE g3[p] = g2[p]
      <4>1. CASE q = Root_Place \/ q = Caller_Place
        BY <4>1, <3>2, <1>10, T2UseTop
      <4>2. CASE q = Node_Place(i)
        BY <4>2, <3>2, <1>10, T2UseNode
      <4>3. CASE \E j \in 0 .. d - 1 : q = Leaf_Place(i, j)
        <5>1. PICK j \in 0 .. d - 1 : q = Leaf_Place(i, j)
          BY <4>3
        <5>2. p = Leaf_(j) /\ j \notin Serving(turns)
          BY <5>1, <3>2, <2>3 DEF Leaf_
        <5> QED BY <5>2, <1>12
      <4>4. CASE /\ q # Root_Place /\ q # Caller_Place /\ q # Node_Place(i)
                 /\ \A j \in 0 .. d - 1 : q # Leaf_Place(i, j)
        <5>1. T2_Use(d, pba, e3, 0)[q] = T2_Use(d, pba, e2, 0)[q]
          BY <4>4, T2UseSame
        <5> QED BY <5>1, <3>2, <1>10
      <4> QED BY <4>1, <4>2, <4>3, <4>4
    <3>3. ASSUME NEW q \in T2_Place, p = Meta_Place(q) PROVE g3[p] = g2[p]
      BY <3>3, <1>10
    <3>4. g3[p] = g2[p]
      BY <3>1, <3>2, <3>3, Places
    <3> QED BY <3>4, <2>3
  <2> QED BY <2>1, <2>2, <2>3, <1>16
<1>18. DOMAIN g3 = DOMAIN g2 /\ DOMAIN g2 = Place
  BY <1>10
<1> QED BY ONLY <1>17, <1>18, Exchange

(* The exchange at a node of the free tree keeps each block in use once.   *)
LEMMA Type2LeafsExchanged ==
  ASSUME Meta_Degree \in Nat, Free_Degree \in Nat, Max_Level \in Nat,
         NEW s, NEW free, NEW v, NEW at, NEW req, NEW blks, NEW used, NEW inner,
         Request_For(req, v, at), Free_State(s), s.error = "none",
         Free_Inv(s, free, v, at, req, blks, used, inner),
         NEW i \in 0 .. Free_Degree - 1, s.entries[i].PBA # 0,
         NEW entries, entries = s.entries[i].Hash, NEW snapshots, NEW gen,
         NEW turns, turns = Type_2_Leaf_Turns(s, entries, snapshots, gen, req),
         NEW r, r = Exchange_Type_2_Leafs(s, i, entries, turns, req)
  PROVE  Free_State(r) /\ (r.error = "none" => Free_Inv(r, free, v, at, req, blks, used, inner))
<1> DEFINE d   == Free_Degree
           new == [j \in DOMAIN entries |->
                     IF j \in Serving(turns)
                     THEN Exchange_Type_2_Leaf(entries[j], Taker(turns, j), req) ELSE entries[j]]
           new3 == [l \in Level |-> IF l \in Served(turns)
                                    THEN entries[Server(turns, l)].PBA ELSE s.new[l]]
           mt  == Block_For_Node(s, s.entries[i], req.Gen)
           w   == Node_Written(s, mt, req.Gen, new)
<1>1. r = [w EXCEPT !.entries[i] = w.node,
                    !.new = [l \in Level |-> IF l \in Served(turns)
                                             THEN entries[Server(turns, l)].PBA ELSE @[l]]]
  BY DEF Exchange_Type_2_Leafs
<1> HIDE DEF mt, new
<1>2. CASE mt.mismatch \/ mt.new_pba = 0
  <2>1. DOMAIN w = DOMAIN s /\ w.error \in {"hash", "meta_tree_full"}
    BY <1>2 DEF Node_Written, Free_State
  <2> HIDE DEF w
  <2>2. DOMAIN r = DOMAIN w /\ r.error = w.error
    BY <1>1, <2>1 DEF Free_State
  <2> QED BY <2>1, <2>2 DEF Free_State
<1>3. CASE ~mt.mismatch /\ mt.new_pba # 0
  <2>1. w = [s EXCEPT !.blocks = [mt.blocks EXCEPT ![mt.new_pba] = new],
                      !.meta = mt.root, !.node = Update_Parent(mt.new_pba, req.Gen, new)]
    BY <1>3 DEF Node_Written
  <2>2. /\ DOMAIN w = DOMAIN s /\ w.error = "none" /\ w.entries = s.entries /\ w.new = s.new
        /\ w.blocks = [mt.blocks EXCEPT ![mt.new_pba] = new] /\ w.meta = mt.root
        /\ w.node = Update_Parent(mt.new_pba, req.Gen, new)
    BY <2>1 DEF Free_State
  <2> HIDE DEF w, new3
  <2>3. /\ DOMAIN r = DOMAIN s /\ r.error = "none" /\ r.new = new3
        /\ r.entries = [s.entries EXCEPT ![i] = Update_Parent(mt.new_pba, req.Gen, new)]
        /\ r.blocks = [mt.blocks EXCEPT ![mt.new_pba] = new] /\ r.meta = mt.root
    BY <1>1, <2>2 DEF Free_State, new3
  <2>4. Free_State(r)
    BY <2>3 DEF Free_State
  <2> DEFINE e2 == [s.entries EXCEPT ![i] = Update_Parent(mt.new_pba, req.Gen, entries)]
             vv(n) == V_Use(v, at, Taken(req, n))
             f  == Free_Use(s, free, v, at, req)
             g2 == All_Use(vv(s.new), T2_Use(d, free.PBA, e2, 0), Root_Use(Meta_Degree, mt.root, 0))
             g3 == Free_Use(r, free, v, at, req)
  <2>5. /\ Matching(turns)
        /\ \A t \in turns : t = <<t[1], t[2]>>
        /\ \A l \in Served(turns) : l \in Level /\ s.new[l] = 0
        /\ \A j \in Serving(turns) : j \in 0 .. d - 1 /\ entries[j].PBA # 0
    BY Type2LeafTurns
  <2>6. /\ T2_Entries(d, s.entries) /\ Meta_Root_OK(s.meta) /\ DOMAIN s.new = Level
        /\ Inj(f) /\ Blocks(f) = used
        /\ \A p \in T2_Place : Root_Use(Meta_Degree, s.meta, 0)[p] \in inner \cup {0}
        /\ \A k \in 0 .. d - 1 : s.entries[k].PBA \in inner \cup {0}
        /\ DOMAIN s.blocks = DOMAIN blks
        /\ \A p \in DOMAIN blks \ inner : s.blocks[p] = blks[p]
    BY DEF Free_Inv
  <2>7. /\ DOMAIN s.entries = 0 .. d - 1 /\ DOMAIN entries = 0 .. d - 1
        /\ \A j \in 0 .. d - 1 : "PBA" \in DOMAIN entries[j]
    BY <2>6 DEF T2_Entries
  <2>8. /\ \A k \in 0 .. d - 1 : k # i => e2[k] = s.entries[k] /\ r.entries[k] = s.entries[k]
        /\ e2[i].PBA = mt.new_pba /\ e2[i].Hash = entries
        /\ r.entries[i].PBA = mt.new_pba /\ r.entries[i].Hash = new
        /\ DOMAIN r.entries = 0 .. d - 1
    BY <2>3, <2>7 DEF Update_Parent
  <2>9. /\ DOMAIN new = 0 .. d - 1
        /\ \A j \in 0 .. d - 1 :
             /\ "PBA" \in DOMAIN new[j]
             /\ new[j].PBA = IF j \in Serving(turns) /\ req.Tag # "Rkg_Old_Gen_Blks"
                             THEN req.Old_Blocks[Taker(turns, j)].PBA ELSE entries[j].PBA
    <3>1. req.Tag \in {"Pool_VBD", "Rkg_Curr_Gen_Blks", "Rkg_Old_Gen_Blks"}
      BY DEF Request_For
    <3>2. DOMAIN new = 0 .. d - 1 /\ \A j \in 0 .. d - 1 :
            new[j] = IF j \in Serving(turns)
                     THEN Exchange_Type_2_Leaf(entries[j], Taker(turns, j), req) ELSE entries[j]
      BY <2>7 DEF new
    <3> SUFFICES ASSUME NEW j \in 0 .. d - 1
                 PROVE  /\ "PBA" \in DOMAIN new[j]
                        /\ new[j].PBA = IF j \in Serving(turns) /\ req.Tag # "Rkg_Old_Gen_Blks"
                                        THEN req.Old_Blocks[Taker(turns, j)].PBA ELSE entries[j].PBA
      BY <3>2
    <3>3. CASE j \in Serving(turns)
      <4>1. new[j] = Exchange_Type_2_Leaf(entries[j], Taker(turns, j), req)
        BY <3>2, <3>3
      <4>2. "PBA" \in DOMAIN entries[j]
        BY <2>7
      <4> QED BY <3>1, <3>3, <4>1, <4>2, ExchangedLeaf
    <3>4. CASE j \notin Serving(turns)
      BY <3>2, <3>4, <2>7
    <3> QED BY <3>3, <3>4
  <2>10. T2_Entries(d, r.entries)
    <3>1. ASSUME NEW k \in 0 .. d - 1, r.entries[k].PBA # 0
          PROVE  /\ DOMAIN r.entries[k].Hash = 0 .. d - 1
                 /\ \A j \in 0 .. d - 1 : "PBA" \in DOMAIN r.entries[k].Hash[j]
      <4>1. CASE k = i
        <5>1. r.entries[k].Hash = new
          BY <4>1, <2>8
        <5> QED BY ONLY <5>1, <2>9
      <4>2. CASE k # i
        <5>1. r.entries[k] = s.entries[k]
          BY <4>2, <2>8
        <5>2. s.entries[k].PBA # 0 => /\ DOMAIN s.entries[k].Hash = 0 .. d - 1
                                      /\ \A j \in 0 .. d - 1 : "PBA" \in DOMAIN s.entries[k].Hash[j]
          BY <2>6 DEF T2_Entries
        <5> QED BY ONLY <5>1, <5>2, <3>1
      <4> QED BY <4>1, <4>2
    <3> QED BY <3>1, <2>8 DEF T2_Entries
  <2>11. i \in Nat /\ Node_Place(i) \in T2_Place
    <3>1. i \in Nat
      OBVIOUS
    <3> QED BY <3>1, T2Places
  <2> HIDE DEF f, g2, g3, e2, vv
  <2>12. f = All_Use(vv(s.new), T2_Use(d, free.PBA, s.entries, 0), Root_Use(Meta_Degree, s.meta, 0))
    BY DEF f, vv, Free_Use
  <2>13. g3 = All_Use(vv(new3), T2_Use(d, free.PBA, r.entries, 0), Root_Use(Meta_Degree, mt.root, 0))
    BY <2>3 DEF g3, vv, Free_Use
  <2>14. /\ Meta_Root_OK(mt.root) /\ Inj(g2) /\ Blocks(g2) = Blocks(f)
         /\ mt.new_pba \in inner
         /\ \A p \in T2_Place : g2[Meta_Place(p)] \in inner \cup {0}
         /\ DOMAIN mt.blocks = DOMAIN s.blocks
         /\ \A p \in DOMAIN s.blocks \ inner : mt.blocks[p] = s.blocks[p]
    <3> DEFINE node == s.entries[i]
               q    == Node_Place(i)
    <3>1. DOMAIN f = Place /\ DOMAIN g2 = Place
      BY <2>12, AllUse DEF g2
    <3>2. Meta_Part(f, s.meta) /\ Meta_Part(g2, mt.root)
      BY <2>12, AllUse DEF g2, Meta_Part
    <3>3. q \in T2_Place
      BY <2>11
    <3>4. f[Free_Place(q)] = node.PBA
      <4>1. T2_Use(d, free.PBA, s.entries, 0)[Node_Place(i)] = s.entries[i].PBA
        BY T2UseNode
      <4> QED BY <4>1, <3>3, <2>12, AllUse
    <3>5. g2[Free_Place(q)] = mt.new_pba
      <4>1. T2_Use(d, free.PBA, e2, 0)[Node_Place(i)] = e2[i].PBA
        BY T2UseNode
      <4> QED BY <4>1, <3>3, <2>8, AllUse DEF g2
    <3>6. node.PBA # 0 /\ node.PBA \in inner
      BY <2>6
    <3>7. \A p \in T2_Place : f[Meta_Place(p)] \in inner \cup {0}
      BY <2>6, <2>12, AllUse
    <3>8. \A p \in V_Place : g2[VBD_Place(p)] = f[VBD_Place(p)]
      BY <2>12, AllUse DEF g2
    <3>9. \A p \in T2_Place \ {q} : g2[Free_Place(p)] = f[Free_Place(p)]
      <4> SUFFICES ASSUME NEW p \in T2_Place, p # Node_Place(i)
                   PROVE  T2_Use(d, free.PBA, e2, 0)[p] = T2_Use(d, free.PBA, s.entries, 0)[p]
        BY <2>12, AllUse DEF g2
      <4>1. CASE p = Root_Place \/ p = Caller_Place
        BY <4>1, T2UseTop
      <4>2. CASE \E j \in 0 .. d - 1 : p = Leaf_Place(i, j)
        <5>1. PICK j \in 0 .. d - 1 : p = Leaf_Place(i, j)
          BY <4>2
        <5>2. Leaf_PBA(e2, i, j) = Leaf_PBA(s.entries, i, j)
          BY <2>8 DEF Leaf_PBA
        <5>3. e2[i].PBA # 0 /\ s.entries[i].PBA # 0 /\ d \in Nat
          BY <2>8, <1>3
        <5>4. T2_Use(d, free.PBA, e2, 0)[p] = Leaf_PBA(e2, i, j)
          BY <5>1, <5>3, T2UseLeaf
        <5>5. T2_Use(d, free.PBA, s.entries, 0)[p] = Leaf_PBA(s.entries, i, j)
          BY <5>1, <5>3, T2UseLeaf
        <5> QED BY <5>2, <5>4, <5>5
      <4>3. CASE /\ p # Root_Place /\ p # Caller_Place
                 /\ \A j \in 0 .. d - 1 : p # Leaf_Place(i, j)
        <5>1. \A k \in 0 .. d - 1 : k # i => e2[k] = s.entries[k]
          BY <2>8
        <5>2. d \in Nat /\ i \in 0 .. d - 1 /\ p \in T2_Place /\ p # Node_Place(i)
          OBVIOUS
        <5>3. /\ p # Root_Place /\ p # Caller_Place
              /\ \A j \in 0 .. d - 1 : p # Leaf_Place(i, j)
          BY <4>3
        <5> HIDE DEF d
        <5> QED BY ONLY <5>1, <5>2, <5>3, T2UseSame
      <4> QED BY <4>1, <4>2, <4>3
    <3>10. ~mt.mismatch /\ mt.new_pba # 0 /\ mt = Block_For_Node(s, node, req.Gen)
      BY <1>3 DEF mt
    <3>11. Meta_Degree \in Nat /\ Inj(f) /\ Meta_Root_OK(s.meta)
      BY <2>6
    <3> HIDE DEF node, q
    <3> QED BY ONLY <3>1, <3>2, <3>3, <3>4, <3>5, <3>6, <3>7, <3>8, <3>9, <3>10, <3>11, BlockForNode
  <2>15. (Inj(g2) => Inj(g3)) /\ Blocks(g3) = Blocks(g2)
    <3>1. \A j \in 0 .. d - 1 : /\ Leaf_PBA(e2, i, j) = entries[j].PBA
                                /\ Leaf_PBA(r.entries, i, j) = new[j].PBA
      BY <2>8 DEF Leaf_PBA
    <3>2. /\ \A l \in Served(turns) : /\ Server(turns, l) \in Serving(turns)
                                      /\ Taker(turns, Server(turns, l)) = l
          /\ \A j \in Serving(turns) : /\ Taker(turns, j) \in Served(turns)
                                       /\ Server(turns, Taker(turns, j)) = j
      BY ONLY <2>5, Partners
    <3>3. CASE req.Tag = "Rkg_Old_Gen_Blks"
      <4>1. vv(new3) = vv(s.new)
        BY <3>3 DEF vv, Taken
      <4>2. \A p \in T2_Place : T2_Use(d, free.PBA, r.entries, 0)[p] = T2_Use(d, free.PBA, e2, 0)[p]
        <5> DEFINE e3 == r.entries
        <5>0. /\ \A k \in 0 .. d - 1 : k # i => e3[k] = e2[k]
              /\ e3[i].PBA = mt.new_pba /\ e2[i].PBA = mt.new_pba
          BY <2>8
        <5>6. \A j \in 0 .. d - 1 : Leaf_PBA(e3, i, j) = Leaf_PBA(e2, i, j)
          BY <3>1, <2>9, <3>3
        <5> HIDE DEF e3
        <5> SUFFICES ASSUME NEW p \in T2_Place
                     PROVE  T2_Use(d, free.PBA, e3, 0)[p] = T2_Use(d, free.PBA, e2, 0)[p]
          BY DEF e3
        <5>1. CASE p = Root_Place \/ p = Caller_Place
          BY <5>1, T2UseTop
        <5>2. CASE p = Node_Place(i)
          BY <5>2, <5>0, T2UseNode
        <5>3. CASE \E j \in 0 .. d - 1 : p = Leaf_Place(i, j)
          <6>1. PICK j \in 0 .. d - 1 : p = Leaf_Place(i, j)
            BY <5>3
          <6>3. T2_Use(d, free.PBA, e3, 0)[Leaf_Place(i, j)] =
                  IF e3[i].PBA # 0 THEN Leaf_PBA(e3, i, j) ELSE 0
            BY T2UseLeaf
          <6>4. T2_Use(d, free.PBA, e2, 0)[Leaf_Place(i, j)] =
                  IF e2[i].PBA # 0 THEN Leaf_PBA(e2, i, j) ELSE 0
            BY T2UseLeaf
          <6> QED BY <6>1, <6>3, <6>4, <5>0, <5>6
        <5>4. CASE /\ p # Root_Place /\ p # Caller_Place /\ p # Node_Place(i)
                   /\ \A j \in 0 .. d - 1 : p # Leaf_Place(i, j)
          BY <5>4, <5>0, T2UseSame
        <5> QED BY <5>1, <5>2, <5>3, <5>4
      <4>3. \A p \in Place : g3[p] = g2[p]
        <5> DEFINE m  == Root_Use(Meta_Degree, mt.root, 0)
                   f2 == T2_Use(d, free.PBA, e2, 0)
                   f3 == T2_Use(d, free.PBA, r.entries, 0)
        <5>1. g2 = All_Use(vv(s.new), f2, m) /\ g3 = All_Use(vv(s.new), f3, m)
          BY <4>1, <2>13 DEF g2
        <5>2. \A p \in T2_Place : f3[p] = f2[p]
          BY <4>2
        <5> HIDE DEF m, f2, f3
        <5> TAKE p \in Place
        <5>3. ASSUME NEW q \in V_Place, p = VBD_Place(q) PROVE g3[p] = g2[p]
          BY <5>1, <5>3, AllUse
        <5>4. ASSUME NEW q \in T2_Place, p = Free_Place(q) PROVE g3[p] = g2[p]
          BY <5>1, <5>2, <5>4, AllUse
        <5>5. ASSUME NEW q \in T2_Place, p = Meta_Place(q) PROVE g3[p] = g2[p]
          BY <5>1, <5>5, AllUse
        <5> QED BY <5>3, <5>4, <5>5, Places
      <4>4. DOMAIN g3 = DOMAIN g2 /\ DOMAIN g2 = Place
        BY <2>13, AllUse DEF g2
      <4> QED BY <4>3, <4>4 DEF Inj, Blocks
    <3>4. CASE req.Tag # "Rkg_Old_Gen_Blks"
      <4> DEFINE m == Root_Use(Meta_Degree, mt.root, 0)
                 new2 == s.new
                 e3 == r.entries
                 pba == free.PBA
      <4>1. /\ g2 = All_Use(V_Use(v, at, new2), T2_Use(d, pba, e2, 0), m)
            /\ g3 = All_Use(V_Use(v, at, new3), T2_Use(d, pba, e3, 0), m)
        BY <3>4, <2>13 DEF g2, vv, Taken
      <4>2. d \in Nat /\ Request_For(req, v, at) /\ req.Tag # "Rkg_Old_Gen_Blks" /\ i \in 0 .. d - 1
        BY <3>4
      <4>3. DOMAIN e2[i].Hash = 0 .. d - 1
        BY <2>7, <2>8
      <4>4. \A j \in Serving(turns) : j \in 0 .. d - 1 /\ Leaf_PBA(e2, i, j) # 0
        BY <2>5, <3>1
      <4>5. \A l \in Served(turns) : l \in Level /\ new2[l] = 0
        BY <2>5
      <4>6. e2[i].PBA # 0 /\ e3[i].PBA = e2[i].PBA
        BY <2>8, <1>3
      <4>7. \A k \in 0 .. d - 1 : k # i => e3[k] = e2[k]
        BY <2>8
      <4>8. \A j \in 0 .. d - 1 : Leaf_PBA(e3, i, j) =
              IF j \in Serving(turns) THEN v[at[Taker(turns, j)]] ELSE Leaf_PBA(e2, i, j)
        <5>1. \A l \in Level : req.Old_Blocks[l].PBA = v[at[l]]
          BY <3>4 DEF Request_For
        <5>2. \A j \in Serving(turns) : Taker(turns, j) \in Level
          BY <3>2, <2>5
        <5> HIDE DEF e3
        <5>3. \A j \in 0 .. d - 1 : Leaf_PBA(e2, i, j) = entries[j].PBA /\ Leaf_PBA(e3, i, j) = new[j].PBA
          BY <3>1 DEF e3
        <5> QED BY <5>1, <5>2, <5>3, <2>9, <3>4
      <4>9. \A l \in Level : new3[l] =
              IF l \in Served(turns) THEN Leaf_PBA(e2, i, Server(turns, l)) ELSE new2[l]
        <5>1. \A l \in Served(turns) : Leaf_PBA(e2, i, Server(turns, l)) = entries[Server(turns, l)].PBA
          BY <3>1, <3>2, <2>5
        <5> QED BY <5>1 DEF new3
      <4> HIDE DEF m, new2, e3, pba, d
      <4>10. Free_Degree \in Nat /\ Matching(turns) /\ \A t \in turns : t = <<t[1], t[2]>>
        BY <2>5
      <4> USE DEF d
      <4> QED BY ONLY <4>1, <4>2, <4>3, <4>4, <4>5, <4>6, <4>7, <4>8, <4>9, <4>10, LeafsExchanged DEF d
    <3> QED BY <3>3, <3>4
  <2>16. \A p \in T2_Place : Root_Use(Meta_Degree, r.meta, 0)[p] \in inner \cup {0}
    <3>1. \A p \in T2_Place : g2[Meta_Place(p)] = Root_Use(Meta_Degree, mt.root, 0)[p]
      BY AllUse DEF g2
    <3> QED BY <3>1, <2>14, <2>3
  <2>17. \A k \in 0 .. d - 1 : r.entries[k].PBA \in inner \cup {0}
    <3> TAKE k \in 0 .. d - 1
    <3>1. CASE k = i
      BY <3>1, <2>8, <2>14
    <3>2. CASE k # i
      BY <3>2, <2>8, <2>6
    <3> QED BY <3>1, <3>2
  <2>18. DOMAIN r.blocks = DOMAIN blks /\ \A p \in DOMAIN blks \ inner : r.blocks[p] = blks[p]
    BY <2>3, <2>6, <2>14
  <2>19. DOMAIN r.new = Level
    BY <2>3 DEF new3
  <2>20. Inj(g3) /\ Blocks(g3) = used
    BY <2>6, <2>14, <2>15
  <2>21. Meta_Root_OK(r.meta)
    BY <2>3, <2>14
  <2> QED BY <2>4, <2>10, <2>16, <2>17, <2>18, <2>19, <2>20, <2>21 DEF Free_Inv, g3
<1> QED BY <1>2, <1>3

(* The states after the visits are as the code says.                       *)
LEMMA ChildrenVisited ==
  ASSUME Free_Degree \in Nat, NEW blks, NEW free, NEW meta, NEW snapshots, NEW gen, NEW req
  PROVE  /\ Children_Visited(blks, free, meta, snapshots, gen, req)[0] =
              Free_Root_Read(blks, free, meta, req)
         /\ \A i \in 1 .. Free_Degree :
              Children_Visited(blks, free, meta, snapshots, gen, req)[i] =
                Visit_Level_1_Node(Children_Visited(blks, free, meta, snapshots, gen, req)[i - 1],
                                   Free_Degree - i, snapshots, gen, req)
<1> DEFINE Start      == Free_Root_Read(blks, free, meta, req)
           Visit(s, i) == Visit_Level_1_Node(s, Free_Degree - i, snapshots, gen, req)
           Is(g, n)   == g = [i \in 0 .. n |-> IF i = 0 THEN Start ELSE Visit(g[i - 1], i)]
           S          == {n \in Nat : \E g : Is(g, n)}
<1> HIDE DEF Start, Visit
<1>1. 0 \in S
  <2>1. Is([i \in 0 .. 0 |-> Start], 0)
    OBVIOUS
  <2> QED BY <2>1
<1>2. ASSUME NEW n \in Nat, n \in S PROVE n + 1 \in S
  <2>1. PICK g : Is(g, n)
    BY <1>2
  <2> DEFINE h == [i \in 0 .. n + 1 |-> IF i = n + 1 THEN Visit(g[n], i) ELSE g[i]]
  <2>2. \A i \in 0 .. n + 1 : h[i] = IF i = 0 THEN Start ELSE Visit(h[i - 1], i)
    <3> TAKE i \in 0 .. n + 1
    <3>1. CASE i = n + 1
      <4>1. h[i] = Visit(g[n], i) /\ h[i - 1] = g[n]
        BY <3>1
      <4> QED BY <4>1, <3>1
    <3>2. CASE i # n + 1
      <4>1. i \in 0 .. n /\ h[i] = g[i]
        BY <3>2
      <4>2. i # 0 => h[i - 1] = g[i - 1]
        BY <3>2
      <4>3. g[i] = IF i = 0 THEN Start ELSE Visit(g[i - 1], i)
        BY <2>1, <4>1
      <4> QED BY <4>1, <4>2, <4>3
    <3> QED BY <3>1, <3>2
  <2>3. Is(h, n + 1)
    BY <2>2
  <2> HIDE DEF Is, h
  <2> QED BY <2>3
<1> HIDE DEF Is
<1>3. Free_Degree \in S
  BY <1>1, <1>2, SetInduction
<1>4. PICK g : Is(g, Free_Degree)
  BY <1>3
<1> DEFINE after == Children_Visited(blks, free, meta, snapshots, gen, req)
<1>5. after = CHOOSE w : w = [i \in 0 .. Free_Degree |->
                                IF i = 0 THEN Start ELSE Visit(w[i - 1], i)]
  BY DEF Children_Visited, Start, Visit
<1>6. after = [i \in 0 .. Free_Degree |-> IF i = 0 THEN Start ELSE Visit(after[i - 1], i)]
  <2> HIDE DEF after
  <2> QED BY <1>4, <1>5 DEF Is
<1> HIDE DEF after
<1>7. after[0] = Start /\ \A i \in 1 .. Free_Degree : after[i] = Visit(after[i - 1], i)
  BY <1>6
<1> QED BY <1>7 DEF after, Start, Visit

(* A visit keeps each block in use once.                                   *)
LEMMA Level1NodeVisited ==
  ASSUME Meta_Degree \in Nat, Free_Degree \in Nat, Max_Level \in Nat,
         NEW s, NEW free, NEW v, NEW at, NEW req, NEW blks, NEW used, NEW inner,
         Request_For(req, v, at), Free_State(s),
         s.error = "none" => Free_Inv(s, free, v, at, req, blks, used, inner),
         NEW i \in 0 .. Free_Degree - 1, NEW snapshots, NEW gen,
         NEW r, r = Visit_Level_1_Node(s, i, snapshots, gen, req)
  PROVE  Free_State(r) /\ (r.error = "none" => Free_Inv(r, free, v, at, req, blks, used, inner))
<1> DEFINE entries == s.blocks[s.entries[i].PBA]
           turns   == Type_2_Leaf_Turns(s, entries, snapshots, gen, req)
           Left    == \/ s.error # "none" \/ s.entries[i].PBA = 0
                      \/ \A l \in Level : s.new[l] # 0
<1>1. CASE Left
  BY <1>1 DEF Visit_Level_1_Node
<1>2. CASE ~Left /\ ~Check_Node_Hash(s.blocks, s.entries[i])
  <2>1. r = [s EXCEPT !.error = "hash"]
    BY <1>2 DEF Visit_Level_1_Node
  <2> QED BY <2>1 DEF Free_State
<1>3. CASE ~Left /\ Check_Node_Hash(s.blocks, s.entries[i]) /\ turns = {}
  <2>1. r = s
    BY <1>3 DEF Visit_Level_1_Node
  <2> QED BY <2>1
<1>4. CASE ~Left /\ Check_Node_Hash(s.blocks, s.entries[i]) /\ turns # {}
  <2>1. r = Exchange_Type_2_Leafs(s, i, entries, turns, req)
    BY <1>4 DEF Visit_Level_1_Node
  <2>2. s.error = "none" /\ s.entries[i].PBA # 0
    BY <1>4
  <2>3. entries = s.entries[i].Hash
    BY <1>4 DEF Check_Node_Hash
  <2> HIDE DEF entries, turns
  <2>4. turns = Type_2_Leaf_Turns(s, entries, snapshots, gen, req)
    BY DEF turns
  <2>5. Free_Inv(s, free, v, at, req, blks, used, inner)
    BY <2>2
  <2> QED BY <2>1, <2>2, <2>3, <2>4, <2>5, Type2LeafsExchanged
<1> QED BY <1>1, <1>2, <1>3, <1>4

(* The use of all blocks while the levels on the way have the blocks "new".*)
Tree_Use(v, at, req, new, free, meta) ==
  All_Use(V_Use(v, at, Taken(req, new)), Root_Use(Free_Degree, free, 0),
          Root_Use(Meta_Degree, meta, 0))

Free_Root_OK(root) == T1_Root(root) /\ T2_Entries(Free_Degree, root.Hash)

(* The blocks that a request may write: those of the inner nodes of the    *)
(* free tree and those of the meta tree.                                   *)
Within(free, meta, inner) ==
  /\ \A p \in T2_Place : Root_Use(Meta_Degree, meta, 0)[p] \in inner \cup {0}
  /\ \A i \in 0 .. Free_Degree - 1 : free.Hash[i].PBA \in inner \cup {0}
  /\ free.PBA \in inner

(* The root of the free tree is written when all levels have their blocks. *)
LEMMA FreeRootWritten ==
  ASSUME Meta_Degree \in Nat, Free_Degree \in Nat, Max_Level \in Nat,
         NEW s, NEW free, NEW v, NEW at, NEW req, NEW blks, NEW used, NEW inner,
         T1_Root(free), free.PBA \in inner, Free_State(s), NEW gen,
         s.error = "none", Free_Inv(s, free, v, at, req, blks, used, inner),
         NEW r, r = Free_Root_Written(s, free, gen), r.error = "none"
  PROVE  /\ Free_Root_OK(r.node) /\ Meta_Root_OK(r.meta)
         /\ DOMAIN r.new = Level /\ \A l \in Level : r.new[l] # 0
         /\ Inj(Tree_Use(v, at, req, r.new, r.node, r.meta))
         /\ Blocks(Tree_Use(v, at, req, r.new, r.node, r.meta)) = used
         /\ DOMAIN r.blocks = DOMAIN blks
         /\ \A p \in DOMAIN blks \ inner : r.blocks[p] = blks[p]
<1> DEFINE d  == Free_Degree
           mt == Block_For_Node(s, free, gen)
           f  == Free_Use(s, free, v, at, req)
           g2 == Tree_Use(v, at, req, r.new, r.node, r.meta)
<1>1. s.error = "none" /\ \A l \in Level : s.new[l] # 0
  BY DEF Free_Root_Written, Free_State
<1>2. r = Node_Written(s, mt, gen, s.entries)
  BY <1>1 DEF Free_Root_Written
<1> HIDE DEF mt
<1>3. ~mt.mismatch /\ mt.new_pba # 0
  BY <1>2 DEF Node_Written, Free_State
<1>4. r = [s EXCEPT !.blocks = [mt.blocks EXCEPT ![mt.new_pba] = s.entries],
                    !.meta = mt.root, !.node = Update_Parent(mt.new_pba, gen, s.entries)]
  BY <1>2, <1>3 DEF Node_Written
<1>5. /\ r.new = s.new /\ r.meta = mt.root
      /\ r.blocks = [mt.blocks EXCEPT ![mt.new_pba] = s.entries]
      /\ r.node = [PBA |-> mt.new_pba, Gen |-> gen, Hash |-> s.entries]
  BY <1>4 DEF Free_State, Update_Parent
<1>6. /\ T2_Entries(d, s.entries) /\ Meta_Root_OK(s.meta) /\ DOMAIN s.new = Level
      /\ Inj(f) /\ Blocks(f) = used
      /\ \A p \in T2_Place : Root_Use(Meta_Degree, s.meta, 0)[p] \in inner \cup {0}
      /\ DOMAIN s.blocks = DOMAIN blks
      /\ \A p \in DOMAIN blks \ inner : s.blocks[p] = blks[p]
  BY <1>1 DEF Free_Inv
<1>7. Free_Root_OK(r.node)
  <2>1. r.node.Hash = s.entries /\ T1_Root(r.node)
    BY <1>5, <1>3 DEF T1_Root
  <2> QED BY <2>1, <1>6 DEF Free_Root_OK
<1> DEFINE vv == V_Use(v, at, Taken(req, s.new))
           f1 == T2_Use(d, free.PBA, s.entries, 0)
           f2 == T2_Use(d, mt.new_pba, s.entries, 0)
           m1 == Root_Use(Meta_Degree, s.meta, 0)
           m2 == Root_Use(Meta_Degree, mt.root, 0)
           q  == Root_Place
<1>8. f = All_Use(vv, f1, m1)
  BY DEF Free_Use
<1>9. g2 = All_Use(vv, f2, m2)
  BY <1>5 DEF Tree_Use, Root_Use
<1>10. \A p \in T2_Place : p # q => f2[p] = f1[p]
  BY DEF T2_Use
<1>11. q \in T2_Place /\ f1[q] = free.PBA /\ f2[q] = mt.new_pba
  BY T2UseTop, T2Places
<1>17. \A p \in T2_Place : m1[p] \in inner \cup {0}
  BY <1>6
<1> HIDE DEF f, g2, vv, f1, f2
<1>12. DOMAIN f = Place /\ DOMAIN g2 = Place /\ Meta_Part(f, s.meta) /\ Meta_Part(g2, mt.root)
  BY <1>8, <1>9, AllUse DEF Meta_Part
<1> HIDE DEF m1, m2
<1>13. f[Free_Place(q)] = free.PBA /\ g2[Free_Place(q)] = mt.new_pba
  BY <1>8, <1>9, <1>11, AllUse
<1>14. /\ \A p \in T2_Place : f[Meta_Place(p)] \in inner \cup {0}
       /\ \A p \in V_Place : g2[VBD_Place(p)] = f[VBD_Place(p)]
       /\ \A p \in T2_Place \ {q} : g2[Free_Place(p)] = f[Free_Place(p)]
  BY <1>8, <1>9, <1>10, <1>17, AllUse
<1>15. /\ Meta_Root_OK(mt.root) /\ Inj(g2) /\ Blocks(g2) = Blocks(f) /\ mt.new_pba \in inner
       /\ DOMAIN mt.blocks = DOMAIN s.blocks
       /\ \A p \in DOMAIN s.blocks \ inner : mt.blocks[p] = s.blocks[p]
  <2>1. Meta_Degree \in Nat /\ Inj(f) /\ Meta_Root_OK(s.meta) /\ free.PBA # 0 /\ free.PBA \in inner
    BY <1>6 DEF T1_Root
  <2>2. mt = Block_For_Node(s, free, gen)
    BY DEF mt
  <2> HIDE DEF q
  <2>3. q \in T2_Place
    BY <1>11
  <2> QED BY ONLY <2>1, <2>2, <2>3, <1>3, <1>12, <1>13, <1>14, BlockForNode
<1>16. DOMAIN r.blocks = DOMAIN blks /\ \A p \in DOMAIN blks \ inner : r.blocks[p] = blks[p]
  BY <1>5, <1>6, <1>15
<1> QED BY <1>1, <1>5, <1>6, <1>7, <1>15, <1>16 DEF g2

(* A request to the free tree exchanges blocks: what is in use is the same *)
(* as before, and each block once, and only nodes of the trees for the     *)
(* allocation are written.                                                 *)
LEMMA FreeTreeAlloc ==
  ASSUME Meta_Degree \in Nat, Free_Degree \in Nat, Max_Level \in Nat,
         NEW free, NEW meta, NEW v, NEW at, NEW req, NEW blks, NEW inner,
         NEW snapshots, NEW gen, Request_For(req, v, at), DOMAIN req.New_Blocks = Level,
         Free_Root_OK(free), Meta_Root_OK(meta), Within(free, meta, inner),
         Inj(Tree_Use(v, at, req, req.New_Blocks, free, meta)),
         NEW r, r = Free_Tree_Alloc(blks, free, meta, snapshots, gen, req), r.error = "none"
  PROVE  /\ Free_Root_OK(r.node) /\ Meta_Root_OK(r.meta)
         /\ DOMAIN r.new = Level /\ \A l \in Level : r.new[l] # 0
         /\ Inj(Tree_Use(v, at, req, r.new, r.node, r.meta))
         /\ Blocks(Tree_Use(v, at, req, r.new, r.node, r.meta)) =
              Blocks(Tree_Use(v, at, req, req.New_Blocks, free, meta))
         /\ DOMAIN r.blocks = DOMAIN blks
         /\ \A p \in DOMAIN blks \ inner : r.blocks[p] = blks[p]
<1> DEFINE used  == Blocks(Tree_Use(v, at, req, req.New_Blocks, free, meta))
           after == Children_Visited(blks, free, meta, snapshots, gen, req)
           start == Free_Root_Read(blks, free, meta, req)
           Good(s) == /\ Free_State(s)
                      /\ s.error = "none" => Free_Inv(s, free, v, at, req, blks, used, inner)
           S     == {n \in Nat : n <= Free_Degree => Good(after[n])}
           w     == after[Free_Degree]
<1>1. Check_Node_Hash(blks, free)
  BY DEF Free_Tree_Alloc, Free_Root_Read
<1>2. r = Free_Root_Written(w, free, req.Gen)
  BY <1>1 DEF Free_Tree_Alloc
<1>3. Good(start)
  <2>1. Free_State(start)
    BY DEF Free_Root_Read, Free_State
  <2>2. start.meta = meta /\ start.entries = free.Hash /\ start.blocks = blks /\ start.new = req.New_Blocks
    BY <1>1 DEF Free_Root_Read, Check_Node_Hash
  <2>3. Free_Use(start, free, v, at, req) = Tree_Use(v, at, req, req.New_Blocks, free, meta)
    BY <2>2 DEF Free_Use, Tree_Use, Root_Use
  <2> HIDE DEF start
  <2> QED BY <2>1, <2>2, <2>3 DEF Free_Inv, Free_Root_OK, Within
<1>4. 0 \in S
  BY <1>3, ChildrenVisited
<1>5. ASSUME NEW n \in Nat, n \in S PROVE n + 1 \in S
  <2> SUFFICES ASSUME n + 1 <= Free_Degree PROVE Good(after[n + 1])
    OBVIOUS
  <2> DEFINE i == Free_Degree - (n + 1)
  <2>1. i \in 0 .. Free_Degree - 1 /\ n + 1 \in 1 .. Free_Degree /\ (n + 1) - 1 = n /\ n <= Free_Degree
    OBVIOUS
  <2>2. after[n + 1] = Visit_Level_1_Node(after[n], i, snapshots, gen, req)
    BY <2>1, ChildrenVisited
  <2>3. Good(after[n])
    BY <1>5, <2>1
  <2> HIDE DEF after, used, i
  <2> QED BY <2>1, <2>2, <2>3, Level1NodeVisited
<1> HIDE DEF Good, after, used
<1>6. Good(w)
  <2> HIDE DEF S
  <2>1. Free_Degree \in S
    BY <1>4, <1>5, SetInduction
  <2> QED BY <2>1 DEF S
<1> HIDE DEF w
<1>7. T1_Root(free) /\ free.PBA \in inner
  BY DEF Free_Root_OK, Within
<1>8. Free_State(w) /\ (w.error = "none" => Free_Inv(w, free, v, at, req, blks, used, inner))
  BY <1>6 DEF Good
<1>9. /\ Free_Root_OK(r.node) /\ Meta_Root_OK(r.meta)
      /\ DOMAIN r.new = Level /\ \A l \in Level : r.new[l] # 0
      /\ Inj(Tree_Use(v, at, req, r.new, r.node, r.meta))
      /\ Blocks(Tree_Use(v, at, req, r.new, r.node, r.meta)) = used
      /\ DOMAIN r.blocks = DOMAIN blks
      /\ \A p \in DOMAIN blks \ inner : r.blocks[p] = blks[p]
  <2>1. Meta_Degree \in Nat /\ Free_Degree \in Nat /\ Max_Level \in Nat /\ r.error = "none"
    OBVIOUS
  <2>2. w.error = "none"
    BY <1>2 DEF Free_Root_Written
  <2>3. Free_State(w) /\ Free_Inv(w, free, v, at, req, blks, used, inner)
    BY <1>8, <2>2
  <2> QED BY ONLY <2>1, <2>2, <2>3, <1>2, <1>7, FreeRootWritten
<1> QED BY <1>9 DEF used

-----------------------------------------------------------------------------
(***************************************************************************)
(* The numbers of nodes and blocks.                                        *)
(***************************************************************************)

(* There is a sequence of numbers of which each follows from that before.  *)
LEMMA NumberRecursion ==
  ASSUME NEW n \in Nat, NEW start \in Nat, NEW step \in [1 .. n -> [Nat -> Nat]]
  PROVE  \E g \in [0 .. n -> Nat] : g[0] = start /\ \A i \in 1 .. n : g[i] = step[i][g[i - 1]]
<1> DEFINE Is(g, m) == g[0] = start /\ \A i \in 1 .. m : g[i] = step[i][g[i - 1]]
           Exists(m) == \E g \in [0 .. m -> Nat] : Is(g, m)
           S == {m \in Nat : m <= n => Exists(m)}
<1> HIDE DEF Is, Exists
<1>1. 0 \in S
  <2> DEFINE g == [i \in 0 .. 0 |-> start]
  <2>1. g \in [0 .. 0 -> Nat] /\ g[0] = start
    OBVIOUS
  <2>2. \A i \in 1 .. 0 : FALSE
    OBVIOUS
  <2> HIDE DEF g
  <2>3. Is(g, 0)
    BY <2>1, <2>2 DEF Is
  <2> QED BY <2>1, <2>3 DEF Exists
<1>2. ASSUME NEW m \in Nat, m \in S PROVE m + 1 \in S
  <2> SUFFICES ASSUME m + 1 <= n PROVE Exists(m + 1)
    OBVIOUS
  <2>1. PICK g \in [0 .. m -> Nat] : Is(g, m)
    <3>1. Exists(m)
      BY <1>2
    <3> QED BY <3>1 DEF Exists
  <2>10. g[0] = start /\ \A i \in 1 .. m : g[i] = step[i][g[i - 1]]
    BY <2>1 DEF Is
  <2> DEFINE h == [i \in 0 .. m + 1 |-> IF i = m + 1 THEN step[m + 1][g[m]] ELSE g[i]]
  <2>2. step[m + 1][g[m]] \in Nat
    <3>1. m + 1 \in 1 .. n /\ g[m] \in Nat
      BY <2>1
    <3> QED BY <3>1
  <2>3. \A i \in 0 .. m : h[i] = g[i]
    OBVIOUS
  <2>4. h[m + 1] = step[m + 1][g[m]] /\ DOMAIN h = 0 .. m + 1
    OBVIOUS
  <2> HIDE DEF h
  <2>5. \A i \in 1 .. m + 1 : h[i] = step[i][h[i - 1]]
    <3> TAKE i \in 1 .. m + 1
    <3>1. CASE i = m + 1
      <4>1. i - 1 = m /\ m \in 0 .. m
        BY <3>1
      <4> QED BY <4>1, <3>1, <2>3, <2>4
    <3>2. CASE i # m + 1
      <4>1. i \in 1 .. m /\ i \in 0 .. m /\ i - 1 \in 0 .. m
        BY <3>2
      <4> QED BY <4>1, <2>10, <2>3
    <3> QED BY <3>1, <3>2
  <2>6. \A i \in 0 .. m + 1 : h[i] \in Nat
    <3> TAKE i \in 0 .. m + 1
    <3>1. i = m + 1 \/ i \in 0 .. m
      OBVIOUS
    <3> QED BY <3>1, <2>1, <2>2, <2>3, <2>4
  <2>7. h[0] = start
    <3>1. 0 \in 0 .. m
      OBVIOUS
    <3> QED BY <3>1, <2>10, <2>3
  <2>8. h \in [0 .. m + 1 -> Nat]
    BY <2>4, <2>6 DEF h
  <2>9. Is(h, m + 1)
    BY <2>5, <2>7 DEF Is
  <2> QED BY <2>8, <2>9 DEF Exists
<1> HIDE DEF S
<1>3. n \in S
  BY <1>1, <1>2, SetInduction
<1>4. Exists(n)
  BY <1>3 DEF S
<1> QED BY <1>4 DEF Exists, Is

(* The leaves below a node.                                                *)
LEMMA NrOfVBAs ==
  /\ DOMAIN VBD_Node_Nr_Of_VBAs = Level
  /\ VBD_Node_Nr_Of_VBAs[0] = 1
  /\ \A l \in 1 .. Max_Level : VBD_Node_Nr_Of_VBAs[l] = Degree * VBD_Node_Nr_Of_VBAs[l - 1]
  /\ \A l \in Level : VBD_Node_Nr_Of_VBAs[l] \in Nat \ {0}
<1> DEFINE n    == Max_Level
           step == [i \in 1 .. n |-> [x \in Nat |-> Degree * x]]
           f    == VBD_Node_Nr_Of_VBAs
<1>1. n \in Nat /\ Degree \in Nat \ {0} /\ Level = 0 .. n
  BY WritePathAssumption DEF Level
<1>2. f = CHOOSE w : w = [l \in Level |-> IF l = 0 THEN 1 ELSE Degree * w[l - 1]]
  BY DEF VBD_Node_Nr_Of_VBAs
<1>3. step \in [1 .. n -> [Nat -> Nat]]
  BY <1>1
<1>4. \A i \in 1 .. n : \A x \in Nat : step[i][x] = Degree * x
  OBVIOUS
<1> HIDE DEF n, f, step
<1>5. PICK g \in [0 .. n -> Nat] : g[0] = 1 /\ \A i \in 1 .. n : g[i] = step[i][g[i - 1]]
  <2> DEFINE start == 1
  <2>1. start \in Nat /\ n \in Nat
    BY <1>1
  <2> HIDE DEF start
  <2>2. \E g \in [0 .. n -> Nat] : g[0] = start /\ \A i \in 1 .. n : g[i] = step[i][g[i - 1]]
    BY ONLY <2>1, <1>3, NumberRecursion, Zenon
  <2> QED BY <2>2, Zenon DEF start
<1> DEFINE h == [l \in 0 .. n |-> g[l]]
<1>6. \A l \in 0 .. n : h[l] = g[l] /\ h[l] = IF l = 0 THEN 1 ELSE Degree * h[l - 1]
  <2> TAKE l \in 0 .. n
  <2>1. CASE l = 0
    BY <2>1, <1>5
  <2>2. CASE l # 0
    <3>1. l \in 1 .. n /\ l - 1 \in 0 .. n
      BY <2>2, <1>1
    <3> QED BY <3>1, <2>2, <1>4, <1>5
  <2> QED BY <2>1, <2>2
<1>7. h = [l \in Level |-> IF l = 0 THEN 1 ELSE Degree * h[l - 1]]
  BY <1>1, <1>6
<1> HIDE DEF h
<1>8. f = [l \in Level |-> IF l = 0 THEN 1 ELSE Degree * f[l - 1]]
  BY <1>2, <1>7
<1> DEFINE S == {l \in Nat : l <= n => f[l] \in Nat \ {0}}
<1>9. 0 \in S
  BY <1>1, <1>8
<1>10. ASSUME NEW l \in Nat, l \in S PROVE l + 1 \in S
  <2> SUFFICES ASSUME l + 1 <= n PROVE f[l + 1] \in Nat \ {0}
    OBVIOUS
  <2>1. f[l + 1] = Degree * f[l] /\ f[l] \in Nat \ {0}
    BY <1>1, <1>8, <1>10
  <2> QED BY <2>1, <1>1
<1> HIDE DEF S
<1>11. \A l \in 0 .. n : f[l] \in Nat \ {0}
  <2>1. Nat \subseteq S
    BY <1>9, <1>10, SetInduction
  <2> QED BY <2>1, <1>1 DEF S
<1>12. DOMAIN f = Level /\ f[0] = 1 /\ \A l \in 1 .. n : f[l] = Degree * f[l - 1]
  BY <1>1, <1>8
<1> QED BY <1>1, <1>11, <1>12 DEF f, n

(* The nodes at a level.                                                   *)
LEMMA NrOfNodes ==
  ASSUME NEW x \in Nat
  PROVE  /\ Nr_Of_Nodes(x, Degree) \in Nat
         /\ x # 0 => Nr_Of_Nodes(x, Degree) # 0
         /\ \A k \in Nat : k < x => k \div Degree \in Nat /\ k \div Degree < Nr_Of_Nodes(x, Degree)
<1>1. Degree \in Nat /\ Degree > 1
  BY WritePathAssumption
<1> DEFINE y == (x + Degree - 1) \div Degree
<1>2. y \in Nat /\ x + Degree - 1 < Degree * (y + 1)
  BY <1>1
<1>3. ASSUME NEW k \in Nat, k < x PROVE k \div Degree \in Nat /\ k \div Degree < y
  BY <1>1, <1>3
<1>4. x # 0 => y # 0
  BY <1>1
<1> QED BY <1>2, <1>3, <1>4 DEF Nr_Of_Nodes

(* The number of nodes at each level of a tree, by that of the level below.*)
LEMMA NrOfVBDNodes ==
  /\ DOMAIN Nr_Of_VBD_Nodes = Level
  /\ Nr_Of_VBD_Nodes[0] = Leafs
  /\ \A l \in 1 .. Max_Level : Nr_Of_VBD_Nodes[l] = Nr_Of_Nodes(Nr_Of_VBD_Nodes[l - 1], Degree)
  /\ \A l \in Level : Nr_Of_VBD_Nodes[l] \in Nat \ {0}
  /\ Nr_Of_VBD_Nodes[Max_Level] = 1
<1> DEFINE n    == Max_Level
           Above(x) == Nr_Of_Nodes(x, Degree)
           step == [i \in 1 .. n |-> [x \in Nat |-> Above(x)]]
           f    == Nr_Of_VBD_Nodes
<1>1. n \in Nat /\ Leafs \in Nat \ {0} /\ Level = 0 .. n /\ Nr_Of_VBD_Nodes[Max_Level] = 1
  BY WritePathAssumption DEF Level
<1>2. f = CHOOSE w : w = [l \in Level |-> IF l = 0 THEN Leafs ELSE Above(w[l - 1])]
  BY DEF Nr_Of_VBD_Nodes
<1>13. \A x \in Nat : Above(x) \in Nat /\ (x # 0 => Above(x) # 0)
  BY NrOfNodes
<1> HIDE DEF Above
<1>3. step \in [1 .. n -> [Nat -> Nat]]
  BY <1>13
<1>4. \A i \in 1 .. n : \A x \in Nat : step[i][x] = Above(x)
  OBVIOUS
<1> HIDE DEF n, f, step
<1>5. PICK g \in [0 .. n -> Nat] : g[0] = Leafs /\ \A i \in 1 .. n : g[i] = step[i][g[i - 1]]
  <2>1. n \in Nat /\ Leafs \in Nat
    BY <1>1
  <2> QED BY ONLY <2>1, <1>3, NumberRecursion, Zenon
<1> DEFINE h == [l \in 0 .. n |-> g[l]]
<1>6. \A l \in 0 .. n : h[l] = g[l] /\ h[l] = IF l = 0 THEN Leafs ELSE Above(h[l - 1])
  <2> TAKE l \in 0 .. n
  <2>1. CASE l = 0
    BY <2>1, <1>5
  <2>2. CASE l # 0
    <3>1. l \in 1 .. n /\ l - 1 \in 0 .. n
      BY <2>2, <1>1
    <3> QED BY <3>1, <2>2, <1>4, <1>5
  <2> QED BY <2>1, <2>2
<1>7. h = [l \in Level |-> IF l = 0 THEN Leafs ELSE Above(h[l - 1])]
  BY <1>1, <1>6
<1> HIDE DEF h
<1>8. f = [l \in Level |-> IF l = 0 THEN Leafs ELSE Above(f[l - 1])]
  BY <1>2, <1>7
<1> DEFINE S == {l \in Nat : l <= n => f[l] \in Nat \ {0}}
<1>9. 0 \in S
  BY <1>1, <1>8
<1>10. ASSUME NEW l \in Nat, l \in S PROVE l + 1 \in S
  <2> SUFFICES ASSUME l + 1 <= n PROVE f[l + 1] \in Nat \ {0}
    OBVIOUS
  <2>1. f[l + 1] = Above(f[l]) /\ f[l] \in Nat \ {0}
    BY <1>1, <1>8, <1>10
  <2> QED BY <2>1, <1>13
<1> HIDE DEF S
<1>11. \A l \in 0 .. n : f[l] \in Nat \ {0}
  <2>1. Nat \subseteq S
    BY <1>9, <1>10, SetInduction
  <2> QED BY <2>1, <1>1 DEF S
<1>12. DOMAIN f = Level /\ f[0] = Leafs /\ \A l \in 1 .. n : f[l] = Above(f[l - 1])
  BY <1>1, <1>8
<1> QED BY <1>1, <1>11, <1>12 DEF f, n, Above

(* The first block of each level, by that of the level below.              *)
LEMMA FirstPBA ==
  /\ First_PBA[0] = 1
  /\ \A l \in 1 .. Max_Level + 1 : First_PBA[l] = First_PBA[l - 1] + Nr_Of_VBD_Nodes[l - 1]
  /\ \A l \in 0 .. Max_Level + 1 : First_PBA[l] \in Nat \ {0}
<1> DEFINE n    == Max_Level + 1
           Next_(x, l) == x + Nr_Of_VBD_Nodes[l - 1]
           step == [i \in 1 .. n |-> [x \in Nat |-> Next_(x, i)]]
           f    == First_PBA
<1>1. n \in Nat
  BY WritePathAssumption
<1>2. f = CHOOSE w : w = [l \in 0 .. n |-> IF l = 0 THEN 1 ELSE Next_(w[l - 1], l)]
  BY DEF First_PBA
<1>13. \A x \in Nat, l \in 1 .. n : Next_(x, l) \in Nat /\ Next_(x, l) # 0
  <2> TAKE x \in Nat, l \in 1 .. n
  <2>1. l - 1 \in Level
    BY WritePathAssumption DEF Level
  <2> QED BY <2>1, NrOfVBDNodes
<1> HIDE DEF Next_, n
<1>3. step \in [1 .. n -> [Nat -> Nat]]
  BY <1>13
<1>4. \A i \in 1 .. n : \A x \in Nat : step[i][x] = Next_(x, i)
  OBVIOUS
<1> HIDE DEF f, step
<1>5. PICK g \in [0 .. n -> Nat] : g[0] = 1 /\ \A i \in 1 .. n : g[i] = step[i][g[i - 1]]
  <2> DEFINE start == 1
  <2>1. start \in Nat /\ n \in Nat
    BY <1>1
  <2> HIDE DEF start
  <2>2. \E g \in [0 .. n -> Nat] : g[0] = start /\ \A i \in 1 .. n : g[i] = step[i][g[i - 1]]
    BY ONLY <2>1, <1>3, NumberRecursion, Zenon
  <2> QED BY <2>2, Zenon DEF start
<1> DEFINE h == [l \in 0 .. n |-> g[l]]
<1>6. \A l \in 0 .. n : h[l] = g[l] /\ h[l] = IF l = 0 THEN 1 ELSE Next_(h[l - 1], l)
  <2> TAKE l \in 0 .. n
  <2>1. CASE l = 0
    BY <2>1, <1>5
  <2>2. CASE l # 0
    <3>1. l \in 1 .. n /\ l - 1 \in 0 .. n
      BY <2>2, <1>1
    <3> QED BY <3>1, <2>2, <1>4, <1>5
  <2> QED BY <2>1, <2>2
<1>7. h = [l \in 0 .. n |-> IF l = 0 THEN 1 ELSE Next_(h[l - 1], l)]
  BY <1>1, <1>6
<1> HIDE DEF h
<1>8. f = [l \in 0 .. n |-> IF l = 0 THEN 1 ELSE Next_(f[l - 1], l)]
  BY <1>2, <1>7
<1> DEFINE S == {l \in Nat : l <= n => f[l] \in Nat \ {0}}
<1>9. 0 \in S
  BY <1>1, <1>8
<1>10. ASSUME NEW l \in Nat, l \in S PROVE l + 1 \in S
  <2> SUFFICES ASSUME l + 1 <= n PROVE f[l + 1] \in Nat \ {0}
    OBVIOUS
  <2>1. l + 1 \in 1 .. n /\ f[l + 1] = Next_(f[l], l + 1) /\ f[l] \in Nat
    BY <1>1, <1>8, <1>10
  <2> QED BY <2>1, <1>13
<1> HIDE DEF S
<1>11. \A l \in 0 .. n : f[l] \in Nat \ {0}
  <2>1. Nat \subseteq S
    BY <1>9, <1>10, SetInduction
  <2> QED BY <2>1, <1>1 DEF S
<1>12. f[0] = 1 /\ \A l \in 1 .. n : f[l] = Next_(f[l - 1], l)
  BY <1>1, <1>8
<1> QED BY <1>1, <1>11, <1>12 DEF f, n, Next_

-----------------------------------------------------------------------------
(***************************************************************************)
(* The current tree.                                                       *)
(***************************************************************************)

(* The walk down a tree is as the code says.                               *)
LEMMA NodeWalk ==
  ASSUME NEW snap, NEW vba
  PROVE  LET w == Type_1_Node_Walk(snap, vba)
         IN /\ DOMAIN w = Level
            /\ w[Max_Level] = [PBA |-> snap.PBA, Gen |-> snap.Gen, Hash |-> snap.Hash]
            /\ \A l \in 0 .. Max_Level - 1 : w[l] = w[l + 1].Hash[Child_Idx_For_VBA(vba, l + 1)]
<1> DEFINE n          == Max_Level
           Top        == [PBA |-> snap.PBA, Gen |-> snap.Gen, Hash |-> snap.Hash]
           Down(w, l) == w.Hash[Child_Idx_For_VBA(vba, l + 1)]
           Is(g, m)   == g = [l \in n - m .. n |-> IF l = n THEN Top ELSE Down(g[l + 1], l)]
           Exists(m)  == \E g : Is(g, m)
           S          == {m \in Nat : m <= n => Exists(m)}
           f          == Type_1_Node_Walk(snap, vba)
<1>1. n \in Nat /\ Level = 0 .. n
  BY WritePathAssumption DEF Level
<1>2. f = CHOOSE w : w = [l \in Level |-> IF l = n THEN Top ELSE Down(w[l + 1], l)]
  BY DEF Type_1_Node_Walk
<1> HIDE DEF Top, Down, n, Exists, f
<1>3. 0 \in S
  <2>1. Is([l \in n - 0 .. n |-> Top], 0)
    BY <1>1
  <2> HIDE DEF Is
  <2> QED BY <2>1 DEF Exists
<1>4. ASSUME NEW m \in Nat, m \in S PROVE m + 1 \in S
  <2> SUFFICES ASSUME m + 1 <= n PROVE Exists(m + 1)
    OBVIOUS
  <2>1. PICK g : Is(g, m)
    <3>1. Exists(m)
      BY <1>1, <1>4
    <3> QED BY <3>1 DEF Exists
  <2> DEFINE k == n - (m + 1)
             h == [l \in k .. n |-> IF l = k THEN Down(g[k + 1], l) ELSE g[l]]
  <2>2. \A l \in k .. n : h[l] = IF l = n THEN Top ELSE Down(h[l + 1], l)
    <3> TAKE l \in k .. n
    <3>1. CASE l = k
      <4>1. l # n /\ l + 1 \in k .. n /\ l + 1 # k
        BY <3>1, <1>1
      <4>2. h[l] = Down(g[k + 1], l) /\ h[l + 1] = g[k + 1]
        BY <3>1, <4>1
      <4> QED BY <4>1, <4>2
    <3>2. CASE l # k
      <4>1. l \in n - m .. n /\ h[l] = g[l]
        BY <3>2, <1>1
      <4>2. l # n => h[l + 1] = g[l + 1]
        BY <3>2, <1>1
      <4>3. g[l] = IF l = n THEN Top ELSE Down(g[l + 1], l)
        BY <2>1, <4>1
      <4> QED BY <4>1, <4>2, <4>3
    <3> QED BY <3>1, <3>2
  <2>3. Is(h, m + 1)
    BY <2>2
  <2> HIDE DEF Is, h
  <2> QED BY <2>3 DEF Exists
<1> HIDE DEF S
<1>5. Nat \subseteq S
  BY <1>3, <1>4, SetInduction
<1>6. Exists(n)
  BY <1>1, <1>5 DEF S
<1>7. PICK g : g = [l \in Level |-> IF l = n THEN Top ELSE Down(g[l + 1], l)]
  <2>1. n - n = 0
    BY <1>1
  <2> QED BY <1>1, <1>6, <2>1 DEF Exists
<1>8. f = [l \in Level |-> IF l = n THEN Top ELSE Down(f[l + 1], l)]
  BY <1>2, <1>7
<1>9. DOMAIN f = Level /\ f[n] = Top /\ \A l \in 0 .. n - 1 : f[l] = Down(f[l + 1], l)
  BY <1>1, <1>8
<1> QED BY <1>9 DEF f, n, Top, Down

(* The nodes below those of a level.                                       *)
Children_At(above, l) == [k \in VBD_Places(l) |-> above[k \div Degree].Hash[k % Degree]]

Nodes_By_Level(snap, at) ==
  /\ DOMAIN at = Level
  /\ at[Max_Level] = [k \in {0} |-> [PBA |-> snap.PBA, Hash |-> snap.Hash]]
  /\ \A l \in 0 .. Max_Level - 1 : at[l] = Children_At(at[l + 1], l)

(* The nodes of a tree are the children of those of the level above.       *)
LEMMA VBDNodes ==
  ASSUME NEW snap
  PROVE  Nodes_By_Level(snap, VBD_Nodes(snap))
<1> DEFINE n          == Max_Level
           Top        == [k \in VBD_Places(n) |-> [PBA |-> snap.PBA, Hash |-> snap.Hash]]
           Down(w, l) == [k \in VBD_Places(l) |-> w[k \div Degree].Hash[k % Degree]]
           Is(g, m)   == g = [l \in n - m .. n |-> IF l = n THEN Top ELSE Down(g[l + 1], l)]
           Exists(m)  == \E g : Is(g, m)
           S          == {m \in Nat : m <= n => Exists(m)}
           f          == VBD_Nodes(snap)
<1>1. n \in Nat /\ Level = 0 .. n
  BY WritePathAssumption DEF Level
<1>2. f = CHOOSE w : w = [l \in Level |-> IF l = n THEN Top ELSE Down(w[l + 1], l)]
  <2>1. \A w : [l \in Level |-> [k \in VBD_Places(l) |->
                   IF l = n THEN [PBA |-> snap.PBA, Hash |-> snap.Hash]
                   ELSE w[l + 1][k \div Degree].Hash[k % Degree]]] =
               [l \in Level |-> IF l = n THEN Top ELSE Down(w[l + 1], l)]
    OBVIOUS
  <2> DEFINE A(w) == [l \in Level |-> [k \in VBD_Places(l) |->
                        IF l = n THEN [PBA |-> snap.PBA, Hash |-> snap.Hash]
                        ELSE w[l + 1][k \div Degree].Hash[k % Degree]]]
             B(w) == [l \in Level |-> IF l = n THEN Top ELSE Down(w[l + 1], l)]
  <2>2. f = CHOOSE w : w = A(w)
    BY DEF VBD_Nodes
  <2>3. \A w : A(w) = B(w)
    BY <2>1
  <2>4. (CHOOSE w : w = A(w)) = CHOOSE w : w = B(w)
    <3> HIDE DEF A, B
    <3> QED BY ONLY <2>3
  <2> QED BY ONLY <2>2, <2>4
<1> HIDE DEF Top, Down, n, Exists, f
<1>3. 0 \in S
  <2>1. Is([l \in n - 0 .. n |-> Top], 0)
    BY <1>1
  <2> HIDE DEF Is
  <2> QED BY <2>1 DEF Exists
<1>4. ASSUME NEW m \in Nat, m \in S PROVE m + 1 \in S
  <2> SUFFICES ASSUME m + 1 <= n PROVE Exists(m + 1)
    OBVIOUS
  <2>1. PICK g : Is(g, m)
    <3>1. Exists(m)
      BY <1>1, <1>4
    <3> QED BY <3>1 DEF Exists
  <2> DEFINE k == n - (m + 1)
             h == [l \in k .. n |-> IF l = k THEN Down(g[k + 1], l) ELSE g[l]]
  <2>2. \A l \in k .. n : h[l] = IF l = n THEN Top ELSE Down(h[l + 1], l)
    <3> TAKE l \in k .. n
    <3>1. CASE l = k
      <4>1. l # n /\ l + 1 \in k .. n /\ l + 1 # k
        BY <3>1, <1>1
      <4>2. h[l] = Down(g[k + 1], l) /\ h[l + 1] = g[k + 1]
        BY <3>1, <4>1
      <4> QED BY <4>1, <4>2
    <3>2. CASE l # k
      <4>1. l \in n - m .. n /\ h[l] = g[l]
        BY <3>2, <1>1
      <4>2. l # n => h[l + 1] = g[l + 1]
        BY <3>2, <1>1
      <4>3. g[l] = IF l = n THEN Top ELSE Down(g[l + 1], l)
        BY <2>1, <4>1
      <4> QED BY <4>1, <4>2, <4>3
    <3> QED BY <3>1, <3>2
  <2>3. Is(h, m + 1)
    BY <2>2
  <2> HIDE DEF Is, h
  <2> QED BY <2>3 DEF Exists
<1> HIDE DEF S
<1>5. Nat \subseteq S
  BY <1>3, <1>4, SetInduction
<1>6. Exists(n)
  BY <1>1, <1>5 DEF S
<1>7. PICK g : g = [l \in Level |-> IF l = n THEN Top ELSE Down(g[l + 1], l)]
  <2>1. n - n = 0
    BY <1>1
  <2> QED BY <1>1, <1>6, <2>1 DEF Exists
<1>8. f = [l \in Level |-> IF l = n THEN Top ELSE Down(f[l + 1], l)]
  BY <1>2, <1>7
<1>9. DOMAIN f = Level /\ f[n] = Top /\ \A l \in 0 .. n - 1 : f[l] = Down(f[l + 1], l)
  BY <1>1, <1>8
<1>10. VBD_Places(n) = {0}
  BY DEF VBD_Places, n
<1>11. \A w, l : Down(w, l) = Children_At(w, l)
  BY DEF Down, Children_At
<1>12. Top = [k \in {0} |-> [PBA |-> snap.PBA, Hash |-> snap.Hash]]
  BY <1>10 DEF Top
<1>13. \A l \in 0 .. n - 1 : f[l] = Children_At(f[l + 1], l)
  BY ONLY <1>9, <1>11
<1> QED BY ONLY <1>9, <1>12, <1>13 DEF f, n, Nodes_By_Level

(* A node of the current tree, and a child as its parent knows it.         *)
VBD_Node(snap, l, k) == VBD_Nodes(snap)[l][k]
Child(node, c)       == node.Hash[c]
Nr_Of(l)             == Nr_Of_VBD_Nodes[l]

(* The index of the node at a level on the way to an address.              *)
Idx(vba, l)  == vba \div VBD_Node_Nr_Of_VBAs[l]
Way_To(vba)  == [l \in Level |-> <<l, Idx(vba, l)>>]

VBD_Use(snap) ==
  [p \in V_Place |-> IF p[1] \in Level /\ p[2] \in VBD_Places(p[1])
                     THEN VBD_Node(snap, p[1], p[2]).PBA ELSE 0]

(* The form of the inner nodes.                                            *)
Is_Node(x) == "PBA" \in DOMAIN x /\ "Gen" \in DOMAIN x /\ "Hash" \in DOMAIN x
Inner_Content(x) ==
  DOMAIN x = 0 .. Degree - 1 /\ \A c \in 0 .. Degree - 1 : Is_Node(x[c])
VBD_OK(snap) ==
  /\ \A l \in Level : \A k \in 0 .. Nr_Of(l) - 1 : VBD_Node(snap, l, k).PBA # 0
  /\ \A l \in 1 .. Max_Level : \A k \in 0 .. Nr_Of(l) - 1 :
       Inner_Content(VBD_Node(snap, l, k).Hash)

(* The numbers of the levels and degrees.                                  *)
LEMMA Numbers ==
  /\ Max_Level \in Nat /\ Max_Level > 1 /\ Degree \in Nat /\ Degree > 1
  /\ Free_Degree \in Nat /\ Free_Degree > 1 /\ Meta_Degree \in Nat /\ Meta_Degree > 1
  /\ Level = 0 .. Max_Level /\ Leafs \in Nat \ {0}
  BY WritePathAssumption DEF Level

(* Each node has a place, and each place a parent.                         *)
LEMMA NodesHavePlaces ==
  /\ \A l \in Level : /\ VBD_Places(l) \subseteq Nat
                      /\ \A k \in 0 .. Nr_Of(l) - 1 : k \in VBD_Places(l)
  /\ \A l \in 0 .. Max_Level - 1 : \A k \in VBD_Places(l) :
       /\ k \in Nat
       /\ k \div Degree \in 0 .. Nr_Of(l + 1) - 1 /\ k \div Degree \in VBD_Places(l + 1)
       /\ k % Degree \in 0 .. Degree - 1
       /\ k = Degree * (k \div Degree) + (k % Degree)
<1>1. \A l \in Level : Nr_Of(l) \in Nat \ {0} /\ Nr_Of(Max_Level) = 1
  BY NrOfVBDNodes DEF Nr_Of
<1>2. \A l \in 0 .. Max_Level - 1 : l \in Level /\ l + 1 \in Level /\ l # Max_Level /\ Nr_Of(l) <= Degree * Nr_Of(l + 1)
  <2> TAKE l \in 0 .. Max_Level - 1
  <2>1. l \in Level /\ l + 1 \in Level /\ l # Max_Level /\ l + 1 \in 1 .. Max_Level
    BY Numbers
  <2>2. Nr_Of(l + 1) = Nr_Of_Nodes(Nr_Of(l), Degree)
    BY <2>1, NrOfVBDNodes DEF Nr_Of
  <2> DEFINE x == Nr_Of(l)
             y == Nr_Of(l + 1)
  <2>3. y = (x + Degree - 1) \div Degree /\ x \in Nat /\ y \in Nat /\ Degree \in Nat /\ Degree > 1
    BY <2>1, <2>2, <1>1, Numbers DEF Nr_Of_Nodes
  <2> HIDE DEF x, y
  <2>4. x <= Degree * y
    BY <2>3
  <2> QED BY <2>1, <2>4 DEF x, y
<1>3. \A l \in 0 .. Max_Level - 1 : VBD_Places(l) = 0 .. Degree * Nr_Of(l + 1) - 1
  BY <1>2 DEF VBD_Places, Nr_Of
<1>4. VBD_Places(Max_Level) = {0}
  BY DEF VBD_Places
<1>5. \A l \in Level : l = Max_Level \/ l \in 0 .. Max_Level - 1
  BY Numbers
<1>6. ASSUME NEW l \in Level
      PROVE  VBD_Places(l) \subseteq Nat /\ \A k \in 0 .. Nr_Of(l) - 1 : k \in VBD_Places(l)
  <2>1. CASE l = Max_Level
    BY <2>1, <1>1, <1>4
  <2>2. CASE l \in 0 .. Max_Level - 1
    <3>1. /\ VBD_Places(l) = 0 .. Degree * Nr_Of(l + 1) - 1 /\ Nr_Of(l) <= Degree * Nr_Of(l + 1)
          /\ Nr_Of(l) \in Nat /\ Nr_Of(l + 1) \in Nat /\ Degree \in Nat
      BY <2>2, <1>1, <1>2, <1>3, Numbers
    <3> QED BY <3>1
  <2> QED BY <2>1, <2>2, <1>5
<1>7. ASSUME NEW l \in 0 .. Max_Level - 1, NEW k \in VBD_Places(l)
      PROVE  /\ k \in Nat
             /\ k \div Degree \in 0 .. Nr_Of(l + 1) - 1 /\ k \div Degree \in VBD_Places(l + 1)
             /\ k % Degree \in 0 .. Degree - 1
             /\ k = Degree * (k \div Degree) + (k % Degree)
  <2> DEFINE n == Nr_Of(l + 1)
  <2>1. k \in 0 .. Degree * n - 1 /\ n \in Nat \ {0} /\ Degree \in Nat /\ Degree > 1
    BY <1>1, <1>2, <1>3, Numbers
  <2> HIDE DEF n
  <2>2. /\ k \in Nat /\ k \div Degree \in 0 .. n - 1
        /\ k % Degree \in 0 .. Degree - 1
        /\ k = Degree * (k \div Degree) + (k % Degree)
    <3>1. k \in Nat /\ k < Degree * n /\ n \in Nat /\ Degree \in Nat /\ Degree > 0
      BY <2>1
    <3> DEFINE q == k \div Degree
               m == k % Degree
    <3>2. q \in Nat /\ m \in 0 .. Degree - 1 /\ k = Degree * q + m
      BY ONLY <3>1
    <3> HIDE DEF q, m
    <3>3. Degree * q < Degree * n
      BY ONLY <3>1, <3>2
    <3>4. q < n
      <4>1. CASE q >= n
        <5>1. Degree * q >= Degree * n
          <6> DEFINE e == q - n
          <6>1. e \in Nat /\ q = n + e
            BY ONLY <4>1, <3>1, <3>2
          <6> HIDE DEF e
          <6>2. Degree * q = Degree * n + Degree * e
            BY ONLY <6>1, <3>1
          <6>3. Degree * e \in Nat /\ Degree * n \in Int
            BY ONLY <6>1, <3>1
          <6> QED BY ONLY <6>2, <6>3
        <5>2. Degree * q \in Int /\ Degree * n \in Int
          BY ONLY <3>1, <3>2
        <5> QED BY ONLY <5>1, <5>2, <3>3
      <4> QED BY <4>1, <3>1, <3>2
    <3>5. q \in 0 .. n - 1 /\ k \in Nat
      BY ONLY <3>1, <3>2, <3>4
    <3>6. k \in Nat /\ q \in 0 .. n - 1 /\ m \in 0 .. Degree - 1 /\ k = Degree * q + m
      BY ONLY <3>2, <3>5
    <3> QED BY <3>6, Zenon DEF q, m
  <2> QED BY <2>2, <1>2, <1>6 DEF n
<1> QED BY <1>6, <1>7

(* The way to an address.                                                  *)
LEMMA OnTheWay ==
  ASSUME NEW vba \in VBA
  PROVE  /\ \A l \in Level : Idx(vba, l) \in 0 .. Nr_Of(l) - 1 /\ Idx(vba, l) \in VBD_Places(l)
         /\ Idx(vba, Max_Level) = 0
         /\ \A l \in 0 .. Max_Level - 1 : /\ Idx(vba, l + 1) = Idx(vba, l) \div Degree
                                          /\ Child_Idx_For_VBA(vba, l + 1) = Idx(vba, l) % Degree
                                          /\ Child_Idx_For_VBA(vba, l + 1) \in 0 .. Degree - 1
         /\ Way(Way_To(vba))
<1>1. vba \in Nat /\ vba < Leafs
  BY Numbers DEF VBA
<1>2. ASSUME NEW l \in 0 .. Max_Level - 1
      PROVE  /\ Idx(vba, l) \in Nat
             /\ Idx(vba, l + 1) = Idx(vba, l) \div Degree
             /\ Child_Idx_For_VBA(vba, l + 1) = Idx(vba, l) % Degree
             /\ Child_Idx_For_VBA(vba, l + 1) \in 0 .. Degree - 1
  <2>1. l \in Level /\ l + 1 \in 1 .. Max_Level /\ (l + 1) - 1 = l
    BY Numbers
  <2> DEFINE a == VBD_Node_Nr_Of_VBAs[l]
             b == VBD_Node_Nr_Of_VBAs[l + 1]
  <2>2. a \in Nat \ {0} /\ b = Degree * a
    BY <2>1, NrOfVBAs
  <2>5. Idx(vba, l) = vba \div a /\ Idx(vba, l + 1) = vba \div b /\ Child_Idx_For_VBA(vba, l + 1) = (vba \div a) % Degree
    BY <2>1 DEF Idx, Child_Idx_For_VBA
  <2> HIDE DEF a, b
  <2>6. Degree \in Nat /\ Degree > 1
    BY Numbers
  <2>3. vba \div b = (vba \div a) \div Degree /\ vba \div a \in Nat
    <3>1. Degree \in Nat \ {0} /\ a \in Nat \ {0} /\ vba \in Nat
      BY <1>1, <2>2, <2>6
    <3>2. (vba \div a) \div Degree = vba \div (a * Degree)
      BY ONLY <3>1
    <3>3. a * Degree = Degree * a
      BY ONLY <3>1
    <3>4. vba \div a \in Nat
      BY ONLY <3>1
    <3> QED BY <3>2, <3>3, <3>4, <2>2
  <2>4. (vba \div a) % Degree \in 0 .. Degree - 1
    BY <2>3, <2>6
  <2> QED BY <2>3, <2>4, <2>5
<1> DEFINE S == {l \in Nat : l <= Max_Level => Idx(vba, l) \in 0 .. Nr_Of(l) - 1}
<1>3. 0 \in S
  <2>1. Idx(vba, 0) = vba
    BY <1>1, NrOfVBAs DEF Idx
  <2> QED BY <2>1, <1>1, NrOfVBDNodes, Numbers DEF Nr_Of
<1>4. ASSUME NEW l \in Nat, l \in S PROVE l + 1 \in S
  <2> SUFFICES ASSUME l + 1 <= Max_Level PROVE Idx(vba, l + 1) \in 0 .. Nr_Of(l + 1) - 1
    OBVIOUS
  <2>1. l \in 0 .. Max_Level - 1 /\ l \in Level /\ l + 1 \in Level /\ l + 1 \in 1 .. Max_Level /\ (l + 1) - 1 = l
    BY Numbers
  <2>2. Idx(vba, l) \in 0 .. Nr_Of(l) - 1
    <3>1. l <= Max_Level
      BY <2>1, Numbers
    <3> QED BY <3>1, <1>4
  <2>3. Nr_Of(l + 1) = Nr_Of_Nodes(Nr_Of(l), Degree) /\ Nr_Of(l) \in Nat
    BY <2>1, NrOfVBDNodes DEF Nr_Of
  <2>4. Idx(vba, l) \in Nat /\ Idx(vba, l) < Nr_Of(l)
    BY <2>2, <2>3
  <2>5. Idx(vba, l) \div Degree \in Nat /\ Idx(vba, l) \div Degree < Nr_Of_Nodes(Nr_Of(l), Degree)
    BY <2>3, <2>4, NrOfNodes
  <2>6. Idx(vba, l + 1) = Idx(vba, l) \div Degree
    BY <2>1, <1>2
  <2>7. Nr_Of(l + 1) \in Nat
    BY <2>1, NrOfVBDNodes DEF Nr_Of
  <2> QED BY <2>3, <2>5, <2>6, <2>7
<1> HIDE DEF S
<1>5. \A l \in Level : Idx(vba, l) \in 0 .. Nr_Of(l) - 1
  <2>1. Nat \subseteq S
    BY <1>3, <1>4, SetInduction
  <2> QED BY <2>1, Numbers DEF S
<1>6. Idx(vba, Max_Level) = 0
  <2>1. Nr_Of(Max_Level) = 1 /\ Max_Level \in Level
    BY NrOfVBDNodes, Numbers DEF Nr_Of
  <2> QED BY <2>1, <1>5
<1>7. Way(Way_To(vba))
  <2>1. \A l \in Level : l \in Int /\ Idx(vba, l) \in Int
    BY <1>5, Numbers
  <2> QED BY <2>1 DEF Way, Way_To, V_Place
<1> QED BY <1>2, <1>5, <1>6, <1>7, NodesHavePlaces

(* The nodes of the current tree, one by one.                              *)
LEMMA VBDNodeBelow ==
  ASSUME NEW snap
  PROVE  /\ VBD_Node(snap, Max_Level, 0) = [PBA |-> snap.PBA, Hash |-> snap.Hash]
         /\ \A l \in 0 .. Max_Level - 1 : \A k \in VBD_Places(l) :
              VBD_Node(snap, l, k) = Child(VBD_Node(snap, l + 1, k \div Degree), k % Degree)
<1> DEFINE at == VBD_Nodes(snap)
<1>1. Nodes_By_Level(snap, at)
  BY VBDNodes
<1> HIDE DEF at
<1>2. at[Max_Level][0] = [PBA |-> snap.PBA, Hash |-> snap.Hash]
  BY ONLY <1>1 DEF Nodes_By_Level
<1>3. ASSUME NEW l \in 0 .. Max_Level - 1, NEW k \in VBD_Places(l)
      PROVE  at[l][k] = at[l + 1][k \div Degree].Hash[k % Degree]
  <2> DEFINE above == at[l + 1]
  <2>1. at[l] = Children_At(above, l)
    BY ONLY <1>1 DEF Nodes_By_Level
  <2> HIDE DEF above
  <2>2. Children_At(above, l)[k] = above[k \div Degree].Hash[k % Degree]
    BY ONLY k \in VBD_Places(l) DEF Children_At
  <2> QED BY ONLY <2>1, <2>2 DEF above
<1> QED BY <1>2, <1>3 DEF VBD_Node, Child, at

(* Who walks down to an address comes by the nodes on the way.             *)
LEMMA WalkIsWay ==
  ASSUME NEW vba \in VBA, NEW snap, NEW walk, walk = Type_1_Node_Walk(snap, vba)
  PROVE  \A l \in Level : /\ walk[l].PBA = VBD_Node(snap, l, Idx(vba, l)).PBA
                          /\ walk[l].Hash = VBD_Node(snap, l, Idx(vba, l)).Hash
<1> DEFINE P(l) == /\ walk[l].PBA = VBD_Node(snap, l, Idx(vba, l)).PBA
                   /\ walk[l].Hash = VBD_Node(snap, l, Idx(vba, l)).Hash
           S == {m \in Nat : m <= Max_Level => P(Max_Level - m)}
<1>1. Max_Level \in Nat /\ Level = 0 .. Max_Level
  BY Numbers
<1>2. /\ walk[Max_Level] = [PBA |-> snap.PBA, Gen |-> snap.Gen, Hash |-> snap.Hash]
      /\ \A l \in 0 .. Max_Level - 1 : walk[l] = walk[l + 1].Hash[Child_Idx_For_VBA(vba, l + 1)]
  BY NodeWalk
<1>3. P(Max_Level)
  BY <1>2, OnTheWay, VBDNodeBelow
<1>4. ASSUME NEW l \in 0 .. Max_Level - 1, P(l + 1) PROVE P(l)
  <2>1. /\ Idx(vba, l + 1) = Idx(vba, l) \div Degree
        /\ Child_Idx_For_VBA(vba, l + 1) = Idx(vba, l) % Degree
    BY OnTheWay
  <2>2. Idx(vba, l) \in VBD_Places(l)
    BY <1>1, OnTheWay
  <2>3. VBD_Node(snap, l, Idx(vba, l)) = VBD_Node(snap, l + 1, Idx(vba, l + 1)).Hash[Idx(vba, l) % Degree]
    <3>1. VBD_Node(snap, l, Idx(vba, l)) =
            Child(VBD_Node(snap, l + 1, Idx(vba, l) \div Degree), Idx(vba, l) % Degree)
      BY <2>2, VBDNodeBelow
    <3> QED BY <3>1, <2>1 DEF Child
  <2>4. walk[l] = walk[l + 1].Hash[Idx(vba, l) % Degree]
    BY <1>2, <2>1
  <2>5. walk[l + 1].Hash = VBD_Node(snap, l + 1, Idx(vba, l + 1)).Hash
    BY <1>4
  <2>6. walk[l] = VBD_Node(snap, l, Idx(vba, l))
    <3> DEFINE h1 == walk[l + 1].Hash
               h2 == VBD_Node(snap, l + 1, Idx(vba, l + 1)).Hash
    <3>1. h1 = h2
      BY <2>5
    <3>2. walk[l] = h1[Idx(vba, l) % Degree] /\ VBD_Node(snap, l, Idx(vba, l)) = h2[Idx(vba, l) % Degree]
      BY <2>3, <2>4
    <3> HIDE DEF h1, h2
    <3> QED BY ONLY <3>1, <3>2
  <2> QED BY <2>6
<1> HIDE DEF P
<1>5. 0 \in S
  <2>1. Max_Level - 0 = Max_Level
    BY <1>1
  <2> QED BY <1>3, <2>1
<1>6. ASSUME NEW m \in Nat, m \in S PROVE m + 1 \in S
  <2> SUFFICES ASSUME m + 1 <= Max_Level PROVE P(Max_Level - (m + 1))
    OBVIOUS
  <2> DEFINE l == Max_Level - (m + 1)
  <2>1. l \in 0 .. Max_Level - 1 /\ l + 1 = Max_Level - m /\ m <= Max_Level
    BY <1>1
  <2>2. P(l + 1)
    BY <2>1, <1>6
  <2> HIDE DEF l
  <2>3. P(l)
    BY <2>1, <2>2, <1>4
  <2> QED BY <2>3 DEF l
<1> HIDE DEF S
<1>7. Nat \subseteq S
  BY <1>5, <1>6, SetInduction
<1>8. \A l \in Level : P(l)
  <2> TAKE l \in Level
  <2>1. Max_Level - l \in Nat /\ Max_Level - l <= Max_Level /\ Max_Level - (Max_Level - l) = l
    BY <1>1
  <2> QED BY <1>7, <2>1 DEF S
<1> QED BY <1>8 DEF P

(* What is written at the levels of a branch: each node with the child on  *)
(* the way replaced.                                                       *)
New_Branch(vba, walk, new, content) ==
  \A l \in 1 .. Max_Level :
    /\ DOMAIN content[l] = 0 .. Degree - 1
    /\ \A i \in 0 .. Degree - 1 :
         i # Child_Idx_For_VBA(vba, l) => content[l][i] = walk[l].Hash[i]
    /\ Is_Node(content[l][Child_Idx_For_VBA(vba, l)])
    /\ content[l][Child_Idx_For_VBA(vba, l)].PBA = new[l - 1]
    /\ content[l][Child_Idx_For_VBA(vba, l)].Hash = content[l - 1]

(* A tree with a branch written to new blocks.                             *)
LEMMA BranchReplaced ==
  ASSUME NEW vba \in VBA, NEW snap, NEW new, NEW content, NEW snap2,
         New_Branch(vba, Type_1_Node_Walk(snap, vba), new, content),
         snap2.PBA = new[Max_Level], snap2.Hash = content[Max_Level],
         \A l \in Level : new[l] # 0, VBD_OK(snap)
  PROVE  VBD_OK(snap2) /\ VBD_Use(snap2) = V_Use(VBD_Use(snap), Way_To(vba), new)
<1> DEFINE walk == Type_1_Node_Walk(snap, vba)
           at   == Way_To(vba)
           P(l) == /\ \A k \in VBD_Places(l) :
                        k # Idx(vba, l) => VBD_Node(snap2, l, k) = VBD_Node(snap, l, k)
                   /\ VBD_Node(snap2, l, Idx(vba, l)).PBA = new[l]
                   /\ VBD_Node(snap2, l, Idx(vba, l)).Hash = content[l]
           S == {m \in Nat : m <= Max_Level => P(Max_Level - m)}
<1>1. Max_Level \in Nat /\ Level = 0 .. Max_Level
  BY Numbers
<1>2. P(Max_Level)
  <2>1. VBD_Places(Max_Level) = {0} /\ Idx(vba, Max_Level) = 0
    BY OnTheWay DEF VBD_Places
  <2> QED BY <2>1, VBDNodeBelow
<1>3. ASSUME NEW l \in 0 .. Max_Level - 1, P(l + 1) PROVE P(l)
  <2> DEFINE c == Child_Idx_For_VBA(vba, l + 1)
  <2>1. l + 1 \in 1 .. Max_Level /\ l \in Level /\ l + 1 \in Level /\ (l + 1) - 1 = l
    BY <1>1
  <2>2. /\ Idx(vba, l + 1) = Idx(vba, l) \div Degree /\ c = Idx(vba, l) % Degree
        /\ c \in 0 .. Degree - 1 /\ Idx(vba, l) \in VBD_Places(l)
    BY <2>1, OnTheWay
  <2>3. /\ \A i \in 0 .. Degree - 1 : i # c => content[l + 1][i] = walk[l + 1].Hash[i]
        /\ content[l + 1][c].PBA = new[l] /\ content[l + 1][c].Hash = content[l]
    BY <2>1 DEF New_Branch
  <2>4. walk[l + 1].Hash = VBD_Node(snap, l + 1, Idx(vba, l + 1)).Hash
    BY <2>1, WalkIsWay
  <2>5. VBD_Node(snap2, l + 1, Idx(vba, l + 1)).Hash = content[l + 1]
    BY <1>3
  <2>6. ASSUME NEW k \in VBD_Places(l), k # Idx(vba, l)
        PROVE  VBD_Node(snap2, l, k) = VBD_Node(snap, l, k)
    <3> DEFINE q == k \div Degree
               r == k % Degree
    <3>1. q \in VBD_Places(l + 1) /\ r \in 0 .. Degree - 1 /\ k = Degree * q + r
      BY NodesHavePlaces
    <3>2. Idx(vba, l) = Degree * Idx(vba, l + 1) + c
      BY <2>2, NodesHavePlaces
    <3>3. /\ VBD_Node(snap2, l, k) = Child(VBD_Node(snap2, l + 1, q), r)
          /\ VBD_Node(snap, l, k) = Child(VBD_Node(snap, l + 1, q), r)
      BY VBDNodeBelow
    <3> HIDE DEF q, r, c
    <3>4. CASE q # Idx(vba, l + 1)
      BY <3>1, <3>3, <3>4, <1>3
    <3>5. CASE q = Idx(vba, l + 1)
      <4>1. r # c
        BY <3>1, <3>2, <3>5, <2>6
      <4>2. content[l + 1][r] = walk[l + 1].Hash[r]
        BY <3>1, <4>1, <2>3
      <4> QED BY <3>3, <3>5, <4>2, <2>4, <2>5 DEF Child
    <3> QED BY <3>4, <3>5
  <2>7. VBD_Node(snap2, l, Idx(vba, l)) = content[l + 1][c]
    BY <2>2, <2>5, VBDNodeBelow, SMTT(30) DEF Child
  <2> QED BY <2>3, <2>6, <2>7
<1> HIDE DEF P
<1>5. 0 \in S
  <2>1. Max_Level - 0 = Max_Level
    BY <1>1
  <2> QED BY <1>2, <2>1
<1>6. ASSUME NEW m \in Nat, m \in S PROVE m + 1 \in S
  <2> SUFFICES ASSUME m + 1 <= Max_Level PROVE P(Max_Level - (m + 1))
    OBVIOUS
  <2> DEFINE l == Max_Level - (m + 1)
  <2>1. l \in 0 .. Max_Level - 1 /\ l + 1 = Max_Level - m /\ m <= Max_Level
    BY <1>1
  <2>2. P(l + 1)
    BY <2>1, <1>6
  <2> HIDE DEF l
  <2>3. P(l)
    BY <2>1, <2>2, <1>3
  <2> QED BY <2>3 DEF l
<1> HIDE DEF S
<1>7. Nat \subseteq S
  BY <1>5, <1>6, SetInduction
<1>8. \A l \in Level : P(l)
  <2> TAKE l \in Level
  <2>1. Max_Level - l \in Nat /\ Max_Level - l <= Max_Level /\ Max_Level - (Max_Level - l) = l
    BY <1>1
  <2> QED BY <1>7, <2>1 DEF S
<1>9. VBD_OK(snap2)
  <2>4. ASSUME NEW l \in Level, NEW k \in 0 .. Nr_Of(l) - 1 PROVE VBD_Node(snap2, l, k).PBA # 0
    <3>1. k \in VBD_Places(l) /\ P(l)
      BY <1>8, NodesHavePlaces
    <3>2. VBD_Node(snap, l, k).PBA # 0 /\ new[l] # 0
      BY DEF VBD_OK
    <3> QED BY <3>1, <3>2 DEF P
  <2> SUFFICES ASSUME NEW l \in 1 .. Max_Level, NEW k \in 0 .. Nr_Of(l) - 1
               PROVE  Inner_Content(VBD_Node(snap2, l, k).Hash)
    BY <2>4 DEF VBD_OK
  <2>1. l \in Level /\ k \in VBD_Places(l) /\ P(l)
    BY <1>1, <1>8, NodesHavePlaces
  <2>2. CASE k # Idx(vba, l)
    BY <2>1, <2>2 DEF VBD_OK, P
  <2>3. CASE k = Idx(vba, l)
    <3> DEFINE c == Child_Idx_For_VBA(vba, l)
    <3>1. VBD_Node(snap2, l, k).Hash = content[l] /\ walk[l].Hash = VBD_Node(snap, l, k).Hash
      BY <2>1, <2>3, WalkIsWay DEF P
    <3>2. Inner_Content(VBD_Node(snap, l, k).Hash)
      BY DEF VBD_OK
    <3>3. \A i \in 0 .. Degree - 1 : Is_Node(walk[l].Hash[i])
      BY <3>1, <3>2 DEF Inner_Content
    <3>4. /\ DOMAIN content[l] = 0 .. Degree - 1
          /\ \A i \in 0 .. Degree - 1 : i # c => content[l][i] = walk[l].Hash[i]
          /\ Is_Node(content[l][c])
      BY DEF New_Branch
    <3> HIDE DEF c, walk
    <3>5. \A i \in 0 .. Degree - 1 : Is_Node(content[l][i])
      BY <3>3, <3>4
    <3> QED BY <3>1, <3>4, <3>5 DEF Inner_Content
  <2> QED BY <2>2, <2>3
<1>10. ASSUME NEW p \in V_Place PROVE VBD_Use(snap2)[p] = V_Use(VBD_Use(snap), at, new)[p]
  <2>1. Way(at) /\ \A l \in Level : at[l] = <<l, Idx(vba, l)>>
    BY OnTheWay DEF Way_To
  <2>2. p = <<p[1], p[2]>>
    BY DEF V_Place
  <2> HIDE DEF at
  <2>3. CASE \E l \in Level : p = at[l]
    <3>1. PICK l \in Level : p = at[l]
      BY <2>3
    <3>2. V_Use(VBD_Use(snap), at, new)[p] = new[l]
      BY <3>1, <2>1, VUseAt
    <3>3. p[1] = l /\ p[2] = Idx(vba, l)
      BY <3>1, <2>1
    <3>4. VBD_Use(snap2)[p] = VBD_Node(snap2, l, Idx(vba, l)).PBA
      BY <3>3, OnTheWay DEF VBD_Use
    <3> QED BY <3>2, <3>4, <1>8 DEF P
  <2>4. CASE \A l \in Level : p # at[l]
    <3>1. V_Use(VBD_Use(snap), at, new)[p] = VBD_Use(snap)[p]
      BY <2>4, <2>1, VUseAt
    <3>2. p[1] \in Level => p[2] # Idx(vba, p[1])
      BY <2>1, <2>2, <2>4
    <3>3. p[1] \in Level /\ p[2] \in VBD_Places(p[1]) =>
            VBD_Node(snap2, p[1], p[2]) = VBD_Node(snap, p[1], p[2])
      BY <3>2, <1>8 DEF P
    <3> QED BY <3>1, <3>3 DEF VBD_Use
  <2> QED BY <2>3, <2>4
<1>11. DOMAIN VBD_Use(snap2) = V_Place /\ DOMAIN V_Use(VBD_Use(snap), at, new) = V_Place
  BY DEF VBD_Use, V_Use
<1>12. VBD_Use(snap2) = V_Use(VBD_Use(snap), at, new)
  <2> DEFINE a == VBD_Use(snap2)
             b == V_Use(VBD_Use(snap), at, new)
  <2>1. a = [p \in V_Place |-> a[p]] /\ b = [p \in V_Place |-> b[p]]
    BY DEF VBD_Use, V_Use
  <2>2. \A p \in V_Place : a[p] = b[p]
    BY <1>10
  <2> HIDE DEF a, b
  <2>3. a = b
    BY <2>1, <2>2
  <2> QED BY <2>3 DEF a, b
<1> QED BY <1>9, <1>12 DEF at

(* A written branch is as the code says.                                   *)
LEMMA UpdatedBranch ==
  ASSUME NEW req, NEW leaf
  PROVE  LET content == Updated_Branch(req, leaf)
         IN /\ DOMAIN content = Level /\ content[0] = leaf
            /\ \A l \in 1 .. Max_Level :
                 content[l] = [blocks[req.Old_Blocks[l].PBA] EXCEPT ![Child_Idx_For_VBA(req.VBA, l)] =
                                 Update_Parent(req.New_Blocks[l - 1], req.Gen, content[l - 1])]
<1> DEFINE n          == Max_Level
           Start      == leaf
           Up(w, l)   == [blocks[req.Old_Blocks[l].PBA] EXCEPT ![Child_Idx_For_VBA(req.VBA, l)] =
                             Update_Parent(req.New_Blocks[l - 1], req.Gen, w)]
           Is(g, m)   == g = [l \in 0 .. m |-> IF l = 0 THEN Start ELSE Up(g[l - 1], l)]
           Exists(m)  == \E g : Is(g, m)
           S          == {m \in Nat : Exists(m)}
           f          == Updated_Branch(req, leaf)
<1>1. n \in Nat /\ Level = 0 .. n
  BY WritePathAssumption DEF Level
<1>2. f = CHOOSE w : w = [l \in Level |-> IF l = 0 THEN Start ELSE Up(w[l - 1], l)]
  BY DEF Updated_Branch
<1> HIDE DEF Start, Up, n, Exists, f
<1>3. 0 \in S
  <2>1. Is([l \in 0 .. 0 |-> Start], 0)
    OBVIOUS
  <2> HIDE DEF Is
  <2> QED BY <2>1 DEF Exists
<1>4. ASSUME NEW m \in Nat, m \in S PROVE m + 1 \in S
  <2>1. PICK g : Is(g, m)
    <3>1. Exists(m)
      BY <1>4
    <3> QED BY <3>1 DEF Exists
  <2> DEFINE h == [l \in 0 .. m + 1 |-> IF l = m + 1 THEN Up(g[m], l) ELSE g[l]]
  <2>2. \A l \in 0 .. m + 1 : h[l] = IF l = 0 THEN Start ELSE Up(h[l - 1], l)
    <3> TAKE l \in 0 .. m + 1
    <3>1. CASE l = m + 1
      <4>1. h[l] = Up(g[m], l) /\ h[l - 1] = g[m]
        BY <3>1
      <4> QED BY <4>1, <3>1
    <3>2. CASE l # m + 1
      <4>1. l \in 0 .. m /\ h[l] = g[l]
        BY <3>2
      <4>2. l # 0 => h[l - 1] = g[l - 1]
        BY <3>2
      <4>3. g[l] = IF l = 0 THEN Start ELSE Up(g[l - 1], l)
        BY <2>1, <4>1
      <4> QED BY <4>1, <4>2, <4>3
    <3> QED BY <3>1, <3>2
  <2>3. Is(h, m + 1)
    BY <2>2
  <2> HIDE DEF Is, h
  <2> QED BY <2>3 DEF Exists
<1> HIDE DEF S
<1>5. Nat \subseteq S
  BY <1>3, <1>4, SetInduction
<1>6. Exists(n)
  BY <1>1, <1>5 DEF S
<1>7. PICK g : g = [l \in Level |-> IF l = 0 THEN Start ELSE Up(g[l - 1], l)]
  BY <1>1, <1>6 DEF Exists
<1>8. f = [l \in Level |-> IF l = 0 THEN Start ELSE Up(f[l - 1], l)]
  BY <1>2, <1>7
<1>9. DOMAIN f = Level /\ f[0] = Start /\ \A l \in 1 .. n : f[l] = Up(f[l - 1], l)
  BY <1>1, <1>8
<1> QED BY <1>9 DEF f, n, Start, Up

(* The node above the content below, when an address is rekeyed.           *)
Rekeyed_Node(walk, new, below, l) ==
  [blocks[walk[l].PBA] EXCEPT ![Child_Idx_For_VBA(rkg.VBA, l)].PBA  = new[l - 1],
                              ![Child_Idx_For_VBA(rkg.VBA, l)].Hash = below]

Branch_Rekeyed(walk, new, content) ==
  /\ DOMAIN content = Level
  /\ \A l \in 1 .. Max_Level :
       l \in Levels_Read(walk) => content[l] = Rekeyed_Node(walk, new, content[l - 1], l)

(* What is written at each level, by the level below, when an address is   *)
(* rekeyed.                                                                *)
LEMMA RekeyedBranch ==
  ASSUME NEW walk, NEW new
  PROVE  Branch_Rekeyed(walk, new, Rekeyed_Branch(walk, new))
<1> DEFINE n          == Max_Level
           Start      == IF 0 \notin Levels_Read(walk) THEN rkg.Blks[0]
                         ELSE Leaf(Decrypted(blocks[walk[0].PBA], sb.Previous_Key), sb.Current_Key)
           Up(w, l)   == IF l \notin Levels_Read(walk) THEN rkg.Blks[l]
                         ELSE [blocks[walk[l].PBA] EXCEPT
                                 ![Child_Idx_For_VBA(rkg.VBA, l)].PBA  = new[l - 1],
                                 ![Child_Idx_For_VBA(rkg.VBA, l)].Hash = w]
           Is(g, m)   == g = [l \in 0 .. m |-> IF l = 0 THEN Start ELSE Up(g[l - 1], l)]
           Exists(m)  == \E g : Is(g, m)
           S          == {m \in Nat : Exists(m)}
           f          == Rekeyed_Branch(walk, new)
<1>1. n \in Nat /\ Level = 0 .. n
  BY WritePathAssumption DEF Level
<1>2. f = CHOOSE w : w = [l \in Level |-> IF l = 0 THEN Start ELSE Up(w[l - 1], l)]
  <2> DEFINE L0       == Leaf(Decrypted(blocks[walk[0].PBA], sb.Previous_Key), sb.Current_Key)
             Up2(w, l) == [blocks[walk[l].PBA] EXCEPT
                             ![Child_Idx_For_VBA(rkg.VBA, l)].PBA  = new[l - 1],
                             ![Child_Idx_For_VBA(rkg.VBA, l)].Hash = w]
  <2>1. f = CHOOSE w : w = [l \in Level |-> IF l \notin Levels_Read(walk) THEN rkg.Blks[l]
                                            ELSE IF l = 0 THEN L0 ELSE Up2(w[l - 1], l)]
    BY DEF Rekeyed_Branch
  <2>2. Start = (IF 0 \notin Levels_Read(walk) THEN rkg.Blks[0] ELSE L0)
    OBVIOUS
  <2>3. \A w, l : Up(w, l) = IF l \notin Levels_Read(walk) THEN rkg.Blks[l] ELSE Up2(w, l)
    OBVIOUS
  <2> HIDE DEF Start, Up, L0, Up2, f
  <2>4. \A w : [l \in Level |-> IF l \notin Levels_Read(walk) THEN rkg.Blks[l]
                                 ELSE IF l = 0 THEN L0 ELSE Up2(w[l - 1], l)] =
               [l \in Level |-> IF l = 0 THEN Start ELSE Up(w[l - 1], l)]
    BY <2>2, <2>3
  <2> QED BY <2>1, <2>4
<1> HIDE DEF Start, Up, n, Exists, f
<1>3. 0 \in S
  <2>1. Is([l \in 0 .. 0 |-> Start], 0)
    OBVIOUS
  <2> HIDE DEF Is
  <2> QED BY <2>1 DEF Exists
<1>4. ASSUME NEW m \in Nat, m \in S PROVE m + 1 \in S
  <2>1. PICK g : Is(g, m)
    <3>1. Exists(m)
      BY <1>4
    <3> QED BY <3>1 DEF Exists
  <2> DEFINE h == [l \in 0 .. m + 1 |-> IF l = m + 1 THEN Up(g[m], l) ELSE g[l]]
  <2>2. \A l \in 0 .. m + 1 : h[l] = IF l = 0 THEN Start ELSE Up(h[l - 1], l)
    <3> TAKE l \in 0 .. m + 1
    <3>1. CASE l = m + 1
      <4>1. h[l] = Up(g[m], l) /\ h[l - 1] = g[m]
        BY <3>1
      <4> QED BY <4>1, <3>1
    <3>2. CASE l # m + 1
      <4>1. l \in 0 .. m /\ h[l] = g[l]
        BY <3>2
      <4>2. l # 0 => h[l - 1] = g[l - 1]
        BY <3>2
      <4>3. g[l] = IF l = 0 THEN Start ELSE Up(g[l - 1], l)
        BY <2>1, <4>1
      <4> QED BY <4>1, <4>2, <4>3
    <3> QED BY <3>1, <3>2
  <2>3. Is(h, m + 1)
    BY <2>2
  <2> HIDE DEF Is, h
  <2> QED BY <2>3 DEF Exists
<1> HIDE DEF S
<1>5. Nat \subseteq S
  BY <1>3, <1>4, SetInduction
<1>6. Exists(n)
  BY <1>1, <1>5 DEF S
<1>7. PICK g : g = [l \in Level |-> IF l = 0 THEN Start ELSE Up(g[l - 1], l)]
  BY <1>1, <1>6 DEF Exists
<1>8. f = [l \in Level |-> IF l = 0 THEN Start ELSE Up(f[l - 1], l)]
  BY <1>2, <1>7
<1>9. DOMAIN f = Level /\ f[0] = Start /\ \A l \in 1 .. n : f[l] = Up(f[l - 1], l)
  BY <1>1, <1>8
<1>10. \A l \in 1 .. n : l \in Levels_Read(walk) => f[l] = Rekeyed_Node(walk, new, f[l - 1], l)
  <2>1. \A w, l : l \in Levels_Read(walk) => Up(w, l) = Rekeyed_Node(walk, new, w, l)
    BY DEF Up, Rekeyed_Node
  <2> QED BY ONLY <1>9, <2>1
<1> QED BY ONLY <1>9, <1>10 DEF f, n, Branch_Rekeyed

(* The nodes on the way have content of the right form.                    *)
LEMMA ContentOnTheWay ==
  ASSUME NEW vba \in VBA, NEW snap, VBD_OK(snap), NEW walk, walk = Type_1_Node_Walk(snap, vba)
  PROVE  /\ \A l \in Level : walk[l].PBA # 0 /\ walk[l].PBA = VBD_Use(snap)[Way_To(vba)[l]]
         /\ \A l \in 1 .. Max_Level : /\ Inner_Content(walk[l].Hash)
                                      /\ Child_Idx_For_VBA(vba, l) \in 0 .. Degree - 1
<1>1. ASSUME NEW l \in Level
      PROVE  walk[l].PBA # 0 /\ walk[l].PBA = VBD_Use(snap)[Way_To(vba)[l]]
  <2>1. walk[l].PBA = VBD_Node(snap, l, Idx(vba, l)).PBA
    BY WalkIsWay
  <2>2. Idx(vba, l) \in 0 .. Nr_Of(l) - 1 /\ Idx(vba, l) \in VBD_Places(l)
    BY OnTheWay
  <2>3. VBD_Node(snap, l, Idx(vba, l)).PBA # 0
    BY <2>2 DEF VBD_OK
  <2>4. Way_To(vba)[l] = <<l, Idx(vba, l)>> /\ <<l, Idx(vba, l)>> \in V_Place
    BY OnTheWay DEF Way_To, Way
  <2>5. <<l, Idx(vba, l)>>[1] = l /\ <<l, Idx(vba, l)>>[2] = Idx(vba, l)
    OBVIOUS
  <2>6. VBD_Use(snap)[Way_To(vba)[l]] = VBD_Node(snap, l, Idx(vba, l)).PBA
    BY <2>2, <2>4, <2>5 DEF VBD_Use
  <2> QED BY <2>1, <2>3, <2>6
<1>2. ASSUME NEW l \in 1 .. Max_Level
      PROVE  Inner_Content(walk[l].Hash) /\ Child_Idx_For_VBA(vba, l) \in 0 .. Degree - 1
  <2>1. l \in Level /\ l - 1 \in 0 .. Max_Level - 1 /\ (l - 1) + 1 = l
    BY Numbers
  <2>2. walk[l].Hash = VBD_Node(snap, l, Idx(vba, l)).Hash
    BY <2>1, WalkIsWay
  <2>3. Idx(vba, l) \in 0 .. Nr_Of(l) - 1
    BY <2>1, OnTheWay
  <2>4. Inner_Content(VBD_Node(snap, l, Idx(vba, l)).Hash)
    BY <2>3 DEF VBD_OK
  <2>5. \A k \in 0 .. Max_Level - 1 : Child_Idx_For_VBA(vba, k + 1) \in 0 .. Degree - 1
    BY OnTheWay
  <2>6. Child_Idx_For_VBA(vba, (l - 1) + 1) \in 0 .. Degree - 1
    BY <2>1, <2>5
  <2> QED BY <2>1, <2>2, <2>4, <2>6
<1> QED BY <1>1, <1>2

(* A write replaces the child on the way in each node.                     *)
LEMMA UpdatedBranchNew ==
  ASSUME NEW req, req.VBA \in VBA, NEW leaf, NEW snap, VBD_OK(snap),
         NEW walk, walk = Type_1_Node_Walk(snap, req.VBA),
         \A l \in 1 .. Max_Level : blocks[req.Old_Blocks[l].PBA] = walk[l].Hash
  PROVE  New_Branch(req.VBA, walk, req.New_Blocks, Updated_Branch(req, leaf))
<1> DEFINE vba     == req.VBA
           new     == req.New_Blocks
           content == Updated_Branch(req, leaf)
<1>1. \A l \in 1 .. Max_Level :
        content[l] = [blocks[req.Old_Blocks[l].PBA] EXCEPT ![Child_Idx_For_VBA(req.VBA, l)] =
                        Update_Parent(new[l - 1], req.Gen, content[l - 1])]
  BY UpdatedBranch
<1> SUFFICES ASSUME NEW l \in 1 .. Max_Level
             PROVE  /\ DOMAIN content[l] = 0 .. Degree - 1
                    /\ \A i \in 0 .. Degree - 1 :
                         i # Child_Idx_For_VBA(vba, l) => content[l][i] = walk[l].Hash[i]
                    /\ Is_Node(content[l][Child_Idx_For_VBA(vba, l)])
                    /\ content[l][Child_Idx_For_VBA(vba, l)].PBA = new[l - 1]
                    /\ content[l][Child_Idx_For_VBA(vba, l)].Hash = content[l - 1]
  BY DEF New_Branch
<1> DEFINE c    == Child_Idx_For_VBA(vba, l)
           old  == walk[l].Hash
           node == Update_Parent(new[l - 1], req.Gen, content[l - 1])
           cont == content[l]
<1>2. vba \in VBA
  OBVIOUS
<1>3. c \in 0 .. Degree - 1 /\ DOMAIN old = 0 .. Degree - 1
  BY <1>2, ContentOnTheWay DEF Inner_Content
<1>4. cont = [old EXCEPT ![c] = node]
  BY <1>1
<1>5. Is_Node(node) /\ node.PBA = new[l - 1] /\ node.Hash = content[l - 1]
  BY DEF Update_Parent, Is_Node
<1> HIDE DEF c, old, node, cont
<1>6. /\ DOMAIN cont = 0 .. Degree - 1 /\ cont[c] = node
      /\ \A i \in 0 .. Degree - 1 : i # c => cont[i] = old[i]
  BY <1>3, <1>4
<1> QED BY <1>5, <1>6 DEF cont, c, old

(* So does the rekeying of the newest snapshot.                            *)
LEMMA RekeyedBranchNew ==
  ASSUME rkg.VBA \in VBA, NEW new, NEW snap, VBD_OK(snap),
         NEW walk, walk = Type_1_Node_Walk(snap, rkg.VBA),
         \A l \in 1 .. Max_Level : l \in Levels_Read(walk) /\ blocks[walk[l].PBA] = walk[l].Hash
  PROVE  New_Branch(rkg.VBA, walk, new, Rekeyed_Branch(walk, new))
<1> DEFINE vba     == rkg.VBA
           content == Rekeyed_Branch(walk, new)
<1>0. \A l \in 1 .. Max_Level : l \in Levels_Read(walk)
  OBVIOUS
<1>1. ASSUME NEW l \in 1 .. Max_Level
      PROVE  content[l] = Rekeyed_Node(walk, new, content[l - 1], l)
  <2>1. Branch_Rekeyed(walk, new, content)
    BY RekeyedBranch
  <2> HIDE DEF content
  <2> QED BY ONLY <1>0, <2>1 DEF Branch_Rekeyed
<1> SUFFICES ASSUME NEW l \in 1 .. Max_Level
             PROVE  /\ DOMAIN content[l] = 0 .. Degree - 1
                    /\ \A i \in 0 .. Degree - 1 :
                         i # Child_Idx_For_VBA(vba, l) => content[l][i] = walk[l].Hash[i]
                    /\ Is_Node(content[l][Child_Idx_For_VBA(vba, l)])
                    /\ content[l][Child_Idx_For_VBA(vba, l)].PBA = new[l - 1]
                    /\ content[l][Child_Idx_For_VBA(vba, l)].Hash = content[l - 1]
  BY DEF New_Branch
<1> DEFINE c    == Child_Idx_For_VBA(vba, l)
           old  == walk[l].Hash
           cont == content[l]
           below == content[l - 1]
<1>2. vba \in VBA
  OBVIOUS
<1>3. c \in 0 .. Degree - 1 /\ DOMAIN old = 0 .. Degree - 1 /\ Is_Node(old[c])
  BY <1>2, ContentOnTheWay DEF Inner_Content
<1>4. cont = [old EXCEPT ![c].PBA = new[l - 1], ![c].Hash = below]
  <2>1. cont = Rekeyed_Node(walk, new, below, l)
    BY <1>1
  <2> HIDE DEF cont, below
  <2> QED BY <2>1 DEF Rekeyed_Node
<1> HIDE DEF c, old, cont, below
<1> DEFINE new_pba == new[l - 1]
           one     == [old EXCEPT ![c].PBA = new_pba]
           node1   == [old[c] EXCEPT !.PBA = new_pba]
           node    == [node1 EXCEPT !.Hash = below]
<1>5. Is_Node(node) /\ node.PBA = new_pba /\ node.Hash = below
  BY <1>3 DEF Is_Node
<1> HIDE DEF new_pba
<1>6. /\ DOMAIN one = 0 .. Degree - 1 /\ one[c] = node1
      /\ \A i \in 0 .. Degree - 1 : i # c => one[i] = old[i]
  BY <1>3
<1>7. cont = [one EXCEPT ![c].Hash = below]
  BY <1>4 DEF new_pba
<1> HIDE DEF one, node1
<1>8. /\ DOMAIN cont = 0 .. Degree - 1 /\ cont[c] = node
      /\ \A i \in 0 .. Degree - 1 : i # c => cont[i] = old[i]
  BY <1>3, <1>6, <1>7
<1> HIDE DEF node
<1> QED BY <1>5, <1>8 DEF cont, c, old, below, new_pba

(* A tree depends on its root alone.                                       *)
LEMMA SameTree ==
  ASSUME NEW snap, NEW snap2, snap2.PBA = snap.PBA, snap2.Hash = snap.Hash
  PROVE  VBD_Use(snap2) = VBD_Use(snap) /\ (VBD_OK(snap) => VBD_OK(snap2))
<1>1. VBD_Nodes(snap2) = VBD_Nodes(snap)
  BY DEF VBD_Nodes
<1>2. \A l, k : VBD_Node(snap2, l, k) = VBD_Node(snap, l, k)
  BY <1>1 DEF VBD_Node
<1> QED BY <1>2 DEF VBD_Use, VBD_OK

-----------------------------------------------------------------------------
(***************************************************************************)
(* The initial device.                                                     *)
(***************************************************************************)

(* A level of the virtual block device as the initializers leave it, given *)
(* the level below.                                                        *)
Level_Below(x, l) ==
  [i \in VBD_Places(l) |->
     IF i >= Nr_Of_VBD_Nodes[l] THEN Type_1_Node_Invalid
     ELSE [PBA |-> First_PBA[l] + i, Gen |-> 0,
           Hash |-> IF l = 0 THEN Zeros
                    ELSE [c \in 0 .. Degree - 1 |-> x[i * Degree + c]]]]

(* The initial levels are as the code says.                                *)
LEMMA InitialVBD ==
  /\ DOMAIN Initial_VBD = Level
  /\ Initial_VBD[0] = Level_Below(0, 0)
  /\ \A l \in 1 .. Max_Level : Initial_VBD[l] = Level_Below(Initial_VBD[l - 1], l)
<1> DEFINE n          == Max_Level
           Start      == Level_Below(0, 0)
           Up(w, l)   == Level_Below(w, l)
           Is(g, m)   == g = [l \in 0 .. m |-> IF l = 0 THEN Start ELSE Up(g[l - 1], l)]
           Exists(m)  == \E g : Is(g, m)
           S          == {m \in Nat : Exists(m)}
           f          == Initial_VBD
<1>1. n \in Nat /\ Level = 0 .. n
  BY WritePathAssumption DEF Level
<1>2. f = CHOOSE w : w = [l \in Level |-> IF l = 0 THEN Start ELSE Up(w[l - 1], l)]
  <2>1. f = CHOOSE w : w = [l \in Level |-> Level_Below(w[l - 1], l)]
    BY DEF Initial_VBD, Level_Below
  <2>2. \A x : Level_Below(x, 0) = Start
    BY DEF Level_Below
  <2> HIDE DEF Start, Up, f
  <2>3. \A w : [l \in Level |-> Level_Below(w[l - 1], l)] =
               [l \in Level |-> IF l = 0 THEN Start ELSE Level_Below(w[l - 1], l)]
    BY <2>2
  <2> QED BY <2>1, <2>3 DEF Up
<1> HIDE DEF Start, Up, n, Exists, f
<1>3. 0 \in S
  <2>1. Is([l \in 0 .. 0 |-> Start], 0)
    OBVIOUS
  <2> HIDE DEF Is
  <2> QED BY <2>1 DEF Exists
<1>4. ASSUME NEW m \in Nat, m \in S PROVE m + 1 \in S
  <2>1. PICK g : Is(g, m)
    <3>1. Exists(m)
      BY <1>4
    <3> QED BY <3>1 DEF Exists
  <2> DEFINE h == [l \in 0 .. m + 1 |-> IF l = m + 1 THEN Up(g[m], l) ELSE g[l]]
  <2>2. \A l \in 0 .. m + 1 : h[l] = IF l = 0 THEN Start ELSE Up(h[l - 1], l)
    <3> TAKE l \in 0 .. m + 1
    <3>1. CASE l = m + 1
      <4>1. h[l] = Up(g[m], l) /\ h[l - 1] = g[m]
        BY <3>1
      <4> QED BY <4>1, <3>1
    <3>2. CASE l # m + 1
      <4>1. l \in 0 .. m /\ h[l] = g[l]
        BY <3>2
      <4>2. l # 0 => h[l - 1] = g[l - 1]
        BY <3>2
      <4>3. g[l] = IF l = 0 THEN Start ELSE Up(g[l - 1], l)
        BY <2>1, <4>1
      <4> QED BY <4>1, <4>2, <4>3
    <3> QED BY <3>1, <3>2
  <2>3. Is(h, m + 1)
    BY <2>2
  <2> HIDE DEF Is, h
  <2> QED BY <2>3 DEF Exists
<1> HIDE DEF S
<1>5. Nat \subseteq S
  BY <1>3, <1>4, SetInduction
<1>6. Exists(n)
  BY <1>1, <1>5 DEF S
<1>7. PICK g : g = [l \in Level |-> IF l = 0 THEN Start ELSE Up(g[l - 1], l)]
  BY <1>1, <1>6 DEF Exists
<1>8. f = [l \in Level |-> IF l = 0 THEN Start ELSE Up(f[l - 1], l)]
  BY <1>2, <1>7
<1>9. DOMAIN f = Level /\ f[0] = Start /\ \A l \in 1 .. n : f[l] = Up(f[l - 1], l)
  BY <1>1, <1>8
<1> QED BY <1>9 DEF f, n, Start, Up

(* The nodes of the initial levels.                                        *)
LEMMA InitialNodes ==
  ASSUME NEW l \in Level, NEW i \in VBD_Places(l)
  PROVE  /\ Is_Node(Initial_VBD[l][i])
         /\ i >= Nr_Of(l) => Initial_VBD[l][i].PBA = 0
         /\ i < Nr_Of(l) => Initial_VBD[l][i].PBA = First_PBA[l] + i
         /\ i < Nr_Of(l) /\ l # 0 =>
              /\ DOMAIN Initial_VBD[l][i].Hash = 0 .. Degree - 1
              /\ \A c \in 0 .. Degree - 1 :
                   Initial_VBD[l][i].Hash[c] = Initial_VBD[l - 1][i * Degree + c]
<1> DEFINE x == IF l = 0 THEN 0 ELSE Initial_VBD[l - 1]
<1>1. Initial_VBD[l] = Level_Below(x, l)
  BY InitialVBD, Numbers
<1> DEFINE hash == IF l = 0 THEN Zeros ELSE [c \in 0 .. Degree - 1 |-> x[i * Degree + c]]
           node == Initial_VBD[l][i]
<1>2. node = IF i >= Nr_Of(l) THEN Type_1_Node_Invalid
             ELSE [PBA |-> First_PBA[l] + i, Gen |-> 0, Hash |-> hash]
  BY <1>1 DEF Level_Below, Nr_Of
<1>3. i \in Int /\ Nr_Of(l) \in Nat
  BY NodesHavePlaces, NrOfVBDNodes DEF Nr_Of
<1>4. l # 0 => /\ DOMAIN hash = 0 .. Degree - 1
               /\ \A c \in 0 .. Degree - 1 : hash[c] = Initial_VBD[l - 1][i * Degree + c]
  OBVIOUS
<1> HIDE DEF hash, node
<1>5. i >= Nr_Of(l) => Is_Node(node) /\ node.PBA = 0
  BY <1>2 DEF Type_1_Node_Invalid, Is_Node
<1>6. i < Nr_Of(l) => Is_Node(node) /\ node.PBA = First_PBA[l] + i /\ node.Hash = hash
  BY <1>2, <1>3 DEF Is_Node
<1> QED BY <1>3, <1>4, <1>5, <1>6 DEF node

(* The initial snapshot has these nodes.                                   *)
LEMMA InitialTree ==
  \A l \in Level : \A k \in VBD_Places(l) :
    /\ VBD_Node(Valid_Snap_Slot, l, k).PBA = Initial_VBD[l][k].PBA
    /\ VBD_Node(Valid_Snap_Slot, l, k).Hash = Initial_VBD[l][k].Hash
<1> DEFINE snap == Valid_Snap_Slot
           Q(l, k) == /\ VBD_Node(snap, l, k).PBA = Initial_VBD[l][k].PBA
                      /\ VBD_Node(snap, l, k).Hash = Initial_VBD[l][k].Hash
           P(l) == \A k \in VBD_Places(l) : Q(l, k)
           S == {m \in Nat : m <= Max_Level => P(Max_Level - m)}
<1>1. Max_Level \in Nat
  BY Numbers
<1>2. 0 \in S
  <2>1. VBD_Node(snap, Max_Level, 0) = [PBA |-> snap.PBA, Hash |-> snap.Hash]
    BY VBDNodeBelow
  <2>2. snap.PBA = Initial_VBD[Max_Level][0].PBA /\ snap.Hash = Initial_VBD[Max_Level][0].Hash
    BY DEF Valid_Snap_Slot
  <2>3. VBD_Places(Max_Level) = {0}
    BY DEF VBD_Places
  <2> HIDE DEF snap
  <2>4. Q(Max_Level, 0)
    BY <2>1, <2>2
  <2> HIDE DEF Q
  <2>5. P(Max_Level)
    BY <2>3, <2>4
  <2> HIDE DEF P
  <2>6. Max_Level - 0 = Max_Level
    BY <1>1
  <2> QED BY <2>5, <2>6, <1>1
<1>3. ASSUME NEW m \in Nat, m \in S PROVE m + 1 \in S
  <2> SUFFICES ASSUME m + 1 <= Max_Level PROVE P(Max_Level - (m + 1))
    OBVIOUS
  <2> DEFINE l == Max_Level - (m + 1)
  <2>1. l \in 0 .. Max_Level - 1 /\ l + 1 = Max_Level - m /\ l + 1 \in Level /\ l + 1 # 0 /\ (l + 1) - 1 = l
    BY <1>1 DEF Level
  <2> HIDE DEF P
  <2>2. P(l + 1)
    BY <1>1, <1>3, <2>1
  <2> HIDE DEF l
  <2> SUFFICES ASSUME NEW k \in VBD_Places(l) PROVE Q(l, k)
    BY DEF P, l
  <2> DEFINE q == k \div Degree
             c == k % Degree
  <2>3. /\ k \in Nat /\ q \in 0 .. Nr_Of(l + 1) - 1 /\ q \in VBD_Places(l + 1)
        /\ c \in 0 .. Degree - 1 /\ k = Degree * q + c
    BY <2>1, NodesHavePlaces
  <2>4. VBD_Node(snap, l, k) = Child(VBD_Node(snap, l + 1, q), c)
    BY <2>1, VBDNodeBelow
  <2> HIDE DEF q, c, snap
  <2>5. VBD_Node(snap, l + 1, q).Hash = Initial_VBD[l + 1][q].Hash
    BY <2>2, <2>3 DEF P
  <2>6. Initial_VBD[l + 1][q].Hash[c] = Initial_VBD[l][q * Degree + c]
    <3>1. q < Nr_Of(l + 1)
      BY <2>1, <2>3, NrOfVBDNodes DEF Nr_Of
    <3> QED BY <2>1, <2>3, <3>1, InitialNodes
  <2>7. q * Degree + c = k
    BY <2>3, Numbers
  <2>8. VBD_Node(snap, l, k) = Initial_VBD[l][k]
    BY <2>4, <2>5, <2>6, <2>7 DEF Child
  <2> QED BY <2>8
<1> HIDE DEF S
<1>4. Nat \subseteq S
  BY <1>2, <1>3, SetInduction
<1>5. ASSUME NEW l \in Level PROVE P(l)
  <2>1. Max_Level - l \in Nat /\ Max_Level - l <= Max_Level /\ Max_Level - (Max_Level - l) = l
    BY <1>1 DEF Level
  <2> HIDE DEF P
  <2> QED BY <1>4, <2>1 DEF S
<1> QED BY <1>5

(* The initial tree is of the right form.                                  *)
LEMMA InitialTreeOK == VBD_OK(Valid_Snap_Slot)
<1>1. ASSUME NEW l \in Level, NEW k \in 0 .. Nr_Of(l) - 1
      PROVE  VBD_Node(Valid_Snap_Slot, l, k).PBA # 0
  <2>1. k \in VBD_Places(l) /\ k < Nr_Of(l) /\ Nr_Of(l) \in Nat
    BY NodesHavePlaces, NrOfVBDNodes DEF Nr_Of
  <2>2. First_PBA[l] \in Nat \ {0}
    BY FirstPBA, Numbers
  <2>3. Initial_VBD[l][k].PBA = First_PBA[l] + k
    BY <2>1, InitialNodes
  <2>4. VBD_Node(Valid_Snap_Slot, l, k).PBA = First_PBA[l] + k
    BY <2>1, <2>3, InitialTree
  <2> QED BY <2>2, <2>4
<1>2. ASSUME NEW l \in 1 .. Max_Level, NEW k \in 0 .. Nr_Of(l) - 1
      PROVE  Inner_Content(VBD_Node(Valid_Snap_Slot, l, k).Hash)
  <2>1. l \in Level /\ l # 0 /\ l - 1 \in 0 .. Max_Level - 1 /\ l - 1 \in Level /\ l - 1 # Max_Level /\ (l - 1) + 1 = l
    BY Numbers
  <2>2. k \in VBD_Places(l) /\ k < Nr_Of(l) /\ Nr_Of(l) \in Nat
    BY <2>1, NodesHavePlaces, NrOfVBDNodes DEF Nr_Of
  <2> DEFINE hash == Initial_VBD[l][k].Hash
  <2>3. /\ DOMAIN hash = 0 .. Degree - 1
        /\ \A c \in 0 .. Degree - 1 : hash[c] = Initial_VBD[l - 1][k * Degree + c]
    BY <2>1, <2>2, InitialNodes
  <2>4. VBD_Node(Valid_Snap_Slot, l, k).Hash = hash
    BY <2>1, <2>2, InitialTree
  <2> HIDE DEF hash
  <2>5. ASSUME NEW c \in 0 .. Degree - 1 PROVE Is_Node(hash[c])
    <3>1. VBD_Places(l - 1) = 0 .. Degree * Nr_Of(l) - 1
      BY <2>1 DEF VBD_Places, Nr_Of
    <3>2. k + 1 <= Nr_Of(l) /\ k \in Nat /\ Degree \in Nat
      BY <2>2, Numbers
    <3>3. Degree * (k + 1) <= Degree * Nr_Of(l)
      BY <2>2, <3>2
    <3>4. k * Degree + c \in VBD_Places(l - 1)
      BY <2>2, <3>1, <3>2, <3>3
    <3> QED BY <2>1, <2>3, <3>4, InitialNodes
  <2> QED BY <2>3, <2>4, <2>5 DEF Inner_Content
<1> QED BY <1>1, <1>2 DEF VBD_OK

(* The levels follow each other on the device.                             *)
LEMMA FirstOrdered ==
  /\ \A m \in 0 .. Max_Level + 1 : \A l \in 0 .. Max_Level : l < m => First_PBA[l + 1] <= First_PBA[m]
  /\ \A n \in 1 .. First_PBA[Max_Level + 1] - 1 :
       \E l \in Level : First_PBA[l] <= n /\ n < First_PBA[l + 1]
<1> DEFINE F(m) == First_PBA[m]
           P(m) == /\ \A l \in 0 .. Max_Level : l < m => F(l + 1) <= F(m)
                   /\ \A n \in 1 .. F(m) - 1 : \E l \in Level : F(l) <= n /\ n < F(l + 1)
           S == {m \in Nat : m <= Max_Level + 1 => P(m)}
<1>1. /\ Max_Level \in Nat /\ Level = 0 .. Max_Level /\ F(0) = 1
      /\ \A l \in 0 .. Max_Level + 1 : F(l) \in Nat \ {0}
      /\ \A l \in 0 .. Max_Level : F(l) <= F(l + 1)
  <2>1. ASSUME NEW l \in 0 .. Max_Level PROVE F(l) <= F(l + 1)
    <3>1. l + 1 \in 1 .. Max_Level + 1 /\ (l + 1) - 1 = l /\ l \in 0 .. Max_Level + 1
      BY Numbers
    <3>2. Nr_Of_VBD_Nodes[l] \in Nat
      BY Numbers, NrOfVBDNodes
    <3>3. First_PBA[l + 1] = First_PBA[l] + Nr_Of_VBD_Nodes[l] /\ First_PBA[l] \in Nat
      BY <3>1, FirstPBA
    <3> QED BY <3>2, <3>3
  <2> QED BY <2>1, Numbers, FirstPBA
<1> HIDE DEF F
<1>2. 0 \in S
  <2>1. P(0)
    BY <1>1
  <2> QED BY <2>1
<1>3. ASSUME NEW m \in Nat, m \in S PROVE m + 1 \in S
  <2> SUFFICES ASSUME m + 1 <= Max_Level + 1 PROVE P(m + 1)
    OBVIOUS
  <2>1. m <= Max_Level + 1 /\ m \in 0 .. Max_Level /\ m \in Level /\ m \in 0 .. Max_Level + 1 /\ m + 1 \in 0 .. Max_Level + 1
    BY <1>1
  <2>2. P(m)
    BY <2>1, <1>3
  <2>3. F(m) <= F(m + 1) /\ F(m) \in Nat /\ F(m + 1) \in Nat
    BY <2>1, <1>1
  <2>4. ASSUME NEW l \in 0 .. Max_Level, l < m + 1 PROVE F(l + 1) <= F(m + 1)
    <3>1. CASE l = m
      BY <3>1, <2>3
    <3>2. CASE l < m
      <4>1. F(l + 1) <= F(m) /\ F(l + 1) \in Nat
        BY <3>2, <2>2, <1>1
      <4> QED BY <4>1, <2>3
    <3> QED BY <3>1, <3>2, <2>4, <1>1
  <2>5. ASSUME NEW n \in 1 .. F(m + 1) - 1
        PROVE  \E l \in Level : F(l) <= n /\ n < F(l + 1)
    <3>1. CASE n < F(m)
      <4>1. n \in 1 .. F(m) - 1
        BY <3>1, <2>3
      <4> QED BY <4>1, <2>2
    <3>2. CASE F(m) <= n
      <4>1. n < F(m + 1)
        BY <2>3
      <4> QED BY <3>2, <4>1, <2>1
    <3> QED BY <3>1, <3>2, <2>3
  <2> QED BY <2>4, <2>5
<1> HIDE DEF S
<1>4. Nat \subseteq S
  BY <1>2, <1>3, SetInduction
<1>5. ASSUME NEW m \in 0 .. Max_Level + 1 PROVE P(m)
  <2>1. m \in Nat /\ m <= Max_Level + 1
    BY <1>1
  <2> HIDE DEF P
  <2> QED BY <1>4, <2>1 DEF S
<1>6. P(Max_Level + 1)
  BY <1>1, <1>5
<1> QED BY <1>5, <1>6 DEF F

(* The blocks of the initial virtual block device: each is used once.      *)
LEMMA InitialVBDUse ==
  /\ DOMAIN VBD_Use(Valid_Snap_Slot) = V_Place
  /\ Inj(VBD_Use(Valid_Snap_Slot))
  /\ Blocks(VBD_Use(Valid_Snap_Slot)) = 1 .. First_PBA[Max_Level + 1] - 1
<1> DEFINE v    == VBD_Use(Valid_Snap_Slot)
           F(l) == First_PBA[l]
           N(l) == Nr_Of(l)
           In(p) == p[1] \in Level /\ p[2] \in 0 .. N(p[1]) - 1
<1>1. DOMAIN v = V_Place
  BY DEF VBD_Use
<1>2. ASSUME NEW l \in Level
      PROVE  /\ F(l) \in Nat \ {0} /\ F(l + 1) \in Nat /\ N(l) \in Nat /\ F(l + 1) = F(l) + N(l)
             /\ l \in Int
  <2>1. l \in 0 .. Max_Level + 1 /\ l + 1 \in 1 .. Max_Level + 1 /\ (l + 1) - 1 = l /\ l + 1 \in 0 .. Max_Level + 1
    BY Numbers
  <2> QED BY <2>1, FirstPBA, NrOfVBDNodes DEF Nr_Of
<1>3. ASSUME NEW p \in V_Place
      PROVE  /\ In(p) => v[p] = F(p[1]) + p[2]
             /\ ~In(p) => v[p] = 0
  <2>1. p[1] \in Int /\ p[2] \in Int
    BY DEF V_Place
  <2>2. CASE p[1] \in Level /\ p[2] \in VBD_Places(p[1])
    <3>1. v[p] = Initial_VBD[p[1]][p[2]].PBA
      BY <2>2, InitialTree DEF VBD_Use
    <3>2. p[2] \in Nat /\ N(p[1]) \in Nat
      BY <2>2, NodesHavePlaces, <1>2
    <3>3. /\ p[2] >= N(p[1]) => v[p] = 0
          /\ p[2] < N(p[1]) => v[p] = F(p[1]) + p[2]
      BY <2>2, <3>1, InitialNodes
    <3> HIDE DEF v, F, N
    <3> QED BY <3>2, <3>3, <2>2
  <2>3. CASE ~(p[1] \in Level /\ p[2] \in VBD_Places(p[1]))
    <3>1. v[p] = 0
      BY <2>3 DEF VBD_Use
    <3>2. ~In(p)
      BY <2>3, NodesHavePlaces
    <3> QED BY <3>1, <3>2
  <2> QED BY <2>2, <2>3
<1>9. /\ \A m \in 0 .. Max_Level + 1 : \A l \in 0 .. Max_Level : l < m => F(l + 1) <= F(m)
      /\ \A n \in 1 .. F(Max_Level + 1) - 1 : \E l \in Level : F(l) <= n /\ n < F(l + 1)
      /\ Level = 0 .. Max_Level /\ Max_Level \in Nat /\ F(Max_Level + 1) \in Nat
  <2>1. Max_Level \in Level
    BY Numbers
  <2> QED BY <2>1, <1>2, FirstOrdered, Numbers
<1> HIDE DEF v, F, N
<1>4. ASSUME NEW l \in Level, NEW m \in Level, l < m, NEW i \in 0 .. N(l) - 1, NEW k \in 0 .. N(m) - 1
      PROVE  F(l) + i # F(m) + k
  <2>1. F(l + 1) <= F(m)
    BY <1>4, <1>9
  <2>2. F(l) \in Nat /\ F(m) \in Nat /\ F(l + 1) = F(l) + N(l) /\ N(l) \in Nat /\ N(m) \in Nat
    BY <1>2
  <2> QED BY <2>1, <2>2
<1>5. ASSUME NEW p \in V_Place, NEW q \in V_Place, v[p] = v[q], v[p] # 0
      PROVE  p = q
  <2>1. In(p) /\ In(q) /\ v[p] = F(p[1]) + p[2] /\ v[q] = F(q[1]) + q[2]
    BY <1>3, <1>5
  <2>2. p = <<p[1], p[2]>> /\ q = <<q[1], q[2]>>
    BY DEF V_Place
  <2>3. ~(p[1] < q[1]) /\ ~(q[1] < p[1])
    BY <2>1, <1>4, <1>5
  <2>4. p[1] = q[1]
    BY <2>1, <2>3, <1>9
  <2>5. p[2] = q[2]
    BY <2>1, <2>4, <1>2, <1>5
  <2> QED BY <2>2, <2>4, <2>5
<1>6. ASSUME NEW n \in 1 .. F(Max_Level + 1) - 1
      PROVE  \E p \in V_Place : v[p] = n
  <2>1. PICK l \in Level : F(l) <= n /\ n < F(l + 1)
    BY <1>9
  <2> DEFINE p == <<l, n - F(l)>>
  <2>2. p[1] = l /\ p[2] = n - F(l)
    OBVIOUS
  <2>3. p \in V_Place /\ n - F(l) \in 0 .. N(l) - 1 /\ F(l) + (n - F(l)) = n
    BY <2>1, <1>2 DEF V_Place
  <2> HIDE DEF p
  <2>4. v[p] = n
    BY <2>1, <2>2, <2>3, <1>3
  <2> QED BY <2>3, <2>4
<1>7. ASSUME NEW p \in V_Place, v[p] # 0
      PROVE  v[p] \in 1 .. F(Max_Level + 1) - 1
  <2>1. p[1] \in Level /\ p[2] \in 0 .. N(p[1]) - 1 /\ v[p] = F(p[1]) + p[2]
    BY <1>3, <1>7
  <2>2. F(p[1] + 1) <= F(Max_Level + 1)
    <3>1. p[1] < Max_Level + 1 /\ Max_Level + 1 \in 0 .. Max_Level + 1
      BY <2>1, <1>9
    <3> QED BY <2>1, <3>1, <1>9
  <2>3. /\ F(p[1]) \in Nat \ {0} /\ F(p[1] + 1) \in Nat /\ N(p[1]) \in Nat
        /\ F(p[1] + 1) = F(p[1]) + N(p[1])
    BY <2>1, <1>2
  <2> DEFINE a == p[1]
             b == p[2]
             x == F(a)
             y == F(a + 1)
             z == F(Max_Level + 1)
  <2>4. /\ x \in Nat \ {0} /\ y \in Nat /\ z \in Nat /\ N(a) \in Nat /\ y = x + N(a)
        /\ b \in 0 .. N(a) - 1 /\ v[p] = x + b /\ y <= z
    BY <2>1, <2>2, <2>3, <1>9
  <2> HIDE DEF a, b, x, y, z
  <2>5. v[p] \in 1 .. z - 1
    BY ONLY <2>4
  <2> QED BY <2>5 DEF z
<1>8. Blocks(v) = 1 .. F(Max_Level + 1) - 1
  <2>1. 0 \notin 1 .. F(Max_Level + 1) - 1
    OBVIOUS
  <2> QED BY <2>1, <1>1, <1>6, <1>7 DEF Blocks
<1> QED BY <1>1, <1>5, <1>8 DEF Inj, v, F

(* Three parts that use different blocks.                                  *)
LEMMA AllUseOnce ==
  ASSUME NEW v, NEW f, NEW m, DOMAIN v = V_Place, DOMAIN f = T2_Place, DOMAIN m = T2_Place,
         Inj(v), Inj(f), Inj(m),
         \A x \in Blocks(v) : x \notin Blocks(f) /\ x \notin Blocks(m),
         \A x \in Blocks(f) : x \notin Blocks(m)
  PROVE  /\ Inj(All_Use(v, f, m))
         /\ Blocks(All_Use(v, f, m)) = Blocks(v) \cup Blocks(f) \cup Blocks(m)
<1> DEFINE g == All_Use(v, f, m)
<1>1. /\ DOMAIN g = Place
      /\ \A p \in V_Place : g[VBD_Place(p)] = v[p]
      /\ \A p \in T2_Place : g[Free_Place(p)] = f[p] /\ g[Meta_Place(p)] = m[p]
  BY AllUse
<1> HIDE DEF g
<1>2. /\ \A p \in V_Place : VBD_Place(p) \in Place
      /\ \A p \in T2_Place : Free_Place(p) \in Place /\ Meta_Place(p) \in Place
      /\ \A p \in Place : \/ \E q \in V_Place : p = VBD_Place(q)
                          \/ \E q \in T2_Place : p = Free_Place(q)
                          \/ \E q \in T2_Place : p = Meta_Place(q)
  BY Places
<1>3. Blocks(g) = Blocks(v) \cup Blocks(f) \cup Blocks(m)
  <2>1. \A x \in Blocks(g) : x \in Blocks(v) \cup Blocks(f) \cup Blocks(m)
    BY <1>1, <1>2 DEF Blocks
  <2>2. \A x \in Blocks(v) \cup Blocks(f) \cup Blocks(m) : x \in Blocks(g)
    BY <1>1, <1>2 DEF Blocks
  <2> QED BY <2>1, <2>2
<1>4. \A p \in V_Place : v[p] # 0 => v[p] \in Blocks(v)
  BY DEF Blocks
<1>5. \A p \in T2_Place : /\ f[p] # 0 => f[p] \in Blocks(f)
                          /\ m[p] # 0 => m[p] \in Blocks(m)
  BY DEF Blocks
<1>6. ASSUME NEW p \in Place, NEW q \in Place, g[p] = g[q], g[p] # 0
      PROVE  p = q
  <2>1. CASE \E a \in V_Place : p = VBD_Place(a)
    BY <2>1, <1>1, <1>2, <1>4, <1>5, <1>6 DEF Inj
  <2>2. CASE \E a \in T2_Place : p = Free_Place(a)
    BY <2>2, <1>1, <1>2, <1>4, <1>5, <1>6 DEF Inj
  <2>3. CASE \E a \in T2_Place : p = Meta_Place(a)
    BY <2>3, <1>1, <1>2, <1>4, <1>5, <1>6 DEF Inj
  <2> QED BY <1>2, <2>1, <2>2, <2>3
<1> QED BY <1>1, <1>3, <1>6 DEF Inj, g

(* Nodes that hold n nodes of the level below, and no more than that.      *)
LEMMA NodesFor ==
  ASSUME NEW n \in Nat \ {0}, NEW d \in Nat, d > 1
  PROVE  /\ Nr_Of_Nodes(n, d) \in Nat \ {0}
         /\ n <= d * Nr_Of_Nodes(n, d) /\ d * Nr_Of_Nodes(n, d) < n + d
         /\ Nr_Of_Nodes(n, d) = 1 => n <= d
<1> DEFINE q == (n + d - 1) \div d
           r == (n + d - 1) % d
<1>1. q \in Int /\ r \in 0 .. d - 1 /\ n + d - 1 = d * q + r
  OBVIOUS
<1> HIDE DEF q, r
<1>2. n <= d * q /\ d * q < n + d
  BY <1>1
<1>3. q > 0
  BY <1>1, <1>2
<1>4. q = 1 => n <= d
  BY <1>2
<1> QED BY <1>1, <1>2, <1>3, <1>4 DEF q, Nr_Of_Nodes

(* The tree of type-2 nodes as the initializers leave it.                  *)
LEMMA InitialT2Tree ==
  ASSUME NEW d \in Nat, d > 1, NEW first \in Nat \ {0}, NEW leafs \in Nat \ {0},
         Nr_Of_Nodes(Nr_Of_Nodes(leafs, d), d) = 1,
         NEW root, root = Initial_T2_Tree(first, d, leafs)
  PROVE  /\ T1_Root(root) /\ T2_Entries(d, root.Hash) /\ root.PBA \in Nat /\ first <= root.PBA
         /\ \A i \in 0 .. d - 1 :
              /\ root.Hash[i].PBA = 0 => root.Hash[i] = Type_1_Node_Invalid
              /\ root.Hash[i].PBA # 0 => \A j \in 0 .. d - 1 :
                   root.Hash[i].Hash[j].PBA = 0 => root.Hash[i].Hash[j] = Type_2_Node_Invalid
         /\ Inj(Root_Use(d, root, 0)) /\ Blocks(Root_Use(d, root, 0)) = first .. root.PBA
<1> DEFINE nodes == Nr_Of_Nodes(leafs, d)
           Entry(i, c) == IF i * d + c < leafs THEN Type_2_Node(first + i * d + c)
                          ELSE Type_2_Node_Invalid
           hash == [i \in 0 .. d - 1 |->
                      IF i >= nodes THEN Type_1_Node_Invalid
                      ELSE [PBA |-> first + leafs + i, Gen |-> 0,
                            Hash |-> [c \in 0 .. d - 1 |-> Entry(i, c)]]]
           use  == Root_Use(d, root, 0)
<1>1. nodes \in Nat \ {0} /\ leafs <= d * nodes /\ d * nodes < leafs + d
  BY NodesFor
<1>2. nodes <= d
  BY <1>1, NodesFor
<1>3. root = [PBA |-> first + leafs + nodes, Gen |-> 0, Hash |-> hash]
  BY DEF Initial_T2_Tree
<1> HIDE DEF nodes
<1>4. /\ DOMAIN root = {"PBA", "Gen", "Hash"}
      /\ root.PBA = first + leafs + nodes /\ root.PBA # 0 /\ root.PBA \in Nat /\ first <= root.PBA
      /\ root.Hash = hash
  BY <1>1, <1>3
<1>5. ASSUME NEW i \in 0 .. d - 1
      PROVE  /\ i >= nodes => hash[i] = Type_1_Node_Invalid
             /\ i < nodes => /\ hash[i].PBA = first + leafs + i /\ hash[i].PBA # 0
                             /\ DOMAIN hash[i].Hash = 0 .. d - 1
                             /\ \A j \in 0 .. d - 1 : hash[i].Hash[j] = Entry(i, j)
  <2>1. hash[i] = IF i >= nodes THEN Type_1_Node_Invalid
                  ELSE [PBA |-> first + leafs + i, Gen |-> 0,
                        Hash |-> [c \in 0 .. d - 1 |-> Entry(i, c)]]
    OBVIOUS
  <2> HIDE DEF hash, Entry
  <2> QED BY <2>1, <1>1
<1>6. ASSUME NEW i \in 0 .. d - 1, NEW j \in 0 .. d - 1
      PROVE  /\ "PBA" \in DOMAIN Entry(i, j)
             /\ i * d + j < leafs => Entry(i, j).PBA = first + i * d + j /\ Entry(i, j).PBA # 0
             /\ ~(i * d + j < leafs) => Entry(i, j) = Type_2_Node_Invalid /\ Entry(i, j).PBA = 0
  <2>1. first + i * d + j # 0
    <3>1. i * d \in Nat
      OBVIOUS
    <3> QED BY <3>1
  <2> QED BY <2>1 DEF Type_2_Node, Type_2_Node_Invalid
<1>7. Type_1_Node_Invalid.PBA = 0
  BY DEF Type_1_Node_Invalid
<1> HIDE DEF hash, Entry
<1>8. DOMAIN hash = 0 .. d - 1
  BY DEF hash
<1>9. \A i \in 0 .. d - 1 : i >= nodes <=> ~(i < nodes)
  BY <1>1
<1>10. T1_Root(root) /\ T2_Entries(d, root.Hash)
  <2>1. \A i \in 0 .. d - 1 : hash[i].PBA # 0 =>
           /\ DOMAIN hash[i].Hash = 0 .. d - 1
           /\ \A j \in 0 .. d - 1 : "PBA" \in DOMAIN hash[i].Hash[j]
    <3> SUFFICES ASSUME NEW i \in 0 .. d - 1, hash[i].PBA # 0
                 PROVE  /\ DOMAIN hash[i].Hash = 0 .. d - 1
                        /\ \A j \in 0 .. d - 1 : "PBA" \in DOMAIN hash[i].Hash[j]
      OBVIOUS
    <3>1. i < nodes
      BY <1>5, <1>7, <1>9
    <3>2. DOMAIN hash[i].Hash = 0 .. d - 1 /\ \A j \in 0 .. d - 1 : hash[i].Hash[j] = Entry(i, j)
      BY <1>5, <3>1
    <3>3. \A j \in 0 .. d - 1 : "PBA" \in DOMAIN Entry(i, j)
      BY <1>6
    <3> QED BY ONLY <3>2, <3>3
  <2> QED BY ONLY <1>4, <1>8, <2>1 DEF T1_Root, T2_Entries
<1>11. \A i \in 0 .. d - 1 :
          /\ hash[i].PBA = 0 => hash[i] = Type_1_Node_Invalid
          /\ hash[i].PBA # 0 => \A j \in 0 .. d - 1 :
               hash[i].Hash[j].PBA = 0 => hash[i].Hash[j] = Type_2_Node_Invalid
  <2> TAKE i \in 0 .. d - 1
  <2>1. CASE i >= nodes
    BY <1>5, <1>7, <2>1
  <2>2. CASE i < nodes
    <3>1. hash[i].PBA # 0 /\ \A j \in 0 .. d - 1 : hash[i].Hash[j] = Entry(i, j)
      BY <1>5, <2>2
    <3>2. \A j \in 0 .. d - 1 : Entry(i, j).PBA = 0 => Entry(i, j) = Type_2_Node_Invalid
      BY <1>6
    <3> QED BY ONLY <3>1, <3>2
  <2> QED BY <1>9, <2>1, <2>2
<1>12. /\ DOMAIN use = T2_Place /\ use[Root_Place] = first + leafs + nodes /\ use[Caller_Place] = 0
       /\ \A i \in 0 .. d - 1 : use[Node_Place(i)] = IF i < nodes THEN first + leafs + i ELSE 0
       /\ \A i, j \in 0 .. d - 1 : use[Leaf_Place(i, j)] =
            IF i < nodes /\ i * d + j < leafs THEN first + i * d + j ELSE 0
  <2> DEFINE pba == root.PBA
             caller == 0
  <2>1. use = T2_Use(d, pba, hash, caller)
    BY <1>4 DEF Root_Use
  <2> HIDE DEF use, pba, caller
  <2>2. /\ DOMAIN use = T2_Place /\ use[Root_Place] = pba /\ use[Caller_Place] = caller
        /\ \A i \in 0 .. d - 1 : use[Node_Place(i)] = hash[i].PBA
        /\ \A i, j \in 0 .. d - 1 : use[Leaf_Place(i, j)] =
             IF hash[i].PBA # 0 THEN Leaf_PBA(hash, i, j) ELSE 0
    <3>1. DOMAIN use = T2_Place /\ use[Root_Place] = pba /\ use[Caller_Place] = caller
      BY ONLY <2>1, T2UseTop
    <3>2. ASSUME NEW i \in 0 .. d - 1 PROVE use[Node_Place(i)] = hash[i].PBA
      BY ONLY <2>1, d \in Nat, i \in 0 .. d - 1, T2UseNode
    <3>3. ASSUME NEW i \in 0 .. d - 1, NEW j \in 0 .. d - 1
          PROVE  use[Leaf_Place(i, j)] = IF hash[i].PBA # 0 THEN Leaf_PBA(hash, i, j) ELSE 0
      BY ONLY <2>1, d \in Nat, i \in 0 .. d - 1, j \in 0 .. d - 1, T2UseLeaf
    <3> QED BY <3>1, <3>2, <3>3
  <2>3. \A i \in 0 .. d - 1 : hash[i].PBA = IF i < nodes THEN first + leafs + i ELSE 0
    BY <1>5, <1>7, <1>9
  <2>4. \A i, j \in 0 .. d - 1 : hash[i].PBA # 0 =>
           Leaf_PBA(hash, i, j) = IF i < nodes /\ i * d + j < leafs THEN first + i * d + j ELSE 0
    BY <1>5, <1>6, <1>7, <1>9 DEF Leaf_PBA
  <2>5. \A i \in 0 .. d - 1 : i < nodes => hash[i].PBA # 0
    BY <1>5
  <2> HIDE DEF hash
  <2>6. \A i, j \in 0 .. d - 1 : use[Leaf_Place(i, j)] =
            IF i < nodes /\ i * d + j < leafs THEN first + i * d + j ELSE 0
    <3> TAKE i, j \in 0 .. d - 1
    <3>1. CASE hash[i].PBA # 0
      BY <3>1, <2>2, <2>4
    <3>2. CASE hash[i].PBA = 0
      BY <3>2, <2>2, <2>5
    <3> QED BY <3>1, <3>2
  <2> QED BY <1>4, <2>2, <2>3, <2>6 DEF pba, caller
<1> DEFINE Root_At(p)       == p = Root_Place
           Node_At(p, i)    == i \in 0 .. d - 1 /\ i < nodes /\ p = Node_Place(i)
           Leaf_At(p, i, j) == /\ i \in 0 .. d - 1 /\ j \in 0 .. d - 1
                               /\ i < nodes /\ i * d + j < leafs /\ p = Leaf_Place(i, j)
<1>13. ASSUME NEW p \in T2_Place, use[p] # 0
       PROVE  \/ Root_At(p)
              \/ \E i \in 0 .. d - 1 : Node_At(p, i)
              \/ \E i, j \in 0 .. d - 1 : Leaf_At(p, i, j)
  <2>1. p[1] \in Int /\ p[2] \in Int /\ p = <<p[1], p[2]>>
    BY DEF T2_Place
  <2>2. p # Caller_Place
    BY <1>12, <1>13
  <2> SUFFICES ASSUME p # Root_Place
               PROVE  \/ \E i \in 0 .. d - 1 : Node_At(p, i)
                      \/ \E i, j \in 0 .. d - 1 : Leaf_At(p, i, j)
    OBVIOUS
  <2>3. p[1] \in 0 .. d - 1 /\ (p[2] = -1 \/ p[2] \in 0 .. d - 1)
    <3> DEFINE pba == root.PBA
               entries == root.Hash
               caller == 0
    <3>1. use = T2_Use(d, pba, entries, caller)
      BY DEF Root_Use
    <3> HIDE DEF use, pba, entries, caller
    <3>2. use[p] = IF p[1] \notin 0 .. d - 1 THEN 0
                   ELSE IF p[2] = -1 THEN entries[p[1]].PBA
                   ELSE IF p[2] \in 0 .. d - 1 /\ entries[p[1]].PBA # 0
                   THEN Leaf_PBA(entries, p[1], p[2])
                   ELSE 0
      BY <2>2, <3>1 DEF T2_Use
    <3> QED BY <3>2, <1>13
  <2> DEFINE a == p[1]
             b == p[2]
  <2>4. p = <<a, b>> /\ a \in 0 .. d - 1 /\ (b = -1 \/ b \in 0 .. d - 1)
    BY <2>1, <2>3
  <2> HIDE DEF a, b, use
  <2>5. CASE b = -1
    <3>1. p = Node_Place(a)
      BY <2>4, <2>5 DEF Node_Place
    <3>2. Node_At(p, a)
      BY <2>4, <3>1, <1>12, <1>13
    <3> QED BY <2>4, <3>2
  <2>6. CASE b \in 0 .. d - 1
    <3>1. p = Leaf_Place(a, b)
      BY <2>4 DEF Leaf_Place
    <3>2. Leaf_At(p, a, b)
      BY <2>4, <2>6, <3>1, <1>12, <1>13
    <3> QED BY <2>4, <2>6, <3>2
  <2> QED BY <2>4, <2>5, <2>6
<1> DEFINE End == first + leafs + nodes
<1>14. ASSUME NEW p, Root_At(p) PROVE use[p] = End /\ p \in T2_Place
  BY <1>12, <1>14, T2Places
<1>15. ASSUME NEW p, NEW i, Node_At(p, i)
       PROVE  /\ p \in T2_Place /\ use[p] = first + leafs + i /\ i \in Nat
              /\ first + leafs <= use[p] /\ use[p] < End
  <2>1. use[p] = first + leafs + i /\ i \in Nat /\ i < nodes
    BY <1>12, <1>15
  <2>2. p \in T2_Place
    BY <2>1, <1>15, T2Places
  <2> QED BY <2>1, <2>2, <1>1
<1>16. ASSUME NEW p, NEW i, NEW j, Leaf_At(p, i, j)
       PROVE  /\ p \in T2_Place /\ use[p] = first + (i * d + j) /\ i \in Nat /\ j \in Nat
              /\ first <= use[p] /\ use[p] < first + leafs
  <2>1. use[p] = first + i * d + j
    BY <1>12, <1>16
  <2>2. p \in T2_Place
    BY <1>16, T2Places
  <2>3. i * d \in Nat /\ i * d + j < leafs /\ i \in Nat /\ j \in Nat
    BY <1>16
  <2> QED BY <2>1, <2>2, <2>3
<1>17. End = root.PBA /\ End \in Nat /\ first + leafs < End
  BY <1>1, <1>4
<1> HIDE DEF use, End
<1>18. ASSUME NEW p \in T2_Place, NEW q \in T2_Place, use[p] = use[q], use[p] # 0
       PROVE  p = q
  <2>1. CASE Root_At(p)
    <3>1. use[q] = End
      BY <2>1, <1>14, <1>18
    <3>2. ~(\E i \in 0 .. d - 1 : Node_At(q, i))
      BY <3>1, <1>15, <1>17
    <3>3. ~(\E i, j \in 0 .. d - 1 : Leaf_At(q, i, j))
      BY <3>1, <1>16, <1>17
    <3> QED BY <2>1, <3>2, <3>3, <1>13, <1>18
  <2>2. CASE \E i \in 0 .. d - 1 : Node_At(p, i)
    <3>1. PICK i \in 0 .. d - 1 : Node_At(p, i)
      BY <2>2
    <3>2. use[p] = first + leafs + i /\ first + leafs <= use[q] /\ use[q] < End
      BY <3>1, <1>15, <1>18
    <3>3. ~Root_At(q)
      BY <3>2, <1>14, <1>17
    <3>4. ~(\E k, j \in 0 .. d - 1 : Leaf_At(q, k, j))
      BY <3>2, <1>16, <1>17
    <3>5. PICK k \in 0 .. d - 1 : Node_At(q, k)
      BY <3>3, <3>4, <1>13, <1>18
    <3>6. use[q] = first + leafs + k
      BY <3>5, <1>15
    <3>7. i = k
      BY <3>2, <3>6, <1>18
    <3> QED BY <3>1, <3>5, <3>7
  <2>3. CASE \E i, j \in 0 .. d - 1 : Leaf_At(p, i, j)
    <3>1. PICK i, j \in 0 .. d - 1 : Leaf_At(p, i, j)
      BY <2>3
    <3>2. use[p] = first + (i * d + j) /\ use[q] < first + leafs
      BY <3>1, <1>16, <1>18
    <3>3. ~Root_At(q)
      BY <3>2, <1>14, <1>17
    <3>4. ~(\E k \in 0 .. d - 1 : Node_At(q, k))
      <4> SUFFICES ASSUME NEW k \in 0 .. d - 1, Node_At(q, k) PROVE FALSE
        OBVIOUS
      <4>1. first + leafs <= use[q] /\ use[q] = first + leafs + k
        BY <1>15
      <4> QED BY <3>2, <4>1
    <3>5. PICK k, l \in 0 .. d - 1 : Leaf_At(q, k, l)
      BY <3>3, <3>4, <1>13, <1>18
    <3>6. use[q] = first + (k * d + l)
      BY <3>5, <1>16
    <3>7. i * d + j = k * d + l /\ i * d \in Int /\ k * d \in Int
      BY <3>2, <3>6, <1>18
    <3>8. i = k
      <4>1. ASSUME i < k PROVE FALSE
        <5>1. i * d + d <= k * d
          <6>1. (i + 1) * d <= k * d
            BY <4>1
          <6> QED BY <6>1
        <5> QED BY <5>1, <3>7
      <4>2. ASSUME k < i PROVE FALSE
        <5>1. k * d + d <= i * d
          <6>1. (k + 1) * d <= i * d
            BY <4>2
          <6> QED BY <6>1
        <5> QED BY <5>1, <3>7
      <4> QED BY <4>1, <4>2
    <3>9. j = l
      BY <3>7, <3>8
    <3> QED BY <3>1, <3>5, <3>8, <3>9
  <2> QED BY <2>1, <2>2, <2>3, <1>13, <1>18
<1>19. ASSUME NEW n \in first .. End PROVE \E p \in T2_Place : use[p] = n
  <2>1. CASE n = End
    BY <2>1, <1>14
  <2>2. CASE first + leafs <= n /\ n < End
    <3> DEFINE i == n - (first + leafs)
    <3>1. i \in 0 .. d - 1 /\ i < nodes /\ first + leafs + i = n
      BY <2>2, <1>1, <1>2 DEF End
    <3> HIDE DEF i
    <3>2. Node_At(Node_Place(i), i)
      BY <3>1
    <3> QED BY <3>1, <3>2, <1>15
  <2>3. CASE n < first + leafs
    <3> DEFINE m == n - first
               i == m \div d
               j == m % d
    <3>1. m \in Nat /\ m < leafs /\ first + m = n
      BY <2>3
    <3>2. i \in Int /\ j \in 0 .. d - 1 /\ m = d * i + j
      BY <3>1
    <3> HIDE DEF m, i, j
    <3>3. i >= 0
      BY <3>1, <3>2
    <3>4. i < nodes
      <4>1. d * i < d * nodes
        BY <3>1, <3>2, <1>1
      <4> QED BY <4>1, <3>2, <1>1
    <3>5. i \in 0 .. d - 1 /\ i * d + j = m
      BY <3>2, <3>3, <3>4, <1>1, <1>2
    <3>6. Leaf_At(Leaf_Place(i, j), i, j)
      BY <3>1, <3>2, <3>4, <3>5
    <3>7. use[Leaf_Place(i, j)] = first + (i * d + j)
      BY <3>6, <1>16
    <3> QED BY <3>1, <3>5, <3>6, <3>7, <1>16
  <2> QED BY <2>1, <2>2, <2>3, <1>17
<1>20. ASSUME NEW p \in T2_Place, use[p] # 0 PROVE use[p] \in first .. End
  <2>1. CASE Root_At(p)
    <3>1. use[p] = End
      BY <2>1, <1>14
    <3> QED BY <3>1, <1>17
  <2>2. CASE \E i \in 0 .. d - 1 : Node_At(p, i)
    <3>1. PICK i \in 0 .. d - 1 : Node_At(p, i)
      BY <2>2
    <3>2. use[p] = first + leafs + i /\ i \in Nat /\ use[p] < End
      BY <3>1, <1>15
    <3> QED BY <3>2, <1>17
  <2>3. CASE \E i, j \in 0 .. d - 1 : Leaf_At(p, i, j)
    <3>1. PICK i, j \in 0 .. d - 1 : Leaf_At(p, i, j)
      BY <2>3
    <3>2. use[p] = first + (i * d + j) /\ first <= use[p] /\ use[p] < first + leafs
      BY <3>1, <1>16
    <3>3. i * d + j \in Nat
      OBVIOUS
    <3> QED BY <3>2, <3>3, <1>17
  <2> QED BY <2>1, <2>2, <2>3, <1>13, <1>20
<1>21. Blocks(use) = first .. root.PBA
  <2>1. 0 \notin first .. End
    BY <1>17
  <2> QED BY <2>1, <1>12, <1>17, <1>19, <1>20 DEF Blocks
<1>22. Inj(use)
  BY <1>12, <1>18 DEF Inj
<1> QED BY <1>4, <1>10, <1>11, <1>21, <1>22 DEF use

-----------------------------------------------------------------------------
(***************************************************************************)
(* The invariant.                                                          *)
(***************************************************************************)

(* The snapshots have the form of a snapshot, and the current one is newer *)
(* than all others.                                                        *)
Snaps_OK(snaps) ==
  /\ DOMAIN snaps = Snapshots_Index
  /\ \A i \in Snapshots_Index :
       /\ DOMAIN snaps[i] = {"Valid", "Keep", "Gen", "PBA", "Hash"}
       /\ snaps[i].Valid \in BOOLEAN /\ snaps[i].Gen \in Nat

Newest_Is(snaps, c) ==
  /\ c \in Snapshots_Index /\ snaps[c].Valid
  /\ \A k \in Snapshots_Index : k # c /\ snaps[k].Valid => snaps[k].Gen < snaps[c].Gen

(* The superblock, the generation and the blocks.                          *)
SB_Fields ==
  {"State", "Rekeying_VBA", "Current_Key", "Previous_Key", "Snapshots", "Curr_Snap",
   "Last_Secured_Generation", "Free", "Meta"}

SB_Form(s, gen) ==
  /\ DOMAIN s = SB_Fields
  /\ Snaps_OK(s.Snapshots) /\ Newest_Is(s.Snapshots, s.Curr_Snap)
  /\ s.Last_Secured_Generation \in Nat /\ gen \in Nat
  /\ Curr(s).Gen <= gen
  /\ s.Rekeying_VBA \in VBA
  /\ Free_Root_OK(s.Free) /\ Meta_Root_OK(s.Meta)

SB_OK(s, gen) == SB_Form(s, gen) /\ Curr(s).Gen \in {gen, s.Last_Secured_Generation}

(* The rekeying of an address, from the newest snapshot on.                *)
Rkg_Fields == {"VBA", "Snapshots", "Snapshot_Idx", "First_Snapshot", "Old_PBAs", "New_PBAs", "Blks"}

Rekeying_OK ==
  job.phase \in {"Rekey_VBA", "VBA_Rekeyed"} =>
    /\ rkg.VBA \in VBA
    /\ Snaps_OK(rkg.Snapshots) /\ Newest_Is(rkg.Snapshots, sb.Curr_Snap)
    /\ rkg.Snapshots[sb.Curr_Snap].Gen = Curr(sb).Gen
    /\ job.phase = "Rekey_VBA" =>
         /\ rkg.Snapshot_Idx \in Snapshots_Index
         /\ rkg.Snapshots[rkg.Snapshot_Idx].Valid
         /\ rkg.First_Snapshot = (rkg.Snapshot_Idx = sb.Curr_Snap)

(* The write under way: the nodes on the way are as they were read, and a  *)
(* level has its own block or none until the free tree gave it one.        *)
Req_Fields ==
  {"VBA", "Old_Blocks", "New_Blocks", "Gen", "Free_Gen", "Tag", "Rekeying",
   "Previous_Key_ID", "Current_Key_ID", "Rekeying_VBA"}

Write_OK ==
  job.phase \in {"Free_Tree", "Write_Back"} =>
    /\ DOMAIN job = {"phase", "req"} /\ DOMAIN job.req = Req_Fields
    /\ job.req.VBA \in VBA /\ job.req.Tag = "Pool_VBD"
    /\ job.req.Old_Blocks = Type_1_Node_Walk(Curr(sb), job.req.VBA)
    /\ \A l \in 1 .. Max_Level : blocks[job.req.Old_Blocks[l].PBA] = job.req.Old_Blocks[l].Hash
    /\ DOMAIN job.req.New_Blocks = Level
    /\ job.phase = "Free_Tree" =>
         \A l \in Level : job.req.New_Blocks[l] \in {0, job.req.Old_Blocks[l].PBA}
    /\ job.phase = "Write_Back" => \A l \in Level : job.req.New_Blocks[l] # 0

(* The use of all blocks.  Once the free tree gave the new blocks, they are*)
(* those of the nodes on the way.                                          *)
Used(v, s) == All_Use(v, Root_Use(Free_Degree, s.Free, 0), Root_Use(Meta_Degree, s.Meta, 0))

Used_VBD ==
  IF job.phase = "Write_Back"
  THEN V_Use(VBD_Use(Current_Tree), Way_To(job.req.VBA), job.req.New_Blocks)
  ELSE VBD_Use(Current_Tree)

Once == Inj(Used(Used_VBD, sb)) /\ Blocks(Used(Used_VBD, sb)) = PBA

IInv ==
  /\ SB_OK(sb, cur_gen) /\ DOMAIN blocks = PBA /\ DOMAIN rkg = Rkg_Fields
  /\ VBD_OK(Current_Tree)
  /\ Rekeying_OK
  /\ Write_OK
  /\ Once

(* Initially each block is used once.                                      *)
LEMMA InitialUse ==
  /\ Free_Root_OK(Free_Root) /\ Meta_Root_OK(Meta_Root) /\ Meta_Root.PBA \in Nat
  /\ Inj(Used(VBD_Use(Valid_Snap_Slot), Valid_SB_Slot))
  /\ Blocks(Used(VBD_Use(Valid_Snap_Slot), Valid_SB_Slot)) = PBA
<1> DEFINE v == VBD_Use(Valid_Snap_Slot)
           f == Root_Use(Free_Degree, Free_Root, 0)
           m == Root_Use(Meta_Degree, Meta_Root, 0)
<1>1. /\ DOMAIN v = V_Place /\ Inj(v) /\ Blocks(v) = 1 .. Free_First - 1
      /\ Free_First \in Nat \ {0}
  <2>1. Max_Level + 1 \in 0 .. Max_Level + 1
    BY Numbers
  <2> QED BY <2>1, InitialVBDUse, FirstPBA DEF Free_First
<1>2. /\ Free_Degree \in Nat /\ Free_Degree > 1 /\ Meta_Degree \in Nat /\ Meta_Degree > 1
      /\ Free_Leafs \in Nat \ {0} /\ Meta_Leafs \in Nat \ {0}
      /\ Nr_Of_Nodes(Nr_Of_Nodes(Free_Leafs, Free_Degree), Free_Degree) = 1
      /\ Nr_Of_Nodes(Nr_Of_Nodes(Meta_Leafs, Meta_Degree), Meta_Degree) = 1
  BY WritePathAssumption
<1>3. /\ T1_Root(Free_Root) /\ T2_Entries(Free_Degree, Free_Root.Hash) /\ Free_Root.PBA \in Nat
      /\ Free_First <= Free_Root.PBA /\ Inj(f) /\ Blocks(f) = Free_First .. Free_Root.PBA
  BY <1>1, <1>2, InitialT2Tree DEF Free_Root
<1>4. Meta_First = Free_Root.PBA + 1 /\ Meta_First \in Nat \ {0}
  BY <1>3 DEF Meta_First
<1>5. /\ T1_Root(Meta_Root) /\ Meta_Entries(Meta_Root.Hash) /\ Meta_Root.PBA \in Nat
      /\ Meta_First <= Meta_Root.PBA /\ Inj(m) /\ Blocks(m) = Meta_First .. Meta_Root.PBA
  <2>1. /\ T1_Root(Meta_Root) /\ T2_Entries(Meta_Degree, Meta_Root.Hash) /\ Meta_Root.PBA \in Nat
        /\ Meta_First <= Meta_Root.PBA /\ Inj(m) /\ Blocks(m) = Meta_First .. Meta_Root.PBA
        /\ \A i \in 0 .. Meta_Degree - 1 :
             /\ Meta_Root.Hash[i].PBA = 0 => Meta_Root.Hash[i] = Type_1_Node_Invalid
             /\ Meta_Root.Hash[i].PBA # 0 => \A j \in 0 .. Meta_Degree - 1 :
                  Meta_Root.Hash[i].Hash[j].PBA = 0 =>
                    Meta_Root.Hash[i].Hash[j] = Type_2_Node_Invalid
    BY <1>2, <1>4, InitialT2Tree, SMTT(30) DEF Meta_Root
  <2> QED BY <2>1 DEF Meta_Entries
<1>6. DOMAIN f = T2_Place /\ DOMAIN m = T2_Place
  BY DEF Root_Use, T2_Use
<1>7. Used(v, Valid_SB_Slot) = All_Use(v, f, m)
  BY DEF Used, Valid_SB_Slot
<1> HIDE DEF v, f, m
<1>8. /\ \A x \in Blocks(v) : x \notin Blocks(f) /\ x \notin Blocks(m)
      /\ \A x \in Blocks(f) : x \notin Blocks(m)
  BY <1>1, <1>3, <1>4, <1>5
<1>9. /\ Inj(All_Use(v, f, m))
      /\ Blocks(All_Use(v, f, m)) = Blocks(v) \cup Blocks(f) \cup Blocks(m)
  <2>1. DOMAIN v = V_Place /\ DOMAIN f = T2_Place /\ DOMAIN m = T2_Place
    BY <1>1, <1>6
  <2>2. Inj(v) /\ Inj(f) /\ Inj(m)
    BY <1>1, <1>3, <1>5
  <2> QED BY ONLY <2>1, <2>2, <1>8, AllUseOnce
<1>10. Blocks(v) \cup Blocks(f) \cup Blocks(m) = PBA
  BY <1>1, <1>3, <1>4, <1>5 DEF PBA
<1> QED BY <1>3, <1>5, <1>7, <1>9, <1>10 DEF v, Free_Root_OK, Meta_Root_OK

(* The device that the initializers leave.                                 *)
LEMMA InitOK == Init => IInv
<1> SUFFICES ASSUME Init PROVE IInv
  OBVIOUS
<1>0. 0 \in Snapshots_Index /\ 0 \in VBA
  BY WritePathAssumption, Numbers DEF Snapshots_Index, VBA
<1>1. Curr(sb) = Valid_Snap_Slot /\ sb = Valid_SB_Slot /\ job.phase = "Idle"
  BY <1>0 DEF Init, Curr, Valid_SB_Slot
<1>2. Current_Tree = Valid_Snap_Slot
  BY <1>1 DEF Current_Tree
<1>3. Snaps_OK(sb.Snapshots) /\ Newest_Is(sb.Snapshots, sb.Curr_Snap)
  <2>1. /\ DOMAIN sb.Snapshots = Snapshots_Index /\ sb.Snapshots[0] = Valid_Snap_Slot
        /\ \A i \in Snapshots_Index : i # 0 => sb.Snapshots[i] = Snapshot_Invalid
        /\ sb.Curr_Snap = 0
    BY <1>0, <1>1 DEF Valid_SB_Slot
  <2> DEFINE Form(x) == /\ DOMAIN x = {"Valid", "Keep", "Gen", "PBA", "Hash"}
                        /\ x.Valid \in BOOLEAN /\ x.Gen = 0
  <2>2. Form(Valid_Snap_Slot) /\ Valid_Snap_Slot.Valid
    <3>1. \A p, h : LET x == [Valid |-> TRUE, Keep |-> FALSE, Gen |-> 0, PBA |-> p, Hash |-> h]
                    IN Form(x) /\ x.Valid
      OBVIOUS
    <3> HIDE DEF Form
    <3> QED BY <3>1, Zenon DEF Valid_Snap_Slot
  <2>3. Form(Snapshot_Invalid) /\ ~Snapshot_Invalid.Valid
    BY DEF Snapshot_Invalid
  <2> HIDE DEF Form
  <2>4. \A i \in Snapshots_Index : /\ Form(sb.Snapshots[i])
                                   /\ sb.Snapshots[i].Valid => i = 0
    BY <2>1, <2>2, <2>3
  <2> DEFINE snaps == sb.Snapshots
             c     == sb.Curr_Snap
  <2>10. DOMAIN snaps = Snapshots_Index /\ c = 0
    BY <2>1
  <2>11. snaps[0].Valid
    BY <2>1, <2>2, Zenon
  <2>12. \A i \in Snapshots_Index : Form(snaps[i])
    BY <2>4, Zenon
  <2>13. \A i \in Snapshots_Index : snaps[i].Valid => i = 0
    BY <2>4, Zenon
  <2>7. /\ DOMAIN snaps = Snapshots_Index /\ c = 0 /\ snaps[0].Valid
        /\ \A i \in Snapshots_Index : Form(snaps[i]) /\ (snaps[i].Valid => i = 0)
    BY ONLY <2>10, <2>11, <2>12, <2>13, Zenon
  <2> HIDE DEF snaps, c
  <2>8. Snaps_OK(snaps)
    BY ONLY <2>7 DEF Snaps_OK, Form
  <2>9. Newest_Is(snaps, c)
    BY ONLY <1>0, <2>7 DEF Newest_Is
  <2>5. Snaps_OK(sb.Snapshots)
    BY <2>8 DEF snaps
  <2>6. Newest_Is(sb.Snapshots, sb.Curr_Snap)
    BY <2>9 DEF snaps, c
  <2> QED BY <2>5, <2>6
<1>4. SB_OK(sb, cur_gen)
  <2>1. DOMAIN sb = SB_Fields /\ sb.Last_Secured_Generation = 0 /\ sb.Rekeying_VBA = 0
        /\ sb.Free = Free_Root /\ sb.Meta = Meta_Root
    BY <1>1 DEF Valid_SB_Slot, SB_Fields
  <2>2. Curr(sb).Gen = 0 /\ cur_gen = 1
    BY <1>1 DEF Valid_Snap_Slot, Init
  <2> QED BY <1>0, <1>3, <2>1, <2>2, InitialUse DEF SB_OK, SB_Form
<1>5. DOMAIN blocks = PBA /\ DOMAIN rkg = Rkg_Fields
  BY DEF Init, Initial_Blocks, Rkg_Fields
<1>6. VBD_OK(Current_Tree)
  BY <1>2, InitialTreeOK
<1>7. Rekeying_OK /\ Write_OK
  BY <1>1 DEF Rekeying_OK, Write_OK
<1>8. Once
  BY <1>1, <1>2, InitialUse DEF Once, Used_VBD
<1> QED BY <1>4, <1>5, <1>6, <1>7, <1>8 DEF IInv

-----------------------------------------------------------------------------
(***************************************************************************)
(* The superblock.                                                         *)
(***************************************************************************)

(* What stays the same of a superblock: the trees.                         *)
Same_Trees(s, s2) ==
  /\ s2.Free = s.Free /\ s2.Meta = s.Meta /\ s2.Curr_Snap = s.Curr_Snap
  /\ Curr(s2).PBA = Curr(s).PBA /\ Curr(s2).Hash = Curr(s).Hash

Gen_Set(snaps, c, gen) == [snaps EXCEPT ![c].Gen = gen]

(* A change of a snapshot that is not seen in its form.                    *)
LEMMA SnapshotSet ==
  ASSUME NEW snaps, NEW c, NEW gen \in Nat, Snaps_OK(snaps), Newest_Is(snaps, c),
         snaps[c].Gen <= gen,
         NEW snaps2, snaps2 = Gen_Set(snaps, c, gen)
  PROVE  /\ Snaps_OK(snaps2) /\ Newest_Is(snaps2, c) /\ snaps2[c].Gen = gen
         /\ snaps2[c].PBA = snaps[c].PBA /\ snaps2[c].Hash = snaps[c].Hash
<1> DEFINE old == snaps[c]
           new == snaps2[c]
<1>1. /\ DOMAIN snaps = Snapshots_Index /\ c \in Snapshots_Index
      /\ DOMAIN old = {"Valid", "Keep", "Gen", "PBA", "Hash"}
      /\ old.Valid \in BOOLEAN /\ old.Valid /\ old.Gen \in Nat /\ old.Gen <= gen
  BY DEF Snaps_OK, Newest_Is
<1>2. /\ new = [old EXCEPT !.Gen = gen] /\ DOMAIN snaps2 = Snapshots_Index
      /\ \A k \in Snapshots_Index : k # c => snaps2[k] = snaps[k]
  BY <1>1 DEF Gen_Set
<1>3. \A k \in Snapshots_Index : k # c /\ snaps[k].Valid => snaps[k].Gen < old.Gen
  BY DEF Newest_Is
<1>4. \A k \in Snapshots_Index :
         /\ DOMAIN snaps[k] = {"Valid", "Keep", "Gen", "PBA", "Hash"}
         /\ snaps[k].Valid \in BOOLEAN /\ snaps[k].Gen \in Nat
  BY DEF Snaps_OK
<1> DEFINE Form(x) == /\ DOMAIN x = {"Valid", "Keep", "Gen", "PBA", "Hash"}
                      /\ x.Valid \in BOOLEAN /\ x.Gen \in Nat
<1> HIDE DEF old, new
<1>5. /\ Form(new) /\ new.Valid /\ new.Gen = gen /\ new.PBA = old.PBA /\ new.Hash = old.Hash
  BY <1>1, <1>2
<1> HIDE DEF Form
<1>6. \A k \in Snapshots_Index : Form(snaps2[k])
  <2>1. \A k \in Snapshots_Index : Form(snaps[k])
    BY <1>4 DEF Form
  <2> QED BY <2>1, <1>2, <1>5 DEF new
<1>7. \A k \in Snapshots_Index : k # c /\ snaps2[k].Valid => snaps2[k].Gen < new.Gen
  BY <1>1, <1>2, <1>3, <1>4, <1>5
<1>8. Snaps_OK(snaps2)
  BY <1>2, <1>6 DEF Snaps_OK, Form
<1>9. Newest_Is(snaps2, c)
  BY <1>1, <1>5, <1>7 DEF Newest_Is, new
<1> QED BY <1>5, <1>8, <1>9 DEF new, old

(* The current snapshot is not discarded.                                  *)
LEMMA SnapshotsDiscarded ==
  ASSUME NEW snaps, NEW c, NEW gen, NEW last, Snaps_OK(snaps), Newest_Is(snaps, c),
         snaps[c].Gen \in {gen, last},
         NEW snaps2, snaps2 = Discard_Disposable_Snapshots(snaps, gen, last)
  PROVE  /\ Snaps_OK(snaps2) /\ Newest_Is(snaps2, c) /\ snaps2[c].Gen = snaps[c].Gen
         /\ snaps2[c].PBA = snaps[c].PBA /\ snaps2[c].Hash = snaps[c].Hash
<1> DEFINE Kept(x) == x.Valid /\ (x.Keep \/ x.Gen \in {gen, last})
           Form(x) == /\ DOMAIN x = {"Valid", "Keep", "Gen", "PBA", "Hash"}
                      /\ x.Valid \in BOOLEAN /\ x.Gen \in Nat
           Less(x, y) == /\ Form(y) /\ y.Gen = x.Gen /\ y.PBA = x.PBA /\ y.Hash = x.Hash
                         /\ y.Valid = Kept(x)
<1>1. DOMAIN snaps2 = Snapshots_Index /\ c \in Snapshots_Index /\ snaps[c].Valid
  BY DEF Discard_Disposable_Snapshots, Newest_Is
<1>2. ASSUME NEW k \in Snapshots_Index PROVE Less(snaps[k], snaps2[k])
  <2> DEFINE x == snaps[k]
             b == Kept(x)
  <2>1. snaps2[k] = [x EXCEPT !.Valid = b]
    BY DEF Discard_Disposable_Snapshots
  <2>2. Form(x)
    BY DEF Snaps_OK
  <2>3. b \in BOOLEAN
    BY <2>2
  <2> HIDE DEF x, b
  <2>4. /\ Form(snaps2[k]) /\ snaps2[k].Gen = x.Gen /\ snaps2[k].PBA = x.PBA /\ snaps2[k].Hash = x.Hash
        /\ snaps2[k].Valid = b
    BY <2>1, <2>2, <2>3
  <2> QED BY <2>4 DEF x, b
<1>3. Kept(snaps[c])
  BY <1>1
<1> HIDE DEF Kept
<1>4. Snaps_OK(snaps2)
  BY <1>1, <1>2 DEF Snaps_OK
<1>5. snaps2[c].Valid
  BY <1>1, <1>2, <1>3
<1>6. \A k \in Snapshots_Index : snaps2[k].Valid => snaps[k].Valid
  BY <1>2 DEF Kept
<1>7. \A k \in Snapshots_Index : k # c /\ snaps[k].Valid => snaps[k].Gen < snaps[c].Gen
  BY DEF Newest_Is
<1>8. \A k \in Snapshots_Index : snaps2[k].Gen = snaps[k].Gen
  BY <1>2
<1>9. Newest_Is(snaps2, c)
  BY <1>1, <1>5, <1>6, <1>7, <1>8 DEF Newest_Is
<1> QED BY <1>1, <1>2, <1>4, <1>9

(* The generation of the current snapshot is set.                          *)
LEMMA CurrGenSet ==
  ASSUME NEW s, SB_Form(s, cur_gen), NEW s2, s2 = Curr_Gen_Set(s)
  PROVE  SB_Form(s2, cur_gen) /\ Curr(s2).Gen = cur_gen /\ Same_Trees(s, s2)
<1> DEFINE snaps  == s.Snapshots
           c      == s.Curr_Snap
           snaps2 == Gen_Set(snaps, c, cur_gen)
<1>1. /\ DOMAIN s = SB_Fields /\ Snaps_OK(snaps) /\ Newest_Is(snaps, c)
      /\ s.Last_Secured_Generation \in Nat /\ cur_gen \in Nat /\ snaps[c].Gen <= cur_gen
      /\ s.Rekeying_VBA \in VBA /\ Free_Root_OK(s.Free) /\ Meta_Root_OK(s.Meta)
  BY DEF SB_Form, Curr
<1>2. s2 = [s EXCEPT !.Snapshots = snaps2]
  BY DEF Curr_Gen_Set, Gen_Set
<1> HIDE DEF snaps2, snaps, c
<1>3. /\ Snaps_OK(snaps2) /\ Newest_Is(snaps2, c) /\ snaps2[c].Gen = cur_gen
      /\ snaps2[c].PBA = snaps[c].PBA /\ snaps2[c].Hash = snaps[c].Hash
  <2> DEFINE t   == snaps2
             gen == cur_gen
  <2>1. t = Gen_Set(snaps, c, gen)
    BY DEF snaps2
  <2>2. gen \in Nat /\ Snaps_OK(snaps) /\ Newest_Is(snaps, c) /\ snaps[c].Gen <= gen
    BY <1>1
  <2> HIDE DEF t, gen
  <2>3. /\ Snaps_OK(t) /\ Newest_Is(t, c) /\ t[c].Gen = gen
        /\ t[c].PBA = snaps[c].PBA /\ t[c].Hash = snaps[c].Hash
    BY ONLY <2>1, <2>2, SnapshotSet
  <2> QED BY <2>3 DEF t, gen
<1>4. /\ DOMAIN s2 = SB_Fields /\ s2.Snapshots = snaps2 /\ s2.Curr_Snap = c
      /\ s2.Last_Secured_Generation = s.Last_Secured_Generation
      /\ s2.Rekeying_VBA = s.Rekeying_VBA /\ s2.Free = s.Free /\ s2.Meta = s.Meta
  BY <1>1, <1>2 DEF SB_Fields, c
<1>5. Curr(s2) = snaps2[c] /\ Curr(s) = snaps[c] /\ s.Curr_Snap = c
  BY <1>4 DEF Curr, snaps, c
<1>6. cur_gen <= cur_gen
  BY <1>1
<1> QED BY <1>1, <1>3, <1>4, <1>5, <1>6 DEF SB_Form, Same_Trees

(* Then it can be secured.                                                 *)
LEMMA SecuredOK ==
  ASSUME NEW s, SB_Form(s, cur_gen), Curr(s).Gen = cur_gen,
         NEW s2, s2 = [s EXCEPT !.Last_Secured_Generation = cur_gen]
  PROVE  SB_OK(s2, cur_gen + 1) /\ Same_Trees(s, s2)
<1>1. /\ DOMAIN s = SB_Fields /\ Snaps_OK(s.Snapshots) /\ Newest_Is(s.Snapshots, s.Curr_Snap)
      /\ cur_gen \in Nat
      /\ s.Rekeying_VBA \in VBA /\ Free_Root_OK(s.Free) /\ Meta_Root_OK(s.Meta)
  BY DEF SB_Form
<1>2. /\ DOMAIN s2 = SB_Fields /\ s2.Snapshots = s.Snapshots /\ s2.Curr_Snap = s.Curr_Snap
      /\ s2.Last_Secured_Generation = cur_gen
      /\ s2.Rekeying_VBA = s.Rekeying_VBA /\ s2.Free = s.Free /\ s2.Meta = s.Meta
  BY <1>1 DEF SB_Fields
<1>3. Curr(s2) = Curr(s)
  BY <1>2 DEF Curr
<1>4. cur_gen <= cur_gen + 1 /\ cur_gen + 1 \in Nat
  BY <1>1
<1> QED BY <1>1, <1>2, <1>3, <1>4 DEF SB_OK, SB_Form, Same_Trees

(* What a client wants to be secured.                                      *)
LEMMA SecureCurrGen ==
  ASSUME SB_OK(sb, cur_gen), NEW snaps, Snaps_OK(snaps), Newest_Is(snaps, sb.Curr_Snap),
         snaps[sb.Curr_Snap] = Curr(sb), NEW s, s = Secure_Curr_Gen(snaps)
  PROVE  SB_Form(s, cur_gen) /\ Curr(s).Gen = cur_gen /\ Same_Trees(sb, s)
<1> DEFINE c     == sb.Curr_Snap
           last  == sb.Last_Secured_Generation
           kept  == Discard_Disposable_Snapshots(snaps, cur_gen, last)
           t     == [sb EXCEPT !.Snapshots = kept, !.Last_Secured_Generation = cur_gen]
<1>1. /\ DOMAIN sb = SB_Fields /\ cur_gen \in Nat /\ last \in Nat
      /\ Curr(sb).Gen <= cur_gen /\ Curr(sb).Gen \in {cur_gen, last}
      /\ sb.Rekeying_VBA \in VBA /\ Free_Root_OK(sb.Free) /\ Meta_Root_OK(sb.Meta)
  BY DEF SB_OK, SB_Form
<1>2. s = Curr_Gen_Set(t)
  BY DEF Secure_Curr_Gen
<1> HIDE DEF kept, c, last
<1>3. snaps[c] = Curr(sb) /\ Newest_Is(snaps, c) /\ snaps[c].Gen \in {cur_gen, last}
  BY <1>1 DEF c
<1>4. /\ Snaps_OK(kept) /\ Newest_Is(kept, c) /\ kept[c].Gen = snaps[c].Gen
      /\ kept[c].PBA = snaps[c].PBA /\ kept[c].Hash = snaps[c].Hash
  BY <1>3, SnapshotsDiscarded DEF kept
<1>5. /\ DOMAIN t = SB_Fields /\ t.Snapshots = kept /\ t.Curr_Snap = c
      /\ t.Last_Secured_Generation = cur_gen
      /\ t.Rekeying_VBA = sb.Rekeying_VBA /\ t.Free = sb.Free /\ t.Meta = sb.Meta
  BY <1>1 DEF SB_Fields, c
<1> HIDE DEF t
<1>6. Curr(t) = kept[c]
  BY <1>5 DEF Curr
<1>7. SB_Form(t, cur_gen)
  BY <1>1, <1>3, <1>4, <1>5, <1>6 DEF SB_Form
<1>8. SB_Form(s, cur_gen) /\ Curr(s).Gen = cur_gen /\ Same_Trees(t, s)
  BY <1>2, <1>7, CurrGenSet
<1> QED BY <1>3, <1>4, <1>5, <1>6, <1>8 DEF Same_Trees, c

(* A step after which no write and no rekeying is under way, and the trees *)
(* are as before.                                                          *)
LEMMA TreesKept ==
  ASSUME IInv, job.phase # "Write_Back", SB_OK(sb', cur_gen'),
         sb'.Free = sb.Free, sb'.Meta = sb.Meta,
         Curr(sb').PBA = Current_Tree.PBA, Curr(sb').Hash = Current_Tree.Hash,
         blocks' = blocks, DOMAIN rkg' = Rkg_Fields, job'.phase = "Idle"
  PROVE  IInv'
<1> DEFINE t  == Current_Tree
           t2 == Curr(sb')
<1>1. VBD_OK(t) /\ Inj(Used(VBD_Use(t), sb)) /\ Blocks(Used(VBD_Use(t), sb)) = PBA
      /\ DOMAIN blocks = PBA
  BY DEF IInv, Once, Used_VBD
<1>2. Current_Tree' = t2
  BY DEF Current_Tree
<1>3. t2.PBA = t.PBA /\ t2.Hash = t.Hash
  OBVIOUS
<1> HIDE DEF t, t2
<1>4. VBD_Use(t2) = VBD_Use(t) /\ VBD_OK(t2)
  BY ONLY <1>1, <1>3, SameTree
<1>5. Used(VBD_Use(t2), sb') = Used(VBD_Use(t), sb)
  BY <1>4 DEF Used
<1>6. VBD_OK(Current_Tree)'
  BY <1>2, <1>4
<1>7. Rekeying_OK' /\ Write_OK'
  BY DEF Rekeying_OK, Write_OK
<1>8. Used_VBD' = VBD_Use(t2)
  BY <1>2 DEF Used_VBD
<1>9. Once'
  BY <1>1, <1>5, <1>8 DEF Once
<1>10. SB_OK(sb, cur_gen)' /\ (DOMAIN blocks = PBA)' /\ (DOMAIN rkg = Rkg_Fields)'
  BY <1>1
<1> QED BY <1>6, <1>7, <1>9, <1>10 DEF IInv

(* A superblock is secured.                                                *)
LEMMA SecureStep ==
  ASSUME IInv, job.phase # "Write_Back", NEW s, SB_Form(s, cur_gen), Curr(s).Gen = cur_gen,
         s.Free = sb.Free, s.Meta = sb.Meta,
         Curr(s).PBA = Current_Tree.PBA, Curr(s).Hash = Current_Tree.Hash,
         Secure(s), blocks' = blocks, rkg' = rkg, job'.phase = "Idle"
  PROVE  IInv'
<1>1. sb' = [s EXCEPT !.Last_Secured_Generation = cur_gen] /\ cur_gen' = cur_gen + 1
  BY DEF Secure
<1>2. SB_OK(sb', cur_gen + 1) /\ Same_Trees(s, sb')
  BY <1>1, SecuredOK
<1>3. SB_OK(sb', cur_gen')
  BY <1>1, <1>2
<1>4. sb'.Free = sb.Free /\ sb'.Meta = sb.Meta
  BY <1>2 DEF Same_Trees
<1>5. Curr(sb').PBA = Current_Tree.PBA /\ Curr(sb').Hash = Current_Tree.Hash
  BY <1>2 DEF Same_Trees
<1>6. DOMAIN rkg' = Rkg_Fields
  BY DEF IInv
<1> QED BY <1>3, <1>4, <1>5, <1>6, TreesKept

(* The operations on the superblock for clients.                           *)
LEMMA ForClient ==
  ASSUME IInv, NEW s, SB_Form(s, cur_gen), Curr(s).Gen = cur_gen, Same_Trees(sb, s), For_Client(s)
  PROVE  IInv'
<1>1. job.phase = "Idle" /\ Secure(s) /\ blocks' = blocks /\ rkg' = rkg /\ job' = job
  BY DEF For_Client, Ready
<1>2. Current_Tree = Curr(sb)
  BY <1>1 DEF Current_Tree
<1>3. /\ s.Free = sb.Free /\ s.Meta = sb.Meta
      /\ Curr(s).PBA = Current_Tree.PBA /\ Curr(s).Hash = Current_Tree.Hash
  BY <1>2 DEF Same_Trees
<1>4. job.phase # "Write_Back" /\ job'.phase = "Idle"
  BY <1>1
<1> QED BY <1>1, <1>3, <1>4, SecureStep

(* A superblock is secured.                                                *)
LEMMA SyncKeepsInv == IInv /\ Execute_Sync => IInv'
<1> SUFFICES ASSUME IInv, Execute_Sync PROVE IInv'
  OBVIOUS
<1> DEFINE s     == Secure_Curr_Gen(sb.Snapshots)
           snaps == sb.Snapshots
<1>1. SB_OK(sb, cur_gen) /\ For_Client(s)
  BY DEF IInv, Execute_Sync
<1>2. s = Secure_Curr_Gen(snaps)
  OBVIOUS
<1>3. Snaps_OK(snaps) /\ Newest_Is(snaps, sb.Curr_Snap) /\ snaps[sb.Curr_Snap] = Curr(sb)
  BY <1>1 DEF SB_OK, SB_Form, Curr
<1> HIDE DEF s, snaps
<1>4. SB_Form(s, cur_gen) /\ Curr(s).Gen = cur_gen /\ Same_Trees(sb, s)
  BY ONLY <1>1, <1>2, <1>3, SecureCurrGen
<1> QED BY <1>1, <1>4, ForClient

(* A snapshot is kept.                                                     *)
LEMMA CreateSnapshotKeepsInv == IInv /\ Execute_Create_Snapshot => IInv'
<1> SUFFICES ASSUME IInv, Execute_Create_Snapshot PROVE IInv'
  OBVIOUS
<1> DEFINE s     == Secure_Curr_Gen(sb.Snapshots)
           snaps == sb.Snapshots
           s2    == [s EXCEPT !.Snapshots[s.Curr_Snap].Keep = TRUE]
           c     == s.Curr_Snap
           old   == s.Snapshots[s.Curr_Snap]
           new   == [old EXCEPT !.Keep = TRUE]
           snaps2 == [s.Snapshots EXCEPT ![s.Curr_Snap] = new]
<1>1. SB_OK(sb, cur_gen) /\ For_Client(s2)
  BY DEF IInv, Execute_Create_Snapshot
<1>2. s = Secure_Curr_Gen(snaps)
  OBVIOUS
<1>3. Snaps_OK(snaps) /\ Newest_Is(snaps, sb.Curr_Snap) /\ snaps[sb.Curr_Snap] = Curr(sb)
  BY <1>1 DEF SB_OK, SB_Form, Curr
<1> HIDE DEF s, snaps
<1>4. SB_Form(s, cur_gen) /\ Curr(s).Gen = cur_gen /\ Same_Trees(sb, s)
  BY ONLY <1>1, <1>2, <1>3, SecureCurrGen
<1>5. /\ DOMAIN s = SB_Fields /\ Snaps_OK(s.Snapshots) /\ Newest_Is(s.Snapshots, c)
      /\ s.Last_Secured_Generation \in Nat /\ cur_gen \in Nat
      /\ s.Rekeying_VBA \in VBA /\ Free_Root_OK(s.Free) /\ Meta_Root_OK(s.Meta)
      /\ old.Gen = cur_gen /\ c \in Snapshots_Index
  BY <1>4 DEF SB_Form, Curr, Newest_Is
<1>6. s2 = [s EXCEPT !.Snapshots = snaps2]
  OBVIOUS
<1>7. /\ DOMAIN s2 = SB_Fields /\ s2.Snapshots = snaps2 /\ s2.Curr_Snap = c
      /\ s2.Last_Secured_Generation = s.Last_Secured_Generation
      /\ s2.Rekeying_VBA = s.Rekeying_VBA /\ s2.Free = s.Free /\ s2.Meta = s.Meta
  <2> HIDE DEF snaps2, s2
  <2> QED BY <1>5, <1>6 DEF SB_Fields
<1> DEFINE Form(x) == /\ DOMAIN x = {"Valid", "Keep", "Gen", "PBA", "Hash"}
                      /\ x.Valid \in BOOLEAN /\ x.Gen \in Nat
<1>8. \A k \in Snapshots_Index : Form(s.Snapshots[k])
  BY <1>5 DEF Snaps_OK
<1>9. Form(old) /\ old.Valid
  BY <1>5, <1>8 DEF Newest_Is
<1> HIDE DEF old
<1>10. Form(new) /\ new.Valid /\ new.Gen = old.Gen /\ new.PBA = old.PBA /\ new.Hash = old.Hash
  BY <1>9
<1>11. DOMAIN snaps2 = Snapshots_Index /\ snaps2[c] = new
       /\ \A k \in Snapshots_Index : k # c => snaps2[k] = s.Snapshots[k]
  <2>1. DOMAIN s.Snapshots = Snapshots_Index
    BY <1>5 DEF Snaps_OK
  <2> HIDE DEF new
  <2> QED BY <2>1, <1>5
<1> HIDE DEF snaps2, new, s2, Form, c
<1>12. Snaps_OK(snaps2)
  <2>1. \A k \in Snapshots_Index : Form(snaps2[k])
    BY <1>8, <1>10, <1>11
  <2> QED BY <1>11, <2>1 DEF Snaps_OK, Form
<1>13. Newest_Is(snaps2, c)
  <2>1. \A k \in Snapshots_Index : k # c /\ s.Snapshots[k].Valid => s.Snapshots[k].Gen < old.Gen
    BY <1>5 DEF Newest_Is, old, c
  <2>2. \A k \in Snapshots_Index : k # c /\ snaps2[k].Valid => snaps2[k].Gen < new.Gen
    BY <2>1, <1>10, <1>11
  <2> QED BY <2>2, <1>5, <1>10, <1>11 DEF Newest_Is
<1>14. Curr(s2) = new /\ Curr(s) = old
  BY <1>7, <1>11 DEF Curr, old, c
<1>15. cur_gen <= cur_gen
  BY <1>5
<1>16. SB_Form(s2, cur_gen) /\ Curr(s2).Gen = cur_gen
  BY <1>5, <1>7, <1>10, <1>12, <1>13, <1>14, <1>15 DEF SB_Form
<1>17. Same_Trees(sb, s2)
  BY <1>4, <1>7, <1>10, <1>14 DEF Same_Trees, c
<1> QED BY <1>1, <1>16, <1>17, ForClient

(* A snapshot that was kept is discarded.                                  *)
LEMMA DiscardSnapshotKeepsInv ==
  ASSUME IInv, NEW i \in Snapshots_Index, Execute_Discard_Snapshot(i)
  PROVE  IInv'
<1> DEFINE old   == sb.Snapshots
           c     == sb.Curr_Snap
           snaps == [sb.Snapshots EXCEPT ![i].Valid = FALSE]
           s     == Secure_Curr_Gen(snaps)
           x     == old[i]
           y     == [x EXCEPT !.Valid = FALSE]
           Form(z) == /\ DOMAIN z = {"Valid", "Keep", "Gen", "PBA", "Hash"}
                      /\ z.Valid \in BOOLEAN /\ z.Gen \in Nat
<1>1. SB_OK(sb, cur_gen) /\ For_Client(s) /\ i # c
  BY DEF IInv, Execute_Discard_Snapshot
<1>2. Snaps_OK(old) /\ Newest_Is(old, c) /\ c \in Snapshots_Index /\ DOMAIN old = Snapshots_Index
  BY <1>1 DEF SB_OK, SB_Form, Snaps_OK, Newest_Is
<1>3. \A k \in Snapshots_Index : Form(old[k])
  BY <1>2 DEF Snaps_OK
<1>4. snaps = [old EXCEPT ![i] = y]
  OBVIOUS
<1>5. Form(x)
  BY <1>3
<1> HIDE DEF x
<1>6. Form(y) /\ ~y.Valid
  BY <1>5
<1> HIDE DEF y
<1>7. /\ DOMAIN snaps = Snapshots_Index /\ snaps[i] = y
      /\ \A k \in Snapshots_Index : k # i => snaps[k] = old[k]
  BY <1>2, <1>4
<1> HIDE DEF snaps, Form
<1>8. Snaps_OK(snaps)
  <2>1. \A k \in Snapshots_Index : Form(snaps[k])
    BY <1>3, <1>6, <1>7
  <2> QED BY <1>7, <2>1 DEF Snaps_OK, Form
<1>9. snaps[c] = Curr(sb)
  BY <1>1, <1>2, <1>7 DEF Curr
<1>10. Newest_Is(snaps, c)
  <2>1. /\ old[c].Valid /\ snaps[c] = old[c]
        /\ \A k \in Snapshots_Index : k # c /\ old[k].Valid => old[k].Gen < old[c].Gen
    BY <1>1, <1>2, <1>7 DEF Newest_Is
  <2> HIDE DEF old
  <2>2. \A k \in Snapshots_Index : k # c /\ snaps[k].Valid => snaps[k].Gen < snaps[c].Gen
    BY <2>1, <1>6, <1>7
  <2> QED BY <1>2, <2>1, <2>2 DEF Newest_Is
<1>11. s = Secure_Curr_Gen(snaps)
  OBVIOUS
<1> HIDE DEF s
<1>12. SB_Form(s, cur_gen) /\ Curr(s).Gen = cur_gen /\ Same_Trees(sb, s)
  <2>1. Newest_Is(snaps, sb.Curr_Snap) /\ snaps[sb.Curr_Snap] = Curr(sb)
    BY <1>9, <1>10
  <2> QED BY ONLY <1>1, <1>8, <1>11, <2>1, SecureCurrGen
<1> QED BY <1>1, <1>12, ForClient

(* A rekeying begins.                                                      *)
LEMMA InitializeRekeyingKeepsInv == IInv /\ Execute_Initialize_Rekeying => IInv'
<1> SUFFICES ASSUME IInv, Execute_Initialize_Rekeying PROVE IInv'
  OBVIOUS
<1> DEFINE t == [sb EXCEPT !.State = "Rekeying", !.Rekeying_VBA = 0,
                           !.Previous_Key = sb.Current_Key, !.Current_Key = sb.Current_Key + 1]
           s == Curr_Gen_Set(t)
<1>1. SB_Form(sb, cur_gen) /\ For_Client(s)
  BY DEF IInv, SB_OK, Execute_Initialize_Rekeying
<1>2. DOMAIN sb = SB_Fields
  BY <1>1 DEF SB_Form
<1>3. /\ DOMAIN t = SB_Fields /\ t.Snapshots = sb.Snapshots /\ t.Curr_Snap = sb.Curr_Snap
      /\ t.Last_Secured_Generation = sb.Last_Secured_Generation
      /\ t.Rekeying_VBA = 0 /\ t.Free = sb.Free /\ t.Meta = sb.Meta
  BY <1>2 DEF SB_Fields
<1>4. s = Curr_Gen_Set(t)
  OBVIOUS
<1> HIDE DEF t, s
<1>5. Curr(t) = Curr(sb)
  BY <1>3 DEF Curr
<1>6. 0 \in VBA
  BY Numbers DEF VBA
<1>7. SB_Form(t, cur_gen)
  BY <1>1, <1>3, <1>5, <1>6 DEF SB_Form
<1>8. SB_Form(s, cur_gen) /\ Curr(s).Gen = cur_gen /\ Same_Trees(t, s)
  BY <1>4, <1>7, CurrGenSet
<1>9. Same_Trees(sb, s)
  BY <1>3, <1>5, <1>8 DEF Same_Trees
<1> QED BY <1>1, <1>8, <1>9, ForClient

(* An address is rekeyed: the snapshots of the rekeying become those of the*)
(* superblock.                                                             *)
LEMMA RekeyCompletedKeepsInv == IInv /\ Execute_Rekey_VBA_Completed => IInv'
<1> SUFFICES ASSUME IInv, Execute_Rekey_VBA_Completed PROVE IInv'
  OBVIOUS
<1> DEFINE rekeyed == [sb EXCEPT !.Snapshots = rkg.Snapshots]
           t == IF sb.Rekeying_VBA < Max_VBA
                THEN [rekeyed EXCEPT !.Rekeying_VBA = @ + 1]
                ELSE [rekeyed EXCEPT !.Previous_Key = 0, !.State = "Normal"]
           s == Curr_Gen_Set(t)
           c == sb.Curr_Snap
<1>1. /\ SB_Form(sb, cur_gen) /\ Secure(s) /\ job' = [phase |-> "Idle"]
      /\ blocks' = blocks /\ rkg' = rkg /\ job.phase = "VBA_Rekeyed"
  BY DEF IInv, SB_OK, Execute_Rekey_VBA_Completed, Ready
<1>2. /\ Snaps_OK(rkg.Snapshots) /\ Newest_Is(rkg.Snapshots, c)
      /\ rkg.Snapshots[c].Gen = Curr(sb).Gen
  BY <1>1 DEF IInv, Rekeying_OK
<1>3. DOMAIN sb = SB_Fields
  BY <1>1 DEF SB_Form
<1>4. /\ DOMAIN rekeyed = SB_Fields /\ rekeyed.Snapshots = rkg.Snapshots /\ rekeyed.Curr_Snap = c
      /\ rekeyed.Last_Secured_Generation = sb.Last_Secured_Generation
      /\ rekeyed.Rekeying_VBA = sb.Rekeying_VBA /\ rekeyed.Free = sb.Free /\ rekeyed.Meta = sb.Meta
  BY <1>3 DEF SB_Fields
<1> HIDE DEF rekeyed, c
<1>5. /\ DOMAIN t = SB_Fields /\ t.Snapshots = rkg.Snapshots /\ t.Curr_Snap = c
      /\ t.Last_Secured_Generation = sb.Last_Secured_Generation
      /\ t.Free = sb.Free /\ t.Meta = sb.Meta
      /\ t.Rekeying_VBA = IF sb.Rekeying_VBA < Max_VBA THEN sb.Rekeying_VBA + 1
                          ELSE sb.Rekeying_VBA
  <2>1. CASE sb.Rekeying_VBA < Max_VBA
    <3>1. t = [rekeyed EXCEPT !.Rekeying_VBA = rekeyed.Rekeying_VBA + 1]
      BY <2>1
    <3> HIDE DEF t
    <3> QED BY <2>1, <3>1, <1>4 DEF SB_Fields
  <2>2. CASE ~(sb.Rekeying_VBA < Max_VBA)
    <3>1. t = [rekeyed EXCEPT !.Previous_Key = 0, !.State = "Normal"]
      BY <2>2
    <3> HIDE DEF t
    <3> QED BY <2>2, <3>1, <1>4 DEF SB_Fields
  <2> QED BY <2>1, <2>2
<1>6. s = Curr_Gen_Set(t)
  OBVIOUS
<1> HIDE DEF t, s
<1>7. Curr(t) = rkg.Snapshots[c] /\ Current_Tree = rkg.Snapshots[c]
  BY <1>1, <1>5 DEF Curr, Current_Tree, c
<1>8. t.Rekeying_VBA \in VBA
  <2>1. sb.Rekeying_VBA \in VBA /\ VBA = 0 .. Leafs - 1 /\ Max_VBA = Leafs - 1 /\ Leafs \in Nat
    BY <1>1, Numbers DEF SB_Form, VBA, Max_VBA
  <2> QED BY <2>1, <1>5
<1>9. SB_Form(t, cur_gen)
  BY <1>1, <1>2, <1>5, <1>7, <1>8 DEF SB_Form
<1>10. SB_Form(s, cur_gen) /\ Curr(s).Gen = cur_gen /\ Same_Trees(t, s)
  BY <1>6, <1>9, CurrGenSet
<1>11. /\ s.Free = sb.Free /\ s.Meta = sb.Meta
       /\ Curr(s).PBA = Current_Tree.PBA /\ Curr(s).Hash = Current_Tree.Hash
  BY <1>5, <1>7, <1>10 DEF Same_Trees
<1>12. job.phase # "Write_Back" /\ job'.phase = "Idle"
  BY <1>1
<1> QED BY <1>1, <1>10, <1>11, <1>12, SecureStep

(* The rekeying of an address starts with the newest snapshot, which is    *)
(* the current one.                                                        *)
LEMMA NewestCurrent ==
  ASSUME NEW snaps, NEW c, Snaps_OK(snaps), Newest_Is(snaps, c)
  PROVE  Newest(snaps, Valid_Snaps(snaps)) = c
<1> DEFINE S == Valid_Snaps(snaps)
           Is(i) == \A k \in S : snaps[k].Gen <= snaps[i].Gen
<1>1. c \in S /\ \A k \in S : k \in Snapshots_Index /\ snaps[k].Valid
  BY DEF Valid_Snaps, Newest_Is
<1>2. \A k \in S : snaps[k].Gen \in Nat /\ (k # c => snaps[k].Gen < snaps[c].Gen)
  BY <1>1 DEF Snaps_OK, Newest_Is
<1>3. Is(c)
  BY <1>1, <1>2
<1>4. \A i \in S : Is(i) => i = c
  BY <1>1, <1>2
<1> HIDE DEF S
<1>5. (CHOOSE i \in S : Is(i)) = c
  <2> HIDE DEF Is
  <2> QED BY <1>1, <1>3, <1>4
<1> QED BY <1>5 DEF Newest, S

(* The rekeying of the next address begins.                                *)
LEMMA SubmitKeepsInv == IInv /\ Submit_Rekey_VBA => IInv'
<1> SUFFICES ASSUME IInv, Submit_Rekey_VBA PROVE IInv'
  OBVIOUS
<1> DEFINE old   == sb.Snapshots
           c     == sb.Curr_Snap
           last  == sb.Last_Secured_Generation
           snaps == Discard_Disposable_Snapshots(old, cur_gen, last)
           idx   == Newest(snaps, Valid_Snaps(snaps))
           vba   == sb.Rekeying_VBA
           gen   == cur_gen
<1>1. /\ job.phase = "Idle" /\ job' = [phase |-> "Rekey_VBA"]
      /\ rkg' = [rkg EXCEPT !.VBA = vba, !.Snapshots = snaps, !.Snapshot_Idx = idx,
                            !.First_Snapshot = TRUE]
      /\ blocks' = blocks /\ sb' = sb /\ cur_gen' = cur_gen
  BY DEF Submit_Rekey_VBA, Ready
<1>2. /\ SB_OK(sb, cur_gen) /\ DOMAIN blocks = PBA /\ DOMAIN rkg = Rkg_Fields
      /\ VBD_OK(Current_Tree) /\ Once
  BY DEF IInv
<1>3. /\ Snaps_OK(old) /\ Newest_Is(old, c) /\ old[c].Gen \in {gen, last} /\ vba \in VBA
      /\ Curr(sb) = old[c]
  BY <1>2 DEF SB_OK, SB_Form, Curr
<1>4. snaps = Discard_Disposable_Snapshots(old, gen, last)
  OBVIOUS
<1> HIDE DEF snaps, old, c, last, vba, idx, gen
<1>5. /\ Snaps_OK(snaps) /\ Newest_Is(snaps, c) /\ snaps[c].Gen = old[c].Gen
      /\ snaps[c].PBA = old[c].PBA /\ snaps[c].Hash = old[c].Hash
  BY ONLY <1>3, <1>4, SnapshotsDiscarded
<1>6. idx = c
  BY <1>5, NewestCurrent DEF idx
<1>7. /\ DOMAIN rkg' = Rkg_Fields /\ rkg'.VBA = vba /\ rkg'.Snapshots = snaps
      /\ rkg'.Snapshot_Idx = c /\ rkg'.First_Snapshot = TRUE
  BY <1>1, <1>2, <1>6 DEF Rkg_Fields
<1>8. job'.phase = "Rekey_VBA" /\ sb'.Curr_Snap = c /\ Curr(sb)' = old[c]
  BY <1>1, <1>3 DEF c, Curr
<1>9. c \in Snapshots_Index /\ snaps[c].Valid
  BY <1>5 DEF Newest_Is
<1>10. Rekeying_OK'
  BY <1>3, <1>5, <1>7, <1>8, <1>9 DEF Rekeying_OK
<1>11. Write_OK'
  BY <1>8 DEF Write_OK
<1> DEFINE t  == Current_Tree
           t2 == snaps[c]
<1>12. Current_Tree' = t2
  BY <1>7, <1>8 DEF Current_Tree
<1>13. t = old[c]
  BY <1>1, <1>3 DEF Current_Tree
<1>14. t2.PBA = t.PBA /\ t2.Hash = t.Hash
  BY <1>5, <1>13
<1>15. VBD_OK(t) /\ Inj(Used(VBD_Use(t), sb)) /\ Blocks(Used(VBD_Use(t), sb)) = PBA
  BY <1>1, <1>2 DEF Once, Used_VBD
<1> HIDE DEF t, t2
<1>16. VBD_Use(t2) = VBD_Use(t) /\ VBD_OK(t2)
  BY ONLY <1>14, <1>15, SameTree
<1>17. VBD_OK(Current_Tree)'
  BY <1>12, <1>16
<1>18. Used_VBD' = VBD_Use(t2)
  BY <1>8, <1>12 DEF Used_VBD
<1>19. Once'
  BY <1>1, <1>15, <1>16, <1>18 DEF Once
<1>20. SB_OK(sb, cur_gen)' /\ (DOMAIN blocks = PBA)' /\ (DOMAIN rkg = Rkg_Fields)'
  BY <1>1, <1>2, <1>7
<1> QED BY <1>10, <1>11, <1>17, <1>19, <1>20 DEF IInv

-----------------------------------------------------------------------------
(***************************************************************************)
(* Writes.                                                                 *)
(***************************************************************************)

(* A step that changes nothing of what the invariant is about.             *)
LEMMA UnchangedKeepsInv ==
  IInv /\ UNCHANGED <<blocks, sb, cur_gen, job, rkg>> => IInv'
<1> SUFFICES ASSUME IInv, UNCHANGED <<blocks, sb, cur_gen, job, rkg>> PROVE IInv'
  OBVIOUS
<1>1. blocks' = blocks /\ sb' = sb /\ cur_gen' = cur_gen /\ job' = job /\ rkg' = rkg
  OBVIOUS
<1>2. Current_Tree' = Current_Tree
  BY <1>1 DEF Current_Tree, Curr
<1>3. Rekeying_OK'
  BY <1>1 DEF IInv, Rekeying_OK, Curr
<1>4. Write_OK'
  <2>1. Type_1_Node_Walk(Curr(sb), job.req.VBA)' = Type_1_Node_Walk(Curr(sb), job.req.VBA)
    BY <1>1 DEF Type_1_Node_Walk, Curr
  <2> QED BY <1>1, <2>1 DEF IInv, Write_OK
<1>5. Once'
  <2>1. Used_VBD' = Used_VBD
    BY <1>1, <1>2 DEF Used_VBD
  <2> QED BY <1>1, <2>1 DEF IInv, Once
<1> QED BY <1>1, <1>2, <1>3, <1>4, <1>5 DEF IInv

(* Levels that have their own block, or none yet.                          *)
LEMMA VUseSame ==
  ASSUME NEW v, NEW at, NEW new, DOMAIN v = V_Place, v = [p \in V_Place |-> v[p]], Way(at),
         \A l \in Level : new[l] \in {0, v[at[l]]}
  PROVE  V_Use(v, at, new) = v
<1> DEFINE u == V_Use(v, at, new)
<1>1. u = [p \in V_Place |-> u[p]]
  BY DEF V_Use
<1>2. \A p \in V_Place : u[p] = v[p]
  <2> TAKE p \in V_Place
  <2>1. CASE \E l \in Level : p = at[l]
    <3>1. PICK l \in Level : p = at[l]
      BY <2>1
    <3>2. /\ new[l] # 0 => u[at[l]] = new[l]
          /\ new[l] = 0 => u[at[l]] = v[at[l]]
      BY VUseAt
    <3>3. new[l] = 0 \/ new[l] = v[at[l]]
      OBVIOUS
    <3> HIDE DEF u
    <3> QED BY <3>1, <3>2, <3>3
  <2>2. CASE \A l \in Level : p # at[l]
    BY <2>2, VUseAt
  <2> QED BY <2>1, <2>2
<1> HIDE DEF u
<1>3. u = v
  BY <1>1, <1>2
<1> QED BY <1>3 DEF u

(* The use of blocks by a tree is a function of the places.                *)
LEMMA VBDUseForm ==
  ASSUME NEW snap
  PROVE  /\ DOMAIN VBD_Use(snap) = V_Place
         /\ VBD_Use(snap) = [p \in V_Place |-> VBD_Use(snap)[p]]
  BY DEF VBD_Use

(* A write begins.                                                         *)
LEMMA SCDKeepsInv ==
  ASSUME IInv, NEW vba \in VBA, Execute_SCD(vba)
  PROVE  IInv'
<1> DEFINE walk == Type_1_Node_Walk(Curr(sb), vba)
           new  == [l \in Level |-> IF In_Place(walk[l], l) THEN walk[l].PBA ELSE 0]
           req  == FT_Request(vba, walk, new, cur_gen, "Pool_VBD")
           ph   == IF \E l \in Level : new[l] = 0 THEN "Free_Tree" ELSE "Write_Back"
           t    == Curr(sb)
           v    == VBD_Use(t)
           at   == Way_To(vba)
<1>1. /\ job.phase = "Idle"
      /\ \/ Raise_Program_Error("hash")
         \/ /\ Readable(walk, 1 .. Max_Level)
            /\ job' = [phase |-> ph, req |-> req]
            /\ UNCHANGED <<blocks, sb, cur_gen, rkg>>
  BY DEF Execute_SCD, Ready
<1>2. CASE Raise_Program_Error("hash")
  BY <1>2, UnchangedKeepsInv DEF Raise_Program_Error
<1>3. CASE /\ Readable(walk, 1 .. Max_Level)
           /\ job' = [phase |-> ph, req |-> req]
           /\ UNCHANGED <<blocks, sb, cur_gen, rkg>>
  <2>1. /\ SB_OK(sb, cur_gen) /\ DOMAIN blocks = PBA /\ DOMAIN rkg = Rkg_Fields
        /\ VBD_OK(t) /\ Inj(Used(v, sb)) /\ Blocks(Used(v, sb)) = PBA
    BY <1>1 DEF IInv, Once, Used_VBD, Current_Tree
  <2>2. \A l \in 1 .. Max_Level : blocks[walk[l].PBA] = walk[l].Hash
    BY <1>3 DEF Readable, Check_Node_Hash
  <2>3. \A l \in Level : new[l] \in {0, walk[l].PBA}
    OBVIOUS
  <2>4. DOMAIN new = Level
    OBVIOUS
  <2>5. walk = Type_1_Node_Walk(t, vba)
    OBVIOUS
  <2>20. /\ DOMAIN req = Req_Fields /\ req.VBA = vba /\ req.Tag = "Pool_VBD"
         /\ req.Old_Blocks = walk /\ req.New_Blocks = new
    <3> HIDE DEF walk, new
    <3> QED BY DEF FT_Request, Req_Fields
  <2>21. /\ ph \in {"Free_Tree", "Write_Back"}
         /\ ph = "Write_Back" => \A l \in Level : new[l] # 0
    <3> HIDE DEF new
    <3> QED OBVIOUS
  <2> HIDE DEF walk, new, req, ph, t, v, at
  <2>6. \A l \in Level : walk[l].PBA # 0 /\ walk[l].PBA = v[at[l]]
    BY <2>1, <2>5, ContentOnTheWay DEF v, at
  <2>7. Way(at)
    BY OnTheWay DEF at
  <2>8. V_Use(v, at, new) = v
    <3>1. DOMAIN v = V_Place /\ v = [p \in V_Place |-> v[p]]
      BY VBDUseForm DEF v
    <3>2. \A l \in Level : new[l] \in {0, v[at[l]]}
      BY <2>3, <2>6
    <3> QED BY ONLY <3>1, <3>2, <2>7, VUseSame
  <2>9. /\ job'.phase = ph /\ job'.req = req /\ DOMAIN job' = {"phase", "req"}
        /\ sb' = sb /\ blocks' = blocks /\ cur_gen' = cur_gen /\ rkg' = rkg
    BY <1>3
  <2>10. Current_Tree' = t
    BY <2>9, <2>21 DEF Current_Tree, Curr, t
  <2>11. Used_VBD' = v
    BY <2>8, <2>9, <2>10, <2>20 DEF Used_VBD, v, at
  <2>12. Once'
    BY <2>1, <2>9, <2>11 DEF Once
  <2>13. Rekeying_OK'
    BY <2>9, <2>21 DEF Rekeying_OK
  <2>14. Write_OK'
    <3>1. Type_1_Node_Walk(Curr(sb), job.req.VBA)' = walk
      BY <2>5, <2>9, <2>20 DEF Type_1_Node_Walk, Curr, t
    <3> QED BY <2>2, <2>3, <2>4, <2>9, <2>20, <2>21, <3>1 DEF Write_OK
  <2>15. VBD_OK(Current_Tree)'
    BY <2>1, <2>10
  <2>16. SB_OK(sb, cur_gen)' /\ (DOMAIN blocks = PBA)' /\ (DOMAIN rkg = Rkg_Fields)'
    BY <2>1, <2>9
  <2> QED BY <2>12, <2>13, <2>14, <2>15, <2>16 DEF IInv
<1> QED BY <1>1, <1>2, <1>3

(* The blocks that a request to the free tree may write.                   *)
Inner(free, meta) ==
  ({Root_Use(Meta_Degree, meta, 0)[p] : p \in T2_Place}
   \cup {free.PBA} \cup {free.Hash[i].PBA : i \in 0 .. Free_Degree - 1}) \ {0}

(* They are not those of the virtual block device.                         *)
LEMMA InnerBlocks ==
  ASSUME NEW s, NEW v, Free_Root_OK(s.Free), Meta_Root_OK(s.Meta),
         DOMAIN v = V_Place, Inj(Used(v, s))
  PROVE  /\ Within(s.Free, s.Meta, Inner(s.Free, s.Meta))
         /\ \A p \in V_Place : /\ v[p] # 0 => v[p] \notin Inner(s.Free, s.Meta)
                               /\ v[p] # 0 => v[p] \in Blocks(Used(v, s))
<1> DEFINE free  == s.Free
           meta  == s.Meta
           f     == Root_Use(Free_Degree, free, 0)
           m     == Root_Use(Meta_Degree, meta, 0)
           g     == All_Use(v, f, m)
           inner == Inner(free, meta)
<1>1. g = Used(v, s)
  BY DEF Used
<1>2. free.PBA # 0
  BY DEF Free_Root_OK, T1_Root
<1>3. Within(free, meta, inner)
  BY <1>2 DEF Within, Inner
<1>4. /\ f[Root_Place] = free.PBA /\ Root_Place \in T2_Place
      /\ \A i \in 0 .. Free_Degree - 1 : f[Node_Place(i)] = free.Hash[i].PBA
      /\ \A i \in 0 .. Free_Degree - 1 : Node_Place(i) \in T2_Place
  <2> DEFINE pba     == free.PBA
             entries == free.Hash
             caller  == 0
             d       == Free_Degree
  <2>1. f = T2_Use(d, pba, entries, caller) /\ d \in Nat
    BY Numbers DEF Root_Use
  <2> HIDE DEF f, pba, entries, caller, d
  <2>2. f[Root_Place] = pba
    BY ONLY <2>1, T2UseTop
  <2>3. ASSUME NEW i \in 0 .. d - 1 PROVE f[Node_Place(i)] = entries[i].PBA
    <3>1. i \in 0 .. d - 1
      OBVIOUS
    <3> QED BY ONLY <2>1, <3>1, T2UseNode
  <2>4. Root_Place \in T2_Place /\ \A i \in 0 .. d - 1 : Node_Place(i) \in T2_Place
    BY <2>1, T2Places
  <2> QED BY <2>2, <2>3, <2>4 DEF pba, entries, d
<1> HIDE DEF g, f, m, free, meta
<1>5. /\ DOMAIN g = Place
      /\ \A p \in V_Place : g[VBD_Place(p)] = v[p]
      /\ \A p \in T2_Place : g[Free_Place(p)] = f[p] /\ g[Meta_Place(p)] = m[p]
  BY AllUse DEF g
<1>6. /\ \A p \in V_Place : VBD_Place(p) \in Place
      /\ \A p \in T2_Place : Free_Place(p) \in Place /\ Meta_Place(p) \in Place
      /\ \A p, q : VBD_Place(p) # Free_Place(q) /\ VBD_Place(p) # Meta_Place(q)
  BY Places
<1>7. Inj(g)
  BY <1>1
<1>8. ASSUME NEW p \in V_Place, v[p] # 0 PROVE v[p] \notin inner
  <2>1. \A q \in T2_Place : v[p] # f[q] /\ v[p] # m[q]
    BY <1>5, <1>6, <1>7, <1>8 DEF Inj
  <2>2. v[p] # free.PBA
    BY <2>1, <1>4
  <2>3. \A i \in 0 .. Free_Degree - 1 : v[p] # free.Hash[i].PBA
    BY <2>1, <1>4
  <2> QED BY <2>1, <2>2, <2>3 DEF Inner, m
<1>9. ASSUME NEW p \in V_Place, v[p] # 0 PROVE v[p] \in Blocks(g)
  BY <1>5, <1>6, <1>9 DEF Blocks
<1> QED BY <1>1, <1>3, <1>8, <1>9 DEF free, meta

(* A write gets its blocks.                                                *)
LEMMA FreeTreeKeepsInv == IInv /\ Execute_Free_Tree => IInv'
<1> SUFFICES ASSUME IInv, Execute_Free_Tree PROVE IInv'
  OBVIOUS
<1> DEFINE req == job.req
           vba == job.req.VBA
           old == job.req.Old_Blocks
           new == job.req.New_Blocks
           t   == Curr(sb)
           v   == VBD_Use(t)
           at  == Way_To(vba)
           inner == Inner(sb.Free, sb.Meta)
           free  == sb.Free
           meta  == sb.Meta
           snaps == sb.Snapshots
           last  == sb.Last_Secured_Generation
           bl    == blocks
<1>1. PICK ft \in {Alloc(req)} :
         /\ job.phase = "Free_Tree"
         /\ \/ Raise_Program_Error(ft.error)
            \/ /\ ft.error = "none"
               /\ blocks' = ft.blocks
               /\ sb' = [sb EXCEPT !.Free = ft.node, !.Meta = ft.meta]
               /\ job' = [job EXCEPT !.phase = "Write_Back", !.req.New_Blocks = ft.new]
               /\ UNCHANGED <<cur_gen, rkg, secured, error, count>>
  BY DEF Execute_Free_Tree, Ready
<1>2. CASE Raise_Program_Error(ft.error)
  BY <1>2, UnchangedKeepsInv DEF Raise_Program_Error
<1>3. CASE /\ ft.error = "none"
           /\ blocks' = ft.blocks
           /\ sb' = [sb EXCEPT !.Free = ft.node, !.Meta = ft.meta]
           /\ job' = [job EXCEPT !.phase = "Write_Back", !.req.New_Blocks = ft.new]
           /\ UNCHANGED <<cur_gen, rkg, secured, error, count>>
  <2>1. ft = Free_Tree_Alloc(bl, free, meta, snaps, last, req)
    BY DEF Alloc
  <2>2. /\ SB_OK(sb, cur_gen) /\ DOMAIN bl = PBA /\ DOMAIN rkg = Rkg_Fields
        /\ VBD_OK(t) /\ Inj(Used(v, sb)) /\ Blocks(Used(v, sb)) = PBA
    BY <1>1 DEF IInv, Once, Used_VBD, Current_Tree
  <2>3. /\ DOMAIN job = {"phase", "req"} /\ DOMAIN req = Req_Fields
        /\ vba \in VBA /\ req.Tag = "Pool_VBD" /\ old = Type_1_Node_Walk(t, vba)
        /\ \A l \in 1 .. Max_Level : bl[old[l].PBA] = old[l].Hash
        /\ DOMAIN new = Level
        /\ \A l \in Level : new[l] \in {0, old[l].PBA}
    BY <1>1 DEF IInv, Write_OK
  <2>4. DOMAIN sb = SB_Fields /\ Free_Root_OK(free) /\ Meta_Root_OK(meta)
    BY <2>2 DEF SB_OK, SB_Form
  <2>5. /\ DOMAIN sb' = SB_Fields /\ sb'.Free = ft.node /\ sb'.Meta = ft.meta
        /\ sb'.Snapshots = snaps /\ sb'.Curr_Snap = sb.Curr_Snap
        /\ sb'.Last_Secured_Generation = last /\ sb'.Rekeying_VBA = sb.Rekeying_VBA
    BY <1>3, <2>4 DEF SB_Fields
  <2>6. /\ DOMAIN job' = {"phase", "req"} /\ job'.phase = "Write_Back"
        /\ job'.req = [req EXCEPT !.New_Blocks = ft.new]
    BY <1>3, <2>3
  <2>7. /\ DOMAIN job'.req = Req_Fields /\ job'.req.VBA = vba /\ job'.req.Tag = "Pool_VBD"
        /\ job'.req.Old_Blocks = old /\ job'.req.New_Blocks = ft.new
    BY <2>3, <2>6 DEF Req_Fields
  <2>8. \A l \in Level : old[l].PBA # 0 /\ old[l].PBA = v[at[l]]
    <3> DEFINE walk == old
    <3>1. walk = Type_1_Node_Walk(t, vba)
      BY <2>3
    <3> HIDE DEF walk, t, vba
    <3>2. \A l \in Level : walk[l].PBA # 0 /\ walk[l].PBA = VBD_Use(t)[Way_To(vba)[l]]
      BY <2>2, <2>3, <3>1, ContentOnTheWay
    <3> QED BY <3>2 DEF walk
  <2>9. Way(at) /\ \A l \in Level : at[l] \in V_Place
    BY <2>3, OnTheWay DEF Way
  <2>10. DOMAIN v = V_Place /\ v = [p \in V_Place |-> v[p]]
    BY VBDUseForm
  <2> HIDE DEF req, vba, old, new, t, v, at, inner, free, meta, snaps, last, bl
  <2>11. V_Use(v, at, new) = v
    <3>1. \A l \in Level : new[l] \in {0, v[at[l]]}
      BY <2>3, <2>8
    <3> QED BY ONLY <3>1, <2>9, <2>10, VUseSame
  <2>12. Request_For(req, v, at)
    <3>1. \A l \in Level : req.Old_Blocks[l].PBA = v[at[l]]
      BY <2>8 DEF req, old
    <3> QED BY <3>1, <2>3, <2>9 DEF Request_For
  <2>13. /\ Within(free, meta, inner)
         /\ \A p \in V_Place : v[p] # 0 => v[p] \notin inner /\ v[p] \in PBA
    <3> DEFINE s == sb
    <3>1. /\ Free_Root_OK(s.Free) /\ Meta_Root_OK(s.Meta) /\ DOMAIN v = V_Place
          /\ Inj(Used(v, s)) /\ Blocks(Used(v, s)) = PBA
      BY <2>2, <2>4, <2>10 DEF free, meta
    <3> HIDE DEF s
    <3>2. /\ Within(s.Free, s.Meta, Inner(s.Free, s.Meta))
          /\ \A p \in V_Place : /\ v[p] # 0 => v[p] \notin Inner(s.Free, s.Meta)
                                /\ v[p] # 0 => v[p] \in Blocks(Used(v, s))
      BY ONLY <3>1, InnerBlocks
    <3> QED BY <3>1, <3>2 DEF s, free, meta, inner
  <2>14. req.New_Blocks = new /\ DOMAIN req.New_Blocks = Level
    BY <2>3 DEF req, new
  <2>15. \A x, n, m : Tree_Use(v, at, req, x, n, m) =
           All_Use(V_Use(v, at, x), Root_Use(Free_Degree, n, 0), Root_Use(Meta_Degree, m, 0))
    BY <2>3 DEF Tree_Use, Taken
  <2>16. Tree_Use(v, at, req, req.New_Blocks, free, meta) = Used(v, sb)
    BY <2>11, <2>14, <2>15 DEF Used, free, meta
  <2>17. /\ Free_Root_OK(ft.node) /\ Meta_Root_OK(ft.meta)
         /\ DOMAIN ft.new = Level /\ \A l \in Level : ft.new[l] # 0
         /\ Inj(Tree_Use(v, at, req, ft.new, ft.node, ft.meta))
         /\ Blocks(Tree_Use(v, at, req, ft.new, ft.node, ft.meta)) =
              Blocks(Tree_Use(v, at, req, req.New_Blocks, free, meta))
         /\ DOMAIN ft.blocks = DOMAIN bl
         /\ \A p \in DOMAIN bl \ inner : ft.blocks[p] = bl[p]
    <3>1. Meta_Degree \in Nat /\ Free_Degree \in Nat /\ Max_Level \in Nat
      BY Numbers
    <3>2. Inj(Tree_Use(v, at, req, req.New_Blocks, free, meta))
      BY <2>2, <2>16
    <3>3. ft.error = "none"
      BY <1>3
    <3>4. Within(free, meta, inner) /\ DOMAIN req.New_Blocks = Level
      BY <2>13, <2>14
    <3> QED BY ONLY <3>1, <3>2, <3>3, <3>4, <2>1, <2>4, <2>12, FreeTreeAlloc
  <2>18. Curr(sb') = t
    BY <2>5 DEF Curr, t, snaps
  <2>19. Current_Tree' = t
    BY <2>6, <2>18 DEF Current_Tree
  <2>20. Used_VBD' = V_Use(v, at, ft.new)
    BY <2>6, <2>7, <2>19 DEF Used_VBD, v, at
  <2>21. Used(V_Use(v, at, ft.new), sb') = Tree_Use(v, at, req, ft.new, ft.node, ft.meta)
    BY <2>5, <2>15 DEF Used
  <2>22. Once'
    BY <2>2, <2>16, <2>17, <2>20, <2>21 DEF Once
  <2>23. VBD_OK(Current_Tree)'
    BY <2>2, <2>19
  <2>24. SB_OK(sb, cur_gen)'
    <3>1. cur_gen' = cur_gen
      BY <1>3
    <3> QED BY <2>2, <2>5, <2>17, <2>18, <3>1 DEF SB_OK, SB_Form, snaps, t, last
  <2>25. Rekeying_OK'
    BY <2>6 DEF Rekeying_OK
  <2>26. \A l \in 1 .. Max_Level : ft.blocks[old[l].PBA] = old[l].Hash
    <3> TAKE l \in 1 .. Max_Level
    <3>1. l \in Level
      BY Numbers
    <3>2. old[l].PBA \in DOMAIN bl \ inner
      BY <3>1, <2>2, <2>8, <2>9, <2>13
    <3> QED BY <3>2, <2>3, <2>17
  <2>27. Type_1_Node_Walk(Curr(sb), job.req.VBA)' = old
    <3>1. Type_1_Node_Walk(Curr(sb), job.req.VBA)' = Type_1_Node_Walk(t, vba)
      BY <2>7, <2>18 DEF Type_1_Node_Walk
    <3> QED BY <2>3, <3>1
  <2>28. Write_OK'
    <3>1. blocks' = ft.blocks
      BY <1>3
    <3> QED BY <2>3, <2>6, <2>7, <2>17, <2>26, <2>27, <3>1 DEF Write_OK
  <2>29. (DOMAIN blocks = PBA)' /\ (DOMAIN rkg = Rkg_Fields)'
    BY <1>3, <2>2, <2>17
  <2> QED BY <2>22, <2>23, <2>24, <2>25, <2>28, <2>29 DEF IInv
<1> QED BY <1>1, <1>2, <1>3

(* A snapshot of the current generation is set in a free slot, or in that  *)
(* of the current one.                                                     *)
LEMMA SlotForWrite ==
  ASSUME SB_Form(sb, cur_gen), NEW i \in Slots_For_Write
  PROVE  /\ i \in Snapshots_Index
         /\ \A k \in Snapshots_Index : k # i /\ sb.Snapshots[k].Valid =>
              sb.Snapshots[k].Gen < cur_gen
<1> DEFINE snaps == sb.Snapshots
           c     == sb.Curr_Snap
<1>1. /\ Snaps_OK(snaps) /\ c \in Snapshots_Index /\ snaps[c].Valid /\ snaps[c].Gen <= cur_gen
      /\ \A k \in Snapshots_Index : k # c /\ snaps[k].Valid => snaps[k].Gen < snaps[c].Gen
      /\ cur_gen \in Nat
  BY DEF SB_Form, Newest_Is, Curr
<1>2. \A k \in Snapshots_Index : snaps[k].Gen \in Nat
  BY <1>1 DEF Snaps_OK
<1>3. CASE snaps[c].Gen < cur_gen
  <2>1. i \in Snapshots_Index
    BY <1>3 DEF Slots_For_Write, Curr
  <2> HIDE DEF snaps, c
  <2>2. \A k \in Snapshots_Index : snaps[k].Valid => snaps[k].Gen < cur_gen
    BY <1>1, <1>2, <1>3
  <2> QED BY <2>1, <2>2 DEF snaps
<1>4. CASE ~(snaps[c].Gen < cur_gen)
  <2>1. i = c
    BY <1>4 DEF Slots_For_Write, Curr
  <2> HIDE DEF snaps, c
  <2>2. snaps[c].Gen = cur_gen
    BY <1>1, <1>2, <1>4
  <2> QED BY <1>1, <2>1, <2>2 DEF snaps
<1> QED BY <1>3, <1>4

(* A write is finished.                                                    *)
LEMMA WritebackKeepsInv == IInv /\ Execute_Writeback => IInv'
<1> SUFFICES ASSUME IInv, Execute_Writeback PROVE IInv'
  OBVIOUS
<1> DEFINE req     == job.req
           vba     == job.req.VBA
           old     == job.req.Old_Blocks
           new     == job.req.New_Blocks
           t       == Curr(sb)
           leaf    == Leaf(count.writes + 1, sb.Current_Key)
           content == Updated_Branch(job.req, leaf)
           top     == content[Max_Level]
           keep    == t.Keep /\ t.Gen = cur_gen
           pba     == new[Max_Level]
           snap    == [t EXCEPT !.Gen = cur_gen, !.PBA = pba, !.Hash = top, !.Keep = keep]
           v       == VBD_Use(t)
           at      == Way_To(vba)
<1>1. /\ job.phase = "Write_Back"
      /\ \/ Raise_Program_Error("snapshots_full")
         \/ /\ \E i \in Slots_For_Write : sb' = [sb EXCEPT !.Curr_Snap = i, !.Snapshots[i] = snap]
            /\ blocks' = Branch_Written(blocks, new, content, Level)
            /\ job' = [phase |-> "Idle"]
            /\ UNCHANGED <<cur_gen, rkg>>
  BY DEF Execute_Writeback, Ready
<1>2. CASE Raise_Program_Error("snapshots_full")
  BY <1>2, UnchangedKeepsInv DEF Raise_Program_Error
<1>3. CASE /\ \E i \in Slots_For_Write : sb' = [sb EXCEPT !.Curr_Snap = i, !.Snapshots[i] = snap]
           /\ blocks' = Branch_Written(blocks, new, content, Level)
           /\ job' = [phase |-> "Idle"]
           /\ UNCHANGED <<cur_gen, rkg>>
  <2>1. PICK i \in Slots_For_Write : sb' = [sb EXCEPT !.Curr_Snap = i, !.Snapshots[i] = snap]
    BY <1>3
  <2>2. /\ SB_OK(sb, cur_gen) /\ DOMAIN blocks = PBA /\ DOMAIN rkg = Rkg_Fields /\ VBD_OK(t)
        /\ Inj(Used(V_Use(v, at, new), sb)) /\ Blocks(Used(V_Use(v, at, new), sb)) = PBA
    BY <1>1 DEF IInv, Once, Used_VBD, Current_Tree
  <2>3. /\ vba \in VBA /\ old = Type_1_Node_Walk(t, vba)
        /\ \A l \in 1 .. Max_Level : blocks[old[l].PBA] = old[l].Hash
        /\ \A l \in Level : new[l] # 0
    BY <1>1 DEF IInv, Write_OK
  <2>4. New_Branch(vba, old, new, content)
    <3> DEFINE walk == old
    <3>1. /\ walk = Type_1_Node_Walk(t, req.VBA) /\ req.VBA \in VBA /\ VBD_OK(t)
          /\ \A l \in 1 .. Max_Level : blocks[req.Old_Blocks[l].PBA] = walk[l].Hash
      BY <2>2, <2>3
    <3>2. /\ content = Updated_Branch(req, leaf) /\ vba = req.VBA /\ new = req.New_Blocks
      OBVIOUS
    <3> HIDE DEF req, vba, new, walk, leaf, t, content
    <3>3. New_Branch(req.VBA, walk, req.New_Blocks, Updated_Branch(req, leaf))
      BY ONLY <3>1, UpdatedBranchNew
    <3> QED BY <3>2, <3>3 DEF walk
  <2>5. /\ DOMAIN sb = SB_Fields /\ SB_Form(sb, cur_gen) /\ Snaps_OK(sb.Snapshots)
        /\ Free_Root_OK(sb.Free) /\ Meta_Root_OK(sb.Meta) /\ sb.Rekeying_VBA \in VBA
        /\ sb.Last_Secured_Generation \in Nat /\ cur_gen \in Nat
    BY <2>2 DEF SB_OK, SB_Form
  <2> DEFINE Form(z) == /\ DOMAIN z = {"Valid", "Keep", "Gen", "PBA", "Hash"}
                        /\ z.Valid \in BOOLEAN /\ z.Gen \in Nat
  <2>6. Form(t) /\ t.Valid
    BY <2>2 DEF SB_OK, SB_Form, Curr, Snaps_OK, Newest_Is
  <2> HIDE DEF t, top, pba, keep, new, content, leaf, v, at, req, vba, old
  <2>7. /\ Form(snap) /\ snap.Valid /\ snap.Gen = cur_gen /\ snap.PBA = pba /\ snap.Hash = top
    BY <2>5, <2>6
  <2> HIDE DEF snap, Form
  <2>8. VBD_OK(snap) /\ VBD_Use(snap) = V_Use(v, at, new)
    <3>1. snap.PBA = new[Max_Level] /\ snap.Hash = content[Max_Level]
      BY <2>7 DEF pba, top
    <3>2. New_Branch(vba, Type_1_Node_Walk(t, vba), new, content)
      BY <2>3, <2>4
    <3>3. vba \in VBA /\ (\A l \in Level : new[l] # 0) /\ VBD_OK(t)
      BY <2>2, <2>3
    <3>4. VBD_OK(snap) /\ VBD_Use(snap) = V_Use(VBD_Use(t), Way_To(vba), new)
      BY ONLY <3>1, <3>2, <3>3, BranchReplaced
    <3> QED BY <3>4 DEF v, at
  <2>9. /\ i \in Snapshots_Index
        /\ \A k \in Snapshots_Index : k # i /\ sb.Snapshots[k].Valid =>
             sb.Snapshots[k].Gen < cur_gen
    BY <2>5, SlotForWrite
  <2> DEFINE snaps2 == [sb.Snapshots EXCEPT ![i] = snap]
  <2>10. sb' = [sb EXCEPT !.Curr_Snap = i, !.Snapshots = snaps2]
    BY <2>1
  <2>11. /\ DOMAIN snaps2 = Snapshots_Index /\ snaps2[i] = snap
         /\ \A k \in Snapshots_Index : k # i => snaps2[k] = sb.Snapshots[k]
    BY <2>5, <2>9 DEF Snaps_OK
  <2> HIDE DEF snaps2
  <2>12. /\ DOMAIN sb' = SB_Fields /\ sb'.Snapshots = snaps2 /\ sb'.Curr_Snap = i
         /\ sb'.Last_Secured_Generation = sb.Last_Secured_Generation
         /\ sb'.Rekeying_VBA = sb.Rekeying_VBA /\ sb'.Free = sb.Free /\ sb'.Meta = sb.Meta
    BY <2>5, <2>10 DEF SB_Fields
  <2>13. Curr(sb') = snap
    BY <2>11, <2>12 DEF Curr
  <2>14. Snaps_OK(snaps2)
    <3>1. \A k \in Snapshots_Index : Form(sb.Snapshots[k])
      BY <2>5 DEF Snaps_OK, Form
    <3>2. \A k \in Snapshots_Index : Form(snaps2[k])
      BY <3>1, <2>7, <2>11
    <3> QED BY <2>11, <3>2 DEF Snaps_OK, Form
  <2>15. Newest_Is(snaps2, i)
    <3>1. \A k \in Snapshots_Index : k # i /\ snaps2[k].Valid => snaps2[k].Gen < snap.Gen
      BY <2>7, <2>9, <2>11
    <3> QED BY <2>7, <2>9, <2>11, <3>1 DEF Newest_Is
  <2>16. cur_gen' = cur_gen /\ cur_gen <= cur_gen
    BY <1>3, <2>5
  <2>17. SB_OK(sb, cur_gen)'
    BY <2>5, <2>7, <2>12, <2>13, <2>14, <2>15, <2>16 DEF SB_OK, SB_Form
  <2>18. job'.phase = "Idle" /\ rkg' = rkg
    BY <1>3
  <2>19. Current_Tree' = snap
    BY <2>13, <2>18 DEF Current_Tree
  <2>20. VBD_OK(Current_Tree)'
    BY <2>8, <2>19
  <2>21. Rekeying_OK' /\ Write_OK'
    BY <2>18 DEF Rekeying_OK, Write_OK
  <2>22. Used_VBD' = V_Use(v, at, new)
    BY <2>8, <2>18, <2>19 DEF Used_VBD
  <2>23. Used(V_Use(v, at, new), sb') = Used(V_Use(v, at, new), sb)
    BY <2>12 DEF Used
  <2>24. Once'
    BY <2>2, <2>22, <2>23 DEF Once
  <2>25. (DOMAIN blocks = PBA)' /\ (DOMAIN rkg = Rkg_Fields)'
    BY <1>3, <2>2 DEF Branch_Written
  <2> QED BY <2>17, <2>20, <2>21, <2>24, <2>25 DEF IInv
<1> QED BY <1>1, <1>2, <1>3

-----------------------------------------------------------------------------
(***************************************************************************)
(* Rekeying.                                                               *)
(***************************************************************************)

(* Of some snapshots, one is not older than the others: Newest is one of   *)
(* them.                                                                   *)
LEMMA NewestOfSome ==
  ASSUME NEW snaps, NEW S \in SUBSET Snapshots_Index, S # {},
         \A i \in Snapshots_Index : snaps[i].Gen \in Nat,
         NEW top \in Nat, \A i \in S : snaps[i].Gen < top
  PROVE  Newest(snaps, S) \in S
<1> DEFINE Is(i) == \A k \in S : snaps[k].Gen <= snaps[i].Gen
           T == {n \in Nat : (\E i \in S : snaps[i].Gen + n >= top) => \E i \in S : Is(i)}
<1>1. \A i \in S : snaps[i].Gen \in Nat
  OBVIOUS
<1>2. 0 \in T
  BY <1>1
<1>3. ASSUME NEW n \in Nat, n \in T PROVE n + 1 \in T
  <2> SUFFICES ASSUME NEW i \in S, snaps[i].Gen + (n + 1) >= top PROVE \E k \in S : Is(k)
    OBVIOUS
  <2>1. CASE \E k \in S : snaps[k].Gen + n >= top
    BY <1>3, <2>1
  <2>2. CASE \A k \in S : ~(snaps[k].Gen + n >= top)
    <3>1. Is(i)
      BY <1>1, <2>2
    <3> QED BY <3>1
  <2> QED BY <2>1, <2>2
<1> HIDE DEF T
<1>4. Nat \subseteq T
  BY <1>2, <1>3, SetInduction
<1>5. \E i \in S : snaps[i].Gen + top >= top
  BY <1>1
<1>6. \E i \in S : Is(i)
  BY <1>4, <1>5 DEF T
<1> QED BY <1>6 DEF Newest

(* A snapshot whose tree has a new root.                                   *)
Root_Set(snaps, i, pba, hash) == [snaps EXCEPT ![i].PBA = pba, ![i].Hash = hash]

(* It has all else as before.                                              *)
LEMMA RootSet ==
  ASSUME NEW snaps, NEW i \in Snapshots_Index, NEW pba, NEW hash, Snaps_OK(snaps),
         NEW snaps2, snaps2 = Root_Set(snaps, i, pba, hash)
  PROVE  /\ Snaps_OK(snaps2) /\ snaps2[i].PBA = pba /\ snaps2[i].Hash = hash
         /\ \A k \in Snapshots_Index : /\ k # i => snaps2[k] = snaps[k]
                                       /\ snaps2[k].Gen = snaps[k].Gen
                                       /\ snaps2[k].Valid = snaps[k].Valid
<1> DEFINE snap == [snaps[i] EXCEPT !.PBA = pba, !.Hash = hash]
           one  == [snaps EXCEPT ![i] = [snaps[i] EXCEPT !.PBA = pba]]
<1>1. /\ DOMAIN snaps = Snapshots_Index
      /\ \A k \in Snapshots_Index :
           /\ DOMAIN snaps[k] = {"Valid", "Keep", "Gen", "PBA", "Hash"}
           /\ snaps[k].Valid \in BOOLEAN /\ snaps[k].Gen \in Nat
  BY DEF Snaps_OK
<1>2. snaps2 = [snaps EXCEPT ![i] = snap]
  <2>1. snaps2 = [one EXCEPT ![i] = [one[i] EXCEPT !.Hash = hash]]
    BY DEF Root_Set
  <2> QED BY <1>1, <2>1
<1>3. /\ DOMAIN snap = {"Valid", "Keep", "Gen", "PBA", "Hash"}
      /\ snap.Valid = snaps[i].Valid /\ snap.Gen = snaps[i].Gen
      /\ snap.PBA = pba /\ snap.Hash = hash
  BY <1>1
<1> HIDE DEF snap
<1>4. /\ DOMAIN snaps2 = Snapshots_Index /\ snaps2[i] = snap
      /\ \A k \in Snapshots_Index : k # i => snaps2[k] = snaps[k]
  BY <1>1, <1>2
<1>5. \A k \in Snapshots_Index : /\ snaps2[k].Gen = snaps[k].Gen
                                 /\ snaps2[k].Valid = snaps[k].Valid
                                 /\ DOMAIN snaps2[k] = {"Valid", "Keep", "Gen", "PBA", "Hash"}
  BY <1>1, <1>3, <1>4
<1> QED BY <1>1, <1>3, <1>4, <1>5 DEF Snaps_OK

(* What the free tree gives to a request for a rekeying.                   *)
LEMMA AllocForRekeying ==
  ASSUME IInv, job.phase = "Rekey_VBA", NEW req, NEW v, NEW at,
         v = VBD_Use(Current_Tree), Request_For(req, v, at), DOMAIN req.New_Blocks = Level,
         \A l \in Level : Taken(req, req.New_Blocks)[l] = 0,
         NEW ft, ft = Alloc(req), ft.error = "none"
  PROVE  /\ Free_Root_OK(ft.node) /\ Meta_Root_OK(ft.meta)
         /\ DOMAIN ft.new = Level /\ \A l \in Level : ft.new[l] # 0
         /\ Inj(Tree_Use(v, at, req, ft.new, ft.node, ft.meta))
         /\ Blocks(Tree_Use(v, at, req, ft.new, ft.node, ft.meta)) = PBA
<1> DEFINE s     == sb
           free  == s.Free
           meta  == s.Meta
           snaps == s.Snapshots
           last  == s.Last_Secured_Generation
           bl    == blocks
           inner == Inner(free, meta)
           zeros == Taken(req, req.New_Blocks)
<1>1. /\ Free_Root_OK(free) /\ Meta_Root_OK(meta)
      /\ Inj(Used(v, s)) /\ Blocks(Used(v, s)) = PBA
  BY DEF IInv, SB_OK, SB_Form, Once, Used_VBD
<1>2. ft = Free_Tree_Alloc(bl, free, meta, snaps, last, req)
  BY DEF Alloc
<1>3. DOMAIN v = V_Place /\ v = [p \in V_Place |-> v[p]]
  BY VBDUseForm
<1>4. Way(at)
  BY DEF Request_For
<1> HIDE DEF zeros, s
<1>5. V_Use(v, at, zeros) = v
  <2>1. \A l \in Level : zeros[l] \in {0, v[at[l]]}
    BY DEF zeros
  <2> QED BY ONLY <1>3, <1>4, <2>1, VUseSame
<1>6. Within(free, meta, inner)
  <2>1. Free_Root_OK(s.Free) /\ Meta_Root_OK(s.Meta)
    BY <1>1
  <2> QED BY ONLY <1>1, <1>3, <2>1, InnerBlocks
<1>7. Tree_Use(v, at, req, req.New_Blocks, free, meta) = Used(v, s)
  BY <1>5 DEF Tree_Use, Used, zeros
<1> HIDE DEF free, meta, snaps, last, bl, inner
<1>8. /\ Meta_Degree \in Nat /\ Free_Degree \in Nat /\ Max_Level \in Nat
      /\ Inj(Tree_Use(v, at, req, req.New_Blocks, free, meta))
      /\ Request_For(req, v, at) /\ DOMAIN req.New_Blocks = Level /\ ft.error = "none"
  BY <1>1, <1>7, Numbers
<1>9. /\ Free_Root_OK(ft.node) /\ Meta_Root_OK(ft.meta)
      /\ DOMAIN ft.new = Level /\ \A l \in Level : ft.new[l] # 0
      /\ Inj(Tree_Use(v, at, req, ft.new, ft.node, ft.meta))
      /\ Blocks(Tree_Use(v, at, req, ft.new, ft.node, ft.meta)) =
           Blocks(Tree_Use(v, at, req, req.New_Blocks, free, meta))
  BY ONLY <1>1, <1>2, <1>6, <1>8, FreeTreeAlloc
<1> QED BY <1>1, <1>7, <1>9

(* What a rekeying asks of the free tree.                                  *)
LEMMA AllocRequestForm ==
  ASSUME NEW snap, NEW walk, NEW req, req = Alloc_Request(snap, walk)
  PROVE  /\ DOMAIN req = Req_Fields /\ req.VBA = rkg.VBA /\ req.Old_Blocks = walk
         /\ DOMAIN req.New_Blocks = Level
         /\ rkg.First_Snapshot => /\ req.Tag = "Rkg_Curr_Gen_Blks"
                                  /\ Min_Lvl_Idx(walk) = 0
                                  /\ \A l \in Level : req.New_Blocks[l] = 0
         /\ ~rkg.First_Snapshot => req.Tag = "Rkg_Old_Gen_Blks"
<1> DEFINE new == [l \in Level |-> IF l >= Min_Lvl_Idx(walk) THEN 0 ELSE rkg.New_PBAs[l]]
           tag == IF rkg.First_Snapshot THEN "Rkg_Curr_Gen_Blks" ELSE "Rkg_Old_Gen_Blks"
           gen == Free_Gen_For(snap)
           vba == rkg.VBA
<1>1. req = FT_Request(vba, walk, new, gen, tag)
  BY DEF Alloc_Request
<1>2. DOMAIN new = Level
  OBVIOUS
<1>3. rkg.First_Snapshot => /\ Min_Lvl_Idx(walk) = 0
                            /\ \A l \in Level : new[l] = 0
  <2>1. rkg.First_Snapshot => Min_Lvl_Idx(walk) = 0
    BY DEF Min_Lvl_Idx, Shared_Levels
  <2> QED BY <2>1, Numbers
<1> HIDE DEF new, gen, tag, vba
<1>4. /\ DOMAIN req = Req_Fields /\ req.VBA = vba /\ req.Old_Blocks = walk
      /\ req.New_Blocks = new /\ req.Tag = tag
  BY <1>1 DEF FT_Request, Req_Fields
<1> QED BY <1>2, <1>3, <1>4 DEF tag, vba

(* In the current tree, all nodes on the way are exchanged.                *)
LEMMA CurrentRekeyed ==
  ASSUME IInv, job.phase = "Rekey_VBA", rkg.First_Snapshot,
         NEW t, t = Current_Tree, NEW walk, walk = Type_1_Node_Walk(t, rkg.VBA),
         Readable(walk, Levels_Read(walk)),
         NEW ft, ft = Alloc_For(t, walk), ft.error = "none"
  PROVE  /\ Free_Root_OK(ft.node) /\ Meta_Root_OK(ft.meta)
         /\ \A l \in Level : ft.new[l] # 0
         /\ New_Branch(rkg.VBA, walk, ft.new, Rekeyed_Branch(walk, ft.new))
         /\ Inj(All_Use(V_Use(VBD_Use(t), Way_To(rkg.VBA), ft.new),
                        Root_Use(Free_Degree, ft.node, 0), Root_Use(Meta_Degree, ft.meta, 0)))
         /\ Blocks(All_Use(V_Use(VBD_Use(t), Way_To(rkg.VBA), ft.new),
                           Root_Use(Free_Degree, ft.node, 0),
                           Root_Use(Meta_Degree, ft.meta, 0))) = PBA
<1> DEFINE req == Alloc_Request(t, walk)
           v   == VBD_Use(t)
           vba == rkg.VBA
           at  == Way_To(vba)
           new == ft.new
           zeros == req.New_Blocks
<1>1. vba \in VBA /\ VBD_OK(t)
  BY DEF IInv, Rekeying_OK
<1>2. /\ req.Old_Blocks = walk /\ DOMAIN zeros = Level
      /\ req.Tag = "Rkg_Curr_Gen_Blks" /\ Min_Lvl_Idx(walk) = 0
      /\ \A l \in Level : zeros[l] = 0
  BY AllocRequestForm
<1>3. ft = Alloc(req)
  BY <1>2, Numbers DEF Alloc_For
<1>4. \A l \in Level : walk[l].PBA = v[at[l]]
  <2> HIDE DEF vba
  <2>1. walk = Type_1_Node_Walk(t, vba)
    BY DEF vba
  <2> QED BY <1>1, <2>1, ContentOnTheWay
<1>5. \A l \in 1 .. Max_Level : l \in Levels_Read(walk) /\ blocks[walk[l].PBA] = walk[l].Hash
  <2>1. \A l \in 1 .. Max_Level : l \in Levels_Read(walk)
    BY <1>2, Numbers DEF Levels_Read
  <2> QED BY <2>1 DEF Readable, Check_Node_Hash
<1>6. Way(at)
  BY <1>1, OnTheWay
<1> HIDE DEF req, v, at, zeros
<1>7. Request_For(req, v, at)
  BY <1>2, <1>4, <1>6 DEF Request_For
<1>8. \A x : Taken(req, x) = x
  BY <1>2 DEF Taken
<1>9. /\ v = VBD_Use(Current_Tree) /\ DOMAIN req.New_Blocks = Level
      /\ \A l \in Level : Taken(req, req.New_Blocks)[l] = 0
  BY <1>2, <1>8 DEF v, zeros
<1>10. /\ Free_Root_OK(ft.node) /\ Meta_Root_OK(ft.meta) /\ \A l \in Level : ft.new[l] # 0
       /\ Inj(Tree_Use(v, at, req, ft.new, ft.node, ft.meta))
       /\ Blocks(Tree_Use(v, at, req, ft.new, ft.node, ft.meta)) = PBA
  <2>1. IInv /\ job.phase = "Rekey_VBA" /\ ft.error = "none"
    OBVIOUS
  <2> QED BY ONLY <1>3, <1>7, <1>9, <2>1, AllocForRekeying
<1>11. Tree_Use(v, at, req, new, ft.node, ft.meta) =
         All_Use(V_Use(v, at, new), Root_Use(Free_Degree, ft.node, 0),
                 Root_Use(Meta_Degree, ft.meta, 0))
  BY <1>8 DEF Tree_Use
<1>12. New_Branch(rkg.VBA, walk, new, Rekeyed_Branch(walk, new))
  <2>1. rkg.VBA \in VBA /\ walk = Type_1_Node_Walk(t, rkg.VBA)
    BY <1>1
  <2> HIDE DEF new, vba
  <2> QED BY ONLY <1>1, <1>5, <2>1, RekeyedBranchNew
<1> QED BY <1>10, <1>11, <1>12 DEF v, at

(* In an older one, the blocks are those that the free tree keeps.         *)
LEMMA OlderRekeyed ==
  ASSUME IInv, job.phase = "Rekey_VBA", ~rkg.First_Snapshot,
         NEW snap, NEW walk, NEW ft, ft = Alloc_For(snap, walk), ft.error = "none"
  PROVE  /\ Free_Root_OK(ft.node) /\ Meta_Root_OK(ft.meta)
         /\ Inj(All_Use(VBD_Use(Current_Tree),
                        Root_Use(Free_Degree, ft.node, 0), Root_Use(Meta_Degree, ft.meta, 0)))
         /\ Blocks(All_Use(VBD_Use(Current_Tree), Root_Use(Free_Degree, ft.node, 0),
                           Root_Use(Meta_Degree, ft.meta, 0))) = PBA
<1> DEFINE req == Alloc_Request(snap, walk)
           t   == Current_Tree
           v   == VBD_Use(t)
           vba == rkg.VBA
           at  == Way_To(vba)
           zeros == [l \in Level |-> 0]
<1>1. CASE Min_Lvl_Idx(walk) > Max_Level
  <2>1. ft.node = sb.Free /\ ft.meta = sb.Meta
    BY <1>1 DEF Alloc_For
  <2>2. /\ Free_Root_OK(sb.Free) /\ Meta_Root_OK(sb.Meta)
        /\ Inj(Used(v, sb)) /\ Blocks(Used(v, sb)) = PBA
    BY DEF IInv, SB_OK, SB_Form, Once, Used_VBD
  <2> QED BY <2>1, <2>2 DEF Used
<1>2. CASE ~(Min_Lvl_Idx(walk) > Max_Level)
  <2>1. vba \in VBA /\ VBD_OK(t)
    BY DEF IInv, Rekeying_OK
  <2>2. DOMAIN req.New_Blocks = Level /\ req.Tag = "Rkg_Old_Gen_Blks"
    BY AllocRequestForm
  <2>3. ft = Alloc(req)
    BY <1>2 DEF Alloc_For
  <2>4. Way(at)
    BY <2>1, OnTheWay
  <2> HIDE DEF req, at, t
  <2>5. Request_For(req, v, at)
    BY <2>2, <2>4 DEF Request_For
  <2>6. \A x : Taken(req, x) = zeros
    BY <2>2 DEF Taken
  <2>7. \A l \in Level : Taken(req, req.New_Blocks)[l] = 0
    BY <2>6
  <2>8. v = VBD_Use(Current_Tree)
    BY DEF t
  <2>9. DOMAIN v = V_Place /\ v = [p \in V_Place |-> v[p]]
    BY VBDUseForm
  <2> HIDE DEF v
  <2>10. /\ Free_Root_OK(ft.node) /\ Meta_Root_OK(ft.meta)
         /\ Inj(Tree_Use(v, at, req, ft.new, ft.node, ft.meta))
         /\ Blocks(Tree_Use(v, at, req, ft.new, ft.node, ft.meta)) = PBA
    <3>1. IInv /\ job.phase = "Rekey_VBA" /\ ft.error = "none"
      OBVIOUS
    <3> QED BY ONLY <2>2, <2>3, <2>5, <2>7, <2>8, <3>1, AllocForRekeying
  <2>11. V_Use(v, at, zeros) = v
    <3>1. \A l \in Level : zeros[l] \in {0, v[at[l]]}
      OBVIOUS
    <3> HIDE DEF zeros
    <3> QED BY ONLY <2>4, <2>9, <3>1, VUseSame
  <2>12. Tree_Use(v, at, req, ft.new, ft.node, ft.meta) =
           All_Use(v, Root_Use(Free_Degree, ft.node, 0), Root_Use(Meta_Degree, ft.meta, 0))
    BY <2>6, <2>11 DEF Tree_Use
  <2> QED BY <2>8, <2>10, <2>12
<1> QED BY <1>1, <1>2

(* The snapshots that are older than one of a rekeying are not the current *)
(* one.                                                                    *)
LEMMA OlderSnapshots ==
  ASSUME NEW snaps, NEW c, NEW i \in Snapshots_Index, Snaps_OK(snaps), Newest_Is(snaps, c),
         snaps[i].Valid,
         NEW older, older = {k \in Valid_Snaps(snaps) : snaps[k].Gen < snaps[i].Gen},
         older # {}
  PROVE  /\ Newest(snaps, older) \in Snapshots_Index /\ Newest(snaps, older) # c
         /\ snaps[Newest(snaps, older)].Valid
<1> DEFINE top == snaps[i].Gen
           n   == Newest(snaps, older)
<1>1. \A k \in Snapshots_Index : snaps[k].Gen \in Nat
  BY DEF Snaps_OK
<1>2. older \in SUBSET Snapshots_Index /\ \A k \in older : snaps[k].Gen < top /\ snaps[k].Valid
  BY DEF Valid_Snaps
<1>3. top \in Nat
  BY <1>1
<1> HIDE DEF n
<1>4. n \in older
  <2> HIDE DEF top
  <2> QED BY ONLY <1>1, <1>2, <1>3, older # {}, NewestOfSome DEF n
<1>5. c \in Snapshots_Index /\ (i # c => snaps[i].Gen < snaps[c].Gen)
  BY DEF Newest_Is
<1>6. n # c
  BY <1>1, <1>2, <1>4, <1>5
<1> QED BY <1>2, <1>4, <1>6 DEF n

(* An address is rekeyed in a snapshot.                                    *)
LEMMA RekeySnapshotKeepsInv == IInv /\ Rekey_Snapshot => IInv'
<1> SUFFICES ASSUME IInv, Rekey_Snapshot PROVE IInv'
  OBVIOUS
<1> DEFINE snaps == rkg.Snapshots
           i     == rkg.Snapshot_Idx
           c     == sb.Curr_Snap
           snap  == rkg.Snapshots[rkg.Snapshot_Idx]
           walk  == Type_1_Node_Walk(snap, rkg.VBA)
           older == {k \in Valid_Snaps(snaps) : snaps[k].Gen < snaps[i].Gen}
           t     == Current_Tree
           v     == VBD_Use(t)
           at    == Way_To(rkg.VBA)
<1>1. /\ job.phase = "Rekey_VBA"
      /\ \/ Raise_Program_Error("hash")
         \/ /\ Readable(walk, Levels_Read(walk))
            /\ \E ft \in {Alloc_For(snap, walk)} :
                 \/ Raise_Program_Error(ft.error)
                 \/ /\ ft.error = "none"
                    /\ \E content \in {Rekeyed_Branch(walk, ft.new)} :
                         Rekeyed(i, walk, ft, content)
  BY DEF Rekey_Snapshot, Ready
<1>2. CASE Raise_Program_Error("hash")
  BY <1>2, UnchangedKeepsInv DEF Raise_Program_Error
<1>3. CASE /\ Readable(walk, Levels_Read(walk))
           /\ \E ft \in {Alloc_For(snap, walk)} :
                \/ Raise_Program_Error(ft.error)
                \/ /\ ft.error = "none"
                   /\ \E content \in {Rekeyed_Branch(walk, ft.new)} :
                        Rekeyed(i, walk, ft, content)
  <2>1. PICK ft \in {Alloc_For(snap, walk)} :
          \/ Raise_Program_Error(ft.error)
          \/ /\ ft.error = "none"
             /\ \E content \in {Rekeyed_Branch(walk, ft.new)} : Rekeyed(i, walk, ft, content)
    BY <1>3
  <2>2. CASE Raise_Program_Error(ft.error)
    BY <2>2, UnchangedKeepsInv DEF Raise_Program_Error
  <2>3. CASE /\ ft.error = "none"
             /\ \E content \in {Rekeyed_Branch(walk, ft.new)} : Rekeyed(i, walk, ft, content)
    <3> DEFINE content == Rekeyed_Branch(walk, ft.new)
               new     == ft.new
               pba     == new[Max_Level]
               top     == content[Max_Level]
               snaps2  == Root_Set(snaps, i, pba, top)
               olds    == [l \in Level |-> IF l \in Levels_Read(walk)
                                           THEN walk[l].PBA ELSE rkg.Old_PBAs[l]]
               idx     == IF older = {} THEN i ELSE Newest(snaps, older)
               ph      == IF older = {} THEN "VBA_Rekeyed" ELSE "Rekey_VBA"
    <3>1. Rekeyed(i, walk, ft, content)
      BY <2>3
    <3>2. ft = Alloc_For(snap, walk) /\ ft.error = "none"
      BY <2>1, <2>3
    <3>3. /\ SB_OK(sb, cur_gen) /\ DOMAIN blocks = PBA /\ DOMAIN rkg = Rkg_Fields
          /\ DOMAIN sb = SB_Fields /\ VBD_OK(t) /\ t = snaps[c]
      BY <1>1 DEF IInv, SB_OK, SB_Form, Current_Tree
    <3>4. /\ rkg.VBA \in VBA /\ Snaps_OK(snaps) /\ Newest_Is(snaps, c)
          /\ snaps[c].Gen = Curr(sb).Gen /\ i \in Snapshots_Index /\ snaps[i].Valid
          /\ rkg.First_Snapshot = (i = c)
      BY <1>1 DEF IInv, Rekeying_OK
    <3>5. /\ blocks' = Branch_Written(ft.blocks, new, content, Levels_Read(walk))
          /\ sb' = [sb EXCEPT !.Free = ft.node, !.Meta = ft.meta]
          /\ job' = [phase |-> ph]
          /\ cur_gen' = cur_gen
      BY <3>1 DEF Rekeyed
    <3>6. rkg' = [rkg EXCEPT
                    !.Snapshots[i].PBA  = pba,
                    !.Snapshots[i].Hash = top,
                    !.Old_PBAs = [l \in Level |-> IF l \in Levels_Read(walk)
                                                  THEN walk[l].PBA ELSE @[l]],
                    !.New_PBAs = new,
                    !.Blks = content,
                    !.First_Snapshot = FALSE,
                    !.Snapshot_Idx = idx]
      BY <3>1 DEF Rekeyed
    <3> HIDE DEF pba, top, new, idx, ph, content, walk, older
    <3>7. /\ DOMAIN rkg' = Rkg_Fields /\ rkg'.VBA = rkg.VBA /\ rkg'.Snapshots = snaps2
          /\ rkg'.First_Snapshot = FALSE /\ rkg'.Snapshot_Idx = idx
      BY <3>3, <3>6 DEF Rkg_Fields, Root_Set
    <3>8. /\ DOMAIN sb' = SB_Fields /\ sb'.Free = ft.node /\ sb'.Meta = ft.meta
          /\ sb'.Snapshots = sb.Snapshots /\ sb'.Curr_Snap = c
          /\ sb'.Last_Secured_Generation = sb.Last_Secured_Generation
          /\ sb'.Rekeying_VBA = sb.Rekeying_VBA
      BY <3>3, <3>5 DEF SB_Fields
    <3>9. job'.phase = ph /\ ph \in {"VBA_Rekeyed", "Rekey_VBA"}
      BY <3>5 DEF ph
    <3> HIDE DEF snaps2, c, i, snaps
    <3>10. /\ Snaps_OK(snaps2) /\ snaps2[i].PBA = pba /\ snaps2[i].Hash = top
           /\ \A k \in Snapshots_Index : /\ k # i => snaps2[k] = snaps[k]
                                         /\ snaps2[k].Gen = snaps[k].Gen
                                         /\ snaps2[k].Valid = snaps[k].Valid
      BY <3>4, RootSet DEF snaps2
    <3>11. Newest_Is(snaps2, c)
      BY <3>4, <3>10 DEF Newest_Is
    <3>12. Curr(sb') = Curr(sb)
      BY <3>8 DEF Curr, c
    <3>13. Current_Tree' = snaps2[c]
      BY <3>7, <3>8, <3>9 DEF Current_Tree
    <3>14. ph = "Rekey_VBA" => idx \in Snapshots_Index /\ snaps2[idx].Valid /\ idx # c
      <4>1. CASE older = {}
        BY <4>1 DEF ph
      <4>2. CASE older # {}
        <5>1. older = {k \in Valid_Snaps(snaps) : snaps[k].Gen < snaps[i].Gen}
          BY DEF older
        <5> DEFINE n == Newest(snaps, older)
        <5>2. n \in Snapshots_Index /\ n # c /\ snaps[n].Valid
          BY ONLY <3>4, <4>2, <5>1, OlderSnapshots
        <5>3. idx = n
          BY <4>2 DEF idx
        <5> HIDE DEF n
        <5> QED BY <3>10, <5>2, <5>3
      <4> QED BY <4>1, <4>2
    <3>15. Rekeying_OK'
      <4>1. c \in Snapshots_Index
        BY <3>4 DEF Newest_Is
      <4>2. rkg'.Snapshots[sb'.Curr_Snap].Gen = Curr(sb').Gen
        BY <3>4, <3>7, <3>8, <3>10, <3>12, <4>1
      <4>3. Snaps_OK(rkg'.Snapshots) /\ Newest_Is(rkg'.Snapshots, sb'.Curr_Snap)
        BY <3>7, <3>8, <3>10, <3>11
      <4>4. ph = "Rekey_VBA" => /\ rkg'.Snapshot_Idx \in Snapshots_Index
                                /\ rkg'.Snapshots[rkg'.Snapshot_Idx].Valid
                                /\ rkg'.First_Snapshot = (rkg'.Snapshot_Idx = sb'.Curr_Snap)
        BY <3>7, <3>8, <3>14
      <4>5. rkg'.VBA \in VBA
        BY <3>4, <3>7
      <4> QED BY <3>9, <4>2, <4>3, <4>4, <4>5 DEF Rekeying_OK
    <3>16. Write_OK'
      BY <3>9 DEF Write_OK
    <3>17. Used_VBD' = VBD_Use(snaps2[c])
      BY <3>9, <3>13 DEF Used_VBD
    <3>18. /\ Free_Root_OK(ft.node) /\ Meta_Root_OK(ft.meta)
           /\ VBD_OK(snaps2[c])
           /\ Inj(All_Use(VBD_Use(snaps2[c]),
                          Root_Use(Free_Degree, ft.node, 0), Root_Use(Meta_Degree, ft.meta, 0)))
           /\ Blocks(All_Use(VBD_Use(snaps2[c]), Root_Use(Free_Degree, ft.node, 0),
                             Root_Use(Meta_Degree, ft.meta, 0))) = PBA
      <4>1. c \in Snapshots_Index
        BY <3>4 DEF Newest_Is
      <4>2. CASE i = c
        <5>1. /\ rkg.First_Snapshot /\ snap = t
          BY <3>3, <3>4, <4>2 DEF i, snaps
        <5>2. walk = Type_1_Node_Walk(t, rkg.VBA) /\ Readable(walk, Levels_Read(walk))
          BY <1>3, <5>1 DEF walk
        <5>3. IInv /\ job.phase = "Rekey_VBA" /\ ft = Alloc_For(t, walk) /\ ft.error = "none"
              /\ t = Current_Tree
          BY <1>1, <3>2, <5>1
        <5> DEFINE vba == rkg.VBA
                   cont == Rekeyed_Branch(walk, new)
                   s2 == snaps2[c]
        <5> HIDE DEF t, s2
        <5>4. /\ Free_Root_OK(ft.node) /\ Meta_Root_OK(ft.meta)
              /\ \A l \in Level : ft.new[l] # 0
              /\ New_Branch(rkg.VBA, walk, ft.new, Rekeyed_Branch(walk, ft.new))
              /\ Inj(All_Use(V_Use(VBD_Use(t), Way_To(rkg.VBA), ft.new),
                             Root_Use(Free_Degree, ft.node, 0), Root_Use(Meta_Degree, ft.meta, 0)))
              /\ Blocks(All_Use(V_Use(VBD_Use(t), Way_To(rkg.VBA), ft.new),
                                Root_Use(Free_Degree, ft.node, 0),
                                Root_Use(Meta_Degree, ft.meta, 0))) = PBA
          BY ONLY <5>1, <5>2, <5>3, CurrentRekeyed
        <5>5. /\ vba \in VBA /\ VBD_OK(t) /\ \A l \in Level : new[l] # 0
              /\ New_Branch(vba, Type_1_Node_Walk(t, vba), new, cont)
              /\ s2.PBA = new[Max_Level] /\ s2.Hash = cont[Max_Level]
          BY <3>3, <3>4, <3>10, <4>2, <5>2, <5>4 DEF new, pba, top, content, s2
        <5> HIDE DEF vba, cont
        <5>6. VBD_OK(s2) /\ VBD_Use(s2) = V_Use(VBD_Use(t), Way_To(vba), new)
          BY ONLY <5>5, BranchReplaced
        <5> QED BY <5>4, <5>6 DEF new, vba, s2
      <4>3. CASE i # c
        <5>1. ~rkg.First_Snapshot /\ snaps2[c] = t
          BY <3>3, <3>4, <3>10, <4>1, <4>3 DEF snaps
        <5>2. IInv /\ job.phase = "Rekey_VBA"
          BY <1>1
        <5> HIDE DEF snap
        <5>3. /\ Free_Root_OK(ft.node) /\ Meta_Root_OK(ft.meta)
              /\ Inj(All_Use(VBD_Use(Current_Tree),
                             Root_Use(Free_Degree, ft.node, 0), Root_Use(Meta_Degree, ft.meta, 0)))
              /\ Blocks(All_Use(VBD_Use(Current_Tree), Root_Use(Free_Degree, ft.node, 0),
                                Root_Use(Meta_Degree, ft.meta, 0))) = PBA
          BY ONLY <3>2, <5>1, <5>2, OlderRekeyed
        <5> QED BY <3>3, <5>1, <5>3
      <4> QED BY <4>2, <4>3
    <3>19. Once'
      BY <3>8, <3>17, <3>18 DEF Once, Used
    <3>20. SB_OK(sb, cur_gen)'
      BY <3>3, <3>5, <3>8, <3>12, <3>18 DEF SB_OK, SB_Form, c
    <3>21. (DOMAIN blocks = PBA)' /\ VBD_OK(Current_Tree)'
      BY <3>5, <3>13, <3>18 DEF Branch_Written
    <3> QED BY <3>7, <3>15, <3>16, <3>19, <3>20, <3>21 DEF IInv
  <2> QED BY <2>1, <2>2, <2>3
<1> QED BY <1>1, <1>2, <1>3

-----------------------------------------------------------------------------
(***************************************************************************)
(* The blocks that EachBlockOnce counts.                                   *)
(***************************************************************************)

(* What EachBlockOnce counts are the places that have a block.             *)
T2_Counted(name, f) == {<<name, p[1], p[2], f[p]>> : p \in {q \in T2_Place : f[q] # 0}}

(* Of the free tree and of the meta tree.                                  *)
LEMMA T2Counted ==
  ASSUME NEW d \in Nat, NEW root, T2_Entries(d, root.Hash), NEW name
  PROVE  {u \in T2_Tree_Uses(name, root) : u[4] # 0} = T2_Counted(name, Root_Use(d, root, 0))
<1> DEFINE pba     == root.PBA
           entries == root.Hash
           caller  == 0
           f       == T2_Use(d, pba, entries, caller)
           I       == 0 .. d - 1
           uses    == T2_Tree_Uses(name, root)
           Child_PBA(i) == entries[i].PBA
           valid   == {i \in I : Child_PBA(i) # 0}
<1>1. f = Root_Use(d, root, 0)
  BY DEF Root_Use
<1>2. /\ DOMAIN entries = I
      /\ \A i \in valid : DOMAIN entries[i].Hash = I
  BY DEF T2_Entries
<1>3. uses = {<<name, -1, -1, pba>>}
             \cup {<<name, i, -1, Child_PBA(i)>> : i \in valid}
             \cup UNION {{<<name, i, j, Leaf_PBA(entries, i, j)>> : j \in I} : i \in valid}
  <2>1. {i \in DOMAIN root.Hash : root.Hash[i].PBA # 0} = valid
    BY <1>2
  <2>2. \A i \in valid : {<<name, i, j, root.Hash[i].Hash[j].PBA>> : j \in DOMAIN root.Hash[i].Hash}
                         = {<<name, i, j, Leaf_PBA(entries, i, j)>> : j \in I}
    BY <1>2 DEF Leaf_PBA
  <2> QED BY <2>1, <2>2 DEF T2_Tree_Uses
<1> HIDE DEF uses
<1>4. /\ f[Root_Place] = pba /\ f[Caller_Place] = 0
      /\ \A i \in I : f[Node_Place(i)] = Child_PBA(i)
      /\ \A i \in I, j \in I : f[Leaf_Place(i, j)] =
           IF Child_PBA(i) # 0 THEN Leaf_PBA(entries, i, j) ELSE 0
  <2> HIDE DEF pba, entries, caller, f
  <2>1. f[Root_Place] = pba /\ f[Caller_Place] = caller
    BY T2UseTop DEF f
  <2>2. \A i \in I : f[Node_Place(i)] = entries[i].PBA
    BY T2UseNode DEF f
  <2>3. \A i \in I, j \in I : f[Leaf_Place(i, j)] =
           IF entries[i].PBA # 0 THEN Leaf_PBA(entries, i, j) ELSE 0
    BY T2UseLeaf DEF f
  <2> QED BY <2>1, <2>2, <2>3 DEF caller
<1>5. \A p \in T2_Place : f[p] # 0 =>
        \/ p = Root_Place
        \/ \E i \in valid : p = Node_Place(i)
        \/ \E i \in valid, j \in I : p = Leaf_Place(i, j)
  <2> TAKE p \in T2_Place
  <2> HAVE f[p] # 0
  <2>1. p = <<p[1], p[2]>> /\ p[1] \in Int /\ p[2] \in Int
    BY DEF T2_Place
  <2> HIDE DEF pba, entries
  <2>2. p # Root_Place => p # Caller_Place /\ p[1] \in I /\ entries[p[1]].PBA # 0
                          /\ (p[2] = -1 \/ p[2] \in I)
    BY <2>1 DEF T2_Use, caller
  <2> QED BY <2>1, <2>2 DEF Node_Place, Leaf_Place
<1>6. /\ Root_Place \in T2_Place
      /\ \A i \in I : Node_Place(i) \in T2_Place
      /\ \A i \in I, j \in I : Leaf_Place(i, j) \in T2_Place
  BY T2Places
<1>7. /\ Root_Place[1] = -1 /\ Root_Place[2] = -1
      /\ \A i : Node_Place(i)[1] = i /\ Node_Place(i)[2] = -1
      /\ \A i, j : Leaf_Place(i, j)[1] = i /\ Leaf_Place(i, j)[2] = j
  BY DEF Root_Place, Node_Place, Leaf_Place
<1> HIDE DEF f, pba, entries, Child_PBA
<1>8. ASSUME NEW u \in uses, u[4] # 0 PROVE u \in T2_Counted(name, f)
  <2>1. \E p \in T2_Place : f[p] # 0 /\ u = <<name, p[1], p[2], f[p]>>
    <3>1. CASE u = <<name, -1, -1, pba>>
      BY <1>4, <1>6, <1>7, <1>8, <3>1
    <3>2. CASE \E i \in valid : u = <<name, i, -1, Child_PBA(i)>>
      <4>1. PICK i \in valid : u = <<name, i, -1, Child_PBA(i)>>
        BY <3>2
      <4>2. Node_Place(i) \in T2_Place /\ f[Node_Place(i)] = Child_PBA(i)
        BY <1>4, <1>6
      <4> QED BY <1>7, <1>8, <4>1, <4>2
    <3>3. CASE \E i \in valid, j \in I : u = <<name, i, j, Leaf_PBA(entries, i, j)>>
      <4>1. PICK i \in valid, j \in I : u = <<name, i, j, Leaf_PBA(entries, i, j)>>
        BY <3>3
      <4>2. Leaf_Place(i, j) \in T2_Place /\ f[Leaf_Place(i, j)] = Leaf_PBA(entries, i, j)
        BY <1>4, <1>6
      <4> QED BY <1>7, <1>8, <4>1, <4>2
    <3> QED BY <1>3, <1>8, <3>1, <3>2, <3>3
  <2> QED BY <2>1 DEF T2_Counted
<1>9. ASSUME NEW u \in T2_Counted(name, f) PROVE u \in uses /\ u[4] # 0
  <2>1. PICK p \in T2_Place : f[p] # 0 /\ u = <<name, p[1], p[2], f[p]>>
    BY <1>9 DEF T2_Counted
  <2>2. CASE p = Root_Place
    BY <1>3, <1>4, <1>7, <2>1, <2>2
  <2>3. CASE \E i \in valid : p = Node_Place(i)
    <3>1. PICK i \in valid : p = Node_Place(i)
      BY <2>3
    <3>2. u = <<name, i, -1, Child_PBA(i)>>
      BY <1>4, <1>7, <2>1, <3>1
    <3> QED BY <1>3, <2>1, <3>2
  <2>4. CASE \E i \in valid, j \in I : p = Leaf_Place(i, j)
    <3>1. PICK i \in valid, j \in I : p = Leaf_Place(i, j)
      BY <2>4
    <3>2. u = <<name, i, j, Leaf_PBA(entries, i, j)>>
      BY <1>4, <1>7, <2>1, <3>1
    <3> QED BY <1>3, <2>1, <3>2
  <2> QED BY <1>5, <2>1, <2>2, <2>3, <2>4
<1>10. {u \in uses : u[4] # 0} = T2_Counted(name, f)
  BY <1>8, <1>9
<1> QED BY <1>1, <1>10 DEF uses

V_Counted(v) == {<<"VBD", p[1], p[2], v[p]>> : p \in {q \in V_Place : v[q] # 0}}

(* Of the current tree.                                                    *)
LEMMA VBDCounted ==
  ASSUME NEW snap
  PROVE  LET vbd == VBD_Nodes(snap)
         IN {u \in UNION {{<<"VBD", l, k, vbd[l][k].PBA>> : k \in DOMAIN vbd[l]} : l \in Level} :
               u[4] # 0} = V_Counted(VBD_Use(snap))
<1> DEFINE vbd  == VBD_Nodes(snap)
           v    == VBD_Use(snap)
           Node_PBA(l, k) == VBD_Node(snap, l, k).PBA
           uses == UNION {{<<"VBD", l, k, vbd[l][k].PBA>> : k \in DOMAIN vbd[l]} : l \in Level}
<1>1. \A l \in Level : DOMAIN vbd[l] = VBD_Places(l)
  <2>1. Nodes_By_Level(snap, vbd)
    BY VBDNodes
  <2>2. VBD_Places(Max_Level) = {0}
    BY DEF VBD_Places
  <2> HIDE DEF vbd
  <2>3. DOMAIN vbd[Max_Level] = VBD_Places(Max_Level)
    BY ONLY <2>1, <2>2 DEF Nodes_By_Level
  <2>4. \A l \in 0 .. Max_Level - 1 : DOMAIN vbd[l] = VBD_Places(l)
    <3>1. \A w, l : DOMAIN Children_At(w, l) = VBD_Places(l)
      BY ONLY DEF Children_At
    <3> TAKE l \in 0 .. Max_Level - 1
    <3> DEFINE above == vbd[l + 1]
    <3>2. vbd[l] = Children_At(above, l)
      BY ONLY <2>1, l \in 0 .. Max_Level - 1 DEF Nodes_By_Level
    <3> HIDE DEF above
    <3> QED BY ONLY <3>1, <3>2
  <2>5. \A l \in Level : l = Max_Level \/ l \in 0 .. Max_Level - 1
    BY Numbers
  <2> QED BY <2>3, <2>4, <2>5
<1>2. \A l \in Level : VBD_Places(l) \subseteq Int /\ l \in Int
  BY NodesHavePlaces, Numbers
<1>3. uses = UNION {{<<"VBD", l, k, Node_PBA(l, k)>> : k \in VBD_Places(l)} : l \in Level}
  BY <1>1 DEF VBD_Node
<1> HIDE DEF uses
<1>4. /\ \A l \in Level : \A k \in VBD_Places(l) : /\ <<l, k>> \in V_Place
                                                   /\ v[<<l, k>>] = Node_PBA(l, k)
      /\ \A p \in V_Place : v[p] # 0 =>
           \E l \in Level : \E k \in VBD_Places(l) : p = <<l, k>>
  <2>1. \A l \in Level : \A k \in VBD_Places(l) : <<l, k>> \in V_Place
    BY <1>2 DEF V_Place
  <2>2. \A p \in V_Place : v[p] = IF p[1] \in Level /\ p[2] \in VBD_Places(p[1])
                                  THEN Node_PBA(p[1], p[2]) ELSE 0
    BY DEF VBD_Use
  <2>3. \A p \in V_Place : p = <<p[1], p[2]>>
    BY DEF V_Place
  <2> HIDE DEF v, Node_PBA
  <2>4. \A l \in Level : \A k \in VBD_Places(l) : v[<<l, k>>] = Node_PBA(l, k)
    BY <2>1, <2>2
  <2> QED BY <2>1, <2>2, <2>3, <2>4
<1> HIDE DEF v, Node_PBA
<1>5. ASSUME NEW u \in uses, u[4] # 0 PROVE u \in V_Counted(v)
  <2>0. PICK l \in Level : \E k \in VBD_Places(l) : u = <<"VBD", l, k, Node_PBA(l, k)>>
    BY <1>3
  <2>1. PICK k \in VBD_Places(l) : u = <<"VBD", l, k, Node_PBA(l, k)>>
    BY <2>0
  <2>2. <<l, k>> \in V_Place /\ v[<<l, k>>] = Node_PBA(l, k)
    BY <1>4
  <2>3. \E p \in V_Place : v[p] # 0 /\ u = <<"VBD", p[1], p[2], v[p]>>
    BY <1>5, <2>1, <2>2
  <2> QED BY <2>3 DEF V_Counted
<1>6. ASSUME NEW u \in V_Counted(v) PROVE u \in uses /\ u[4] # 0
  <2>1. PICK p \in V_Place : v[p] # 0 /\ u = <<"VBD", p[1], p[2], v[p]>>
    BY <1>6 DEF V_Counted
  <2>0. PICK l \in Level : \E k \in VBD_Places(l) : p = <<l, k>>
    BY <1>4, <2>1
  <2>2. PICK k \in VBD_Places(l) : p = <<l, k>>
    BY <2>0
  <2>3. u = <<"VBD", l, k, Node_PBA(l, k)>>
    BY <1>4, <2>1, <2>2
  <2> QED BY <1>3, <2>1, <2>3
<1>7. {u \in uses : u[4] # 0} = V_Counted(v)
  BY <1>5, <1>6
<1> QED BY <1>7 DEF uses, v

(* Each place that has a block is counted once.                            *)
LEMMA CountedOnce ==
  ASSUME NEW v, NEW f, NEW m, NEW n \in Nat, NEW g, g = All_Use(v, f, m),
         Inj(g), Blocks(g) = 1 .. n,
         NEW U, U = V_Counted(v) \cup T2_Counted("Free", f) \cup T2_Counted("Meta", m)
  PROVE  /\ {u[4] : u \in U} = 1 .. n
         /\ Cardinality(U) = Cardinality(1 .. n)
<1> DEFINE Is(u, q) == q \in Place /\ u = <<q[1], q[2][1], q[2][2], g[q]>> /\ g[q] # 0
<1>1. /\ DOMAIN g = Place
      /\ \A p \in V_Place : g[VBD_Place(p)] = v[p]
      /\ \A p \in T2_Place : g[Free_Place(p)] = f[p] /\ g[Meta_Place(p)] = m[p]
  BY AllUse
<1>2. /\ \A p \in V_Place : VBD_Place(p) \in Place
      /\ \A p \in T2_Place : Free_Place(p) \in Place /\ Meta_Place(p) \in Place
      /\ \A p \in Place : \/ \E q \in V_Place : p = VBD_Place(q)
                          \/ \E q \in T2_Place : p = Free_Place(q)
                          \/ \E q \in T2_Place : p = Meta_Place(q)
  BY Places
<1>3. \A p : /\ VBD_Place(p)[1] = "VBD" /\ VBD_Place(p)[2] = p
             /\ Free_Place(p)[1] = "Free" /\ Free_Place(p)[2] = p
             /\ Meta_Place(p)[1] = "Meta" /\ Meta_Place(p)[2] = p
  BY DEF VBD_Place, Free_Place, Meta_Place
<1>4. \A u \in U : \E q : Is(u, q)
  <2> TAKE u \in U
  <2>1. CASE u \in V_Counted(v)
    <3>1. PICK p \in V_Place : v[p] # 0 /\ u = <<"VBD", p[1], p[2], v[p]>>
      BY <2>1 DEF V_Counted
    <3>2. Is(u, VBD_Place(p))
      BY <1>1, <1>2, <1>3, <3>1
    <3> QED BY <3>2
  <2>2. CASE u \in T2_Counted("Free", f)
    <3>1. PICK p \in T2_Place : f[p] # 0 /\ u = <<"Free", p[1], p[2], f[p]>>
      BY <2>2 DEF T2_Counted
    <3>2. Is(u, Free_Place(p))
      BY <1>1, <1>2, <1>3, <3>1
    <3> QED BY <3>2
  <2>3. CASE u \in T2_Counted("Meta", m)
    <3>1. PICK p \in T2_Place : m[p] # 0 /\ u = <<"Meta", p[1], p[2], m[p]>>
      BY <2>3 DEF T2_Counted
    <3>2. Is(u, Meta_Place(p))
      BY <1>1, <1>2, <1>3, <3>1
    <3> QED BY <3>2
  <2> QED BY <2>1, <2>2, <2>3
<1>5. \A q \in Place : g[q] # 0 => \E u \in U : u[4] = g[q]
  <2> TAKE q \in Place
  <2> HAVE g[q] # 0
  <2>1. CASE \E p \in V_Place : q = VBD_Place(p)
    <3>1. PICK p \in V_Place : q = VBD_Place(p)
      BY <2>1
    <3>2. <<"VBD", p[1], p[2], v[p]>> \in V_Counted(v) /\ v[p] = g[q]
      BY <1>1, <3>1 DEF V_Counted
    <3> QED BY <3>2
  <2>2. CASE \E p \in T2_Place : q = Free_Place(p)
    <3>1. PICK p \in T2_Place : q = Free_Place(p)
      BY <2>2
    <3>2. <<"Free", p[1], p[2], f[p]>> \in T2_Counted("Free", f) /\ f[p] = g[q]
      BY <1>1, <3>1 DEF T2_Counted
    <3> QED BY <3>2
  <2>3. CASE \E p \in T2_Place : q = Meta_Place(p)
    <3>1. PICK p \in T2_Place : q = Meta_Place(p)
      BY <2>3
    <3>2. <<"Meta", p[1], p[2], m[p]>> \in T2_Counted("Meta", m) /\ m[p] = g[q]
      BY <1>1, <3>1 DEF T2_Counted
    <3> QED BY <3>2
  <2> QED BY <1>2, <2>1, <2>2, <2>3
<1> DEFINE N == 1 .. n
           h == [u \in U |-> u[4]]
<1>6. \A u \in U : u[4] \in N
  <2> TAKE u \in U
  <2>1. PICK q : Is(u, q)
    BY <1>4
  <2>2. u[4] = g[q] /\ g[q] \in Blocks(g)
    BY <1>1, <2>1 DEF Blocks
  <2> QED BY <2>2
<1>7. \A b \in N : \E u \in U : u[4] = b
  <2> TAKE b \in N
  <2>1. PICK q \in Place : g[q] = b /\ g[q] # 0
    BY <1>1 DEF Blocks
  <2> QED BY <1>5, <2>1
<1>8. \A u, w \in U : u[4] = w[4] => u = w
  <2> TAKE u, w \in U
  <2> HAVE u[4] = w[4]
  <2>1. PICK p : Is(u, p)
    BY <1>4
  <2>2. PICK q : Is(w, q)
    BY <1>4
  <2>3. g[p] = g[q]
    BY <2>1, <2>2
  <2>4. p = q
    BY <1>1, <2>1, <2>2, <2>3 DEF Inj
  <2> QED BY <2>1, <2>2, <2>4
<1> HIDE DEF N
<1>9. h \in Injection(U, N) /\ h \in Surjection(U, N)
  <2>1. h \in [U -> N] /\ \A u \in U : h[u] = u[4]
    BY <1>6
  <2> HIDE DEF h
  <2>2. \A u, w \in U : h[u] = h[w] => u = w
    BY <1>8, <2>1
  <2>3. \A b \in N : \E u \in U : h[u] = b
    BY <1>7, <2>1
  <2> QED BY <2>1, <2>2, <2>3 DEF Injection, Surjection, IsInjective
<1>10. IsFiniteSet(N)
  <2>1. 1 \in Int /\ n \in Int
    OBVIOUS
  <2> QED BY ONLY <2>1, FS_Interval DEF N
<1> HIDE DEF h
<1>12. Cardinality(U) = Cardinality(N)
  BY <1>9, <1>10, FS_Injection
<1>13. {u[4] : u \in U} = N
  BY <1>6, <1>7
<1> QED BY <1>12, <1>13 DEF N

(* What is proved of the places is what EachBlockOnce says of the nodes.   *)
LEMMA OnceIsEachBlockOnce == IInv => EachBlockOnce
<1> SUFFICES ASSUME IInv, job.phase # "Write_Back"
             PROVE  /\ {u[4] : u \in Uses} = PBA
                    /\ Cardinality(Uses) = Cardinality(PBA)
  BY DEF EachBlockOnce
<1> DEFINE v    == VBD_Use(Current_Tree)
           free == sb.Free
           meta == sb.Meta
           f    == Root_Use(Free_Degree, free, 0)
           m    == Root_Use(Meta_Degree, meta, 0)
           n    == Meta_Root.PBA
           g    == All_Use(v, f, m)
           vbd  == VBD_Nodes(Current_Tree)
           V    == UNION {{<<"VBD", l, k, vbd[l][k].PBA>> : k \in DOMAIN vbd[l]} : l \in Level}
           F    == T2_Tree_Uses("Free", free)
           M    == T2_Tree_Uses("Meta", meta)
<1>1. Inj(g) /\ Blocks(g) = 1 .. n
  BY DEF IInv, Once, Used, Used_VBD, PBA
<1>2. T2_Entries(Free_Degree, free.Hash) /\ T2_Entries(Meta_Degree, meta.Hash)
  BY DEF IInv, SB_OK, SB_Form, Free_Root_OK, Meta_Root_OK, Meta_Entries
<1>3. n \in Nat
  BY InitialUse
<1>4. {u \in V : u[4] # 0} = V_Counted(v)
  BY VBDCounted
<1>5. {u \in F : u[4] # 0} = T2_Counted("Free", f)
  <2> HIDE DEF free
  <2> QED BY <1>2, Numbers, T2Counted
<1>6. {u \in M : u[4] # 0} = T2_Counted("Meta", m)
  <2> HIDE DEF meta
  <2> QED BY <1>2, Numbers, T2Counted
<1>7. Uses = {u \in F \cup M \cup V : u[4] # 0}
  BY DEF Uses
<1> HIDE DEF V, F, M, v, f, m, n
<1>8. Uses = V_Counted(v) \cup T2_Counted("Free", f) \cup T2_Counted("Meta", m)
  BY <1>4, <1>5, <1>6, <1>7
<1> DEFINE U == Uses
<1>9. U = V_Counted(v) \cup T2_Counted("Free", f) \cup T2_Counted("Meta", m)
  BY <1>8
<1> HIDE DEF U
<1>10. {u[4] : u \in U} = 1 .. n /\ Cardinality(U) = Cardinality(1 .. n)
  BY ONLY <1>1, <1>3, <1>9, CountedOnce
<1> QED BY <1>10 DEF U, n, PBA

(* IInv holds whatever is written, rekeyed, discarded and secured.         *)
THEOREM WritePathInvariance == Spec => []IInv
<1>1. Init => IInv
  BY InitOK
<1>2. IInv /\ [Next]_vars => IInv'
  <2> SUFFICES ASSUME IInv, [Next]_vars PROVE IInv'
    OBVIOUS
  <2>1. CASE UNCHANGED vars
    BY <2>1, UnchangedKeepsInv DEF vars
  <2>2. ASSUME NEW vba \in Written, Execute_SCD(vba) PROVE IInv'
    <3>1. vba \in VBA
      BY WritePathAssumption
    <3> QED BY <2>2, <3>1, SCDKeepsInv
  <2>3. CASE Execute_Free_Tree
    BY <2>3, FreeTreeKeepsInv
  <2>4. CASE Execute_Writeback
    BY <2>4, WritebackKeepsInv
  <2>5. CASE Execute_Sync
    BY <2>5, SyncKeepsInv
  <2>6. CASE Execute_Create_Snapshot
    BY <2>6, CreateSnapshotKeepsInv
  <2>7. ASSUME NEW i \in Snapshots_Index, Execute_Discard_Snapshot(i) PROVE IInv'
    BY <2>7, DiscardSnapshotKeepsInv
  <2>8. CASE Execute_Initialize_Rekeying
    BY <2>8, InitializeRekeyingKeepsInv
  <2>9. CASE Submit_Rekey_VBA
    BY <2>9, SubmitKeepsInv
  <2>10. CASE Rekey_Snapshot
    BY <2>10, RekeySnapshotKeepsInv
  <2>11. CASE Execute_Rekey_VBA_Completed
    BY <2>11, RekeyCompletedKeepsInv
  <2> QED BY <2>1, <2>2, <2>3, <2>4, <2>5, <2>6, <2>7, <2>8, <2>9, <2>10, <2>11 DEF Next
<1> QED BY <1>1, <1>2, PTL DEF Spec

(* No block is lost and none is used twice: outside the writing back, each *)
(* block of the device is one node or leaf of one of the three trees.      *)
THEOREM NoBlockLost == Spec => []EachBlockOnce
  BY WritePathInvariance, OnceIsEachBlockOnce, PTL

-----------------------------------------------------------------------------
(***************************************************************************)
(* Blocks that are spare in a generation: what a request to the meta tree  *)
(* keeps.                                                                  *)
(***************************************************************************)

(* The level-1 nodes of such a tree are what their parent knows of them.   *)
Nodes_Match(degree, entries, blks) ==
  \A i \in 0 .. degree - 1 : entries[i].PBA # 0 => blks[entries[i].PBA] = entries[i].Hash

(* What a tree of type-2 nodes and its caller use, place by place; the     *)
(* places differ from each other.                                          *)
LEMMA T2UseAt ==
  ASSUME NEW d \in Nat, NEW pba, NEW entries, NEW caller, NEW g,
         g = T2_Use(d, pba, entries, caller)
  PROVE  /\ DOMAIN g = T2_Place /\ g[Root_Place] = pba /\ g[Caller_Place] = caller
         /\ \A k \in 0 .. d - 1 : g[Node_Place(k)] = entries[k].PBA
         /\ \A a, b \in 0 .. d - 1 : entries[a].PBA # 0 =>
                                      g[Leaf_Place(a, b)] = Leaf_PBA(entries, a, b)
         /\ Root_Place \in T2_Place /\ Caller_Place \in T2_Place /\ Root_Place # Caller_Place
         /\ \A a \in 0 .. d - 1 : /\ Node_Place(a) \in T2_Place
                                   /\ Node_Place(a) # Root_Place /\ Node_Place(a) # Caller_Place
         /\ \A a, b \in 0 .. d - 1 : Node_Place(a) = Node_Place(b) => a = b
         /\ \A a, b \in 0 .. d - 1 :
              /\ Leaf_Place(a, b) \in T2_Place
              /\ Leaf_Place(a, b) # Root_Place /\ Leaf_Place(a, b) # Caller_Place
              /\ \A k \in 0 .. d - 1 : Leaf_Place(a, b) # Node_Place(k)
              /\ \A k, l \in 0 .. d - 1 : Leaf_Place(a, b) = Leaf_Place(k, l) => a = k /\ b = l
<1>1. \A a \in 0 .. d - 1 : a \in Nat
  OBVIOUS
<1>2. DOMAIN g = T2_Place /\ g[Root_Place] = pba /\ g[Caller_Place] = caller
  BY T2UseTop
<1>3. ASSUME NEW k \in 0 .. d - 1 PROVE g[Node_Place(k)] = entries[k].PBA
  BY T2UseNode
<1>4. ASSUME NEW a \in 0 .. d - 1, NEW b \in 0 .. d - 1, entries[a].PBA # 0
      PROVE  g[Leaf_Place(a, b)] = Leaf_PBA(entries, a, b)
  BY <1>4, T2UseLeaf
<1> QED BY ONLY <1>1, <1>2, <1>3, <1>4, T2Places

(* The leaves have all their fields.                                       *)
Leaf_Fields == {"PBA", "Alloc_Gen", "Free_Gen", "Last_VBA", "Last_Key_ID", "Reserved"}
Leafs_OK(degree, entries) ==
  \A i, j \in 0 .. degree - 1 : entries[i].PBA # 0 => DOMAIN entries[i].Hash[j] = Leaf_Fields

(* A leaf of the meta tree whose block was given back in this generation:  *)
(* it serves nobody before the next one.                                   *)
Spare_At(entries, p, gen, i, j) ==
  entries[i].PBA # 0 /\ Leaf_PBA(entries, i, j) = p /\ entries[i].Hash[j].Alloc_Gen = gen
Spare(entries, p, gen) == \E i, j \in 0 .. Meta_Degree - 1 : Spare_At(entries, p, gen, i, j)

(* A step keeps what is spare, and what is given back is spare after it.   *)
Spares_Kept(s, r, old_pba, gen) ==
  /\ Nodes_Match(Meta_Degree, r.entries, r.blocks) /\ Leafs_OK(Meta_Degree, r.entries)
  /\ \A p : p # 0 /\ Spare(s.entries, p, gen) =>
              Spare(r.entries, p, gen) /\ r.blocks[p] = s.blocks[p]
  /\ r.blocks[old_pba] = s.blocks[old_pba]
  /\ r.new_pba # 0 => Spare(r.entries, old_pba, gen)

(* A level-1 node of the meta tree is handled: what is spare stays so and  *)
(* is not written, and what is given back is spare.                        *)
LEMMA Level0Spares ==
  ASSUME Meta_Degree \in Nat, NEW s, NEW i \in 0 .. Meta_Degree - 1, NEW old_pba, NEW gen,
         NEW blks, NEW used, Meta_Inv(s, blks, old_pba, used), Meta_State(s),
         s.new_pba = 0, old_pba # 0, s.entries[i].PBA # 0,
         NEW entries, entries = s.entries[i].Hash,
         NEW turns, turns = Level_0_Turns(s, entries, gen),
         used \subseteq DOMAIN blks, Nodes_Match(Meta_Degree, s.entries, s.blocks),
         Leafs_OK(Meta_Degree, s.entries),
         NEW r, r = Handle_Level_0_Nodes(s, i, entries, turns, old_pba, gen),
         Meta_Inv(r, blks, old_pba, used)
  PROVE  Spares_Kept(s, r, old_pba, gen)
<1> DEFINE d      == Meta_Degree
           held   == <<s.entries[i].PBA, s.root.PBA, old_pba>>
           now(w) == IF w \in Served(turns) THEN entries[Server(turns, w)].PBA ELSE held[w]
           new    == [j \in DOMAIN entries |->
                        IF j \in Serving(turns)
                        THEN Exchanged(entries[j], held[Taker(turns, j)], gen) ELSE entries[j]]
           g      == Meta_Use(r, old_pba)
<1>1. /\ Matching(turns) /\ \A t \in turns : t = <<t[1], t[2]>>
      /\ \A j \in Serving(turns) : j \in 0 .. d - 1 /\ Check_Level_0_Usable(entries[j], gen)
  BY Level0Turns
<1>2. \A w \in Served(turns) : Server(turns, w) \in Serving(turns) /\ Taker(turns, Server(turns, w)) = w
  BY <1>1, Partners
<1>3. /\ DOMAIN s.entries = 0 .. d - 1 /\ DOMAIN entries = 0 .. d - 1 /\ i \in Nat /\ d \in Nat
      /\ \A j \in 0 .. d - 1 : "PBA" \in DOMAIN entries[j]
      /\ \A j \in 0 .. d - 1 : entries[j].PBA = 0 => entries[j] = Type_2_Node_Invalid
  <2>1. Meta_Entries(s.entries) /\ i \in Nat /\ d \in Nat
    <3>1. Meta_Entries(s.entries)
      BY ONLY Meta_Inv(s, blks, old_pba, used) DEF Meta_Inv
    <3>2. Meta_Degree \in Nat /\ i \in 0 .. Meta_Degree - 1
      OBVIOUS
    <3> QED BY ONLY <3>1, <3>2
  <2>2. entries = s.entries[i].Hash /\ s.entries[i].PBA # 0 /\ i \in 0 .. d - 1
    OBVIOUS
  <2> HIDE DEF d
  <2>3. DOMAIN s.entries = 0 .. Meta_Degree - 1 /\ DOMAIN entries = 0 .. Meta_Degree - 1
    BY ONLY <2>1, <2>2 DEF d, Meta_Entries, T2_Entries
  <2>4. \A j \in 0 .. Meta_Degree - 1 :
          "PBA" \in DOMAIN entries[j] /\ (entries[j].PBA = 0 => entries[j] = Type_2_Node_Invalid)
    BY ONLY <2>1, <2>2 DEF d, Meta_Entries, T2_Entries
  <2> QED BY ONLY <2>1, <2>3, <2>4 DEF d
<1>4. /\ r.blocks = [s.blocks EXCEPT ![now(1)] = new]
      /\ r.entries = [s.entries EXCEPT ![i] = Update_Parent(now(1), gen, new)]
      /\ r.new_pba = IF 3 \in Served(turns) THEN now(3) ELSE 0
  BY DEF Handle_Level_0_Nodes
<1>5. \A j \in Serving(turns) : entries[j].PBA # 0 /\ entries[j].Alloc_Gen # gen
  BY <1>1, <1>3 DEF Check_Level_0_Usable
<1>6. now(1) # 0
  BY <1>2, <1>5
<1> HIDE DEF new, now
<1>7. /\ r.entries[i].PBA = now(1) /\ r.entries[i].Hash = new
      /\ \A k \in 0 .. d - 1 : k # i => r.entries[k] = s.entries[k]
  BY <1>3, <1>4 DEF Update_Parent
<1>8. Inj(g) /\ Blocks(g) = used /\ DOMAIN s.blocks = DOMAIN blks
  BY DEF Meta_Inv
<1> DEFINE pba == r.root.PBA
           entries2 == r.entries
           caller == Asked(r, old_pba)
<1>10. g = T2_Use(d, pba, entries2, caller)
  BY DEF Meta_Use
<1> HIDE DEF g, pba, entries2, caller
<1>9. /\ DOMAIN g = T2_Place /\ \A k \in 0 .. d - 1 : g[Node_Place(k)] = entries2[k].PBA
      /\ g[Caller_Place] = caller
      /\ \A a, b \in 0 .. d - 1 : entries2[a].PBA # 0 => g[Leaf_Place(a, b)] = Leaf_PBA(entries2, a, b)
  BY ONLY <1>3, <1>10, T2UseAt
<1> USE DEF pba, entries2, caller
<1>11. /\ Caller_Place \in T2_Place
       /\ \A a \in 0 .. d - 1 : Node_Place(a) \in T2_Place /\ Node_Place(a) # Caller_Place
       /\ \A a, b \in 0 .. d - 1 : Node_Place(a) = Node_Place(b) => a = b
       /\ \A a, b, k \in 0 .. d - 1 : Leaf_Place(a, b) \in T2_Place /\ Leaf_Place(a, b) # Node_Place(k)
  BY ONLY <1>3, <1>10, T2UseAt
<1>12. now(1) \in DOMAIN s.blocks /\ r.blocks[now(1)] = new
  <2>1. now(1) \in Blocks(g)
    BY ONLY <1>6, <1>7, <1>9, <1>11 DEF Blocks
  <2> QED BY <2>1, <1>8, <1>4
<1>13. \A p : p # now(1) => r.blocks[p] = s.blocks[p]
  BY <1>4
<1>14. \A k \in 0 .. d - 1 : r.entries[k].PBA = now(1) => k = i
  BY ONLY <1>6, <1>7, <1>8, <1>9, <1>11 DEF Inj
<1>15. Nodes_Match(d, r.entries, r.blocks)
  <2> SUFFICES ASSUME NEW k \in 0 .. d - 1, r.entries[k].PBA # 0
               PROVE  r.blocks[r.entries[k].PBA] = r.entries[k].Hash
    BY DEF Nodes_Match
  <2>1. CASE k = i
    BY ONLY <2>1, <1>7, <1>12
  <2>2. CASE k # i
    <3>1. r.entries[k] = s.entries[k] /\ r.entries[k].PBA # now(1)
      BY <2>2, <1>7, <1>14
    <3>2. s.blocks[r.entries[k].PBA] = r.entries[k].Hash
      BY <3>1 DEF Nodes_Match
    <3> QED BY ONLY <3>1, <3>2, <1>13
  <2> QED BY <2>1, <2>2
<1>16. \A p : Spare(r.entries, p, gen) => p # now(1)
  BY ONLY <1>6, <1>7, <1>8, <1>9, <1>11 DEF Inj, Spare, Spare_At
<1>17. ASSUME NEW p, p # 0, Spare(s.entries, p, gen)
       PROVE  Spare(r.entries, p, gen)
  <2>1. PICK a \in 0 .. d - 1, b \in 0 .. d - 1 : Spare_At(s.entries, p, gen, a, b)
    BY <1>17 DEF Spare
  <2>2. a = i => b \notin Serving(turns) /\ new[b] = entries[b]
    BY <2>1, <1>3, <1>5 DEF Spare_At, new
  <2>3. Spare_At(r.entries, p, gen, a, b)
    BY <2>1, <2>2, <1>6, <1>7 DEF Spare_At, Leaf_PBA
  <2> QED BY <2>3 DEF Spare
<1>18. ASSUME 3 \in Served(turns)
       PROVE  /\ r.blocks[old_pba] = s.blocks[old_pba]
              /\ Spare(r.entries, old_pba, gen)
  <2> DEFINE j == Server(turns, 3)
  <2>1. j \in Serving(turns) /\ Taker(turns, j) = 3 /\ j \in 0 .. d - 1
    BY <1>1, <1>2, <1>18
  <2>2. new[j] = Exchanged(entries[j], old_pba, gen)
    BY <2>1, <1>3 DEF new
  <2>3. DOMAIN entries[j] = Leaf_Fields
    BY <2>1 DEF Leafs_OK
  <2>4. new[j].PBA = old_pba /\ new[j].Alloc_Gen = gen
    BY <2>2, <2>3 DEF Exchanged, Leaf_Fields
  <2>5. Spare_At(r.entries, old_pba, gen, i, j)
    BY <2>4, <1>6, <1>7 DEF Spare_At, Leaf_PBA
  <2>6. Spare(r.entries, old_pba, gen)
    BY <2>1, <2>5 DEF Spare
  <2>7. old_pba # now(1)
    BY <2>6, <1>16
  <2> QED BY <2>6, <2>7, <1>13
<1>19. ASSUME 3 \notin Served(turns)
       PROVE  r.blocks[old_pba] = s.blocks[old_pba] /\ r.new_pba = 0
  <2>1. r.new_pba = 0 /\ g[Caller_Place] = old_pba
    BY <1>19, <1>4, <1>9 DEF Asked
  <2>2. old_pba # now(1)
    BY ONLY <2>1, <1>6, <1>7, <1>8, <1>9, <1>11, ZenonT(40) DEF Inj
  <2> QED BY <2>1, <2>2, <1>13
<1>20. r.blocks[old_pba] = s.blocks[old_pba] /\ (r.new_pba # 0 => Spare(r.entries, old_pba, gen))
  <2>1. 3 \in Served(turns) \/ 3 \notin Served(turns)
    OBVIOUS
  <2> QED BY <2>1, <1>18, <1>19
<1>21. \A j \in 0 .. d - 1 : DOMAIN entries[j] = Leaf_Fields /\ DOMAIN new[j] = Leaf_Fields
  BY <1>3 DEF Leafs_OK, new, Exchanged
<1>22. Leafs_OK(d, r.entries)
  <2> SUFFICES ASSUME NEW k \in 0 .. d - 1, NEW j \in 0 .. d - 1, r.entries[k].PBA # 0
               PROVE  DOMAIN r.entries[k].Hash[j] = Leaf_Fields
    BY DEF Leafs_OK
  <2>1. CASE k = i
    BY ONLY <2>1, <1>7, <1>21, j \in 0 .. d - 1
  <2>2. CASE k # i
    <3>1. r.entries[k] = s.entries[k]
      BY <2>2, <1>7
    <3> QED BY <3>1 DEF Leafs_OK
  <2> QED BY <2>1, <2>2
<1> QED BY ONLY <1>13, <1>15, <1>16, <1>17, <1>20, <1>22 DEF Spares_Kept

(* What the visit of a level-1 node starts from and keeps.                 *)
Meta_Spared(s, blks, old_pba, gen, entries, used) ==
  /\ Meta_State(s) /\ ~s.mismatch /\ Meta_Inv(s, blks, old_pba, used)
  /\ Nodes_Match(Meta_Degree, s.entries, s.blocks) /\ Leafs_OK(Meta_Degree, s.entries)
  /\ \A p : p # 0 /\ Spare(entries, p, gen) =>
              Spare(s.entries, p, gen) /\ s.blocks[p] = blks[p]
  /\ s.blocks[old_pba] = blks[old_pba]
  /\ s.new_pba # 0 => Spare(s.entries, old_pba, gen)

(* The handling of a level-1 node of the meta tree keeps this.             *)
LEMMA Level1Spares ==
  ASSUME Meta_Degree \in Nat, NEW s, NEW i \in 0 .. Meta_Degree - 1, NEW old_pba, NEW gen,
         NEW blks, NEW used, old_pba # 0, NEW entries0, used \subseteq DOMAIN blks,
         Meta_Spared(s, blks, old_pba, gen, entries0, used),
         NEW r, r = Handle_Level_1_Node(s, i, old_pba, gen)
  PROVE  Meta_Spared(r, blks, old_pba, gen, entries0, used)
<1> DEFINE entries == s.blocks[s.entries[i].PBA]
           turns   == Level_0_Turns(s, entries, gen)
<1>1. Meta_State(s) /\ ~s.mismatch /\ Meta_Inv(s, blks, old_pba, used)
  BY DEF Meta_Spared
<1>2. s.entries[i] # Type_1_Node_Invalid => s.entries[i].PBA # 0
  BY <1>1 DEF Meta_Inv, Meta_Entries
<1>3. s.entries[i] # Type_1_Node_Invalid => Check_Node_Hash(s.blocks, s.entries[i])
  BY <1>2 DEF Meta_Spared, Nodes_Match, Check_Node_Hash
<1>4. CASE s.new_pba # 0 \/ s.entries[i] = Type_1_Node_Invalid \/ turns = {}
  <2>1. r = s
    BY <1>1, <1>3, <1>4 DEF Handle_Level_1_Node
  <2> QED BY <2>1
<1>5. CASE ~(s.new_pba # 0 \/ s.entries[i] = Type_1_Node_Invalid \/ turns = {})
  <2>1. r = Handle_Level_0_Nodes(s, i, entries, turns, old_pba, gen)
    BY <1>1, <1>3, <1>5 DEF Handle_Level_1_Node
  <2>2. s.new_pba = 0 /\ s.entries[i].PBA # 0 /\ entries = s.entries[i].Hash
    BY <1>2, <1>3, <1>5 DEF Check_Node_Hash
  <2> HIDE DEF entries, turns
  <2>3. turns = Level_0_Turns(s, entries, gen)
    BY DEF turns
  <2>4. Meta_Inv(r, blks, old_pba, used) /\ Meta_State(r) /\ r.mismatch = FALSE
    BY ONLY Meta_Degree \in Nat, i \in 0 .. Meta_Degree - 1, old_pba # 0, <1>1, <2>1, <2>2, <2>3,
            Level0Handled, ZenonT(40)
  <2>5. Nodes_Match(Meta_Degree, s.entries, s.blocks) /\ Leafs_OK(Meta_Degree, s.entries)
    BY DEF Meta_Spared
  <2>6. Spares_Kept(s, r, old_pba, gen)
    <3>1. /\ Meta_Degree \in Nat /\ i \in 0 .. Meta_Degree - 1 /\ old_pba # 0
          /\ Meta_Inv(s, blks, old_pba, used) /\ Meta_State(s)
          /\ s.new_pba = 0 /\ s.entries[i].PBA # 0 /\ entries = s.entries[i].Hash
          /\ turns = Level_0_Turns(s, entries, gen) /\ used \subseteq DOMAIN blks
          /\ Nodes_Match(Meta_Degree, s.entries, s.blocks) /\ Leafs_OK(Meta_Degree, s.entries)
          /\ r = Handle_Level_0_Nodes(s, i, entries, turns, old_pba, gen)
          /\ Meta_Inv(r, blks, old_pba, used)
      BY <1>1, <2>1, <2>2, <2>3, <2>4, <2>5
    <3> QED BY ONLY <3>1, Level0Spares
  <2> QED BY <2>4, <2>6 DEF Meta_Spared, Spares_Kept
<1> QED BY <1>4, <1>5

(* A request to the meta tree finds no hash that does not match.  What is  *)
(* spare in it stays so and is not written, and neither is what is given   *)
(* back.                                                                   *)
LEMMA MetaTreeSpares ==
  ASSUME Meta_Degree \in Nat, NEW blks, NEW root, NEW old_pba, NEW gen,
         Meta_Root_OK(root), old_pba # 0, Inj(Root_Use(Meta_Degree, root, old_pba)),
         Blocks(Root_Use(Meta_Degree, root, old_pba)) \subseteq DOMAIN blks,
         blks[root.PBA] = root.Hash, Nodes_Match(Meta_Degree, root.Hash, blks),
         Leafs_OK(Meta_Degree, root.Hash),
         NEW r, r = Meta_Tree_Alloc(blks, root, old_pba, gen)
  PROVE  /\ ~r.mismatch
         /\ r.new_pba # 0 =>
              /\ r.blocks[r.root.PBA] = r.root.Hash /\ Leafs_OK(Meta_Degree, r.root.Hash)
              /\ Nodes_Match(Meta_Degree, r.root.Hash, r.blocks)
              /\ \A p : p # 0 /\ Spare(root.Hash, p, gen) =>
                          Spare(r.root.Hash, p, gen) /\ r.blocks[p] = blks[p]
              /\ Spare(r.root.Hash, old_pba, gen) /\ r.blocks[old_pba] = blks[old_pba]
<1> DEFINE used  == Blocks(Root_Use(Meta_Degree, root, old_pba))
           after == Children_Handled(blks, root, old_pba, gen)
           start == Root_Read(blks, root, gen)
           Good(s) == Meta_Spared(s, blks, old_pba, gen, root.Hash, used)
           S     == {n \in Nat : n <= Meta_Degree => Good(after[n])}
           w     == after[Meta_Degree]
<1>1. Check_Node_Hash(blks, root)
  BY DEF Check_Node_Hash
<1>2. r = Root_Written(w, gen)
  BY <1>1 DEF Meta_Tree_Alloc
<1>3. Good(start)
  <2>1. Meta_State(start)
    BY DEF Root_Read, Meta_State
  <2>2. /\ start.root = root /\ start.entries = root.Hash /\ start.blocks = blks
        /\ start.new_pba = 0 /\ ~start.mismatch
    BY <1>1 DEF Root_Read, Check_Node_Hash
  <2>3. Meta_Use(start, old_pba) = Root_Use(Meta_Degree, root, old_pba)
    BY <2>2 DEF Meta_Use, Root_Use, Asked
  <2> HIDE DEF start
  <2>4. Meta_Inv(start, blks, old_pba, used)
    BY <2>1, <2>2, <2>3 DEF Meta_Inv, Meta_Root_OK
  <2> QED BY <2>1, <2>2, <2>4 DEF Meta_Spared
<1>4. 0 \in S
  BY <1>3, ChildrenHandled
<1>5. ASSUME NEW n \in Nat, n \in S PROVE n + 1 \in S
  <2> SUFFICES ASSUME n + 1 <= Meta_Degree PROVE Good(after[n + 1])
    OBVIOUS
  <2>1. n \in 0 .. Meta_Degree - 1 /\ n + 1 \in 1 .. Meta_Degree /\ (n + 1) - 1 = n /\ n <= Meta_Degree
    OBVIOUS
  <2>2. after[n + 1] = Handle_Level_1_Node(after[n], n, old_pba, gen)
    BY <2>1, ChildrenHandled
  <2>3. Good(after[n])
    BY <1>5, <2>1
  <2> HIDE DEF after, used
  <2> QED BY <2>1, <2>2, <2>3, Level1Spares DEF used
<1> HIDE DEF Good, after, used
<1>6. Good(w)
  <2> HIDE DEF S
  <2>1. Meta_Degree \in S
    BY <1>4, <1>5, SetInduction
  <2> QED BY <2>1 DEF S
<1> HIDE DEF w
<1>7. Meta_State(w) /\ ~w.mismatch /\ Meta_Inv(w, blks, old_pba, used)
  BY <1>6 DEF Good, Meta_Spared
<1>8. r.mismatch = w.mismatch /\ r.new_pba = w.new_pba
  BY <1>2, <1>7 DEF Root_Written, Meta_State
<1>9. SUFFICES ASSUME r.new_pba # 0
               PROVE  /\ r.blocks[r.root.PBA] = r.root.Hash /\ Leafs_OK(Meta_Degree, r.root.Hash)
                      /\ Nodes_Match(Meta_Degree, r.root.Hash, r.blocks)
                      /\ \A p : p # 0 /\ Spare(root.Hash, p, gen) =>
                                  Spare(r.root.Hash, p, gen) /\ r.blocks[p] = blks[p]
                      /\ Spare(r.root.Hash, old_pba, gen) /\ r.blocks[old_pba] = blks[old_pba]
  BY <1>7, <1>8
<1>10. w.new_pba # 0 /\ w.dirty
  BY <1>7, <1>8, <1>9 DEF Meta_Inv
<1>11. /\ r.root = [PBA |-> w.root.PBA, Gen |-> gen, Hash |-> w.entries]
       /\ r.blocks = [w.blocks EXCEPT ![w.root.PBA] = w.entries]
  BY <1>2, <1>7, <1>10 DEF Root_Written, Update_Parent, Meta_State
<1> DEFINE g == Meta_Use(w, old_pba)
           d == Meta_Degree
<1>12. Inj(g) /\ Blocks(g) = used /\ DOMAIN w.blocks = DOMAIN blks /\ w.root.PBA # 0
  BY <1>7 DEF Meta_Inv, T1_Root
<1> DEFINE pba == w.root.PBA
           entries == w.entries
           caller == Asked(w, old_pba)
<1>14. g = T2_Use(d, pba, entries, caller)
  BY DEF Meta_Use
<1> HIDE DEF g, pba, entries, caller
<1>13. /\ DOMAIN g = T2_Place /\ \A k \in 0 .. d - 1 : g[Node_Place(k)] = entries[k].PBA
       /\ g[Root_Place] = pba
       /\ \A a, b \in 0 .. d - 1 : entries[a].PBA # 0 => g[Leaf_Place(a, b)] = Leaf_PBA(entries, a, b)
  BY ONLY Meta_Degree \in Nat, <1>14, T2UseAt
<1> USE DEF pba, entries, caller
<1>15. /\ Root_Place \in T2_Place
       /\ \A a \in 0 .. d - 1 : Node_Place(a) \in T2_Place /\ Node_Place(a) # Root_Place
       /\ \A a, b \in 0 .. d - 1 : Leaf_Place(a, b) \in T2_Place /\ Leaf_Place(a, b) # Root_Place
  BY ONLY Meta_Degree \in Nat, <1>14, T2UseAt
<1>16. \A k \in 0 .. d - 1 : w.entries[k].PBA # w.root.PBA
  BY ONLY <1>12, <1>13, <1>15 DEF Inj
<1>17. \A p : Spare(w.entries, p, gen) => p # w.root.PBA
  BY ONLY <1>12, <1>13, <1>15 DEF Inj, Spare, Spare_At
<1>18. w.root.PBA \in DOMAIN w.blocks
  <2>1. w.root.PBA \in Blocks(g)
    BY ONLY <1>12, <1>13, <1>15 DEF Blocks
  <2>2. used \subseteq DOMAIN blks
    BY DEF used
  <2> QED BY <2>1, <2>2, <1>12
<1>19. /\ r.root.Hash = w.entries /\ r.root.PBA = w.root.PBA
       /\ r.blocks[w.root.PBA] = w.entries /\ \A p : p # w.root.PBA => r.blocks[p] = w.blocks[p]
  BY ONLY <1>11, <1>18
<1> QED BY ONLY <1>6, <1>10, <1>16, <1>17, <1>19 DEF Good, Meta_Spared, Nodes_Match

(* The nodes of the meta tree are what their parents know of them.         *)
Meta_Match(blks, meta) ==
  /\ blks[meta.PBA] = meta.Hash
  /\ Nodes_Match(Meta_Degree, meta.Hash, blks) /\ Leafs_OK(Meta_Degree, meta.Hash)

(* What is spare stays so, and is not written.                             *)
Saved(blks, meta, blks2, meta2, gen) ==
  \A p : p # 0 /\ Spare(meta.Hash, p, gen) => Spare(meta2.Hash, p, gen) /\ blks2[p] = blks[p]

(* The blocks of the meta tree, and those of its leaves.                   *)
Meta_Blocks(f, meta) ==
  /\ \E x \in T2_Place : f[x] = meta.PBA
  /\ \A k \in 0 .. Meta_Degree - 1 : \E x \in T2_Place : f[x] = meta.Hash[k].PBA
  /\ \A p, gen : Spare(meta.Hash, p, gen) => \E x \in T2_Place : f[x] = p

(* They are all in use.                                                    *)
LEMMA MetaBlocks ==
  ASSUME Meta_Degree \in Nat, NEW meta, NEW f, f = Root_Use(Meta_Degree, meta, 0)
  PROVE  Meta_Blocks(f, meta)
<1> DEFINE pba     == meta.PBA
           entries == meta.Hash
           caller  == 0
           d       == Meta_Degree
<1>1. f = T2_Use(d, pba, entries, caller) /\ d \in Nat
  BY DEF Root_Use
<1> HIDE DEF pba, entries, caller, d
<1>2. f[Root_Place] = pba /\ Root_Place \in T2_Place
  BY ONLY <1>1, T2UseAt
<1>3. ASSUME NEW k \in 0 .. d - 1 PROVE f[Node_Place(k)] = entries[k].PBA /\ Node_Place(k) \in T2_Place
  BY ONLY k \in 0 .. d - 1, <1>1, T2UseAt
<1>4. ASSUME NEW a \in 0 .. d - 1, NEW b \in 0 .. d - 1, entries[a].PBA # 0
      PROVE  f[Leaf_Place(a, b)] = Leaf_PBA(entries, a, b) /\ Leaf_Place(a, b) \in T2_Place
  BY ONLY a \in 0 .. d - 1, b \in 0 .. d - 1, <1>1, <1>4, T2UseAt
<1>5. ASSUME NEW p, NEW gen, Spare(entries, p, gen) PROVE \E x \in T2_Place : f[x] = p
  <2>1. PICK a \in 0 .. d - 1, b \in 0 .. d - 1 : Spare_At(entries, p, gen, a, b)
    BY <1>5 DEF Spare, d
  <2> QED BY <2>1, <1>4 DEF Spare_At
<1> QED BY <1>2, <1>3, <1>5 DEF Meta_Blocks, pba, entries, d

(* A block was got for a node of the free tree, and neither what is spare  *)
(* nor any node was written.                                               *)
Block_Got(s, node, gen, g, mt) ==
  /\ Meta_Match(mt.blocks, mt.root) /\ Saved(s.blocks, s.meta, mt.blocks, mt.root, gen)
  /\ \/ Node_Volatile_In_FT(node, gen) /\ mt.new_pba = node.PBA
     \/ Spare(mt.root.Hash, node.PBA, gen)
  /\ mt.blocks[node.PBA] = s.blocks[node.PBA]
  /\ \A r \in T2_Place : g[Free_Place(r)] # 0 =>
       mt.blocks[g[Free_Place(r)]] = s.blocks[g[Free_Place(r)]]

(* The node was written there; "q" is its place, "g" and "g2" the use of   *)
(* the blocks before and after.                                            *)
Node_Put(s, node, gen, g, q, g2, root, pba, content, b2) ==
  /\ Meta_Match(b2, root) /\ Saved(s.blocks, s.meta, b2, root, gen)
  /\ \/ Node_Volatile_In_FT(node, gen)
     \/ Spare(root.Hash, node.PBA, gen) /\ b2[node.PBA] = s.blocks[node.PBA]
  /\ b2[pba] = content
  /\ \A r \in T2_Place : r # q /\ g[Free_Place(r)] # 0 /\ g2[Free_Place(r)] = g[Free_Place(r)] =>
       b2[g[Free_Place(r)]] = s.blocks[g[Free_Place(r)]]

(* A block for a node of the free tree is got without a hash that does not *)
(* match, and neither what is spare nor any other node is written.         *)
LEMMA BlockMatches ==
  ASSUME Meta_Degree \in Nat, NEW s, NEW node, NEW gen, NEW g, DOMAIN g = Place, Inj(g),
         Meta_Root_OK(s.meta), Meta_Part(g, s.meta), Meta_Match(s.blocks, s.meta),
         NEW q \in T2_Place, g[Free_Place(q)] = node.PBA, node.PBA # 0,
         Blocks(g) \subseteq DOMAIN s.blocks,
         NEW mt, mt = Block_For_Node(s, node, gen)
  PROVE  ~mt.mismatch /\ (mt.new_pba # 0 => Block_Got(s, node, gen, g, mt))
<1>1. CASE Node_Volatile_In_FT(node, gen)
  <2>1. mt.blocks = s.blocks /\ mt.root = s.meta /\ mt.new_pba = node.PBA /\ mt.mismatch = FALSE
    BY <1>1 DEF Block_For_Node
  <2> QED BY <2>1, <1>1 DEF Saved, Block_Got
<1>2. CASE ~Node_Volatile_In_FT(node, gen)
  <2> DEFINE root == s.meta
             old  == node.PBA
             blks == s.blocks
             f    == Root_Use(Meta_Degree, root, old)
             h  == [p \in T2_Place |-> IF p = Caller_Place THEN Free_Place(q) ELSE Meta_Place(p)]
  <2>1. mt = Meta_Tree_Alloc(blks, root, old, gen)
    BY <1>2 DEF Block_For_Node
  <2>2. DOMAIN f = T2_Place
    BY T2UseTop DEF Root_Use
  <2>3. \A c : \A p \in T2_Place :
          /\ p # Caller_Place => Root_Use(Meta_Degree, root, c)[p] = Root_Use(Meta_Degree, root, 0)[p]
          /\ Root_Use(Meta_Degree, root, c)[Caller_Place] = c
    BY T2Places DEF Root_Use, T2_Use
  <2>4. \A x \in T2_Place : h[x] \in Place /\ f[x] = g[h[x]]
    <3> TAKE x \in T2_Place
    <3>1. CASE x = Caller_Place
      BY <3>1, <2>3, Places
    <3>2. CASE x # Caller_Place
      BY <3>2, <2>3, Places DEF Meta_Part
    <3> QED BY <3>1, <3>2
  <2>5. \A x, y \in T2_Place : h[x] = h[y] => x = y
    BY Places
  <2>6. \A r \in T2_Place : r # q => \A x \in T2_Place : h[x] # Free_Place(r)
    BY Places
  <2> HIDE DEF f, h
  <2>7. Inj(f)
    BY <2>2, <2>4, <2>5, PartInj
  <2>8. Blocks(f) \subseteq DOMAIN blks
    BY <2>2, <2>4 DEF Blocks
  <2>9. /\ Meta_Root_OK(root) /\ old # 0 /\ blks[root.PBA] = root.Hash
        /\ Nodes_Match(Meta_Degree, root.Hash, blks) /\ Leafs_OK(Meta_Degree, root.Hash)
    BY DEF Meta_Match
  <2> HIDE DEF root, old, blks
  <2>10. /\ ~mt.mismatch
         /\ mt.new_pba # 0 =>
              /\ mt.blocks[mt.root.PBA] = mt.root.Hash /\ Leafs_OK(Meta_Degree, mt.root.Hash)
              /\ Nodes_Match(Meta_Degree, mt.root.Hash, mt.blocks)
              /\ \A p : p # 0 /\ Spare(root.Hash, p, gen) =>
                          Spare(mt.root.Hash, p, gen) /\ mt.blocks[p] = blks[p]
              /\ Spare(mt.root.Hash, old, gen) /\ mt.blocks[old] = blks[old]
    BY ONLY Meta_Degree \in Nat, <2>1, <2>7, <2>8, <2>9, MetaTreeSpares DEF f
  <2>11. mt.new_pba # 0 => \A p \in DOMAIN blks \ Blocks(f) : mt.blocks[p] = blks[p]
    BY ONLY Meta_Degree \in Nat, <2>1, <2>7, <2>9, <2>10, MetaTreeAlloc DEF f
  <2>12. ASSUME NEW r \in T2_Place, g[Free_Place(r)] # 0, r # q
         PROVE  g[Free_Place(r)] \in DOMAIN blks \ Blocks(f)
    <3>1. Free_Place(r) \in Place
      BY Places
    <3>2. g[Free_Place(r)] \in DOMAIN blks
      BY <3>1, <2>12 DEF Blocks, blks
    <3>3. \A x \in T2_Place : f[x] # g[Free_Place(r)]
      BY <3>1, <2>4, <2>6, <2>12 DEF Inj
    <3> QED BY <3>2, <3>3, <2>2 DEF Blocks
  <2> QED BY <2>10, <2>11, <2>12 DEF Block_Got, Meta_Match, Saved, root, old, blks
<1> QED BY <1>1, <1>2

(* Then the node is written there.                                         *)
LEMMA NodeWritten ==
  ASSUME Meta_Degree \in Nat, NEW s, NEW node, NEW gen, NEW g, NEW mt, NEW q \in T2_Place,
         g[Free_Place(q)] = node.PBA,
         Block_Got(s, node, gen, g, mt),
         NEW g2, DOMAIN g2 = Place, Inj(g2), Meta_Part(g2, mt.root),
         mt.new_pba # 0, g2[Free_Place(q)] = mt.new_pba, mt.new_pba \in DOMAIN mt.blocks,
         Meta_Root_OK(mt.root), node.PBA # 0,
         NEW content, NEW b2, b2 = [mt.blocks EXCEPT ![mt.new_pba] = content]
  PROVE  Node_Put(s, node, gen, g, q, g2, mt.root, mt.new_pba, content, b2)
<1> DEFINE p0 == mt.new_pba
           m  == Root_Use(Meta_Degree, mt.root, 0)
           root == mt.root
<1>10. /\ Meta_Match(mt.blocks, mt.root) /\ Saved(s.blocks, s.meta, mt.blocks, mt.root, gen)
       /\ \/ Node_Volatile_In_FT(node, gen) /\ mt.new_pba = node.PBA
          \/ Spare(mt.root.Hash, node.PBA, gen)
       /\ mt.blocks[node.PBA] = s.blocks[node.PBA]
       /\ \A r \in T2_Place : g[Free_Place(r)] # 0 =>
            mt.blocks[g[Free_Place(r)]] = s.blocks[g[Free_Place(r)]]
  BY DEF Block_Got
<1>1. \A p : p # p0 => b2[p] = mt.blocks[p]
  OBVIOUS
<1>2. b2[p0] = content
  OBVIOUS
<1>3. \A x \in T2_Place : m[x] # p0
  <2> TAKE x \in T2_Place
  <2>1. g2[Meta_Place(x)] = m[x]
    BY DEF Meta_Part
  <2> QED BY <2>1, Places DEF Inj
<1> HIDE DEF m, p0, root
<1>4. Meta_Blocks(m, root)
  <2>1. m = Root_Use(Meta_Degree, root, 0)
    BY DEF m, root
  <2> QED BY ONLY Meta_Degree \in Nat, <2>1, MetaBlocks
<1>5. /\ root.PBA # p0 /\ \A k \in 0 .. Meta_Degree - 1 : root.Hash[k].PBA # p0
      /\ \A p : Spare(root.Hash, p, gen) => p # p0
  BY <1>3, <1>4 DEF Meta_Blocks
<1>6. Meta_Match(b2, root)
  BY <1>1, <1>5, <1>10 DEF Meta_Match, Nodes_Match, root
<1>7. Saved(s.blocks, s.meta, b2, root, gen)
  BY <1>1, <1>5, <1>10 DEF Saved, root
<1>8. Spare(root.Hash, node.PBA, gen) => b2[node.PBA] = s.blocks[node.PBA]
  BY <1>1, <1>5, <1>10
<1>9. ASSUME NEW r \in T2_Place, r # q, g[Free_Place(r)] # 0, g2[Free_Place(r)] = g[Free_Place(r)]
      PROVE  b2[g[Free_Place(r)]] = s.blocks[g[Free_Place(r)]]
  <2>1. g[Free_Place(r)] # p0
    BY <1>9, Places DEF Inj, p0
  <2> QED BY <2>1, <1>1, <1>9, <1>10
<1> QED BY <1>2, <1>6, <1>7, <1>8, <1>9, <1>10 DEF Node_Put, p0, root

(* What a request makes of the leaves "e0" of the free tree, "e" when the  *)
(* levels have the blocks "new" so far: leaf j of node i, which was        *)
(* usable, has given its block to level l.  The nodes from m on were       *)
(* visited.                                                                *)
Gave(e0, e, new, snaps, last, req, i, j, l) ==
  /\ e0[i].PBA # 0 /\ req.New_Blocks[l] = 0
  /\ Check_Type_2_Leaf_Usable(e0[i].Hash[j], snaps, last, req)
  /\ e[i].Hash[j] = Exchange_Type_2_Leaf(e0[i].Hash[j], l, req)
  /\ new[l] = e0[i].Hash[j].PBA

Leafs_Changed(m, e0, e, new, snaps, last, req) ==
  /\ \A i \in 0 .. Free_Degree - 1 : /\ e[i].PBA = 0 <=> e0[i].PBA = 0
                                     /\ i < m \/ e0[i].PBA = 0 => e[i] = e0[i]
  /\ \A i, j \in 0 .. Free_Degree - 1 :
       e0[i].PBA # 0 => \/ e[i].Hash[j] = e0[i].Hash[j]
                        \/ \E l \in Level : Gave(e0, e, new, snaps, last, req, i, j, l)
  /\ \A l \in Level :
       /\ req.New_Blocks[l] # 0 => new[l] = req.New_Blocks[l]
       /\ req.New_Blocks[l] = 0 /\ new[l] # 0 =>
            \E i, j \in 0 .. Free_Degree - 1 :
              i >= m /\ Gave(e0, e, new, snaps, last, req, i, j, l)

(* The leaves of a node give blocks to the levels in "turns".              *)
LEMMA LeafsGive ==
  ASSUME Free_Degree \in Nat, Max_Level \in Nat, NEW e0, NEW e, NEW new, NEW snaps, NEW last,
         NEW req, NEW i \in 0 .. Free_Degree - 1, Leafs_Changed(i + 1, e0, e, new, snaps, last, req),
         NEW s, s.new = new, e0[i].PBA # 0,
         NEW turns, turns = Type_2_Leaf_Turns(s, e0[i].Hash, snaps, last, req),
         NEW e2, NEW new2, e2[i].PBA # 0,
         \A k \in 0 .. Free_Degree - 1 : k # i => e2[k] = e[k],
         \A j \in 0 .. Free_Degree - 1 : e2[i].Hash[j] =
            IF j \in Serving(turns) THEN Exchange_Type_2_Leaf(e0[i].Hash[j], Taker(turns, j), req)
            ELSE e0[i].Hash[j],
         \A l \in Level : new2[l] = IF l \in Served(turns) THEN e0[i].Hash[Server(turns, l)].PBA
                                    ELSE new[l]
  PROVE  Leafs_Changed(i, e0, e2, new2, snaps, last, req)
<1> DEFINE d == Free_Degree
           entries == e0[i].Hash
<1>1. /\ Matching(turns) /\ \A t \in turns : t = <<t[1], t[2]>>
      /\ \A l \in Served(turns) : l \in Level /\ s.new[l] = 0
      /\ \A j \in Serving(turns) : j \in 0 .. d - 1 /\ entries[j].PBA # 0
  BY Type2LeafTurns
<1>2. /\ \A w \in Served(turns) : Server(turns, w) \in Serving(turns) /\ Taker(turns, Server(turns, w)) = w
      /\ \A j \in Serving(turns) : Taker(turns, j) \in Served(turns) /\ Server(turns, Taker(turns, j)) = j
  BY <1>1, Partners
<1>3. \A j \in Serving(turns) : Check_Type_2_Leaf_Usable(entries[j], snaps, last, req)
  BY DEF Type_2_Leaf_Turns, Serving
<1>4. \A l \in Served(turns) : l \in Level /\ new[l] = 0 /\ req.New_Blocks[l] = 0
  BY <1>1 DEF Leafs_Changed
<1> HIDE DEF entries
<1>11. i \in Int /\ i < i + 1 /\ \A k \in 0 .. d - 1 : k >= i + 1 => k >= i /\ k # i
  OBVIOUS
<1>5. ASSUME NEW j \in Serving(turns)
      PROVE  Gave(e0, e2, new2, snaps, last, req, i, j, Taker(turns, j)) /\ j \in 0 .. d - 1
  <2>1. j \in 0 .. d - 1 /\ Taker(turns, j) \in Served(turns) /\ Server(turns, Taker(turns, j)) = j
    BY <1>1, <1>2
  <2>2. Taker(turns, j) \in Level /\ req.New_Blocks[Taker(turns, j)] = 0
    BY <2>1, <1>4
  <2> QED BY <2>1, <2>2, <1>3 DEF Gave, entries
<1>6. ASSUME NEW k \in 0 .. d - 1, NEW j \in 0 .. d - 1, NEW l \in Level,
             Gave(e0, e, new, snaps, last, req, k, j, l), k # i
      PROVE  Gave(e0, e2, new2, snaps, last, req, k, j, l)
  <2>1. Check_Type_2_Leaf_Usable(e0[k].Hash[j], snaps, last, req) /\ new[l] = e0[k].Hash[j].PBA
    BY <1>6 DEF Gave
  <2>2. new[l] # 0
    BY <2>1 DEF Check_Type_2_Leaf_Usable
  <2>3. new2[l] = new[l] /\ e2[k] = e[k]
    BY <2>2, <1>4, <1>6
  <2> QED BY <2>3, <1>6 DEF Gave
<1>7. ASSUME NEW k \in 0 .. d - 1, NEW j \in 0 .. d - 1, e0[k].PBA # 0
      PROVE  \/ e2[k].Hash[j] = e0[k].Hash[j]
             \/ \E l \in Level : Gave(e0, e2, new2, snaps, last, req, k, j, l)
  <2>1. CASE k # i
    <3>1. \/ e[k].Hash[j] = e0[k].Hash[j]
          \/ \E l \in Level : Gave(e0, e, new, snaps, last, req, k, j, l)
      BY <1>7 DEF Leafs_Changed
    <3>2. e2[k] = e[k]
      BY <2>1
    <3> QED BY <3>1, <3>2, <2>1, <1>6
  <2>2. CASE k = i /\ j \in Serving(turns)
    BY <2>2, <1>2, <1>4, <1>5
  <2>3. CASE k = i /\ j \notin Serving(turns)
    BY <2>3
  <2> QED BY <2>1, <2>2, <2>3
<1>8. ASSUME NEW l \in Level, req.New_Blocks[l] = 0, new2[l] # 0
      PROVE  \E k, j \in 0 .. d - 1 : k >= i /\ Gave(e0, e2, new2, snaps, last, req, k, j, l)
  <2>1. CASE l \in Served(turns)
    BY <2>1, <1>2, <1>5, <1>11
  <2>2. CASE l \notin Served(turns)
    <3>1. new2[l] = new[l]
      BY <2>2
    <3>2. PICK k \in 0 .. d - 1, j \in 0 .. d - 1 :
            k >= i + 1 /\ Gave(e0, e, new, snaps, last, req, k, j, l)
      BY <3>1, <1>8 DEF Leafs_Changed
    <3> QED BY <3>2, <1>6, <1>11
  <2> QED BY <2>1, <2>2
<1>9. \A l \in Level : req.New_Blocks[l] # 0 => new2[l] = req.New_Blocks[l]
  BY <1>4 DEF Leafs_Changed
<1>10. ASSUME NEW k \in 0 .. d - 1
       PROVE  (e2[k].PBA = 0 <=> e0[k].PBA = 0) /\ (k < i \/ e0[k].PBA = 0 => e2[k] = e0[k])
  <2>1. /\ e[k].PBA = 0 <=> e0[k].PBA = 0
        /\ k < i + 1 \/ e0[k].PBA = 0 => e[k] = e0[k]
    BY DEF Leafs_Changed
  <2>2. k < i => k < i + 1 /\ k # i
    BY <1>11
  <2> QED BY <2>1, <2>2
<1> QED BY <1>7, <1>8, <1>9, <1>10 DEF Leafs_Changed

(* What a visit makes of a node of the free tree: unless there is an error *)
(* the node gets a block, and the levels have those of the leaves.         *)
Node_Exchanged(s, i, req, turns, mt, r) ==
  /\ r.new = [l \in Level |-> IF l \in Served(turns)
                              THEN s.entries[i].Hash[Server(turns, l)].PBA ELSE s.new[l]]
  /\ r.meta = mt.root
  /\ \E content :
       /\ DOMAIN content = DOMAIN s.entries[i].Hash
       /\ \A j \in DOMAIN s.entries[i].Hash :
            content[j] = IF j \in Serving(turns)
                         THEN Exchange_Type_2_Leaf(s.entries[i].Hash[j], Taker(turns, j), req)
                         ELSE s.entries[i].Hash[j]
       /\ r.blocks = [mt.blocks EXCEPT ![mt.new_pba] = content]
       /\ r.entries = [s.entries EXCEPT ![i] = Update_Parent(mt.new_pba, req.Gen, content)]

Exchange_Result(s, i, req, turns, mt, r) ==
  IF mt.mismatch \/ mt.new_pba = 0
  THEN r.error = IF mt.mismatch THEN "hash" ELSE "meta_tree_full"
  ELSE r.error = "none" /\ Node_Exchanged(s, i, req, turns, mt, r)

(* The exchange, step by step.                                             *)
LEMMA ExchangeSteps ==
  ASSUME NEW s, Free_State(s), s.error = "none", DOMAIN s.new = Level,
         NEW i, NEW req, NEW turns, NEW mt, mt = Block_For_Node(s, s.entries[i], req.Gen),
         NEW r, r = Exchange_Type_2_Leafs(s, i, s.entries[i].Hash, turns, req)
  PROVE  Exchange_Result(s, i, req, turns, mt, r)
<1> DEFINE entries == s.entries[i].Hash
           new == [j \in DOMAIN entries |->
                     IF j \in Serving(turns)
                     THEN Exchange_Type_2_Leaf(entries[j], Taker(turns, j), req) ELSE entries[j]]
           new3 == [l \in Level |-> IF l \in Served(turns)
                                    THEN entries[Server(turns, l)].PBA ELSE s.new[l]]
           w   == Node_Written(s, mt, req.Gen, new)
<1>1. r = [w EXCEPT !.entries[i] = w.node,
                    !.new = [l \in Level |-> IF l \in Served(turns)
                                             THEN entries[Server(turns, l)].PBA ELSE @[l]]]
  BY DEF Exchange_Type_2_Leafs
<1>0. /\ DOMAIN new = DOMAIN entries
      /\ \A j \in DOMAIN entries :
           new[j] = IF j \in Serving(turns)
                    THEN Exchange_Type_2_Leaf(entries[j], Taker(turns, j), req) ELSE entries[j]
  OBVIOUS
<1> HIDE DEF new
<1>2. CASE mt.mismatch \/ mt.new_pba = 0
  <2>1. DOMAIN w = DOMAIN s /\ w.error = IF mt.mismatch THEN "hash" ELSE "meta_tree_full"
    BY <1>2 DEF Node_Written, Free_State
  <2> HIDE DEF w
  <2>2. r.error = w.error
    BY <1>1, <2>1 DEF Free_State
  <2> QED BY <1>2, <2>1, <2>2 DEF Exchange_Result
<1>3. CASE ~(mt.mismatch \/ mt.new_pba = 0)
  <2>1. w = [s EXCEPT !.blocks = [mt.blocks EXCEPT ![mt.new_pba] = new],
                      !.meta = mt.root, !.node = Update_Parent(mt.new_pba, req.Gen, new)]
    BY <1>3 DEF Node_Written
  <2>2. /\ DOMAIN w = DOMAIN s /\ w.error = "none" /\ w.entries = s.entries /\ w.new = s.new
        /\ w.blocks = [mt.blocks EXCEPT ![mt.new_pba] = new] /\ w.meta = mt.root
        /\ w.node = Update_Parent(mt.new_pba, req.Gen, new)
    BY <2>1 DEF Free_State
  <2> HIDE DEF w, new3
  <2>3. /\ r.error = "none" /\ r.new = new3
        /\ r.entries = [s.entries EXCEPT ![i] = Update_Parent(mt.new_pba, req.Gen, new)]
        /\ r.blocks = [mt.blocks EXCEPT ![mt.new_pba] = new] /\ r.meta = mt.root
    BY <1>1, <2>2 DEF Free_State, new3
  <2>4. Node_Exchanged(s, i, req, turns, mt, r)
    BY <1>0, <2>3 DEF Node_Exchanged, new3
  <2> QED BY <1>3, <2>3, <2>4 DEF Exchange_Result
<1> QED BY <1>2, <1>3

(* A node of the free tree is as before, or was changed in this            *)
(* generation: then in place, or its block is spare now.                   *)
Node_Kept(n0, n, b0, b, meta, gen) ==
  \/ n = n0
  \/ /\ n.Gen = gen
     /\ Node_Volatile_In_FT(n0, gen) \/ (Spare(meta.Hash, n0.PBA, gen) /\ b[n0.PBA] = b0[n0.PBA])

Spared(s, b0, meta0, e0, pba, gen) ==
  /\ Meta_Match(s.blocks, s.meta) /\ Saved(b0, meta0, s.blocks, s.meta, gen)
  /\ Nodes_Match(Free_Degree, s.entries, s.blocks)
  /\ s.blocks[pba] = b0[pba]
  /\ \A i \in 0 .. Free_Degree - 1 :
       e0[i].PBA # 0 => Node_Kept(e0[i], s.entries[i], b0, s.blocks, s.meta, gen)

(* The places of the nodes of the free tree.                               *)
LEMMA FreeUseAt ==
  ASSUME Free_Degree \in Nat, NEW s, NEW free, NEW v, NEW at, NEW req,
         NEW g, g = Free_Use(s, free, v, at, req)
  PROVE  /\ DOMAIN g = Place /\ Meta_Part(g, s.meta)
         /\ g[Free_Place(Root_Place)] = free.PBA
         /\ \A k \in 0 .. Free_Degree - 1 : g[Free_Place(Node_Place(k))] = s.entries[k].PBA
<1> DEFINE d == Free_Degree
           pba == free.PBA
           entries == s.entries
           caller == 0
           f == T2_Use(d, pba, entries, caller)
           vv == V_Use(v, at, Taken(req, s.new))
           m == Root_Use(Meta_Degree, s.meta, 0)
<1>1. g = All_Use(vv, f, m) /\ d \in Nat
  BY DEF Free_Use
<1>2. f = T2_Use(d, pba, entries, caller)
  OBVIOUS
<1>3. \A p \in T2_Place : m[p] = Root_Use(Meta_Degree, s.meta, 0)[p]
  OBVIOUS
<1> HIDE DEF f, vv, m, pba, entries, caller, d
<1>4. /\ DOMAIN g = Place
      /\ \A p \in T2_Place : g[Free_Place(p)] = f[p] /\ g[Meta_Place(p)] = m[p]
  BY <1>1, AllUse
<1>5. f[Root_Place] = pba /\ Root_Place \in T2_Place
  BY ONLY <1>1, <1>2, T2UseAt
<1>6. \A k \in 0 .. d - 1 : f[Node_Place(k)] = entries[k].PBA /\ Node_Place(k) \in T2_Place
  BY ONLY <1>1, <1>2, T2UseAt
<1> QED BY <1>3, <1>4, <1>5, <1>6 DEF Meta_Part, pba, entries, d

(* A visit writes no node that is kept, and finds no hash that does not    *)
(* match.                                                                  *)
LEMMA ExchangeSpares ==
  ASSUME Meta_Degree \in Nat, Free_Degree \in Nat, Max_Level \in Nat,
         NEW s, NEW free, NEW v, NEW at, NEW req, NEW blks, NEW used, NEW inner,
         Free_State(s), s.error = "none", used \subseteq DOMAIN blks, free.PBA # 0,
         Free_Inv(s, free, v, at, req, blks, used, inner),
         NEW i \in 0 .. Free_Degree - 1, s.entries[i].PBA # 0,
         NEW meta0, NEW e0, e0[i] = s.entries[i], Nodes_Match(Free_Degree, e0, blks),
         Spared(s, blks, meta0, e0, free.PBA, req.Gen),
         NEW turns, NEW r, r = Exchange_Type_2_Leafs(s, i, s.entries[i].Hash, turns, req),
         r.error = "none" => Free_Inv(r, free, v, at, req, blks, used, inner)
  PROVE  r.error # "hash" /\ (r.error = "none" => Spared(r, blks, meta0, e0, free.PBA, req.Gen))
<1> DEFINE d    == Free_Degree
           node == s.entries[i]
           gen  == req.Gen
           g    == Free_Use(s, free, v, at, req)
           g2   == Free_Use(r, free, v, at, req)
           mt   == Block_For_Node(s, node, gen)
           q    == Node_Place(i)
<1>1. /\ Meta_Root_OK(s.meta) /\ DOMAIN s.new = Level /\ Inj(g) /\ Blocks(g) = used
      /\ DOMAIN s.blocks = DOMAIN blks /\ DOMAIN s.entries = 0 .. d - 1
  BY DEF Free_Inv, T2_Entries
<1>2. /\ DOMAIN g = Place /\ Meta_Part(g, s.meta)
      /\ g[Free_Place(Root_Place)] = free.PBA
      /\ \A k \in 0 .. d - 1 : g[Free_Place(Node_Place(k))] = s.entries[k].PBA
  BY FreeUseAt
<1>3. /\ q \in T2_Place /\ Root_Place \in T2_Place /\ q # Root_Place
      /\ \A k \in 0 .. d - 1 : Node_Place(k) \in T2_Place /\ (Node_Place(k) = q => k = i)
  <2> DEFINE pba == 0
             caller == 0
             f == T2_Use(d, pba, e0, caller)
  <2>1. f = T2_Use(d, pba, e0, caller) /\ d \in Nat /\ i \in 0 .. d - 1
    OBVIOUS
  <2> HIDE DEF f, pba, caller, d
  <2> QED BY ONLY <2>1, T2UseAt
<1>4. /\ Meta_Match(s.blocks, s.meta) /\ Saved(blks, meta0, s.blocks, s.meta, gen)
      /\ Nodes_Match(d, s.entries, s.blocks)
      /\ s.blocks[free.PBA] = blks[free.PBA]
      /\ \A k \in 0 .. d - 1 :
           e0[k].PBA # 0 => Node_Kept(e0[k], s.entries[k], blks, s.blocks, s.meta, gen)
  BY DEF Spared
<1>5. mt = Block_For_Node(s, s.entries[i], req.Gen)
  OBVIOUS
<1> HIDE DEF g, g2, mt, q
<1>6. IF mt.mismatch \/ mt.new_pba = 0
      THEN r.error = IF mt.mismatch THEN "hash" ELSE "meta_tree_full"
      ELSE r.error = "none" /\ Node_Exchanged(s, i, req, turns, mt, r)
  <2>1. /\ Free_State(s) /\ s.error = "none" /\ DOMAIN s.new = Level
        /\ mt = Block_For_Node(s, s.entries[i], req.Gen)
        /\ r = Exchange_Type_2_Leafs(s, i, s.entries[i].Hash, turns, req)
    BY <1>1, <1>5
  <2>2. Exchange_Result(s, i, req, turns, mt, r)
    BY ONLY <2>1, ExchangeSteps
  <2> QED BY <2>2 DEF Exchange_Result
<1>7. ~mt.mismatch /\ (mt.new_pba # 0 => Block_Got(s, node, gen, g, mt))
  <2>1. /\ Meta_Degree \in Nat /\ DOMAIN g = Place /\ Inj(g) /\ Meta_Root_OK(s.meta)
        /\ Meta_Part(g, s.meta) /\ Meta_Match(s.blocks, s.meta) /\ q \in T2_Place
        /\ g[Free_Place(q)] = node.PBA /\ node.PBA # 0 /\ Blocks(g) \subseteq DOMAIN s.blocks
        /\ mt = Block_For_Node(s, node, gen)
    BY <1>1, <1>2, <1>3, <1>4 DEF q, mt
  <2> HIDE DEF node, gen
  <2> QED BY ONLY <2>1, BlockMatches
<1>8. SUFFICES ASSUME r.error = "none" PROVE Spared(r, blks, meta0, e0, free.PBA, req.Gen)
  BY <1>6, <1>7
<1>9. ~mt.mismatch /\ mt.new_pba # 0 /\ Block_Got(s, node, gen, g, mt) /\ Node_Exchanged(s, i, req, turns, mt, r)
  BY <1>6, <1>7, <1>8
<1>10. PICK content :
         /\ r.blocks = [mt.blocks EXCEPT ![mt.new_pba] = content]
         /\ r.entries = [s.entries EXCEPT ![i] = Update_Parent(mt.new_pba, req.Gen, content)]
         /\ r.meta = mt.root
  BY <1>9 DEF Node_Exchanged
<1>11. /\ \A k \in 0 .. d - 1 : k # i => r.entries[k] = s.entries[k]
       /\ r.entries[i].PBA = mt.new_pba /\ r.entries[i].Gen = gen /\ r.entries[i].Hash = content
  BY <1>1, <1>10 DEF Update_Parent
<1>12. /\ DOMAIN g2 = Place /\ Meta_Part(g2, mt.root)
       /\ g2[Free_Place(Root_Place)] = free.PBA
       /\ \A k \in 0 .. d - 1 : g2[Free_Place(Node_Place(k))] = r.entries[k].PBA
  <2>1. g2 = Free_Use(r, free, v, at, req)
    BY DEF g2
  <2>2. DOMAIN g2 = Place /\ Meta_Part(g2, r.meta) /\ g2[Free_Place(Root_Place)] = free.PBA
        /\ \A k \in 0 .. Free_Degree - 1 : g2[Free_Place(Node_Place(k))] = r.entries[k].PBA
    BY ONLY <2>1, Free_Degree \in Nat, FreeUseAt
  <2> QED BY <2>2, <1>10
<1>13. Inj(g2) /\ Blocks(g2) = used /\ Meta_Root_OK(mt.root) /\ DOMAIN r.blocks = DOMAIN blks
  BY <1>8, <1>10 DEF Free_Inv, g2
<1>14. g2[Free_Place(q)] = mt.new_pba /\ mt.new_pba \in DOMAIN mt.blocks
  <2>1. g2[Free_Place(q)] = mt.new_pba
    BY <1>11, <1>12 DEF q
  <2>2. mt.new_pba \in used
    BY <2>1, <1>3, <1>9, <1>12, <1>13, Places DEF Blocks
  <2> QED BY <2>1, <2>2, <1>10, <1>13
<1> DEFINE b2 == r.blocks
<1>15. /\ Meta_Match(b2, mt.root) /\ Saved(s.blocks, s.meta, b2, mt.root, gen)
       /\ \/ Node_Volatile_In_FT(node, gen)
          \/ Spare(mt.root.Hash, node.PBA, gen) /\ b2[node.PBA] = s.blocks[node.PBA]
       /\ b2[mt.new_pba] = content
       /\ \A x \in T2_Place : x # q /\ g[Free_Place(x)] # 0 /\ g2[Free_Place(x)] = g[Free_Place(x)] =>
            b2[g[Free_Place(x)]] = s.blocks[g[Free_Place(x)]]
  <2>1. /\ Meta_Degree \in Nat /\ q \in T2_Place /\ g[Free_Place(q)] = node.PBA
        /\ DOMAIN g2 = Place /\ Inj(g2) /\ Meta_Part(g2, mt.root) /\ mt.new_pba # 0
        /\ g2[Free_Place(q)] = mt.new_pba /\ mt.new_pba \in DOMAIN mt.blocks
        /\ Meta_Root_OK(mt.root) /\ node.PBA # 0 /\ Block_Got(s, node, gen, g, mt)
        /\ b2 = [mt.blocks EXCEPT ![mt.new_pba] = content]
    BY <1>2, <1>3, <1>9, <1>10, <1>12, <1>13, <1>14 DEF q
  <2> HIDE DEF node, gen, b2
  <2>2. Node_Put(s, node, gen, g, q, g2, mt.root, mt.new_pba, content, b2)
    BY ONLY <2>1, NodeWritten
  <2> QED BY <2>2 DEF Node_Put
<1>16. b2[free.PBA] = s.blocks[free.PBA]
  BY ONLY <1>2, <1>3, <1>12, <1>15, free.PBA # 0
<1>17. ASSUME NEW k \in 0 .. d - 1, k # i, s.entries[k].PBA # 0
       PROVE  b2[s.entries[k].PBA] = s.blocks[s.entries[k].PBA]
  <2> DEFINE x == Node_Place(k)
             a == s.entries[k].PBA
  <2>1. x \in T2_Place /\ x # q
    BY <1>3, <1>17
  <2>2. g[Free_Place(x)] = a /\ g2[Free_Place(x)] = a /\ a # 0
    BY <1>2, <1>11, <1>12, <1>17
  <2> HIDE DEF x, a
  <2>3. b2[a] = s.blocks[a]
    BY ONLY <2>1, <2>2, <1>15
  <2> QED BY <2>3 DEF a
<1>18. Nodes_Match(d, r.entries, b2)
  <2> SUFFICES ASSUME NEW k \in 0 .. d - 1, r.entries[k].PBA # 0
               PROVE  b2[r.entries[k].PBA] = r.entries[k].Hash
    BY DEF Nodes_Match
  <2>1. CASE k = i
    BY <1>11, <1>15, <2>1
  <2>2. CASE k # i
    <3>1. r.entries[k] = s.entries[k] /\ s.entries[k].PBA # 0
      BY <1>11, <2>2
    <3>2. s.blocks[s.entries[k].PBA] = s.entries[k].Hash
      BY <1>4, <3>1 DEF Nodes_Match
    <3> QED BY <1>17, <2>2, <3>1, <3>2
  <2> QED BY <2>1, <2>2
<1>19. Saved(blks, meta0, b2, mt.root, gen)
  BY <1>4, <1>15 DEF Saved
<1>20. ASSUME NEW k \in 0 .. d - 1, e0[k].PBA # 0
       PROVE  Node_Kept(e0[k], r.entries[k], blks, b2, mt.root, gen)
  <2>1. CASE k = i
    <3>1. s.blocks[node.PBA] = blks[node.PBA] /\ e0[i] = node
      BY <1>4 DEF Nodes_Match
    <3>2. r.entries[k].Gen = gen /\ e0[k] = node
      BY <2>1, <3>1, <1>11
    <3>3. \/ Node_Volatile_In_FT(node, gen)
          \/ Spare(mt.root.Hash, node.PBA, gen) /\ b2[node.PBA] = blks[node.PBA]
      BY <3>1, <1>15
    <3> HIDE DEF node, gen, b2
    <3> QED BY ONLY <3>2, <3>3 DEF Node_Kept
  <2>2. CASE k # i
    <3>1. Node_Kept(e0[k], s.entries[k], blks, s.blocks, s.meta, gen)
      BY <1>4, <1>20
    <3>2. Spare(s.meta.Hash, e0[k].PBA, gen) =>
            Spare(mt.root.Hash, e0[k].PBA, gen) /\ b2[e0[k].PBA] = s.blocks[e0[k].PBA]
      BY <1>15, <1>20 DEF Saved
    <3>3. r.entries[k] = s.entries[k]
      BY <2>2, <1>11
    <3> QED BY <3>1, <3>2, <3>3 DEF Node_Kept
  <2> QED BY <2>1, <2>2
<1> QED BY <1>4, <1>10, <1>15, <1>16, <1>18, <1>19, <1>20 DEF Spared

(* The nodes of the free tree from m on were visited.                      *)
Visit_Spared(s, m, blks, free, meta0, snaps, last, req) ==
  /\ Spared(s, blks, meta0, free.Hash, free.PBA, req.Gen)
  /\ Leafs_Changed(m, free.Hash, s.entries, s.new, snaps, last, req)

(* Who visits less has changed no more.                                    *)
LEMMA LeafsLeft ==
  ASSUME Free_Degree \in Nat, NEW e0, NEW e, NEW new, NEW snaps, NEW last, NEW req,
         NEW i \in 0 .. Free_Degree - 1, Leafs_Changed(i + 1, e0, e, new, snaps, last, req)
  PROVE  Leafs_Changed(i, e0, e, new, snaps, last, req)
<1>1. i \in Int /\ \A k \in 0 .. Free_Degree - 1 : (k < i => k < i + 1) /\ (k >= i + 1 => k >= i)
  OBVIOUS
<1> QED BY <1>1 DEF Leafs_Changed

(* The visit of a level-1 node of the free tree.                           *)
LEMMA VisitSpares ==
  ASSUME Meta_Degree \in Nat, Free_Degree \in Nat, Max_Level \in Nat,
         NEW s, NEW free, NEW v, NEW at, NEW req, NEW blks, NEW used, NEW inner,
         Request_For(req, v, at), Free_State(s), s.error = "none",
         Free_Inv(s, free, v, at, req, blks, used, inner),
         used \subseteq DOMAIN blks, free.PBA # 0, Nodes_Match(Free_Degree, free.Hash, blks),
         NEW i \in 0 .. Free_Degree - 1, NEW snaps, NEW last, NEW meta0,
         Visit_Spared(s, i + 1, blks, free, meta0, snaps, last, req),
         NEW r, r = Visit_Level_1_Node(s, i, snaps, last, req)
  PROVE  r.error # "hash" /\ (r.error = "none" => Visit_Spared(r, i, blks, free, meta0, snaps, last, req))
<1> DEFINE entries == s.blocks[s.entries[i].PBA]
           turns   == Type_2_Leaf_Turns(s, entries, snaps, last, req)
           e0      == free.Hash
<1>1. /\ Spared(s, blks, meta0, e0, free.PBA, req.Gen)
      /\ Leafs_Changed(i + 1, e0, s.entries, s.new, snaps, last, req)
  BY DEF Visit_Spared
<1>2. s.entries[i] = e0[i]
  BY <1>1 DEF Leafs_Changed
<1>3. s.entries[i].PBA # 0 => Check_Node_Hash(s.blocks, s.entries[i])
  BY <1>1 DEF Spared, Nodes_Match, Check_Node_Hash
<1>4. Leafs_Changed(i, e0, s.entries, s.new, snaps, last, req)
  <2> HIDE DEF e0
  <2> QED BY <1>1, LeafsLeft
<1>5. CASE s.entries[i].PBA = 0 \/ (\A l \in Level : s.new[l] # 0) \/ turns = {}
  <2>1. r = s
    BY <1>3, <1>5 DEF Visit_Level_1_Node
  <2> QED BY <2>1, <1>1, <1>4 DEF Visit_Spared
<1>6. CASE ~(s.entries[i].PBA = 0 \/ (\A l \in Level : s.new[l] # 0) \/ turns = {})
  <2>1. r = Exchange_Type_2_Leafs(s, i, entries, turns, req) /\ entries = s.entries[i].Hash
    BY <1>3, <1>6 DEF Visit_Level_1_Node, Check_Node_Hash
  <2>2. r = Exchange_Type_2_Leafs(s, i, s.entries[i].Hash, turns, req)
    BY <2>1
  <2>3. turns = Type_2_Leaf_Turns(s, e0[i].Hash, snaps, last, req)
    BY <2>1, <1>2
  <2>4. r.error = "none" => Free_Inv(r, free, v, at, req, blks, used, inner)
    <3> HIDE DEF entries, turns, e0
    <3> QED BY Level1NodeVisited
  <2>5. s.entries[i].PBA # 0 /\ e0[i] = s.entries[i] /\ Nodes_Match(Free_Degree, e0, blks)
    BY <1>2, <1>6
  <2> HIDE DEF entries, turns, e0
  <2>6. r.error # "hash" /\ (r.error = "none" => Spared(r, blks, meta0, e0, free.PBA, req.Gen))
    BY <1>1, <2>2, <2>4, <2>5, ExchangeSpares
  <2>7. SUFFICES ASSUME r.error = "none" PROVE Leafs_Changed(i, e0, r.entries, r.new, snaps, last, req)
    BY <2>6 DEF Visit_Spared, e0
  <2> DEFINE mt == Block_For_Node(s, s.entries[i], req.Gen)
             d  == Free_Degree
  <2>8. DOMAIN s.new = Level /\ DOMAIN s.entries = 0 .. d - 1 /\ DOMAIN s.entries[i].Hash = 0 .. d - 1
    BY <2>5 DEF Free_Inv, T2_Entries
  <2>9. /\ ~(mt.mismatch \/ mt.new_pba = 0)
        /\ Node_Exchanged(s, i, req, turns, mt, r)
    <3>1. mt = Block_For_Node(s, s.entries[i], req.Gen)
      OBVIOUS
    <3> HIDE DEF mt
    <3>2. Exchange_Result(s, i, req, turns, mt, r)
      BY ONLY Free_State(s), s.error = "none", <2>2, <2>8, <3>1, ExchangeSteps
    <3> QED BY <2>6, <2>7, <3>2 DEF Exchange_Result
  <2> HIDE DEF mt
  <2>10. PICK content :
           /\ DOMAIN content = DOMAIN s.entries[i].Hash
           /\ \A j \in DOMAIN s.entries[i].Hash :
                content[j] = IF j \in Serving(turns)
                             THEN Exchange_Type_2_Leaf(s.entries[i].Hash[j], Taker(turns, j), req)
                             ELSE s.entries[i].Hash[j]
           /\ r.entries = [s.entries EXCEPT ![i] = Update_Parent(mt.new_pba, req.Gen, content)]
    BY <2>9 DEF Node_Exchanged
  <2>11. r.new = [l \in Level |-> IF l \in Served(turns)
                                  THEN s.entries[i].Hash[Server(turns, l)].PBA ELSE s.new[l]]
    BY <2>9 DEF Node_Exchanged
  <2>12. /\ r.entries[i].PBA # 0 /\ r.entries[i].Hash = content
         /\ \A k \in 0 .. d - 1 : k # i => r.entries[k] = s.entries[k]
    BY <2>8, <2>9, <2>10 DEF Update_Parent
  <2> DEFINE e2   == r.entries
             new2 == r.new
             e    == s.entries
             new  == s.new
  <2>13. /\ e0[i].PBA # 0 /\ e2[i].PBA # 0
         /\ \A k \in 0 .. Free_Degree - 1 : k # i => e2[k] = e[k]
         /\ \A j \in 0 .. Free_Degree - 1 : e2[i].Hash[j] =
               IF j \in Serving(turns) THEN Exchange_Type_2_Leaf(e0[i].Hash[j], Taker(turns, j), req)
               ELSE e0[i].Hash[j]
    BY <2>5, <2>8, <2>10, <2>12
  <2>14. \A l \in Level : new2[l] = IF l \in Served(turns) THEN e0[i].Hash[Server(turns, l)].PBA
                                    ELSE new[l]
    BY <2>5, <2>11
  <2>15. Leafs_Changed(i + 1, e0, e, new, snaps, last, req) /\ s.new = new
    BY <1>1
  <2> HIDE DEF e2, new2, e, new, d
  <2>16. Leafs_Changed(i, e0, e2, new2, snaps, last, req)
    BY <2>3, <2>13, <2>14, <2>15, LeafsGive
  <2> QED BY <2>16 DEF e2, new2
<1> QED BY <1>5, <1>6

(* The nodes of the free tree are what their parents know of them.         *)
Free_Match(blks, free) ==
  blks[free.PBA] = free.Hash /\ Nodes_Match(Free_Degree, free.Hash, blks)

(* What a request makes of the trees.                                      *)
Trees_Changed(blks, free, meta, snaps, last, req, r) ==
  /\ Meta_Match(r.blocks, r.meta) /\ Saved(blks, meta, r.blocks, r.meta, req.Gen)
  /\ Free_Match(r.blocks, r.node) /\ r.node.Gen = req.Gen
  /\ Node_Kept(free, r.node, blks, r.blocks, r.meta, req.Gen)
  /\ \A i \in 0 .. Free_Degree - 1 : free.Hash[i].PBA # 0 =>
       Node_Kept(free.Hash[i], r.node.Hash[i], blks, r.blocks, r.meta, req.Gen)
  /\ Leafs_Changed(0, free.Hash, r.node.Hash, r.new, snaps, last, req)

(* The root of the free tree is written in the end.                        *)
LEMMA RootSpares ==
  ASSUME Meta_Degree \in Nat, Free_Degree \in Nat, Max_Level \in Nat,
         NEW s, NEW free, NEW v, NEW at, NEW req, NEW blks, NEW used, NEW inner,
         T1_Root(free), free.PBA \in inner, Free_State(s), s.error = "none",
         Free_Inv(s, free, v, at, req, blks, used, inner),
         used \subseteq DOMAIN blks, Free_Match(blks, free), NEW snaps, NEW last, NEW meta0,
         Visit_Spared(s, 0, blks, free, meta0, snaps, last, req),
         NEW r, r = Free_Root_Written(s, free, req.Gen)
  PROVE  r.error # "hash" /\ (r.error = "none" => Trees_Changed(blks, free, meta0, snaps, last, req, r))
<1> DEFINE d    == Free_Degree
           gen  == req.Gen
           g    == Free_Use(s, free, v, at, req)
           mt   == Block_For_Node(s, free, gen)
           q    == Root_Place
           e    == s.entries
<1>1. /\ Meta_Root_OK(s.meta) /\ Inj(g) /\ Blocks(g) = used
      /\ DOMAIN s.blocks = DOMAIN blks /\ free.PBA # 0
  BY DEF Free_Inv, T1_Root
<1>2. /\ DOMAIN g = Place /\ Meta_Part(g, s.meta) /\ g[Free_Place(Root_Place)] = free.PBA
      /\ \A k \in 0 .. d - 1 : g[Free_Place(Node_Place(k))] = s.entries[k].PBA
  BY FreeUseAt
<1>3. /\ q \in T2_Place
      /\ \A k \in 0 .. d - 1 : Node_Place(k) \in T2_Place /\ Node_Place(k) # q
  <2> DEFINE pba == 0
             caller == 0
             f == T2_Use(d, pba, e, caller)
  <2>1. f = T2_Use(d, pba, e, caller) /\ d \in Nat
    OBVIOUS
  <2> HIDE DEF f, pba, caller, d, e
  <2> QED BY ONLY <2>1, T2UseAt
<1>4. /\ Meta_Match(s.blocks, s.meta) /\ Saved(blks, meta0, s.blocks, s.meta, gen)
      /\ Nodes_Match(d, e, s.blocks)
      /\ s.blocks[free.PBA] = blks[free.PBA]
      /\ \A k \in 0 .. d - 1 : free.Hash[k].PBA # 0 =>
           Node_Kept(free.Hash[k], e[k], blks, s.blocks, s.meta, gen)
      /\ Leafs_Changed(0, free.Hash, e, s.new, snaps, last, req)
  BY DEF Visit_Spared, Spared
<1> HIDE DEF g, mt, q
<1>5. ~mt.mismatch /\ (mt.new_pba # 0 => Block_Got(s, free, gen, g, mt))
  <2>1. /\ Meta_Degree \in Nat /\ DOMAIN g = Place /\ Inj(g) /\ Meta_Root_OK(s.meta)
        /\ Meta_Part(g, s.meta) /\ Meta_Match(s.blocks, s.meta) /\ q \in T2_Place
        /\ g[Free_Place(q)] = free.PBA /\ free.PBA # 0 /\ Blocks(g) \subseteq DOMAIN s.blocks
        /\ mt = Block_For_Node(s, free, gen)
    BY <1>1, <1>2, <1>3, <1>4 DEF q, mt
  <2> HIDE DEF gen
  <2> QED BY ONLY <2>1, BlockMatches
<1>6. CASE (\E l \in Level : s.new[l] = 0) \/ mt.new_pba = 0
  BY <1>5, <1>6 DEF Free_Root_Written, Node_Written, Free_State, mt
<1>7. CASE ~((\E l \in Level : s.new[l] = 0) \/ mt.new_pba = 0)
  <2>1. r = [s EXCEPT !.blocks = [mt.blocks EXCEPT ![mt.new_pba] = e],
                      !.meta = mt.root, !.node = Update_Parent(mt.new_pba, gen, e)]
    BY <1>5, <1>7 DEF Free_Root_Written, Node_Written, mt
  <2>2. /\ r.error = "none" /\ r.new = s.new /\ r.meta = mt.root
        /\ r.blocks = [mt.blocks EXCEPT ![mt.new_pba] = e]
        /\ r.node.PBA = mt.new_pba /\ r.node.Gen = gen /\ r.node.Hash = e
    BY <2>1 DEF Free_State, Update_Parent
  <2> DEFINE g2 == Tree_Use(v, at, req, r.new, r.node, r.meta)
             x  == [new |-> r.new, entries |-> r.node.Hash, meta |-> r.meta]
             node == r.node
  <2>3. /\ Inj(g2) /\ Blocks(g2) = used /\ Meta_Root_OK(r.meta) /\ DOMAIN r.blocks = DOMAIN blks
    <3>1. r = Free_Root_Written(s, free, gen) /\ r.error = "none"
      BY <2>2
    <3> HIDE DEF gen
    <3> QED BY <3>1, FreeRootWritten
  <2>4. g2 = Free_Use(x, node, v, at, req) /\ x.meta = mt.root /\ x.entries = e
    BY <2>2 DEF Tree_Use, Free_Use, Root_Use
  <2> HIDE DEF g2, x, node, e, gen
  <2>5. /\ DOMAIN g2 = Place /\ Meta_Part(g2, x.meta) /\ g2[Free_Place(Root_Place)] = node.PBA
        /\ \A k \in 0 .. d - 1 : g2[Free_Place(Node_Place(k))] = x.entries[k].PBA
    BY ONLY Free_Degree \in Nat, <2>4, FreeUseAt
  <2>6. g2[Free_Place(q)] = mt.new_pba /\ mt.new_pba \in DOMAIN mt.blocks
    <3>1. g2[Free_Place(q)] = mt.new_pba
      BY <2>2, <2>5 DEF q, node
    <3>2. mt.new_pba \in used
      BY <3>1, <1>3, <1>7, <2>3, <2>5, Places DEF Blocks
    <3>3. DOMAIN mt.blocks = DOMAIN r.blocks
      BY <2>2
    <3> QED BY <3>1, <3>2, <3>3, <2>3
  <2> DEFINE b2 == r.blocks
  <2>7. Node_Put(s, free, gen, g, q, g2, mt.root, mt.new_pba, e, b2)
    <3>1. /\ Meta_Degree \in Nat /\ q \in T2_Place /\ g[Free_Place(q)] = free.PBA
          /\ DOMAIN g2 = Place /\ Inj(g2) /\ Meta_Part(g2, mt.root) /\ mt.new_pba # 0
          /\ g2[Free_Place(q)] = mt.new_pba /\ mt.new_pba \in DOMAIN mt.blocks
          /\ Meta_Root_OK(mt.root) /\ free.PBA # 0 /\ Block_Got(s, free, gen, g, mt)
          /\ b2 = [mt.blocks EXCEPT ![mt.new_pba] = e]
      BY <1>1, <1>2, <1>3, <1>5, <1>7, <2>2, <2>3, <2>4, <2>5, <2>6 DEF q
    <3> HIDE DEF b2
    <3> QED BY ONLY <3>1, NodeWritten
  <2>8. /\ Meta_Match(b2, mt.root) /\ Saved(s.blocks, s.meta, b2, mt.root, gen)
        /\ \/ Node_Volatile_In_FT(free, gen)
           \/ Spare(mt.root.Hash, free.PBA, gen) /\ b2[free.PBA] = s.blocks[free.PBA]
        /\ b2[mt.new_pba] = e
        /\ \A y \in T2_Place : y # q /\ g[Free_Place(y)] # 0 /\ g2[Free_Place(y)] = g[Free_Place(y)] =>
             b2[g[Free_Place(y)]] = s.blocks[g[Free_Place(y)]]
    BY <2>7 DEF Node_Put
  <2>9. ASSUME NEW k \in 0 .. d - 1, e[k].PBA # 0 PROVE b2[e[k].PBA] = s.blocks[e[k].PBA]
    <3>1. /\ g[Free_Place(Node_Place(k))] = e[k].PBA /\ g2[Free_Place(Node_Place(k))] = e[k].PBA
          /\ Node_Place(k) \in T2_Place /\ Node_Place(k) # q
      BY <1>2, <1>3, <2>4, <2>5 DEF e
    <3> QED BY <3>1, <2>8, <2>9
  <2>10. Free_Match(b2, node)
    BY <1>4, <2>2, <2>8, <2>9 DEF Free_Match, Nodes_Match, node
  <2>11. Saved(blks, meta0, b2, mt.root, gen)
    BY <1>4, <2>8 DEF Saved
  <2>12. Node_Kept(free, node, blks, b2, mt.root, gen)
    BY <1>4, <2>2, <2>8 DEF Node_Kept, node
  <2>13. ASSUME NEW k \in 0 .. d - 1, free.Hash[k].PBA # 0
         PROVE  Node_Kept(free.Hash[k], e[k], blks, b2, mt.root, gen)
    <3>1. Node_Kept(free.Hash[k], e[k], blks, s.blocks, s.meta, gen)
      BY <1>4, <2>13
    <3>2. Spare(s.meta.Hash, free.Hash[k].PBA, gen) =>
            /\ Spare(mt.root.Hash, free.Hash[k].PBA, gen)
            /\ b2[free.Hash[k].PBA] = s.blocks[free.Hash[k].PBA]
      BY <2>8, <2>13 DEF Saved
    <3> QED BY <3>1, <3>2 DEF Node_Kept
  <2> QED BY <1>4, <2>2, <2>8, <2>10, <2>11, <2>12, <2>13 DEF Trees_Changed, node, gen
<1> QED BY <1>6, <1>7

(* A request to the free tree finds no hash that does not match, and       *)
(* writes no node that is kept.                                            *)
LEMMA FreeTreeSpares ==
  ASSUME Meta_Degree \in Nat, Free_Degree \in Nat, Max_Level \in Nat,
         NEW free, NEW meta, NEW v, NEW at, NEW req, NEW blks, NEW inner,
         NEW snaps, NEW last, Request_For(req, v, at), DOMAIN req.New_Blocks = Level,
         Free_Root_OK(free), Meta_Root_OK(meta), Within(free, meta, inner),
         Inj(Tree_Use(v, at, req, req.New_Blocks, free, meta)),
         Blocks(Tree_Use(v, at, req, req.New_Blocks, free, meta)) \subseteq DOMAIN blks,
         Free_Match(blks, free), Meta_Match(blks, meta),
         NEW r, r = Free_Tree_Alloc(blks, free, meta, snaps, last, req)
  PROVE  r.error # "hash" /\ (r.error = "none" => Trees_Changed(blks, free, meta, snaps, last, req, r))
<1> DEFINE used  == Blocks(Tree_Use(v, at, req, req.New_Blocks, free, meta))
           after == Children_Visited(blks, free, meta, snaps, last, req)
           start == Free_Root_Read(blks, free, meta, req)
           Good(s, m) == /\ Free_State(s) /\ s.error # "hash"
                         /\ s.error = "none" =>
                              /\ Free_Inv(s, free, v, at, req, blks, used, inner)
                              /\ Visit_Spared(s, m, blks, free, meta, snaps, last, req)
           S     == {n \in Nat : n <= Free_Degree => Good(after[n], Free_Degree - n)}
           w     == after[Free_Degree]
<1>1. Check_Node_Hash(blks, free)
  BY DEF Free_Match, Check_Node_Hash
<1>2. r = Free_Root_Written(w, free, req.Gen)
  BY <1>1 DEF Free_Tree_Alloc
<1>3. Good(start, Free_Degree)
  <2>1. Free_State(start) /\ start.error = "none"
    BY DEF Free_Root_Read, Free_State
  <2>2. start.meta = meta /\ start.entries = free.Hash /\ start.blocks = blks /\ start.new = req.New_Blocks
    BY <1>1 DEF Free_Root_Read, Check_Node_Hash
  <2>3. Free_Use(start, free, v, at, req) = Tree_Use(v, at, req, req.New_Blocks, free, meta)
    BY <2>2 DEF Free_Use, Tree_Use, Root_Use
  <2> HIDE DEF start
  <2>4. Free_Inv(start, free, v, at, req, blks, used, inner)
    BY <2>2, <2>3 DEF Free_Inv, Free_Root_OK, Within
  <2>5. Spared(start, blks, meta, free.Hash, free.PBA, req.Gen)
    BY <2>2 DEF Spared, Saved, Free_Match, Node_Kept
  <2>6. Leafs_Changed(Free_Degree, free.Hash, start.entries, start.new, snaps, last, req)
    BY <2>2 DEF Leafs_Changed
  <2> QED BY <2>1, <2>4, <2>5, <2>6 DEF Visit_Spared
<1>4. 0 \in S
  <2>1. after[0] = start /\ Free_Degree - 0 = Free_Degree
    BY ChildrenVisited
  <2> HIDE DEF Good, after, start
  <2> QED BY <1>3, <2>1
<1>10. /\ T1_Root(free) /\ free.PBA \in inner /\ free.PBA # 0
       /\ Nodes_Match(Free_Degree, free.Hash, blks) /\ used \subseteq DOMAIN blks
  BY DEF Free_Root_OK, T1_Root, Within, Free_Match
<1>5. ASSUME NEW n \in Nat, n \in S PROVE n + 1 \in S
  <2> SUFFICES ASSUME n + 1 <= Free_Degree PROVE Good(after[n + 1], Free_Degree - (n + 1))
    OBVIOUS
  <2> DEFINE i == Free_Degree - (n + 1)
             s == after[n]
             z == after[n + 1]
  <2>1. i \in 0 .. Free_Degree - 1 /\ n + 1 \in 1 .. Free_Degree /\ (n + 1) - 1 = n /\ n <= Free_Degree
        /\ Free_Degree - n = i + 1
    OBVIOUS
  <2>2. z = Visit_Level_1_Node(s, i, snaps, last, req)
    BY <2>1, ChildrenVisited
  <2>3. Good(s, i + 1)
    BY <1>5, <2>1
  <2> HIDE DEF after, used, i, z, s
  <2>5. CASE s.error = "none"
    <3>1. /\ Free_State(s) /\ Free_Inv(s, free, v, at, req, blks, used, inner)
          /\ Visit_Spared(s, i + 1, blks, free, meta, snaps, last, req)
          /\ Request_For(req, v, at)
          /\ Meta_Degree \in Nat /\ Free_Degree \in Nat /\ Max_Level \in Nat
      BY <2>3, <2>5
    <3>2. s.error = "none" => Free_Inv(s, free, v, at, req, blks, used, inner)
      BY <3>1
    <3> HIDE DEF Good, start, w, S
    <3>3. Free_State(z) /\ (z.error = "none" => Free_Inv(z, free, v, at, req, blks, used, inner))
      BY ONLY <3>1, <3>2, <2>1, <2>2, Level1NodeVisited
    <3>4. z.error # "hash" /\ (z.error = "none" => Visit_Spared(z, i, blks, free, meta, snaps, last, req))
      BY ONLY <3>1, <1>10, <2>1, <2>2, <2>5, VisitSpares
    <3> QED BY <3>3, <3>4 DEF i, z, Good
  <2>6. CASE s.error # "none"
    <3>1. z = s
      BY <2>2, <2>6 DEF Visit_Level_1_Node
    <3> QED BY <2>3, <2>6, <3>1 DEF z
  <2> QED BY <2>5, <2>6
<1> HIDE DEF Good, after, used
<1>6. Good(w, 0)
  <2> HIDE DEF S
  <2>1. Free_Degree \in S
    BY <1>4, <1>5, SetInduction
  <2>2. Free_Degree - Free_Degree = 0
    OBVIOUS
  <2> QED BY <2>1, <2>2 DEF S
<1> HIDE DEF w
<1>7. CASE w.error = "none"
  <2>1. /\ Free_State(w) /\ Free_Inv(w, free, v, at, req, blks, used, inner)
        /\ Visit_Spared(w, 0, blks, free, meta, snaps, last, req)
    BY <1>6, <1>7 DEF Good
  <2> QED BY <1>2, <1>7, <1>10, <2>1, RootSpares
<1>8. CASE w.error # "none"
  <2>1. r = w /\ w.error # "hash"
    BY <1>2, <1>6, <1>8 DEF Free_Root_Written, Good
  <2> QED BY <2>1, <1>8
<1> QED BY <1>7, <1>8

-----------------------------------------------------------------------------
(***************************************************************************)
(* The trees of the allocation can be read, and the free tree of the       *)
(* superblock secured last, too.                                           *)
(***************************************************************************)

(* A node of the free tree that was secured last can still be read, unless *)
(* it is one of the initializers: the free tree has it still, or its block *)
(* is spare in this generation.                                            *)
Secured_Node_OK(blks, n0, n, meta, gen) ==
  n0.Gen # 0 => /\ n0.PBA # 0 /\ n0.Gen < gen /\ blks[n0.PBA] = n0.Hash
                /\ n = n0 \/ Spare(meta.Hash, n0.PBA, gen)

(* The nodes of the free tree are not newer than the current generation.   *)
Gen_OK(n, gen) == n.Gen \in Nat /\ n.Gen <= gen /\ (n.PBA = 0 => n.Gen = 0)
Free_Gens(free, gen) ==
  Gen_OK(free, gen) /\ \A i \in 0 .. Free_Degree - 1 : Gen_OK(free.Hash[i], gen)

(* The trees of the allocation can be read, and the free tree "old" that   *)
(* was secured last, too.                                                  *)
Trees_OK(blks, free, meta, old, gen) ==
  /\ Free_Match(blks, free) /\ Meta_Match(blks, meta)
  /\ gen \in Nat /\ gen # 0 /\ Free_Gens(free, gen)
  /\ Secured_Node_OK(blks, old, free, meta, gen)
  /\ DOMAIN old.Hash = 0 .. Free_Degree - 1
  /\ \A i \in 0 .. Free_Degree - 1 :
       Secured_Node_OK(blks, old.Hash[i], free.Hash[i], meta, gen)

(* A node stays readable when the free tree is changed.                    *)
LEMMA SecuredNodeKept ==
  ASSUME NEW b0, NEW b, NEW n0, NEW n1, NEW n2, NEW meta0, NEW meta, NEW gen \in Nat,
         Secured_Node_OK(b0, n0, n1, meta0, gen), Saved(b0, meta0, b, meta, gen),
         Node_Kept(n1, n2, b0, b, meta, gen), n2.PBA # 0 => b[n2.PBA] = n2.Hash
  PROVE  Secured_Node_OK(b, n0, n2, meta, gen)
<1> SUFFICES ASSUME n0.Gen # 0
             PROVE  /\ n0.PBA # 0 /\ n0.Gen < gen /\ b[n0.PBA] = n0.Hash
                    /\ n2 = n0 \/ Spare(meta.Hash, n0.PBA, gen)
  BY DEF Secured_Node_OK
<1>1. /\ n0.PBA # 0 /\ n0.Gen < gen /\ b0[n0.PBA] = n0.Hash
      /\ n1 = n0 \/ Spare(meta0.Hash, n0.PBA, gen)
  BY DEF Secured_Node_OK
<1>2. CASE Spare(meta0.Hash, n0.PBA, gen)
  BY <1>1, <1>2 DEF Saved
<1>3. CASE n1 = n0 /\ n2 = n1
  BY <1>1, <1>3
<1>4. CASE n1 = n0 /\ n2 # n1
  <2>1. Node_Volatile_In_FT(n0, gen) \/ (Spare(meta.Hash, n0.PBA, gen) /\ b[n0.PBA] = b0[n0.PBA])
    BY <1>4 DEF Node_Kept
  <2>2. ASSUME n0.Gen = gen PROVE Spare(meta.Hash, n0.PBA, gen) /\ b[n0.PBA] = b0[n0.PBA]
    <3>1. gen < gen
      BY <1>1, <2>2
    <3> QED BY <3>1
  <2> QED BY <1>1, <2>1, <2>2 DEF Node_Volatile_In_FT
<1> QED BY <1>1, <1>2, <1>3, <1>4

(* A request finds no hash that differs, and the trees stay readable.      *)
LEMMA TreesChanged ==
  ASSUME Free_Degree \in Nat, NEW blks, NEW free, NEW meta, NEW old, NEW gen,
         NEW snaps, NEW last, NEW req, NEW r,
         Trees_OK(blks, free, meta, old, gen), req.Gen = gen,
         Free_Root_OK(free), Free_Root_OK(r.node),
         Trees_Changed(blks, free, meta, snaps, last, req, r)
  PROVE  Trees_OK(r.blocks, r.node, r.meta, old, gen)
<1> DEFINE d == Free_Degree
           b == r.blocks
           free2 == r.node
           meta2 == r.meta
<1>1. /\ Meta_Match(b, meta2) /\ Saved(blks, meta, b, meta2, gen)
      /\ Free_Match(b, free2) /\ free2.Gen = gen
      /\ Node_Kept(free, free2, blks, b, meta2, gen)
      /\ \A i \in 0 .. d - 1 : free.Hash[i].PBA # 0 =>
           Node_Kept(free.Hash[i], free2.Hash[i], blks, b, meta2, gen)
      /\ Leafs_Changed(0, free.Hash, free2.Hash, r.new, snaps, last, req)
  BY DEF Trees_Changed
<1>2. /\ gen \in Nat /\ gen # 0 /\ Free_Gens(free, gen)
      /\ Secured_Node_OK(blks, old, free, meta, gen)
      /\ DOMAIN old.Hash = 0 .. d - 1
      /\ \A i \in 0 .. d - 1 : Secured_Node_OK(blks, old.Hash[i], free.Hash[i], meta, gen)
  BY DEF Trees_OK
<1> HIDE DEF b, free2, meta2
<1>3. \A i \in 0 .. d - 1 : /\ free.Hash[i].PBA = 0 => free2.Hash[i] = free.Hash[i]
                            /\ free2.Hash[i].PBA = 0 => free.Hash[i].PBA = 0
  BY <1>1 DEF Leafs_Changed
<1>4. \A i \in 0 .. d - 1 : Node_Kept(free.Hash[i], free2.Hash[i], blks, b, meta2, gen)
  BY <1>1, <1>3 DEF Node_Kept
<1>5. free.PBA # 0 /\ free2.PBA # 0
  BY DEF Free_Root_OK, T1_Root, free2
<1>6. Free_Gens(free2, gen)
  <2>1. Gen_OK(free2, gen)
    BY <1>1, <1>2, <1>5 DEF Gen_OK
  <2>2. ASSUME NEW i \in 0 .. d - 1 PROVE Gen_OK(free2.Hash[i], gen)
    <3> DEFINE n == free.Hash[i]
               n2 == free2.Hash[i]
    <3>1. /\ Gen_OK(n, gen)
          /\ n2 = n \/ n2.Gen = gen
          /\ n2.PBA = 0 => n2 = n
      BY <1>2, <1>3, <1>4 DEF Free_Gens, Node_Kept
    <3> HIDE DEF n, n2
    <3>2. Gen_OK(n2, gen)
      BY <1>2, <3>1 DEF Gen_OK
    <3> QED BY <3>2 DEF n2
  <2> QED BY <2>1, <2>2 DEF Free_Gens
<1>7. Secured_Node_OK(b, old, free2, meta2, gen)
  <2>1. b[free2.PBA] = free2.Hash
    BY <1>1 DEF Free_Match
  <2> QED BY <1>1, <1>2, <2>1, SecuredNodeKept
<1>8. ASSUME NEW i \in 0 .. d - 1 PROVE Secured_Node_OK(b, old.Hash[i], free2.Hash[i], meta2, gen)
  <2> DEFINE n0 == old.Hash[i]
             n1 == free.Hash[i]
             n2 == free2.Hash[i]
  <2>1. n2.PBA # 0 => b[n2.PBA] = n2.Hash
    BY <1>1 DEF Free_Match, Nodes_Match
  <2>2. Secured_Node_OK(blks, n0, n1, meta, gen) /\ Node_Kept(n1, n2, blks, b, meta2, gen)
    BY <1>2, <1>4
  <2> HIDE DEF n0, n1, n2
  <2>3. Secured_Node_OK(b, n0, n2, meta2, gen)
    BY <1>1, <1>2, <2>1, <2>2, SecuredNodeKept
  <2> QED BY <2>3 DEF n0, n2
<1> QED BY <1>1, <1>2, <1>6, <1>7, <1>8 DEF Trees_OK, b, free2, meta2

(* The trees stay readable as long as none of their inner blocks is        *)
(* written.                                                                *)
LEMMA TreesUntouched ==
  ASSUME Meta_Degree \in Nat, NEW b0, NEW b, NEW free, NEW meta, NEW old, NEW gen,
         Free_Root_OK(free), Meta_Root_OK(meta),
         Trees_OK(b0, free, meta, old, gen),
         \A p \in Inner(free, meta) : b[p] = b0[p]
  PROVE  Trees_OK(b, free, meta, old, gen)
<1> DEFINE m == Root_Use(Meta_Degree, meta, 0)
           inner == Inner(free, meta)
<1>1. Meta_Blocks(m, meta)
  BY MetaBlocks
<1>2. /\ \A x \in T2_Place : m[x] # 0 => m[x] \in inner
      /\ free.PBA # 0 => free.PBA \in inner
      /\ \A i \in 0 .. Free_Degree - 1 : free.Hash[i].PBA # 0 => free.Hash[i].PBA \in inner
  BY DEF Inner
<1>3. free.PBA # 0 /\ meta.PBA # 0
  BY DEF Free_Root_OK, Meta_Root_OK, T1_Root
<1> HIDE DEF m, inner
<1>4. /\ meta.PBA \in inner
      /\ \A k \in 0 .. Meta_Degree - 1 : meta.Hash[k].PBA # 0 => meta.Hash[k].PBA \in inner
      /\ \A p : p # 0 /\ Spare(meta.Hash, p, gen) => p \in inner
  <2>1. meta.PBA \in inner
    BY <1>1, <1>2, <1>3 DEF Meta_Blocks
  <2>2. \A k \in 0 .. Meta_Degree - 1 : meta.Hash[k].PBA # 0 => meta.Hash[k].PBA \in inner
    BY <1>1, <1>2 DEF Meta_Blocks
  <2>3. \A p : p # 0 /\ Spare(meta.Hash, p, gen) => p \in inner
    BY <1>1, <1>2 DEF Meta_Blocks
  <2> QED BY <2>1, <2>2, <2>3
<1>5. \A p \in inner : b[p] = b0[p]
  BY DEF inner
<1>6. Free_Match(b, free) /\ Meta_Match(b, meta)
  <2>1. Free_Match(b0, free) /\ Meta_Match(b0, meta)
    BY DEF Trees_OK
  <2> QED BY <2>1, <1>2, <1>3, <1>4, <1>5 DEF Free_Match, Meta_Match, Nodes_Match
<1>7. ASSUME NEW n0, NEW n, Secured_Node_OK(b0, n0, n, meta, gen), n.PBA # 0 => n.PBA \in inner
      PROVE  Secured_Node_OK(b, n0, n, meta, gen)
  BY <1>7, <1>4, <1>5 DEF Secured_Node_OK
<1>8. Secured_Node_OK(b, old, free, meta, gen)
  BY <1>2, <1>7 DEF Trees_OK
<1>9. ASSUME NEW i \in 0 .. Free_Degree - 1
      PROVE  Secured_Node_OK(b, old.Hash[i], free.Hash[i], meta, gen)
  <2>1. Secured_Node_OK(b0, old.Hash[i], free.Hash[i], meta, gen)
    BY DEF Trees_OK
  <2> QED BY <2>1, <1>2, <1>7
<1> QED BY <1>6, <1>8, <1>9 DEF Trees_OK

(* When the superblock is secured, its free tree is the one to be kept.    *)
LEMMA TreesSecured ==
  ASSUME NEW b, NEW free, NEW meta, NEW old, NEW gen,
         Free_Root_OK(free), Trees_OK(b, free, meta, old, gen)
  PROVE  Trees_OK(b, free, meta, free, gen + 1)
<1>1. /\ Free_Match(b, free) /\ Meta_Match(b, meta) /\ gen \in Nat /\ Free_Gens(free, gen)
      /\ DOMAIN free.Hash = 0 .. Free_Degree - 1
  BY DEF Trees_OK, Free_Root_OK, T2_Entries
<1>2. ASSUME NEW n, Gen_OK(n, gen), n.PBA # 0 => b[n.PBA] = n.Hash
      PROVE  Secured_Node_OK(b, n, n, meta, gen + 1) /\ Gen_OK(n, gen + 1)
  BY <1>1, <1>2 DEF Gen_OK, Secured_Node_OK
<1>3. Secured_Node_OK(b, free, free, meta, gen + 1) /\ Gen_OK(free, gen + 1)
  BY <1>1, <1>2 DEF Free_Gens, Free_Match
<1>4. ASSUME NEW i \in 0 .. Free_Degree - 1
      PROVE  /\ Secured_Node_OK(b, free.Hash[i], free.Hash[i], meta, gen + 1)
             /\ Gen_OK(free.Hash[i], gen + 1)
  <2>1. Gen_OK(free.Hash[i], gen) /\ (free.Hash[i].PBA # 0 => b[free.Hash[i].PBA] = free.Hash[i].Hash)
    BY <1>1 DEF Free_Gens, Free_Match, Nodes_Match
  <2> QED BY <2>1, <1>2
<1>5. gen + 1 \in Nat /\ gen + 1 # 0
  BY <1>1
<1> QED BY <1>1, <1>3, <1>4, <1>5 DEF Trees_OK, Free_Gens

(* A request that may be sent to the free tree: the old nodes are in use,  *)
(* and each block is used once.                                            *)
Asks(req, blks, free, meta) ==
  \E v, at, inner :
    /\ Request_For(req, v, at) /\ DOMAIN req.New_Blocks = Level
    /\ Within(free, meta, inner)
    /\ Inj(Tree_Use(v, at, req, req.New_Blocks, free, meta))
    /\ Blocks(Tree_Use(v, at, req, req.New_Blocks, free, meta)) = DOMAIN blks

(* Its answer.                                                             *)
Answered(blks, free, meta, old, gen, snaps, last, req, r) ==
  /\ Trees_OK(r.blocks, r.node, r.meta, old, gen)
  /\ Trees_Changed(blks, free, meta, snaps, last, req, r)

(* It finds no hash that does not match, and the trees stay readable.      *)
LEMMA AllocTrees ==
  ASSUME NEW blks, NEW free, NEW meta, NEW old, NEW gen, NEW snaps, NEW last, NEW req,
         Asks(req, blks, free, meta), Free_Root_OK(free), Meta_Root_OK(meta),
         Trees_OK(blks, free, meta, old, gen), req.Gen = gen,
         NEW r, r = Free_Tree_Alloc(blks, free, meta, snaps, last, req)
  PROVE  r.error # "hash"
         /\ (r.error = "none" => Answered(blks, free, meta, old, gen, snaps, last, req, r))
<1>1. Meta_Degree \in Nat /\ Free_Degree \in Nat /\ Max_Level \in Nat
  BY Numbers
<1>2. PICK v, at, inner :
        /\ Request_For(req, v, at) /\ DOMAIN req.New_Blocks = Level
        /\ Within(free, meta, inner)
        /\ Inj(Tree_Use(v, at, req, req.New_Blocks, free, meta))
        /\ Blocks(Tree_Use(v, at, req, req.New_Blocks, free, meta)) = DOMAIN blks
  BY DEF Asks
<1> DEFINE used == Blocks(Tree_Use(v, at, req, req.New_Blocks, free, meta))
<1>3. used \subseteq DOMAIN blks
  BY <1>2
<1>4. Free_Match(blks, free) /\ Meta_Match(blks, meta) /\ Free_Root_OK(free) /\ Meta_Root_OK(meta)
      /\ r = Free_Tree_Alloc(blks, free, meta, snaps, last, req)
  BY DEF Trees_OK
<1>5. r.error # "hash" /\ (r.error = "none" => Trees_Changed(blks, free, meta, snaps, last, req, r))
  BY ONLY <1>1, <1>2, <1>3, <1>4, FreeTreeSpares
<1>6. r.error = "none" => Free_Root_OK(r.node)
  <2> SUFFICES ASSUME r.error = "none" PROVE Free_Root_OK(r.node)
    OBVIOUS
  <2>1. r.error = "none"
    OBVIOUS
  <2> QED BY ONLY <1>1, <1>2, <1>4, <2>1, FreeTreeAlloc
<1>7. r.error = "none" => Trees_OK(r.blocks, r.node, r.meta, old, gen)
  <2> SUFFICES ASSUME r.error = "none" PROVE Trees_OK(r.blocks, r.node, r.meta, old, gen)
    OBVIOUS
  <2>1. /\ Free_Root_OK(r.node) /\ Trees_Changed(blks, free, meta, snaps, last, req, r)
        /\ Trees_OK(blks, free, meta, old, gen) /\ req.Gen = gen
    BY <1>5, <1>6
  <2> QED BY ONLY <1>1, <1>4, <2>1, TreesChanged
<1> QED BY <1>5, <1>7 DEF Answered

(* A write asks for the blocks of the nodes on the way.                    *)
LEMMA WriteAsks ==
  ASSUME IInv, job.phase = "Free_Tree"
  PROVE  /\ Asks(job.req, blocks, sb.Free, sb.Meta)
         /\ Free_Root_OK(sb.Free) /\ Meta_Root_OK(sb.Meta)
<1> DEFINE req == job.req
           vba == job.req.VBA
           old == job.req.Old_Blocks
           new == job.req.New_Blocks
           t   == Curr(sb)
           v   == VBD_Use(t)
           at  == Way_To(vba)
           free  == sb.Free
           meta  == sb.Meta
           bl    == blocks
<1>2. /\ SB_OK(sb, cur_gen) /\ DOMAIN bl = PBA
      /\ VBD_OK(t) /\ Inj(Used(v, sb)) /\ Blocks(Used(v, sb)) = PBA
  BY DEF IInv, Once, Used_VBD, Current_Tree
<1>3. /\ DOMAIN req = Req_Fields
      /\ vba \in VBA /\ req.Tag = "Pool_VBD" /\ old = Type_1_Node_Walk(t, vba)
      /\ DOMAIN new = Level
      /\ \A l \in Level : new[l] \in {0, old[l].PBA}
  BY DEF IInv, Write_OK
<1>4. Free_Root_OK(free) /\ Meta_Root_OK(meta)
  BY <1>2 DEF SB_OK, SB_Form
<1>8. \A l \in Level : old[l].PBA # 0 /\ old[l].PBA = v[at[l]]
  <2> DEFINE walk == old
  <2>1. walk = Type_1_Node_Walk(t, vba)
    BY <1>3
  <2> HIDE DEF walk, t, vba
  <2>2. \A l \in Level : walk[l].PBA # 0 /\ walk[l].PBA = VBD_Use(t)[Way_To(vba)[l]]
    BY <1>2, <1>3, <2>1, ContentOnTheWay
  <2> QED BY <2>2 DEF walk
<1>9. Way(at)
  BY <1>3, OnTheWay
<1>10. DOMAIN v = V_Place /\ v = [p \in V_Place |-> v[p]]
  BY VBDUseForm
<1> HIDE DEF req, vba, old, new, t, v, at, free, meta, bl
<1>11. V_Use(v, at, new) = v
  <2>1. \A l \in Level : new[l] \in {0, v[at[l]]}
    BY <1>3, <1>8
  <2> QED BY ONLY <2>1, <1>9, <1>10, VUseSame
<1>12. Request_For(req, v, at)
  <2>1. \A l \in Level : req.Old_Blocks[l].PBA = v[at[l]]
    BY <1>8 DEF req, old
  <2> QED BY <2>1, <1>3, <1>9 DEF Request_For
<1>13. Within(free, meta, Inner(free, meta))
  <2> DEFINE s == sb
  <2>1. /\ Free_Root_OK(s.Free) /\ Meta_Root_OK(s.Meta) /\ DOMAIN v = V_Place /\ Inj(Used(v, s))
    BY <1>2, <1>4, <1>10 DEF free, meta
  <2> HIDE DEF s
  <2>2. Within(s.Free, s.Meta, Inner(s.Free, s.Meta))
    BY ONLY <2>1, InnerBlocks
  <2> QED BY <2>2 DEF s, free, meta
<1>14. req.New_Blocks = new /\ DOMAIN req.New_Blocks = Level
  BY <1>3 DEF req, new
<1>16. Tree_Use(v, at, req, req.New_Blocks, free, meta) = Used(v, sb)
  BY <1>3, <1>11, <1>14 DEF Tree_Use, Taken, Used, free, meta
<1>17. Asks(req, bl, free, meta)
  BY <1>2, <1>12, <1>13, <1>14, <1>16 DEF Asks
<1> QED BY <1>4, <1>17 DEF req, bl, free, meta

(* A rekeying, too.                                                        *)
LEMMA RekeyAsks ==
  ASSUME IInv, job.phase = "Rekey_VBA", NEW snap, NEW walk, walk = Type_1_Node_Walk(snap, rkg.VBA),
         rkg.First_Snapshot => snap = Current_Tree
  PROVE  /\ Asks(Alloc_Request(snap, walk), blocks, sb.Free, sb.Meta)
         /\ Free_Root_OK(sb.Free) /\ Meta_Root_OK(sb.Meta)
<1> DEFINE req == Alloc_Request(snap, walk)
           vba == rkg.VBA
           t   == Current_Tree
           v   == VBD_Use(t)
           at  == Way_To(vba)
           s     == sb
           free  == s.Free
           meta  == s.Meta
           bl    == blocks
           zeros == Taken(req, req.New_Blocks)
<1>1. /\ Free_Root_OK(free) /\ Meta_Root_OK(meta) /\ DOMAIN bl = PBA /\ VBD_OK(t)
      /\ Inj(Used(v, s)) /\ Blocks(Used(v, s)) = PBA /\ vba \in VBA
  BY DEF IInv, SB_OK, SB_Form, Once, Used_VBD, Rekeying_OK
<1>2. /\ req.Old_Blocks = walk /\ DOMAIN req.New_Blocks = Level
      /\ rkg.First_Snapshot => /\ req.Tag = "Rkg_Curr_Gen_Blks"
                               /\ \A l \in Level : req.New_Blocks[l] = 0
      /\ ~rkg.First_Snapshot => req.Tag = "Rkg_Old_Gen_Blks"
  BY AllocRequestForm
<1>3. DOMAIN v = V_Place /\ v = [p \in V_Place |-> v[p]]
  BY VBDUseForm
<1>4. Way(at)
  BY <1>1, OnTheWay
<1>5. rkg.First_Snapshot => \A l \in Level : walk[l].PBA = v[at[l]]
  <2> SUFFICES ASSUME rkg.First_Snapshot PROVE \A l \in Level : walk[l].PBA = v[at[l]]
    OBVIOUS
  <2> HIDE DEF vba, t
  <2>1. walk = Type_1_Node_Walk(t, vba)
    BY DEF vba, t
  <2> QED BY <1>1, <2>1, ContentOnTheWay
<1> HIDE DEF req, v, at, free, meta, bl, t, vba
<1>6. Request_For(req, v, at)
  BY <1>2, <1>4, <1>5 DEF Request_For
<1>7. \A l \in Level : zeros[l] = 0
  BY <1>2 DEF Taken
<1> HIDE DEF zeros
<1>8. V_Use(v, at, zeros) = v
  <2>1. \A l \in Level : zeros[l] \in {0, v[at[l]]}
    BY <1>7
  <2> QED BY ONLY <1>3, <1>4, <2>1, VUseSame
<1>9. Tree_Use(v, at, req, req.New_Blocks, free, meta) = Used(v, s)
  BY <1>8 DEF Tree_Use, Used, zeros, free, meta
<1>10. Within(free, meta, Inner(free, meta))
  <2>1. Free_Root_OK(s.Free) /\ Meta_Root_OK(s.Meta)
    BY <1>1 DEF free, meta
  <2> HIDE DEF s
  <2>2. Within(s.Free, s.Meta, Inner(s.Free, s.Meta))
    BY ONLY <1>1, <1>3, <2>1, InnerBlocks
  <2> QED BY <2>2 DEF free, meta
<1>11. Asks(req, bl, free, meta)
  BY <1>1, <1>2, <1>6, <1>9, <1>10 DEF Asks
<1> QED BY <1>1, <1>11 DEF req, bl, free, meta

(* The blocks that a request to the free tree may write are in use, and    *)
(* not those of the leaves of the free tree.                               *)
LEMMA LeafBlocks ==
  ASSUME NEW s, NEW v, Free_Root_OK(s.Free), Meta_Root_OK(s.Meta),
         DOMAIN v = V_Place, Inj(Used(v, s))
  PROVE  /\ Inner(s.Free, s.Meta) \subseteq Blocks(Used(v, s))
         /\ \A i, j \in 0 .. Free_Degree - 1 :
              s.Free.Hash[i].PBA # 0 /\ s.Free.Hash[i].Hash[j].PBA # 0 =>
                s.Free.Hash[i].Hash[j].PBA \notin Inner(s.Free, s.Meta)
<1> DEFINE free  == s.Free
           meta  == s.Meta
           f     == Root_Use(Free_Degree, free, 0)
           m     == Root_Use(Meta_Degree, meta, 0)
           g     == All_Use(v, f, m)
           inner == Inner(free, meta)
           d     == Free_Degree
           leaf(i, j) == Leaf_PBA(free.Hash, i, j)
<1>1. g = Used(v, s)
  BY DEF Used
<1>2. /\ f[Root_Place] = free.PBA /\ Root_Place \in T2_Place
      /\ \A i \in 0 .. d - 1 : f[Node_Place(i)] = free.Hash[i].PBA /\ Node_Place(i) \in T2_Place
      /\ \A i, j \in 0 .. d - 1 : free.Hash[i].PBA # 0 => f[Leaf_Place(i, j)] = leaf(i, j)
      /\ \A i, j \in 0 .. d - 1 :
           /\ Leaf_Place(i, j) \in T2_Place /\ Leaf_Place(i, j) # Root_Place
           /\ \A k \in 0 .. d - 1 : Leaf_Place(i, j) # Node_Place(k)
  <2> DEFINE pba     == free.PBA
             entries == free.Hash
             caller  == 0
  <2>1. f = T2_Use(d, pba, entries, caller) /\ d \in Nat
    BY Numbers DEF Root_Use
  <2> HIDE DEF f, pba, entries, caller, d
  <2>2. f[Root_Place] = pba /\ Root_Place \in T2_Place
    BY ONLY <2>1, T2UseAt
  <2>3. \A i \in 0 .. d - 1 : f[Node_Place(i)] = entries[i].PBA /\ Node_Place(i) \in T2_Place
    BY ONLY <2>1, T2UseAt
  <2>4. \A i, j \in 0 .. d - 1 : entries[i].PBA # 0 => f[Leaf_Place(i, j)] = Leaf_PBA(entries, i, j)
    BY ONLY <2>1, T2UseAt
  <2>5. \A i, j \in 0 .. d - 1 :
           /\ Leaf_Place(i, j) \in T2_Place /\ Leaf_Place(i, j) # Root_Place
           /\ \A k \in 0 .. d - 1 : Leaf_Place(i, j) # Node_Place(k)
    BY ONLY <2>1, T2UseAt
  <2> QED BY <2>2, <2>3, <2>4, <2>5 DEF pba, entries, d
<1> HIDE DEF g, f, m, free, meta, leaf, d
<1>3. /\ DOMAIN g = Place
      /\ \A p \in T2_Place : g[Free_Place(p)] = f[p] /\ g[Meta_Place(p)] = m[p]
  BY AllUse DEF g
<1>4. /\ \A p \in T2_Place : Free_Place(p) \in Place /\ Meta_Place(p) \in Place
      /\ \A p, q : Free_Place(p) # Meta_Place(q)
      /\ \A p, q : Free_Place(p) = Free_Place(q) => p = q
  BY Places
<1>5. Inj(g)
  BY <1>1
<1>6. ASSUME NEW p \in inner PROVE p \in Blocks(g)
  <2>1. CASE \E q \in T2_Place : p = m[q]
    BY <2>1, <1>3, <1>4, <1>6 DEF Blocks, Inner
  <2>2. CASE p = free.PBA \/ \E i \in 0 .. d - 1 : p = free.Hash[i].PBA
    BY <2>2, <1>2, <1>3, <1>4, <1>6 DEF Blocks, Inner
  <2> QED BY <1>6, <2>1, <2>2 DEF Inner, m, d
<1>7. ASSUME NEW i \in 0 .. d - 1, NEW j \in 0 .. d - 1, free.Hash[i].PBA # 0, leaf(i, j) # 0
      PROVE  leaf(i, j) \notin inner
  <2> DEFINE x == Leaf_Place(i, j)
  <2>1. /\ x \in T2_Place /\ f[x] = leaf(i, j) /\ x # Root_Place
        /\ \A k \in 0 .. d - 1 : x # Node_Place(k)
    BY <1>2, <1>7
  <2> HIDE DEF x
  <2>2. g[Free_Place(x)] = leaf(i, j) /\ Free_Place(x) \in Place
    BY <2>1, <1>3, <1>4
  <2>3. \A q \in T2_Place : leaf(i, j) # m[q]
    BY <2>2, <1>3, <1>4, <1>5, <1>7 DEF Inj
  <2>4. \A q \in T2_Place : q # x => leaf(i, j) # f[q]
    BY <2>2, <1>3, <1>4, <1>5, <1>7 DEF Inj
  <2>5. leaf(i, j) # free.PBA /\ \A k \in 0 .. d - 1 : leaf(i, j) # free.Hash[k].PBA
    BY <2>1, <2>4, <1>2
  <2> QED BY <2>3, <2>5 DEF Inner, m, d
<1>8. inner \subseteq Blocks(g)
  BY <1>6
<1>9. \A i, j \in 0 .. d - 1 : free.Hash[i].PBA # 0 /\ leaf(i, j) # 0 => leaf(i, j) \notin inner
  BY <1>7
<1> QED BY <1>1, <1>8, <1>9 DEF free, meta, leaf, d, Leaf_PBA

(* A branch of the virtual block device is written: the trees for the      *)
(* allocation stay readable if its blocks are not theirs.                  *)
LEMMA BranchWritten ==
  ASSUME NEW b0, NEW free, NEW meta, NEW old, NEW gen, NEW new, NEW content, NEW L,
         Free_Root_OK(free), Meta_Root_OK(meta), Trees_OK(b0, free, meta, old, gen),
         Inner(free, meta) \subseteq PBA, \A l \in L : new[l] \notin Inner(free, meta)
  PROVE  Trees_OK(Branch_Written(b0, new, content, L), free, meta, old, gen)
<1> DEFINE b == Branch_Written(b0, new, content, L)
<1>1. \A p \in Inner(free, meta) : b[p] = b0[p]
  BY DEF Branch_Written
<1> HIDE DEF b
<1>2. Meta_Degree \in Nat /\ Free_Root_OK(free) /\ Meta_Root_OK(meta)
      /\ Trees_OK(b0, free, meta, old, gen)
  BY Numbers
<1>3. Trees_OK(b, free, meta, old, gen)
  BY ONLY <1>1, <1>2, TreesUntouched
<1> QED BY <1>3 DEF b

(* The trees of the allocation can be read, and the free tree that was     *)
(* secured last, too.                                                      *)
Trees_Inv ==
  /\ Trees_OK(blocks, sb.Free, sb.Meta, secured.Free, cur_gen)
  /\ job.phase = "Free_Tree" => job.req.Gen = cur_gen

(* Steps that change none of them.                                         *)
LEMMA TreesUnchanged ==
  Trees_Inv /\ UNCHANGED <<blocks, sb, cur_gen, job, secured>> => Trees_Inv'
  BY DEF Trees_Inv

(* A write begins.                                                         *)
LEMMA SCDKeepsTrees ==
  ASSUME Trees_Inv, NEW vba, Execute_SCD(vba)
  PROVE  Trees_Inv'
<1> DEFINE walk == Type_1_Node_Walk(Curr(sb), vba)
           new  == [l \in Level |-> IF In_Place(walk[l], l) THEN walk[l].PBA ELSE 0]
           req  == FT_Request(vba, walk, new, cur_gen, "Pool_VBD")
           ph   == IF \E l \in Level : new[l] = 0 THEN "Free_Tree" ELSE "Write_Back"
<1>1. \/ Raise_Program_Error("hash")
      \/ job' = [phase |-> ph, req |-> req] /\ UNCHANGED <<blocks, sb, cur_gen, secured>>
  BY DEF Execute_SCD
<1>2. CASE Raise_Program_Error("hash")
  BY <1>2, TreesUnchanged DEF Raise_Program_Error
<1>3. CASE job' = [phase |-> ph, req |-> req] /\ UNCHANGED <<blocks, sb, cur_gen, secured>>
  <2>1. req.Gen = cur_gen
    <3> HIDE DEF walk, new
    <3> QED BY DEF FT_Request
  <2> HIDE DEF req, ph
  <2> QED BY <1>3, <2>1 DEF Trees_Inv
<1> QED BY <1>1, <1>2, <1>3

(* A write gets its blocks.                                                *)
LEMMA FreeTreeKeepsTrees ==
  ASSUME IInv, Trees_Inv, Execute_Free_Tree
  PROVE  Trees_Inv' /\ error' # "hash"
<1>1. PICK ft \in {Alloc(job.req)} :
         /\ job.phase = "Free_Tree" /\ error = "none"
         /\ \/ ft.error # "none" /\ Raise_Program_Error(ft.error)
            \/ /\ ft.error = "none"
               /\ blocks' = ft.blocks
               /\ sb' = [sb EXCEPT !.Free = ft.node, !.Meta = ft.meta]
               /\ job' = [job EXCEPT !.phase = "Write_Back", !.req.New_Blocks = ft.new]
               /\ UNCHANGED <<cur_gen, rkg, secured, error, count>>
  BY DEF Execute_Free_Tree, Ready
<1> DEFINE free  == sb.Free
           meta  == sb.Meta
           snaps == sb.Snapshots
           last  == sb.Last_Secured_Generation
           req   == job.req
           old   == secured.Free
<1>2. ft = Free_Tree_Alloc(blocks, free, meta, snaps, last, req)
  BY DEF Alloc
<1>3. /\ Asks(req, blocks, free, meta) /\ Free_Root_OK(free) /\ Meta_Root_OK(meta)
      /\ Trees_OK(blocks, free, meta, old, cur_gen) /\ req.Gen = cur_gen
  BY <1>1, WriteAsks DEF Trees_Inv
<1> HIDE DEF free, meta, snaps, last, req, old
<1>4. ft.error # "hash"
      /\ (ft.error = "none" => Answered(blocks, free, meta, old, cur_gen, snaps, last, req, ft))
  BY ONLY <1>2, <1>3, AllocTrees
<1>5. CASE ft.error # "none" /\ Raise_Program_Error(ft.error)
  BY <1>4, <1>5, TreesUnchanged DEF Raise_Program_Error
<1>6. CASE /\ ft.error = "none"
           /\ blocks' = ft.blocks
           /\ sb' = [sb EXCEPT !.Free = ft.node, !.Meta = ft.meta]
           /\ job' = [job EXCEPT !.phase = "Write_Back", !.req.New_Blocks = ft.new]
           /\ UNCHANGED <<cur_gen, rkg, secured, error, count>>
  <2>1. DOMAIN sb = SB_Fields /\ DOMAIN job = {"phase", "req"}
    BY <1>1 DEF IInv, SB_OK, SB_Form, Write_OK
  <2>2. sb'.Free = ft.node /\ sb'.Meta = ft.meta /\ job'.phase = "Write_Back"
    BY <1>6, <2>1 DEF SB_Fields
  <2>3. Trees_OK(ft.blocks, ft.node, ft.meta, old, cur_gen)
    BY <1>4, <1>6 DEF Answered
  <2> QED BY <1>1, <1>6, <2>2, <2>3 DEF Trees_Inv, old
<1> QED BY <1>1, <1>5, <1>6

(* A write is finished.                                                    *)
LEMMA WritebackKeepsTrees ==
  ASSUME IInv, Trees_Inv, Execute_Writeback
  PROVE  Trees_Inv'
<1> DEFINE req     == job.req
           new     == job.req.New_Blocks
           content == Updated_Branch(job.req, Leaf(count.writes + 1, sb.Current_Key))
           t       == Curr(sb)
           at      == Way_To(job.req.VBA)
           v       == V_Use(VBD_Use(t), at, new)
<1>1. /\ job.phase = "Write_Back"
      /\ \/ Raise_Program_Error("snapshots_full")
         \/ /\ \E i, snap : sb' = [sb EXCEPT !.Curr_Snap = i, !.Snapshots[i] = snap]
            /\ blocks' = Branch_Written(blocks, new, content, Level)
            /\ job' = [phase |-> "Idle"]
            /\ UNCHANGED <<cur_gen, secured>>
  BY DEF Execute_Writeback, Ready
<1>2. CASE Raise_Program_Error("snapshots_full")
  BY <1>2, TreesUnchanged DEF Raise_Program_Error
<1>3. CASE /\ \E i, snap : sb' = [sb EXCEPT !.Curr_Snap = i, !.Snapshots[i] = snap]
           /\ blocks' = Branch_Written(blocks, new, content, Level)
           /\ job' = [phase |-> "Idle"]
           /\ UNCHANGED <<cur_gen, secured>>
  <2>1. /\ DOMAIN sb = SB_Fields /\ Free_Root_OK(sb.Free) /\ Meta_Root_OK(sb.Meta)
        /\ Inj(Used(v, sb)) /\ Blocks(Used(v, sb)) = PBA
    BY <1>1 DEF IInv, Once, Used_VBD, Current_Tree, SB_OK, SB_Form
  <2>2. job.req.VBA \in VBA /\ \A l \in Level : new[l] # 0
    BY <1>1 DEF IInv, Write_OK
  <2>3. sb'.Free = sb.Free /\ sb'.Meta = sb.Meta /\ job'.phase = "Idle"
    BY <1>3, <2>1 DEF SB_Fields
  <2> HIDE DEF content
  <2>4. Way(at)
    BY <2>2, OnTheWay
  <2> HIDE DEF new, t, at
  <2>5. DOMAIN v = V_Place /\ \A l \in Level : at[l] \in V_Place /\ v[at[l]] = new[l]
    BY <2>2, <2>4, VUseAt DEF Way
  <2> HIDE DEF v
  <2> DEFINE s     == sb
             free  == s.Free
             meta  == s.Meta
             old   == secured.Free
             bl    == blocks
  <2>6. /\ Free_Root_OK(s.Free) /\ Meta_Root_OK(s.Meta) /\ Inj(Used(v, s))
        /\ Blocks(Used(v, s)) = PBA /\ DOMAIN v = V_Place
    BY <2>1, <2>5
  <2>7. Trees_OK(bl, free, meta, old, cur_gen)
    BY DEF Trees_Inv
  <2> HIDE DEF s
  <2>8. Inner(s.Free, s.Meta) \subseteq Blocks(Used(v, s))
    BY ONLY <2>6, LeafBlocks
  <2>9. \A p \in V_Place : v[p] # 0 => v[p] \notin Inner(s.Free, s.Meta)
    BY ONLY <2>6, InnerBlocks
  <2>10. /\ Inner(free, meta) \subseteq PBA /\ \A l \in Level : new[l] \notin Inner(free, meta)
         /\ Free_Root_OK(free) /\ Meta_Root_OK(meta)
    BY <2>2, <2>5, <2>6, <2>8, <2>9
  <2> HIDE DEF free, meta, old, bl
  <2> DEFINE L == Level
  <2>12. \A l \in L : new[l] \notin Inner(free, meta)
    BY <2>10
  <2> HIDE DEF L
  <2>11. Trees_OK(Branch_Written(bl, new, content, L), free, meta, old, cur_gen)
    BY ONLY <2>7, <2>10, <2>12, BranchWritten
  <2> QED BY <1>3, <2>3, <2>11 DEF Trees_Inv, s, free, meta, old, bl, L
<1> QED BY <1>1, <1>2, <1>3

(* A request for older snapshots gives blocks of leaves that stay leaves.  *)
LEMMA GivenStayLeafs ==
  ASSUME NEW e0, NEW e, NEW new, NEW snaps, NEW last, NEW req, NEW L,
         Leafs_Changed(0, e0, e, new, snaps, last, req), req.Tag = "Rkg_Old_Gen_Blks",
         T2_Entries(Free_Degree, e0), L \subseteq Level,
         \A l \in L : req.New_Blocks[l] = 0 /\ new[l] # 0
  PROVE  \A l \in L : \E i, j \in 0 .. Free_Degree - 1 :
           e[i].PBA # 0 /\ e[i].Hash[j].PBA # 0 /\ new[l] = e[i].Hash[j].PBA
<1> SUFFICES ASSUME NEW l \in L
             PROVE  \E i, j \in 0 .. Free_Degree - 1 :
                      e[i].PBA # 0 /\ e[i].Hash[j].PBA # 0 /\ new[l] = e[i].Hash[j].PBA
  OBVIOUS
<1>1. PICK i, j \in 0 .. Free_Degree - 1 : Gave(e0, e, new, snaps, last, req, i, j, l)
  BY DEF Leafs_Changed
<1>2. /\ e0[i].PBA # 0 /\ e[i].Hash[j] = Exchange_Type_2_Leaf(e0[i].Hash[j], l, req)
      /\ new[l] = e0[i].Hash[j].PBA
  BY <1>1 DEF Gave
<1>3. "PBA" \in DOMAIN e0[i].Hash[j]
  BY <1>2 DEF T2_Entries
<1> DEFINE entry == e0[i].Hash[j]
           entry2 == e[i].Hash[j]
<1>4. "PBA" \in DOMAIN entry /\ entry2 = Exchange_Type_2_Leaf(entry, l, req)
  BY <1>2, <1>3
<1> HIDE DEF entry, entry2
<1>5. entry2.PBA = entry.PBA
  BY <1>4, ExchangedLeaf
<1>6. new[l] = entry.PBA /\ new[l] # 0
  BY <1>2 DEF entry
<1>7. e[i].PBA # 0
  BY <1>2 DEF Leafs_Changed
<1> QED BY <1>5, <1>6, <1>7 DEF entry2

(* An address is rekeyed in a snapshot: its nodes are not written to       *)
(* blocks of the trees for the allocation.                                 *)
LEMMA RekeyAnswered ==
  ASSUME IInv, Trees_Inv, job.phase = "Rekey_VBA",
         NEW snap, NEW walk, walk = Type_1_Node_Walk(snap, rkg.VBA),
         rkg.First_Snapshot => snap = Current_Tree,
         NEW ft, ft = Alloc_For(snap, walk)
  PROVE  /\ ft.error # "hash"
         /\ ft.error = "none" => Trees_OK(ft.blocks, ft.node, ft.meta, secured.Free, cur_gen)
         /\ ft.error = "none" /\ ~(Min_Lvl_Idx(walk) > Max_Level) =>
              LET req == Alloc_Request(snap, walk)
              IN Leafs_Changed(0, sb.Free.Hash, ft.node.Hash, ft.new, sb.Snapshots,
                               sb.Last_Secured_Generation, req)
<1> DEFINE free  == sb.Free
           meta  == sb.Meta
           snaps == sb.Snapshots
           last  == sb.Last_Secured_Generation
           req   == Alloc_Request(snap, walk)
           old   == secured.Free
           gen   == cur_gen
           bl    == blocks
<1>1. CASE Min_Lvl_Idx(walk) > Max_Level
  <2>1. /\ ft.node = free /\ ft.meta = meta /\ ft.blocks = bl /\ ft.error = "none"
    BY <1>1 DEF Alloc_For
  <2>2. ft.error # "hash"
    BY <2>1
  <2> QED BY <1>1, <2>1, <2>2 DEF Trees_Inv
<1>2. CASE ~(Min_Lvl_Idx(walk) > Max_Level)
  <2>1. ft = Free_Tree_Alloc(bl, free, meta, snaps, last, req)
    BY <1>2 DEF Alloc_For, Alloc
  <2>2. Asks(req, bl, free, meta) /\ Free_Root_OK(free) /\ Meta_Root_OK(meta)
    BY RekeyAsks
  <2>3. req.Gen = gen
    <3> DEFINE new == [l \in Level |-> IF l >= Min_Lvl_Idx(walk) THEN 0 ELSE rkg.New_PBAs[l]]
               tag == IF rkg.First_Snapshot THEN "Rkg_Curr_Gen_Blks" ELSE "Rkg_Old_Gen_Blks"
               fg  == Free_Gen_For(snap)
               vba == rkg.VBA
    <3>1. req = FT_Request(vba, walk, new, fg, tag)
      BY DEF Alloc_Request
    <3> HIDE DEF new, tag, fg, vba, req
    <3> QED BY <3>1 DEF FT_Request
  <2>4. Trees_OK(bl, free, meta, old, gen)
    BY DEF Trees_Inv
  <2> HIDE DEF free, meta, snaps, last, req, old, gen, bl
  <2>5. ft.error # "hash"
        /\ (ft.error = "none" => Answered(bl, free, meta, old, gen, snaps, last, req, ft))
    BY ONLY <2>1, <2>2, <2>3, <2>4, AllocTrees
  <2>6. ft.error = "none" =>
          /\ Trees_OK(ft.blocks, ft.node, ft.meta, old, gen)
          /\ Leafs_Changed(0, free.Hash, ft.node.Hash, ft.new, snaps, last, req)
    BY <2>5 DEF Answered, Trees_Changed
  <2> QED BY <2>5, <2>6 DEF old, gen, free, snaps, last, req
<1> QED BY <1>1, <1>2

(* The blocks given for the current tree are those of its nodes.           *)
LEMMA CurrentNotInner ==
  ASSUME IInv, job.phase = "Rekey_VBA", rkg.First_Snapshot,
         NEW t, t = Current_Tree, NEW walk, walk = Type_1_Node_Walk(t, rkg.VBA),
         Readable(walk, Levels_Read(walk)),
         NEW ft, ft = Alloc_For(t, walk), ft.error = "none"
  PROVE  /\ Free_Root_OK(ft.node) /\ Meta_Root_OK(ft.meta)
         /\ Inner(ft.node, ft.meta) \subseteq PBA
         /\ \A l \in Level : ft.new[l] \notin Inner(ft.node, ft.meta)
<1> DEFINE vba == rkg.VBA
           at  == Way_To(vba)
           new == ft.new
           v   == V_Use(VBD_Use(t), at, new)
           s   == [Free |-> ft.node, Meta |-> ft.meta]
<1>1. /\ Free_Root_OK(ft.node) /\ Meta_Root_OK(ft.meta)
      /\ \A l \in Level : ft.new[l] # 0
      /\ Inj(All_Use(V_Use(VBD_Use(t), Way_To(rkg.VBA), ft.new),
                     Root_Use(Free_Degree, ft.node, 0), Root_Use(Meta_Degree, ft.meta, 0)))
      /\ Blocks(All_Use(V_Use(VBD_Use(t), Way_To(rkg.VBA), ft.new),
                        Root_Use(Free_Degree, ft.node, 0),
                        Root_Use(Meta_Degree, ft.meta, 0))) = PBA
  BY CurrentRekeyed
<1>2. vba \in VBA
  BY DEF IInv, Rekeying_OK
<1>3. Way(at)
  BY <1>2, OnTheWay
<1>4. s.Free = ft.node /\ s.Meta = ft.meta
  OBVIOUS
<1> HIDE DEF s
<1>5. Inj(Used(v, s)) /\ Blocks(Used(v, s)) = PBA
  BY <1>1, <1>4 DEF Used
<1>6. \A l \in Level : new[l] # 0
  BY <1>1
<1> HIDE DEF new, at
<1>7. DOMAIN v = V_Place /\ \A l \in Level : at[l] \in V_Place /\ v[at[l]] = new[l]
  BY <1>3, <1>6, VUseAt DEF Way
<1> HIDE DEF v
<1>8. Free_Root_OK(s.Free) /\ Meta_Root_OK(s.Meta) /\ DOMAIN v = V_Place
  BY <1>1, <1>4, <1>7
<1>9. Inner(s.Free, s.Meta) \subseteq Blocks(Used(v, s))
  BY ONLY <1>5, <1>8, LeafBlocks
<1>10. \A p \in V_Place : v[p] # 0 => v[p] \notin Inner(s.Free, s.Meta)
  BY ONLY <1>5, <1>8, InnerBlocks
<1>11. \A l \in Level : new[l] \notin Inner(ft.node, ft.meta)
  BY <1>4, <1>6, <1>7, <1>10
<1>12. Inner(ft.node, ft.meta) \subseteq PBA
  BY <1>4, <1>5, <1>9
<1> QED BY <1>1, <1>11, <1>12 DEF new

(* Those given for an older snapshot are leaves of the free tree.          *)
LEMMA OlderNotInner ==
  ASSUME IInv, job.phase = "Rekey_VBA", ~rkg.First_Snapshot,
         NEW snap, NEW walk, NEW ft, ft = Alloc_For(snap, walk), ft.error = "none",
         NEW L, L \subseteq Level, L # {} => ~(Min_Lvl_Idx(walk) > Max_Level),
         \A l \in L : l >= Min_Lvl_Idx(walk),
         ~(Min_Lvl_Idx(walk) > Max_Level) =>
            Leafs_Changed(0, sb.Free.Hash, ft.node.Hash, ft.new, sb.Snapshots,
                          sb.Last_Secured_Generation, Alloc_Request(snap, walk))
  PROVE  /\ Free_Root_OK(ft.node) /\ Meta_Root_OK(ft.meta)
         /\ Inner(ft.node, ft.meta) \subseteq PBA
         /\ \A l \in L : ft.new[l] \notin Inner(ft.node, ft.meta)
<1> DEFINE vba == rkg.VBA
           at  == Way_To(vba)
           new == ft.new
           v   == VBD_Use(Current_Tree)
           s   == [Free |-> ft.node, Meta |-> ft.meta]
           req == Alloc_Request(snap, walk)
<1>1. /\ Free_Root_OK(ft.node) /\ Meta_Root_OK(ft.meta)
      /\ Inj(All_Use(v, Root_Use(Free_Degree, ft.node, 0), Root_Use(Meta_Degree, ft.meta, 0)))
      /\ Blocks(All_Use(v, Root_Use(Free_Degree, ft.node, 0),
                        Root_Use(Meta_Degree, ft.meta, 0))) = PBA
  BY OlderRekeyed
<1>4. s.Free = ft.node /\ s.Meta = ft.meta
  OBVIOUS
<1> HIDE DEF s
<1>5. Inj(Used(v, s)) /\ Blocks(Used(v, s)) = PBA
  BY <1>1, <1>4 DEF Used
<1>7. DOMAIN v = V_Place
  BY VBDUseForm
<1>8. Free_Root_OK(s.Free) /\ Meta_Root_OK(s.Meta) /\ DOMAIN v = V_Place
  BY <1>1, <1>4, <1>7
<1>9. Inner(s.Free, s.Meta) \subseteq Blocks(Used(v, s))
      /\ \A i, j \in 0 .. Free_Degree - 1 :
              s.Free.Hash[i].PBA # 0 /\ s.Free.Hash[i].Hash[j].PBA # 0 =>
                s.Free.Hash[i].Hash[j].PBA \notin Inner(s.Free, s.Meta)
  <2> HIDE DEF v
  <2> QED BY ONLY <1>5, <1>8, LeafBlocks
<1>10. Inner(ft.node, ft.meta) \subseteq PBA
  BY <1>4, <1>5, <1>9
<1>11. CASE Min_Lvl_Idx(walk) > Max_Level
  BY <1>1, <1>10, <1>11
<1>12. CASE ~(Min_Lvl_Idx(walk) > Max_Level)
  <2>1. /\ DOMAIN req.New_Blocks = Level /\ req.Tag = "Rkg_Old_Gen_Blks"
        /\ req.VBA = vba
    BY AllocRequestForm
  <2>2. \A l \in L : req.New_Blocks[l] = 0
    <3> DEFINE zn  == [l \in Level |-> IF l >= Min_Lvl_Idx(walk) THEN 0 ELSE rkg.New_PBAs[l]]
               tag == IF rkg.First_Snapshot THEN "Rkg_Curr_Gen_Blks" ELSE "Rkg_Old_Gen_Blks"
               fg  == Free_Gen_For(snap)
    <3>1. req = FT_Request(vba, walk, zn, fg, tag)
      BY DEF Alloc_Request
    <3>2. \A l \in L : zn[l] = 0
      OBVIOUS
    <3> HIDE DEF zn, tag, fg, vba, req
    <3>3. req.New_Blocks = zn
      BY <3>1 DEF FT_Request
    <3> QED BY <3>2, <3>3
  <2>3. ft = Alloc(req)
    BY <1>12 DEF Alloc_For
  <2>4. Way(at)
    BY OnTheWay DEF IInv, Rekeying_OK
  <2>5. Leafs_Changed(0, sb.Free.Hash, ft.node.Hash, new, sb.Snapshots,
                      sb.Last_Secured_Generation, req)
    BY <1>12
  <2> HIDE DEF req, at, v
  <2>6. Request_For(req, v, at)
    BY <2>1, <2>4 DEF Request_For
  <2>7. \A l \in Level : Taken(req, req.New_Blocks)[l] = 0
    BY <2>1 DEF Taken
  <2>8. v = VBD_Use(Current_Tree) /\ IInv /\ job.phase = "Rekey_VBA" /\ ft.error = "none"
    BY DEF v
  <2>9. \A l \in Level : ft.new[l] # 0
    BY ONLY <2>1, <2>3, <2>6, <2>7, <2>8, AllocForRekeying
  <2>10. T2_Entries(Free_Degree, sb.Free.Hash)
    BY DEF IInv, SB_OK, SB_Form, Free_Root_OK
  <2> DEFINE e0    == sb.Free.Hash
             e     == ft.node.Hash
             snaps == sb.Snapshots
             last  == sb.Last_Secured_Generation
  <2>11. /\ Leafs_Changed(0, e0, e, new, snaps, last, req) /\ req.Tag = "Rkg_Old_Gen_Blks"
         /\ T2_Entries(Free_Degree, e0) /\ L \subseteq Level
         /\ \A l \in L : req.New_Blocks[l] = 0 /\ new[l] # 0
    BY <2>1, <2>2, <2>5, <2>9, <2>10
  <2> HIDE DEF e0, e, snaps, last, new
  <2>12. \A l \in L : \E i, j \in 0 .. Free_Degree - 1 :
           e[i].PBA # 0 /\ e[i].Hash[j].PBA # 0 /\ new[l] = e[i].Hash[j].PBA
    BY ONLY <2>11, GivenStayLeafs
  <2>13. \A l \in L : new[l] \notin Inner(ft.node, ft.meta)
    BY <1>4, <1>9, <2>12 DEF e
  <2> QED BY <1>1, <1>10, <2>13 DEF new
<1> QED BY <1>11, <1>12

(* The greatest of some numbers up to n.                                   *)
LEMMA MaxIsElement ==
  ASSUME NEW n \in Nat, NEW S \in SUBSET (0 .. n), S # {}
  PROVE  Max(S) \in S
<1>0. \A x \in S : x \in Int /\ x <= n /\ 0 <= x
  OBVIOUS
<1> DEFINE Greatest == \E x \in S : \A y \in S : x >= y
           T == {m \in Nat : (\E x \in S : x + m >= n) => Greatest}
<1>1. 0 \in T
  BY DEF Greatest
<1>2. ASSUME NEW m \in Nat, m \in T PROVE m + 1 \in T
  <2> SUFFICES ASSUME NEW x \in S, x + (m + 1) >= n PROVE Greatest
    OBVIOUS
  <2>1. CASE \E u \in S : u + m >= n
    BY <1>2, <2>1
  <2>2. CASE \A u \in S : ~(u + m >= n)
    <3>1. \A y \in S : x >= y
      BY <2>2
    <3> QED BY <3>1
  <2> QED BY <2>1, <2>2
<1> HIDE DEF T
<1>3. Nat \subseteq T
  BY <1>1, <1>2, SetInduction
<1>4. n \in T
  BY <1>3
<1>7. \E x \in S : x + n >= n
  <2>1. PICK x \in S : TRUE
    OBVIOUS
  <2>2. x + n >= n
    BY <1>0
  <2> QED BY <2>2
<1>5. Greatest
  BY <1>4, <1>7 DEF T
<1>6. (CHOOSE x \in S : \A y \in S : x >= y) \in S
  BY <1>5
<1> QED BY <1>6 DEF Max

(* An address is rekeyed in a snapshot.                                    *)
LEMMA RekeySnapshotKeepsTrees ==
  ASSUME IInv, Trees_Inv, Rekey_Snapshot
  PROVE  Trees_Inv'
<1> DEFINE i    == rkg.Snapshot_Idx
           snap == rkg.Snapshots[rkg.Snapshot_Idx]
           walk == Type_1_Node_Walk(snap, rkg.VBA)
           L    == Levels_Read(walk)
<1>1. /\ job.phase = "Rekey_VBA"
      /\ \/ Raise_Program_Error("hash")
         \/ /\ Readable(walk, L)
            /\ \E ft \in {Alloc_For(snap, walk)} :
                 \/ Raise_Program_Error(ft.error)
                 \/ /\ ft.error = "none"
                    /\ \E content \in {Rekeyed_Branch(walk, ft.new)} :
                         Rekeyed(i, walk, ft, content)
  BY DEF Rekey_Snapshot, Ready
<1>2. CASE Raise_Program_Error("hash")
  BY <1>2, TreesUnchanged DEF Raise_Program_Error
<1>3. CASE /\ Readable(walk, L)
           /\ \E ft \in {Alloc_For(snap, walk)} :
                \/ Raise_Program_Error(ft.error)
                \/ /\ ft.error = "none"
                   /\ \E content \in {Rekeyed_Branch(walk, ft.new)} :
                        Rekeyed(i, walk, ft, content)
  <2>1. PICK ft \in {Alloc_For(snap, walk)} :
          \/ Raise_Program_Error(ft.error)
          \/ /\ ft.error = "none"
             /\ \E content \in {Rekeyed_Branch(walk, ft.new)} : Rekeyed(i, walk, ft, content)
    BY <1>3
  <2>2. CASE Raise_Program_Error(ft.error)
    BY <2>2, TreesUnchanged DEF Raise_Program_Error
  <2>3. CASE /\ ft.error = "none"
             /\ \E content \in {Rekeyed_Branch(walk, ft.new)} : Rekeyed(i, walk, ft, content)
    <3> DEFINE content == Rekeyed_Branch(walk, ft.new)
               ph == IF {k \in Valid_Snaps(rkg.Snapshots) :
                           rkg.Snapshots[k].Gen < rkg.Snapshots[i].Gen} = {}
                     THEN "VBA_Rekeyed" ELSE "Rekey_VBA"
               free == ft.node
               meta == ft.meta
               new  == ft.new
               bl   == ft.blocks
               old  == secured.Free
    <3>1. Rekeyed(i, walk, ft, content) /\ ft.error = "none" /\ ft = Alloc_For(snap, walk)
      BY <2>1, <2>3
    <3>2. /\ blocks' = Branch_Written(bl, new, content, L)
          /\ sb' = [sb EXCEPT !.Free = free, !.Meta = meta]
          /\ job' = [phase |-> ph] /\ cur_gen' = cur_gen /\ secured' = secured
      BY <3>1 DEF Rekeyed
    <3>3. job'.phase # "Free_Tree"
      BY <3>2
    <3> HIDE DEF ph
    <3>4. DOMAIN sb = SB_Fields
      BY DEF IInv, SB_OK, SB_Form
    <3>5. sb'.Free = free /\ sb'.Meta = meta
      BY <3>2, <3>4 DEF SB_Fields
    <3>6. /\ L \subseteq Level /\ \A l \in L : l >= Min_Lvl_Idx(walk)
          /\ L # {} => ~(Min_Lvl_Idx(walk) > Max_Level)
      <4>1. L \subseteq Level /\ \A l \in L : l >= Min_Lvl_Idx(walk)
        BY DEF Levels_Read
      <4>2. ASSUME NEW l \in L PROVE ~(Min_Lvl_Idx(walk) > Max_Level)
        <5>2. l >= Min_Lvl_Idx(walk) /\ l \in Int /\ l <= Max_Level /\ Max_Level \in Int
          BY <4>1, Numbers
        <5>3. Min_Lvl_Idx(walk) \in Int
          <6> DEFINE S == Shared_Levels(walk)
          <6>1. S \subseteq 0 .. Max_Level /\ Max_Level \in Nat
            BY Numbers DEF Shared_Levels
          <6>2. Min_Lvl_Idx(walk) = IF S = {} THEN 0 ELSE Max(S) + 1
            BY DEF Min_Lvl_Idx
          <6> HIDE DEF S
          <6>3. S # {} => Max(S) \in S
            BY ONLY <6>1, MaxIsElement
          <6>8. \A x \in S : x \in Int
            BY <6>1
          <6>4. S # {} => Max(S) \in Int
            BY <6>3, <6>8
          <6>5. CASE S = {}
            BY <6>2, <6>5
          <6>6. CASE S # {}
            <7> DEFINE m == Max(S)
            <7>1. m \in Int /\ Min_Lvl_Idx(walk) = m + 1
              BY <6>2, <6>4, <6>6
            <7> HIDE DEF m
            <7>2. m + 1 \in Int
              BY <7>1
            <7> QED BY <7>1, <7>2
          <6> QED BY <6>5, <6>6
        <5> QED BY <5>2, <5>3
      <4> QED BY <4>1, <4>2
    <3>7. /\ i \in Snapshots_Index /\ (rkg.First_Snapshot => i = sb.Curr_Snap)
          /\ Current_Tree = rkg.Snapshots[sb.Curr_Snap]
      BY <1>1 DEF IInv, Rekeying_OK, Current_Tree
    <3>8. rkg.First_Snapshot => snap = Current_Tree
      BY <3>7, <1>1 DEF IInv, Rekeying_OK
    <3>9. IInv /\ Trees_Inv /\ job.phase = "Rekey_VBA" /\ ft = Alloc_For(snap, walk)
          /\ walk = Type_1_Node_Walk(snap, rkg.VBA) /\ Readable(walk, L)
      BY <1>1, <1>3, <3>1
    <3> HIDE DEF snap, walk, L, content
    <3>10. /\ Trees_OK(bl, free, meta, old, cur_gen)
           /\ ~(Min_Lvl_Idx(walk) > Max_Level) =>
                 Leafs_Changed(0, sb.Free.Hash, ft.node.Hash, ft.new, sb.Snapshots,
                               sb.Last_Secured_Generation, Alloc_Request(snap, walk))
      BY <3>1, <3>8, <3>9, RekeyAnswered
    <3>11. /\ Free_Root_OK(free) /\ Meta_Root_OK(meta) /\ Inner(free, meta) \subseteq PBA
           /\ \A l \in L : new[l] \notin Inner(free, meta)
      <4>1. CASE rkg.First_Snapshot
        <5>1. Readable(walk, Levels_Read(walk))
          BY <3>9 DEF L
        <5>2. /\ Free_Root_OK(ft.node) /\ Meta_Root_OK(ft.meta)
              /\ Inner(ft.node, ft.meta) \subseteq PBA
              /\ \A l \in Level : ft.new[l] \notin Inner(ft.node, ft.meta)
          BY ONLY <4>1, <3>1, <3>8, <3>9, <5>1, CurrentNotInner
        <5> QED BY <3>6, <5>2
      <4>2. CASE ~rkg.First_Snapshot
        BY ONLY <4>2, <3>1, <3>6, <3>9, <3>10, OlderNotInner
      <4> QED BY <4>1, <4>2
    <3> HIDE DEF free, meta, new, bl, old
    <3>12. Trees_OK(Branch_Written(bl, new, content, L), free, meta, old, cur_gen)
      BY ONLY <3>10, <3>11, BranchWritten
    <3> QED BY <3>2, <3>3, <3>5, <3>12 DEF Trees_Inv, old
  <2> QED BY <2>1, <2>2, <2>3
<1> QED BY <1>1, <1>2, <1>3

(* A superblock is secured: what is spare now is that of its generation.   *)
LEMMA SecureKeepsTrees ==
  ASSUME IInv, Trees_Inv, NEW s, DOMAIN s = SB_Fields, s.Free = sb.Free, s.Meta = sb.Meta,
         Secure(s), blocks' = blocks, job'.phase = "Idle"
  PROVE  Trees_Inv'
<1> DEFINE free == sb.Free
           meta == sb.Meta
           gen  == cur_gen
           old  == secured.Free
           bl   == blocks
<1>1. /\ secured' = s /\ sb' = [s EXCEPT !.Last_Secured_Generation = cur_gen]
      /\ cur_gen' = gen + 1
  BY DEF Secure
<1>2. sb'.Free = free /\ sb'.Meta = meta /\ secured'.Free = free
  BY <1>1 DEF SB_Fields
<1>3. Trees_OK(bl, free, meta, old, gen) /\ Free_Root_OK(free)
  BY DEF Trees_Inv, IInv, SB_OK, SB_Form
<1> HIDE DEF free, meta, gen, old, bl
<1>4. Trees_OK(bl, free, meta, free, gen + 1)
  BY <1>3, TreesSecured, Numbers
<1> QED BY <1>1, <1>2, <1>4 DEF Trees_Inv, bl

(* The operations on the superblock for clients.                           *)
LEMMA ClientKeepsTrees ==
  ASSUME IInv, Trees_Inv, NEW s, DOMAIN s = SB_Fields, s.Free = sb.Free, s.Meta = sb.Meta,
         For_Client(s)
  PROVE  Trees_Inv'
<1>1. Secure(s) /\ blocks' = blocks /\ job'.phase = "Idle"
  BY DEF For_Client, Ready
<1> QED BY <1>1, SecureKeepsTrees

(* What is secured for a client has the trees of the superblock.           *)
LEMMA SecureCurrGenTrees ==
  ASSUME IInv, NEW snaps, NEW s, s = Secure_Curr_Gen(snaps)
  PROVE  DOMAIN s = SB_Fields /\ s.Free = sb.Free /\ s.Meta = sb.Meta
<1>1. DOMAIN sb = SB_Fields
  BY DEF IInv, SB_OK, SB_Form
<1> DEFINE kept == Discard_Disposable_Snapshots(snaps, cur_gen, sb.Last_Secured_Generation)
           t == [sb EXCEPT !.Snapshots = kept, !.Last_Secured_Generation = cur_gen]
<1>2. s = Curr_Gen_Set(t)
  BY DEF Secure_Curr_Gen
<1> HIDE DEF kept
<1>3. DOMAIN t = SB_Fields /\ t.Free = sb.Free /\ t.Meta = sb.Meta
  BY <1>1 DEF SB_Fields
<1> HIDE DEF t
<1> QED BY <1>2, <1>3 DEF Curr_Gen_Set, SB_Fields

(* The steps that secure a superblock.                                     *)
LEMMA SecuringKeepsTrees ==
  ASSUME IInv, Trees_Inv,
         \/ Execute_Sync \/ Execute_Create_Snapshot
         \/ \E i \in Snapshots_Index : Execute_Discard_Snapshot(i)
         \/ Execute_Initialize_Rekeying \/ Execute_Rekey_VBA_Completed
  PROVE  Trees_Inv'
<1>1. CASE Execute_Sync
  <2> DEFINE s == Secure_Curr_Gen(sb.Snapshots)
  <2>1. DOMAIN s = SB_Fields /\ s.Free = sb.Free /\ s.Meta = sb.Meta /\ For_Client(s)
    BY <1>1, SecureCurrGenTrees DEF Execute_Sync
  <2> HIDE DEF s
  <2> QED BY <2>1, ClientKeepsTrees
<1>2. CASE Execute_Create_Snapshot
  <2> DEFINE s == Secure_Curr_Gen(sb.Snapshots)
             s2 == [s EXCEPT !.Snapshots[s.Curr_Snap].Keep = TRUE]
  <2>1. DOMAIN s = SB_Fields /\ s.Free = sb.Free /\ s.Meta = sb.Meta /\ For_Client(s2)
    BY <1>2, SecureCurrGenTrees DEF Execute_Create_Snapshot
  <2> HIDE DEF s
  <2>2. DOMAIN s2 = SB_Fields /\ s2.Free = sb.Free /\ s2.Meta = sb.Meta
    BY <2>1 DEF SB_Fields
  <2> HIDE DEF s2
  <2> QED BY <2>1, <2>2, ClientKeepsTrees
<1>3. CASE \E i \in Snapshots_Index : Execute_Discard_Snapshot(i)
  <2>1. PICK i \in Snapshots_Index : Execute_Discard_Snapshot(i)
    BY <1>3
  <2> DEFINE snaps == [sb.Snapshots EXCEPT ![i].Valid = FALSE]
             s == Secure_Curr_Gen(snaps)
  <2>2. For_Client(s)
    BY <2>1 DEF Execute_Discard_Snapshot
  <2> HIDE DEF snaps
  <2>3. DOMAIN s = SB_Fields /\ s.Free = sb.Free /\ s.Meta = sb.Meta
    BY SecureCurrGenTrees
  <2> HIDE DEF s
  <2> QED BY <2>2, <2>3, ClientKeepsTrees
<1>4. CASE Execute_Initialize_Rekeying
  <2> DEFINE t == [sb EXCEPT !.State = "Rekeying", !.Rekeying_VBA = 0,
                             !.Previous_Key = sb.Current_Key, !.Current_Key = sb.Current_Key + 1]
             s == Curr_Gen_Set(t)
  <2>1. For_Client(s)
    BY <1>4 DEF Execute_Initialize_Rekeying
  <2>2. DOMAIN t = SB_Fields /\ t.Free = sb.Free /\ t.Meta = sb.Meta
    BY DEF IInv, SB_OK, SB_Form, SB_Fields
  <2> HIDE DEF t
  <2>3. DOMAIN s = SB_Fields /\ s.Free = sb.Free /\ s.Meta = sb.Meta
    BY <2>2 DEF Curr_Gen_Set, SB_Fields
  <2> HIDE DEF s
  <2> QED BY <2>1, <2>3, ClientKeepsTrees
<1>5. CASE Execute_Rekey_VBA_Completed
  <2> DEFINE rekeyed == [sb EXCEPT !.Snapshots = rkg.Snapshots]
             t == IF sb.Rekeying_VBA < Max_VBA
                  THEN [rekeyed EXCEPT !.Rekeying_VBA = @ + 1]
                  ELSE [rekeyed EXCEPT !.Previous_Key = 0, !.State = "Normal"]
             s == Curr_Gen_Set(t)
  <2>1. Secure(s) /\ blocks' = blocks /\ job'.phase = "Idle"
    BY <1>5 DEF Execute_Rekey_VBA_Completed
  <2>2. DOMAIN rekeyed = SB_Fields /\ rekeyed.Free = sb.Free /\ rekeyed.Meta = sb.Meta
    BY DEF IInv, SB_OK, SB_Form, SB_Fields
  <2> HIDE DEF rekeyed
  <2>3. DOMAIN t = SB_Fields /\ t.Free = sb.Free /\ t.Meta = sb.Meta
    BY <2>2 DEF SB_Fields
  <2> HIDE DEF t
  <2>4. DOMAIN s = SB_Fields /\ s.Free = sb.Free /\ s.Meta = sb.Meta
    BY <2>3 DEF Curr_Gen_Set, SB_Fields
  <2> HIDE DEF s
  <2> QED BY <2>1, <2>4, SecureKeepsTrees
<1> QED BY <1>1, <1>2, <1>3, <1>4, <1>5

(* The rekeying of an address begins.                                      *)
LEMMA SubmitKeepsTrees ==
  ASSUME Trees_Inv, Submit_Rekey_VBA
  PROVE  Trees_Inv'
<1>1. UNCHANGED <<blocks, sb, cur_gen, secured>> /\ job' = [phase |-> "Rekey_VBA"]
  BY DEF Submit_Rekey_VBA
<1> QED BY <1>1 DEF Trees_Inv

(* The inner nodes of a tree of type-2 nodes as the initializers leave it: *)
(* each has a block of its own.                                            *)
T2_Nodes(root) == {root} \cup Child_Nodes(root)

(* They are told apart by their blocks.                                    *)
LEMMA InitialT2Nodes ==
  ASSUME NEW d \in Nat, d > 1, NEW first \in Nat \ {0}, NEW leafs \in Nat \ {0},
         Nr_Of_Nodes(Nr_Of_Nodes(leafs, d), d) = 1,
         NEW root, root = Initial_T2_Tree(first, d, leafs)
  PROVE  /\ root.Gen = 0 /\ \A i \in 0 .. d - 1 : root.Hash[i].Gen = 0
         /\ Leafs_OK(d, root.Hash) /\ DOMAIN root.Hash = 0 .. d - 1
         /\ \A i \in 0 .. d - 1 : root.Hash[i].PBA # 0 => root.Hash[i] \in T2_Nodes(root)
         /\ \A n \in T2_Nodes(root) : n.PBA \in first .. root.PBA
         /\ \A n, k \in T2_Nodes(root) : n.PBA = k.PBA => n = k
<1> DEFINE nodes == Nr_Of_Nodes(leafs, d)
           Entry(i, c) == IF i * d + c < leafs THEN Type_2_Node(first + i * d + c)
                          ELSE Type_2_Node_Invalid
           kids(i) == [c \in 0 .. d - 1 |-> Entry(i, c)]
           hash == [i \in 0 .. d - 1 |->
                      IF i >= nodes THEN Type_1_Node_Invalid
                      ELSE [PBA |-> first + leafs + i, Gen |-> 0, Hash |-> kids(i)]]
           pba  == first + leafs + nodes
           use  == Root_Use(d, root, 0)
<1>1. root = [PBA |-> pba, Gen |-> 0, Hash |-> hash]
  BY DEF Initial_T2_Tree
<1>2. \A i, c \in 0 .. d - 1 : DOMAIN kids(i)[c] = Leaf_Fields
  <2>1. \A x : DOMAIN Type_2_Node(x) = Leaf_Fields
    BY DEF Type_2_Node, Leaf_Fields
  <2>2. DOMAIN Type_2_Node_Invalid = Leaf_Fields
    BY <2>1 DEF Type_2_Node_Invalid
  <2>3. \A i, c \in 0 .. d - 1 : kids(i)[c] = Entry(i, c)
    OBVIOUS
  <2>4. \A i, c : \/ \E x : Entry(i, c) = Type_2_Node(x)
                  \/ Entry(i, c) = Type_2_Node_Invalid
    OBVIOUS
  <2> HIDE DEF Entry
  <2> QED BY <2>1, <2>2, <2>3, <2>4
<1> HIDE DEF kids, nodes, pba
<1>3. /\ root.Gen = 0 /\ root.Hash = hash /\ root.PBA = pba /\ DOMAIN root.Hash = 0 .. d - 1
  BY <1>1
<1>4. \A i \in 0 .. d - 1 : \/ root.Hash[i] = Type_1_Node_Invalid
                            \/ root.Hash[i].Gen = 0 /\ root.Hash[i].Hash = kids(i)
  BY <1>3
<1> HIDE DEF hash
<1>5. \A i \in 0 .. d - 1 : root.Hash[i].Gen = 0
  BY <1>4 DEF Type_1_Node_Invalid
<1>6. Leafs_OK(d, root.Hash)
  <2>1. Type_1_Node_Invalid.PBA = 0
    BY DEF Type_1_Node_Invalid
  <2> QED BY <1>2, <1>4, <2>1 DEF Leafs_OK
<1>7. /\ T1_Root(root) /\ root.PBA \in Nat
      /\ \A i \in 0 .. d - 1 : root.Hash[i].PBA = 0 => root.Hash[i] = Type_1_Node_Invalid
      /\ Inj(use) /\ Blocks(use) = first .. root.PBA
  BY InitialT2Tree
<1>8. /\ DOMAIN use = T2_Place /\ use[Root_Place] = root.PBA
      /\ \A k \in 0 .. d - 1 : use[Node_Place(k)] = root.Hash[k].PBA
      /\ Root_Place \in T2_Place
      /\ \A a \in 0 .. d - 1 : Node_Place(a) \in T2_Place /\ Node_Place(a) # Root_Place
      /\ \A a, b \in 0 .. d - 1 : Node_Place(a) = Node_Place(b) => a = b
  <2> DEFINE p0      == root.PBA
             entries == root.Hash
             caller  == 0
             g       == use
  <2>1. g = T2_Use(d, p0, entries, caller) /\ d \in Nat
    BY DEF Root_Use
  <2> HIDE DEF g, p0, entries, caller, use
  <2>2. /\ DOMAIN g = T2_Place /\ g[Root_Place] = p0
        /\ \A k \in 0 .. d - 1 : g[Node_Place(k)] = entries[k].PBA
        /\ Root_Place \in T2_Place
        /\ \A a \in 0 .. d - 1 : Node_Place(a) \in T2_Place /\ Node_Place(a) # Root_Place
        /\ \A a, b \in 0 .. d - 1 : Node_Place(a) = Node_Place(b) => a = b
    BY ONLY <2>1, T2UseAt
  <2> QED BY <2>2 DEF g, p0, entries
<1> HIDE DEF use
<1>9. ASSUME NEW n \in T2_Nodes(root)
      PROVE  \E p \in T2_Place :
               /\ use[p] = n.PBA /\ n.PBA # 0
               /\ \/ p = Root_Place /\ n = root
                  \/ \E i \in 0 .. d - 1 : p = Node_Place(i) /\ n = root.Hash[i]
  <2>1. CASE n = root
    BY <2>1, <1>7, <1>8 DEF T1_Root
  <2>2. CASE n # root
    <3>1. PICK i \in 0 .. d - 1 : n = root.Hash[i] /\ n # Type_1_Node_Invalid
      BY <1>3, <2>2 DEF T2_Nodes, Child_Nodes
    <3>2. n.PBA # 0
      BY <1>7, <3>1
    <3> QED BY <1>8, <3>1, <3>2
  <2> QED BY <2>1, <2>2
<1>10. ASSUME NEW n \in T2_Nodes(root) PROVE n.PBA \in first .. root.PBA
  BY <1>7, <1>8, <1>9 DEF Blocks
<1>11. ASSUME NEW n \in T2_Nodes(root), NEW k \in T2_Nodes(root), n.PBA = k.PBA PROVE n = k
  <2>1. PICK p \in T2_Place :
          /\ use[p] = n.PBA /\ n.PBA # 0
          /\ \/ p = Root_Place /\ n = root
             \/ \E i \in 0 .. d - 1 : p = Node_Place(i) /\ n = root.Hash[i]
    BY <1>9
  <2>2. PICK q \in T2_Place :
          /\ use[q] = k.PBA /\ k.PBA # 0
          /\ \/ q = Root_Place /\ k = root
             \/ \E i \in 0 .. d - 1 : q = Node_Place(i) /\ k = root.Hash[i]
    BY <1>9
  <2>3. p = q
    BY <1>7, <1>8, <1>11, <2>1, <2>2 DEF Inj
  <2> QED BY <1>8, <2>1, <2>2, <2>3
<1>12. ASSUME NEW i \in 0 .. d - 1, root.Hash[i].PBA # 0 PROVE root.Hash[i] \in T2_Nodes(root)
  <2>1. Type_1_Node_Invalid.PBA = 0
    BY DEF Type_1_Node_Invalid
  <2> QED BY <1>3, <1>12, <2>1 DEF T2_Nodes, Child_Nodes
<1> QED BY <1>3, <1>5, <1>6, <1>10, <1>11, <1>12

(* The inner nodes of the virtual block device have blocks before those of *)
(* the free tree.                                                          *)
LEMMA InitialVBDBlocks ==
  \A l \in 1 .. Max_Level : \A i \in 0 .. Nr_Of_VBD_Nodes[l] - 1 :
    Initial_VBD[l][i].PBA \in 1 .. Free_First - 1
<1> SUFFICES ASSUME NEW l \in 1 .. Max_Level, NEW i \in 0 .. Nr_Of_VBD_Nodes[l] - 1
             PROVE  Initial_VBD[l][i].PBA \in 1 .. Free_First - 1
  OBVIOUS
<1> DEFINE v == VBD_Use(Valid_Snap_Slot)
<1>1. l \in Level /\ l \in Int
  BY Numbers
<1>2. i \in VBD_Places(l) /\ i \in Int
  BY <1>1, NodesHavePlaces DEF Nr_Of
<1>3. VBD_Node(Valid_Snap_Slot, l, i).PBA = Initial_VBD[l][i].PBA
  BY <1>1, <1>2, InitialTree
<1>4. VBD_Node(Valid_Snap_Slot, l, i).PBA # 0
  BY <1>1, InitialTreeOK DEF VBD_OK, Nr_Of
<1>5. <<l, i>> \in V_Place /\ v[<<l, i>>] = VBD_Node(Valid_Snap_Slot, l, i).PBA
  BY <1>1, <1>2 DEF V_Place, VBD_Use
<1>6. Blocks(v) = 1 .. Free_First - 1 /\ DOMAIN v = V_Place
  BY InitialVBDUse DEF Free_First
<1> HIDE DEF v
<1> QED BY <1>3, <1>4, <1>5, <1>6 DEF Blocks

(* The trees as the initializers leave them: the blocks hold their nodes.  *)
LEMMA InitialTreesRead ==
  /\ \A n \in T2_Nodes(Free_Root) \cup T2_Nodes(Meta_Root) : Initial_Blocks[n.PBA] = n.Hash
  /\ Free_Root.Gen = 0 /\ \A i \in 0 .. Free_Degree - 1 : Free_Root.Hash[i].Gen = 0
  /\ Leafs_OK(Meta_Degree, Meta_Root.Hash)
  /\ DOMAIN Free_Root.Hash = 0 .. Free_Degree - 1
  /\ \A i \in 0 .. Free_Degree - 1 :
       Free_Root.Hash[i].PBA # 0 => Free_Root.Hash[i] \in T2_Nodes(Free_Root)
  /\ \A i \in 0 .. Meta_Degree - 1 :
       Meta_Root.Hash[i].PBA # 0 => Meta_Root.Hash[i] \in T2_Nodes(Meta_Root)
<1> DEFINE vbd   == UNION {{Initial_VBD[l][i] : i \in 0 .. Nr_Of_VBD_Nodes[l] - 1} :
                             l \in 1 .. Max_Level}
           fr    == T2_Nodes(Free_Root)
           mt    == T2_Nodes(Meta_Root)
           inner == {Free_Root, Meta_Root} \cup Child_Nodes(Free_Root) \cup Child_Nodes(Meta_Root)
                    \cup vbd
           free  == Free_Root
           meta  == Meta_Root
<1>1. /\ Free_Degree \in Nat /\ Free_Degree > 1 /\ Meta_Degree \in Nat /\ Meta_Degree > 1
      /\ Free_Leafs \in Nat \ {0} /\ Meta_Leafs \in Nat \ {0}
      /\ Nr_Of_Nodes(Nr_Of_Nodes(Free_Leafs, Free_Degree), Free_Degree) = 1
      /\ Nr_Of_Nodes(Nr_Of_Nodes(Meta_Leafs, Meta_Degree), Meta_Degree) = 1
  BY WritePathAssumption
<1>2. Free_First \in Nat \ {0}
  <2>1. Max_Level + 1 \in 0 .. Max_Level + 1
    BY Numbers
  <2> QED BY <2>1, FirstPBA DEF Free_First
<1>3. /\ free.Gen = 0 /\ \A i \in 0 .. Free_Degree - 1 : free.Hash[i].Gen = 0
      /\ DOMAIN free.Hash = 0 .. Free_Degree - 1
      /\ \A i \in 0 .. Free_Degree - 1 : free.Hash[i].PBA # 0 => free.Hash[i] \in T2_Nodes(free)
      /\ \A n \in T2_Nodes(free) : n.PBA \in Free_First .. free.PBA
      /\ \A n, k \in T2_Nodes(free) : n.PBA = k.PBA => n = k
  BY <1>1, <1>2, InitialT2Nodes DEF Free_Root
<1>4. free.PBA \in Nat /\ Free_First <= free.PBA
  BY <1>1, <1>2, InitialT2Tree DEF Free_Root
<1>5. Meta_First = free.PBA + 1 /\ Meta_First \in Nat \ {0}
  BY <1>4 DEF Meta_First
<1>6. /\ Leafs_OK(Meta_Degree, meta.Hash)
      /\ \A i \in 0 .. Meta_Degree - 1 : meta.Hash[i].PBA # 0 => meta.Hash[i] \in T2_Nodes(meta)
      /\ \A n \in T2_Nodes(meta) : n.PBA \in Meta_First .. meta.PBA
      /\ \A n, k \in T2_Nodes(meta) : n.PBA = k.PBA => n = k
  BY <1>1, <1>5, InitialT2Nodes, SMTT(30) DEF Meta_Root
<1>7. meta.PBA \in Nat /\ Meta_First <= meta.PBA
  BY <1>1, <1>5, InitialT2Tree DEF Meta_Root
<1>8. \A n \in vbd : n.PBA \in 1 .. Free_First - 1
  BY InitialVBDBlocks
<1>9. inner = fr \cup mt \cup vbd
  BY DEF T2_Nodes
<1>10. Initial_Blocks = [p \in PBA |-> IF \E n \in inner : n.PBA = p
                                       THEN (CHOOSE n \in inner : n.PBA = p).Hash ELSE Zeros]
  BY DEF Initial_Blocks
<1>11. PBA = 1 .. meta.PBA
  BY DEF PBA
<1>12. \A n \in fr : n.PBA \in Free_First .. free.PBA
  BY <1>3
<1>13. \A n \in mt : n.PBA \in Meta_First .. meta.PBA
  BY <1>6
<1>14. \A n, k \in fr : n.PBA = k.PBA => n = k
  BY <1>3
<1>15. \A n, k \in mt : n.PBA = k.PBA => n = k
  BY <1>6
<1> HIDE DEF vbd, fr, mt, inner
<1>16. ASSUME NEW n \in fr \cup mt PROVE Initial_Blocks[n.PBA] = n.Hash
  <2>1. n.PBA \in PBA
    BY <1>2, <1>4, <1>5, <1>7, <1>11, <1>12, <1>13, <1>16
  <2>2. ASSUME NEW k \in inner, k.PBA = n.PBA PROVE k = n
    <3>1. CASE n \in fr
      <4>1. k \notin mt /\ k \notin vbd
        BY <1>2, <1>4, <1>5, <1>7, <1>8, <1>12, <1>13, <2>2, <3>1
      <4> QED BY <1>9, <1>14, <2>2, <3>1, <4>1
    <3>2. CASE n \in mt
      <4>1. k \notin fr /\ k \notin vbd
        BY <1>2, <1>4, <1>5, <1>7, <1>8, <1>12, <1>13, <2>2, <3>2
      <4> QED BY <1>9, <1>15, <2>2, <3>2, <4>1
    <3> QED BY <1>16, <3>1, <3>2
  <2>3. n \in inner
    BY <1>9, <1>16
  <2>4. (CHOOSE k \in inner : k.PBA = n.PBA) = n
    BY <2>2, <2>3
  <2> QED BY <1>10, <2>1, <2>3, <2>4
<1> QED BY <1>3, <1>6, <1>16 DEF fr, mt

(* The device that the initializers leave.                                 *)
LEMMA InitTrees == Init => Trees_Inv
<1> SUFFICES ASSUME Init PROVE Trees_Inv
  OBVIOUS
<1> DEFINE free == Free_Root
           meta == Meta_Root
           bl   == Initial_Blocks
           fr   == T2_Nodes(free)
           mt   == T2_Nodes(meta)
<1>1. /\ sb.Free = free /\ sb.Meta = meta /\ secured.Free = free /\ blocks = bl
      /\ cur_gen = 1 /\ job.phase = "Idle"
  BY DEF Init, Valid_SB_Slot
<1>2. /\ \A n \in fr \cup mt : bl[n.PBA] = n.Hash
      /\ free.Gen = 0 /\ \A i \in 0 .. Free_Degree - 1 : free.Hash[i].Gen = 0
      /\ Leafs_OK(Meta_Degree, meta.Hash)
      /\ DOMAIN free.Hash = 0 .. Free_Degree - 1
      /\ \A i \in 0 .. Free_Degree - 1 : free.Hash[i].PBA # 0 => free.Hash[i] \in fr
      /\ \A i \in 0 .. Meta_Degree - 1 : meta.Hash[i].PBA # 0 => meta.Hash[i] \in mt
  BY InitialTreesRead
<1>3. free \in fr /\ meta \in mt
  BY DEF T2_Nodes
<1> HIDE DEF fr, mt, free, meta, bl
<1>4. Free_Match(bl, free)
  BY <1>2, <1>3 DEF Free_Match, Nodes_Match
<1>5. Meta_Match(bl, meta)
  BY <1>2, <1>3 DEF Meta_Match, Nodes_Match
<1>6. Free_Gens(free, 1)
  BY <1>2 DEF Free_Gens, Gen_OK
<1>7. Secured_Node_OK(bl, free, free, meta, 1)
      /\ \A i \in 0 .. Free_Degree - 1 : Secured_Node_OK(bl, free.Hash[i], free.Hash[i], meta, 1)
  BY <1>2 DEF Secured_Node_OK
<1>8. Trees_OK(bl, free, meta, free, 1)
  BY <1>2, <1>4, <1>5, <1>6, <1>7 DEF Trees_OK
<1> QED BY <1>1, <1>8 DEF Trees_Inv

(* A step keeps all of it.                                                 *)
LEMMA NextKeepsTrees == IInv /\ Trees_Inv /\ [Next]_vars => Trees_Inv'
<1> SUFFICES ASSUME IInv, Trees_Inv, [Next]_vars PROVE Trees_Inv'
  OBVIOUS
<1>1. CASE \E vba \in Written : Execute_SCD(vba)
  BY <1>1, SCDKeepsTrees
<1>2. CASE Execute_Free_Tree
  BY <1>2, FreeTreeKeepsTrees
<1>3. CASE Execute_Writeback
  BY <1>3, WritebackKeepsTrees
<1>4. CASE \/ Execute_Sync \/ Execute_Create_Snapshot
           \/ \E i \in Snapshots_Index : Execute_Discard_Snapshot(i)
           \/ Execute_Initialize_Rekeying \/ Execute_Rekey_VBA_Completed
  BY <1>4, SecuringKeepsTrees
<1>5. CASE Submit_Rekey_VBA
  BY <1>5, SubmitKeepsTrees
<1>6. CASE Rekey_Snapshot
  BY <1>6, RekeySnapshotKeepsTrees
<1>7. CASE UNCHANGED vars
  BY <1>7, TreesUnchanged DEF vars
<1> QED BY <1>1, <1>2, <1>3, <1>4, <1>5, <1>6, <1>7 DEF Next

(* The trees of the allocation are readable throughout, and so is the free *)
(* tree of the superblock secured last.                                    *)
THEOREM AllocationTreesInvariance == Spec => []Trees_Inv
<1>1. Init => Trees_Inv
  BY InitTrees
<1>2. IInv /\ Trees_Inv /\ [Next]_vars => Trees_Inv'
  BY NextKeepsTrees
<1> QED BY <1>1, <1>2, WritePathInvariance, PTL DEF Spec

(* What SecuredIntact says of the free tree: started from the superblock   *)
(* that was secured last, the CBE can search its free tree.                *)
Secured_Free_Tree_Readable ==
  \A n \in {secured.Free} \cup Child_Nodes(secured.Free) :
    n.Gen # Initial_Generation => Check_Node_Hash(blocks, n)

(* The invariant says so.                                                  *)
LEMMA SecuredFreeTree == Trees_Inv => Secured_Free_Tree_Readable
<1> SUFFICES ASSUME Trees_Inv, NEW n \in {secured.Free} \cup Child_Nodes(secured.Free),
                    n.Gen # Initial_Generation
             PROVE  Check_Node_Hash(blocks, n)
  BY DEF Secured_Free_Tree_Readable
<1>1. /\ Secured_Node_OK(blocks, secured.Free, sb.Free, sb.Meta, cur_gen)
      /\ DOMAIN secured.Free.Hash = 0 .. Free_Degree - 1
      /\ \A i \in 0 .. Free_Degree - 1 :
           Secured_Node_OK(blocks, secured.Free.Hash[i], sb.Free.Hash[i], sb.Meta, cur_gen)
  BY DEF Trees_Inv, Trees_OK
<1>2. \E m : Secured_Node_OK(blocks, n, m, sb.Meta, cur_gen)
  BY <1>1 DEF Child_Nodes
<1> QED BY <1>2 DEF Secured_Node_OK, Initial_Generation, Check_Node_Hash

(* No write and no rekeying changes a block of the free tree that was      *)
(* secured last.                                                           *)
THEOREM SecuredFreeTreeIntact == Spec => []Secured_Free_Tree_Readable
  BY AllocationTreesInvariance, SecuredFreeTree, PTL

(* An allocation meets no hash that differs, be it for a write or for the  *)
(* rekeying of a snapshot: it fails only for want of blocks.               *)
Allocation_Reads ==
  /\ job.phase = "Free_Tree" => Alloc(job.req).error # "hash"
  /\ job.phase = "Rekey_VBA" =>
       LET snap == rkg.Snapshots[rkg.Snapshot_Idx]
       IN Alloc_For(snap, Type_1_Node_Walk(snap, rkg.VBA)).error # "hash"

(* This follows from the invariants.                                       *)
LEMMA AllocationReads == IInv /\ Trees_Inv => Allocation_Reads
<1> SUFFICES ASSUME IInv, Trees_Inv PROVE Allocation_Reads
  OBVIOUS
<1>1. ASSUME job.phase = "Free_Tree" PROVE Alloc(job.req).error # "hash"
  <2> DEFINE free  == sb.Free
             meta  == sb.Meta
             snaps == sb.Snapshots
             last  == sb.Last_Secured_Generation
             req   == job.req
             old   == secured.Free
             ft    == Alloc(job.req)
  <2>1. ft = Free_Tree_Alloc(blocks, free, meta, snaps, last, req)
    BY DEF Alloc
  <2>2. /\ Asks(req, blocks, free, meta) /\ Free_Root_OK(free) /\ Meta_Root_OK(meta)
        /\ Trees_OK(blocks, free, meta, old, cur_gen) /\ req.Gen = cur_gen
    BY <1>1, WriteAsks DEF Trees_Inv
  <2> HIDE DEF free, meta, snaps, last, req, old, ft
  <2>3. ft.error # "hash"
    BY ONLY <2>1, <2>2, AllocTrees
  <2> QED BY <2>3 DEF ft
<1>2. ASSUME job.phase = "Rekey_VBA"
      PROVE  LET snap == rkg.Snapshots[rkg.Snapshot_Idx]
             IN Alloc_For(snap, Type_1_Node_Walk(snap, rkg.VBA)).error # "hash"
  <2> DEFINE snap == rkg.Snapshots[rkg.Snapshot_Idx]
             walk == Type_1_Node_Walk(snap, rkg.VBA)
             ft   == Alloc_For(snap, walk)
  <2>1. rkg.First_Snapshot => snap = Current_Tree
    BY <1>2 DEF IInv, Rekeying_OK, Current_Tree
  <2>2. walk = Type_1_Node_Walk(snap, rkg.VBA) /\ ft = Alloc_For(snap, walk)
    OBVIOUS
  <2> HIDE DEF snap, walk, ft
  <2>3. ft.error # "hash"
    BY <1>2, <2>1, <2>2, RekeyAnswered
  <2> QED BY <2>3 DEF ft, walk, snap
<1> QED BY <1>1, <1>2 DEF Allocation_Reads

(* Whatever was written, rekeyed, discarded and secured before.            *)
THEOREM AllocationFindsNoHash == Spec => []Allocation_Reads
  BY WritePathInvariance, AllocationTreesInvariance, AllocationReads, PTL
==============================================================================
