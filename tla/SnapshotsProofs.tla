---------------------------- MODULE SnapshotsProofs ----------------------------
(***************************************************************************)
(* Proofs about module SuperblockControl: types, and that the snapshots of *)
(* the superblock in memory, and of those on the device, have their trees, *)
(* unchanged and readable.  They hold for every number of snapshots,       *)
(* superblocks, generations, restarts and addresses, as long as clients    *)
(* request nothing after a restart, which takes over an old superblock,    *)
(* and, for the trees, neither write ahead of a rekeying nor discard a     *)
(* snapshot taken of the current state.  No operation raises               *)
(* Program_Error where there is room for the snapshots that clients keep.  *)
(***************************************************************************)
EXTENDS SuperblockProofs, WellFoundedInduction, FiniteSetTheorems

-----------------------------------------------------------------------------
(***************************************************************************)
(* Types, and what they rest on.                                           *)
(***************************************************************************)
(* The snapshots are ready in the job, but not taken over yet. *)
Taking_Over == Completed("Rekey_VBA_In_VBD") \/ Completed("VBD_Ext_Step_In_VBD")

(* The steps of a start behind the choice of a superblock. *)
Chosen_Read ==
  \/ Completed("Read_Current_SB")
  \/ At({"Decrypt_Current_Key", "Add_Current_Key", "Decrypt_Previous_Key", "Add_Previous_Key"})

(* An operation works in a generation that there is.                       *)
GenerationFits == Working /\ ~At({"Secure_SB"}) => curr_gen <= Max_Generation

(* Each new key takes a generation. *)
KeyFits ==
  restarts = 0 /\ sb.State # "Invalid" =>
    /\ sb.Current_Key <= curr_gen + 1
    /\ ~At({"Add_Key"} \cup (Copied \ {"Secure_SB"})) => sb.Current_Key <= curr_gen

(* No snapshot is of a generation to come. *)
Past(snaps) == \A i \in Snapshots_Index : snaps[i].Gen <= curr_gen

SnapshotsPast ==
  restarts = 0 /\ sb.State # "Invalid" =>
    /\ Past(sb.Snapshots)
    /\ Taking_Over => Past(job.Snapshots) /\ Valid_Snaps(job.Snapshots) # {}

(* A start takes over what it has chosen: at first what the initializers   *)
(* left.                                                                   *)
StartTakes ==
  Starting =>
    /\ restarts = 0 => device.superblocks = Initial_Device.superblocks
    /\ Chosen_Read => job.SB_Found /\ job.SB_Ciphertext = device.superblocks[job.SB_Idx]

NoneAfterRestart == restarts > 0 => job.op \in {"Initialize", "Invalid"}

TInv ==
  /\ TypeOK
  /\ GenerationFits
  /\ KeyFits
  /\ SnapshotsPast
  /\ StartTakes
  /\ NoneAfterRestart

-----------------------------------------------------------------------------
(***************************************************************************)
(* Sets of numbers, and types of what the steps construct.                 *)
(***************************************************************************)
(* A set of numbers has a least element. *)
LEMMA LeastExists ==
  ASSUME NEW S \in SUBSET Nat, S # {}
  PROVE  \E k \in S : \A l \in S : k <= l
<1> DEFINE R == OpToRel(<, Nat)
<1>1. PICK n \in S : \A m \in S : ~(<<m, n>> \in R)
  <2> HIDE DEF R
  <2>1. IsWellFoundedOn(R, Nat)
    BY NatLessThanWellFounded DEF R
  <2> QED BY <2>1, WFMin
<1>2. \A m \in S : ~(m < n)
  BY <1>1 DEF OpToRel
<1> QED BY <1>2

(* A set of numbers with a bound has a largest element. *)
LEMMA LargestExists ==
  ASSUME NEW N \in Nat, NEW S \in SUBSET (0 .. N), S # {}
  PROVE  \E k \in S : \A l \in S : l <= k
<1> DEFINE Left == {n \in Nat : \E k \in S : n = N - k}
<1>1. PICK e \in S : TRUE
  OBVIOUS
<1>2. N - e \in Left
  BY <1>1
<1>3. Left \in SUBSET Nat /\ Left # {}
  BY <1>2
<1>4. PICK n \in Left : \A m \in Left : n <= m
  <2> HIDE DEF Left
  <2> QED BY <1>3, LeastExists
<1>5. PICK k \in S : n = N - k
  BY <1>4
<1>6. ASSUME NEW l \in S PROVE l <= k
  <2>1. N - l \in Left
    OBVIOUS
  <2> HIDE DEF Left
  <2>2. n <= N - l
    BY <1>4, <2>1
  <2> QED BY <1>5, <2>2
<1> QED BY <1>6

(* The first of some indices. *)
LEMMA FirstIs ==
  ASSUME NEW S \in SUBSET Nat, S # {}
  PROVE  First(S) \in S /\ IsFirst(First(S), S)
<1>1. \E k \in S : IsFirst(k, S)
  BY LeastExists DEF IsFirst
<1> QED BY <1>1 DEF First, IsFirst

Snapshots_Type == [Snapshots_Index -> Snapshot]

(* Among valid snapshots there is a newest. *)
LEMMA NewestIs ==
  ASSUME NEW snaps \in Snapshots_Type, Valid_Snaps(snaps) # {}
  PROVE  /\ Newest_Snapshot_Idx(snaps) \in Valid_Snaps(snaps)
         /\ \A k \in Valid_Snaps(snaps) : snaps[k].Gen <= snaps[Newest_Snapshot_Idx(snaps)].Gen
<1> DEFINE V == Valid_Snaps(snaps)
           G == {snaps[k].Gen : k \in V}
           N == {i \in V : \A k \in V : snaps[k].Gen <= snaps[i].Gen}
<1>1. V \subseteq Snapshots_Index /\ \A k \in V : snaps[k].Gen \in Generation
  BY DEF Valid_Snaps, Snapshots_Type, Snapshot
<1>2. G \in SUBSET (0 .. Max_Generation) /\ G # {}
  BY <1>1 DEF Generation
<1>3. PICK g \in G : \A h \in G : h <= g
  <2> HIDE DEF G
  <2> QED BY <1>2, LargestExists, SuperblockAssumption
<1>4. N # {}
  BY <1>3
<1>5. N \in SUBSET Nat
  BY <1>1, SuperblockAssumption DEF Snapshots_Index
<1>6. First(N) \in N
  <2> HIDE DEF N
  <2> QED BY <1>4, <1>5, FirstIs
<1> QED BY <1>6 DEF Newest_Snapshot_Idx

(* The constants that stand for nothing. *)
LEMMA TypesOfNothing ==
  /\ Absent \in Content /\ Initial_Content \in Content
  /\ Snapshot_Invalid \in Snapshot
  /\ Superblock_Invalid \in Superblock /\ Initial_Superblock \in Superblock
  /\ Ciphertext_Invalid \in Ciphertext
  /\ Job_Invalid \in Job
<1> USE SuperblockAssumption
<1>1. {0, 1} \subseteq Key_ID /\ 0 \in Generation /\ 0 \in VBA /\ 0 \in Snapshots_Index
      /\ <<0, 0>> \in Tree /\ 0 \in Superblocks_Index /\ 0 \in 0 .. Max_Nr_Of_Blks
  BY DEF Key_ID, Generation, VBA, Snapshots_Index, Tree, Superblocks_Index
<1>2. Absent \in Content /\ Initial_Content \in Content
  BY <1>1 DEF Absent, Initial_Content, Content
<1>3. Snapshot_Invalid \in Snapshot
  BY <1>1, <1>2 DEF Snapshot_Invalid, Snapshot
<1>4. Superblock_Invalid \in Superblock
  BY <1>1, <1>3 DEF Superblock_Invalid, Superblock
<1>5. Initial_Superblock \in Superblock
  <2> DEFINE first == [Snapshot_Invalid EXCEPT !.Valid = TRUE, !.Hash = Initial_Content]
             snaps == [[i \in Snapshots_Index |-> Snapshot_Invalid] EXCEPT ![0] = first]
  <2>1. first \in Snapshot
    BY <1>2, <1>3 DEF Snapshot
  <2> HIDE DEF first
  <2>2. snaps \in [Snapshots_Index -> Snapshot]
    BY <1>3, <2>1
  <2>3. Initial_Superblock = [Superblock_Invalid EXCEPT !.State = "Normal", !.Current_Key = 1,
                                                         !.Snapshots = snaps]
    BY DEF Initial_Superblock, Superblock_Invalid, first
  <2> HIDE DEF snaps
  <2> QED BY <1>1, <1>4, <2>2, <2>3 DEF Superblock
<1>6. Ciphertext_Invalid \in Ciphertext
  BY <1>4 DEF Ciphertext_Invalid, Ciphertext
<1>7. Superblock_Invalid.Snapshots \in [Snapshots_Index -> Snapshot]
  BY <1>3 DEF Superblock_Invalid
<1>8. Job_Invalid \in Job
  BY <1>1, <1>4, <1>6, <1>7 DEF Job_Invalid, Job
<1> QED BY <1>2, <1>3, <1>4, <1>5, <1>6, <1>8

-----------------------------------------------------------------------------
(* Initially the device is as the initializers left it. *)
LEMMA InitTInv == Init => TInv
<1> SUFFICES ASSUME Init PROVE TInv
  OBVIOUS
<1> USE SuperblockAssumption
<1>1. Initial_Device \in Device
  <2>1. [plain |-> Initial_Superblock, values |-> {1}] \in Ciphertext
    BY TypesOfNothing DEF Ciphertext, Key_ID
  <2>2. Initial_Device.superblocks \in [Superblocks_Index -> Ciphertext]
    BY <2>1, TypesOfNothing DEF Initial_Device
  <2>3. Initial_Device.trees \in [Tree -> Content]
    BY TypesOfNothing DEF Initial_Device
  <2> QED BY <2>2, <2>3 DEF Initial_Device, Device
<1>2. job \in Job /\ job.op = "Initialize" /\ job.state = <<"Submitted">>
  <2>1. job = [Job_Invalid EXCEPT !.op = "Initialize"]
    BY DEF Init
  <2> QED BY <2>1, TypesOfNothing DEF Job, Job_Invalid
<1>3. cached \in [Tree -> Content] /\ device \in Device
  BY <1>1 DEF Init, Device
<1>4. TypeOK
  <2>1. 0 \in Superblocks_Index /\ 0 \in 0 .. Max_Generation + 1 /\ 0 \in 0 .. Max_Restarts
    BY DEF Superblocks_Index
  <2> QED BY <1>2, <1>3, <2>1, TypesOfNothing DEF Init, TypeOK
<1>5. /\ \A steps : ~At(steps)
      /\ \A x : ~Completed(x)
      /\ Starting /\ ~Working
  BY <1>2, StatesDiffer DEF At, Completed, Starting, Working
<1>6. sb.State = "Invalid"
  BY DEF Init, Superblock_Invalid
<1>7. StartTakes
  BY <1>5 DEF StartTakes, Chosen_Read, Init
<1> QED BY <1>2, <1>4, <1>5, <1>6, <1>7 DEF TInv, GenerationFits, KeyFits, SnapshotsPast,
             NoneAfterRestart

(* Without a step of a job there is little to say. *)
LEMMA NoStepTInv ==
  ASSUME TypeOK', job'.state \in {<<"Submitted">>, <<"Completed">>},
         Starting' /\ restarts' = 0 => device'.superblocks = Initial_Device.superblocks,
         Working' => curr_gen' <= Max_Generation,
         restarts' = 0 /\ sb'.State # "Invalid" =>
           sb'.Current_Key <= curr_gen' /\ Past(sb.Snapshots)',
         NoneAfterRestart'
  PROVE  TInv'
<1>1. /\ \A steps : ~At(steps)'
      /\ \A x : ~Completed(x)'
  BY AtNoStep
<1>2. SnapshotsPast' /\ StartTakes' /\ GenerationFits'
  BY <1>1 DEF SnapshotsPast, Taking_Over, StartTakes, Chosen_Read, GenerationFits
<1>3. KeyFits'
  <2>1. curr_gen' \in Nat /\ sb'.Current_Key \in Nat
    BY SuperblockAssumption DEF TypeOK, Superblock, Key_ID
  <2> QED BY <1>1, <2>1 DEF KeyFits
<1> QED BY <1>2, <1>3 DEF TInv

(* The same of the job as it is. *)
LEMMA WithoutStep ==
  ASSUME TInv, job.state \in {<<"Submitted">>, <<"Completed">>}
  PROVE  /\ \A steps : ~At(steps)
         /\ \A x : ~Completed(x)
         /\ restarts = 0 /\ sb.State # "Invalid" =>
              sb.Current_Key <= curr_gen /\ Past(sb.Snapshots)
<1>1. /\ \A steps : ~At(steps)
      /\ \A x : ~Completed(x)
  BY StatesDiffer DEF At, Completed
<1> QED BY <1>1 DEF TInv, KeyFits, SnapshotsPast

(* A job is submitted in a generation that there is. *)
LEMMA SubmitTInv ==
  ASSUME IInv, TInv, Restarted_Ops = {}, NEW op \in Operations, Submit_Primitive(op)
  PROVE  TInv'
<1>1. PICK gen \in Generation, nr \in 1 .. Max_Nr_Of_Blks :
        job' = [job EXCEPT !.op = op, !.state = <<"Submitted">>, !.success = FALSE,
                           !.Generation = gen, !.Nr_Of_Blks = nr]
  BY DEF Submit_Primitive
<1>2. job \in Job /\ nr \in 0 .. Max_Nr_Of_Blks /\ job.op = "Invalid"
  BY SuperblockAssumption DEF TInv, TypeOK, Submit_Primitive, Ready
<1>3. job' \in Job /\ job'.op = op /\ job'.state = <<"Submitted">>
  BY <1>1, <1>2 DEF Job
<1>4. /\ UNCHANGED <<sb, sb_idx, curr_gen, keys, secured, cached, device, restarts, raised>>
      /\ curr_gen <= Max_Generation /\ restarts = 0 /\ op # "Initialize"
  BY DEF Submit_Primitive, Ready, Operations, TInv, TypeOK
<1>5. TypeOK'
  BY <1>3, <1>4 DEF TInv, TypeOK
<1>6. job.state = <<"Submitted">>
  BY <1>2 DEF IInv, NoJobNoStep
<1>7. ~Starting' /\ NoneAfterRestart'
  BY <1>3, <1>4 DEF Starting, NoneAfterRestart
<1>8. sb.State # "Invalid" => sb.Current_Key <= curr_gen /\ Past(sb.Snapshots)
  BY <1>4, <1>6, WithoutStep
<1> QED BY <1>3, <1>4, <1>5, <1>7, <1>8, NoStepTInv DEF Past

(* A job is dropped. *)
LEMMA DropTInv == TInv /\ Drop_Completed_Primitive => TInv'
<1> SUFFICES ASSUME TInv, Drop_Completed_Primitive PROVE TInv'
  OBVIOUS
<1>1. /\ job' = [Job_Invalid EXCEPT !.Request_Finished = job.Request_Finished]
      /\ UNCHANGED <<sb, sb_idx, curr_gen, keys, secured, cached, device, restarts, raised>>
      /\ job.state = <<"Completed">>
  BY DEF Drop_Completed_Primitive
<1>2. job' \in Job /\ job'.op = "Invalid" /\ job'.state = <<"Submitted">>
  BY <1>1, TypesOfNothing DEF TInv, TypeOK, Job, Job_Invalid
<1>3. TypeOK' /\ NoneAfterRestart' /\ ~Starting' /\ ~Working'
  BY <1>1, <1>2 DEF TInv, TypeOK, NoneAfterRestart, Starting, Working, NoJob
<1> QED BY <1>1, <1>2, <1>3, WithoutStep, NoStepTInv DEF Past

(* The component stops and starts again. *)
LEMMA RestartTInv == TInv /\ Restart => TInv'
<1> SUFFICES ASSUME TInv, Restart PROVE TInv'
  OBVIOUS
<1>1. job' = [Job_Invalid EXCEPT !.op = "Initialize"] /\ sb' = Superblock_Invalid
      /\ restarts \in 0 .. Max_Restarts /\ restarts < Max_Restarts /\ restarts' = restarts + 1
      /\ sb_idx' = 0 /\ curr_gen' = 0 /\ keys' = {} /\ secured' = Superblock_Invalid
      /\ cached' = device.trees /\ UNCHANGED <<device, raised>>
  BY DEF Restart, TInv, TypeOK
<1>2. job' \in Job /\ job'.op = "Initialize" /\ job'.state = <<"Submitted">>
  BY <1>1, TypesOfNothing DEF Job, Job_Invalid
<1>3. restarts' # 0 /\ restarts' \in 0 .. Max_Restarts /\ curr_gen' \in 0 .. Max_Generation + 1
      /\ sb_idx' \in Superblocks_Index
  BY <1>1, SuperblockAssumption DEF Superblocks_Index
<1>4. TypeOK'
  BY <1>1, <1>2, <1>3, TypesOfNothing DEF TInv, TypeOK, Device
<1>5. NoneAfterRestart' /\ ~Working'
  BY <1>2, StatesDiffer DEF NoneAfterRestart, Working, Starting
<1> QED BY <1>2, <1>3, <1>4, <1>5, NoStepTInv

-----------------------------------------------------------------------------
(* The generation that there is names blocks. *)
LEMMA GenerationNamesBlocks ==
  ASSUME TypeOK, curr_gen <= Max_Generation
  PROVE  /\ curr_gen \in Generation /\ <<curr_gen, curr_gen>> \in Tree
         /\ \A g \in Generation : g <= curr_gen => <<g, curr_gen>> \in Tree
<1>1. curr_gen \in Generation
  BY SuperblockAssumption DEF TypeOK, Generation
<1> QED BY <1>1, SuperblockAssumption DEF Tree, Generation

(* A superblock with another snapshot. *)
With_Snapshot(s, i, snap) == [s EXCEPT !.Curr_Snap = i, !.Snapshots[i] = snap]

LEMMA WithSnapshot ==
  ASSUME NEW s \in Superblock, NEW i \in Snapshots_Index, NEW snap \in Snapshot
  PROVE  /\ With_Snapshot(s, i, snap) \in Superblock
         /\ With_Snapshot(s, i, snap).Curr_Snap = i
         /\ With_Snapshot(s, i, snap).State = s.State
         /\ With_Snapshot(s, i, snap).Current_Key = s.Current_Key
         /\ With_Snapshot(s, i, snap).Previous_Key = s.Previous_Key
         /\ With_Snapshot(s, i, snap).Rekeying_VBA = s.Rekeying_VBA
         /\ With_Snapshot(s, i, snap).Last_Secured_Generation = s.Last_Secured_Generation
         /\ With_Snapshot(s, i, snap).Snapshots = [s.Snapshots EXCEPT ![i] = snap]
<1> DEFINE snaps == [s.Snapshots EXCEPT ![i] = snap]
<1>1. snaps \in [Snapshots_Index -> Snapshot]
  BY DEF Superblock
<1>2. With_Snapshot(s, i, snap) = [s EXCEPT !.Curr_Snap = i, !.Snapshots = snaps]
  BY DEF Superblock, With_Snapshot
<1> HIDE DEF snaps
<1> QED BY <1>1, <1>2 DEF Superblock, snaps

(* A write, if there is room, gives the current data a snapshot of this    *)
(* generation.                                                             *)
Written_Snap(c, h) ==
  [c EXCEPT !.Gen = curr_gen, !.PBA = <<curr_gen, curr_gen>>, !.Hash = h,
            !.Keep = c.Keep /\ c.Gen = curr_gen]

Written_Back(v, i, h, snap) ==
  /\ h.key = [Curr(sb).Hash.key EXCEPT ![v] = sb.Current_Key]
  /\ IF Curr(sb).Gen < curr_gen THEN i \notin Valid_Snaps(sb.Snapshots) ELSE i = sb.Curr_Snap
  /\ snap = Written_Snap(Curr(sb), h)
  /\ snap.Valid = Curr(sb).Valid /\ snap.Gen = curr_gen
  /\ snap.PBA = <<curr_gen, curr_gen>> /\ snap.Hash = h
  /\ snap.Keep = (Curr(sb).Keep /\ Curr(sb).Gen = curr_gen)
  /\ sb' = With_Snapshot(sb, i, snap)
  /\ cached' = [cached EXCEPT ![<<curr_gen, curr_gen>>] = h]
  /\ UNCHANGED <<sb_idx, curr_gen, job, keys, secured, device, restarts, raised>>

LEMMA WritebackIs ==
  ASSUME TypeOK, NEW v \in VBA, Execute_Writeback(v), ~Raise_Program_Error
  PROVE  \E i \in Snapshots_Index, h \in Content, snap \in Snapshot : Written_Back(v, i, h, snap)
<1> DEFINE c == Curr(sb)
           h == [data |-> Other(Curr(sb).Hash.data),
                 key |-> [Curr(sb).Hash.key EXCEPT ![v] = sb.Current_Key]]
           snap == Written_Snap(c, h)
<1>1. /\ sb' \in Writeback_Snaps(h)
      /\ cached' = [cached EXCEPT ![<<curr_gen, curr_gen>>] = h]
      /\ UNCHANGED <<sb_idx, curr_gen, job, keys, secured, device, restarts, raised>>
      /\ curr_gen <= Max_Generation
  BY DEF Execute_Writeback, Ready
<1>2. c \in Snapshot /\ sb.Current_Key \in Key_ID /\ sb.Curr_Snap \in Snapshots_Index
  BY DEF TypeOK, Superblock, Curr
<1>3. h \in Content
  BY <1>2 DEF Content, Snapshot, Other
<1>4. /\ snap \in Snapshot /\ snap.Valid = c.Valid /\ snap.Gen = curr_gen
      /\ snap.PBA = <<curr_gen, curr_gen>> /\ snap.Hash = h
      /\ snap.Keep = (c.Keep /\ c.Gen = curr_gen)
  <2> HIDE DEF h, c
  <2>1. <<curr_gen, curr_gen>> \in Tree /\ curr_gen \in Generation
    BY <1>1, GenerationNamesBlocks
  <2>2. (c.Keep /\ c.Gen = curr_gen) \in BOOLEAN
    OBVIOUS
  <2> QED BY <1>2, <1>3, <2>1, <2>2 DEF Snapshot, Written_Snap
<1>5. PICK i \in IF c.Gen < curr_gen
                   THEN {k \in Snapshots_Index :
                           IsFirst(k, Snapshots_Index \ Valid_Snaps(sb.Snapshots))}
                   ELSE {sb.Curr_Snap} :
        sb' = With_Snapshot(sb, i, snap)
  BY <1>1 DEF Writeback_Snaps, Written_Snap, With_Snapshot
<1>6. i \in Snapshots_Index /\ IF c.Gen < curr_gen THEN i \notin Valid_Snaps(sb.Snapshots)
                                                 ELSE i = sb.Curr_Snap
  BY <1>2, <1>5 DEF IsFirst
<1>7. h.key = [c.Hash.key EXCEPT ![v] = sb.Current_Key]
  OBVIOUS
<1> HIDE DEF h, snap
<1> QED BY <1>1, <1>3, <1>4, <1>5, <1>6, <1>7 DEF snap, Written_Back

(* Nothing changes, but that the end is known. *)
LEMMA RaiseTInv == TInv /\ Raise_Program_Error => TInv'
BY DEF Raise_Program_Error, TInv, TypeOK, GenerationFits, KeyFits, SnapshotsPast, Past,
       Taking_Over, StartTakes, Chosen_Read, NoneAfterRestart, Starting, Working, NoJob, At,
       Completed

(* A snapshot of this generation is not to come. *)
LEMMA WritebackTInv ==
  ASSUME IInv, TInv, NEW v \in VBA, Execute_Writeback(v)
  PROVE  TInv'
<1> SUFFICES ASSUME ~Raise_Program_Error PROVE TInv'
  BY RaiseTInv
<1>1. TypeOK
  BY DEF TInv
<1>2. PICK i \in Snapshots_Index, h \in Content, snap \in Snapshot :
        Written_Back(v, i, h, snap)
  BY <1>1, WritebackIs
<1>3. /\ sb' \in Superblock /\ sb'.State = sb.State /\ sb'.Current_Key = sb.Current_Key
      /\ sb'.Snapshots = [sb.Snapshots EXCEPT ![i] = snap]
  BY <1>1, <1>2, WithSnapshot DEF TypeOK, Written_Back
<1>0. /\ cached' = [cached EXCEPT ![<<curr_gen, curr_gen>>] = h] /\ snap.Gen = curr_gen
      /\ UNCHANGED <<sb_idx, curr_gen, job, keys, secured, device, restarts, raised>>
  BY <1>2 DEF Written_Back
<1>4. TypeOK'
  BY <1>0, <1>1, <1>3 DEF TypeOK
<1>5. job.op = "Invalid" /\ job.state = <<"Submitted">> /\ job' = job
  BY <1>0 DEF Execute_Writeback, Ready, IInv, NoJobNoStep
<1>6. Past(sb.Snapshots) => Past(sb.Snapshots)'
  <2>1. sb.Snapshots \in [Snapshots_Index -> Snapshot] /\ curr_gen \in Int
    BY <1>1 DEF TypeOK, Superblock
  <2> QED BY <1>0, <1>3, <2>1 DEF Past
<1>7. NoneAfterRestart' /\ ~Starting' /\ ~Working'
  BY <1>0, <1>5 DEF TInv, NoneAfterRestart, Starting, Working, NoJob
<1> QED BY <1>0, <1>3, <1>4, <1>5, <1>6, <1>7, WithoutStep, NoStepTInv

-----------------------------------------------------------------------------
(* An answer of another module, which leaves of the job what Kept_Of says. *)
LEMMA AnswerTInv ==
  ASSUME IInv, KInv, TInv, NEW step \in Steps, NEW j \in Job, Answer(step, j), Kept_Of(j),
         raised' = raised, keys' \subseteq Key_ID, secured' \in Superblock,
         cached' \in [Tree -> Content], device' \in Device,
         job.op = "Initialize" => device'.superblocks = device.superblocks,
         job.op = "Initialize" /\ step # "Read_SB" =>
           j.SB_Ciphertext = IF step = "Read_Current_SB" THEN device.superblocks[job.SB_Idx]
                             ELSE job.SB_Ciphertext,
         restarts = 0 /\ step \in {"Rekey_VBA_In_VBD", "VBD_Ext_Step_In_VBD"} =>
           Past(j.Snapshots) /\ Valid_Snaps(j.Snapshots) # {}
  PROVE  TInv'
<1>1. job' = [j EXCEPT !.state = <<step, "Completed">>]
      /\ UNCHANGED <<sb, sb_idx, curr_gen, restarts>>
  BY DEF Answer
<1>2. job' \in Job /\ job'.Snapshots = j.Snapshots /\ job'.SB_Ciphertext = j.SB_Ciphertext
  BY <1>1 DEF Job
<1>3. TypeOK'
  BY <1>1, <1>2 DEF TInv, TypeOK
<1>4. GenerationFits' /\ KeyFits'
  BY <1>1, AnswerToJob DEF TInv, GenerationFits, KeyFits
<1>5. SnapshotsPast'
  BY <1>1, <1>2, AnswerToJob DEF TInv, SnapshotsPast, Taking_Over, Past
<1>6. NoneAfterRestart'
  BY <1>1, AnswerToJob DEF TInv, NoneAfterRestart
<1>7. StartTakes'
  <2> SUFFICES ASSUME job.op = "Initialize" PROVE StartTakes'
    BY AnswerToJob DEF StartTakes
  <2>1. restarts = 0 => device'.superblocks = Initial_Device.superblocks
    BY AnswerToJob DEF TInv, StartTakes
  <2>2. ASSUME Chosen_Read'
        PROVE  job'.SB_Found /\ job'.SB_Ciphertext = device'.superblocks[job'.SB_Idx]
    <3>1. CASE step = "Read_Current_SB"
      BY <1>2, <3>1, AnswerToJob DEF KInv, StartConsistent
    <3>2. CASE step # "Read_Current_SB"
      <4>1. Chosen_Read /\ step # "Read_SB"
        BY <2>2, <3>2, AnswerToJob DEF Chosen_Read
      <4>2. job.SB_Found /\ job.SB_Ciphertext = device.superblocks[job.SB_Idx]
        BY <4>1, AnswerToJob DEF TInv, StartTakes
      <4> QED BY <1>2, <3>2, <4>1, <4>2, AnswerToJob
    <3> QED BY <3>1, <3>2
  <2> QED BY <1>1, <2>1, <2>2 DEF StartTakes
<1> QED BY <1>3, <1>4, <1>5, <1>6, <1>7 DEF TInv

(* The job in the state that an answer leaves. *)
LEMMA JobTypes ==
  ASSUME TypeOK
  PROVE  /\ job.SB_Ciphertext \in Ciphertext /\ job.Snapshots \in Snapshots_Type
         /\ job.Hash \in Superblock /\ job.Generation \in Generation
         /\ job.Nr_Of_Blks \in 0 .. Max_Nr_Of_Blks
         /\ {job.SB_Idx, job.Read_SB_Idx} \subseteq Superblocks_Index
         /\ \A c \in Ciphertext : [job EXCEPT !.SB_Ciphertext = c] \in Job
         /\ \A n \in 0 .. Max_Nr_Of_Blks : [job EXCEPT !.Nr_Of_Blks = n] \in Job
         /\ \A snaps \in Snapshots_Type : [job EXCEPT !.Snapshots = snaps] \in Job
         /\ \A n \in 0 .. Max_Nr_Of_Blks, snaps \in Snapshots_Type :
              [job EXCEPT !.Nr_Of_Blks = n, !.Snapshots = snaps] \in Job
BY DEF TypeOK, Job, Snapshots_Type

LEMMA TrustAnchorTInv == IInv /\ KInv /\ TInv /\ Trust_Anchor => TInv'
<1> SUFFICES ASSUME IInv, KInv, TInv, Trust_Anchor PROVE TInv'
  OBVIOUS
<1>0. /\ TypeOK /\ UNCHANGED <<keys, cached, device, raised>>
      /\ keys \subseteq Key_ID /\ cached \in [Tree -> Content] /\ device \in Device
      /\ secured \in Superblock /\ job \in Job
  BY DEF Trust_Anchor, TInv, TypeOK
<1>1. CASE /\ \E step \in {"Create_Key", "Decrypt_Current_Key", "Decrypt_Previous_Key"} :
                Answer(step, job)
           /\ UNCHANGED secured
  <2>1. PICK step \in {"Create_Key", "Decrypt_Current_Key", "Decrypt_Previous_Key"} :
          Answer(step, job)
    BY <1>1
  <2> QED BY <1>0, <1>1, <2>1, JobIsKept, AnswerTInv DEF Steps
<1>2. ASSUME NEW step \in {"Encrypt_Current_Key", "Encrypt_Previous_Key"}, NEW key \in Key_ID,
             Answer(step, [job EXCEPT !.SB_Ciphertext.values = @ \cup {key}]),
             UNCHANGED secured
      PROVE  TInv'
  <2> DEFINE c == [job.SB_Ciphertext EXCEPT !.values = @ \cup {key}]
             j == [job EXCEPT !.SB_Ciphertext = c]
  <2>1. job.SB_Ciphertext \in Ciphertext
    BY <1>0, JobTypes
  <2>2. c \in Ciphertext
    BY <2>1 DEF Ciphertext
  <2>3. Answer(step, j)
    BY <1>0, <1>2 DEF Job
  <2> HIDE DEF c
  <2>4. j \in Job /\ Kept_Of(j)
    BY <1>0, <2>2, JobTypes, FieldsOfJob DEF Kept_Of, IInv, Shape
  <2> HIDE DEF j
  <2>5. job.op # "Initialize" /\ step \in Steps
    BY <1>2, <2>3, <2>4, AnswerToJob DEF KInv, StepOfOperation, Copied, Steps
  <2> QED BY <1>0, <1>2, <2>3, <2>4, <2>5, AnswerTInv
<1>3. {sb.Current_Key, sb.Previous_Key} \subseteq Key_ID
  BY <1>0 DEF TypeOK, Superblock
<1>4. CASE Answer("Secure_SB", job) /\ secured' = job.Hash
  BY <1>0, <1>4, JobIsKept, JobTypes, AnswerTInv DEF Steps
<1> QED BY <1>1, <1>2, <1>3, <1>4 DEF Trust_Anchor

LEMMA CryptoTInv == IInv /\ KInv /\ TInv /\ Crypto => TInv'
<1> SUFFICES ASSUME IInv, KInv, TInv, Crypto PROVE TInv'
  OBVIOUS
<1>0. /\ TypeOK /\ UNCHANGED <<secured, cached, device, raised>>
      /\ keys \subseteq Key_ID /\ cached \in [Tree -> Content] /\ device \in Device
      /\ secured \in Superblock /\ job \in Job
  BY DEF Crypto, TInv, TypeOK
<1>1. /\ {sb.Current_Key, sb.Previous_Key} \subseteq Key_ID
      /\ job.SB_Ciphertext.values \subseteq Key_ID
  BY <1>0, JobTypes DEF TypeOK, Superblock, Ciphertext
<1>2. keys' \subseteq Key_ID
  BY <1>0, <1>1 DEF Crypto
<1>3. \E step \in Steps \ {"Read_SB", "Read_Current_SB", "Rekey_VBA_In_VBD",
                           "VBD_Ext_Step_In_VBD"} : Answer(step, job)
  BY DEF Crypto, Steps
<1> QED BY <1>0, <1>2, <1>3, JobIsKept, AnswerTInv

(* What is written back are blocks as they are cached. *)
LEMMA WrittenType ==
  ASSUME TypeOK, NEW T \in SUBSET Tree
  PROVE  /\ Written(T) \in Device
         /\ Written(T).superblocks = device.superblocks
         /\ Written(T).trees = [t \in Tree |-> IF t \in T THEN cached[t] ELSE device.trees[t]]
<1>1. device \in Device /\ cached \in [Tree -> Content]
  BY DEF TypeOK
<1> DEFINE trees == [t \in Tree |-> IF t \in T THEN cached[t] ELSE device.trees[t]]
<1>2. trees \in [Tree -> Content]
  BY <1>1 DEF Device
<1>3. Written(T) = [device EXCEPT !.trees = trees,
                                  !.unsynced_trees = device.unsynced_trees \cup T]
  BY <1>1 DEF Written, Device
<1> HIDE DEF trees
<1>4. /\ Written(T) \in Device
      /\ Written(T).superblocks = device.superblocks
      /\ Written(T).trees = trees
  BY <1>1, <1>2, <1>3 DEF Device
<1> QED BY <1>4 DEF trees

LEMMA CacheSyncTInv == IInv /\ KInv /\ TInv /\ Cache_Sync => TInv'
<1> SUFFICES ASSUME IInv, KInv, TInv, Cache_Sync PROVE TInv'
  OBVIOUS
<1>0. /\ TypeOK /\ UNCHANGED <<keys, secured, cached, raised>>
      /\ keys \subseteq Key_ID /\ cached \in [Tree -> Content]
      /\ secured \in Superblock /\ job \in Job
      /\ Answer("Sync_Cache", job) /\ device' = Written(Dirty)
  BY DEF Cache_Sync, TInv, TypeOK
<1>1. Dirty \in SUBSET Tree
  BY DEF Dirty
<1>2. device' \in Device /\ device'.superblocks = device.superblocks
  BY <1>0, <1>1, WrittenType
<1> QED BY <1>0, <1>2, JobIsKept, AnswerTInv DEF Steps

LEMMA CacheWriteBackTInv == TInv /\ Cache_Write_Back => TInv'
<1> SUFFICES ASSUME TInv, Cache_Write_Back PROVE TInv'
  OBVIOUS
<1>0. /\ TypeOK
      /\ UNCHANGED <<sb, sb_idx, curr_gen, job, keys, secured, cached, restarts, raised>>
  BY DEF Cache_Write_Back, TInv
<1>1. PICK t \in Dirty : device' = Written({t})
  BY DEF Cache_Write_Back
<1>2. device' \in Device /\ device'.superblocks = device.superblocks
  BY <1>0, <1>1, WrittenType DEF Dirty
<1> QED BY <1>0, <1>2 DEF TInv, TypeOK, GenerationFits, KeyFits, SnapshotsPast, Past,
       Taking_Over, StartTakes, Chosen_Read, NoneAfterRestart, Starting, Working, NoJob, At,
       Completed

LEMMA BlockIOTInv == IInv /\ KInv /\ TInv /\ Block_IO => TInv'
<1> SUFFICES ASSUME IInv, KInv, TInv, Block_IO PROVE TInv'
  OBVIOUS
<1>0. /\ TypeOK /\ UNCHANGED <<keys, secured, cached, raised>>
      /\ keys \subseteq Key_ID /\ cached \in [Tree -> Content] /\ device \in Device
      /\ secured \in Superblock /\ job \in Job /\ sb_idx \in Superblocks_Index
  BY DEF Block_IO, TInv, TypeOK
<1>1. ASSUME NEW step \in {"Read_SB", "Read_Current_SB"}, NEW i \in Superblocks_Index,
             i = IF step = "Read_SB" THEN job.Read_SB_Idx ELSE job.SB_Idx,
             Answer(step, [job EXCEPT !.SB_Ciphertext = device.superblocks[i]]),
             UNCHANGED device
      PROVE  TInv'
  <2> DEFINE j == [job EXCEPT !.SB_Ciphertext = device.superblocks[i]]
  <2>1. device.superblocks[i] \in Ciphertext
    BY <1>0 DEF Device
  <2>2. j \in Job /\ Kept_Of(j)
    BY <1>0, <2>1, JobTypes, FieldsOfJob DEF Kept_Of, IInv, Shape
  <2>3. j.SB_Ciphertext = device.superblocks[i]
    BY <1>0 DEF Job
  <2>4. Answer(step, j)
    BY <1>1
  <2> HIDE DEF j
  <2> QED BY <1>0, <1>1, <2>2, <2>3, <2>4, AnswerTInv DEF Steps
<1>2. CASE /\ Answer("Write_SB", job)
           /\ device' = [device EXCEPT !.superblocks[sb_idx] = job.SB_Ciphertext,
                                       !.unsynced_sbs = @ \cup {sb_idx}]
  <2>1. job.op # "Initialize"
    BY <1>2, JobIsKept, AnswerToJob DEF KInv, StepOfOperation, Copied
  <2>2. device' \in Device
    <3> DEFINE sbs == [device.superblocks EXCEPT ![sb_idx] = job.SB_Ciphertext]
    <3>1. sbs \in [Superblocks_Index -> Ciphertext]
      BY <1>0, JobTypes DEF Device
    <3>2. device' = [device EXCEPT !.superblocks = sbs,
                                   !.unsynced_sbs = device.unsynced_sbs \cup {sb_idx}]
      BY <1>0, <1>2 DEF Device
    <3> HIDE DEF sbs
    <3> QED BY <1>0, <3>1, <3>2 DEF Device
  <2> QED BY <1>0, <1>2, <2>1, <2>2, JobIsKept, AnswerTInv DEF Steps
<1>3. CASE /\ Answer("Sync_Blk_IO", job)
           /\ device' = [device EXCEPT !.unsynced_sbs = {}, !.unsynced_trees = {}]
  <2>1. device' \in Device /\ device'.superblocks = device.superblocks
    BY <1>0, <1>3 DEF Device
  <2> QED BY <1>0, <1>3, <2>1, JobIsKept, AnswerTInv DEF Steps
<1>4. {job.SB_Idx, job.Read_SB_Idx} \subseteq Superblocks_Index
  BY <1>0, JobTypes
<1> QED BY <1>1, <1>2, <1>3, <1>4 DEF Block_IO

(* What is left of a number of blocks is less. *)
LEMMA LeftFits ==
  ASSUME TypeOK, NEW left \in 0 .. job.Nr_Of_Blks - 1
  PROVE  left \in 0 .. Max_Nr_Of_Blks
<1>1. job.Nr_Of_Blks \in 0 .. Max_Nr_Of_Blks
  BY JobTypes
<1> QED BY <1>1, SuperblockAssumption

LEMMA FTResizingTInv == IInv /\ KInv /\ TInv /\ FT_Resizing => TInv'
<1> SUFFICES ASSUME IInv, KInv, TInv, FT_Resizing PROVE TInv'
  OBVIOUS
<1>0. /\ TypeOK /\ UNCHANGED <<keys, secured, cached, device, raised>>
      /\ keys \subseteq Key_ID /\ cached \in [Tree -> Content] /\ device \in Device
      /\ secured \in Superblock /\ job \in Job
  BY DEF FT_Resizing, TInv, TypeOK
<1>1. PICK left \in 0 .. job.Nr_Of_Blks - 1 :
        Answer("FT_Ext_Step_In_FT", [job EXCEPT !.Nr_Of_Blks = left])
  BY DEF FT_Resizing
<1> DEFINE j == [job EXCEPT !.Nr_Of_Blks = left]
<1>2. left \in 0 .. Max_Nr_Of_Blks
  BY <1>0, LeftFits
<1>3. j \in Job
  BY <1>0, <1>2, JobTypes
<1>6. Kept_Of(j) /\ j.SB_Ciphertext = job.SB_Ciphertext
  BY FieldsOfJob DEF Kept_Of, IInv, Shape
<1>4. Answer("FT_Ext_Step_In_FT", j)
  BY <1>1
<1> HIDE DEF j
<1> QED BY <1>0, <1>3, <1>4, <1>6, AnswerTInv DEF Steps

-----------------------------------------------------------------------------
(* Snapshots that are not kept are marked invalid, all else stays. *)
LEMMA DiscardIs ==
  ASSUME NEW snaps \in Snapshots_Type, NEW gen, NEW last
  PROVE  /\ Discard_Disposable_Snapshots(snaps, gen, last) \in Snapshots_Type
         /\ \A i \in Snapshots_Index :
              Discard_Disposable_Snapshots(snaps, gen, last)[i] =
                [snaps[i] EXCEPT !.Valid = Discard_Disposable_Snapshots(snaps, gen, last)[i].Valid]
         /\ \A i \in Snapshots_Index :
              Discard_Disposable_Snapshots(snaps, gen, last)[i].Valid
                <=> snaps[i].Valid /\ (snaps[i].Keep \/ snaps[i].Gen \in {gen, last})
<1> DEFINE new == Discard_Disposable_Snapshots(snaps, gen, last)
           ok(i) == snaps[i].Valid /\ \/ snaps[i].Keep
                                      \/ snaps[i].Gen \in {gen, last}
<1>1. new = [i \in Snapshots_Index |-> [snaps[i] EXCEPT !.Valid = ok(i)]]
  BY DEF Discard_Disposable_Snapshots
<1>2. ASSUME NEW i \in Snapshots_Index
      PROVE  new[i] \in Snapshot /\ new[i].Valid = ok(i)
             /\ new[i] = [snaps[i] EXCEPT !.Valid = new[i].Valid]
  <2>1. snaps[i] \in Snapshot /\ ok(i) \in BOOLEAN
    BY DEF Snapshots_Type
  <2>2. new[i] = [snaps[i] EXCEPT !.Valid = ok(i)]
    BY <1>1
  <2> HIDE DEF ok, new
  <2> QED BY <2>1, <2>2 DEF Snapshot
<1>3. new \in Snapshots_Type
  <2>1. DOMAIN new = Snapshots_Index /\ new = [i \in Snapshots_Index |-> new[i]]
    BY <1>1
  <2> HIDE DEF new
  <2> QED BY <1>2, <2>1 DEF Snapshots_Type
<1> HIDE DEF new
<1> QED BY <1>2, <1>3 DEF new

(* The fields that stay. *)
SameBut(new, old) ==
  new.Keep = old.Keep /\ new.Gen = old.Gen /\ new.PBA = old.PBA /\ new.Hash = old.Hash

LEMMA DiscardKeeps ==
  ASSUME NEW snaps \in Snapshots_Type, NEW gen, NEW last
  PROVE  /\ \A i \in Snapshots_Index :
              SameBut(Discard_Disposable_Snapshots(snaps, gen, last)[i], snaps[i])
         /\ Valid_Snaps(Discard_Disposable_Snapshots(snaps, gen, last)) =
              {i \in Valid_Snaps(snaps) : snaps[i].Keep \/ snaps[i].Gen \in {gen, last}}
         /\ Kept_Snaps(Discard_Disposable_Snapshots(snaps, gen, last)) = Kept_Snaps(snaps)
<1> DEFINE new == Discard_Disposable_Snapshots(snaps, gen, last)
<1>1. ASSUME NEW i \in Snapshots_Index
      PROVE  SameBut(new[i], snaps[i])
  <2>1. new[i] = [snaps[i] EXCEPT !.Valid = new[i].Valid] /\ snaps[i] \in Snapshot
    BY DiscardIs DEF Snapshots_Type
  <2> HIDE DEF new
  <2> QED BY <2>1 DEF Snapshot, SameBut
<1>2. \A i \in Snapshots_Index :
        new[i].Valid <=> snaps[i].Valid /\ (snaps[i].Keep \/ snaps[i].Gen \in {gen, last})
  BY DiscardIs
<1> HIDE DEF new
<1>3. Valid_Snaps(new) =
        {i \in Valid_Snaps(snaps) : snaps[i].Keep \/ snaps[i].Gen \in {gen, last}}
  BY <1>2 DEF Valid_Snaps
<1>4. Kept_Snaps(new) = Kept_Snaps(snaps)
  BY <1>1, <1>3 DEF Kept_Snaps, SameBut, Valid_Snaps
<1> QED BY <1>1, <1>3, <1>4 DEF new

-----------------------------------------------------------------------------
(* A snapshot that is rekeyed gets another block, and the new key for the  *)
(* address.                                                                *)
LEMMA RekeyedSnapIs ==
  ASSUME TypeOK, NEW snaps \in Snapshots_Type, NEW i \in Snapshots_Index, NEW t \in Tree,
         t = IF i = Newest_Snapshot_Idx(snaps) THEN <<curr_gen, curr_gen>>
                                               ELSE <<snaps[i].Gen, curr_gen>>
  PROVE  /\ Rekeyed_Snap(snaps, i) \in Snapshot
         /\ Rekeyed_Snap(snaps, i).Valid = snaps[i].Valid
         /\ Rekeyed_Snap(snaps, i).Keep = snaps[i].Keep
         /\ Rekeyed_Snap(snaps, i).Gen = snaps[i].Gen
         /\ Rekeyed_Snap(snaps, i).PBA = t
         /\ Rekeyed_Snap(snaps, i).Hash.data = snaps[i].Hash.data
         /\ Rekeyed_Snap(snaps, i).Hash.key =
              [snaps[i].Hash.key EXCEPT ![sb.Rekeying_VBA] = sb.Current_Key]
<1> DEFINE key == [snaps[i].Hash.key EXCEPT ![sb.Rekeying_VBA] = sb.Current_Key]
           h == [snaps[i].Hash EXCEPT !.key = key]
<1>1. snaps[i] \in Snapshot
  BY DEF Snapshots_Type
<1>2. key \in [VBA -> Key_ID]
  BY <1>1 DEF Snapshot, Content, TypeOK, Superblock
<1>3. Rekeyed_Snap(snaps, i) = [snaps[i] EXCEPT !.PBA = t, !.Hash = h]
  BY <1>1 DEF Rekeyed_Snap, Snapshot
<1> HIDE DEF key
<1>4. h \in Content /\ h.data = snaps[i].Hash.data /\ h.key = key
  BY <1>1, <1>2 DEF Snapshot, Content
<1> HIDE DEF h
<1> DEFINE new == [snaps[i] EXCEPT !.PBA = t, !.Hash = h]
<1>5. /\ new \in Snapshot /\ new.Valid = snaps[i].Valid /\ new.Keep = snaps[i].Keep
      /\ new.Gen = snaps[i].Gen /\ new.PBA = t /\ new.Hash = h
  BY <1>1, <1>4 DEF Snapshot
<1> HIDE DEF new
<1>6. Rekeyed_Snap(snaps, i) = new
  BY <1>3 DEF new
<1> QED BY <1>4, <1>5, <1>6 DEF key

(* The snapshots on which a rekeying or an extension works. *)
LEMMA RekeyingSnapsIs ==
  ASSUME TypeOK
  PROVE  /\ Rekeying_Snaps \in Snapshots_Type
         /\ \A i \in Snapshots_Index : SameBut(Rekeying_Snaps[i], sb.Snapshots[i])
         /\ Valid_Snaps(Rekeying_Snaps) =
              {i \in Valid_Snaps(sb.Snapshots) :
                 \/ sb.Snapshots[i].Keep
                 \/ sb.Snapshots[i].Gen \in {curr_gen, sb.Last_Secured_Generation}}
         /\ Kept_Snaps(Rekeying_Snaps) = Kept_Snaps(sb.Snapshots)
         /\ Past(sb.Snapshots) => Past(Rekeying_Snaps)
<1>1. sb.Snapshots \in Snapshots_Type
  BY DEF TypeOK, Superblock, Snapshots_Type
<1>2. Rekeying_Snaps \in Snapshots_Type
  BY <1>1, DiscardIs DEF Rekeying_Snaps
<1>3. \A i \in Snapshots_Index : SameBut(Rekeying_Snaps[i], sb.Snapshots[i])
  BY <1>1, DiscardKeeps DEF Rekeying_Snaps
<1>4. /\ Valid_Snaps(Rekeying_Snaps) =
           {i \in Valid_Snaps(sb.Snapshots) :
              \/ sb.Snapshots[i].Keep
              \/ sb.Snapshots[i].Gen \in {curr_gen, sb.Last_Secured_Generation}}
      /\ Kept_Snaps(Rekeying_Snaps) = Kept_Snaps(sb.Snapshots)
  BY <1>1, DiscardKeeps DEF Rekeying_Snaps
<1>5. Past(sb.Snapshots) => Past(Rekeying_Snaps)
  BY <1>3 DEF Past, SameBut
<1> QED BY <1>2, <1>3, <1>4, <1>5

(* What a rekeying makes of them. *)
Rekeyed_Snaps ==
  [i \in Snapshots_Index |->
     IF i \in Rekeyed_Idxs(Rekeying_Snaps) THEN Rekeyed_Snap(Rekeying_Snaps, i)
                                           ELSE Rekeying_Snaps[i]]

Rekeyed_Cached ==
  [t \in Tree |->
     IF \E i \in Rekeyed_Idxs(Rekeying_Snaps) : Rekeyed_Snaps[i].PBA = t
       THEN (CHOOSE x \in {Rekeyed_Snaps[i] : i \in Rekeyed_Idxs(Rekeying_Snaps)} :
               x.PBA = t).Hash
       ELSE cached[t]]

LEMMA RekeyedSnapsAre ==
  ASSUME TypeOK, curr_gen <= Max_Generation, Past(sb.Snapshots)
  PROVE  /\ Rekeyed_Snaps \in Snapshots_Type
         /\ Past(Rekeyed_Snaps)
         /\ Valid_Snaps(Rekeyed_Snaps) = Valid_Snaps(Rekeying_Snaps)
         /\ \A i \in Snapshots_Index : Rekeyed_Snaps[i].Keep = sb.Snapshots[i].Keep
         /\ \A i \in Snapshots_Index : Rekeyed_Snaps[i].Gen = sb.Snapshots[i].Gen
         /\ \A i \in Valid_Snaps(Rekeying_Snaps) :
              /\ Rekeyed_Snaps[i].PBA =
                   IF i = Newest_Snapshot_Idx(Rekeying_Snaps)
                     THEN <<curr_gen, curr_gen>> ELSE <<sb.Snapshots[i].Gen, curr_gen>>
              /\ Rekeyed_Snaps[i].Hash.data = sb.Snapshots[i].Hash.data
              /\ Rekeyed_Snaps[i].Hash.key =
                   [sb.Snapshots[i].Hash.key EXCEPT ![sb.Rekeying_VBA] = sb.Current_Key]
<1>0. /\ Rekeying_Snaps \in Snapshots_Type /\ Past(Rekeying_Snaps)
      /\ \A i \in Snapshots_Index : SameBut(Rekeying_Snaps[i], sb.Snapshots[i])
  BY RekeyingSnapsIs
<1> DEFINE old == Rekeying_Snaps
           pba(i) == IF i = Newest_Snapshot_Idx(old) THEN <<curr_gen, curr_gen>>
                                                     ELSE <<old[i].Gen, curr_gen>>
<1>1. \A i \in Snapshots_Index : pba(i) \in Tree
  BY <1>0, GenerationNamesBlocks DEF Snapshots_Type, Snapshot, Past
<1> HIDE DEF old
<1>2. ASSUME NEW i \in Snapshots_Index
      PROVE  /\ Rekeyed_Snaps[i] \in Snapshot
             /\ Rekeyed_Snaps[i].Valid = old[i].Valid
             /\ Rekeyed_Snaps[i].Keep = sb.Snapshots[i].Keep
             /\ Rekeyed_Snaps[i].Gen = sb.Snapshots[i].Gen
  <2>1. CASE i \in Rekeyed_Idxs(old)
    <3>1. Rekeyed_Snaps[i] = Rekeyed_Snap(old, i)
      BY <2>1 DEF Rekeyed_Snaps, old
    <3>2. pba(i) \in Tree /\ old \in Snapshots_Type
      BY <1>0, <1>1 DEF old
    <3>3. /\ Rekeyed_Snap(old, i) \in Snapshot
          /\ Rekeyed_Snap(old, i).Valid = old[i].Valid
          /\ Rekeyed_Snap(old, i).Keep = old[i].Keep
          /\ Rekeyed_Snap(old, i).Gen = old[i].Gen
      <4> DEFINE t == pba(i)
      <4>1. t = IF i = Newest_Snapshot_Idx(old) THEN <<curr_gen, curr_gen>>
                                                ELSE <<old[i].Gen, curr_gen>>
        OBVIOUS
      <4> HIDE DEF t, pba
      <4> QED BY <3>2, <4>1, RekeyedSnapIs DEF t
    <3>4. SameBut(old[i], sb.Snapshots[i])
      BY <1>0 DEF old
    <3> QED BY <3>1, <3>3, <3>4 DEF SameBut
  <2>2. CASE i \notin Rekeyed_Idxs(old)
    <3>1. Rekeyed_Snaps[i] = old[i]
      BY <2>2 DEF Rekeyed_Snaps, old, Rekeyed_Idxs
    <3>2. old[i] \in Snapshot /\ SameBut(old[i], sb.Snapshots[i])
      BY <1>0 DEF old, Snapshots_Type
    <3> QED BY <3>1, <3>2 DEF SameBut
  <2> QED BY <2>1, <2>2
<1>3. Rekeyed_Snaps \in Snapshots_Type
  <2>1. Rekeyed_Snaps = [i \in Snapshots_Index |-> Rekeyed_Snaps[i]]
    BY DEF Rekeyed_Snaps
  <2> QED BY <1>2, <2>1 DEF Snapshots_Type
<1>4. Past(Rekeyed_Snaps)
  BY <1>2 DEF Past
<1>5. Valid_Snaps(Rekeyed_Snaps) = Valid_Snaps(old)
  BY <1>2 DEF Valid_Snaps
<1>6. ASSUME NEW i \in Valid_Snaps(old)
      PROVE  /\ Rekeyed_Snaps[i].PBA =
                  IF i = Newest_Snapshot_Idx(old)
                    THEN <<curr_gen, curr_gen>> ELSE <<sb.Snapshots[i].Gen, curr_gen>>
             /\ Rekeyed_Snaps[i].Hash.data = sb.Snapshots[i].Hash.data
             /\ Rekeyed_Snaps[i].Hash.key =
                  [sb.Snapshots[i].Hash.key EXCEPT ![sb.Rekeying_VBA] = sb.Current_Key]
  <2>1. i \in Snapshots_Index
    BY DEF Valid_Snaps
  <2>2. Rekeyed_Snaps[i] = Rekeyed_Snap(old, i)
    BY <2>1 DEF Rekeyed_Snaps, old, Rekeyed_Idxs
  <2>3. pba(i) \in Tree /\ old \in Snapshots_Type
    BY <1>0, <1>1, <2>1 DEF old
  <2>4. /\ Rekeyed_Snap(old, i).PBA = pba(i)
        /\ Rekeyed_Snap(old, i).Hash.data = old[i].Hash.data
        /\ Rekeyed_Snap(old, i).Hash.key =
              [old[i].Hash.key EXCEPT ![sb.Rekeying_VBA] = sb.Current_Key]
    BY <2>1, <2>3, RekeyedSnapIs
  <2>5. old[i].Hash = sb.Snapshots[i].Hash /\ old[i].Gen = sb.Snapshots[i].Gen
    BY <1>0, <2>1 DEF old, SameBut
  <2> QED BY <2>2, <2>4, <2>5
<1> QED BY <1>2, <1>3, <1>4, <1>5, <1>6 DEF old

(* What an extension makes of them: a snapshot of the new tree. *)
Extended_Newest == Newest_Snapshot_Idx(Rekeying_Snaps)

Extended_Snap ==
  [Rekeying_Snaps[Extended_Newest] EXCEPT
     !.Gen = curr_gen, !.PBA = <<curr_gen, curr_gen>>, !.Keep = FALSE]

Extended_Idx ==
  IF Rekeying_Snaps[Extended_Newest].Gen < curr_gen
    THEN First(Snapshots_Index \ Valid_Snaps(Rekeying_Snaps)) ELSE Extended_Newest

Extended_Snaps == [Rekeying_Snaps EXCEPT ![Extended_Idx] = Extended_Snap]

LEMMA ExtendedSnapsAre ==
  ASSUME TypeOK, curr_gen <= Max_Generation, Past(sb.Snapshots),
         job.op = "VBD_Extension_Step", ~VBD_Rekeying_Raises
  PROVE  /\ Extended_Snaps \in Snapshots_Type /\ Past(Extended_Snaps)
         /\ Extended_Newest \in Valid_Snaps(Rekeying_Snaps)
         /\ \A k \in Valid_Snaps(Rekeying_Snaps) :
              sb.Snapshots[k].Gen <= sb.Snapshots[Extended_Newest].Gen
         /\ Extended_Idx \in Snapshots_Index
         /\ IF sb.Snapshots[Extended_Newest].Gen < curr_gen
              THEN Extended_Idx \notin Valid_Snaps(Rekeying_Snaps)
              ELSE Extended_Idx = Extended_Newest
         /\ Extended_Snap \in Snapshot
         /\ Extended_Snap.Valid /\ ~Extended_Snap.Keep /\ Extended_Snap.Gen = curr_gen
         /\ Extended_Snap.PBA = <<curr_gen, curr_gen>>
         /\ Extended_Snap.Hash = sb.Snapshots[Extended_Newest].Hash
<1> DEFINE old == Rekeying_Snaps
           n == Extended_Newest
<1>0. /\ old \in Snapshots_Type /\ Past(old)
      /\ \A i \in Snapshots_Index : SameBut(old[i], sb.Snapshots[i])
  BY RekeyingSnapsIs
<1>1. /\ Valid_Snaps(old) # {}
      /\ old[n].Gen < curr_gen => Valid_Snaps(old) # Snapshots_Index
  BY DEF VBD_Rekeying_Raises, Extended_Newest
<1>2. n \in Valid_Snaps(old) /\ \A k \in Valid_Snaps(old) : old[k].Gen <= old[n].Gen
  BY <1>0, <1>1, NewestIs DEF Extended_Newest
<1>3. Valid_Snaps(old) \subseteq Snapshots_Index
  BY DEF Valid_Snaps
<1>4. \A k \in Valid_Snaps(old) : sb.Snapshots[k].Gen <= sb.Snapshots[n].Gen
  BY <1>0, <1>2, <1>3 DEF SameBut
<1>5. /\ Extended_Idx \in Snapshots_Index
      /\ IF old[n].Gen < curr_gen THEN Extended_Idx \notin Valid_Snaps(old)
                                  ELSE Extended_Idx = n
  <2>1. CASE old[n].Gen < curr_gen
    <3> DEFINE free == Snapshots_Index \ Valid_Snaps(old)
    <3>0. \E k \in Snapshots_Index : k \notin Valid_Snaps(old)
      BY <1>1, <1>3, <2>1
    <3>1. free \in SUBSET Nat /\ free # {}
      BY <3>0, SuperblockAssumption DEF Snapshots_Index
    <3>2. First(free) \in free
      <4> HIDE DEF free
      <4> QED BY <3>1, FirstIs
    <3> QED BY <2>1, <3>2 DEF Extended_Idx
  <2>2. CASE ~(old[n].Gen < curr_gen)
    BY <1>2, <1>3, <2>2 DEF Extended_Idx
  <2> QED BY <2>1, <2>2
<1>6. old[n] \in Snapshot /\ SameBut(old[n], sb.Snapshots[n]) /\ old[n].Valid
  BY <1>0, <1>2, <1>3 DEF Snapshots_Type, Valid_Snaps
<1>7. /\ Extended_Snap \in Snapshot
      /\ Extended_Snap.Valid /\ ~Extended_Snap.Keep /\ Extended_Snap.Gen = curr_gen
      /\ Extended_Snap.PBA = <<curr_gen, curr_gen>>
      /\ Extended_Snap.Hash = sb.Snapshots[n].Hash
  <2>1. <<curr_gen, curr_gen>> \in Tree /\ curr_gen \in Generation
    BY GenerationNamesBlocks
  <2>2. Extended_Snap = [old[n] EXCEPT !.Gen = curr_gen, !.PBA = <<curr_gen, curr_gen>>,
                                       !.Keep = FALSE]
    BY DEF Extended_Snap
  <2> HIDE DEF old, n
  <2> QED BY <1>6, <2>1, <2>2 DEF Snapshot, SameBut
<1>8. Extended_Snaps \in Snapshots_Type
  BY <1>0, <1>7 DEF Extended_Snaps, Snapshots_Type
<1>9. Past(Extended_Snaps)
  <2>1. \A i \in Snapshots_Index :
          Extended_Snaps[i] = IF i = Extended_Idx THEN Extended_Snap ELSE old[i]
    BY <1>0 DEF Extended_Snaps, Snapshots_Type
  <2>2. curr_gen <= curr_gen
    BY GenerationNamesBlocks, SuperblockAssumption DEF Generation
  <2> HIDE DEF old
  <2> QED BY <1>0, <1>7, <2>1, <2>2 DEF Past
<1> QED BY <1>2, <1>4, <1>5, <1>6, <1>7, <1>8, <1>9 DEF SameBut

(* The two steps, by what they put into the job and the cache.             *)
Rekeyed ==
  /\ Answer("Rekey_VBA_In_VBD", [job EXCEPT !.Snapshots = Rekeyed_Snaps])
  /\ cached' = Rekeyed_Cached

Extended(left) ==
  /\ Answer("VBD_Ext_Step_In_VBD",
            [job EXCEPT !.Nr_Of_Blks = left, !.Snapshots = Extended_Snaps])
  /\ cached' = [cached EXCEPT ![<<curr_gen, curr_gen>>] =
                                Rekeying_Snaps[Extended_Newest].Hash]

LEMMA VBDRekeyingIs ==
  ASSUME VBD_Rekeying, ~Raise_Program_Error
  PROVE  /\ ~VBD_Rekeying_Raises
         /\ UNCHANGED <<keys, secured, device, raised>>
         /\ Rekeyed \/ \E left \in 0 .. job.Nr_Of_Blks - 1 : Extended(left)
<1>1. /\ ~VBD_Rekeying_Raises
      /\ UNCHANGED <<keys, secured, device, raised>>
      /\ \/ VBD_Rekeying_Rekey_VBA
         \/ \E left \in 0 .. job.Nr_Of_Blks - 1 : VBD_Rekeying_VBD_Extension_Step(left)
  BY DEF VBD_Rekeying
<1>2. CASE VBD_Rekeying_Rekey_VBA
  BY <1>1, <1>2 DEF VBD_Rekeying_Rekey_VBA, Rekeyed, Rekeyed_Snaps, Rekeyed_Cached
<1>3. CASE \E left \in 0 .. job.Nr_Of_Blks - 1 : VBD_Rekeying_VBD_Extension_Step(left)
  <2>1. PICK left \in 0 .. job.Nr_Of_Blks - 1 : VBD_Rekeying_VBD_Extension_Step(left)
    BY <1>3
  <2>2. Extended(left)
    BY <2>1 DEF VBD_Rekeying_VBD_Extension_Step, Extended, Extended_Snaps, Extended_Snap,
       Extended_Idx, Extended_Newest
  <2> QED BY <1>1, <2>2
<1> QED BY <1>1, <1>2, <1>3

(* The generation and the snapshots on which these two steps work.         *)
LEMMA WorksInGeneration ==
  ASSUME IInv, KInv, TInv,
         NEW step \in {"Rekey_VBA_In_VBD", "VBD_Ext_Step_In_VBD"},
         job.state = <<step, "Pending">>
  PROVE  /\ TypeOK /\ curr_gen <= Max_Generation /\ Past(sb.Snapshots) /\ restarts = 0
         /\ job.op = IF step = "Rekey_VBA_In_VBD" THEN "Rekey_VBA" ELSE "VBD_Extension_Step"
         /\ Working /\ sb.State # "Invalid"
<1>1. ~At({"Secure_SB"}) /\ At({step})
  BY StatesDiffer DEF At
<1>2. job.op = IF step = "Rekey_VBA_In_VBD" THEN "Rekey_VBA" ELSE "VBD_Extension_Step"
  BY <1>1 DEF KInv, StepOfOperation
<1>3. ~NoJob /\ ~Starting /\ Working
  BY <1>2, StatesDiffer DEF NoJob, Starting, Working
<1>4. restarts = 0
  BY <1>2 DEF TInv, NoneAfterRestart, TypeOK
<1> QED BY <1>1, <1>2, <1>3, <1>4 DEF TInv, GenerationFits, KInv, StateOfOperation,
             SnapshotsPast

(* A block that is rekeyed holds what its snapshot tells. *)
LEMMA RekeyedCachedIs ==
  ASSUME TypeOK, Rekeyed_Snaps \in Snapshots_Type
  PROVE  /\ Rekeyed_Cached \in [Tree -> Content]
         /\ \A t \in Tree :
              \/ /\ \A i \in Valid_Snaps(Rekeying_Snaps) : Rekeyed_Snaps[i].PBA # t
                 /\ Rekeyed_Cached[t] = cached[t]
              \/ \E i \in Valid_Snaps(Rekeying_Snaps) :
                   Rekeyed_Snaps[i].PBA = t /\ Rekeyed_Cached[t] = Rekeyed_Snaps[i].Hash
<1> DEFINE V == Valid_Snaps(Rekeying_Snaps)
           X == {Rekeyed_Snaps[i] : i \in V}
<1>1. V \subseteq Snapshots_Index
  BY DEF Valid_Snaps
<1>2. ASSUME NEW t \in Tree
      PROVE  /\ Rekeyed_Cached[t] \in Content
             /\ \/ (\A i \in V : Rekeyed_Snaps[i].PBA # t) /\ Rekeyed_Cached[t] = cached[t]
                \/ \E i \in V : /\ Rekeyed_Snaps[i].PBA = t
                                /\ Rekeyed_Cached[t] = Rekeyed_Snaps[i].Hash
  <2> DEFINE x == CHOOSE y \in X : y.PBA = t
  <2>1. CASE \E i \in V : Rekeyed_Snaps[i].PBA = t
    <3>1. x \in X /\ x.PBA = t
      BY <2>1
    <3>2. Rekeyed_Cached[t] = x.Hash
      BY <2>1 DEF Rekeyed_Cached, Rekeyed_Idxs
    <3>3. PICK i \in V : x = Rekeyed_Snaps[i]
      BY <3>1
    <3>4. Rekeyed_Snaps[i] \in Snapshot
      BY <1>1 DEF Snapshots_Type
    <3> QED BY <3>1, <3>2, <3>3, <3>4 DEF Snapshot
  <2>2. CASE ~\E i \in V : Rekeyed_Snaps[i].PBA = t
    BY <2>2 DEF Rekeyed_Cached, Rekeyed_Idxs, TypeOK
  <2> QED BY <2>1, <2>2
<1>3. Rekeyed_Cached = [t \in Tree |-> Rekeyed_Cached[t]]
  BY DEF Rekeyed_Cached
<1> QED BY <1>2, <1>3

(* The snapshots are of the generations that there were. *)
LEMMA VBDRekeyingTInv == IInv /\ KInv /\ TInv /\ VBD_Rekeying => TInv'
<1> SUFFICES ASSUME IInv, KInv, TInv, VBD_Rekeying, ~Raise_Program_Error PROVE TInv'
  BY RaiseTInv
<1>0. /\ TypeOK /\ UNCHANGED <<keys, secured, device, raised>>
      /\ keys \subseteq Key_ID /\ cached \in [Tree -> Content] /\ device \in Device
      /\ secured \in Superblock /\ job \in Job
  BY VBDRekeyingIs DEF TInv, TypeOK
<1>1. ASSUME NEW step \in {"Rekey_VBA_In_VBD", "VBD_Ext_Step_In_VBD"},
             NEW j \in Job, Answer(step, j), NEW snaps \in Snapshots_Type, Past(snaps),
             Valid_Snaps(snaps) # {}, j.Snapshots = snaps, Kept_Of(j), cached' \in [Tree -> Content]
      PROVE  TInv'
  <2>1. job.op # "Initialize" /\ step \in Steps
    BY <1>1, AnswerToJob DEF KInv, StepOfOperation, Steps
  <2>2. Past(j.Snapshots) /\ Valid_Snaps(j.Snapshots) # {}
    BY <1>1
  <2> QED BY <1>0, <1>1, <2>1, <2>2, AnswerTInv
<1>2. CASE Rekeyed
  <2> DEFINE j == [job EXCEPT !.Snapshots = Rekeyed_Snaps]
  <2>1. Answer("Rekey_VBA_In_VBD", j)
    BY <1>2 DEF Rekeyed
  <2>2. curr_gen <= Max_Generation /\ Past(sb.Snapshots)
    BY <2>1, WorksInGeneration DEF Answer
  <2>3. Rekeyed_Snaps \in Snapshots_Type /\ Past(Rekeyed_Snaps)
        /\ Valid_Snaps(Rekeyed_Snaps) # {}
    BY <1>0, <2>2, RekeyedSnapsAre, VBDRekeyingIs DEF VBD_Rekeying_Raises
  <2>4. j \in Job /\ j.Snapshots = Rekeyed_Snaps
    BY <1>0, <2>3, JobTypes DEF Job
  <2>5. Kept_Of(j)
    BY FieldsOfJob DEF Kept_Of, IInv, Shape
  <2>6. cached' \in [Tree -> Content]
    BY <1>0, <1>2, <2>3, RekeyedCachedIs DEF Rekeyed
  <2> HIDE DEF j
  <2> QED BY <1>1, <2>1, <2>3, <2>4, <2>5, <2>6
<1>3. ASSUME NEW left \in 0 .. job.Nr_Of_Blks - 1, Extended(left)
      PROVE  TInv'
  <2> DEFINE j == [job EXCEPT !.Nr_Of_Blks = left, !.Snapshots = Extended_Snaps]
  <2>1. Answer("VBD_Ext_Step_In_VBD", j)
    BY <1>3 DEF Extended
  <2>2. curr_gen <= Max_Generation /\ Past(sb.Snapshots) /\ job.op = "VBD_Extension_Step"
    BY <2>1, WorksInGeneration DEF Answer
  <2>3. Extended_Snaps \in Snapshots_Type /\ Past(Extended_Snaps)
        /\ Extended_Newest \in Valid_Snaps(Rekeying_Snaps)
        /\ Extended_Idx \in Snapshots_Index /\ Extended_Snap.Valid
    BY <1>0, <2>2, ExtendedSnapsAre, VBDRekeyingIs
  <2>8. Valid_Snaps(Extended_Snaps) # {}
    <3>1. Extended_Snaps[Extended_Idx].Valid
      BY <1>0, <2>3, RekeyingSnapsIs DEF Extended_Snaps, Snapshots_Type
    <3> QED BY <2>3, <3>1 DEF Valid_Snaps
  <2>4. j \in Job
    BY <1>0, <2>3, LeftFits, JobTypes
  <2>5. Kept_Of(j) /\ j.Snapshots = Extended_Snaps
    BY FieldsOfJob DEF Kept_Of, IInv, Shape
  <2>6. Rekeying_Snaps[Extended_Newest].Hash \in Content
    BY <1>0, <2>3, RekeyingSnapsIs DEF Valid_Snaps, Snapshots_Type, Snapshot
  <2>7. cached' \in [Tree -> Content]
    BY <1>0, <1>3, <2>6 DEF Extended
  <2> HIDE DEF j
  <2> QED BY <1>1, <2>1, <2>3, <2>4, <2>5, <2>7, <2>8
<1> QED BY <1>2, <1>3, VBDRekeyingIs

-----------------------------------------------------------------------------
(* What an operation can rely on, at whatever step but the last. *)
LEMMA WorkingIs ==
  ASSUME TInv, Working, ~At({"Secure_SB"})
  PROVE  /\ TypeOK /\ restarts = 0 /\ curr_gen <= Max_Generation /\ curr_gen \in Generation
         /\ KInv => sb.State # "Invalid" /\ Past(sb.Snapshots) /\ sb.Current_Key <= curr_gen + 1
<1>1. job.op \notin {"Initialize", "Invalid"}
  BY DEF Working, Starting, NoJob
<1>2. restarts = 0 /\ curr_gen <= Max_Generation /\ TypeOK
  BY <1>1 DEF TInv, TypeOK, GenerationFits, NoneAfterRestart
<1> QED BY <1>2, GenerationNamesBlocks DEF TInv, KInv, StateOfOperation, KeyFits, SnapshotsPast

(* An operation goes on to its next step. *)
LEMMA GoesOnTInv ==
  ASSUME KInv, TInv, Idle_Ctrl, Working, ~At({"Secure_SB"}),
         UNCHANGED <<sb_idx, curr_gen>>, sb' \in Superblock, job' \in Job, job'.op = job.op,
         NEW step \in Steps \ {"Secure_SB"}, job'.state = <<step, "Pending">>,
         Past(sb.Snapshots)', sb'.Current_Key <= curr_gen + 1,
         step \notin {"Add_Key"} \cup Copied => sb'.Current_Key <= curr_gen
  PROVE  TInv'
<1>1. TypeOK /\ restarts' = 0 /\ curr_gen' <= Max_Generation
      /\ UNCHANGED <<curr_gen, keys, secured, cached, device, restarts, raised>>
  BY WorkingIs DEF Idle_Ctrl
<1>2. TypeOK'
  BY <1>1 DEF TypeOK
<1>3. job'.op \notin {"Initialize", "Invalid"}
  BY DEF Working, Starting, NoJob
<1>4. ~Starting' /\ NoneAfterRestart' /\ StartTakes' /\ GenerationFits'
  BY <1>1, <1>3 DEF Starting, NoneAfterRestart, StartTakes, GenerationFits
<1>5. SnapshotsPast'
  BY NextToJob DEF SnapshotsPast, Taking_Over
<1>6. KeyFits'
  BY <1>1, NextToJob DEF KeyFits, Copied
<1> QED BY <1>2, <1>4, <1>5, <1>6 DEF TInv

(* An operation ends. *)
LEMMA EndsTInv ==
  ASSUME KInv, TInv, Idle_Ctrl, Working, NEW success \in BOOLEAN,
         job' = [job EXCEPT !.success = success, !.state = <<"Completed">>],
         UNCHANGED <<sb_idx, curr_gen>>, sb' \in Superblock,
         Past(sb.Snapshots)', sb'.Current_Key <= curr_gen
  PROVE  TInv'
<1>1. TypeOK /\ job' \in Job /\ job'.op = job.op /\ job'.state = <<"Completed">>
      /\ UNCHANGED <<curr_gen, keys, secured, cached, device, restarts, raised>>
  BY DEF TInv, TypeOK, Job, Idle_Ctrl
<1>2. TypeOK'
  BY <1>1 DEF TypeOK
<1>3. ~Starting' /\ ~Working' /\ NoneAfterRestart'
  BY <1>1 DEF Starting, NoJob, Working, TInv, NoneAfterRestart
<1> QED BY <1>1, <1>2, <1>3, NoStepTInv

(* Then keeps the type of the job. *)
LEMMA ThenType ==
  ASSUME TypeOK, NEW step \in Steps, Then(step)
  PROVE  /\ job' \in Job /\ job'.op = job.op /\ job'.state = <<step, "Pending">>
         /\ job'.Snapshots = job.Snapshots /\ job'.SB_Ciphertext = job.SB_Ciphertext
         /\ job'.Generation = job.Generation /\ job'.SB_Idx = job.SB_Idx
         /\ job'.SB_Found = job.SB_Found /\ job'.Read_SB_Idx = job.Read_SB_Idx
<1>1. job' = [job EXCEPT !.state = <<step, "Pending">>] /\ job \in Job
  BY DEF Then, TypeOK
<1>2. <<step, "Pending">> \in Steps \X {"Pending", "Completed"}
  OBVIOUS
<1> QED BY <1>1, <1>2 DEF Job

(* The copy, in which the current snapshot is of the current generation. *)
Copy_Of(s) == [s EXCEPT !.Snapshots[s.Curr_Snap].Gen = curr_gen]

LEMMA CopyOf ==
  ASSUME NEW s \in Superblock, curr_gen \in Generation
  PROVE  /\ Copy_Of(s) \in Superblock
         /\ Copy_Of(s).State = s.State /\ Copy_Of(s).Curr_Snap = s.Curr_Snap
         /\ Copy_Of(s).Current_Key = s.Current_Key
         /\ Copy_Of(s).Previous_Key = s.Previous_Key
         /\ Copy_Of(s).Rekeying_VBA = s.Rekeying_VBA
         /\ Copy_Of(s).Last_Secured_Generation = s.Last_Secured_Generation
         /\ Copy_Of(s).Snapshots \in Snapshots_Type
         /\ \A i \in Snapshots_Index :
              /\ Copy_Of(s).Snapshots[i].Valid = s.Snapshots[i].Valid
              /\ Copy_Of(s).Snapshots[i].Keep = s.Snapshots[i].Keep
              /\ Copy_Of(s).Snapshots[i].PBA = s.Snapshots[i].PBA
              /\ Copy_Of(s).Snapshots[i].Hash = s.Snapshots[i].Hash
              /\ Copy_Of(s).Snapshots[i].Gen =
                   IF i = s.Curr_Snap THEN curr_gen ELSE s.Snapshots[i].Gen
<1> DEFINE snap == [s.Snapshots[s.Curr_Snap] EXCEPT !.Gen = curr_gen]
           snaps == [s.Snapshots EXCEPT ![s.Curr_Snap] = snap]
<1>1. s.Snapshots \in Snapshots_Type /\ s.Curr_Snap \in Snapshots_Index
      /\ s.Snapshots[s.Curr_Snap] \in Snapshot
  BY DEF Superblock, Snapshots_Type
<1>2. /\ snap \in Snapshot /\ snap.Gen = curr_gen
      /\ snap.Valid = s.Snapshots[s.Curr_Snap].Valid /\ snap.Keep = s.Snapshots[s.Curr_Snap].Keep
      /\ snap.PBA = s.Snapshots[s.Curr_Snap].PBA /\ snap.Hash = s.Snapshots[s.Curr_Snap].Hash
  BY <1>1 DEF Snapshot
<1> HIDE DEF snap
<1>3. /\ snaps \in Snapshots_Type
      /\ \A i \in Snapshots_Index : snaps[i] = IF i = s.Curr_Snap THEN snap ELSE s.Snapshots[i]
  BY <1>1, <1>2 DEF Snapshots_Type
<1>4. Copy_Of(s) = [s EXCEPT !.Snapshots = snaps]
  BY <1>1 DEF Copy_Of, snap, Superblock, Snapshots_Type
<1> HIDE DEF snaps
<1>5. /\ Copy_Of(s) \in Superblock /\ Copy_Of(s).Snapshots = snaps
      /\ Copy_Of(s).State = s.State /\ Copy_Of(s).Curr_Snap = s.Curr_Snap
      /\ Copy_Of(s).Current_Key = s.Current_Key
      /\ Copy_Of(s).Previous_Key = s.Previous_Key
      /\ Copy_Of(s).Rekeying_VBA = s.Rekeying_VBA
      /\ Copy_Of(s).Last_Secured_Generation = s.Last_Secured_Generation
  BY <1>3, <1>4 DEF Superblock, Snapshots_Type
<1> QED BY <1>2, <1>3, <1>5

LEMMA CopyTypes ==
  ASSUME TypeOK, curr_gen \in Generation, NEW s \in Superblock, NEW j \in Job,
         Init_SB_Ciphertext(s, j)
  PROVE  /\ sb' = Copy_Of(s) /\ UNCHANGED <<sb_idx, curr_gen>>
         /\ job' \in Job /\ job'.op = j.op /\ job'.SB_Ciphertext = [plain |-> sb', values |-> {}]
         /\ job'.state = <<"Encrypt_Current_Key", "Pending">>
         /\ job'.Generation = j.Generation /\ job'.Snapshots = j.Snapshots
<1> DEFINE c == [plain |-> sb', values |-> {}]
<1>1. /\ sb' = Copy_Of(s) /\ UNCHANGED <<sb_idx, curr_gen>>
      /\ job' = [j EXCEPT !.SB_Ciphertext = c, !.state = <<"Encrypt_Current_Key", "Pending">>]
  BY DEF Init_SB_Ciphertext, Copy_Of
<1>2. c \in Ciphertext
  BY <1>1, CopyOf DEF Ciphertext
<1>3. <<"Encrypt_Current_Key", "Pending">> \in Steps \X {"Pending", "Completed"}
  BY DEF Steps
<1> HIDE DEF c
<1>4. /\ job' \in Job /\ job'.op = j.op /\ job'.SB_Ciphertext = c
      /\ job'.state = <<"Encrypt_Current_Key", "Pending">>
      /\ job'.Generation = j.Generation /\ job'.Snapshots = j.Snapshots
  BY <1>1, <1>2, <1>3 DEF Job
<1> QED BY <1>1, <1>4 DEF c

LEMMA CopyTInv ==
  ASSUME KInv, TInv, Idle_Ctrl, Working, ~At({"Secure_SB"}),
         NEW s \in Superblock, NEW j \in Job, Init_SB_Ciphertext(s, j), j.op = job.op,
         Past(s.Snapshots), s.Current_Key = sb.Current_Key
  PROVE  TInv'
<1>0. TypeOK /\ curr_gen \in Generation /\ sb.Current_Key <= curr_gen + 1
  BY WorkingIs
<1>1. /\ sb' = Copy_Of(s) /\ UNCHANGED <<sb_idx, curr_gen>>
      /\ job' \in Job /\ job'.op = j.op
      /\ job'.state = <<"Encrypt_Current_Key", "Pending">>
  BY <1>0, CopyTypes
<1>2. Copy_Of(s) \in Superblock /\ Copy_Of(s).Current_Key = s.Current_Key
  BY <1>0, CopyOf
<1>3. Past(Copy_Of(s).Snapshots)
  <2>1. curr_gen <= curr_gen
    BY <1>0, SuperblockAssumption DEF Generation
  <2> QED BY <1>0, <2>1, CopyOf DEF Past
<1> QED BY <1>0, <1>1, <1>2, <1>3, GoesOnTInv DEF Steps, Copied, Past

-----------------------------------------------------------------------------
(* The superblock before its copy, in the operations on snapshots.         *)
LEMMA SecureCurrGenIs ==
  ASSUME TypeOK, curr_gen \in Generation, NEW snaps \in Snapshots_Type
  PROVE  /\ Secure_Curr_Gen(snaps) \in Superblock
         /\ Secure_Curr_Gen(snaps).Snapshots =
              Discard_Disposable_Snapshots(snaps, sb.Last_Secured_Generation, curr_gen)
         /\ Secure_Curr_Gen(snaps).State = sb.State
         /\ Secure_Curr_Gen(snaps).Curr_Snap = sb.Curr_Snap
         /\ Secure_Curr_Gen(snaps).Current_Key = sb.Current_Key
         /\ Secure_Curr_Gen(snaps).Previous_Key = sb.Previous_Key
         /\ Secure_Curr_Gen(snaps).Rekeying_VBA = sb.Rekeying_VBA
         /\ Secure_Curr_Gen(snaps).Last_Secured_Generation = curr_gen
         /\ Past(snaps) => Past(Secure_Curr_Gen(snaps).Snapshots)
<1> DEFINE new == Discard_Disposable_Snapshots(snaps, sb.Last_Secured_Generation, curr_gen)
<1>1. new \in Snapshots_Type /\ sb \in Superblock
  BY DiscardIs DEF TypeOK
<1>2. Past(snaps) => Past(new)
  BY DiscardKeeps DEF Past, SameBut
<1>3. Secure_Curr_Gen(snaps) = [sb EXCEPT !.Snapshots = new, !.Last_Secured_Generation = curr_gen]
  BY DEF Secure_Curr_Gen
<1> HIDE DEF new
<1>4. /\ Secure_Curr_Gen(snaps) \in Superblock
      /\ Secure_Curr_Gen(snaps).Snapshots = new
      /\ Secure_Curr_Gen(snaps).State = sb.State
      /\ Secure_Curr_Gen(snaps).Curr_Snap = sb.Curr_Snap
      /\ Secure_Curr_Gen(snaps).Current_Key = sb.Current_Key
      /\ Secure_Curr_Gen(snaps).Previous_Key = sb.Previous_Key
      /\ Secure_Curr_Gen(snaps).Rekeying_VBA = sb.Rekeying_VBA
      /\ Secure_Curr_Gen(snaps).Last_Secured_Generation = curr_gen
  BY <1>1, <1>3 DEF Superblock, Snapshots_Type
<1> QED BY <1>2, <1>4 DEF new

(* The current snapshot is kept. *)
Keeping(s) == [s EXCEPT !.Snapshots[s.Curr_Snap].Keep = TRUE]

LEMMA KeepingIs ==
  ASSUME NEW s \in Superblock
  PROVE  /\ Keeping(s) \in Superblock
         /\ Keeping(s).State = s.State /\ Keeping(s).Curr_Snap = s.Curr_Snap
         /\ Keeping(s).Current_Key = s.Current_Key
         /\ Keeping(s).Previous_Key = s.Previous_Key
         /\ Keeping(s).Rekeying_VBA = s.Rekeying_VBA
         /\ Keeping(s).Last_Secured_Generation = s.Last_Secured_Generation
         /\ \A i \in Snapshots_Index :
              /\ Keeping(s).Snapshots[i].Valid = s.Snapshots[i].Valid
              /\ Keeping(s).Snapshots[i].Keep = (s.Snapshots[i].Keep \/ i = s.Curr_Snap)
              /\ Keeping(s).Snapshots[i].PBA = s.Snapshots[i].PBA
              /\ Keeping(s).Snapshots[i].Hash = s.Snapshots[i].Hash
              /\ Keeping(s).Snapshots[i].Gen = s.Snapshots[i].Gen
<1> DEFINE snap == [s.Snapshots[s.Curr_Snap] EXCEPT !.Keep = TRUE]
           snaps == [s.Snapshots EXCEPT ![s.Curr_Snap] = snap]
<1>1. s.Snapshots \in Snapshots_Type /\ s.Curr_Snap \in Snapshots_Index
      /\ s.Snapshots[s.Curr_Snap] \in Snapshot
  BY DEF Superblock, Snapshots_Type
<1>2. /\ snap \in Snapshot /\ snap.Keep = TRUE
      /\ snap.Valid = s.Snapshots[s.Curr_Snap].Valid /\ snap.Gen = s.Snapshots[s.Curr_Snap].Gen
      /\ snap.PBA = s.Snapshots[s.Curr_Snap].PBA /\ snap.Hash = s.Snapshots[s.Curr_Snap].Hash
  BY <1>1 DEF Snapshot
<1> HIDE DEF snap
<1>3. /\ snaps \in Snapshots_Type
      /\ \A i \in Snapshots_Index : snaps[i] = IF i = s.Curr_Snap THEN snap ELSE s.Snapshots[i]
  BY <1>1, <1>2 DEF Snapshots_Type
<1>4. Keeping(s) = [s EXCEPT !.Snapshots = snaps]
  BY <1>1 DEF Keeping, snap, Superblock, Snapshots_Type
<1> HIDE DEF snaps
<1>5. /\ Keeping(s) \in Superblock /\ Keeping(s).Snapshots = snaps
      /\ Keeping(s).State = s.State /\ Keeping(s).Curr_Snap = s.Curr_Snap
      /\ Keeping(s).Current_Key = s.Current_Key
      /\ Keeping(s).Previous_Key = s.Previous_Key
      /\ Keeping(s).Rekeying_VBA = s.Rekeying_VBA
      /\ Keeping(s).Last_Secured_Generation = s.Last_Secured_Generation
  BY <1>3, <1>4 DEF Superblock, Snapshots_Type
<1>6. \A i \in Snapshots_Index : s.Snapshots[i].Keep \in BOOLEAN
  BY <1>1 DEF Snapshots_Type, Snapshot
<1> QED BY <1>2, <1>3, <1>5, <1>6

(* One snapshot is no longer valid. *)
Without_Snap(i) == [sb.Snapshots EXCEPT ![i].Valid = FALSE]

LEMMA WithoutSnap ==
  ASSUME TypeOK, NEW i \in Snapshots_Index
  PROVE  /\ Without_Snap(i) \in Snapshots_Type
         /\ \A k \in Snapshots_Index : SameBut(Without_Snap(i)[k], sb.Snapshots[k])
         /\ Valid_Snaps(Without_Snap(i)) = Valid_Snaps(sb.Snapshots) \ {i}
         /\ Past(sb.Snapshots) => Past(Without_Snap(i))
<1> DEFINE snap == [sb.Snapshots[i] EXCEPT !.Valid = FALSE]
<1>1. sb.Snapshots \in Snapshots_Type /\ sb.Snapshots[i] \in Snapshot
  BY DEF TypeOK, Superblock, Snapshots_Type
<1>2. snap \in Snapshot /\ snap.Valid = FALSE /\ SameBut(snap, sb.Snapshots[i])
  BY <1>1 DEF Snapshot, SameBut
<1>3. Without_Snap(i) = [sb.Snapshots EXCEPT ![i] = snap]
  BY <1>1 DEF Without_Snap, Snapshots_Type
<1> HIDE DEF snap
<1>4. /\ Without_Snap(i) \in Snapshots_Type
      /\ \A k \in Snapshots_Index : Without_Snap(i)[k] = IF k = i THEN snap ELSE sb.Snapshots[k]
  BY <1>1, <1>2, <1>3 DEF Snapshots_Type
<1>5. \A k \in Snapshots_Index : SameBut(Without_Snap(i)[k], sb.Snapshots[k])
  BY <1>2, <1>4 DEF SameBut
<1>6. Valid_Snaps(Without_Snap(i)) = Valid_Snaps(sb.Snapshots) \ {i}
  BY <1>2, <1>4 DEF Valid_Snaps
<1> QED BY <1>4, <1>5, <1>6 DEF Past, SameBut

LEMMA ShortOperationsTInv ==
  ASSUME IInv, KInv, TInv, Idle_Ctrl,
         Execute_Sync \/ Execute_Create_Snapshot \/ Execute_Discard_Snapshot
  PROVE  TInv'
<1>1. ASSUME NEW op \in {"Sync", "Create_Snapshot", "Discard_Snapshot"}, Submitted(op)
      PROVE  /\ Working /\ ~At({"Secure_SB"})
             /\ TypeOK /\ curr_gen \in Generation /\ Past(sb.Snapshots) /\ restarts = 0
             /\ sb.State # "Invalid" /\ sb.Snapshots \in Snapshots_Type /\ job \in Job
  <2>1. Working /\ ~At({"Secure_SB"})
    BY <1>1, OfSubmitted
  <2> QED BY <2>1, WorkingIs DEF TypeOK, Superblock, Snapshots_Type
<1>2. CASE Execute_Sync
  <2>1. Submitted("Sync") /\ Init_SB_Ciphertext(Secure_Curr_Gen(sb.Snapshots), job)
    BY <1>2 DEF Execute_Sync
  <2> QED BY <1>1, <2>1, SecureCurrGenIs, CopyTInv
<1>3. CASE Execute_Create_Snapshot
  <2> DEFINE s == Secure_Curr_Gen(sb.Snapshots)
  <2>1. Submitted("Create_Snapshot") /\ Init_SB_Ciphertext(Keeping(s), job)
    BY <1>3 DEF Execute_Create_Snapshot, Keeping
  <2>2. s \in Superblock /\ Past(s.Snapshots) /\ s.Current_Key = sb.Current_Key
    BY <1>1, <2>1, SecureCurrGenIs
  <2> HIDE DEF s
  <2>3. Past(Keeping(s).Snapshots) /\ Keeping(s) \in Superblock
        /\ Keeping(s).Current_Key = sb.Current_Key
    BY <2>2, KeepingIs DEF Past
  <2> QED BY <1>1, <2>1, <2>3, CopyTInv
<1>4. CASE Execute_Discard_Snapshot
  <2>1. Submitted("Discard_Snapshot")
    BY <1>4 DEF Execute_Discard_Snapshot
  <2>2. ASSUME NEW i \in Snapshots_Index,
               Init_SB_Ciphertext(Secure_Curr_Gen(Without_Snap(i)), job)
        PROVE  TInv'
    BY <1>1, <2>1, <2>2, WithoutSnap, SecureCurrGenIs, CopyTInv
  <2>3. ASSUME job' = [job EXCEPT !.success = FALSE, !.state = <<"Completed">>],
               UNCHANGED <<sb, sb_idx, curr_gen>>
        PROVE  TInv'
    <3>1. sb.Current_Key <= curr_gen
      BY <1>1, <2>1, WithoutStep DEF Submitted
    <3>2. sb' \in Superblock /\ Past(sb.Snapshots)'
      BY <1>1, <2>1, <2>3 DEF TypeOK, Past
    <3> QED BY <1>1, <2>1, <2>3, <3>1, <3>2, EndsTInv
  <2> QED BY <1>4, <2>2, <2>3 DEF Execute_Discard_Snapshot, Without_Snap
<1> QED BY <1>2, <1>3, <1>4

(* The superblock is as it was copied. *)
LEMMA PrepareTInv == IInv /\ KInv /\ TInv /\ Execute_Prepare /\ Idle_Ctrl => TInv'
<1> SUFFICES ASSUME IInv, KInv, TInv, Idle_Ctrl,
                    NEW step \in {"Encrypt_Current_Key", "Encrypt_Previous_Key",
                                  "Sync_Cache", "Write_SB"},
                    Completed(step), Then(Next_Step(step)),
                    UNCHANGED <<sb, sb_idx, curr_gen>>
             PROVE  TInv'
  BY DEF Execute_Prepare
<1> DEFINE next == Next_Step(step)
<1>1. next \in {"Encrypt_Previous_Key", "Sync_Cache", "Write_SB", "Sync_Blk_IO"}
  BY DEF Next_Step
<1>2. Then(next)
  OBVIOUS
<1> HIDE DEF next
<1>3. Working /\ ~At({"Secure_SB"})
  <2>1. job.op \notin {"Invalid", "Initialize"}
    BY OfJob DEF KInv, StepOfOperation, Copied
  <2> QED BY <2>1, OfJob
<1>4. TypeOK /\ Past(sb.Snapshots) /\ sb.Current_Key <= curr_gen + 1
  BY <1>3, WorkingIs
<1>5. sb' \in Superblock /\ Past(sb.Snapshots)' /\ sb'.Current_Key <= curr_gen + 1
  BY <1>4 DEF TypeOK, Past
<1>6. next \in Steps \ {"Secure_SB"} /\ next \in Copied
  BY <1>1 DEF Steps, Copied
<1>7. job' \in Job /\ job'.op = job.op /\ job'.state = <<next, "Pending">>
  BY <1>2, <1>4, <1>6, ThenType
<1> QED BY <1>3, <1>5, <1>6, <1>7, GoesOnTInv

(* The generation ends before its superblock is secured. *)
LEMMA SyncBlkIOCompletedTInv ==
  IInv /\ KInv /\ TInv /\ Execute_Sync_Blk_IO_Completed /\ Idle_Ctrl => TInv'
<1> SUFFICES ASSUME IInv, KInv, TInv, Execute_Sync_Blk_IO_Completed, Idle_Ctrl PROVE TInv'
  OBVIOUS
<1>1. /\ job' = [job EXCEPT !.Hash = sb, !.Generation = curr_gen,
                            !.state = <<"Secure_SB", "Pending">>]
      /\ sb_idx' = Next_SB_Idx /\ curr_gen' = curr_gen + 1
      /\ UNCHANGED <<sb, keys, secured, cached, device, restarts, raised>>
      /\ Completed("Sync_Blk_IO")
  BY DEF Execute_Sync_Blk_IO_Completed, Idle_Ctrl
<1>2. Working /\ ~At({"Secure_SB"}) /\ job.op \notin {"Invalid", "Initialize"}
  <2>1. job.op \notin {"Invalid", "Initialize"}
    BY <1>1, OfJob DEF KInv, StepOfOperation, Copied
  <2> QED BY <1>1, <2>1, OfJob
<1>3. /\ TypeOK /\ restarts = 0 /\ curr_gen <= Max_Generation /\ curr_gen \in Generation
      /\ Past(sb.Snapshots) /\ sb.Current_Key <= curr_gen + 1
  BY <1>2, WorkingIs
<1>4. job' \in Job /\ job'.op = job.op /\ job'.state = <<"Secure_SB", "Pending">>
  <2>1. <<"Secure_SB", "Pending">> \in Steps \X {"Pending", "Completed"}
    BY DEF Steps
  <2> QED BY <1>1, <1>3, <2>1 DEF TypeOK, Job
<1>5. curr_gen' \in 0 .. Max_Generation + 1 /\ sb_idx' \in Superblocks_Index
  BY <1>1, <1>3, SuperblockAssumption DEF Generation, TypeOK, Superblocks_Index, Next_SB_Idx
<1>6. TypeOK'
  BY <1>1, <1>3, <1>4, <1>5 DEF TypeOK
<1>7. ~Starting' /\ NoneAfterRestart' /\ StartTakes' /\ GenerationFits'
  BY <1>1, <1>2, <1>3, <1>4, NextToJob
     DEF Starting, NoneAfterRestart, StartTakes, GenerationFits
<1>8. SnapshotsPast'
  <2>1. Past(sb.Snapshots)'
    BY <1>1, <1>3, SuperblockAssumption DEF TypeOK, Past, Generation, Superblock, Snapshot
  <2> QED BY <1>4, <2>1, NextToJob DEF SnapshotsPast, Taking_Over
<1>9. KeyFits'
  <2>1. sb'.Current_Key <= curr_gen'
    BY <1>1, <1>3
  <2>2. curr_gen' \in Nat /\ sb'.Current_Key \in Nat
    BY <1>6, SuperblockAssumption DEF TypeOK, Superblock, Key_ID
  <2> QED BY <2>1, <2>2 DEF KeyFits
<1> QED BY <1>6, <1>7, <1>8, <1>9 DEF TInv

(* The generation is secured. *)
LEMMA SecureSBCompletedTInv ==
  IInv /\ KInv /\ TInv /\ Execute_Secure_SB_Completed /\ Idle_Ctrl => TInv'
<1> SUFFICES ASSUME IInv, KInv, TInv, Execute_Secure_SB_Completed, Idle_Ctrl PROVE TInv'
  OBVIOUS
<1>1. /\ Completed("Secure_SB") /\ UNCHANGED <<sb_idx, curr_gen>>
      /\ sb' = [sb EXCEPT !.Last_Secured_Generation = job.Generation]
      /\ job' = [job EXCEPT !.success = TRUE, !.state = <<"Completed">>]
  BY DEF Execute_Secure_SB_Completed
<1>2. Working /\ job.op \notin {"Invalid", "Initialize"}
  <2>1. job.op \notin {"Invalid", "Initialize"}
    BY <1>1, OfJob DEF KInv, StepOfOperation, Copied
  <2> QED BY <1>1, <2>1, OfJob
<1>3. TypeOK /\ restarts = 0 /\ sb.State # "Invalid"
  BY <1>2 DEF TInv, TypeOK, NoneAfterRestart, KInv, StateOfOperation
<1>4. sb.Current_Key <= curr_gen /\ Past(sb.Snapshots)
  <2>1. ~At({"Add_Key"} \cup (Copied \ {"Secure_SB"}))
    BY <1>1, OfJob
  <2> QED BY <1>3, <2>1 DEF TInv, KeyFits, SnapshotsPast
<1>5. sb' \in Superblock /\ sb'.Current_Key = sb.Current_Key /\ sb'.Snapshots = sb.Snapshots
  BY <1>1, <1>3, JobTypes DEF TypeOK, Superblock
<1>6. TypeOK'
  <2>1. job' \in Job
    BY <1>1, <1>3 DEF TypeOK, Job
  <2> QED BY <1>1, <1>3, <1>5, <2>1 DEF TypeOK, Idle_Ctrl
<1>7. job'.op = job.op /\ job'.state = <<"Completed">> /\ UNCHANGED restarts
  BY <1>1, <1>3 DEF TypeOK, Job, Idle_Ctrl
<1>8. ~Starting' /\ ~Working' /\ NoneAfterRestart'
  BY <1>2, <1>3, <1>7 DEF Starting, NoJob, Working, NoneAfterRestart
<1>9. Past(sb.Snapshots)' /\ sb'.Current_Key <= curr_gen'
  BY <1>1, <1>4, <1>5 DEF Past
<1> QED BY <1>6, <1>7, <1>8, <1>9, NoStepTInv

(* A new key is the next one, which the generation to come makes good.     *)
LEMMA InitializeRekeyingTInv ==
  ASSUME IInv, KInv, TInv, Idle_Ctrl, Execute_Initialize_Rekeying
  PROVE  TInv'
<1>0. job.op = "Initialize_Rekeying"
  BY DEF Execute_Initialize_Rekeying
<1>1. /\ Working /\ ~At({"Secure_SB"})
      /\ ~Completed("Add_Key") => ~At({"Add_Key"} \cup (Copied \ {"Secure_SB"}))
  <2>1. CASE Submitted("Initialize_Rekeying")
    BY <2>1, OfSubmitted
  <2>2. CASE Completed("Create_Key") \/ Completed("Add_Key")
    BY <1>0, <2>2, OfJob DEF Copied
  <2> QED BY <2>1, <2>2 DEF Execute_Initialize_Rekeying
<1>2. /\ TypeOK /\ Past(sb.Snapshots) /\ curr_gen \in Generation /\ sb \in Superblock
      /\ restarts = 0 /\ sb.State # "Invalid" /\ job \in Job
  BY <1>1, WorkingIs DEF TypeOK
<1>3. ~Completed("Add_Key") => sb.Current_Key <= curr_gen
  BY <1>1, <1>2 DEF TInv, KeyFits
<1>4. CASE /\ Submitted("Initialize_Rekeying") /\ Then("Create_Key")
           /\ UNCHANGED <<sb, sb_idx, curr_gen>>
  <2>1. job' \in Job /\ job'.op = job.op /\ job'.state = <<"Create_Key", "Pending">>
    BY <1>2, <1>4, ThenType DEF Steps
  <2>2. sb.Current_Key <= curr_gen /\ curr_gen \in Int /\ sb.Current_Key \in Int
    BY <1>2, <1>3, <1>4, OfSubmitted, SuperblockAssumption DEF Generation, Superblock, Key_ID
  <2>3. sb' \in Superblock /\ Past(sb.Snapshots)' /\ sb'.Current_Key <= curr_gen
        /\ sb'.Current_Key <= curr_gen + 1
    BY <1>2, <1>4, <2>2 DEF Past
  <2> QED BY <1>1, <1>4, <2>1, <2>3, GoesOnTInv DEF Steps
<1>5. CASE /\ Completed("Create_Key") /\ Then("Add_Key") /\ UNCHANGED <<sb_idx, curr_gen>>
           /\ sb' = [sb EXCEPT !.State = "Rekeying", !.Rekeying_VBA = 0,
                               !.Previous_Key = sb.Current_Key,
                               !.Current_Key = sb.Current_Key + 1]
  <2>1. job' \in Job /\ job'.op = job.op /\ job'.state = <<"Add_Key", "Pending">>
    BY <1>2, <1>5, ThenType DEF Steps
  <2>2. sb.Current_Key <= curr_gen
    BY <1>2, <1>3, <1>5, OfJob
  <2>3. sb.Current_Key \in Key_ID /\ sb.Current_Key + 1 \in Key_ID /\ 0 \in VBA
        /\ sb.Current_Key + 1 <= curr_gen + 1
    BY <1>2, <2>2, SuperblockAssumption DEF Generation, Superblock, Key_ID, VBA
  <2>4. sb' \in Superblock /\ sb'.Current_Key = sb.Current_Key + 1
        /\ sb'.Snapshots = sb.Snapshots
    BY <1>2, <1>5, <2>3 DEF Superblock
  <2>5. Past(sb.Snapshots)' /\ sb'.Current_Key <= curr_gen + 1
    BY <1>2, <1>5, <2>3, <2>4 DEF Past
  <2> QED BY <1>1, <1>5, <2>1, <2>4, <2>5, GoesOnTInv DEF Steps
<1>6. CASE Completed("Add_Key") /\ Init_SB_Ciphertext(sb, job)
  BY <1>1, <1>2, <1>6, CopyTInv
<1> QED BY <1>4, <1>5, <1>6 DEF Execute_Initialize_Rekeying

(* The snapshots are taken over from the job. *)
LEMMA RekeyVBATInv ==
  ASSUME IInv, KInv, TInv, Idle_Ctrl, Execute_Rekey_VBA
  PROVE  TInv'
<1>0. job.op = "Rekey_VBA"
  BY DEF Execute_Rekey_VBA
<1>1. Working /\ ~At({"Secure_SB"}) /\ ~At({"Add_Key"} \cup (Copied \ {"Secure_SB"}))
  <2>1. CASE Submitted("Rekey_VBA")
    BY <2>1, OfSubmitted
  <2>2. CASE Completed("Rekey_VBA_In_VBD") \/ Completed("Remove_Previous_Key")
    BY <1>0, <2>2, OfJob DEF Copied
  <2> QED BY <2>1, <2>2 DEF Execute_Rekey_VBA
<1>2. /\ TypeOK /\ Past(sb.Snapshots) /\ curr_gen \in Generation /\ sb \in Superblock
      /\ restarts = 0 /\ sb.State # "Invalid" /\ job \in Job
  BY <1>1, WorkingIs DEF TypeOK
<1>3. sb.Current_Key <= curr_gen /\ sb.Current_Key <= curr_gen + 1
  <2>1. sb.Current_Key <= curr_gen
    BY <1>1, <1>2 DEF TInv, KeyFits
  <2> QED BY <1>2, <2>1, SuperblockAssumption DEF Generation, Superblock, Key_ID
<1>4. Completed("Rekey_VBA_In_VBD") => Past(job.Snapshots) /\ job.Snapshots \in Snapshots_Type
  BY <1>2, JobTypes DEF TInv, SnapshotsPast, Taking_Over
<1>5. CASE /\ Submitted("Rekey_VBA") /\ Then("Rekey_VBA_In_VBD")
           /\ UNCHANGED <<sb, sb_idx, curr_gen>>
  <2>1. job' \in Job /\ job'.op = job.op /\ job'.state = <<"Rekey_VBA_In_VBD", "Pending">>
    BY <1>2, <1>5, ThenType DEF Steps
  <2>2. sb' \in Superblock /\ Past(sb.Snapshots)' /\ sb'.Current_Key <= curr_gen
        /\ sb'.Current_Key <= curr_gen + 1
    BY <1>2, <1>3, <1>5 DEF Past
  <2> QED BY <1>1, <1>5, <2>1, <2>2, GoesOnTInv DEF Steps
<1>6. CASE /\ Completed("Rekey_VBA_In_VBD") /\ sb.Rekeying_VBA < VBA_Last
           /\ Init_SB_Ciphertext([sb EXCEPT !.Snapshots = job.Snapshots, !.Rekeying_VBA = @ + 1],
                                 [job EXCEPT !.Request_Finished = FALSE])
  <2> DEFINE s == [sb EXCEPT !.Snapshots = job.Snapshots, !.Rekeying_VBA = @ + 1]
             j == [job EXCEPT !.Request_Finished = FALSE]
  <2>1. sb.Rekeying_VBA + 1 \in VBA
    BY <1>2, <1>6, SuperblockAssumption DEF Superblock, VBA
  <2>2. s \in Superblock /\ s.Snapshots = job.Snapshots /\ s.Current_Key = sb.Current_Key
    BY <1>2, <1>4, <1>6, <2>1 DEF Superblock, Snapshots_Type
  <2>3. j \in Job /\ j.op = job.op
    BY <1>2 DEF Job
  <2>4. Init_SB_Ciphertext(s, j)
    BY <1>6
  <2> HIDE DEF s, j
  <2>5. Past(s.Snapshots)
    BY <1>4, <1>6, <2>2
  <2> QED BY <1>1, <2>2, <2>3, <2>4, <2>5, CopyTInv
<1>7. CASE /\ Completed("Rekey_VBA_In_VBD") /\ Then("Remove_Previous_Key")
           /\ sb' = [sb EXCEPT !.Snapshots = job.Snapshots] /\ UNCHANGED <<sb_idx, curr_gen>>
  <2>1. job' \in Job /\ job'.op = job.op /\ job'.state = <<"Remove_Previous_Key", "Pending">>
    BY <1>2, <1>7, ThenType DEF Steps
  <2>2. sb' \in Superblock /\ sb'.Snapshots = job.Snapshots /\ sb'.Current_Key = sb.Current_Key
    BY <1>2, <1>4, <1>7 DEF Superblock, Snapshots_Type
  <2>3. Past(sb.Snapshots)' /\ sb'.Current_Key <= curr_gen /\ sb'.Current_Key <= curr_gen + 1
    BY <1>3, <1>4, <1>7, <2>2 DEF Past
  <2> QED BY <1>1, <1>7, <2>1, <2>2, <2>3, GoesOnTInv DEF Steps
<1>8. CASE /\ Completed("Remove_Previous_Key")
           /\ Init_SB_Ciphertext([sb EXCEPT !.Previous_Key = 0, !.State = "Normal"],
                                 [job EXCEPT !.Request_Finished = TRUE])
  <2> DEFINE s == [sb EXCEPT !.Previous_Key = 0, !.State = "Normal"]
             j == [job EXCEPT !.Request_Finished = TRUE]
  <2>0. 0 \in Key_ID
    BY SuperblockAssumption DEF Key_ID
  <2>1. s \in Superblock /\ s.Snapshots = sb.Snapshots /\ s.Current_Key = sb.Current_Key
    BY <1>2, <2>0 DEF Superblock
  <2>2. j \in Job /\ j.op = job.op
    BY <1>2 DEF Job
  <2>3. Init_SB_Ciphertext(s, j)
    BY <1>8
  <2> HIDE DEF s, j
  <2>4. Past(s.Snapshots)
    BY <1>2, <2>1
  <2> QED BY <1>1, <2>1, <2>2, <2>3, <2>4, CopyTInv
<1> QED BY <1>5, <1>6, <1>7, <1>8 DEF Execute_Rekey_VBA

(* So they are after an extension, and with them the current snapshot.     *)
LEMMA ExtensionTInv ==
  ASSUME IInv, KInv, TInv, Idle_Ctrl, Execute_Extension_Step
  PROVE  TInv'
<1>0. /\ job.op \in {"VBD_Extension_Step", "FT_Extension_Step"}
      /\ Extend_In[job.op] = IF job.op = "VBD_Extension_Step" THEN "VBD_Ext_Step_In_VBD"
                                                             ELSE "FT_Ext_Step_In_FT"
      /\ Extending[job.op] \in {"Extending_VBD", "Extending_FT"}
  BY DEF Execute_Extension_Step, Extending, Extend_In
<1>1. Working /\ ~At({"Secure_SB"}) /\ ~At({"Add_Key"} \cup (Copied \ {"Secure_SB"}))
  <2>1. CASE Submitted(job.op)
    BY <1>0, <2>1, OfSubmitted
  <2>2. CASE Completed(Extend_In[job.op])
    BY <1>0, <2>2, OfJob DEF Copied
  <2> QED BY <2>1, <2>2 DEF Execute_Extension_Step
<1>2. /\ TypeOK /\ Past(sb.Snapshots) /\ curr_gen \in Generation /\ sb \in Superblock
      /\ restarts = 0 /\ sb.State # "Invalid" /\ job \in Job
  BY <1>1, WorkingIs DEF TypeOK
<1>3. job.Nr_Of_Blks \in 0 .. Max_Nr_Of_Blks /\ sb.Resizing_Nr_Of_PBAs \in 0 .. Max_Nr_Of_Blks
  BY <1>2 DEF Job, Superblock
<1>4. ASSUME NEW snaps \in Snapshots_Type, Past(snaps), NEW curr \in Snapshots_Index,
             NEW state \in {"Normal", "Extending_VBD", "Extending_FT", sb.State},
             NEW nr \in 0 .. Max_Nr_Of_Blks, NEW finished \in BOOLEAN,
             Init_SB_Ciphertext([sb EXCEPT !.Snapshots = snaps, !.Curr_Snap = curr,
                                           !.State = state, !.Resizing_Nr_Of_PBAs = nr],
                                [job EXCEPT !.Request_Finished = finished])
      PROVE  TInv'
  <2> DEFINE s == [sb EXCEPT !.Snapshots = snaps, !.Curr_Snap = curr,
                             !.State = state, !.Resizing_Nr_Of_PBAs = nr]
             j == [job EXCEPT !.Request_Finished = finished]
  <2>1. s \in Superblock /\ s.Snapshots = snaps /\ s.Current_Key = sb.Current_Key
    BY <1>2, <1>4 DEF Superblock, Snapshots_Type
  <2>2. j \in Job /\ j.op = job.op
    BY <1>2, <1>4 DEF Job
  <2>3. Init_SB_Ciphertext(s, j)
    BY <1>4
  <2> HIDE DEF s, j
  <2>4. Past(s.Snapshots)
    BY <1>4, <2>1
  <2> QED BY <1>1, <2>1, <2>2, <2>3, <2>4, CopyTInv
<1>5. sb.Snapshots \in Snapshots_Type /\ sb.Curr_Snap \in Snapshots_Index
  BY <1>2 DEF Superblock, Snapshots_Type
<1>6. CASE Init_SB_Ciphertext([sb EXCEPT !.State = Extending[job.op],
                                         !.Resizing_Nr_Of_PBAs = job.Nr_Of_Blks],
                              [job EXCEPT !.Request_Finished = FALSE])
  <2>1. [sb EXCEPT !.State = Extending[job.op], !.Resizing_Nr_Of_PBAs = job.Nr_Of_Blks]
          = [sb EXCEPT !.Snapshots = sb.Snapshots, !.Curr_Snap = sb.Curr_Snap,
                       !.State = Extending[job.op], !.Resizing_Nr_Of_PBAs = job.Nr_Of_Blks]
    BY FieldsOfSuperblock DEF KInv, Fields
  <2>2. Init_SB_Ciphertext(
          [sb EXCEPT !.Snapshots = sb.Snapshots, !.Curr_Snap = sb.Curr_Snap,
                     !.State = Extending[job.op], !.Resizing_Nr_Of_PBAs = job.Nr_Of_Blks],
          [job EXCEPT !.Request_Finished = FALSE])
    BY <1>6, <2>1
  <2> QED BY <1>0, <1>2, <1>3, <1>4, <1>5, <2>2
<1>7. CASE /\ Submitted(job.op) /\ UNCHANGED <<sb, sb_idx, curr_gen>>
           /\ job' = [job EXCEPT !.Nr_Of_Blks = sb.Resizing_Nr_Of_PBAs,
                                 !.state = <<Extend_In[job.op], "Pending">>]
  <2> DEFINE step == Extend_In[job.op]
  <2>1. step \in {"VBD_Ext_Step_In_VBD", "FT_Ext_Step_In_FT"}
    BY <1>0
  <2>2. job' = [job EXCEPT !.Nr_Of_Blks = sb.Resizing_Nr_Of_PBAs, !.state = <<step, "Pending">>]
    BY <1>7
  <2> HIDE DEF step
  <2>3. step \in Steps \ {"Secure_SB"} /\ step \notin {"Add_Key"} \cup Copied
        /\ <<step, "Pending">> \in Steps \X {"Pending", "Completed"}
    BY <2>1 DEF Steps, Copied
  <2>4. job' \in Job /\ job'.op = job.op /\ job'.state = <<step, "Pending">>
    BY <1>2, <1>3, <2>2, <2>3 DEF Job
  <2>5. sb.Current_Key <= curr_gen
    BY <1>1, <1>2 DEF TInv, KeyFits
  <2>6. sb' \in Superblock /\ Past(sb.Snapshots)' /\ sb'.Current_Key <= curr_gen
        /\ sb'.Current_Key <= curr_gen + 1
    BY <1>2, <1>7, <2>5, WorkingIs, <1>1 DEF Past
  <2> QED BY <1>1, <1>7, <2>3, <2>4, <2>6, GoesOnTInv
<1>8. CASE /\ Completed(Extend_In[job.op])
           /\ LET last == job.Nr_Of_Blks = 0
                  vbd  == job.op = "VBD_Extension_Step"
              IN Init_SB_Ciphertext(
                   [sb EXCEPT !.Snapshots = IF vbd THEN job.Snapshots ELSE @,
                              !.Curr_Snap = IF vbd THEN Newest_Snapshot_Idx(job.Snapshots) ELSE @,
                              !.State = IF last THEN "Normal" ELSE @,
                              !.Resizing_Nr_Of_PBAs = IF vbd /\ last THEN @ ELSE job.Nr_Of_Blks],
                   [job EXCEPT !.Request_Finished = IF last THEN TRUE ELSE @])
  <2> DEFINE last == job.Nr_Of_Blks = 0
             vbd  == job.op = "VBD_Extension_Step"
             snaps == IF vbd THEN job.Snapshots ELSE sb.Snapshots
             curr == IF vbd THEN Newest_Snapshot_Idx(job.Snapshots) ELSE sb.Curr_Snap
             state == IF last THEN "Normal" ELSE sb.State
             nr == IF vbd /\ last THEN sb.Resizing_Nr_Of_PBAs ELSE job.Nr_Of_Blks
             finished == IF last THEN TRUE ELSE job.Request_Finished
  <2>1. Init_SB_Ciphertext([sb EXCEPT !.Snapshots = snaps, !.Curr_Snap = curr,
                                      !.State = state, !.Resizing_Nr_Of_PBAs = nr],
                           [job EXCEPT !.Request_Finished = finished])
    BY <1>8
  <2>2. vbd => /\ Past(job.Snapshots) /\ job.Snapshots \in Snapshots_Type
               /\ Newest_Snapshot_Idx(job.Snapshots) \in Snapshots_Index
    <3>1. SUFFICES ASSUME vbd
                   PROVE  /\ Past(job.Snapshots) /\ job.Snapshots \in Snapshots_Type
                          /\ Newest_Snapshot_Idx(job.Snapshots) \in Snapshots_Index
      OBVIOUS
    <3>2. Taking_Over
      BY <1>0, <1>8, <3>1 DEF Taking_Over
    <3>3. /\ Past(job.Snapshots) /\ job.Snapshots \in Snapshots_Type
          /\ Valid_Snaps(job.Snapshots) # {}
      BY <1>2, <3>2, JobTypes DEF TInv, SnapshotsPast
    <3> QED BY <3>3, NewestIs DEF Valid_Snaps
  <2>3. snaps \in Snapshots_Type /\ Past(snaps) /\ curr \in Snapshots_Index
    BY <1>2, <1>5, <2>2
  <2>4. state \in {"Normal", "Extending_VBD", "Extending_FT", sb.State}
        /\ nr \in 0 .. Max_Nr_Of_Blks /\ finished \in BOOLEAN
    BY <1>2, <1>3 DEF Job
  <2> HIDE DEF snaps, curr, state, nr, finished
  <2> QED BY <1>4, <2>1, <2>3, <2>4
<1> QED BY <1>6, <1>7, <1>8 DEF Execute_Extension_Step

(* The end is one. *)
LEMMA DeinitializeTInv ==
  ASSUME IInv, KInv, TInv, Idle_Ctrl, Execute_Deinitialize
  PROVE  TInv'
<1>0. job.op = "Deinitialize" /\ UNCHANGED <<sb_idx, curr_gen>>
  BY DEF Execute_Deinitialize
<1>1. Working /\ ~At({"Secure_SB"}) /\ ~At({"Add_Key"} \cup (Copied \ {"Secure_SB"}))
  <2>1. CASE Submitted("Deinitialize")
    BY <2>1, OfSubmitted
  <2>2. CASE Completed("Remove_Current_Key") \/ Completed("Remove_Previous_Key")
    BY <1>0, <2>2, OfJob DEF Copied
  <2> QED BY <2>1, <2>2 DEF Execute_Deinitialize
<1>2. /\ TypeOK /\ Past(sb.Snapshots) /\ curr_gen \in Generation /\ sb \in Superblock
      /\ restarts = 0 /\ sb.State # "Invalid" /\ job \in Job
      /\ sb.Current_Key <= curr_gen + 1
  BY <1>1, WorkingIs DEF TypeOK
<1>3. sb.Current_Key <= curr_gen
  BY <1>1, <1>2 DEF TInv, KeyFits
<1>4. ASSUME NEW step \in {"Remove_Current_Key", "Remove_Previous_Key"}, Then(step), sb' = sb
      PROVE  TInv'
  <2>1. step \in Steps \ {"Secure_SB"}
    BY DEF Steps
  <2>2. job' \in Job /\ job'.op = job.op /\ job'.state = <<step, "Pending">>
    BY <1>2, <1>4, <2>1, ThenType
  <2>3. sb' \in Superblock /\ Past(sb.Snapshots)' /\ sb'.Current_Key <= curr_gen
        /\ sb'.Current_Key <= curr_gen + 1
    BY <1>0, <1>2, <1>3, <1>4 DEF Past
  <2> QED BY <1>0, <1>1, <2>1, <2>2, <2>3, GoesOnTInv
<1>5. CASE /\ \/ Completed("Remove_Current_Key") /\ sb.State # "Rekeying" /\ UNCHANGED sb
              \/ Completed("Remove_Previous_Key") /\ sb' = [sb EXCEPT !.State = "Invalid"]
           /\ job' = [job EXCEPT !.success = TRUE, !.state = <<"Completed">>]
  <2>1. sb' \in Superblock /\ sb'.Snapshots = sb.Snapshots /\ sb'.Current_Key = sb.Current_Key
    BY <1>2, <1>5 DEF Superblock
  <2>2. Past(sb.Snapshots)' /\ sb'.Current_Key <= curr_gen
    BY <1>0, <1>2, <1>3, <2>1 DEF Past
  <2> QED BY <1>0, <1>1, <1>5, <2>1, <2>2, EndsTInv
<1> QED BY <1>4, <1>5 DEF Execute_Deinitialize

-----------------------------------------------------------------------------
(* The choice of a superblock. *)
LEMMA ChosenIs ==
  ASSUME TypeOK, job.op = "Initialize", Completed("Read_SB"), ~Execute_Raises
  PROVE  /\ Chosen \in Job /\ Chosen.op = "Initialize"
         /\ Chosen.Read_SB_Idx = job.Read_SB_Idx
         /\ Read_SB_Valid => Newest_Snapshot_Idx(job.SB_Ciphertext.plain.Snapshots)
                               \in Valid_Snaps(job.SB_Ciphertext.plain.Snapshots)
         /\ \/ /\ Read_SB_Valid /\ Chosen.SB_Found /\ Chosen.SB_Idx = job.Read_SB_Idx
               /\ Chosen.Generation = Read_SB_Gen
            \/ /\ Chosen.SB_Found = job.SB_Found /\ Chosen.SB_Idx = job.SB_Idx
               /\ Chosen.Generation = job.Generation
<1> DEFINE snaps == job.SB_Ciphertext.plain.Snapshots
<1>1. snaps \in Snapshots_Type /\ job \in Job
  BY JobTypes DEF TypeOK, Ciphertext, Superblock, Snapshots_Type
<1>2. Read_SB_Valid => Newest_Snapshot_Idx(snaps) \in Valid_Snaps(snaps)
  <2>1. Read_SB_Valid => Valid_Snaps(snaps) # {}
    BY DEF Execute_Raises
  <2> HIDE DEF snaps
  <2> QED BY <1>1, <2>1, NewestIs
<1>3. Read_SB_Valid => Read_SB_Gen \in Generation
  BY <1>1, <1>2 DEF Read_SB_Gen, Valid_Snaps, Snapshots_Type, Snapshot
<1>4. job.Read_SB_Idx \in Superblocks_Index
  BY JobTypes
<1>5. CASE Read_SB_Valid /\ (job.SB_Found => Read_SB_Gen < job.Generation)
  <2>1. Chosen = [job EXCEPT !.Generation = Read_SB_Gen, !.SB_Idx = job.Read_SB_Idx,
                             !.SB_Found = TRUE]
    BY <1>5 DEF Chosen
  <2> QED BY <1>1, <1>2, <1>3, <1>4, <1>5, <2>1 DEF Job
<1>6. CASE ~(Read_SB_Valid /\ (job.SB_Found => Read_SB_Gen < job.Generation))
  BY <1>1, <1>2, <1>6 DEF Chosen
<1> QED BY <1>5, <1>6

(* The start goes on to its next step. *)
LEMMA StartGoesOnTInv ==
  ASSUME KInv, TInv, Idle_Ctrl, Starting, UNCHANGED <<sb, sb_idx, curr_gen>>, job' \in Job,
         job'.op = "Initialize", NEW step \in Steps, job'.state = <<step, "Pending">>,
         \/ step \in {"Read_SB", "Read_Current_SB"}
         \/ /\ Chosen_Read /\ job'.SB_Ciphertext = job.SB_Ciphertext
            /\ job'.SB_Found = job.SB_Found /\ job'.SB_Idx = job.SB_Idx
  PROVE  TInv'
<1>1. UNCHANGED <<sb, sb_idx, curr_gen, keys, secured, cached, device, restarts, raised>>
  BY DEF Idle_Ctrl
<1>2. TypeOK'
  BY <1>1 DEF TInv, TypeOK
<1>3. ~Working' /\ sb'.State = "Invalid"
  BY <1>1, NextToJob DEF KInv, StartConsistent
<1>4. GenerationFits' /\ KeyFits' /\ SnapshotsPast' /\ NoneAfterRestart'
  BY <1>3 DEF GenerationFits, KeyFits, SnapshotsPast, NoneAfterRestart
<1>5. StartTakes'
  <2>1. CASE step \in {"Read_SB", "Read_Current_SB"}
    BY <1>1, <2>1, NextToJob DEF TInv, StartTakes, Chosen_Read
  <2>2. CASE step \notin {"Read_SB", "Read_Current_SB"}
    BY <1>1, <2>2 DEF TInv, StartTakes
  <2> QED BY <2>1, <2>2
<1> QED BY <1>2, <1>4, <1>5 DEF TInv

(* The first start takes what the initializers left. *)
LEMMA InitializeTInv ==
  ASSUME IInv, KInv, TInv, Idle_Ctrl, Execute_Initialize, ~Execute_Raises
  PROVE  TInv'
<1>0. job.op = "Initialize" /\ TypeOK /\ job \in Job
  BY DEF Execute_Initialize, TInv, TypeOK
<1>1. CASE /\ Submitted("Initialize") /\ Then("Read_SB")
           /\ UNCHANGED <<sb, sb_idx, curr_gen>>
  <2>1. job' \in Job /\ job'.op = "Initialize" /\ job'.state = <<"Read_SB", "Pending">>
    BY <1>0, <1>1, ThenType DEF Steps
  <2> QED BY <1>1, <2>1, OfSubmitted, StartGoesOnTInv DEF Steps
<1>2. CASE /\ Completed("Read_SB") /\ UNCHANGED <<sb, sb_idx, curr_gen>>
           /\ job' = IF job.Read_SB_Idx < Superblocks_Last
                       THEN [Chosen EXCEPT !.Read_SB_Idx = @ + 1,
                                           !.state = <<"Read_SB", "Pending">>]
                       ELSE [Chosen EXCEPT !.state = <<"Read_Current_SB", "Pending">>]
  <2>1. Chosen \in Job /\ Chosen.op = "Initialize" /\ Chosen.Read_SB_Idx = job.Read_SB_Idx
    BY <1>0, <1>2, ChosenIs
  <2>2. \A step \in {"Read_SB", "Read_Current_SB"} :
          <<step, "Pending">> \in Steps \X {"Pending", "Completed"} /\ step \in Steps
    BY DEF Steps
  <2>3. CASE job.Read_SB_Idx < Superblocks_Last
    <3>1. Chosen.Read_SB_Idx + 1 \in Superblocks_Index
      <4>1. job.Read_SB_Idx \in Superblocks_Index
        BY <1>0, JobTypes
      <4> QED BY <2>1, <2>3, <4>1, SuperblockAssumption DEF Superblocks_Index
    <3>2. job' = [Chosen EXCEPT !.Read_SB_Idx = @ + 1, !.state = <<"Read_SB", "Pending">>]
      BY <1>2, <2>3
    <3>3. job' \in Job /\ job'.op = "Initialize" /\ job'.state = <<"Read_SB", "Pending">>
      BY <2>1, <2>2, <3>1, <3>2 DEF Job
    <3> QED BY <1>0, <1>2, <2>2, <3>3, OfJob, StartGoesOnTInv
  <2>4. CASE ~(job.Read_SB_Idx < Superblocks_Last)
    <3>1. job' = [Chosen EXCEPT !.state = <<"Read_Current_SB", "Pending">>]
      BY <1>2, <2>4
    <3>2. job' \in Job /\ job'.op = "Initialize"
          /\ job'.state = <<"Read_Current_SB", "Pending">>
      BY <2>1, <2>2, <3>1 DEF Job
    <3> QED BY <1>0, <1>2, <2>2, <3>2, OfJob, StartGoesOnTInv
  <2> QED BY <2>3, <2>4
<1>3. ASSUME NEW step, NEW next, Completed(step), Then(next), UNCHANGED <<sb, sb_idx, curr_gen>>,
             \/ step = "Read_Current_SB" /\ next = "Decrypt_Current_Key"
             \/ step = "Decrypt_Current_Key" /\ next = "Add_Current_Key"
             \/ step = "Add_Current_Key" /\ next = "Decrypt_Previous_Key"
             \/ step = "Decrypt_Previous_Key" /\ next = "Add_Previous_Key"
      PROVE  TInv'
  <2>1. Starting /\ Chosen_Read /\ next \in Steps
    BY <1>0, <1>3, OfJob DEF Chosen_Read, Steps
  <2>2. /\ job' \in Job /\ job'.op = job.op /\ job'.state = <<next, "Pending">>
        /\ job'.SB_Ciphertext = job.SB_Ciphertext
        /\ job'.SB_Found = job.SB_Found /\ job'.SB_Idx = job.SB_Idx
    BY <1>0, <1>3, <2>1, ThenType
  <2> QED BY <1>0, <1>3, <2>1, <2>2, StartGoesOnTInv
<1>4. CASE /\ Init_SB_Plaintext
           /\ Completed("Add_Current_Key") \/ Completed("Add_Previous_Key")
  <2>1. Starting /\ Chosen_Read
    BY <1>0, <1>4, OfJob DEF Chosen_Read
  <2>2. /\ sb' = job.SB_Ciphertext.plain /\ sb_idx' = job.SB_Idx
        /\ curr_gen' = job.Generation + 1
        /\ job' = [job EXCEPT !.success = TRUE, !.state = <<"Completed">>]
        /\ UNCHANGED <<keys, secured, cached, device, restarts, raised>>
    BY <1>4 DEF Init_SB_Plaintext, Idle_Ctrl
  <2>3. job' \in Job /\ job'.op = "Initialize" /\ job'.state = <<"Completed">>
    BY <1>0, <2>2 DEF Job
  <2>4. /\ sb' \in Superblock /\ sb_idx' \in Superblocks_Index
        /\ curr_gen' \in 0 .. Max_Generation + 1 /\ curr_gen' >= 1
    <3>1. /\ job.SB_Ciphertext \in Ciphertext /\ job.SB_Idx \in Superblocks_Index
          /\ job.Generation \in Generation
      BY <1>0, JobTypes
    <3> QED BY <2>2, <3>1, SuperblockAssumption DEF Ciphertext, Generation
  <2>5. TypeOK'
    BY <1>0, <2>2, <2>3, <2>4 DEF TypeOK
  <2>6. ~Starting' /\ ~Working' /\ NoneAfterRestart'
    BY <2>3 DEF Starting, Working, NoJob, NoneAfterRestart
  <2>7. ASSUME restarts = 0, sb'.State # "Invalid"
        PROVE  sb'.Current_Key <= curr_gen' /\ Past(sb.Snapshots)'
    <3>1. job.SB_Ciphertext = Initial_Device.superblocks[job.SB_Idx]
          /\ job.SB_Idx \in Superblocks_Index
      BY <1>0, <2>1, <2>7, JobTypes DEF TInv, StartTakes
    <3>2. CASE job.SB_Idx = 0
      <4>1. sb' = Initial_Superblock
        BY <2>2, <3>1, <3>2 DEF Initial_Device
      <4>2. sb'.Current_Key = 1
        BY <4>1 DEF Initial_Superblock, Superblock_Invalid
      <4>3. \A i \in Snapshots_Index : sb'.Snapshots[i].Gen = 0
        BY <4>1 DEF Initial_Superblock, Superblock_Invalid, Snapshot_Invalid
      <4> QED BY <2>4, <4>2, <4>3 DEF Past
    <3>3. CASE job.SB_Idx # 0
      BY <2>2, <2>7, <3>1, <3>3 DEF Initial_Device, Ciphertext_Invalid, Superblock_Invalid
    <3> QED BY <3>2, <3>3
  <2> QED BY <2>2, <2>3, <2>5, <2>6, <2>7, NoStepTInv
<1> QED BY <1>1, <1>2, <1>3, <1>4 DEF Execute_Initialize

-----------------------------------------------------------------------------
(* All of Execute. *)
LEMMA ExecuteTInv == IInv /\ KInv /\ TInv /\ Execute => TInv'
BY RaiseTInv, PrepareTInv, SyncBlkIOCompletedTInv, SecureSBCompletedTInv,
   ShortOperationsTInv, InitializeRekeyingTInv, RekeyVBATInv, ExtensionTInv,
   DeinitializeTInv, InitializeTInv DEF Execute

(* Every step keeps the types and what they rest on. *)
THEOREM NextTInv ==
  ASSUME Restarted_Ops = {}, IInv, KInv, TInv, [Next]_vars
  PROVE  TInv'
<1>1. CASE UNCHANGED vars
  BY <1>1 DEF vars, TInv, TypeOK, GenerationFits, KeyFits, SnapshotsPast, Past,
       Taking_Over, StartTakes, Chosen_Read, NoneAfterRestart, Starting, Working, NoJob, At,
       Completed
<1>2. CASE Next
  BY <1>2, SubmitTInv, DropTInv, WritebackTInv, ExecuteTInv, TrustAnchorTInv, CryptoTInv,
     CacheSyncTInv, CacheWriteBackTInv, BlockIOTInv, VBDRekeyingTInv, FTResizingTInv,
     RestartTInv DEF Next
<1> QED BY <1>1, <1>2

(* The job, the superblock and what the modules keep stay in range; above  *)
(* all no snapshot, no key and no block is of a generation that there is   *)
(* not, as long as nothing is done after a restart, which goes back to an  *)
(* old generation.                                                         *)
THEOREM TypeCorrect ==
  ASSUME Restarted_Ops = {}
  PROVE  Spec => []TypeOK
<1>1. Spec => []TInv
  <2>1. IInv /\ KInv /\ TInv /\ [Next]_vars => TInv'
    BY NextTInv
  <2> QED BY <2>1, InitTInv, Invariance, KeysInvariance, PTL DEF Spec
<1>2. TInv => TypeOK
  BY DEF TInv
<1> QED BY <1>1, <1>2, PTL

-----------------------------------------------------------------------------
(***************************************************************************)
(* Snapshots.                                                              *)
(***************************************************************************)
(* What the proofs about snapshots assume of the clients: nothing after a  *)
(* start from an older superblock than the newest, no write of an address  *)
(* before it is rekeyed, no discarding of the snapshot just made.  Each of *)
(* these breaks what is proved here; a run or configuration shows it.      *)
OneRun == Restarted_Ops = {} /\ ~Write_Ahead /\ ~Discard_Current

Keys_Of(s) == [v \in VBA |-> Key_For(s, v)]

(* Snapshots of which the one at c is the current and newest one: each has *)
(* its tree, with the keys K, and none shares its tree or generation with  *)
(* another.  An older one lies in blocks of its own, or older, snapshots.  *)
Good(snaps, c, K, trees, gen) ==
  /\ c \in Valid_Snaps(snaps)
  /\ \A i \in Valid_Snaps(snaps) :
       /\ trees[snaps[i].PBA] = snaps[i].Hash /\ snaps[i].Hash.key = K
       /\ snaps[i].PBA[2] <= gen /\ snaps[i].Gen <= gen
       /\ i # c => snaps[i].Gen < snaps[c].Gen /\ snaps[i].PBA[1] <= snaps[i].Gen
  /\ \A i, k \in Valid_Snaps(snaps) :
       i # k => snaps[i].Gen # snaps[k].Gen /\ snaps[i].PBA # snaps[k].PBA

(* The last address is rekeyed, what remains is to remove the old key. *)
Last_Rekeyed == job.op = "Rekey_VBA" /\ At({"Remove_Previous_Key"})

(* The snapshots that the superblock has, or is about to take over.        *)
Snaps == IF Taking_Over THEN job.Snapshots ELSE sb.Snapshots

Snap_Idx == IF Completed("VBD_Ext_Step_In_VBD") THEN Newest_Snapshot_Idx(job.Snapshots)
                                                ELSE sb.Curr_Snap

Snap_Keys ==
  IF Last_Rekeyed THEN [v \in VBA |-> sb.Current_Key]
  ELSE IF Completed("Rekey_VBA_In_VBD")
    THEN [Keys_Of(sb) EXCEPT ![sb.Rekeying_VBA] = sb.Current_Key]
    ELSE Keys_Of(sb)

SnapshotsGood == sb.State # "Invalid" => Good(Snaps, Snap_Idx, Snap_Keys, cached, curr_gen)

(* All superblocks on the device have their trees, there and in the cache. *)
Whole(s, trees) == Good(s.Snapshots, s.Curr_Snap, Keys_Of(s), trees, Curr(s).Gen)

DeviceGood ==
  \A i \in Superblocks_Index :
    LET s == device.superblocks[i].plain
    IN s.State # "Invalid" => Whole(s, device.trees) /\ Whole(s, cached)

(* They are of earlier generations, but for the one just written.          *)
Written_Gen == IF Completed("Write_SB") \/ At({"Sync_Blk_IO"}) THEN curr_gen ELSE curr_gen - 1

DeviceOld ==
  restarts = 0 /\ sb.State # "Invalid" =>
    \A i \in Superblocks_Index :
      LET s == device.superblocks[i].plain
      IN s.State # "Invalid" => Curr(s).Gen <= Written_Gen

SomeSuperblock == \E i \in Superblocks_Index : Found(device.superblocks[i])

(* Before the copy the current snapshot is of this generation, or of the   *)
(* one secured last, and what the clients keep is older; only blocks of a  *)
(* current snapshot of this generation are new.                            *)
Current_Gens ==
  /\ sb.Last_Secured_Generation = curr_gen - 1
  /\ Curr(sb).Gen \in {curr_gen - 1, curr_gen}
  /\ \A i \in Kept_Snaps(sb.Snapshots) : sb.Snapshots[i].Gen < curr_gen

Current_Blocks ==
  /\ Curr(sb).PBA[2] <= Curr(sb).Gen
  /\ \A i \in Valid_Snaps(sb.Snapshots) : i # sb.Curr_Snap => sb.Snapshots[i].PBA[2] < curr_gen

(* The copy is of this generation, which ends before it is secured.        *)
Copied_Gens ==
  /\ Curr(sb).Gen = IF At({"Secure_SB"}) THEN curr_gen - 1 ELSE curr_gen
  /\ \A i \in Valid_Snaps(sb.Snapshots) : sb.Snapshots[i].PBA[2] <= Curr(sb).Gen
  /\ At({"Secure_SB"}) => job.Generation = curr_gen - 1

Generations ==
  restarts = 0 /\ sb.State # "Invalid" =>
    /\ curr_gen >= 1
    /\ ~At(Copied) => Current_Gens
    /\ ~At(Copied) /\ ~Last_Rekeyed => Current_Blocks
    /\ At(Copied) => Copied_Gens

(* What the job has for the superblock.                                    *)
TakenOver ==
  /\ Taking_Over =>
       \A i \in Kept_Snaps(sb.Snapshots) :
         /\ i \in Kept_Snaps(job.Snapshots)
         /\ cached[job.Snapshots[i].PBA].data = cached[sb.Snapshots[i].PBA].data
  /\ Completed("Rekey_VBA_In_VBD") =>
       \A i \in Valid_Snaps(job.Snapshots) :
         /\ i \in Valid_Snaps(sb.Snapshots)
         /\ job.Snapshots[i].Gen = sb.Snapshots[i].Gen
         /\ job.Snapshots[i].Keep = sb.Snapshots[i].Keep

NotTheCurrent ==
  Submitted("Discard_Snapshot") => ~(Curr(sb).Keep /\ Curr(sb).Gen = job.Generation)

(* A start has nothing yet, but knows the generation of its choice.        *)
StartKnows ==
  Starting =>
    /\ sb = Superblock_Invalid
    /\ job.SB_Found => job.Generation = Curr(device.superblocks[job.SB_Idx].plain).Gen

CachedAfterRestart == restarts > 0 => cached = device.trees

SInv ==
  /\ SnapshotsGood
  /\ DeviceGood
  /\ DeviceOld
  /\ SomeSuperblock
  /\ Generations
  /\ TakenOver
  /\ NotTheCurrent
  /\ StartKnows
  /\ CachedAfterRestart

(* What is said of the fields of snapshots. *)
LEMMA SnapTypes ==
  ASSUME NEW snaps \in Snapshots_Type, NEW i \in Snapshots_Index
  PROVE  /\ snaps[i] \in Snapshot /\ snaps[i].PBA \in Tree /\ snaps[i].Hash \in Content
         /\ snaps[i].Gen \in Nat /\ snaps[i].Gen \in Generation
         /\ snaps[i].PBA[1] \in Nat /\ snaps[i].PBA[2] \in Nat
         /\ snaps[i].PBA[1] <= snaps[i].PBA[2]
         /\ {snaps[i].Valid, snaps[i].Keep} \subseteq BOOLEAN
<1>1. snaps[i] \in Snapshot
  BY DEF Snapshots_Type
<1>2. snaps[i].PBA \in Tree /\ snaps[i].Gen \in Generation /\ snaps[i].Hash \in Content
      /\ {snaps[i].Valid, snaps[i].Keep} \subseteq BOOLEAN
  BY <1>1 DEF Snapshot
<1> QED BY <1>1, <1>2, SuperblockAssumption DEF Tree, Generation

(* The current one is the newest, whatever is said of the trees.           *)
LEMMA GoodNewest ==
  ASSUME NEW snaps \in Snapshots_Type, NEW c, NEW K, NEW trees, NEW gen,
         Good(snaps, c, K, trees, gen)
  PROVE  /\ Newest_Snapshot_Idx(snaps) = c /\ c \in Snapshots_Index
         /\ \A i \in Valid_Snaps(snaps) : snaps[i].Gen <= snaps[c].Gen
<1> DEFINE n == Newest_Snapshot_Idx(snaps)
<1>1. c \in Valid_Snaps(snaps) /\ Valid_Snaps(snaps) \subseteq Snapshots_Index
  BY DEF Good, Valid_Snaps
<1>2. n \in Valid_Snaps(snaps) /\ \A k \in Valid_Snaps(snaps) : snaps[k].Gen <= snaps[n].Gen
  BY <1>1, NewestIs
<1> HIDE DEF n
<1>3. snaps[n].Gen \in Nat /\ snaps[c].Gen \in Nat /\ snaps[c].Gen <= snaps[n].Gen
  BY <1>1, <1>2, SnapTypes
<1>4. n # c => snaps[n].Gen < snaps[c].Gen
  BY <1>2 DEF Good
<1>5. n = c
  BY <1>3, <1>4
<1> QED BY <1>1, <1>2, <1>5 DEF n

(* What stays good: fewer snapshots, of which the current one may have got *)
(* a later generation, with trees that still are as they were.             *)
LEMMA GoodStays ==
  ASSUME NEW old \in Snapshots_Type, NEW new \in Snapshots_Type, NEW c, NEW K, NEW trees,
         NEW trees2, NEW gen \in Nat, NEW gen2 \in Nat,
         Good(old, c, K, trees, gen), gen <= gen2,
         Valid_Snaps(new) \subseteq Valid_Snaps(old), c \in Valid_Snaps(new),
         \A i \in Valid_Snaps(new) :
           /\ new[i].PBA = old[i].PBA /\ new[i].Hash = old[i].Hash
           /\ i # c => new[i].Gen = old[i].Gen
           /\ trees2[old[i].PBA] = trees[old[i].PBA],
         old[c].Gen <= new[c].Gen, new[c].Gen <= gen2
  PROVE  Good(new, c, K, trees2, gen2)
<1>1. Valid_Snaps(old) \subseteq Snapshots_Index
  BY DEF Valid_Snaps
<1>2. ASSUME NEW i \in Valid_Snaps(new)
      PROVE  /\ trees2[new[i].PBA] = new[i].Hash /\ new[i].Hash.key = K
             /\ new[i].PBA[2] <= gen2 /\ new[i].Gen <= gen2
             /\ i # c => new[i].Gen < new[c].Gen /\ new[i].PBA[1] <= new[i].Gen
  <2>1. i \in Valid_Snaps(old) /\ c \in Valid_Snaps(old) /\ {i, c} \subseteq Snapshots_Index
    BY <1>1, <1>2
  <2>2. /\ trees[old[i].PBA] = old[i].Hash /\ old[i].Hash.key = K
        /\ old[i].PBA[2] <= gen /\ old[i].Gen <= gen
        /\ i # c => old[i].Gen < old[c].Gen /\ old[i].PBA[1] <= old[i].Gen
    BY <2>1 DEF Good
  <2>3. old[i].PBA[2] \in Nat /\ {old[i].Gen, old[c].Gen, new[c].Gen} \subseteq Nat
    BY <2>1, SnapTypes
  <2>4. old[i].PBA[2] <= gen2 /\ old[i].Gen <= gen2
        /\ (i # c => old[i].Gen < new[c].Gen)
    BY <2>2, <2>3
  <2>5. new[i].PBA = old[i].PBA /\ new[i].Hash = old[i].Hash
        /\ trees2[old[i].PBA] = trees[old[i].PBA] /\ (i # c => new[i].Gen = old[i].Gen)
    BY <1>2
  <2>6. new[i].Gen <= gen2
    BY <2>4, <2>5
  <2> QED BY <2>2, <2>4, <2>5, <2>6
<1>3. ASSUME NEW i \in Valid_Snaps(new), NEW k \in Valid_Snaps(new), i # k
      PROVE  new[i].Gen # new[k].Gen /\ new[i].PBA # new[k].PBA
  <2>1. old[i].PBA # old[k].PBA /\ old[i].Gen # old[k].Gen
    BY <1>3 DEF Good
  <2>2. new[i].PBA = old[i].PBA /\ new[k].PBA = old[k].PBA
    BY <1>3
  <2>3. {new[i].Gen, new[k].Gen, new[c].Gen} \subseteq Nat
    BY <1>1, <1>3, SnapTypes
  <2>4. CASE i = c
    <3>1. new[k].Gen < new[c].Gen
      BY <1>2, <1>3, <2>4
    <3> QED BY <2>1, <2>2, <2>3, <2>4, <3>1
  <2>5. CASE k = c
    <3>1. new[i].Gen < new[c].Gen
      BY <1>2, <1>3, <2>5
    <3> QED BY <2>1, <2>2, <2>3, <2>5, <3>1
  <2>6. CASE i # c /\ k # c
    <3>1. new[i].Gen = old[i].Gen /\ new[k].Gen = old[k].Gen
      BY <1>3, <2>6
    <3> QED BY <2>1, <2>2, <3>1
  <2> QED BY <2>4, <2>5, <2>6
<1> QED BY <1>2, <1>3 DEF Good

(* A snapshot of a block of its own for the current data: it takes the     *)
(* place of the current one, or leaves that one behind as an older one.    *)
LEMMA GoodWithNew ==
  ASSUME NEW old \in Snapshots_Type, NEW c, NEW K, NEW trees \in [Tree -> Content],
         NEW gen \in Nat, Good(old, c, K, trees, gen), gen \in Generation,
         NEW i \in Snapshots_Index, NEW snap \in Snapshot,
         snap.Valid, snap.Gen = gen, snap.PBA = <<gen, gen>>, snap.Hash.key = K,
         IF old[c].Gen < gen THEN i \notin Valid_Snaps(old) ELSE i = c,
         \A k \in Valid_Snaps(old) : k # i => old[k].PBA[2] < gen,
         old[c].PBA[1] <= old[c].Gen
  PROVE  Good([old EXCEPT ![i] = snap], i, K, [trees EXCEPT ![<<gen, gen>>] = snap.Hash], gen)
<1> DEFINE new == [old EXCEPT ![i] = snap]
           trees2 == [trees EXCEPT ![<<gen, gen>>] = snap.Hash]
<1>1. c \in Valid_Snaps(old) /\ Valid_Snaps(old) \subseteq Snapshots_Index
  BY DEF Good, Valid_Snaps
<1>2. /\ new \in Snapshots_Type /\ new[i] = snap
      /\ \A k \in Snapshots_Index : k # i => new[k] = old[k]
  BY DEF Snapshots_Type
<1>3. <<gen, gen>> \in Tree
  BY DEF Tree
<1>4. /\ trees2[<<gen, gen>>] = snap.Hash
      /\ \A t \in Tree : t # <<gen, gen>> => trees2[t] = trees[t]
  BY <1>3
<1>5. Valid_Snaps(new) \subseteq Valid_Snaps(old) \cup {i} /\ i \in Valid_Snaps(new)
  BY <1>2 DEF Valid_Snaps
<1> HIDE DEF new, trees2
<1>6. ASSUME NEW k \in Valid_Snaps(new), k # i
      PROVE  /\ k \in Valid_Snaps(old) /\ k \in Snapshots_Index /\ new[k] = old[k]
             /\ trees2[old[k].PBA] = old[k].Hash /\ old[k].Hash.key = K
             /\ old[k].PBA # <<gen, gen>> /\ old[k].PBA[2] <= gen
             /\ old[k].Gen < gen /\ old[k].PBA[1] <= old[k].Gen
  <2>1. k \in Valid_Snaps(old) /\ k \in Snapshots_Index /\ new[k] = old[k]
    BY <1>1, <1>2, <1>5, <1>6
  <2>2. /\ trees[old[k].PBA] = old[k].Hash /\ old[k].Hash.key = K
        /\ old[k].Gen <= gen /\ old[c].Gen <= gen
        /\ k # c => old[k].Gen < old[c].Gen /\ old[k].PBA[1] <= old[k].Gen
    BY <1>1, <2>1 DEF Good
  <2>3. /\ old[k].PBA \in Tree /\ old[k].PBA[2] \in Nat /\ {old[k].Gen, old[c].Gen} \subseteq Nat
        /\ old[k].PBA[2] < gen
    BY <1>1, <1>6, <2>1, SnapTypes
  <2>4. old[k].PBA # <<gen, gen>> /\ old[k].PBA[2] <= gen
    BY <2>3
  <2>5. trees2[old[k].PBA] = trees[old[k].PBA]
    BY <1>4, <2>3, <2>4
  <2>6. old[k].Gen < gen /\ old[k].PBA[1] <= old[k].Gen
    <3>1. CASE k = c
      BY <1>6, <2>2, <2>3, <3>1
    <3>2. CASE k # c
      BY <2>2, <2>3, <3>2
    <3> QED BY <3>1, <3>2
  <2> QED BY <2>1, <2>2, <2>4, <2>5, <2>6
<1>7. ASSUME NEW k \in Valid_Snaps(new)
      PROVE  /\ trees2[new[k].PBA] = new[k].Hash /\ new[k].Hash.key = K
             /\ new[k].PBA[2] <= gen /\ new[k].Gen <= gen
             /\ k # i => new[k].Gen < new[i].Gen /\ new[k].PBA[1] <= new[k].Gen
  <2>1. CASE k = i
    BY <1>2, <1>4, <2>1
  <2>2. CASE k # i
    <3>1. old[k].Gen \in Nat
      BY <1>6, <2>2, SnapTypes
    <3> QED BY <1>2, <1>6, <2>2, <3>1
  <2> QED BY <2>1, <2>2
<1>8. ASSUME NEW k \in Valid_Snaps(new), NEW l \in Valid_Snaps(new), k # l
      PROVE  new[k].Gen # new[l].Gen /\ new[k].PBA # new[l].PBA
  <2>1. CASE k # i /\ l # i
    BY <1>6, <1>8, <2>1 DEF Good
  <2>2. ASSUME NEW m \in Valid_Snaps(new), m # i
        PROVE  new[m].Gen # new[i].Gen /\ new[m].PBA # new[i].PBA
    <3>1. old[m].Gen \in Nat
      BY <1>6, <2>2, SnapTypes
    <3> QED BY <1>2, <1>6, <2>2, <3>1
  <2> QED BY <1>5, <1>8, <2>1, <2>2
<1>9. Good(new, i, K, trees2, gen)
  BY <1>5, <1>7, <1>8 DEF Good
<1> QED BY <1>9 DEF new, trees2

(* Rekeyed, the snapshots have blocks of their own again. *)
LEMMA GoodRekeyed ==
  ASSUME TypeOK, curr_gen \in Generation, Past(sb.Snapshots), NEW c, NEW K,
         Good(Rekeying_Snaps, c, K, cached, curr_gen)
  PROVE  Good(Rekeyed_Snaps, c, [K EXCEPT ![sb.Rekeying_VBA] = sb.Current_Key],
              Rekeyed_Cached, curr_gen)
<1> DEFINE new == Rekeyed_Snaps
           V == Valid_Snaps(Rekeying_Snaps)
           K2 == [K EXCEPT ![sb.Rekeying_VBA] = sb.Current_Key]
<1>0. curr_gen <= Max_Generation /\ curr_gen \in Nat
  BY SuperblockAssumption DEF Generation
<1>1. /\ Rekeying_Snaps \in Snapshots_Type
      /\ \A i \in Snapshots_Index : SameBut(Rekeying_Snaps[i], sb.Snapshots[i])
  BY RekeyingSnapsIs
<1>2. Newest_Snapshot_Idx(Rekeying_Snaps) = c /\ V \subseteq Snapshots_Index
  BY <1>1, GoodNewest DEF Valid_Snaps
<1>3. new \in Snapshots_Type /\ Valid_Snaps(new) = V
  BY <1>0, RekeyedSnapsAre
<1>4. ASSUME NEW i \in V
      PROVE  /\ new[i].Gen = sb.Snapshots[i].Gen /\ new[i].Gen = Rekeying_Snaps[i].Gen
             /\ new[i].PBA = IF i = c THEN <<curr_gen, curr_gen>> ELSE <<new[i].Gen, curr_gen>>
             /\ new[i].Hash.key = K2
             /\ new[i].Gen \in Nat /\ new[i].Gen <= curr_gen
             /\ i # c => new[i].Gen < new[c].Gen
  <2>1. i \in Snapshots_Index /\ c \in V
    BY <1>2 DEF Good
  <2>2. /\ new[i].Gen = sb.Snapshots[i].Gen /\ new[c].Gen = sb.Snapshots[c].Gen
        /\ new[i].PBA = IF i = c THEN <<curr_gen, curr_gen>> ELSE <<sb.Snapshots[i].Gen, curr_gen>>
        /\ new[i].Hash.key = [sb.Snapshots[i].Hash.key EXCEPT ![sb.Rekeying_VBA] = sb.Current_Key]
    BY <1>0, <1>2, <2>1, RekeyedSnapsAre
  <2>3. /\ SameBut(Rekeying_Snaps[i], sb.Snapshots[i])
        /\ SameBut(Rekeying_Snaps[c], sb.Snapshots[c])
    BY <1>1, <1>2, <2>1
  <2>4. /\ Rekeying_Snaps[i].Hash.key = K /\ Rekeying_Snaps[i].Gen <= curr_gen
        /\ i # c => Rekeying_Snaps[i].Gen < Rekeying_Snaps[c].Gen
    BY DEF Good
  <2>5. new[i].Gen \in Nat
    BY <1>3, <2>1, SnapTypes
  <2> QED BY <2>2, <2>3, <2>4, <2>5 DEF SameBut
<1> HIDE DEF K2, new, V
<1>9. ASSUME NEW i \in V
      PROVE  /\ new[i].PBA[1] = IF i = c THEN curr_gen ELSE new[i].Gen
             /\ new[i].PBA[2] = curr_gen
  <2>1. CASE i = c
    <3>1. new[i].PBA = <<curr_gen, curr_gen>>
      BY <1>4, <2>1
    <3> QED BY <2>1, <3>1
  <2>2. CASE i # c
    <3>1. new[i].PBA = <<new[i].Gen, curr_gen>>
      BY <1>4, <2>2
    <3> QED BY <2>2, <3>1
  <2> QED BY <2>1, <2>2
<1>10. ASSUME NEW i \in V
       PROVE  i # c => new[i].Gen < curr_gen
  <2>1. c \in V
    BY DEF Good, V
  <2>2. /\ new[c].Gen \in Nat /\ new[c].Gen <= curr_gen
        /\ new[i].Gen \in Nat /\ (i # c => new[i].Gen < new[c].Gen)
    BY <1>4, <2>1
  <2> QED BY <1>0, <2>2
<1>5. ASSUME NEW i \in V, NEW k \in V, i # k
      PROVE  new[i].Gen # new[k].Gen /\ new[i].PBA # new[k].PBA
  <2>1. Rekeying_Snaps[i].Gen # Rekeying_Snaps[k].Gen
    BY <1>5 DEF Good, V
  <2>2. new[i].Gen # new[k].Gen
    BY <1>4, <2>1
  <2>3. new[i].Gen \in Nat /\ new[k].Gen \in Nat
    BY <1>4
  <2>4. /\ new[i].PBA[1] = IF i = c THEN curr_gen ELSE new[i].Gen
        /\ new[k].PBA[1] = IF k = c THEN curr_gen ELSE new[k].Gen
        /\ i # c => new[i].Gen < curr_gen
        /\ k # c => new[k].Gen < curr_gen
    BY <1>9, <1>10
  <2>6. new[i].PBA[1] # new[k].PBA[1]
    BY <1>0, <1>5, <2>2, <2>3, <2>4
  <2> QED BY <2>2, <2>6
<1>6. ASSUME NEW i \in V
      PROVE  Rekeyed_Cached[new[i].PBA] = new[i].Hash
  <2>1. new[i].PBA \in Tree
    BY <1>2, <1>3, <1>6, SnapTypes
  <2>2. PICK k \in V : new[k].PBA = new[i].PBA /\ Rekeyed_Cached[new[i].PBA] = new[k].Hash
    BY <1>3, <1>6, <2>1, RekeyedCachedIs DEF new, V
  <2>3. k = i
    BY <1>5, <2>2
  <2> QED BY <2>2, <2>3
<1>7. c \in V
  BY DEF Good, V
<1>8. ASSUME NEW i \in V
      PROVE  /\ Rekeyed_Cached[new[i].PBA] = new[i].Hash /\ new[i].Hash.key = K2
             /\ new[i].PBA[2] <= curr_gen /\ new[i].Gen <= curr_gen
             /\ i # c => new[i].Gen < new[c].Gen /\ new[i].PBA[1] <= new[i].Gen
  <2>1. new[i].PBA[2] = curr_gen /\ (i # c => new[i].PBA[1] = new[i].Gen)
    BY <1>9
  <2>2. new[i].Gen \in Nat /\ new[i].Gen <= curr_gen /\ new[i].Hash.key = K2
        /\ (i # c => new[i].Gen < new[c].Gen)
    BY <1>4
  <2> QED BY <1>0, <1>6, <2>1, <2>2
<1> QED BY <1>3, <1>5, <1>7, <1>8 DEF Good, new, K2

-----------------------------------------------------------------------------
(***************************************************************************)
(* What most steps leave as it is.                                         *)
(***************************************************************************)
(* The superblocks on the device, by their types. *)
LEMMA OnDevice ==
  ASSUME TypeOK, NEW i \in Superblocks_Index, NEW s, s = device.superblocks[i].plain
  PROVE  /\ s \in Superblock /\ s.Snapshots \in Snapshots_Type
         /\ s.Curr_Snap \in Snapshots_Index /\ Curr(s) \in Snapshot
         /\ Curr(s).Gen \in Nat /\ Curr(s).Gen \in Generation
<1>1. device.superblocks[i] \in Ciphertext
  BY DEF TypeOK, Device
<1>2. s \in Superblock
  BY <1>1 DEF Ciphertext
<1>3. s.Snapshots \in Snapshots_Type /\ s.Curr_Snap \in Snapshots_Index
  BY <1>2 DEF Superblock, Snapshots_Type
<1> QED BY <1>2, <1>3, SnapTypes DEF Curr

(* A superblock stays whole with trees that are the same where it looks.   *)
LEMMA WholeStays ==
  ASSUME NEW s, s.Snapshots \in Snapshots_Type, Curr(s).Gen \in Nat,
         NEW trees, NEW trees2, Whole(s, trees),
         \A t \in Tree : t[2] <= Curr(s).Gen => trees2[t] = trees[t]
  PROVE  Whole(s, trees2)
<1>1. s.Curr_Snap \in Valid_Snaps(s.Snapshots) /\ Valid_Snaps(s.Snapshots) \subseteq Snapshots_Index
  BY DEF Whole, Good, Valid_Snaps
<1>2. \A i \in Valid_Snaps(s.Snapshots) :
        s.Snapshots[i].PBA \in Tree /\ s.Snapshots[i].PBA[2] <= Curr(s).Gen
  BY <1>1, SnapTypes DEF Whole, Good
<1>3. Curr(s).Gen = s.Snapshots[s.Curr_Snap].Gen /\ Curr(s).Gen <= Curr(s).Gen
  BY DEF Curr
<1> QED BY <1>1, <1>2, <1>3, GoodStays DEF Whole

(* Blocks of the current generation are none of a superblock's on the      *)
(* device, before this generation has written its own.                     *)
LEMMA DeviceKeeps ==
  ASSUME TypeOK, SInv, restarts = 0, sb.State # "Invalid", Written_Gen = curr_gen - 1,
         device' = device,
         \A t \in Tree : t[2] # curr_gen => cached'[t] = cached[t]
  PROVE  DeviceGood'
<1> SUFFICES ASSUME NEW i \in Superblocks_Index, NEW s, s = device.superblocks[i].plain,
                    s.State # "Invalid"
             PROVE  Whole(s, device.trees) /\ Whole(s, cached')
  BY DEF DeviceGood
<1>1. Whole(s, device.trees) /\ Whole(s, cached) /\ Curr(s).Gen <= curr_gen - 1
  BY DEF SInv, DeviceGood, DeviceOld
<1>2. s.Snapshots \in Snapshots_Type /\ Curr(s).Gen \in Nat /\ curr_gen \in Int
  BY OnDevice DEF TypeOK
<1>3. \A t \in Tree : t[2] \in Int
  BY SuperblockAssumption DEF Tree, Generation
<1>4. \A t \in Tree : t[2] <= Curr(s).Gen => cached'[t] = cached[t]
  BY <1>1, <1>2, <1>3
<1> QED BY <1>1, <1>2, <1>4, WholeStays

(* The device keeps its superblocks, and of the blocks becomes no other    *)
(* than what is cached.                                                    *)
LEMMA DeviceSame ==
  ASSUME TypeOK, SInv, cached' = cached, device'.superblocks = device.superblocks,
         \A t \in Tree : device'.trees[t] \in {cached[t], device.trees[t]}
  PROVE  DeviceGood' /\ SomeSuperblock'
<1>1. SomeSuperblock'
  BY DEF SInv, SomeSuperblock, Found
<1>2. ASSUME NEW i \in Superblocks_Index, NEW s, s = device.superblocks[i].plain,
             s.State # "Invalid"
      PROVE  Whole(s, device'.trees) /\ Whole(s, cached)
  <2>1. Whole(s, device.trees) /\ Whole(s, cached)
    BY <1>2 DEF SInv, DeviceGood
  <2>2. s.Snapshots \in Snapshots_Type /\ Curr(s).Gen \in Nat /\ Curr(s).Gen <= Curr(s).Gen
        /\ Curr(s).Gen = s.Snapshots[s.Curr_Snap].Gen
    <3>1. s.Snapshots \in Snapshots_Type /\ Curr(s).Gen \in Nat
      BY <1>2, OnDevice
    <3>2. Curr(s) = s.Snapshots[s.Curr_Snap]
      BY DEF Curr
    <3> QED BY ONLY <3>1, <3>2
  <2>3. s.Curr_Snap \in Valid_Snaps(s.Snapshots)
        /\ Valid_Snaps(s.Snapshots) \subseteq Snapshots_Index
    BY <2>1 DEF Whole, Good, Valid_Snaps
  <2>4. ASSUME NEW k \in Valid_Snaps(s.Snapshots)
        PROVE  device'.trees[s.Snapshots[k].PBA] = device.trees[s.Snapshots[k].PBA]
    <3>1. s.Snapshots[k].PBA \in Tree
      BY <2>2, <2>3, <2>4, SnapTypes
    <3>2. /\ device.trees[s.Snapshots[k].PBA] = s.Snapshots[k].Hash
          /\ cached[s.Snapshots[k].PBA] = s.Snapshots[k].Hash
      BY <2>1, <2>4 DEF Whole, Good
    <3> QED BY <3>1, <3>2
  <2>5. Whole(s, device'.trees)
    BY <2>1, <2>2, <2>3, <2>4, GoodStays DEF Whole
  <2> QED BY <2>1, <2>5
<1> QED BY <1>1, <1>2 DEF DeviceGood

(* A job that goes on, or another one, while the snapshots stay.           *)
LEMMA KeepsSInv ==
  ASSUME SInv, UNCHANGED <<curr_gen, restarts, cached>>,
         device'.superblocks = device.superblocks,
         DeviceGood', CachedAfterRestart', NotTheCurrent', StartKnows',
         sb'.State # "Invalid" =>
           /\ sb.State # "Invalid" /\ sb'.Snapshots = sb.Snapshots
           /\ sb'.Curr_Snap = sb.Curr_Snap
           /\ sb'.Last_Secured_Generation = sb.Last_Secured_Generation
           /\ Snap_Keys' = Snap_Keys,
         ~Taking_Over, ~Taking_Over',
         At(Copied)' <=> At(Copied), At({"Secure_SB"})' <=> At({"Secure_SB"}),
         At({"Secure_SB"}) => job'.Generation = job.Generation,
         Last_Rekeyed' <=> Last_Rekeyed, Written_Gen' = Written_Gen
  PROVE  SInv'
<1>1. SnapshotsGood'
  <2> SUFFICES ASSUME sb'.State # "Invalid"
               PROVE  Good(Snaps', Snap_Idx', Snap_Keys', cached', curr_gen')
    BY DEF SnapshotsGood
  <2>1. Snaps' = Snaps /\ Snap_Idx' = Snap_Idx
    BY DEF Snaps, Snap_Idx, Taking_Over
  <2> QED BY <2>1 DEF SInv, SnapshotsGood
<1>2. DeviceOld'
  BY DEF SInv, DeviceOld
<1>3. SomeSuperblock'
  BY DEF SInv, SomeSuperblock
<1>4. Generations'
  <2> SUFFICES ASSUME restarts' = 0, sb'.State # "Invalid"
               PROVE  /\ curr_gen' >= 1
                      /\ ~At(Copied)' => Current_Gens'
                      /\ ~At(Copied)' /\ ~Last_Rekeyed' => Current_Blocks'
                      /\ At(Copied)' => Copied_Gens'
    BY DEF Generations
  <2>1. Curr(sb)' = Curr(sb) /\ Kept_Snaps(sb.Snapshots)' = Kept_Snaps(sb.Snapshots)
        /\ Valid_Snaps(sb.Snapshots)' = Valid_Snaps(sb.Snapshots)
    BY DEF Curr
  <2>2. Current_Gens => Current_Gens'
    BY <2>1 DEF Current_Gens
  <2>3. Current_Blocks => Current_Blocks'
    BY <2>1 DEF Current_Blocks
  <2>4. Copied_Gens => Copied_Gens'
    BY <2>1 DEF Copied_Gens
  <2> QED BY <2>2, <2>3, <2>4 DEF SInv, Generations
<1>5. TakenOver'
  BY DEF TakenOver, Taking_Over
<1> QED BY <1>1, <1>2, <1>3, <1>4, <1>5 DEF SInv

(* An answer that brings no snapshots, and not that the superblock is      *)
(* written.                                                                *)
LEMMA AnswerSInv ==
  ASSUME IInv, KInv, TypeOK, SInv, NEW step, NEW j, Answer(step, j), Kept_Of(j),
         j.Generation = job.Generation,
         step \notin {"Rekey_VBA_In_VBD", "VBD_Ext_Step_In_VBD", "Write_SB"},
         cached' = cached, device'.superblocks = device.superblocks,
         \A t \in Tree : device'.trees[t] \in {cached[t], device.trees[t]},
         CachedAfterRestart'
  PROVE  SInv'
<1>1. UNCHANGED <<sb, curr_gen, restarts>> /\ job'.Generation = job.Generation
  <2>1. job' = [j EXCEPT !.state = <<step, "Completed">>]
    BY DEF Answer
  <2> QED BY <2>1, FieldsOfJob DEF Answer, Kept_Of, IInv, Shape
<1>2. DeviceGood'
  BY DeviceSame
<1>3. NotTheCurrent'
  BY AnswerToJob, StatesDiffer DEF NotTheCurrent, Submitted
<1>4. StartKnows'
  BY <1>1, AnswerToJob DEF SInv, StartKnows
<1>5. ~Taking_Over /\ ~Taking_Over'
  BY AnswerToJob DEF Taking_Over
<1>6. /\ At(Copied)' <=> At(Copied)
      /\ At({"Secure_SB"})' <=> At({"Secure_SB"})
      /\ Last_Rekeyed' <=> Last_Rekeyed
  BY AnswerToJob DEF Last_Rekeyed
<1>7. Written_Gen' = Written_Gen
  BY <1>1, AnswerToJob DEF Written_Gen
<1>8. Snap_Keys' = Snap_Keys
  <2>1. ~Completed("Rekey_VBA_In_VBD") /\ ~Completed("Rekey_VBA_In_VBD")'
    BY AnswerToJob
  <2>2. Keys_Of(sb)' = Keys_Of(sb)
    BY <1>1 DEF Keys_Of, Key_For
  <2> QED BY <1>1, <1>6, <2>1, <2>2 DEF Snap_Keys
<1> QED BY <1>1, <1>2, <1>3, <1>4, <1>5, <1>6, <1>7, <1>8, KeepsSInv

-----------------------------------------------------------------------------
(***************************************************************************)
(* The answers of the other modules.                                       *)
(***************************************************************************)
LEMMA SameSInv ==
  ASSUME SInv, UNCHANGED <<sb, job, curr_gen, cached, device, restarts>>
  PROVE  SInv'
<1>1. /\ \A steps : At(steps)' <=> At(steps)
      /\ \A x : Completed(x)' <=> Completed(x)
      /\ UNCHANGED <<sb, job, curr_gen, cached, device, restarts>>
  BY DEF At, Completed
<1>2. /\ Taking_Over' <=> Taking_Over
      /\ Last_Rekeyed' <=> Last_Rekeyed
      /\ Starting' <=> Starting
  BY <1>1 DEF Taking_Over, Last_Rekeyed, Starting
<1>3. Snaps' = Snaps /\ Snap_Idx' = Snap_Idx /\ Written_Gen' = Written_Gen
  BY <1>1, <1>2 DEF Snaps, Snap_Idx, Written_Gen
<1>4. Snap_Keys' = Snap_Keys
  BY <1>1, <1>2 DEF Snap_Keys, Keys_Of, Key_For
<1>5. SnapshotsGood'
  BY <1>1, <1>3, <1>4 DEF SInv, SnapshotsGood
<1>6. DeviceGood' /\ DeviceOld' /\ SomeSuperblock' /\ CachedAfterRestart'
  BY <1>1, <1>3 DEF SInv, DeviceGood, DeviceOld, SomeSuperblock, CachedAfterRestart, Found
<1>7. Current_Gens' = Current_Gens /\ Current_Blocks' = Current_Blocks
      /\ Copied_Gens' = Copied_Gens
  BY <1>1 DEF Current_Gens, Current_Blocks, Copied_Gens, Curr
<1>8. Generations'
  BY <1>1, <1>2, <1>7 DEF SInv, Generations
<1>9. TakenOver' /\ NotTheCurrent' /\ StartKnows'
  BY <1>1, <1>2 DEF SInv, TakenOver, NotTheCurrent, StartKnows, Submitted, Curr
<1> QED BY <1>5, <1>6, <1>8, <1>9 DEF SInv

LEMMA RaiseSInv == SInv /\ Raise_Program_Error => SInv'
BY SameSInv DEF Raise_Program_Error

(* An operation is under way: not after a restart. *)
LEMMA OperationIs ==
  ASSUME IInv, KInv, TInv, NEW step, At({step}),
         step \in Copied \cup {"FT_Ext_Step_In_FT", "VBD_Ext_Step_In_VBD", "Rekey_VBA_In_VBD",
                               "Create_Key", "Add_Key"}
  PROVE  restarts = 0 /\ Working /\ sb.State # "Invalid" /\ job.op # "Initialize"
<1>1. job.op # "Initialize"
  <2>1. step \in Copied => At(Copied)
    BY DEF At
  <2>2. CASE step \in Copied
    BY <2>1, <2>2 DEF KInv, StepOfOperation
  <2>3. CASE step = "FT_Ext_Step_In_FT"
    BY <2>3 DEF KInv, StepOfOperation
  <2>4. CASE step = "VBD_Ext_Step_In_VBD"
    BY <2>4 DEF KInv, StepOfOperation
  <2>5. CASE step = "Rekey_VBA_In_VBD"
    BY <2>5 DEF KInv, StepOfOperation
  <2>6. CASE step \in {"Create_Key", "Add_Key"}
    <3>1. At({"Create_Key", "Add_Key"})
      BY <2>6 DEF At
    <3> QED BY <3>1 DEF KInv, StepOfOperation
  <2> QED BY <2>2, <2>3, <2>4, <2>5, <2>6
<1>2. job.state # <<"Submitted">> /\ job.state # <<"Completed">>
  BY StatesDiffer DEF At
<1>3. job.op # "Invalid"
  BY <1>2 DEF IInv, NoJobNoStep
<1> QED BY <1>1, <1>2, <1>3 DEF Working, Starting, NoJob, KInv, StateOfOperation, TInv,
             NoneAfterRestart, TypeOK

LEMMA TrustAnchorSInv == IInv /\ KInv /\ TInv /\ SInv /\ Trust_Anchor => SInv'
<1> SUFFICES ASSUME IInv, KInv, TInv, SInv, Trust_Anchor PROVE SInv'
  OBVIOUS
<1>0. TypeOK /\ UNCHANGED <<cached, device>> /\ CachedAfterRestart'
      /\ \A t \in Tree : device'.trees[t] \in {cached[t], device.trees[t]}
  <2>1. TypeOK /\ UNCHANGED <<cached, device, restarts>>
    BY DEF Trust_Anchor, TInv, Answer
  <2> QED BY <2>1 DEF SInv, CachedAfterRestart
<1>1. ASSUME NEW step \in {"Create_Key", "Decrypt_Current_Key", "Decrypt_Previous_Key",
                           "Secure_SB"}, Answer(step, job)
      PROVE  SInv'
  BY <1>0, <1>1, JobIsKept, AnswerSInv
<1>2. ASSUME NEW step \in {"Encrypt_Current_Key", "Encrypt_Previous_Key"}, NEW key,
             Answer(step, [job EXCEPT !.SB_Ciphertext.values = @ \cup {key}])
      PROVE  SInv'
  <2> DEFINE j == [job EXCEPT !.SB_Ciphertext.values = @ \cup {key}]
  <2>1. Kept_Of(j) /\ j.Generation = job.Generation
    BY FieldsOfJob DEF Kept_Of, IInv, Shape
  <2>2. Answer(step, j)
    BY <1>2
  <2> HIDE DEF j
  <2> QED BY <1>0, <2>1, <2>2, AnswerSInv
<1> QED BY <1>1, <1>2 DEF Trust_Anchor

LEMMA CryptoSInv == IInv /\ KInv /\ TInv /\ SInv /\ Crypto => SInv'
<1> SUFFICES ASSUME IInv, KInv, TInv, SInv, Crypto PROVE SInv'
  OBVIOUS
<1>0. TypeOK /\ UNCHANGED <<cached, device>> /\ CachedAfterRestart'
      /\ \A t \in Tree : device'.trees[t] \in {cached[t], device.trees[t]}
  <2>1. TypeOK /\ UNCHANGED <<cached, device, restarts>>
    BY DEF Crypto, TInv, Answer
  <2> QED BY <2>1 DEF SInv, CachedAfterRestart
<1>1. \E step \in Steps \ {"Write_SB", "Rekey_VBA_In_VBD", "VBD_Ext_Step_In_VBD"} :
        Answer(step, job)
  BY DEF Crypto, Steps
<1> QED BY <1>0, <1>1, JobIsKept, AnswerSInv

LEMMA FTResizingSInv == IInv /\ KInv /\ TInv /\ SInv /\ FT_Resizing => SInv'
<1> SUFFICES ASSUME IInv, KInv, TInv, SInv, FT_Resizing PROVE SInv'
  OBVIOUS
<1>0. TypeOK /\ UNCHANGED <<cached, device>> /\ CachedAfterRestart'
      /\ \A t \in Tree : device'.trees[t] \in {cached[t], device.trees[t]}
  <2>1. TypeOK /\ UNCHANGED <<cached, device, restarts>>
    BY DEF FT_Resizing, TInv, Answer
  <2> QED BY <2>1 DEF SInv, CachedAfterRestart
<1>1. PICK left \in 0 .. job.Nr_Of_Blks - 1 :
        Answer("FT_Ext_Step_In_FT", [job EXCEPT !.Nr_Of_Blks = left])
  BY DEF FT_Resizing
<1> DEFINE j == [job EXCEPT !.Nr_Of_Blks = left]
<1>2. Kept_Of(j) /\ j.Generation = job.Generation
  BY FieldsOfJob DEF Kept_Of, IInv, Shape
<1>3. Answer("FT_Ext_Step_In_FT", j)
  BY <1>1
<1> HIDE DEF j
<1> QED BY <1>0, <1>2, <1>3, AnswerSInv

(* What is written back is what is cached, and nothing after a restart.    *)
LEMMA WrittenBlocks ==
  ASSUME TypeOK, NEW T \in SUBSET Tree, device' = Written(T)
  PROVE  /\ device'.superblocks = device.superblocks
         /\ \A t \in Tree : device'.trees[t] \in {cached[t], device.trees[t]}
<1>1. /\ device'.superblocks = device.superblocks
      /\ device'.trees = [t \in Tree |-> IF t \in T THEN cached[t] ELSE device.trees[t]]
  BY WrittenType
<1>2. ASSUME NEW t \in Tree PROVE device'.trees[t] \in {cached[t], device.trees[t]}
  BY <1>1
<1> QED BY <1>1, <1>2

LEMMA CacheSyncSInv == IInv /\ KInv /\ TInv /\ SInv /\ Cache_Sync => SInv'
<1> SUFFICES ASSUME IInv, KInv, TInv, SInv, Cache_Sync PROVE SInv'
  OBVIOUS
<1>0. TypeOK /\ UNCHANGED cached /\ Answer("Sync_Cache", job) /\ device' = Written(Dirty)
  BY DEF Cache_Sync, TInv
<1>1. Dirty \in SUBSET Tree
  BY DEF Dirty
<1>2. device'.superblocks = device.superblocks
      /\ \A t \in Tree : device'.trees[t] \in {cached[t], device.trees[t]}
  BY <1>0, <1>1, WrittenBlocks
<1>3. restarts = 0 /\ UNCHANGED restarts
  <2>1. At({"Sync_Cache"})
    BY <1>0 DEF Answer, At
  <2> QED BY <1>0, <2>1, OperationIs DEF Copied, Answer
<1>4. CachedAfterRestart'
  BY <1>3 DEF CachedAfterRestart
<1> QED BY <1>0, <1>2, <1>4, JobIsKept, AnswerSInv

LEMMA CacheWriteBackSInv == TInv /\ SInv /\ Cache_Write_Back => SInv'
<1> SUFFICES ASSUME TInv, SInv, Cache_Write_Back PROVE SInv'
  OBVIOUS
<1>0. /\ TypeOK
      /\ UNCHANGED <<sb, sb_idx, curr_gen, job, keys, secured, cached, restarts, raised>>
  BY DEF Cache_Write_Back, TInv
<1>1. PICK t \in Dirty : device' = Written({t})
  BY DEF Cache_Write_Back
<1>2. device'.superblocks = device.superblocks
      /\ \A x \in Tree : device'.trees[x] \in {cached[x], device.trees[x]}
  <2>1. {t} \in SUBSET Tree
    BY DEF Dirty
  <2> QED BY <1>0, <1>1, <2>1, WrittenBlocks
<1>3. DeviceGood' /\ SomeSuperblock'
  BY <1>0, <1>2, DeviceSame
<1>4. CachedAfterRestart'
  BY <1>0, <1>1 DEF SInv, CachedAfterRestart, Dirty
<1>5. SnapshotsGood' /\ Generations' /\ TakenOver' /\ NotTheCurrent'
  BY <1>0 DEF SInv, SnapshotsGood, Generations, TakenOver, NotTheCurrent, Snaps, Snap_Idx,
     Snap_Keys, Keys_Of, Key_For, Last_Rekeyed, Taking_Over, Current_Gens, Current_Blocks,
     Copied_Gens, Curr, At, Completed, Submitted
<1>6. DeviceOld' /\ StartKnows'
  BY <1>0, <1>2 DEF SInv, DeviceOld, StartKnows, Written_Gen, Curr, At, Completed, Starting
<1> QED BY <1>3, <1>4, <1>5, <1>6 DEF SInv

(* The superblock itself, when nothing is to be taken over. *)
LEMMA CurrentGood ==
  ASSUME TypeOK, SInv, sb.State # "Invalid", ~Taking_Over
  PROVE  /\ sb.Snapshots \in Snapshots_Type /\ sb.Curr_Snap \in Snapshots_Index
         /\ Good(sb.Snapshots, sb.Curr_Snap, Snap_Keys, cached, curr_gen)
         /\ ~Last_Rekeyed => Snap_Keys = Keys_Of(sb)
         /\ Curr(sb) \in Snapshot /\ Curr(sb).Gen \in Nat /\ Curr(sb).PBA[1] <= Curr(sb).PBA[2]
         /\ Curr(sb).PBA[1] \in Nat /\ Curr(sb).PBA[2] \in Nat
         /\ curr_gen \in Nat
<1>1. sb.Snapshots \in Snapshots_Type /\ sb.Curr_Snap \in Snapshots_Index /\ curr_gen \in Nat
  BY SuperblockAssumption DEF TypeOK, Superblock, Snapshots_Type
<1>2. Snaps = sb.Snapshots /\ Snap_Idx = sb.Curr_Snap
      /\ (~Last_Rekeyed => Snap_Keys = Keys_Of(sb))
  BY DEF Snaps, Snap_Idx, Snap_Keys, Taking_Over
<1> QED BY <1>1, <1>2, SnapTypes DEF SInv, SnapshotsGood, Curr

(* The superblock is written, with all blocks it refers to: they were      *)
(* synced before.                                                          *)
LEMMA WriteSBSInv ==
  ASSUME IInv, KInv, TInv, SInv, Answer("Write_SB", job), UNCHANGED cached,
         device' = [device EXCEPT !.superblocks[sb_idx] = job.SB_Ciphertext,
                                  !.unsynced_sbs = @ \cup {sb_idx}]
  PROVE  SInv'
<1>0. /\ TypeOK /\ UNCHANGED <<sb, sb_idx, curr_gen, restarts, cached>>
      /\ job' = [job EXCEPT !.state = <<"Write_SB", "Completed">>]
      /\ device \in Device /\ sb_idx \in Superblocks_Index /\ curr_gen \in Int
  BY DEF Answer, TInv, TypeOK
<1>1. /\ At({"Write_SB"}) /\ At(Copied) /\ At({"Write_SB", "Sync_Blk_IO", "Secure_SB"})
      /\ ~At({"Secure_SB"}) /\ ~Taking_Over /\ ~Taking_Over' /\ ~Last_Rekeyed
      /\ At(Copied)' /\ ~At({"Secure_SB"})' /\ ~Last_Rekeyed' /\ Kept_Of(job)
      /\ ~At({"Sync_Blk_IO"}) /\ ~Completed("Write_SB") /\ Completed("Write_SB")'
      /\ ~Completed("Rekey_VBA_In_VBD")' /\ ~Completed("VBD_Ext_Step_In_VBD")'
      /\ ~Starting' /\ ~Starting
  BY JobIsKept, AnswerToJob DEF Copied, Taking_Over, Last_Rekeyed, KInv, StepOfOperation
<1>2. restarts = 0 /\ sb.State # "Invalid"
  BY <1>1, OperationIs DEF Copied
<1>3. /\ device'.trees = device.trees
      /\ device'.superblocks[sb_idx].plain = sb
      /\ \A i \in Superblocks_Index : i # sb_idx => device'.superblocks[i] = device.superblocks[i]
  BY <1>0, <1>1 DEF IInv, CopyIsSuperblock, Device
<1>4. Copied_Gens /\ Curr(sb).Gen = curr_gen
  BY <1>1, <1>2 DEF SInv, Generations, Copied_Gens
<1>5. /\ sb.Snapshots \in Snapshots_Type /\ Curr(sb).Gen \in Nat
      /\ Good(sb.Snapshots, sb.Curr_Snap, Keys_Of(sb), cached, curr_gen)
  BY <1>0, <1>1, <1>2, CurrentGood
<1>6. Whole(sb, cached)
  BY <1>4, <1>5 DEF Whole
<1>7. Whole(sb, device.trees)
  <2>1. \A t \in Tree : device.trees[t] = cached[t]
    BY <1>1 DEF IInv, NothingDirty, Dirty
  <2> QED BY <1>5, <1>6, <2>1, WholeStays
<1>8. DeviceGood'
  <2> SUFFICES ASSUME NEW i \in Superblocks_Index, NEW s, s = device'.superblocks[i].plain,
                      s.State # "Invalid"
               PROVE  Whole(s, device'.trees) /\ Whole(s, cached')
    BY DEF DeviceGood
  <2>1. CASE i = sb_idx
    BY <1>0, <1>3, <1>6, <1>7, <2>1
  <2>2. CASE i # sb_idx
    BY <1>0, <1>3, <2>2 DEF SInv, DeviceGood
  <2> QED BY <2>1, <2>2
<1>9. DeviceOld'
  <2> SUFFICES ASSUME NEW i \in Superblocks_Index, NEW s, s = device'.superblocks[i].plain,
                      s.State # "Invalid"
               PROVE  Curr(s).Gen <= curr_gen
    BY <1>0, <1>1 DEF DeviceOld, Written_Gen
  <2>1. CASE i = sb_idx
    BY <1>0, <1>3, <1>4, <2>1
  <2>2. CASE i # sb_idx
    <3>1. s = device.superblocks[i].plain
      BY <1>3, <2>2
    <3>2. Curr(s).Gen <= curr_gen - 1
      BY <1>1, <1>2, <3>1 DEF SInv, DeviceOld, Written_Gen
    <3>3. Curr(s).Gen \in Nat
      BY <1>0, <3>1, OnDevice
    <3> QED BY <1>0, <3>2, <3>3
  <2> QED BY <2>1, <2>2
<1>10. SomeSuperblock'
  BY <1>0, <1>2, <1>3 DEF SomeSuperblock, Found
<1>11. SnapshotsGood'
  <2>1. Snaps' = sb.Snapshots /\ Snap_Idx' = sb.Curr_Snap
    BY <1>0, <1>1 DEF Snaps, Snap_Idx
  <2>2. Snap_Keys' = Keys_Of(sb)
    BY <1>0, <1>1 DEF Snap_Keys, Keys_Of, Key_For
  <2> QED BY <1>0, <1>5, <2>1, <2>2 DEF SnapshotsGood
<1>12. Generations'
  <2>1. Copied_Gens'
    BY <1>0, <1>1, <1>4 DEF Copied_Gens, Curr
  <2>2. curr_gen >= 1
    BY <1>2 DEF SInv, Generations
  <2> QED BY <1>0, <1>1, <2>1, <2>2 DEF Generations
<1>13. TakenOver' /\ NotTheCurrent' /\ StartKnows' /\ CachedAfterRestart'
  BY <1>0, <1>1, <1>2, AnswerToJob, StatesDiffer
     DEF TakenOver, NotTheCurrent, StartKnows, CachedAfterRestart, Taking_Over, Submitted
<1> QED BY <1>8, <1>9, <1>10, <1>11, <1>12, <1>13 DEF SInv

LEMMA BlockIOSInv == IInv /\ KInv /\ TInv /\ SInv /\ Block_IO => SInv'
<1> SUFFICES ASSUME IInv, KInv, TInv, SInv, Block_IO PROVE SInv'
  OBVIOUS
<1>0. TypeOK /\ UNCHANGED <<cached, restarts>>
  BY DEF Block_IO, TInv, Answer
<1>1. ASSUME NEW step \in {"Read_SB", "Read_Current_SB"}, NEW ciphertext, device' = device,
             Answer(step, [job EXCEPT !.SB_Ciphertext = ciphertext])
      PROVE  SInv'
  <2> DEFINE j == [job EXCEPT !.SB_Ciphertext = ciphertext]
  <2>1. Kept_Of(j) /\ j.Generation = job.Generation
    BY FieldsOfJob DEF Kept_Of, IInv, Shape
  <2>2. Answer(step, j)
    BY <1>1
  <2>3. CachedAfterRestart' /\ \A t \in Tree : device'.trees[t] \in {cached[t], device.trees[t]}
    BY <1>0, <1>1 DEF SInv, CachedAfterRestart
  <2> HIDE DEF j
  <2> QED BY <1>0, <1>1, <2>1, <2>2, <2>3, AnswerSInv
<1>2. CASE /\ Answer("Sync_Blk_IO", job)
           /\ device' = [device EXCEPT !.unsynced_sbs = {}, !.unsynced_trees = {}]
  <2>1. device'.superblocks = device.superblocks /\ device'.trees = device.trees
    BY <1>0, <1>2 DEF TypeOK, Device
  <2>2. CachedAfterRestart' /\ \A t \in Tree : device'.trees[t] \in {cached[t], device.trees[t]}
    BY <1>0, <2>1 DEF SInv, CachedAfterRestart
  <2> QED BY <1>0, <1>2, <2>1, <2>2, JobIsKept, AnswerSInv
<1>3. CASE /\ Answer("Write_SB", job)
           /\ device' = [device EXCEPT !.superblocks[sb_idx] = job.SB_Ciphertext,
                                       !.unsynced_sbs = @ \cup {sb_idx}]
  BY <1>0, <1>3, WriteSBSInv
<1> QED BY <1>1, <1>2, <1>3 DEF Block_IO

-----------------------------------------------------------------------------
(***************************************************************************)
(* The request pool, and the start.                                        *)
(***************************************************************************)
(* What the device holds at first: one superblock, and the tree it tells.  *)
LEMMA InitialWhole ==
  /\ Initial_Superblock.State = "Normal"
  /\ Whole(Initial_Superblock, Initial_Device.trees)
  /\ Valid_Snaps(Initial_Superblock.Snapshots) = {0}
  /\ Curr(Initial_Superblock) = Initial_Superblock.Snapshots[0]
  /\ Initial_Superblock.Snapshots[0].Gen = 0 /\ Initial_Superblock.Snapshots[0].PBA = <<0, 0>>
  /\ ~Initial_Superblock.Snapshots[0].Keep
  /\ Initial_Superblock.Last_Secured_Generation = 0
<1> DEFINE s == Initial_Superblock
           first == [Snapshot_Invalid EXCEPT !.Valid = TRUE, !.Hash = Initial_Content]
           snaps == [[i \in Snapshots_Index |-> Snapshot_Invalid] EXCEPT ![0] = first]
<1>1. 0 \in Snapshots_Index
  BY SuperblockAssumption DEF Snapshots_Index
<1>2. s = [Superblock_Invalid EXCEPT !.State = "Normal", !.Current_Key = 1, !.Snapshots = snaps]
  BY DEF Initial_Superblock, Superblock_Invalid
<1>3. /\ first.Valid /\ ~first.Keep /\ first.Gen = 0 /\ first.PBA = <<0, 0>>
      /\ first.Hash = Initial_Content
  BY DEF Snapshot_Invalid
<1>4. /\ snaps[0] = first
      /\ \A i \in Snapshots_Index : i # 0 => ~snaps[i].Valid
  BY <1>1 DEF Snapshot_Invalid
<1> HIDE DEF first, snaps
<1>5. /\ s.State = "Normal" /\ s.Current_Key = 1 /\ s.Snapshots = snaps /\ s.Curr_Snap = 0
      /\ s.Last_Secured_Generation = 0
  BY <1>2 DEF Superblock_Invalid
<1> HIDE DEF s
<1>6. Valid_Snaps(snaps) = {0}
  BY <1>1, <1>3, <1>4 DEF Valid_Snaps
<1>7. Keys_Of(s) = [v \in VBA |-> 1]
  BY <1>5 DEF Keys_Of, Key_For
<1>8. Initial_Device.trees[<<0, 0>>] = Initial_Content
  <2>1. <<0, 0>> \in Tree
    BY SuperblockAssumption DEF Tree, Generation
  <2> QED BY <2>1 DEF Initial_Device
<1>9. Good(snaps, 0, Keys_Of(s), Initial_Device.trees, 0)
  BY <1>3, <1>4, <1>6, <1>7, <1>8 DEF Good, Initial_Content
<1>10. Curr(s) = snaps[0]
  BY <1>5 DEF Curr
<1> QED BY <1>3, <1>4, <1>5, <1>6, <1>9, <1>10 DEF Whole, s

LEMMA InitSInv == Init => SInv
<1> SUFFICES ASSUME Init PROVE SInv
  OBVIOUS
<1>1. /\ job.op = "Initialize" /\ job.state = <<"Submitted">> /\ ~job.SB_Found
      /\ sb = Superblock_Invalid /\ sb.State = "Invalid"
      /\ device = Initial_Device /\ cached = device.trees
  BY DEF Init, Job_Invalid, Superblock_Invalid
<1>2. /\ \A x : ~Completed(x)
  BY <1>1, StatesDiffer DEF Completed
<1>3. 0 \in Superblocks_Index
  BY SuperblockAssumption DEF Superblocks_Index
<1>4. \A i \in Superblocks_Index :
        \/ device.superblocks[i].plain = Initial_Superblock
        \/ device.superblocks[i].plain.State = "Invalid"
  BY <1>1 DEF Initial_Device, Ciphertext_Invalid, Superblock_Invalid
<1>5. DeviceGood
  BY <1>1, <1>4, InitialWhole DEF DeviceGood
<1>6. SomeSuperblock
  <2>1. device.superblocks[0].plain = Initial_Superblock
    BY <1>1, <1>3 DEF Initial_Device
  <2> QED BY <1>3, <2>1, InitialWhole DEF SomeSuperblock, Found
<1> QED BY <1>1, <1>2, <1>5, <1>6 DEF SInv, SnapshotsGood, DeviceOld, Generations, TakenOver,
             Taking_Over, NotTheCurrent, Submitted, StartKnows, CachedAfterRestart

(* The component stops: what is cached is lost. *)
LEMMA RestartSInv == TInv /\ SInv /\ Restart => SInv'
<1> SUFFICES ASSUME TInv, SInv, Restart PROVE SInv'
  OBVIOUS
<1>1. /\ job'.op = "Initialize" /\ job'.state = <<"Submitted">> /\ ~job'.SB_Found
      /\ sb' = Superblock_Invalid /\ sb'.State = "Invalid"
      /\ device' = device /\ cached' = device.trees
  BY DEF Restart, Job_Invalid, Superblock_Invalid
<1>2. /\ \A x : ~Completed(x)'
  BY <1>1, AtNoStep
<1>3. DeviceGood' /\ SomeSuperblock'
  BY <1>1 DEF SInv, DeviceGood, SomeSuperblock, Found
<1> QED BY <1>1, <1>2, <1>3 DEF SInv, SnapshotsGood, DeviceOld, Generations, TakenOver,
             Taking_Over, NotTheCurrent, Submitted, StartKnows, CachedAfterRestart

(* Neither before nor behind a job is a step of one. *)
LEMMA NoStepSInv ==
  ASSUME TInv, SInv, UNCHANGED <<sb, curr_gen, cached, device, restarts>>,
         {job.state, job'.state} \subseteq {<<"Submitted">>, <<"Completed">>},
         NotTheCurrent', ~Starting'
  PROVE  SInv'
<1>1. /\ \A steps : ~At(steps) /\ ~At(steps)'
      /\ \A x : ~Completed(x) /\ ~Completed(x)'
  BY WithoutStep, AtNoStep
<1>2. ~Taking_Over /\ ~Taking_Over' /\ ~Last_Rekeyed /\ ~Last_Rekeyed'
      /\ Written_Gen' = Written_Gen
  BY <1>1 DEF Taking_Over, Last_Rekeyed, Written_Gen
<1>3. Snap_Keys' = Snap_Keys
  BY <1>1, <1>2 DEF Snap_Keys, Keys_Of, Key_For
<1>4. DeviceGood' /\ CachedAfterRestart' /\ StartKnows'
  BY DEF SInv, DeviceGood, CachedAfterRestart, StartKnows
<1> QED BY <1>1, <1>2, <1>3, <1>4, KeepsSInv

(* Clients do not discard the snapshot of the current state. *)
LEMMA SubmitSInv ==
  ASSUME OneRun, IInv, TInv, SInv, NEW op \in Operations, Submit_Primitive(op)
  PROVE  SInv'
<1>1. PICK gen \in Generation, nr \in 1 .. Max_Nr_Of_Blks :
        /\ op = "Discard_Snapshot" => ~(Curr(sb).Keep /\ Curr(sb).Gen = gen)
        /\ job' = [job EXCEPT !.op = op, !.state = <<"Submitted">>, !.success = FALSE,
                              !.Generation = gen, !.Nr_Of_Blks = nr]
  BY DEF Submit_Primitive, OneRun
<1>2. job'.op = op /\ job'.state = <<"Submitted">> /\ job'.Generation = gen
  BY <1>1, FieldsOfJob DEF IInv, Shape
<1>3. job.state = <<"Submitted">>
      /\ UNCHANGED <<sb, curr_gen, cached, device, restarts>>
  BY DEF IInv, NoJobNoStep, Submit_Primitive, Ready
<1>4. ~Starting'
  BY <1>2 DEF Starting, Operations
<1>5. NotTheCurrent'
  BY <1>1, <1>2, <1>3 DEF NotTheCurrent, Submitted, Curr
<1> QED BY <1>2, <1>3, <1>4, <1>5, NoStepSInv

LEMMA DropSInv == TInv /\ SInv /\ Drop_Completed_Primitive => SInv'
<1> SUFFICES ASSUME TInv, SInv, Drop_Completed_Primitive PROVE SInv'
  OBVIOUS
<1>1. /\ job'.op = "Invalid" /\ job'.state = <<"Submitted">> /\ job.state = <<"Completed">>
      /\ UNCHANGED <<sb, curr_gen, cached, device, restarts>>
  BY DEF Drop_Completed_Primitive, Job_Invalid
<1> QED BY <1>1, NoStepSInv DEF NotTheCurrent, Submitted, Starting

-----------------------------------------------------------------------------
(***************************************************************************)
(* Writes, rekeying and extending: new blocks, of the current generation.  *)
(***************************************************************************)
(* What can be said of the generations before a copy. *)
LEMMA BeforeCopy ==
  ASSUME TypeOK, SInv, restarts = 0, sb.State # "Invalid", ~Taking_Over, ~Last_Rekeyed,
         ~At(Copied)
  PROVE  /\ curr_gen \in Nat /\ curr_gen >= 1
         /\ sb.Snapshots \in Snapshots_Type
         /\ Good(sb.Snapshots, sb.Curr_Snap, Keys_Of(sb), cached, curr_gen)
         /\ sb.Last_Secured_Generation = curr_gen - 1
         /\ Curr(sb).Gen \in {curr_gen - 1, curr_gen}
         /\ \A k \in Kept_Snaps(sb.Snapshots) : sb.Snapshots[k].Gen < curr_gen
         /\ Curr(sb).PBA[1] <= Curr(sb).Gen /\ Curr(sb).PBA[2] <= Curr(sb).Gen
         /\ \A k \in Valid_Snaps(sb.Snapshots) :
              k # sb.Curr_Snap \/ Curr(sb).Gen < curr_gen => sb.Snapshots[k].PBA[2] < curr_gen
         /\ Written_Gen = curr_gen - 1
<1>1. Current_Gens /\ Current_Blocks /\ curr_gen >= 1
  BY DEF SInv, Generations
<1>2. /\ curr_gen \in Nat /\ sb.Snapshots \in Snapshots_Type
      /\ Good(sb.Snapshots, sb.Curr_Snap, Keys_Of(sb), cached, curr_gen)
      /\ Curr(sb).Gen \in Nat /\ Curr(sb).PBA[1] <= Curr(sb).PBA[2]
      /\ Curr(sb).PBA[1] \in Nat /\ Curr(sb).PBA[2] \in Nat
  BY CurrentGood
<1>3. Curr(sb).PBA[2] <= Curr(sb).Gen /\ Curr(sb).PBA[1] <= Curr(sb).Gen
  BY <1>1, <1>2 DEF Current_Blocks
<1>4. \A k \in Valid_Snaps(sb.Snapshots) :
        k # sb.Curr_Snap \/ Curr(sb).Gen < curr_gen => sb.Snapshots[k].PBA[2] < curr_gen
  BY <1>1, <1>2, <1>3 DEF Current_Blocks, Curr
<1>5. Written_Gen = curr_gen - 1
  <2>1. ~Completed("Write_SB") /\ ~At({"Sync_Blk_IO"})
    BY DEF At, Copied, Completed
  <2> QED BY <2>1 DEF Written_Gen
<1> QED BY <1>1, <1>2, <1>3, <1>4, <1>5 DEF Current_Gens

LEMMA WritebackSInv ==
  ASSUME OneRun, IInv, KInv, TInv, SInv, NEW v \in VBA, Execute_Writeback(v)
  PROVE  SInv'
<1> SUFFICES ASSUME ~Raise_Program_Error PROVE SInv'
  BY RaiseSInv
<1>1. /\ TypeOK /\ curr_gen <= Max_Generation /\ sb.State # "Invalid"
      /\ Key_For(sb, v) = sb.Current_Key /\ job.op = "Invalid" /\ job.state = <<"Submitted">>
      /\ restarts = 0
  BY DEF TInv, Execute_Writeback, Ready, OneRun, IInv, NoJobNoStep
<1>2. PICK i \in Snapshots_Index, h \in Content, snap \in Snapshot :
        Written_Back(v, i, h, snap)
  BY <1>1, WritebackIs
<1>3. /\ h.key = [Curr(sb).Hash.key EXCEPT ![v] = sb.Current_Key]
      /\ IF Curr(sb).Gen < curr_gen THEN i \notin Valid_Snaps(sb.Snapshots) ELSE i = sb.Curr_Snap
      /\ snap.Valid = Curr(sb).Valid /\ snap.Gen = curr_gen
      /\ snap.PBA = <<curr_gen, curr_gen>> /\ snap.Hash = h
      /\ snap.Keep = (Curr(sb).Keep /\ Curr(sb).Gen = curr_gen)
      /\ sb' = With_Snapshot(sb, i, snap)
      /\ cached' = [cached EXCEPT ![<<curr_gen, curr_gen>>] = h]
      /\ UNCHANGED <<sb_idx, curr_gen, job, keys, secured, device, restarts, raised>>
  BY <1>2 DEF Written_Back
<1>4. /\ \A steps : ~At(steps) /\ ~At(steps)'
      /\ \A x : ~Completed(x) /\ ~Completed(x)'
  <2>1. job'.state = <<"Submitted">>
    BY <1>1, <1>3
  <2> QED BY <1>1, <2>1, WithoutStep, AtNoStep
<1>5. ~Taking_Over /\ ~Last_Rekeyed /\ ~Taking_Over' /\ ~Last_Rekeyed'
  BY <1>4 DEF Taking_Over, Last_Rekeyed
<1>6. /\ sb'.State = sb.State /\ sb'.Curr_Snap = i
      /\ sb'.Snapshots = [sb.Snapshots EXCEPT ![i] = snap]
      /\ sb'.Last_Secured_Generation = sb.Last_Secured_Generation
      /\ Keys_Of(sb') = Keys_Of(sb)
  BY <1>1, <1>3, WithSnapshot DEF TypeOK, Keys_Of, Key_For
<1> DEFINE K == Keys_Of(sb)
           c == sb.Curr_Snap
           old == sb.Snapshots
<1>7. /\ curr_gen \in Nat /\ curr_gen >= 1 /\ old \in Snapshots_Type
      /\ Good(old, c, K, cached, curr_gen)
      /\ sb.Last_Secured_Generation = curr_gen - 1
      /\ Curr(sb).Gen \in {curr_gen - 1, curr_gen}
      /\ \A k \in Kept_Snaps(old) : old[k].Gen < curr_gen
      /\ Curr(sb).PBA[1] <= Curr(sb).Gen
      /\ \A k \in Valid_Snaps(old) :
           k # c \/ Curr(sb).Gen < curr_gen => old[k].PBA[2] < curr_gen
      /\ Written_Gen = curr_gen - 1
  BY <1>1, <1>4, <1>5, BeforeCopy
<1>8. Curr(sb) = old[c] /\ c \in Valid_Snaps(old) /\ Curr(sb).Valid /\ Curr(sb).Hash.key = K
      /\ Valid_Snaps(old) \subseteq Snapshots_Index
  BY <1>7 DEF Curr, Good, Valid_Snaps
<1>9. h.key = K
  <2>1. K[v] = sb.Current_Key /\ K = [x \in VBA |-> K[x]]
    BY <1>1 DEF Keys_Of
  <2> HIDE DEF K
  <2> QED BY <1>3, <1>8, <2>1
<1> HIDE DEF K
<1>10. \A k \in Valid_Snaps(old) : k # i => old[k].PBA[2] < curr_gen
  BY <1>3, <1>7, <1>8
<1>11. Good([old EXCEPT ![i] = snap], i, K, [cached EXCEPT ![<<curr_gen, curr_gen>>] = snap.Hash],
            curr_gen)
  <2>1. curr_gen \in Generation /\ cached \in [Tree -> Content]
    BY <1>1, GenerationNamesBlocks DEF TypeOK
  <2> QED BY <1>3, <1>7, <1>8, <1>9, <1>10, <2>1, GoodWithNew, ZenonT(30)
<1>12. SnapshotsGood'
  <2>1. Snaps' = sb'.Snapshots /\ Snap_Idx' = sb'.Curr_Snap /\ Snap_Keys' = Keys_Of(sb')
    BY <1>4, <1>5 DEF Snaps, Snap_Idx, Snap_Keys
  <2> QED BY <1>3, <1>6, <1>11, <2>1 DEF SnapshotsGood, K
<1>13. \A t \in Tree : t[2] # curr_gen => cached'[t] = cached[t]
  BY <1>1, <1>3 DEF TypeOK
<1>14. DeviceGood'
  BY <1>1, <1>3, <1>7, <1>13, DeviceKeeps
<1>15. DeviceOld' /\ SomeSuperblock' /\ NotTheCurrent' /\ StartKnows' /\ CachedAfterRestart'
  <2>1. DeviceOld'
    BY <1>1, <1>3, <1>4, <1>6 DEF SInv, DeviceOld, Written_Gen
  <2>2. SomeSuperblock'
    BY <1>3 DEF SInv, SomeSuperblock
  <2> QED BY <1>1, <1>3, <2>1, <2>2 DEF NotTheCurrent, StartKnows, CachedAfterRestart, Submitted,
               Starting
<1>16. TakenOver'
  BY <1>4, <1>5 DEF TakenOver
<1>17. Generations'
  <2> DEFINE new == [old EXCEPT ![i] = snap]
  <2>1. /\ Curr(sb') = snap
        /\ \A k \in Snapshots_Index : new[k] = IF k = i THEN snap ELSE old[k]
        /\ snap.PBA[2] = curr_gen
    BY <1>3, <1>6, <1>7 DEF Curr, Snapshots_Type
  <2>2. \A k \in Valid_Snaps(new) : k # i => k \in Valid_Snaps(old) /\ new[k] = old[k]
    BY <2>1 DEF Valid_Snaps
  <2>3. ASSUME NEW k \in Kept_Snaps(new) PROVE new[k].Gen < curr_gen
    <3>1. k \in Valid_Snaps(new) /\ k \in Snapshots_Index /\ new[k].Keep
      BY DEF Kept_Snaps, Valid_Snaps
    <3>2. CASE k # i
      BY <1>7, <2>2, <3>1, <3>2 DEF Kept_Snaps
    <3>3. CASE k = i
      <4>1. Curr(sb).Keep /\ Curr(sb).Gen = curr_gen
        BY <1>3, <2>1, <3>1, <3>3
      <4>2. c \in Kept_Snaps(old)
        BY <1>8, <4>1 DEF Kept_Snaps
      <4> QED BY <1>7, <1>8, <4>1, <4>2
    <3> QED BY <3>2, <3>3
  <2>4. Current_Gens'
    BY <1>3, <1>6, <1>7, <2>1, <2>3 DEF Current_Gens
  <2>5. Current_Blocks'
    <3>1. \A k \in Valid_Snaps(new) : k # i => new[k].PBA[2] < curr_gen
      BY <1>10, <2>2
    <3> QED BY <1>3, <1>6, <1>7, <2>1, <3>1 DEF Current_Blocks
  <2> QED BY <1>3, <1>4, <1>7, <2>4, <2>5 DEF Generations
<1> QED BY <1>12, <1>14, <1>15, <1>16, <1>17 DEF SInv

(* The snapshots that rekeying and extending work on are as good. *)
LEMMA RekeyingGood ==
  ASSUME IInv, KInv, TInv, SInv,
         NEW step \in {"Rekey_VBA_In_VBD", "VBD_Ext_Step_In_VBD"},
         job.state = <<step, "Pending">>
  PROVE  /\ restarts = 0 /\ sb.State # "Invalid" /\ TypeOK /\ curr_gen <= Max_Generation
         /\ Past(sb.Snapshots) /\ curr_gen \in Generation
         /\ job.op = IF step = "Rekey_VBA_In_VBD" THEN "Rekey_VBA" ELSE "VBD_Extension_Step"
         /\ ~Taking_Over /\ ~Last_Rekeyed /\ ~At(Copied)
         /\ Rekeying_Snaps \in Snapshots_Type
         /\ \A k \in Snapshots_Index : SameBut(Rekeying_Snaps[k], sb.Snapshots[k])
         /\ Valid_Snaps(Rekeying_Snaps) \subseteq Valid_Snaps(sb.Snapshots)
         /\ Kept_Snaps(Rekeying_Snaps) = Kept_Snaps(sb.Snapshots)
         /\ Good(Rekeying_Snaps, sb.Curr_Snap, Keys_Of(sb), cached, curr_gen)
<1>1. /\ TypeOK /\ curr_gen <= Max_Generation /\ Past(sb.Snapshots) /\ restarts = 0
      /\ job.op = IF step = "Rekey_VBA_In_VBD" THEN "Rekey_VBA" ELSE "VBD_Extension_Step"
      /\ sb.State # "Invalid" /\ curr_gen \in Generation
  BY WorksInGeneration, GenerationNamesBlocks
<1>2. ~Taking_Over /\ ~Last_Rekeyed /\ ~At(Copied)
  BY StatesDiffer DEF Taking_Over, Last_Rekeyed, At, Copied, Completed
<1>3. /\ curr_gen \in Nat /\ sb.Snapshots \in Snapshots_Type
      /\ Good(sb.Snapshots, sb.Curr_Snap, Keys_Of(sb), cached, curr_gen)
      /\ sb.Last_Secured_Generation = curr_gen - 1
      /\ Curr(sb).Gen \in {curr_gen - 1, curr_gen}
  BY <1>1, <1>2, BeforeCopy
<1>4. /\ Rekeying_Snaps \in Snapshots_Type
      /\ \A k \in Snapshots_Index : SameBut(Rekeying_Snaps[k], sb.Snapshots[k])
      /\ Valid_Snaps(Rekeying_Snaps) =
           {i \in Valid_Snaps(sb.Snapshots) :
              \/ sb.Snapshots[i].Keep
              \/ sb.Snapshots[i].Gen \in {curr_gen, sb.Last_Secured_Generation}}
      /\ Kept_Snaps(Rekeying_Snaps) = Kept_Snaps(sb.Snapshots)
  BY <1>1, RekeyingSnapsIs
<1>5. Good(Rekeying_Snaps, sb.Curr_Snap, Keys_Of(sb), cached, curr_gen)
  <2>1. sb.Curr_Snap \in Valid_Snaps(sb.Snapshots) /\ Curr(sb) = sb.Snapshots[sb.Curr_Snap]
        /\ Valid_Snaps(sb.Snapshots) \subseteq Snapshots_Index
        /\ Curr(sb).Gen <= curr_gen
    BY <1>3 DEF Good, Curr, Valid_Snaps
  <2>2. sb.Curr_Snap \in Valid_Snaps(Rekeying_Snaps)
    BY <1>3, <1>4, <2>1
  <2>3. /\ Rekeying_Snaps[sb.Curr_Snap].Gen = Curr(sb).Gen
        /\ \A i \in Valid_Snaps(Rekeying_Snaps) :
             /\ Rekeying_Snaps[i].PBA = sb.Snapshots[i].PBA
             /\ Rekeying_Snaps[i].Hash = sb.Snapshots[i].Hash
             /\ Rekeying_Snaps[i].Gen = sb.Snapshots[i].Gen
    BY <1>4, <2>1 DEF SameBut
  <2>4. Curr(sb).Gen <= Curr(sb).Gen /\ curr_gen <= curr_gen
    BY <1>3
  <2> QED BY <1>3, <1>4, <2>1, <2>2, <2>3, <2>4, GoodStays
<1> QED BY <1>1, <1>2, <1>4, <1>5

(* The snapshots are ready, in blocks of the current generation; what the  *)
(* superblock refers to is still there.                                    *)
LEMMA ReadySInv ==
  ASSUME IInv, KInv, TInv, SInv,
         NEW step \in {"Rekey_VBA_In_VBD", "VBD_Ext_Step_In_VBD"}, NEW j, Answer(step, j),
         Kept_Of(j), NEW snaps, j.Snapshots = snaps, device' = device,
         \A t \in Tree : t[2] # curr_gen => cached'[t] = cached[t],
         NEW c, step = "Rekey_VBA_In_VBD" => c = sb.Curr_Snap,
         step = "VBD_Ext_Step_In_VBD" => c = Newest_Snapshot_Idx(snaps),
         NEW K, step = "Rekey_VBA_In_VBD" =>
                  K = [Keys_Of(sb) EXCEPT ![sb.Rekeying_VBA] = sb.Current_Key],
         step = "VBD_Ext_Step_In_VBD" => K = Keys_Of(sb),
         Good(snaps, c, K, cached', curr_gen),
         \A i \in Kept_Snaps(sb.Snapshots) :
           /\ i \in Kept_Snaps(snaps)
           /\ cached'[snaps[i].PBA].data = cached'[sb.Snapshots[i].PBA].data,
         step = "Rekey_VBA_In_VBD" =>
           \A i \in Valid_Snaps(snaps) :
             /\ i \in Valid_Snaps(sb.Snapshots) /\ snaps[i].Gen = sb.Snapshots[i].Gen
             /\ snaps[i].Keep = sb.Snapshots[i].Keep
  PROVE  SInv'
<1>1. /\ UNCHANGED <<sb, curr_gen, restarts>> /\ job'.Snapshots = snaps
      /\ job.state = <<step, "Pending">>
  <2>1. job' = [j EXCEPT !.state = <<step, "Completed">>]
    BY DEF Answer
  <2> QED BY <2>1, FieldsOfJob DEF Answer, Kept_Of, IInv, Shape
<1>2. /\ restarts = 0 /\ sb.State # "Invalid" /\ TypeOK
      /\ ~Taking_Over /\ ~Last_Rekeyed /\ ~At(Copied)
  BY <1>1, RekeyingGood
<1>3. curr_gen >= 1 /\ Written_Gen = curr_gen - 1
  BY <1>2, BeforeCopy
<1>4. /\ Taking_Over' /\ ~Last_Rekeyed' /\ ~At(Copied)' /\ Written_Gen' = curr_gen - 1
      /\ ~Starting'
  BY <1>1, AnswerToJob DEF Taking_Over, Last_Rekeyed, Copied, Written_Gen, KInv, StepOfOperation
<1>5. SnapshotsGood'
  <2>1. Snaps' = snaps
    BY <1>1, <1>4 DEF Snaps
  <2>2. Snap_Idx' = c
    BY <1>1, AnswerToJob DEF Snap_Idx
  <2>3. Snap_Keys' = K
    BY <1>1, <1>4, AnswerToJob DEF Snap_Keys, Keys_Of, Key_For
  <2> QED BY <1>1, <2>1, <2>2, <2>3 DEF SnapshotsGood
<1>6. DeviceGood'
  BY <1>2, <1>3, DeviceKeeps
<1>7. DeviceOld' /\ SomeSuperblock'
  BY <1>1, <1>2, <1>3, <1>4 DEF SInv, DeviceOld, SomeSuperblock, Found
<1>8. Generations'
  <2>1. Current_Gens /\ Current_Blocks
    BY <1>2 DEF SInv, Generations
  <2>2. Current_Gens' /\ Current_Blocks'
    BY <1>1, <2>1 DEF Current_Gens, Current_Blocks, Curr
  <2> QED BY <1>1, <1>3, <1>4, <2>2 DEF Generations
<1>9. TakenOver'
  BY <1>1, AnswerToJob DEF TakenOver
<1>10. NotTheCurrent' /\ StartKnows' /\ CachedAfterRestart'
  BY <1>1, <1>2, <1>4, AnswerToJob, StatesDiffer
     DEF NotTheCurrent, Submitted, StartKnows, CachedAfterRestart
<1> QED BY <1>5, <1>6, <1>7, <1>8, <1>9, <1>10 DEF SInv

LEMMA RekeyedSInv ==
  ASSUME IInv, KInv, TInv, SInv, Rekeyed, device' = device
  PROVE  SInv'
<1> DEFINE j == [job EXCEPT !.Snapshots = Rekeyed_Snaps]
           V == Valid_Snaps(Rekeying_Snaps)
           K2 == [Keys_Of(sb) EXCEPT ![sb.Rekeying_VBA] = sb.Current_Key]
<1>1. /\ Answer("Rekey_VBA_In_VBD", j) /\ cached' = Rekeyed_Cached
      /\ job.state = <<"Rekey_VBA_In_VBD", "Pending">>
  BY DEF Rekeyed, Answer
<1>2. /\ restarts = 0 /\ sb.State # "Invalid" /\ TypeOK /\ curr_gen <= Max_Generation
      /\ Past(sb.Snapshots) /\ curr_gen \in Generation
      /\ ~Taking_Over /\ ~Last_Rekeyed /\ ~At(Copied)
      /\ V \subseteq Valid_Snaps(sb.Snapshots)
      /\ Kept_Snaps(Rekeying_Snaps) = Kept_Snaps(sb.Snapshots)
      /\ Good(Rekeying_Snaps, sb.Curr_Snap, Keys_Of(sb), cached, curr_gen)
  BY <1>1, RekeyingGood
<1>3. Good(Rekeyed_Snaps, sb.Curr_Snap, K2, cached', curr_gen)
  BY <1>1, <1>2, GoodRekeyed
<1>4. /\ Rekeyed_Snaps \in Snapshots_Type
      /\ Valid_Snaps(Rekeyed_Snaps) = V
      /\ \A i \in Snapshots_Index : Rekeyed_Snaps[i].Keep = sb.Snapshots[i].Keep
      /\ \A i \in Snapshots_Index : Rekeyed_Snaps[i].Gen = sb.Snapshots[i].Gen
      /\ \A i \in V : Rekeyed_Snaps[i].Hash.data = sb.Snapshots[i].Hash.data
  BY <1>2, RekeyedSnapsAre
<1>5. Newest_Snapshot_Idx(Rekeying_Snaps) = sb.Curr_Snap /\ V \subseteq Snapshots_Index
  BY <1>2, GoodNewest, RekeyingSnapsIs DEF Valid_Snaps
<1>6. \A i \in V : Rekeyed_Snaps[i].PBA[2] = curr_gen
  <2> TAKE i \in V
  <2>1. Rekeyed_Snaps[i].PBA \in {<<curr_gen, curr_gen>>, <<sb.Snapshots[i].Gen, curr_gen>>}
    BY <1>2, RekeyedSnapsAre
  <2> QED BY <2>1
<1>7. ASSUME NEW t \in Tree, t[2] # curr_gen PROVE cached'[t] = cached[t]
  <2>1. ~\E i \in V : Rekeyed_Snaps[i].PBA = t
    BY <1>6, <1>7
  <2> QED BY <1>1, <1>2, <1>4, <2>1, RekeyedCachedIs
<1>8. /\ sb.Snapshots \in Snapshots_Type
      /\ Good(sb.Snapshots, sb.Curr_Snap, Keys_Of(sb), cached, curr_gen)
      /\ \A k \in Kept_Snaps(sb.Snapshots) : sb.Snapshots[k].Gen < curr_gen
      /\ \A k \in Valid_Snaps(sb.Snapshots) :
           k # sb.Curr_Snap \/ Curr(sb).Gen < curr_gen => sb.Snapshots[k].PBA[2] < curr_gen
      /\ curr_gen \in Nat
  BY <1>2, BeforeCopy
<1>9. ASSUME NEW i \in Kept_Snaps(sb.Snapshots)
      PROVE  /\ i \in Kept_Snaps(Rekeyed_Snaps)
             /\ cached'[Rekeyed_Snaps[i].PBA].data = cached'[sb.Snapshots[i].PBA].data
  <2>1. i \in V /\ i \in Snapshots_Index /\ i \in Valid_Snaps(sb.Snapshots)
        /\ Rekeying_Snaps[i].Keep /\ sb.Snapshots[i].Keep
    BY <1>2, <1>5, <1>9 DEF Kept_Snaps
  <2>2. i \in Kept_Snaps(Rekeyed_Snaps)
    BY <1>4, <2>1 DEF Kept_Snaps
  <2>3. cached'[Rekeyed_Snaps[i].PBA].data = sb.Snapshots[i].Hash.data
    <3>1. i \in Valid_Snaps(Rekeyed_Snaps)
      BY <1>4, <2>1
    <3>2. cached'[Rekeyed_Snaps[i].PBA] = Rekeyed_Snaps[i].Hash
      BY <1>3, <3>1 DEF Good
    <3> QED BY <1>4, <2>1, <3>2
  <2>4. sb.Snapshots[i].PBA \in Tree /\ sb.Snapshots[i].PBA[2] \in Nat
        /\ sb.Snapshots[i].PBA[2] < curr_gen
    BY <1>8, <1>9, <2>1, SnapTypes DEF Curr
  <2>5. cached'[sb.Snapshots[i].PBA] = cached[sb.Snapshots[i].PBA]
    BY <1>7, <1>8, <2>4
  <2>6. cached[sb.Snapshots[i].PBA] = sb.Snapshots[i].Hash
    BY <1>8, <2>1 DEF Good
  <2> QED BY <2>2, <2>3, <2>5, <2>6
<1>10. \A i \in Valid_Snaps(Rekeyed_Snaps) :
         /\ i \in Valid_Snaps(sb.Snapshots) /\ Rekeyed_Snaps[i].Gen = sb.Snapshots[i].Gen
         /\ Rekeyed_Snaps[i].Keep = sb.Snapshots[i].Keep
  BY <1>2, <1>4, <1>5
<1>11. Kept_Of(j) /\ j.Snapshots = Rekeyed_Snaps
  BY FieldsOfJob DEF Kept_Of, IInv, Shape
<1>12. K2 = [Keys_Of(sb) EXCEPT ![sb.Rekeying_VBA] = sb.Current_Key]
  OBVIOUS
<1> HIDE DEF j, V, K2
<1> QED BY <1>1, <1>3, <1>7, <1>9, <1>10, <1>11, <1>12, ReadySInv

LEMMA ExtendedSInv ==
  ASSUME IInv, KInv, TInv, SInv, ~VBD_Rekeying_Raises, NEW left, Extended(left),
         device' = device
  PROVE  SInv'
<1> DEFINE j == [job EXCEPT !.Nr_Of_Blks = left, !.Snapshots = Extended_Snaps]
           V == Valid_Snaps(Rekeying_Snaps)
           i == Extended_Idx
           c == sb.Curr_Snap
<1>1. /\ Answer("VBD_Ext_Step_In_VBD", j)
      /\ cached' = [cached EXCEPT ![<<curr_gen, curr_gen>>] =
                                    Rekeying_Snaps[Extended_Newest].Hash]
      /\ job.state = <<"VBD_Ext_Step_In_VBD", "Pending">>
  BY DEF Extended, Answer
<1>2. /\ restarts = 0 /\ sb.State # "Invalid" /\ TypeOK /\ curr_gen <= Max_Generation
      /\ Past(sb.Snapshots) /\ curr_gen \in Generation /\ job.op = "VBD_Extension_Step"
      /\ ~Taking_Over /\ ~Last_Rekeyed /\ ~At(Copied)
      /\ Rekeying_Snaps \in Snapshots_Type
      /\ \A k \in Snapshots_Index : SameBut(Rekeying_Snaps[k], sb.Snapshots[k])
      /\ V \subseteq Valid_Snaps(sb.Snapshots)
      /\ Kept_Snaps(Rekeying_Snaps) = Kept_Snaps(sb.Snapshots)
      /\ Good(Rekeying_Snaps, c, Keys_Of(sb), cached, curr_gen)
  BY <1>1, RekeyingGood
<1>3. Extended_Newest = c /\ c \in V /\ V \subseteq Snapshots_Index
  <2>1. c \in V /\ V \subseteq Snapshots_Index
    BY <1>2 DEF Good, Valid_Snaps
  <2>2. Extended_Newest = c
    BY <1>2, GoodNewest DEF Extended_Newest
  <2> QED BY <2>1, <2>2
<1>4. /\ Extended_Snaps \in Snapshots_Type /\ i \in Snapshots_Index
      /\ IF sb.Snapshots[c].Gen < curr_gen THEN i \notin V ELSE i = c
      /\ Extended_Snap \in Snapshot
      /\ Extended_Snap.Valid /\ Extended_Snap.Gen = curr_gen
      /\ Extended_Snap.PBA = <<curr_gen, curr_gen>>
      /\ Extended_Snap.Hash = sb.Snapshots[c].Hash
  BY <1>2, <1>3, ExtendedSnapsAre
<1>5. SameBut(Rekeying_Snaps[c], sb.Snapshots[c]) /\ Curr(sb) = sb.Snapshots[c]
  BY <1>2, <1>3 DEF Curr
<1>6. /\ curr_gen \in Nat
      /\ \A k \in Kept_Snaps(sb.Snapshots) : sb.Snapshots[k].Gen < curr_gen
      /\ Curr(sb).PBA[1] <= Curr(sb).Gen
      /\ \A k \in Valid_Snaps(sb.Snapshots) :
           k # c \/ Curr(sb).Gen < curr_gen => sb.Snapshots[k].PBA[2] < curr_gen
  BY <1>2, BeforeCopy
<1>7. \A k \in V : k # i => Rekeying_Snaps[k].PBA[2] < curr_gen
  BY <1>2, <1>3, <1>4, <1>5, <1>6 DEF SameBut
<1>8. Good(Extended_Snaps, i, Keys_Of(sb), cached', curr_gen)
  <2>1. cached \in [Tree -> Content] /\ Extended_Snap.Hash.key = Keys_Of(sb)
    BY <1>2, <1>3, <1>4, <1>5 DEF TypeOK, Good, SameBut
  <2>2. cached' = [cached EXCEPT ![<<curr_gen, curr_gen>>] = Extended_Snap.Hash]
    BY <1>1, <1>3, <1>4, <1>5 DEF SameBut
  <2>3. IF Rekeying_Snaps[c].Gen < curr_gen THEN i \notin V ELSE i = c
    BY <1>4, <1>5 DEF SameBut
  <2>4. Rekeying_Snaps[c].PBA[1] <= Rekeying_Snaps[c].Gen
    BY <1>5, <1>6 DEF SameBut
  <2> QED BY <1>2, <1>4, <1>6, <1>7, <2>1, <2>2, <2>3, <2>4, GoodWithNew DEF Extended_Snaps
<1>9. Newest_Snapshot_Idx(Extended_Snaps) = i
  BY <1>4, <1>8, GoodNewest
<1>10. \A t \in Tree : t[2] # curr_gen => cached'[t] = cached[t]
  BY <1>1, <1>2 DEF TypeOK
<1>11. ASSUME NEW k \in Kept_Snaps(sb.Snapshots)
       PROVE  /\ k \in Kept_Snaps(Extended_Snaps)
              /\ cached'[Extended_Snaps[k].PBA].data = cached'[sb.Snapshots[k].PBA].data
  <2>1. k \in V /\ k \in Snapshots_Index /\ Rekeying_Snaps[k].Keep
        /\ SameBut(Rekeying_Snaps[k], sb.Snapshots[k]) /\ sb.Snapshots[k].Gen < curr_gen
    BY <1>2, <1>3, <1>6, <1>11 DEF Kept_Snaps
  <2>2. k # i
    BY <1>4, <2>1
  <2>3. Extended_Snaps[k] = Rekeying_Snaps[k]
    BY <1>2, <2>1, <2>2 DEF Extended_Snaps, Snapshots_Type
  <2>4. k \in Kept_Snaps(Extended_Snaps)
    BY <2>1, <2>3 DEF Kept_Snaps, Valid_Snaps
  <2> QED BY <2>1, <2>3, <2>4 DEF SameBut
<1>12. Kept_Of(j) /\ j.Snapshots = Extended_Snaps
  BY FieldsOfJob DEF Kept_Of, IInv, Shape
<1> HIDE DEF j, V, i
<1> QED BY <1>1, <1>8, <1>9, <1>10, <1>11, <1>12, ReadySInv, ZenonT(30)

LEMMA VBDRekeyingSInv == IInv /\ KInv /\ TInv /\ SInv /\ VBD_Rekeying => SInv'
<1> SUFFICES ASSUME IInv, KInv, TInv, SInv, VBD_Rekeying, ~Raise_Program_Error PROVE SInv'
  BY RaiseSInv
<1>1. /\ ~VBD_Rekeying_Raises /\ device' = device
      /\ Rekeyed \/ \E left \in 0 .. job.Nr_Of_Blks - 1 : Extended(left)
  BY VBDRekeyingIs
<1> QED BY <1>1, RekeyedSInv, ExtendedSInv

-----------------------------------------------------------------------------
(***************************************************************************)
(* The library's own steps.                                                *)
(***************************************************************************)
(* The copy of a superblock: its current snapshot becomes one of this      *)
(* generation.                                                             *)
LEMMA CopySInv ==
  ASSUME KInv, TInv, SInv, Idle_Ctrl, Working, ~At(Copied),
         NEW s \in Superblock, NEW j \in Job, Init_SB_Ciphertext(s, j), j.op = job.op,
         s.State # "Invalid",
         Good(s.Snapshots, s.Curr_Snap, Keys_Of(s), cached, curr_gen)
  PROVE  SInv'
<1>1. ~At({"Secure_SB"}) /\ job.op \notin {"Invalid", "Initialize"}
  BY DEF At, Copied, Working, Starting, NoJob
<1>2. /\ TypeOK /\ restarts = 0 /\ curr_gen \in Generation /\ curr_gen \in Nat
      /\ sb.State # "Invalid" /\ curr_gen <= curr_gen
  BY <1>1, WorkingIs, SuperblockAssumption DEF Generation
<1>3. /\ sb' = Copy_Of(s) /\ curr_gen' = curr_gen /\ restarts' = restarts /\ cached' = cached
      /\ device' = device
      /\ job'.op = job.op /\ job'.state = <<"Encrypt_Current_Key", "Pending">>
  BY <1>2, CopyTypes DEF Idle_Ctrl
<1>4. /\ At(Copied)' /\ ~At({"Secure_SB"})' /\ ~Last_Rekeyed' /\ ~Taking_Over' /\ ~Starting'
      /\ \A x : ~Completed(x)'
      /\ ~At({"Sync_Blk_IO"})'
  BY <1>1, <1>3, NextToJob DEF Last_Rekeyed, Taking_Over, Copied
<1>5. /\ sb'.State = s.State /\ sb'.Curr_Snap = s.Curr_Snap /\ Keys_Of(sb)' = Keys_Of(s)
      /\ sb'.Snapshots \in Snapshots_Type /\ s.Snapshots \in Snapshots_Type
  BY <1>2, <1>3, CopyOf DEF Keys_Of, Key_For, Superblock, Snapshots_Type
<1>6. \A i \in Snapshots_Index :
        /\ sb'.Snapshots[i].Valid = s.Snapshots[i].Valid
        /\ sb'.Snapshots[i].PBA = s.Snapshots[i].PBA
        /\ sb'.Snapshots[i].Hash = s.Snapshots[i].Hash
        /\ sb'.Snapshots[i].Gen = IF i = s.Curr_Snap THEN curr_gen ELSE s.Snapshots[i].Gen
  BY <1>2, <1>3, CopyOf
<1>7. /\ Valid_Snaps(sb'.Snapshots) = Valid_Snaps(s.Snapshots)
      /\ s.Curr_Snap \in Valid_Snaps(s.Snapshots)
      /\ Valid_Snaps(s.Snapshots) \subseteq Snapshots_Index
  BY <1>6 DEF Valid_Snaps, Good
<1>8. /\ s.Snapshots[s.Curr_Snap].Gen <= sb'.Snapshots[s.Curr_Snap].Gen
      /\ sb'.Snapshots[s.Curr_Snap].Gen = curr_gen
  BY <1>2, <1>6, <1>7 DEF Good
<1>9. Good(sb'.Snapshots, s.Curr_Snap, Keys_Of(s), cached, curr_gen)
  <2> DEFINE new == sb'.Snapshots
             old == s.Snapshots
             c   == s.Curr_Snap
  <2>1. \A i \in Valid_Snaps(new) :
          /\ new[i].PBA = old[i].PBA /\ new[i].Hash = old[i].Hash
          /\ i # c => new[i].Gen = old[i].Gen
          /\ cached[old[i].PBA] = cached[old[i].PBA]
    BY <1>6, <1>7
  <2>2. /\ Valid_Snaps(new) \subseteq Valid_Snaps(old) /\ c \in Valid_Snaps(new)
        /\ old[c].Gen <= new[c].Gen /\ new[c].Gen <= curr_gen
        /\ {old, new} \subseteq Snapshots_Type
        /\ Good(old, c, Keys_Of(s), cached, curr_gen)
    BY <1>2, <1>5, <1>7, <1>8
  <2> HIDE DEF new, old, c
  <2>3. Good(new, c, Keys_Of(s), cached, curr_gen)
    BY <1>2, <2>1, <2>2, GoodStays
  <2> QED BY <2>3 DEF new, old, c
<1>10. SnapshotsGood'
  <2>1. Snaps' = sb'.Snapshots /\ Snap_Idx' = s.Curr_Snap /\ Snap_Keys' = Keys_Of(s)
    BY <1>4, <1>5 DEF Snaps, Snap_Idx, Snap_Keys
  <2> QED BY <1>3, <1>9, <2>1 DEF SnapshotsGood
<1>11. DeviceGood' /\ SomeSuperblock' /\ CachedAfterRestart'
  BY <1>3 DEF SInv, DeviceGood, SomeSuperblock, CachedAfterRestart, Found
<1>12. DeviceOld'
  <2>1. ~Completed("Write_SB") /\ ~At({"Sync_Blk_IO"})
    BY DEF Completed, At, Copied
  <2>2. Written_Gen' = Written_Gen
    BY <1>3, <1>4, <2>1 DEF Written_Gen
  <2> QED BY <1>2, <1>3, <2>2 DEF SInv, DeviceOld
<1>13. Generations'
  <2>1. curr_gen >= 1
    BY <1>2 DEF SInv, Generations
  <2>2. Curr(sb)' = sb'.Snapshots[s.Curr_Snap]
    BY <1>5 DEF Curr
  <2>3. \A i \in Valid_Snaps(sb'.Snapshots) : sb'.Snapshots[i].PBA[2] <= curr_gen
    BY <1>7, <1>9 DEF Good
  <2>4. Copied_Gens'
    BY <1>3, <1>4, <1>8, <2>2, <2>3 DEF Copied_Gens
  <2> QED BY <1>3, <1>4, <2>1, <2>4 DEF Generations
<1>14. TakenOver' /\ StartKnows' /\ NotTheCurrent'
  BY <1>3, <1>4, StatesDiffer DEF TakenOver, StartKnows, NotTheCurrent, Submitted
<1> QED BY <1>10, <1>11, <1>12, <1>13, <1>14 DEF SInv

(* The next step towards the trust anchor. *)
LEMMA PrepareSInv == IInv /\ KInv /\ TInv /\ SInv /\ Execute_Prepare /\ Idle_Ctrl => SInv'
<1> SUFFICES ASSUME IInv, KInv, TInv, SInv, Execute_Prepare, Idle_Ctrl
             PROVE  SInv'
  OBVIOUS
<1>1. PICK step \in {"Encrypt_Current_Key", "Encrypt_Previous_Key", "Sync_Cache", "Write_SB"} :
        Completed(step) /\ Then(Next_Step(step))
  BY DEF Execute_Prepare
<1> DEFINE next == Next_Step(step)
<1>2. /\ next \in {"Encrypt_Previous_Key", "Sync_Cache", "Write_SB", "Sync_Blk_IO"}
      /\ step = "Write_SB" <=> next = "Sync_Blk_IO"
  BY DEF Next_Step
<1>3. UNCHANGED <<sb, curr_gen, cached, device, restarts>> /\ Then(next)
  BY <1>1 DEF Execute_Prepare, Idle_Ctrl
<1> HIDE DEF next
<1>4. /\ job'.state = <<next, "Pending">> /\ job'.op = job.op
      /\ job'.Generation = job.Generation /\ next \in Steps
  BY <1>2, <1>3, ThenType DEF TInv, Steps
<1>5. job.op \notin {"Invalid", "Initialize"}
  <2>1. At({step})
    BY <1>1, OfJob
  <2>2. step \in Copied
    BY DEF Copied
  <2> QED BY <1>1, <2>1, <2>2, OperationIs, OfJob
<1>6. /\ At(Copied) /\ At(Copied)' /\ ~At({"Secure_SB"}) /\ ~At({"Secure_SB"})'
      /\ ~Last_Rekeyed /\ ~Last_Rekeyed' /\ ~Taking_Over /\ ~Taking_Over' /\ ~Starting'
      /\ At({"Sync_Blk_IO"})' <=> next = "Sync_Blk_IO"
      /\ ~At({"Sync_Blk_IO"})
      /\ Completed("Write_SB") <=> step = "Write_SB"
      /\ \A x : ~Completed(x)'
      /\ ~Completed("Rekey_VBA_In_VBD")
  BY <1>1, <1>2, <1>4, <1>5, NextToJob, OfJob DEF Last_Rekeyed, Taking_Over, Copied
<1>7. Written_Gen' = Written_Gen
  BY <1>2, <1>3, <1>6 DEF Written_Gen
<1>8. Snap_Keys' = Snap_Keys
  BY <1>3, <1>6 DEF Snap_Keys, Keys_Of, Key_For
<1>9. DeviceGood' /\ CachedAfterRestart' /\ NotTheCurrent' /\ StartKnows'
  BY <1>3, <1>4, <1>6, StatesDiffer DEF SInv, DeviceGood, CachedAfterRestart, NotTheCurrent,
     StartKnows, Submitted
<1> QED BY <1>3, <1>4, <1>6, <1>7, <1>8, <1>9, KeepsSInv

(* The generation of the copy ends. *)
LEMMA SyncBlkIOCompletedSInv ==
  IInv /\ KInv /\ TInv /\ SInv /\ Execute_Sync_Blk_IO_Completed /\ Idle_Ctrl => SInv'
<1> SUFFICES ASSUME IInv, KInv, TInv, SInv, Execute_Sync_Blk_IO_Completed, Idle_Ctrl
             PROVE  SInv'
  OBVIOUS
<1>1. /\ Completed("Sync_Blk_IO") /\ curr_gen' = curr_gen + 1
      /\ job' = [job EXCEPT !.Hash = sb, !.Generation = curr_gen,
                            !.state = <<"Secure_SB", "Pending">>]
      /\ UNCHANGED <<sb, cached, device, restarts>>
  BY DEF Execute_Sync_Blk_IO_Completed, Idle_Ctrl
<1>2. At({"Sync_Blk_IO"})
  BY <1>1, OfJob
<1>3. restarts = 0 /\ sb.State # "Invalid" /\ job.op \notin {"Invalid", "Initialize"} /\ TypeOK
  BY <1>1, <1>2, OperationIs, OfJob DEF Copied, TInv
<1>4. /\ job'.op = job.op /\ job'.Generation = curr_gen
      /\ job'.state = <<"Secure_SB", "Pending">>
  BY <1>1, <1>3 DEF TypeOK, Job
<1>5. /\ At(Copied) /\ ~At({"Secure_SB"}) /\ ~Last_Rekeyed /\ ~Taking_Over
      /\ ~Completed("Rekey_VBA_In_VBD") /\ ~Completed("VBD_Ext_Step_In_VBD")
  BY <1>1, OfJob DEF Last_Rekeyed, Taking_Over, Copied
<1>6. /\ At(Copied)' /\ At({"Secure_SB"})' /\ ~Last_Rekeyed' /\ ~Taking_Over' /\ ~Starting'
      /\ ~At({"Sync_Blk_IO"})' /\ \A x : ~Completed(x)'
  BY <1>3, <1>4, NextToJob DEF Last_Rekeyed, Taking_Over, Copied
<1>7. curr_gen >= 1 /\ Copied_Gens /\ Curr(sb).Gen = curr_gen
  BY <1>3, <1>5 DEF SInv, Generations, Copied_Gens
<1>8. /\ sb.Snapshots \in Snapshots_Type
      /\ Good(sb.Snapshots, sb.Curr_Snap, Keys_Of(sb), cached, curr_gen)
      /\ sb.Curr_Snap \in Snapshots_Index
      /\ curr_gen \in Nat
  BY <1>3, <1>5, CurrentGood
<1>9. SnapshotsGood'
  <2> DEFINE snaps == sb.Snapshots
             c     == sb.Curr_Snap
  <2>1. c \in Valid_Snaps(snaps) /\ c \in Snapshots_Index /\ snaps[c].Gen = curr_gen
        /\ snaps \in Snapshots_Type /\ Good(snaps, c, Keys_Of(sb), cached, curr_gen)
    BY <1>7, <1>8 DEF Good, Curr
  <2>2. Snaps' = snaps /\ Snap_Idx' = c /\ Snap_Keys' = Keys_Of(sb)
    BY <1>1, <1>6 DEF Snaps, Snap_Idx, Snap_Keys, Keys_Of, Key_For
  <2> HIDE DEF snaps, c
  <2>3. curr_gen + 1 \in Nat /\ curr_gen <= curr_gen + 1 /\ snaps[c].Gen <= curr_gen + 1
        /\ snaps[c].Gen <= snaps[c].Gen
    BY <1>8, <2>1
  <2>4. Good(snaps, c, Keys_Of(sb), cached, curr_gen + 1)
    BY <1>8, <2>1, <2>3, GoodStays
  <2> QED BY <1>1, <2>2, <2>4 DEF SnapshotsGood
<1>10. DeviceGood' /\ SomeSuperblock' /\ CachedAfterRestart'
  BY <1>1 DEF SInv, DeviceGood, SomeSuperblock, CachedAfterRestart, Found
<1>11. DeviceOld'
  <2>1. Written_Gen = curr_gen /\ Written_Gen' = curr_gen' - 1
    BY <1>2, <1>6 DEF Written_Gen
  <2>2. Written_Gen' = Written_Gen
    BY <1>1, <1>8, <2>1
  <2> QED BY <1>1, <1>3, <2>2 DEF SInv, DeviceOld
<1>12. Generations'
  <2>1. curr_gen = curr_gen' - 1 /\ curr_gen' >= 1
    BY <1>1, <1>8
  <2>2. Curr(sb)' = Curr(sb) /\ Valid_Snaps(sb'.Snapshots) = Valid_Snaps(sb.Snapshots)
    BY <1>1 DEF Curr
  <2>3. Copied_Gens'
    BY <1>1, <1>4, <1>6, <1>7, <2>1, <2>2 DEF Copied_Gens
  <2> QED BY <1>6, <2>1, <2>3 DEF Generations
<1>13. TakenOver' /\ StartKnows' /\ NotTheCurrent'
  BY <1>4, <1>6, StatesDiffer DEF TakenOver, StartKnows, NotTheCurrent, Submitted
<1> QED BY <1>9, <1>10, <1>11, <1>12, <1>13 DEF SInv

(* The copy is secured: it is the last that was. *)
LEMMA SecureSBCompletedSInv ==
  IInv /\ KInv /\ TInv /\ SInv /\ Execute_Secure_SB_Completed /\ Idle_Ctrl => SInv'
<1> SUFFICES ASSUME IInv, KInv, TInv, SInv, Execute_Secure_SB_Completed, Idle_Ctrl
             PROVE  SInv'
  OBVIOUS
<1>1. /\ Completed("Secure_SB")
      /\ sb' = [sb EXCEPT !.Last_Secured_Generation = job.Generation]
      /\ job' = [job EXCEPT !.success = TRUE, !.state = <<"Completed">>]
      /\ UNCHANGED <<curr_gen, cached, device, restarts>>
  BY DEF Execute_Secure_SB_Completed, Idle_Ctrl
<1>2. At({"Secure_SB"})
  BY <1>1, OfJob
<1>3. restarts = 0 /\ sb.State # "Invalid" /\ job.op \notin {"Invalid", "Initialize"} /\ TypeOK
  BY <1>1, <1>2, OperationIs, OfJob DEF Copied, TInv
<1>4. job'.op = job.op /\ job'.state = <<"Completed">>
  BY <1>1, <1>3 DEF TypeOK, Job
<1>5. /\ At(Copied) /\ ~Last_Rekeyed /\ ~Taking_Over
      /\ ~Completed("Write_SB") /\ ~At({"Sync_Blk_IO"})
  BY <1>1, OfJob DEF Last_Rekeyed, Taking_Over, Copied
<1>6. /\ \A steps : ~At(steps)'
      /\ \A x : ~Completed(x)'
      /\ ~Last_Rekeyed' /\ ~Taking_Over' /\ ~Starting'
  BY <1>4, AtNoStep DEF Last_Rekeyed, Taking_Over, Starting
<1>7. /\ curr_gen >= 1 /\ job.Generation = curr_gen - 1 /\ Curr(sb).Gen = curr_gen - 1
      /\ \A i \in Valid_Snaps(sb.Snapshots) : sb.Snapshots[i].PBA[2] <= curr_gen - 1
  BY <1>2, <1>3, <1>5 DEF SInv, Generations, Copied_Gens
<1>8. /\ sb.Snapshots \in Snapshots_Type
      /\ Good(sb.Snapshots, sb.Curr_Snap, Keys_Of(sb), cached, curr_gen)
      /\ sb.Curr_Snap \in Snapshots_Index
      /\ curr_gen \in Nat
  BY <1>3, <1>5, CurrentGood
<1>9. /\ sb'.Snapshots = sb.Snapshots /\ sb'.Curr_Snap = sb.Curr_Snap
      /\ sb'.Last_Secured_Generation = curr_gen - 1 /\ sb'.State = sb.State
      /\ Keys_Of(sb)' = Keys_Of(sb)
  BY <1>1, <1>3, <1>7 DEF TypeOK, Superblock, Keys_Of, Key_For
<1>10. SnapshotsGood'
  <2>1. Snaps' = sb.Snapshots /\ Snap_Idx' = sb.Curr_Snap /\ Snap_Keys' = Keys_Of(sb)
    BY <1>6, <1>9 DEF Snaps, Snap_Idx, Snap_Keys
  <2> QED BY <1>1, <1>8, <2>1 DEF SnapshotsGood
<1>11. DeviceGood' /\ SomeSuperblock' /\ CachedAfterRestart'
  BY <1>1 DEF SInv, DeviceGood, SomeSuperblock, CachedAfterRestart, Found
<1>12. DeviceOld'
  <2>1. Written_Gen' = Written_Gen
    BY <1>1, <1>5, <1>6 DEF Written_Gen
  <2> QED BY <1>1, <1>3, <2>1 DEF SInv, DeviceOld
<1>13. Generations'
  <2>1. Curr(sb)' = Curr(sb) /\ Valid_Snaps(sb.Snapshots)' = Valid_Snaps(sb.Snapshots)
    BY <1>9 DEF Curr
  <2>2. sb.Curr_Snap \in Valid_Snaps(sb.Snapshots)
        /\ Valid_Snaps(sb.Snapshots) \subseteq Snapshots_Index
    BY <1>8 DEF Good, Valid_Snaps
  <2>3. ASSUME NEW i \in Valid_Snaps(sb.Snapshots)
        PROVE  sb.Snapshots[i].Gen < curr_gen /\ sb.Snapshots[i].PBA[2] < curr_gen
    <3>1. i = sb.Curr_Snap \/ sb.Snapshots[i].Gen < Curr(sb).Gen
      BY <1>8 DEF Good, Curr
    <3>2. sb.Snapshots[i].Gen \in Nat /\ sb.Snapshots[i].PBA[2] \in Nat
      BY <1>8, <2>2, SnapTypes
    <3>3. i = sb.Curr_Snap => sb.Snapshots[i].Gen = curr_gen - 1
      BY <1>7 DEF Curr
    <3>4. sb.Snapshots[i].PBA[2] <= curr_gen - 1
      BY <1>7
    <3> QED BY <1>7, <1>8, <3>1, <3>2, <3>3, <3>4
  <2>4. Current_Gens'
    <3>1. \A i \in Kept_Snaps(sb.Snapshots)' : sb'.Snapshots[i].Gen < curr_gen'
      BY <1>1, <1>9, <2>3 DEF Kept_Snaps
    <3> QED BY <1>1, <1>7, <1>9, <2>1, <3>1 DEF Current_Gens
  <2>5. Current_Blocks'
    <3>1. Curr(sb)'.PBA[2] <= Curr(sb)'.Gen
      BY <1>7, <2>1, <2>2 DEF Curr
    <3>2. \A i \in Valid_Snaps(sb.Snapshots)' : sb'.Snapshots[i].PBA[2] < curr_gen'
      BY <1>1, <1>9, <2>1, <2>3
    <3> QED BY <3>1, <3>2 DEF Current_Blocks
  <2> QED BY <1>1, <1>6, <1>7, <2>4, <2>5 DEF Generations
<1>14. TakenOver' /\ StartKnows' /\ NotTheCurrent'
  BY <1>4, <1>6, StatesDiffer DEF TakenOver, StartKnows, NotTheCurrent, Submitted
<1> QED BY <1>10, <1>11, <1>12, <1>13, <1>14 DEF SInv

(* What Sync, Create_Snapshot and Discard_Snapshot secure: some of the     *)
(* snapshots, the current one among them.                                  *)
LEMMA SecuringSInv ==
  ASSUME KInv, TInv, SInv, Idle_Ctrl, NEW op \in {"Sync", "Create_Snapshot", "Discard_Snapshot"},
         Submitted(op), NEW s \in Superblock, Init_SB_Ciphertext(s, job),
         s.State = sb.State, s.Curr_Snap = sb.Curr_Snap, s.Rekeying_VBA = sb.Rekeying_VBA,
         s.Current_Key = sb.Current_Key, s.Previous_Key = sb.Previous_Key,
         sb.Curr_Snap \in Valid_Snaps(s.Snapshots),
         Valid_Snaps(s.Snapshots) \subseteq Valid_Snaps(sb.Snapshots),
         \A k \in Snapshots_Index :
           /\ s.Snapshots[k].PBA = sb.Snapshots[k].PBA /\ s.Snapshots[k].Hash = sb.Snapshots[k].Hash
           /\ s.Snapshots[k].Gen = sb.Snapshots[k].Gen
  PROVE  SInv'
<1>1. Working /\ ~At(Copied) /\ ~At({"Secure_SB"}) /\ ~Taking_Over /\ ~Last_Rekeyed
  BY OfSubmitted DEF Taking_Over, Last_Rekeyed
<1>2. TypeOK /\ restarts = 0 /\ curr_gen \in Generation /\ sb.State # "Invalid" /\ job \in Job
  BY <1>1, WorkingIs DEF TypeOK
<1>3. /\ curr_gen \in Nat /\ curr_gen <= curr_gen /\ sb.Snapshots \in Snapshots_Type
      /\ Good(sb.Snapshots, sb.Curr_Snap, Keys_Of(sb), cached, curr_gen)
  BY <1>1, <1>2, BeforeCopy
<1>4. Keys_Of(s) = Keys_Of(sb)
  BY DEF Keys_Of, Key_For
<1> DEFINE new == s.Snapshots
           old == sb.Snapshots
           c   == sb.Curr_Snap
<1>5. /\ {old, new} \subseteq Snapshots_Type /\ c \in Valid_Snaps(new)
      /\ Valid_Snaps(new) \subseteq Valid_Snaps(old) /\ Valid_Snaps(new) \subseteq Snapshots_Index
      /\ Good(old, c, Keys_Of(sb), cached, curr_gen)
  BY <1>3 DEF Superblock, Snapshots_Type, Valid_Snaps
<1>6. /\ \A i \in Valid_Snaps(new) :
           /\ new[i].PBA = old[i].PBA /\ new[i].Hash = old[i].Hash
           /\ i # c => new[i].Gen = old[i].Gen
           /\ cached[old[i].PBA] = cached[old[i].PBA]
      /\ new[c].Gen = old[c].Gen
  BY <1>5
<1>7. s.Curr_Snap = c /\ s.Snapshots = new
  OBVIOUS
<1> HIDE DEF new, old, c
<1>8. old[c].Gen <= new[c].Gen /\ new[c].Gen <= curr_gen
  <2>1. new[c].Gen \in Nat /\ old[c].Gen <= curr_gen
    BY <1>5, SnapTypes DEF Good
  <2> QED BY <1>6, <2>1
<1>9. Good(new, c, Keys_Of(sb), cached, curr_gen)
  BY <1>3, <1>5, <1>6, <1>8, GoodStays
<1>10. Good(s.Snapshots, s.Curr_Snap, Keys_Of(s), cached, curr_gen)
  BY <1>4, <1>7, <1>9
<1> QED BY <1>1, <1>2, <1>10, CopySInv

LEMMA ShortOperationsSInv ==
  ASSUME IInv, KInv, TInv, SInv, Idle_Ctrl,
         Execute_Sync \/ Execute_Create_Snapshot \/ Execute_Discard_Snapshot
  PROVE  SInv'
<1>1. ASSUME NEW op \in {"Sync", "Create_Snapshot", "Discard_Snapshot"}, Submitted(op)
      PROVE  /\ TypeOK /\ curr_gen \in Generation /\ sb.State # "Invalid"
             /\ sb.Snapshots \in Snapshots_Type /\ sb.Curr_Snap \in Snapshots_Index
             /\ sb.Curr_Snap \in Valid_Snaps(sb.Snapshots)
             /\ Curr(sb).Gen \in {sb.Last_Secured_Generation, curr_gen}
  <2>1. Working /\ ~At(Copied) /\ ~At({"Secure_SB"}) /\ ~Taking_Over /\ ~Last_Rekeyed
    BY <1>1, OfSubmitted DEF Taking_Over, Last_Rekeyed
  <2>2. TypeOK /\ restarts = 0 /\ curr_gen \in Generation /\ sb.State # "Invalid"
    BY <2>1, WorkingIs
  <2> QED BY <2>1, <2>2, BeforeCopy DEF TypeOK, Superblock, Good
(* With the snapshots of the superblock, or all but one of these. *)
<1>2. ASSUME NEW op \in {"Sync", "Create_Snapshot", "Discard_Snapshot"}, Submitted(op),
             NEW snaps \in Snapshots_Type, sb.Curr_Snap \in Valid_Snaps(snaps),
             Valid_Snaps(snaps) \subseteq Valid_Snaps(sb.Snapshots),
             \A k \in Snapshots_Index : SameBut(snaps[k], sb.Snapshots[k]),
             NEW s, s = Secure_Curr_Gen(snaps)
      PROVE  /\ s \in Superblock /\ s.Snapshots \in Snapshots_Type
             /\ s.State = sb.State /\ s.Curr_Snap = sb.Curr_Snap
             /\ s.Rekeying_VBA = sb.Rekeying_VBA
             /\ s.Current_Key = sb.Current_Key /\ s.Previous_Key = sb.Previous_Key
             /\ sb.Curr_Snap \in Valid_Snaps(s.Snapshots)
             /\ Valid_Snaps(s.Snapshots) \subseteq Valid_Snaps(sb.Snapshots)
             /\ \A k \in Snapshots_Index :
                  /\ s.Snapshots[k].PBA = sb.Snapshots[k].PBA
                  /\ s.Snapshots[k].Hash = sb.Snapshots[k].Hash
                  /\ s.Snapshots[k].Gen = sb.Snapshots[k].Gen
  <2> DEFINE D == Discard_Disposable_Snapshots(snaps, sb.Last_Secured_Generation, curr_gen)
  <2>1. /\ s \in Superblock /\ s.Snapshots = D /\ s.State = sb.State
        /\ s.Curr_Snap = sb.Curr_Snap /\ s.Rekeying_VBA = sb.Rekeying_VBA
        /\ s.Current_Key = sb.Current_Key /\ s.Previous_Key = sb.Previous_Key
    BY <1>1, <1>2, SecureCurrGenIs
  <2>2. /\ D \in Snapshots_Type
        /\ \A i \in Snapshots_Index : SameBut(D[i], snaps[i])
        /\ Valid_Snaps(D) = {i \in Valid_Snaps(snaps) :
                \/ snaps[i].Keep
                \/ snaps[i].Gen \in {sb.Last_Secured_Generation, curr_gen}}
    BY <1>2, DiscardIs, DiscardKeeps
  <2> HIDE DEF D
  <2>3. snaps[sb.Curr_Snap].Gen \in {sb.Last_Secured_Generation, curr_gen}
    BY <1>1, <1>2 DEF SameBut, Curr
  <2>4. /\ sb.Curr_Snap \in Valid_Snaps(D)
        /\ Valid_Snaps(D) \subseteq Valid_Snaps(sb.Snapshots)
    BY <1>2, <2>2, <2>3
  <2>5. \A k \in Snapshots_Index : D[k].PBA = sb.Snapshots[k].PBA
          /\ D[k].Hash = sb.Snapshots[k].Hash /\ D[k].Gen = sb.Snapshots[k].Gen
    BY <1>2, <2>2 DEF SameBut
  <2> QED BY <2>1, <2>2, <2>4, <2>5
<1>3. CASE Execute_Sync
  <2> DEFINE s == Secure_Curr_Gen(sb.Snapshots)
  <2>1. Submitted("Sync") /\ Init_SB_Ciphertext(s, job) /\ s = Secure_Curr_Gen(sb.Snapshots)
    BY <1>3 DEF Execute_Sync
  <2> HIDE DEF s
  <2> QED BY <1>1, <1>2, <2>1, SecuringSInv DEF SameBut
<1>4. CASE Execute_Create_Snapshot
  <2> DEFINE s == Secure_Curr_Gen(sb.Snapshots)
             k == Keeping(s)
  <2>1. /\ Submitted("Create_Snapshot") /\ Init_SB_Ciphertext(k, job)
        /\ s = Secure_Curr_Gen(sb.Snapshots)
    BY <1>4 DEF Execute_Create_Snapshot, Keeping
  <2>2. k = Keeping(s)
    OBVIOUS
  <2> HIDE DEF s, k
  <2>3. /\ s \in Superblock /\ s.State = sb.State /\ s.Curr_Snap = sb.Curr_Snap
        /\ s.Rekeying_VBA = sb.Rekeying_VBA
        /\ s.Current_Key = sb.Current_Key /\ s.Previous_Key = sb.Previous_Key
        /\ sb.Curr_Snap \in Valid_Snaps(s.Snapshots)
        /\ Valid_Snaps(s.Snapshots) \subseteq Valid_Snaps(sb.Snapshots)
        /\ \A i \in Snapshots_Index :
             /\ s.Snapshots[i].PBA = sb.Snapshots[i].PBA
             /\ s.Snapshots[i].Hash = sb.Snapshots[i].Hash
             /\ s.Snapshots[i].Gen = sb.Snapshots[i].Gen
    BY <1>1, <1>2, <2>1 DEF SameBut
  <2>4. /\ k \in Superblock /\ k.State = s.State /\ k.Curr_Snap = s.Curr_Snap
        /\ k.Rekeying_VBA = s.Rekeying_VBA
        /\ k.Current_Key = s.Current_Key /\ k.Previous_Key = s.Previous_Key
        /\ \A i \in Snapshots_Index :
             /\ k.Snapshots[i].Valid = s.Snapshots[i].Valid
             /\ k.Snapshots[i].PBA = s.Snapshots[i].PBA
             /\ k.Snapshots[i].Hash = s.Snapshots[i].Hash
             /\ k.Snapshots[i].Gen = s.Snapshots[i].Gen
    BY <2>2, <2>3, KeepingIs
  <2>5. Valid_Snaps(k.Snapshots) = Valid_Snaps(s.Snapshots)
    BY <2>4 DEF Valid_Snaps
  <2>6. /\ k.State = sb.State /\ k.Curr_Snap = sb.Curr_Snap
        /\ k.Rekeying_VBA = sb.Rekeying_VBA
        /\ k.Current_Key = sb.Current_Key /\ k.Previous_Key = sb.Previous_Key
        /\ \A i \in Snapshots_Index :
             /\ k.Snapshots[i].PBA = sb.Snapshots[i].PBA
             /\ k.Snapshots[i].Hash = sb.Snapshots[i].Hash
             /\ k.Snapshots[i].Gen = sb.Snapshots[i].Gen
    BY <2>3, <2>4
  <2> QED BY <2>1, <2>3, <2>4, <2>5, <2>6, SecuringSInv
<1>5. CASE Execute_Discard_Snapshot
  <2> DEFINE found == {i \in Kept_Snaps(sb.Snapshots) : sb.Snapshots[i].Gen = job.Generation}
  <2>1. Submitted("Discard_Snapshot")
    BY <1>5 DEF Execute_Discard_Snapshot
  <2>2. ASSUME NEW i \in Snapshots_Index, i \in found,
               Init_SB_Ciphertext(Secure_Curr_Gen(Without_Snap(i)), job)
        PROVE  SInv'
    <3> DEFINE s == Secure_Curr_Gen(Without_Snap(i))
    <3>1. i # sb.Curr_Snap
      BY <2>1, <2>2 DEF SInv, NotTheCurrent, Kept_Snaps, Curr
    <3>2. /\ Without_Snap(i) \in Snapshots_Type /\ sb.Curr_Snap \in Valid_Snaps(Without_Snap(i))
          /\ Valid_Snaps(Without_Snap(i)) \subseteq Valid_Snaps(sb.Snapshots)
          /\ \A k \in Snapshots_Index : SameBut(Without_Snap(i)[k], sb.Snapshots[k])
      BY <1>1, <2>1, <3>1, WithoutSnap
    <3>3. Init_SB_Ciphertext(s, job) /\ s = Secure_Curr_Gen(Without_Snap(i))
      BY <2>2
    <3> HIDE DEF s
    <3> QED BY <1>2, <2>1, <3>2, <3>3, SecuringSInv
  <2>3. ASSUME job' = [job EXCEPT !.success = FALSE, !.state = <<"Completed">>],
               UNCHANGED <<sb, sb_idx, curr_gen>>
        PROVE  SInv'
    <3>1. job'.op = job.op /\ job'.state = <<"Completed">> /\ job.state = <<"Submitted">>
      BY <2>1, <2>3 DEF TInv, TypeOK, Job, Submitted
    <3>2. ~Starting' /\ NotTheCurrent'
      BY <3>1 DEF Starting, NotTheCurrent, Submitted
    <3> QED BY <2>3, <3>1, <3>2, NoStepSInv DEF Idle_Ctrl
  <2> QED BY <1>5, <2>2, <2>3 DEF Execute_Discard_Snapshot, Without_Snap, IsFirst
<1> QED BY <1>3, <1>4, <1>5

(* An operation goes on before the copy, with the snapshots it has.        *)
LEMMA GoesOnSInv ==
  ASSUME SInv, Idle_Ctrl, Working, ~At(Copied), ~Taking_Over, ~Last_Rekeyed,
         curr_gen' = curr_gen, job'.op = job.op,
         NEW step \in Steps \ Copied, job'.state = <<step, "Pending">>,
         ~(job.op = "Rekey_VBA" /\ step = "Remove_Previous_Key"),
         sb.State # "Invalid", sb'.Snapshots = sb.Snapshots, sb'.Curr_Snap = sb.Curr_Snap,
         sb'.Last_Secured_Generation = sb.Last_Secured_Generation,
         Keys_Of(sb)' = Keys_Of(sb)
  PROVE  SInv'
<1>1. job.op \notin {"Invalid", "Initialize"}
  BY DEF Working, Starting, NoJob
<1>2. /\ ~At(Copied)' /\ ~At({"Secure_SB"})' /\ ~At({"Sync_Blk_IO"})'
      /\ ~Last_Rekeyed' /\ ~Taking_Over' /\ ~Starting'
      /\ \A x : ~Completed(x)'
  BY <1>1, NextToJob DEF Last_Rekeyed, Taking_Over, Copied
<1>3. /\ ~At({"Secure_SB"}) /\ ~At({"Sync_Blk_IO"}) /\ ~Completed("Write_SB")
      /\ ~Completed("Rekey_VBA_In_VBD")
  BY DEF At, Copied, Completed, Taking_Over
<1>4. Written_Gen' = Written_Gen
  BY <1>2, <1>3 DEF Written_Gen
<1>5. Snap_Keys' = Snap_Keys
  BY <1>2, <1>3 DEF Snap_Keys
<1>6. DeviceGood' /\ CachedAfterRestart' /\ NotTheCurrent' /\ StartKnows'
  BY <1>2, StatesDiffer DEF SInv, Idle_Ctrl, DeviceGood, CachedAfterRestart, NotTheCurrent,
     StartKnows, Submitted
<1> QED BY <1>2, <1>3, <1>4, <1>5, <1>6, KeepsSInv DEF Idle_Ctrl

LEMMA InitializeRekeyingSInv ==
  ASSUME IInv, KInv, TInv, SInv, Idle_Ctrl, Execute_Initialize_Rekeying, ~Execute_Raises
  PROVE  SInv'
<1>0. job.op = "Initialize_Rekeying"
  BY DEF Execute_Initialize_Rekeying
<1>1. Working /\ ~At(Copied) /\ ~At({"Secure_SB"}) /\ ~Taking_Over /\ ~Last_Rekeyed
  <2>1. CASE Submitted("Initialize_Rekeying")
    BY <2>1, OfSubmitted DEF Taking_Over, Last_Rekeyed
  <2>2. CASE Completed("Create_Key") \/ Completed("Add_Key")
    BY <1>0, <2>2, OfJob DEF Copied, Taking_Over, Last_Rekeyed
  <2> QED BY <2>1, <2>2 DEF Execute_Initialize_Rekeying
<1>2. /\ TypeOK /\ curr_gen \in Generation /\ sb \in Superblock
      /\ restarts = 0 /\ sb.State # "Invalid" /\ job \in Job
  BY <1>1, WorkingIs DEF TypeOK
<1>3. CASE /\ Submitted("Initialize_Rekeying") /\ Then("Create_Key")
           /\ UNCHANGED <<sb, sb_idx, curr_gen>>
  <2>1. job'.op = job.op /\ job'.state = <<"Create_Key", "Pending">>
    BY <1>2, <1>3, ThenType DEF Steps
  <2>2. Keys_Of(sb)' = Keys_Of(sb)
    BY <1>3 DEF Keys_Of, Key_For
  <2> QED BY <1>0, <1>1, <1>2, <1>3, <2>1, <2>2, GoesOnSInv DEF Steps, Copied
<1>4. CASE /\ Completed("Create_Key") /\ Then("Add_Key") /\ UNCHANGED <<sb_idx, curr_gen>>
           /\ sb' = [sb EXCEPT !.State = "Rekeying", !.Rekeying_VBA = 0,
                               !.Previous_Key = sb.Current_Key,
                               !.Current_Key = sb.Current_Key + 1]
  <2>1. job'.op = job.op /\ job'.state = <<"Add_Key", "Pending">>
    BY <1>2, <1>4, ThenType DEF Steps
  <2>2. sb.State = "Normal"
    BY <1>0, <1>4 DEF Execute_Raises
  <2>3. /\ sb'.State = "Rekeying" /\ sb'.Rekeying_VBA = 0
        /\ sb'.Previous_Key = sb.Current_Key
        /\ sb'.Snapshots = sb.Snapshots /\ sb'.Curr_Snap = sb.Curr_Snap
        /\ sb'.Last_Secured_Generation = sb.Last_Secured_Generation
    BY <1>2, <1>4 DEF Superblock
  <2>4. \A v \in VBA : 0 <= v
    BY SuperblockAssumption DEF VBA
  <2>5. Keys_Of(sb)' = Keys_Of(sb)
    BY <2>2, <2>3, <2>4 DEF Keys_Of, Key_For
  <2> QED BY <1>0, <1>1, <1>2, <1>4, <2>1, <2>3, <2>5, GoesOnSInv DEF Steps, Copied
<1>5. CASE Completed("Add_Key") /\ Init_SB_Ciphertext(sb, job)
  BY <1>1, <1>2, <1>5, BeforeCopy, CopySInv
<1> QED BY <1>3, <1>4, <1>5 DEF Execute_Initialize_Rekeying

LEMMA RekeyVBASInv ==
  ASSUME IInv, KInv, TInv, SInv, Idle_Ctrl, Execute_Rekey_VBA
  PROVE  SInv'
<1>0. job.op = "Rekey_VBA"
  BY DEF Execute_Rekey_VBA
<1>1. Working /\ ~At(Copied) /\ ~At({"Secure_SB"}) /\ ~At({"Sync_Blk_IO"})
  <2>1. CASE Submitted("Rekey_VBA")
    BY <2>1, OfSubmitted
  <2>2. CASE Completed("Rekey_VBA_In_VBD") \/ Completed("Remove_Previous_Key")
    BY <1>0, <2>2, OfJob DEF Copied
  <2> QED BY <2>1, <2>2 DEF Execute_Rekey_VBA
<1>2. /\ TypeOK /\ curr_gen \in Generation /\ sb \in Superblock
      /\ restarts = 0 /\ sb.State = "Rekeying" /\ sb.State # "Invalid" /\ job \in Job
  BY <1>0, <1>1, WorkingIs DEF TypeOK, KInv, StateOfOperation
(* What is taken over is readable with the keys of one address more. *)
<1>3. Completed("Rekey_VBA_In_VBD") =>
        /\ job.Snapshots \in Snapshots_Type
        /\ Good(job.Snapshots, sb.Curr_Snap,
                [Keys_Of(sb) EXCEPT ![sb.Rekeying_VBA] = sb.Current_Key], cached, curr_gen)
        /\ \A i \in Valid_Snaps(job.Snapshots) :
             /\ i \in Valid_Snaps(sb.Snapshots)
             /\ job.Snapshots[i].Gen = sb.Snapshots[i].Gen
             /\ job.Snapshots[i].Keep = sb.Snapshots[i].Keep
        /\ Current_Gens /\ curr_gen >= 1
        /\ Written_Gen = curr_gen - 1
  <2> SUFFICES ASSUME Completed("Rekey_VBA_In_VBD")
               PROVE  /\ job.Snapshots \in Snapshots_Type
                      /\ Good(job.Snapshots, sb.Curr_Snap,
                              [Keys_Of(sb) EXCEPT ![sb.Rekeying_VBA] = sb.Current_Key],
                              cached, curr_gen)
                      /\ \A i \in Valid_Snaps(job.Snapshots) :
                           /\ i \in Valid_Snaps(sb.Snapshots)
                           /\ job.Snapshots[i].Gen = sb.Snapshots[i].Gen
                           /\ job.Snapshots[i].Keep = sb.Snapshots[i].Keep
                      /\ Current_Gens /\ curr_gen >= 1
                      /\ Written_Gen = curr_gen - 1
    OBVIOUS
  <2>1. /\ ~Completed("VBD_Ext_Step_In_VBD") /\ ~Completed("Write_SB")
        /\ Taking_Over /\ ~Last_Rekeyed
    BY OfJob DEF Taking_Over, Last_Rekeyed
  <2>2. /\ Snaps = job.Snapshots /\ Snap_Idx = sb.Curr_Snap
        /\ Snap_Keys = [Keys_Of(sb) EXCEPT ![sb.Rekeying_VBA] = sb.Current_Key]
    BY <2>1 DEF Snaps, Snap_Idx, Snap_Keys
  <2>3. Good(Snaps, Snap_Idx, Snap_Keys, cached, curr_gen)
    BY <1>2 DEF SInv, SnapshotsGood
  <2>4. Written_Gen = curr_gen - 1
    BY <1>1, <2>1 DEF Written_Gen
  <2>5. Current_Gens /\ curr_gen >= 1
    BY <1>1, <1>2 DEF SInv, Generations
  <2> QED BY <1>2, <2>2, <2>3, <2>4, <2>5, JobTypes DEF SInv, TakenOver
<1>4. CASE /\ Submitted("Rekey_VBA") /\ Then("Rekey_VBA_In_VBD")
           /\ UNCHANGED <<sb, sb_idx, curr_gen>>
  <2>1. job'.op = job.op /\ job'.state = <<"Rekey_VBA_In_VBD", "Pending">>
    BY <1>2, <1>4, ThenType DEF Steps
  <2>2. Keys_Of(sb)' = Keys_Of(sb)
    BY <1>4 DEF Keys_Of, Key_For
  <2>3. ~Taking_Over /\ ~Last_Rekeyed
    BY <1>4, OfSubmitted DEF Taking_Over, Last_Rekeyed
  <2> QED BY <1>1, <1>2, <1>4, <2>1, <2>2, <2>3, GoesOnSInv DEF Steps, Copied
<1>5. CASE /\ Completed("Rekey_VBA_In_VBD") /\ sb.Rekeying_VBA < VBA_Last
           /\ Init_SB_Ciphertext([sb EXCEPT !.Snapshots = job.Snapshots, !.Rekeying_VBA = @ + 1],
                                 [job EXCEPT !.Request_Finished = FALSE])
  <2> DEFINE s == [sb EXCEPT !.Snapshots = job.Snapshots, !.Rekeying_VBA = @ + 1]
             j == [job EXCEPT !.Request_Finished = FALSE]
  <2>1. sb.Rekeying_VBA \in VBA /\ sb.Rekeying_VBA + 1 \in VBA
    BY <1>2, <1>5, SuperblockAssumption DEF Superblock, VBA
  <2>2. /\ s \in Superblock /\ s.Snapshots = job.Snapshots /\ s.Curr_Snap = sb.Curr_Snap
        /\ s.Current_Key = sb.Current_Key /\ s.Previous_Key = sb.Previous_Key
        /\ s.State = "Rekeying" /\ s.Rekeying_VBA = sb.Rekeying_VBA + 1
    BY <1>2, <1>3, <1>5, <2>1 DEF Superblock, Snapshots_Type
  <2>3. j \in Job /\ j.op = job.op
    BY <1>2 DEF Job
  <2>4. Init_SB_Ciphertext(s, j)
    BY <1>5
  <2> HIDE DEF s, j
  <2>5. ASSUME NEW v \in VBA
        PROVE  Key_For(s, v) = IF v = sb.Rekeying_VBA THEN sb.Current_Key ELSE Key_For(sb, v)
    <3>1. sb.Rekeying_VBA + 1 <= v <=> sb.Rekeying_VBA <= v /\ v # sb.Rekeying_VBA
      BY <2>1, SuperblockAssumption DEF VBA
    <3> QED BY <1>2, <2>2, <3>1 DEF Key_For
  <2>6. Keys_Of(s) = [Keys_Of(sb) EXCEPT ![sb.Rekeying_VBA] = sb.Current_Key]
    BY <2>1, <2>5 DEF Keys_Of
  <2> QED BY <1>1, <1>3, <1>5, <2>2, <2>3, <2>4, <2>6, CopySInv
<1>6. CASE /\ Completed("Rekey_VBA_In_VBD") /\ sb.Rekeying_VBA = VBA_Last
           /\ Then("Remove_Previous_Key")
           /\ sb' = [sb EXCEPT !.Snapshots = job.Snapshots] /\ UNCHANGED <<sb_idx, curr_gen>>
  <2>1. job'.op = "Rekey_VBA" /\ job'.state = <<"Remove_Previous_Key", "Pending">>
    BY <1>0, <1>2, <1>6, ThenType DEF Steps
  <2>2. /\ sb'.Snapshots = job.Snapshots /\ sb'.Curr_Snap = sb.Curr_Snap
        /\ sb'.Current_Key = sb.Current_Key /\ sb'.State = sb.State
        /\ sb'.Last_Secured_Generation = sb.Last_Secured_Generation
    BY <1>2, <1>6 DEF Superblock
  <2>3. /\ Last_Rekeyed' /\ ~At(Copied)' /\ ~At({"Sync_Blk_IO"})' /\ ~Starting' /\ ~Taking_Over'
        /\ \A x : ~Completed(x)'
    BY <2>1, NextToJob DEF Last_Rekeyed, Taking_Over, Copied
  <2>4. UNCHANGED <<curr_gen, cached, device, restarts>>
    BY <1>6 DEF Idle_Ctrl
  <2>5. sb.Curr_Snap \in Valid_Snaps(job.Snapshots)
    BY <1>3, <1>6 DEF Good
  <2>6. SnapshotsGood'
    <3>1. [Keys_Of(sb) EXCEPT ![sb.Rekeying_VBA] = sb.Current_Key] = [v \in VBA |-> sb.Current_Key]
      <4>1. \A v \in VBA : v # VBA_Last => ~(VBA_Last <= v)
        BY SuperblockAssumption DEF VBA
      <4> QED BY <1>2, <1>6, <4>1 DEF Keys_Of, Key_For
    <3>2. Snaps' = job.Snapshots /\ Snap_Idx' = sb.Curr_Snap
          /\ Snap_Keys' = [v \in VBA |-> sb.Current_Key]
      BY <2>2, <2>3 DEF Snaps, Snap_Idx, Snap_Keys
    <3> QED BY <1>3, <1>6, <2>4, <3>1, <3>2 DEF SnapshotsGood
  <2>7. DeviceGood' /\ SomeSuperblock' /\ CachedAfterRestart'
    BY <2>4 DEF SInv, DeviceGood, SomeSuperblock, CachedAfterRestart, Found
  <2>8. DeviceOld'
    <3>1. Written_Gen' = Written_Gen
      BY <1>3, <1>6, <2>3, <2>4 DEF Written_Gen
    <3> QED BY <1>2, <2>4, <3>1 DEF SInv, DeviceOld
  <2>9. Generations'
    <3>1. Curr(sb)'.Gen = Curr(sb).Gen
      BY <1>3, <1>6, <2>2, <2>5 DEF Curr
    <3>2. ASSUME NEW i \in Kept_Snaps(sb.Snapshots)'
          PROVE  sb'.Snapshots[i].Gen < curr_gen
      <4>1. i \in Kept_Snaps(job.Snapshots)
        BY <2>2 DEF Kept_Snaps, Valid_Snaps
      <4>2. i \in Kept_Snaps(sb.Snapshots) /\ job.Snapshots[i].Gen = sb.Snapshots[i].Gen
        BY <1>3, <1>6, <4>1 DEF Kept_Snaps
      <4> QED BY <1>3, <1>6, <2>2, <4>2 DEF Current_Gens
    <3>3. Current_Gens'
      BY <1>3, <1>6, <2>2, <2>4, <3>1, <3>2 DEF Current_Gens
    <3> QED BY <1>3, <1>6, <2>3, <2>4, <3>3 DEF Generations
  <2>10. TakenOver' /\ StartKnows' /\ NotTheCurrent'
    BY <2>1, <2>3, StatesDiffer DEF TakenOver, StartKnows, NotTheCurrent, Submitted
  <2> QED BY <2>6, <2>7, <2>8, <2>9, <2>10 DEF SInv
<1>7. CASE /\ Completed("Remove_Previous_Key")
           /\ Init_SB_Ciphertext([sb EXCEPT !.Previous_Key = 0, !.State = "Normal"],
                                 [job EXCEPT !.Request_Finished = TRUE])
  <2> DEFINE s == [sb EXCEPT !.Previous_Key = 0, !.State = "Normal"]
             j == [job EXCEPT !.Request_Finished = TRUE]
  <2>0. 0 \in Key_ID
    BY SuperblockAssumption DEF Key_ID
  <2>1. /\ s \in Superblock /\ s.Snapshots = sb.Snapshots /\ s.Current_Key = sb.Current_Key
        /\ s.Curr_Snap = sb.Curr_Snap /\ s.State = "Normal"
    BY <1>2, <2>0 DEF Superblock
  <2>2. j \in Job /\ j.op = job.op
    BY <1>2 DEF Job
  <2>3. Init_SB_Ciphertext(s, j)
    BY <1>7
  <2> HIDE DEF s, j
  <2>4. Last_Rekeyed /\ ~Taking_Over
    BY <1>0, <1>7, OfJob DEF Last_Rekeyed, Taking_Over
  <2>5. Snap_Keys = Keys_Of(s)
    BY <2>1, <2>4 DEF Snap_Keys, Keys_Of, Key_For
  <2>6. Good(sb.Snapshots, sb.Curr_Snap, Snap_Keys, cached, curr_gen)
    BY <1>2, <2>4, CurrentGood
  <2> QED BY <1>1, <2>1, <2>2, <2>3, <2>5, <2>6, CopySInv
<1> QED BY <1>4, <1>5, <1>6, <1>7 DEF Execute_Rekey_VBA

LEMMA ExtensionSInv ==
  ASSUME IInv, KInv, TInv, SInv, Idle_Ctrl, Execute_Extension_Step
  PROVE  SInv'
<1>0. /\ job.op \in {"VBD_Extension_Step", "FT_Extension_Step"}
      /\ job.op \in DOMAIN Extending
      /\ Extend_In[job.op] = IF job.op = "VBD_Extension_Step" THEN "VBD_Ext_Step_In_VBD"
                                                             ELSE "FT_Ext_Step_In_FT"
      /\ Extending[job.op] \in {"Extending_VBD", "Extending_FT"}
  BY DEF Execute_Extension_Step, Extending, Extend_In
<1>1. /\ Working /\ ~At(Copied) /\ ~At({"Secure_SB"}) /\ ~Last_Rekeyed
      /\ Submitted(job.op) => ~Taking_Over
      /\ Completed(Extend_In[job.op]) =>
           /\ Taking_Over <=> job.op = "VBD_Extension_Step"
           /\ Completed("VBD_Ext_Step_In_VBD") <=> job.op = "VBD_Extension_Step"
           /\ ~Completed("Rekey_VBA_In_VBD")
  <2>1. CASE Submitted(job.op)
    <3>1. ~Completed(Extend_In[job.op])
      BY <2>1, OfSubmitted
    <3> QED BY <1>0, <2>1, <3>1, OfSubmitted DEF Taking_Over, Last_Rekeyed
  <2>2. CASE Completed(Extend_In[job.op])
    <3>1. ~Submitted(job.op)
      BY <2>2, OfSubmitted
    <3> QED BY <1>0, <2>2, <3>1, OfJob DEF Copied, Taking_Over, Last_Rekeyed
  <2> QED BY <2>1, <2>2 DEF Execute_Extension_Step
<1>2. /\ TypeOK /\ curr_gen \in Generation /\ sb \in Superblock
      /\ restarts = 0 /\ sb.State # "Invalid" /\ sb.State # "Rekeying" /\ job \in Job
  BY <1>0, <1>1, WorkingIs DEF TypeOK, KInv, StateOfOperation
<1>3. job.Nr_Of_Blks \in 0 .. Max_Nr_Of_Blks /\ sb.Resizing_Nr_Of_PBAs \in 0 .. Max_Nr_Of_Blks
  BY <1>2 DEF Job, Superblock
<1>4. ASSUME NEW snaps \in Snapshots_Type, NEW curr \in Snapshots_Index,
             Good(snaps, curr, Keys_Of(sb), cached, curr_gen),
             NEW state \in {"Normal", "Extending_VBD", "Extending_FT", sb.State},
             NEW nr \in 0 .. Max_Nr_Of_Blks, NEW finished \in BOOLEAN,
             Init_SB_Ciphertext([sb EXCEPT !.Snapshots = snaps, !.Curr_Snap = curr,
                                           !.State = state, !.Resizing_Nr_Of_PBAs = nr],
                                [job EXCEPT !.Request_Finished = finished])
      PROVE  SInv'
  <2> DEFINE s == [sb EXCEPT !.Snapshots = snaps, !.Curr_Snap = curr,
                             !.State = state, !.Resizing_Nr_Of_PBAs = nr]
             j == [job EXCEPT !.Request_Finished = finished]
  <2>1. /\ s \in Superblock /\ s.Snapshots = snaps /\ s.Curr_Snap = curr
        /\ s.Current_Key = sb.Current_Key /\ s.State = state
    BY <1>2, <1>4 DEF Superblock, Snapshots_Type
  <2>2. j \in Job /\ j.op = job.op
    BY <1>2, <1>4 DEF Job
  <2>3. Init_SB_Ciphertext(s, j)
    BY <1>4
  <2> HIDE DEF s, j
  <2>4. Keys_Of(s) = Keys_Of(sb) /\ s.State # "Invalid"
    BY <1>2, <1>4, <2>1 DEF Keys_Of, Key_For
  <2> QED BY <1>1, <1>4, <2>1, <2>2, <2>3, <2>4, CopySInv
<1>5. ~Taking_Over => /\ sb.Snapshots \in Snapshots_Type /\ sb.Curr_Snap \in Snapshots_Index
                      /\ Good(sb.Snapshots, sb.Curr_Snap, Keys_Of(sb), cached, curr_gen)
  BY <1>1, <1>2, CurrentGood
<1>6. CASE /\ Submitted(job.op)
           /\ Init_SB_Ciphertext([sb EXCEPT !.State = Extending[job.op],
                                            !.Resizing_Nr_Of_PBAs = job.Nr_Of_Blks],
                                 [job EXCEPT !.Request_Finished = FALSE])
  <2>1. [sb EXCEPT !.State = Extending[job.op], !.Resizing_Nr_Of_PBAs = job.Nr_Of_Blks]
          = [sb EXCEPT !.Snapshots = sb.Snapshots, !.Curr_Snap = sb.Curr_Snap,
                       !.State = Extending[job.op], !.Resizing_Nr_Of_PBAs = job.Nr_Of_Blks]
    BY FieldsOfSuperblock DEF KInv, Fields
  <2>2. Init_SB_Ciphertext(
          [sb EXCEPT !.Snapshots = sb.Snapshots, !.Curr_Snap = sb.Curr_Snap,
                     !.State = Extending[job.op], !.Resizing_Nr_Of_PBAs = job.Nr_Of_Blks],
          [job EXCEPT !.Request_Finished = FALSE])
    BY <1>6, <2>1
  <2> QED BY <1>0, <1>1, <1>2, <1>3, <1>4, <1>5, <1>6, <2>2
<1>7. CASE /\ Submitted(job.op) /\ UNCHANGED <<sb, sb_idx, curr_gen>>
           /\ job' = [job EXCEPT !.Nr_Of_Blks = sb.Resizing_Nr_Of_PBAs,
                                 !.state = <<Extend_In[job.op], "Pending">>]
  <2> DEFINE step == Extend_In[job.op]
  <2>1. step \in {"VBD_Ext_Step_In_VBD", "FT_Ext_Step_In_FT"}
    BY <1>0
  <2>2. job' = [job EXCEPT !.Nr_Of_Blks = sb.Resizing_Nr_Of_PBAs, !.state = <<step, "Pending">>]
    BY <1>7
  <2> HIDE DEF step
  <2>3. step \in Steps \ Copied /\ step # "Remove_Previous_Key"
    BY <2>1 DEF Steps, Copied
  <2>4. job'.op = job.op /\ job'.state = <<step, "Pending">>
    BY <1>2, <2>2 DEF Job
  <2>5. Keys_Of(sb)' = Keys_Of(sb)
    BY <1>7 DEF Keys_Of, Key_For
  <2> QED BY <1>1, <1>2, <1>7, <2>3, <2>4, <2>5, GoesOnSInv
<1>8. CASE /\ Completed(Extend_In[job.op])
           /\ LET last == job.Nr_Of_Blks = 0
                  vbd  == job.op = "VBD_Extension_Step"
              IN Init_SB_Ciphertext(
                   [sb EXCEPT !.Snapshots = IF vbd THEN job.Snapshots ELSE @,
                              !.Curr_Snap = IF vbd THEN Newest_Snapshot_Idx(job.Snapshots) ELSE @,
                              !.State = IF last THEN "Normal" ELSE @,
                              !.Resizing_Nr_Of_PBAs = IF vbd /\ last THEN @ ELSE job.Nr_Of_Blks],
                   [job EXCEPT !.Request_Finished = IF last THEN TRUE ELSE @])
  <2> DEFINE last == job.Nr_Of_Blks = 0
             vbd  == job.op = "VBD_Extension_Step"
             snaps == IF vbd THEN job.Snapshots ELSE sb.Snapshots
             curr == IF vbd THEN Newest_Snapshot_Idx(job.Snapshots) ELSE sb.Curr_Snap
             state == IF last THEN "Normal" ELSE sb.State
             nr == IF vbd /\ last THEN sb.Resizing_Nr_Of_PBAs ELSE job.Nr_Of_Blks
             finished == IF last THEN TRUE ELSE job.Request_Finished
  <2>1. Init_SB_Ciphertext([sb EXCEPT !.Snapshots = snaps, !.Curr_Snap = curr,
                                      !.State = state, !.Resizing_Nr_Of_PBAs = nr],
                           [job EXCEPT !.Request_Finished = finished])
    BY <1>8
  <2>2. vbd => /\ job.Snapshots \in Snapshots_Type
               /\ Newest_Snapshot_Idx(job.Snapshots) \in Snapshots_Index
               /\ Good(job.Snapshots, Newest_Snapshot_Idx(job.Snapshots), Keys_Of(sb),
                       cached, curr_gen)
    <3>1. SUFFICES ASSUME vbd
                   PROVE  /\ job.Snapshots \in Snapshots_Type
                          /\ Newest_Snapshot_Idx(job.Snapshots) \in Snapshots_Index
                          /\ Good(job.Snapshots, Newest_Snapshot_Idx(job.Snapshots),
                                  Keys_Of(sb), cached, curr_gen)
      OBVIOUS
    <3>2. /\ Snaps = job.Snapshots /\ Snap_Idx = Newest_Snapshot_Idx(job.Snapshots)
          /\ Snap_Keys = Keys_Of(sb)
      BY <1>1, <1>8, <3>1 DEF Snaps, Snap_Idx, Snap_Keys
    <3>3. Good(Snaps, Snap_Idx, Snap_Keys, cached, curr_gen)
      BY <1>2 DEF SInv, SnapshotsGood
    <3>4. job.Snapshots \in Snapshots_Type
      BY <1>2, JobTypes
    <3> QED BY <3>2, <3>3, <3>4 DEF Good, Valid_Snaps
  <2>3. /\ snaps \in Snapshots_Type /\ curr \in Snapshots_Index
        /\ Good(snaps, curr, Keys_Of(sb), cached, curr_gen)
    <3>1. CASE vbd
      BY <2>2, <3>1
    <3>2. CASE ~vbd
      BY <1>1, <1>5, <1>8, <3>2
    <3> QED BY <3>1, <3>2
  <2>4. state \in {"Normal", "Extending_VBD", "Extending_FT", sb.State}
        /\ nr \in 0 .. Max_Nr_Of_Blks /\ finished \in BOOLEAN
    BY <1>2, <1>3 DEF Job
  <2> HIDE DEF snaps, curr, state, nr, finished
  <2> QED BY <1>4, <2>1, <2>3, <2>4
<1> QED BY <1>6, <1>7, <1>8 DEF Execute_Extension_Step

LEMMA DeinitializeSInv ==
  ASSUME IInv, KInv, TInv, SInv, Idle_Ctrl, Execute_Deinitialize
  PROVE  SInv'
<1>0. job.op = "Deinitialize" /\ curr_gen' = curr_gen
  BY DEF Execute_Deinitialize
<1>1. /\ Working /\ ~At(Copied) /\ ~At({"Secure_SB"}) /\ ~At({"Sync_Blk_IO"})
      /\ ~Taking_Over /\ ~Last_Rekeyed
      /\ ~Completed("Write_SB") /\ ~Completed("Rekey_VBA_In_VBD")
  <2>1. CASE Submitted("Deinitialize")
    BY <1>0, <2>1, OfSubmitted DEF Taking_Over, Last_Rekeyed
  <2>2. CASE Completed("Remove_Current_Key") \/ Completed("Remove_Previous_Key")
    BY <1>0, <2>2, OfJob DEF Copied, Taking_Over, Last_Rekeyed
  <2> QED BY <2>1, <2>2 DEF Execute_Deinitialize
<1>2. TypeOK /\ sb.State # "Invalid" /\ job \in Job
  BY <1>1, WorkingIs DEF TypeOK
<1>3. ASSUME NEW step \in {"Remove_Current_Key", "Remove_Previous_Key"}, Then(step),
             UNCHANGED sb
      PROVE  SInv'
  <2>1. step \in Steps \ Copied
    BY DEF Steps, Copied
  <2>2. job'.op = job.op /\ job'.state = <<step, "Pending">>
    BY <1>2, <1>3, <2>1, ThenType
  <2>3. Keys_Of(sb)' = Keys_Of(sb)
    BY <1>3 DEF Keys_Of, Key_For
  <2> QED BY <1>0, <1>1, <1>2, <1>3, <2>1, <2>2, <2>3, GoesOnSInv
<1>4. ASSUME job' = [job EXCEPT !.success = TRUE, !.state = <<"Completed">>],
             sb' = sb \/ sb' = [sb EXCEPT !.State = "Invalid"]
      PROVE  SInv'
  <2>1. job'.op = job.op /\ job'.state = <<"Completed">>
    BY <1>2, <1>4 DEF Job
  <2>2. /\ \A steps : ~At(steps)'
        /\ \A x : ~Completed(x)'
        /\ ~Last_Rekeyed' /\ ~Taking_Over' /\ ~Starting'
    BY <2>1, AtNoStep DEF Last_Rekeyed, Taking_Over, Starting
  <2>3. UNCHANGED <<curr_gen, cached, device, restarts>>
    BY <1>0 DEF Idle_Ctrl
  <2>4. Written_Gen' = Written_Gen
    BY <1>1, <2>2, <2>3 DEF Written_Gen
  <2>5. sb'.State # "Invalid" => sb' = sb
    BY <1>2, <1>4 DEF TypeOK, Superblock
  <2>6. sb' = sb => Snap_Keys' = Snap_Keys
    BY <1>1, <2>2 DEF Snap_Keys, Keys_Of, Key_For
  <2>7. DeviceGood' /\ CachedAfterRestart' /\ NotTheCurrent' /\ StartKnows'
    BY <2>1, <2>2, <2>3 DEF SInv, DeviceGood, CachedAfterRestart, NotTheCurrent,
       StartKnows, Submitted
  <2> QED BY <1>1, <1>2, <2>2, <2>3, <2>4, <2>5, <2>6, <2>7, KeepsSInv
<1> QED BY <1>3, <1>4 DEF Execute_Deinitialize

(* A start goes on; its choice, if it has one, is of the generation it     *)
(* knows.                                                                  *)
LEMMA StartGoesOnSInv ==
  ASSUME KInv, SInv, Idle_Ctrl, Starting, UNCHANGED <<sb, curr_gen>>,
         job'.op = "Initialize", NEW step \in Steps \ (Copied \cup {"Rekey_VBA_In_VBD"}),
         job'.state = <<step, "Pending">>,
         job'.SB_Found => job'.Generation = Curr(device.superblocks[job'.SB_Idx].plain).Gen
  PROVE  SInv'
<1>1. /\ ~At(Copied) /\ ~At({"Rekey_VBA_In_VBD"}) /\ ~At({"VBD_Ext_Step_In_VBD"})
      /\ job.op = "Initialize" /\ sb = Superblock_Invalid /\ sb.State = "Invalid"
  BY DEF KInv, StepOfOperation, Starting, SInv, StartKnows, Superblock_Invalid
<1>2. /\ ~Taking_Over /\ ~Last_Rekeyed /\ ~At({"Secure_SB"}) /\ ~At({"Sync_Blk_IO"})
      /\ ~Completed("Write_SB")
  BY <1>1 DEF At, Copied, Completed, Taking_Over, Last_Rekeyed
<1>3. /\ ~At(Copied)' /\ ~At({"Secure_SB"})' /\ ~At({"Sync_Blk_IO"})'
      /\ ~Last_Rekeyed' /\ ~Taking_Over'
      /\ \A x : ~Completed(x)'
  BY NextToJob DEF Last_Rekeyed, Taking_Over, Copied
<1>4. Written_Gen' = Written_Gen
  BY <1>2, <1>3 DEF Written_Gen
<1>5. DeviceGood' /\ CachedAfterRestart' /\ NotTheCurrent' /\ StartKnows'
  BY <1>1, StatesDiffer DEF SInv, Idle_Ctrl, DeviceGood, CachedAfterRestart, NotTheCurrent,
     StartKnows, Submitted
<1>6. UNCHANGED <<curr_gen, restarts, cached>> /\ device'.superblocks = device.superblocks
      /\ sb'.State = "Invalid"
  BY <1>1 DEF Idle_Ctrl
<1> QED BY <1>1, <1>2, <1>3, <1>4, <1>5, <1>6, KeepsSInv

(* The chosen superblock is taken over. *)
LEMMA StartEndsSInv ==
  ASSUME KInv, TInv, SInv, Idle_Ctrl, Init_SB_Plaintext, job.op = "Initialize",
         Completed("Add_Current_Key") \/ Completed("Add_Previous_Key")
  PROVE  SInv'
<1>1. Starting /\ Chosen_Read
      /\ At({"Decrypt_Current_Key", "Add_Current_Key", "Decrypt_Previous_Key",
             "Add_Previous_Key"})
  BY OfJob DEF Chosen_Read
<1> DEFINE s == job.SB_Ciphertext.plain
<1>2. /\ sb' = s /\ curr_gen' = job.Generation + 1
      /\ job' = [job EXCEPT !.success = TRUE, !.state = <<"Completed">>]
      /\ UNCHANGED <<cached, device, restarts>>
  BY DEF Init_SB_Plaintext, Idle_Ctrl
<1>3. /\ TypeOK /\ job \in Job /\ job.SB_Idx \in Superblocks_Index
      /\ job'.op = "Initialize" /\ job'.state = <<"Completed">>
  BY <1>2, JobTypes DEF TInv, TypeOK, Job
<1>4. /\ s = device.superblocks[job.SB_Idx].plain /\ s.State # "Invalid"
      /\ job.Generation = Curr(s).Gen
  BY <1>1 DEF TInv, StartTakes, SInv, StartKnows, KInv, StartConsistent
<1> HIDE DEF s
<1>5. /\ s \in Superblock /\ s.Snapshots \in Snapshots_Type /\ s.Curr_Snap \in Snapshots_Index
      /\ Curr(s).Gen \in Nat
  BY <1>3, <1>4, OnDevice
<1>6. Whole(s, cached)
  BY <1>3, <1>4 DEF SInv, DeviceGood
<1>7. /\ \A steps : ~At(steps)'
      /\ \A x : ~Completed(x)'
      /\ ~Last_Rekeyed' /\ ~Taking_Over' /\ ~Starting'
  BY <1>3, AtNoStep DEF Last_Rekeyed, Taking_Over, Starting
<1>8. SnapshotsGood'
  <2> DEFINE snaps == s.Snapshots
             c     == s.Curr_Snap
             g     == Curr(s).Gen
  <2>1. /\ c \in Valid_Snaps(snaps) /\ snaps[c].Gen = g /\ g \in Nat
        /\ snaps \in Snapshots_Type /\ Good(snaps, c, Keys_Of(s), cached, g)
    BY <1>5, <1>6 DEF Whole, Good, Curr
  <2>2. /\ Snaps' = snaps /\ Snap_Idx' = c /\ Snap_Keys' = Keys_Of(s)
        /\ curr_gen' = g + 1
    BY <1>2, <1>4, <1>7 DEF Snaps, Snap_Idx, Snap_Keys, Keys_Of, Key_For
  <2> HIDE DEF snaps, c, g
  <2>3. g + 1 \in Nat /\ g <= g + 1 /\ snaps[c].Gen <= g + 1 /\ snaps[c].Gen <= snaps[c].Gen
    BY <2>1
  <2>4. Good(snaps, c, Keys_Of(s), cached, g + 1)
    BY <2>1, <2>3, GoodStays
  <2> QED BY <1>2, <2>2, <2>4 DEF SnapshotsGood
<1>9. DeviceGood' /\ SomeSuperblock' /\ CachedAfterRestart'
  BY <1>2 DEF SInv, DeviceGood, SomeSuperblock, CachedAfterRestart, Found
<1>10. ASSUME restarts = 0, NEW i \in Superblocks_Index,
              device.superblocks[i].plain.State # "Invalid"
       PROVE  device.superblocks[i].plain = Initial_Superblock
  <2>1. device.superblocks[i] = Initial_Device.superblocks[i]
    BY <1>1, <1>10 DEF TInv, StartTakes
  <2>2. i = 0
    BY <1>10, <2>1 DEF Initial_Device, Ciphertext_Invalid, Superblock_Invalid
  <2> QED BY <2>1, <2>2 DEF Initial_Device
<1>11. restarts = 0 => s = Initial_Superblock /\ Curr(s).Gen = 0 /\ curr_gen' = 1
  BY <1>2, <1>3, <1>4, <1>10, InitialWhole
<1>12. DeviceOld'
  <2> SUFFICES ASSUME restarts = 0, NEW i \in Superblocks_Index,
                      device.superblocks[i].plain.State # "Invalid"
               PROVE  Curr(device.superblocks[i].plain).Gen <= Written_Gen'
    BY <1>2 DEF DeviceOld
  <2>1. Written_Gen' = curr_gen' - 1
    BY <1>7 DEF Written_Gen
  <2>2. Curr(device.superblocks[i].plain).Gen = 0
    BY <1>10, InitialWhole
  <2> QED BY <1>11, <2>1, <2>2
<1>13. Generations'
  <2> SUFFICES ASSUME restarts = 0
               PROVE  curr_gen' >= 1 /\ Current_Gens' /\ Current_Blocks'
    BY <1>2, <1>7 DEF Generations
  <2>1. sb' = Initial_Superblock /\ curr_gen' = 1
    BY <1>2, <1>11
  <2>2. /\ Curr(sb)'.Gen = 0 /\ Curr(sb)'.PBA = <<0, 0>>
        /\ Valid_Snaps(sb.Snapshots)' = {0} /\ Kept_Snaps(sb.Snapshots)' = {}
        /\ sb'.Curr_Snap = 0 /\ sb'.Last_Secured_Generation = 0
    <3>1. Initial_Superblock.Curr_Snap \in Valid_Snaps(Initial_Superblock.Snapshots)
      BY InitialWhole DEF Whole, Good
    <3> QED BY <2>1, <3>1, InitialWhole DEF Curr, Kept_Snaps
  <2> QED BY <2>1, <2>2 DEF Current_Gens, Current_Blocks
<1>14. TakenOver' /\ StartKnows' /\ NotTheCurrent'
  BY <1>3, <1>7 DEF TakenOver, StartKnows, NotTheCurrent, Submitted
<1> QED BY <1>8, <1>9, <1>12, <1>13, <1>14 DEF SInv

LEMMA InitializeSInv ==
  ASSUME IInv, KInv, TInv, SInv, Idle_Ctrl, Execute_Initialize, ~Execute_Raises
  PROVE  SInv'
<1>0. job.op = "Initialize" /\ TypeOK /\ job \in Job
  BY DEF Execute_Initialize, TInv, TypeOK
<1>1. CASE /\ Submitted("Initialize") /\ Then("Read_SB")
           /\ UNCHANGED <<sb, sb_idx, curr_gen>>
  <2>1. Starting
    BY <1>1, OfSubmitted
  <2>2. /\ job'.op = "Initialize" /\ job'.state = <<"Read_SB", "Pending">>
        /\ job'.Generation = job.Generation
        /\ job'.SB_Found = job.SB_Found /\ job'.SB_Idx = job.SB_Idx
    BY <1>0, <1>1, ThenType DEF Steps
  <2>3. job'.SB_Found => job'.Generation = Curr(device.superblocks[job'.SB_Idx].plain).Gen
    BY <2>1, <2>2 DEF SInv, StartKnows
  <2> QED BY <1>1, <2>1, <2>2, <2>3, StartGoesOnSInv DEF Steps, Copied
<1>2. CASE /\ Completed("Read_SB") /\ UNCHANGED <<sb, sb_idx, curr_gen>>
           /\ job' = IF job.Read_SB_Idx < Superblocks_Last
                       THEN [Chosen EXCEPT !.Read_SB_Idx = @ + 1,
                                           !.state = <<"Read_SB", "Pending">>]
                       ELSE [Chosen EXCEPT !.state = <<"Read_Current_SB", "Pending">>]
  <2>1. Starting
    BY <1>0, <1>2, OfJob
  <2>2. Chosen.SB_Found => Chosen.Generation = Curr(device.superblocks[Chosen.SB_Idx].plain).Gen
    <3>1. CASE /\ Read_SB_Valid /\ Chosen.SB_Idx = job.Read_SB_Idx
               /\ Chosen.Generation = Read_SB_Gen
      <4> DEFINE s == job.SB_Ciphertext.plain
      <4>1. /\ job.Read_SB_Idx \in Superblocks_Index
            /\ s = device.superblocks[job.Read_SB_Idx].plain /\ s.State # "Invalid"
        BY <1>0, <1>2, <2>1, <3>1, JobTypes DEF KInv, StartConsistent, Read_SB_Valid
      <4>2. Read_SB_Gen = s.Snapshots[Newest_Snapshot_Idx(s.Snapshots)].Gen
        BY DEF Read_SB_Gen
      <4> HIDE DEF s
      <4>3. Whole(s, cached) /\ s.Snapshots \in Snapshots_Type
        BY <1>0, <4>1, OnDevice DEF SInv, DeviceGood
      <4>4. Newest_Snapshot_Idx(s.Snapshots) = s.Curr_Snap
        BY <4>3, GoodNewest DEF Whole
      <4> QED BY <3>1, <4>1, <4>2, <4>4 DEF Curr
    <3>2. CASE /\ Chosen.SB_Found = job.SB_Found /\ Chosen.SB_Idx = job.SB_Idx
               /\ Chosen.Generation = job.Generation
      BY <2>1, <3>2 DEF SInv, StartKnows
    <3> QED BY <1>0, <1>2, <3>1, <3>2, ChosenIs
  <2>3. Chosen \in Job /\ Chosen.op = "Initialize"
    BY <1>0, <1>2, ChosenIs
  <2>4. /\ job'.op = "Initialize" /\ job'.SB_Found = Chosen.SB_Found
        /\ job'.SB_Idx = Chosen.SB_Idx /\ job'.Generation = Chosen.Generation
        /\ \/ job'.state = <<"Read_SB", "Pending">>
           \/ job'.state = <<"Read_Current_SB", "Pending">>
    <3>1. CASE job.Read_SB_Idx < Superblocks_Last
      <4>1. job' = [Chosen EXCEPT !.Read_SB_Idx = @ + 1, !.state = <<"Read_SB", "Pending">>]
        BY <1>2, <3>1
      <4> QED BY <2>3, <4>1 DEF Job
    <3>2. CASE ~(job.Read_SB_Idx < Superblocks_Last)
      <4>1. job' = [Chosen EXCEPT !.state = <<"Read_Current_SB", "Pending">>]
        BY <1>2, <3>2
      <4> QED BY <2>3, <4>1 DEF Job
    <3> QED BY <3>1, <3>2
  <2>5. job'.SB_Found => job'.Generation = Curr(device.superblocks[job'.SB_Idx].plain).Gen
    BY <2>2, <2>4
  <2> QED BY <1>2, <2>1, <2>4, <2>5, StartGoesOnSInv DEF Steps, Copied
<1>3. ASSUME NEW step, NEW next, Completed(step), Then(next), UNCHANGED <<sb, sb_idx, curr_gen>>,
             \/ step = "Read_Current_SB" /\ next = "Decrypt_Current_Key"
             \/ step = "Decrypt_Current_Key" /\ next = "Add_Current_Key"
             \/ step = "Add_Current_Key" /\ next = "Decrypt_Previous_Key"
             \/ step = "Decrypt_Previous_Key" /\ next = "Add_Previous_Key"
      PROVE  SInv'
  <2>1. Starting /\ next \in Steps \ (Copied \cup {"Rekey_VBA_In_VBD"})
    BY <1>0, <1>3, OfJob DEF Copied, Steps
  <2>2. /\ job'.op = job.op /\ job'.state = <<next, "Pending">>
        /\ job'.Generation = job.Generation
        /\ job'.SB_Found = job.SB_Found /\ job'.SB_Idx = job.SB_Idx
    BY <1>0, <1>3, <2>1, ThenType
  <2>3. job'.SB_Found => job'.Generation = Curr(device.superblocks[job'.SB_Idx].plain).Gen
    BY <2>1, <2>2 DEF SInv, StartKnows
  <2> QED BY <1>0, <1>3, <2>1, <2>2, <2>3, StartGoesOnSInv
<1>4. CASE /\ Init_SB_Plaintext
           /\ Completed("Add_Current_Key") \/ Completed("Add_Previous_Key")
  BY <1>0, <1>4, StartEndsSInv
<1> QED BY <1>1, <1>2, <1>3, <1>4 DEF Execute_Initialize

-----------------------------------------------------------------------------
(* All of Execute. *)
LEMMA ExecuteSInv == IInv /\ KInv /\ TInv /\ SInv /\ Execute => SInv'
BY RaiseSInv, PrepareSInv, SyncBlkIOCompletedSInv, SecureSBCompletedSInv,
   ShortOperationsSInv, InitializeRekeyingSInv, RekeyVBASInv, ExtensionSInv,
   DeinitializeSInv, InitializeSInv DEF Execute

(* Every step keeps the snapshots, in memory and on the device. *)
THEOREM NextSInv ==
  ASSUME OneRun, IInv, KInv, TInv, SInv, [Next]_vars
  PROVE  SInv'
<1>1. CASE UNCHANGED vars
  BY <1>1, SameSInv DEF vars
<1>2. CASE Next
  BY <1>2, SubmitSInv, DropSInv, WritebackSInv, ExecuteSInv, TrustAnchorSInv, CryptoSInv,
     CacheSyncSInv, CacheWriteBackSInv, BlockIOSInv, VBDRekeyingSInv, FTResizingSInv,
     RestartSInv DEF Next
<1> QED BY <1>1, <1>2

All == IInv /\ KInv /\ TInv /\ SInv

(* The inductive invariant of the component: the steps of the operations,  *)
(* the keys, the types and the snapshots hold together in every state.     *)
THEOREM SnapshotsInvariance ==
  ASSUME OneRun
  PROVE  Spec => []All
<1>1. Init => All
  BY InitIInv, InitKInv, InitTInv, InitSInv DEF All
<1>2. All /\ [Next]_vars => All'
  BY NextIInv, NextKInv, NextTInv, NextSInv DEF All, OneRun
<1> QED BY <1>1, <1>2, PTL DEF Spec

(* The newest of the superblocks on the device, if there is one. *)
LEMMA NewestOnDevice ==
  ASSUME TypeOK, SomeSuperblock
  PROVE  /\ Newest(device.superblocks) \in Superblocks_Index
         /\ Found(device.superblocks[Newest(device.superblocks)])
<1> DEFINE G(i)  == Curr(device.superblocks[i].plain).Gen
           F     == {i \in Superblocks_Index : Found(device.superblocks[i])}
           S     == {G(i) : i \in F}
           Is(i) == /\ Found(device.superblocks[i])
                    /\ \A k \in Superblocks_Index :
                         Found(device.superblocks[k]) => G(k) <= G(i)
<1>1. \A i \in Superblocks_Index : G(i) \in 0 .. Max_Generation
  BY OnDevice DEF Generation
<1>2. S \in SUBSET (0 .. Max_Generation) /\ S # {}
  BY <1>1 DEF SomeSuperblock
<1>3. Max_Generation \in Nat
  BY SuperblockAssumption
<1>4. PICK g \in S : \A h \in S : h <= g
  <2> HIDE DEF S
  <2> QED BY <1>2, <1>3, LargestExists
<1>5. PICK i \in F : g = G(i)
  BY <1>4
<1>6. Is(i) /\ i \in Superblocks_Index
  BY <1>4, <1>5
<1>7. Newest(device.superblocks) = CHOOSE k \in Superblocks_Index : Is(k)
  BY DEF Newest
<1> HIDE DEF Is
<1>8. Newest(device.superblocks) \in Superblocks_Index /\ Is(Newest(device.superblocks))
  BY <1>6, <1>7
<1> QED BY <1>8 DEF Is

(* At whatever point the component stops, the newest superblock on the     *)
(* device has a current snapshot, and all trees it refers to are on the    *)
(* device, unchanged since, and readable with the keys it holds.           *)
THEOREM NewestAlwaysComplete ==
  ASSUME OneRun
  PROVE  Spec => []NewestComplete
<1>1. ASSUME All PROVE NewestComplete
  <2> DEFINE n == Newest(device.superblocks)
             c == device.superblocks[n]
             s == c.plain
  <2>1. TypeOK /\ DeviceGood /\ SomeSuperblock /\ DeviceUsable
    BY <1>1 DEF All, TInv, SInv, KInv
  <2>2. n \in Superblocks_Index /\ s.State # "Invalid"
    BY <2>1, NewestOnDevice DEF Found
  <2>3. NewestComplete <=> Complete(c)
    BY DEF NewestComplete
  <2> HIDE DEF n
  <2>4. Whole(s, device.trees) /\ Needed(s) \subseteq c.values
    BY <2>1, <2>2 DEF DeviceGood, DeviceUsable, Usable
  <2>5. Curr(s).Valid
    BY <2>4 DEF Whole, Good, Valid_Snaps, Curr
  <2>6. ASSUME NEW i \in Valid_Snaps(s.Snapshots)
        PROVE  /\ device.trees[s.Snapshots[i].PBA] = s.Snapshots[i].Hash
               /\ Readable(s, s.Snapshots[i].Hash)
    <3>1. /\ device.trees[s.Snapshots[i].PBA] = s.Snapshots[i].Hash
          /\ s.Snapshots[i].Hash.key = Keys_Of(s)
      BY <2>4 DEF Whole, Good
    <3> QED BY <3>1 DEF Readable, Keys_Of
  <2>7. {Key_For(s, v) : v \in VBA} \cup {s.Current_Key} \subseteq c.values
    BY <2>4 DEF Needed, Key_For
  <2> QED BY <2>3, <2>5, <2>6, <2>7 DEF Complete
<1> QED BY <1>1, SnapshotsInvariance, PTL

(* Between two requests each snapshot can be read: its tree has the hash   *)
(* the snapshot tells, and every address is encrypted with the key by      *)
(* which a read of it would be decrypted, also half-way in a rekeying.     *)
THEOREM SnapshotsAlwaysReadable ==
  ASSUME OneRun
  PROVE  Spec => []SnapshotsReadable
<1>1. ASSUME All, sb.State # "Invalid", job.op = "Invalid", NEW i \in Valid_Snaps(sb.Snapshots)
      PROVE  /\ cached[sb.Snapshots[i].PBA] = sb.Snapshots[i].Hash
             /\ Readable(sb, sb.Snapshots[i].Hash)
  <2>1. job.state = <<"Submitted">>
    BY <1>1 DEF All, IInv, NoJobNoStep
  <2>2. ~Taking_Over /\ ~Last_Rekeyed
    BY <1>1, <2>1, WithoutStep DEF All, Taking_Over, Last_Rekeyed
  <2>3. Good(sb.Snapshots, sb.Curr_Snap, Keys_Of(sb), cached, curr_gen)
    BY <1>1, <2>2, CurrentGood DEF All, TInv
  <2>4. sb.Snapshots[i].Hash.key = Keys_Of(sb)
        /\ cached[sb.Snapshots[i].PBA] = sb.Snapshots[i].Hash
    BY <1>1, <2>3 DEF Good
  <2> QED BY <2>4 DEF Readable, Keys_Of
<1>2. All => SnapshotsReadable
  BY <1>1 DEF SnapshotsReadable
<1> QED BY <1>2, SnapshotsInvariance, PTL

-----------------------------------------------------------------------------
(***************************************************************************)
(* The snapshots that clients keep.                                        *)
(***************************************************************************)
Stays(i) ==
  /\ i \in Kept_Snaps(sb'.Snapshots)
  /\ cached'[sb'.Snapshots[i].PBA].data = cached[sb.Snapshots[i].PBA].data

Discarded(i) == job.op = "Discard_Snapshot" /\ sb.Snapshots[i].Gen = job.Generation

Kept_Stay == \A i \in Kept_Snaps(sb.Snapshots) : Stays(i) \/ Discarded(i)

LEMMA SameKept ==
  ASSUME sb'.Snapshots = sb.Snapshots, cached' = cached
  PROVE  Kept_Stay
BY DEF Kept_Stay, Stays

(* Their blocks are of earlier generations. *)
LEMMA KeptBlocks ==
  ASSUME TypeOK, SInv, restarts = 0, sb.State # "Invalid", ~Taking_Over, ~Last_Rekeyed,
         ~At(Copied), NEW i \in Kept_Snaps(sb.Snapshots)
  PROVE  /\ i \in Valid_Snaps(sb.Snapshots) /\ sb.Snapshots[i].PBA \in Tree
         /\ sb.Snapshots[i].Gen < curr_gen /\ sb.Snapshots[i].PBA[2] < curr_gen
         /\ sb.Snapshots[i].PBA[2] # curr_gen
<1>1. /\ curr_gen \in Nat /\ sb.Snapshots \in Snapshots_Type
      /\ sb.Snapshots[i].Gen < curr_gen
      /\ \A k \in Valid_Snaps(sb.Snapshots) :
           k # sb.Curr_Snap \/ Curr(sb).Gen < curr_gen => sb.Snapshots[k].PBA[2] < curr_gen
  BY BeforeCopy
<1>2. i \in Valid_Snaps(sb.Snapshots) /\ i \in Snapshots_Index
  BY DEF Kept_Snaps, Valid_Snaps
<1>3. sb.Snapshots[i].PBA[2] < curr_gen
  BY <1>1, <1>2 DEF Curr
<1>4. sb.Snapshots[i].PBA \in Tree /\ sb.Snapshots[i].PBA[2] \in Nat
  BY <1>1, <1>2, SnapTypes
<1> QED BY <1>1, <1>2, <1>3, <1>4

LEMMA WritebackKept ==
  ASSUME OneRun, IInv, KInv, TInv, SInv, NEW v \in VBA, Execute_Writeback(v)
  PROVE  Kept_Stay
<1> SUFFICES ASSUME ~Raise_Program_Error PROVE Kept_Stay
  BY SameKept DEF Raise_Program_Error
<1>1. /\ TypeOK /\ sb.State # "Invalid" /\ job.state = <<"Submitted">> /\ restarts = 0
      /\ sb.Curr_Snap \in Snapshots_Index
  BY DEF TInv, Execute_Writeback, Ready, OneRun, IInv, NoJobNoStep, TypeOK, Superblock
<1>2. /\ ~Taking_Over /\ ~Last_Rekeyed /\ ~At(Copied)
  BY <1>1, WithoutStep DEF Taking_Over, Last_Rekeyed
<1>3. PICK i \in Snapshots_Index, h \in Content, snap \in Snapshot :
        Written_Back(v, i, h, snap)
  BY <1>1, WritebackIs
<1>4. /\ IF Curr(sb).Gen < curr_gen THEN i \notin Valid_Snaps(sb.Snapshots) ELSE i = sb.Curr_Snap
      /\ sb' = With_Snapshot(sb, i, snap)
      /\ cached' = [cached EXCEPT ![<<curr_gen, curr_gen>>] = h]
  BY <1>3 DEF Written_Back
<1>5. sb'.Snapshots = [sb.Snapshots EXCEPT ![i] = snap]
  BY <1>1, <1>4, WithSnapshot DEF TypeOK
<1>6. ASSUME NEW k \in Kept_Snaps(sb.Snapshots) PROVE Stays(k)
  <2>1. /\ k \in Valid_Snaps(sb.Snapshots) /\ sb.Snapshots[k].PBA \in Tree
        /\ sb.Snapshots[k].Gen < curr_gen /\ sb.Snapshots[k].PBA[2] # curr_gen
    BY <1>1, <1>2, KeptBlocks
  <2>2. k # i
    BY <1>4, <2>1 DEF Curr
  <2>3. k \in Snapshots_Index /\ sb'.Snapshots[k] = sb.Snapshots[k]
    BY <1>1, <1>5, <2>1, <2>2 DEF Valid_Snaps, TypeOK, Superblock
  <2>4. k \in Kept_Snaps(sb'.Snapshots)
    BY <2>3 DEF Kept_Snaps, Valid_Snaps
  <2>5. cached'[sb.Snapshots[k].PBA] = cached[sb.Snapshots[k].PBA]
    <3>1. sb.Snapshots[k].PBA # <<curr_gen, curr_gen>>
      BY <2>1
    <3> QED BY <1>1, <1>4, <2>1, <3>1 DEF TypeOK
  <2> QED BY <2>3, <2>4, <2>5 DEF Stays
<1> QED BY <1>6 DEF Kept_Stay

LEMMA VBDRekeyingKept == IInv /\ KInv /\ TInv /\ SInv /\ VBD_Rekeying => Kept_Stay
<1> SUFFICES ASSUME IInv, KInv, TInv, SInv, VBD_Rekeying, ~Raise_Program_Error PROVE Kept_Stay
  BY SameKept DEF Raise_Program_Error
<1>1. Rekeyed \/ \E left \in 0 .. job.Nr_Of_Blks - 1 : Extended(left)
  BY VBDRekeyingIs
<1>2. PICK step \in {"Rekey_VBA_In_VBD", "VBD_Ext_Step_In_VBD"} :
        job.state = <<step, "Pending">> /\ sb' = sb
  BY <1>1 DEF Rekeyed, Extended, Answer
<1>3. /\ restarts = 0 /\ sb.State # "Invalid" /\ TypeOK /\ curr_gen <= Max_Generation
      /\ Past(sb.Snapshots) /\ ~Taking_Over /\ ~Last_Rekeyed /\ ~At(Copied)
  BY <1>2, RekeyingGood
<1>4. ASSUME NEW t \in Tree, t[2] # curr_gen PROVE cached'[t] = cached[t]
  <2>1. CASE Rekeyed
    <3>1. Rekeyed_Snaps \in Snapshots_Type /\ cached' = Rekeyed_Cached
      BY <1>3, <2>1, RekeyedSnapsAre DEF Rekeyed
    <3>2. ASSUME NEW i \in Valid_Snaps(Rekeying_Snaps) PROVE Rekeyed_Snaps[i].PBA # t
      <4>1. Rekeyed_Snaps[i].PBA \in {<<curr_gen, curr_gen>>, <<sb.Snapshots[i].Gen, curr_gen>>}
        BY <1>3, RekeyedSnapsAre
      <4> QED BY <1>4, <4>1
    <3> QED BY <1>3, <3>1, <3>2, RekeyedCachedIs
  <2>2. CASE \E left \in 0 .. job.Nr_Of_Blks - 1 : Extended(left)
    BY <1>3, <1>4, <2>2 DEF Extended, TypeOK
  <2> QED BY <1>1, <2>1, <2>2
<1>5. ASSUME NEW k \in Kept_Snaps(sb.Snapshots) PROVE Stays(k)
  <2>1. cached'[sb.Snapshots[k].PBA] = cached[sb.Snapshots[k].PBA]
    BY <1>3, <1>4, KeptBlocks
  <2> QED BY <1>2, <2>1 DEF Stays
<1> QED BY <1>5 DEF Kept_Stay

(* A copy keeps what is kept in the superblock that is copied. *)
LEMMA CopyKept ==
  ASSUME TInv, Idle_Ctrl, Working, ~At({"Secure_SB"}),
         NEW s \in Superblock, NEW j, Init_SB_Ciphertext(s, j),
         NEW i \in Kept_Snaps(s.Snapshots),
         cached[s.Snapshots[i].PBA].data = cached[sb.Snapshots[i].PBA].data
  PROVE  Stays(i)
<1>1. curr_gen \in Generation /\ sb' = Copy_Of(s) /\ cached' = cached
  BY WorkingIs DEF Init_SB_Ciphertext, Copy_Of, Idle_Ctrl
<1>2. i \in Snapshots_Index /\ s.Snapshots[i].Valid /\ s.Snapshots[i].Keep
  BY DEF Kept_Snaps, Valid_Snaps
<1>3. /\ sb'.Snapshots[i].Valid = s.Snapshots[i].Valid
      /\ sb'.Snapshots[i].Keep = s.Snapshots[i].Keep
      /\ sb'.Snapshots[i].PBA = s.Snapshots[i].PBA
  BY <1>1, <1>2, CopyOf
<1> QED BY <1>1, <1>2, <1>3 DEF Stays, Kept_Snaps, Valid_Snaps

LEMMA ShortOperationsKept ==
  ASSUME KInv, TInv, Idle_Ctrl,
         Execute_Sync \/ Execute_Create_Snapshot \/ Execute_Discard_Snapshot
  PROVE  Kept_Stay
<1>1. ASSUME NEW op \in {"Sync", "Create_Snapshot", "Discard_Snapshot"}, Submitted(op)
      PROVE  /\ Working /\ ~At({"Secure_SB"}) /\ TypeOK /\ curr_gen \in Generation
             /\ sb.Snapshots \in Snapshots_Type
  <2>1. Working /\ ~At({"Secure_SB"})
    BY <1>1, OfSubmitted
  <2> QED BY <2>1, WorkingIs DEF TypeOK, Superblock, Snapshots_Type
(* The superblock that is copied keeps what is kept in snaps. *)
<1>2. ASSUME NEW op \in {"Sync", "Create_Snapshot", "Discard_Snapshot"}, Submitted(op),
             NEW snaps \in Snapshots_Type, NEW i \in Kept_Snaps(snaps),
             SameBut(snaps[i], sb.Snapshots[i]),
             NEW s, s = Secure_Curr_Gen(snaps)
      PROVE  /\ s \in Superblock /\ i \in Kept_Snaps(s.Snapshots)
             /\ s.Snapshots[i].PBA = sb.Snapshots[i].PBA
  <2> DEFINE D == Discard_Disposable_Snapshots(snaps, sb.Last_Secured_Generation, curr_gen)
  <2>1. s \in Superblock /\ s.Snapshots = D
    BY <1>1, <1>2, SecureCurrGenIs
  <2>2. i \in Kept_Snaps(D) /\ SameBut(D[i], snaps[i])
    BY <1>2, DiscardKeeps DEF Kept_Snaps, Valid_Snaps
  <2> HIDE DEF D
  <2> QED BY <1>2, <2>1, <2>2 DEF SameBut
<1>3. CASE Execute_Sync
  <2> DEFINE s == Secure_Curr_Gen(sb.Snapshots)
  <2>1. Submitted("Sync") /\ Init_SB_Ciphertext(s, job) /\ s = Secure_Curr_Gen(sb.Snapshots)
    BY <1>3 DEF Execute_Sync
  <2> HIDE DEF s
  <2>2. ASSUME NEW i \in Kept_Snaps(sb.Snapshots) PROVE Stays(i)
    <3>1. /\ s \in Superblock /\ i \in Kept_Snaps(s.Snapshots)
          /\ s.Snapshots[i].PBA = sb.Snapshots[i].PBA
      BY <1>1, <1>2, <2>1, <2>2 DEF SameBut
    <3> QED BY <1>1, <2>1, <3>1, CopyKept
  <2> QED BY <2>2 DEF Kept_Stay
<1>4. CASE Execute_Create_Snapshot
  <2> DEFINE s == Secure_Curr_Gen(sb.Snapshots)
             k == Keeping(s)
  <2>1. /\ Submitted("Create_Snapshot") /\ Init_SB_Ciphertext(k, job)
        /\ s = Secure_Curr_Gen(sb.Snapshots)
    BY <1>4 DEF Execute_Create_Snapshot, Keeping
  <2>2. k = Keeping(s)
    OBVIOUS
  <2> HIDE DEF s, k
  <2>3. ASSUME NEW i \in Kept_Snaps(sb.Snapshots) PROVE Stays(i)
    <3>1. /\ s \in Superblock /\ i \in Kept_Snaps(s.Snapshots)
          /\ s.Snapshots[i].PBA = sb.Snapshots[i].PBA
      BY <1>1, <1>2, <2>1, <2>3 DEF SameBut
    <3>2. i \in Snapshots_Index
      BY <3>1 DEF Kept_Snaps, Valid_Snaps
    <3>3. /\ k \in Superblock
          /\ k.Snapshots[i].Valid = s.Snapshots[i].Valid
          /\ k.Snapshots[i].Keep = (s.Snapshots[i].Keep \/ i = s.Curr_Snap)
          /\ k.Snapshots[i].PBA = s.Snapshots[i].PBA
      BY <2>2, <3>1, <3>2, KeepingIs
    <3>4. i \in Kept_Snaps(k.Snapshots) /\ k.Snapshots[i].PBA = sb.Snapshots[i].PBA
      BY <3>1, <3>3 DEF Kept_Snaps, Valid_Snaps
    <3> QED BY <1>1, <2>1, <3>3, <3>4, CopyKept
  <2> QED BY <2>3 DEF Kept_Stay
<1>5. CASE Execute_Discard_Snapshot
  <2>1. Submitted("Discard_Snapshot")
    BY <1>5 DEF Execute_Discard_Snapshot
  <2>2. ASSUME NEW k \in Snapshots_Index, sb.Snapshots[k].Gen = job.Generation,
               Init_SB_Ciphertext(Secure_Curr_Gen(Without_Snap(k)), job)
        PROVE  Kept_Stay
    <3> DEFINE s == Secure_Curr_Gen(Without_Snap(k))
    <3>1. Init_SB_Ciphertext(s, job) /\ s = Secure_Curr_Gen(Without_Snap(k))
      BY <2>2
    <3> HIDE DEF s
    <3>2. ASSUME NEW i \in Kept_Snaps(sb.Snapshots), i # k PROVE Stays(i)
      <4>1. /\ Without_Snap(k) \in Snapshots_Type
            /\ i \in Snapshots_Index
            /\ SameBut(Without_Snap(k)[i], sb.Snapshots[i])
            /\ i \in Valid_Snaps(Without_Snap(k))
        BY <1>1, <2>1, <3>2, WithoutSnap DEF Kept_Snaps, Valid_Snaps
      <4>2. i \in Kept_Snaps(Without_Snap(k))
        BY <3>2, <4>1 DEF Kept_Snaps, SameBut
      <4>3. /\ s \in Superblock /\ i \in Kept_Snaps(s.Snapshots)
            /\ s.Snapshots[i].PBA = sb.Snapshots[i].PBA
        BY <1>2, <2>1, <3>1, <4>1, <4>2
      <4> QED BY <1>1, <2>1, <3>1, <4>3, CopyKept
    <3>3. Discarded(k)
      BY <2>1, <2>2 DEF Discarded, Submitted
    <3> QED BY <3>2, <3>3 DEF Kept_Stay
  <2>3. ASSUME UNCHANGED sb PROVE Kept_Stay
    BY <2>3, SameKept DEF Idle_Ctrl
  <2> QED BY <1>5, <2>2, <2>3 DEF Execute_Discard_Snapshot, Without_Snap, IsFirst
<1> QED BY <1>3, <1>4, <1>5

(* What the rekeying or the extension has handed back is taken over. *)
LEMMA RekeyVBAKept ==
  ASSUME KInv, TInv, SInv, Idle_Ctrl, Execute_Rekey_VBA
  PROVE  Kept_Stay
<1>0. job.op = "Rekey_VBA" /\ cached' = cached
  BY DEF Execute_Rekey_VBA, Idle_Ctrl
<1>1. /\ Working /\ ~At({"Secure_SB"}) /\ ~At(Copied)
      /\ Completed("Rekey_VBA_In_VBD") => Taking_Over
  <2>1. CASE Submitted("Rekey_VBA")
    BY <2>1, OfSubmitted
  <2>2. CASE Completed("Rekey_VBA_In_VBD") \/ Completed("Remove_Previous_Key")
    BY <1>0, <2>2, OfJob DEF Taking_Over, Copied
  <2> QED BY <2>1, <2>2 DEF Execute_Rekey_VBA
<1>2. /\ sb \in Superblock /\ job \in Job /\ job.Snapshots \in Snapshots_Type
      /\ sb.State = "Rekeying"
  BY <1>0, <1>1, WorkingIs, JobTypes DEF TypeOK, KInv, StateOfOperation
<1>3. ASSUME Completed("Rekey_VBA_In_VBD"), NEW i \in Kept_Snaps(sb.Snapshots)
      PROVE  /\ i \in Kept_Snaps(job.Snapshots)
             /\ cached[job.Snapshots[i].PBA].data = cached[sb.Snapshots[i].PBA].data
  BY <1>1, <1>3 DEF SInv, TakenOver
<1>4. CASE UNCHANGED sb
  BY <1>0, <1>4, SameKept
<1>5. CASE /\ Completed("Rekey_VBA_In_VBD") /\ sb.Rekeying_VBA < VBA_Last
           /\ Init_SB_Ciphertext([sb EXCEPT !.Snapshots = job.Snapshots, !.Rekeying_VBA = @ + 1],
                                 [job EXCEPT !.Request_Finished = FALSE])
  <2> DEFINE s == [sb EXCEPT !.Snapshots = job.Snapshots, !.Rekeying_VBA = @ + 1]
             j == [job EXCEPT !.Request_Finished = FALSE]
  <2>1. sb.Rekeying_VBA + 1 \in VBA
    BY <1>2, <1>5, SuperblockAssumption DEF Superblock, VBA
  <2>2. s \in Superblock /\ s.Snapshots = job.Snapshots
    BY <1>2, <2>1 DEF Superblock, Snapshots_Type
  <2>3. Init_SB_Ciphertext(s, j)
    BY <1>5
  <2> HIDE DEF s, j
  <2>4. ASSUME NEW i \in Kept_Snaps(sb.Snapshots) PROVE Stays(i)
    BY <1>1, <1>3, <1>5, <2>2, <2>3, CopyKept
  <2> QED BY <2>4 DEF Kept_Stay
<1>6. CASE Completed("Rekey_VBA_In_VBD") /\ sb' = [sb EXCEPT !.Snapshots = job.Snapshots]
  <2>1. sb'.Snapshots = job.Snapshots
    BY <1>2, <1>6 DEF Superblock
  <2> QED BY <1>0, <1>3, <1>6, <2>1 DEF Kept_Stay, Stays
<1>7. CASE Init_SB_Ciphertext([sb EXCEPT !.Previous_Key = 0, !.State = "Normal"],
                              [job EXCEPT !.Request_Finished = TRUE])
  <2> DEFINE s == [sb EXCEPT !.Previous_Key = 0, !.State = "Normal"]
             j == [job EXCEPT !.Request_Finished = TRUE]
  <2>1. 0 \in Key_ID
    BY SuperblockAssumption DEF Key_ID
  <2>2. s \in Superblock /\ s.Snapshots = sb.Snapshots
    BY <1>2, <2>1 DEF Superblock
  <2>3. Init_SB_Ciphertext(s, j)
    BY <1>7
  <2> HIDE DEF s, j
  <2>4. ASSUME NEW i \in Kept_Snaps(sb.Snapshots) PROVE Stays(i)
    BY <1>1, <2>2, <2>3, CopyKept
  <2> QED BY <2>4 DEF Kept_Stay
<1> QED BY <1>4, <1>5, <1>6, <1>7 DEF Execute_Rekey_VBA

LEMMA ExtensionKept ==
  ASSUME KInv, TInv, SInv, Idle_Ctrl, Execute_Extension_Step
  PROVE  Kept_Stay
<1>0. /\ job.op \in {"VBD_Extension_Step", "FT_Extension_Step"} /\ cached' = cached
      /\ Extend_In[job.op] = IF job.op = "VBD_Extension_Step" THEN "VBD_Ext_Step_In_VBD"
                                                             ELSE "FT_Ext_Step_In_FT"
      /\ Extending[job.op] \in {"Extending_VBD", "Extending_FT"}
  BY DEF Execute_Extension_Step, Extending, Extend_In, Idle_Ctrl
<1>1. /\ Working /\ ~At({"Secure_SB"})
      /\ Completed(Extend_In[job.op]) => (job.op = "VBD_Extension_Step" => Taking_Over)
  <2>1. CASE Submitted(job.op)
    <3>1. ~Completed(Extend_In[job.op])
      BY <2>1, OfSubmitted
    <3> QED BY <1>0, <2>1, <3>1, OfSubmitted
  <2>2. CASE Completed(Extend_In[job.op])
    BY <1>0, <2>2, OfJob DEF Taking_Over
  <2> QED BY <2>1, <2>2 DEF Execute_Extension_Step
<1>2. sb \in Superblock /\ job \in Job /\ restarts = 0 /\ job.Snapshots \in Snapshots_Type
  BY <1>0, <1>1, WorkingIs, JobTypes DEF TypeOK
<1>3. job.Nr_Of_Blks \in 0 .. Max_Nr_Of_Blks /\ sb.Resizing_Nr_Of_PBAs \in 0 .. Max_Nr_Of_Blks
  BY <1>2 DEF Job, Superblock
<1>4. ASSUME NEW snaps \in Snapshots_Type, NEW curr \in Snapshots_Index,
             NEW state \in {"Normal", "Extending_VBD", "Extending_FT", sb.State},
             NEW nr \in 0 .. Max_Nr_Of_Blks, NEW j,
             Init_SB_Ciphertext([sb EXCEPT !.Snapshots = snaps, !.Curr_Snap = curr,
                                           !.State = state, !.Resizing_Nr_Of_PBAs = nr], j),
             \A i \in Kept_Snaps(sb.Snapshots) :
               /\ i \in Kept_Snaps(snaps)
               /\ cached[snaps[i].PBA].data = cached[sb.Snapshots[i].PBA].data
      PROVE  Kept_Stay
  <2> DEFINE s == [sb EXCEPT !.Snapshots = snaps, !.Curr_Snap = curr,
                             !.State = state, !.Resizing_Nr_Of_PBAs = nr]
  <2>1. s \in Superblock /\ s.Snapshots = snaps
    BY <1>2, <1>4 DEF Superblock, Snapshots_Type
  <2>2. Init_SB_Ciphertext(s, j)
    BY <1>4
  <2> HIDE DEF s
  <2>3. ASSUME NEW i \in Kept_Snaps(sb.Snapshots) PROVE Stays(i)
    BY <1>1, <1>4, <2>1, <2>2, CopyKept
  <2> QED BY <2>3 DEF Kept_Stay
<1>5. sb.Snapshots \in Snapshots_Type /\ sb.Curr_Snap \in Snapshots_Index
  BY <1>2 DEF Superblock, Snapshots_Type
<1>6. CASE Init_SB_Ciphertext([sb EXCEPT !.State = Extending[job.op],
                                         !.Resizing_Nr_Of_PBAs = job.Nr_Of_Blks],
                              [job EXCEPT !.Request_Finished = FALSE])
  <2>1. [sb EXCEPT !.State = Extending[job.op], !.Resizing_Nr_Of_PBAs = job.Nr_Of_Blks]
          = [sb EXCEPT !.Snapshots = sb.Snapshots, !.Curr_Snap = sb.Curr_Snap,
                       !.State = Extending[job.op], !.Resizing_Nr_Of_PBAs = job.Nr_Of_Blks]
    BY FieldsOfSuperblock DEF KInv, Fields
  <2>2. Init_SB_Ciphertext(
          [sb EXCEPT !.Snapshots = sb.Snapshots, !.Curr_Snap = sb.Curr_Snap,
                     !.State = Extending[job.op], !.Resizing_Nr_Of_PBAs = job.Nr_Of_Blks],
          [job EXCEPT !.Request_Finished = FALSE])
    BY <1>6, <2>1
  <2> QED BY <1>0, <1>3, <1>4, <1>5, <2>2
<1>7. CASE UNCHANGED sb
  BY <1>0, <1>7, SameKept
<1>8. CASE /\ Completed(Extend_In[job.op])
           /\ LET last == job.Nr_Of_Blks = 0
                  vbd  == job.op = "VBD_Extension_Step"
              IN Init_SB_Ciphertext(
                   [sb EXCEPT !.Snapshots = IF vbd THEN job.Snapshots ELSE @,
                              !.Curr_Snap = IF vbd THEN Newest_Snapshot_Idx(job.Snapshots) ELSE @,
                              !.State = IF last THEN "Normal" ELSE @,
                              !.Resizing_Nr_Of_PBAs = IF vbd /\ last THEN @ ELSE job.Nr_Of_Blks],
                   [job EXCEPT !.Request_Finished = IF last THEN TRUE ELSE @])
  <2> DEFINE last == job.Nr_Of_Blks = 0
             vbd  == job.op = "VBD_Extension_Step"
             snaps == IF vbd THEN job.Snapshots ELSE sb.Snapshots
             curr == IF vbd THEN Newest_Snapshot_Idx(job.Snapshots) ELSE sb.Curr_Snap
             state == IF last THEN "Normal" ELSE sb.State
             nr == IF vbd /\ last THEN sb.Resizing_Nr_Of_PBAs ELSE job.Nr_Of_Blks
             j == [job EXCEPT !.Request_Finished = IF last THEN TRUE ELSE @]
  <2>1. Init_SB_Ciphertext([sb EXCEPT !.Snapshots = snaps, !.Curr_Snap = curr,
                                      !.State = state, !.Resizing_Nr_Of_PBAs = nr], j)
    BY <1>8
  <2>2. ASSUME vbd PROVE Newest_Snapshot_Idx(job.Snapshots) \in Snapshots_Index
    <3>1. /\ Taking_Over /\ Completed("VBD_Ext_Step_In_VBD") /\ sb.State # "Invalid"
      BY <1>0, <1>1, <1>8, <2>2, WorkingIs
    <3>2. Snaps = job.Snapshots /\ Snap_Idx = Newest_Snapshot_Idx(job.Snapshots)
      BY <3>1 DEF Snaps, Snap_Idx
    <3>3. Good(Snaps, Snap_Idx, Snap_Keys, cached, curr_gen)
      BY <3>1 DEF SInv, SnapshotsGood
    <3> QED BY <3>2, <3>3 DEF Good, Valid_Snaps
  <2>3. snaps \in Snapshots_Type /\ curr \in Snapshots_Index
    BY <1>2, <1>5, <2>2
  <2>4. /\ state \in {"Normal", "Extending_VBD", "Extending_FT", sb.State}
        /\ nr \in 0 .. Max_Nr_Of_Blks
    BY <1>3
  <2>5. \A i \in Kept_Snaps(sb.Snapshots) :
          /\ i \in Kept_Snaps(snaps)
          /\ cached[snaps[i].PBA].data = cached[sb.Snapshots[i].PBA].data
    <3>1. CASE vbd
      BY <1>1, <1>8, <3>1 DEF SInv, TakenOver
    <3>2. CASE ~vbd
      BY <3>2
    <3> QED BY <3>1, <3>2
  <2> HIDE DEF snaps, curr, state, nr, j
  <2> QED BY <1>4, <2>1, <2>3, <2>4, <2>5
<1> QED BY <1>6, <1>7, <1>8 DEF Execute_Extension_Step

LEMMA InitializeRekeyingKept ==
  ASSUME KInv, TInv, Idle_Ctrl, Execute_Initialize_Rekeying
  PROVE  Kept_Stay
<1>1. CASE UNCHANGED sb
  BY <1>1, SameKept DEF Idle_Ctrl
<1>2. CASE sb' = [sb EXCEPT !.State = "Rekeying", !.Rekeying_VBA = 0,
                            !.Previous_Key = sb.Current_Key, !.Current_Key = sb.Current_Key + 1]
  <2>1. sb'.Snapshots = sb.Snapshots
    BY <1>2, FieldsOfSuperblock DEF KInv, Fields
  <2> QED BY <2>1, SameKept DEF Idle_Ctrl
<1>3. CASE Completed("Add_Key") /\ Init_SB_Ciphertext(sb, job)
  <2>1. Working /\ ~At({"Secure_SB"})
    BY <1>3, OfJob DEF Execute_Initialize_Rekeying
  <2>2. sb \in Superblock
    BY DEF TInv, TypeOK
  <2>3. ASSUME NEW i \in Kept_Snaps(sb.Snapshots) PROVE Stays(i)
    BY <1>3, <2>1, <2>2, CopyKept
  <2> QED BY <2>3 DEF Kept_Stay
<1> QED BY <1>1, <1>2, <1>3 DEF Execute_Initialize_Rekeying

LEMMA ExecuteKept == IInv /\ KInv /\ TInv /\ SInv /\ Execute => Kept_Stay
<1> SUFFICES ASSUME IInv, KInv, TInv, SInv, Execute PROVE Kept_Stay
  OBVIOUS
<1>1. CASE UNCHANGED <<sb, cached>>
  BY <1>1, SameKept
<1>2. CASE Idle_Ctrl /\ (Execute_Prepare \/ Execute_Sync_Blk_IO_Completed)
  BY <1>1, <1>2 DEF Idle_Ctrl, Execute_Prepare, Execute_Sync_Blk_IO_Completed
<1>3. CASE Idle_Ctrl /\ (Execute_Secure_SB_Completed \/ Execute_Deinitialize)
  <2>1. sb'.Snapshots = sb.Snapshots
    BY <1>3, FieldsOfSuperblock DEF Execute_Secure_SB_Completed, Execute_Deinitialize, KInv, Fields
  <2> QED BY <1>3, <2>1, SameKept DEF Idle_Ctrl
<1>4. CASE Idle_Ctrl /\ Execute_Initialize
  <2>1. Starting
    BY <1>4, OfJob, OfSubmitted DEF Execute_Initialize
  <2>2. Kept_Snaps(sb.Snapshots) = {}
    BY <2>1 DEF SInv, StartKnows, Superblock_Invalid, Snapshot_Invalid, Kept_Snaps, Valid_Snaps
  <2> QED BY <2>2 DEF Kept_Stay
<1> QED BY <1>1, <1>2, <1>3, <1>4, ShortOperationsKept, InitializeRekeyingKept, RekeyVBAKept,
           ExtensionKept DEF Execute, Raise_Program_Error

(* A snapshot the client keeps is there with the same data, whatever is    *)
(* written, rekeyed or extended, until the client discards that snapshot.  *)
THEOREM KeptStayUnchanged ==
  ASSUME OneRun
  PROVE  Spec => KeptSnapshotsUnchanged
<1>1. ASSUME All, [Next]_vars, restarts' = restarts PROVE Kept_Stay
  <2>1. CASE UNCHANGED <<sb, cached>>
    BY <2>1, SameKept
  <2>2. CASE Next
    <3>1. ~Restart
      BY <1>1 DEF All, TInv, TypeOK, Restart
    <3>2. CASE \/ \E op \in Operations : Submit_Primitive(op)
               \/ Drop_Completed_Primitive
               \/ Trust_Anchor \/ Crypto \/ Cache_Sync \/ Cache_Write_Back \/ Block_IO
               \/ FT_Resizing
      BY <2>1, <3>2 DEF Submit_Primitive, Drop_Completed_Primitive, Trust_Anchor, Crypto,
         Cache_Sync, Cache_Write_Back, Block_IO, FT_Resizing, Answer
    <3>3. CASE \E v \in VBA : Execute_Writeback(v)
      BY <1>1, <3>3, WritebackKept DEF All
    <3> QED BY <1>1, <2>2, <3>1, <3>2, <3>3, ExecuteKept, VBDRekeyingKept DEF Next, All
  <2> QED BY <1>1, <2>1, <2>2 DEF vars
<1> DEFINE Step == restarts' = restarts =>
                     \A i \in Kept_Snaps(sb.Snapshots) :
                       \/ /\ i \in Kept_Snaps(sb'.Snapshots)
                          /\ cached'[sb'.Snapshots[i].PBA].data = cached[sb.Snapshots[i].PBA].data
                       \/ job.op = "Discard_Snapshot" /\ sb.Snapshots[i].Gen = job.Generation
<1>2. All /\ [Next]_vars => [Step]_vars
  BY <1>1 DEF Kept_Stay, Stays, Discarded
<1> HIDE DEF Step
<1>3. Spec => [][Step]_vars
  BY <1>2, SnapshotsInvariance, PTL DEF Spec
<1> QED BY <1>3 DEF Step, KeptSnapshotsUnchanged
-----------------------------------------------------------------------------
(***************************************************************************)
(* Program_Error.                                                          *)
(***************************************************************************)
(* There is room for what the clients keep, for the snapshots of three     *)
(* generations, and for one in each step of an extension of the free tree, *)
(* which discards none.                                                    *)
Roomy == ~Extend_Full /\ Max_Kept + Max_Nr_Of_Blks + 3 <= Snapshots_Last

Nr_Of(snaps) == Cardinality(Valid_Snaps(snaps))

(* The snapshots that there are when the next write is done.               *)
Used == Nr_Of(sb.Snapshots) + IF Curr(sb).Gen = curr_gen /\ ~At(Copied) THEN 0 ELSE 1

(* The snapshots that may be added without any being discarded.            *)
Reserve_Of(s) == IF s.State = "Extending_FT" THEN 1 + s.Resizing_Nr_Of_PBAs
                 ELSE IF s.State = "Normal" THEN 1 ELSE 0

Reserve == Reserve_Of(sb) + IF At({"Add_Key"}) THEN 1 ELSE 0

Room ==
  restarts = 0 /\ sb.State # "Invalid" =>
    /\ Used + Reserve <= Snapshots_Last + 1
    /\ Submitted("FT_Extension_Step") /\ sb.State = "Normal" =>
         Nr_Of(sb.Snapshots) + job.Nr_Of_Blks + 1 <= Snapshots_Last
    /\ Taking_Over => Nr_Of(job.Snapshots) <= Max_Kept + 3
    /\ Last_Rekeyed => Nr_Of(sb.Snapshots) <= Max_Kept + 3

KeptFew ==
  restarts = 0 /\ sb.State # "Invalid" =>
    /\ Cardinality(Kept_Snaps(sb.Snapshots)) <= Max_Kept
    /\ Submitted("Create_Snapshot") => Cardinality(Kept_Snaps(sb.Snapshots)) < Max_Kept
    /\ Taking_Over => Kept_Snaps(job.Snapshots) \subseteq Kept_Snaps(sb.Snapshots)

(* A request fits the state of the superblock.                             *)
RequestFits ==
  /\ Submitted("Initialize_Rekeying") \/ At({"Create_Key"}) => sb.State = "Normal"
  /\ Submitted("VBD_Extension_Step") => sb.State \in {"Normal", "Extending_VBD"}
  /\ Submitted("FT_Extension_Step") => sb.State \in {"Normal", "Extending_FT"}
  /\ At({"VBD_Ext_Step_In_VBD"}) => sb.State = "Extending_VBD"
  /\ At({"FT_Ext_Step_In_FT"}) => sb.State = "Extending_FT"

(* Each step of an extension adds something.                               *)
StepAdds ==
  /\ Pending("VBD_Ext_Step_In_VBD") \/ Pending("FT_Ext_Step_In_FT") =>
       job.Nr_Of_Blks = sb.Resizing_Nr_Of_PBAs
  /\ Completed("VBD_Ext_Step_In_VBD") \/ Completed("FT_Ext_Step_In_FT") =>
       job.Nr_Of_Blks < sb.Resizing_Nr_Of_PBAs

DeviceDistinct ==
  \A i, k \in Superblocks_Index :
    /\ i # k
    /\ Found(device.superblocks[i])
    /\ Found(device.superblocks[k])
    => Curr(device.superblocks[i].plain).Gen # Curr(device.superblocks[k].plain).Gen

(* A start has found the superblocks that are behind it.                   *)
Scanned ==
  /\ Submitted("Initialize") => ~job.SB_Found /\ job.Read_SB_Idx = 0
  /\ At({"Read_SB"}) =>
       IF job.SB_Found
         THEN job.SB_Idx < job.Read_SB_Idx
         ELSE \A i \in Superblocks_Index :
                i < job.Read_SB_Idx => ~Found(device.superblocks[i])

NInv ==
  /\ ~raised
  /\ Room
  /\ KeptFew
  /\ RequestFits
  /\ StepAdds
  /\ DeviceDistinct
  /\ Scanned

-----------------------------------------------------------------------------
(* Sets of snapshots are finite, and no larger than there are snapshots.   *)
LEMMA SetsOfSnapshots ==
  ASSUME NEW S \in SUBSET Snapshots_Index
  PROVE  /\ IsFiniteSet(S) /\ Cardinality(S) \in Nat /\ Cardinality(S) <= Snapshots_Last + 1
         /\ S = Snapshots_Index => Cardinality(S) = Snapshots_Last + 1
<1> USE SuperblockAssumption
<1>1. IsFiniteSet(Snapshots_Index) /\ Cardinality(Snapshots_Index) = Snapshots_Last + 1
  BY FS_Interval DEF Snapshots_Index
<1>2. /\ IsFiniteSet(S) /\ Cardinality(S) <= Cardinality(Snapshots_Index)
      /\ Cardinality(S) \in Nat
  BY <1>1, FS_Subset, FS_CardinalityType
<1> QED BY <1>1, <1>2

(* A set that is part of another but for one element. *)
LEMMA OneMore ==
  ASSUME NEW S, NEW T \in SUBSET Snapshots_Index, NEW x, S \subseteq T \cup {x}
  PROVE  Cardinality(S) \in Nat /\ Cardinality(T) \in Nat /\ Cardinality(S) <= Cardinality(T) + 1
<1>1. IsFiniteSet(T) /\ Cardinality(T) \in Nat
  BY SetsOfSnapshots
<1>2. /\ IsFiniteSet(T \cup {x})
      /\ Cardinality(T \cup {x}) \in {Cardinality(T), Cardinality(T) + 1}
  BY <1>1, FS_AddElement
<1>3. /\ IsFiniteSet(S) /\ Cardinality(S) <= Cardinality(T \cup {x})
  BY <1>2, FS_Subset
<1>4. Cardinality(S) \in Nat
  BY <1>3, FS_CardinalityType
<1> QED BY <1>1, <1>2, <1>3, <1>4

LEMMA NoMore ==
  ASSUME NEW S, NEW T \in SUBSET Snapshots_Index, S \subseteq T
  PROVE  Cardinality(S) \in Nat /\ Cardinality(T) \in Nat /\ Cardinality(S) <= Cardinality(T)
<1>1. IsFiniteSet(T) /\ Cardinality(T) \in Nat
  BY SetsOfSnapshots
<1>2. /\ IsFiniteSet(S) /\ Cardinality(S) <= Cardinality(T)
  BY <1>1, FS_Subset
<1>3. Cardinality(S) \in Nat
  BY <1>2, FS_CardinalityType
<1> QED BY <1>1, <1>2, <1>3

(* The numbers of the snapshots that there are and of those that are kept. *)
LEMMA Numbers ==
  ASSUME NEW snaps
  PROVE  /\ Valid_Snaps(snaps) \in SUBSET Snapshots_Index
         /\ Kept_Snaps(snaps) \in SUBSET Snapshots_Index
         /\ Nr_Of(snaps) \in Nat /\ Nr_Of(snaps) <= Snapshots_Last + 1
         /\ Cardinality(Kept_Snaps(snaps)) \in Nat
         /\ Nr_Of(snaps) <= Snapshots_Last => Snapshots_Index \ Valid_Snaps(snaps) # {}
         /\ Nr_Of(snaps) <= Snapshots_Last => Valid_Snaps(snaps) # Snapshots_Index
<1> USE SuperblockAssumption
<1>1. /\ Valid_Snaps(snaps) \in SUBSET Snapshots_Index
      /\ Kept_Snaps(snaps) \in SUBSET Snapshots_Index
  BY DEF Valid_Snaps, Kept_Snaps
<1>2. /\ Nr_Of(snaps) \in Nat /\ Nr_Of(snaps) <= Snapshots_Last + 1
      /\ Cardinality(Kept_Snaps(snaps)) \in Nat
      /\ Valid_Snaps(snaps) = Snapshots_Index => Nr_Of(snaps) = Snapshots_Last + 1
  BY <1>1, SetsOfSnapshots DEF Nr_Of
<1> QED BY <1>1, <1>2

(* Of the snapshots that are good, those that are kept or of one of two    *)
(* generations are at most two more than those that are kept.              *)
LEMMA FewLeft ==
  ASSUME NEW old, NEW c, NEW K, NEW trees, NEW gen, Good(old, c, K, trees, gen),
         NEW S, NEW a, NEW b,
         S \subseteq {i \in Valid_Snaps(old) : old[i].Keep \/ old[i].Gen \in {a, b}}
  PROVE  Cardinality(S) \in Nat /\ Cardinality(S) <= Cardinality(Kept_Snaps(old)) + 2
<1> DEFINE V == Valid_Snaps(old)
           Kept == Kept_Snaps(old)
<1>1. Kept \in SUBSET Snapshots_Index /\ V \in SUBSET Snapshots_Index
  BY Numbers
<1>2. \A i, k \in V : i # k => old[i].Gen # old[k].Gen
  BY DEF Good
<1>3. ASSUME NEW g PROVE \E x \in Snapshots_Index : \A i \in V : old[i].Gen = g => i = x
  <2>1. CASE \E x \in V : old[x].Gen = g
    BY <1>1, <1>2, <2>1
  <2>2. CASE ~\E x \in V : old[x].Gen = g
    <3>1. 0 \in Snapshots_Index
      BY SuperblockAssumption DEF Snapshots_Index
    <3> QED BY <2>2, <3>1
  <2> QED BY <2>1, <2>2
<1>4. PICK x \in Snapshots_Index : \A i \in V : old[i].Gen = a => i = x
  BY <1>3
<1>5. PICK y \in Snapshots_Index : \A i \in V : old[i].Gen = b => i = y
  BY <1>3
<1>6. \A i \in V : old[i].Keep => i \in Kept
  BY DEF Kept_Snaps
<1> HIDE DEF V, Kept
<1>7. S \subseteq (Kept \cup {x}) \cup {y}
  BY <1>4, <1>5, <1>6 DEF V
<1>8. Kept \cup {x} \in SUBSET Snapshots_Index
  BY <1>1
<1>9. /\ Cardinality(S) \in Nat /\ Cardinality(Kept \cup {x}) \in Nat
      /\ Cardinality(S) <= Cardinality(Kept \cup {x}) + 1
  BY <1>7, <1>8, OneMore
<1>10. Cardinality(Kept) \in Nat /\ Cardinality(Kept \cup {x}) <= Cardinality(Kept) + 1
  BY <1>1, OneMore
<1> QED BY <1>9, <1>10 DEF Kept

-----------------------------------------------------------------------------
(* In numbers: the snapshots there are, and those that may be added.       *)
LEMMA NumbersOfSuperblock ==
  ASSUME TypeOK
  PROVE  /\ Used \in Nat /\ Reserve \in Nat /\ Reserve_Of(sb) \in Nat
         /\ Used \in {Nr_Of(sb.Snapshots), Nr_Of(sb.Snapshots) + 1}
         /\ Nr_Of(sb.Snapshots) \in Nat
         /\ sb.Resizing_Nr_Of_PBAs \in Nat /\ job.Nr_Of_Blks \in Nat
         /\ sb.Resizing_Nr_Of_PBAs <= Max_Nr_Of_Blks
         /\ Reserve_Of(sb) <= 1 + Max_Nr_Of_Blks
<1>1. /\ sb.Resizing_Nr_Of_PBAs \in 0 .. Max_Nr_Of_Blks /\ job.Nr_Of_Blks \in 0 .. Max_Nr_Of_Blks
      /\ Max_Nr_Of_Blks \in Nat \ {0}
  BY SuperblockAssumption DEF TypeOK, Superblock, Job
<1>2. Nr_Of(sb.Snapshots) \in Nat
  BY Numbers
<1>3. Reserve_Of(sb) \in Nat /\ Reserve_Of(sb) <= 1 + Max_Nr_Of_Blks
  BY <1>1 DEF Reserve_Of
<1>4. Used \in {Nr_Of(sb.Snapshots), Nr_Of(sb.Snapshots) + 1}
  BY <1>2 DEF Used
<1> QED BY <1>1, <1>2, <1>3, <1>4 DEF Reserve

(* No step of an extension is under way, no request has come, and nothing  *)
(* is read.                                                                *)
LEMMA NothingAsked ==
  ASSUME job'.state = <<"Completed">> \/ \E step, p : job'.state = <<step, p>>
  PROVE  \A op : ~Submitted(op)'
BY StatesDiffer DEF Submitted

(* The job goes on to another step: what it has to leave of room. *)
LEMMA GoesOnNInv ==
  ASSUME NInv, Idle_Ctrl, NEW step, step # "Read_SB", job'.state = <<step, "Pending">>,
         step = "Create_Key" => sb'.State = "Normal",
         step = "VBD_Ext_Step_In_VBD" => /\ sb'.State = "Extending_VBD"
                                         /\ job'.Nr_Of_Blks = sb'.Resizing_Nr_Of_PBAs,
         step = "FT_Ext_Step_In_FT" => /\ sb'.State = "Extending_FT"
                                       /\ job'.Nr_Of_Blks = sb'.Resizing_Nr_Of_PBAs,
         restarts = 0 /\ sb'.State # "Invalid" =>
           /\ Used' + Reserve' <= Snapshots_Last + 1
           /\ Cardinality(Kept_Snaps(sb'.Snapshots)) <= Max_Kept
           /\ Last_Rekeyed' => Nr_Of(sb'.Snapshots) <= Max_Kept + 3
  PROVE  NInv'
<1>1. /\ \A steps : At(steps)' <=> step \in steps
      /\ \A x : Pending(x)' <=> x = step
      /\ \A x : ~Completed(x)'
  BY NextToJob
<1>2. \A op : ~Submitted(op)'
  BY NothingAsked
<1>3. ~raised' /\ DeviceDistinct'
  BY DEF NInv, Idle_Ctrl, DeviceDistinct, Found
<1>4. ~Taking_Over'
  BY <1>1 DEF Taking_Over
<1>5. Room' /\ KeptFew'
  BY <1>2, <1>4 DEF Room, KeptFew, Idle_Ctrl
<1>6. RequestFits'
  BY <1>1, <1>2 DEF RequestFits
<1>7. StepAdds'
  BY <1>1 DEF StepAdds
<1>8. Scanned'
  BY <1>1, <1>2 DEF Scanned
<1> QED BY <1>3, <1>5, <1>6, <1>7, <1>8 DEF NInv

(* The job ends. *)
LEMMA EndsNInv ==
  ASSUME NInv, Idle_Ctrl, job'.state = <<"Completed">>,
         restarts = 0 /\ sb'.State # "Invalid" =>
           /\ Used' + Reserve' <= Snapshots_Last + 1
           /\ Cardinality(Kept_Snaps(sb'.Snapshots)) <= Max_Kept
  PROVE  NInv'
<1>1. /\ \A steps : ~At(steps)'
      /\ \A x : ~Pending(x)' /\ ~Completed(x)'
  BY AtNoStep
<1>2. \A op : ~Submitted(op)'
  BY NothingAsked
<1>3. ~raised' /\ DeviceDistinct'
  BY DEF NInv, Idle_Ctrl, DeviceDistinct, Found
<1>4. ~Taking_Over' /\ ~Last_Rekeyed'
  BY <1>1 DEF Taking_Over, Last_Rekeyed
<1>5. Room' /\ KeptFew'
  BY <1>2, <1>4 DEF Room, KeptFew, Idle_Ctrl
<1> QED BY <1>1, <1>2, <1>3, <1>5 DEF NInv, RequestFits, StepAdds, Scanned

(* The superblock is copied: its current snapshot is used. *)
LEMMA CopyNInv ==
  ASSUME TInv, NInv, Idle_Ctrl, Working, ~At({"Secure_SB"}),
         NEW s \in Superblock, NEW j \in Job, Init_SB_Ciphertext(s, j),
         Nr_Of(s.Snapshots) + 1 + Reserve_Of(s) <= Snapshots_Last + 1,
         Cardinality(Kept_Snaps(s.Snapshots)) <= Max_Kept
  PROVE  NInv'
<1>1. TypeOK /\ curr_gen \in Generation
  BY WorkingIs
<1>2. sb' = Copy_Of(s) /\ job'.state = <<"Encrypt_Current_Key", "Pending">>
  BY <1>1, CopyTypes
<1>3. /\ sb'.State = s.State
      /\ \A i \in Snapshots_Index :
           /\ sb'.Snapshots[i].Valid = s.Snapshots[i].Valid
           /\ sb'.Snapshots[i].Keep = s.Snapshots[i].Keep
  BY <1>1, <1>2, CopyOf
<1>4. Valid_Snaps(sb'.Snapshots) = Valid_Snaps(s.Snapshots)
      /\ Kept_Snaps(sb'.Snapshots) = Kept_Snaps(s.Snapshots)
  BY <1>3 DEF Valid_Snaps, Kept_Snaps
<1>5. sb'.Resizing_Nr_Of_PBAs = s.Resizing_Nr_Of_PBAs
  BY <1>2 DEF Copy_Of, Superblock
<1>6. At(Copied)' /\ ~At({"Add_Key"})' /\ ~Last_Rekeyed'
  BY <1>2, NextToJob DEF Copied, Last_Rekeyed
<1>7. Nr_Of(sb'.Snapshots) = Nr_Of(s.Snapshots) /\ Reserve_Of(sb') = Reserve_Of(s)
  BY <1>3, <1>4, <1>5 DEF Nr_Of, Reserve_Of
<1>8. Reserve_Of(s) \in Nat /\ Nr_Of(s.Snapshots) \in Nat
  BY Numbers, SuperblockAssumption DEF Reserve_Of, Superblock
<1>9. Used' + Reserve' <= Snapshots_Last + 1
  <2>1. Used' = Nr_Of(s.Snapshots) + 1 /\ Reserve' = Reserve_Of(s) + 0
    BY <1>6, <1>7 DEF Used, Reserve
  <2> QED BY <1>8, <2>1
<1> QED BY <1>2, <1>4, <1>6, <1>9, GoesOnNInv

(* An answer: what it brings is within the room that there is.             *)
LEMMA AnswerNInv ==
  ASSUME IInv, NInv, NEW step, NEW j, Answer(step, j), Kept_Of(j), raised' = raised,
         device'.superblocks = device.superblocks \/ (step = "Write_SB" /\ DeviceDistinct'),
         step \in {"VBD_Ext_Step_In_VBD", "FT_Ext_Step_In_FT"} =>
           job'.Nr_Of_Blks < sb.Resizing_Nr_Of_PBAs,
         step \in {"Rekey_VBA_In_VBD", "VBD_Ext_Step_In_VBD"}
           /\ restarts = 0 /\ sb.State # "Invalid" =>
           /\ Nr_Of(job'.Snapshots) <= Max_Kept + 3
           /\ Kept_Snaps(job'.Snapshots) \subseteq Kept_Snaps(sb.Snapshots)
  PROVE  NInv'
<1>1. UNCHANGED <<sb, curr_gen, restarts>>
  BY DEF Answer
<1>2. /\ \A steps : At(steps)' <=> At(steps)
      /\ \A steps : At(steps) <=> step \in steps
      /\ \A x : Completed(x)' <=> x = step
      /\ \A x : ~Pending(x)'
      /\ job'.op = job.op /\ job'.SB_Found = job.SB_Found
      /\ job'.SB_Idx = job.SB_Idx /\ job'.Read_SB_Idx = job.Read_SB_Idx
      /\ job'.state = <<step, "Completed">>
  BY AnswerToJob
<1>3. \A op : ~Submitted(op)'
  BY <1>2, NothingAsked
<1>4. ~raised' /\ DeviceDistinct'
  BY DEF NInv, DeviceDistinct, Found
<1>5. Used' = Used /\ Reserve' = Reserve
  BY <1>1, <1>2 DEF Used, Reserve
<1>6. Last_Rekeyed' <=> Last_Rekeyed
  BY <1>2 DEF Last_Rekeyed
<1>7. Taking_Over' <=> step \in {"Rekey_VBA_In_VBD", "VBD_Ext_Step_In_VBD"}
  BY <1>2 DEF Taking_Over
<1>8. Room' /\ KeptFew'
  BY <1>1, <1>3, <1>5, <1>6, <1>7 DEF NInv, Room, KeptFew
<1>9. RequestFits'
  BY <1>1, <1>2, <1>3 DEF NInv, RequestFits
<1>10. StepAdds'
  BY <1>1, <1>2 DEF NInv, StepAdds
<1>11. Scanned'
  BY <1>2, <1>3 DEF NInv, Scanned, Found
<1> QED BY <1>4, <1>8, <1>9, <1>10, <1>11 DEF NInv

-----------------------------------------------------------------------------
(* The answers of the trust anchor, the crypto module, the cache and the   *)
(* free tree bring no snapshots.                                           *)
LEMMA QuietNInv ==
  ASSUME IInv, NInv, Trust_Anchor \/ Crypto \/ Cache_Sync
  PROVE  NInv'
<1>1. raised' = raised /\ device'.superblocks = device.superblocks
  BY DEF Trust_Anchor, Crypto, Cache_Sync, Written, IInv, Shape
<1>2. ASSUME NEW step \in Steps \ {"VBD_Ext_Step_In_VBD", "FT_Ext_Step_In_FT",
                                   "Rekey_VBA_In_VBD"}, Answer(step, job)
      PROVE  NInv'
  BY <1>1, <1>2, JobIsKept, AnswerNInv
<1>3. ASSUME NEW step \in {"Encrypt_Current_Key", "Encrypt_Previous_Key"}, NEW key,
             Answer(step, [job EXCEPT !.SB_Ciphertext.values = @ \cup {key}])
      PROVE  NInv'
  <2> DEFINE j == [job EXCEPT !.SB_Ciphertext.values = @ \cup {key}]
  <2>1. Kept_Of(j) /\ Answer(step, j)
    BY <1>3, FieldsOfJob DEF Kept_Of, IInv, Shape
  <2> HIDE DEF j
  <2> QED BY <1>1, <1>3, <2>1, AnswerNInv
<1>4. \/ \E step \in Steps \ {"VBD_Ext_Step_In_VBD", "FT_Ext_Step_In_FT", "Rekey_VBA_In_VBD"} :
           Answer(step, job)
      \/ \E step \in {"Encrypt_Current_Key", "Encrypt_Previous_Key"}, key \in {sb.Current_Key, sb.Previous_Key} :
           Answer(step, [job EXCEPT !.SB_Ciphertext.values = @ \cup {key}])
  <2>1. CASE Trust_Anchor
    BY <2>1 DEF Trust_Anchor, Steps
  <2>2. CASE Crypto
    BY <2>2 DEF Crypto, Steps
  <2>3. CASE Cache_Sync
    BY <2>3 DEF Cache_Sync, Steps
  <2> QED BY <2>1, <2>2, <2>3
<1> QED BY <1>2, <1>3, <1>4

LEMMA CacheWriteBackNInv == TInv /\ NInv /\ Cache_Write_Back => NInv'
<1> SUFFICES ASSUME TInv, NInv, Cache_Write_Back PROVE NInv'
  OBVIOUS
<1>1. UNCHANGED <<sb, sb_idx, curr_gen, job, keys, secured, cached, restarts, raised>>
  BY DEF Cache_Write_Back
<1>2. device'.superblocks = device.superblocks
  <2>1. PICK t \in Dirty : device' = Written({t})
    BY DEF Cache_Write_Back
  <2>2. {t} \in SUBSET Tree
    BY DEF Dirty
  <2> QED BY <2>1, <2>2, WrittenType DEF TInv
<1>3. Used' = Used /\ Reserve' = Reserve
  BY <1>1 DEF Used, Reserve, At, Curr
<1>4. Room' /\ KeptFew'
  BY <1>1, <1>3 DEF NInv, Room, KeptFew, Submitted, Taking_Over, Last_Rekeyed, Completed, At
<1>5. RequestFits' /\ StepAdds'
  BY <1>1 DEF NInv, RequestFits, StepAdds, Submitted, Completed, Pending, At
<1>6. DeviceDistinct' /\ Scanned'
  BY <1>1, <1>2 DEF NInv, DeviceDistinct, Scanned, Found, Submitted, At
<1> QED BY <1>1, <1>4, <1>5, <1>6 DEF NInv

(* The free tree gets some of the blocks. *)
LEMMA FTResizingNInv == IInv /\ TInv /\ NInv /\ FT_Resizing => NInv'
<1> SUFFICES ASSUME IInv, TInv, NInv, FT_Resizing PROVE NInv'
  OBVIOUS
<1>1. PICK left \in 0 .. job.Nr_Of_Blks - 1 :
        Answer("FT_Ext_Step_In_FT", [job EXCEPT !.Nr_Of_Blks = left])
  BY DEF FT_Resizing
<1>2. raised' = raised /\ device' = device
  BY DEF FT_Resizing
<1> DEFINE j == [job EXCEPT !.Nr_Of_Blks = left]
<1>3. Kept_Of(j) /\ j.Nr_Of_Blks = left
  BY FieldsOfJob DEF Kept_Of, IInv, Shape
<1>4. Answer("FT_Ext_Step_In_FT", j)
  BY <1>1
<1> HIDE DEF j
<1>5. Pending("FT_Ext_Step_In_FT") /\ job'.Nr_Of_Blks = left
  BY <1>3, <1>4, FieldsOfJob DEF Answer, Pending, Kept_Of, IInv, Shape
<1>6. job.Nr_Of_Blks = sb.Resizing_Nr_Of_PBAs
  BY <1>5 DEF NInv, StepAdds
<1>7. job.Nr_Of_Blks \in Nat
  BY NumbersOfSuperblock DEF TInv
<1>8. job'.Nr_Of_Blks < sb.Resizing_Nr_Of_PBAs
  BY <1>5, <1>6, <1>7
<1> QED BY <1>2, <1>3, <1>4, <1>8, AnswerNInv

(* The superblock that is written is of a later generation than all that   *)
(* are there.                                                              *)
LEMMA BlockIONInv == IInv /\ KInv /\ TInv /\ SInv /\ NInv /\ Block_IO => NInv'
<1> SUFFICES ASSUME IInv, KInv, TInv, SInv, NInv, Block_IO PROVE NInv'
  OBVIOUS
<1>0. raised' = raised
  BY DEF Block_IO
<1>1. ASSUME NEW step \in {"Read_SB", "Read_Current_SB"}, NEW ciphertext, device' = device,
             Answer(step, [job EXCEPT !.SB_Ciphertext = ciphertext])
      PROVE  NInv'
  <2> DEFINE j == [job EXCEPT !.SB_Ciphertext = ciphertext]
  <2>1. Kept_Of(j) /\ Answer(step, j)
    BY <1>1, FieldsOfJob DEF Kept_Of, IInv, Shape
  <2> HIDE DEF j
  <2> QED BY <1>0, <1>1, <2>1, AnswerNInv
<1>2. ASSUME Answer("Sync_Blk_IO", job), device'.superblocks = device.superblocks
      PROVE  NInv'
  BY <1>0, <1>2, JobIsKept, AnswerNInv
<1>3. ASSUME Answer("Write_SB", job),
             device' = [device EXCEPT !.superblocks[sb_idx] = job.SB_Ciphertext,
                                      !.unsynced_sbs = @ \cup {sb_idx}]
      PROVE  NInv'
  <2>1. /\ device'.superblocks = [device.superblocks EXCEPT ![sb_idx] = job.SB_Ciphertext]
        /\ sb_idx \in Superblocks_Index /\ DOMAIN device.superblocks = Superblocks_Index
    BY <1>3 DEF IInv, Shape
  <2>2. At({"Write_SB"}) /\ At(Copied) /\ ~At({"Secure_SB"}) /\ ~Completed("Write_SB")
        /\ ~At({"Sync_Blk_IO"})
    BY <1>3, AnswerToJob, JobIsKept DEF Copied
  <2>3. /\ restarts = 0 /\ sb.State # "Invalid" /\ job.SB_Ciphertext.plain = sb
        /\ curr_gen \in Int
    BY <2>2, OperationIs DEF Copied, IInv, CopyIsSuperblock, TInv, TypeOK
  <2>4. Curr(sb).Gen = curr_gen
    BY <2>2, <2>3 DEF SInv, Generations, Copied_Gens
  <2>5. Written_Gen = curr_gen - 1
    BY <2>2 DEF Written_Gen
  <2>6. ASSUME NEW i \in Superblocks_Index, Found(device.superblocks[i])
        PROVE  Curr(device.superblocks[i].plain).Gen # curr_gen
    <3>1. Curr(device.superblocks[i].plain).Gen <= curr_gen - 1
      BY <2>3, <2>5, <2>6 DEF SInv, DeviceOld, Found
    <3>2. Curr(device.superblocks[i].plain).Gen \in Nat
      BY OnDevice DEF TInv
    <3> QED BY <2>3, <3>1, <3>2
  <2>7. DeviceDistinct'
    <3> SUFFICES ASSUME NEW i \in Superblocks_Index, NEW k \in Superblocks_Index, i # k,
                        Found(device'.superblocks[i]), Found(device'.superblocks[k])
                 PROVE  Curr(device'.superblocks[i].plain).Gen
                          # Curr(device'.superblocks[k].plain).Gen
      BY DEF DeviceDistinct, Found, Curr
    <3>1. ASSUME NEW x \in Superblocks_Index
          PROVE  device'.superblocks[x] = IF x = sb_idx THEN job.SB_Ciphertext
                                                        ELSE device.superblocks[x]
      BY <2>1
    <3>2. CASE i = sb_idx
      <4>1. Curr(device'.superblocks[i].plain).Gen = curr_gen
        BY <2>3, <2>4, <3>1, <3>2
      <4> QED BY <2>6, <3>1, <3>2, <4>1
    <3>3. CASE k = sb_idx
      <4>1. Curr(device'.superblocks[k].plain).Gen = curr_gen
        BY <2>3, <2>4, <3>1, <3>3
      <4> QED BY <2>6, <3>1, <3>3, <4>1
    <3>4. CASE i # sb_idx /\ k # sb_idx
      BY <3>1, <3>4 DEF NInv, DeviceDistinct
    <3> QED BY <3>2, <3>3, <3>4
  <2> QED BY <1>0, <1>3, <2>7, JobIsKept, AnswerNInv
<1>4. CASE Answer("Sync_Blk_IO", job)
           /\ device' = [device EXCEPT !.unsynced_sbs = {}, !.unsynced_trees = {}]
  <2>1. device'.superblocks = device.superblocks
    BY <1>4 DEF IInv, Shape
  <2> QED BY <1>2, <1>4, <2>1
<1> QED BY <1>1, <1>3, <1>4 DEF Block_IO

-----------------------------------------------------------------------------
(* Rekeying and extending the virtual block device: what is worked on are  *)
(* the snapshots that are kept and two more.                               *)
LEMMA RekeyingFew ==
  ASSUME IInv, KInv, TInv, SInv, NInv, Roomy,
         NEW step \in {"Rekey_VBA_In_VBD", "VBD_Ext_Step_In_VBD"},
         job.state = <<step, "Pending">>
  PROVE  /\ Nr_Of(Rekeying_Snaps) \in Nat /\ Nr_Of(Rekeying_Snaps) <= Max_Kept + 2
         /\ ~VBD_Rekeying_Raises
<1>1. /\ restarts = 0 /\ sb.State # "Invalid" /\ TypeOK /\ sb.Snapshots \in Snapshots_Type
      /\ ~Taking_Over
      /\ Good(Rekeying_Snaps, sb.Curr_Snap, Keys_Of(sb), cached, curr_gen)
  BY RekeyingGood DEF TypeOK, Superblock, Snapshots_Type
<1>2. Good(sb.Snapshots, sb.Curr_Snap, Snap_Keys, cached, curr_gen)
  BY <1>1, CurrentGood
<1>3. /\ Valid_Snaps(Rekeying_Snaps) =
           {i \in Valid_Snaps(sb.Snapshots) :
              \/ sb.Snapshots[i].Keep
              \/ sb.Snapshots[i].Gen \in {curr_gen, sb.Last_Secured_Generation}}
  BY <1>1, RekeyingSnapsIs
<1>4. /\ Nr_Of(Rekeying_Snaps) \in Nat
      /\ Nr_Of(Rekeying_Snaps) <= Cardinality(Kept_Snaps(sb.Snapshots)) + 2
  BY <1>2, <1>3, FewLeft DEF Nr_Of
<1>5. Cardinality(Kept_Snaps(sb.Snapshots)) <= Max_Kept
      /\ Cardinality(Kept_Snaps(sb.Snapshots)) \in Nat
  BY <1>1, Numbers DEF NInv, KeptFew
<1>6. Nr_Of(Rekeying_Snaps) <= Max_Kept + 2
  BY <1>4, <1>5, SuperblockAssumption
<1>7. Nr_Of(Rekeying_Snaps) <= Snapshots_Last
  BY <1>4, <1>6, SuperblockAssumption DEF Roomy
<1>8. Valid_Snaps(Rekeying_Snaps) # Snapshots_Index /\ Valid_Snaps(Rekeying_Snaps) # {}
  BY <1>1, <1>7, Numbers DEF Good
<1> QED BY <1>4, <1>6, <1>8 DEF VBD_Rekeying_Raises

LEMMA VBDRekeyingNInv ==
  ASSUME Roomy, IInv, KInv, TInv, SInv, NInv, VBD_Rekeying
  PROVE  NInv'
<1>1. PICK step \in {"Rekey_VBA_In_VBD", "VBD_Ext_Step_In_VBD"} : job.state = <<step, "Pending">>
  BY DEF VBD_Rekeying
<1>2. /\ Nr_Of(Rekeying_Snaps) \in Nat /\ Nr_Of(Rekeying_Snaps) <= Max_Kept + 2
      /\ ~VBD_Rekeying_Raises
  BY <1>1, RekeyingFew
<1>3. /\ restarts = 0 /\ sb.State # "Invalid" /\ TypeOK /\ curr_gen <= Max_Generation
      /\ Past(sb.Snapshots)
      /\ job.op = IF step = "Rekey_VBA_In_VBD" THEN "Rekey_VBA" ELSE "VBD_Extension_Step"
      /\ \A k \in Snapshots_Index : SameBut(Rekeying_Snaps[k], sb.Snapshots[k])
      /\ Valid_Snaps(Rekeying_Snaps) \subseteq Valid_Snaps(sb.Snapshots)
      /\ Kept_Snaps(Rekeying_Snaps) = Kept_Snaps(sb.Snapshots)
  BY <1>1, RekeyingGood
<1>4. ~Raise_Program_Error
  BY <1>2 DEF VBD_Rekeying, Raise_Program_Error, NInv
<1>5. raised' = raised /\ device' = device
      /\ (Rekeyed \/ \E left \in 0 .. job.Nr_Of_Blks - 1 : Extended(left))
  BY <1>4, VBDRekeyingIs
<1>6. CASE Rekeyed
  <2> DEFINE j == [job EXCEPT !.Snapshots = Rekeyed_Snaps]
  <2>1. Kept_Of(j) /\ j.Snapshots = Rekeyed_Snaps /\ DOMAIN j = DOMAIN Job_Invalid
    BY FieldsOfJob DEF Kept_Of, IInv, Shape
  <2>2. Answer("Rekey_VBA_In_VBD", j)
    BY <1>6 DEF Rekeyed
  <2> HIDE DEF j
  <2>3. job'.Snapshots = Rekeyed_Snaps
    BY <2>1, <2>2, FieldsOfJob DEF Answer
  <2>4. /\ Valid_Snaps(Rekeyed_Snaps) = Valid_Snaps(Rekeying_Snaps)
        /\ \A i \in Snapshots_Index : Rekeyed_Snaps[i].Keep = sb.Snapshots[i].Keep
    BY <1>3, RekeyedSnapsAre
  <2>5. Nr_Of(job'.Snapshots) <= Max_Kept + 3
    <3>1. Nr_Of(job'.Snapshots) = Nr_Of(Rekeying_Snaps)
      BY <2>3, <2>4 DEF Nr_Of
    <3> QED BY <1>2, <3>1, SuperblockAssumption
  <2>6. Kept_Snaps(job'.Snapshots) \subseteq Kept_Snaps(sb.Snapshots)
    BY <1>3, <2>3, <2>4 DEF Kept_Snaps, Valid_Snaps
  <2> QED BY <1>5, <2>1, <2>2, <2>5, <2>6, AnswerNInv
<1>7. CASE \E left \in 0 .. job.Nr_Of_Blks - 1 : Extended(left)
  <2>1. PICK left \in 0 .. job.Nr_Of_Blks - 1 : Extended(left)
    BY <1>7
  <2> DEFINE j == [job EXCEPT !.Nr_Of_Blks = left, !.Snapshots = Extended_Snaps]
  <2>2. /\ Kept_Of(j) /\ j.Snapshots = Extended_Snaps /\ j.Nr_Of_Blks = left
        /\ DOMAIN j = DOMAIN Job_Invalid
    BY FieldsOfJob DEF Kept_Of, IInv, Shape
  <2>3. Answer("VBD_Ext_Step_In_VBD", j)
    BY <2>1 DEF Extended
  <2> HIDE DEF j
  <2>4. job'.Snapshots = Extended_Snaps /\ job'.Nr_Of_Blks = left
        /\ job.state = <<"VBD_Ext_Step_In_VBD", "Pending">>
    BY <2>2, <2>3, FieldsOfJob DEF Answer
  <2>5. job.op = "VBD_Extension_Step"
    BY <1>1, <1>3, <2>4, StatesDiffer
  <2>6. /\ Extended_Snaps = [Rekeying_Snaps EXCEPT ![Extended_Idx] = Extended_Snap]
        /\ Rekeying_Snaps \in Snapshots_Type /\ ~Extended_Snap.Keep
    BY <1>2, <1>3, <2>5, ExtendedSnapsAre, RekeyingSnapsIs DEF Extended_Snaps
  <2>7. \A i \in Snapshots_Index \ {Extended_Idx} : Extended_Snaps[i] = Rekeying_Snaps[i]
    BY <2>6 DEF Snapshots_Type
  <2>8. Nr_Of(job'.Snapshots) <= Max_Kept + 3
    <3>1. Valid_Snaps(Extended_Snaps) \subseteq Valid_Snaps(Rekeying_Snaps) \cup {Extended_Idx}
      BY <2>7 DEF Valid_Snaps
    <3>2. Nr_Of(Extended_Snaps) \in Nat /\ Nr_Of(Extended_Snaps) <= Nr_Of(Rekeying_Snaps) + 1
      BY <3>1, Numbers, OneMore DEF Nr_Of
    <3> QED BY <1>2, <2>4, <3>2, SuperblockAssumption
  <2>9. Kept_Snaps(job'.Snapshots) \subseteq Kept_Snaps(sb.Snapshots)
    <3>1. ASSUME NEW i \in Kept_Snaps(Extended_Snaps) PROVE i \in Kept_Snaps(Rekeying_Snaps)
      <4>1. /\ i \in Snapshots_Index /\ Extended_Snaps[i].Valid /\ Extended_Snaps[i].Keep
        BY DEF Kept_Snaps, Valid_Snaps
      <4>2. i # Extended_Idx
        BY <2>6, <4>1 DEF Snapshots_Type
      <4> QED BY <2>7, <4>1, <4>2 DEF Kept_Snaps, Valid_Snaps
    <3> QED BY <1>3, <2>4, <3>1
  <2>10. job'.Nr_Of_Blks < sb.Resizing_Nr_Of_PBAs
    <3>1. job.Nr_Of_Blks = sb.Resizing_Nr_Of_PBAs
      BY <2>4 DEF NInv, StepAdds, Pending
    <3>2. job.Nr_Of_Blks \in Nat
      BY <1>3, NumbersOfSuperblock
    <3> QED BY <2>4, <3>1, <3>2
  <2> QED BY <1>5, <2>2, <2>3, <2>8, <2>9, <2>10, AnswerNInv
<1> QED BY <1>5, <1>6, <1>7

-----------------------------------------------------------------------------
(* Before a job, and before its first step: what it asks for.              *)
LEMMA NoStepNInv ==
  ASSUME NInv, raised' = raised, device' = device, job'.state = <<"Submitted">>,
         job'.op = "Initialize_Rekeying" => sb'.State = "Normal",
         job'.op = "VBD_Extension_Step" => sb'.State \in {"Normal", "Extending_VBD"},
         job'.op = "FT_Extension_Step" => sb'.State \in {"Normal", "Extending_FT"},
         job'.op = "Initialize" => ~job'.SB_Found /\ job'.Read_SB_Idx = 0,
         restarts' = 0 /\ sb'.State # "Invalid" =>
           /\ Used' + Reserve' <= Snapshots_Last + 1
           /\ Cardinality(Kept_Snaps(sb'.Snapshots)) <= Max_Kept
           /\ job'.op = "Create_Snapshot" => Cardinality(Kept_Snaps(sb'.Snapshots)) < Max_Kept
           /\ job'.op = "FT_Extension_Step" /\ sb'.State = "Normal" =>
                Nr_Of(sb'.Snapshots) + job'.Nr_Of_Blks + 1 <= Snapshots_Last
  PROVE  NInv'
<1>1. /\ \A steps : ~At(steps)'
      /\ \A x : ~Pending(x)' /\ ~Completed(x)'
  BY AtNoStep
<1>2. \A op : Submitted(op)' <=> job'.op = op
  BY DEF Submitted
<1>3. ~raised' /\ DeviceDistinct'
  BY DEF NInv, DeviceDistinct, Found
<1>4. ~Taking_Over' /\ ~Last_Rekeyed'
  BY <1>1 DEF Taking_Over, Last_Rekeyed
<1>5. Room' /\ KeptFew'
  BY <1>2, <1>4 DEF Room, KeptFew
<1>6. RequestFits' /\ StepAdds' /\ Scanned'
  BY <1>1, <1>2 DEF RequestFits, StepAdds, Scanned
<1> QED BY <1>3, <1>5, <1>6 DEF NInv

LEMMA SubmitNInv ==
  ASSUME OneRun, Roomy, IInv, TInv, NInv, NEW op \in Operations, Submit_Primitive(op)
  PROVE  NInv'
<1>1. PICK gen \in Generation, nr \in 1 .. Max_Nr_Of_Blks :
        /\ op = "FT_Extension_Step" /\ sb.State = "Normal" =>
             Nr_Of(sb.Snapshots) + nr + 1 <= Snapshots_Last
        /\ job' = [job EXCEPT !.op = op, !.state = <<"Submitted">>, !.success = FALSE,
                              !.Generation = gen, !.Nr_Of_Blks = nr]
  BY DEF Submit_Primitive, Roomy, Nr_Of
<1>2. /\ UNCHANGED <<sb, curr_gen, device, restarts, raised>> /\ op \in Requestable[sb.State]
      /\ op = "Create_Snapshot" => Cardinality(Kept_Snaps(sb.Snapshots)) < Max_Kept
      /\ job.state = <<"Submitted">> /\ TypeOK /\ sb.State # "Invalid"
  <2>1. /\ UNCHANGED <<sb, curr_gen, device, restarts, raised>> /\ op \in Requestable[sb.State]
        /\ op = "Create_Snapshot" => Cardinality(Kept_Snaps(sb.Snapshots)) < Max_Kept
        /\ job.state = <<"Submitted">> /\ TypeOK
    BY DEF Submit_Primitive, Ready, IInv, NoJobNoStep, TInv
  <2> QED BY <2>1 DEF Requestable
<1>3. job'.op = op /\ job'.state = <<"Submitted">> /\ job'.Nr_Of_Blks = nr
  BY <1>1, FieldsOfJob DEF IInv, Shape
<1>4. /\ op = "Initialize_Rekeying" => sb.State = "Normal"
      /\ op = "VBD_Extension_Step" => sb.State \in {"Normal", "Extending_VBD"}
      /\ op = "FT_Extension_Step" => sb.State \in {"Normal", "Extending_FT"}
      /\ op # "Initialize"
  <2>1. sb.State \in {"Normal", "Rekeying", "Extending_VBD", "Extending_FT"}
    BY <1>2 DEF TypeOK, Superblock
  <2> QED BY <1>2, <2>1 DEF Requestable, Operations
<1>5. \A steps : ~At(steps) /\ ~At(steps)'
  BY <1>2, <1>3, WithoutStep, AtNoStep
<1>6. Used' = Used /\ Reserve' = Reserve
  BY <1>2, <1>5 DEF Used, Reserve
<1>7. restarts = 0 => /\ Used + Reserve <= Snapshots_Last + 1
                      /\ Cardinality(Kept_Snaps(sb.Snapshots)) <= Max_Kept
  BY <1>2 DEF NInv, Room, KeptFew
<1> QED BY <1>1, <1>2, <1>3, <1>4, <1>6, <1>7, NoStepNInv

LEMMA DropNInv == TInv /\ NInv /\ Drop_Completed_Primitive => NInv'
<1> SUFFICES ASSUME TInv, NInv, Drop_Completed_Primitive PROVE NInv'
  OBVIOUS
<1>1. /\ job'.op = "Invalid" /\ job'.state = <<"Submitted">> /\ job.state = <<"Completed">>
      /\ UNCHANGED <<sb, curr_gen, device, restarts, raised>>
  BY DEF Drop_Completed_Primitive, Job_Invalid
<1>2. \A steps : ~At(steps) /\ ~At(steps)'
  BY <1>1, WithoutStep, AtNoStep
<1>3. Used' = Used /\ Reserve' = Reserve
  BY <1>1, <1>2 DEF Used, Reserve
<1>4. restarts = 0 /\ sb.State # "Invalid" =>
        /\ Used + Reserve <= Snapshots_Last + 1
        /\ Cardinality(Kept_Snaps(sb.Snapshots)) <= Max_Kept
  BY DEF NInv, Room, KeptFew
<1> QED BY <1>1, <1>3, <1>4, NoStepNInv

LEMMA RestartNInv == TInv /\ NInv /\ Restart => NInv'
<1> SUFFICES ASSUME TInv, NInv, Restart PROVE NInv'
  OBVIOUS
<1>1. /\ job'.op = "Initialize" /\ job'.state = <<"Submitted">>
      /\ ~job'.SB_Found /\ job'.Read_SB_Idx = 0 /\ UNCHANGED <<device, raised>>
  BY DEF Restart, Job_Invalid
<1>2. sb'.State = "Invalid"
  BY DEF Restart, Superblock_Invalid
<1> QED BY <1>1, <1>2, NoStepNInv

LEMMA InitNInv == Init => NInv
<1> SUFFICES ASSUME Init PROVE NInv
  OBVIOUS
<1>1. /\ job.op = "Initialize" /\ job.state = <<"Submitted">>
      /\ ~job.SB_Found /\ job.Read_SB_Idx = 0 /\ ~raised /\ sb.State = "Invalid"
      /\ device = Initial_Device
  BY DEF Init, Job_Invalid, Superblock_Invalid
<1>2. \A steps : ~At(steps)
  BY <1>1, StatesDiffer DEF At
<1>3. \A x : ~Pending(x) /\ ~Completed(x)
  BY <1>1, StatesDiffer DEF Pending, Completed
<1>4. \A i \in Superblocks_Index : Found(device.superblocks[i]) => i = 0
  BY <1>1 DEF Found, Initial_Device, Ciphertext_Invalid, Superblock_Invalid
<1>5. DeviceDistinct
  BY <1>4 DEF DeviceDistinct
<1> QED BY <1>1, <1>2, <1>3, <1>5 DEF NInv, Room, KeptFew, RequestFits, StepAdds, Scanned,
             Submitted

(* A write finds room for a snapshot of this generation. *)
LEMMA WritebackNInv ==
  ASSUME OneRun, IInv, TInv, SInv, NInv, NEW v \in VBA, Execute_Writeback(v)
  PROVE  NInv'
<1>1. /\ TypeOK /\ sb.State # "Invalid" /\ job.op = "Invalid" /\ job.state = <<"Submitted">>
      /\ restarts = 0
  BY DEF TInv, Execute_Writeback, Ready, OneRun, IInv, NoJobNoStep
<1>2. /\ \A steps : ~At(steps)
      /\ \A x : ~Completed(x)
  BY <1>1, WithoutStep
<1>3. ~Taking_Over /\ ~Last_Rekeyed
  BY <1>2 DEF Taking_Over, Last_Rekeyed
<1>4. /\ curr_gen \in Nat /\ sb.Snapshots \in Snapshots_Type
      /\ Curr(sb).Gen \in {curr_gen - 1, curr_gen}
      /\ \A k \in Kept_Snaps(sb.Snapshots) : sb.Snapshots[k].Gen < curr_gen
      /\ sb.Curr_Snap \in Valid_Snaps(sb.Snapshots)
  BY <1>1, <1>2, <1>3, BeforeCopy DEF Good
<1>5. /\ Used + Reserve <= Snapshots_Last + 1 /\ Used \in Nat /\ Reserve \in Nat
      /\ Cardinality(Kept_Snaps(sb.Snapshots)) <= Max_Kept
      /\ Nr_Of(sb.Snapshots) \in Nat
  BY <1>1, NumbersOfSuperblock DEF NInv, Room, KeptFew
<1>6. ~Raise_Program_Error
  <2> SUFFICES ASSUME Raise_Program_Error PROVE FALSE
    OBVIOUS
  <2>1. \E h : Writeback_Snaps(h) = {}
    BY DEF Raise_Program_Error, Execute_Writeback, NInv
  <2>2. Curr(sb).Gen < curr_gen
        /\ ~\E k \in Snapshots_Index : IsFirst(k, Snapshots_Index \ Valid_Snaps(sb.Snapshots))
    BY <2>1 DEF Writeback_Snaps
  <2>3. Used = Nr_Of(sb.Snapshots) + 1
    BY <1>4, <2>2 DEF Used
  <2>4. Nr_Of(sb.Snapshots) <= Snapshots_Last
    BY <1>5, <2>3, SuperblockAssumption
  <2>5. Snapshots_Index \ Valid_Snaps(sb.Snapshots) # {}
        /\ Snapshots_Index \ Valid_Snaps(sb.Snapshots) \in SUBSET Nat
    BY <2>4, Numbers DEF Snapshots_Index
  <2> QED BY <2>2, <2>5, FirstIs
<1>7. PICK i \in Snapshots_Index, h \in Content, snap \in Snapshot : Written_Back(v, i, h, snap)
  BY <1>1, <1>6, WritebackIs
<1>8. /\ IF Curr(sb).Gen < curr_gen THEN i \notin Valid_Snaps(sb.Snapshots) ELSE i = sb.Curr_Snap
      /\ snap.Valid = Curr(sb).Valid /\ snap.Gen = curr_gen
      /\ snap.Keep = (Curr(sb).Keep /\ Curr(sb).Gen = curr_gen)
      /\ sb' = With_Snapshot(sb, i, snap)
      /\ UNCHANGED <<curr_gen, job, device, restarts, raised>>
  BY <1>7 DEF Written_Back
<1>9. /\ sb'.State = sb.State /\ sb'.Curr_Snap = i
      /\ sb'.Snapshots = [sb.Snapshots EXCEPT ![i] = snap]
      /\ sb'.Resizing_Nr_Of_PBAs = sb.Resizing_Nr_Of_PBAs
  BY <1>1, <1>8, WithSnapshot DEF TypeOK, With_Snapshot, Superblock
<1>10. \A k \in Snapshots_Index : sb'.Snapshots[k] = IF k = i THEN snap ELSE sb.Snapshots[k]
  BY <1>4, <1>9 DEF Snapshots_Type
<1>11. Curr(sb).Valid /\ ~(Curr(sb).Keep /\ Curr(sb).Gen = curr_gen)
  BY <1>4 DEF Valid_Snaps, Kept_Snaps, Curr
<1>12. /\ Valid_Snaps(sb'.Snapshots) = Valid_Snaps(sb.Snapshots) \cup {i}
       /\ Kept_Snaps(sb'.Snapshots) \subseteq Kept_Snaps(sb.Snapshots)
  <2>1. snap.Valid /\ ~snap.Keep
    BY <1>8, <1>11
  <2> QED BY <1>10, <2>1 DEF Valid_Snaps, Kept_Snaps
<1>13. Cardinality(Kept_Snaps(sb'.Snapshots)) <= Max_Kept
  BY <1>5, <1>12, Numbers, NoMore, SuperblockAssumption
<1>14. Used' = Used /\ Reserve' = Reserve
  <2>1. \A steps : ~At(steps)'
    BY <1>1, <1>8, AtNoStep
  <2>2. Reserve' = Reserve
    BY <1>2, <1>9, <2>1 DEF Reserve, Reserve_Of
  <2>3. Used' = Nr_Of(sb'.Snapshots) + 0
    <3>1. Curr(sb)'.Gen = curr_gen
      BY <1>8, <1>9, <1>10 DEF Curr
    <3> QED BY <1>8, <2>1, <3>1 DEF Used
  <2>4. Nr_Of(sb'.Snapshots) \in Nat
    BY Numbers
  <2>5. CASE Curr(sb).Gen < curr_gen
    <3>1. Nr_Of(sb'.Snapshots) = Nr_Of(sb.Snapshots) + 1
      BY <1>8, <1>12, <2>5, Numbers, SetsOfSnapshots, FS_AddElement DEF Nr_Of
    <3>2. Used = Nr_Of(sb.Snapshots) + 1
      BY <1>4, <2>5 DEF Used
    <3> QED BY <2>2, <2>3, <2>4, <3>1, <3>2
  <2>6. CASE ~(Curr(sb).Gen < curr_gen)
    <3>1. Curr(sb).Gen = curr_gen
      BY <1>4, <2>6
    <3>2. Valid_Snaps(sb'.Snapshots) = Valid_Snaps(sb.Snapshots)
      BY <1>4, <1>8, <1>12, <2>6
    <3>3. Used = Nr_Of(sb.Snapshots) + 0
      BY <1>2, <3>1 DEF Used
    <3>4. Nr_Of(sb'.Snapshots) = Nr_Of(sb.Snapshots)
      BY <3>2 DEF Nr_Of
    <3> QED BY <2>2, <2>3, <3>3, <3>4
  <2> QED BY <2>5, <2>6
<1> QED BY <1>1, <1>5, <1>8, <1>13, <1>14, NoStepNInv

-----------------------------------------------------------------------------
(* Execute.  The steps from the copy on use nothing more. *)
LEMMA PrepareNInv ==
  ASSUME IInv, KInv, TInv, NInv, Idle_Ctrl, Execute_Prepare
  PROVE  NInv'
<1>1. PICK step \in {"Encrypt_Current_Key", "Encrypt_Previous_Key", "Sync_Cache", "Write_SB"} :
        Completed(step) /\ Then(Next_Step(step))
  BY DEF Execute_Prepare
<1> DEFINE next == Next_Step(step)
<1>2. next \in {"Encrypt_Previous_Key", "Sync_Cache", "Write_SB", "Sync_Blk_IO"}
  BY DEF Next_Step
<1>3. UNCHANGED <<sb, curr_gen, restarts>> /\ Then(next)
  BY <1>1 DEF Execute_Prepare, Idle_Ctrl
<1> HIDE DEF next
<1>4. job'.state = <<next, "Pending">>
  BY <1>2, <1>3, ThenType DEF TInv, Steps
<1>5. At(Copied) /\ ~At({"Add_Key"})
  BY <1>1, OfJob DEF Copied
<1>6. At(Copied)' /\ ~At({"Add_Key"})' /\ ~Last_Rekeyed'
  BY <1>2, <1>4, NextToJob DEF Last_Rekeyed, Copied
<1>7. Used' = Used /\ Reserve' = Reserve
  BY <1>3, <1>5, <1>6 DEF Used, Reserve
<1>8. restarts = 0 /\ sb.State # "Invalid" =>
        /\ Used + Reserve <= Snapshots_Last + 1
        /\ Cardinality(Kept_Snaps(sb.Snapshots)) <= Max_Kept
  BY DEF NInv, Room, KeptFew
<1> QED BY <1>2, <1>3, <1>4, <1>6, <1>7, <1>8, GoesOnNInv

LEMMA SyncBlkIOCompletedNInv ==
  ASSUME IInv, KInv, TInv, NInv, Idle_Ctrl, Execute_Sync_Blk_IO_Completed
  PROVE  NInv'
<1>1. Completed("Sync_Blk_IO") /\ UNCHANGED <<sb, restarts>>
  BY DEF Execute_Sync_Blk_IO_Completed, Idle_Ctrl
<1>2. job'.state = <<"Secure_SB", "Pending">>
  BY FieldsOfJob DEF Execute_Sync_Blk_IO_Completed, IInv, Shape
<1>3. At(Copied) /\ ~At({"Add_Key"})
  BY <1>1, OfJob DEF Copied
<1>4. At(Copied)' /\ ~At({"Add_Key"})' /\ ~Last_Rekeyed'
  BY <1>2, NextToJob DEF Last_Rekeyed, Copied
<1>5. Used' = Used /\ Reserve' = Reserve
  BY <1>1, <1>3, <1>4 DEF Used, Reserve
<1>6. restarts = 0 /\ sb.State # "Invalid" =>
        /\ Used + Reserve <= Snapshots_Last + 1
        /\ Cardinality(Kept_Snaps(sb.Snapshots)) <= Max_Kept
  BY DEF NInv, Room, KeptFew
<1> QED BY <1>1, <1>2, <1>4, <1>5, <1>6, GoesOnNInv

(* The next write begins a generation, in a snapshot of its own. *)
LEMMA SecureSBCompletedNInv ==
  ASSUME IInv, KInv, TInv, SInv, NInv, Idle_Ctrl, Execute_Secure_SB_Completed
  PROVE  NInv'
<1>1. /\ Completed("Secure_SB") /\ UNCHANGED <<curr_gen, restarts>>
      /\ sb' = [sb EXCEPT !.Last_Secured_Generation = job.Generation]
  BY DEF Execute_Secure_SB_Completed, Idle_Ctrl
<1>2. job'.state = <<"Completed">>
  BY FieldsOfJob DEF Execute_Secure_SB_Completed, IInv, Shape
<1>3. At(Copied) /\ At({"Secure_SB"}) /\ ~At({"Add_Key"})
  BY <1>1, OfJob DEF Copied
<1>4. restarts = 0 /\ sb.State # "Invalid" /\ TypeOK
  BY <1>3, OperationIs DEF Copied, TInv
<1>5. sb'.Snapshots = sb.Snapshots /\ sb'.Curr_Snap = sb.Curr_Snap
      /\ sb'.State = sb.State /\ sb'.Resizing_Nr_Of_PBAs = sb.Resizing_Nr_Of_PBAs
  BY <1>1, <1>4 DEF TypeOK, Superblock
<1>6. \A steps : ~At(steps)'
  BY <1>2, AtNoStep
<1>7. Curr(sb)'.Gen # curr_gen'
  <2>1. Curr(sb).Gen = curr_gen - 1
    BY <1>3, <1>4 DEF SInv, Generations, Copied_Gens
  <2>2. curr_gen \in Nat
    BY <1>4, SuperblockAssumption DEF TypeOK
  <2> QED BY <1>1, <1>5, <2>1, <2>2 DEF Curr
<1>8. Used' = Used /\ Reserve' = Reserve
  BY <1>3, <1>5, <1>6, <1>7 DEF Used, Reserve, Reserve_Of
<1>9. /\ Used + Reserve <= Snapshots_Last + 1
      /\ Cardinality(Kept_Snaps(sb.Snapshots)) <= Max_Kept
  BY <1>4 DEF NInv, Room, KeptFew
<1> QED BY <1>1, <1>2, <1>5, <1>8, <1>9, EndsNInv

LEMMA DeinitializeNInv ==
  ASSUME IInv, KInv, TInv, SInv, NInv, Idle_Ctrl, Execute_Deinitialize
  PROVE  NInv'
<1>0. job.op = "Deinitialize" /\ UNCHANGED <<curr_gen, restarts>>
  BY DEF Execute_Deinitialize, Idle_Ctrl
<1>1. /\ ~At(Copied) /\ ~At({"Add_Key"}) /\ ~Last_Rekeyed
  <2>1. CASE Submitted("Deinitialize")
    BY <1>0, <2>1, OfSubmitted DEF Last_Rekeyed
  <2>2. CASE Completed("Remove_Current_Key") \/ Completed("Remove_Previous_Key")
    BY <1>0, <2>2, OfJob DEF Copied, Last_Rekeyed
  <2> QED BY <2>1, <2>2 DEF Execute_Deinitialize
<1>2. TypeOK /\ job \in Job
  BY DEF TInv, TypeOK
<1>3. restarts = 0 /\ sb.State # "Invalid" =>
        /\ Used + Reserve <= Snapshots_Last + 1
        /\ Cardinality(Kept_Snaps(sb.Snapshots)) <= Max_Kept
  BY DEF NInv, Room, KeptFew
<1>4. ASSUME NEW step \in {"Remove_Current_Key", "Remove_Previous_Key"}, Then(step),
             UNCHANGED sb
      PROVE  NInv'
  <2>1. job'.op = job.op /\ job'.state = <<step, "Pending">>
    BY <1>2, <1>4, ThenType DEF Steps
  <2>2. ~At(Copied)' /\ ~At({"Add_Key"})' /\ ~Last_Rekeyed'
    BY <1>0, <2>1, NextToJob DEF Copied, Last_Rekeyed
  <2>3. Used' = Used /\ Reserve' = Reserve
    BY <1>0, <1>1, <1>4, <2>2 DEF Used, Reserve, Curr
  <2> QED BY <1>0, <1>3, <1>4, <2>1, <2>2, <2>3, GoesOnNInv
<1>5. ASSUME job' = [job EXCEPT !.success = TRUE, !.state = <<"Completed">>],
             sb' = sb \/ sb' = [sb EXCEPT !.State = "Invalid"]
      PROVE  NInv'
  <2>1. job'.state = <<"Completed">>
    BY <1>2, <1>5 DEF Job
  <2>2. \A steps : ~At(steps)'
    BY <2>1, AtNoStep
  <2>3. sb'.State # "Invalid" => sb' = sb
    BY <1>2, <1>5 DEF TypeOK, Superblock
  <2>4. sb' = sb => Used' = Used /\ Reserve' = Reserve
    BY <1>0, <1>1, <2>2 DEF Used, Reserve, Curr
  <2> QED BY <1>0, <1>3, <2>1, <2>3, <2>4, EndsNInv
<1> QED BY <1>4, <1>5 DEF Execute_Deinitialize

-----------------------------------------------------------------------------
(* What Sync, Create_Snapshot and Discard_Snapshot secure: the snapshots   *)
(* that are kept and two more.                                             *)
LEMMA SecuringNInv ==
  ASSUME Roomy, KInv, TInv, SInv, NInv, Idle_Ctrl,
         NEW op \in {"Sync", "Create_Snapshot", "Discard_Snapshot"},
         Submitted(op), NEW s \in Superblock, Init_SB_Ciphertext(s, job),
         s.State = sb.State, s.Resizing_Nr_Of_PBAs = sb.Resizing_Nr_Of_PBAs,
         \A i \in Valid_Snaps(s.Snapshots) :
           /\ i \in Valid_Snaps(sb.Snapshots)
           /\ sb.Snapshots[i].Keep
                \/ sb.Snapshots[i].Gen \in {sb.Last_Secured_Generation, curr_gen},
         Kept_Snaps(s.Snapshots) \subseteq
           Kept_Snaps(sb.Snapshots) \cup (IF op = "Create_Snapshot" THEN {s.Curr_Snap} ELSE {})
  PROVE  NInv'
<1>1. Working /\ ~At(Copied) /\ ~At({"Secure_SB"}) /\ ~Taking_Over /\ ~Last_Rekeyed
  BY OfSubmitted DEF Taking_Over, Last_Rekeyed
<1>2. TypeOK /\ restarts = 0 /\ sb.State # "Invalid" /\ job \in Job
  BY <1>1, WorkingIs DEF TypeOK
<1>3. Good(sb.Snapshots, sb.Curr_Snap, Keys_Of(sb), cached, curr_gen)
  BY <1>1, <1>2, BeforeCopy
<1>4. Nr_Of(s.Snapshots) \in Nat
      /\ Nr_Of(s.Snapshots) <= Cardinality(Kept_Snaps(sb.Snapshots)) + 2
  BY <1>3, FewLeft DEF Nr_Of
<1>5. /\ Cardinality(Kept_Snaps(sb.Snapshots)) <= Max_Kept
      /\ op = "Create_Snapshot" => Cardinality(Kept_Snaps(sb.Snapshots)) < Max_Kept
      /\ Cardinality(Kept_Snaps(sb.Snapshots)) \in Nat
      /\ Cardinality(Kept_Snaps(s.Snapshots)) \in Nat
  BY <1>2, Numbers DEF NInv, KeptFew
<1>6. Reserve_Of(s) = Reserve_Of(sb) /\ Reserve_Of(sb) \in Nat
      /\ Reserve_Of(sb) <= 1 + Max_Nr_Of_Blks
  BY <1>2, NumbersOfSuperblock DEF Reserve_Of
<1>7. Nr_Of(s.Snapshots) + 1 + Reserve_Of(s) <= Snapshots_Last + 1
  BY <1>4, <1>5, <1>6, SuperblockAssumption DEF Roomy
<1>8. Cardinality(Kept_Snaps(s.Snapshots)) <= Max_Kept
  <2>1. CASE op = "Create_Snapshot"
    <3>1. Cardinality(Kept_Snaps(s.Snapshots)) <= Cardinality(Kept_Snaps(sb.Snapshots)) + 1
      BY <2>1, Numbers, OneMore
    <3> QED BY <1>5, <2>1, <3>1, SuperblockAssumption
  <2>2. CASE op # "Create_Snapshot"
    <3>1. Cardinality(Kept_Snaps(s.Snapshots)) <= Cardinality(Kept_Snaps(sb.Snapshots))
      BY <2>2, Numbers, NoMore
    <3> QED BY <1>5, <3>1, SuperblockAssumption
  <2> QED BY <2>1, <2>2
<1> QED BY <1>1, <1>2, <1>7, <1>8, CopyNInv

LEMMA ShortOperationsNInv ==
  ASSUME Roomy, IInv, KInv, TInv, SInv, NInv, Idle_Ctrl,
         Execute_Sync \/ Execute_Create_Snapshot \/ Execute_Discard_Snapshot
  PROVE  NInv'
<1>1. ASSUME NEW op \in {"Sync", "Create_Snapshot", "Discard_Snapshot"}, Submitted(op)
      PROVE  /\ TypeOK /\ curr_gen \in Generation
             /\ sb.Snapshots \in Snapshots_Type
             /\ \A steps : ~At(steps)
  <2>1. Working /\ \A steps : ~At(steps)
    BY <1>1, OfSubmitted
  <2> QED BY <2>1, WorkingIs DEF TypeOK, Superblock, Snapshots_Type
(* With the snapshots of the superblock, or all but one of these. *)
<1>2. ASSUME NEW op \in {"Sync", "Create_Snapshot", "Discard_Snapshot"}, Submitted(op),
             NEW snaps \in Snapshots_Type,
             Valid_Snaps(snaps) \subseteq Valid_Snaps(sb.Snapshots),
             \A k \in Snapshots_Index : SameBut(snaps[k], sb.Snapshots[k]),
             NEW s, s = Secure_Curr_Gen(snaps)
      PROVE  /\ s \in Superblock /\ s.State = sb.State
             /\ s.Resizing_Nr_Of_PBAs = sb.Resizing_Nr_Of_PBAs
             /\ \A i \in Valid_Snaps(s.Snapshots) :
                  /\ i \in Valid_Snaps(sb.Snapshots)
                  /\ sb.Snapshots[i].Keep
                       \/ sb.Snapshots[i].Gen \in {sb.Last_Secured_Generation, curr_gen}
             /\ Kept_Snaps(s.Snapshots) \subseteq Kept_Snaps(sb.Snapshots)
  <2> DEFINE D == Discard_Disposable_Snapshots(snaps, sb.Last_Secured_Generation, curr_gen)
  <2>1. s \in Superblock /\ s.Snapshots = D /\ s.State = sb.State
    BY <1>1, <1>2, SecureCurrGenIs
  <2>2. s.Resizing_Nr_Of_PBAs = sb.Resizing_Nr_Of_PBAs
    BY <1>1, <1>2 DEF Secure_Curr_Gen, TypeOK, Superblock
  <2>3. /\ Valid_Snaps(D) = {i \in Valid_Snaps(snaps) :
                \/ snaps[i].Keep
                \/ snaps[i].Gen \in {sb.Last_Secured_Generation, curr_gen}}
        /\ Kept_Snaps(D) = Kept_Snaps(snaps)
    BY <1>2, DiscardKeeps
  <2> HIDE DEF D
  <2>4. Valid_Snaps(snaps) \subseteq Snapshots_Index
    BY DEF Valid_Snaps
  <2>5. \A i \in Valid_Snaps(D) :
          /\ i \in Valid_Snaps(sb.Snapshots)
          /\ sb.Snapshots[i].Keep
               \/ sb.Snapshots[i].Gen \in {sb.Last_Secured_Generation, curr_gen}
    BY <1>2, <2>3, <2>4 DEF SameBut
  <2>6. Kept_Snaps(snaps) \subseteq Kept_Snaps(sb.Snapshots)
    BY <1>2, <2>4 DEF Kept_Snaps, SameBut
  <2> QED BY <2>1, <2>2, <2>3, <2>5, <2>6
<1>3. CASE Execute_Sync
  <2> DEFINE s == Secure_Curr_Gen(sb.Snapshots)
  <2>1. Submitted("Sync") /\ Init_SB_Ciphertext(s, job) /\ s = Secure_Curr_Gen(sb.Snapshots)
    BY <1>3 DEF Execute_Sync
  <2> HIDE DEF s
  <2> QED BY <1>1, <1>2, <2>1, SecuringNInv DEF SameBut
<1>4. CASE Execute_Create_Snapshot
  <2> DEFINE s == Secure_Curr_Gen(sb.Snapshots)
             k == Keeping(s)
  <2>1. /\ Submitted("Create_Snapshot") /\ Init_SB_Ciphertext(k, job)
        /\ s = Secure_Curr_Gen(sb.Snapshots)
    BY <1>4 DEF Execute_Create_Snapshot, Keeping
  <2>2. k = Keeping(s)
    OBVIOUS
  <2> HIDE DEF s, k
  <2>3. /\ s \in Superblock /\ s.State = sb.State
        /\ s.Resizing_Nr_Of_PBAs = sb.Resizing_Nr_Of_PBAs
        /\ \A i \in Valid_Snaps(s.Snapshots) :
             /\ i \in Valid_Snaps(sb.Snapshots)
             /\ sb.Snapshots[i].Keep
                  \/ sb.Snapshots[i].Gen \in {sb.Last_Secured_Generation, curr_gen}
        /\ Kept_Snaps(s.Snapshots) \subseteq Kept_Snaps(sb.Snapshots)
    BY <1>1, <1>2, <2>1 DEF SameBut
  <2>4. /\ k \in Superblock /\ k.State = s.State /\ k.Curr_Snap = s.Curr_Snap
        /\ \A i \in Snapshots_Index :
             /\ k.Snapshots[i].Valid = s.Snapshots[i].Valid
             /\ k.Snapshots[i].Keep = (s.Snapshots[i].Keep \/ i = s.Curr_Snap)
    BY <2>2, <2>3, KeepingIs
  <2>5. k.Resizing_Nr_Of_PBAs = s.Resizing_Nr_Of_PBAs
    BY <2>2, <2>3 DEF Keeping, Superblock
  <2>6. Valid_Snaps(k.Snapshots) = Valid_Snaps(s.Snapshots)
    BY <2>4 DEF Valid_Snaps
  <2>7. Kept_Snaps(k.Snapshots) \subseteq Kept_Snaps(s.Snapshots) \cup {k.Curr_Snap}
    BY <2>4 DEF Kept_Snaps, Valid_Snaps
  <2>8. k.State = sb.State /\ k.Resizing_Nr_Of_PBAs = sb.Resizing_Nr_Of_PBAs
        /\ Kept_Snaps(k.Snapshots) \subseteq Kept_Snaps(sb.Snapshots) \cup {k.Curr_Snap}
    BY <2>3, <2>4, <2>5, <2>7
  <2> QED BY <2>1, <2>3, <2>4, <2>6, <2>8, SecuringNInv
<1>5. CASE Execute_Discard_Snapshot
  <2>1. Submitted("Discard_Snapshot")
    BY <1>5 DEF Execute_Discard_Snapshot
  <2>2. ASSUME NEW i \in Snapshots_Index,
               Init_SB_Ciphertext(Secure_Curr_Gen(Without_Snap(i)), job)
        PROVE  NInv'
    <3> DEFINE s == Secure_Curr_Gen(Without_Snap(i))
    <3>1. /\ Without_Snap(i) \in Snapshots_Type
          /\ Valid_Snaps(Without_Snap(i)) \subseteq Valid_Snaps(sb.Snapshots)
          /\ \A k \in Snapshots_Index : SameBut(Without_Snap(i)[k], sb.Snapshots[k])
      BY <1>1, <2>1, WithoutSnap
    <3>2. Init_SB_Ciphertext(s, job) /\ s = Secure_Curr_Gen(Without_Snap(i))
      BY <2>2
    <3> HIDE DEF s
    <3> QED BY <1>2, <2>1, <3>1, <3>2, SecuringNInv
  <2>3. ASSUME job' = [job EXCEPT !.success = FALSE, !.state = <<"Completed">>],
               UNCHANGED <<sb, sb_idx, curr_gen>>
        PROVE  NInv'
    <3>1. job'.state = <<"Completed">> /\ UNCHANGED <<sb, curr_gen, restarts>>
      BY <2>3, FieldsOfJob DEF IInv, Shape, Idle_Ctrl
    <3>2. \A steps : ~At(steps) /\ ~At(steps)'
      BY <1>1, <2>1, <3>1, AtNoStep
    <3>3. Used' = Used /\ Reserve' = Reserve
      BY <3>1, <3>2 DEF Used, Reserve, Curr
    <3>4. restarts = 0 /\ sb.State # "Invalid" =>
            /\ Used + Reserve <= Snapshots_Last + 1
            /\ Cardinality(Kept_Snaps(sb.Snapshots)) <= Max_Kept
      BY DEF NInv, Room, KeptFew
    <3> QED BY <3>1, <3>3, <3>4, EndsNInv
  <2> QED BY <1>5, <2>2, <2>3 DEF Execute_Discard_Snapshot, Without_Snap
<1> QED BY <1>3, <1>4, <1>5

-----------------------------------------------------------------------------
(* A step that changes neither the superblock nor what it uses. *)
LEMMA SameRoom ==
  ASSUME NInv, UNCHANGED <<sb, curr_gen, restarts>>,
         ~At(Copied), ~At({"Add_Key"}), ~At(Copied)', ~At({"Add_Key"})'
  PROVE  restarts = 0 /\ sb'.State # "Invalid" =>
           /\ Used' + Reserve' <= Snapshots_Last + 1
           /\ Cardinality(Kept_Snaps(sb'.Snapshots)) <= Max_Kept
<1>1. Used' = Used /\ Reserve' = Reserve
  BY DEF Used, Reserve, Curr
<1>2. restarts = 0 /\ sb.State # "Invalid" =>
        /\ Used + Reserve <= Snapshots_Last + 1
        /\ Cardinality(Kept_Snaps(sb.Snapshots)) <= Max_Kept
  BY DEF NInv, Room, KeptFew
<1> QED BY <1>1, <1>2

(* Until the new key is added, the room of the state Normal is left. *)
LEMMA InitializeRekeyingNInv ==
  ASSUME IInv, KInv, TInv, SInv, NInv, Idle_Ctrl, Execute_Initialize_Rekeying, ~Execute_Raises
  PROVE  NInv'
<1>0. job.op = "Initialize_Rekeying"
  BY DEF Execute_Initialize_Rekeying
<1>1. Working /\ ~At(Copied) /\ ~At({"Secure_SB"})
  <2>1. CASE Submitted("Initialize_Rekeying")
    BY <2>1, OfSubmitted
  <2>2. CASE Completed("Create_Key") \/ Completed("Add_Key")
    BY <1>0, <2>2, OfJob DEF Copied
  <2> QED BY <2>1, <2>2 DEF Execute_Initialize_Rekeying
<1>2. /\ TypeOK /\ sb \in Superblock /\ restarts = 0 /\ sb.State # "Invalid" /\ job \in Job
  BY <1>1, WorkingIs DEF TypeOK
<1>3. /\ Used + Reserve <= Snapshots_Last + 1
      /\ Cardinality(Kept_Snaps(sb.Snapshots)) <= Max_Kept
  BY <1>2 DEF NInv, Room, KeptFew
<1>4. CASE /\ Submitted("Initialize_Rekeying") /\ Then("Create_Key")
           /\ UNCHANGED <<sb, sb_idx, curr_gen>>
  <2>1. job'.state = <<"Create_Key", "Pending">> /\ sb.State = "Normal"
    BY <1>2, <1>4, ThenType DEF Steps, NInv, RequestFits
  <2>2. ~At({"Add_Key"}) /\ ~At(Copied)' /\ ~At({"Add_Key"})' /\ ~Last_Rekeyed'
    BY <1>4, <2>1, OfSubmitted, NextToJob DEF Copied, Last_Rekeyed
  <2>3. restarts = 0 /\ sb'.State # "Invalid" =>
           /\ Used' + Reserve' <= Snapshots_Last + 1
           /\ Cardinality(Kept_Snaps(sb'.Snapshots)) <= Max_Kept
    BY <1>1, <1>4, <2>2, SameRoom DEF Idle_Ctrl
  <2> QED BY <1>4, <2>1, <2>2, <2>3, GoesOnNInv
<1>5. CASE /\ Completed("Create_Key") /\ Then("Add_Key") /\ UNCHANGED <<sb_idx, curr_gen>>
           /\ sb' = [sb EXCEPT !.State = "Rekeying", !.Rekeying_VBA = 0,
                               !.Previous_Key = sb.Current_Key,
                               !.Current_Key = sb.Current_Key + 1]
  <2>1. job'.state = <<"Add_Key", "Pending">> /\ sb.State = "Normal"
    BY <1>0, <1>2, <1>5, ThenType DEF Steps, Execute_Raises
  <2>2. /\ sb'.State = "Rekeying"
        /\ sb'.Snapshots = sb.Snapshots /\ sb'.Curr_Snap = sb.Curr_Snap
    BY <1>2, <1>5 DEF Superblock
  <2>3. ~At({"Add_Key"}) /\ ~At(Copied)' /\ At({"Add_Key"})' /\ ~Last_Rekeyed'
    BY <1>5, <2>1, OfJob, NextToJob DEF Copied, Last_Rekeyed
  <2>4. Used' = Used
    BY <1>1, <1>5, <2>2, <2>3 DEF Used, Curr
  <2>5. Reserve' = Reserve
    BY <2>1, <2>2, <2>3 DEF Reserve, Reserve_Of
  <2> QED BY <1>3, <2>1, <2>2, <2>3, <2>4, <2>5, GoesOnNInv
<1>6. CASE Completed("Add_Key") /\ Init_SB_Ciphertext(sb, job)
  <2>1. At({"Add_Key"})
    BY <1>6, OfJob
  <2>2. sb.State = "Rekeying"
    BY <1>1, <2>1 DEF KInv, StateOfOperation
  <2>3. Reserve = 0 + 1 /\ Reserve_Of(sb) = 0
    BY <2>1, <2>2 DEF Reserve, Reserve_Of
  <2>4. Nr_Of(sb.Snapshots) + 1 + Reserve_Of(sb) <= Snapshots_Last + 1
    BY <1>2, <1>3, <2>3, NumbersOfSuperblock, SuperblockAssumption
  <2> QED BY <1>1, <1>2, <1>3, <1>6, <2>4, CopyNInv
<1> QED BY <1>4, <1>5, <1>6 DEF Execute_Initialize_Rekeying

(* What is rekeyed are the snapshots that are kept and two more. *)
LEMMA RekeyVBANInv ==
  ASSUME Roomy, IInv, KInv, TInv, SInv, NInv, Idle_Ctrl, Execute_Rekey_VBA
  PROVE  NInv'
<1>0. job.op = "Rekey_VBA"
  BY DEF Execute_Rekey_VBA
<1>1. Working /\ ~At(Copied) /\ ~At({"Secure_SB"})
  <2>1. CASE Submitted("Rekey_VBA")
    BY <2>1, OfSubmitted
  <2>2. CASE Completed("Rekey_VBA_In_VBD") \/ Completed("Remove_Previous_Key")
    BY <1>0, <2>2, OfJob DEF Copied
  <2> QED BY <2>1, <2>2 DEF Execute_Rekey_VBA
<1>2. /\ TypeOK /\ sb \in Superblock /\ job.Snapshots \in Snapshots_Type
      /\ restarts = 0 /\ sb.State = "Rekeying" /\ sb.State # "Invalid" /\ job \in Job
  BY <1>0, <1>1, WorkingIs, JobTypes DEF TypeOK, KInv, StateOfOperation
<1>3. Cardinality(Kept_Snaps(sb.Snapshots)) <= Max_Kept
  BY <1>2 DEF NInv, KeptFew
<1>4. /\ Nr_Of(sb.Snapshots) \in Nat /\ Nr_Of(job.Snapshots) \in Nat
      /\ Max_Kept + 4 <= Snapshots_Last /\ Max_Kept \in Nat /\ Snapshots_Last \in Nat
  BY Numbers, SuperblockAssumption DEF Roomy
<1>5. Completed("Rekey_VBA_In_VBD") =>
        /\ Nr_Of(job.Snapshots) <= Max_Kept + 3
        /\ Cardinality(Kept_Snaps(job.Snapshots)) <= Max_Kept
  <2> SUFFICES ASSUME Completed("Rekey_VBA_In_VBD")
               PROVE  /\ Nr_Of(job.Snapshots) <= Max_Kept + 3
                      /\ Cardinality(Kept_Snaps(job.Snapshots)) <= Max_Kept
    OBVIOUS
  <2>1. /\ Nr_Of(job.Snapshots) <= Max_Kept + 3
        /\ Kept_Snaps(job.Snapshots) \subseteq Kept_Snaps(sb.Snapshots)
    BY <1>2 DEF NInv, Room, KeptFew, Taking_Over
  <2>2. /\ Cardinality(Kept_Snaps(job.Snapshots)) <= Cardinality(Kept_Snaps(sb.Snapshots))
        /\ Cardinality(Kept_Snaps(job.Snapshots)) \in Nat
        /\ Cardinality(Kept_Snaps(sb.Snapshots)) \in Nat
    BY <2>1, Numbers, NoMore
  <2> QED BY <1>3, <1>4, <2>1, <2>2
<1>6. CASE /\ Submitted("Rekey_VBA") /\ Then("Rekey_VBA_In_VBD")
           /\ UNCHANGED <<sb, sb_idx, curr_gen>>
  <2>1. job'.state = <<"Rekey_VBA_In_VBD", "Pending">>
    BY <1>2, <1>6, ThenType DEF Steps
  <2>2. ~At({"Add_Key"}) /\ ~At(Copied)' /\ ~At({"Add_Key"})' /\ ~Last_Rekeyed'
    BY <1>6, <2>1, OfSubmitted, NextToJob DEF Copied, Last_Rekeyed
  <2>3. restarts = 0 /\ sb'.State # "Invalid" =>
           /\ Used' + Reserve' <= Snapshots_Last + 1
           /\ Cardinality(Kept_Snaps(sb'.Snapshots)) <= Max_Kept
    BY <1>1, <1>6, <2>2, SameRoom DEF Idle_Ctrl
  <2> QED BY <2>1, <2>2, <2>3, GoesOnNInv
<1>7. CASE /\ Completed("Rekey_VBA_In_VBD") /\ sb.Rekeying_VBA < VBA_Last
           /\ Init_SB_Ciphertext([sb EXCEPT !.Snapshots = job.Snapshots, !.Rekeying_VBA = @ + 1],
                                 [job EXCEPT !.Request_Finished = FALSE])
  <2> DEFINE s == [sb EXCEPT !.Snapshots = job.Snapshots, !.Rekeying_VBA = @ + 1]
             j == [job EXCEPT !.Request_Finished = FALSE]
  <2>1. sb.Rekeying_VBA + 1 \in VBA
    BY <1>2, <1>7, SuperblockAssumption DEF Superblock, VBA
  <2>2. /\ s \in Superblock /\ s.Snapshots = job.Snapshots /\ s.State = "Rekeying"
    BY <1>2, <2>1 DEF Superblock, Snapshots_Type
  <2>3. j \in Job /\ Init_SB_Ciphertext(s, j)
    BY <1>2, <1>7 DEF Job
  <2> HIDE DEF s, j
  <2>4. Reserve_Of(s) = 0
    BY <2>2 DEF Reserve_Of
  <2>5. Nr_Of(s.Snapshots) + 1 + Reserve_Of(s) <= Snapshots_Last + 1
    BY <1>4, <1>5, <1>7, <2>2, <2>4
  <2> QED BY <1>1, <1>5, <1>7, <2>2, <2>3, <2>5, CopyNInv
<1>8. CASE /\ Completed("Rekey_VBA_In_VBD") /\ Then("Remove_Previous_Key")
           /\ sb' = [sb EXCEPT !.Snapshots = job.Snapshots] /\ UNCHANGED <<sb_idx, curr_gen>>
  <2>1. job'.state = <<"Remove_Previous_Key", "Pending">>
    BY <1>2, <1>8, ThenType DEF Steps
  <2>2. sb'.Snapshots = job.Snapshots /\ sb'.State = "Rekeying"
    BY <1>2, <1>8 DEF Superblock
  <2>3. ~At({"Add_Key"})'
    BY <2>1, NextToJob
  <2>4. Reserve' = 0 + 0
    BY <2>2, <2>3 DEF Reserve, Reserve_Of
  <2>5. Used' \in {Nr_Of(job.Snapshots), Nr_Of(job.Snapshots) + 1}
    BY <1>4, <2>2 DEF Used
  <2>6. Used' + Reserve' <= Snapshots_Last + 1
    BY <1>4, <1>5, <1>8, <2>4, <2>5
  <2> QED BY <1>5, <1>8, <2>1, <2>2, <2>6, GoesOnNInv
<1>9. CASE /\ Completed("Remove_Previous_Key")
           /\ Init_SB_Ciphertext([sb EXCEPT !.Previous_Key = 0, !.State = "Normal"],
                                 [job EXCEPT !.Request_Finished = TRUE])
  <2> DEFINE s == [sb EXCEPT !.Previous_Key = 0, !.State = "Normal"]
             j == [job EXCEPT !.Request_Finished = TRUE]
  <2>0. 0 \in Key_ID
    BY SuperblockAssumption DEF Key_ID
  <2>1. s \in Superblock /\ s.Snapshots = sb.Snapshots /\ s.State = "Normal"
    BY <1>2, <2>0 DEF Superblock
  <2>2. j \in Job /\ Init_SB_Ciphertext(s, j)
    BY <1>2, <1>9 DEF Job
  <2> HIDE DEF s, j
  <2>3. Last_Rekeyed
    BY <1>0, <1>9, OfJob DEF Last_Rekeyed
  <2>4. Reserve_Of(s) = 1 /\ Nr_Of(sb.Snapshots) <= Max_Kept + 3
    BY <1>2, <2>1, <2>3 DEF Reserve_Of, NInv, Room
  <2>5. Nr_Of(s.Snapshots) + 1 + Reserve_Of(s) <= Snapshots_Last + 1
    BY <1>4, <2>1, <2>4
  <2> QED BY <1>1, <1>3, <2>1, <2>2, <2>5, CopyNInv
<1> QED BY <1>6, <1>7, <1>8, <1>9 DEF Execute_Rekey_VBA

-----------------------------------------------------------------------------
(* An extension of the free tree uses up, step by step, the room there was *)
(* for it.                                                                 *)
LEMMA ExtensionNInv ==
  ASSUME Roomy, IInv, KInv, TInv, SInv, NInv, Idle_Ctrl, Execute_Extension_Step
  PROVE  NInv'
<1>0. /\ job.op \in {"VBD_Extension_Step", "FT_Extension_Step"}
      /\ Extend_In[job.op] = IF job.op = "VBD_Extension_Step" THEN "VBD_Ext_Step_In_VBD"
                                                             ELSE "FT_Ext_Step_In_FT"
      /\ Extending[job.op] = IF job.op = "VBD_Extension_Step" THEN "Extending_VBD"
                                                             ELSE "Extending_FT"
  BY DEF Execute_Extension_Step, Extending, Extend_In
<1>1. Working /\ ~At(Copied) /\ ~At({"Secure_SB"}) /\ ~At({"Add_Key"})
  <2>1. CASE Submitted(job.op)
    BY <1>0, <2>1, OfSubmitted
  <2>2. CASE Completed(Extend_In[job.op])
    BY <1>0, <2>2, OfJob DEF Copied
  <2> QED BY <2>1, <2>2 DEF Execute_Extension_Step
<1>2. /\ TypeOK /\ sb \in Superblock /\ job.Snapshots \in Snapshots_Type
      /\ sb.Snapshots \in Snapshots_Type /\ sb.Curr_Snap \in Snapshots_Index
      /\ restarts = 0 /\ sb.State # "Invalid" /\ job \in Job
  BY <1>1, WorkingIs, JobTypes DEF TypeOK, Superblock, Snapshots_Type
<1>3. job.Nr_Of_Blks \in 0 .. Max_Nr_Of_Blks /\ sb.Resizing_Nr_Of_PBAs \in 0 .. Max_Nr_Of_Blks
  BY <1>2 DEF Job, Superblock
<1>4. /\ Used + Reserve_Of(sb) <= Snapshots_Last + 1
      /\ Cardinality(Kept_Snaps(sb.Snapshots)) <= Max_Kept
      /\ Nr_Of(sb.Snapshots) <= Used
      /\ Used \in Nat /\ Nr_Of(sb.Snapshots) \in Nat /\ Reserve_Of(sb) \in Nat
  <2>1. Reserve = Reserve_Of(sb)
    BY <1>1, <1>2, NumbersOfSuperblock DEF Reserve
  <2>2. /\ Used \in Nat /\ Nr_Of(sb.Snapshots) \in Nat /\ Reserve_Of(sb) \in Nat
        /\ Used \in {Nr_Of(sb.Snapshots), Nr_Of(sb.Snapshots) + 1}
    BY <1>2, NumbersOfSuperblock
  <2> QED BY <1>2, <2>1, <2>2 DEF NInv, Room, KeptFew
<1>5. /\ Max_Kept + 4 <= Snapshots_Last /\ Max_Kept \in Nat /\ Snapshots_Last \in Nat
      /\ Max_Nr_Of_Blks \in Nat
  BY SuperblockAssumption DEF Roomy
<1>6. ASSUME NEW snaps \in Snapshots_Type, NEW curr \in Snapshots_Index,
             NEW state \in {"Normal", "Extending_VBD", "Extending_FT"},
             NEW nr \in 0 .. Max_Nr_Of_Blks, NEW finished \in BOOLEAN,
             Init_SB_Ciphertext([sb EXCEPT !.Snapshots = snaps, !.Curr_Snap = curr,
                                           !.State = state, !.Resizing_Nr_Of_PBAs = nr],
                                [job EXCEPT !.Request_Finished = finished]),
             Nr_Of(snaps) + (IF state = "Extending_FT" THEN 1 + nr
                             ELSE IF state = "Normal" THEN 1 ELSE 0) <= Snapshots_Last,
             Cardinality(Kept_Snaps(snaps)) <= Max_Kept
      PROVE  NInv'
  <2> DEFINE s == [sb EXCEPT !.Snapshots = snaps, !.Curr_Snap = curr,
                             !.State = state, !.Resizing_Nr_Of_PBAs = nr]
             j == [job EXCEPT !.Request_Finished = finished]
  <2>1. /\ s \in Superblock /\ s.Snapshots = snaps /\ s.State = state
        /\ s.Resizing_Nr_Of_PBAs = nr
    BY <1>2, <1>6 DEF Superblock, Snapshots_Type
  <2>2. j \in Job /\ Init_SB_Ciphertext(s, j)
    BY <1>2, <1>6 DEF Job
  <2> HIDE DEF s, j
  <2>3. Reserve_Of(s) = (IF state = "Extending_FT" THEN 1 + nr
                         ELSE IF state = "Normal" THEN 1 ELSE 0)
        /\ Reserve_Of(s) \in Nat
    BY <2>1 DEF Reserve_Of
  <2>4. Nr_Of(s.Snapshots) + 1 + Reserve_Of(s) <= Snapshots_Last + 1
    BY <1>5, <1>6, <2>1, <2>3, Numbers
  <2> QED BY <1>1, <1>6, <2>1, <2>2, <2>4, CopyNInv
<1>7. CASE /\ Submitted(job.op) /\ sb.State = "Normal"
           /\ Init_SB_Ciphertext([sb EXCEPT !.State = Extending[job.op],
                                            !.Resizing_Nr_Of_PBAs = job.Nr_Of_Blks],
                                 [job EXCEPT !.Request_Finished = FALSE])
  <2>1. [sb EXCEPT !.State = Extending[job.op], !.Resizing_Nr_Of_PBAs = job.Nr_Of_Blks]
          = [sb EXCEPT !.Snapshots = sb.Snapshots, !.Curr_Snap = sb.Curr_Snap,
                       !.State = Extending[job.op], !.Resizing_Nr_Of_PBAs = job.Nr_Of_Blks]
    BY FieldsOfSuperblock DEF KInv, Fields
  <2>2. Init_SB_Ciphertext(
          [sb EXCEPT !.Snapshots = sb.Snapshots, !.Curr_Snap = sb.Curr_Snap,
                     !.State = Extending[job.op], !.Resizing_Nr_Of_PBAs = job.Nr_Of_Blks],
          [job EXCEPT !.Request_Finished = FALSE])
    BY <1>7, <2>1
  <2>3. CASE job.op = "VBD_Extension_Step"
    <3>1. Extending[job.op] = "Extending_VBD" /\ Reserve_Of(sb) = 1
      BY <1>0, <1>7, <2>3 DEF Reserve_Of
    <3>2. Nr_Of(sb.Snapshots) + 0 <= Snapshots_Last
      BY <1>4, <1>5, <3>1
    <3> QED BY <1>2, <1>3, <1>4, <1>6, <2>2, <3>1, <3>2
  <2>4. CASE job.op = "FT_Extension_Step"
    <3>1. Extending[job.op] = "Extending_FT"
      BY <1>0, <2>4
    <3>2. Nr_Of(sb.Snapshots) + job.Nr_Of_Blks + 1 <= Snapshots_Last
      BY <1>2, <1>7, <2>4 DEF NInv, Room
    <3>3. Nr_Of(sb.Snapshots) + (1 + job.Nr_Of_Blks) <= Snapshots_Last
      BY <1>3, <1>4, <1>5, <3>2
    <3> QED BY <1>2, <1>3, <1>4, <1>6, <2>2, <3>1, <3>3
  <2> QED BY <1>0, <2>3, <2>4
<1>8. CASE /\ Submitted(job.op) /\ sb.State = Extending[job.op] /\ UNCHANGED <<sb, sb_idx, curr_gen>>
           /\ job' = [job EXCEPT !.Nr_Of_Blks = sb.Resizing_Nr_Of_PBAs,
                                 !.state = <<Extend_In[job.op], "Pending">>]
  <2> DEFINE step == Extend_In[job.op]
  <2>1. /\ step \in {"VBD_Ext_Step_In_VBD", "FT_Ext_Step_In_FT"}
        /\ step = "VBD_Ext_Step_In_VBD" => sb.State = "Extending_VBD"
        /\ step = "FT_Ext_Step_In_FT" => sb.State = "Extending_FT"
    BY <1>0, <1>8
  <2>2. job' = [job EXCEPT !.Nr_Of_Blks = sb.Resizing_Nr_Of_PBAs, !.state = <<step, "Pending">>]
    BY <1>8
  <2> HIDE DEF step
  <2>3. job'.state = <<step, "Pending">> /\ job'.Nr_Of_Blks = sb.Resizing_Nr_Of_PBAs
    BY <1>2, <2>2 DEF Job
  <2>4. ~At(Copied)' /\ ~At({"Add_Key"})' /\ ~Last_Rekeyed'
    BY <2>1, <2>3, NextToJob DEF Copied, Last_Rekeyed
  <2>5. restarts = 0 /\ sb'.State # "Invalid" =>
           /\ Used' + Reserve' <= Snapshots_Last + 1
           /\ Cardinality(Kept_Snaps(sb'.Snapshots)) <= Max_Kept
    BY <1>1, <1>8, <2>4, SameRoom DEF Idle_Ctrl
  <2> QED BY <1>8, <2>1, <2>3, <2>4, <2>5, GoesOnNInv
<1>9. CASE /\ Completed(Extend_In[job.op])
           /\ LET last == job.Nr_Of_Blks = 0
                  vbd  == job.op = "VBD_Extension_Step"
              IN Init_SB_Ciphertext(
                   [sb EXCEPT !.Snapshots = IF vbd THEN job.Snapshots ELSE @,
                              !.Curr_Snap = IF vbd THEN Newest_Snapshot_Idx(job.Snapshots) ELSE @,
                              !.State = IF last THEN "Normal" ELSE @,
                              !.Resizing_Nr_Of_PBAs = IF vbd /\ last THEN @ ELSE job.Nr_Of_Blks],
                   [job EXCEPT !.Request_Finished = IF last THEN TRUE ELSE @])
  <2> DEFINE last == job.Nr_Of_Blks = 0
             vbd  == job.op = "VBD_Extension_Step"
             snaps == IF vbd THEN job.Snapshots ELSE sb.Snapshots
             curr == IF vbd THEN Newest_Snapshot_Idx(job.Snapshots) ELSE sb.Curr_Snap
             state == IF last THEN "Normal" ELSE sb.State
             nr == IF vbd /\ last THEN sb.Resizing_Nr_Of_PBAs ELSE job.Nr_Of_Blks
             finished == IF last THEN TRUE ELSE job.Request_Finished
             more == IF state = "Extending_FT" THEN 1 + nr ELSE IF state = "Normal" THEN 1 ELSE 0
  <2>1. Init_SB_Ciphertext([sb EXCEPT !.Snapshots = snaps, !.Curr_Snap = curr,
                                      !.State = state, !.Resizing_Nr_Of_PBAs = nr],
                           [job EXCEPT !.Request_Finished = finished])
    BY <1>9
  <2>2. finished \in BOOLEAN /\ nr \in 0 .. Max_Nr_Of_Blks
    BY <1>2, <1>3 DEF Job
  <2>3. CASE vbd
    <3>1. /\ Completed("VBD_Ext_Step_In_VBD") /\ At({"VBD_Ext_Step_In_VBD"})
          /\ ~Completed("Rekey_VBA_In_VBD") /\ Taking_Over
      BY <1>0, <1>9, <2>3, OfJob DEF Taking_Over
    <3>2. sb.State = "Extending_VBD"
      BY <3>1 DEF NInv, RequestFits
    <3>3. Newest_Snapshot_Idx(job.Snapshots) \in Snapshots_Index
      <4>1. Good(Snaps, Snap_Idx, Snap_Keys, cached, curr_gen)
        BY <1>2 DEF SInv, SnapshotsGood
      <4>2. Snap_Idx = Newest_Snapshot_Idx(job.Snapshots)
        BY <3>1 DEF Snap_Idx
      <4> QED BY <4>1, <4>2 DEF Good, Valid_Snaps
    <3>4. /\ Nr_Of(job.Snapshots) <= Max_Kept + 3 /\ Nr_Of(job.Snapshots) \in Nat
          /\ Kept_Snaps(job.Snapshots) \subseteq Kept_Snaps(sb.Snapshots)
      BY <1>2, <3>1, Numbers DEF NInv, Room, KeptFew
    <3>5. Cardinality(Kept_Snaps(job.Snapshots)) <= Max_Kept
      <4>1. /\ Cardinality(Kept_Snaps(job.Snapshots)) <= Cardinality(Kept_Snaps(sb.Snapshots))
            /\ Cardinality(Kept_Snaps(job.Snapshots)) \in Nat
            /\ Cardinality(Kept_Snaps(sb.Snapshots)) \in Nat
        BY <3>4, Numbers, NoMore
      <4> QED BY <1>4, <1>5, <4>1
    <3>6. /\ snaps = job.Snapshots /\ curr = Newest_Snapshot_Idx(job.Snapshots)
          /\ state \in {"Normal", "Extending_VBD"} /\ more \in {0, 1}
      BY <2>3, <3>2
    <3> HIDE DEF snaps, curr, state, nr, finished, vbd, last, more
    <3>7. Nr_Of(snaps) + more <= Snapshots_Last
      BY <1>5, <3>4, <3>6
    <3> QED BY <1>2, <1>6, <2>1, <2>2, <3>3, <3>5, <3>6, <3>7 DEF more
  <2>4. CASE ~vbd
    <3>1. Completed("FT_Ext_Step_In_FT") /\ At({"FT_Ext_Step_In_FT"})
      BY <1>0, <1>9, <2>4, OfJob
    <3>2. sb.State = "Extending_FT" /\ job.Nr_Of_Blks < sb.Resizing_Nr_Of_PBAs
      BY <3>1 DEF NInv, RequestFits, StepAdds
    <3>3. Reserve_Of(sb) = 1 + sb.Resizing_Nr_Of_PBAs
      BY <3>2 DEF Reserve_Of
    <3>4. /\ snaps = sb.Snapshots /\ curr = sb.Curr_Snap
          /\ state \in {"Normal", "Extending_FT"} /\ more \in {1, 1 + job.Nr_Of_Blks}
      BY <2>4, <3>2
    <3> HIDE DEF snaps, curr, state, nr, finished, vbd, last, more
    <3>5. Nr_Of(snaps) + more <= Snapshots_Last
      <4>1. more <= sb.Resizing_Nr_Of_PBAs /\ more \in Nat
        BY <1>3, <3>2, <3>4
      <4>2. sb.Resizing_Nr_Of_PBAs \in Nat
        BY <1>3
      <4> QED BY <1>4, <1>5, <3>3, <3>4, <4>1, <4>2
    <3> QED BY <1>2, <1>4, <1>6, <2>1, <2>2, <3>4, <3>5 DEF more
  <2> QED BY <2>3, <2>4
<1> QED BY <1>7, <1>8, <1>9 DEF Execute_Extension_Step

-----------------------------------------------------------------------------
(* A start goes on: it keeps what it has found. *)
LEMMA StartGoesOnNInv ==
  ASSUME NInv, Idle_Ctrl, sb'.State = "Invalid", Scanned',
         NEW step \in {"Read_SB", "Read_Current_SB", "Decrypt_Current_Key", "Add_Current_Key",
                       "Decrypt_Previous_Key", "Add_Previous_Key"},
         job'.state = <<step, "Pending">>
  PROVE  NInv'
<1>1. /\ \A steps : At(steps)' <=> step \in steps
      /\ \A x : Pending(x)' <=> x = step
      /\ \A x : ~Completed(x)'
  BY NextToJob
<1>2. \A op : ~Submitted(op)'
  BY NothingAsked
<1>3. ~raised' /\ DeviceDistinct'
  BY DEF NInv, Idle_Ctrl, DeviceDistinct, Found
<1>4. Room' /\ KeptFew'
  BY DEF Room, KeptFew
<1>5. RequestFits' /\ StepAdds'
  BY <1>1, <1>2 DEF RequestFits, StepAdds
<1> QED BY <1>3, <1>4, <1>5 DEF NInv

(* The superblock of the initializers has one snapshot, and none is kept. *)
LEMMA StartEndsNInv ==
  ASSUME Roomy, KInv, TInv, SInv, NInv, Idle_Ctrl, Init_SB_Plaintext, job.op = "Initialize",
         Completed("Add_Current_Key") \/ Completed("Add_Previous_Key")
  PROVE  NInv'
<1>1. Starting /\ Chosen_Read
      /\ At({"Decrypt_Current_Key", "Add_Current_Key", "Decrypt_Previous_Key",
             "Add_Previous_Key"})
  BY OfJob DEF Chosen_Read
<1> DEFINE s == job.SB_Ciphertext.plain
<1>2. /\ sb' = s /\ curr_gen' = job.Generation + 1
      /\ job' = [job EXCEPT !.success = TRUE, !.state = <<"Completed">>]
      /\ UNCHANGED <<device, restarts>>
  BY DEF Init_SB_Plaintext, Idle_Ctrl
<1>3. TypeOK /\ job.SB_Idx \in Superblocks_Index /\ job'.state = <<"Completed">>
  BY <1>2, JobTypes DEF TInv, TypeOK, Job
<1>4. /\ s = device.superblocks[job.SB_Idx].plain /\ s.State # "Invalid"
      /\ job.Generation = Curr(s).Gen
  BY <1>1 DEF TInv, StartTakes, SInv, StartKnows, KInv, StartConsistent
<1> HIDE DEF s
<1>5. \A steps : ~At(steps)'
  BY <1>3, AtNoStep
<1>6. ASSUME restarts = 0
      PROVE  s = Initial_Superblock
  <2>1. device.superblocks[job.SB_Idx] = Initial_Device.superblocks[job.SB_Idx]
    BY <1>1, <1>6 DEF TInv, StartTakes
  <2>2. job.SB_Idx = 0
    BY <1>3, <1>4, <2>1 DEF Initial_Device, Ciphertext_Invalid, Superblock_Invalid
  <2> QED BY <1>3, <1>4, <2>1, <2>2 DEF Initial_Device
<1>7. ASSUME restarts = 0
      PROVE  /\ Used' + Reserve' <= Snapshots_Last + 1
             /\ Cardinality(Kept_Snaps(sb'.Snapshots)) <= Max_Kept
  <2>0. s = Initial_Superblock
    BY <1>6, <1>7
  <2>1. sb' = Initial_Superblock /\ Curr(sb)'.Gen = 0 /\ curr_gen' = 1 /\ sb'.State = "Normal"
    <3>1. Curr(s) = Initial_Superblock.Snapshots[0] /\ Curr(s).Gen = 0 /\ s.State = "Normal"
      BY <2>0, InitialWhole
    <3>2. sb' = s /\ curr_gen' = 1
      BY <1>2, <1>4, <3>1
    <3>3. Curr(sb)' = Curr(s)
      BY <3>2 DEF Curr
    <3> QED BY <2>0, <3>1, <3>2, <3>3
  <2>2. Valid_Snaps(sb'.Snapshots) = {0} /\ Kept_Snaps(sb'.Snapshots) = {}
    BY <2>1, InitialWhole DEF Kept_Snaps
  <2>3. Nr_Of(sb'.Snapshots) = 1
    BY <2>2, FS_Singleton DEF Nr_Of
  <2>4. Cardinality(Kept_Snaps(sb'.Snapshots)) = 0
    BY <2>2, FS_EmptySet
  <2>5. Used' = 2 /\ Reserve' = 1
    BY <1>5, <2>1, <2>3 DEF Used, Reserve, Reserve_Of
  <2>6. Snapshots_Last >= 4
    BY SuperblockAssumption DEF Roomy
  <2> QED BY <2>4, <2>5, <2>6, SuperblockAssumption
<1> QED BY <1>2, <1>3, <1>7, EndsNInv

LEMMA InitializeNInv ==
  ASSUME Roomy, IInv, KInv, TInv, SInv, NInv, Idle_Ctrl, Execute_Initialize, ~Execute_Raises
  PROVE  NInv'
<1>0. job.op = "Initialize" /\ TypeOK /\ job \in Job
  BY DEF Execute_Initialize, TInv, TypeOK
<1>1. CASE /\ Submitted("Initialize") /\ Then("Read_SB")
           /\ UNCHANGED <<sb, sb_idx, curr_gen>>
  <2>1. Starting /\ sb.State = "Invalid"
    BY <1>1, OfSubmitted DEF KInv, StartConsistent
  <2>2. /\ job'.state = <<"Read_SB", "Pending">>
        /\ job'.SB_Found = job.SB_Found /\ job'.Read_SB_Idx = job.Read_SB_Idx
    BY <1>0, <1>1, ThenType DEF Steps
  <2>3. ~job'.SB_Found /\ job'.Read_SB_Idx = 0
    BY <1>1, <2>2 DEF NInv, Scanned
  <2>4. \A op : ~Submitted(op)'
    BY <2>2, NothingAsked
  <2>5. \A i \in Superblocks_Index : ~(i < 0)
    BY SuperblockAssumption DEF Superblocks_Index
  <2>6. Scanned'
    BY <2>3, <2>4, <2>5 DEF Scanned
  <2> QED BY <1>1, <2>1, <2>2, <2>6, StartGoesOnNInv
<1>2. CASE /\ Completed("Read_SB") /\ UNCHANGED <<sb, sb_idx, curr_gen>>
           /\ job' = IF job.Read_SB_Idx < Superblocks_Last
                       THEN [Chosen EXCEPT !.Read_SB_Idx = @ + 1,
                                           !.state = <<"Read_SB", "Pending">>]
                       ELSE [Chosen EXCEPT !.state = <<"Read_Current_SB", "Pending">>]
  <2>1. Starting /\ sb.State = "Invalid" /\ At({"Read_SB"})
    BY <1>0, <1>2, OfJob DEF KInv, StartConsistent
  <2>2. /\ Chosen \in Job /\ Chosen.Read_SB_Idx = job.Read_SB_Idx
        /\ \/ Chosen.SB_Found /\ Chosen.SB_Idx = job.Read_SB_Idx
           \/ Chosen.SB_Found = job.SB_Found /\ Chosen.SB_Idx = job.SB_Idx
    BY <1>0, <1>2, ChosenIs
  <2>3. ~Chosen.SB_Found => ~job.SB_Found /\ ~Found(device.superblocks[job.Read_SB_Idx])
    <3>1. Read_SB_Valid <=> Found(device.superblocks[job.Read_SB_Idx])
      BY <1>2, <2>1 DEF KInv, StartConsistent, Read_SB_Valid, Found
    <3>2. Read_SB_Valid /\ ~job.SB_Found => Chosen.SB_Found
      BY <1>0 DEF Chosen, Job
    <3>3. job.SB_Found => Chosen.SB_Found
      BY <2>2
    <3> QED BY <3>1, <3>2, <3>3
  <2>4. /\ job.SB_Found => job.SB_Idx < job.Read_SB_Idx
        /\ ~job.SB_Found => \A i \in Superblocks_Index :
                              i < job.Read_SB_Idx => ~Found(device.superblocks[i])
    BY <2>1 DEF NInv, Scanned
  <2>5. {job.SB_Idx, job.Read_SB_Idx} \subseteq Nat /\ Superblocks_Index \subseteq Nat
    <3>1. {job.SB_Idx, job.Read_SB_Idx} \subseteq Superblocks_Index
      BY <1>0, JobTypes
    <3>2. Superblocks_Index \subseteq Nat
      BY SuperblockAssumption DEF Superblocks_Index
    <3> QED BY <3>1, <3>2
  <2>6. CASE job.Read_SB_Idx < Superblocks_Last
    <3>1. /\ job'.state = <<"Read_SB", "Pending">> /\ job'.SB_Found = Chosen.SB_Found
          /\ job'.SB_Idx = Chosen.SB_Idx /\ job'.Read_SB_Idx = job.Read_SB_Idx + 1
      <4>1. job' = [Chosen EXCEPT !.Read_SB_Idx = @ + 1, !.state = <<"Read_SB", "Pending">>]
        BY <1>2, <2>6
      <4> QED BY <2>2, <4>1 DEF Job
    <3>2. \A op : ~Submitted(op)'
      BY <3>1, NothingAsked
    <3>3. job'.SB_Found => job'.SB_Idx < job'.Read_SB_Idx
      <4>1. job.SB_Idx \in Nat /\ job.Read_SB_Idx \in Nat
        BY <2>5
      <4>2. CASE Chosen.SB_Idx = job.Read_SB_Idx
        BY <3>1, <4>1, <4>2
      <4>3. CASE Chosen.SB_Found = job.SB_Found /\ Chosen.SB_Idx = job.SB_Idx
        <5>1. job'.SB_Found => job.SB_Idx < job.Read_SB_Idx
          BY <2>4, <3>1, <4>3
        <5> QED BY <3>1, <4>1, <4>3, <5>1
      <4> QED BY <2>2, <4>2, <4>3
    <3>4. ASSUME ~job'.SB_Found, NEW i \in Superblocks_Index, i < job'.Read_SB_Idx
          PROVE  ~Found(device'.superblocks[i])
      <4>1. i < job.Read_SB_Idx \/ i = job.Read_SB_Idx
        BY <2>5, <3>1, <3>4
      <4>2. ~Found(device.superblocks[i])
        BY <2>3, <2>4, <3>1, <3>4, <4>1
      <4> QED BY <4>2 DEF Idle_Ctrl
    <3>5. Scanned'
      BY <3>2, <3>3, <3>4 DEF Scanned, Found
    <3> QED BY <1>2, <2>1, <3>1, <3>5, StartGoesOnNInv
  <2>7. CASE ~(job.Read_SB_Idx < Superblocks_Last)
    <3>1. job'.state = <<"Read_Current_SB", "Pending">>
      <4>1. job' = [Chosen EXCEPT !.state = <<"Read_Current_SB", "Pending">>]
        BY <1>2, <2>7
      <4> QED BY <2>2, <4>1 DEF Job
    <3>2. Scanned'
      BY <3>1, NextToJob, NothingAsked DEF Scanned
    <3> QED BY <1>2, <2>1, <3>1, <3>2, StartGoesOnNInv
  <2> QED BY <2>6, <2>7
<1>3. ASSUME NEW step, NEW next, Completed(step), Then(next), UNCHANGED <<sb, sb_idx, curr_gen>>,
             \/ step = "Read_Current_SB" /\ next = "Decrypt_Current_Key"
             \/ step = "Decrypt_Current_Key" /\ next = "Add_Current_Key"
             \/ step = "Add_Current_Key" /\ next = "Decrypt_Previous_Key"
             \/ step = "Decrypt_Previous_Key" /\ next = "Add_Previous_Key"
      PROVE  NInv'
  <2>1. Starting /\ sb.State = "Invalid"
    BY <1>0, <1>3, OfJob DEF KInv, StartConsistent
  <2>2. job'.state = <<next, "Pending">>
    BY <1>0, <1>3, ThenType DEF Steps
  <2>3. Scanned'
    BY <1>3, <2>2, NextToJob, NothingAsked DEF Scanned
  <2> QED BY <1>3, <2>1, <2>2, <2>3, StartGoesOnNInv
<1>4. CASE /\ Init_SB_Plaintext
           /\ Completed("Add_Current_Key") \/ Completed("Add_Previous_Key")
  BY <1>0, <1>4, StartEndsNInv
<1> QED BY <1>1, <1>2, <1>3, <1>4 DEF Execute_Initialize

-----------------------------------------------------------------------------
(* Nothing that Execute meets makes it raise Program_Error. *)
LEMMA NoRaise ==
  ASSUME IInv, KInv, TInv, SInv, NInv
  PROVE  ~Execute_Raises
<1>0. TypeOK
  BY DEF TInv
<1>1. ASSUME job.op = "Initialize", Completed("Read_SB"), Read_SB_Valid
      PROVE  /\ Valid_Snaps(job.SB_Ciphertext.plain.Snapshots) # {}
             /\ ~(job.SB_Found /\ job.Generation = Read_SB_Gen)
  <2> DEFINE s == job.SB_Ciphertext.plain
  <2>1. Starting /\ At({"Read_SB"})
    BY <1>1, OfJob
  <2>2. /\ {job.SB_Idx, job.Read_SB_Idx} \subseteq Superblocks_Index
        /\ job.SB_Idx \in Nat /\ job.Read_SB_Idx \in Nat
    <3>1. {job.SB_Idx, job.Read_SB_Idx} \subseteq Superblocks_Index
      BY <1>0, JobTypes
    <3>2. Superblocks_Index \subseteq Nat
      BY SuperblockAssumption DEF Superblocks_Index
    <3> QED BY <3>1, <3>2
  <2>3. s = device.superblocks[job.Read_SB_Idx].plain /\ s.State # "Invalid"
    BY <1>1, <2>1 DEF KInv, StartConsistent, Read_SB_Valid
  <2>4. Read_SB_Gen = s.Snapshots[Newest_Snapshot_Idx(s.Snapshots)].Gen
    BY DEF Read_SB_Gen
  <2> HIDE DEF s
  <2>5. Whole(s, cached) /\ s.Snapshots \in Snapshots_Type
    BY <1>0, <2>2, <2>3, OnDevice DEF SInv, DeviceGood
  <2>6. Newest_Snapshot_Idx(s.Snapshots) = s.Curr_Snap /\ s.Curr_Snap \in Valid_Snaps(s.Snapshots)
    BY <2>5, GoodNewest DEF Whole, Good
  <2>7. Read_SB_Gen = Curr(device.superblocks[job.Read_SB_Idx].plain).Gen
    BY <2>3, <2>4, <2>6 DEF Curr
  <2>8. ASSUME job.SB_Found PROVE job.Generation # Read_SB_Gen
    <3>1. /\ job.Generation = Curr(device.superblocks[job.SB_Idx].plain).Gen
          /\ Found(device.superblocks[job.SB_Idx])
          /\ job.SB_Idx < job.Read_SB_Idx
      BY <2>1, <2>8 DEF SInv, StartKnows, KInv, StartConsistent, Found, NInv, Scanned
    <3>2. job.SB_Idx # job.Read_SB_Idx /\ Found(device.superblocks[job.Read_SB_Idx])
      BY <2>2, <2>3, <3>1 DEF Found
    <3> QED BY <2>2, <2>7, <3>1, <3>2 DEF NInv, DeviceDistinct
  <2>9. Valid_Snaps(s.Snapshots) # {}
    BY <2>6
  <2> QED BY <2>8, <2>9 DEF s
<1>2. ASSUME job.op = "Initialize", Completed("Read_SB"), ~Read_SB_Valid
      PROVE  ~(job.Read_SB_Idx = Superblocks_Last /\ ~job.SB_Found)
  <2> SUFFICES ASSUME job.Read_SB_Idx = Superblocks_Last, ~job.SB_Found PROVE FALSE
    OBVIOUS
  <2>1. Starting /\ At({"Read_SB"})
    BY <1>2, OfJob
  <2>2. ~Found(device.superblocks[Superblocks_Last])
    BY <1>2, <2>1 DEF KInv, StartConsistent, Read_SB_Valid, Found
  <2>3. \A i \in Superblocks_Index : i < Superblocks_Last => ~Found(device.superblocks[i])
    BY <2>1 DEF NInv, Scanned
  <2>4. \A i \in Superblocks_Index : i < Superblocks_Last \/ i = Superblocks_Last
    BY SuperblockAssumption DEF Superblocks_Index
  <2> QED BY <2>2, <2>3, <2>4 DEF SInv, SomeSuperblock
<1>3. ~(Completed("Create_Key") /\ sb.State # "Normal")
  BY OfJob DEF NInv, RequestFits
<1>4. ~(Submitted("Rekey_VBA") /\ sb.State # "Rekeying")
  BY OfSubmitted DEF KInv, StateOfOperation
<1>5. ASSUME job.op \in DOMAIN Extending
      PROVE  /\ ~(Submitted(job.op) /\ sb.State \notin {"Normal", Extending[job.op]})
             /\ ~(Completed(Extend_In[job.op]) /\ job.Nr_Of_Blks >= sb.Resizing_Nr_Of_PBAs)
  <2>1. /\ job.op \in {"VBD_Extension_Step", "FT_Extension_Step"}
        /\ Extend_In[job.op] = IF job.op = "VBD_Extension_Step" THEN "VBD_Ext_Step_In_VBD"
                                                               ELSE "FT_Ext_Step_In_FT"
        /\ Extending[job.op] = IF job.op = "VBD_Extension_Step" THEN "Extending_VBD"
                                                               ELSE "Extending_FT"
    BY <1>5 DEF Extending, Extend_In
  <2>2. ~(Submitted(job.op) /\ sb.State \notin {"Normal", Extending[job.op]})
    BY <2>1 DEF NInv, RequestFits
  <2>3. job.Nr_Of_Blks \in Nat /\ sb.Resizing_Nr_Of_PBAs \in Nat
    BY <1>0, NumbersOfSuperblock
  <2>4. Completed(Extend_In[job.op]) => job.Nr_Of_Blks < sb.Resizing_Nr_Of_PBAs
    BY <2>1 DEF NInv, StepAdds
  <2> QED BY <2>2, <2>3, <2>4
<1> QED BY <1>1, <1>2, <1>3, <1>4, <1>5 DEF Execute_Raises

LEMMA ExecuteNInv ==
  ASSUME Roomy, IInv, KInv, TInv, SInv, NInv, Execute
  PROVE  NInv'
<1>1. ~Execute_Raises
  BY NoRaise
<1>2. /\ Idle_Ctrl
      /\ \/ Execute_Prepare \/ Execute_Sync_Blk_IO_Completed \/ Execute_Secure_SB_Completed
         \/ Execute_Sync \/ Execute_Create_Snapshot \/ Execute_Discard_Snapshot
         \/ Execute_Initialize_Rekeying \/ Execute_Rekey_VBA \/ Execute_Extension_Step
         \/ Execute_Deinitialize \/ Execute_Initialize
  BY <1>1 DEF Execute
<1> QED BY <1>1, <1>2, PrepareNInv, SyncBlkIOCompletedNInv, SecureSBCompletedNInv,
           ShortOperationsNInv, InitializeRekeyingNInv, RekeyVBANInv, ExtensionNInv,
           DeinitializeNInv, InitializeNInv

(* Nothing of this depends on anything but the state.                      *)
LEMMA SameNInv == NInv /\ UNCHANGED vars => NInv'
<1> SUFFICES ASSUME NInv, UNCHANGED vars PROVE NInv'
  OBVIOUS
<1>1. (Room /\ KeptFew)'
  BY DEF vars, NInv, Room, KeptFew, Used, Reserve, Submitted, Completed, At, Taking_Over,
         Last_Rekeyed, Curr
<1>2. (~raised /\ RequestFits /\ StepAdds)'
  BY DEF vars, NInv, RequestFits, StepAdds, Submitted, Completed, Pending, At
<1>3. (DeviceDistinct /\ Scanned)'
  BY DEF vars, NInv, DeviceDistinct, Scanned, Found, Submitted, At, Curr
<1> QED BY <1>1, <1>2, <1>3 DEF NInv

(* Every step leaves the room that there must be, and none raises          *)
(* Program_Error.                                                          *)
THEOREM NextNInv ==
  ASSUME OneRun, Roomy, All, NInv, [Next]_vars
  PROVE  NInv'
<1>0. IInv /\ KInv /\ TInv /\ SInv
  BY DEF All
<1>1. CASE UNCHANGED vars
  BY <1>1, SameNInv
<1>2. CASE Next
  BY <1>0, <1>2, SubmitNInv, DropNInv, WritebackNInv, ExecuteNInv, QuietNInv,
     CacheWriteBackNInv, BlockIONInv, VBDRekeyingNInv, FTResizingNInv, RestartNInv DEF Next
<1> QED BY <1>1, <1>2

(* No operation ever meets a superblock, a snapshot or a number of         *)
(* snapshots that makes it raise Program_Error, when there is room for     *)
(* what clients keep and they extend the free tree only while there is.    *)
THEOREM NeverRaises ==
  ASSUME OneRun, Roomy
  PROVE  Spec => []NoProgramError
<1>1. Init => NInv
  BY InitNInv
<1>2. All /\ NInv /\ [Next]_vars => NInv'
  BY NextNInv
<1>3. NInv => NoProgramError
  BY DEF NInv, NoProgramError
<1> QED BY <1>1, <1>2, <1>3, SnapshotsInvariance, PTL DEF Spec
=============================================================================
