---------------------------- MODULE CacheProofs -----------------------------
(***************************************************************************)
(* Proofs about module Cache, for every number of jobs, slots and Block_IO *)
(* entries that satisfies CacheAssumption, and all addresses and data.     *)
(***************************************************************************)
EXTENDS Cache, FiniteSets, FiniteSetTheorems, TLAPS

-----------------------------------------------------------------------------
(* The contents of an unused buffer are data. *)
LEMMA AnyDataType == AnyData \in Data
BY CacheAssumption DEF AnyData

(* The initial state: nothing is cached, nothing is requested.             *)
THEOREM InitIInv == Init => IInv
<1> SUFFICES ASSUME Init PROVE IInv
  OBVIOUS
<1> USE CacheAssumption, AnyDataType
<1>1. TypeOK
  BY DEF Init, TypeOK, Job_Type, Slot_Type, Entry_Type, Invalid_Entry, Jobs_Index,
         Slots_Index, Data_Index, Idle, Reading, Readable, Writing
<1>2. SlotsDistinct /\ NoProgramError /\ CleanIsStable /\ ReadPinned
  BY DEF Init, SlotsDistinct, NoProgramError, CleanIsStable, ReadPinned, Reading
<1>3. IoConsistent
  BY DEF Init, IoConsistent, Invalid_Entry
<1> QED BY <1>1, <1>2, <1>3 DEF IInv

-----------------------------------------------------------------------------
(***************************************************************************)
(* Steps of the users and of the loops of Execute.                         *)
(***************************************************************************)
(* Submit_Primitive keeps the invariant. *)
LEMMA SubmitIInv ==
  ASSUME IInv, NEW j \in Jobs_Index, NEW op \in {"Read", "Write", "Sync"},
         NEW p \in PBA, NEW d \in Data, Submit_Primitive(j, op, p, d)
  PROVE  IInv'
<1> USE CacheAssumption DEF IInv
<1>1. jobs[j].state = "Invalid"
  BY DEF Submit_Primitive, IsFirst, Active
<1>1a. UNCHANGED <<slots, at, io, disk, error>>
  BY DEF Submit_Primitive
<1>1b. jobs' = [jobs EXCEPT ![j] = [state |-> "Submitted", op |-> op, pba |-> p, data |-> d]]
  BY DEF Submit_Primitive
<1>2. TypeOK'
  BY <1>1a, <1>1b DEF TypeOK, Job_Type
<1>3. ReadPinned'
  <2> SUFFICES ASSUME NEW s \in Slots_Index, slots[s].state \in Reading
               PROVE  \E k \in Jobs_Index : /\ jobs'[k].state = "Submitted"
                                            /\ jobs'[k].op = "Read"
                                            /\ jobs'[k].pba = slots[s].pba
    BY <1>1a DEF ReadPinned
  <2>1. PICK k \in Jobs_Index : /\ jobs[k].state = "Submitted"
                                /\ jobs[k].op = "Read"
                                /\ jobs[k].pba = slots[s].pba
    BY DEF ReadPinned
  <2>2. jobs'[k] = jobs[k]
    BY <1>1, <1>1b, <2>1 DEF TypeOK
  <2> QED BY <2>1, <2>2
<1>4. (SlotsDistinct /\ NoProgramError /\ CleanIsStable /\ IoConsistent)'
  BY <1>1a DEF SlotsDistinct, NoProgramError, CleanIsStable, IoConsistent
<1> QED BY <1>2, <1>3, <1>4

(* Taking the answer of a job keeps the invariant: the job dropped is no   *)
(* submitted read, so no slot waits for it.                                *)
LEMMA DropCompletedIInv ==
  ASSUME IInv, NEW j \in Jobs_Index, Drop_Completed_Primitive(j)
  PROVE  IInv'
<1> USE CacheAssumption, AnyDataType DEF IInv
<1>1. jobs[j].state = "Completed"
  BY DEF Drop_Completed_Primitive, IsFirst
<1>1a. UNCHANGED <<slots, at, io, disk, error>>
  BY DEF Drop_Completed_Primitive
<1>1b. jobs' = [jobs EXCEPT ![j].state = "Invalid", ![j].data = AnyData]
  BY DEF Drop_Completed_Primitive
<1>2. TypeOK'
  <2>1. [[jobs[j] EXCEPT !.state = "Invalid"] EXCEPT !.data = AnyData] \in Job_Type
    BY DEF TypeOK, Job_Type
  <2>2. jobs' = [jobs EXCEPT ![j] = [[jobs[j] EXCEPT !.state = "Invalid"] EXCEPT !.data = AnyData]]
    BY <1>1b DEF TypeOK, Job_Type
  <2>3. jobs' \in [Jobs_Index -> Job_Type]
    BY ONLY <2>1, <2>2, IInv DEF IInv, TypeOK
  <2> QED BY <1>1a, <2>3 DEF TypeOK
<1>3. ReadPinned'
  <2> SUFFICES ASSUME NEW s \in Slots_Index, slots[s].state \in Reading
               PROVE  \E k \in Jobs_Index : /\ jobs'[k].state = "Submitted"
                                            /\ jobs'[k].op = "Read"
                                            /\ jobs'[k].pba = slots[s].pba
    BY <1>1a DEF ReadPinned
  <2>1. PICK k \in Jobs_Index : /\ jobs[k].state = "Submitted"
                                /\ jobs[k].op = "Read"
                                /\ jobs[k].pba = slots[s].pba
    BY DEF ReadPinned
  <2>2. jobs'[k] = jobs[k]
    BY <1>1, <1>1b, <2>1 DEF TypeOK
  <2> QED BY <2>1, <2>2
<1>4. (SlotsDistinct /\ NoProgramError /\ CleanIsStable /\ IoConsistent)'
  BY <1>1a DEF SlotsDistinct, NoProgramError, CleanIsStable, IoConsistent
<1> QED BY <1>2, <1>3, <1>4

(* Leaving a loop of Execute keeps the invariant. *)
LEMMA AdvanceIInv == ASSUME IInv, Advance PROVE IInv'
<1> USE CacheAssumption DEF IInv
<1>1. TypeOK'
  BY DEF Advance, TypeOK, Idle, Generated, Completed, Answered
<1>2. (SlotsDistinct /\ NoProgramError /\ CleanIsStable /\ ReadPinned /\ IoConsistent)'
  BY DEF Advance, SlotsDistinct, NoProgramError, CleanIsStable, ReadPinned, IoConsistent
<1> QED BY <1>1, <1>2

-----------------------------------------------------------------------------
(***************************************************************************)
(* Requests between cache and back end.                                    *)
(***************************************************************************)
(* Handing a generated request to Block_IO keeps the invariant: the slot   *)
(* had no request, so the new one is its only one.                         *)
LEMMA DropGeneratedIInv ==
  ASSUME IInv, NEW s \in Slots_Index, NEW e \in Data_Index, Drop_Generated_Primitive(s, e)
  PROVE  IInv'
<1> USE CacheAssumption, AnyDataType DEF IInv
<1>1. /\ slots[s].state \in {"Read_Generated", "Write_Generated"}
      /\ io[e].state = "Unused"
  BY DEF Drop_Generated_Primitive, IsFirst, InState
<1>2. /\ slots'[s].pba = slots[s].pba
      /\ slots'[s].data = slots[s].data
      /\ slots'[s].state = IF slots[s].state = "Read_Generated" THEN "Read_In_Progress"
                                                                ELSE "Write_In_Progress"
      /\ slots' \in [Slots_Index -> Slot_Type]
      /\ \A t \in Slots_Index : t # s => slots'[t] = slots[t]
  BY <1>1 DEF Drop_Generated_Primitive, TypeOK, Slot_Type, Reading, Readable, Writing
<1>3. /\ io'[e].state = "Pending"
      /\ io'[e].slot = s
      /\ io'[e].pba = slots[s].pba
      /\ io'[e].op = IF slots[s].state = "Read_Generated" THEN "Read" ELSE "Write"
      /\ io'[e].op = "Write" => io'[e].data = slots[s].data
      /\ io' \in [Data_Index -> Entry_Type]
      /\ \A f \in Data_Index : f # e => io'[f] = io[f]
  BY <1>1 DEF Drop_Generated_Primitive, TypeOK, Slot_Type, Entry_Type
<1>4. UNCHANGED <<jobs, at, disk, error>>
  BY DEF Drop_Generated_Primitive
<1>5. TypeOK'
  BY <1>2, <1>3, <1>4 DEF TypeOK
<1>6. SlotsDistinct' /\ CleanIsStable' /\ NoProgramError'
  BY <1>1, <1>2, <1>4 DEF SlotsDistinct, CleanIsStable, NoProgramError
<1>7. ReadPinned'
  BY <1>1, <1>2, <1>4 DEF ReadPinned, Reading
<1>8. \A f \in Data_Index : io[f].state # "Unused" => io[f].slot # s
  BY <1>1 DEF IoConsistent, TypeOK, Entry_Type
<1>9. IoConsistent'
  BY <1>1, <1>2, <1>3, <1>4, <1>8, SMTT(30) DEF IoConsistent, TypeOK, Entry_Type
<1> QED BY <1>5, <1>6, <1>7, <1>9

(* An answer of the back end meets the slot that asked for it. *)
LEMMA MarkCompleteIInv ==
  ASSUME IInv, NEW e \in Data_Index, Mark_Generated_Primitive_Complete(e)
  PROVE  IInv'
<1> USE CacheAssumption, AnyDataType DEF IInv
<1>1. io[e].state = "Complete" /\ io[e].slot \in Slots_Index
  BY DEF Mark_Generated_Primitive_Complete, IsFirst, TypeOK, Entry_Type
<1>2. UNCHANGED <<jobs, at, disk>>
  BY DEF Mark_Generated_Primitive_Complete
<1>3. CASE ~io[e].success
  <2>1. UNCHANGED <<slots, io>> /\ error' = "IO"
    BY <1>3 DEF Mark_Generated_Primitive_Complete
  <2> QED
    BY <2>1, <1>2 DEF TypeOK, SlotsDistinct, NoProgramError, CleanIsStable, ReadPinned, IoConsistent
<1>4. CASE io[e].success
  <2> DEFINE s == io[e].slot
  <2>1. /\ slots[s].state = IF io[e].op = "Read" THEN "Read_In_Progress" ELSE "Write_In_Progress"
        /\ slots[s].pba = io[e].pba
        /\ io[e].data = disk[slots[s].pba]
        /\ io[e].op = "Write" => io[e].data = slots[s].data
    BY <1>1, <1>4 DEF IoConsistent
  <2>2. /\ slots' = [slots EXCEPT ![s].state = "Clean",
                                  ![s].data = IF io[e].op = "Read" THEN io[e].data ELSE @]
        /\ io' = [io EXCEPT ![e] = Invalid_Entry]
        /\ UNCHANGED error
    BY <1>4, <2>1 DEF Mark_Generated_Primitive_Complete
  <2>3. /\ slots'[s].state = "Clean"
        /\ slots'[s].pba = slots[s].pba
        /\ slots'[s].data = disk[slots[s].pba]
        /\ slots' \in [Slots_Index -> Slot_Type]
        /\ \A t \in Slots_Index : t # s => slots'[t] = slots[t]
    BY <1>1, <2>1, <2>2 DEF TypeOK, Slot_Type, Entry_Type, Readable
  <2>4. /\ io'[e].state = "Unused"
        /\ io' \in [Data_Index -> Entry_Type]
        /\ \A f \in Data_Index : f # e => io'[f] = io[f]
    BY <2>2 DEF TypeOK, Entry_Type, Invalid_Entry, Slots_Index
  <2>5. TypeOK'
    BY <1>2, <2>2, <2>3, <2>4 DEF TypeOK
  <2>6. SlotsDistinct' /\ CleanIsStable' /\ NoProgramError'
    <3>1. \A t \in Slots_Index : /\ slots'[t].pba = slots[t].pba
                                 /\ slots[t].state = "Invalid" => slots'[t].state = "Invalid"
      BY <2>1, <2>3
    <3>2. SlotsDistinct'
      BY <3>1 DEF SlotsDistinct
    <3>3. ASSUME NEW t \in Slots_Index, slots'[t].state = "Clean"
          PROVE  slots'[t].data = disk'[slots'[t].pba]
      <4>1. CASE t = s
        BY <4>1, <1>2, <2>3
      <4>2. CASE t # s
        BY <4>2, <3>3, <1>2, <2>3 DEF CleanIsStable
      <4> QED BY <4>1, <4>2
    <3>4. CleanIsStable'
      BY <3>3 DEF CleanIsStable
    <3>5. NoProgramError'
      BY <2>2 DEF NoProgramError
    <3> QED BY <3>2, <3>4, <3>5
  <2>7. ReadPinned'
    BY <1>1, <1>2, <2>1, <2>3 DEF ReadPinned, Reading
  <2>8. \A f \in Data_Index : f # e /\ io[f].state # "Unused" => io[f].slot # s
    BY <1>1 DEF IoConsistent
  <2>9. IoConsistent'
    BY <1>1, <1>2, <2>3, <2>4, <2>8 DEF IoConsistent, TypeOK, Entry_Type
  <2> QED BY <2>5, <2>6, <2>7, <2>9
<1> QED BY <1>3, <1>4

(* The back end taking a request keeps the invariant. *)
LEMMA IOInProgressIInv ==
  ASSUME IInv, NEW e \in Data_Index, IO_Request_In_Progress(e)
  PROVE  IInv'
<1> USE CacheAssumption DEF IInv
<1>1. io[e].state = "Pending"
  BY DEF IO_Request_In_Progress, IsFirst
<1>2. UNCHANGED <<jobs, slots, at, disk, error>>
  BY DEF IO_Request_In_Progress
<1>3. /\ io'[e] = [io[e] EXCEPT !.state = "In_Progress"]
      /\ io' \in [Data_Index -> Entry_Type]
      /\ \A f \in Data_Index : f # e => io'[f] = io[f]
  <2>1. io' = [io EXCEPT ![e].state = "In_Progress"] /\ io \in [Data_Index -> Entry_Type]
    BY DEF IO_Request_In_Progress, TypeOK
  <2>2. [io[e] EXCEPT !.state = "In_Progress"] \in Entry_Type
    BY <2>1 DEF Entry_Type
  <2> QED BY ONLY <2>1, <2>2, e \in Data_Index
<1>4. TypeOK'
  BY <1>2, <1>3 DEF TypeOK
<1>5. (SlotsDistinct /\ NoProgramError /\ CleanIsStable /\ ReadPinned)'
  BY <1>2 DEF SlotsDistinct, NoProgramError, CleanIsStable, ReadPinned
<1>6. IoConsistent'
  BY <1>1, <1>2, <1>3 DEF IoConsistent, TypeOK, Entry_Type
<1> QED BY <1>4, <1>5, <1>6

(* The device takes a written block: no other slot caches that block, so   *)
(* no clean slot and no other answer becomes stale.                        *)
LEMMA IOCompletedIInv ==
  ASSUME IInv, NEW e \in Data_Index, NEW success \in BOOLEAN, IO_Request_Completed(e, success)
  PROVE  IInv'
<1> USE CacheAssumption DEF IInv
<1> DEFINE s == io[e].slot
           p == io[e].pba
<1>1. io[e].state = "In_Progress" /\ s \in Slots_Index /\ p \in PBA
  BY DEF IO_Request_Completed, TypeOK, Entry_Type
<1>2. UNCHANGED <<jobs, slots, at, error>>
  BY DEF IO_Request_Completed
<1>3. /\ slots[s].pba = p
      /\ slots[s].state = IF io[e].op = "Read" THEN "Read_In_Progress" ELSE "Write_In_Progress"
      /\ io[e].op = "Write" => io[e].data = slots[s].data
  BY <1>1 DEF IoConsistent
<1>4. /\ disk' \in [PBA -> Data]
      /\ \A q \in PBA : q # p => disk'[q] = disk[q]
      /\ success /\ io[e].op = "Write" => disk'[p] = io[e].data
      /\ ~(success /\ io[e].op = "Write") => disk' = disk
  BY <1>1 DEF IO_Request_Completed, TypeOK, Entry_Type
<1>5. /\ io' \in [Data_Index -> Entry_Type]
      /\ \A f \in Data_Index : f # e => io'[f] = io[f]
      /\ io'[e].state = "Complete" /\ io'[e].success = success
      /\ io'[e].slot = s /\ io'[e].pba = p /\ io'[e].op = io[e].op
      /\ io[e].op = "Write" => io'[e].data = io[e].data
      /\ success => io'[e].data = disk'[p]
  <2>1. /\ io \in [Data_Index -> Entry_Type]
        /\ disk \in [PBA -> Data]
    BY DEF TypeOK
  <2> DEFINE d == IF success /\ io[e].op = "Read" THEN disk[p] ELSE io[e].data
  <2> DEFINE v == [io[e] EXCEPT !.state = "Complete", !.success = success, !.data = d]
  <2>2. /\ io' = [io EXCEPT ![e] = v]
        /\ d \in Data /\ io[e].op \in {"Read", "Write"}
    BY <1>1, <2>1 DEF IO_Request_Completed, Entry_Type
  <2> HIDE DEF d
  <2>3. v \in Entry_Type
    BY <2>1, <2>2 DEF Entry_Type
  <2>4. /\ v.state = "Complete" /\ v.success = success /\ v.data = d
        /\ v.slot = s /\ v.pba = p /\ v.op = io[e].op
    BY <2>1 DEF Entry_Type
  <2> HIDE DEF v
  <2>5. io[e].op = "Write" => d = io[e].data
    BY DEF d
  <2>6. success => d = disk'[p]
    BY <1>4, <2>2 DEF d
  <2> QED BY <2>1, <2>2, <2>3, <2>4, <2>5, <2>6
<1>6. TypeOK'
  BY <1>2, <1>4, <1>5 DEF TypeOK
<1>7. (SlotsDistinct /\ NoProgramError /\ ReadPinned)'
  BY <1>2 DEF SlotsDistinct, NoProgramError, ReadPinned
<1>8. \A t \in Slots_Index : t # s /\ slots[t].state # "Invalid" => slots[t].pba # p
  BY <1>1, <1>3 DEF SlotsDistinct
<1>9. CleanIsStable'
  BY <1>1, <1>2, <1>3, <1>4, <1>8 DEF CleanIsStable, TypeOK, Slot_Type
<1>10. ASSUME NEW f \in Data_Index, f # e, io[f].state # "Unused"
       PROVE  io[f].slot # s /\ io[f].pba # p /\ io[f].slot \in Slots_Index
  BY <1>1, <1>8, <1>10 DEF IoConsistent, TypeOK, Entry_Type
<1>11. IoConsistent'
  <2>1. ASSUME NEW f \in Data_Index, io'[f].state # "Unused"
        PROVE  /\ slots[io'[f].slot].state = IF io'[f].op = "Read" THEN "Read_In_Progress"
                                                                  ELSE "Write_In_Progress"
               /\ slots[io'[f].slot].pba = io'[f].pba
               /\ io'[f].op = "Write" => io'[f].data = slots[io'[f].slot].data
               /\ io'[f].state = "Complete" /\ io'[f].success => io'[f].data = disk'[io'[f].pba]
    <3>1. CASE f = e
      BY <3>1, <1>3, <1>5
    <3>2. CASE f # e
      <4>1. io'[f] = io[f] /\ io[f].state # "Unused" /\ io[f].pba # p /\ io[f].pba \in PBA
        BY <2>1, <3>2, <1>5, <1>10 DEF TypeOK, Entry_Type
      <4>2. disk'[io[f].pba] = disk[io[f].pba]
        BY <4>1, <1>4
      <4> QED BY <4>1, <4>2 DEF IoConsistent
    <3> QED BY <3>1, <3>2
  <2>2. ASSUME NEW f \in Data_Index, NEW g \in Data_Index,
               f # g, io'[f].state # "Unused", io'[g].state # "Unused"
        PROVE  io'[f].slot # io'[g].slot
    BY <2>2, <1>1, <1>5, <1>10 DEF IoConsistent
  <2> QED BY <2>1, <2>2, <1>2 DEF IoConsistent
<1> QED BY <1>6, <1>7, <1>9, <1>11

-----------------------------------------------------------------------------
(***************************************************************************)
(* The iterations of Execute_Each_Job.                                     *)
(***************************************************************************)
(* The pigeonhole argument: when a job finds no slot to reuse and none is  *)
(* being written back, some slot is dirty.  Otherwise every slot would     *)
(* hold a different block that a job other than this one refers to, and    *)
(* there are fewer such jobs than slots.                                   *)
LEMMA SomeSlotDirty ==
  ASSUME IInv, NEW j \in Jobs_Index, jobs[j].op \in {"Read", "Write"},
         Matching(jobs[j].pba) = {}, Evictable = {}, InState(Writing) = {}
  PROVE  InState({"Dirty"}) # {}
<1> USE CacheAssumption DEF IInv
<1> SUFFICES ASSUME InState({"Dirty"}) = {} PROVE FALSE
  OBVIOUS
<1> DEFINE Others == Jobs_Index \ {j}
<1>1. ASSUME NEW s \in Slots_Index
      PROVE  \E k \in Others : jobs[k].pba = slots[s].pba
  <2>1. slots[s].state \in Reading \cup {"Clean"}
    BY DEF InState, Evictable, TypeOK, Slot_Type, Reading, Readable, Writing
  <2>2. slots[s].pba # jobs[j].pba
    BY <2>1 DEF Matching, Reading
  <2>3. CASE slots[s].state \in Reading
    BY <2>2, <2>3 DEF ReadPinned
  <2>4. CASE slots[s].state = "Clean"
    <3>1. ~Clean_Slot_Evictable(s)
      BY <2>4 DEF Evictable
    <3> QED BY <2>2, <3>1 DEF Clean_Slot_Evictable
  <2> QED BY <2>1, <2>3, <2>4
<1> DEFINE Owner == [s \in Slots_Index |-> CHOOSE k \in Others : jobs[k].pba = slots[s].pba]
<1>2. ASSUME NEW s \in Slots_Index
      PROVE  Owner[s] \in Others /\ jobs[Owner[s]].pba = slots[s].pba
  BY <1>1
<1>3. Owner \in [Slots_Index -> Others]
  BY <1>2
<1>4. /\ IsFiniteSet(Slots_Index) /\ Cardinality(Slots_Index) = Nr_Of_Slots
      /\ IsFiniteSet(Jobs_Index) /\ Cardinality(Jobs_Index) = Nr_Of_Jobs
  <2>1. /\ 0 \in Int /\ Nr_Of_Slots - 1 \in Int /\ Nr_Of_Jobs - 1 \in Int
        /\ ~(0 > Nr_Of_Slots - 1) /\ ~(0 > Nr_Of_Jobs - 1)
    OBVIOUS
  <2>2. IsFiniteSet(Slots_Index) /\ Cardinality(Slots_Index) = Nr_Of_Slots - 1 - 0 + 1
    BY <2>1, FS_Interval DEF Slots_Index
  <2>3. IsFiniteSet(Jobs_Index) /\ Cardinality(Jobs_Index) = Nr_Of_Jobs - 1 - 0 + 1
    BY <2>1, FS_Interval DEF Jobs_Index
  <2> QED BY <2>2, <2>3
<1>5. IsFiniteSet(Others) /\ Cardinality(Others) = Nr_Of_Jobs - 1
  BY <1>4, FS_RemoveElement
<1>6. Cardinality(Others) < Cardinality(Slots_Index)
  BY <1>4, <1>5
<1> HIDE DEF Owner, Others
<1>7. PICK s \in Slots_Index, t \in Slots_Index : s # t /\ Owner[s] = Owner[t]
  BY <1>3, <1>4, <1>5, <1>6, FS_PigeonHole
<1>8. slots[s].pba = slots[t].pba
  BY <1>2, <1>7
<1>9. slots[s].state # "Invalid" /\ slots[t].state # "Invalid"
  BY DEF Evictable
<1> QED BY <1>7, <1>8, <1>9 DEF SlotsDistinct

(* What an iteration of Execute_Each_Job can do to the jobs and the slots. *)
WritesBack ==
  /\ \A s \in Slots_Index :
       \/ slots'[s] = slots[s]
       \/ /\ slots[s].state = "Dirty"
          /\ slots'[s] = [slots[s] EXCEPT !.state = "Write_Generated"]
  /\ slots' \in [Slots_Index -> Slot_Type]
  /\ UNCHANGED jobs

Answers(j, d) ==
  /\ \/ /\ jobs[j].op = "Read"
        /\ \E s \in Slots_Index : /\ slots[s].state \in Readable
                                  /\ slots[s].pba = jobs[j].pba
                                  /\ d = slots[s].data
     \/ /\ jobs[j].op = "Sync"
        /\ d = AnyData
        /\ InState({"Dirty"} \cup Writing) = {}
  /\ jobs[j].state = "Submitted"
  /\ Complete(j, d)
  /\ UNCHANGED slots

Fetches(j, s) ==
  /\ jobs[j].state = "Submitted" /\ jobs[j].op = "Read"
  /\ Matching(jobs[j].pba) = {}
  /\ s \in Evictable
  /\ slots' = [slots EXCEPT ![s] = [state |-> "Read_Generated", pba |-> jobs[j].pba,
                                    data |-> AnyData]]
  /\ UNCHANGED jobs

Stores(j, s) ==
  /\ jobs[j].state = "Submitted" /\ jobs[j].op = "Write"
  /\ \/ s \in Matching(jobs[j].pba) /\ slots[s].state \in {"Clean", "Dirty"}
     \/ Matching(jobs[j].pba) = {} /\ s \in Evictable
  /\ slots' = [slots EXCEPT ![s] = [state |-> "Dirty", pba |-> jobs[j].pba,
                                    data |-> jobs[j].data]]
  /\ Complete(j, AnyData)

(* What a job without a reusable slot does: wait, or write a slot back.    *)
(* Never does it raise Program_Error.                                      *)
LEMMA MakeRoomCases ==
  ASSUME IInv, NEW j \in Jobs_Index, jobs[j].op \in {"Read", "Write"},
         Matching(jobs[j].pba) = {}, Make_Room, UNCHANGED jobs
  PROVE  UNCHANGED error /\ (UNCHANGED <<jobs, slots>> \/ WritesBack)
<1>1. CASE InState(Writing) # {}
  BY <1>1 DEF Make_Room
<1>2. CASE InState(Writing) = {}
  <2>1. InState({"Dirty"}) # {}
    BY <1>2, SomeSlotDirty DEF Make_Room
  <2>2. PICK s \in Slots_Index : /\ IsFirst(s, InState({"Dirty"}))
                                /\ slots' = [slots EXCEPT ![s].state = "Write_Generated"]
                                /\ UNCHANGED error
    BY <1>2, <2>1 DEF Make_Room, Write_Back_One_Dirty_Slot
  <2>3. slots[s].state = "Dirty"
    BY <2>2 DEF IsFirst, InState
  <2>4. WritesBack
    BY <2>2, <2>3 DEF WritesBack, IInv, TypeOK, Slot_Type, Readable, Writing
  <2> QED BY <2>2, <2>4
<1> QED BY <1>1, <1>2

(* The five effects an iteration of Execute_Each_Job can have. *)
LEMMA ExecuteCases ==
  ASSUME IInv, Execute_Each_Job
  PROVE  /\ UNCHANGED error
         /\ at \in Jobs_Index /\ at' = at + 1
         /\ UNCHANGED <<io, disk>>
         /\ \/ UNCHANGED <<jobs, slots>>
            \/ WritesBack
            \/ \E d \in Data : Answers(at, d)
            \/ \E s \in Slots_Index : Fetches(at, s)
            \/ \E s \in Slots_Index : Stores(at, s)
<1> USE CacheAssumption, AnyDataType
<1>1. at \in Jobs_Index /\ at' = at + 1 /\ UNCHANGED <<io, disk>> /\ Job_Execute(at)
  BY DEF Execute_Each_Job
<1>2. TypeOK
  BY DEF IInv
<1>3. CASE jobs[at].state # "Submitted"
  BY <1>1, <1>3 DEF Job_Execute
<1>4. CASE jobs[at].state = "Submitted" /\ jobs[at].op = "Sync"
  <2>1. Job_Execute_Sync(at)
    BY <1>1, <1>4 DEF Job_Execute
  <2>2. CASE InState({"Dirty"} \cup Writing) = {}
    <3>1. slots' = slots
      <4>1. slots' = [s \in Slots_Index |-> slots[s]]
        BY <2>1, <2>2 DEF Job_Execute_Sync, InState
      <4> QED BY <4>1, <1>2 DEF TypeOK
    <3>2. Complete(at, AnyData) /\ UNCHANGED error
      BY <2>1, <2>2 DEF Job_Execute_Sync
    <3> QED BY <1>1, <1>4, <2>2, <3>1, <3>2 DEF Answers
  <2>3. CASE InState({"Dirty"} \cup Writing) # {}
    <3>1. UNCHANGED <<jobs, error>>
      BY <2>1, <2>3 DEF Job_Execute_Sync
    <3>2. WritesBack
      BY <1>2, <2>1, <3>1 DEF Job_Execute_Sync, WritesBack, TypeOK, Slot_Type, Readable, Writing
    <3> QED BY <1>1, <3>1, <3>2
  <2> QED BY <2>2, <2>3
<1>5. CASE jobs[at].state = "Submitted" /\ jobs[at].op = "Read"
  <2>1. Job_Execute_Read(at)
    BY <1>1, <1>5 DEF Job_Execute
  <2>2. CASE \E s \in Slots_Index :
                /\ IsFirst(s, Matching(jobs[at].pba))
                /\ IF slots[s].state \in Readable
                     THEN Complete(at, slots[s].data)
                     ELSE UNCHANGED jobs
                /\ UNCHANGED <<slots, error>>
    <3>1. PICK s \in Slots_Index :
                /\ IsFirst(s, Matching(jobs[at].pba))
                /\ IF slots[s].state \in Readable
                     THEN Complete(at, slots[s].data)
                     ELSE UNCHANGED jobs
                /\ UNCHANGED <<slots, error>>
      BY <2>2
    <3>2. slots[s].pba = jobs[at].pba /\ slots[s].data \in Data
      BY <3>1, <1>2 DEF IsFirst, Matching, TypeOK, Slot_Type
    <3>3. CASE slots[s].state \in Readable
      BY <1>1, <1>5, <3>1, <3>2, <3>3 DEF Answers
    <3>4. CASE slots[s].state \notin Readable
      BY <1>1, <3>1, <3>4
    <3> QED BY <3>3, <3>4
  <2>3. CASE /\ Matching(jobs[at].pba) = {}
             /\ \E s \in Slots_Index :
                  /\ IsFirst(s, Evictable)
                  /\ slots' = [slots EXCEPT ![s] = [state |-> "Read_Generated",
                                                    pba |-> jobs[at].pba, data |-> AnyData]]
             /\ UNCHANGED <<jobs, error>>
    BY <1>1, <1>5, <2>3 DEF Fetches, IsFirst
  <2>4. CASE Matching(jobs[at].pba) = {} /\ Make_Room /\ UNCHANGED jobs
    BY <1>1, <1>5, <2>4, MakeRoomCases
  <2> QED BY <2>1, <2>2, <2>3, <2>4 DEF Job_Execute_Read
<1>6. CASE jobs[at].state = "Submitted" /\ jobs[at].op = "Write"
  <2> DEFINE p == jobs[at].pba
             Put(s) == slots' = [slots EXCEPT ![s] = [state |-> "Dirty", pba |-> p,
                                                      data |-> jobs[at].data]]
  <2>1. Job_Execute_Write(at)
    BY <1>1, <1>6 DEF Job_Execute
  <2>2. CASE \E s \in Slots_Index :
                /\ IsFirst(s, Matching(p))
                /\ IF slots[s].state \in {"Clean", "Dirty"}
                     THEN Put(s) /\ Complete(at, AnyData)
                     ELSE UNCHANGED <<slots, jobs>>
                /\ UNCHANGED error
    <3>1. PICK s \in Slots_Index :
                /\ IsFirst(s, Matching(p))
                /\ IF slots[s].state \in {"Clean", "Dirty"}
                     THEN Put(s) /\ Complete(at, AnyData)
                     ELSE UNCHANGED <<slots, jobs>>
                /\ UNCHANGED error
      BY <2>2
    <3>2. CASE slots[s].state \in {"Clean", "Dirty"}
      BY <1>1, <1>6, <3>1, <3>2 DEF Stores, IsFirst
    <3>3. CASE slots[s].state \notin {"Clean", "Dirty"}
      BY <1>1, <3>1, <3>3
    <3> QED BY <3>2, <3>3
  <2>3. CASE /\ Matching(p) = {}
             /\ \E s \in Slots_Index : IsFirst(s, Evictable) /\ Put(s)
             /\ Complete(at, AnyData)
             /\ UNCHANGED error
    BY <1>1, <1>6, <2>3 DEF Stores, IsFirst
  <2>4. CASE Matching(p) = {} /\ Make_Room /\ UNCHANGED jobs
    BY <1>1, <1>6, <2>4, MakeRoomCases
  <2> QED BY <2>1, <2>2, <2>3, <2>4 DEF Job_Execute_Write
<1> QED BY <1>1, <1>2, <1>3, <1>4, <1>5, <1>6 DEF TypeOK, Job_Type

(* A slot that may be reused is invalid or clean. *)
LEMMA EvictableState ==
  ASSUME NEW s \in Evictable
  PROVE  s \in Slots_Index /\ slots[s].state \in {"Invalid", "Clean"}
BY DEF Evictable

(* No request is under way for a slot that a job may overwrite. *)
LEMMA SlotNotInUse ==
  ASSUME IInv, NEW s \in Slots_Index, slots[s].state \in {"Invalid", "Clean", "Dirty"},
         NEW e \in Data_Index, io[e].state # "Unused"
  PROVE  io[e].slot # s /\ io[e].slot \in Slots_Index
BY DEF IInv, IoConsistent, TypeOK, Entry_Type

(* An iteration of Execute_Each_Job keeps the invariant. *)
LEMMA ExecuteIInv == ASSUME IInv, Execute_Each_Job PROVE IInv'
<1> USE CacheAssumption, AnyDataType
<1> DEFINE j == at
<1>1. /\ j \in Jobs_Index /\ at' \in 0 .. Idle
      /\ UNCHANGED <<io, disk, error>>
  BY ExecuteCases DEF Jobs_Index, Idle
<1>2. /\ TypeOK /\ SlotsDistinct /\ NoProgramError /\ CleanIsStable /\ ReadPinned /\ IoConsistent
      /\ jobs[j] \in Job_Type
  BY <1>1 DEF IInv, TypeOK
<1>3. NoProgramError'
  BY <1>1, <1>2 DEF NoProgramError
<1>4. CASE UNCHANGED <<jobs, slots>>
  BY <1>1, <1>2, <1>4 DEF IInv, TypeOK, SlotsDistinct, NoProgramError, CleanIsStable, ReadPinned,
                          IoConsistent
<1>5. CASE WritesBack
  <2>1. /\ slots' \in [Slots_Index -> Slot_Type]
        /\ UNCHANGED jobs
        /\ \A s \in Slots_Index :
             /\ slots'[s].pba = slots[s].pba
             /\ slots'[s].data = slots[s].data
             /\ \/ slots'[s].state = slots[s].state
                \/ slots[s].state = "Dirty" /\ slots'[s].state = "Write_Generated"
    BY <1>2, <1>5 DEF WritesBack, TypeOK, Slot_Type
  <2>2. TypeOK'
    BY <1>1, <1>2, <2>1 DEF TypeOK
  <2>3. SlotsDistinct' /\ CleanIsStable'
    BY <1>1, <1>2, <2>1 DEF SlotsDistinct, CleanIsStable
  <2>4. ReadPinned'
    BY <1>2, <2>1 DEF ReadPinned, Reading
  <2>5. \A e \in Data_Index : io[e].state # "Unused" => slots'[io[e].slot] = slots[io[e].slot]
    BY <1>5, SlotNotInUse DEF WritesBack, IInv, TypeOK, Entry_Type
  <2>6. IoConsistent'
    BY <1>1, <1>2, <2>5 DEF IoConsistent
  <2> QED BY <1>3, <2>2, <2>3, <2>4, <2>6 DEF IInv
<1>6. CASE \E d \in Data : Answers(j, d)
  <2>1. PICK d \in Data : Answers(j, d)
    BY <1>6
  <2>2. UNCHANGED slots
    BY <2>1 DEF Answers
  <2>3. /\ jobs' = [jobs EXCEPT ![j].state = "Completed", ![j].data = d]
        /\ jobs[j].state = "Submitted"
    BY <2>1 DEF Answers, Complete
  <2>4. TypeOK'
    BY <1>1, <1>2, <2>2, <2>3 DEF TypeOK, Job_Type
  <2>5. ReadPinned'
    <3> SUFFICES ASSUME NEW s \in Slots_Index, slots[s].state \in Reading
                 PROVE  \E k \in Jobs_Index : /\ jobs'[k].state = "Submitted"
                                              /\ jobs'[k].op = "Read"
                                              /\ jobs'[k].pba = slots[s].pba
      BY <2>2 DEF ReadPinned
    <3>1. PICK k \in Jobs_Index : /\ jobs[k].state = "Submitted"
                                  /\ jobs[k].op = "Read"
                                  /\ jobs[k].pba = slots[s].pba
      BY <1>2 DEF ReadPinned
    <3>2. k # j
      <4> SUFFICES ASSUME k = j PROVE FALSE
        OBVIOUS
      <4>1. PICK t \in Slots_Index : slots[t].state \in Readable /\ slots[t].pba = jobs[j].pba
        BY <2>1, <3>1 DEF Answers
      <4> QED BY <1>2, <3>1, <4>1 DEF SlotsDistinct, Reading, Readable, Writing
    <3>3. jobs'[k] = jobs[k]
      BY <1>2, <2>3, <3>2 DEF TypeOK
    <3> QED BY <3>1, <3>3
  <2>6. SlotsDistinct' /\ CleanIsStable' /\ IoConsistent'
    BY <1>1, <1>2, <2>2 DEF SlotsDistinct, CleanIsStable, IoConsistent
  <2> QED BY <1>3, <2>4, <2>5, <2>6 DEF IInv
<1>7. CASE \E s \in Slots_Index : Fetches(j, s)
  <2>1. PICK s \in Slots_Index : Fetches(j, s)
    BY <1>7
  <2>2. /\ slots[s].state \in {"Invalid", "Clean"}
        /\ jobs[j].state = "Submitted" /\ jobs[j].op = "Read"
        /\ UNCHANGED jobs
    BY <2>1, EvictableState DEF Fetches
  <2>3. /\ slots'[s].state = "Read_Generated" /\ slots'[s].pba = jobs[j].pba
        /\ slots' \in [Slots_Index -> Slot_Type]
        /\ \A t \in Slots_Index : t # s => slots'[t] = slots[t]
    BY <1>1, <1>2, <2>1 DEF Fetches, TypeOK, Slot_Type, Job_Type, Reading
  <2>4. \A t \in Slots_Index : slots[t].state # "Invalid" => slots[t].pba # jobs[j].pba
    BY <2>1 DEF Fetches, Matching
  <2>5. TypeOK'
    BY <1>1, <1>2, <2>2, <2>3 DEF TypeOK
  <2>6. SlotsDistinct' /\ CleanIsStable'
    BY <1>1, <1>2, <2>3, <2>4 DEF SlotsDistinct, CleanIsStable
  <2>7. ReadPinned'
    BY <1>1, <1>2, <2>2, <2>3 DEF ReadPinned
  <2>8. \A e \in Data_Index : io[e].state # "Unused" => slots'[io[e].slot] = slots[io[e].slot]
    BY <2>2, <2>3, SlotNotInUse
  <2>9. IoConsistent'
    BY <1>1, <1>2, <2>8 DEF IoConsistent
  <2> QED BY <1>3, <2>5, <2>6, <2>7, <2>9 DEF IInv
<1>8. CASE \E s \in Slots_Index : Stores(j, s)
  <2>1. PICK s \in Slots_Index : Stores(j, s)
    BY <1>8
  <2>2. /\ slots[s].state \in {"Invalid", "Clean", "Dirty"}
        /\ jobs[j].state = "Submitted" /\ jobs[j].op = "Write"
        /\ jobs' = [jobs EXCEPT ![j].state = "Completed", ![j].data = AnyData]
    BY <2>1, EvictableState DEF Stores, Complete
  <2>3. /\ slots'[s].state = "Dirty" /\ slots'[s].pba = jobs[j].pba
        /\ slots' \in [Slots_Index -> Slot_Type]
        /\ \A t \in Slots_Index : t # s => slots'[t] = slots[t]
    BY <1>1, <1>2, <2>1 DEF Stores, TypeOK, Slot_Type, Job_Type, Readable
  <2>4. \A t \in Slots_Index : t # s /\ slots[t].state # "Invalid" => slots[t].pba # jobs[j].pba
    BY <1>2, <2>1 DEF Stores, Matching, SlotsDistinct
  <2>5. TypeOK'
    BY <1>1, <1>2, <2>2, <2>3 DEF TypeOK, Job_Type
  <2>6. SlotsDistinct' /\ CleanIsStable'
    BY <1>1, <1>2, <2>3, <2>4 DEF SlotsDistinct, CleanIsStable
  <2>7. \A k \in Jobs_Index : jobs[k].op = "Read" => jobs'[k] = jobs[k]
    BY <1>2, <2>2 DEF TypeOK
  <2>8. ReadPinned'
    BY <1>2, <2>3, <2>7 DEF ReadPinned, Reading
  <2>9. \A e \in Data_Index : io[e].state # "Unused" => slots'[io[e].slot] = slots[io[e].slot]
    BY <2>2, <2>3, SlotNotInUse
  <2>10. IoConsistent'
    BY <1>1, <1>2, <2>9 DEF IoConsistent
  <2> QED BY <1>3, <2>5, <2>6, <2>8, <2>10 DEF IInv
<1> QED BY <1>4, <1>5, <1>6, <1>7, <1>8, ExecuteCases

-----------------------------------------------------------------------------
(* A step that changes nothing keeps the invariant. *)
LEMMA StutterIInv == ASSUME IInv, UNCHANGED vars PROVE IInv'
BY DEF IInv, TypeOK, SlotsDistinct, NoProgramError, CleanIsStable, ReadPinned, IoConsistent, vars

(* Every step of the cache keeps the invariant. *)
LEMMA NextIInv == ASSUME IInv, [Next]_vars PROVE IInv'
<1> USE AnyDataType, CacheAssumption
<1>1. CASE Users
  BY <1>1, SubmitIInv DEF Users
<1>2. CASE Library
  BY <1>2, AdvanceIInv, ExecuteIInv, DropCompletedIInv, DropGeneratedIInv, MarkCompleteIInv
     DEF Library
<1>3. CASE BackEnd
  BY <1>3, IOInProgressIInv, IOCompletedIInv DEF BackEnd
<1>4. CASE UNCHANGED vars
  BY <1>4, StutterIInv
<1> QED BY <1>1, <1>2, <1>3, <1>4 DEF Next

(* The invariant holds in every reachable state, for all sizes.            *)
THEOREM Invariance == Spec => []IInv
<1>1. Init => IInv
  BY InitIInv
<1>2. IInv /\ [Next]_vars => IInv'
  BY NextIInv
<1> QED BY <1>1, <1>2, PTL DEF Spec

(* The state stays well typed.                                             *)
THEOREM TypeCorrect == Spec => []TypeOK
<1>1. IInv => TypeOK
  BY DEF IInv
<1> QED BY <1>1, Invariance, PTL

(* No block is ever cached in two slots.                                   *)
THEOREM NeverCachedTwice == Spec => []SlotsDistinct
<1>1. IInv => SlotsDistinct
  BY DEF IInv
<1> QED BY <1>1, Invariance, PTL

(* The cache itself never raises Program_Error, however many jobs compete  *)
(* for its slots.                                                          *)
THEOREM NeverOutOfSlots == Spec => []NoProgramError
<1>1. IInv => NoProgramError
  BY DEF IInv
<1> QED BY <1>1, Invariance, PTL

(* A slot whose data are on their way is awaited by a job.                 *)
THEOREM WaitingSlotsAwaited == Spec => []ReadPinned
<1>1. IInv => ReadPinned
  BY DEF IInv
<1> QED
  BY <1>1, Invariance, PTL

(* Every request at the back end meets, when it is answered, the slot that *)
(* asked for it, in the state in which it asked.                           *)
THEOREM AnswersMeetSlots == Spec => []IoConsistent
<1>1. IInv => IoConsistent
  BY DEF IInv
<1> QED
  BY <1>1, Invariance, PTL

(* What may be evicted without a write-back is what the device holds.      *)
THEOREM Coherence == Spec => []CleanIsStable
<1>1. IInv => CleanIsStable
  BY DEF IInv
<1> QED BY <1>1, Invariance, PTL

-----------------------------------------------------------------------------
(***************************************************************************)
(* The cache implements the block store.                                   *)
(***************************************************************************)
(* A function f is what readers see exactly when it agrees with every      *)
(* readable slot and, for the blocks in no such slot, with the device.     *)
LEMMA StoreOfIs ==
  ASSUME NEW sl, NEW dk, NEW f \in [PBA -> Data],
         \A s \in Slots_Index :
           sl[s].state \in Readable => f[sl[s].pba] = sl[s].data,
         \A p \in PBA :
           (\A s \in Slots_Index : sl[s].state \in Readable => sl[s].pba # p) => f[p] = dk[p]
  PROVE  StoreOf(sl, dk) = f
<1> DEFINE Holds(s, p) == sl[s].state \in Readable /\ sl[s].pba = p
           Value(p) == IF \E s \in Slots_Index : Holds(s, p)
                         THEN sl[CHOOSE s \in Slots_Index : Holds(s, p)].data
                         ELSE dk[p]
<1>1. ASSUME NEW p \in PBA PROVE Value(p) = f[p]
  <2>1. CASE \E s \in Slots_Index : Holds(s, p)
    <3> DEFINE c == CHOOSE s \in Slots_Index : Holds(s, p)
    <3>1. c \in Slots_Index /\ Holds(c, p)
      BY <2>1
    <3> QED BY <2>1, <3>1
  <2>2. CASE ~\E s \in Slots_Index : Holds(s, p)
    BY <2>2
  <2> QED BY <2>1, <2>2
<1>2. StoreOf(sl, dk) = [p \in PBA |-> Value(p)]
  BY DEF StoreOf
<1>3. [p \in PBA |-> Value(p)] = [p \in PBA |-> f[p]]
  BY <1>1
<1> QED BY <1>2, <1>3

(* Readers see the data of readable slots, and the device otherwise. *)
LEMMA StoreIs ==
  ASSUME IInv
  PROVE  /\ Store \in [PBA -> Data]
         /\ \A s \in Slots_Index :
              slots[s].state \in Readable => Store[slots[s].pba] = slots[s].data
         /\ \A p \in PBA :
              (\A s \in Slots_Index : slots[s].state \in Readable => slots[s].pba # p)
                => Store[p] = disk[p]
<1> USE DEF IInv
<1> DEFINE Holds(s, p) == slots[s].state \in Readable /\ slots[s].pba = p
           Value(p) == IF \E s \in Slots_Index : Holds(s, p)
                         THEN slots[CHOOSE s \in Slots_Index : Holds(s, p)].data
                         ELSE disk[p]
<1>1. Store = [p \in PBA |-> Value(p)]
  BY DEF Store, StoreOf
<1>4. ASSUME NEW p \in PBA PROVE Value(p) \in Data
  <2>1. CASE \E s \in Slots_Index : Holds(s, p)
    <3> DEFINE c == CHOOSE s \in Slots_Index : Holds(s, p)
    <3>1. c \in Slots_Index
      BY <2>1
    <3> QED BY <2>1, <3>1 DEF TypeOK, Slot_Type
  <2>2. CASE ~\E s \in Slots_Index : Holds(s, p)
    BY <2>2 DEF TypeOK
  <2> QED BY <2>1, <2>2
<1>5. Store \in [PBA -> Data]
  BY <1>1, <1>4
<1>2. ASSUME NEW s \in Slots_Index, slots[s].state \in Readable
      PROVE  Store[slots[s].pba] = slots[s].data
  <2> DEFINE p == slots[s].pba
             c == CHOOSE t \in Slots_Index : Holds(t, p)
  <2>1. Holds(s, p)
    BY <1>2
  <2>2. c \in Slots_Index /\ Holds(c, p)
    BY <2>1
  <2>3. c = s
    BY <1>2, <2>2 DEF SlotsDistinct, Readable, Writing
  <2>4. p \in PBA
    BY DEF TypeOK, Slot_Type
  <2> QED BY <1>1, <2>1, <2>3, <2>4
<1>3. ASSUME NEW p \in PBA,
             \A s \in Slots_Index : slots[s].state \in Readable => slots[s].pba # p
      PROVE  Store[p] = disk[p]
  BY <1>1, <1>3
<1> QED BY <1>2, <1>3, <1>5

(* Initially readers see the device. *)
LEMMA InitRefines == Init => B!Init
<1> SUFFICES ASSUME Init PROVE B!Init
  OBVIOUS
<1>1. Store = disk
  <2>1. disk \in [PBA -> Data] /\ \A s \in Slots_Index : slots[s].state \notin Readable
    BY DEF Init, Readable, Writing
  <2> HIDE DEF Init
  <2> QED BY <2>1, StoreOfIs DEF Store
<1> QED BY <1>1 DEF Init, B!Init, Jobs_Index, B!JobIndex, AnyData, B!AnyData

(* A step after which readers still see the same. *)
LEMMA SameStore ==
  ASSUME IInv,
         \A s \in Slots_Index :
           slots'[s].state \in Readable => Store[slots'[s].pba] = slots'[s].data,
         \A p \in PBA :
           (\A s \in Slots_Index : slots'[s].state \in Readable => slots'[s].pba # p)
             => Store[p] = disk'[p]
  PROVE  Store' = Store
<1>1. Store \in [PBA -> Data]
  BY StoreIs
<1> HIDE DEF Store
<1>2. StoreOf(slots', disk') = Store
  BY <1>1, StoreOfIs
<1> QED BY <1>2 DEF Store

(* A job is answered with what readers see at that moment; no iteration    *)
(* changes what readers see but the one that completes a write.            *)
LEMMA ExecuteRefines ==
  ASSUME IInv, error = "None", Execute_Each_Job
  PROVE  [B!Next]_(B!vars)
<1> USE CacheAssumption, AnyDataType
<1> DEFINE j == at
           p == jobs[j].pba
<1>1. /\ j \in Jobs_Index /\ j \in B!JobIndex
      /\ UNCHANGED <<disk, error>>
  BY ExecuteCases DEF Jobs_Index, B!JobIndex
<1>2. /\ TypeOK /\ SlotsDistinct /\ CleanIsStable
      /\ p \in PBA
  BY <1>1 DEF IInv, TypeOK, Job_Type
<1>3. CASE UNCHANGED <<jobs, slots>>
  BY <1>1, <1>3 DEF B!vars, Store
<1>4. CASE WritesBack
  <2>1. /\ UNCHANGED jobs
        /\ \A s \in Slots_Index :
             /\ slots'[s].pba = slots[s].pba
             /\ slots'[s].data = slots[s].data
             /\ slots'[s].state \in Readable <=> slots[s].state \in Readable
    BY <1>2, <1>4 DEF WritesBack, TypeOK, Slot_Type, Readable, Writing
  <2>2. Store' = Store
    BY <1>1, <2>1, StoreIs, SameStore
  <2> QED BY <1>1, <2>1, <2>2 DEF B!vars
<1>5. CASE \E d \in Data : Answers(j, d)
  <2>1. PICK d \in Data : Answers(j, d)
    BY <1>5
  <2>2. /\ jobs' = [jobs EXCEPT ![j].state = "Completed", ![j].data = d]
        /\ jobs[j].state = "Submitted"
        /\ UNCHANGED slots
    BY <2>1 DEF Answers, Complete
  <2>3. Store' = Store
    BY <1>1, <2>2 DEF Store
  <2>4. CASE jobs[j].op = "Read"
    <3>1. PICK s \in Slots_Index : /\ slots[s].state \in Readable
                                  /\ slots[s].pba = p
                                  /\ d = slots[s].data
      BY <2>1, <2>4 DEF Answers
    <3>2. d = Store[p]
      BY <3>1, StoreIs
    <3>3. B!CompleteRead(j)
      BY <1>1, <2>2, <2>3, <2>4, <3>2 DEF B!CompleteRead
    <3> QED BY <1>1, <3>3 DEF B!Next
  <2>5. CASE jobs[j].op # "Read"
    <3>1. /\ jobs[j].op = "Sync" /\ d = AnyData
          /\ InState({"Dirty"} \cup Writing) = {}
      BY <2>1, <2>5 DEF Answers
    <3>2. disk = Store
      <4>1. disk \in [PBA -> Data]
        BY <1>2 DEF TypeOK
      <4>2. \A s \in Slots_Index :
              slots[s].state \in Readable => disk[slots[s].pba] = slots[s].data
        BY <1>2, <3>1 DEF InState, CleanIsStable, Readable
      <4>3. StoreOf(slots, disk) = disk
        BY <4>1, <4>2, StoreOfIs
      <4> QED BY <4>3 DEF Store
    <3>3. jobs' = [jobs EXCEPT ![j].state = "Completed", ![j].data = B!AnyData]
      BY <2>2, <3>1 DEF B!AnyData, AnyData
    <3>4. B!CompleteSync(j)
      BY <1>1, <2>2, <2>3, <3>1, <3>2, <3>3 DEF B!CompleteSync
    <3> QED BY <1>1, <3>4 DEF B!Next
  <2> QED BY <2>4, <2>5
<1>6. CASE \E s \in Slots_Index : Fetches(j, s)
  <2>1. PICK s \in Slots_Index : Fetches(j, s)
    BY <1>6
  <2>2. /\ slots[s].state \in {"Invalid", "Clean"}
        /\ UNCHANGED jobs
    BY <2>1, EvictableState DEF Fetches
  <2>3. /\ slots'[s].state \notin Readable
        /\ \A t \in Slots_Index : t # s => slots'[t] = slots[t]
    BY <1>2, <2>1 DEF Fetches, TypeOK, Readable, Writing
  <2>4. ASSUME NEW q \in PBA,
               \A t \in Slots_Index : slots'[t].state \in Readable => slots'[t].pba # q
        PROVE  Store[q] = disk[q]
    <3>1. \A t \in Slots_Index : t # s => (slots[t].state \in Readable => slots[t].pba # q)
      BY <2>3, <2>4
    <3>2. CASE slots[s].state \in Readable /\ slots[s].pba = q
      BY <1>2, <2>2, <3>2, StoreIs DEF CleanIsStable, Readable, Writing
    <3>3. CASE ~(slots[s].state \in Readable /\ slots[s].pba = q)
      BY <3>1, <3>3, StoreIs
    <3> QED BY <3>2, <3>3
  <2>5. \A t \in Slots_Index :
          slots'[t].state \in Readable => Store[slots'[t].pba] = slots'[t].data
    BY <2>3, StoreIs
  <2>6. Store' = Store
    BY <1>1, <2>4, <2>5, SameStore
  <2> QED BY <1>1, <2>2, <2>6 DEF B!vars
<1>7. CASE \E s \in Slots_Index : Stores(j, s)
  <2>1. PICK s \in Slots_Index : Stores(j, s)
    BY <1>7
  <2> DEFINE f == [Store EXCEPT ![p] = jobs[j].data]
  <2>2. /\ slots[s].state \in {"Invalid", "Clean", "Dirty"}
        /\ jobs[j].state = "Submitted" /\ jobs[j].op = "Write"
        /\ jobs' = [jobs EXCEPT ![j].state = "Completed", ![j].data = B!AnyData]
    BY <2>1, EvictableState DEF Stores, Complete, B!AnyData, AnyData
  <2>3. /\ slots'[s].state = "Dirty" /\ slots'[s].pba = p /\ slots'[s].data = jobs[j].data
        /\ \A t \in Slots_Index : t # s => slots'[t] = slots[t]
    BY <1>2, <2>1 DEF Stores, TypeOK
  <2>4. \A t \in Slots_Index : t # s /\ slots[t].state \in Readable => slots[t].pba # p
    BY <1>2, <2>1 DEF Stores, Matching, SlotsDistinct, Readable, Writing
  <2>5. \/ slots[s].pba = p
        \/ slots[s].state \in {"Invalid", "Clean"}
    BY <2>1, EvictableState DEF Stores, Matching
  <2>6. /\ f \in [PBA -> Data]
        /\ f[p] = jobs[j].data
        /\ \A q \in PBA : q # p => f[q] = Store[q]
    <3>1. Store \in [PBA -> Data] /\ jobs[j].data \in Data
      BY <1>1, StoreIs DEF IInv, TypeOK, Job_Type
    <3> QED BY <1>2, <3>1
  <2> HIDE DEF f
  <2>7. ASSUME NEW t \in Slots_Index, slots'[t].state \in Readable
        PROVE  f[slots'[t].pba] = slots'[t].data
    <3>1. CASE t = s
      BY <2>3, <2>6, <3>1
    <3>2. CASE t # s
      <4>1. slots'[t] = slots[t] /\ slots[t].pba # p /\ slots[t].pba \in PBA
        BY <1>2, <2>3, <2>4, <2>7, <3>2 DEF TypeOK, Slot_Type
      <4>2. Store[slots[t].pba] = slots[t].data
        BY <2>7, <4>1, StoreIs
      <4> QED BY ONLY <2>6, <4>1, <4>2
    <3> QED BY <3>1, <3>2
  <2>8. ASSUME NEW q \in PBA,
               \A t \in Slots_Index : slots'[t].state \in Readable => slots'[t].pba # q
        PROVE  f[q] = disk[q]
    <3>1. q # p
      BY <2>3, <2>8 DEF Readable
    <3>2. \A t \in Slots_Index : t # s => (slots[t].state \in Readable => slots[t].pba # q)
      BY <2>3, <2>8
    <3>3. CASE slots[s].state \in Readable /\ slots[s].pba = q
      <4>1. slots[s].state = "Clean"
        BY <2>5, <3>1, <3>3 DEF Readable, Writing
      <4> QED BY <1>2, <2>6, <3>1, <3>3, <4>1, StoreIs DEF CleanIsStable
    <3>4. CASE ~(slots[s].state \in Readable /\ slots[s].pba = q)
      BY <2>6, <3>1, <3>2, <3>4, StoreIs
    <3> QED BY <3>3, <3>4
  <2>9. Store' = f
    <3>1. StoreOf(slots', disk') = f
      BY <1>1, <2>6, <2>7, <2>8, StoreOfIs
    <3> QED BY <3>1 DEF Store
  <2>10. B!CompleteWrite(j)
    BY <1>1, <2>2, <2>9 DEF B!CompleteWrite, f
  <2> QED BY <1>1, <2>10 DEF B!Next
<1> QED BY <1>3, <1>4, <1>5, <1>6, <1>7, ExecuteCases

(* An answer of the back end changes nothing for readers. *)
LEMMA MarkCompleteRefines ==
  ASSUME IInv, error = "None", NEW e \in Data_Index, Mark_Generated_Primitive_Complete(e)
  PROVE  [B!Next]_(B!vars)
<1> DEFINE s == io[e].slot
<1>1. io[e].state = "Complete" /\ s \in Slots_Index
  BY DEF Mark_Generated_Primitive_Complete, IsFirst, IInv, TypeOK, Entry_Type
<1>2. UNCHANGED <<jobs, disk>>
  BY DEF Mark_Generated_Primitive_Complete
<1>3. CASE ~io[e].success
  <2>1. UNCHANGED slots /\ error' = "IO"
    BY <1>3 DEF Mark_Generated_Primitive_Complete
  <2> QED BY <1>2, <2>1 DEF B!Next, B!Stop, Store
<1>4. CASE io[e].success
  <2>1. /\ slots[s].state = IF io[e].op = "Read" THEN "Read_In_Progress" ELSE "Write_In_Progress"
        /\ slots[s].pba = io[e].pba
        /\ io[e].data = disk[slots[s].pba]
        /\ io[e].op = "Write" => io[e].data = slots[s].data
    BY <1>1, <1>4 DEF IInv, IoConsistent
  <2>2. /\ slots' = [slots EXCEPT ![s].state = "Clean",
                                  ![s].data = IF io[e].op = "Read" THEN io[e].data ELSE @]
        /\ UNCHANGED error
    BY <1>4, <2>1 DEF Mark_Generated_Primitive_Complete
  <2>3. /\ slots'[s].state = "Clean" /\ slots'[s].pba = slots[s].pba
        /\ slots'[s].data = disk[slots[s].pba]
        /\ \A t \in Slots_Index : t # s => slots'[t] = slots[t]
        /\ slots[s].pba \in PBA
    BY <1>1, <2>1, <2>2 DEF IInv, TypeOK, Slot_Type, Entry_Type
  <2>4. Store[slots[s].pba] = disk[slots[s].pba]
    <3>1. CASE io[e].op = "Read"
      <4>1. \A t \in Slots_Index : slots[t].state \in Readable => slots[t].pba # slots[s].pba
        BY <1>1, <2>1, <3>1 DEF IInv, SlotsDistinct, Readable, Writing
      <4> QED BY <2>3, <4>1, StoreIs
    <3>2. CASE io[e].op # "Read"
      BY <1>1, <2>1, <3>2, StoreIs DEF IInv, TypeOK, Entry_Type, Readable, Writing
    <3> QED BY <3>1, <3>2
  <2>5. \A t \in Slots_Index :
          slots'[t].state \in Readable => Store[slots'[t].pba] = slots'[t].data
    BY <2>3, <2>4, StoreIs
  <2>6. ASSUME NEW q \in PBA,
               \A t \in Slots_Index : slots'[t].state \in Readable => slots'[t].pba # q
        PROVE  Store[q] = disk[q]
    <3>1. q # slots[s].pba
      BY <1>1, <2>3, <2>6 DEF Readable
    <3>2. \A t \in Slots_Index : slots[t].state \in Readable => slots[t].pba # q
      BY <2>3, <2>6, <3>1
    <3> QED BY <3>2, StoreIs
  <2>7. Store' = Store
    BY <1>2, <2>5, <2>6, SameStore
  <2> QED BY <1>2, <2>2, <2>7 DEF B!vars
<1> QED BY <1>3, <1>4

(* The device takes or delivers what readers see anyway. *)
LEMMA IOCompletedRefines ==
  ASSUME IInv, error = "None", NEW e \in Data_Index, NEW success \in BOOLEAN,
         IO_Request_Completed(e, success)
  PROVE  [B!Next]_(B!vars)
<1> DEFINE s == io[e].slot
           p == io[e].pba
<1>1. io[e].state = "In_Progress" /\ s \in Slots_Index /\ p \in PBA
  BY DEF IO_Request_Completed, IInv, TypeOK, Entry_Type
<1>2. UNCHANGED <<jobs, slots, error>>
  BY DEF IO_Request_Completed
<1>3. CASE ~(success /\ io[e].op = "Write")
  BY <1>2, <1>3 DEF IO_Request_Completed, B!vars, Store
<1>4. CASE success /\ io[e].op = "Write"
  <2>1. /\ slots[s].pba = p
        /\ slots[s].state = "Write_In_Progress"
        /\ io[e].data = slots[s].data
    BY <1>1, <1>4 DEF IInv, IoConsistent
  <2>2. io[e].data = Store[p]
    BY <1>1, <2>1, StoreIs DEF Readable, Writing
  <2>3. disk' = [disk EXCEPT ![p] = Store[p]]
    BY <1>4, <2>2 DEF IO_Request_Completed
  <2>4. \A q \in PBA : q # p => disk'[q] = disk[q]
    BY <2>3 DEF IInv, TypeOK
  <2>5. ASSUME NEW q \in PBA,
               \A t \in Slots_Index : slots'[t].state \in Readable => slots'[t].pba # q
        PROVE  Store[q] = disk'[q]
    <3>1. q # p
      BY <1>1, <1>2, <2>1, <2>5 DEF Readable, Writing
    <3> QED BY <1>2, <2>4, <2>5, <3>1, StoreIs
  <2>6. \A t \in Slots_Index :
          slots'[t].state \in Readable => Store[slots'[t].pba] = slots'[t].data
    BY <1>2, StoreIs
  <2>7. Store' = Store
    BY <2>5, <2>6, SameStore
  <2>8. B!Persist(p)
    BY <1>2, <2>3, <2>7 DEF B!Persist
  <2> QED BY <1>1, <2>8 DEF B!Next
<1> QED BY <1>3, <1>4

(* Copying a slot to Block_IO changes nothing for readers. *)
LEMMA DropGeneratedRefines ==
  ASSUME IInv, NEW s \in Slots_Index, NEW e \in Data_Index, Drop_Generated_Primitive(s, e)
  PROVE  UNCHANGED B!vars
<1>1. slots[s].state \in {"Read_Generated", "Write_Generated"}
  BY DEF Drop_Generated_Primitive, IsFirst, InState
<1>2. UNCHANGED <<jobs, disk, error>>
  BY DEF Drop_Generated_Primitive
<1>3. \A t \in Slots_Index :
        /\ slots'[t].pba = slots[t].pba
        /\ slots'[t].data = slots[t].data
        /\ slots'[t].state \in Readable <=> slots[t].state \in Readable
  BY <1>1 DEF Drop_Generated_Primitive, IInv, TypeOK, Slot_Type, Readable, Writing
<1>4. ASSUME NEW t \in Slots_Index, slots'[t].state \in Readable
      PROVE  Store[slots'[t].pba] = slots'[t].data
  <2>1. slots[t].state \in Readable
    BY <1>3, <1>4
  <2> QED BY <1>3, <2>1, StoreIs
<1>5. ASSUME NEW q \in PBA,
             \A t \in Slots_Index : slots'[t].state \in Readable => slots'[t].pba # q
      PROVE  Store[q] = disk'[q]
  <2>1. \A t \in Slots_Index : slots[t].state \in Readable => slots[t].pba # q
    BY <1>3, <1>5
  <2> QED BY <1>2, <2>1, StoreIs
<1>6. Store' = Store
  BY <1>4, <1>5, SameStore
<1> QED BY <1>2, <1>6 DEF B!vars

(* Every step of the cache is a step of the block store, or a stutter. *)
LEMMA NextRefines ==
  ASSUME IInv, [Next]_vars
  PROVE  [B!Next]_(B!vars)
<1> USE AnyDataType, CacheAssumption
<1>1. ASSUME error = "None", Users
      PROVE  B!Next
  <2>1. PICK j \in Jobs_Index, op \in {"Read", "Write", "Sync"}, p \in PBA, d \in Data :
          Submit_Primitive(j, op, p, d)
    BY <1>1 DEF Users
  <2>2. ~Active(j)
    BY <2>1 DEF Submit_Primitive, IsFirst
  <2>3. /\ Submit_Primitive_Assertions(op, p)
        /\ jobs' = [jobs EXCEPT ![j] = [state |-> "Submitted", op |-> op, pba |-> p, data |-> d]]
        /\ UNCHANGED <<slots, disk, error>>
    BY <2>1 DEF Submit_Primitive
  <2>4. B!Admissible(op, p)
    BY <2>3 DEF Submit_Primitive_Assertions, B!Admissible, Active, B!Active, Jobs_Index, B!JobIndex
  <2>5. B!Submit(j, op, p, d)
    BY <2>2, <2>3, <2>4 DEF B!Submit, Active, B!Active, Store
  <2> QED BY <1>1, <2>5 DEF B!Next, Jobs_Index, B!JobIndex
<1>2. ASSUME error = "None", NEW j \in Jobs_Index, Drop_Completed_Primitive(j)
      PROVE  B!Next
  <2>1. jobs[j].state = "Completed"
    BY <1>2 DEF Drop_Completed_Primitive, IsFirst
  <2>2. B!Drop(j)
    BY <1>2, <2>1 DEF Drop_Completed_Primitive, B!Drop, AnyData, B!AnyData, Store
  <2> QED BY <1>2, <2>2 DEF B!Next, Jobs_Index, B!JobIndex
<1>3. ASSUME Advance PROVE UNCHANGED B!vars
  BY <1>3 DEF Advance, B!vars, Store
<1>4. ASSUME error = "None", Library PROVE [B!Next]_(B!vars)
  BY <1>2, <1>3, <1>4, ExecuteRefines, DropGeneratedRefines, MarkCompleteRefines DEF Library
<1>5. ASSUME NEW e \in Data_Index, IO_Request_In_Progress(e) PROVE UNCHANGED B!vars
  BY <1>5 DEF IO_Request_In_Progress, B!vars, Store
<1>6. ASSUME error = "None", BackEnd PROVE [B!Next]_(B!vars)
  BY <1>5, <1>6, IOCompletedRefines DEF BackEnd
<1>7. CASE UNCHANGED vars
  BY <1>7 DEF vars, B!vars, Store
<1> QED BY <1>1, <1>4, <1>6, <1>7 DEF Next

(* The cache implements the block store: reads return the last completed   *)
(* write and a completed sync means that all writes are on the device.     *)
THEOREM Refinement == Spec => ImplementsBlockStore
<1>1. Init => B!Init
  BY InitRefines
<1>2. IInv /\ [Next]_vars => [B!Next]_(B!vars)
  BY NextRefines
<1> QED BY <1>1, <1>2, Invariance, PTL DEF Spec, B!Spec, ImplementsBlockStore
=============================================================================
