-------------------------- MODULE RequestPoolProofs --------------------------
(***************************************************************************)
(* Proofs about module RequestPool, for every number of jobs, every limit  *)
(* of preponed requests and all clients.  They are about a library that    *)
(* starts with a superblock in its normal state (FreshStart): one that     *)
(* resumes a rekeying queues a job twice, see run request_pool_resume.     *)
(* The first part is the inductive invariant, the second that the pool     *)
(* implements module RequestQueue.                                         *)
(***************************************************************************)
EXTENDS RequestPool, FiniteSets, FiniteSetTheorems, SequenceTheorems,
        WellFoundedInduction, TLAPS

FreshStart == SB_States \subseteq {"Normal"}

-----------------------------------------------------------------------------
(* What the state of a job says of its request and of its last step. *)
JobConsistent(job) ==
  /\ job.state # "Submitted_Resume_Rekeying"
  /\ job.state \in {"Pending", "In_Progress"} =>
       job.req.op \in Blockwise /\ job.completed < job.req.count
  /\ job.state \in {"Submitted", "Step_Pending", "Step_In_Progress", "Step_Complete"} =>
       job.req.op \notin Blockwise
  /\ job.state \in {"Init_Pending", "Init_In_Progress", "Init_Complete",
                    "Prepone_Requests_Pending", "Prepone_Requests_Complete"} =>
       job.req.op \in Long
  /\ job.state \in {"Init_Complete", "Step_Complete"} /\ job.req.op # "Discard_Snapshot"
       => job.prim
  /\ job.state = "Step_Complete" /\ job.req.op = "Initialize" => job.sb = "Normal"

JobsConsistent == \A j \in Pool_Index : JobConsistent(jobs[j])

(* No two requests in the pool are equal. *)
RequestsDistinct ==
  \A j, k \in Pool_Index :
    /\ j # k
    /\ jobs[j].state # "Invalid"
    /\ jobs[k].state # "Invalid"
    => ~Equal(jobs[j].req, jobs[k].req)

(* Only requests that may be preponed are in front of a job that waits     *)
(* between two of its steps.                                               *)
OnlyPreponed ==
  \A i, k \in 1 .. Len(queue) :
    i < k /\ jobs[queue[k]].state = "Prepone_Requests_Pending"
    => jobs[queue[i]].req.op \in Preponable

(* QueueHoldsActive, without set constructors. *)
InQueue(j) == \E i \in 1 .. Len(queue) : queue[i] = j

QueueDistinct == \A i, k \in 1 .. Len(queue) : queue[i] = queue[k] => i = k

QueueComplete ==
  \A j \in Pool_Index : InQueue(j) <=> jobs[j].state \notin {"Invalid", "Complete"}

(* What a job that is not the head may be doing. *)
Waiting == {"Invalid", "Complete", "Submitted", "Pending", "Prepone_Requests_Pending"}

OthersWait == \A j \in Pool_Index : NotHead(j) => jobs[j].state \in Waiting

OnePreponing ==
  \A j, k \in Pool_Index :
    /\ jobs[j].state = "Prepone_Requests_Pending"
    /\ jobs[k].state = "Prepone_Requests_Pending"
    => j = k

IInv ==
  /\ TypeOK
  /\ QueueDistinct
  /\ QueueComplete
  /\ OthersWait
  /\ OnePreponing
  /\ OnlyPreponed
  /\ JobsConsistent
  /\ RequestsDistinct
  /\ NoProgramError

(* The parts of the invariant are the properties the runs check. *)
LEMMA IInvImplies == IInv => TypeOK /\ QueueHoldsActive /\ OneAtATime /\ NoProgramError
<1> SUFFICES ASSUME IInv PROVE QueueHoldsActive /\ OneAtATime
  BY DEF IInv
<1>1. \A i \in 1 .. Len(queue) : queue[i] \in Pool_Index
  BY ElementOfSeq DEF IInv, TypeOK
<1>2. {queue[i] : i \in 1 .. Len(queue)} = Pool_Index \ InState({"Invalid", "Complete"})
  BY <1>1 DEF IInv, QueueComplete, InQueue, InState
<1>3. QueueHoldsActive
  BY <1>2 DEF IInv, QueueDistinct, QueueHoldsActive
<1>4. OneAtATime
  BY DEF IInv, OthersWait, Waiting, OnePreponing, OneAtATime, InState
<1> QED BY <1>3, <1>4

-----------------------------------------------------------------------------
(***************************************************************************)
(* The queue.                                                              *)
(***************************************************************************)
(* The head of a queue that is not empty. *)
LEMMA HeadOfQueue ==
  ASSUME TypeOK, queue # <<>>
  PROVE  /\ Len(queue) \in Nat \ {0}
         /\ Head(queue) = queue[1]
         /\ Head(queue) \in Pool_Index
<1>1. queue \in Seq(Pool_Index)
  BY DEF TypeOK
<1>2. Len(queue) \in Nat \ {0}
  BY <1>1, EmptySeq
<1>3. Head(queue) = queue[1]
  BY <1>1
<1> QED BY <1>1, <1>2, <1>3, HeadTailProperties

(* Nr_To_Prepone exists and counts requests behind the head that may be    *)
(* preponed.                                                               *)
LEMMA NrToPrepone ==
  ASSUME TypeOK, queue # <<>>
  PROVE  /\ Nr_To_Prepone \in 0 .. Len(queue) - 1
         /\ jobs[Head(queue)].preponed + Nr_To_Prepone <= Max_Preponed
         /\ \A i \in 2 .. Nr_To_Prepone + 1 : jobs[queue[i]].req.op \in Preponable
<1> DEFINE j == Head(queue)
           Movable(k) == /\ jobs[j].preponed + k <= Max_Preponed
                         /\ queue[Len(queue)] = j => k = 0
                         /\ \A i \in 2 .. k + 1 : jobs[queue[i]].req.op \in Preponable
           Largest(k) == Movable(k) /\ \A l \in 0 .. Len(queue) - 1 : Movable(l) => l <= k
           Left == {n \in Nat : \E k \in 0 .. Len(queue) - 1 :
                                   Movable(k) /\ n = Len(queue) - 1 - k}
           R == OpToRel(<, Nat)
<1>1. Len(queue) \in Nat \ {0} /\ j \in Pool_Index
  BY HeadOfQueue
<1>2. jobs[j].preponed \in 0 .. Max_Preponed /\ Max_Preponed \in Nat
  BY <1>1, PoolAssumption DEF TypeOK, Job_Type
<1>3. Movable(0)
  BY <1>2
<1>4. Len(queue) - 1 \in Left
  BY <1>1, <1>3
<1>5. PICK n \in Left : \A m \in Left : ~(<<m, n>> \in R)
  <2> HIDE DEF Left, R
  <2>1. IsWellFoundedOn(R, Nat)
    BY NatLessThanWellFounded DEF R
  <2>2. Left \subseteq Nat
    BY DEF Left
  <2> QED BY <1>4, <2>1, <2>2, WFMin
<1>6. \A m \in Left : ~(m < n)
  BY <1>5 DEF OpToRel
<1>7. PICK k \in 0 .. Len(queue) - 1 : Movable(k) /\ n = Len(queue) - 1 - k
  BY <1>5
<1>8. \A l \in 0 .. Len(queue) - 1 : Movable(l) => l <= k
  <2> SUFFICES ASSUME NEW l \in 0 .. Len(queue) - 1, Movable(l) PROVE l <= k
    OBVIOUS
  <2>1. Len(queue) - 1 - l \in Left
    <3> HIDE DEF Movable
    <3> QED BY <1>1
  <2> HIDE DEF Movable, Left
  <2>2. ~(Len(queue) - 1 - l < n)
    BY <1>6, <2>1
  <2> QED BY <1>1, <1>7, <2>2
<1>9. \E m \in 0 .. Len(queue) - 1 : Largest(m)
  BY <1>7, <1>8
<1>10. Nr_To_Prepone = CHOOSE m \in 0 .. Len(queue) - 1 : Largest(m)
  BY DEF Nr_To_Prepone
<1>11. Nr_To_Prepone \in 0 .. Len(queue) - 1 /\ Largest(Nr_To_Prepone)
  <2> HIDE DEF Largest
  <2> QED BY <1>9, <1>10
<1> QED BY <1>11

(* Moving the head behind the next k items reorders the queue. *)
LEMMA MovedQueue ==
  ASSUME TypeOK, queue # <<>>, NEW k \in 0 .. Len(queue) - 1
  PROVE  LET q == Move_Items_Towards_Tail(k)
         IN  /\ q \in Seq(Pool_Index)
             /\ Len(q) = Len(queue)
             /\ \A i \in 1 .. Len(queue) :
                  q[i] = IF i <= k THEN queue[i + 1]
                         ELSE IF i = k + 1 THEN queue[1] ELSE queue[i]
<1> DEFINE a == SubSeq(queue, 2, k + 1)
           b == <<Head(queue)>>
           c == SubSeq(queue, k + 2, Len(queue))
<1>1. /\ Len(queue) \in Nat \ {0}
      /\ Head(queue) = queue[1]
      /\ Head(queue) \in Pool_Index
      /\ k \in Nat /\ k <= Len(queue) - 1
  BY HeadOfQueue
<1>2. \A i \in 1 .. Len(queue) : queue[i] \in Pool_Index
  BY ElementOfSeq DEF TypeOK
<1>3. /\ a \in Seq(Pool_Index)
      /\ Len(a) = k
      /\ \A i \in 1 .. k : a[i] = queue[i + 1]
  <2>1. \A i \in 2 .. k + 1 : queue[i] \in Pool_Index
    BY <1>1, <1>2
  <2> QED BY <1>1, <2>1, SubSeqProperties
<1>4. b \in Seq(Pool_Index) /\ Len(b) = 1 /\ b[1] = queue[1]
  BY <1>1
<1>5. /\ c \in Seq(Pool_Index)
      /\ Len(c) = Len(queue) - k - 1
      /\ \A i \in 1 .. Len(queue) - k - 1 : c[i] = queue[k + 1 + i]
  <2>1. \A i \in k + 2 .. Len(queue) : queue[i] \in Pool_Index
    BY <1>1, <1>2
  <2> QED BY <1>1, <2>1, SubSeqProperties
<1> HIDE DEF a, b, c
<1> DEFINE ab == a \o b
<1>6. /\ ab \in Seq(Pool_Index)
      /\ Len(ab) = k + 1
      /\ \A i \in 1 .. k + 1 : ab[i] = IF i <= k THEN queue[i + 1] ELSE queue[1]
  <2>1. /\ ab \in Seq(Pool_Index)
        /\ Len(ab) = Len(a) + Len(b)
        /\ \A i \in 1 .. Len(a) + Len(b) : ab[i] =
              IF i <= Len(a) THEN a[i] ELSE b[i - Len(a)]
    BY <1>3, <1>4, ConcatProperties
  <2> QED BY <1>1, <1>3, <1>4, <2>1
<1> HIDE DEF ab
<1>7. /\ ab \o c \in Seq(Pool_Index)
      /\ Len(ab \o c) = Len(queue)
      /\ \A i \in 1 .. Len(queue) :
           (ab \o c)[i] = IF i <= k + 1 THEN ab[i] ELSE c[i - (k + 1)]
  <2>1. /\ ab \o c \in Seq(Pool_Index)
        /\ Len(ab \o c) = Len(ab) + Len(c)
        /\ \A i \in 1 .. Len(ab) + Len(c) : (ab \o c)[i] =
              IF i <= Len(ab) THEN ab[i] ELSE c[i - Len(ab)]
    BY <1>5, <1>6, ConcatProperties
  <2>2. Len(ab) + Len(c) = Len(queue)
    BY <1>1, <1>5, <1>6
  <2> QED BY <1>6, <2>1, <2>2
<1>8. Move_Items_Towards_Tail(k) = ab \o c
  BY DEF Move_Items_Towards_Tail, a, b, c, ab
<1>9. ASSUME NEW i \in 1 .. Len(queue)
      PROVE  (ab \o c)[i] = IF i <= k THEN queue[i + 1]
                         ELSE IF i = k + 1 THEN queue[1] ELSE queue[i]
  BY <1>1, <1>5, <1>6, <1>7, <1>9
<1> QED BY <1>7, <1>8, <1>9

(* A pool with room in its queue and without answers has a free job. *)
LEMMA FreeJob ==
  ASSUME IInv, Request_Acceptable, InState({"Complete"}) = {}
  PROVE  InState({"Invalid"}) # {}
<1> SUFFICES ASSUME InState({"Invalid"}) = {} PROVE FALSE
  OBVIOUS
<1>1. \A j \in Pool_Index : InQueue(j)
  BY DEF IInv, QueueComplete, InState
<1> DEFINE pos == [j \in Pool_Index |-> CHOOSE i \in 1 .. Len(queue) : queue[i] = j]
<1>2. \A j \in Pool_Index : pos[j] \in 1 .. Len(queue) /\ queue[pos[j]] = j
  BY <1>1 DEF InQueue
<1>3. pos \in [Pool_Index -> 1 .. Len(queue)]
  BY <1>2
<1> HIDE DEF pos
<1>4. Len(queue) \in Nat /\ Len(queue) < Nr_Of_Jobs /\ Nr_Of_Jobs \in Nat
  BY PoolAssumption, LenProperties DEF IInv, TypeOK, Request_Acceptable
<1>5. /\ IsFiniteSet(Pool_Index)
      /\ IsFiniteSet(1 .. Len(queue))
      /\ Cardinality(1 .. Len(queue)) < Cardinality(Pool_Index)
  <2>1. 1 \in Int /\ Nr_Of_Jobs \in Int /\ Len(queue) \in Int
    BY <1>4
  <2>2. /\ IsFiniteSet(1 .. Nr_Of_Jobs)
        /\ Cardinality(1 .. Nr_Of_Jobs) = IF 1 > Nr_Of_Jobs THEN 0 ELSE Nr_Of_Jobs - 1 + 1
    BY <2>1, FS_Interval
  <2>3. /\ IsFiniteSet(1 .. Len(queue))
        /\ Cardinality(1 .. Len(queue)) = IF 1 > Len(queue) THEN 0 ELSE Len(queue) - 1 + 1
    BY <2>1, FS_Interval
  <2> QED BY <1>4, <2>2, <2>3 DEF Pool_Index
<1>6. \E j, k \in Pool_Index : j # k /\ pos[j] = pos[k]
  BY <1>3, <1>5, FS_PigeonHole
<1> QED BY <1>2, <1>6

-----------------------------------------------------------------------------
(***************************************************************************)
(* The kinds of steps, by what they do to the queue.                       *)
(***************************************************************************)
(* The job at the head goes on, and stays at the head. *)
LEMMA HeadGoesOn ==
  ASSUME IInv, queue # <<>>, NEW job \in Job_Type,
         jobs' = [jobs EXCEPT ![Head(queue)] = job],
         UNCHANGED <<queue, raised>>,
         job.req = jobs[Head(queue)].req,
         job.state \notin {"Invalid", "Complete"},
         JobConsistent(job)
  PROVE  IInv'
<1> DEFINE h == Head(queue)
<1>1. h \in Pool_Index /\ h = queue[1] /\ Len(queue) \in Nat \ {0}
  BY HeadOfQueue DEF IInv
<1>2. /\ jobs'[h] = job
      /\ \A j \in Pool_Index : j # h => jobs'[j] = jobs[j]
      /\ queue' = queue /\ raised' = raised
  BY <1>1 DEF IInv, TypeOK
<1>3. InQueue(h)
  BY <1>1 DEF InQueue
<1>4. jobs[h].state \notin {"Invalid", "Complete"}
  BY <1>1, <1>3 DEF IInv, QueueComplete
<1>5. \A i \in 1 .. Len(queue) : queue[i] \in Pool_Index
  BY ElementOfSeq DEF IInv, TypeOK
<1>6. TypeOK'
  BY <1>1, <1>2 DEF IInv, TypeOK
<1>7. QueueDistinct'
  BY <1>2 DEF IInv, QueueDistinct
<1>8. QueueComplete'
  BY <1>1, <1>2, <1>3 DEF IInv, QueueComplete, InQueue
<1>9. OthersWait'
  BY <1>1, <1>2 DEF IInv, OthersWait, NotHead
<1>10. ASSUME job.state = "Prepone_Requests_Pending",
              NEW k \in Pool_Index, k # h, jobs[k].state = "Prepone_Requests_Pending"
       PROVE  FALSE
  <2>1. job.req.op \in Long
    BY <1>10 DEF JobConsistent
  <2>2. InQueue(k)
    BY <1>10 DEF IInv, QueueComplete
  <2>3. PICK i \in 1 .. Len(queue) : queue[i] = k
    BY <2>2 DEF InQueue
  <2>4. i # 1 /\ 1 \in 1 .. Len(queue)
    BY <1>1, <1>10, <2>3
  <2>5. jobs[h].req.op \in Preponable
    BY <1>1, <1>10, <2>3, <2>4 DEF IInv, OnlyPreponed
  <2> QED BY <2>1, <2>5 DEF Long, Preponable
<1>11. OnePreponing'
  BY <1>1, <1>2, <1>10 DEF IInv, OnePreponing
<1>12. OnlyPreponed'
  <2> SUFFICES ASSUME NEW i \in 1 .. Len(queue), NEW k \in 1 .. Len(queue), i < k,
                      jobs'[queue[k]].state = "Prepone_Requests_Pending"
               PROVE  jobs'[queue[i]].req.op \in Preponable
    BY <1>2 DEF OnlyPreponed
  <2>1. queue[k] # h
    BY <1>1 DEF IInv, QueueDistinct
  <2>2. jobs[queue[i]].req.op \in Preponable
    BY <1>2, <1>5, <2>1 DEF IInv, OnlyPreponed
  <2> QED BY <1>2, <1>5, <2>2
<1>13. JobsConsistent'
  BY <1>1, <1>2 DEF IInv, JobsConsistent
<1>14. RequestsDistinct'
  BY <1>1, <1>2, <1>4 DEF IInv, RequestsDistinct, Equal
<1>15. NoProgramError'
  BY <1>2 DEF IInv, NoProgramError
<1> QED BY <1>6, <1>7, <1>8, <1>9, <1>11, <1>12, <1>13, <1>14, <1>15 DEF IInv

(* The job at the head is answered, or is gone, and leaves the queue. *)
LEMMA HeadLeaves ==
  ASSUME IInv, queue # <<>>, NEW job \in Job_Type,
         jobs' = [jobs EXCEPT ![Head(queue)] = job],
         queue' = Tail(queue),
         UNCHANGED raised,
         \/ job.state = "Invalid"
         \/ job.state = "Complete" /\ job.req = jobs[Head(queue)].req
  PROVE  IInv'
<1> DEFINE h == Head(queue)
<1>1. h \in Pool_Index /\ h = queue[1] /\ Len(queue) \in Nat \ {0}
  BY HeadOfQueue DEF IInv
<1>2. /\ jobs'[h] = job
      /\ \A j \in Pool_Index : j # h => jobs'[j] = jobs[j]
      /\ raised' = raised
  BY <1>1 DEF IInv, TypeOK
<1>3. /\ queue' \in Seq(Pool_Index)
      /\ Len(queue') = Len(queue) - 1
      /\ \A i \in 1 .. Len(queue) - 1 : queue'[i] = queue[i + 1]
  BY HeadTailProperties DEF IInv, TypeOK
<1>4. \A i \in 1 .. Len(queue) : queue[i] \in Pool_Index
  BY ElementOfSeq DEF IInv, TypeOK
<1>5. jobs[h].state \notin {"Invalid", "Complete"}
  <2>1. InQueue(h)
    BY <1>1 DEF InQueue
  <2> QED BY <1>1, <2>1 DEF IInv, QueueComplete
<1>6. \A i \in 1 .. Len(queue) - 1 : /\ i + 1 \in 1 .. Len(queue)
                                     /\ queue'[i] # h
                                     /\ queue'[i] \in Pool_Index
                                     /\ jobs'[queue'[i]] = jobs[queue[i + 1]]
  <2> SUFFICES ASSUME NEW i \in 1 .. Len(queue) - 1
               PROVE  /\ i + 1 \in 1 .. Len(queue)
                      /\ queue'[i] # h
                      /\ queue'[i] \in Pool_Index
                      /\ jobs'[queue'[i]] = jobs[queue[i + 1]]
    OBVIOUS
  <2>1. i + 1 \in 1 .. Len(queue) /\ 1 \in 1 .. Len(queue) /\ i + 1 # 1
    BY <1>1
  <2>2. queue[i + 1] # h /\ queue[i + 1] \in Pool_Index
    BY <1>1, <1>4, <2>1 DEF IInv, QueueDistinct
  <2> QED BY <1>2, <1>3, <2>1, <2>2
<1>7. TypeOK'
  BY <1>1, <1>2, <1>3 DEF IInv, TypeOK
<1>8. QueueDistinct'
  <2> SUFFICES ASSUME NEW i \in 1 .. Len(queue) - 1, NEW k \in 1 .. Len(queue) - 1,
                      queue[i + 1] = queue[k + 1]
               PROVE  i = k
    BY <1>3 DEF QueueDistinct
  <2>1. i + 1 \in 1 .. Len(queue) /\ k + 1 \in 1 .. Len(queue)
    BY <1>6
  <2>2. i + 1 = k + 1
    BY <2>1 DEF IInv, QueueDistinct
  <2> QED BY <2>2
<1>9. QueueComplete'
  <2> SUFFICES ASSUME NEW j \in Pool_Index
               PROVE  (\E i \in 1 .. Len(queue) - 1 : queue'[i] = j)
                        <=> jobs'[j].state \notin {"Invalid", "Complete"}
    BY <1>3 DEF QueueComplete, InQueue
  <2>1. CASE j = h
    BY <1>2, <1>6, <2>1
  <2>2. CASE j # h
    <3>1. ASSUME NEW i \in 1 .. Len(queue), queue[i] = j
          PROVE  \E k \in 1 .. Len(queue) - 1 : queue'[k] = j
      <4>1. i # 1
        BY <1>1, <2>2, <3>1
      <4>2. i - 1 \in 1 .. Len(queue) - 1 /\ queue'[i - 1] = j
        BY <1>1, <1>3, <3>1, <4>1
      <4> QED BY <4>2
    <3>2. (\E i \in 1 .. Len(queue) - 1 : queue'[i] = j) <=> InQueue(j)
      BY <1>3, <1>6, <3>1 DEF InQueue
    <3> QED BY <1>2, <2>2, <3>2 DEF IInv, QueueComplete
  <2> QED BY <2>1, <2>2
<1>10. OthersWait'
  <2> SUFFICES ASSUME NEW j \in Pool_Index PROVE jobs'[j].state \in Waiting
    BY DEF OthersWait
  <2>1. CASE j = h
    BY <1>2, <2>1 DEF Waiting
  <2>2. CASE j # h
    BY <1>2, <2>2 DEF IInv, OthersWait, NotHead
  <2> QED BY <2>1, <2>2
<1>11. OnePreponing'
  BY <1>1, <1>2 DEF IInv, OnePreponing
<1>12. OnlyPreponed'
  <2> SUFFICES ASSUME NEW i \in 1 .. Len(queue) - 1, NEW k \in 1 .. Len(queue) - 1, i < k,
                      jobs'[queue'[k]].state = "Prepone_Requests_Pending"
               PROVE  jobs'[queue'[i]].req.op \in Preponable
    BY <1>3 DEF OnlyPreponed
  <2>1. jobs[queue[k + 1]].state = "Prepone_Requests_Pending"
    BY <1>6
  <2>2. i + 1 < k + 1 /\ i + 1 \in 1 .. Len(queue) /\ k + 1 \in 1 .. Len(queue)
    BY <1>6
  <2>3. jobs[queue[i + 1]].req.op \in Preponable
    BY <2>1, <2>2 DEF IInv, OnlyPreponed
  <2> QED BY <1>6, <2>3
<1>13. JobConsistent(job)
  BY DEF JobConsistent
<1>14. JobsConsistent'
  BY <1>1, <1>2, <1>13 DEF IInv, JobsConsistent
<1>15. RequestsDistinct'
  BY <1>1, <1>2, <1>5 DEF IInv, RequestsDistinct, Equal
<1>16. NoProgramError'
  BY <1>2 DEF IInv, NoProgramError
<1> QED BY <1>7, <1>8, <1>9, <1>10, <1>11, <1>12, <1>14, <1>15, <1>16 DEF IInv

(* The job at the head lets the next k requests pass. *)
LEMMA HeadMoves ==
  ASSUME IInv, queue # <<>>, NEW k \in 0 .. Len(queue) - 1, NEW job \in Job_Type,
         queue' = Move_Items_Towards_Tail(k),
         jobs' = [jobs EXCEPT ![Head(queue)] = job],
         UNCHANGED raised,
         job.req = jobs[Head(queue)].req,
         job.state = "Prepone_Requests_Pending",
         jobs[Head(queue)].state = "Prepone_Requests_Pending",
         \A i \in 2 .. k + 1 : jobs[queue[i]].req.op \in Preponable
  PROVE  IInv'
<1> DEFINE h == Head(queue)
           From(i) == IF i <= k THEN i + 1 ELSE IF i = k + 1 THEN 1 ELSE i
<1>1. /\ h \in Pool_Index /\ h = queue[1] /\ Len(queue) \in Nat \ {0}
      /\ k \in Nat /\ k <= Len(queue) - 1
  BY HeadOfQueue DEF IInv
<1>2. /\ jobs'[h] = job
      /\ \A j \in Pool_Index : j # h => jobs'[j] = jobs[j]
      /\ raised' = raised
  BY <1>1 DEF IInv, TypeOK
<1>3. \A j \in Pool_Index : jobs'[j].state = jobs[j].state /\ jobs'[j].req = jobs[j].req
  BY <1>1, <1>2
<1>4. /\ queue' \in Seq(Pool_Index)
      /\ Len(queue') = Len(queue)
      /\ \A i \in 1 .. Len(queue) :
           queue'[i] = IF i <= k THEN queue[i + 1]
                       ELSE IF i = k + 1 THEN queue[1] ELSE queue[i]
  BY MovedQueue DEF IInv
<1>5. \A i \in 1 .. Len(queue) : From(i) \in 1 .. Len(queue) /\ queue'[i] = queue[From(i)]
  BY <1>1, <1>4
<1>6. \A i, l \in 1 .. Len(queue) : From(i) = From(l) => i = l
  BY <1>1
<1>7. \A l \in 1 .. Len(queue) : \E i \in 1 .. Len(queue) : From(i) = l
  <2> SUFFICES ASSUME NEW l \in 1 .. Len(queue)
               PROVE  \E i \in 1 .. Len(queue) : From(i) = l
    OBVIOUS
  <2>1. CASE l = 1
    BY <1>1, <2>1
  <2>2. CASE l # 1 /\ l <= k + 1
    <3>1. l - 1 \in 1 .. Len(queue) /\ From(l - 1) = l
      BY <1>1, <2>2
    <3> QED BY <3>1
  <2>3. CASE l > k + 1
    BY <1>1, <2>3
  <2> QED BY <1>1, <2>1, <2>2, <2>3
<1>8. \A i, l \in 1 .. Len(queue) :
        i < l => From(i) < From(l) \/ From(i) \in 2 .. k + 1
  <2> SUFFICES ASSUME NEW i \in 1 .. Len(queue), NEW l \in 1 .. Len(queue), i < l
               PROVE  From(i) < From(l) \/ From(i) \in 2 .. k + 1
    OBVIOUS
  <2>1. CASE i <= k
    BY <1>1, <2>1
  <2>2. CASE i > k
    BY <1>1, <2>2
  <2> QED BY <1>1, <2>1, <2>2
<1>9. \A i \in 1 .. Len(queue) : queue[i] \in Pool_Index
  BY ElementOfSeq DEF IInv, TypeOK
<1> HIDE DEF From
<1>10. TypeOK'
  BY <1>1, <1>2, <1>4 DEF IInv, TypeOK
<1>11. QueueDistinct'
  <2> SUFFICES ASSUME NEW i \in 1 .. Len(queue), NEW l \in 1 .. Len(queue),
                      queue[From(i)] = queue[From(l)]
               PROVE  i = l
    BY <1>4, <1>5 DEF QueueDistinct
  <2> QED BY <1>5, <1>6 DEF IInv, QueueDistinct
<1>12. QueueComplete'
  <2> SUFFICES ASSUME NEW j \in Pool_Index
               PROVE  (\E i \in 1 .. Len(queue) : queue'[i] = j)
                        <=> jobs[j].state \notin {"Invalid", "Complete"}
    BY <1>3, <1>4 DEF QueueComplete, InQueue
  <2>1. ASSUME NEW i \in 1 .. Len(queue), queue[i] = j
        PROVE  \E l \in 1 .. Len(queue) : queue'[l] = j
    <3>1. PICK l \in 1 .. Len(queue) : From(l) = i
      BY <1>7
    <3> QED BY <1>5, <2>1, <3>1
  <2>2. (\E i \in 1 .. Len(queue) : queue'[i] = j) <=> InQueue(j)
    BY <1>5, <2>1 DEF InQueue
  <2> QED BY <2>2 DEF IInv, QueueComplete
<1>13. OthersWait'
  <2> SUFFICES ASSUME NEW j \in Pool_Index PROVE jobs[j].state \in Waiting
    BY <1>3 DEF OthersWait
  <2>1. CASE j = h
    BY <2>1 DEF Waiting
  <2>2. CASE j # h
    BY <2>2 DEF IInv, OthersWait, NotHead
  <2> QED BY <2>1, <2>2
<1>14. OnePreponing'
  BY <1>3 DEF IInv, OnePreponing
<1>15. OnlyPreponed'
  <2> SUFFICES ASSUME NEW i \in 1 .. Len(queue), NEW l \in 1 .. Len(queue), i < l,
                      jobs[queue[From(l)]].state = "Prepone_Requests_Pending"
               PROVE  jobs[queue[From(i)]].req.op \in Preponable
    <3>1. \A i \in 1 .. Len(queue) :
            /\ jobs'[queue'[i]].state = jobs[queue[From(i)]].state
            /\ jobs'[queue'[i]].req = jobs[queue[From(i)]].req
      BY <1>3, <1>5, <1>9
    <3> QED BY <1>4, <3>1, SMTT(30) DEF OnlyPreponed
  <2>1. CASE From(i) < From(l)
    BY <1>5, <2>1 DEF IInv, OnlyPreponed
  <2>2. CASE From(i) \in 2 .. k + 1
    BY <2>2
  <2> QED BY <1>8, <2>1, <2>2
<1>16. JobsConsistent'
  <2>1. JobConsistent(jobs[h])
    BY <1>1 DEF IInv, JobsConsistent
  <2>2. JobConsistent(job)
    BY <2>1 DEF JobConsistent
  <2> QED BY <1>2, <2>2 DEF IInv, JobsConsistent
<1>17. RequestsDistinct'
  BY <1>3 DEF IInv, RequestsDistinct, Equal
<1>18. NoProgramError'
  BY <1>2 DEF IInv, NoProgramError
<1> QED BY <1>10, <1>11, <1>12, <1>13, <1>14, <1>15, <1>16, <1>17, <1>18 DEF IInv

(* Two positions of a list, none of them that of the item appended last. *)
LEMMA BothBefore ==
  ASSUME NEW n \in Nat, NEW i \in 1 .. n + 1, NEW k \in 1 .. n + 1, i < k, k # n + 1
  PROVE  i \in 1 .. n /\ k \in 1 .. n
OBVIOUS

(* A job is made for a new request, at the tail. *)
LEMMA JobEnters ==
  ASSUME IInv, NEW j \in Pool_Index, jobs[j].state = "Invalid", NEW job \in Job_Type,
         jobs' = [jobs EXCEPT ![j] = job],
         queue' = Append(queue, j),
         UNCHANGED raised,
         job.state \in {"Submitted", "Pending"},
         JobConsistent(job),
         \A k \in Pool_Index : jobs[k].state # "Invalid" => ~Equal(jobs[k].req, job.req)
  PROVE  IInv'
<1>1. Len(queue) \in Nat
  BY LenProperties DEF IInv, TypeOK
<1>2. /\ jobs'[j] = job
      /\ \A k \in Pool_Index : k # j => jobs'[k] = jobs[k]
      /\ raised' = raised
  BY DEF IInv, TypeOK
<1>3. /\ queue' \in Seq(Pool_Index)
      /\ Len(queue') = Len(queue) + 1
      /\ \A i \in 1 .. Len(queue) : queue'[i] = queue[i]
      /\ queue'[Len(queue) + 1] = j
      /\ queue' # <<>>
  BY AppendProperties DEF IInv, TypeOK
<1>4. ~InQueue(j)
  BY DEF IInv, QueueComplete
<1>5. \A i \in 1 .. Len(queue) : queue[i] \in Pool_Index /\ queue[i] # j
  BY <1>4, ElementOfSeq DEF IInv, TypeOK, InQueue
<1>6. TypeOK'
  BY <1>2, <1>3 DEF IInv, TypeOK
<1>7. QueueDistinct'
  BY <1>1, <1>3, <1>5 DEF IInv, QueueDistinct
<1>8. QueueComplete'
  <2> SUFFICES ASSUME NEW k \in Pool_Index
               PROVE  (\E i \in 1 .. Len(queue) + 1 : queue'[i] = k)
                        <=> jobs'[k].state \notin {"Invalid", "Complete"}
    BY <1>3 DEF QueueComplete, InQueue
  <2>1. (\E i \in 1 .. Len(queue) + 1 : queue'[i] = k) <=> k = j \/ InQueue(k)
    BY <1>1, <1>3 DEF InQueue
  <2> QED BY <1>2, <2>1 DEF IInv, QueueComplete
<1>9. OthersWait'
  <2> SUFFICES ASSUME NEW k \in Pool_Index, NotHead(k)' PROVE jobs'[k].state \in Waiting
    BY DEF OthersWait
  <2>2. CASE k = j
    BY <1>2, <2>2 DEF Waiting
  <2>3. CASE k # j
    <3>1. NotHead(k)
      BY <1>3, <2>3, HeadTailAppend DEF NotHead, IInv, TypeOK
    <3> QED BY <1>2, <2>3, <3>1 DEF IInv, OthersWait
  <2> QED BY <2>2, <2>3
<1>10. OnePreponing'
  BY <1>2 DEF IInv, OnePreponing
<1>11. OnlyPreponed'
  <2> SUFFICES ASSUME NEW i \in 1 .. Len(queue) + 1, NEW k \in 1 .. Len(queue) + 1, i < k,
                      jobs'[queue'[k]].state = "Prepone_Requests_Pending"
               PROVE  jobs'[queue'[i]].req.op \in Preponable
    BY <1>3 DEF OnlyPreponed
  <2>1. k # Len(queue) + 1
    BY <1>2, <1>3
  <2>2. i \in 1 .. Len(queue) /\ k \in 1 .. Len(queue)
    BY <1>1, <2>1, BothBefore
  <2>3. /\ jobs'[queue'[i]] = jobs[queue[i]]
        /\ jobs'[queue'[k]] = jobs[queue[k]]
    BY <1>2, <1>3, <1>5, <2>2
  <2>4. OnlyPreponed
    BY DEF IInv
  <2> QED BY <2>2, <2>3, <2>4 DEF OnlyPreponed
<1>12. JobsConsistent'
  BY <1>2 DEF IInv, JobsConsistent
<1>13. RequestsDistinct'
  BY <1>2 DEF IInv, RequestsDistinct, Equal
<1>14. NoProgramError'
  BY <1>2 DEF IInv, NoProgramError
<1> QED BY <1>6, <1>7, <1>8, <1>9, <1>10, <1>11, <1>12, <1>13, <1>14 DEF IInv

-----------------------------------------------------------------------------
(***************************************************************************)
(* The initial state, and the steps of the clients.                        *)
(***************************************************************************)
(* An invalid job, and the request of the initialization, have their types.*)
LEMMA InvalidJobType ==
  /\ Job_Invalid \in Job_Type
  /\ Internal("Initialize") \in Request_Type
<1>1. 0 \in 0 .. Max_Count /\ 0 \in 0 .. Max_Preponed /\ 0 \in Keys
  BY PoolAssumption
<1>2. \A op \in Operations : Internal(op) \in Request_Type
  BY <1>1 DEF Internal, Request_Type
<1>3. "Read" \in Operations /\ "Initialize" \in Operations
  BY DEF Operations, Blockwise
<1>4. Job_Invalid \in Job_Type
  BY <1>1, <1>2, <1>3 DEF Job_Invalid, Job_Type, Job_State
<1> QED BY <1>2, <1>3, <1>4

(* The pool starts with the initialization as its only job. *)
THEOREM InitIInv == Init => IInv
<1> SUFFICES ASSUME Init PROVE IInv
  OBVIOUS
<1> DEFINE first == [Job_Invalid EXCEPT !.state = "Submitted", !.req = Internal("Initialize")]
<1>1. /\ jobs = [j \in Pool_Index |-> IF j = 1 THEN first ELSE Job_Invalid]
      /\ queue = <<1>> /\ raised = FALSE
  BY DEF Init, Initialized_Object
<1>2. first \in Job_Type
  BY InvalidJobType DEF Job_Type, Job_State
<1>3. 1 \in Pool_Index
  BY PoolAssumption DEF Pool_Index
<1>4. /\ first.state = "Submitted" /\ first.req = Internal("Initialize")
      /\ Job_Invalid.state = "Invalid"
  BY DEF Job_Invalid
<1> HIDE DEF first
<1>5. queue \in Seq(Pool_Index) /\ Len(queue) = 1 /\ queue[1] = 1 /\ Head(queue) = 1
  BY <1>1, <1>3
<1>6. TypeOK
  BY <1>1, <1>2, <1>5, InvalidJobType DEF TypeOK
<1>7. QueueDistinct
  BY <1>5 DEF QueueDistinct
<1>8. QueueComplete
  BY <1>1, <1>4, <1>5 DEF QueueComplete, InQueue
<1>9. OthersWait /\ OnePreponing
  BY <1>1, <1>4 DEF OthersWait, OnePreponing, Waiting
<1>10. OnlyPreponed
  BY <1>5 DEF OnlyPreponed
<1>11. JobConsistent(first) /\ JobConsistent(Job_Invalid)
  BY <1>4 DEF JobConsistent, Internal, Blockwise
<1>12. JobsConsistent
  BY <1>1, <1>11 DEF JobsConsistent
<1>13. RequestsDistinct
  BY <1>1, <1>4 DEF RequestsDistinct
<1>14. NoProgramError
  BY <1>1 DEF NoProgramError
<1> QED BY <1>6, <1>7, <1>8, <1>9, <1>10, <1>12, <1>13, <1>14 DEF IInv

(* Submit_Request keeps the invariant: it finds a free job. *)
LEMMA SubmitsIInv ==
  ASSUME IInv, Client_Submits
  PROVE  IInv'
<1>1. PICK r \in Client_Requests : Submit_Request(r)
  BY DEF Client_Submits
<1> DEFINE job == [Job_Invalid EXCEPT
                     !.state = IF r.op \in Blockwise THEN "Pending" ELSE "Submitted",
                     !.req = r,
                     !.success = (r.op \in Blockwise)]
<1>2. InState({"Invalid"}) # {}
  BY <1>1, FreeJob DEF Client_Submits, Submit_Request
<1>3. PICK j \in Pool_Index : /\ IsFirst(j, InState({"Invalid"}))
                              /\ jobs' = [jobs EXCEPT ![j] = job]
                              /\ queue' = Append(queue, j)
                              /\ UNCHANGED raised
  BY <1>1, <1>2 DEF Submit_Request
<1>4. jobs[j].state = "Invalid"
  BY <1>3 DEF IsFirst, InState
<1>5. /\ r \in Request_Type
      /\ r.op \in Blockwise => 0 < r.count
      /\ r.op \in Client_Ops
  BY DEF Client_Requests
<1>6. job \in Job_Type
  <2>1. Job_Invalid \in Job_Type /\ (r.op \in Blockwise) \in BOOLEAN
    BY InvalidJobType
  <2>2. ASSUME NEW state \in Job_State, NEW success \in BOOLEAN
        PROVE  [Job_Invalid EXCEPT !.state = state, !.req = r, !.success = success] \in Job_Type
    BY <1>5, <2>1 DEF Job_Type
  <2>3. (IF r.op \in Blockwise THEN "Pending" ELSE "Submitted") \in Job_State
    BY DEF Job_State
  <2> QED BY <2>1, <2>2, <2>3
<1>7. /\ job.state = IF r.op \in Blockwise THEN "Pending" ELSE "Submitted"
      /\ job.req = r
      /\ job.completed = 0
  BY DEF Job_Invalid
<1> HIDE DEF job
<1>8. JobConsistent(job)
  BY <1>5, <1>7 DEF JobConsistent
<1>9. \A k \in Pool_Index : jobs[k].state # "Invalid" => ~Equal(jobs[k].req, job.req)
  BY <1>1, <1>7 DEF Submit_Request
<1>10. job.state \in {"Submitted", "Pending"}
  BY <1>7
<1> QED BY <1>3, <1>4, <1>6, <1>8, <1>9, <1>10, JobEnters

(* Drop_Completed_Request keeps the invariant: the job found is the job    *)
(* whose request was shown.                                                *)
LEMMA DropsIInv ==
  ASSUME IInv, Drop_Completed_Request
  PROVE  IInv'
<1>1. PICK j \in Pool_Index, k \in Pool_Index :
        /\ IsFirst(j, InState({"Complete"}))
        /\ IsFirst(k, {l \in Pool_Index : /\ jobs[l].state # "Invalid"
                                          /\ Equal(jobs[l].req, jobs[j].req)})
        /\ \/ /\ jobs[k].state # "Complete"
              /\ Raise_Program_Error
           \/ /\ jobs[k].state = "Complete"
              /\ jobs' = [jobs EXCEPT ![k] = Job_Invalid]
              /\ UNCHANGED <<queue, raised>>
  BY DEF Drop_Completed_Request
<1>2. jobs[j].state = "Complete"
  BY <1>1 DEF IsFirst, InState
<1>3. jobs[k].state # "Invalid" /\ Equal(jobs[k].req, jobs[j].req)
  BY <1>1 DEF IsFirst
<1>4. k = j
  BY <1>2, <1>3 DEF IInv, RequestsDistinct
<1>5. /\ jobs' = [jobs EXCEPT ![j] = Job_Invalid]
      /\ queue' = queue /\ raised' = raised
  BY <1>1, <1>2, <1>4
<1>6. /\ jobs'[j] = Job_Invalid /\ jobs'[j].state = "Invalid"
      /\ \A l \in Pool_Index : l # j => jobs'[l] = jobs[l]
  BY <1>5 DEF IInv, TypeOK, Job_Invalid
<1>7. \A i \in 1 .. Len(queue) : queue[i] \in Pool_Index /\ queue[i] # j
  <2>1. ~InQueue(j)
    BY <1>2 DEF IInv, QueueComplete
  <2> QED BY <2>1, ElementOfSeq DEF IInv, TypeOK, InQueue
<1>8. TypeOK'
  BY <1>5, InvalidJobType DEF IInv, TypeOK
<1>9. (QueueDistinct /\ NoProgramError)'
  BY <1>5 DEF IInv, QueueDistinct, NoProgramError
<1>10. QueueComplete'
  BY <1>2, <1>5, <1>6 DEF IInv, QueueComplete, InQueue
<1>11. OthersWait'
  BY <1>5, <1>6 DEF IInv, OthersWait, NotHead, Waiting
<1>12. (OnePreponing /\ RequestsDistinct)'
  BY <1>6 DEF IInv, OnePreponing, RequestsDistinct
<1>13. OnlyPreponed'
  BY <1>5, <1>6, <1>7 DEF IInv, OnlyPreponed
<1>14. JobConsistent(Job_Invalid)
  BY DEF JobConsistent, Job_Invalid
<1>15. JobsConsistent'
  BY <1>6, <1>14 DEF IInv, JobsConsistent
<1> QED BY <1>8, <1>9, <1>10, <1>11, <1>12, <1>13, <1>15 DEF IInv

-----------------------------------------------------------------------------
(***************************************************************************)
(* The steps of the pool.                                                  *)
(***************************************************************************)
(* Goto, for the head of the queue. *)
LEMMA GotoIInv ==
  ASSUME IInv, queue # <<>>, NEW state \in Job_State \ {"Invalid", "Complete"},
         Goto(Head(queue), state),
         JobConsistent([jobs[Head(queue)] EXCEPT !.state = state])
  PROVE  IInv'
<1> DEFINE h   == Head(queue)
           job == [jobs[h] EXCEPT !.state = state]
<1>1. h \in Pool_Index /\ jobs[h] \in Job_Type
  BY HeadOfQueue DEF IInv, TypeOK
<1>2. job \in Job_Type /\ job.req = jobs[h].req /\ job.state = state
  BY <1>1 DEF Job_Type
<1>3. jobs' = [jobs EXCEPT ![h] = job] /\ UNCHANGED <<queue, raised>>
  BY <1>1 DEF Goto, IInv, TypeOK
<1> QED BY <1>2, <1>3, HeadGoesOn

(* Start_Preponing, for the head of the queue. *)
LEMMA StartPreponingIInv ==
  ASSUME IInv, queue # <<>>, Start_Preponing(Head(queue)),
         jobs[Head(queue)].req.op \in Long
  PROVE  IInv'
<1> DEFINE h   == Head(queue)
           job == [jobs[h] EXCEPT !.state = "Prepone_Requests_Pending", !.preponed = 0]
<1>1. h \in Pool_Index /\ jobs[h] \in Job_Type
  BY HeadOfQueue DEF IInv, TypeOK
<1>2. 0 \in 0 .. Max_Preponed
  BY PoolAssumption
<1>3. /\ job \in Job_Type
      /\ job.req = jobs[h].req
      /\ job.state = "Prepone_Requests_Pending"
  BY <1>1, <1>2 DEF Job_Type, Job_State
<1>4. jobs' = [jobs EXCEPT ![h] = job] /\ UNCHANGED <<queue, raised>>
  BY <1>1 DEF Start_Preponing, IInv, TypeOK
<1> HIDE DEF job
<1>5. JobConsistent(job)
  BY <1>3 DEF JobConsistent
<1> QED BY <1>3, <1>4, <1>5, HeadGoesOn

(* Complete, for the head of the queue. *)
LEMMA CompleteIInv ==
  ASSUME IInv, queue # <<>>, NEW success \in BOOLEAN, Complete(Head(queue), success)
  PROVE  IInv'
<1> DEFINE h   == Head(queue)
           job == [jobs[h] EXCEPT !.state = "Complete", !.success = success]
<1>1. h \in Pool_Index /\ jobs[h] \in Job_Type
  BY HeadOfQueue DEF IInv, TypeOK
<1>2. job \in Job_Type /\ job.req = jobs[h].req /\ job.state = "Complete"
  BY <1>1 DEF Job_Type, Job_State
<1>3. jobs' = [jobs EXCEPT ![h] = job] /\ queue' = Tail(queue) /\ UNCHANGED raised
  BY <1>1 DEF Complete, IInv, TypeOK
<1> HIDE DEF job
<1> QED BY <1>2, <1>3, HeadLeaves

(* Execute_Prepone_Requests: the job moves, or goes on. *)
LEMMA PreponeIInv ==
  ASSUME IInv, queue # <<>>, Execute_Prepone_Requests(Head(queue))
  PROVE  IInv'
<1> DEFINE h   == Head(queue)
           n   == Nr_To_Prepone
           job == [jobs[h] EXCEPT !.preponed = @ + n]
<1>1. h \in Pool_Index /\ jobs[h] \in Job_Type
  BY HeadOfQueue DEF IInv, TypeOK
<1>2. jobs[h].req.op \in Long /\ jobs[h].state = "Prepone_Requests_Pending"
  BY DEF Execute_Prepone_Requests
<1>3. CASE n > 0
  <2>1. /\ n \in 0 .. Len(queue) - 1
        /\ jobs[h].preponed + n <= Max_Preponed
        /\ \A i \in 2 .. n + 1 : jobs[queue[i]].req.op \in Preponable
    BY NrToPrepone DEF IInv
  <2>2. jobs[h].preponed \in 0 .. Max_Preponed
    BY <1>1 DEF Job_Type
  <2>3. jobs[h].preponed + n \in 0 .. Max_Preponed
    <3>1. Len(queue) \in Nat /\ Max_Preponed \in Nat
      BY HeadOfQueue, PoolAssumption DEF IInv
    <3> HIDE DEF n, h
    <3> QED BY <2>1, <2>2, <3>1
  <2>4. /\ queue' = Move_Items_Towards_Tail(n)
        /\ jobs' = [jobs EXCEPT ![h] = job]
        /\ UNCHANGED raised
    BY <1>1, <1>3 DEF Execute_Prepone_Requests, IInv, TypeOK
  <2>5. job \in Job_Type /\ job.req = jobs[h].req /\ job.state = "Prepone_Requests_Pending"
    BY <1>1, <1>2, <2>3 DEF Job_Type
  <2> HIDE DEF n, job
  <2> QED BY <1>2, <2>1, <2>4, <2>5, HeadMoves
<1>4. CASE ~(n > 0)
  <2>1. Goto(h, "Prepone_Requests_Complete")
    BY <1>4 DEF Execute_Prepone_Requests
  <2>2. JobConsistent([jobs[h] EXCEPT !.state = "Prepone_Requests_Complete"])
    BY <1>1, <1>2 DEF JobConsistent, Job_Type
  <2> QED BY <2>1, <2>2, GotoIInv DEF Job_State
<1> QED BY <1>3, <1>4

(* Each step of the job at the head keeps the invariant. *)
LEMMA ExecuteIInv ==
  ASSUME FreshStart, IInv, Execute
  PROVE  IInv'
<1> DEFINE h == Head(queue)
<1>1. queue # <<>>
  BY DEF Execute
<1>2. h \in Pool_Index /\ jobs[h] \in Job_Type
  BY <1>1, HeadOfQueue DEF IInv, TypeOK
<1>3. JobConsistent(jobs[h])
  BY <1>2 DEF IInv, JobsConsistent
<1>4. CASE Execute_Submitted(h)
  <2>1. /\ jobs[h].req.op \notin Blockwise
        /\ Goto(h, IF jobs[h].req.op = "Rekey" THEN "Init_Pending" ELSE "Step_Pending")
    BY <1>3, <1>4 DEF Execute_Submitted, JobConsistent
  <2>2. CASE jobs[h].req.op = "Rekey"
    <3>1. JobConsistent([jobs[h] EXCEPT !.state = "Init_Pending"])
      BY <1>2, <2>2 DEF JobConsistent, Job_Type, Long
    <3> QED BY <1>1, <2>1, <2>2, <3>1, GotoIInv DEF Job_State
  <2>3. CASE jobs[h].req.op # "Rekey"
    <3>1. JobConsistent([jobs[h] EXCEPT !.state = "Step_Pending"])
      BY <1>2, <2>1 DEF JobConsistent, Job_Type
    <3> QED BY <1>1, <2>1, <2>3, <3>1, GotoIInv DEF Job_State
  <2> QED BY <2>2, <2>3
<1>5. CASE Execute_Simple_Complete(h)
  <2>1. jobs[h].req.op = "Deinitialize" => jobs[h].prim
    BY <1>3, <1>5 DEF Execute_Simple_Complete, JobConsistent
  <2>2. Complete(h, jobs[h].prim) /\ jobs[h].prim \in BOOLEAN
    BY <1>2, <1>5, <2>1 DEF Execute_Simple_Complete, Job_Type
  <2> QED BY <1>1, <2>2, CompleteIInv
<1>6. CASE Execute_Initialize_Complete(h)
  <2>1. jobs[h].prim /\ jobs[h].sb = "Normal"
    BY <1>3, <1>6 DEF Execute_Initialize_Complete, JobConsistent
  <2>2. queue' = Tail(queue) /\ jobs' = [jobs EXCEPT ![h] = Job_Invalid] /\ UNCHANGED raised
    BY <1>6, <2>1 DEF Execute_Initialize_Complete
  <2>3. Job_Invalid.state = "Invalid"
    BY DEF Job_Invalid
  <2> QED BY <1>1, <2>2, <2>3, HeadLeaves, InvalidJobType
<1>7. CASE Execute_Step_Complete(h)
  <2>1. jobs[h].req.op \in Long /\ jobs[h].prim
    BY <1>3, <1>7 DEF Execute_Step_Complete, JobConsistent, Long
  <2>2. Complete(h, TRUE) \/ Start_Preponing(h)
    BY <1>7, <2>1 DEF Execute_Step_Complete
  <2> QED BY <1>1, <2>1, <2>2, CompleteIInv, StartPreponingIInv
<1>8. CASE Execute_Prepone_Requests(h)
  BY <1>1, <1>8, PreponeIInv
<1>9. CASE Execute_Next_Step(h)
  <2>1. jobs[h].req.op \in Long /\ Goto(h, "Step_Pending")
    BY <1>3, <1>9 DEF Execute_Next_Step, JobConsistent
  <2>2. JobConsistent([jobs[h] EXCEPT !.state = "Step_Pending"])
    BY <1>2, <2>1 DEF JobConsistent, Job_Type, Long, Blockwise
  <2> QED BY <1>1, <2>1, <2>2, GotoIInv DEF Job_State
<1> QED BY <1>4, <1>5, <1>6, <1>7, <1>8, <1>9 DEF Execute

(* Drop_Generated_Primitive keeps the invariant. *)
LEMMA DropGeneratedIInv ==
  ASSUME IInv, NEW j \in Pool_Index, Drop_Generated_Primitive(j)
  PROVE  IInv'
<1>1. queue # <<>> /\ j = Head(queue) /\ jobs[j] \in Job_Type
  BY DEF Drop_Generated_Primitive, IInv, TypeOK
<1>2. JobConsistent(jobs[j])
  BY DEF IInv, JobsConsistent
<1>3. CASE jobs[j].state = "Pending"
  <2>1. Goto(j, "In_Progress")
    BY <1>3 DEF Drop_Generated_Primitive
  <2>2. JobConsistent([jobs[j] EXCEPT !.state = "In_Progress"])
    BY <1>1, <1>2, <1>3 DEF JobConsistent, Job_Type
  <2> QED BY <1>1, <2>1, <2>2, GotoIInv DEF Job_State
<1>4. CASE jobs[j].state = "Init_Pending"
  <2>1. Goto(j, "Init_In_Progress")
    BY <1>4 DEF Drop_Generated_Primitive
  <2>2. JobConsistent([jobs[j] EXCEPT !.state = "Init_In_Progress"])
    BY <1>1, <1>2, <1>4 DEF JobConsistent, Job_Type
  <2> QED BY <1>1, <2>1, <2>2, GotoIInv DEF Job_State
<1>5. CASE jobs[j].state = "Step_Pending"
  <2>1. Goto(j, "Step_In_Progress")
    BY <1>5 DEF Drop_Generated_Primitive
  <2>2. JobConsistent([jobs[j] EXCEPT !.state = "Step_In_Progress"])
    BY <1>1, <1>2, <1>5 DEF JobConsistent, Job_Type
  <2> QED BY <1>1, <2>1, <2>2, GotoIInv DEF Job_State
<1> QED BY <1>3, <1>4, <1>5 DEF Drop_Generated_Primitive, Generated

(* The answer to a primitive is for the head of the queue. *)
LEMMA AnswerForHead ==
  ASSUME IInv, NEW j \in Pool_Index, jobs[j].state \in Taken
  PROVE  ~NotHead(j) /\ queue # <<>> /\ j = Head(queue)
BY DEF IInv, OthersWait, Waiting, Taken, NotHead

(* Mark_Generated_Primitive_Complete for a block keeps the invariant. *)
LEMMA MarkBlockIInv ==
  ASSUME IInv, NEW j \in Pool_Index, Mark_Block_Complete(j)
  PROVE  IInv'
<1> DEFINE success == jobs[j].completed < jobs[j].req.inside
           job     == [jobs[j] EXCEPT !.success = success, !.completed = @ + 1]
           again   == [job EXCEPT !.state = "Pending"]
           over    == [job EXCEPT !.state = "Complete"]
<1>1. jobs[j].state = "In_Progress"
  BY DEF Mark_Block_Complete
<1>2. ~NotHead(j) /\ queue # <<>> /\ j = Head(queue)
  BY <1>1, AnswerForHead DEF Taken
<1>3. jobs[j] \in Job_Type
  BY DEF IInv, TypeOK
<1>4. /\ jobs[j].req.op \in Blockwise
      /\ jobs[j].completed \in 0 .. Max_Count
      /\ jobs[j].req.count \in 0 .. Max_Count
      /\ jobs[j].completed < jobs[j].req.count
  BY <1>1, <1>3 DEF IInv, JobsConsistent, JobConsistent, Job_Type, Request_Type
<1>5. jobs[j].completed + 1 \in 0 .. Max_Count
  BY <1>4, PoolAssumption
<1>6. success \in BOOLEAN
  OBVIOUS
<1>7. /\ job \in Job_Type
      /\ job.req = jobs[j].req
      /\ job.completed = jobs[j].completed + 1
  <2> HIDE DEF success
  <2> QED BY <1>3, <1>5, <1>6 DEF Job_Type
<1>8. UNCHANGED raised
  BY <1>2 DEF Mark_Block_Complete
<1>9. CASE job.completed < job.req.count
  <2>1. jobs' = [jobs EXCEPT ![j] = again] /\ UNCHANGED queue
    BY <1>2, <1>9 DEF Mark_Block_Complete
  <2> HIDE DEF job
  <2>2. /\ again \in Job_Type
        /\ again.req = jobs[j].req
        /\ again.state = "Pending"
        /\ again.completed = job.completed
    BY <1>7 DEF Job_Type, Job_State
  <2> HIDE DEF again
  <2>3. JobConsistent(again)
    BY <1>4, <1>7, <1>9, <2>2 DEF JobConsistent
  <2> QED BY <1>2, <1>8, <2>1, <2>2, <2>3, HeadGoesOn
<1>10. CASE ~(job.completed < job.req.count)
  <2>1. jobs' = [jobs EXCEPT ![j] = over] /\ queue' = Tail(queue)
    BY <1>2, <1>10 DEF Mark_Block_Complete
  <2> HIDE DEF job
  <2>2. over \in Job_Type /\ over.req = jobs[j].req /\ over.state = "Complete"
    BY <1>7 DEF Job_Type, Job_State
  <2> HIDE DEF over
  <2> QED BY <1>2, <1>8, <2>1, <2>2, HeadLeaves
<1> QED BY <1>9, <1>10

(* Mark_Generated_Primitive_Complete for a step of the superblock control  *)
(* keeps the invariant.                                                    *)
LEMMA MarkStepIInv ==
  ASSUME FreshStart, IInv, NEW j \in Pool_Index, NEW success \in BOOLEAN,
         NEW finished \in BOOLEAN, NEW sb \in SB_States,
         Mark_Step_Complete(j, success, finished, sb)
  PROVE  IInv'
<1> DEFINE state == IF jobs[j].state = "Init_In_Progress" THEN "Init_Complete"
                                                         ELSE "Step_Complete"
           fin   == IF jobs[j].req.op \in Long /\ jobs[j].state = "Step_In_Progress"
                      THEN finished ELSE jobs[j].finished
           found == IF jobs[j].req.op = "Initialize" THEN sb ELSE jobs[j].sb
           job   == [jobs[j] EXCEPT !.state = state, !.prim = success,
                                    !.finished = fin, !.sb = found]
<1>1. /\ jobs[j].state \in {"Init_In_Progress", "Step_In_Progress"}
      /\ jobs[j].req.op # "Discard_Snapshot" => success
  BY DEF Mark_Step_Complete
<1>2. ~NotHead(j) /\ queue # <<>> /\ j = Head(queue)
  BY <1>1, AnswerForHead DEF Taken
<1>3. jobs[j] \in Job_Type /\ JobConsistent(jobs[j])
  BY DEF IInv, TypeOK, JobsConsistent
<1>4. jobs' = [jobs EXCEPT ![j] = job] /\ UNCHANGED <<queue, raised>>
  BY <1>2, <1>3 DEF Mark_Step_Complete, IInv, TypeOK, Job_Type
<1>5. /\ state \in Job_State
      /\ fin \in BOOLEAN
      /\ found \in SB_States \cup {"Invalid"}
  BY <1>3 DEF Job_Type, Job_State
<1>6. /\ jobs[j].state = "Init_In_Progress" => state = "Init_Complete"
      /\ jobs[j].state = "Step_In_Progress" => state = "Step_Complete"
      /\ jobs[j].req.op = "Initialize" => found = "Normal"
  BY DEF FreshStart
<1> HIDE DEF state, fin, found
<1>7. /\ job \in Job_Type
      /\ job.req = jobs[j].req /\ job.state = state
      /\ job.prim = success /\ job.sb = found
  BY <1>3, <1>5 DEF Job_Type
<1> HIDE DEF job
<1>8. JobConsistent(job) /\ job.state \notin {"Invalid", "Complete"}
  BY <1>1, <1>3, <1>6, <1>7 DEF JobConsistent, Long
<1> QED BY <1>2, <1>4, <1>7, <1>8, HeadGoesOn

(* Every step of the pool and of its clients keeps the invariant. *)
THEOREM NextIInv ==
  ASSUME FreshStart PROVE IInv /\ [Next]_vars => IInv'
<1> SUFFICES ASSUME IInv, [Next]_vars PROVE IInv'
  OBVIOUS
<1>1. CASE UNCHANGED vars
  BY <1>1 DEF vars, IInv, TypeOK, QueueDistinct, QueueComplete, InQueue, OthersWait, NotHead,
              OnePreponing, OnlyPreponed, JobsConsistent, RequestsDistinct, NoProgramError
<1>2. CASE Client_Submits
  BY <1>2, SubmitsIInv
<1>3. CASE Drop_Completed_Request
  BY <1>3, DropsIInv
<1>4. CASE Execute
  BY <1>4, ExecuteIInv
<1>5. CASE \E j \in Pool_Index : Drop_Generated_Primitive(j)
  BY <1>5, DropGeneratedIInv
<1>6. CASE \E j \in Pool_Index : Mark_Generated_Primitive_Complete(j)
  BY <1>6, MarkBlockIInv, MarkStepIInv DEF Mark_Generated_Primitive_Complete
<1> QED BY <1>1, <1>2, <1>3, <1>4, <1>5, <1>6 DEF Next, Pool

(* The inductive invariant holds in every state. *)
THEOREM Invariance == ASSUME FreshStart PROVE Spec => []IInv
<1>1. IInv /\ [Next]_vars => IInv'
  BY NextIInv
<1> QED BY <1>1, InitIInv, PTL DEF Spec

-----------------------------------------------------------------------------
(* The jobs and the queue always have their types: no job counts more      *)
(* blocks or preponed requests than its limits allow.                      *)
THEOREM TypeCorrect == ASSUME FreshStart PROVE Spec => []TypeOK
<1>1. IInv => TypeOK
  BY IInvImplies
<1> QED BY <1>1, Invariance, PTL

(* Moving the rekeying in the index queue neither loses nor doubles a job. *)
THEOREM NothingLost == ASSUME FreshStart PROVE Spec => []QueueHoldsActive
<1>1. IInv => QueueHoldsActive
  BY IInvImplies
<1> QED BY <1>1, Invariance, PTL

(* Only the head of the queue is worked on, and at most one rekeying or    *)
(* extension waits behind requests that it lets pass.                      *)
THEOREM WorkedOnOneByOne == ASSUME FreshStart PROVE Spec => []OneAtATime
<1>1. IInv => OneAtATime
  BY IInvImplies
<1> QED BY <1>1, Invariance, PTL

(* The pool never raises Program_Error. *)
THEOREM NeverRaises == ASSUME FreshStart PROVE Spec => []NoProgramError
<1>1. IInv => NoProgramError
  BY IInvImplies
<1> QED BY <1>1, Invariance, PTL

-----------------------------------------------------------------------------
(***************************************************************************)
(* Module RequestPool implements module RequestQueue, under the same       *)
(* assumption.                                                             *)
(***************************************************************************)

(***************************************************************************)
(* What the answer to a request for blocks says.                           *)
(***************************************************************************)
(* Until the job is complete, it has succeeded if all blocks so far exist. *)
AnswerRight(job) ==
  job.state # "Invalid" /\ job.req.op \in Blockwise =>
    /\ job.req.inside <= job.req.count
    /\ job.state # "Complete" => job.success = (job.completed <= job.req.inside)

AnswersRight == \A j \in Pool_Index : AnswerRight(jobs[j])

(* A step that changes one job keeps AnswersRight, if it holds for the job.*)
LEMMA OneJobChanges ==
  ASSUME TypeOK, AnswersRight, NEW j \in Pool_Index, NEW job, AnswerRight(job),
         jobs' = [jobs EXCEPT ![j] = job]
  PROVE  AnswersRight'
<1>1. jobs'[j] = job /\ \A k \in Pool_Index : k # j => jobs'[k] = jobs[k]
  BY DEF TypeOK
<1> QED BY <1>1 DEF AnswersRight

(* Going to another state does. *)
LEMMA GotoAnswers ==
  ASSUME IInv, AnswersRight, NEW j \in Pool_Index,
         jobs[j].state \notin {"Invalid", "Complete"},
         NEW state \in Job_State \ {"Invalid", "Complete"}, Goto(j, state)
  PROVE  AnswersRight'
<1> DEFINE job == [jobs[j] EXCEPT !.state = state]
<1>1. jobs[j] \in Job_Type
  BY DEF IInv, TypeOK
<1>2. /\ job.state = state /\ job.req = jobs[j].req
      /\ job.success = jobs[j].success /\ job.completed = jobs[j].completed
  BY <1>1 DEF Job_Type
<1>3. jobs' = [jobs EXCEPT ![j] = job]
  BY <1>1 DEF Goto, IInv, TypeOK
<1> HIDE DEF job
<1>4. AnswerRight(job)
  BY <1>2 DEF AnswersRight, AnswerRight
<1> QED BY <1>3, <1>4, OneJobChanges DEF IInv

(* Completing a job other than one for blocks does. *)
LEMMA CompleteAnswers ==
  ASSUME IInv, AnswersRight, NEW j \in Pool_Index, jobs[j].req.op \notin Blockwise,
         NEW success \in BOOLEAN, Complete(j, success)
  PROVE  AnswersRight'
<1> DEFINE job == [jobs[j] EXCEPT !.state = "Complete", !.success = success]
<1>1. jobs[j] \in Job_Type
  BY DEF IInv, TypeOK
<1>2. job.req = jobs[j].req
  BY <1>1 DEF Job_Type
<1>3. jobs' = [jobs EXCEPT ![j] = job]
  BY <1>1 DEF Complete, IInv, TypeOK
<1> HIDE DEF job
<1>4. AnswerRight(job)
  BY <1>2 DEF AnswerRight
<1> QED BY <1>3, <1>4, OneJobChanges DEF IInv

(* The steps of the job at the head do. *)
LEMMA ExecuteAnswers ==
  ASSUME IInv, AnswersRight, Execute
  PROVE  AnswersRight'
<1> DEFINE h == Head(queue)
<1>1. queue # <<>>
  BY DEF Execute
<1>2. h \in Pool_Index /\ jobs[h] \in Job_Type
  BY <1>1, HeadOfQueue DEF IInv, TypeOK
<1>3. JobConsistent(jobs[h])
  BY <1>2 DEF IInv, JobsConsistent
<1>4. CASE Execute_Submitted(h)
  <2>1. PICK state \in {"Init_Pending", "Step_Pending"} : Goto(h, state)
    BY <1>3, <1>4 DEF Execute_Submitted, JobConsistent
  <2>2. jobs[h].state \notin {"Invalid", "Complete"}
    BY <1>4 DEF Execute_Submitted
  <2> QED BY <1>2, <2>1, <2>2, GotoAnswers DEF Job_State
<1>5. CASE Execute_Simple_Complete(h)
  <2>1. jobs[h].req.op = "Deinitialize" => jobs[h].prim
    BY <1>3, <1>5 DEF Execute_Simple_Complete, JobConsistent
  <2>2. Complete(h, jobs[h].prim) /\ jobs[h].prim \in BOOLEAN
    BY <1>2, <1>5, <2>1 DEF Execute_Simple_Complete, Job_Type
  <2>3. jobs[h].req.op \notin Blockwise
    BY <1>5 DEF Execute_Simple_Complete, Simple, Blockwise
  <2> QED BY <1>2, <2>2, <2>3, CompleteAnswers
<1>6. CASE Execute_Initialize_Complete(h)
  <2>1. jobs[h].prim /\ jobs[h].sb = "Normal"
    BY <1>3, <1>6 DEF Execute_Initialize_Complete, JobConsistent
  <2>2. jobs' = [jobs EXCEPT ![h] = Job_Invalid]
    BY <1>6, <2>1 DEF Execute_Initialize_Complete
  <2>3. AnswerRight(Job_Invalid)
    BY DEF AnswerRight, Job_Invalid
  <2> QED BY <1>2, <2>2, <2>3, OneJobChanges DEF IInv
<1>7. ASSUME Start_Preponing(h), jobs[h].req.op \in Long PROVE AnswersRight'
  <2> DEFINE job == [jobs[h] EXCEPT !.state = "Prepone_Requests_Pending", !.preponed = 0]
  <2>1. jobs' = [jobs EXCEPT ![h] = job] /\ job.req = jobs[h].req
    BY <1>2, <1>7 DEF Start_Preponing, IInv, TypeOK, Job_Type
  <2> HIDE DEF job
  <2>2. AnswerRight(job)
    BY <1>7, <2>1 DEF AnswerRight, Long, Blockwise
  <2> QED BY <1>2, <2>1, <2>2, OneJobChanges DEF IInv
<1>8. CASE Execute_Step_Complete(h)
  <2>1. jobs[h].req.op \in Long /\ jobs[h].prim
    BY <1>3, <1>8 DEF Execute_Step_Complete, JobConsistent, Long
  <2>2. Complete(h, TRUE) \/ Start_Preponing(h)
    BY <1>8, <2>1 DEF Execute_Step_Complete
  <2>3. jobs[h].req.op \notin Blockwise
    BY <2>1 DEF Long, Blockwise
  <2> QED BY <1>2, <1>7, <2>1, <2>2, <2>3, CompleteAnswers
<1>9. CASE Execute_Prepone_Requests(h)
  <2>1. jobs[h].req.op \in Long /\ jobs[h].state = "Prepone_Requests_Pending"
    BY <1>9 DEF Execute_Prepone_Requests
  <2>2. CASE Nr_To_Prepone > 0
    <3> DEFINE n   == Nr_To_Prepone
               job == [jobs[h] EXCEPT !.preponed = @ + n]
    <3>1. jobs' = [jobs EXCEPT ![h] = job] /\ job.req = jobs[h].req
      BY <1>2, <1>9, <2>2 DEF Execute_Prepone_Requests, IInv, TypeOK, Job_Type
    <3> HIDE DEF job
    <3>2. AnswerRight(job)
      BY <2>1, <3>1 DEF AnswerRight, Long, Blockwise
    <3> QED BY <1>2, <3>1, <3>2, OneJobChanges DEF IInv
  <2>3. CASE ~(Nr_To_Prepone > 0)
    <3>1. Goto(h, "Prepone_Requests_Complete")
      BY <1>9, <2>3 DEF Execute_Prepone_Requests
    <3> QED BY <1>2, <2>1, <3>1, GotoAnswers DEF Job_State
  <2> QED BY <2>2, <2>3
<1>10. CASE Execute_Next_Step(h)
  <2>1. Goto(h, "Step_Pending") /\ jobs[h].state \notin {"Invalid", "Complete"}
    BY <1>10 DEF Execute_Next_Step
  <2> QED BY <1>2, <2>1, GotoAnswers DEF Job_State
<1> QED BY <1>4, <1>5, <1>6, <1>8, <1>9, <1>10 DEF Execute

(* The answer for a block does: a block is counted as it is answered. *)
LEMMA MarkBlockAnswers ==
  ASSUME IInv, AnswersRight, NEW j \in Pool_Index, Mark_Block_Complete(j)
  PROVE  /\ AnswersRight'
         /\ jobs'[j].state = "Complete" =>
              jobs'[j].success = (jobs[j].req.inside = jobs[j].req.count)
<1> DEFINE success == jobs[j].completed < jobs[j].req.inside
           job     == [jobs[j] EXCEPT !.success = success, !.completed = @ + 1]
           again   == [job EXCEPT !.state = "Pending"]
           over    == [job EXCEPT !.state = "Complete"]
<1>1. jobs[j].state = "In_Progress"
  BY DEF Mark_Block_Complete
<1>2. ~NotHead(j)
  BY <1>1, AnswerForHead DEF Taken
<1>3. jobs[j] \in Job_Type
  BY DEF IInv, TypeOK
<1>4. /\ jobs[j].req.op \in Blockwise
      /\ jobs[j].completed \in Int
      /\ jobs[j].req.count \in Int
      /\ jobs[j].req.inside \in Int
      /\ jobs[j].completed < jobs[j].req.count
      /\ jobs[j].req.inside <= jobs[j].req.count
  BY <1>1, <1>3 DEF IInv, JobsConsistent, JobConsistent, AnswersRight, AnswerRight,
                    Job_Type, Request_Type
<1>5. /\ job.req = jobs[j].req
      /\ job.completed = jobs[j].completed + 1
      /\ job.success = success
      /\ again.req = jobs[j].req /\ again.completed = jobs[j].completed + 1
      /\ again.success = success /\ again.state = "Pending"
      /\ over.req = jobs[j].req /\ over.success = success
  BY <1>3 DEF Job_Type
<1>6. success = (jobs[j].completed + 1 <= jobs[j].req.inside)
  BY <1>4
<1> HIDE DEF success
<1>7. CASE job.completed < job.req.count
  <2>1. jobs' = [jobs EXCEPT ![j] = again]
    BY <1>2, <1>7 DEF Mark_Block_Complete, success
  <2> HIDE DEF again
  <2>2. AnswerRight(again)
    BY <1>4, <1>5, <1>6 DEF AnswerRight
  <2>3. jobs'[j] = again
    BY <2>1 DEF IInv, TypeOK
  <2> QED BY <1>5, <2>1, <2>2, <2>3, OneJobChanges DEF IInv
<1>8. CASE ~(job.completed < job.req.count)
  <2>1. jobs' = [jobs EXCEPT ![j] = over]
    BY <1>2, <1>8 DEF Mark_Block_Complete, success
  <2>2. over.state = "Complete"
    BY <1>3 DEF Job_Type
  <2> HIDE DEF over
  <2>3. AnswerRight(over)
    BY <1>4, <1>5, <2>2 DEF AnswerRight
  <2>4. jobs'[j] = over
    BY <2>1 DEF IInv, TypeOK
  <2>5. success = (jobs[j].req.inside = jobs[j].req.count)
    BY <1>4, <1>5, <1>6, <1>8
  <2> QED BY <1>5, <2>1, <2>3, <2>4, <2>5, OneJobChanges DEF IInv
<1> QED BY <1>7, <1>8

(* All steps do. *)
LEMMA NextAnswers ==
  ASSUME FreshStart, IInv, AnswersRight, [Next]_vars
  PROVE  AnswersRight'
<1>1. CASE UNCHANGED vars
  BY <1>1 DEF vars, AnswersRight
<1>2. CASE Client_Submits
  <2>1. PICK r \in Client_Requests : Submit_Request(r)
    BY <1>2 DEF Client_Submits
  <2> DEFINE job == [Job_Invalid EXCEPT
                       !.state = IF r.op \in Blockwise THEN "Pending" ELSE "Submitted",
                       !.req = r,
                       !.success = (r.op \in Blockwise)]
  <2>2. InState({"Invalid"}) # {}
    BY <1>2, <2>1, FreeJob DEF Client_Submits, Submit_Request
  <2>3. PICK j \in Pool_Index : jobs' = [jobs EXCEPT ![j] = job]
    BY <2>1, <2>2 DEF Submit_Request
  <2>4. /\ r \in Request_Type
        /\ r.op \in Blockwise => r.inside <= r.count
    BY DEF Client_Requests
  <2>5. job.req = r /\ job.completed = 0 /\ job.success = (r.op \in Blockwise)
    BY DEF Job_Invalid
  <2> HIDE DEF job
  <2>6. r.inside \in Nat
    BY <2>4, PoolAssumption DEF Request_Type
  <2>7. AnswerRight(job)
    BY <2>4, <2>5, <2>6 DEF AnswerRight
  <2> QED BY <2>3, <2>7, OneJobChanges DEF IInv
<1>3. CASE Drop_Completed_Request
  <2>1. AnswerRight(Job_Invalid)
    BY DEF AnswerRight, Job_Invalid
  <2>2. CASE jobs' = jobs
    BY <2>2 DEF AnswersRight
  <2>3. CASE \E k \in Pool_Index : jobs' = [jobs EXCEPT ![k] = Job_Invalid]
    BY <2>1, <2>3, OneJobChanges DEF IInv
  <2> QED BY <1>3, <2>2, <2>3 DEF Drop_Completed_Request, Raise_Program_Error
<1>4. CASE Execute
  BY <1>4, ExecuteAnswers
<1>5. ASSUME NEW j \in Pool_Index, Drop_Generated_Primitive(j) PROVE AnswersRight'
  <2>1. PICK state \in Taken : Goto(j, state)
    BY <1>5 DEF Drop_Generated_Primitive, Generated, Taken
  <2>2. jobs[j].state \notin {"Invalid", "Complete"}
    BY <1>5 DEF Drop_Generated_Primitive, Generated
  <2> QED BY <2>1, <2>2, GotoAnswers DEF Taken, Job_State
<1>6. ASSUME NEW j \in Pool_Index, NEW success \in BOOLEAN, NEW finished \in BOOLEAN,
             NEW sb \in SB_States, Mark_Step_Complete(j, success, finished, sb)
      PROVE  AnswersRight'
  <2> DEFINE state == IF jobs[j].state = "Init_In_Progress" THEN "Init_Complete"
                                                           ELSE "Step_Complete"
             fin   == IF jobs[j].req.op \in Long /\ jobs[j].state = "Step_In_Progress"
                        THEN finished ELSE jobs[j].finished
             found == IF jobs[j].req.op = "Initialize" THEN sb ELSE jobs[j].sb
             job   == [jobs[j] EXCEPT !.state = state, !.prim = success,
                                      !.finished = fin, !.sb = found]
  <2>1. jobs[j].state \in {"Init_In_Progress", "Step_In_Progress"}
    BY <1>6 DEF Mark_Step_Complete
  <2>2. ~NotHead(j)
    BY <2>1, AnswerForHead DEF Taken
  <2>3. jobs[j] \in Job_Type /\ JobConsistent(jobs[j])
    BY DEF IInv, TypeOK, JobsConsistent
  <2>4. jobs' = [jobs EXCEPT ![j] = job]
    BY <1>6, <2>2, <2>3 DEF Mark_Step_Complete, IInv, TypeOK, Job_Type
  <2>5. job.req = jobs[j].req
    BY <2>3 DEF Job_Type
  <2> HIDE DEF job
  <2>6. jobs[j].req.op \notin Blockwise
    BY <2>1, <2>3 DEF JobConsistent, Long, Blockwise
  <2>7. AnswerRight(job)
    BY <2>5, <2>6 DEF AnswerRight
  <2> QED BY <2>4, <2>7, OneJobChanges DEF IInv
<1>7. CASE \E j \in Pool_Index : Mark_Generated_Primitive_Complete(j)
  BY <1>6, <1>7, MarkBlockAnswers DEF Mark_Generated_Primitive_Complete
<1> QED BY <1>1, <1>2, <1>3, <1>4, <1>5, <1>7 DEF Next, Pool

-----------------------------------------------------------------------------
(***************************************************************************)
(* The requests in the order of their submission.                          *)
(***************************************************************************)
(* The queue q, with the item in S moved to its head, if there is one. *)
Reordered(q, S) ==
  IF S = {}
    THEN q
    ELSE LET i == CHOOSE i \in S : TRUE
         IN  <<q[i]>> \o SubSeq(q, 1, i - 1) \o SubSeq(q, i + 1, Len(q))

(* The requests of the jobs js in this order. *)
Requested(js, q, S) == [i \in 1 .. Len(q) |-> js[Reordered(q, S)[i]].req]

(* Position p is the one moved to the head. *)
Moved(S, p, n) == \/ S = {} /\ p = 1
                  \/ S = {p} /\ p \in 1 .. n

(* Where the item at position i comes from. *)
At(p, i) == IF i = 1 THEN p ELSE IF i <= p THEN i - 1 ELSE i

(* The definition of Reordered, position by position. *)
LEMMA ReorderedIs ==
  ASSUME NEW T, NEW q \in Seq(T), NEW S, NEW p \in Nat \ {0}, Moved(S, p, Len(q))
  PROVE  \A i \in 1 .. Len(q) : Reordered(q, S)[i] = q[At(p, i)]
<1>1. Len(q) \in Nat
  BY LenProperties
<1>2. CASE S = {}
  <2>1. p = 1
    BY <1>2 DEF Moved
  <2> QED BY <1>1, <1>2, <2>1 DEF Reordered, At
<1>3. CASE S # {}
  <2>1. S = {p} /\ p \in 1 .. Len(q)
    BY <1>3 DEF Moved
  <2> DEFINE a == <<q[p]>>
             b == SubSeq(q, 1, p - 1)
             c == SubSeq(q, p + 1, Len(q))
             ab == a \o b
  <2>2. Reordered(q, S) = ab \o c
    <3>1. (CHOOSE i \in S : TRUE) = p
      BY <2>1
    <3> QED BY <1>3, <3>1 DEF Reordered
  <2>3. \A i \in 1 .. Len(q) : q[i] \in T
    BY ElementOfSeq
  <2>4. a \in Seq(T) /\ Len(a) = 1 /\ a[1] = q[p]
    BY <2>1, <2>3
  <2>5. /\ b \in Seq(T)
        /\ Len(b) = p - 1
        /\ \A i \in 1 .. p - 1 : b[i] = q[i]
    <3>1. \A i \in 1 .. p - 1 : q[i] \in T
      BY <1>1, <2>1, <2>3
    <3> QED BY <1>1, <2>1, <3>1, SubSeqProperties
  <2>6. /\ c \in Seq(T)
        /\ Len(c) = Len(q) - p
        /\ \A i \in 1 .. Len(q) - p : c[i] = q[p + i]
    <3>1. \A i \in p + 1 .. Len(q) : q[i] \in T
      BY <1>1, <2>1, <2>3
    <3> QED BY <1>1, <2>1, <3>1, SubSeqProperties
  <2> HIDE DEF a, b, c
  <2>7. /\ ab \in Seq(T)
        /\ Len(ab) = p
        /\ \A i \in 1 .. p : ab[i] = IF i = 1 THEN q[p] ELSE q[i - 1]
    <3>1. /\ ab \in Seq(T)
          /\ Len(ab) = Len(a) + Len(b)
          /\ \A i \in 1 .. Len(a) + Len(b) : ab[i] =
                IF i <= Len(a) THEN a[i] ELSE b[i - Len(a)]
      BY <2>4, <2>5, ConcatProperties
    <3> HIDE DEF ab
    <3>2. Len(a) + Len(b) = p
      BY <2>1, <2>4, <2>5
    <3>3. ASSUME NEW i \in 1 .. p PROVE ab[i] = IF i = 1 THEN q[p] ELSE q[i - 1]
      <4>1. CASE i = 1
        BY <2>1, <2>4, <3>1, <3>2, <4>1
      <4>2. CASE i # 1
        <5>1. i - 1 \in 1 .. p - 1 /\ ~(i <= 1) /\ i \in 1 .. p
          BY <2>1, <3>3, <4>2
        <5>2. ab[i] = b[i - 1]
          BY <2>4, <3>1, <3>2, <5>1
        <5> QED BY <2>5, <4>2, <5>1, <5>2
      <4> QED BY <4>1, <4>2
    <3> QED BY <3>1, <3>2, <3>3
  <2> HIDE DEF ab
  <2>8. \A i \in 1 .. Len(ab) + Len(c) : (ab \o c)[i] =
          IF i <= Len(ab) THEN ab[i] ELSE c[i - Len(ab)]
    BY <2>6, <2>7, ConcatProperties
  <2>9. \A i \in 1 .. Len(q) : (ab \o c)[i] =
          IF i = 1 THEN q[p] ELSE IF i <= p THEN q[i - 1] ELSE q[i]
    BY <1>1, <2>1, <2>6, <2>7, <2>8
  <2> QED BY <2>2, <2>9 DEF At
<1> QED BY <1>2, <1>3

(* The requests, position by position. *)
LEMMA RequestedIs ==
  ASSUME NEW T, NEW q \in Seq(T), NEW S, NEW p \in Nat \ {0}, Moved(S, p, Len(q)),
         NEW js, NEW R, \A t \in T : js[t].req \in R
  PROVE  /\ Requested(js, q, S) \in Seq(R)
         /\ Len(Requested(js, q, S)) = Len(q)
         /\ \A i \in 1 .. Len(q) : /\ At(p, i) \in 1 .. Len(q)
                                   /\ Requested(js, q, S)[i] = js[q[At(p, i)]].req
<1>1. Len(q) \in Nat
  BY LenProperties
<1>2. \A i \in 1 .. Len(q) : At(p, i) \in 1 .. Len(q)
  BY <1>1 DEF At, Moved
<1>3. \A i \in 1 .. Len(q) : Reordered(q, S)[i] = q[At(p, i)]
  BY ReorderedIs
<1>4. \A i \in 1 .. Len(q) : q[At(p, i)] \in T
  BY <1>2, ElementOfSeq
<1>5. Requested(js, q, S) = [i \in 1 .. Len(q) |-> js[q[At(p, i)]].req]
  BY <1>3 DEF Requested
<1>6. [i \in 1 .. Len(q) |-> js[q[At(p, i)]].req] \in [1 .. Len(q) -> R]
  BY <1>4
<1>7. Requested(js, q, S) \in Seq(R) /\ Len(Requested(js, q, S)) = Len(q)
  BY <1>1, <1>5, <1>6
<1> QED BY <1>2, <1>5, <1>7

(* A sequence without its item i, position by position. *)
LEMMA WithoutIs ==
  ASSUME NEW R, NEW s \in Seq(R), NEW i \in 1 .. Len(s)
  PROVE  /\ Q!Without(s, i) \in Seq(R)
         /\ Len(Q!Without(s, i)) = Len(s) - 1
         /\ \A k \in 1 .. Len(s) - 1 : Q!Without(s, i)[k] = IF k < i THEN s[k] ELSE s[k + 1]
<1> DEFINE a == SubSeq(s, 1, i - 1)
           b == SubSeq(s, i + 1, Len(s))
<1>1. Len(s) \in Nat
  BY LenProperties
<1>2. \A k \in 1 .. Len(s) : s[k] \in R
  BY ElementOfSeq
<1>3. /\ a \in Seq(R)
      /\ Len(a) = i - 1
      /\ \A k \in 1 .. i - 1 : a[k] = s[k]
  <2>1. \A k \in 1 .. i - 1 : s[k] \in R
    BY <1>1, <1>2
  <2> QED BY <1>1, <2>1, SubSeqProperties
<1>4. /\ b \in Seq(R)
      /\ Len(b) = Len(s) - i
      /\ \A k \in 1 .. Len(s) - i : b[k] = s[i + k]
  <2>1. \A k \in i + 1 .. Len(s) : s[k] \in R
    BY <1>1, <1>2
  <2> QED BY <1>1, <2>1, SubSeqProperties
<1>5. Q!Without(s, i) = a \o b
  BY DEF Q!Without
<1> HIDE DEF a, b
<1>6. /\ a \o b \in Seq(R)
      /\ Len(a \o b) = Len(a) + Len(b)
      /\ \A k \in 1 .. Len(a) + Len(b) : (a \o b)[k] =
            IF k <= Len(a) THEN a[k] ELSE b[k - Len(a)]
  BY <1>3, <1>4, ConcatProperties
<1>7. ASSUME NEW k \in 1 .. Len(s) - 1
      PROVE  (a \o b)[k] = IF k < i THEN s[k] ELSE s[k + 1]
  <2>1. k \in 1 .. Len(a) + Len(b)
    BY <1>1, <1>3, <1>4, <1>7
  <2>2. CASE k < i
    BY <1>1, <1>3, <1>6, <2>1, <2>2
  <2>3. CASE ~(k < i)
    <3>1. k - (i - 1) \in 1 .. Len(s) - i /\ ~(k <= Len(a))
      BY <1>1, <1>3, <1>7, <2>3
    <3>2. b[k - (i - 1)] = s[i + (k - (i - 1))]
      BY <1>4, <3>1
    <3> QED BY <1>1, <1>3, <1>6, <2>1, <2>3, <3>1, <3>2
  <2> QED BY <2>2, <2>3
<1> QED BY <1>1, <1>3, <1>4, <1>5, <1>6, <1>7

-----------------------------------------------------------------------------
(***************************************************************************)
(* The mapping, and what the kinds of steps do to it.                      *)
(***************************************************************************)
Requests == Client_Requests \cup {Internal("Initialize")}

waiting == Requested(jobs, queue, Started)

answered == {[request |-> jobs[j].req, success |-> jobs[j].success] :
               j \in InState({"Complete"})}

RInv == IInv /\ AnswersRight

(* The expressions module RequestPool maps the variables to. *)
LEMMA MappingIs ==
  /\ waiting = [i \in 1 .. Len(queue) |-> jobs[Order[i]].req]
  /\ answered = {[request |-> jobs[j].req, success |-> jobs[j].success] :
                   j \in InState({"Complete"})}
BY DEF waiting, answered, Requested, Reordered, Order

LEMMA MappingNextIs ==
  /\ waiting' = [i \in 1 .. Len(queue) |-> jobs[Order[i]].req]'
  /\ answered' = {[request |-> jobs[j].req, success |-> jobs[j].success] :
                    j \in InState({"Complete"})}'
BY DEF waiting, answered, Requested, Reordered, Order

(* The requests that may be answered next, in terms of the mapping. *)
LEMMA TurnIs ==
  ASSUME NEW i
  PROVE  Q!Turn(i) <=> \/ i = 1
                       \/ /\ i = 2
                          /\ waiting[1].op \in Long
                          /\ waiting[2].op \in Preponable
BY MappingIs DEF Q!Turn, Q!Long, Q!Preponable, Long, Preponable

(* The started job is at the head, or behind requests it lets pass. *)
LEMMA StartedIs ==
  ASSUME IInv
  PROVE  \E p \in Nat \ {0} :
           /\ Moved(Started, p, Len(queue))
           /\ p > 1 => /\ jobs[queue[p]].req.op \in Long
                       /\ jobs[queue[p]].state = "Prepone_Requests_Pending"
                       /\ \A i \in 1 .. p - 1 : jobs[queue[i]].req.op \in Preponable
<1>1. Len(queue) \in Nat
  BY LenProperties DEF IInv, TypeOK
<1>2. \A i \in 1 .. Len(queue) : queue[i] \in Pool_Index
  BY ElementOfSeq DEF IInv, TypeOK
<1>3. ASSUME NEW i \in Started, i # 1
      PROVE  /\ i \in 1 .. Len(queue)
             /\ jobs[queue[i]].req.op \in Long
             /\ jobs[queue[i]].state = "Prepone_Requests_Pending"
  <2>1. /\ i \in 1 .. Len(queue)
        /\ jobs[queue[i]].req.op \in Long
        /\ jobs[queue[i]].state # "Submitted"
    BY DEF Started
  <2>2. queue # <<>>
    BY <1>1, <2>1
  <2>3. 1 \in 1 .. Len(queue) /\ Head(queue) = queue[1]
    BY <1>1, <2>1, <2>2, HeadOfQueue DEF IInv
  <2>4. queue[i] # Head(queue)
    BY <1>3, <2>1, <2>3 DEF IInv, QueueDistinct
  <2>5. jobs[queue[i]].state \in Waiting
    BY <1>2, <2>1, <2>4 DEF IInv, OthersWait, NotHead
  <2>6. InQueue(queue[i])
    BY <2>1 DEF InQueue
  <2>7. jobs[queue[i]].state \notin {"Invalid", "Complete"}
    BY <1>2, <2>1, <2>6 DEF IInv, QueueComplete
  <2>8. JobConsistent(jobs[queue[i]])
    BY <1>2, <2>1 DEF IInv, JobsConsistent
  <2>9. jobs[queue[i]].state # "Pending"
    BY <2>1, <2>8 DEF JobConsistent, Long, Blockwise
  <2> QED BY <2>1, <2>5, <2>7, <2>9 DEF Waiting
<1>4. ASSUME NEW i \in Started, NEW l \in Started, i # 1
      PROVE  l = i
  <2>1. /\ i \in 1 .. Len(queue)
        /\ jobs[queue[i]].state = "Prepone_Requests_Pending"
    BY <1>3, <1>4
  <2>2. l \in 1 .. Len(queue) /\ jobs[queue[l]].req.op \in Long
    BY DEF Started
  <2>3. CASE l = 1
    <3>1. jobs[queue[1]].req.op \in Preponable
      BY <1>1, <1>4, <2>1, <2>2, <2>3 DEF IInv, OnlyPreponed
    <3> QED BY <2>2, <2>3, <3>1 DEF Long, Preponable
  <2>4. CASE l # 1
    <3>1. jobs[queue[l]].state = "Prepone_Requests_Pending"
      BY <1>3, <2>4
    <3>2. queue[l] = queue[i]
      BY <1>2, <2>1, <2>2, <3>1 DEF IInv, OnePreponing
    <3> QED BY <2>1, <2>2, <3>2 DEF IInv, QueueDistinct
  <2> QED BY <2>3, <2>4
<1>5. CASE Started = {}
  BY <1>5 DEF Moved
<1>6. CASE Started = {1}
  <2>1. 1 \in 1 .. Len(queue)
    BY <1>6 DEF Started
  <2> QED BY <1>6, <2>1 DEF Moved
<1>7. CASE \E i \in Started : i # 1
  <2>1. PICK i \in Started : i # 1
    BY <1>7
  <2>2. Started = {i}
    BY <1>4, <2>1
  <2>3. /\ i \in 1 .. Len(queue)
        /\ jobs[queue[i]].req.op \in Long
        /\ jobs[queue[i]].state = "Prepone_Requests_Pending"
    BY <1>3, <2>1
  <2>4. \A k \in 1 .. i - 1 : k \in 1 .. Len(queue) /\ k < i
    BY <1>1, <2>3
  <2>5. \A k \in 1 .. i - 1 : jobs[queue[k]].req.op \in Preponable
    BY <2>3, <2>4 DEF IInv, OnlyPreponed
  <2> QED BY <1>1, <2>2, <2>3, <2>5 DEF Moved
<1> QED BY <1>5, <1>6, <1>7

(* The requests waiting, for a position p of the started job. *)
WaitingInOrder ==
  \A p \in Nat \ {0} :
    Moved(Started, p, Len(queue)) =>
      /\ waiting \in Seq(Request_Type)
      /\ Len(waiting) = Len(queue)
      /\ \A i \in 1 .. Len(queue) : /\ At(p, i) \in 1 .. Len(queue)
                                    /\ waiting[i] = jobs[queue[At(p, i)]].req

(* They are in order. *)
LEMMA WaitingIs == IInv => WaitingInOrder
<1> SUFFICES ASSUME IInv, NEW p \in Nat \ {0}, Moved(Started, p, Len(queue))
             PROVE  /\ waiting \in Seq(Request_Type)
                    /\ Len(waiting) = Len(queue)
                    /\ \A i \in 1 .. Len(queue) :
                         /\ At(p, i) \in 1 .. Len(queue)
                         /\ waiting[i] = jobs[queue[At(p, i)]].req
  BY DEF WaitingInOrder
<1>1. queue \in Seq(Pool_Index)
  BY DEF IInv, TypeOK
<1>2. \A j \in Pool_Index : jobs[j].req \in Request_Type
  BY DEF IInv, TypeOK, Job_Type
<1> HIDE DEF Pool_Index
<1>3. /\ Requested(jobs, queue, Started) \in Seq(Request_Type)
      /\ Len(Requested(jobs, queue, Started)) = Len(queue)
      /\ \A i \in 1 .. Len(queue) :
           /\ At(p, i) \in 1 .. Len(queue)
           /\ Requested(jobs, queue, Started)[i] = jobs[queue[At(p, i)]].req
  BY <1>1, <1>2, RequestedIs, SMTT(30)
<1> QED BY <1>3 DEF waiting

(* The same for the next state. *)
LEMMA WaitingNextIs == IInv' => WaitingInOrder'
BY WaitingIs, PTL

(* The job at the head goes on: the requests keep their order. *)
LEMMA HeadGoesOnMaps ==
  ASSUME IInv, IInv', queue # <<>>, NEW job \in Job_Type,
         jobs' = [jobs EXCEPT ![Head(queue)] = job],
         UNCHANGED queue,
         job.req = jobs[Head(queue)].req,
         job.state \notin {"Invalid", "Complete", "Submitted", "Submitted_Resume_Rekeying"}
  PROVE  UNCHANGED <<waiting, answered>>
<1> DEFINE h == Head(queue)
<1>1. h \in Pool_Index /\ h = queue[1] /\ Len(queue) \in Nat \ {0}
  BY HeadOfQueue DEF IInv
<1>2. /\ jobs'[h] = job
      /\ \A j \in Pool_Index : j # h => jobs'[j] = jobs[j]
      /\ queue' = queue
  BY <1>1 DEF IInv, TypeOK
<1>3. \A i \in 1 .. Len(queue) : queue[i] \in Pool_Index /\ (i # 1 => queue[i] # h)
  <2>1. 1 \in 1 .. Len(queue)
    BY <1>1
  <2> QED BY <1>1, <2>1, ElementOfSeq DEF IInv, TypeOK, QueueDistinct
<1>4. PICK p \in Nat \ {0} :
        /\ Moved(Started, p, Len(queue))
        /\ p > 1 => \A i \in 1 .. p - 1 : jobs[queue[i]].req.op \in Preponable
  BY StartedIs
<1>5. Started' = IF job.req.op \in Long THEN Started \cup {1} ELSE Started
  <2>1. \A i \in 1 .. Len(queue) : i # 1 => jobs'[queue[i]] = jobs[queue[i]]
    BY <1>2, <1>3
  <2>2. 1 \in 1 .. Len(queue) /\ jobs'[queue[1]] = job
    BY <1>1, <1>2
  <2>3. 1 \in Started => job.req.op \in Long
    BY <1>1 DEF Started
  <2> QED BY <1>2, <2>1, <2>2, <2>3 DEF Started
<1>6. Moved(Started', p, Len(queue'))
  <2>1. CASE job.req.op \in Long
    <3>1. p = 1
      <4>1. SUFFICES ASSUME p > 1 PROVE FALSE
        BY <1>4
      <4>2. jobs[queue[1]].req.op \in Preponable
        BY <1>4, <4>1
      <4> QED BY <1>1, <2>1, <4>2 DEF Long, Preponable
    <3>2. Started \subseteq {1}
      BY <1>4, <3>1 DEF Moved
    <3>3. Started' = {1}
      BY <1>5, <2>1, <3>2
    <3>4. 1 \in 1 .. Len(queue')
      BY <1>1, <1>2
    <3> QED BY <3>1, <3>3, <3>4 DEF Moved
  <2>2. CASE job.req.op \notin Long
    BY <1>2, <1>4, <1>5, <2>2
  <2> QED BY <2>1, <2>2
<1>7. \A i \in 1 .. Len(queue) : jobs'[queue[i]].req = jobs[queue[i]].req
  BY <1>1, <1>2, <1>3
<1>8. waiting' = waiting
  <2>1. /\ waiting \in Seq(Request_Type)
        /\ Len(waiting) = Len(queue)
        /\ \A i \in 1 .. Len(queue) : /\ At(p, i) \in 1 .. Len(queue)
                                      /\ waiting[i] = jobs[queue[At(p, i)]].req
    BY <1>4, WaitingIs DEF WaitingInOrder
  <2>2. /\ waiting' \in Seq(Request_Type)
        /\ Len(waiting') = Len(queue)
        /\ \A i \in 1 .. Len(queue) : waiting'[i] = jobs'[queue[At(p, i)]].req
    BY <1>2, <1>6, WaitingNextIs DEF WaitingInOrder
  <2>3. \A i \in 1 .. Len(queue) : waiting'[i] = waiting[i]
    BY <1>7, <2>1, <2>2
  <2> HIDE DEF waiting
  <2> QED BY <2>1, <2>2, <2>3, SeqEqual
<1>9. jobs[h].state # "Complete"
  <2>1. InQueue(h)
    BY <1>1 DEF InQueue
  <2> QED BY <1>1, <2>1 DEF IInv, QueueComplete
<1>10. answered' = answered
  BY <1>1, <1>2, <1>9 DEF answered, InState
<1> QED BY <1>8, <1>10

(* The job at the head lets the next k requests pass: the requests keep    *)
(* their order.                                                            *)
LEMMA HeadMovesMaps ==
  ASSUME IInv, IInv', queue # <<>>, NEW k \in 0 .. Len(queue) - 1, NEW job \in Job_Type,
         queue' = Move_Items_Towards_Tail(k),
         jobs' = [jobs EXCEPT ![Head(queue)] = job],
         job.req = jobs[Head(queue)].req,
         job.req.op \in Long,
         job.state = "Prepone_Requests_Pending",
         jobs[Head(queue)].state = "Prepone_Requests_Pending"
  PROVE  UNCHANGED <<waiting, answered>>
<1> DEFINE h == Head(queue)
           From(i) == IF i <= k THEN i + 1 ELSE IF i = k + 1 THEN 1 ELSE i
<1>1. /\ h \in Pool_Index /\ h = queue[1] /\ Len(queue) \in Nat \ {0}
      /\ k \in Nat /\ k <= Len(queue) - 1
  BY HeadOfQueue DEF IInv
<1>2. /\ jobs'[h] = job
      /\ \A j \in Pool_Index : j # h => jobs'[j] = jobs[j]
  BY <1>1 DEF IInv, TypeOK
<1>3. \A j \in Pool_Index : jobs'[j].state = jobs[j].state /\ jobs'[j].req = jobs[j].req
  BY <1>1, <1>2
<1>4. /\ queue' \in Seq(Pool_Index)
      /\ Len(queue') = Len(queue)
      /\ \A i \in 1 .. Len(queue) :
           queue'[i] = IF i <= k THEN queue[i + 1]
                       ELSE IF i = k + 1 THEN queue[1] ELSE queue[i]
  BY MovedQueue DEF IInv
<1>5. \A i \in 1 .. Len(queue) : From(i) \in 1 .. Len(queue) /\ queue'[i] = queue[From(i)]
  BY <1>1, <1>4
<1>6. \A i \in 1 .. Len(queue) : queue[i] \in Pool_Index
  BY ElementOfSeq DEF IInv, TypeOK
<1>7. PICK p \in Nat \ {0} : Moved(Started, p, Len(queue))
  BY StartedIs
<1>8. 1 \in Started
  BY <1>1 DEF Started
<1>9. Started = {1} /\ p = 1
  BY <1>7, <1>8 DEF Moved
<1>10. Started' = {k + 1}
  <2>1. \A i \in 1 .. Len(queue) : i \in Started' <=> From(i) \in Started
    <3> SUFFICES ASSUME NEW i \in 1 .. Len(queue)
                 PROVE  i \in Started' <=> From(i) \in Started
      OBVIOUS
    <3>1. /\ jobs'[queue'[i]].state = jobs[queue[From(i)]].state
          /\ jobs'[queue'[i]].req = jobs[queue[From(i)]].req
      BY <1>3, <1>5, <1>6
    <3>2. From(i) \in 1 .. Len(queue)
      BY <1>5
    <3> HIDE DEF From
    <3> QED BY <1>4, <3>1, <3>2 DEF Started
  <2>2. \A i \in 1 .. Len(queue) : From(i) = 1 <=> i = k + 1
    BY <1>1
  <2>3. Started' \subseteq 1 .. Len(queue)
    BY <1>4 DEF Started
  <2>4. k + 1 \in 1 .. Len(queue)
    BY <1>1
  <2> HIDE DEF From
  <2> QED BY <1>9, <2>1, <2>2, <2>3, <2>4
<1>11. k + 1 \in Nat \ {0} /\ Moved(Started', k + 1, Len(queue'))
  BY <1>1, <1>4, <1>10 DEF Moved
<1>12. waiting' = waiting
  <2>1. /\ waiting \in Seq(Request_Type)
        /\ Len(waiting) = Len(queue)
        /\ \A i \in 1 .. Len(queue) : waiting[i] = jobs[queue[At(1, i)]].req
    BY <1>7, <1>9, WaitingIs DEF WaitingInOrder
  <2>2. /\ waiting' \in Seq(Request_Type)
        /\ Len(waiting') = Len(queue)
        /\ \A i \in 1 .. Len(queue) :
             /\ At(k + 1, i) \in 1 .. Len(queue)
             /\ waiting'[i] = jobs'[queue'[At(k + 1, i)]].req
    BY <1>4, <1>11, WaitingNextIs DEF WaitingInOrder
  <2>3. ASSUME NEW i \in 1 .. Len(queue) PROVE waiting'[i] = waiting[i]
    <3>1. From(At(k + 1, i)) = At(1, i)
      BY <1>1 DEF At
    <3>2. queue'[At(k + 1, i)] = queue[At(1, i)]
      BY <1>5, <2>2, <3>1
    <3>3. queue[At(1, i)] \in Pool_Index
      BY <1>1, <1>6 DEF At
    <3> QED BY <1>3, <2>1, <2>2, <3>2, <3>3
  <2> HIDE DEF waiting
  <2> QED BY <2>1, <2>2, <2>3, SeqEqual
<1>13. answered' = answered
  BY <1>1, <1>2 DEF answered, InState
<1> QED BY <1>12, <1>13

(* The job at the head leaves the queue: its request was the first one, or *)
(* the second one, behind the operation that lets it pass.                 *)
LEMMA HeadLeavesMaps ==
  ASSUME IInv, IInv', queue # <<>>, NEW job,
         jobs' = [jobs EXCEPT ![Head(queue)] = job],
         queue' = Tail(queue)
  PROVE  \E i \in 1 .. Len(waiting) :
           /\ Q!Turn(i)
           /\ waiting[i] = jobs[Head(queue)].req
           /\ waiting' = Q!Without(waiting, i)
           /\ i = 1 \/ waiting[i].op \in Preponable
<1> DEFINE h == Head(queue)
<1>1. h \in Pool_Index /\ h = queue[1] /\ Len(queue) \in Nat \ {0}
  BY HeadOfQueue DEF IInv
<1>2. \A j \in Pool_Index : j # h => jobs'[j] = jobs[j]
  BY <1>1 DEF IInv, TypeOK
<1>3. /\ queue' \in Seq(Pool_Index)
      /\ Len(queue') = Len(queue) - 1
      /\ \A i \in 1 .. Len(queue) - 1 : queue'[i] = queue[i + 1]
  BY HeadTailProperties DEF IInv, TypeOK
<1>4. \A i \in 1 .. Len(queue) : queue[i] \in Pool_Index /\ (i # 1 => queue[i] # h)
  <2>1. 1 \in 1 .. Len(queue)
    BY <1>1
  <2> QED BY <1>1, <2>1, ElementOfSeq DEF IInv, TypeOK, QueueDistinct
<1>5. \A i \in 1 .. Len(queue) - 1 : /\ i + 1 \in 1 .. Len(queue)
                                     /\ jobs'[queue'[i]] = jobs[queue[i + 1]]
  <2> SUFFICES ASSUME NEW i \in 1 .. Len(queue) - 1
               PROVE  /\ i + 1 \in 1 .. Len(queue)
                      /\ jobs'[queue'[i]] = jobs[queue[i + 1]]
    OBVIOUS
  <2>1. i + 1 \in 1 .. Len(queue) /\ i + 1 # 1
    BY <1>1
  <2> QED BY <1>2, <1>3, <1>4, <2>1
<1>6. PICK p \in Nat \ {0} :
        /\ Moved(Started, p, Len(queue))
        /\ p > 1 => /\ jobs[queue[p]].req.op \in Long
                    /\ \A i \in 1 .. p - 1 : jobs[queue[i]].req.op \in Preponable
  BY StartedIs
<1> DEFINE n == IF p = 1 THEN 1 ELSE 2
           r == IF p = 1 THEN 1 ELSE p - 1
<1>7. Started' = {i \in 1 .. Len(queue) - 1 : i + 1 \in Started}
  <2>1. \A i \in 1 .. Len(queue) - 1 : i \in Started' <=> i + 1 \in Started
    BY <1>3, <1>5 DEF Started
  <2>2. Started' \subseteq 1 .. Len(queue) - 1
    BY <1>3 DEF Started
  <2> QED BY <2>1, <2>2
<1>8. r \in Nat \ {0} /\ Moved(Started', r, Len(queue'))
  <2>1. CASE p = 1
    <3>1. Started' = {}
      BY <1>6, <1>7, <2>1 DEF Moved
    <3> QED BY <2>1, <3>1 DEF Moved
  <2>2. CASE p # 1
    <3>1. Started = {p} /\ p \in 1 .. Len(queue)
      BY <1>6, <2>2 DEF Moved
    <3>2. p - 1 \in 1 .. Len(queue) - 1 /\ p - 1 + 1 = p
      BY <1>1, <2>2, <3>1
    <3>3. Started' = {p - 1}
      BY <1>7, <3>1, <3>2
    <3> QED BY <1>3, <2>2, <3>2, <3>3 DEF Moved
  <2> QED BY <2>1, <2>2
<1>9. /\ waiting \in Seq(Request_Type)
      /\ Len(waiting) = Len(queue)
      /\ \A i \in 1 .. Len(queue) : waiting[i] = jobs[queue[At(p, i)]].req
  BY <1>6, WaitingIs DEF WaitingInOrder
<1>10. /\ waiting' \in Seq(Request_Type)
       /\ Len(waiting') = Len(queue) - 1
       /\ \A i \in 1 .. Len(queue) - 1 : /\ At(r, i) \in 1 .. Len(queue) - 1
                                         /\ waiting'[i] = jobs'[queue'[At(r, i)]].req
  BY <1>3, <1>8, WaitingNextIs DEF WaitingInOrder
<1>11. p = 1 \/ p \in 2 .. Len(queue)
  BY <1>1, <1>6 DEF Moved
<1>12. n \in 1 .. Len(queue) /\ At(p, n) = 1
  BY <1>1, <1>11 DEF At
<1>13. waiting[n] = jobs[h].req
  BY <1>1, <1>9, <1>12
<1>14. Q!Turn(n)
  <2>1. CASE p = 1
    BY <2>1, TurnIs
  <2>2. CASE p # 1
    <3>1. jobs[queue[p]].req.op \in Long /\ jobs[queue[1]].req.op \in Preponable
      BY <1>6, <1>11, <2>2
    <3>2. waiting[1] = jobs[queue[p]].req
      BY <1>1, <1>9 DEF At
    <3> QED BY <1>1, <1>13, <2>2, <3>1, <3>2, TurnIs
  <2> QED BY <2>1, <2>2
<1>15. waiting' = Q!Without(waiting, n)
  <2>1. /\ Q!Without(waiting, n) \in Seq(Request_Type)
        /\ Len(Q!Without(waiting, n)) = Len(queue) - 1
        /\ \A k \in 1 .. Len(queue) - 1 :
             Q!Without(waiting, n)[k] = IF k < n THEN waiting[k] ELSE waiting[k + 1]
    BY <1>9, <1>12, WithoutIs, SMTT(30)
  <2>2. ASSUME NEW k \in 1 .. Len(queue) - 1
        PROVE  waiting'[k] = IF k < n THEN waiting[k] ELSE waiting[k + 1]
    <3>1. waiting'[k] = jobs[queue[At(r, k) + 1]].req
      <4> DEFINE a == At(r, k)
      <4>1. a \in 1 .. Len(queue) - 1 /\ waiting'[k] = jobs'[queue'[a]].req
        BY <1>10, <2>2
      <4> HIDE DEF a
      <4>2. jobs'[queue'[a]] = jobs[queue[a + 1]]
        BY <1>5, <4>1
      <4> QED BY <4>1, <4>2 DEF a
    <3>2. k \in 1 .. Len(queue) /\ k + 1 \in 1 .. Len(queue)
      BY <1>1
    <3>3. /\ waiting[k] = jobs[queue[At(p, k)]].req
          /\ waiting[k + 1] = jobs[queue[At(p, k + 1)]].req
      BY <1>9, <3>2
    <3>4. At(r, k) + 1 = IF k < n THEN At(p, k) ELSE At(p, k + 1)
      <4>1. CASE p = 1
        BY <1>1, <4>1 DEF At
      <4>2. CASE p # 1
        <5>1. p \in Nat /\ p > 1 /\ n = 2 /\ r = p - 1
          BY <1>11, <4>2
        <5> HIDE DEF n, r
        <5>2. CASE k = 1
          BY <5>1, <5>2 DEF At
        <5>3. CASE k # 1
          <6>1. ~(k < 2) /\ k \in Nat /\ k > 1
            BY <1>1, <5>3
          <6>2. At(r, k) = IF k <= p - 1 THEN k - 1 ELSE k
            BY <5>1, <5>3 DEF At
          <6>3. At(p, k + 1) = IF k + 1 <= p THEN k ELSE k + 1
            BY <5>1, <6>1 DEF At
          <6> QED BY <5>1, <6>1, <6>2, <6>3
        <5> QED BY <5>2, <5>3
      <4> QED BY <4>1, <4>2
    <3> HIDE DEF n, r
    <3> QED BY <3>1, <3>3, <3>4
  <2> HIDE DEF n, r
  <2> QED BY <1>10, <2>1, <2>2, SeqEqual
<1>16. n = 1 \/ waiting[n].op \in Preponable
  <2>1. CASE p # 1
    <3>1. jobs[queue[1]].req.op \in Preponable
      BY <1>6, <1>11, <2>1
    <3> QED BY <1>1, <1>13, <3>1
  <2> QED BY <2>1
<1> HIDE DEF n
<1> QED BY <1>9, <1>12, <1>13, <1>14, <1>15, <1>16

(* A new request comes last. *)
LEMMA JobEntersMaps ==
  ASSUME IInv, IInv', NEW j \in Pool_Index, jobs[j].state = "Invalid", NEW job \in Job_Type,
         jobs' = [jobs EXCEPT ![j] = job],
         queue' = Append(queue, j),
         job.state \in {"Submitted", "Pending"},
         JobConsistent(job)
  PROVE  waiting' = Append(waiting, job.req) /\ answered' = answered
<1>1. Len(queue) \in Nat
  BY LenProperties DEF IInv, TypeOK
<1>2. /\ jobs'[j] = job
      /\ \A k \in Pool_Index : k # j => jobs'[k] = jobs[k]
  BY DEF IInv, TypeOK
<1>3. /\ queue' \in Seq(Pool_Index)
      /\ Len(queue') = Len(queue) + 1
      /\ \A i \in 1 .. Len(queue) : queue'[i] = queue[i]
      /\ queue'[Len(queue) + 1] = j
  BY AppendProperties DEF IInv, TypeOK
<1>4. ~InQueue(j)
  BY DEF IInv, QueueComplete
<1>5. \A i \in 1 .. Len(queue) : queue[i] \in Pool_Index /\ queue[i] # j
  BY <1>4, ElementOfSeq DEF IInv, TypeOK, InQueue
<1>6. PICK p \in Nat \ {0} : Moved(Started, p, Len(queue))
  BY StartedIs
<1>7. Started' = Started
  <2>1. ~(job.req.op \in Long /\ job.state \notin {"Submitted", "Submitted_Resume_Rekeying"})
    BY DEF JobConsistent, Long, Blockwise
  <2>2. Len(queue) + 1 \notin Started'
    BY <1>2, <1>3, <2>1 DEF Started
  <2>3. \A i \in 1 .. Len(queue) : i \in Started' <=> i \in Started
    BY <1>1, <1>2, <1>3, <1>5 DEF Started
  <2>4. Started' \subseteq 1 .. Len(queue) + 1 /\ Started \subseteq 1 .. Len(queue)
    BY <1>3 DEF Started
  <2>5. ASSUME NEW i \in Started' PROVE i \in Started
    <3>1. i \in 1 .. Len(queue) + 1 /\ i # Len(queue) + 1
      BY <2>2, <2>4
    <3>2. i \in 1 .. Len(queue)
      BY <1>1, <3>1
    <3> QED BY <2>3, <3>2
  <2>6. ASSUME NEW i \in Started PROVE i \in Started'
    BY <2>3, <2>4
  <2> QED BY <2>5, <2>6
<1>8. Moved(Started', p, Len(queue'))
  BY <1>1, <1>3, <1>6, <1>7 DEF Moved
<1>9. /\ waiting \in Seq(Request_Type)
      /\ Len(waiting) = Len(queue)
      /\ \A i \in 1 .. Len(queue) : /\ At(p, i) \in 1 .. Len(queue)
                                    /\ waiting[i] = jobs[queue[At(p, i)]].req
  BY <1>6, WaitingIs DEF WaitingInOrder
<1>10. /\ waiting' \in Seq(Request_Type)
       /\ Len(waiting') = Len(queue) + 1
       /\ \A i \in 1 .. Len(queue) + 1 : waiting'[i] = jobs'[queue'[At(p, i)]].req
  BY <1>3, <1>8, WaitingNextIs DEF WaitingInOrder
<1>11. job.req \in Request_Type
  BY DEF Job_Type
<1>12. /\ Append(waiting, job.req) \in Seq(Request_Type)
       /\ Len(Append(waiting, job.req)) = Len(queue) + 1
       /\ \A i \in 1 .. Len(queue) : Append(waiting, job.req)[i] = waiting[i]
       /\ Append(waiting, job.req)[Len(queue) + 1] = job.req
  BY <1>9, <1>11, AppendProperties
<1>13. ASSUME NEW i \in 1 .. Len(queue) + 1
       PROVE  waiting'[i] = Append(waiting, job.req)[i]
  <2>1. CASE i \in 1 .. Len(queue)
    <3>1. At(p, i) \in 1 .. Len(queue)
      BY <1>9, <2>1
    <3>2. jobs'[queue'[At(p, i)]] = jobs[queue[At(p, i)]]
      BY <1>2, <1>3, <1>5, <3>1
    <3> QED BY <1>9, <1>10, <1>12, <2>1, <3>2
  <2>2. CASE i = Len(queue) + 1
    <3>1. At(p, i) = i
      BY <1>1, <1>6, <2>2 DEF At, Moved
    <3>2. waiting'[i] = jobs'[queue'[i]].req
      BY <1>10, <3>1
    <3>3. queue'[i] = j /\ Append(waiting, job.req)[i] = job.req
      BY <1>3, <1>12, <2>2
    <3> QED BY <1>2, <3>2, <3>3
  <2>3. i \in 1 .. Len(queue) \/ i = Len(queue) + 1
    BY <1>1
  <2> QED BY <2>1, <2>2, <2>3
<1>14. waiting' = Append(waiting, job.req)
  BY <1>10, <1>12, <1>13, SeqEqual
<1>15. answered' = answered
  BY <1>2 DEF answered, InState
<1> QED BY <1>14, <1>15

(* The job at the head leaves the queue: its answer is there if it has one. *)
LEMMA HeadLeavesAnswers ==
  ASSUME IInv, queue # <<>>, NEW job,
         jobs' = [jobs EXCEPT ![Head(queue)] = job]
  PROVE  /\ job.state # "Complete" => answered' = answered
         /\ job.state = "Complete" =>
              answered' = answered \cup {[request |-> job.req, success |-> job.success]}
<1> DEFINE h == Head(queue)
<1>1. h \in Pool_Index /\ InQueue(h)
  BY HeadOfQueue DEF IInv, InQueue
<1>2. /\ jobs'[h] = job
      /\ \A j \in Pool_Index : j # h => jobs'[j] = jobs[j]
  BY <1>1 DEF IInv, TypeOK
<1>3. jobs[h].state # "Complete"
  BY <1>1 DEF IInv, QueueComplete
<1> HIDE DEF h
<1>4. CASE job.state # "Complete"
  <2>1. \A j \in Pool_Index : /\ j \in InState({"Complete"})' <=> j \in InState({"Complete"})
                              /\ j \in InState({"Complete"}) => jobs'[j] = jobs[j]
    BY <1>2, <1>3, <1>4 DEF InState
  <2> QED BY <1>4, <2>1 DEF answered, InState
<1>5. CASE job.state = "Complete"
  <2>1. InState({"Complete"})' = InState({"Complete"}) \cup {h}
    BY <1>1, <1>2, <1>5 DEF InState
  <2>2. \A j \in InState({"Complete"}) : jobs'[j] = jobs[j]
    BY <1>2, <1>3 DEF InState
  <2> QED BY <1>2, <1>5, <2>1, <2>2 DEF answered
<1> QED BY <1>4, <1>5

(* The client takes an answer: no other answer is equal to it. *)
LEMMA AnswerTakenMaps ==
  ASSUME IInv, IInv', NEW j \in Pool_Index, jobs[j].state = "Complete",
         jobs' = [jobs EXCEPT ![j] = Job_Invalid],
         UNCHANGED queue
  PROVE  /\ waiting' = waiting
         /\ \E a \in answered : answered' = answered \ {a}
<1> DEFINE a == [request |-> jobs[j].req, success |-> jobs[j].success]
<1>1. /\ jobs'[j].state = "Invalid"
      /\ \A k \in Pool_Index : k # j => jobs'[k] = jobs[k]
  BY DEF IInv, TypeOK, Job_Invalid
<1>2. \A i \in 1 .. Len(queue) : queue[i] \in Pool_Index /\ queue[i] # j
  <2>1. ~InQueue(j)
    BY DEF IInv, QueueComplete
  <2> QED BY <2>1, ElementOfSeq DEF IInv, TypeOK, InQueue
<1>3. \A i \in 1 .. Len(queue) : jobs'[queue[i]] = jobs[queue[i]]
  BY <1>1, <1>2
<1>4. Started' = Started
  BY <1>3 DEF Started
<1>5. PICK p \in Nat \ {0} : Moved(Started, p, Len(queue))
  BY StartedIs
<1>6. /\ waiting \in Seq(Request_Type)
      /\ Len(waiting) = Len(queue)
      /\ \A i \in 1 .. Len(queue) : /\ At(p, i) \in 1 .. Len(queue)
                                    /\ waiting[i] = jobs[queue[At(p, i)]].req
  BY <1>5, WaitingIs DEF WaitingInOrder
<1>7. /\ waiting' \in Seq(Request_Type)
      /\ Len(waiting') = Len(queue)
      /\ \A i \in 1 .. Len(queue) : waiting'[i] = jobs'[queue[At(p, i)]].req
  BY <1>4, <1>5, WaitingNextIs DEF WaitingInOrder
<1>8. waiting' = waiting
  <2>1. \A i \in 1 .. Len(queue) : waiting'[i] = waiting[i]
    BY <1>3, <1>6, <1>7, ZenonT(60)
  <2> HIDE DEF waiting
  <2> QED BY <1>6, <1>7, <2>1, SeqEqual
<1>9. InState({"Complete"})' = InState({"Complete"}) \ {j}
  BY <1>1 DEF InState
<1>10. a \in answered
  BY DEF answered, InState
<1>11. \A k \in InState({"Complete"}) \ {j} :
         /\ jobs'[k] = jobs[k]
         /\ [request |-> jobs[k].req, success |-> jobs[k].success] # a
  <2>1. SUFFICES ASSUME NEW k \in InState({"Complete"}) \ {j} PROVE jobs[k].req # jobs[j].req
    BY <1>1 DEF InState
  <2>2. ~Equal(jobs[k].req, jobs[j].req)
    BY DEF IInv, RequestsDistinct, InState
  <2> QED BY <2>2 DEF Equal
<1> HIDE DEF a
<1>12. answered' = answered \ {a}
  <2>1. answered' = {[request |-> jobs[k].req, success |-> jobs[k].success] :
                       k \in InState({"Complete"}) \ {j}}
    BY <1>9, <1>11 DEF answered
  <2>2. answered = {[request |-> jobs[k].req, success |-> jobs[k].success] :
                      k \in InState({"Complete"}) \ {j}} \cup {a}
    <3>1. j \in InState({"Complete"})
      BY DEF InState
    <3> QED BY <3>1 DEF answered, a
  <2> QED BY <1>11, <2>1, <2>2
<1> QED BY <1>8, <1>10, <1>12

-----------------------------------------------------------------------------
(***************************************************************************)
(* The steps of the abstract queue, in terms of the mapping.               *)
(***************************************************************************)
LEMMA StutterIs ==
  ASSUME UNCHANGED <<waiting, answered>>
  PROVE  UNCHANGED Q!vars
BY MappingIs, MappingNextIs DEF Q!vars

LEMMA SubmitIs ==
  ASSUME NEW r \in Client_Requests, r.op # "Initialize",
         waiting' = Append(waiting, r), answered' = answered
  PROVE  Q!Next
<1>1. Q!Submit(r)
  BY MappingIs, MappingNextIs DEF Q!Submit
<1> QED BY <1>1 DEF Q!Next

LEMMA ReadyIs ==
  ASSUME waiting # <<>>, waiting[1].op = "Initialize",
         waiting' = Tail(waiting), answered' = answered
  PROVE  Q!Next
<1>1. Q!Ready
  BY MappingIs, MappingNextIs DEF Q!Ready
<1> QED BY <1>1 DEF Q!Next

LEMMA AnswerIs ==
  ASSUME NEW i \in 1 .. Len(waiting), NEW success \in BOOLEAN,
         Q!Turn(i), waiting[i].op # "Initialize", Q!Outcome(waiting[i], success),
         waiting' = Q!Without(waiting, i),
         answered' = answered \cup {[request |-> waiting[i], success |-> success]}
  PROVE  Q!Next
<1>1. Q!Answer(i, success)
  BY MappingIs, MappingNextIs DEF Q!Answer
<1>2. i \in 1 .. Len([k \in 1 .. Len(queue) |-> jobs[Order[k]].req])
  BY MappingIs
<1> QED BY <1>1, <1>2 DEF Q!Next

LEMMA TakeIs ==
  ASSUME NEW a \in answered, waiting' = waiting, answered' = answered \ {a}
  PROVE  Q!Next
<1>1. Q!Take(a)
  BY MappingIs, MappingNextIs DEF Q!Take
<1>2. a \in {[request |-> jobs[j].req, success |-> jobs[j].success] :
               j \in InState({"Complete"})}
  BY MappingIs
<1> QED BY <1>1, <1>2 DEF Q!Next

-----------------------------------------------------------------------------
(***************************************************************************)
(* Each step of the pool is one step of the abstract queue, or none.       *)
(***************************************************************************)
Maps == Q!Next \/ UNCHANGED Q!vars

(* Submit_Request appends a request. *)
LEMMA SubmitsMaps ==
  ASSUME IInv, IInv', Client_Submits
  PROVE  Maps
<1>1. PICK r \in Client_Requests : Submit_Request(r)
  BY DEF Client_Submits
<1> DEFINE job == [Job_Invalid EXCEPT
                     !.state = IF r.op \in Blockwise THEN "Pending" ELSE "Submitted",
                     !.req = r,
                     !.success = (r.op \in Blockwise)]
<1>2. InState({"Invalid"}) # {}
  BY <1>1, FreeJob DEF Client_Submits, Submit_Request
<1>3. PICK j \in Pool_Index : /\ IsFirst(j, InState({"Invalid"}))
                              /\ jobs' = [jobs EXCEPT ![j] = job]
                              /\ queue' = Append(queue, j)
  BY <1>1, <1>2 DEF Submit_Request
<1>4. jobs[j].state = "Invalid"
  BY <1>3 DEF IsFirst, InState
<1>5. jobs'[j] = job
  BY <1>3 DEF IInv, TypeOK
<1>6. job \in Job_Type /\ JobConsistent(job)
  BY <1>5 DEF IInv, TypeOK, JobsConsistent
<1>7. job.state \in {"Submitted", "Pending"} /\ job.req = r
  BY DEF Job_Invalid
<1> HIDE DEF job
<1>8. waiting' = Append(waiting, r) /\ answered' = answered
  BY <1>3, <1>4, <1>6, <1>7, JobEntersMaps
<1>9. r.op # "Initialize"
  BY PoolAssumption DEF Client_Requests, Blockwise, Simple, Long
<1> QED BY <1>8, <1>9, SubmitIs DEF Maps

(* Drop_Completed_Request takes an answer. *)
LEMMA DropsMaps ==
  ASSUME IInv, IInv', Drop_Completed_Request
  PROVE  Maps
<1>1. PICK j \in Pool_Index, k \in Pool_Index :
        /\ IsFirst(j, InState({"Complete"}))
        /\ IsFirst(k, {l \in Pool_Index : /\ jobs[l].state # "Invalid"
                                          /\ Equal(jobs[l].req, jobs[j].req)})
        /\ \/ /\ jobs[k].state # "Complete"
              /\ Raise_Program_Error
           \/ /\ jobs[k].state = "Complete"
              /\ jobs' = [jobs EXCEPT ![k] = Job_Invalid]
              /\ UNCHANGED <<queue, raised>>
  BY DEF Drop_Completed_Request
<1>2. jobs[k].state = "Complete"
  BY <1>1 DEF IInv, NoProgramError, Raise_Program_Error
<1>3. jobs' = [jobs EXCEPT ![k] = Job_Invalid] /\ UNCHANGED queue
  BY <1>1, <1>2
<1>4. PICK a \in answered : waiting' = waiting /\ answered' = answered \ {a}
  BY <1>2, <1>3, AnswerTakenMaps
<1> QED BY <1>4, TakeIs DEF Maps

(* A job that goes on does not show. *)
LEMMA GotoMaps ==
  ASSUME IInv, IInv', queue # <<>>, NEW state, Goto(Head(queue), state),
         state \notin {"Invalid", "Complete", "Submitted", "Submitted_Resume_Rekeying"}
  PROVE  Maps
<1> DEFINE h   == Head(queue)
           job == [jobs[h] EXCEPT !.state = state]
<1>1. h \in Pool_Index /\ jobs[h] \in Job_Type
  BY HeadOfQueue DEF IInv, TypeOK
<1>2. job.req = jobs[h].req /\ job.state = state
  BY <1>1 DEF Job_Type
<1>3. jobs' = [jobs EXCEPT ![h] = job] /\ UNCHANGED queue
  BY <1>1 DEF Goto, IInv, TypeOK
<1> HIDE DEF job
<1>4. job \in Job_Type
  <2>1. jobs'[h] = job
    BY <1>1, <1>3 DEF IInv, TypeOK
  <2> QED BY <1>1, <2>1 DEF IInv, TypeOK
<1>5. UNCHANGED <<waiting, answered>>
  BY <1>2, <1>3, <1>4, HeadGoesOnMaps
<1> QED BY <1>5, StutterIs DEF Maps

(* A job that is complete is answered. *)
LEMMA HeadAnswered ==
  ASSUME IInv, IInv', queue # <<>>, NEW job \in Job_Type,
         jobs' = [jobs EXCEPT ![Head(queue)] = job],
         queue' = Tail(queue),
         job.state = "Complete",
         job.req = jobs[Head(queue)].req,
         job.req.op # "Initialize",
         Q!Outcome(job.req, job.success)
  PROVE  Maps
<1>1. PICK i \in 1 .. Len(waiting) :
        /\ Q!Turn(i)
        /\ waiting[i] = job.req
        /\ waiting' = Q!Without(waiting, i)
  BY HeadLeavesMaps
<1>2. answered' = answered \cup {[request |-> waiting[i], success |-> job.success]}
  BY <1>1, HeadLeavesAnswers
<1>3. job.success \in BOOLEAN
  BY DEF Job_Type
<1> HIDE DEF waiting, answered
<1> QED BY <1>1, <1>2, <1>3, AnswerIs DEF Maps

(* Complete, for an operation of the superblock control. *)
LEMMA CompleteMaps ==
  ASSUME IInv, IInv', queue # <<>>, NEW success \in BOOLEAN, Complete(Head(queue), success),
         jobs[Head(queue)].req.op \notin Blockwise \cup {"Initialize"},
         jobs[Head(queue)].req.op # "Discard_Snapshot" => success
  PROVE  Maps
<1> DEFINE h   == Head(queue)
           job == [jobs[h] EXCEPT !.state = "Complete", !.success = success]
<1>1. h \in Pool_Index /\ jobs[h] \in Job_Type
  BY HeadOfQueue DEF IInv, TypeOK
<1>2. job.req = jobs[h].req /\ job.state = "Complete" /\ job.success = success
  BY <1>1 DEF Job_Type
<1>3. jobs' = [jobs EXCEPT ![h] = job] /\ queue' = Tail(queue)
  BY <1>1 DEF Complete, IInv, TypeOK
<1> HIDE DEF job
<1>4. job \in Job_Type
  <2>1. jobs'[h] = job
    BY <1>1, <1>3 DEF IInv, TypeOK
  <2> QED BY <1>1, <2>1 DEF IInv, TypeOK
<1>5. Q!Outcome(job.req, job.success)
  BY <1>2 DEF Q!Outcome, Q!Blockwise, Blockwise
<1> QED BY <1>2, <1>3, <1>4, <1>5, HeadAnswered

(* The library is ready. *)
LEMMA InitializedMaps ==
  ASSUME FreshStart, IInv, IInv', queue # <<>>, Execute_Initialize_Complete(Head(queue))
  PROVE  Maps
<1> DEFINE h == Head(queue)
<1>1. h \in Pool_Index /\ JobConsistent(jobs[h])
  BY HeadOfQueue DEF IInv, JobsConsistent
<1>2. jobs[h].prim /\ jobs[h].sb = "Normal" /\ jobs[h].req.op = "Initialize"
  BY <1>1 DEF Execute_Initialize_Complete, JobConsistent
<1>3. jobs' = [jobs EXCEPT ![h] = Job_Invalid] /\ queue' = Tail(queue)
  BY <1>2 DEF Execute_Initialize_Complete
<1>4. PICK i \in 1 .. Len(waiting) :
        /\ waiting[i] = jobs[h].req
        /\ waiting' = Q!Without(waiting, i)
        /\ i = 1 \/ waiting[i].op \in Preponable
  BY <1>3, HeadLeavesMaps
<1>5. i = 1
  BY <1>2, <1>4 DEF Preponable
<1>6. answered' = answered
  <2>1. Job_Invalid.state # "Complete"
    BY DEF Job_Invalid
  <2> QED BY <1>3, <2>1, HeadLeavesAnswers
<1>7. waiting \in Seq(Request_Type)
  <2>1. PICK p \in Nat \ {0} : Moved(Started, p, Len(queue))
    BY StartedIs
  <2> QED BY <2>1, WaitingIs DEF WaitingInOrder
<1> HIDE DEF waiting, answered
<1>8. waiting # <<>> /\ Len(waiting) \in Nat /\ 1 \in 1 .. Len(waiting)
  BY <1>4, <1>5, <1>7, LenProperties
<1>9. Q!Without(waiting, 1) = Tail(waiting)
  <2>1. /\ Tail(waiting) \in Seq(Request_Type)
        /\ Len(Tail(waiting)) = Len(waiting) - 1
        /\ \A k \in 1 .. Len(waiting) - 1 : Tail(waiting)[k] = waiting[k + 1]
    BY <1>7, <1>8, HeadTailProperties
  <2>2. /\ Q!Without(waiting, 1) \in Seq(Request_Type)
        /\ Len(Q!Without(waiting, 1)) = Len(waiting) - 1
        /\ \A k \in 1 .. Len(waiting) - 1 : Q!Without(waiting, 1)[k] = waiting[k + 1]
    BY <1>7, <1>8, WithoutIs
  <2> QED BY <2>1, <2>2, SeqEqual
<1> QED BY <1>2, <1>4, <1>5, <1>6, <1>8, <1>9, ReadyIs DEF Maps

(* The job at the head lets others pass: the order of submission stays. *)
LEMMA PreponeMaps ==
  ASSUME IInv, IInv', queue # <<>>, Execute_Prepone_Requests(Head(queue))
  PROVE  Maps
<1> DEFINE h   == Head(queue)
           n   == Nr_To_Prepone
           job == [jobs[h] EXCEPT !.preponed = @ + n]
<1>1. h \in Pool_Index /\ jobs[h] \in Job_Type
  BY HeadOfQueue DEF IInv, TypeOK
<1>2. jobs[h].req.op \in Long /\ jobs[h].state = "Prepone_Requests_Pending"
  BY DEF Execute_Prepone_Requests
<1>3. CASE n > 0
  <2>1. /\ n \in 0 .. Len(queue) - 1
        /\ \A i \in 2 .. n + 1 : jobs[queue[i]].req.op \in Preponable
    BY NrToPrepone DEF IInv
  <2>2. queue' = Move_Items_Towards_Tail(n) /\ jobs' = [jobs EXCEPT ![h] = job]
    BY <1>1, <1>3 DEF Execute_Prepone_Requests, IInv, TypeOK
  <2>3. job.req = jobs[h].req /\ job.state = "Prepone_Requests_Pending"
    BY <1>1, <1>2 DEF Job_Type
  <2> HIDE DEF n, job
  <2>4. job \in Job_Type
    <3>1. jobs'[h] = job
      BY <1>1, <2>2 DEF IInv, TypeOK
    <3> QED BY <1>1, <3>1 DEF IInv, TypeOK
  <2>5. UNCHANGED <<waiting, answered>>
    BY <1>2, <2>1, <2>2, <2>3, <2>4, HeadMovesMaps
  <2> QED BY <2>5, StutterIs DEF Maps
<1>4. CASE ~(n > 0)
  <2>1. Goto(h, "Prepone_Requests_Complete")
    BY <1>4 DEF Execute_Prepone_Requests
  <2> QED BY <2>1, GotoMaps
<1> QED BY <1>3, <1>4

(* The steps of the job at the head. *)
LEMMA ExecuteMaps ==
  ASSUME FreshStart, IInv, IInv', Execute
  PROVE  Maps
<1> DEFINE h == Head(queue)
<1>1. queue # <<>>
  BY DEF Execute
<1>2. h \in Pool_Index /\ jobs[h] \in Job_Type
  BY <1>1, HeadOfQueue DEF IInv, TypeOK
<1>3. JobConsistent(jobs[h])
  BY <1>2 DEF IInv, JobsConsistent
<1>4. CASE Execute_Submitted(h)
  <2>1. PICK state \in {"Init_Pending", "Step_Pending"} : Goto(h, state)
    BY <1>3, <1>4 DEF Execute_Submitted, JobConsistent
  <2> QED BY <1>1, <2>1, GotoMaps
<1>5. CASE Execute_Simple_Complete(h)
  <2>1. /\ jobs[h].req.op = "Deinitialize" => jobs[h].prim
        /\ jobs[h].req.op # "Discard_Snapshot" => jobs[h].prim
        /\ jobs[h].req.op \notin Blockwise \cup {"Initialize"}
    BY <1>3, <1>5 DEF Execute_Simple_Complete, JobConsistent, Simple, Blockwise
  <2>2. Complete(h, jobs[h].prim) /\ jobs[h].prim \in BOOLEAN
    BY <1>2, <1>5, <2>1 DEF Execute_Simple_Complete, Job_Type
  <2> QED BY <1>1, <2>1, <2>2, CompleteMaps
<1>6. CASE Execute_Initialize_Complete(h)
  BY <1>1, <1>6, InitializedMaps
<1>7. ASSUME Start_Preponing(h) PROVE Maps
  <2> DEFINE job == [jobs[h] EXCEPT !.state = "Prepone_Requests_Pending", !.preponed = 0]
  <2>1. /\ jobs' = [jobs EXCEPT ![h] = job] /\ UNCHANGED queue
        /\ job.req = jobs[h].req /\ job.state = "Prepone_Requests_Pending"
    BY <1>2, <1>7 DEF Start_Preponing, IInv, TypeOK, Job_Type
  <2> HIDE DEF job
  <2>2. job \in Job_Type
    <3>1. jobs'[h] = job
      BY <1>2, <2>1 DEF IInv, TypeOK
    <3> QED BY <1>2, <3>1 DEF IInv, TypeOK
  <2>3. UNCHANGED <<waiting, answered>>
    BY <1>1, <2>1, <2>2, HeadGoesOnMaps
  <2> QED BY <2>3, StutterIs DEF Maps
<1>8. CASE Execute_Step_Complete(h)
  <2>1. jobs[h].req.op \in Long /\ jobs[h].prim
    BY <1>3, <1>8 DEF Execute_Step_Complete, JobConsistent, Long
  <2>2. Complete(h, TRUE) \/ Start_Preponing(h)
    BY <1>8, <2>1 DEF Execute_Step_Complete
  <2>3. jobs[h].req.op \notin Blockwise \cup {"Initialize"}
    BY <2>1 DEF Long, Blockwise
  <2> QED BY <1>1, <1>7, <2>2, <2>3, CompleteMaps
<1>9. CASE Execute_Prepone_Requests(h)
  BY <1>1, <1>9, PreponeMaps
<1>10. CASE Execute_Next_Step(h)
  <2>1. Goto(h, "Step_Pending")
    BY <1>10 DEF Execute_Next_Step
  <2> QED BY <1>1, <2>1, GotoMaps
<1> QED BY <1>4, <1>5, <1>6, <1>8, <1>9, <1>10 DEF Execute

(* The answer for a block: the last one answers the request. *)
LEMMA MarkBlockMaps ==
  ASSUME IInv, IInv', AnswersRight, NEW j \in Pool_Index, Mark_Block_Complete(j)
  PROVE  Maps
<1> DEFINE success == jobs[j].completed < jobs[j].req.inside
           job     == [jobs[j] EXCEPT !.success = success, !.completed = @ + 1]
           again   == [job EXCEPT !.state = "Pending"]
           over    == [job EXCEPT !.state = "Complete"]
<1>1. jobs[j].state = "In_Progress"
  BY DEF Mark_Block_Complete
<1>2. ~NotHead(j) /\ queue # <<>> /\ j = Head(queue)
  BY <1>1, AnswerForHead DEF Taken
<1>3. jobs[j] \in Job_Type /\ jobs'[j] \in Job_Type
  BY DEF IInv, TypeOK
<1>4. jobs[j].req.op \in Blockwise
  BY <1>1 DEF IInv, JobsConsistent, JobConsistent
<1>5. CASE job.completed < job.req.count
  <2>1. jobs' = [jobs EXCEPT ![j] = again] /\ UNCHANGED queue
    BY <1>2, <1>5 DEF Mark_Block_Complete
  <2>2. jobs'[j] = again
    BY <2>1 DEF IInv, TypeOK
  <2>3. again.req = jobs[j].req /\ again.state = "Pending"
    BY <1>3 DEF Job_Type
  <2> HIDE DEF again
  <2>4. UNCHANGED <<waiting, answered>>
    BY <1>2, <1>3, <2>1, <2>2, <2>3, HeadGoesOnMaps
  <2> QED BY <2>4, StutterIs DEF Maps
<1>6. CASE ~(job.completed < job.req.count)
  <2>1. jobs' = [jobs EXCEPT ![j] = over] /\ queue' = Tail(queue)
    BY <1>2, <1>6 DEF Mark_Block_Complete
  <2>2. jobs'[j] = over
    BY <2>1 DEF IInv, TypeOK
  <2>3. over.req = jobs[j].req /\ over.state = "Complete"
    BY <1>3 DEF Job_Type
  <2> HIDE DEF over
  <2>4. over.success = (over.req.inside = over.req.count)
    BY <2>2, <2>3, MarkBlockAnswers
  <2>5. Q!Outcome(over.req, over.success)
    BY <1>4, <2>3, <2>4 DEF Q!Outcome, Q!Blockwise, Blockwise
  <2>6. over.req.op # "Initialize"
    BY <1>4, <2>3 DEF Blockwise
  <2> QED BY <1>2, <1>3, <2>1, <2>2, <2>3, <2>5, <2>6, HeadAnswered
<1> QED BY <1>5, <1>6

(* The answer of the superblock control does not show yet. *)
LEMMA MarkStepMaps ==
  ASSUME IInv, IInv', NEW j \in Pool_Index, NEW success \in BOOLEAN,
         NEW finished \in BOOLEAN, NEW sb \in SB_States,
         Mark_Step_Complete(j, success, finished, sb)
  PROVE  Maps
<1> DEFINE state == IF jobs[j].state = "Init_In_Progress" THEN "Init_Complete"
                                                         ELSE "Step_Complete"
           fin   == IF jobs[j].req.op \in Long /\ jobs[j].state = "Step_In_Progress"
                      THEN finished ELSE jobs[j].finished
           found == IF jobs[j].req.op = "Initialize" THEN sb ELSE jobs[j].sb
           job   == [jobs[j] EXCEPT !.state = state, !.prim = success,
                                    !.finished = fin, !.sb = found]
<1>1. jobs[j].state \in {"Init_In_Progress", "Step_In_Progress"}
  BY DEF Mark_Step_Complete
<1>2. ~NotHead(j) /\ queue # <<>> /\ j = Head(queue)
  BY <1>1, AnswerForHead DEF Taken
<1>3. jobs[j] \in Job_Type /\ jobs'[j] \in Job_Type
  BY DEF IInv, TypeOK
<1>4. jobs' = [jobs EXCEPT ![j] = job] /\ UNCHANGED queue
  BY <1>2, <1>3 DEF Mark_Step_Complete, IInv, TypeOK, Job_Type
<1>5. jobs'[j] = job
  BY <1>4 DEF IInv, TypeOK
<1>6. job.req = jobs[j].req /\ job.state \in {"Init_Complete", "Step_Complete"}
  BY <1>3 DEF Job_Type
<1> HIDE DEF job
<1>7. UNCHANGED <<waiting, answered>>
  BY <1>2, <1>3, <1>4, <1>5, <1>6, HeadGoesOnMaps
<1> QED BY <1>7, StutterIs DEF Maps

(* All steps. *)
LEMMA NextMaps ==
  ASSUME FreshStart, RInv, IInv', [Next]_vars
  PROVE  Maps
<1> USE DEF RInv
<1>1. CASE UNCHANGED vars
  <2>1. UNCHANGED <<waiting, answered>>
    BY <1>1 DEF vars, waiting, answered, Requested, Reordered, Started, InState
  <2> QED BY <2>1, StutterIs DEF Maps
<1>2. CASE Client_Submits
  BY <1>2, SubmitsMaps
<1>3. CASE Drop_Completed_Request
  BY <1>3, DropsMaps
<1>4. CASE Execute
  BY <1>4, ExecuteMaps
<1>5. ASSUME NEW j \in Pool_Index, Drop_Generated_Primitive(j) PROVE Maps
  <2>1. queue # <<>> /\ j = Head(queue)
    BY <1>5 DEF Drop_Generated_Primitive
  <2>2. PICK state \in Taken : Goto(j, state)
    BY <1>5 DEF Drop_Generated_Primitive, Generated, Taken
  <2> QED BY <2>1, <2>2, GotoMaps DEF Taken
<1>6. CASE \E j \in Pool_Index : Mark_Generated_Primitive_Complete(j)
  BY <1>6, MarkBlockMaps, MarkStepMaps DEF Mark_Generated_Primitive_Complete
<1> QED BY <1>1, <1>2, <1>3, <1>4, <1>5, <1>6 DEF Next, Pool

(* The pool starts with the initialization of the library. *)
LEMMA InitMaps == Init => Q!Init
<1> SUFFICES ASSUME Init PROVE Q!Init
  OBVIOUS
<1>1. /\ queue = <<1>>
      /\ 1 \in Pool_Index
      /\ jobs[1].state = "Submitted" /\ jobs[1].req = Internal("Initialize")
      /\ \A j \in Pool_Index : jobs[j].state # "Complete"
  BY PoolAssumption DEF Init, Initialized_Object, Pool_Index, Job_Invalid
<1>2. Started = {}
  BY <1>1 DEF Started, Internal, Long
<1>3. waiting = <<Internal("Initialize")>>
  BY <1>1, <1>2 DEF waiting, Requested, Reordered
<1>4. answered = {}
  BY <1>1 DEF answered, InState
<1>5. Internal("Initialize").op = "Initialize"
  BY DEF Internal
<1> QED BY <1>3, <1>4, <1>5, MappingIs DEF Q!Init

(* The invariant of the mapping holds in every state. *)
LEMMA RInvariance == ASSUME FreshStart PROVE Spec => []RInv
<1>1. Init => RInv
  <2>1. Init => AnswersRight
    BY DEF Init, Initialized_Object, AnswersRight, AnswerRight, Job_Invalid, Internal, Blockwise
  <2> QED BY <2>1, InitIInv DEF RInv
<1>2. RInv /\ [Next]_vars => RInv'
  BY NextIInv, NextAnswers DEF RInv
<1> QED BY <1>1, <1>2, PTL DEF Spec

(* The pool answers requests in the order of their submission, but for     *)
(* those that may overtake the one rekeying or extension under way, and an *)
(* answer tells whether all blocks of the request exist.                   *)
THEOREM Refinement == ASSUME FreshStart PROVE Spec => ImplementsRequestQueue
<1>1. Init => Q!Init
  BY InitMaps
<1>2. RInv /\ RInv' /\ [Next]_vars => [Q!Next]_Q!vars
  BY NextMaps DEF Maps, RInv
<1>3. Spec => []RInv
  BY RInvariance
<1> QED BY <1>1, <1>2, <1>3, PTL DEF Spec, ImplementsRequestQueue, Q!Spec
=============================================================================
