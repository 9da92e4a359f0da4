---------------------------- MODULE RequestPool -----------------------------
(***************************************************************************)
(* The pool of client requests (package CBE.Request_Pool), with the index  *)
(* queue it keeps them in, with the clients (the VFS plugin, the tester)   *)
(* that submit requests and collect answers, and with the two modules that *)
(* work on the requests: the virtual block device, block by block, and the *)
(* superblock control.                                                     *)
(*                                                                         *)
(* The pool works on the job at the head of its queue only.  Rekeying and  *)
(* extending are done in many steps; between two of them the pool prepones *)
(* the requests right behind, by moving the long job towards the tail.     *)
(*                                                                         *)
(* The code has a state Pending, In_Progress and Complete for each kind of *)
(* step a job can take at the superblock control.  The operation of the    *)
(* job tells these kinds apart, except for the start of a rekeying: so     *)
(* "Init_..." stands for Rekey_Init_..., and "Step_..." for the states of  *)
(* any other operation.                                                    *)
(***************************************************************************)
EXTENDS Integers, Sequences

CONSTANTS
  Nr_Of_Jobs,    \* jobs of the pool: 16 in the code
  Max_Preponed,  \* Max_Nr_Of_Requests_Preponed_At_A_Time: 8 in the code
  Keys,          \* block numbers and tags by which clients tell requests apart
  Max_Count,     \* bound: blocks per request
  Client_Ops,    \* operations the clients request
  SB_States      \* states in which the superblock may be found at start-up

Blockwise  == {"Read", "Write"}
Simple     == {"Sync", "Create_Snapshot", "Discard_Snapshot", "Deinitialize"}
Long       == {"Rekey", "Extend_VBD", "Extend_FT"}
(* Mutant: snapshots are created while a rekeying is under way. *)
Preponable_With_Create_Snapshot == {"Read", "Write", "Sync", "Discard_Snapshot",
                                    "Create_Snapshot"}

Preponable == {"Read", "Write", "Sync", "Discard_Snapshot"}
Operations == Blockwise \cup Simple \cup Long \cup {"Initialize"}

ASSUME PoolAssumption ==
  /\ Nr_Of_Jobs \in Nat \ {0}
  /\ Max_Preponed \in Nat \ {0}
  /\ 0 \in Keys
  /\ Max_Count \in Nat \ {0}
  /\ Client_Ops \subseteq Blockwise \cup Simple \cup Long
  /\ SB_States \subseteq {"Normal", "Rekeying", "Extending_VBD", "Extending_FT"}

VARIABLES
  jobs,   \* the jobs, by index
  queue,  \* the index queue, head first
  raised  \* whether Program_Error was raised

vars == <<jobs, queue, raised>>

-----------------------------------------------------------------------------
Pool_Index == 1 .. Nr_Of_Jobs

Job_State == {"Invalid", "Submitted", "Submitted_Resume_Rekeying", "Complete",
              "Pending", "In_Progress",
              "Init_Pending", "Init_In_Progress", "Init_Complete",
              "Step_Pending", "Step_In_Progress", "Step_Complete",
              "Prepone_Requests_Pending", "Prepone_Requests_Complete"}

(* "inside" is the number of blocks of the request that lie on the device. *)
Request_Type == [op : Operations, key : Keys, count : 0 .. Max_Count, inside : 0 .. Max_Count]

Job_Type == [state     : Job_State,
             req       : Request_Type,
             success   : BOOLEAN,            \* of the request
             prim      : BOOLEAN,            \* success of the last step
             finished  : BOOLEAN,            \* Request_Finished
             preponed  : 0 .. Max_Preponed,  \* Nr_Of_Requests_Preponed
             completed : 0 .. Max_Count,     \* Nr_Of_Prims_Completed
             sb        : SB_States \cup {"Invalid"}]

TypeOK ==
  /\ jobs \in [Pool_Index -> Job_Type]
  /\ queue \in Seq(Pool_Index)
  /\ raised \in BOOLEAN

Internal(op) == [op |-> op, key |-> 0, count |-> 0, inside |-> 0]

(* An invalid request reads as one of operation Read. *)
Job_Invalid == [state |-> "Invalid", req |-> Internal("Read"), success |-> FALSE,
                prim |-> FALSE, finished |-> FALSE, preponed |-> 0, completed |-> 0,
                sb |-> "Invalid"]

Initialized_Object ==
  /\ jobs = [j \in Pool_Index |->
               IF j = 1 THEN [Job_Invalid EXCEPT !.state = "Submitted",
                                                 !.req = Internal("Initialize")]
                        ELSE Job_Invalid]
  /\ queue = <<1>>
  /\ raised = FALSE

Raise_Program_Error == raised' = TRUE /\ UNCHANGED <<jobs, queue>>

InState(S) == {j \in Pool_Index : jobs[j].state \in S}

IsFirst(x, S) == x \in S /\ \A y \in S : x <= y

-----------------------------------------------------------------------------
(***************************************************************************)
(* The clients.                                                            *)
(***************************************************************************)
(* Mutant: the pool accepts whatever comes. *)
Request_Acceptable_Always == TRUE

Request_Acceptable == Len(queue) < Nr_Of_Jobs

Equal(r, s) == r.key = s.key /\ r.op = s.op

(* The requests clients make, never one that equals one still in the pool. *)
Client_Requests == {r \in Request_Type :
                      /\ r.op \in Client_Ops
                      /\ IF r.op \in Blockwise THEN 0 < r.count /\ r.inside <= r.count
                                               ELSE r = Internal(r.op)}

Submit_Request(r) ==
  /\ Request_Acceptable
  /\ \A j \in Pool_Index : jobs[j].state # "Invalid" => ~Equal(jobs[j].req, r)
  /\ \/ /\ InState({"Invalid"}) = {}
        /\ Raise_Program_Error
     \/ /\ \E j \in Pool_Index :
             /\ IsFirst(j, InState({"Invalid"}))
             /\ jobs' = [jobs EXCEPT ![j] =
                  [Job_Invalid EXCEPT
                     !.state = IF r.op \in Blockwise THEN "Pending" ELSE "Submitted",
                     !.req = r,
                     !.success = (r.op \in Blockwise)]]
             /\ queue' = Append(queue, j)
        /\ UNCHANGED raised

(* The clients of the repository take all answers before they go on. *)
Client_Submits ==
  /\ InState({"Complete"}) = {}
  /\ \E r \in Client_Requests : Submit_Request(r)

(* The client takes the request the pool shows, and hands it back to the   *)
(* pool, which looks it up among all of its jobs.                          *)
Drop_Completed_Request ==
  \E j, k \in Pool_Index :
    /\ IsFirst(j, InState({"Complete"}))
    /\ IsFirst(k, {l \in Pool_Index : /\ jobs[l].state # "Invalid"
                                      /\ Equal(jobs[l].req, jobs[j].req)})
    /\ \/ /\ jobs[k].state # "Complete"
          /\ Raise_Program_Error
       \/ /\ jobs[k].state = "Complete"
          /\ jobs' = [jobs EXCEPT ![k] = Job_Invalid]
          /\ UNCHANGED <<queue, raised>>

-----------------------------------------------------------------------------
(***************************************************************************)
(* Execution of the job at the head of the queue.                          *)
(***************************************************************************)
(* Mutant: a job that is complete stays in the queue. *)
Complete_Without_Dequeue(j, success) ==
  /\ jobs' = [jobs EXCEPT ![j].state = "Complete", ![j].success = success]
  /\ UNCHANGED <<queue, raised>>

Complete(j, success) ==
  /\ jobs' = [jobs EXCEPT ![j].state = "Complete", ![j].success = success]
  /\ queue' = Tail(queue)
  /\ UNCHANGED raised

Start_Preponing(j) ==
  /\ jobs' = [jobs EXCEPT ![j].state = "Prepone_Requests_Pending", ![j].preponed = 0]
  /\ UNCHANGED <<queue, raised>>

Goto(j, state) ==
  /\ jobs' = [jobs EXCEPT ![j].state = state]
  /\ UNCHANGED <<queue, raised>>

Execute_Submitted(j) ==
  \/ /\ jobs[j].state = "Submitted"
     /\ jobs[j].req.op \notin Blockwise
     /\ Goto(j, IF jobs[j].req.op = "Rekey" THEN "Init_Pending" ELSE "Step_Pending")
  \/ /\ jobs[j].state = "Submitted_Resume_Rekeying"
     /\ Start_Preponing(j)

(* Sync, Create_Snapshot, Discard_Snapshot, Deinitialize. *)
Execute_Simple_Complete(j) ==
  /\ jobs[j].state = "Step_Complete"
  /\ jobs[j].req.op \in Simple
  /\ IF jobs[j].req.op = "Deinitialize" /\ ~jobs[j].prim THEN Raise_Program_Error
                                                       ELSE Complete(j, jobs[j].prim)

(* An operation the last run of the CBE did not finish is taken up again,  *)
(* in the job of the initialization, which stays in the queue.             *)
Resume(j, state, op) ==
  IF Len(queue) = Nr_Of_Jobs
    THEN Raise_Program_Error
    ELSE /\ jobs' = [jobs EXCEPT ![j].state = state, ![j].req = Internal(op)]
         /\ queue' = Append(queue, j)
         /\ UNCHANGED raised

Execute_Initialize_Complete(j) ==
  /\ jobs[j].state = "Step_Complete"
  /\ jobs[j].req.op = "Initialize"
  /\ IF ~jobs[j].prim THEN Raise_Program_Error ELSE
       \/ jobs[j].sb = "Invalid" /\ Raise_Program_Error
       \/ /\ jobs[j].sb = "Normal"
          /\ queue' = Tail(queue)
          /\ jobs' = [jobs EXCEPT ![j] = Job_Invalid]
          /\ UNCHANGED raised
       \/ jobs[j].sb = "Rekeying" /\ Resume(j, "Submitted_Resume_Rekeying", "Rekey")
       \/ jobs[j].sb = "Extending_VBD" /\ Resume(j, "Submitted", "Extend_VBD")
       \/ jobs[j].sb = "Extending_FT" /\ Resume(j, "Submitted", "Extend_FT")

(* One step of a rekeying or an extension is done. *)
Execute_Step_Complete(j) ==
  /\ jobs[j].req.op \in Long
  /\ jobs[j].state \in {"Init_Complete", "Step_Complete"}
  /\ \/ ~jobs[j].prim /\ Raise_Program_Error
     \/ /\ jobs[j].prim
        /\ IF jobs[j].state = "Step_Complete" /\ jobs[j].finished
             THEN Complete(j, TRUE)
             ELSE Start_Preponing(j)

(* Mutant: one item too many is moved. *)
Nr_To_Prepone_Off_By_One ==
  LET j == Head(queue)
      Movable(k) == /\ jobs[j].preponed + k <= Max_Preponed + 1
                    /\ queue[Len(queue)] = j => k = 0
                    /\ \A i \in 2 .. k + 1 : jobs[queue[i]].req.op \in Preponable
  IN  CHOOSE k \in 0 .. Len(queue) - 1 :
        Movable(k) /\ \A l \in 0 .. Len(queue) - 1 : Movable(l) => l <= k

(* Mutant: the operations of the items are not looked at. *)
Nr_To_Prepone_Of_Any_Operation ==
  LET j == Head(queue)
      Movable(k) == /\ jobs[j].preponed + k <= Max_Preponed
                    /\ queue[Len(queue)] = j => k = 0
  IN  CHOOSE k \in 0 .. Len(queue) - 1 :
        Movable(k) /\ \A l \in 0 .. Len(queue) - 1 : Movable(l) => l <= k

(* The number of items that the loop moves in front of the head. *)
Nr_To_Prepone ==
  LET j == Head(queue)
      Movable(k) == /\ jobs[j].preponed + k <= Max_Preponed
                    /\ queue[Len(queue)] = j => k = 0
                    /\ \A i \in 2 .. k + 1 : jobs[queue[i]].req.op \in Preponable
  IN  CHOOSE k \in 0 .. Len(queue) - 1 :
        Movable(k) /\ \A l \in 0 .. Len(queue) - 1 : Movable(l) => l <= k

(* The head moves towards the tail, past the next k items. *)
Move_Items_Towards_Tail(k) ==
  SubSeq(queue, 2, k + 1) \o <<Head(queue)>> \o SubSeq(queue, k + 2, Len(queue))

(* Mutant: the requests preponed are counted anew at every visit. *)
Execute_Prepone_Requests_Without_Counting(j) ==
  /\ jobs[j].req.op \in Long
  /\ jobs[j].state = "Prepone_Requests_Pending"
  /\ IF Nr_To_Prepone > 0
       THEN /\ queue' = Move_Items_Towards_Tail(Nr_To_Prepone)
            /\ UNCHANGED <<jobs, raised>>
       ELSE Goto(j, "Prepone_Requests_Complete")

Execute_Prepone_Requests(j) ==
  /\ jobs[j].req.op \in Long
  /\ jobs[j].state = "Prepone_Requests_Pending"
  /\ IF Nr_To_Prepone > 0
       THEN /\ queue' = Move_Items_Towards_Tail(Nr_To_Prepone)
            /\ jobs' = [jobs EXCEPT ![j].preponed = @ + Nr_To_Prepone]
            /\ UNCHANGED raised
       ELSE Goto(j, "Prepone_Requests_Complete")

Execute_Next_Step(j) ==
  /\ jobs[j].state = "Prepone_Requests_Complete"
  /\ Goto(j, "Step_Pending")

Execute ==
  /\ queue # <<>>
  /\ \/ Execute_Submitted(Head(queue))
     \/ Execute_Simple_Complete(Head(queue))
     \/ Execute_Initialize_Complete(Head(queue))
     \/ Execute_Step_Complete(Head(queue))
     \/ Execute_Prepone_Requests(Head(queue))
     \/ Execute_Next_Step(Head(queue))

-----------------------------------------------------------------------------
(***************************************************************************)
(* The primitives of the jobs, which the library takes from the head of    *)
(* the queue as soon as the addressee is free.                             *)
(***************************************************************************)
Generated == {"Pending", "Init_Pending", "Step_Pending"}
Taken     == {"In_Progress", "Init_In_Progress", "Step_In_Progress"}

Drop_Generated_Primitive(j) ==
  /\ queue # <<>> /\ j = Head(queue)
  /\ jobs[j].state \in Generated
  /\ Goto(j, CASE jobs[j].state = "Pending"      -> "In_Progress"
               [] jobs[j].state = "Init_Pending" -> "Init_In_Progress"
               [] jobs[j].state = "Step_Pending" -> "Step_In_Progress")

NotHead(j) == queue = <<>> \/ j # Head(queue)

(* The virtual block device, or the library for blocks beyond its end. *)
Mark_Block_Complete(j) ==
  /\ jobs[j].state = "In_Progress"
  /\ LET success == jobs[j].completed < jobs[j].req.inside
         job     == [jobs[j] EXCEPT !.success = success, !.completed = @ + 1]
     IN  \/ /\ NotHead(j)
            /\ Raise_Program_Error
         \/ /\ ~NotHead(j)
            /\ IF job.completed < job.req.count
                 THEN /\ jobs' = [jobs EXCEPT ![j] = [job EXCEPT !.state = "Pending"]]
                      /\ UNCHANGED queue
                 ELSE /\ jobs' = [jobs EXCEPT ![j] = [job EXCEPT !.state = "Complete"]]
                      /\ queue' = Tail(queue)
            /\ UNCHANGED raised

(* The superblock control, which fails only to discard a snapshot. *)
Mark_Step_Complete(j, success, finished, sb) ==
  /\ jobs[j].state \in {"Init_In_Progress", "Step_In_Progress"}
  /\ jobs[j].req.op # "Discard_Snapshot" => success
  /\ \/ /\ NotHead(j)
        /\ Raise_Program_Error
     \/ /\ ~NotHead(j)
        /\ jobs' = [jobs EXCEPT
             ![j].state = IF @ = "Init_In_Progress" THEN "Init_Complete" ELSE "Step_Complete",
             ![j].prim = success,
             ![j].finished = IF jobs[j].req.op \in Long /\ jobs[j].state = "Step_In_Progress"
                               THEN finished ELSE @,
             ![j].sb = IF jobs[j].req.op = "Initialize" THEN sb ELSE @]
        /\ UNCHANGED <<queue, raised>>

Mark_Generated_Primitive_Complete(j) ==
  \/ Mark_Block_Complete(j)
  \/ \E success, finished \in BOOLEAN, sb \in SB_States :
       Mark_Step_Complete(j, success, finished, sb)

-----------------------------------------------------------------------------
Init == Initialized_Object

Pool ==
  \/ Execute
  \/ \E j \in Pool_Index : Drop_Generated_Primitive(j)
  \/ \E j \in Pool_Index : Mark_Generated_Primitive_Complete(j)

Next ==
  \/ ~raised /\ Client_Submits
  \/ ~raised /\ Drop_Completed_Request
  \/ ~raised /\ Pool

Spec == Init /\ [][Next]_vars

-----------------------------------------------------------------------------
(***************************************************************************)
(* Correctness.                                                            *)
(***************************************************************************)
(* The queue holds exactly the jobs that still have to be answered, each   *)
(* of them once.  A job missing from it would never be answered, and an    *)
(* index left in it would block the jobs behind it for ever.               *)
QueueHoldsActive ==
  /\ \A i, k \in 1 .. Len(queue) : queue[i] = queue[k] => i = k
  /\ {queue[i] : i \in 1 .. Len(queue)} = Pool_Index \ InState({"Invalid", "Complete"})

(* Requests are worked on one at a time: only the job at the head has a    *)
(* primitive under way, no matter how jobs were moved in the queue, and    *)
(* behind it there is at most one unfinished rekeying or extension, which  *)
(* waits between two of its steps.                                         *)
OneAtATime ==
  /\ \A j \in Pool_Index :
       NotHead(j) => jobs[j].state \in {"Invalid", "Complete", "Submitted", "Pending",
                                       "Prepone_Requests_Pending"}
  /\ \A j, k \in InState({"Prepone_Requests_Pending"}) : j = k

(* Program_Error is never raised: a request that was accepted finds a free *)
(* job, an answer can be taken, and results reach the job they belong to.  *)
NoProgramError == ~raised

(* The jobs in the order in which their requests were submitted: the one   *)
(* that lets others pass came first.                                       *)
Started == {i \in 1 .. Len(queue) :
              /\ jobs[queue[i]].req.op \in Long
              /\ jobs[queue[i]].state \notin {"Submitted", "Submitted_Resume_Rekeying"}}

Order == IF Started = {}
           THEN queue
           ELSE LET i == CHOOSE i \in Started : TRUE
                IN  <<queue[i]>> \o SubSeq(queue, 1, i - 1) \o SubSeq(queue, i + 1, Len(queue))

Q == INSTANCE RequestQueue WITH
       Requests <- Client_Requests \cup {Internal("Initialize")},
       waiting  <- [i \in 1 .. Len(queue) |-> jobs[Order[i]].req],
       answered <- {[request |-> jobs[j].req, success |-> jobs[j].success] :
                      j \in InState({"Complete"})}

(* Requests are answered in the order of their submission, but for those   *)
(* that may overtake a rekeying or an extension, and the answer tells      *)
(* whether every block of the request exists.                              *)
ImplementsRequestQueue == Q!Spec

(* Fairness: the front end calls Execute again and again, the other        *)
(* modules work on what they were given, clients take their answers, and a *)
(* rekeying or an extension takes finitely many steps.                     *)
Fairness ==
  /\ WF_vars(~raised /\ Execute)
  /\ WF_vars(~raised /\ \E j \in Pool_Index : Drop_Generated_Primitive(j))
  /\ WF_vars(~raised /\ \E j \in Pool_Index : Mark_Generated_Primitive_Complete(j))
  /\ WF_vars(~raised /\ Drop_Completed_Request)
  /\ SF_vars(~raised /\ \E j \in Pool_Index, sb \in SB_States :
                jobs[j].req.op \in Long /\ Mark_Step_Complete(j, TRUE, TRUE, sb))

FairSpec == Spec /\ Fairness

(* Every request is answered, even if clients keep submitting others: the  *)
(* requests that are preponed do not keep a rekeying from its next step,   *)
(* nor does the rekeying keep them from being served.                      *)
RequestsServed ==
  \A j \in Pool_Index :
    jobs[j].state \notin {"Invalid", "Complete"} ~> jobs[j].state \in {"Invalid", "Complete"}
=============================================================================
