------------------------------- MODULE Tester -------------------------------
(***************************************************************************)
(* The component cbe_tester (classes Block_session_component and Main): it *)
(* works off a list of tests, one at a time.  A test is a request to the   *)
(* CBE library or a run of the initializer, the checker or the dumper; all *)
(* of them share one block device, with one packet outstanding at a time.  *)
(* A signal of the device runs _execute, which goes through its handlers   *)
(* in passes, until a pass makes no progress; pc is the handler it has     *)
(* come to.                                                                *)
(*                                                                         *)
(* The libraries are modelled as far as the tester sees them: a request    *)
(* takes some steps, before each of which the library may ask for I/O, for *)
(* data of the client, or for encryption.  A constructed CBE library first *)
(* has its own initialization to do.  I/O does not fail.  Which snapshots  *)
(* the device has, and under which generation, is the matter of            *)
(* SuperblockControl: the tester only keeps the generation that a creation *)
(* has answered, for the discarding, which may succeed or not.             *)
(***************************************************************************)
EXTENDS Naturals, FiniteSets, Sequences, Bags

CONSTANTS
  Test_Lists,    \* the lists of tests that the configuration may have
  Nr_Of_Steps    \* bound: steps of a library before a request is complete

Tools == {"CBE_INIT", "CBE_CHECK", "CBE_DUMP"}

In_Replay == {"REQUEST", "CREATE_SNAPSHOT", "DISCARD_SNAPSHOT", "REKEY", "DEINITIALIZE",
              "EXTEND_VBD", "EXTEND_FT", "LIST_SNAPSHOTS"}

Test == [type : In_Replay \cup {"INITIALIZE", "CHECK", "DUMP"}, id : Nat]

ASSUME TesterAssumption ==
  /\ \A l \in Test_Lists : l \in Seq(Test)
  /\ Nr_Of_Steps \in Nat

VARIABLES
  tests,         \* _test_queue
  in_progress,   \* _test_in_progress
  failed,        \* _nr_of_failed_tests
  created,       \* _created_snapshots: a bag of their IDs
  exited,        \* what the parent has been told
  state,         \* _state
  flags,         \* which of _creating_snapshot, _discard_snapshot, _rekey, ... are set
  constructed,   \* whether _cbe is
  libs,          \* the jobs of each library and the state of its Block_IO
  blk_req,       \* the library whose request _blk_req is, if valid
  packet,        \* the packet of _blk: none, queued, submitted, or acknowledged
  signal,        \* the signal of the device is pending
  pc, progress,  \* the run of _execute
  error,         \* an exception or Program_Error has been raised
  failures       \* how many tests have failed, whether counted or not

session == <<tests, in_progress, failed, created, exited, failures>>
main    == <<state, flags, constructed, blk_req, error>>
device  == <<packet, signal>>
vars    == <<session, main, libs, device, pc, progress>>

Nobody  == "nobody"
No_Test == [type |-> "INVALID", id |-> 0]
No_Jobs == [jobs |-> <<>>, io |-> "none"]

Job(op) == [op |-> op, need |-> "run", left |-> Nr_Of_Steps, success |-> FALSE]

Init ==
  /\ tests \in Test_Lists /\ in_progress = No_Test
  /\ failed = 0 /\ created = EmptyBag /\ exited = "none" /\ failures = 0
  /\ state = "INVALID" /\ flags = {} /\ constructed = FALSE
  /\ libs = [l \in Tools \cup {"CBE"} |-> No_Jobs]
  /\ blk_req = Nobody /\ packet = "none" /\ signal = FALSE
  /\ pc = "initialize" /\ progress = FALSE /\ error = "none"

-----------------------------------------------------------------------------
(***************************************************************************)
(* The libraries, seen through their interface.                            *)
(***************************************************************************)
Submit_Client_Request(l, job) ==
  libs' = [libs EXCEPT ![l].jobs = Append(@, job)]

(* What the job needs that is worked on, the first in the queue. *)
Need(l) == IF libs[l].jobs = <<>> THEN "nothing" ELSE Head(libs[l].jobs).need

Completed(l) == Need(l) = "complete"

Drop_Completed_Client_Request(l) == libs' = [libs EXCEPT ![l].jobs = Tail(@)]

Needs(l, op) ==
  {"io"} \cup (IF l = "CBE" THEN {"crypto"} ELSE {}) \cup (IF op = "REQUEST" THEN {"data"} ELSE {})

(* The requests that a library may answer without success. *)
May_Fail == {"REQUEST", "EXTEND_VBD", "EXTEND_FT", "DISCARD_SNAPSHOT"}

(* One step of that job. *)
Step(l) ==
  LET job == Head(libs[l].jobs) IN
  /\ Need(l) = "run"
  /\ \/ /\ job.left > 0
        /\ \E need \in Needs(l, job.op) :
             libs' = [libs EXCEPT ![l].jobs[1] = [job EXCEPT !.left = @ - 1, !.need = need],
                                  ![l].io = IF need = "io" THEN "generated" ELSE @]
        /\ UNCHANGED failures
     \/ /\ job.left = 0 /\ job.op = "INITIALIZE"
        /\ libs' = [libs EXCEPT ![l].jobs = Tail(@)]
        /\ UNCHANGED failures
     \/ /\ job.left = 0 /\ job.op # "INITIALIZE"
        /\ \E success \in BOOLEAN :
             /\ success \/ job.op \in May_Fail
             /\ libs' = [libs EXCEPT ![l].jobs[1] =
                           [job EXCEPT !.need = "complete", !.success = success]]
             /\ failures' = IF success THEN failures ELSE failures + 1

Execute(l) ==
  /\ pc = "execute"
  /\ \/ Step(l) /\ progress' = TRUE
     \/ /\ Need(l) # "run"
        /\ UNCHANGED <<libs, failures, progress>>
  /\ UNCHANGED <<tests, in_progress, failed, created, exited, main, device>>

(* The library gets what it needs. *)
Supply(l, need) ==
  \/ /\ Need(l) = need
     /\ libs' = [libs EXCEPT ![l].jobs[1].need = "run"]
     /\ progress' = TRUE
  \/ /\ Need(l) # need
     /\ UNCHANGED <<libs, progress>>

-----------------------------------------------------------------------------
(***************************************************************************)
(* The list of tests.                                                      *)
(***************************************************************************)
Head_Is(type) == in_progress = No_Test /\ tests # <<>> /\ Head(tests).type = type

cbe_request_next ==
  tests # <<>> /\ Head(tests).type \in In_Replay \ {"LIST_SNAPSHOTS"}

(* Mutant: the test in progress is not looked at. *)
Look_For_Test_At_Any_Time ==
  exited' = IF tests = <<>> THEN (IF failed > 0 THEN "-1" ELSE "0") ELSE exited

(* Every handler that looks for its type of test finds out that there is   *)
(* none left.                                                              *)
Look_For_Test ==
  exited' = IF in_progress = No_Test /\ tests = <<>>
              THEN (IF failed > 0 THEN "-1" ELSE "0") ELSE exited

Dequeue == in_progress' = Head(tests) /\ tests' = Tail(tests)

Found(type)     == Head_Is(type) /\ Dequeue /\ UNCHANGED exited
Not_Found(type) == ~Head_Is(type) /\ Look_For_Test /\ UNCHANGED <<tests, in_progress>>

Count(success) == failed' = IF success THEN failed ELSE failed + 1

(* The end of a test: a result, and the state in which main goes on. *)
Test_Done(success) == Count(success) /\ in_progress' = No_Test

Next_State == state' = IF cbe_request_next THEN "CBE" ELSE "INVALID"

Nothing_Done == UNCHANGED <<session, main, libs, device, progress>>

-----------------------------------------------------------------------------
(***************************************************************************)
(* The back end: a packet for the library at work, and its answer.         *)
(***************************************************************************)
Submit_Packet(l) ==
  /\ pc = "submit"
  /\ \/ /\ libs[l].io = "generated" /\ blk_req = Nobody
        /\ blk_req' = l /\ packet' = "queued"
        /\ libs' = [libs EXCEPT ![l].io = "in_progress"]
        /\ progress' = TRUE
     \/ /\ libs[l].io # "generated" \/ blk_req # Nobody
        /\ UNCHANGED <<blk_req, packet, libs, progress>>
  /\ UNCHANGED <<session, state, flags, constructed, error, signal>>

(* Block_IO raises Program_Error if it has no request in progress. *)
IO_Request_Completed(l) ==
  LET expected == libs[l].io = "in_progress" IN
  /\ error' = IF expected THEN error ELSE "Block_IO"
  /\ libs' = IF expected THEN [libs EXCEPT ![l].io = "none", ![l].jobs[1].need = "run"] ELSE libs

Acknowledge_Packet(l) ==
  /\ pc = "acknowledge"
  /\ \/ /\ packet = "acknowledged"
        /\ packet' = "none" /\ blk_req' = Nobody
        /\ IO_Request_Completed(l)
        /\ progress' = TRUE
     \/ /\ packet # "acknowledged"
        /\ UNCHANGED <<packet, blk_req, libs, error, progress>>
  /\ UNCHANGED <<session, state, flags, constructed, signal>>

-----------------------------------------------------------------------------
(***************************************************************************)
(* The initializer, the checker and the dumper.                            *)
(***************************************************************************)
With_Tool(at, type, op, l, next) ==
  /\ pc = at /\ pc' = next
  /\ \/ /\ state = "INVALID" /\ Found(type)
        /\ Submit_Client_Request(l, Job(op))
        /\ state' = l /\ progress' = TRUE
     \/ /\ IF state = "INVALID" THEN Not_Found(type)
                                ELSE UNCHANGED <<tests, in_progress, exited>>
        /\ UNCHANGED <<libs, state, progress>>
  /\ UNCHANGED <<failed, created, failures, flags, constructed, blk_req, error, device>>

With_Initialize == With_Tool("initialize", "INITIALIZE", "INITIALIZE_DEVICE", "CBE_INIT", "check")
With_Check      == With_Tool("check", "CHECK", "CHECK", "CBE_CHECK", "dump")
With_Dump       == With_Tool("dump", "DUMP", "DUMP", "CBE_DUMP", "switch")

(* Mutant: the library stays when a tool takes over. *)
Switch_Keeps_Library ==
  /\ pc = "switch"
  /\ IF state \in Tools THEN pc' = "execute" ELSE pc' = "requests"
  /\ constructed' = TRUE
  /\ libs' = IF constructed THEN libs
               ELSE [libs EXCEPT !["CBE"].jobs = <<Job("INITIALIZE")>>]
  /\ UNCHANGED <<session, state, flags, blk_req, error, device, progress>>

(* The tools do not run next to the CBE library. *)
Switch ==
  /\ pc = "switch"
  /\ IF state \in Tools THEN pc' = "execute" /\ constructed' = FALSE
                        ELSE pc' = "requests" /\ constructed' = TRUE
  /\ libs' = CASE state \in Tools -> [libs EXCEPT !["CBE"] = No_Jobs]
               [] state \notin Tools /\ constructed -> libs
               [] state \notin Tools /\ ~constructed ->
                    [libs EXCEPT !["CBE"].jobs = <<Job("INITIALIZE")>>]
  /\ UNCHANGED <<session, state, flags, blk_req, error, device, progress>>

(* Mutant: the device is not told of the packet. *)
Wakeup_Forgotten == UNCHANGED packet

Wakeup == packet' = IF packet = "queued" THEN "submitted" ELSE packet

(* The end of a pass: another one, or back to waiting for a signal, for    *)
(* which the device has to know of the packet.                             *)
End_Of_Pass ==
  IF progress
    THEN pc' = "initialize" /\ progress' = FALSE /\ UNCHANGED packet
    ELSE pc' = "idle" /\ Wakeup /\ UNCHANGED progress

Tool_Done(l) ==
  /\ pc = "final" /\ End_Of_Pass
  /\ \/ /\ blk_req = Nobody /\ Completed(l)
        /\ Drop_Completed_Client_Request(l)
        /\ Test_Done(Head(libs[l].jobs).success)
        /\ state' = "INVALID"
     \/ /\ blk_req # Nobody \/ ~Completed(l)
        /\ UNCHANGED <<libs, failed, in_progress, state>>
  /\ UNCHANGED <<tests, created, exited, failures, flags, constructed, blk_req, error, signal>>

Execute_Tool(l) ==
  /\ state = l
  /\ \/ Execute(l) /\ pc' = "submit"
     \/ Submit_Packet(l) /\ pc' = "acknowledge"
     \/ Acknowledge_Packet(l) /\ pc' = "final"
     \/ Tool_Done(l)

_execute_cbe_init  == Execute_Tool("CBE_INIT")
_execute_cbe_check == Execute_Tool("CBE_CHECK")
_execute_cbe_dump  == Execute_Tool("CBE_DUMP")
-----------------------------------------------------------------------------
(***************************************************************************)
(* The CBE library: a handler for each type of request, in their order.    *)
(***************************************************************************)
Start_Request(type) ==
  /\ Found(type)
  /\ Submit_Client_Request("CBE", Job(type))
  /\ progress' = TRUE
  /\ UNCHANGED <<failed, created, failures, constructed, blk_req, error, device>>

Start_With_Flag(type) ==
  /\ Start_Request(type)
  /\ flags' = flags \cup {type}
  /\ UNCHANGED state

Start_Nothing(type) ==
  /\ Not_Found(type)
  /\ UNCHANGED <<failed, created, failures, main, libs, device, progress>>

With_Requests ==
  /\ pc = "requests" /\ pc' = "acknowledge_request"
  /\ \/ Start_Request("REQUEST") /\ state' = "CBE" /\ UNCHANGED flags
     \/ Start_Nothing("REQUEST")

(* A request is done: the library drops it, the test ends, and the state   *)
(* goes by the next one.                                                   *)
Request_Done(f) ==
  /\ Drop_Completed_Client_Request("CBE")
  /\ Test_Done(Head(libs["CBE"].jobs).success)
  /\ flags' = f
  /\ Next_State
  /\ progress' = TRUE
  /\ UNCHANGED <<tests, exited, failures, constructed, blk_req, device>>

Try_Acknowledge ==
  /\ pc = "acknowledge_request" /\ pc' = "create_snapshot"
  /\ \/ /\ flags = {} /\ Completed("CBE")
        /\ Request_Done(flags)
        /\ UNCHANGED <<created, error>>
     \/ /\ flags # {} \/ ~Completed("CBE")
        /\ Nothing_Done

(* Mutant: the flag of the handler is not tested. *)
Done_By_Any(type) == Completed("CBE")

Done(type) == type \in flags /\ Completed("CBE")
Wait(type) == type \in flags /\ ~Completed("CBE") /\ Nothing_Done

(* Several snapshots may have the same ID: the search finds one of them.   *)
Is_Created(id) == BagIn(id, created)

(* The two handlers of snapshots ignore a request of another operation. *)
create_snapshot_done(success) ==
  created' = IF success THEN created (+) SetToBag({in_progress.id}) ELSE created

With_Create_Snapshot ==
  /\ pc = "create_snapshot" /\ pc' = "discard_snapshot"
  /\ \/ "CREATE_SNAPSHOT" \notin flags /\ Start_With_Flag("CREATE_SNAPSHOT")
     \/ "CREATE_SNAPSHOT" \notin flags /\ Start_Nothing("CREATE_SNAPSHOT")
     \/ Wait("CREATE_SNAPSHOT")
     \/ /\ Done("CREATE_SNAPSHOT") /\ Head(libs["CBE"].jobs).op = "CREATE_SNAPSHOT"
        /\ create_snapshot_done(Head(libs["CBE"].jobs).success)
        /\ Request_Done(flags \ {"CREATE_SNAPSHOT"})
        /\ UNCHANGED error

(* A snapshot that has not been created: the test is over at once. *)
Discard_Unknown_Snapshot ==
  /\ tests' = Tail(tests)
  /\ failed' = failed + 1 /\ failures' = failures + 1
  /\ UNCHANGED <<in_progress, created, exited, main, libs, device, progress>>

(* Of a snapshot that has been discarded the search must find one. *)
discard_snapshot_done(success) ==
  /\ created' = IF success THEN created (-) SetToBag({in_progress.id}) ELSE created
  /\ error' = IF success /\ ~Is_Created(in_progress.id)
                THEN "Failed_to_find_created_snapshot" ELSE error

With_Discard_Snapshot ==
  /\ pc = "discard_snapshot" /\ pc' = "deinitialize"
  /\ \/ /\ "DISCARD_SNAPSHOT" \notin flags /\ Head_Is("DISCARD_SNAPSHOT")
        /\ \/ Is_Created(Head(tests).id) /\ Start_With_Flag("DISCARD_SNAPSHOT")
           \/ ~Is_Created(Head(tests).id) /\ Discard_Unknown_Snapshot
     \/ "DISCARD_SNAPSHOT" \notin flags /\ Start_Nothing("DISCARD_SNAPSHOT")
     \/ Wait("DISCARD_SNAPSHOT")
     \/ /\ Done("DISCARD_SNAPSHOT") /\ Head(libs["CBE"].jobs).op = "DISCARD_SNAPSHOT"
        /\ discard_snapshot_done(Head(libs["CBE"].jobs).success)
        /\ Request_Done(flags \ {"DISCARD_SNAPSHOT"})

(* The other handlers throw if the request that is done is not theirs. *)
Expect(type) == error' = IF Head(libs["CBE"].jobs).op = type THEN error ELSE "Unexpected_request"

With_Flag(at, type, next) ==
  /\ pc = at /\ pc' = next
  /\ \/ type \notin flags /\ Start_With_Flag(type)
     \/ type \notin flags /\ Start_Nothing(type)
     \/ Wait(type)
     \/ Done(type) /\ Expect(type) /\ Request_Done(flags \ {type}) /\ UNCHANGED created

With_Deinitialize == With_Flag("deinitialize", "DEINITIALIZE", "list_snapshots")
With_Rekey        == With_Flag("rekey", "REKEY", "extend_vbd")
With_Extend_Vbd   == With_Flag("extend_vbd", "EXTEND_VBD", "extend_ft")
With_Extend_Ft    == With_Flag("extend_ft", "EXTEND_FT", "execute")

(* The snapshots are listed at once, and the test is over. *)
With_List_Snapshots ==
  /\ pc = "list_snapshots" /\ pc' = "rekey"
  /\ \/ /\ Head_Is("LIST_SNAPSHOTS")
        /\ tests' = Tail(tests)
        /\ UNCHANGED <<in_progress, failed, created, exited, failures, main, libs, device,
                       progress>>
     \/ Start_Nothing("LIST_SNAPSHOTS")

Client_Data ==
  /\ pc = "client_data" /\ pc' = "submit"
  /\ Supply("CBE", "data")
  /\ UNCHANGED <<session, main, device>>

Crypto ==
  /\ pc = "crypto" /\ pc' = "final"
  /\ Supply("CBE", "crypto")
  /\ UNCHANGED <<session, main, device>>

Final ==
  /\ pc = "final" /\ End_Of_Pass
  /\ IF blk_req = Nobody THEN Next_State ELSE UNCHANGED state
  /\ UNCHANGED <<session, flags, constructed, blk_req, error, libs, signal>>

_execute_cbe ==
  /\ state \notin Tools
  /\ \/ With_Requests \/ Try_Acknowledge
     \/ With_Create_Snapshot \/ With_Discard_Snapshot \/ With_Deinitialize
     \/ With_List_Snapshots \/ With_Rekey \/ With_Extend_Vbd \/ With_Extend_Ft
     \/ Execute("CBE") /\ pc' = "client_data"
     \/ Client_Data
     \/ Submit_Packet("CBE") /\ pc' = "acknowledge"
     \/ Acknowledge_Packet("CBE") /\ pc' = "crypto"
     \/ Crypto
     \/ Final

-----------------------------------------------------------------------------
_execute ==
  \/ With_Initialize \/ With_Check \/ With_Dump \/ Switch
  \/ _execute_cbe \/ _execute_cbe_init \/ _execute_cbe_check \/ _execute_cbe_dump

Request_Handler ==
  /\ pc = "idle" /\ signal
  /\ signal' = FALSE
  /\ pc' = "initialize" /\ progress' = FALSE
  /\ UNCHANGED <<session, main, libs, packet>>

(* The driver may find the packet before it is woken. *)
Device_Answers ==
  /\ packet \in {"queued", "submitted"}
  /\ packet' = "acknowledged" /\ signal' = TRUE
  /\ UNCHANGED <<session, main, libs, pc, progress>>

Next == error = "none" /\ (_execute \/ Request_Handler \/ Device_Answers)

Spec == Init /\ [][Next]_vars

(* The entry point runs, and the driver answers what it has been told of.  *)
FairSpec ==
  /\ Spec
  /\ WF_vars(error = "none" /\ (_execute \/ Request_Handler))
  /\ WF_vars(error = "none" /\ packet = "submitted" /\ Device_Answers)
-----------------------------------------------------------------------------
Job_Type ==
  [op : In_Replay \cup {"INITIALIZE", "INITIALIZE_DEVICE", "CHECK", "DUMP"},
   need : {"run", "io", "data", "crypto", "complete"}, left : 0 .. Nr_Of_Steps,
   success : BOOLEAN]

(* The handlers' flags are set for the test in progress only.              *)
TypeOK ==
  /\ tests \in Seq(Test) /\ in_progress \in Test \cup {No_Test}
  /\ failed \in Nat /\ exited \in {"none", "0", "-1"}
  /\ IsABag(created) /\ BagToSet(created) \subseteq Nat
  /\ state \in {"INVALID", "CBE"} \cup Tools
  /\ flags \subseteq {in_progress.type}
  /\ constructed \in BOOLEAN /\ progress \in BOOLEAN /\ signal \in BOOLEAN
  /\ \A l \in DOMAIN libs : /\ \A i \in DOMAIN libs[l].jobs : libs[l].jobs[i] \in Job_Type
                            /\ libs[l].io \in {"none", "generated", "in_progress"}
  /\ blk_req \in DOMAIN libs \cup {Nobody}
  /\ packet \in {"none", "queued", "submitted", "acknowledged"}
  /\ failures \in Nat

(* No handler meets the request of another one, no library is given the    *)
(* answer of the device to a request of another one, and a snapshot that   *)
(* has been discarded is still in the list of those created.               *)
NoProgramError == error = "none"

(* The device has one user: no library works on it while another one does, *)
(* and the CBE library does not outlive the run of a tool, after which the *)
(* superblock that it has read would be out of date.                       *)
ExclusiveDevice ==
  /\ \A l, k \in DOMAIN libs : libs[l].jobs # <<>> /\ libs[k].jobs # <<>> => l = k
  /\ blk_req # Nobody => libs[blk_req].io = "in_progress"
  /\ state \in Tools /\ pc \in {"execute", "submit", "acknowledge", "final"} => ~constructed

(* The parent is told once all tests are over, and told of a failure if    *)
(* there was one, in the library or in the tester: the discarding of a     *)
(* snapshot that was not created is one, against what                      *)
(* run/cbe_tester-full_override.run expects (see FullOverridePasses).      *)
ExitTruthful ==
  exited # "none" =>
    /\ tests = <<>> /\ in_progress = No_Test
    /\ exited = (IF failures > 0 THEN "-1" ELSE "0")

(* A list of tests comes to its end, and the parent is told, if each test  *)
(* that ends in the handler that starts it comes behind a request or the   *)
(* creation of a snapshot; behind another one the tester waits for a       *)
(* signal that does not come.                                              *)
TestsEnd == <>(exited # "none")
=============================================================================
