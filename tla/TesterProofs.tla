----------------------------- MODULE TesterProofs -----------------------------
(***************************************************************************)
(* Proofs about module Tester.  The types, and what the parent is told,    *)
(* are proved for all lists of tests; that no error is raised, and that    *)
(* the device has one user, for the lists in which no test that may end at *)
(* once is first or directly behind one of a tool (After_Requests): behind *)
(* such a test the CBE library is constructed already, and a tool may be   *)
(* next.                                                                   *)
(***************************************************************************)
EXTENDS Tester, SequenceTheorems, TLAPS

Libs == Tools \cup {"CBE"}

(* The tests that the CBE library works on for a while. *)
Requests == In_Replay \ {"LIST_SNAPSHOTS"}

(* The tests that a tool works on: which tool, and by which operation.     *)
Of_Tool == {"INITIALIZE", "CHECK", "DUMP"}

Tool(type) == CASE type = "INITIALIZE" -> "CBE_INIT"
                [] type = "CHECK" -> "CBE_CHECK"
                [] type = "DUMP" -> "CBE_DUMP"

Op(type) == IF type = "INITIALIZE" THEN "INITIALIZE_DEVICE" ELSE type

Jobs(l) == libs[l].jobs

(* A job, which has failed only if it is one that may.                     *)
Known_Job ==
  {job \in Job_Type : job.need = "complete" => job.success \/ job.op \in May_Fail}

Running == in_progress.type

(* The types, but those of the libraries and of the flags.                 *)
TypesOther ==
  /\ tests \in Seq(Test) /\ in_progress \in Test \cup {No_Test}
  /\ failed \in Nat /\ failures \in Nat
  /\ exited \in {"none", "0", "-1"}
  /\ IsABag(created) /\ BagToSet(created) \subseteq Nat
  /\ state \in {"INVALID", "CBE"} \cup Tools
  /\ constructed \in BOOLEAN /\ progress \in BOOLEAN /\ signal \in BOOLEAN
  /\ blk_req \in Libs \cup {Nobody}
  /\ packet \in {"none", "queued", "submitted", "acknowledged"}

LibsType ==
  libs \in [Libs -> [jobs : Seq(Known_Job), io : {"none", "generated", "in_progress"}]]

(* A tool has the job of the test in progress, if it is one for it.        *)
ToolsJobs ==
  \A l \in Tools :
    /\ Len(Jobs(l)) = IF Running \in Of_Tool /\ l = Tool(Running) THEN 1 ELSE 0
    /\ Jobs(l) # <<>> => Head(Jobs(l)).op = Op(Running)

(* The state of main says which tool is at work, if one is.                *)
StateOfTool ==
  IF Running \in Of_Tool THEN state = Tool(Running) ELSE state \notin Tools

(* The CBE library has its initialization, and the test in progress behind *)
(* it, if it is one for it.                                                *)
LibraryJobs ==
  LET jobs == Jobs("CBE") IN
  /\ Running # "LIST_SNAPSHOTS"
  /\ Len(jobs) <= IF Running \in Requests THEN 2 ELSE 1
  /\ Running \in Requests =>
       /\ jobs # <<>> /\ jobs[Len(jobs)].op = Running
       /\ Len(jobs) = 2 => jobs[2].need = "run"
  /\ jobs # <<>> /\ (Running \in Requests => Len(jobs) = 2) =>
       /\ jobs[1].op = "INITIALIZE" /\ jobs[1].need # "complete"

(* Each type of test has its flag, but the requests for blocks.            *)
FlagsOfTest ==
  flags = IF Running \in Requests \ {"REQUEST"} THEN {Running} ELSE {}

(* There is I/O only for the first job of a library.                       *)
IoOfJob ==
  \A l \in Libs : libs[l].io # "none" => Jobs(l) # <<>> /\ Head(Jobs(l)).need = "io"

(* A library that is not constructed has no jobs.                          *)
LibraryGone ==
  /\ ~constructed => libs["CBE"] = No_Jobs
  /\ state = "CBE" => constructed

(* The handlers of the library, and of the tools, have a state to them.    *)
Handlers ==
  /\ pc \notin {"initialize", "check", "dump", "switch", "idle"} =>
       (constructed <=> state \notin Tools)
  /\ pc \notin {"initialize", "check", "dump", "switch", "idle", "execute", "submit",
                "acknowledge", "final"} => state \notin Tools

(* A test that has failed is counted when its library drops it.            *)
HasFailed(l) == Completed(l) /\ ~Head(Jobs(l)).success

Counted == failures = failed + IF \E l \in Libs : HasFailed(l) THEN 1 ELSE 0

(* A snapshot that is being discarded is one of those created.             *)
DiscardKnown == Running = "DISCARD_SNAPSHOT" => Is_Created(in_progress.id)

(* The inductive invariant, for all lists of tests.                        *)
IInv ==
  /\ TypesOther
  /\ LibsType
  /\ ToolsJobs
  /\ StateOfTool
  /\ LibraryJobs
  /\ FlagsOfTest
  /\ IoOfJob
  /\ LibraryGone
  /\ Handlers
  /\ Counted
  /\ DiscardKnown
  /\ ExitTruthful

-----------------------------------------------------------------------------
(* Tests that may end in the handler that starts them: a list of snapshots, *)
(* and to discard a snapshot that is not there.                            *)
Unknown_Before(l, i) ==
  \/ \A k \in 1 .. i - 1 : l[k] # [type |-> "CREATE_SNAPSHOT", id |-> l[i].id]
  \/ \E k \in 1 .. i - 1 : l[k] = l[i]

May_End_At_Once(l, i) ==
  \/ l[i].type = "LIST_SNAPSHOTS"
  \/ l[i].type = "DISCARD_SNAPSHOT" /\ Unknown_Before(l, i)

(* The assumption: such a test is behind one that the CBE library works on, *)
(* or behind another such test that is.                                    *)
After_Requests ==
  \A l \in Test_Lists : \A i \in DOMAIN l :
    May_End_At_Once(l, i) => i > 1 /\ l[i - 1].type \notin Of_Tool

(* At the beginning, and behind the test of a tool, there is no library.   *)
Begun(l, n) == n = 0 \/ l[n].type \in Of_Tool

(* The snapshots of the tests that are over, and of which no test has      *)
(* asked to be discarded, are created.                                     *)
Accounted(l, n) ==
  \A k \in 1 .. n :
    /\ l[k].type = "CREATE_SNAPSHOT"
    /\ \A i \in 1 .. n : l[i] # [type |-> "DISCARD_SNAPSHOT", id |-> l[k].id]
    => \/ Is_Created(l[k].id)
       \/ Running = "CREATE_SNAPSHOT" /\ in_progress.id = l[k].id

(* The first n tests of the list have been begun.                          *)
Position(l, n) ==
  /\ tests = SubSeq(l, n + 1, Len(l))
  /\ in_progress # No_Test => n > 0 /\ in_progress = l[n]
  /\ Accounted(l, n)
  /\ ~constructed => Begun(l, n)
  /\ in_progress = No_Test /\ Jobs("CBE") # <<>> => Begun(l, n)

Placed == \E l \in Test_Lists : \E n \in 0 .. Len(l) : Position(l, n)

(* Before it switches to the library, it has looked for the tests of tools. *)
Looked ==
  in_progress = No_Test /\ state = "INVALID" /\ tests # <<>> =>
    /\ pc \in {"check", "dump", "switch"} => Head(tests).type # "INITIALIZE"
    /\ pc \in {"dump", "switch"} => Head(tests).type # "CHECK"
    /\ pc = "switch" => Head(tests).type # "DUMP"

(* A library that is about to initialize itself has a test to do then.     *)
NoToolNext ==
  in_progress = No_Test /\ Jobs("CBE") # <<>> /\ tests # <<>> => Head(tests).type \notin Of_Tool

(* The library has nothing to do while a tool has.                         *)
OneUser == Running \in Of_Tool => Jobs("CBE") = <<>>

(* The packet is that of the one request which is in progress.             *)
Packets ==
  /\ \A l \in Libs : libs[l].io = "in_progress" <=> blk_req = l
  /\ blk_req = Nobody <=> packet = "none"

ListInv == Placed /\ Looked /\ NoToolNext /\ OneUser

DeviceInv == Packets /\ error = "none"

-----------------------------------------------------------------------------
(***************************************************************************)
(* The jobs of the libraries.                                              *)
(***************************************************************************)
Io == {"none", "generated", "in_progress"}

(* The libraries and the types of tests are different.                     *)
LEMMA Names ==
  /\ Tools \subseteq Libs /\ "CBE" \in Libs /\ "CBE" \notin Tools /\ Nobody \notin Libs
  /\ \A type \in Of_Tool : Tool(type) \in Tools
  /\ \A l \in Libs : l \in Tools \/ l = "CBE"
  /\ Of_Tool \cap In_Replay = {} /\ No_Test.type \notin Of_Tool \cup In_Replay
  /\ No_Test \notin Test
BY DEF Tools, Libs, Nobody, Of_Tool, Tool, In_Replay, No_Test, Test

(* What a queue of jobs consists of.                                       *)
LEMMA JobsAre ==
  ASSUME NEW s \in Seq(Known_Job)
  PROVE  /\ Len(s) \in Nat
         /\ s = <<>> <=> Len(s) = 0
         /\ s # <<>> => Head(s) = s[1] /\ s[1] \in Known_Job
         /\ \A i \in 1 .. Len(s) : s[i] \in Known_Job
         /\ \A i \in DOMAIN s : s[i] \in Known_Job
         /\ s # <<>> => s[Len(s)] \in Known_Job
<1>1. Len(s) \in Nat /\ DOMAIN s = 1 .. Len(s)
  BY LenProperties
<1>2. s # <<>> => Len(s) > 0
  BY EmptySeq
<1>3. \A i \in 1 .. Len(s) : s[i] \in Known_Job
  BY ElementOfSeq
<1> QED BY <1>1, <1>2, <1>3

(* A sequence of jobs of which the first one is at another point now.      *)
LEMMA FirstReplaced ==
  ASSUME NEW s \in Seq(Known_Job), s # <<>>, NEW j \in Known_Job
  PROVE  LET t == [s EXCEPT ![1] = j] IN
         /\ t \in Seq(Known_Job) /\ Len(t) = Len(s) /\ t # <<>>
         /\ t[1] = j /\ Head(t) = j
         /\ \A i \in 2 .. Len(s) : t[i] = s[i]
<1>1. Len(s) \in Nat /\ 1 \in 1 .. Len(s)
  BY JobsAre
<1> DEFINE t == [s EXCEPT ![1] = j]
<1>2. t \in Seq(Known_Job) /\ Len(t) = Len(s)
      /\ \A i \in 1 .. Len(s) : t[i] = IF i = 1 THEN j ELSE s[i]
  BY <1>1, ExceptSeq
<1> HIDE DEF t
<1>3. t # <<>> /\ Head(t) = t[1]
  BY <1>1, <1>2, JobsAre
<1>4. t[1] = j /\ \A i \in 2 .. Len(s) : t[i] = s[i]
  BY <1>1, <1>2
<1>5. t \in Seq(Known_Job) /\ Len(t) = Len(s) /\ t # <<>> /\ t[1] = j /\ Head(t) = j
      /\ \A i \in 2 .. Len(s) : t[i] = s[i]
  BY <1>2, <1>3, <1>4
<1> QED BY <1>5 DEF t

(* A queue without its first job.                                          *)
LEMMA FirstDropped ==
  ASSUME NEW s \in Seq(Known_Job), s # <<>>
  PROVE  /\ Tail(s) \in Seq(Known_Job) /\ Len(Tail(s)) = Len(s) - 1
         /\ \A i \in 1 .. Len(s) - 1 : Tail(s)[i] = s[i + 1]
BY HeadTailProperties

(* A queue with one more job.                                              *)
LEMMA LastAdded ==
  ASSUME NEW s \in Seq(Known_Job), NEW j \in Known_Job
  PROVE  LET t == Append(s, j) IN
         /\ t \in Seq(Known_Job) /\ Len(t) = Len(s) + 1 /\ t # <<>>
         /\ t[Len(s) + 1] = j
         /\ \A i \in 1 .. Len(s) : t[i] = s[i]
<1> DEFINE t == Append(s, j)
<1>1. t \in Seq(Known_Job) /\ Len(t) = Len(s) + 1 /\ t[Len(s) + 1] = j
      /\ \A i \in 1 .. Len(s) : t[i] = s[i]
  BY JobsAre
<1>2. t # <<>>
  <2> HIDE DEF t
  <2>1. Len(s) + 1 # 0
    BY JobsAre
  <2> QED BY <1>1, <2>1, JobsAre
<1> QED BY <1>1, <1>2

(* What becomes of the libraries when the one has other jobs.              *)
With(l, jobs, io) == [libs EXCEPT ![l] = [jobs |-> jobs, io |-> io]]

(* The libraries, when one of them has other jobs.                         *)
LEMMA WithIs ==
  ASSUME LibsType, NEW l \in Libs, NEW jobs \in Seq(Known_Job), NEW io \in Io
  PROVE  /\ With(l, jobs, io) \in [Libs -> [jobs : Seq(Known_Job), io : Io]]
         /\ With(l, jobs, io)[l].jobs = jobs /\ With(l, jobs, io)[l].io = io
         /\ \A k \in Libs : k # l => With(l, jobs, io)[k] = libs[k]
BY DEF LibsType, With, Io

(* The state of a library consists of its jobs and its I/O.                *)
LEMMA LibsAre ==
  ASSUME LibsType, NEW l \in Libs
  PROVE  /\ Jobs(l) \in Seq(Known_Job) /\ libs[l].io \in Io
         /\ libs[l] = [jobs |-> Jobs(l), io |-> libs[l].io]
BY DEF LibsType, Jobs, Io

(* The same, in the terms of the record.                                   *)
LEMMA RecordOf ==
  ASSUME LibsType, NEW l \in Libs
  PROVE  /\ libs[l] = [jobs |-> Jobs(l), io |-> libs[l].io] /\ libs[l].jobs = Jobs(l)
         /\ Jobs(l) \in Seq(Known_Job) /\ DOMAIN libs = Libs
BY LibsAre DEF Jobs, LibsType

(* The updates of the libraries that the actions write, as With.           *)
LEMMA JobsForm ==
  ASSUME LibsType, NEW l \in Libs, NEW x, libs' = [libs EXCEPT ![l].jobs = x]
  PROVE  libs' = With(l, x, libs[l].io)
<1> DEFINE r == libs[l]
<1>0. r = [jobs |-> Jobs(l), io |-> r.io] /\ r.jobs = Jobs(l) /\ Jobs(l) \in Seq(Known_Job)
  BY RecordOf
<1>1. [r EXCEPT !.jobs = x] = [jobs |-> x, io |-> r.io]
  <2> HIDE DEF r
  <2> QED BY <1>0
<1> QED BY <1>1 DEF With

(* One that changes the I/O only.                                          *)
LEMMA IoForm ==
  ASSUME LibsType, NEW l \in Libs, NEW y, libs' = [libs EXCEPT ![l].io = y]
  PROVE  libs' = With(l, Jobs(l), y)
<1> DEFINE r == libs[l]
<1>0. r = [jobs |-> Jobs(l), io |-> r.io] /\ r.jobs = Jobs(l) /\ Jobs(l) \in Seq(Known_Job)
  BY RecordOf
<1>1. [r EXCEPT !.io = y] = [jobs |-> Jobs(l), io |-> y]
  <2> HIDE DEF r
  <2> QED BY <1>0
<1> QED BY <1>1 DEF With

(* One that changes the first job only.                                    *)
LEMMA FirstForm ==
  ASSUME LibsType, NEW l \in Libs, NEW x, libs' = [libs EXCEPT ![l].jobs[1] = x]
  PROVE  libs' = With(l, [Jobs(l) EXCEPT ![1] = x], libs[l].io)
<1> DEFINE r == libs[l]
<1>0. r = [jobs |-> Jobs(l), io |-> r.io] /\ r.jobs = Jobs(l) /\ Jobs(l) \in Seq(Known_Job)
  BY RecordOf
<1>1. [r EXCEPT !.jobs[1] = x] = [jobs |-> [Jobs(l) EXCEPT ![1] = x], io |-> r.io]
  <2> HIDE DEF r
  <2> QED BY <1>0
<1> QED BY <1>1 DEF With

(* The libraries after a step that needs I/O.                              *)
Both(l, x, y) == [libs EXCEPT ![l].jobs[1] = x, ![l].io = y]

(* One that changes the first job and the I/O.                             *)
LEMMA FirstAndIoForm ==
  ASSUME LibsType, NEW l \in Libs, NEW x, NEW y, libs' = Both(l, x, y)
  PROVE  libs' = With(l, [Jobs(l) EXCEPT ![1] = x], y)
<1> DEFINE r == libs[l]
           a == [Jobs(l) EXCEPT ![1] = x]
<1>0. r = [jobs |-> Jobs(l), io |-> r.io] /\ r.jobs = Jobs(l) /\ Jobs(l) \in Seq(Known_Job)
  BY RecordOf
<1>1. [r EXCEPT !.jobs[1] = x] = [jobs |-> a, io |-> r.io]
  <2> HIDE DEF r
  <2> QED BY <1>0
<1>2. [[r EXCEPT !.jobs[1] = x] EXCEPT !.io = y] = [[jobs |-> a, io |-> r.io] EXCEPT !.io = y]
  BY <1>1
<1>3. [[jobs |-> a, io |-> r.io] EXCEPT !.io = y] = [jobs |-> a, io |-> y]
  <2> HIDE DEF a
  <2> QED OBVIOUS
<1>4. [r EXCEPT !.jobs[1] = x, !.io = y] = [[r EXCEPT !.jobs[1] = x] EXCEPT !.io = y]
  <2> HIDE DEF r
  <2> QED OBVIOUS
<1>5. [r EXCEPT !.jobs[1] = x, !.io = y] = [jobs |-> a, io |-> y]
  BY <1>2, <1>3, <1>4
<1> QED BY <1>5, RecordOf DEF With, Both

(* One by which the first job goes on.                                     *)
LEMMA RunForm ==
  ASSUME LibsType, NEW l \in Libs, libs' = [libs EXCEPT ![l].jobs[1].need = "run"]
  PROVE  libs' = With(l, [Jobs(l) EXCEPT ![1] = [Jobs(l)[1] EXCEPT !.need = "run"]], libs[l].io)
<1> DEFINE r == libs[l]
<1>0. r = [jobs |-> Jobs(l), io |-> r.io] /\ r.jobs = Jobs(l) /\ Jobs(l) \in Seq(Known_Job)
  BY RecordOf
<1> DEFINE b == [Jobs(l) EXCEPT ![1] = [Jobs(l)[1] EXCEPT !.need = "run"]]
           i == r.io
<1>1. [[jobs |-> Jobs(l), io |-> i] EXCEPT !.jobs[1].need = "run"] = [jobs |-> b, io |-> i]
  <2> HIDE DEF i
  <2> QED OBVIOUS
<1>2. [r EXCEPT !.jobs[1].need = "run"] =
        [[jobs |-> Jobs(l), io |-> i] EXCEPT !.jobs[1].need = "run"]
  BY <1>0
<1>3. [r EXCEPT !.jobs[1].need = "run"] = [jobs |-> b, io |-> r.io]
  BY <1>1, <1>2
<1> QED BY <1>3 DEF With

(* One by which the first job gets the answer of the device.               *)
LEMMA AnswerForm ==
  ASSUME LibsType, NEW l \in Libs,
         libs' = [libs EXCEPT ![l].io = "none", ![l].jobs[1].need = "run"]
  PROVE  libs' = With(l, [Jobs(l) EXCEPT ![1] = [Jobs(l)[1] EXCEPT !.need = "run"]], "none")
<1> DEFINE r == libs[l]
           b == [Jobs(l) EXCEPT ![1] = [Jobs(l)[1] EXCEPT !.need = "run"]]
<1>0. r = [jobs |-> Jobs(l), io |-> r.io] /\ r.jobs = Jobs(l) /\ Jobs(l) \in Seq(Known_Job)
  BY RecordOf
<1>1. [r EXCEPT !.io = "none"] = [jobs |-> Jobs(l), io |-> "none"]
  <2> HIDE DEF r
  <2> QED BY <1>0
<1>2. [[r EXCEPT !.io = "none"] EXCEPT !.jobs[1].need = "run"] =
        [[jobs |-> Jobs(l), io |-> "none"] EXCEPT !.jobs[1].need = "run"]
  BY <1>1
<1>3. [[jobs |-> Jobs(l), io |-> "none"] EXCEPT !.jobs[1].need = "run"] =
        [jobs |-> b, io |-> "none"]
  OBVIOUS
<1>4. [r EXCEPT !.io = "none", !.jobs[1].need = "run"] =
        [[r EXCEPT !.io = "none"] EXCEPT !.jobs[1].need = "run"]
  <2> HIDE DEF r
  <2> QED OBVIOUS
<1>5. [r EXCEPT !.io = "none", !.jobs[1].need = "run"] = [jobs |-> b, io |-> "none"]
  BY <1>2, <1>3, <1>4
<1> QED BY <1>5, RecordOf DEF With

(* What the libraries are after such an update.                            *)
LEMMA Becomes ==
  ASSUME LibsType, NEW l \in Libs, NEW jobs \in Seq(Known_Job), NEW io \in Io,
         libs' = With(l, jobs, io)
  PROVE  /\ LibsType'
         /\ Jobs(l)' = jobs /\ libs'[l].io = io
         /\ \A k \in Libs : k # l => libs'[k] = libs[k] /\ Jobs(k)' = Jobs(k)
<1> DEFINE w == With(l, jobs, io)
<1>1. /\ w \in [Libs -> [jobs : Seq(Known_Job), io : Io]]
      /\ w[l].jobs = jobs /\ w[l].io = io
      /\ \A k \in Libs : k # l => w[k] = libs[k]
  BY WithIs
<1>2. libs' = w
  OBVIOUS
<1> HIDE DEF w
<1> QED BY <1>1, <1>2 DEF Jobs, LibsType, Io

(* The lengths of the queues of the tools.                                 *)
LEMMA ZeroOrOne == \A n \in Nat : n <= 1 => n = 0 \/ n = 1
OBVIOUS

(* The lengths of the queue of the CBE library.                            *)
LEMMA OneOrTwo == \A n \in Nat : n <= 2 /\ n > 0 => n = 1 \/ n = 2
OBVIOUS

(* The library at work goes on with its first job.                         *)
LEMMA WorkedStructure ==
  ASSUME LibsType, ToolsJobs, LibraryJobs, IoOfJob, LibraryGone, StateOfTool,
         NEW l \in Libs, Jobs(l) # <<>>,
         NEW j \in Known_Job, j.op = Head(Jobs(l)).op,
         NEW io \in Io, io # "none" => j.need = "io",
         l = "CBE" /\ j.op = "INITIALIZE" => j.need # "complete",
         libs' = With(l, [Jobs(l) EXCEPT ![1] = j], io),
         UNCHANGED <<in_progress, state, constructed>>
  PROVE  /\ LibsType' /\ ToolsJobs' /\ LibraryJobs' /\ IoOfJob' /\ LibraryGone' /\ StateOfTool'
         /\ Jobs(l)' # <<>> /\ Head(Jobs(l)') = j /\ Len(Jobs(l)') = Len(Jobs(l))
         /\ \A i \in 2 .. Len(Jobs(l)) : Jobs(l)'[i] = Jobs(l)[i]
         /\ libs'[l].io = io
         /\ \A k \in Libs : k # l => libs'[k] = libs[k] /\ Jobs(k)' = Jobs(k)
<1> DEFINE s == Jobs(l)
           t == [s EXCEPT ![1] = j]
<1>1. s \in Seq(Known_Job) /\ s # <<>> /\ Head(s) = s[1] /\ Len(s) \in Nat
  BY LibsAre, JobsAre
<1>2. /\ t \in Seq(Known_Job) /\ Len(t) = Len(s) /\ t # <<>> /\ t[1] = j /\ Head(t) = j
      /\ \A i \in 2 .. Len(s) : t[i] = s[i]
  BY <1>1, FirstReplaced
<1> HIDE DEF t
<1>3. /\ LibsType' /\ Jobs(l)' = t /\ libs'[l].io = io
      /\ \A k \in Libs : k # l => libs'[k] = libs[k] /\ Jobs(k)' = Jobs(k)
  <2>1. libs' = With(l, t, io)
    BY DEF t
  <2> QED BY <1>2, <2>1, Becomes
<1>5. ToolsJobs'
  BY <1>1, <1>2, <1>3, Names DEF ToolsJobs, Running
<1>6. LibraryJobs'
  <2>1. CASE l # "CBE"
    BY <1>3, <2>1, Names DEF LibraryJobs, Running
  <2>2. CASE l = "CBE"
    <3>1. Len(s) = 1 \/ Len(s) = 2
      <4>1. Len(s) <= 2
        BY <1>1, <2>2 DEF LibraryJobs
      <4>2. Len(s) > 0
        BY <1>1, JobsAre
      <4> QED BY <1>1, <4>1, <4>2, OneOrTwo
    <3>0. s = Jobs("CBE") /\ t = Jobs("CBE")' /\ s[1].op = j.op
      BY <1>1, <1>3, <2>2
    <3> HIDE DEF s
    <3>2. CASE Len(s) = 1
      BY <1>1, <1>2, <2>2, <3>0, <3>2 DEF LibraryJobs, Running
    <3>3. CASE Len(s) = 2
      <4>1. t[2] = s[2] /\ t[1].op = s[1].op
        BY <1>2, <3>0, <3>3
      <4> QED BY <1>1, <1>2, <2>2, <3>0, <3>3, <4>1 DEF LibraryJobs, Running
    <3> QED BY <3>1, <3>2, <3>3
  <2> QED BY <2>1, <2>2
<1>7. IoOfJob'
  BY <1>2, <1>3 DEF IoOfJob
<1>8. LibraryGone'
  <2>1. ~constructed /\ l = "CBE" => s = <<>>
    BY DEF LibraryGone, No_Jobs, Jobs
  <2> QED BY <1>1, <1>3, <2>1, Names DEF LibraryGone
<1>9. StateOfTool'
  BY DEF StateOfTool, Running
<1> QED BY <1>2, <1>3, <1>5, <1>6, <1>7, <1>8, <1>9

(* A library has completed its first job.                                  *)
LEMMA CompletedIs ==
  \A l \in Libs : Completed(l) <=> Jobs(l) # <<>> /\ Head(Jobs(l)).need = "complete"
BY DEF Completed, Need, Jobs

(* The test in progress is the last job of the CBE library.                *)
LEMMA LastIs ==
  ASSUME LibsType, LibraryJobs, Running \in Requests
  PROVE  LET s == Jobs("CBE") IN
         /\ s # <<>> /\ s \in Seq(Known_Job)
         /\ Head(s) = s[1]
         /\ s[Len(s)] \in Known_Job /\ s[Len(s)].op = Running
         /\ Len(s) = 1 \/ Len(s) = 2
         /\ Len(s) = 2 => s[1].op = "INITIALIZE" /\ s[1].need # "complete" /\ s[2].need = "run"
         /\ Completed("CBE") => Len(s) = 1
<1> DEFINE s == Jobs("CBE")
<1>1. s \in Seq(Known_Job)
  BY LibsAre, Names
<1>2. /\ s # <<>> /\ s[Len(s)].op = Running /\ Len(s) <= 2
      /\ Len(s) = 2 => s[1].op = "INITIALIZE" /\ s[1].need # "complete" /\ s[2].need = "run"
  BY DEF LibraryJobs
<1>3. Completed("CBE") <=> s # <<>> /\ Head(s).need = "complete"
  BY CompletedIs, Names
<1> HIDE DEF s
<1>4. /\ Len(s) \in Nat /\ Head(s) = s[1] /\ s[Len(s)] \in Known_Job /\ Len(s) > 0
  BY <1>1, <1>2, JobsAre
<1>5. Len(s) = 1 \/ Len(s) = 2
  BY <1>2, <1>4, OneOrTwo
<1>6. Completed("CBE") => Len(s) = 1
  BY <1>2, <1>3, <1>4, <1>5
<1>7. /\ s # <<>> /\ s \in Seq(Known_Job)
      /\ Head(s) = s[1]
      /\ s[Len(s)] \in Known_Job /\ s[Len(s)].op = Running
      /\ Len(s) = 1 \/ Len(s) = 2
      /\ Len(s) = 2 => s[1].op = "INITIALIZE" /\ s[1].need # "complete" /\ s[2].need = "run"
      /\ Completed("CBE") => Len(s) = 1
  BY <1>1, <1>2, <1>4, <1>5, <1>6
<1> QED BY <1>7 DEF s

(* A step by which the first job of a library does not complete.           *)
LEMMA WorkedIInv ==
  ASSUME IInv, NEW l \in Libs, Jobs(l) # <<>>, ~Completed(l),
         NEW j \in Known_Job, j.op = Head(Jobs(l)).op,
         j.need # "complete",
         NEW io \in Io, io # "none" => j.need = "io",
         libs' = With(l, [Jobs(l) EXCEPT ![1] = j], io),
         UNCHANGED <<session, state, flags, constructed>>, TypesOther', Handlers'
  PROVE  IInv'
<1>0. UNCHANGED <<tests, in_progress, failed, created, exited, failures>>
  BY DEF session
<1>1. /\ LibsType' /\ ToolsJobs' /\ LibraryJobs' /\ IoOfJob' /\ LibraryGone' /\ StateOfTool'
      /\ Jobs(l)' # <<>> /\ Head(Jobs(l)') = j /\ Len(Jobs(l)') = Len(Jobs(l))
      /\ \A i \in 2 .. Len(Jobs(l)) : Jobs(l)'[i] = Jobs(l)[i]
      /\ libs'[l].io = io
      /\ \A k \in Libs : k # l => libs'[k] = libs[k] /\ Jobs(k)' = Jobs(k)
  BY <1>0, WorkedStructure DEF IInv
<1>2. ~Completed(l)' /\ \A k \in Libs : Completed(k)' <=> Completed(k)
  BY <1>1 DEF Completed, Need, Jobs
<1>3. FlagsOfTest' /\ ExitTruthful'
  BY <1>0 DEF IInv, FlagsOfTest, ExitTruthful, Running
<1>4. Counted'
  <2>1. \A k \in Libs : HasFailed(k)' <=> HasFailed(k)
    BY <1>1, <1>2 DEF HasFailed
  <2>2. (\E k \in Libs : HasFailed(k))' <=> \E k \in Libs : HasFailed(k)
    BY <2>1
  <2> QED BY <1>0, <2>2 DEF IInv, Counted
<1>5. DiscardKnown'
  BY <1>0 DEF IInv, DiscardKnown, Is_Created, Running
<1> QED BY <1>1, <1>3, <1>4, <1>5 DEF IInv

(* A step by which no job and no test changes.                             *)
LEMMA StillIInv ==
  ASSUME IInv, UNCHANGED <<in_progress, failed, created, failures, flags, libs>>,
         StateOfTool', LibraryGone', ExitTruthful', TypesOther', Handlers'
  PROVE  IInv'
<1>1. LibsType' /\ ToolsJobs' /\ LibraryJobs' /\ FlagsOfTest' /\ IoOfJob'
  BY DEF IInv, LibsType, ToolsJobs, LibraryJobs, FlagsOfTest, IoOfJob, Running, Jobs
<1>2. Counted'
  BY DEF IInv, Counted, HasFailed, Completed, Need, Jobs
<1>3. DiscardKnown'
  BY DEF IInv, DiscardKnown, Is_Created, Running
<1> QED BY <1>1, <1>2, <1>3 DEF IInv

(* No job is done while no test is in progress, and all failures are       *)
(* counted.                                                                *)
LEMMA AllCounted ==
  ASSUME IInv, in_progress = No_Test
  PROVE  failures = failed
<1>1. Running \notin Of_Tool \cup Requests
  BY Names DEF Running, Requests
<1>2. \A l \in Tools : Jobs(l) = <<>>
  <2>1. TAKE l \in Tools
  <2>2. Len(Jobs(l)) = 0
    BY <1>1 DEF IInv, ToolsJobs
  <2>3. Jobs(l) \in Seq(Known_Job)
    BY Names, LibsAre DEF IInv
  <2> QED BY <2>2, <2>3, JobsAre
<1>3. Jobs("CBE") # <<>> => Head(Jobs("CBE")).need # "complete"
  <2>1. Jobs("CBE") \in Seq(Known_Job)
    BY Names, LibsAre DEF IInv
  <2> QED BY <1>1, <2>1, JobsAre DEF IInv, LibraryJobs
<1>4. \A l \in Libs : ~HasFailed(l)
  BY <1>2, <1>3, CompletedIs, Names DEF HasFailed
<1> QED BY <1>4 DEF IInv, Counted, TypesOther

(* The parent is told the truth, if it is told something.                  *)
LEMMA LooksForTest ==
  ASSUME IInv, Look_For_Test, UNCHANGED <<tests, in_progress, failures>>
  PROVE  ExitTruthful' /\ exited' \in {"none", "0", "-1"}
<1>1. in_progress = No_Test => failures = failed
  BY AllCounted
<1> QED BY <1>1 DEF IInv, TypesOther, ExitTruthful, Look_For_Test

(* What it has been told stays true while no test begins or fails.         *)
LEMMA ExitStays ==
  ASSUME IInv, UNCHANGED <<tests, in_progress, failures, exited>>
  PROVE  ExitTruthful'
BY DEF IInv, ExitTruthful

-----------------------------------------------------------------------------
(***************************************************************************)
(* The handlers.                                                           *)
(***************************************************************************)
(* A handler that leaves the test and the libraries as they are.           *)
LEMMA QuietIInv ==
  ASSUME IInv, UNCHANGED <<tests, in_progress, failed, created, failures, state, flags,
                           constructed, libs, blk_req>>,
         UNCHANGED exited \/ Look_For_Test,
         progress' \in BOOLEAN, signal' \in BOOLEAN,
         packet' \in {"none", "queued", "submitted", "acknowledged"},
         Handlers'
  PROVE  IInv'
<1>1. ExitTruthful' /\ exited' \in {"none", "0", "-1"}
  BY LooksForTest, ExitStays DEF IInv, TypesOther
<1>2. StateOfTool' /\ LibraryGone' /\ TypesOther'
  BY <1>1 DEF IInv, StateOfTool, LibraryGone, TypesOther, Running
<1> QED BY <1>1, <1>2, StillIInv

(* Between two tests, no job is complete, and all failures are counted.    *)
LEMMA JobsOfNone ==
  ASSUME IInv, in_progress = No_Test
  PROVE  /\ Running \notin Of_Tool \cup Requests /\ Running # "LIST_SNAPSHOTS"
         /\ state \notin Tools /\ flags = {}
         /\ \A l \in Tools : Jobs(l) = <<>> /\ libs[l].io = "none"
         /\ \A l \in Libs : ~Completed(l) /\ ~HasFailed(l)
         /\ failures = failed
         /\ tests # <<>> => exited = "none"
<1>1. Running \notin Of_Tool \cup Requests /\ Running # "LIST_SNAPSHOTS"
  BY DEF Running, Of_Tool, Requests, In_Replay, No_Test
<1>2. \A l \in Tools : Jobs(l) = <<>>
  <2>1. TAKE l \in Tools
  <2>2. Len(Jobs(l)) = 0
    BY <1>1 DEF IInv, ToolsJobs
  <2>3. Jobs(l) \in Seq(Known_Job)
    BY Names, LibsAre DEF IInv
  <2> QED BY <2>2, <2>3, JobsAre
<1>3. \A l \in Tools : libs[l].io = "none"
  BY <1>2, Names DEF IInv, IoOfJob
<1>4. Jobs("CBE") # <<>> => Head(Jobs("CBE")).need # "complete"
  <2>1. Jobs("CBE") \in Seq(Known_Job)
    BY Names, LibsAre DEF IInv
  <2> QED BY <1>1, <2>1, JobsAre DEF IInv, LibraryJobs
<1>5. \A l \in Libs : ~Completed(l) /\ ~HasFailed(l)
  BY <1>2, <1>4, CompletedIs, Names DEF HasFailed
<1>6. state \notin Tools /\ flags = {}
  BY <1>1 DEF IInv, StateOfTool, FlagsOfTest
<1>8. tests # <<>> => exited = "none"
  BY DEF IInv, ExitTruthful
<1> QED BY <1>1, <1>2, <1>3, <1>5, <1>6, <1>8, AllCounted

(* A job that has just been submitted.                                     *)
LEMMA NewJob ==
  ASSUME NEW type, Op(type) \in In_Replay \cup {"INITIALIZE_DEVICE", "INITIALIZE", "CHECK", "DUMP"}
  PROVE  Job(Op(type)) \in Known_Job /\ Job(Op(type)).op = Op(type) /\ Job(Op(type)).need = "run"
BY TesterAssumption DEF Job, Known_Job, Job_Type

(* A tool is given its test.                                               *)
LEMMA WithToolIInv ==
  ASSUME IInv, NEW type \in Of_Tool, NEW at,
         NEW next \in {"check", "dump", "switch"},
         With_Tool(at, type, Op(type), Tool(type), next)
  PROVE  IInv'
<1> DEFINE l == Tool(type)
           job == Job(Op(type))
<1>0. l \in Tools /\ l \in Libs /\ type \notin Requests /\ type # "LIST_SNAPSHOTS"
  BY Names DEF Requests, In_Replay, Of_Tool
<1> HIDE DEF l
<1>1. pc' = next /\ UNCHANGED <<failed, created, failures, flags, constructed, blk_req, packet,
                                signal>>
  BY DEF With_Tool, device
<1>2. Handlers'
  BY <1>1 DEF Handlers
<1>3. CASE UNCHANGED <<libs, state, progress>> /\
           IF state = "INVALID" THEN Not_Found(type) ELSE UNCHANGED <<tests, in_progress, exited>>
  <2>1. UNCHANGED <<tests, in_progress>> /\ (UNCHANGED exited \/ Look_For_Test)
    BY <1>3 DEF Not_Found
  <2> QED BY <1>1, <1>2, <1>3, <2>1, QuietIInv DEF IInv, TypesOther
<1>4. CASE /\ state = "INVALID" /\ Found(type)
           /\ Submit_Client_Request(l, job)
           /\ state' = l /\ progress' = TRUE
  <2>1. /\ in_progress = No_Test /\ tests # <<>> /\ in_progress' = Head(tests)
        /\ tests' = Tail(tests) /\ Running' = type /\ UNCHANGED exited
    BY <1>4 DEF Found, Head_Is, Dequeue, Running
  <2>2. job \in Known_Job /\ job.op = Op(type) /\ job.need = "run"
    BY NewJob DEF Op, Of_Tool
  <2>3. /\ \A k \in Tools : Jobs(k) = <<>> /\ libs[k].io = "none"
        /\ \A k \in Libs : ~HasFailed(k)
        /\ Running \notin Of_Tool \cup Requests /\ flags = {} /\ exited = "none"
        /\ failures = failed
    BY <2>1, JobsOfNone
  <2> HIDE DEF job
  <2>4. /\ Append(<<>>, job) \in Seq(Known_Job) /\ Len(Append(<<>>, job)) = 1
        /\ Head(Append(<<>>, job)) = job
    BY <2>2
  <2>5. libs' = With(l, Append(<<>>, job), "none")
    <3>1. libs' = [libs EXCEPT ![l].jobs = Append(Jobs(l), job)]
      BY <1>4 DEF Submit_Client_Request, Jobs
    <3>2. libs' = With(l, Append(Jobs(l), job), libs[l].io)
      BY <1>0, <3>1, JobsForm DEF IInv
    <3> QED BY <1>0, <2>3, <3>2
  <2>6. /\ LibsType' /\ Jobs(l)' = Append(<<>>, job) /\ libs'[l].io = "none"
        /\ \A k \in Libs : k # l => libs'[k] = libs[k] /\ Jobs(k)' = Jobs(k)
    BY <1>0, <2>4, <2>5, Becomes DEF IInv, Io
  <2>8. ToolsJobs'
    <3>1. SUFFICES ASSUME NEW k \in Tools
                   PROVE  /\ Len(Jobs(k)') = IF type = Running' /\ k = l THEN 1 ELSE 0
                          /\ Jobs(k)' # <<>> => Head(Jobs(k)').op = Op(type)
      BY <2>1 DEF ToolsJobs, l
    <3>2. CASE k = l
      BY <2>1, <2>2, <2>4, <2>6, <3>2 DEF l
    <3>3. CASE k # l
      <4>1. Jobs(k)' = <<>> /\ Len(<<>>) = 0
        BY <2>3, <2>6, <3>3, Names
      <4> QED BY <2>1, <3>3, <4>1 DEF l
    <3> QED BY <3>2, <3>3
  <2>9. Jobs("CBE")' = Jobs("CBE") /\ libs'["CBE"] = libs["CBE"]
    BY <1>0, <2>6, Names
  <2>10. LibraryJobs'
    BY <1>0, <2>1, <2>3, <2>9 DEF IInv, LibraryJobs
  <2>11. StateOfTool'
    BY <1>4, <2>1 DEF StateOfTool, l
  <2>12. FlagsOfTest'
    BY <1>0, <1>1, <2>1, <2>3 DEF FlagsOfTest
  <2>13. IoOfJob'
    BY <2>6 DEF IInv, IoOfJob
  <2>14. LibraryGone'
    BY <1>0, <1>1, <1>4, <2>9, Names DEF IInv, LibraryGone
  <2>15. Counted'
    <3>1. ~HasFailed(l)'
      BY <2>2, <2>4, <2>6 DEF HasFailed, Completed, Need, Jobs
    <3>2. \A k \in Libs : k # l => ~HasFailed(k)'
      BY <2>3, <2>6 DEF HasFailed, Completed, Need
    <3>3. \A k \in Libs : ~HasFailed(k)'
      BY <3>1, <3>2
    <3> QED BY <1>1, <2>3, <3>3 DEF Counted, IInv, TypesOther
  <2>16. DiscardKnown'
    BY <1>0, <2>1 DEF DiscardKnown, Requests, In_Replay
  <2>17. TypesOther' /\ ExitTruthful'
    BY <1>0, <1>1, <1>4, <2>1, <2>3, HeadTailProperties
    DEF IInv, TypesOther, ExitTruthful
  <2> QED BY <1>2, <2>6, <2>8, <2>10, <2>11, <2>12, <2>13, <2>14, <2>15, <2>16, <2>17 DEF IInv
<1> QED BY <1>3, <1>4 DEF With_Tool, l

(* The CBE library is constructed or destructed.                           *)
LEMMA SwitchIInv ==
  ASSUME IInv, Switch
  PROVE  IInv'
<1>0. /\ UNCHANGED <<session, state, flags, blk_req, error, packet, signal, progress>>
      /\ UNCHANGED <<tests, in_progress, failed, created, exited, failures>>
  BY DEF Switch, session, device
<1>1. ExitTruthful' /\ FlagsOfTest' /\ StateOfTool'
  BY <1>0 DEF IInv, ExitTruthful, FlagsOfTest, StateOfTool, Running
<1>2. TypesOther'
  BY <1>0 DEF Switch, IInv, TypesOther
<1>3. Handlers'
  BY <1>0 DEF Switch, Handlers
<1> DEFINE s == <<Job("INITIALIZE")>>
<1>4. /\ s \in Seq(Known_Job) /\ Len(s) = 1 /\ s # <<>> /\ Head(s) = s[1]
      /\ s[1].op = "INITIALIZE" /\ s[1].need = "run"
  BY TesterAssumption DEF Job, Known_Job, Job_Type
<1> HIDE DEF s
<1>5. CASE state \notin Tools /\ constructed
  <2>1. libs' = libs /\ constructed' = constructed
    BY <1>5 DEF Switch
  <2>2. LibraryGone'
    BY <1>0, <2>1 DEF IInv, LibraryGone
  <2> QED BY <1>0, <1>1, <1>2, <1>3, <2>1, <2>2, StillIInv
<1>6. CASE state \in Tools \/ ~constructed
  <2>1. PICK jobs \in {<<>>, s} :
          /\ libs' = With("CBE", jobs, "none")
          /\ ~constructed' => jobs = <<>>
          /\ state \in Tools => jobs = <<>>
          /\ state \notin Tools => constructed'
    <3>1. CASE state \in Tools
      <4>1. libs' = With("CBE", <<>>, "none")
        BY <3>1 DEF Switch, With, No_Jobs
      <4> QED BY <3>1, <4>1
    <3>2. CASE state \notin Tools /\ ~constructed
      <4>1. libs' = [libs EXCEPT !["CBE"].jobs = s] /\ constructed'
        BY <3>2 DEF Switch, s
      <4>2. libs["CBE"].io = "none"
        BY <3>2 DEF IInv, LibraryGone, No_Jobs
      <4>3. libs' = With("CBE", s, libs["CBE"].io)
        BY <4>1, Names, JobsForm DEF IInv
      <4> QED BY <3>2, <4>1, <4>2, <4>3
    <3> QED BY <1>6, <3>1, <3>2
  <2>2. jobs \in Seq(Known_Job) /\ Len(jobs) <= 1
    <3>1. <<>> \in Seq(Known_Job) /\ Len(<<>>) <= 1
      OBVIOUS
    <3>2. s \in Seq(Known_Job) /\ Len(s) <= 1
      BY <1>4
    <3>3. jobs = <<>> \/ jobs = s
      OBVIOUS
    <3> QED BY <3>1, <3>2, <3>3, Zenon
  <2>3. /\ LibsType' /\ Jobs("CBE")' = jobs /\ libs'["CBE"].io = "none"
        /\ \A k \in Libs : k # "CBE" => libs'[k] = libs[k] /\ Jobs(k)' = Jobs(k)
    BY <2>1, <2>2, Names, Becomes DEF IInv, Io
  <2>4. Running \notin Requests /\ Running # "LIST_SNAPSHOTS" /\ Running' = Running
    <3>1. CASE state \in Tools
      BY <1>0, <3>1 DEF IInv, StateOfTool, Running, Requests, In_Replay, Of_Tool
    <3>2. CASE ~constructed
      <4>1. Jobs("CBE") = <<>>
        BY <3>2 DEF IInv, LibraryGone, No_Jobs, Jobs
      <4> QED BY <1>0, <4>1 DEF IInv, LibraryJobs, Running
    <3> QED BY <1>6, <3>1, <3>2 DEF IInv, LibraryJobs
  <2>5. ToolsJobs'
    BY <2>3, <2>4, Names DEF IInv, ToolsJobs
  <2>6. LibraryJobs'
    BY <1>4, <2>1, <2>2, <2>3, <2>4 DEF LibraryJobs
  <2>7. IoOfJob'
    BY <2>3 DEF IInv, IoOfJob
  <2>8. LibraryGone'
    <3>1. ~constructed' => libs' = With("CBE", <<>>, "none")
      BY <2>1
    <3>2. With("CBE", <<>>, "none")["CBE"] = No_Jobs
      BY Names DEF IInv, LibsType, With, No_Jobs
    <3> QED BY <1>0, <2>1, <3>1, <3>2 DEF LibraryGone, Tools
  <2>9. ~Completed("CBE") /\ ~Completed("CBE")'
    <3>1. ~Completed("CBE")'
      BY <1>4, <2>1, <2>3 DEF Completed, Need, Jobs
    <3>2. Jobs("CBE") \in Seq(Known_Job)
      BY Names, LibsAre DEF IInv
    <3>3. Jobs("CBE") # <<>> => Head(Jobs("CBE")).need # "complete"
      BY <2>4, <3>2, JobsAre DEF IInv, LibraryJobs
    <3> QED BY <3>1, <3>3, Names, CompletedIs
  <2>10. Counted'
    <3>1. \A k \in Libs : HasFailed(k)' <=> HasFailed(k)
      BY <2>3, <2>9 DEF HasFailed, Completed, Need
    <3>2. (\E k \in Libs : HasFailed(k))' <=> \E k \in Libs : HasFailed(k)
      BY <3>1
    <3> QED BY <1>0, <3>2 DEF IInv, Counted
  <2>11. DiscardKnown'
    BY <1>0 DEF IInv, DiscardKnown, Is_Created, Running
  <2> QED BY <1>1, <1>2, <1>3, <2>3, <2>5, <2>6, <2>7, <2>8, <2>10, <2>11 DEF IInv
<1> QED BY <1>5, <1>6

(* A request is submitted behind the initialization of the library, if     *)
(* that is not done yet.                                                   *)
LEMMA RequestStartsIInv ==
  ASSUME IInv, NEW type \in Requests, Start_Request(type),
         constructed, state \notin Tools, state' \in {"INVALID", "CBE"},
         flags' = flags \cup (IF type = "REQUEST" THEN {} ELSE {type}),
         type = "DISCARD_SNAPSHOT" => Is_Created(Head(tests).id),
         Handlers'
  PROVE  IInv'
<1> DEFINE s == Jobs("CBE")
           job == Job(type)
           t == Append(s, job)
<1>1. /\ in_progress = No_Test /\ tests # <<>> /\ in_progress' = Head(tests)
      /\ tests' = Tail(tests) /\ Running' = type /\ UNCHANGED exited
      /\ libs' = [libs EXCEPT !["CBE"].jobs = t] /\ progress' = TRUE
      /\ UNCHANGED <<failed, created, failures, constructed, blk_req, packet, signal>>
  BY DEF Start_Request, Found, Head_Is, Dequeue, Running, Submit_Client_Request, Jobs, device
<1>2. job \in Known_Job /\ job.op = type /\ job.need = "run"
  BY NewJob DEF Op, Requests, In_Replay
<1>3. /\ \A k \in Tools : Jobs(k) = <<>> /\ libs[k].io = "none"
      /\ \A k \in Libs : ~HasFailed(k) /\ ~Completed(k)
      /\ Running \notin Of_Tool \cup Requests /\ flags = {} /\ exited = "none"
      /\ failures = failed
  BY <1>1, JobsOfNone
<1>4. /\ s \in Seq(Known_Job) /\ Len(s) \in Nat /\ Len(s) <= 1
      /\ libs["CBE"].io \in Io
      /\ s # <<>> => Len(s) > 0
      /\ s # <<>> => Head(s) = s[1] /\ s[1].op = "INITIALIZE" /\ s[1].need # "complete"
  <2>1. s \in Seq(Known_Job) /\ libs["CBE"].io \in Io
    BY Names, LibsAre DEF IInv
  <2>2. Len(s) \in Nat /\ (s # <<>> => Head(s) = s[1]) /\ (s # <<>> => Len(s) > 0)
    BY <2>1, JobsAre
  <2>3. Len(s) <= 1 /\ (s # <<>> => s[1].op = "INITIALIZE" /\ s[1].need # "complete")
    BY <1>3 DEF IInv, LibraryJobs
  <2> QED BY <2>1, <2>2, <2>3
<1> HIDE DEF job
<1>5. /\ t \in Seq(Known_Job) /\ Len(t) = Len(s) + 1 /\ t # <<>>
      /\ t[Len(t)] = job /\ Head(t) = t[1]
      /\ \A i \in 1 .. Len(s) : t[i] = s[i]
  <2>1. /\ t \in Seq(Known_Job) /\ Len(t) = Len(s) + 1 /\ t # <<>>
        /\ t[Len(s) + 1] = job
        /\ \A i \in 1 .. Len(s) : t[i] = s[i]
    BY <1>2, <1>4, LastAdded
  <2> HIDE DEF t
  <2> QED BY <2>1, JobsAre
<1>6. Head(t).need # "complete" /\ (Len(t) = 2 => t[1] = s[1] /\ s # <<>>)
  <2>1. CASE Len(s) = 0
    BY <1>2, <1>4, <1>5, <2>1
  <2>2. CASE Len(s) = 1
    <3>1. s # <<>>
      BY <1>4, <2>2, JobsAre, SMTT(30)
    <3>2. t[1] = s[1]
      <4>1. 1 \in 1 .. Len(s)
        BY <2>2
      <4> HIDE DEF s, t
      <4> QED BY <1>5, <4>1
    <3> HIDE DEF s, t
    <3> QED BY <1>4, <1>5, <3>1, <3>2
  <2>3. Len(s) = 0 \/ Len(s) = 1
    BY <1>4, ZeroOrOne
  <2> QED BY <2>1, <2>2, <2>3
<1> HIDE DEF t
<1>7. /\ LibsType' /\ Jobs("CBE")' = t /\ libs'["CBE"].io = libs["CBE"].io
      /\ \A k \in Libs : k # "CBE" => libs'[k] = libs[k] /\ Jobs(k)' = Jobs(k)
  <2>1. libs' = With("CBE", t, libs["CBE"].io)
    BY <1>1, Names, JobsForm DEF IInv
  <2> QED BY <1>4, <1>5, <2>1, Names, Becomes DEF IInv
<1>8. ToolsJobs'
  BY <1>1, <1>3, <1>7, Names DEF IInv, ToolsJobs, Requests
<1>9. LibraryJobs'
  BY <1>1, <1>2, <1>4, <1>5, <1>6, <1>7 DEF LibraryJobs, Requests
<1>10. StateOfTool'
  BY <1>1 DEF StateOfTool, Requests, In_Replay, Of_Tool, Tools
<1>11. FlagsOfTest'
  BY <1>1, <1>3 DEF FlagsOfTest
<1>12. IoOfJob'
  <2>1. libs["CBE"].io # "none" => s # <<>> /\ Head(s).need = "io"
    BY Names DEF IInv, IoOfJob
  <2>2. libs["CBE"].io # "none" => t # <<>> /\ Head(t).need = "io"
    BY <1>4, <1>5, <2>1
  <2> QED BY <1>7, <2>2 DEF IInv, IoOfJob
<1>13. LibraryGone'
  BY <1>1 DEF LibraryGone
<1>14. ~Completed("CBE")'
  BY <1>6, <1>7 DEF Completed, Need, Jobs
<1>15. Counted'
  <2>1. \A k \in Libs : k # "CBE" => ~HasFailed(k)'
    BY <1>3, <1>7 DEF HasFailed, Completed, Need
  <2>2. \A k \in Libs : ~HasFailed(k)'
    BY <1>14, <2>1 DEF HasFailed
  <2> QED BY <1>1, <1>3, <2>2 DEF Counted, IInv, TypesOther
<1>16. DiscardKnown'
  BY <1>1 DEF DiscardKnown, Is_Created
<1>17. TypesOther' /\ ExitTruthful'
  BY <1>1, <1>3, HeadTailProperties DEF IInv, TypesOther, ExitTruthful
<1> QED BY <1>7, <1>8, <1>9, <1>10, <1>11, <1>12, <1>13, <1>15, <1>16, <1>17 DEF IInv

(* A request that is complete is the only job there is.                    *)
LEMMA RequestDoneIInv ==
  ASSUME IInv, Running \in Requests, Completed("CBE"), Request_Done({}),
         constructed,
         IsABag(created'), BagToSet(created') \subseteq Nat,
         Handlers'
  PROVE  IInv'
<1> DEFINE s == Jobs("CBE")
<1>1. /\ s # <<>> /\ s \in Seq(Known_Job) /\ Len(s) = 1
  BY LastIs DEF IInv
<1>2. Tail(s) = <<>>
  <2>1. Tail(s) \in Seq(Known_Job) /\ Len(Tail(s)) = 0
    BY <1>1, FirstDropped
  <2> QED BY <2>1, JobsAre
<1>3. /\ libs' = [libs EXCEPT !["CBE"].jobs = <<>>]
      /\ in_progress' = No_Test /\ flags' = {} /\ state' \in {"INVALID", "CBE"}
      /\ failed' = IF Head(s).success THEN failed ELSE failed + 1
      /\ progress' = TRUE
      /\ UNCHANGED <<tests, exited, failures, constructed, blk_req, packet, signal>>
  BY <1>2 DEF Request_Done, Drop_Completed_Client_Request, Test_Done, Count, Next_State, Jobs,
     device
<1>4. libs["CBE"].io = "none"
  BY Names, CompletedIs DEF IInv, IoOfJob
<1>5. /\ LibsType' /\ Jobs("CBE")' = <<>> /\ libs'["CBE"].io = "none"
      /\ \A k \in Libs : k # "CBE" => libs'[k] = libs[k] /\ Jobs(k)' = Jobs(k)
  <2>1. libs' = With("CBE", <<>>, "none")
    BY <1>3, <1>4, Names, JobsForm DEF IInv
  <2>2. <<>> \in Seq(Known_Job)
    OBVIOUS
  <2> QED BY <2>1, <2>2, Names, Becomes DEF IInv, Io
<1>6. Running \notin Of_Tool /\ Running' \notin Of_Tool \cup Requests
      /\ Running' # "LIST_SNAPSHOTS"
  BY <1>3 DEF Running, No_Test, Of_Tool, Requests, In_Replay
<1>7. \A k \in Tools : Jobs(k) = <<>>
  <2>1. SUFFICES ASSUME NEW k \in Tools PROVE Jobs(k) = <<>>
    OBVIOUS
  <2>2. Len(Jobs(k)) = 0
    BY <1>6 DEF IInv, ToolsJobs
  <2>3. Jobs(k) \in Seq(Known_Job)
    BY Names, LibsAre DEF IInv
  <2> QED BY <2>2, <2>3, JobsAre
<1>8. ToolsJobs'
  <2>1. \A k \in Tools : Jobs(k)' = <<>>
    BY <1>5, <1>7, Names
  <2> QED BY <1>6, <2>1 DEF ToolsJobs
<1>9. LibraryJobs'
  BY <1>5, <1>6 DEF LibraryJobs
<1>10. StateOfTool'
  BY <1>3, <1>6 DEF StateOfTool, Tools
<1>11. FlagsOfTest' /\ IoOfJob' /\ LibraryGone'
  BY <1>3, <1>5, <1>6 DEF IInv, FlagsOfTest, IoOfJob, LibraryGone
<1>12. Counted'
  <2>1. \A k \in Tools : ~HasFailed(k)
    BY <1>7, Names, CompletedIs DEF HasFailed
  <2>2. HasFailed("CBE") <=> ~Head(s).success
    BY DEF HasFailed
  <2>3. \A k \in Libs : ~HasFailed(k)'
    BY <1>5, <1>7, Names DEF HasFailed, Completed, Need, Jobs
  <2>4. failures = failed + IF Head(s).success THEN 0 ELSE 1
    BY <2>1, <2>2, Names DEF IInv, Counted
  <2>5. failures = failed'
    BY <1>3, <2>4 DEF IInv, TypesOther
  <2> QED BY <1>3, <2>3, <2>5 DEF IInv, Counted, TypesOther
<1>13. DiscardKnown'
  BY <1>6 DEF DiscardKnown, Requests, In_Replay
<1>14. TypesOther'
  BY <1>3 DEF IInv, TypesOther
<1>15. ExitTruthful'
  BY <1>3 DEF IInv, ExitTruthful
<1> QED BY <1>5, <1>8, <1>9, <1>10, <1>11, <1>12, <1>13, <1>14, <1>15 DEF IInv

(* A test that is over at once.                                            *)
LEMMA AtOnceIInv ==
  ASSUME IInv, in_progress = No_Test, tests # <<>>, tests' = Tail(tests),
         UNCHANGED <<in_progress, created, exited, main, libs, device, progress>>,
         (UNCHANGED <<failed, failures>>) \/ (failed' = failed + 1 /\ failures' = failures + 1),
         Handlers'
  PROVE  IInv'
<1>0. UNCHANGED <<state, flags, constructed, blk_req, packet, signal>>
  BY DEF main, device
<1>1. LibsType' /\ ToolsJobs' /\ LibraryJobs' /\ FlagsOfTest' /\ IoOfJob' /\ StateOfTool'
      /\ LibraryGone'
  BY <1>0 DEF IInv, LibsType, ToolsJobs, LibraryJobs, FlagsOfTest, IoOfJob, StateOfTool,
     LibraryGone, Running, Jobs
<1>2. \A l \in Libs : HasFailed(l)' <=> HasFailed(l)
  BY DEF HasFailed, Completed, Need, Jobs
<1>3. Counted'
  <2>1. (\E l \in Libs : HasFailed(l))' <=> \E l \in Libs : HasFailed(l)
    BY <1>2
  <2> QED BY <2>1 DEF IInv, Counted, TypesOther
<1>4. DiscardKnown'
  BY DEF IInv, DiscardKnown, Is_Created, Running
<1>5. exited = "none"
  BY JobsOfNone
<1>6. ExitTruthful' /\ TypesOther'
  BY <1>0, <1>5, HeadTailProperties DEF IInv, ExitTruthful, TypesOther
<1> QED BY <1>1, <1>3, <1>4, <1>6 DEF IInv

(* A job that does not wait for I/O has none.                              *)
LEMMA NoIo ==
  ASSUME IInv, NEW l \in Libs, Need(l) # "io"
  PROVE  libs[l].io = "none"
BY DEF IInv, IoOfJob, Need, Jobs

(* The job that is worked on.                                              *)
LEMMA NeededIs ==
  ASSUME IInv, NEW l \in Libs, Need(l) # "nothing"
  PROVE  /\ Jobs(l) # <<>> /\ Jobs(l) \in Seq(Known_Job)
         /\ Head(Jobs(l)) = Jobs(l)[1] /\ Jobs(l)[1] \in Known_Job
         /\ Need(l) = Jobs(l)[1].need
<1>1. Jobs(l) # <<>> /\ Need(l) = Head(Jobs(l)).need /\ Jobs(l) \in Seq(Known_Job)
  BY LibsAre DEF Need, Jobs, IInv
<1> QED BY <1>1, JobsAre

(* The library gets data, or keys.                                         *)
LEMMA SupplyIInv ==
  ASSUME IInv, NEW need \in {"data", "crypto"}, Supply("CBE", need),
         UNCHANGED <<session, main, device>>, Handlers'
  PROVE  IInv'
<1>0. UNCHANGED <<tests, in_progress, failed, created, exited, failures, state, flags, constructed,
                  blk_req, packet, signal>>
  BY DEF session, main, device
<1>1. CASE UNCHANGED <<libs, progress>>
  BY <1>0, <1>1, QuietIInv DEF IInv, TypesOther
<1>2. CASE /\ Need("CBE") = need /\ libs' = [libs EXCEPT !["CBE"].jobs[1].need = "run"]
           /\ progress' = TRUE
  <2> DEFINE j == [Jobs("CBE")[1] EXCEPT !.need = "run"]
  <2>1. /\ Jobs("CBE") # <<>> /\ Head(Jobs("CBE")) = Jobs("CBE")[1]
        /\ Jobs("CBE")[1] \in Known_Job /\ Jobs("CBE")[1].need = need
    BY <1>2, Names, NeededIs
  <2>2. j \in Known_Job /\ j.op = Head(Jobs("CBE")).op
        /\ j.need = "run"
    BY <2>1 DEF Known_Job, Job_Type
  <2>3. libs["CBE"].io = "none"
    BY <1>2, Names, NoIo
  <2>4. libs' = With("CBE", [Jobs("CBE") EXCEPT ![1] = j], "none")
    BY <1>2, <2>3, Names, RunForm DEF IInv
  <2>5. TypesOther'
    BY <1>0, <1>2 DEF IInv, TypesOther
  <2>6. ~Completed("CBE")
    BY <1>2 DEF Completed
  <2> HIDE DEF j
  <2> QED BY <1>0, <2>1, <2>2, <2>4, <2>5, <2>6, Names, WorkedIInv DEF Io
<1> QED BY <1>1, <1>2 DEF Supply

(* The request of a library goes to the device.                            *)
LEMMA SubmitPacketIInv ==
  ASSUME IInv, NEW l \in Libs, Submit_Packet(l), Handlers'
  PROVE  IInv'
<1>0. UNCHANGED <<tests, in_progress, failed, created, exited, failures, session, state, flags,
                  constructed, signal>>
  BY DEF Submit_Packet, session
<1>1. CASE UNCHANGED <<blk_req, packet, libs, progress>>
  BY <1>0, <1>1, QuietIInv DEF IInv, TypesOther
<1>2. CASE /\ libs[l].io = "generated"
           /\ blk_req' = l /\ packet' = "queued"
           /\ libs' = [libs EXCEPT ![l].io = "in_progress"]
           /\ progress' = TRUE
  <2> DEFINE s == Jobs(l)
  <2>1. s # <<>> /\ Head(s).need = "io" /\ Need(l) = "io"
    BY <1>2 DEF IInv, IoOfJob, Need, Jobs
  <2>2. s \in Seq(Known_Job) /\ Head(s) = s[1] /\ s[1] \in Known_Job
    BY <2>1, NeededIs
  <2>3. [s EXCEPT ![1] = s[1]] = s
    <3> HIDE DEF s
    <3>1. s \in [1 .. Len(s) -> Known_Job]
      BY <2>2, LenProperties
    <3> QED BY <3>1
  <2>4. libs' = With(l, [s EXCEPT ![1] = s[1]], "in_progress")
    <3>1. libs' = With(l, s, "in_progress")
      BY <1>2, IoForm DEF IInv
    <3> QED BY <2>3, <3>1
  <2>5. TypesOther'
    BY <1>0, <1>2 DEF IInv, TypesOther
  <2>6. ~Completed(l)
    BY <2>1 DEF Completed
  <2>7. "in_progress" \in Io /\ s[1].need # "complete"
    BY <2>1, <2>2 DEF Io
  <2> HIDE DEF s
  <2> QED BY <1>0, <2>1, <2>2, <2>4, <2>5, <2>6, <2>7, WorkedIInv DEF s
<1> QED BY <1>1, <1>2 DEF Submit_Packet

(* The answer of the device goes to a library.                             *)
LEMMA AcknowledgePacketIInv ==
  ASSUME IInv, NEW l \in Libs, Acknowledge_Packet(l), Handlers'
  PROVE  IInv'
<1>0. UNCHANGED <<tests, in_progress, failed, created, exited, failures, session, state, flags,
                  constructed, signal>>
      /\ blk_req' \in {blk_req, Nobody} /\ packet' \in {packet, "none"}
      /\ progress' \in BOOLEAN
  BY DEF Acknowledge_Packet, session, IInv, TypesOther
<1>1. TypesOther'
  BY <1>0 DEF IInv, TypesOther
<1>2. CASE libs' = libs
  BY <1>0, <1>1, <1>2, ExitStays, StillIInv DEF IInv, StateOfTool, LibraryGone, Running
<1>3. CASE libs[l].io = "in_progress"
           /\ libs' = [libs EXCEPT ![l].io = "none", ![l].jobs[1].need = "run"]
  <2> DEFINE j == [Jobs(l)[1] EXCEPT !.need = "run"]
  <2>1. Need(l) = "io"
    BY <1>3, NoIo
  <2>2. /\ Jobs(l) # <<>> /\ Head(Jobs(l)) = Jobs(l)[1] /\ Jobs(l)[1] \in Known_Job
    BY <2>1, NeededIs
  <2>3. j \in Known_Job /\ j.op = Head(Jobs(l)).op /\ j.need = "run"
    BY <2>2 DEF Known_Job, Job_Type
  <2>4. libs' = With(l, [Jobs(l) EXCEPT ![1] = j], "none")
    BY <1>3, AnswerForm DEF IInv
  <2>5. ~Completed(l)
    BY <2>1 DEF Completed
  <2> HIDE DEF j
  <2> QED BY <1>0, <1>1, <2>2, <2>3, <2>4, <2>5, WorkedIInv DEF Io
<1> QED BY <1>2, <1>3 DEF Acknowledge_Packet, IO_Request_Completed

(* A step after which the job needs something.                             *)
LEMMA WorkNeedsMore ==
  ASSUME IInv, NEW l \in Libs, Need(l) = "run",
         NEW need \in {"io", "data", "crypto"},
         libs' = Both(l, [Head(Jobs(l)) EXCEPT !.left = @ - 1, !.need = need],
                      IF need = "io" THEN "generated" ELSE libs[l].io),
         Head(Jobs(l)).left > 0,
         UNCHANGED <<session, state, flags, constructed, blk_req, packet, signal>>,
         progress' = TRUE, Handlers'
  PROVE  IInv'
<1> DEFINE j == [Head(Jobs(l)) EXCEPT !.left = @ - 1, !.need = need]
           io == IF need = "io" THEN "generated" ELSE libs[l].io
<1>1. /\ Jobs(l) # <<>> /\ Head(Jobs(l)) = Jobs(l)[1] /\ Jobs(l)[1] \in Known_Job
      /\ libs[l].io = "none" /\ ~Completed(l)
  BY NeededIs, NoIo DEF Completed
<1>2. j \in Known_Job /\ j.op = Head(Jobs(l)).op /\ j.need = need
  <2> DEFINE h == Head(Jobs(l))
  <2>1. h \in Known_Job /\ h.left \in 0 .. Nr_Of_Steps /\ h.left > 0
    BY <1>1 DEF Known_Job, Job_Type
  <2>2. h.left - 1 \in 0 .. Nr_Of_Steps
    BY <2>1, TesterAssumption
  <2> HIDE DEF h
  <2>3. LET n == [h EXCEPT !.left = h.left - 1, !.need = need] IN
        n \in Known_Job /\ n.op = h.op /\ n.need = need
    BY <2>1, <2>2 DEF Known_Job, Job_Type
  <2> QED BY <2>3 DEF h
<1>3. io \in Io /\ (io # "none" => need = "io")
  BY <1>1 DEF Io
<1>4. libs' = With(l, [Jobs(l) EXCEPT ![1] = j], io)
  <2>1. libs' = Both(l, j, io)
    OBVIOUS
  <2> HIDE DEF j, io
  <2> QED BY <2>1, FirstAndIoForm DEF IInv
<1>5. TypesOther'
  BY DEF IInv, TypesOther, session
<1> HIDE DEF j, io
<1>6. j.need # "complete" /\ (io # "none" => j.need = "io")
  BY <1>2, <1>3
<1> QED BY <1>1, <1>2, <1>3, <1>4, <1>5, <1>6, WorkedIInv

(* The library has initialized itself.                                     *)
LEMMA InitializedIInv ==
  ASSUME IInv, NEW l \in Libs, Need(l) = "run", Head(Jobs(l)).op = "INITIALIZE",
         libs' = [libs EXCEPT ![l].jobs = Tail(Jobs(l))],
         UNCHANGED <<session, state, flags, constructed, blk_req, packet, signal>>,
         progress' = TRUE, Handlers'
  PROVE  IInv'
<1> DEFINE s == Jobs(l)
           t == Tail(s)
<1>0. UNCHANGED <<tests, in_progress, failed, created, exited, failures>>
  BY DEF session
<1>1. /\ s # <<>> /\ s \in Seq(Known_Job) /\ Head(s) = s[1] /\ s[1] \in Known_Job
      /\ libs[l].io = "none" /\ ~Completed(l)
  BY NeededIs, NoIo DEF Completed
<1>2. l = "CBE"
  <2>1. SUFFICES ASSUME l \in Tools PROVE FALSE
    BY Names
  <2>2. Head(s).op = Op(Running) /\ Running \in Of_Tool
    <3>1. Len(s) # 0 /\ Head(s).op = Op(Running)
      BY <1>1, <2>1, JobsAre DEF IInv, ToolsJobs
    <3> QED BY <2>1, <3>1 DEF IInv, ToolsJobs
  <2> QED BY <2>2 DEF Op, Of_Tool
<1>3. /\ t \in Seq(Known_Job) /\ Len(t) = Len(s) - 1
      /\ \A i \in 1 .. Len(s) - 1 : t[i] = s[i + 1]
  BY <1>1, FirstDropped
<1>4. Len(s) \in Nat /\ Len(s) > 0 /\ s \in Seq(Known_Job)
  BY <1>1, JobsAre
<1>5. /\ Running \notin Requests => t = <<>>
      /\ Running \in Requests =>
           /\ Len(s) = 2 /\ t # <<>> /\ Len(t) = 1 /\ t[1] = s[2] /\ Head(t) = s[2]
           /\ s[2].op = Running /\ s[2].need = "run"
  <2>1. CASE Running \notin Requests
    <3>1. Len(s) <= 1
      BY <1>2, <2>1 DEF IInv, LibraryJobs
    <3>2. Len(t) = 0
      BY <1>3, <1>4, <3>1
    <3> HIDE DEF t
    <3> QED BY <1>3, <2>1, <3>2, JobsAre
  <2>2. CASE Running \in Requests
    <3>1. Len(s) # 1
      <4>1. s[Len(s)].op = Running
        BY <1>2, <2>2, LastIs DEF IInv
      <4> QED BY <1>1, <2>2, <4>1 DEF Requests, In_Replay
    <3>2. Len(s) = 2 /\ s[2].op = Running /\ s[2].need = "run"
      BY <1>2, <2>2, <3>1, LastIs DEF IInv
    <3> HIDE DEF t, s
    <3>3. Len(t) = 1 /\ t[1] = s[2]
      BY <1>3, <3>2
    <3>4. t # <<>> /\ Head(t) = t[1]
      BY <1>3, <3>3, JobsAre
    <3> QED BY <2>2, <3>2, <3>3, <3>4
  <2> QED BY <2>1, <2>2
<1> HIDE DEF t, s
<1>6. /\ LibsType' /\ Jobs("CBE")' = t /\ libs'["CBE"].io = "none"
      /\ \A k \in Libs : k # "CBE" => libs'[k] = libs[k] /\ Jobs(k)' = Jobs(k)
  <2>1. libs' = With("CBE", t, "none")
    <3>1. libs' = [libs EXCEPT !["CBE"].jobs = t]
      BY <1>2 DEF s, t
    <3>2. libs["CBE"].io = "none"
      BY <1>1, <1>2
    <3>3. libs' = With("CBE", t, libs["CBE"].io)
      BY <3>1, Names, JobsForm DEF IInv
    <3> QED BY <3>2, <3>3
  <2> QED BY <1>3, <2>1, Names, Becomes DEF IInv, Io
<1>7. Running' = Running
  BY <1>0 DEF Running
<1>8. ToolsJobs' /\ StateOfTool' /\ FlagsOfTest' /\ IoOfJob' /\ ExitTruthful'
  BY <1>0, <1>6, <1>7, Names DEF IInv, ToolsJobs, StateOfTool, FlagsOfTest, IoOfJob, ExitTruthful
<1>9. LibraryJobs'
  <2>1. CASE Running \notin Requests
    <3>1. Len(<<>>) = 0
      OBVIOUS
    <3> QED BY <1>5, <1>6, <1>7, <2>1, <3>1 DEF IInv, LibraryJobs
  <2>2. CASE Running \in Requests
    BY <1>5, <1>6, <1>7, <2>2 DEF IInv, LibraryJobs
  <2> QED BY <2>1, <2>2
<1>10. LibraryGone'
  <2>1. constructed
    BY <1>1, <1>2 DEF IInv, LibraryGone, No_Jobs, Jobs, s
  <2> QED BY <2>1 DEF IInv, LibraryGone
<1>11. ~Completed("CBE") /\ ~Completed("CBE")'
  <2>1. ~Completed("CBE")'
    BY <1>5, <1>6 DEF Completed, Need, Jobs
  <2> QED BY <1>1, <1>2, <2>1
<1>12. Counted'
  <2>1. \A k \in Libs : HasFailed(k)' <=> HasFailed(k)
    BY <1>6, <1>11 DEF HasFailed, Completed, Need
  <2>2. (\E k \in Libs : HasFailed(k))' <=> \E k \in Libs : HasFailed(k)
    BY <2>1
  <2> QED BY <1>0, <2>2 DEF IInv, Counted
<1>13. DiscardKnown'
  BY <1>0 DEF IInv, DiscardKnown, Is_Created, Running
<1>14. TypesOther'
  BY <1>0 DEF IInv, TypesOther
<1> QED BY <1>6, <1>8, <1>9, <1>10, <1>12, <1>13, <1>14 DEF IInv

(* The library that works on something else than its initialization works  *)
(* on the test in progress; no job is complete.                            *)
LEMMA AtWork ==
  ASSUME IInv, NEW l \in Libs, Need(l) # "nothing", Head(Jobs(l)).op # "INITIALIZE"
  PROVE  /\ Running \in Requests <=> l = "CBE"
         /\ Running \in Of_Tool <=> l \in Tools
         /\ in_progress # No_Test /\ exited = "none"
         /\ Head(Jobs(l)).op = Op(Running) /\ Len(Jobs(l)) = 1
         /\ Jobs(l)[Len(Jobs(l))] = Head(Jobs(l))
         /\ \A k \in Libs : k # l => ~Completed(k)
<1>1. /\ Jobs(l) # <<>> /\ Jobs(l) \in Seq(Known_Job)
      /\ Head(Jobs(l)) = Jobs(l)[1] /\ Jobs(l)[1] \in Known_Job
  BY NeededIs
<1>2. CASE l = "CBE"
  <2>1. Running \in Requests /\ Len(Jobs(l)) # 2
    BY <1>1, <1>2 DEF IInv, LibraryJobs
  <2>2. Len(Jobs(l)) = 1 /\ Jobs(l)[Len(Jobs(l))].op = Running
    BY <1>2, <2>1, LastIs DEF IInv
  <2>3. Running \notin Of_Tool /\ Op(Running) = Running /\ in_progress # No_Test
    BY <2>1 DEF Requests, In_Replay, Of_Tool, Op, Running, No_Test
  <2>4. \A k \in Tools : ~Completed(k)
    <3>1. SUFFICES ASSUME NEW k \in Tools PROVE Jobs(k) = <<>>
      BY Names, CompletedIs
    <3>2. Len(Jobs(k)) = 0 /\ Jobs(k) \in Seq(Known_Job)
      BY <2>3, Names, LibsAre DEF IInv, ToolsJobs
    <3> QED BY <3>2, JobsAre
  <2>5. exited = "none"
    BY <2>3 DEF IInv, ExitTruthful
  <2> QED BY <1>1, <1>2, <2>1, <2>2, <2>3, <2>4, <2>5, Names
<1>3. CASE l \in Tools
  <2>1. Len(Jobs(l)) # 0
    BY <1>1, JobsAre
  <2>2. Running \in Of_Tool /\ l = Tool(Running) /\ Len(Jobs(l)) = 1
        /\ Head(Jobs(l)).op = Op(Running)
    BY <1>1, <1>3, <2>1 DEF IInv, ToolsJobs
  <2>3. Running \notin Requests /\ in_progress # No_Test
    BY <2>2 DEF Requests, In_Replay, Of_Tool, Running, No_Test
  <2>4. \A k \in Tools : k # l => ~Completed(k)
    <3>1. SUFFICES ASSUME NEW k \in Tools, k # l PROVE Jobs(k) = <<>>
      BY Names, CompletedIs
    <3>2. Len(Jobs(k)) = 0 /\ Jobs(k) \in Seq(Known_Job)
      BY <2>2, <3>1, Names, LibsAre DEF IInv, ToolsJobs
    <3> QED BY <3>2, JobsAre
  <2>5. ~Completed("CBE")
    <3>1. Jobs("CBE") \in Seq(Known_Job)
      BY Names, LibsAre DEF IInv
    <3>2. Jobs("CBE") # <<>> => Head(Jobs("CBE")).need # "complete"
      BY <2>3, <3>1, JobsAre DEF IInv, LibraryJobs
    <3> QED BY <3>2, Names, CompletedIs
  <2>6. exited = "none"
    BY <2>3 DEF IInv, ExitTruthful
  <2> QED BY <1>1, <1>3, <2>2, <2>3, <2>4, <2>5, <2>6, Names
<1> QED BY <1>2, <1>3, Names

(* The step that completes a job, with success or without.                 *)
LEMMA WorkCompletes ==
  ASSUME IInv, NEW l \in Libs, Need(l) = "run", Head(Jobs(l)).op # "INITIALIZE",
         NEW success \in BOOLEAN, success \/ Head(Jobs(l)).op \in May_Fail,
         libs' = [libs EXCEPT ![l].jobs[1] =
                    [Head(Jobs(l)) EXCEPT !.need = "complete", !.success = success]],
         failures' = IF success THEN failures ELSE failures + 1,
         UNCHANGED <<tests, in_progress, failed, created, exited, main, device>>,
         progress' = TRUE, Handlers'
  PROVE  IInv'
<1> DEFINE h == Head(Jobs(l))
           j == [h EXCEPT !.need = "complete", !.success = success]
<1>0. UNCHANGED <<state, flags, constructed, blk_req, packet, signal>> /\ Running' = Running
  BY DEF main, device, Running
<1>1. /\ Jobs(l) # <<>> /\ h = Jobs(l)[1] /\ h \in Known_Job
      /\ libs[l].io = "none" /\ ~Completed(l)
  BY NeededIs, NoIo DEF Completed
<1>2. /\ Running \in Requests <=> l = "CBE"
      /\ Running \in Of_Tool <=> l \in Tools
      /\ in_progress # No_Test /\ exited = "none"
      /\ h.op = Op(Running) /\ Len(Jobs(l)) = 1
      /\ Jobs(l)[Len(Jobs(l))] = h
      /\ \A k \in Libs : ~Completed(k)
  BY <1>1, AtWork
<1>3. /\ j \in Known_Job /\ j.op = h.op /\ j.need = "complete" /\ j.success = success
  <2>1. success \/ h.op \in May_Fail
    OBVIOUS
  <2> HIDE DEF h
  <2>2. j \in Job_Type /\ j.op = h.op /\ j.need = "complete" /\ j.success = success
    BY <1>1 DEF Known_Job, Job_Type
  <2> QED BY <2>1, <2>2 DEF Known_Job
<1>4. libs' = With(l, [Jobs(l) EXCEPT ![1] = j], "none")
  <2>1. libs' = [libs EXCEPT ![l].jobs[1] = j]
    OBVIOUS
  <2> HIDE DEF j
  <2>2. libs' = With(l, [Jobs(l) EXCEPT ![1] = j], libs[l].io)
    BY <2>1, FirstForm DEF IInv
  <2> QED BY <1>1, <2>2
<1>5. h.op # "INITIALIZE"
  OBVIOUS
<1> HIDE DEF h, j
<1>6. /\ LibsType' /\ ToolsJobs' /\ LibraryJobs' /\ IoOfJob' /\ LibraryGone' /\ StateOfTool'
      /\ Jobs(l)' # <<>> /\ Head(Jobs(l)') = j /\ Len(Jobs(l)') = Len(Jobs(l))
      /\ \A k \in Libs : k # l => libs'[k] = libs[k] /\ Jobs(k)' = Jobs(k)
  <2>1. j.op = Head(Jobs(l)).op
    BY <1>3 DEF h
  <2> QED BY <1>0, <1>1, <1>3, <1>4, <1>5, <2>1, WorkedStructure DEF IInv, Io
<1>7. FlagsOfTest' /\ ExitTruthful'
  BY <1>0, <1>2 DEF IInv, FlagsOfTest, ExitTruthful
<1>8. Completed(l)' /\ \A k \in Libs : k # l => ~Completed(k)'
  BY <1>2, <1>3, <1>6 DEF Completed, Need, Jobs
<1>9. Counted'
  <2>1. failures = failed /\ failed \in Nat
    BY <1>2 DEF IInv, Counted, HasFailed, TypesOther
  <2>2. HasFailed(l)' <=> ~success
    BY <1>3, <1>6, <1>8 DEF HasFailed
  <2>3. (\E k \in Libs : HasFailed(k))' <=> ~success
    BY <1>8, <2>2 DEF HasFailed
  <2> QED BY <2>1, <2>3 DEF Counted
<1>11. DiscardKnown'
  BY <1>0 DEF IInv, DiscardKnown, Is_Created
<1>12. TypesOther'
  BY <1>0 DEF IInv, TypesOther
<1> QED BY <1>6, <1>7, <1>9, <1>11, <1>12 DEF IInv

(* Any step of a library.                                                  *)
LEMMA ExecuteIInv ==
  ASSUME IInv, NEW l \in Libs, Execute(l), Handlers'
  PROVE  IInv'
<1>0. /\ UNCHANGED <<tests, in_progress, failed, created, exited, main, device>>
      /\ UNCHANGED <<state, flags, constructed, blk_req, packet, signal>>
  BY DEF Execute, main, device
<1>1. CASE UNCHANGED <<libs, failures, progress>>
  BY <1>0, <1>1, QuietIInv DEF IInv, TypesOther
<1>2. CASE Step(l) /\ progress' = TRUE
  <2> DEFINE job == Head(Jobs(l))
  <2>1. Need(l) = "run" /\ job \in Known_Job
    <3>1. Need(l) = "run"
      BY <1>2 DEF Step
    <3> QED BY <3>1, NeededIs
  <2>2. CASE /\ job.left > 0
             /\ \E need \in Needs(l, job.op) :
                  libs' = [libs EXCEPT ![l].jobs[1] = [job EXCEPT !.left = @ - 1, !.need = need],
                                       ![l].io = IF need = "io" THEN "generated" ELSE @]
             /\ UNCHANGED failures
    <3>1. PICK need \in {"io", "data", "crypto"} :
            libs' = [libs EXCEPT ![l].jobs[1] = [job EXCEPT !.left = @ - 1, !.need = need],
                                 ![l].io = IF need = "io" THEN "generated" ELSE @]
      BY <2>2 DEF Needs
    <3>2. UNCHANGED session
      BY <1>0, <2>2 DEF session
    <3>3. libs' = Both(l, [job EXCEPT !.left = @ - 1, !.need = need],
                       IF need = "io" THEN "generated" ELSE libs[l].io)
      BY <3>1 DEF Both, IInv, LibsType
    <3> QED BY <1>0, <1>2, <2>1, <2>2, <3>2, <3>3, WorkNeedsMore
  <2>3. CASE /\ job.op = "INITIALIZE"
             /\ libs' = [libs EXCEPT ![l].jobs = Tail(@)]
             /\ UNCHANGED failures
    <3>1. libs' = [libs EXCEPT ![l].jobs = Tail(Jobs(l))]
      BY <2>3 DEF Jobs
    <3>2. UNCHANGED session
      BY <1>0, <2>3 DEF session
    <3> QED BY <1>0, <1>2, <2>1, <2>3, <3>1, <3>2, InitializedIInv
  <2>4. CASE job.op # "INITIALIZE" /\
             \E success \in BOOLEAN :
               /\ success \/ job.op \in May_Fail
               /\ libs' = [libs EXCEPT ![l].jobs[1] =
                             [job EXCEPT !.need = "complete", !.success = success]]
               /\ failures' = IF success THEN failures ELSE failures + 1
    BY <1>0, <1>2, <2>1, <2>4, WorkCompletes
  <2> QED BY <1>2, <2>2, <2>3, <2>4 DEF Step, Jobs
<1> QED BY <1>1, <1>2 DEF Execute

(* A sum of which one part is zero.                                        *)
LEMMA NothingAdded == \A n \in Nat : n + 0 = n
OBVIOUS

(* The end of the run of a tool.                                           *)
LEMMA ToolDoneIInv ==
  ASSUME IInv, NEW l \in Tools, state = l, Tool_Done(l)
  PROVE  IInv'
<1>0. /\ UNCHANGED <<tests, created, exited, failures, flags, constructed, blk_req, signal>>
      /\ pc' \in {"initialize", "idle"} /\ progress' \in BOOLEAN
      /\ packet' \in {"none", "queued", "submitted", "acknowledged"}
  BY DEF Tool_Done, End_Of_Pass, Wakeup, IInv, TypesOther
<1>1. Handlers'
  BY <1>0 DEF Handlers
<1>2. CASE UNCHANGED <<libs, failed, in_progress, state>>
  BY <1>0, <1>1, <1>2, QuietIInv DEF IInv, TypesOther
<1>3. CASE /\ Completed(l) /\ Drop_Completed_Client_Request(l)
           /\ Test_Done(Head(libs[l].jobs).success) /\ state' = "INVALID"
  <2> DEFINE s == Jobs(l)
  <2>1. /\ l \in Libs /\ s # <<>> /\ s \in Seq(Known_Job) /\ Head(s) = s[1]
        /\ s[1].need = "complete"
    <3>1. l \in Libs /\ Need(l) = "complete"
      BY <1>3, Names DEF Completed
    <3> QED BY <3>1, NeededIs
  <2>2. Running \in Of_Tool /\ l = Tool(Running) /\ Len(s) = 1 /\ s[1].op = Op(Running)
    <3>1. Len(s) # 0
      BY <2>1, JobsAre
    <3> QED BY <2>1, <3>1 DEF IInv, ToolsJobs
  <2>3. Tail(s) = <<>>
    <3>1. Tail(s) \in Seq(Known_Job) /\ Len(Tail(s)) = 0
      BY <2>1, <2>2, FirstDropped
    <3> QED BY <3>1, JobsAre
  <2>4. libs[l].io = "none"
    BY <2>1 DEF IInv, IoOfJob
  <2>5. libs' = [libs EXCEPT ![l].jobs = <<>>]
    BY <1>3, <2>3 DEF Drop_Completed_Client_Request, Jobs
  <2>6. /\ in_progress' = No_Test /\ state' = "INVALID"
        /\ failed' = IF Head(s).success THEN failed ELSE failed + 1
    BY <1>3 DEF Test_Done, Count, Jobs
  <2>7. /\ LibsType' /\ Jobs(l)' = <<>> /\ libs'[l].io = "none"
        /\ \A k \in Libs : k # l => libs'[k] = libs[k] /\ Jobs(k)' = Jobs(k)
    <3>1. libs' = With(l, <<>>, "none")
      BY <2>1, <2>4, <2>5, JobsForm DEF IInv
    <3>2. <<>> \in Seq(Known_Job)
      OBVIOUS
    <3> QED BY <2>1, <3>1, <3>2, Becomes DEF IInv, Io
  <2>8. Running \notin Requests /\ Running' \notin Of_Tool \cup Requests
        /\ Running' # "LIST_SNAPSHOTS"
    BY <2>2, <2>6 DEF Running, No_Test, Of_Tool, Requests, In_Replay
  <2>9. /\ \A k \in Tools : k # l => Jobs(k) = <<>>
        /\ Jobs("CBE") # <<>> => Head(Jobs("CBE")).need # "complete"
    <3>1. SUFFICES ASSUME NEW k \in Tools, k # l PROVE Jobs(k) = <<>>
      <4>1. Jobs("CBE") \in Seq(Known_Job)
        BY Names, LibsAre DEF IInv
      <4>2. Jobs("CBE") # <<>> => Head(Jobs("CBE")).need # "complete"
        BY <2>8, <4>1, JobsAre DEF IInv, LibraryJobs
      <4> QED BY <4>2
    <3>2. Len(Jobs(k)) = 0 /\ Jobs(k) \in Seq(Known_Job)
      BY <2>2, <3>1, Names, LibsAre DEF IInv, ToolsJobs
    <3> QED BY <3>2, JobsAre
  <2>10. ToolsJobs'
    <3>1. \A k \in Tools : Jobs(k)' = <<>>
      BY <2>7, <2>9, Names
    <3> QED BY <2>8, <3>1 DEF ToolsJobs
  <2>11. Jobs("CBE")' = Jobs("CBE") /\ libs'["CBE"] = libs["CBE"]
    BY <2>7, Names
  <2>12. LibraryJobs'
    BY <2>8, <2>11 DEF IInv, LibraryJobs
  <2>13. StateOfTool'
    BY <2>6, <2>8 DEF StateOfTool, Tools
  <2>14. FlagsOfTest'
    BY <1>0, <2>8 DEF IInv, FlagsOfTest
  <2>15. IoOfJob' /\ LibraryGone'
    BY <1>0, <2>6, <2>7, <2>11 DEF IInv, IoOfJob, LibraryGone
  <2>16. Counted'
    <3>1. \A k \in Libs : k # l => ~HasFailed(k)
      BY <2>9, Names, CompletedIs DEF HasFailed
    <3>2. \A k \in Libs : ~HasFailed(k)'
      BY <2>7, <3>1 DEF HasFailed, Completed, Need, Jobs
    <3>3. HasFailed(l) <=> ~Head(s).success
      BY <1>3 DEF HasFailed
    <3>4. failures = failed'
      BY <2>1, <2>6, <3>1, <3>3 DEF IInv, Counted, TypesOther
    <3>5. failed' \in Nat /\ failures' = failed'
      BY <1>0, <3>4 DEF IInv, TypesOther
    <3>6. failures' = failed' + 0
      BY <3>5, NothingAdded
    <3> QED BY <3>2, <3>6 DEF Counted
  <2>17. DiscardKnown'
    BY <2>8 DEF DiscardKnown, Requests, In_Replay
  <2>18. TypesOther' /\ ExitTruthful'
    BY <1>0, <2>6 DEF IInv, TypesOther, ExitTruthful
  <2> QED BY <1>1, <2>7, <2>10, <2>12, <2>13, <2>14, <2>15, <2>16, <2>17, <2>18 DEF IInv
<1> QED BY <1>2, <1>3 DEF Tool_Done

(* What the CBE library has completed is the test in progress.             *)
LEMMA CompletedTest ==
  ASSUME IInv, state \notin Tools, Completed("CBE")
  PROVE  /\ Running \in Requests /\ Head(Jobs("CBE")) = Jobs("CBE")[Len(Jobs("CBE"))]
         /\ Head(Jobs("CBE")).op = Running /\ Head(Jobs("CBE")) \in Known_Job
         /\ Head(Jobs("CBE")).need = "complete"
         /\ constructed /\ libs["CBE"].jobs = Jobs("CBE")
<1>1. Need("CBE") # "nothing" /\ Head(Jobs("CBE")).op # "INITIALIZE"
  <2>1. Jobs("CBE") \in Seq(Known_Job) /\ Jobs("CBE") # <<>>
        /\ Head(Jobs("CBE")).need = "complete"
    BY Names, LibsAre, CompletedIs DEF IInv
  <2>2. Head(Jobs("CBE")) = Jobs("CBE")[1] /\ (Len(Jobs("CBE")) = 1 \/ Running \notin Requests
                                               \/ Len(Jobs("CBE")) = 2)
    BY <2>1, JobsAre, LastIs DEF IInv
  <2>3. Running \in Requests /\ Len(Jobs("CBE")) # 2
    BY <2>1, <2>2 DEF IInv, LibraryJobs
  <2>4. Head(Jobs("CBE")).op = Running
    BY <2>2, <2>3, LastIs DEF IInv
  <2> QED BY <2>3, <2>4 DEF Completed, Requests, In_Replay
<1>2. Running \in Requests /\ Head(Jobs("CBE")).op = Op(Running)
      /\ Head(Jobs("CBE")) = Jobs("CBE")[Len(Jobs("CBE"))]
  BY <1>1, Names, AtWork
<1>3. Op(Running) = Running
  BY <1>2 DEF Op, Requests, In_Replay
<1>4. constructed
  BY DEF IInv, LibraryGone, No_Jobs, Completed, Need
<1> QED BY <1>1, <1>2, <1>3, <1>4, Names, NeededIs DEF Jobs, Completed

(* The handlers for the CBE library.                                       *)
Flagged == Requests \ {"REQUEST"}

(* A flag that is set is that of the test in progress.                     *)
LEMMA FlagIs ==
  ASSUME IInv
  PROVE  /\ \A type \in Flagged : type \in flags => Running = type /\ flags \ {type} = {}
         /\ flags = {} /\ Running \in Requests => Running = "REQUEST"
BY DEF IInv, FlagsOfTest, Flagged

(* A handler of the CBE library that does nothing.                         *)
LEMMA NothingIInv ==
  ASSUME IInv, NEW type, Nothing_Done \/ Start_Nothing(type), Handlers'
  PROVE  IInv'
<1>1. UNCHANGED <<tests, in_progress, failed, created, failures, state, flags, constructed, libs,
                  blk_req, packet, signal, progress>>
  BY DEF Nothing_Done, Start_Nothing, Not_Found, session, main, device
<1>2. UNCHANGED exited \/ Look_For_Test
  BY DEF Nothing_Done, Start_Nothing, Not_Found, session
<1> QED BY <1>1, <1>2, QuietIInv DEF IInv, TypesOther

(* The handlers of the CBE library that the tools do not have.             *)
Later == {"requests", "acknowledge_request", "create_snapshot", "discard_snapshot",
          "deinitialize", "list_snapshots", "rekey", "extend_vbd", "extend_ft", "client_data",
          "crypto"}

(* The handlers of the CBE library stay there.                             *)
LEMMA LibraryHandlers ==
  ASSUME IInv, state \notin Tools, pc \in Later \cup {"execute", "submit", "acknowledge", "final"},
         UNCHANGED constructed, state' \notin Tools
  PROVE  constructed /\ Handlers'
BY DEF IInv, Handlers, Later

(* A handler with a flag; its request is the one that it expects.          *)
LEMMA WithFlagIInv ==
  ASSUME IInv, state \notin Tools, NEW at \in Later,
         NEW type \in Flagged \ {"CREATE_SNAPSHOT", "DISCARD_SNAPSHOT"}, NEW next,
         With_Flag(at, type, next)
  PROVE  IInv' /\ UNCHANGED error
<1>0. pc = at /\ type \in Requests /\ type # "REQUEST" /\ type # "DISCARD_SNAPSHOT"
  BY DEF With_Flag, Flagged
<1>1. CASE Start_With_Flag(type)
  <2>1. UNCHANGED <<constructed, state, error>> /\ state \in {"INVALID", "CBE"}
    BY <1>1 DEF Start_With_Flag, Start_Request, IInv, TypesOther
  <2>2. constructed /\ Handlers'
    BY <1>0, <2>1, LibraryHandlers
  <2> QED BY <1>0, <1>1, <2>1, <2>2, RequestStartsIInv DEF Start_With_Flag
<1>2. CASE Start_Nothing(type) \/ Wait(type)
  <2>1. UNCHANGED <<constructed, state, error>>
    BY <1>2 DEF Start_Nothing, Wait, Nothing_Done, main
  <2>2. Handlers'
    BY <1>0, <2>1, LibraryHandlers
  <2> QED BY <1>2, <2>1, <2>2, NothingIInv DEF Wait
<1>3. CASE Done(type) /\ Expect(type) /\ Request_Done(flags \ {type}) /\ UNCHANGED created
  <2>1. Completed("CBE") /\ Running = type /\ flags \ {type} = {}
    BY <1>3, FlagIs DEF Done
  <2>2. /\ Head(Jobs("CBE")).op = Running /\ constructed /\ Running \in Requests
        /\ libs["CBE"].jobs = Jobs("CBE")
    BY <2>1, CompletedTest
  <2>3. UNCHANGED error
    BY <1>3, <2>1, <2>2 DEF Expect
  <2>4. UNCHANGED constructed /\ state' \notin Tools
    BY <1>3 DEF Request_Done, Next_State, Tools
  <2>5. Handlers'
    BY <1>0, <2>4, LibraryHandlers
  <2>6. IsABag(created') /\ BagToSet(created') \subseteq Nat
    BY <1>3 DEF IInv, TypesOther
  <2> QED BY <1>3, <2>1, <2>2, <2>3, <2>5, <2>6, RequestDoneIInv
<1> QED BY <1>1, <1>2, <1>3 DEF With_Flag

(* The handler of requests for blocks.                                     *)
LEMMA WithRequestsIInv ==
  ASSUME IInv, state \notin Tools, With_Requests
  PROVE  IInv'
<1>0. pc = "requests" /\ pc \in Later
  BY DEF With_Requests, Later
<1>1. CASE Start_Request("REQUEST") /\ state' = "CBE" /\ UNCHANGED flags
  <2>1. UNCHANGED constructed /\ state' \notin Tools
    BY <1>1 DEF Start_Request, Tools
  <2>2. constructed /\ Handlers'
    BY <1>0, <2>1, LibraryHandlers
  <2>3. "REQUEST" \in Requests
    BY DEF Requests, In_Replay
  <2> QED BY <1>1, <2>2, <2>3, RequestStartsIInv
<1>2. CASE Start_Nothing("REQUEST")
  <2>1. UNCHANGED <<constructed, state>>
    BY <1>2 DEF Start_Nothing, main
  <2>2. Handlers'
    BY <1>0, <2>1, LibraryHandlers
  <2> QED BY <1>2, <2>2, NothingIInv
<1> QED BY <1>1, <1>2 DEF With_Requests

(* The end of a request for blocks.                                        *)
LEMMA TryAcknowledgeIInv ==
  ASSUME IInv, state \notin Tools, Try_Acknowledge
  PROVE  IInv'
<1>0. pc = "acknowledge_request" /\ pc \in Later
  BY DEF Try_Acknowledge, Later
<1>1. CASE flags = {} /\ Completed("CBE") /\ Request_Done(flags) /\ UNCHANGED <<created, error>>
  <2>1. constructed /\ Running \in Requests
    BY <1>1, CompletedTest
  <2>2. Running = "REQUEST"
    BY <1>1, <2>1, FlagIs
  <2>3. UNCHANGED constructed /\ state' \notin Tools
    BY <1>1 DEF Request_Done, Next_State, Tools
  <2>4. Handlers'
    BY <1>0, <2>3, LibraryHandlers
  <2>5. IsABag(created') /\ BagToSet(created') \subseteq Nat
    BY <1>1 DEF IInv, TypesOther
  <2> QED BY <1>1, <2>1, <2>4, <2>5, RequestDoneIInv
<1>2. CASE Nothing_Done
  <2>1. UNCHANGED <<constructed, state>>
    BY <1>2 DEF Nothing_Done, main
  <2>2. Handlers'
    BY <1>0, <2>1, LibraryHandlers
  <2> QED BY <1>2, <2>2, NothingIInv
<1> QED BY <1>1, <1>2 DEF Try_Acknowledge

(* One more snapshot in the bag of those created.                          *)
LEMMA OneMore ==
  ASSUME NEW B, IsABag(B), NEW id
  PROVE  /\ IsABag(B (+) SetToBag({id}))
         /\ BagToSet(B (+) SetToBag({id})) = BagToSet(B) \cup {id}
<1>1. \A e \in DOMAIN B : B[e] \in Nat /\ B[e] > 0
  BY DEF IsABag
<1> QED BY <1>1 DEF IsABag, BagToSet, SetToBag, (+)

(* One less, of an ID of which there may be others.                        *)
LEMMA OneLess ==
  ASSUME NEW B, IsABag(B), NEW id
  PROVE  /\ IsABag(B (-) SetToBag({id}))
         /\ BagToSet(B (-) SetToBag({id})) \subseteq BagToSet(B)
         /\ BagToSet(B) \ {id} \subseteq BagToSet(B (-) SetToBag({id}))
<1>1. \A e \in DOMAIN B : B[e] \in Nat /\ B[e] > 0
  BY DEF IsABag
<1> QED BY <1>1 DEF IsABag, BagToSet, SetToBag, (-)

(* The created snapshots after the two handlers that change them.          *)
LEMMA CreatedIs ==
  ASSUME IInv, Running \in Requests, NEW success
  PROVE  /\ create_snapshot_done(success) =>
              /\ IsABag(created') /\ BagToSet(created') \subseteq Nat
              /\ BagToSet(created) \subseteq BagToSet(created')
              /\ success => in_progress.id \in BagToSet(created')
         /\ discard_snapshot_done(success) =>
              /\ IsABag(created') /\ BagToSet(created') \subseteq Nat
              /\ BagToSet(created) \ {in_progress.id} \subseteq BagToSet(created')
<1>1. IsABag(created) /\ BagToSet(created) \subseteq Nat /\ in_progress.id \in Nat
  BY DEF IInv, TypesOther, Test, No_Test
<1> DEFINE more == created (+) SetToBag({in_progress.id})
           less == created (-) SetToBag({in_progress.id})
<1>2. IsABag(more) /\ BagToSet(more) = BagToSet(created) \cup {in_progress.id}
  BY <1>1, OneMore
<1>3. /\ IsABag(less) /\ BagToSet(less) \subseteq BagToSet(created)
      /\ BagToSet(created) \ {in_progress.id} \subseteq BagToSet(less)
  BY <1>1, OneLess
<1>4. create_snapshot_done(success) => created' = IF success THEN more ELSE created
  BY DEF create_snapshot_done
<1>5. discard_snapshot_done(success) => created' = IF success THEN less ELSE created
  BY DEF discard_snapshot_done
<1> HIDE DEF more, less
<1> QED BY <1>1, <1>2, <1>3, <1>4, <1>5

(* A snapshot that has been created is known by the ID of the test.        *)
LEMMA WithCreateSnapshotIInv ==
  ASSUME IInv, state \notin Tools, With_Create_Snapshot
  PROVE  IInv'
<1> DEFINE type == "CREATE_SNAPSHOT"
<1>0. pc = "create_snapshot" /\ pc \in Later /\ type \in Requests /\ type \in Flagged
  BY DEF With_Create_Snapshot, Later, Requests, Flagged, In_Replay
<1>1. CASE Start_With_Flag(type)
  <2>1. UNCHANGED <<constructed, state>> /\ state \in {"INVALID", "CBE"}
    BY <1>1 DEF Start_With_Flag, Start_Request, IInv, TypesOther
  <2>2. constructed /\ Handlers'
    BY <1>0, <2>1, LibraryHandlers
  <2> QED BY <1>0, <1>1, <2>1, <2>2, RequestStartsIInv DEF Start_With_Flag
<1>2. CASE Start_Nothing(type) \/ Wait(type)
  <2>1. UNCHANGED <<constructed, state>>
    BY <1>2 DEF Start_Nothing, Wait, Nothing_Done, main
  <2>2. Handlers'
    BY <1>0, <2>1, LibraryHandlers
  <2> QED BY <1>2, <2>2, NothingIInv DEF Wait
<1>3. CASE Done(type) /\ create_snapshot_done(Head(libs["CBE"].jobs).success)
           /\ Request_Done(flags \ {type})
  <2>1. Completed("CBE") /\ Running = type /\ flags \ {type} = {}
    BY <1>0, <1>3, FlagIs DEF Done
  <2>2. /\ Head(Jobs("CBE")) \in Known_Job /\ constructed /\ Running \in Requests
        /\ libs["CBE"].jobs = Jobs("CBE")
    BY <2>1, CompletedTest
  <2>3. UNCHANGED constructed /\ state' \notin Tools
    BY <1>3 DEF Request_Done, Next_State, Tools
  <2>4. Handlers'
    BY <1>0, <2>3, LibraryHandlers
  <2>5. IsABag(created') /\ BagToSet(created') \subseteq Nat
    BY <1>3, <2>2, CreatedIs
  <2> QED BY <1>3, <2>1, <2>2, <2>4, <2>5, RequestDoneIInv
<1> QED BY <1>1, <1>2, <1>3 DEF With_Create_Snapshot

(* A snapshot that has been discarded is forgotten.                        *)
LEMMA WithDiscardSnapshotIInv ==
  ASSUME IInv, state \notin Tools, With_Discard_Snapshot
  PROVE  IInv'
<1> DEFINE type == "DISCARD_SNAPSHOT"
<1>0. pc = "discard_snapshot" /\ pc \in Later /\ type \in Requests /\ type \in Flagged
  BY DEF With_Discard_Snapshot, Later, Requests, Flagged, In_Replay
<1>1. CASE /\ Is_Created(Head(tests).id)
           /\ Start_With_Flag(type)
  <2>1. UNCHANGED <<constructed, state>> /\ state \in {"INVALID", "CBE"}
    BY <1>1 DEF Start_With_Flag, Start_Request, IInv, TypesOther
  <2>2. constructed /\ Handlers'
    BY <1>0, <2>1, LibraryHandlers
  <2> QED BY <1>0, <1>1, <2>1, <2>2, RequestStartsIInv DEF Start_With_Flag
<1>2. CASE Head_Is(type) /\ Discard_Unknown_Snapshot
  <2>1. UNCHANGED <<constructed, state>>
    BY <1>2 DEF Discard_Unknown_Snapshot, main
  <2>2. Handlers'
    BY <1>0, <2>1, LibraryHandlers
  <2> QED BY <1>2, <2>2, AtOnceIInv DEF Head_Is, Discard_Unknown_Snapshot
<1>3. CASE Start_Nothing(type) \/ Wait(type)
  <2>1. UNCHANGED <<constructed, state>>
    BY <1>3 DEF Start_Nothing, Wait, Nothing_Done, main
  <2>2. Handlers'
    BY <1>0, <2>1, LibraryHandlers
  <2> QED BY <1>3, <2>2, NothingIInv DEF Wait
<1>4. CASE Done(type) /\ discard_snapshot_done(Head(libs["CBE"].jobs).success)
           /\ Request_Done(flags \ {type})
  <2>1. Completed("CBE") /\ Running = type /\ flags \ {type} = {}
    BY <1>0, <1>4, FlagIs DEF Done
  <2>2. /\ Head(Jobs("CBE")) = Jobs("CBE")[Len(Jobs("CBE"))] /\ constructed
        /\ Running \in Requests /\ libs["CBE"].jobs = Jobs("CBE")
    BY <2>1, CompletedTest
  <2>3. UNCHANGED constructed /\ state' \notin Tools
    BY <1>4 DEF Request_Done, Next_State, Tools
  <2>4. Handlers'
    BY <1>0, <2>3, LibraryHandlers
  <2>5. IsABag(created') /\ BagToSet(created') \subseteq Nat
    BY <1>4, <2>2, CreatedIs
  <2> QED BY <1>4, <2>1, <2>2, <2>4, <2>5, RequestDoneIInv
<1> QED BY <1>1, <1>2, <1>3, <1>4 DEF With_Discard_Snapshot

(* The list of snapshots changes nothing but the list of tests.            *)
LEMMA WithListSnapshotsIInv ==
  ASSUME IInv, state \notin Tools, With_List_Snapshots
  PROVE  IInv'
<1>0. pc = "list_snapshots" /\ pc \in Later
  BY DEF With_List_Snapshots, Later
<1>1. CASE /\ Head_Is("LIST_SNAPSHOTS") /\ tests' = Tail(tests)
           /\ UNCHANGED <<in_progress, failed, created, exited, failures, main, libs, device,
                          progress>>
  <2>1. UNCHANGED <<constructed, state>>
    BY <1>1 DEF main
  <2>2. Handlers'
    BY <1>0, <2>1, LibraryHandlers
  <2> QED BY <1>1, <2>2, AtOnceIInv DEF Head_Is
<1>2. CASE Start_Nothing("LIST_SNAPSHOTS")
  <2>1. UNCHANGED <<constructed, state>>
    BY <1>2 DEF Start_Nothing, main
  <2>2. Handlers'
    BY <1>0, <2>1, LibraryHandlers
  <2> QED BY <1>2, <2>2, NothingIInv
<1> QED BY <1>1, <1>2 DEF With_List_Snapshots

(* The end of a pass over the CBE library.                                 *)
LEMMA FinalIInv ==
  ASSUME IInv, state \notin Tools, Final
  PROVE  IInv'
<1>0. /\ UNCHANGED <<tests, in_progress, failed, created, exited, failures, flags, constructed,
                     libs, blk_req, signal>>
      /\ pc = "final" /\ pc' \in {"initialize", "idle"} /\ progress' \in BOOLEAN
      /\ state' \in {state, "INVALID", "CBE"}
      /\ packet' \in {"none", "queued", "submitted", "acknowledged"}
  BY DEF Final, End_Of_Pass, Wakeup, Next_State, session, IInv, TypesOther
<1>1. constructed
  BY <1>0 DEF IInv, Handlers
<1>2. Handlers'
  BY <1>0 DEF Handlers
<1>3. Running \notin Of_Tool /\ state' \notin Tools
  BY <1>0, Names DEF IInv, StateOfTool, Tools
<1>4. StateOfTool' /\ LibraryGone' /\ TypesOther'
  BY <1>0, <1>1, <1>3 DEF StateOfTool, LibraryGone, TypesOther, IInv, Running
<1>5. ExitTruthful'
  BY <1>0, ExitStays
<1> QED BY <1>0, <1>2, <1>4, <1>5, StillIInv

(* The handlers of the library, in any order.                              *)
LEMMA LibraryIInv ==
  ASSUME IInv, _execute_cbe
  PROVE  IInv'
<1>0. state \notin Tools /\ "CBE" \in Libs
  BY Names DEF _execute_cbe
<1> DEFINE rest == {"execute", "submit", "acknowledge", "final"}
<1>1. CASE With_Requests
  BY <1>0, <1>1, WithRequestsIInv
<1>2. CASE Try_Acknowledge
  BY <1>0, <1>2, TryAcknowledgeIInv
<1>3. CASE With_Create_Snapshot
  BY <1>0, <1>3, WithCreateSnapshotIInv
<1>4. CASE With_Discard_Snapshot
  BY <1>0, <1>4, WithDiscardSnapshotIInv
<1>5. CASE With_List_Snapshots
  BY <1>0, <1>5, WithListSnapshotsIInv
<1>6. CASE With_Deinitialize \/ With_Rekey \/ With_Extend_Vbd \/ With_Extend_Ft
  <2>1. \A type \in {"DEINITIALIZE", "REKEY", "EXTEND_VBD", "EXTEND_FT"} :
          type \in Flagged \ {"CREATE_SNAPSHOT", "DISCARD_SNAPSHOT"}
    BY DEF Flagged, Requests, In_Replay
  <2>2. \A at \in {"deinitialize", "rekey", "extend_vbd", "extend_ft"} : at \in Later
    BY DEF Later
  <2> QED BY <1>0, <1>6, <2>1, <2>2, WithFlagIInv
          DEF With_Deinitialize, With_Rekey, With_Extend_Vbd, With_Extend_Ft
<1>7. CASE Execute("CBE") /\ pc' = "client_data"
  <2>1. pc = "execute" /\ UNCHANGED <<constructed, state>>
    BY <1>7 DEF Execute, main
  <2>2. Handlers'
    BY <1>0, <2>1, LibraryHandlers
  <2> QED BY <1>0, <1>7, <2>2, ExecuteIInv
<1>8. CASE Client_Data
  <2>1. /\ pc \in Later /\ UNCHANGED <<constructed, state>> /\ Supply("CBE", "data")
        /\ UNCHANGED <<session, main, device>>
    BY <1>8 DEF Client_Data, Later, main
  <2>2. Handlers'
    BY <1>0, <2>1, LibraryHandlers
  <2> QED BY <2>1, <2>2, SupplyIInv
<1>9. CASE Submit_Packet("CBE") /\ pc' = "acknowledge"
  <2>1. pc = "submit" /\ UNCHANGED <<constructed, state>>
    BY <1>9 DEF Submit_Packet
  <2>2. Handlers'
    BY <1>0, <2>1, LibraryHandlers
  <2> QED BY <1>0, <1>9, <2>2, SubmitPacketIInv
<1>10. CASE Acknowledge_Packet("CBE") /\ pc' = "crypto"
  <2>1. pc = "acknowledge" /\ UNCHANGED <<constructed, state>>
    BY <1>10 DEF Acknowledge_Packet
  <2>2. Handlers'
    BY <1>0, <2>1, LibraryHandlers
  <2> QED BY <1>0, <1>10, <2>2, AcknowledgePacketIInv
<1>11. CASE Crypto
  <2>1. /\ pc \in Later /\ UNCHANGED <<constructed, state>> /\ Supply("CBE", "crypto")
        /\ UNCHANGED <<session, main, device>>
    BY <1>11 DEF Crypto, Later, main
  <2>2. Handlers'
    BY <1>0, <2>1, LibraryHandlers
  <2> QED BY <2>1, <2>2, SupplyIInv
<1>12. CASE Final
  BY <1>0, <1>12, FinalIInv
<1> QED BY <1>1, <1>2, <1>3, <1>4, <1>5, <1>6, <1>7, <1>8, <1>9, <1>10, <1>11, <1>12
        DEF _execute_cbe

(* The handlers of a tool stay there.                                      *)
LEMMA ToolHandlers ==
  ASSUME IInv, state \in Tools, pc \in {"execute", "submit", "acknowledge"},
         UNCHANGED <<constructed, state>>, pc' \in {"submit", "acknowledge", "final"}
  PROVE  Handlers'
BY DEF IInv, Handlers

(* The handlers of a tool, in any order.                                   *)
LEMMA ToolIInv ==
  ASSUME IInv, NEW l \in Tools, Execute_Tool(l)
  PROVE  IInv'
<1>0. state = l /\ state \in Tools /\ l \in Libs
  BY Names DEF Execute_Tool
<1>1. CASE Execute(l) /\ pc' = "submit"
  <2>1. pc = "execute" /\ UNCHANGED <<constructed, state>>
    BY <1>1 DEF Execute, main
  <2>2. Handlers'
    BY <1>0, <1>1, <2>1, ToolHandlers
  <2> QED BY <1>0, <1>1, <2>2, ExecuteIInv
<1>2. CASE Submit_Packet(l) /\ pc' = "acknowledge"
  <2>1. pc = "submit" /\ UNCHANGED <<constructed, state>>
    BY <1>2 DEF Submit_Packet
  <2>2. Handlers'
    BY <1>0, <1>2, <2>1, ToolHandlers
  <2> QED BY <1>0, <1>2, <2>2, SubmitPacketIInv
<1>3. CASE Acknowledge_Packet(l) /\ pc' = "final"
  <2>1. pc = "acknowledge" /\ UNCHANGED <<constructed, state>>
    BY <1>3 DEF Acknowledge_Packet
  <2>2. Handlers'
    BY <1>0, <1>3, <2>1, ToolHandlers
  <2> QED BY <1>0, <1>3, <2>2, AcknowledgePacketIInv
<1>4. CASE Tool_Done(l)
  BY <1>0, <1>4, ToolDoneIInv
<1> QED BY <1>1, <1>2, <1>3, <1>4 DEF Execute_Tool

(* The handlers that give the tools their tests.                           *)
LEMMA ToolsIInv ==
  ASSUME IInv, With_Initialize \/ With_Check \/ With_Dump
  PROVE  IInv'
<1>1. /\ \A type \in {"INITIALIZE", "CHECK", "DUMP"} : type \in Of_Tool
      /\ Op("INITIALIZE") = "INITIALIZE_DEVICE" /\ Tool("INITIALIZE") = "CBE_INIT"
      /\ Op("CHECK") = "CHECK" /\ Tool("CHECK") = "CBE_CHECK"
      /\ Op("DUMP") = "DUMP" /\ Tool("DUMP") = "CBE_DUMP"
  BY DEF Of_Tool, Op, Tool
<1>2. CASE With_Initialize
  <2>1. With_Tool("initialize", "INITIALIZE", Op("INITIALIZE"), Tool("INITIALIZE"), "check")
    BY <1>1, <1>2 DEF With_Initialize
  <2> QED BY <1>1, <2>1, WithToolIInv
<1>3. CASE With_Check
  <2>1. With_Tool("check", "CHECK", Op("CHECK"), Tool("CHECK"), "dump")
    BY <1>1, <1>3 DEF With_Check
  <2> QED BY <1>1, <2>1, WithToolIInv
<1>4. CASE With_Dump
  <2>1. With_Tool("dump", "DUMP", Op("DUMP"), Tool("DUMP"), "switch")
    BY <1>1, <1>4 DEF With_Dump
  <2> QED BY <1>1, <2>1, WithToolIInv
<1> QED BY <1>2, <1>3, <1>4

(* Every step keeps IInv.                                                  *)
LEMMA NextIInv ==
  ASSUME IInv, Next
  PROVE  IInv'
<1>1. CASE With_Initialize \/ With_Check \/ With_Dump
  BY <1>1, ToolsIInv
<1>2. CASE Switch
  BY <1>2, SwitchIInv
<1>3. CASE _execute_cbe
  BY <1>3, LibraryIInv
<1>4. CASE _execute_cbe_init \/ _execute_cbe_check \/ _execute_cbe_dump
  BY <1>4, ToolIInv DEF _execute_cbe_init, _execute_cbe_check, _execute_cbe_dump, Tools
<1>5. CASE Request_Handler
  <2>1. /\ UNCHANGED <<tests, in_progress, failed, created, failures, state, flags, constructed,
                       libs, blk_req, exited, packet>>
        /\ progress' = FALSE /\ signal' = FALSE /\ pc' = "initialize"
    BY <1>5 DEF Request_Handler, session, main
  <2>2. Handlers'
    BY <2>1 DEF Handlers
  <2> QED BY <2>1, <2>2, QuietIInv DEF IInv, TypesOther
<1>6. CASE Device_Answers
  <2>1. /\ UNCHANGED <<tests, in_progress, failed, created, failures, state, flags, constructed,
                       libs, blk_req, exited, progress, pc>>
        /\ packet' = "acknowledged" /\ signal' = TRUE
    BY <1>6 DEF Device_Answers, session, main
  <2>2. Handlers'
    BY <2>1 DEF IInv, Handlers
  <2> QED BY <2>1, <2>2, QuietIInv DEF IInv, TypesOther
<1> QED BY <1>1, <1>2, <1>3, <1>4, <1>5, <1>6 DEF Next, _execute

(* A stuttering step does.                                                 *)
LEMMA SameIInv ==
  ASSUME IInv, UNCHANGED vars
  PROVE  IInv'
<1>1. /\ UNCHANGED <<tests, in_progress, failed, created, failures, state, flags, constructed,
                     libs, blk_req, exited, progress, pc, packet, signal>>
  BY DEF vars, session, main, device
<1>2. Handlers'
  BY <1>1 DEF IInv, Handlers
<1> QED BY <1>1, <1>2, QuietIInv DEF IInv, TypesOther

(* It holds initially.                                                     *)
LEMMA InitIInv ==
  ASSUME Init
  PROVE  IInv
<1>1. \A l \in Libs : /\ libs[l] = No_Jobs /\ Jobs(l) = <<>> /\ libs[l].io = "none"
                      /\ Jobs(l) \in Seq(Known_Job) /\ Len(Jobs(l)) = 0
                      /\ ~Completed(l)
  <2>1. <<>> \in Seq(Known_Job) /\ Len(<<>>) = 0
    OBVIOUS
  <2> QED BY <2>1 DEF Init, Libs, No_Jobs, Jobs, Completed, Need
<1>2. LibsType
  <2>1. No_Jobs \in [jobs : Seq(Known_Job), io : {"none", "generated", "in_progress"}]
    <3>1. <<>> \in Seq(Known_Job)
      OBVIOUS
    <3> QED BY <3>1 DEF No_Jobs
  <2> QED BY <2>1 DEF Init, LibsType, Libs
<1>3. in_progress = No_Test /\ Running \notin Of_Tool \cup Requests /\ Running # "LIST_SNAPSHOTS"
  BY DEF Init, Running, No_Test, Of_Tool, Requests, In_Replay
<1>4. TypesOther
  <2>1. IsABag(created) /\ BagToSet(created) = {}
    BY DEF Init, IsABag, BagToSet, EmptyBag, SetToBag
  <2> QED BY <2>1, TesterAssumption DEF Init, TypesOther
<1>5. ToolsJobs /\ LibraryJobs
  BY <1>1, <1>3, Names DEF ToolsJobs, LibraryJobs
<1>6. StateOfTool /\ FlagsOfTest /\ Handlers /\ ExitTruthful
  BY <1>3 DEF Init, StateOfTool, FlagsOfTest, Handlers, ExitTruthful, Tools
<1>7. IoOfJob /\ LibraryGone
  BY <1>1, Names DEF Init, IoOfJob, LibraryGone
<1>8. Counted
  <2>1. \A l \in Libs : ~HasFailed(l)
    BY <1>1 DEF HasFailed
  <2> QED BY <2>1 DEF Init, Counted
<1>9. DiscardKnown
  BY <1>3 DEF DiscardKnown, Requests, In_Replay
<1> QED BY <1>2, <1>4, <1>5, <1>6, <1>7, <1>8, <1>9 DEF IInv

(* For all lists of tests, the conjunction of what each part of the tester *)
(* knows is an invariant.                                                  *)
THEOREM TesterInvariance == Spec => []IInv
<1>1. Init => IInv
  BY InitIInv
<1>2. IInv /\ [Next]_vars => IInv'
  BY NextIInv, SameIInv
<1> QED BY <1>1, <1>2, PTL DEF Spec

(* For all lists of tests, the types are right; the flags are those of the *)
(* test in progress.                                                       *)
THEOREM TypeCorrect == Spec => []TypeOK
<1>1. IInv => TypeOK
  <2> SUFFICES ASSUME IInv PROVE TypeOK
    OBVIOUS
  <2>1. DOMAIN libs = Libs
    BY DEF IInv, LibsType
  <2>2. \A l \in DOMAIN libs : /\ \A i \in DOMAIN libs[l].jobs : libs[l].jobs[i] \in Job_Type
                               /\ libs[l].io \in {"none", "generated", "in_progress"}
    <3>1. SUFFICES ASSUME NEW l \in Libs
                   PROVE  /\ \A i \in DOMAIN libs[l].jobs : libs[l].jobs[i] \in Job_Type
                          /\ libs[l].io \in {"none", "generated", "in_progress"}
      BY <2>1
    <3>2. Jobs(l) \in Seq(Known_Job) /\ libs[l].io \in Io /\ libs[l].jobs = Jobs(l)
      BY LibsAre DEF IInv, Jobs
    <3>3. \A i \in DOMAIN Jobs(l) : Jobs(l)[i] \in Known_Job
      BY <3>2, JobsAre
    <3> QED BY <3>2, <3>3 DEF Io, Known_Job
  <2>3. flags \subseteq {in_progress.type}
    BY DEF IInv, FlagsOfTest, Running
  <2> QED BY <2>1, <2>2, <2>3 DEF IInv, TypesOther, TypeOK
<1> QED BY <1>1, TesterInvariance, PTL

(* For all lists of tests, the parent is told that they have failed        *)
(* exactly if one of them has (Main::_execute and the calls of             *)
(* parent().exit).                                                         *)
THEOREM AlwaysToldTruth == Spec => []ExitTruthful
<1>1. IInv => ExitTruthful
  BY DEF IInv
<1> QED BY <1>1, TesterInvariance, PTL

-----------------------------------------------------------------------------
(***************************************************************************)
(* The device.                                                             *)
(***************************************************************************)
LEMMA OnlyUser ==
  ASSUME IInv, OneUser, NEW l \in Libs, Jobs(l) # <<>>
  PROVE  l = IF state \in Tools THEN state ELSE "CBE"
<1>1. Jobs(l) \in Seq(Known_Job) /\ Len(Jobs(l)) # 0
  <2>1. Jobs(l) \in Seq(Known_Job)
    BY LibsAre DEF IInv
  <2> QED BY <2>1, JobsAre
<1>2. CASE l \in Tools
  <2>1. Running \in Of_Tool /\ l = Tool(Running)
    BY <1>1, <1>2 DEF IInv, ToolsJobs
  <2> QED BY <1>2, <2>1 DEF IInv, StateOfTool
<1>3. CASE l = "CBE"
  <2>1. Running \notin Of_Tool
    BY <1>3 DEF OneUser
  <2> QED BY <1>3, <2>1 DEF IInv, StateOfTool
<1> QED BY <1>2, <1>3, Names

(* A step that leaves the packet and the requests of the libraries to it.  *)
LEMMA PacketsStay ==
  ASSUME Packets,
         \A k \in Libs : libs'[k].io = "in_progress" <=> libs[k].io = "in_progress",
         UNCHANGED blk_req, packet' = "none" <=> packet = "none"
  PROVE  Packets'
BY DEF Packets

(* An update of one library.                                               *)
LEMMA OfOne ==
  ASSUME LibsType, NEW l \in Libs, NEW jobs, NEW io, libs' = With(l, jobs, io)
  PROVE  /\ libs'[l].io = io
         /\ \A k \in Libs : k # l => libs'[k] = libs[k] /\ Jobs(k)' = Jobs(k)
BY DEF LibsType, With, Jobs

(* An update of its jobs only.                                             *)
LEMMA JobsOnly ==
  ASSUME LibsType, NEW l \in Libs, NEW jobs, libs' = [libs EXCEPT ![l].jobs = jobs]
  PROVE  /\ \A k \in Libs : libs'[k].io = libs[k].io
         /\ Jobs(l)' = jobs
         /\ \A k \in Libs : k # l => Jobs(k)' = Jobs(k)
<1>1. libs' = With(l, jobs, libs[l].io)
  BY JobsForm
<1>2. Jobs(l)' = jobs
  BY <1>1 DEF LibsType, With, Jobs
<1> QED BY <1>1, <1>2, OfOne

(* A step of a library changes this library only, which has no I/O in      *)
(* progress then.                                                          *)
LEMMA StepForm ==
  ASSUME IInv, NEW l \in Libs, Step(l)
  PROVE  libs[l].io = "none" /\ \E jobs, io : libs' = With(l, jobs, io) /\ io # "in_progress"
<1>1. LibsType /\ libs[l].io = "none"
  <2>1. Need(l) # "io"
    BY DEF Step
  <2> QED BY <2>1, NoIo DEF IInv
<1> DEFINE job == Head(libs[l].jobs)
<1>2. ASSUME NEW x, NEW y, y # "in_progress", libs' = Both(l, x, y)
      PROVE  \E jobs, io : libs' = With(l, jobs, io) /\ io # "in_progress"
  <2>1. libs' = With(l, [Jobs(l) EXCEPT ![1] = x], y)
    BY <1>1, <1>2, FirstAndIoForm
  <2>2. \A jobs : libs' = With(l, jobs, y) =>
                   \E a, io : libs' = With(l, a, io) /\ io # "in_progress"
    BY <1>2
  <2> QED BY <2>1, <2>2
<1>3. ASSUME libs' = [libs EXCEPT ![l].jobs = Tail(@)]
      PROVE  \E jobs, io : libs' = With(l, jobs, io) /\ io # "in_progress"
  <2>1. libs' = [libs EXCEPT ![l].jobs = Tail(Jobs(l))]
    BY <1>3 DEF Jobs
  <2>2. libs' = With(l, Tail(Jobs(l)), libs[l].io)
    BY <1>1, <2>1, JobsForm
  <2> QED BY <1>1, <2>2
<1>4. ASSUME NEW x, libs' = [libs EXCEPT ![l].jobs[1] = x]
      PROVE  \E jobs, io : libs' = With(l, jobs, io) /\ io # "in_progress"
  <2>1. libs' = With(l, [Jobs(l) EXCEPT ![1] = x], libs[l].io)
    BY <1>1, <1>4, FirstForm
  <2> QED BY <1>1, <2>1
<1> HIDE DEF job
<1>5. \/ \E x, y : y # "in_progress" /\ libs' = Both(l, x, y)
      \/ libs' = [libs EXCEPT ![l].jobs = Tail(@)]
      \/ \E x : libs' = [libs EXCEPT ![l].jobs[1] = x]
  <2>1. ASSUME NEW need \in Needs(l, job.op),
               libs' = [libs EXCEPT ![l].jobs[1] = [job EXCEPT !.left = @ - 1, !.need = need],
                                    ![l].io = IF need = "io" THEN "generated" ELSE @]
        PROVE  \E x, y : y # "in_progress" /\ libs' = Both(l, x, y)
    <3> DEFINE j == [job EXCEPT !.left = @ - 1, !.need = need]
               io == IF need = "io" THEN "generated" ELSE libs[l].io
    <3>1. io # "in_progress"
      BY <1>1
    <3>2. libs' = Both(l, j, io)
      BY <2>1 DEF Both
    <3> HIDE DEF j, io
    <3> QED BY <3>1, <3>2
  <2> QED BY <2>1 DEF Step, job
<1> QED BY <1>1, <1>2, <1>3, <1>4, <1>5

(* A step of a library does not reach the device.                          *)
LEMMA ExecuteDevice ==
  ASSUME IInv, DeviceInv, NEW l \in Libs, Execute(l)
  PROVE  DeviceInv'
<1>1. UNCHANGED <<blk_req, packet, error>>
  BY DEF Execute, main, device
<1> SUFFICES \A k \in Libs : libs'[k].io = "in_progress" <=> libs[k].io = "in_progress"
  BY <1>1, PacketsStay DEF DeviceInv
<1>2. CASE UNCHANGED libs
  BY <1>2
<1>3. CASE Step(l)
  <2>1. PICK jobs, io : libs' = With(l, jobs, io) /\ io # "in_progress"
    BY <1>3, StepForm
  <2>2. libs'[l].io = io /\ \A k \in Libs : k # l => libs'[k] = libs[k]
    BY <2>1, OfOne DEF IInv
  <2>3. libs[l].io = "none"
    BY <1>3, StepForm
  <2> QED BY <2>1, <2>2, <2>3
<1> QED BY <1>2, <1>3 DEF Execute

(* Nor does what the library is supplied with.                             *)
LEMMA SupplyDevice ==
  ASSUME IInv, DeviceInv, NEW need, Supply("CBE", need), UNCHANGED <<main, device>>
  PROVE  DeviceInv'
<1>1. UNCHANGED <<blk_req, packet, error>>
  BY DEF main, device
<1>2. \A k \in Libs : libs'[k].io = libs[k].io
  <2>1. CASE UNCHANGED libs
    BY <2>1
  <2>2. CASE libs' = [libs EXCEPT !["CBE"].jobs[1].need = "run"]
    <3>1. libs' = With("CBE", [Jobs("CBE") EXCEPT ![1] = [Jobs("CBE")[1] EXCEPT !.need = "run"]],
                       libs["CBE"].io)
      BY <2>2, Names, RunForm DEF IInv
    <3> QED BY <3>1, Names, OfOne DEF IInv
  <2> QED BY <2>1, <2>2 DEF Supply
<1> QED BY <1>1, <1>2, PacketsStay DEF DeviceInv

(* The packet is that of the library at work.                              *)
LEMMA SubmitPacketDevice ==
  ASSUME IInv, DeviceInv, NEW l \in Libs, Submit_Packet(l)
  PROVE  DeviceInv'
<1>1. UNCHANGED error
  BY DEF Submit_Packet
<1>2. CASE UNCHANGED <<blk_req, packet, libs>>
  BY <1>1, <1>2, PacketsStay DEF DeviceInv
<1>3. CASE /\ blk_req = Nobody /\ blk_req' = l /\ packet' = "queued"
           /\ libs' = [libs EXCEPT ![l].io = "in_progress"]
  <2>1. libs' = With(l, Jobs(l), "in_progress")
    BY <1>3, IoForm DEF IInv
  <2>2. libs'[l].io = "in_progress" /\ \A k \in Libs : k # l => libs'[k] = libs[k]
    BY <2>1, OfOne DEF IInv
  <2>3. \A k \in Libs : libs[k].io # "in_progress"
    BY <1>3, Names DEF DeviceInv, Packets
  <2> QED BY <1>1, <1>3, <2>2, <2>3, Names DEF DeviceInv, Packets
<1> QED BY <1>2, <1>3 DEF Submit_Packet

(* The answer of the device is given to the library at work, which is the  *)
(* one that has asked.                                                     *)
LEMMA AcknowledgePacketDevice ==
  ASSUME IInv, OneUser, DeviceInv, NEW l \in Libs, Acknowledge_Packet(l),
         l = IF state \in Tools THEN state ELSE "CBE"
  PROVE  DeviceInv'
<1>1. CASE UNCHANGED <<packet, blk_req, libs, error>>
  BY <1>1, PacketsStay DEF DeviceInv
<1>2. CASE /\ packet = "acknowledged" /\ packet' = "none" /\ blk_req' = Nobody
           /\ IO_Request_Completed(l)
  <2>1. blk_req \in Libs /\ libs[blk_req].io = "in_progress"
    BY <1>2 DEF DeviceInv, Packets, IInv, TypesOther
  <2>2. Jobs(blk_req) # <<>>
    BY <2>1 DEF IInv, IoOfJob
  <2>3. blk_req = l
    BY <2>1, <2>2, OnlyUser
  <2>4. /\ UNCHANGED error
        /\ libs' = [libs EXCEPT ![l].io = "none", ![l].jobs[1].need = "run"]
    BY <1>2, <2>1, <2>3 DEF IO_Request_Completed
  <2>5. libs' = With(l, [Jobs(l) EXCEPT ![1] = [Jobs(l)[1] EXCEPT !.need = "run"]], "none")
    BY <2>4, AnswerForm DEF IInv
  <2>6. libs'[l].io = "none" /\ \A k \in Libs : k # l => libs'[k] = libs[k]
    BY <2>5, OfOne DEF IInv
  <2>7. \A k \in Libs : libs'[k].io # "in_progress"
    BY <2>3, <2>6 DEF DeviceInv, Packets
  <2> QED BY <1>2, <2>4, <2>7, Names DEF DeviceInv, Packets
<1> QED BY <1>1, <1>2 DEF Acknowledge_Packet

(* The CBE library has no I/O when it is destructed.                       *)
LEMMA SwitchDevice ==
  ASSUME IInv, OneUser, DeviceInv, Switch
  PROVE  DeviceInv'
<1>1. UNCHANGED <<blk_req, packet, error>>
  BY DEF Switch, device
<1> SUFFICES \A k \in Libs : libs'[k].io = libs[k].io
  BY <1>1, PacketsStay DEF DeviceInv
<1>2. CASE state \in Tools
  <2>1. libs' = With("CBE", <<>>, "none")
    BY <1>2 DEF Switch, With, No_Jobs
  <2>2. libs'["CBE"].io = "none" /\ \A k \in Libs : k # "CBE" => libs'[k] = libs[k]
    BY <2>1, Names, OfOne DEF IInv
  <2>3. libs["CBE"].io = "none"
    <3>1. Jobs("CBE") = <<>>
      BY <1>2, Names, OnlyUser
    <3> QED BY <3>1, Names DEF IInv, IoOfJob
  <2> QED BY <2>2, <2>3
<1>3. CASE state \notin Tools /\ constructed
  BY <1>3 DEF Switch
<1>4. CASE state \notin Tools /\ ~constructed
  <2>1. libs' = [libs EXCEPT !["CBE"].jobs = <<Job("INITIALIZE")>>]
    BY <1>4 DEF Switch
  <2> QED BY <2>1, Names, JobsOnly DEF IInv
<1> QED BY <1>2, <1>3, <1>4

(* The handlers that change the jobs of a library only, at most.           *)
LEMMA JobsDevice ==
  ASSUME IInv, DeviceInv, UNCHANGED <<blk_req, error>>, packet' = "none" <=> packet = "none",
         NEW l \in Libs,
         (UNCHANGED libs) \/ (\E jobs : libs' = [libs EXCEPT ![l].jobs = jobs])
  PROVE  DeviceInv'
<1>1. \A k \in Libs : libs'[k].io = libs[k].io
  <2>1. CASE UNCHANGED libs
    BY <2>1
  <2>2. ASSUME NEW jobs, libs' = [libs EXCEPT ![l].jobs = jobs]
        PROVE  \A k \in Libs : libs'[k].io = libs[k].io
    BY <2>2, JobsOnly DEF IInv
  <2> QED BY <2>1, <2>2
<1> QED BY <1>1, PacketsStay DEF DeviceInv

-----------------------------------------------------------------------------
(***************************************************************************)
(* The list of tests, under the assumption on the lists.                   *)
(***************************************************************************)
Looking == {"check", "dump", "switch"}

(* The tests that are left, in the list.                                   *)
LEMMA Remaining ==
  ASSUME NEW l \in Seq(Test), NEW n \in 0 .. Len(l), tests = SubSeq(l, n + 1, Len(l)),
         tests # <<>>
  PROVE  /\ n \in Nat /\ n + 1 \in 1 .. Len(l) /\ n + 1 \in 0 .. Len(l)
         /\ l[n + 1] \in Test /\ Head(tests) = l[n + 1]
         /\ Tail(tests) = SubSeq(l, (n + 1) + 1, Len(l))
<1>1. Len(l) \in Nat /\ n \in Nat
  BY LenProperties
<1>2. CASE n = Len(l)
  BY <1>1, <1>2, SubSeqEmpty
<1>3. CASE n # Len(l)
  <2>1. n + 1 \in 1 .. Len(l) /\ Len(l) \in n + 1 .. Len(l) /\ n + 1 \in 0 .. Len(l)
    BY <1>1, <1>3
  <2>2. l[n + 1] \in Test
    BY <2>1, ElementOfSeq
  <2> QED BY <1>1, <2>1, <2>2, HeadTailOfSubSeq
<1> QED BY <1>2, <1>3

(* The position in the list, where nothing has changed that it is told by. *)
LEMMA PlacedStays ==
  ASSUME Placed, UNCHANGED <<tests, in_progress, created, constructed>>,
         Jobs("CBE")' # <<>> => Jobs("CBE") # <<>>
  PROVE  Placed'
<1>1. PICK l \in Test_Lists : \E n \in 0 .. Len(l) : Position(l, n)
  BY DEF Placed
<1>2. PICK n \in 0 .. Len(l) : Position(l, n)
  BY <1>1
<1>3. Accounted(l, n)'
  BY <1>2 DEF Position, Accounted, Is_Created, Running
<1>4. Position(l, n)'
  BY <1>2, <1>3 DEF Position
<1> QED BY <1>4 DEF Placed

(* A step that leaves the list, and what is known of it.                   *)
LEMMA StaysPlaced ==
  ASSUME ListInv, UNCHANGED <<tests, in_progress, created, constructed>>,
         Jobs("CBE")' # <<>> => Jobs("CBE") # <<>>, pc' \notin Looking
  PROVE  ListInv'
<1>1. Placed'
  BY PlacedStays DEF ListInv
<1>2. Looked'
  BY DEF Looked, Looking
<1>3. NoToolNext' /\ OneUser'
  BY DEF ListInv, NoToolNext, OneUser, Running
<1> QED BY <1>1, <1>2, <1>3 DEF ListInv

(* A step that leaves the handler and the state, too.                      *)
LEMMA ListStays ==
  ASSUME ListInv, UNCHANGED <<tests, in_progress, created, constructed, libs, pc, state>>
  PROVE  ListInv'
<1>1. Placed'
  BY PlacedStays DEF ListInv, Jobs
<1>2. Looked' /\ NoToolNext' /\ OneUser'
  BY DEF ListInv, Looked, NoToolNext, OneUser, Running, Jobs
<1> QED BY <1>1, <1>2 DEF ListInv

(* A test of the list begins.                                              *)
LEMMA BeginsPlaced ==
  ASSUME IInv, ListInv, NEW type, Found(type), UNCHANGED <<created, constructed>>,
         (constructed /\ type \notin Of_Tool) \/ (type \in Of_Tool /\ Jobs("CBE")' = Jobs("CBE"))
  PROVE  ListInv'
<1>1. /\ in_progress = No_Test /\ tests # <<>> /\ Head(tests).type = type
      /\ in_progress' = Head(tests) /\ tests' = Tail(tests)
  BY DEF Found, Head_Is, Dequeue
<1>0. PICK l \in Test_Lists : \E n \in 0 .. Len(l) : Position(l, n)
  BY DEF ListInv, Placed
<1>2. PICK n \in 0 .. Len(l) : Position(l, n)
  BY <1>0
<1>3. l \in Seq(Test)
  BY TesterAssumption
<1>4. /\ n \in Nat /\ n + 1 \in 1 .. Len(l) /\ n + 1 \in 0 .. Len(l)
      /\ l[n + 1] \in Test /\ Head(tests) = l[n + 1]
      /\ Tail(tests) = SubSeq(l, (n + 1) + 1, Len(l))
  BY <1>1, <1>2, <1>3, Remaining DEF Position
<1>5. in_progress' = l[n + 1] /\ in_progress' # No_Test /\ l[n + 1].type = type
  BY <1>1, <1>4, Names
<1>6. Accounted(l, n + 1)'
  <2>1. SUFFICES ASSUME NEW k \in 1 .. n + 1, l[k].type = "CREATE_SNAPSHOT",
                        \A i \in 1 .. n + 1 :
                          l[i] # [type |-> "DISCARD_SNAPSHOT", id |-> l[k].id]
                 PROVE  \/ Is_Created(l[k].id)'
                        \/ Running' = "CREATE_SNAPSHOT" /\ in_progress'.id = l[k].id
    BY DEF Accounted
  <2>2. CASE k = n + 1
    BY <1>5, <2>1, <2>2 DEF Running
  <2>3. CASE k # n + 1
    <3>1. k \in 1 .. n /\ \A i \in 1 .. n : i \in 1 .. n + 1
      BY <1>4, <2>3
    <3>2. Running # "CREATE_SNAPSHOT"
      BY <1>1 DEF Running, No_Test
    <3>3. Is_Created(l[k].id)
      BY <1>2, <2>1, <3>1, <3>2 DEF Position, Accounted
    <3> QED BY <3>3 DEF Is_Created
  <2> QED BY <2>2, <2>3
<1>7. ~constructed' => Begun(l, n + 1)
  BY <1>5 DEF Begun
<1>8. Position(l, n + 1)'
  <2>1. n + 1 > 0
    BY <1>4
  <2> QED BY <1>1, <1>4, <1>5, <1>6, <1>7, <2>1 DEF Position
<1>9. Placed'
  BY <1>4, <1>8 DEF Placed
<1>10. OneUser'
  BY <1>1, <1>5 DEF ListInv, OneUser, NoToolNext, Running
<1> QED BY <1>5, <1>9, <1>10 DEF ListInv, Looked, NoToolNext

(* The test in progress ends, and with it the job of its library.          *)
LEMMA EndsPlaced ==
  ASSUME IInv, ListInv, in_progress # No_Test, in_progress' = No_Test,
         UNCHANGED <<tests, constructed>>,
         ~constructed => Running \in Of_Tool,
         Jobs("CBE")' = <<>>, pc' \notin Looking,
         Running = "CREATE_SNAPSHOT" => in_progress.id \in BagToSet(created'),
         Running = "DISCARD_SNAPSHOT" =>
           BagToSet(created) \ {in_progress.id} \subseteq BagToSet(created'),
         Running # "DISCARD_SNAPSHOT" => BagToSet(created) \subseteq BagToSet(created')
  PROVE  ListInv'
<1>0. PICK l \in Test_Lists : \E n \in 0 .. Len(l) : Position(l, n)
  BY DEF ListInv, Placed
<1>1. PICK n \in 0 .. Len(l) : Position(l, n)
  BY <1>0
<1>2. n > 0 /\ n \in 1 .. n /\ in_progress = l[n] /\ in_progress \in Test
  <2>1. n > 0 /\ n \in Nat /\ in_progress = l[n]
    BY <1>1 DEF Position
  <2> QED BY <2>1 DEF IInv, TypesOther
<1>3. Accounted(l, n)'
  <2>1. SUFFICES ASSUME NEW k \in 1 .. n, l[k].type = "CREATE_SNAPSHOT",
                        \A i \in 1 .. n : l[i] # [type |-> "DISCARD_SNAPSHOT", id |-> l[k].id]
                 PROVE  Is_Created(l[k].id)'
    BY DEF Accounted
  <2>2. CASE Running = "CREATE_SNAPSHOT" /\ in_progress.id = l[k].id
    BY <2>2 DEF Is_Created, BagIn
  <2>3. CASE Is_Created(l[k].id)
    <3>1. l[k].id \in BagToSet(created)
      BY <2>3 DEF Is_Created, BagIn
    <3>2. CASE Running # "DISCARD_SNAPSHOT"
      BY <3>1, <3>2 DEF Is_Created, BagIn
    <3>3. CASE Running = "DISCARD_SNAPSHOT"
      <4>1. in_progress = [type |-> "DISCARD_SNAPSHOT", id |-> in_progress.id]
        BY <1>2, <3>3 DEF Running, Test
      <4>2. in_progress.id # l[k].id
        BY <1>2, <2>1, <4>1
      <4> QED BY <3>1, <3>3, <4>2 DEF Is_Created, BagIn
    <3> QED BY <3>2, <3>3
  <2> QED BY <1>1, <2>1, <2>2, <2>3 DEF Position, Accounted
<1>4. ~constructed' => Begun(l, n)
  BY <1>2 DEF Begun, Running
<1>5. Position(l, n)'
  BY <1>1, <1>3, <1>4 DEF Position
<1>6. OneUser' /\ NoToolNext' /\ Looked'
  BY DEF OneUser, NoToolNext, Looked, Looking
<1> QED BY <1>5, <1>6 DEF ListInv, Placed

(* A test is over at once.  The library that has just been constructed is  *)
(* not there then: the test is behind another one for the library.         *)
LEMMA AtOncePlaced ==
  ASSUME After_Requests, IInv, ListInv, constructed, in_progress = No_Test, tests # <<>>,
         \/ Head(tests).type = "LIST_SNAPSHOTS"
         \/ (Head(tests).type = "DISCARD_SNAPSHOT" /\ ~Is_Created(Head(tests).id)),
         tests' = Tail(tests),
         UNCHANGED <<in_progress, created, constructed, libs>>, pc' \notin Looking
  PROVE  ListInv'
<1>0. PICK l \in Test_Lists : \E n \in 0 .. Len(l) : Position(l, n)
  BY DEF ListInv, Placed
<1>1. PICK n \in 0 .. Len(l) : Position(l, n)
  BY <1>0
<1>2. l \in Seq(Test) /\ Running # "CREATE_SNAPSHOT" /\ Running \notin Of_Tool
  BY TesterAssumption DEF Running, No_Test, Of_Tool
<1>3. /\ n \in Nat /\ n + 1 \in 1 .. Len(l) /\ n + 1 \in 0 .. Len(l)
      /\ l[n + 1] \in Test /\ Head(tests) = l[n + 1]
      /\ Tail(tests) = SubSeq(l, (n + 1) + 1, Len(l))
  BY <1>1, <1>2, Remaining DEF Position
<1>4. May_End_At_Once(l, n + 1)
  <2>1. CASE Head(tests).type = "LIST_SNAPSHOTS"
    BY <1>3, <2>1 DEF May_End_At_Once
  <2>2. CASE Head(tests).type = "DISCARD_SNAPSHOT" /\ ~Is_Created(Head(tests).id)
    <3> DEFINE id == l[n + 1].id
    <3>1. l[n + 1] = [type |-> "DISCARD_SNAPSHOT", id |-> id]
      BY <1>3, <2>2 DEF Test
    <3>2. (n + 1) - 1 = n
      BY <1>3
    <3>3. ASSUME NEW k \in 1 .. n, l[k] = [type |-> "CREATE_SNAPSHOT", id |-> id]
          PROVE  \E i \in 1 .. n : l[i] = l[n + 1]
      <4>1. l[k].type = "CREATE_SNAPSHOT" /\ l[k].id = id
        BY <3>3
      <4>2. ~Is_Created(l[k].id)
        BY <1>3, <2>2, <4>1
      <4>3. \E i \in 1 .. n : l[i] = [type |-> "DISCARD_SNAPSHOT", id |-> l[k].id]
        BY <1>1, <1>2, <4>1, <4>2 DEF Position, Accounted
      <4> QED BY <3>1, <4>1, <4>3
    <3>4. Unknown_Before(l, n + 1)
      BY <3>2, <3>3 DEF Unknown_Before
    <3> QED BY <1>3, <2>2, <3>4 DEF May_End_At_Once
  <2> QED BY <2>1, <2>2
<1>5. n # 0 /\ l[n].type \notin Of_Tool
  <2>1. n + 1 \in DOMAIN l
    BY <1>2, <1>3, LenProperties
  <2>2. n + 1 > 1 /\ l[(n + 1) - 1].type \notin Of_Tool
    BY <1>4, <2>1 DEF After_Requests
  <2>3. (n + 1) - 1 = n /\ n # 0
    BY <1>3, <2>2
  <2> QED BY <2>2, <2>3
<1>6. Jobs("CBE") = <<>> /\ Jobs("CBE")' = <<>>
  <2>1. ~Begun(l, n)
    BY <1>5 DEF Begun
  <2> QED BY <1>1, <2>1 DEF Position, Jobs
<1>7. Accounted(l, n + 1)'
  <2>1. SUFFICES ASSUME NEW k \in 1 .. n + 1, l[k].type = "CREATE_SNAPSHOT",
                        \A i \in 1 .. n + 1 :
                          l[i] # [type |-> "DISCARD_SNAPSHOT", id |-> l[k].id]
                 PROVE  Is_Created(l[k].id)'
    BY DEF Accounted
  <2>2. k # n + 1
    BY <1>3, <2>1
  <2>3. k \in 1 .. n /\ \A i \in 1 .. n : i \in 1 .. n + 1
    BY <1>3, <2>2
  <2>4. Is_Created(l[k].id)
    BY <1>1, <1>2, <2>1, <2>3 DEF Position, Accounted
  <2> QED BY <2>4 DEF Is_Created
<1>8. Position(l, n + 1)'
  BY <1>3, <1>6, <1>7 DEF Position
<1>9. Looked' /\ NoToolNext' /\ OneUser'
  BY <1>6 DEF Looked, Looking, NoToolNext, OneUser
<1> QED BY <1>3, <1>8, <1>9 DEF ListInv, Placed

-----------------------------------------------------------------------------
(***************************************************************************)
(* Every handler keeps both.                                               *)
(***************************************************************************)
LEMMA WithToolLInv ==
  ASSUME IInv, ListInv, DeviceInv,
         \/ (With_Tool("initialize", "INITIALIZE", "INITIALIZE_DEVICE", "CBE_INIT", "check"))
         \/ (With_Tool("check", "CHECK", "CHECK", "CBE_CHECK", "dump"))
         \/ (With_Tool("dump", "DUMP", "DUMP", "CBE_DUMP", "switch"))
  PROVE  ListInv' /\ DeviceInv'
<1>1. PICK at, type, op, l, next : /\ With_Tool(at, type, op, l, next)
                                   /\ type \in Of_Tool /\ l \in Tools
                                   /\ \/ at = "initialize" /\ type = "INITIALIZE" /\ next = "check"
                                      \/ at = "check" /\ type = "CHECK" /\ next = "dump"
                                      \/ at = "dump" /\ type = "DUMP" /\ next = "switch"
  BY DEF Of_Tool, Tools
<1>2. /\ UNCHANGED <<created, constructed, blk_req, packet, error>>
      /\ pc = at /\ pc' = next
  BY <1>1 DEF With_Tool, device
<1>3. CASE UNCHANGED <<libs, state>> /\
           IF state = "INVALID" THEN Not_Found(type) ELSE UNCHANGED <<tests, in_progress>>
  <2>1. UNCHANGED <<tests, in_progress>> /\ Jobs("CBE")' = Jobs("CBE")
    BY <1>3 DEF Not_Found, Jobs
  <2>2. DeviceInv'
    BY <1>1, <1>2, <1>3, Names, JobsDevice
  <2>3. Placed'
    BY <1>2, <2>1, PlacedStays DEF ListInv
  <2>4. Looked'
    <3>1. SUFFICES ASSUME in_progress' = No_Test, state' = "INVALID", tests' # <<>>
                   PROVE  /\ pc' \in {"check", "dump", "switch"} => Head(tests').type # "INITIALIZE"
                          /\ pc' \in {"dump", "switch"} => Head(tests').type # "CHECK"
                          /\ pc' = "switch" => Head(tests').type # "DUMP"
      BY DEF Looked
    <3>2. Head(tests).type # type
      BY <1>3, <2>1, <3>1 DEF Not_Found, Head_Is
    <3> QED BY <1>1, <1>2, <1>3, <2>1, <3>1, <3>2 DEF ListInv, Looked
  <2>5. NoToolNext' /\ OneUser'
    BY <2>1 DEF ListInv, NoToolNext, OneUser, Running
  <2> QED BY <2>2, <2>3, <2>4, <2>5 DEF ListInv
<1>4. CASE Found(type) /\ \E job : Submit_Client_Request(l, job)
  <2>1. PICK job : libs' = [libs EXCEPT ![l].jobs = Append(Jobs(l), job)]
    BY <1>4 DEF Submit_Client_Request, Jobs
  <2>2. l \in Libs /\ l # "CBE"
    BY <1>1, Names
  <2>3. DeviceInv'
    BY <1>2, <2>1, <2>2, JobsDevice
  <2>4. Jobs("CBE")' = Jobs("CBE")
    BY <2>1, <2>2, Names, JobsOnly DEF IInv
  <2> QED BY <1>1, <1>2, <1>4, <2>3, <2>4, BeginsPlaced
<1> QED BY <1>1, <1>3, <1>4 DEF With_Tool

(* The CBE library is constructed when no test of a tool is next, and      *)
(* destructed when one is in progress.                                     *)
LEMMA SwitchLInv ==
  ASSUME IInv, ListInv, DeviceInv, Switch
  PROVE  ListInv' /\ DeviceInv'
<1>1. DeviceInv'
  BY SwitchDevice DEF ListInv
<1>2. UNCHANGED <<tests, in_progress, created, state>> /\ pc' \notin Looking /\ pc = "switch"
  BY DEF Switch, session, Looking
<1>3. Looked'
  BY <1>2 DEF Looked, Looking
<1>4. CASE state \in Tools
  <2>1. Running \in Of_Tool /\ in_progress # No_Test
    BY <1>4, Names DEF IInv, StateOfTool, Running
  <2>2. libs' = With("CBE", <<>>, "none")
    BY <1>4 DEF Switch, With, No_Jobs
  <2>3. Jobs("CBE")' = <<>>
    BY <2>2, Names DEF IInv, LibsType, With, Jobs
  <2>4. Placed'
    <3>1. PICK m \in Test_Lists : \E n \in 0 .. Len(m) : Position(m, n)
      BY DEF ListInv, Placed
    <3>2. PICK n \in 0 .. Len(m) : Position(m, n)
      BY <3>1
    <3>3. Accounted(m, n)'
      BY <1>2, <3>2 DEF Position, Accounted, Is_Created, Running
    <3>4. Begun(m, n)
      BY <2>1, <3>2 DEF Position, Begun, Running
    <3>5. Position(m, n)'
      BY <1>2, <2>3, <3>2, <3>3, <3>4 DEF Position
    <3> QED BY <3>5 DEF Placed
  <2> QED BY <1>1, <1>2, <1>3, <2>3, <2>4 DEF ListInv, NoToolNext, OneUser
<1>5. CASE state \notin Tools /\ constructed
  <2>1. UNCHANGED <<libs, constructed>>
    BY <1>5 DEF Switch
  <2> QED BY <1>1, <1>2, <2>1, StaysPlaced DEF Jobs
<1>6. CASE state \notin Tools /\ ~constructed
  <2>1. constructed' /\ state = "INVALID"
    BY <1>6 DEF Switch, IInv, TypesOther, LibraryGone
  <2>2. Running \notin Of_Tool
    BY <1>6, Names DEF IInv, StateOfTool
  <2>3. NoToolNext'
    BY <1>2, <2>1 DEF ListInv, Looked, NoToolNext, Of_Tool, IInv, TypesOther
  <2>4. Placed'
    <3>1. PICK m \in Test_Lists : \E n \in 0 .. Len(m) : Position(m, n)
      BY DEF ListInv, Placed
    <3>2. PICK n \in 0 .. Len(m) : Position(m, n)
      BY <3>1
    <3>3. Accounted(m, n)'
      BY <1>2, <3>2 DEF Position, Accounted, Is_Created, Running
    <3>4. Begun(m, n)
      BY <1>6, <3>2 DEF Position
    <3>5. Position(m, n)'
      BY <1>2, <2>1, <3>2, <3>3, <3>4 DEF Position
    <3> QED BY <3>5 DEF Placed
  <2> QED BY <1>1, <1>2, <1>3, <2>2, <2>3, <2>4 DEF ListInv, OneUser, Running
<1> QED BY <1>4, <1>5, <1>6

(* Where the list, and what is created, stay as they are.                  *)
LEMMA StaysOrShrinks ==
  ASSUME IInv, ListInv, UNCHANGED <<tests, in_progress, created, constructed>>,
         NEW l \in Libs,
         (UNCHANGED libs) \/ (Jobs(l) # <<>> /\ \A k \in Libs : k # l => Jobs(k)' = Jobs(k)),
         pc' \notin Looking
  PROVE  ListInv'
<1>1. Jobs("CBE")' # <<>> => Jobs("CBE") # <<>>
  BY Names DEF Jobs
<1> QED BY <1>1, StaysPlaced

(* A step of one library leaves the jobs of the others.                    *)
LEMMA OfOthers ==
  ASSUME LibsType, NEW l \in Libs,
         \/ (\E x : libs' = [libs EXCEPT ![l].jobs = x])
         \/ (libs' = [libs EXCEPT ![l].io = "in_progress"])
         \/ (libs' = [libs EXCEPT ![l].jobs[1].need = "run"])
         \/ (libs' = [libs EXCEPT ![l].io = "none", ![l].jobs[1].need = "run"])
  PROVE  \A k \in Libs : k # l => Jobs(k)' = Jobs(k)
<1>1. \E x, y : libs' = With(l, x, y)
  <2>1. ASSUME NEW x, libs' = [libs EXCEPT ![l].jobs = x] PROVE \E a, y : libs' = With(l, a, y)
    <3>1. libs' = With(l, x, libs[l].io)
      BY <2>1, JobsForm
    <3> QED BY <3>1
  <2>4. CASE libs' = [libs EXCEPT ![l].io = "in_progress"]
    <3>1. libs' = With(l, Jobs(l), "in_progress")
      BY <2>4, IoForm
    <3> QED BY <3>1
  <2>5. CASE libs' = [libs EXCEPT ![l].jobs[1].need = "run"]
    <3>1. libs' = With(l, [Jobs(l) EXCEPT ![1] = [Jobs(l)[1] EXCEPT !.need = "run"]], libs[l].io)
      BY <2>5, RunForm
    <3> QED BY <3>1
  <2>6. CASE libs' = [libs EXCEPT ![l].io = "none", ![l].jobs[1].need = "run"]
    <3>1. libs' = With(l, [Jobs(l) EXCEPT ![1] = [Jobs(l)[1] EXCEPT !.need = "run"]], "none")
      BY <2>6, AnswerForm
    <3> QED BY <3>1
  <2> QED BY <2>1, <2>4, <2>5, <2>6
<1> QED BY <1>1, OfOne

(* A test of the CBE library begins.                                       *)
LEMMA StartsLInv ==
  ASSUME IInv, ListInv, DeviceInv, constructed, NEW type \in Requests,
         Start_Request(type)
  PROVE  ListInv' /\ DeviceInv'
<1>1. /\ Found(type) /\ UNCHANGED <<created, constructed, blk_req, packet, error>>
      /\ type \notin Of_Tool
  BY Names DEF Start_Request, device, Requests
<1>2. libs' = [libs EXCEPT !["CBE"].jobs = Append(Jobs("CBE"), Job(type))]
  BY DEF Start_Request, Submit_Client_Request, Jobs
<1>3. DeviceInv'
  BY <1>1, <1>2, Names, JobsDevice
<1>4. ListInv'
  BY <1>1, BeginsPlaced
<1> QED BY <1>3, <1>4

(* A handler of the CBE library that does nothing.                         *)
LEMMA NothingLInv ==
  ASSUME IInv, ListInv, DeviceInv, NEW type, Nothing_Done \/ Start_Nothing(type),
         pc' \notin Looking
  PROVE  ListInv' /\ DeviceInv'
<1>1. UNCHANGED <<tests, in_progress, created, constructed, libs, blk_req, packet, error>>
  BY DEF Nothing_Done, Start_Nothing, Not_Found, session, main, device
<1>2. DeviceInv'
  BY <1>1, Names, JobsDevice
<1>3. ListInv'
  BY <1>1, StaysPlaced DEF Jobs
<1> QED BY <1>2, <1>3

(* A test of the CBE library ends.                                         *)
LEMMA RequestDoneLInv ==
  ASSUME IInv, ListInv, DeviceInv, state \notin Tools, Completed("CBE"),
         NEW f, Request_Done(f), UNCHANGED error, pc' \notin Looking,
         Running = "CREATE_SNAPSHOT" => in_progress.id \in BagToSet(created'),
         Running = "DISCARD_SNAPSHOT" =>
           BagToSet(created) \ {in_progress.id} \subseteq BagToSet(created'),
         Running # "DISCARD_SNAPSHOT" => BagToSet(created) \subseteq BagToSet(created')
  PROVE  ListInv' /\ DeviceInv'
<1>1. /\ UNCHANGED <<tests, constructed, blk_req, packet>> /\ in_progress' = No_Test
      /\ libs' = [libs EXCEPT !["CBE"].jobs = Tail(Jobs("CBE"))]
  BY DEF Request_Done, Test_Done, Drop_Completed_Client_Request, device, Jobs
<1>2. Running \in Requests /\ constructed /\ in_progress # No_Test
  BY CompletedTest, Names DEF Requests, Running
<1>3. Tail(Jobs("CBE")) = <<>>
  <2> DEFINE s == Jobs("CBE")
  <2>1. s # <<>> /\ s \in Seq(Known_Job) /\ Len(s) = 1
    BY <1>2, LastIs DEF IInv
  <2> HIDE DEF s
  <2>2. Tail(s) \in Seq(Known_Job) /\ Len(Tail(s)) = 0
    BY <2>1, FirstDropped
  <2>3. Tail(s) = <<>>
    BY <2>2, JobsAre
  <2> QED BY <2>3 DEF s
<1>4. DeviceInv'
  BY <1>1, Names, JobsDevice
<1>5. Jobs("CBE")' = <<>>
  BY <1>1, <1>3, Names, JobsOnly DEF IInv
<1>6. ListInv'
  BY <1>1, <1>2, <1>5, EndsPlaced
<1> QED BY <1>4, <1>6

(* A handler with a flag.                                                  *)
LEMMA WithFlagLInv ==
  ASSUME IInv, ListInv, DeviceInv, state \notin Tools, NEW at \in Later,
         NEW type \in Flagged \ {"CREATE_SNAPSHOT", "DISCARD_SNAPSHOT"},
         NEW next, next \notin Looking, With_Flag(at, type, next)
  PROVE  ListInv' /\ DeviceInv'
<1>1. UNCHANGED error /\ type \in Requests /\ constructed /\ pc' = next
  BY WithFlagIInv DEF With_Flag, Flagged, IInv, Handlers, Later
<1>2. CASE Start_With_Flag(type)
  BY <1>1, <1>2, StartsLInv DEF Start_With_Flag
<1>3. CASE Start_Nothing(type) \/ Wait(type)
  BY <1>1, <1>3, NothingLInv DEF Wait
<1>4. CASE Done(type) /\ Request_Done(flags \ {type}) /\ UNCHANGED created
  <2>1. Completed("CBE") /\ Running = type
    BY <1>4, FlagIs DEF Done
  <2> QED BY <1>1, <1>4, <2>1, RequestDoneLInv
<1> QED BY <1>2, <1>3, <1>4 DEF With_Flag

(* The handler that creates snapshots.                                     *)
LEMMA WithCreateSnapshotLInv ==
  ASSUME IInv, ListInv, DeviceInv, state \notin Tools, With_Create_Snapshot
  PROVE  ListInv' /\ DeviceInv'
<1> DEFINE type == "CREATE_SNAPSHOT"
<1>1. type \in Requests /\ type \in Flagged /\ constructed /\ pc' \notin Looking
  BY DEF With_Create_Snapshot, Requests, Flagged, In_Replay, IInv, Handlers, Looking
<1>2. CASE Start_With_Flag(type)
  BY <1>1, <1>2, StartsLInv DEF Start_With_Flag
<1>3. CASE Start_Nothing(type) \/ Wait(type)
  BY <1>1, <1>3, NothingLInv DEF Wait
<1>4. CASE /\ Done(type) /\ create_snapshot_done(Head(libs["CBE"].jobs).success)
           /\ Request_Done(flags \ {type}) /\ UNCHANGED error
  <2>1. Completed("CBE") /\ Running = type
    BY <1>1, <1>4, FlagIs DEF Done
  <2>2. Head(libs["CBE"].jobs).success
    <3>1. /\ Head(Jobs("CBE")) \in Known_Job /\ Head(Jobs("CBE")).op = Running
          /\ Head(Jobs("CBE")).need = "complete" /\ libs["CBE"].jobs = Jobs("CBE")
      BY <2>1, CompletedTest
    <3>2. "CREATE_SNAPSHOT" \notin May_Fail
      BY DEF May_Fail
    <3> QED BY <2>1, <3>1, <3>2 DEF Known_Job, Job_Type
  <2>3. /\ BagToSet(created) \subseteq BagToSet(created')
        /\ in_progress.id \in BagToSet(created')
    BY <1>1, <1>4, <2>1, <2>2, CreatedIs
  <2> QED BY <1>1, <1>4, <2>1, <2>3, RequestDoneLInv
<1> QED BY <1>2, <1>3, <1>4 DEF With_Create_Snapshot

(* The handler that discards them.                                         *)
LEMMA WithDiscardSnapshotLInv ==
  ASSUME After_Requests, IInv, ListInv, DeviceInv, state \notin Tools, With_Discard_Snapshot
  PROVE  ListInv' /\ DeviceInv'
<1> DEFINE type == "DISCARD_SNAPSHOT"
<1>1. type \in Requests /\ type \in Flagged /\ constructed /\ pc' \notin Looking
  BY DEF With_Discard_Snapshot, Requests, Flagged, In_Replay, IInv, Handlers, Looking
<1>2. CASE Start_With_Flag(type)
  BY <1>1, <1>2, StartsLInv DEF Start_With_Flag
<1>3. CASE Start_Nothing(type) \/ Wait(type)
  BY <1>1, <1>3, NothingLInv DEF Wait
<1>4. CASE Head_Is(type) /\ ~Is_Created(Head(tests).id) /\ Discard_Unknown_Snapshot
  <2>1. /\ tests' = Tail(tests)
        /\ UNCHANGED <<in_progress, created, constructed, libs, blk_req, packet, error>>
    BY <1>4 DEF Discard_Unknown_Snapshot, main, device
  <2>2. DeviceInv'
    BY <2>1, Names, JobsDevice
  <2>3. ListInv'
    BY <1>1, <1>4, <2>1, AtOncePlaced DEF Head_Is
  <2> QED BY <2>2, <2>3
<1>5. CASE /\ Done(type)
           /\ discard_snapshot_done(Head(libs["CBE"].jobs).success)
           /\ Request_Done(flags \ {type})
  <2>1. Completed("CBE") /\ Running = type
    BY <1>1, <1>5, FlagIs DEF Done
  <2>2. UNCHANGED error
    BY <1>5, <2>1 DEF IInv, DiscardKnown, discard_snapshot_done
  <2>3. BagToSet(created) \ {in_progress.id} \subseteq BagToSet(created')
    BY <1>1, <1>5, <2>1, CreatedIs
  <2> QED BY <1>1, <1>5, <2>1, <2>2, <2>3, RequestDoneLInv
<1> QED BY <1>2, <1>3, <1>4, <1>5 DEF With_Discard_Snapshot

(* The handler that lists them.                                            *)
LEMMA WithListSnapshotsLInv ==
  ASSUME After_Requests, IInv, ListInv, DeviceInv, state \notin Tools, With_List_Snapshots
  PROVE  ListInv' /\ DeviceInv'
<1>1. constructed /\ pc' \notin Looking
  BY DEF With_List_Snapshots, IInv, Handlers, Looking
<1>2. CASE /\ Head_Is("LIST_SNAPSHOTS") /\ tests' = Tail(tests)
           /\ UNCHANGED <<in_progress, failed, created, exited, failures, main, libs, device,
                          progress>>
  <2>1. UNCHANGED <<in_progress, created, constructed, libs, blk_req, packet, error>>
    BY <1>2 DEF main, device
  <2>2. DeviceInv'
    BY <2>1, Names, JobsDevice
  <2>3. ListInv'
    BY <1>1, <1>2, <2>1, AtOncePlaced DEF Head_Is
  <2> QED BY <2>2, <2>3
<1>3. CASE Start_Nothing("LIST_SNAPSHOTS")
  BY <1>1, <1>3, NothingLInv
<1> QED BY <1>2, <1>3 DEF With_List_Snapshots

(* The steps of a library, its tool or the CBE, and of the device.         *)
LEMMA ExecuteLInv ==
  ASSUME IInv, ListInv, DeviceInv, NEW l \in Libs, Execute(l), pc' \notin Looking
  PROVE  ListInv' /\ DeviceInv'
<1>1. DeviceInv'
  BY ExecuteDevice
<1>2. UNCHANGED <<tests, in_progress, created, constructed>>
  BY DEF Execute, main
<1>3. CASE UNCHANGED libs
  BY <1>1, <1>2, <1>3, StaysOrShrinks
<1>4. CASE Step(l)
  <2>1. PICK jobs, io : libs' = With(l, jobs, io)
    BY <1>4, StepForm
  <2>2. \A k \in Libs : k # l => Jobs(k)' = Jobs(k)
    BY <2>1, OfOne DEF IInv
  <2>3. Jobs(l) # <<>>
    <3>1. Need(l) # "nothing"
      BY <1>4 DEF Step
    <3> QED BY <3>1, NeededIs
  <2> QED BY <1>1, <1>2, <2>2, <2>3, StaysOrShrinks
<1> QED BY <1>3, <1>4 DEF Execute

(* The library gets data, or keys.                                         *)
LEMMA SupplyLInv ==
  ASSUME IInv, ListInv, DeviceInv, NEW need \in {"data", "crypto"}, Supply("CBE", need),
         UNCHANGED <<session, main, device>>, pc' \notin Looking
  PROVE  ListInv' /\ DeviceInv'
<1>1. DeviceInv'
  BY SupplyDevice
<1>2. UNCHANGED <<tests, in_progress, created, constructed>>
  BY DEF session, main
<1>3. CASE UNCHANGED libs
  BY <1>1, <1>2, <1>3, Names, StaysOrShrinks
<1>4. CASE Need("CBE") = need /\ libs' = [libs EXCEPT !["CBE"].jobs[1].need = "run"]
  <2>1. Jobs("CBE") # <<>>
    BY <1>4, Names, NeededIs
  <2>2. \A k \in Libs : k # "CBE" => Jobs(k)' = Jobs(k)
    BY <1>4, Names, OfOthers DEF IInv
  <2> QED BY <1>1, <1>2, <2>1, <2>2, Names, StaysOrShrinks
<1> QED BY <1>3, <1>4 DEF Supply

(* The request of a library goes to the device.                            *)
LEMMA SubmitPacketLInv ==
  ASSUME IInv, ListInv, DeviceInv, NEW l \in Libs, Submit_Packet(l), pc' \notin Looking
  PROVE  ListInv' /\ DeviceInv'
<1>1. DeviceInv'
  BY SubmitPacketDevice
<1>2. UNCHANGED <<tests, in_progress, created, constructed>>
  BY DEF Submit_Packet, session
<1>3. CASE UNCHANGED libs
  BY <1>1, <1>2, <1>3, StaysOrShrinks
<1>4. CASE libs[l].io = "generated" /\ libs' = [libs EXCEPT ![l].io = "in_progress"]
  <2>1. Jobs(l) # <<>>
    BY <1>4 DEF IInv, IoOfJob
  <2>2. \A k \in Libs : k # l => Jobs(k)' = Jobs(k)
    BY <1>4, OfOthers DEF IInv
  <2> QED BY <1>1, <1>2, <2>1, <2>2, StaysOrShrinks
<1> QED BY <1>3, <1>4 DEF Submit_Packet

(* The answer of the device goes to the library at work.                   *)
LEMMA AcknowledgePacketLInv ==
  ASSUME IInv, ListInv, DeviceInv, NEW l \in Libs, Acknowledge_Packet(l),
         l = IF state \in Tools THEN state ELSE "CBE", pc' \notin Looking
  PROVE  ListInv' /\ DeviceInv'
<1>1. DeviceInv'
  BY AcknowledgePacketDevice DEF ListInv
<1>2. UNCHANGED <<tests, in_progress, created, constructed>>
  BY DEF Acknowledge_Packet, session
<1>3. CASE UNCHANGED libs
  BY <1>1, <1>2, <1>3, StaysOrShrinks
<1>4. CASE /\ libs[l].io = "in_progress"
           /\ libs' = [libs EXCEPT ![l].io = "none", ![l].jobs[1].need = "run"]
  <2>1. Jobs(l) # <<>>
    BY <1>4 DEF IInv, IoOfJob
  <2>2. \A k \in Libs : k # l => Jobs(k)' = Jobs(k)
    BY <1>4, OfOthers DEF IInv
  <2> QED BY <1>1, <1>2, <2>1, <2>2, StaysOrShrinks
<1> QED BY <1>3, <1>4 DEF Acknowledge_Packet, IO_Request_Completed

(* The end of a pass does not lead to a handler that looks for tests of    *)
(* tools, but to the first one.                                            *)
LEMMA EndOfPass ==
  ASSUME IInv, End_Of_Pass
  PROVE  pc' \notin Looking /\ (packet' = "none" <=> packet = "none")
BY DEF End_Of_Pass, Wakeup, Looking

(* The test of a tool ends.                                                *)
LEMMA ToolDoneLInv ==
  ASSUME IInv, ListInv, DeviceInv, NEW l \in Tools, state = l, Tool_Done(l)
  PROVE  ListInv' /\ DeviceInv'
<1>0. /\ UNCHANGED <<tests, created, constructed, blk_req, error>> /\ pc' \notin Looking
      /\ packet' = "none" <=> packet = "none"
      /\ l \in Libs /\ l # "CBE"
  BY EndOfPass, Names DEF Tool_Done
<1>1. CASE UNCHANGED <<libs, in_progress>>
  BY <1>0, <1>1, JobsDevice, StaysOrShrinks
<1>2. CASE Drop_Completed_Client_Request(l) /\ in_progress' = No_Test
  <2>1. libs' = [libs EXCEPT ![l].jobs = Tail(Jobs(l))]
    BY <1>2 DEF Drop_Completed_Client_Request, Jobs
  <2>2. DeviceInv'
    BY <1>0, <2>1, JobsDevice
  <2>3. Running \in Of_Tool
    BY Names DEF IInv, StateOfTool
  <2>4. Jobs("CBE")' = <<>>
    <3>1. Jobs("CBE") = <<>>
      BY <2>3 DEF ListInv, OneUser
    <3> QED BY <1>0, <2>1, <3>1, Names, JobsOnly DEF IInv
  <2>5. in_progress # No_Test /\ Running \notin {"CREATE_SNAPSHOT", "DISCARD_SNAPSHOT"}
    BY <2>3, Names DEF Running, Of_Tool
  <2>6. ListInv'
    BY <1>0, <1>2, <2>3, <2>4, <2>5, EndsPlaced
  <2> QED BY <2>2, <2>6
<1> QED BY <1>1, <1>2 DEF Tool_Done, Test_Done

(* The handlers of the CBE library, in any order.                          *)
LEMMA LibraryLInv ==
  ASSUME After_Requests, IInv, ListInv, DeviceInv, _execute_cbe
  PROVE  ListInv' /\ DeviceInv'
<1>0. state \notin Tools /\ "CBE" \in Libs /\ "CBE" = IF state \in Tools THEN state ELSE "CBE"
  BY Names DEF _execute_cbe
<1>1. CASE With_Requests
  <2>1. constructed /\ pc' \notin Looking /\ "REQUEST" \in Requests
    BY <1>0, <1>1 DEF With_Requests, IInv, Handlers, Looking, Requests, In_Replay
  <2> QED BY <1>1, <2>1, StartsLInv, NothingLInv DEF With_Requests
<1>2. CASE Try_Acknowledge
  <2>1. pc' \notin Looking
    BY <1>2 DEF Try_Acknowledge, Looking
  <2>2. CASE Nothing_Done
    BY <2>1, <2>2, NothingLInv
  <2>3. CASE flags = {} /\ Completed("CBE") /\ Request_Done(flags) /\ UNCHANGED <<created, error>>
    <3>1. Running = "REQUEST"
      BY <1>0, <2>3, CompletedTest, FlagIs
    <3> QED BY <1>0, <2>1, <2>3, <3>1, RequestDoneLInv
  <2> QED BY <1>2, <2>2, <2>3 DEF Try_Acknowledge
<1>3. CASE With_Create_Snapshot
  BY <1>0, <1>3, WithCreateSnapshotLInv
<1>4. CASE With_Discard_Snapshot
  BY <1>0, <1>4, WithDiscardSnapshotLInv
<1>5. CASE With_List_Snapshots
  BY <1>0, <1>5, WithListSnapshotsLInv
<1>6. CASE With_Deinitialize \/ With_Rekey \/ With_Extend_Vbd \/ With_Extend_Ft
  <2>1. \A type \in {"DEINITIALIZE", "REKEY", "EXTEND_VBD", "EXTEND_FT"} :
          type \in Flagged \ {"CREATE_SNAPSHOT", "DISCARD_SNAPSHOT"}
    BY DEF Flagged, Requests, In_Replay
  <2>2. \A at \in {"deinitialize", "rekey", "extend_vbd", "extend_ft"} : at \in Later
    BY DEF Later
  <2>3. \A next \in {"list_snapshots", "extend_vbd", "extend_ft", "execute"} : next \notin Looking
    BY DEF Looking
  <2> QED BY <1>0, <1>6, <2>1, <2>2, <2>3, WithFlagLInv
          DEF With_Deinitialize, With_Rekey, With_Extend_Vbd, With_Extend_Ft
<1>7. CASE Execute("CBE") /\ pc' = "client_data"
  BY <1>0, <1>7, ExecuteLInv DEF Looking
<1>8. CASE Client_Data
  BY <1>8, SupplyLInv DEF Client_Data, Looking
<1>9. CASE Submit_Packet("CBE") /\ pc' = "acknowledge"
  BY <1>0, <1>9, SubmitPacketLInv DEF Looking
<1>10. CASE Acknowledge_Packet("CBE") /\ pc' = "crypto"
  BY <1>0, <1>10, AcknowledgePacketLInv DEF Looking
<1>11. CASE Crypto
  BY <1>11, SupplyLInv DEF Crypto, Looking
<1>12. CASE Final
  <2>1. UNCHANGED <<tests, in_progress, created, constructed, libs, blk_req, error>>
    BY <1>12 DEF Final, session
  <2>2. pc' \notin Looking /\ (packet' = "none" <=> packet = "none")
    BY <1>12, EndOfPass DEF Final
  <2>3. DeviceInv'
    BY <1>0, <2>1, <2>2, JobsDevice
  <2> QED BY <1>0, <2>1, <2>2, <2>3, StaysOrShrinks
<1> QED BY <1>1, <1>2, <1>3, <1>4, <1>5, <1>6, <1>7, <1>8, <1>9, <1>10, <1>11, <1>12
        DEF _execute_cbe

(* The handlers of a tool, in any order.                                   *)
LEMMA ToolLInv ==
  ASSUME IInv, ListInv, DeviceInv, NEW l \in Tools, Execute_Tool(l)
  PROVE  ListInv' /\ DeviceInv'
<1>0. state = l /\ l \in Libs /\ l = IF state \in Tools THEN state ELSE "CBE"
  BY Names DEF Execute_Tool
<1>1. CASE Execute(l) /\ pc' = "submit"
  BY <1>0, <1>1, ExecuteLInv DEF Looking
<1>2. CASE Submit_Packet(l) /\ pc' = "acknowledge"
  BY <1>0, <1>2, SubmitPacketLInv DEF Looking
<1>3. CASE Acknowledge_Packet(l) /\ pc' = "final"
  BY <1>0, <1>3, AcknowledgePacketLInv DEF Looking
<1>4. CASE Tool_Done(l)
  BY <1>0, <1>4, ToolDoneLInv
<1> QED BY <1>1, <1>2, <1>3, <1>4 DEF Execute_Tool

(* Every step keeps both.                                                  *)
LEMMA NextLInv ==
  ASSUME After_Requests, IInv, ListInv, DeviceInv, Next
  PROVE  ListInv' /\ DeviceInv'
<1>1. CASE With_Initialize \/ With_Check \/ With_Dump
  BY <1>1, WithToolLInv DEF With_Initialize, With_Check, With_Dump
<1>2. CASE Switch
  BY <1>2, SwitchLInv
<1>3. CASE _execute_cbe
  BY <1>3, LibraryLInv
<1>4. CASE _execute_cbe_init \/ _execute_cbe_check \/ _execute_cbe_dump
  BY <1>4, ToolLInv DEF _execute_cbe_init, _execute_cbe_check, _execute_cbe_dump, Tools
<1>5. CASE Request_Handler
  <2>1. /\ UNCHANGED <<tests, in_progress, created, constructed, libs, blk_req, packet, error>>
        /\ pc' \notin Looking
    BY <1>5 DEF Request_Handler, session, main, Looking
  <2>2. DeviceInv'
    BY <2>1, Names, JobsDevice
  <2> QED BY <2>1, <2>2, Names, StaysOrShrinks
<1>6. CASE Device_Answers
  <2>1. /\ UNCHANGED <<tests, in_progress, created, constructed, libs, blk_req, error, pc, state>>
        /\ packet' = "none" <=> packet = "none"
    BY <1>6 DEF Device_Answers, session, main
  <2>2. DeviceInv'
    BY <2>1, Names, JobsDevice
  <2>3. ListInv'
    BY <2>1, ListStays
  <2> QED BY <2>2, <2>3
<1> QED BY <1>1, <1>2, <1>3, <1>4, <1>5, <1>6 DEF Next, _execute

(* A stuttering step does.                                                 *)
LEMMA SameLInv ==
  ASSUME ListInv, DeviceInv, UNCHANGED vars
  PROVE  ListInv' /\ DeviceInv'
<1>1. UNCHANGED <<tests, in_progress, created, constructed, libs, blk_req, packet, error, pc,
                  state>>
  BY DEF vars, session, main, device
<1>2. DeviceInv'
  BY <1>1, PacketsStay DEF DeviceInv
<1> QED BY <1>1, <1>2, ListStays

(* They hold initially.                                                    *)
LEMMA InitLInv ==
  ASSUME Init
  PROVE  ListInv /\ DeviceInv
<1>1. Jobs("CBE") = <<>> /\ \A l \in Libs : libs[l].io = "none"
  BY DEF Init, Jobs, No_Jobs, Libs
<1>2. Placed
  <2>1. tests \in Test_Lists /\ tests \in Seq(Test)
    BY TesterAssumption DEF Init
  <2>2. Len(tests) \in Nat /\ 0 \in 0 .. Len(tests)
    BY <2>1, LenProperties
  <2>3. tests = SubSeq(tests, 0 + 1, Len(tests))
    BY <2>1, SubSeqFull
  <2>4. Accounted(tests, 0)
    BY DEF Accounted
  <2>5. Position(tests, 0)
    BY <2>3, <2>4 DEF Init, Position, Begun
  <2> QED BY <2>1, <2>2, <2>5 DEF Placed
<1>3. Looked /\ NoToolNext /\ OneUser
  BY <1>1 DEF Init, Looked, NoToolNext, OneUser
<1>4. DeviceInv
  BY <1>1, Names DEF Init, DeviceInv, Packets
<1> QED BY <1>2, <1>3, <1>4 DEF ListInv

(* For all lists in which a test that may end at once is behind one for    *)
(* the CBE library, the position in the list and the use of the device are *)
(* as ListInv and DeviceInv say.                                           *)
THEOREM ListInvariance ==
  ASSUME After_Requests
  PROVE  Spec => [](ListInv /\ DeviceInv)
<1>1. Init => ListInv /\ DeviceInv
  BY InitLInv
<1>2. IInv /\ (ListInv /\ DeviceInv) /\ [Next]_vars => (ListInv /\ DeviceInv)'
  BY NextLInv, SameLInv
<1> QED BY <1>1, <1>2, TesterInvariance, PTL DEF Spec

(* For these lists, no handler meets a request that it does not expect,    *)
(* and no library gets an answer to the request of another one (Block_IO   *)
(* and the handlers of Main raise no error).                               *)
THEOREM NeverThrows ==
  ASSUME After_Requests
  PROVE  Spec => []NoProgramError
<1>1. ListInv /\ DeviceInv => NoProgramError
  BY DEF DeviceInv, NoProgramError
<1> QED BY <1>1, ListInvariance, PTL

(* For these lists, one library at a time works on the device, and the CBE *)
(* library is gone while a tool does.                                      *)
THEOREM AlwaysOneUser ==
  ASSUME After_Requests
  PROVE  Spec => []ExclusiveDevice
<1>1. IInv /\ (ListInv /\ DeviceInv) => ExclusiveDevice
  <2> SUFFICES ASSUME IInv, ListInv, DeviceInv PROVE ExclusiveDevice
    OBVIOUS
  <2>1. DOMAIN libs = Libs
    BY DEF IInv, LibsType
  <2>2. \A l, k \in DOMAIN libs : libs[l].jobs # <<>> /\ libs[k].jobs # <<>> => l = k
    BY <2>1, OnlyUser DEF ListInv, Jobs
  <2>3. blk_req # Nobody => libs[blk_req].io = "in_progress"
    BY DEF IInv, TypesOther, DeviceInv, Packets
  <2>4. state \in Tools /\ pc \in {"execute", "submit", "acknowledge", "final"} => ~constructed
    BY DEF IInv, Handlers
  <2> QED BY <2>2, <2>3, <2>4 DEF ExclusiveDevice
<1> QED BY <1>1, TesterInvariance, ListInvariance, PTL
=============================================================================
