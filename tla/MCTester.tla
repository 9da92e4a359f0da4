------------------------------ MODULE MCTester ------------------------------
EXTENDS Tester

CONSTANTS Max_Tests, Types

T(type) == [type |-> type, id |-> 0]
MCTests == {T(t) : t \in Types} \cup [type : {"CREATE_SNAPSHOT", "DISCARD_SNAPSHOT"}, id : {1, 2}]

Lists(n) == UNION {[1 .. k -> MCTests] : k \in 1 .. n}

(* Tests that end in the handler that starts them: to list the snapshots,  *)
(* and to discard one that is not there.                                   *)
Unknown(l, i) ==
  \/ \A k \in 1 .. i - 1 : l[k] # [type |-> "CREATE_SNAPSHOT", id |-> l[i].id]
  \/ \E k \in 1 .. i - 1 : l[k] = l[i]

EndsAtOnce(l, i) ==
  \/ l[i].type = "LIST_SNAPSHOTS"
  \/ l[i].type = "DISCARD_SNAPSHOT" /\ Unknown(l, i)

(* Those come behind a request or the creation of a snapshot, as they do   *)
(* in run/cbe_tester-full_override.run; the device is initialized first.   *)
AsInTheRunScripts(l) ==
  /\ \A i \in DOMAIN l : l[i].type = "INITIALIZE" => i = 1
  /\ \A i \in DOMAIN l : EndsAtOnce(l, i) =>
       i > 1 /\ l[i - 1].type \in {"REQUEST", "CREATE_SNAPSHOT"}

MCTest_Lists == {l \in Lists(Max_Tests) : AsInTheRunScripts(l)}
MCAll_Lists  == Lists(Max_Tests)

(* The tests of run/cbe_tester-full_override.run. *)
Snapshot(op, id) == [type |-> op, id |-> id]
MCFull_Override == {<<
  T("INITIALIZE"), T("DUMP"),
  T("REQUEST"), T("REQUEST"), T("REQUEST"), Snapshot("CREATE_SNAPSHOT", 1), T("DUMP"),
  T("REQUEST"),
  Snapshot("DISCARD_SNAPSHOT", 3), T("REQUEST"), T("REQUEST"), T("REQUEST"),
  Snapshot("CREATE_SNAPSHOT", 2), T("DUMP"),
  T("REQUEST")>>}

(* The script expects exit value 0 (line 190) though it discards snapshot  *)
(* 3 (line 140), which no test creates: if that is all that goes wrong.    *)
FullOverridePasses == exited # "none" /\ failures <= 1 => exited = "0"
=============================================================================
