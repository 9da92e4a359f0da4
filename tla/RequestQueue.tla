---------------------------- MODULE RequestQueue ----------------------------
(***************************************************************************)
(* What the request pool of the CBE promises to the clients: requests are  *)
(* answered in the order in which they were submitted, with one exception. *)
(* Rekeying and extending take long, so requests that do not depend on     *)
(* them may overtake, but only the one such operation that is being worked *)
(* on, and never each other.  Module RequestPool is shown to implement     *)
(* this specification.                                                     *)
(***************************************************************************)
EXTENDS Integers, Sequences

CONSTANT Requests      \* records with at least the fields of a request below

VARIABLES
  waiting,             \* requests not answered yet, in the order of submission
  answered             \* answers the clients have not taken yet

vars == <<waiting, answered>>

Blockwise  == {"Read", "Write"}
Long       == {"Rekey", "Extend_VBD", "Extend_FT"}
Preponable == {"Read", "Write", "Sync", "Discard_Snapshot"}

Without(s, i) == SubSeq(s, 1, i - 1) \o SubSeq(s, i + 1, Len(s))

(* The requests that may be answered next. *)
Turn(i) ==
  \/ i = 1
  \/ i = 2 /\ waiting[1].op \in Long /\ waiting[2].op \in Preponable

(* A request for blocks succeeds exactly if all of them exist.  Only a     *)
(* snapshot to be discarded may turn out not to exist.                     *)
Outcome(r, success) ==
  \/ r.op \in Blockwise /\ success = (r.inside = r.count)
  \/ r.op = "Discard_Snapshot"
  \/ r.op \notin Blockwise /\ success

Init ==
  /\ \E r \in Requests : r.op = "Initialize" /\ waiting = <<r>>
  /\ answered = {}

Submit(r) ==
  /\ r.op # "Initialize"
  /\ waiting' = Append(waiting, r)
  /\ UNCHANGED answered

(* The initialization of the library itself has no client. *)
Ready ==
  /\ waiting # <<>> /\ waiting[1].op = "Initialize"
  /\ waiting' = Tail(waiting)
  /\ UNCHANGED answered

Answer(i, success) ==
  /\ Turn(i)
  /\ waiting[i].op # "Initialize"
  /\ Outcome(waiting[i], success)
  /\ waiting' = Without(waiting, i)
  /\ answered' = answered \cup {[request |-> waiting[i], success |-> success]}

Take(a) ==
  /\ answered' = answered \ {a}
  /\ UNCHANGED waiting

Next ==
  \/ \E r \in Requests : Submit(r)
  \/ Ready
  \/ \E i \in 1 .. Len(waiting), success \in BOOLEAN : Answer(i, success)
  \/ \E a \in answered : Take(a)

Spec == Init /\ [][Next]_vars
=============================================================================
