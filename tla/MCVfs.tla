------------------------------- MODULE MCVfs --------------------------------
EXTENDS Vfs
CONSTANTS h, k
(* Neighbouring bytes of a request differ. *)
MCPayload == [n \in 0 .. Max_Count - 1 |-> 1 + (n % 2)]
(* Whole blocks, one or two, parts of a block, a block and a part of the   *)
(* next, no bytes, and blocks partly or entirely past the end.             *)
MCRequests ==
  {"READ"} \X {0, 1} \X {1, 4}
    \cup {"WRITE"} \X {0, 1} \X {1, 3, 4}
    \cup {<<"SYNC", 0, 0>>, <<"READ", 3, 0>>, <<"WRITE", 2, 4>>, <<"READ", 4, 2>>, <<"READ", 4, 1>>}
=============================================================================
