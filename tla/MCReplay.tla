------------------------------ MODULE MCReplay ------------------------------
EXTENDS Replay
(* vfs_replay writes the same byte everywhere. *)
MCPayload == [n \in 0 .. Max_Count - 1 |-> 1]
MCRequests ==
  {<<"SYNC", 0, 0>>, <<"READ", 4, 1>>} \cup {"READ", "WRITE"} \X {0, 1, 2} \X {2, 3, 4}
=============================================================================
