---------------------------- MODULE SnapshotStore ----------------------------
(***************************************************************************)
(* What the virtual block device promises: the data written last at each   *)
(* address, and snapshots of all data that stay what they were when they   *)
(* were made, whatever is written, rekeyed or discarded after.             *)
(***************************************************************************)
CONSTANTS
  Address,   \* addresses of the device
  Data,      \* what is written at an address
  Zero,      \* what is read where nothing was written
  Place      \* places for snapshots

VARIABLES
  current,   \* the data at each address
  kept       \* at each place the data of a snapshot, or none

None == [a \in {} |-> Zero]

Init == /\ current = [a \in Address |-> Zero]
        /\ kept = [p \in Place |-> None]

Write(a) == /\ \E d \in Data : current' = [current EXCEPT ![a] = d]
            /\ UNCHANGED kept

Create_Snapshot(p) == /\ kept[p] = None
                      /\ kept' = [kept EXCEPT ![p] = current]
                      /\ UNCHANGED current

Discard_Snapshot(p) == /\ kept[p] # None
                       /\ kept' = [kept EXCEPT ![p] = None]
                       /\ UNCHANGED current

Next == \/ \E a \in Address : Write(a)
        \/ \E p \in Place : Create_Snapshot(p) \/ Discard_Snapshot(p)

Spec == Init /\ [][Next]_<<current, kept>>
=============================================================================
