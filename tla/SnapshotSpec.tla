---------------------------- MODULE SnapshotSpec ----------------------------
(***************************************************************************)
(* What save, load and the restart of the program promise: one snapshot of *)
(* the tree of TreeSpec.  A save may lose the older snapshot before it has *)
(* taken the new one; a load brings back the snapshot, whatever happened   *)
(* to the tree since; an end takes the tree and leaves the snapshot.       *)
(***************************************************************************)
EXTENDS TreeSpec

VARIABLE saved        \* the snapshot, as a set with at most one element

snapvars == <<node, entries, saved>>

NoTree == node = [n \in {} |-> n] /\ entries = [d \in {} |-> d]

Change == Next /\ UNCHANGED saved

Save ==
  /\ saved' = {[node |-> node, entries |-> entries]}
  /\ UNCHANGED vars

Lose == saved' = {} /\ UNCHANGED vars

Load ==
  /\ \E snapshot \in saved : node' = snapshot.node /\ entries' = snapshot.entries
  /\ UNCHANGED saved

Stop  == NoTree' /\ UNCHANGED saved
Start == NoTree /\ IsTree' /\ UNCHANGED saved

SnapSpec ==
  /\ IsTree /\ saved = {}
  /\ [][Save \/ Lose \/ Load \/ Stop \/ Start \/ Change]_snapvars
=============================================================================
