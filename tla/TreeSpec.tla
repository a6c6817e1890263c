------------------------------ MODULE TreeSpec ------------------------------
(***************************************************************************)
(* What the file system promises the shell: a tree of named nodes.  Each   *)
(* directory lists a set of nodes under distinct names, only leaves are    *)
(* removed, the root stays, and a file reads back what was last written to *)
(* it, or nothing when that write was refused for lack of memory.          *)
(***************************************************************************)
EXTENDS Integers

CONSTANTS
  ROOT,
  DIR, FILE,            \* the kinds of node
  Contents, Nothing     \* what files hold; Nothing, when they hold nothing

VARIABLES
  node,       \* node[n]: name, kind and content of every node of the tree
  entries     \* entries[d]: the nodes that directory d lists

vars == <<node, entries>>

Kinds == {DIR, FILE}

(* A tree whose nodes are listed by exactly one directory, under names     *)
(* that differ within it.                                                  *)
IsTree ==
  /\ ROOT \in DOMAIN node
  /\ \A n \in DOMAIN node : node[n].kind \in Kinds
  /\ DOMAIN entries = {d \in DOMAIN node : node[d].kind = DIR}
  /\ \A n \in DOMAIN node \ {ROOT} : \E d \in DOMAIN entries :
       /\ n \in entries[d]
       /\ \A e \in DOMAIN entries \ {d} : n \notin entries[e]
  /\ \A d \in DOMAIN entries, m, n \in DOMAIN node :
       {m, n} \subseteq entries[d] /\ node[m].name = node[n].name => m = n

Init == IsTree

(* n is the node that this step brings. *)
Add(d, n) ==
  /\ DOMAIN node' = DOMAIN node \cup {n}
  /\ \A m \in DOMAIN node : node'[m] = node[m]
  /\ \A m \in entries[d] : node[m].name # node'[n].name
  /\ node'[n].content = Nothing
  /\ node'[n].kind \in Kinds
  /\ entries' = [e \in {m \in DOMAIN node' : node'[m].kind = DIR} |->
                   IF e = n THEN {} ELSE IF e = d THEN entries[d] \cup {n} ELSE entries[e]]

(* n is the node that this step takes. *)
Discard(d, n) ==
  /\ n \in entries[d] \ {ROOT}
  /\ node[n].kind = DIR => entries[n] = {}
  /\ node' = [m \in DOMAIN node \ {n} |-> node[m]]
  /\ entries' = [e \in DOMAIN entries \ {n} |->
                   IF e = d THEN entries[d] \ {n} ELSE entries[e]]

Overwrite(n, content) ==
  /\ node[n].kind = FILE
  /\ node' = [node EXCEPT ![n].content = content]
  /\ UNCHANGED entries

Next ==
  \/ \E n \in DOMAIN node' \ DOMAIN node, d \in DOMAIN entries : Add(d, n)
  \/ \E n \in DOMAIN node \ DOMAIN node', d \in DOMAIN entries : Discard(d, n)
  \/ \E n \in DOMAIN node, content \in Contents \cup {Nothing} : Overwrite(n, content)

Spec == Init /\ [][Next]_vars
=============================================================================
