------------------------------ MODULE HeapSpec ------------------------------
(***************************************************************************)
(* What the allocator promises its callers: it grants extents of bytes     *)
(* that lie inside the data region, leave room for a header before them,   *)
(* and never overlap an extent that is still held.  A request may be       *)
(* refused; a refusal changes nothing.                                     *)
(***************************************************************************)
EXTENDS Integers

CONSTANTS RAM_SIZE, DATA_REGION_OFFSET, BLOCK_HEADER_SIZE, Sizes

VARIABLE held     \* held[p]: the size the caller asked for at pointer p

Disjoint(p, s, q, t) == p + s + BLOCK_HEADER_SIZE <= q \/ q + t + BLOCK_HEADER_SIZE <= p

Init == held = [p \in {} |-> 0]

Grant(p, size) ==
  /\ size > 0
  /\ DATA_REGION_OFFSET + BLOCK_HEADER_SIZE <= p
  /\ p + size <= RAM_SIZE
  /\ \A q \in DOMAIN held : Disjoint(p, size, q, held[q])
  /\ held' = [q \in DOMAIN held \cup {p} |-> IF q = p THEN size ELSE held[q]]

GiveBack(p) ==
  /\ p \in DOMAIN held
  /\ held' = [q \in DOMAIN held \ {p} |-> held[q]]

Next ==
  \/ \E p \in DATA_REGION_OFFSET .. RAM_SIZE, size \in Sizes : Grant(p, size)
  \/ \E p \in DOMAIN held : GiveBack(p)

Spec == Init /\ [][Next]_held
=============================================================================
