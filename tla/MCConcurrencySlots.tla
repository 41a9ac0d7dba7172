------------------------- MODULE MCConcurrencySlots -------------------------
(* Three requests on two instances. *)
EXTENDS ConcurrencySlots, TLC

CONSTANTS r1, r2, r3, i1, i2

\* A request for a sticky session and two others, with the shorter queue.
MCMaxWait == [r \in Requests |-> IF r = r3 THEN 2 ELSE 1]

MCOwner == [r \in Requests |-> IF r = r3 THEN i2 ELSE i1]

\* Requests of one instance are interchangeable.
Symmetry == Permutations({r1, r2})
=============================================================================
