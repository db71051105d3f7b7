------------------------------ MODULE MCIndexer ------------------------------
(* Instances of Indexer for TLC.                                           *)
EXTENDS Indexer, TLC

CONSTANTS c1, c2, k1, k2

\* Every contract walks to genesis.
Genesis(c) == {1}

\* Two registrations with different floors.
MixedFloors(c) == IF c = c1 THEN {1} ELSE {2}

\* A registration script may name either floor for any contract.
AnyFloor(c) == {1, 3}

NoPlans == {}

\* Replay the oldest ledger only, one in the middle of a gap, or all but the oldest.
SomePlans == {{1}, {2}, {2, 3}}

\* Bound of the liveness instance: a request stops half way, or a reload fails,
\* only while at most one contract is registered.  It takes away no step that
\* fairness asks for.
FewFaults == (RegisterFails \/ ReloadFails) => Cardinality(DOMAIN contracts) <= 1

Symmetric == Permutations(Kinds) \cup Permutations(Workers)

=============================================================================
