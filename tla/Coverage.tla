------------------------------ MODULE Coverage -------------------------------
(***************************************************************************)
(* What the indexer promises about history, whatever does the indexing:    *)
(* for each contract and kind there are the ledgers it has and the ledgers *)
(* it vouches for.  Indexing adds to both and never vouches for what it    *)
(* does not have.  Only while a request of the operator is being served is *)
(* a claim taken back, or a new one begun on what is there already.        *)
(* Module Indexer implements this.                                         *)
(***************************************************************************)
CONSTANTS Contracts, Kinds

VARIABLES
    have,       \* contract -> kind -> ledgers derived
    vouched,    \* contract -> kind -> ledgers the API vouches for
    request     \* an admin request is being served

vars == <<have, vouched, request>>

Pairs == Contracts \X Kinds

\* Pointwise inclusion of two maps from contracts and kinds to ledgers.
Within(f, g) == \A p \in Pairs : f[p[1]][p[2]] \subseteq g[p[1]][p[2]]

Nothing == [c \in Contracts |-> [k \in Kinds |-> {}]]

Init == have = Nothing /\ vouched = Nothing /\ request = FALSE

Index ==
    /\ Within(have, have') /\ Within(vouched, vouched') /\ Within(vouched', have')
    /\ UNCHANGED request

TakenBack(c, k) == vouched'[c][k] \subseteq vouched[c][k]

Begun(c, k) == vouched[c][k] = {} /\ vouched'[c][k] \subseteq have[c][k]

Serve ==
    /\ request \/ request'
    /\ \A p \in Pairs : TakenBack(p[1], p[2]) \/ Begun(p[1], p[2])
    /\ UNCHANGED have

Next == Index \/ Serve

Spec == Init /\ [][Next]_vars

=============================================================================
