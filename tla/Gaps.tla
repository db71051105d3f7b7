-------------------------------- MODULE Gaps --------------------------------
(***************************************************************************)
(* The gaps table (internal/store): every range of history the indexer     *)
(* knows it has not derived.  A row's identity is its range, so the table  *)
(* is a partial function from ranges to rows.  The operators below are     *)
(* what each store transaction does to that table; Store calls them.       *)
(*                                                                         *)
(* The loops over sorted slices in uncoveredRanges and partition are       *)
(* stated here by their result, the maximal runs of a set of ledgers;      *)
(* PlanAlgebra checks the loops against this statement.                    *)
(***************************************************************************)
EXTENDS Integers, FiniteSetsExt

CONSTANT MaxLedger      \* bound: the newest ledger a behaviour can reach

ASSUME MaxLedgerAssumption == MaxLedger \in Nat \ {0}

Ledgers == 1..MaxLedger

GapId == {id \in Ledgers \X Ledgers : id[1] <= id[2]}

Span(id) == id[1]..id[2]

HealMode == {"replay", "deferred"}

\* heal_next_to is NULL until the first heal and then reads as to_sequence
\* (scanGap); the model stores to_sequence from the start.
GapRow == [open: BOOLEAN, healNextTo: 0..MaxLedger, healMode: HealMode]

IsGapTable(gaps) == DOMAIN gaps \subseteq GapId /\ gaps \in [DOMAIN gaps -> GapRow]

Open(gaps) == {id \in DOMAIN gaps : gaps[id].open}

\* What is still to be replayed inside one open gap.
Remainder(gaps, id) == id[1]..gaps[id].healNextTo

Owed(gaps) == UNION {Remainder(gaps, id) : id \in Open(gaps)}

FreshGap(id, mode) == [open |-> TRUE, healNextTo |-> id[2], healMode |-> mode]

\* The maximal intervals of a set of ledgers.
Runs(S) == {id \in GapId : /\ Span(id) \subseteq S
                           /\ id[1] - 1 \notin S
                           /\ id[2] + 1 \notin S}

-----------------------------------------------------------------------------
(* RecordGap: rewind what the range touches, insert what nothing covers.   *)

Touching(gaps, from, to) == {id \in Open(gaps) : id[2] >= from /\ id[1] <= to}

\* Mutant: the subtraction is forgotten, the whole range becomes one gap.
uncoveredRanges_NoSubtract(from, to, covered) == {<<from, to>>}

uncoveredRanges(from, to, covered) ==
    Runs((from..to) \ UNION {Span(id) : id \in covered})

\* Mutant: the insert does nothing on a conflict, so a resolved row stays so.
RecordGapRows_ResolvedStays(gaps, from, to) ==
    LET touching == Touching(gaps, from, to)
        holes == uncoveredRanges(from, to, touching)
    IN [id \in DOMAIN gaps \cup holes |->
          CASE id \notin DOMAIN gaps -> FreshGap(id, "replay")
            [] id \in touching      -> [gaps[id] EXCEPT !.healNextTo = id[2]]
            [] OTHER                -> gaps[id]]

\* A hole that names a resolved row reopens it; an open row is never a hole.
RecordGapRows(gaps, from, to) ==
    LET touching == Touching(gaps, from, to)
        holes == uncoveredRanges(from, to, touching)
    IN [id \in DOMAIN gaps \cup holes |->
          CASE id \in holes    -> FreshGap(id, "replay")
            [] id \in touching -> [gaps[id] EXCEPT !.healNextTo = id[2]]
            [] OTHER           -> gaps[id]]

-----------------------------------------------------------------------------
(* ReopenGaps: everything the range overlaps is owed in full, by replay.   *)

ReopenGapsRows(gaps, from, to) ==
    [id \in DOMAIN gaps |->
       IF id \in Touching(gaps, from, to) THEN FreshGap(id, "replay") ELSE gaps[id]]

-----------------------------------------------------------------------------
(* PlanHeal: wanted is the set of ledgers of the normalized plan.          *)

PieceMode(piece, wanted) == IF piece[1] \in wanted THEN "replay" ELSE "deferred"

partition(range, wanted) == Runs(range \cap wanted) \cup Runs(range \ wanted)

\* A gap whose remainder is one piece in the mode it already has is left
\* alone, and so is one with nothing left to heal.
SplitGaps(gaps, wanted) ==
    {id \in Open(gaps) :
        /\ Remainder(gaps, id) # {}
        /\ partition(Remainder(gaps, id), wanted)
              # {p \in {<<id[1], gaps[id].healNextTo>>} :
                    PieceMode(p, wanted) = gaps[id].healMode}}

\* Mutant: the pieces are cut from the whole gap, the healed top included,
\* and the old row is not deleted.
PlanHealRows_NoDelete(gaps, wanted) ==
    LET split == SplitGaps(gaps, wanted)
        pieces == UNION {partition(Span(id), wanted) : id \in split}
    IN [id \in DOMAIN gaps \cup pieces |->
          IF id \in DOMAIN gaps THEN gaps[id] ELSE FreshGap(id, PieceMode(id, wanted))]

\* splitGap deletes the row and inserts its pieces.  The insert's conflict
\* clause touches only an open row of the same range: a piece whose range is
\* that of a resolved row leaves that row resolved.
PlanHealRows(gaps, wanted) ==
    LET split == SplitGaps(gaps, wanted)
        kept == DOMAIN gaps \ split
        pieces == UNION {partition(Remainder(gaps, id), wanted) : id \in split}
    IN [id \in kept \cup pieces |->
          CASE id \notin kept -> FreshGap(id, PieceMode(id, wanted))
            [] id \in kept \cap pieces /\ gaps[id].open
                 -> [gaps[id] EXCEPT !.healMode = PieceMode(id, wanted)]
            [] OTHER -> gaps[id]]

\* A plan one of whose pieces is the range of an already resolved row.
PlanHitsResolved(gaps, wanted) ==
    \E id \in SplitGaps(gaps, wanted) :
       \E p \in partition(Remainder(gaps, id), wanted) :
          p \in DOMAIN gaps /\ ~gaps[p].open

-----------------------------------------------------------------------------
(* CommitHealChunk: the watermark of one open row moves, or it resolves.   *)

HealRow(gaps, id, newNextTo) ==
    [gaps EXCEPT ![id].healNextTo = newNextTo, ![id].open = newNextTo >= id[1]]

\* The highest end of an open gap below a resolved one (0 when none is open).
DeeperEnd(gaps, floor) ==
    Max({0} \cup {id[2] : id \in {g \in Open(gaps) : g[2] < floor}})

-----------------------------------------------------------------------------
\* Two open gaps never promise the same ledger: the healer would replay it
\* once per gap, and a clamp could be released by the wrong one.  This is
\* what the subtraction in RecordGap and the split in PlanHeal are for.
OpenGapsDisjoint(gaps) ==
    \A g, h \in Open(gaps) : g # h => Span(g) \cap Span(h) = {}

\* An open gap still owes at least its floor and at most its whole range;
\* healChunk subtracts From from this watermark as unsigned integers.
WatermarkInRange(gaps) ==
    \A id \in Open(gaps) : gaps[id].healNextTo \in Span(id)

=============================================================================
