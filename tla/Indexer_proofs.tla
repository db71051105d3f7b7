--------------------------- MODULE Indexer_proofs ---------------------------
(***************************************************************************)
(* The gaps table is sound in every behaviour of the indexer: whatever the *)
(* contracts, chunk sizes, margins, numbers of workers and crashes, and    *)
(* with every race the code allows.  The induction carries the type        *)
(* invariant of the whole system: a healed chunk leaves a sound table only *)
(* if the gap a worker holds was listed with a watermark inside it, and a  *)
(* clamp records a sound gap only if the wall it found is a ledger.        *)
(*                                                                         *)
(* First the gaps table, of any size: every operator on it keeps the open  *)
(* gaps pairwise disjoint and each watermark inside its gap.  Then every   *)
(* store transaction, called with arguments of the right types; then the   *)
(* steps of the actors that call them.                                     *)
(***************************************************************************)
EXTENDS Indexer, WellFoundedInduction, TLAPS

\* A non-empty set of naturals has a least element.
LEMMA LeastNatural ==
    ASSUME NEW T \in SUBSET Nat, T # {}
    PROVE  \E x \in T : \A y \in T : x <= y
<1> DEFINE R == OpToRel(<, Nat)
<1>1. IsWellFoundedOn(R, Nat)
  BY NatLessThanWellFounded
<1>2. PICK x \in T : \A y \in T : ~ (<<y, x>> \in R)
  <2> HIDE DEF R
  <2> QED BY <1>1, WFMin, Zenon
<1>3. \A y \in T : y < x => <<y, x>> \in R
  BY DEF OpToRel
<1>4. \A y \in T : ~ (y < x)
  <2> HIDE DEF R
  <2> QED BY <1>2, <1>3, Zenon
<1>5. \A y \in T : x <= y
  BY <1>4
<1> QED BY <1>5

\* Max and Min of a bounded set of naturals are members and bounds of it.
LEMMA MaxBounded ==
    ASSUME NEW N \in Nat, NEW S \in SUBSET (0..N), S # {}
    PROVE  Max(S) \in S /\ \A y \in S : y <= Max(S)
<1> DEFINE T == {N - x : x \in S}
<1>1. T \in SUBSET Nat
  OBVIOUS
<1>2. T # {}
  <2>1. PICK x \in S : TRUE
    OBVIOUS
  <2> QED BY <2>1
<1>3. PICK m \in T : \A y \in T : m <= y
  BY <1>1, <1>2, LeastNatural
<1>4. PICK x \in S : m = N - x
  BY <1>3
<1>5. \A y \in S : x >= y
  BY <1>3, <1>4
<1> QED BY <1>5 DEF Max

\* The greater of two integers, from the definition of Max by CHOOSE.
LEMMA MaxPair ==
    ASSUME NEW a \in Int, NEW b \in Int
    PROVE  Max({a, b}) = IF a >= b THEN a ELSE b
<1>1. CASE a >= b
  <2>1. \A x \in {a, b} : (\A y \in {a, b} : x >= y) <=> x = a
    BY <1>1
  <2> QED BY <1>1, <2>1 DEF Max
<1>2. CASE b > a
  <2>1. \A x \in {a, b} : (\A y \in {a, b} : x >= y) <=> x = b
    BY <1>2
  <2> QED BY <1>2, <2>1 DEF Max
<1> QED BY <1>1, <1>2

\* The lesser of two integers, likewise.
LEMMA MinPair ==
    ASSUME NEW a \in Int, NEW b \in Int
    PROVE  Min({a, b}) = IF a <= b THEN a ELSE b
<1>1. CASE a <= b
  <2>1. \A x \in {a, b} : (\A y \in {a, b} : x <= y) <=> x = a
    BY <1>1
  <2> QED BY <1>1, <2>1 DEF Min
<1>2. CASE b < a
  <2>1. \A x \in {a, b} : (\A y \in {a, b} : x <= y) <=> x = b
    BY <1>2
  <2> QED BY <1>2, <2>1 DEF Min
<1> QED BY <1>1, <1>2

-----------------------------------------------------------------------------
(* Runs and partition.                                                     *)

\* The identity of a gap is an ordered pair of ledgers.
LEMMA GapIdPair ==
    ASSUME NEW id \in GapId
    PROVE  /\ id[1] \in Ledgers /\ id[2] \in Ledgers /\ id[1] <= id[2]
           /\ id = <<id[1], id[2]>>
  BY DEF GapId

\* Two maximal runs of one set that share a ledger are the same run: the
\* lower end of one would otherwise extend the other.
LEMMA RunsDisjoint ==
    ASSUME NEW S, NEW g \in Runs(S), NEW h \in Runs(S), g # h
    PROVE  Span(g) \cap Span(h) = {}
<1>1. g \in GapId /\ h \in GapId
  BY DEF Runs
<1> SUFFICES ASSUME NEW l \in Span(g), l \in Span(h)
             PROVE  FALSE
  OBVIOUS
<1>2. g[1] \in Int /\ g[2] \in Int /\ h[1] \in Int /\ h[2] \in Int /\ l \in Int
  BY <1>1, GapIdPair DEF Span, Ledgers
<1>3. g[1] = h[1]
  <2>1. \A a, b \in Runs(S) : l \in Span(a) /\ l \in Span(b) => ~ (a[1] < b[1])
    <3> SUFFICES ASSUME NEW a \in Runs(S), NEW b \in Runs(S),
                        l \in Span(a), l \in Span(b), a[1] < b[1]
                 PROVE  FALSE
      OBVIOUS
    <3>1. a[1] \in Int /\ a[2] \in Int /\ b[1] \in Int /\ b[2] \in Int
      BY GapIdPair DEF Runs, Ledgers
    <3>2. b[1] - 1 \in Span(a)
      BY <3>1, <1>2 DEF Span
    <3> QED BY <3>2 DEF Runs
  <2> QED BY <2>1, <1>2
<1>4. g[2] = h[2]
  <2>1. \A a, b \in Runs(S) : l \in Span(a) /\ l \in Span(b) => ~ (a[2] < b[2])
    <3> SUFFICES ASSUME NEW a \in Runs(S), NEW b \in Runs(S),
                        l \in Span(a), l \in Span(b), a[2] < b[2]
                 PROVE  FALSE
      OBVIOUS
    <3>1. a[1] \in Int /\ a[2] \in Int /\ b[1] \in Int /\ b[2] \in Int
      BY GapIdPair DEF Runs, Ledgers
    <3>2. a[2] + 1 \in Span(b)
      BY <3>1, <1>2 DEF Span
    <3> QED BY <3>2 DEF Runs
  <2> QED BY <2>1, <1>2
<1> QED BY <1>1, <1>3, <1>4, GapIdPair

\* The pieces of a partition lie inside the range and do not overlap.
LEMMA PartitionDisjoint ==
    ASSUME NEW S, NEW wanted
    PROVE  /\ \A p \in partition(S, wanted) : p \in GapId /\ Span(p) \subseteq S
           /\ \A p, q \in partition(S, wanted) : p # q => Span(p) \cap Span(q) = {}
<1>1. \A p \in partition(S, wanted) : p \in GapId /\ Span(p) \subseteq S
  BY DEF partition, Runs
<1>2. ASSUME NEW p \in partition(S, wanted), NEW q \in partition(S, wanted), p # q
      PROVE  Span(p) \cap Span(q) = {}
  <2>1. CASE p \in Runs(S \cap wanted) /\ q \in Runs(S \cap wanted)
    BY <1>2, <2>1, RunsDisjoint
  <2>2. CASE p \in Runs(S \ wanted) /\ q \in Runs(S \ wanted)
    BY <1>2, <2>2, RunsDisjoint
  <2>3. CASE p \in Runs(S \cap wanted) /\ q \in Runs(S \ wanted)
    BY <2>3 DEF Runs
  <2>4. CASE p \in Runs(S \ wanted) /\ q \in Runs(S \cap wanted)
    BY <2>4 DEF Runs
  <2> QED BY <2>1, <2>2, <2>3, <2>4 DEF partition
<1> QED BY <1>1, <1>2

-----------------------------------------------------------------------------
(* The transactions on the table.                                          *)

SoundTable(tab) == IsGapTable(tab) /\ OpenGapsDisjoint(tab) /\ WatermarkInRange(tab)

\* A freshly recorded gap is well typed and owes its whole range.
LEMMA FreshGapSound ==
    ASSUME NEW id \in GapId, NEW mode \in HealMode
    PROVE  /\ FreshGap(id, mode) \in GapRow
           /\ FreshGap(id, mode).open
           /\ FreshGap(id, mode).healNextTo \in Span(id)
<1>1. id[2] \in 0..MaxLedger /\ id[2] \in Span(id)
  BY GapIdPair, MaxLedgerAssumption DEF Ledgers, Span
<1> QED BY <1>1 DEF FreshGap, GapRow

\* Recording a gap inserts only ranges no open gap covers and rewinds the
\* ones it touches, so the promises stay disjoint.
LEMMA RecordGapSound ==
    ASSUME NEW tab, SoundTable(tab), NEW from \in Int, NEW to \in Int
    PROVE  SoundTable(RecordGapRows(tab, from, to))
<1> DEFINE touching == Touching(tab, from, to)
           S == (from..to) \ UNION {Span(id) : id \in touching}
           holes == Runs(S)
           after == RecordGapRows(tab, from, to)
<1>1. after = [id \in DOMAIN tab \cup holes |->
                 CASE id \in holes    -> FreshGap(id, "replay")
                   [] id \in touching -> [tab[id] EXCEPT !.healNextTo = id[2]]
                   [] OTHER           -> tab[id]]
  BY DEF RecordGapRows, uncoveredRanges
<1>2. /\ DOMAIN tab \subseteq GapId
      /\ \A id \in DOMAIN tab : tab[id] \in GapRow
      /\ touching \subseteq Open(tab)
      /\ Open(tab) \subseteq DOMAIN tab
  BY DEF SoundTable, IsGapTable, Touching, Open
<1>3. \A id \in holes : id \in GapId /\ Span(id) \subseteq S
  BY DEF Runs
<1>4. \A id \in holes : /\ after[id] \in GapRow /\ after[id].open
                        /\ after[id].healNextTo \in Span(id)
  BY <1>1, <1>3, FreshGapSound DEF HealMode
<1>5. \A id \in touching \ holes : /\ after[id] \in GapRow /\ after[id].open
                                   /\ after[id].healNextTo \in Span(id)
  <2> SUFFICES ASSUME NEW id \in touching \ holes
               PROVE  /\ after[id] \in GapRow /\ after[id].open
                      /\ after[id].healNextTo \in Span(id)
    OBVIOUS
  <2>1. after[id] = [tab[id] EXCEPT !.healNextTo = id[2]]
    BY <1>1, <1>2
  <2>2. id[2] \in 0..MaxLedger /\ id[2] \in Span(id)
    BY <1>2, GapIdPair, MaxLedgerAssumption DEF Ledgers, Span
  <2> QED BY <2>1, <2>2, <1>2 DEF GapRow, Open
<1>6. \A id \in DOMAIN tab \ (touching \cup holes) : after[id] = tab[id]
  BY <1>1
<1>7. DOMAIN after = DOMAIN tab \cup holes
  BY <1>1
<1> HIDE DEF after
<1>8. IsGapTable(after)
  <2>1. \A id \in DOMAIN after : after[id] \in GapRow
    BY <1>2, <1>4, <1>5, <1>6, <1>7
  <2>2. after = [id \in DOMAIN after |-> after[id]]
    BY <1>1, <1>7
  <2> QED BY <2>1, <2>2, <1>2, <1>3, <1>7 DEF IsGapTable
<1>9. Open(after) = Open(tab) \cup holes
  BY <1>2, <1>4, <1>5, <1>6, <1>7 DEF Open
<1>10. \A g \in Open(tab), h \in holes : Span(g) \cap Span(h) = {}
  <2> SUFFICES ASSUME NEW g \in Open(tab), NEW h \in holes,
                      NEW l \in Span(g), l \in Span(h)
               PROVE  FALSE
    OBVIOUS
  <2>1. l \in from..to /\ l \notin UNION {Span(id) : id \in touching}
    BY <1>3
  <2>2. g[1] \in Int /\ g[2] \in Int
    BY <1>2, GapIdPair DEF Ledgers
  <2>3. g \in touching
    BY <2>1, <2>2 DEF Touching, Span
  <2> QED BY <2>1, <2>3
<1>11. OpenGapsDisjoint(after)
  <2>1. \A g, h \in holes : g # h => Span(g) \cap Span(h) = {}
    <3> HIDE DEF S
    <3> QED BY RunsDisjoint
  <2> QED BY <1>9, <1>10, <2>1 DEF OpenGapsDisjoint, SoundTable
<1>12. WatermarkInRange(after)
  BY <1>2, <1>4, <1>5, <1>6, <1>9 DEF WatermarkInRange, SoundTable
<1> QED BY <1>8, <1>11, <1>12 DEF SoundTable, after

\* Rewinding gaps changes neither which are open nor their ranges.
LEMMA ReopenGapsSound ==
    ASSUME NEW tab, SoundTable(tab), NEW from, NEW to
    PROVE  SoundTable(ReopenGapsRows(tab, from, to))
<1> DEFINE after == ReopenGapsRows(tab, from, to)
<1>1. /\ DOMAIN tab \subseteq GapId
      /\ \A id \in DOMAIN tab : tab[id] \in GapRow
  BY DEF SoundTable, IsGapTable
<1>2. \A id \in DOMAIN tab : /\ after[id] \in GapRow
                              /\ after[id].open = tab[id].open
                              /\ \/ after[id] = tab[id]
                                 \/ after[id].healNextTo \in Span(id)
  <2> SUFFICES ASSUME NEW id \in DOMAIN tab
               PROVE  /\ after[id] \in GapRow
                      /\ after[id].open = tab[id].open
                      /\ \/ after[id] = tab[id]
                         \/ after[id].healNextTo \in Span(id)
    OBVIOUS
  <2>1. CASE id \in Touching(tab, from, to)
    <3>1. after[id] = FreshGap(id, "replay") /\ tab[id].open = TRUE
      BY <2>1, <1>1 DEF ReopenGapsRows, Touching, Open, GapRow
    <3>2. FreshGap(id, "replay").open = TRUE
      BY DEF FreshGap
    <3> QED BY <3>1, <3>2, <1>1, FreshGapSound DEF HealMode
  <2>2. CASE id \notin Touching(tab, from, to)
    BY <2>2, <1>1 DEF ReopenGapsRows
  <2> QED BY <2>1, <2>2
<1>3. DOMAIN after = DOMAIN tab /\ after = [id \in DOMAIN after |-> after[id]]
  BY DEF ReopenGapsRows
<1> HIDE DEF after
<1>4. Open(after) = Open(tab)
  BY <1>2, <1>3 DEF Open
<1>5. IsGapTable(after)
  BY <1>1, <1>2, <1>3 DEF IsGapTable
<1>6. OpenGapsDisjoint(after) /\ WatermarkInRange(after)
  BY <1>2, <1>4 DEF OpenGapsDisjoint, WatermarkInRange, SoundTable, Open
<1> QED BY <1>5, <1>6 DEF SoundTable, after

\* A plan replaces open gaps by pieces of their own remainders, so no piece
\* meets another gap or a piece of one.
LEMMA PlanHealSound ==
    ASSUME NEW tab, SoundTable(tab), NEW wanted
    PROVE  SoundTable(PlanHealRows(tab, wanted))
<1> DEFINE split == SplitGaps(tab, wanted)
           kept == DOMAIN tab \ split
           Pieces(id) == partition(Remainder(tab, id), wanted)
           pieces == UNION {Pieces(id) : id \in split}
           after == PlanHealRows(tab, wanted)
<1>1. after = [id \in kept \cup pieces |->
                 CASE id \notin kept -> FreshGap(id, PieceMode(id, wanted))
                   [] id \in kept \cap pieces /\ tab[id].open
                        -> [tab[id] EXCEPT !.healMode = PieceMode(id, wanted)]
                   [] OTHER -> tab[id]]
  BY DEF PlanHealRows
<1>2. /\ DOMAIN tab \subseteq GapId
      /\ \A id \in DOMAIN tab : tab[id] \in GapRow
      /\ split \subseteq Open(tab)
      /\ Open(tab) \subseteq DOMAIN tab
  BY DEF SoundTable, IsGapTable, SplitGaps, Open
<1>3. \A id \in split : Remainder(tab, id) \subseteq Span(id)
  <2> SUFFICES ASSUME NEW id \in split
               PROVE  Remainder(tab, id) \subseteq Span(id)
    OBVIOUS
  <2>1. id[1] \in Int /\ id[2] \in Int
    BY <1>2, GapIdPair DEF Ledgers
  <2>2. tab[id].healNextTo \in Span(id)
    BY <1>2 DEF SoundTable, WatermarkInRange
  <2> QED BY <2>1, <2>2 DEF Remainder, Span
<1>4. \A id \in split : \A p \in Pieces(id) : p \in GapId /\ Span(p) \subseteq Span(id)
  BY <1>3, PartitionDisjoint
<1>5. \A id \in kept : /\ after[id] \in GapRow
                       /\ after[id].open = tab[id].open
                       /\ after[id].healNextTo = tab[id].healNextTo
  <2> SUFFICES ASSUME NEW id \in kept
               PROVE  /\ after[id] \in GapRow
                      /\ after[id].open = tab[id].open
                      /\ after[id].healNextTo = tab[id].healNextTo
    OBVIOUS
  <2>1. \/ after[id] = tab[id]
        \/ after[id] = [tab[id] EXCEPT !.healMode = PieceMode(id, wanted)]
    BY <1>1
  <2>2. PieceMode(id, wanted) \in HealMode
    BY DEF PieceMode, HealMode
  <2> QED BY <2>1, <2>2, <1>2 DEF GapRow
<1>6. \A id \in pieces \ kept : /\ after[id] \in GapRow /\ after[id].open
                                /\ after[id].healNextTo \in Span(id)
  <2> SUFFICES ASSUME NEW id \in pieces \ kept
               PROVE  /\ after[id] \in GapRow /\ after[id].open
                      /\ after[id].healNextTo \in Span(id)
    OBVIOUS
  <2>1. after[id] = FreshGap(id, PieceMode(id, wanted))
    BY <1>1
  <2>2. PieceMode(id, wanted) \in HealMode
    BY DEF PieceMode, HealMode
  <2>3. id \in GapId
    BY <1>4
  <2> QED BY <2>1, <2>2, <2>3, FreshGapSound
<1>7. DOMAIN after = kept \cup pieces /\ after = [id \in DOMAIN after |-> after[id]]
  BY <1>1
<1>8. kept \subseteq DOMAIN tab /\ pieces \subseteq GapId
  BY <1>4
<1>9. \A g \in Open(tab) \ split, p \in pieces : Span(g) \cap Span(p) = {}
  <2> SUFFICES ASSUME NEW g \in Open(tab) \ split, NEW p \in pieces
               PROVE  Span(g) \cap Span(p) = {}
    OBVIOUS
  <2>1. PICK id \in split : p \in Pieces(id)
    OBVIOUS
  <2>2. Span(g) \cap Span(id) = {}
    BY <1>2 DEF SoundTable, OpenGapsDisjoint
  <2> QED BY <2>1, <2>2, <1>4
<1>10. \A p, q \in pieces : p # q => Span(p) \cap Span(q) = {}
  <2> SUFFICES ASSUME NEW p \in pieces, NEW q \in pieces, p # q
               PROVE  Span(p) \cap Span(q) = {}
    OBVIOUS
  <2>1. PICK i \in split : p \in Pieces(i)
    OBVIOUS
  <2>2. PICK j \in split : q \in Pieces(j)
    OBVIOUS
  <2>3. CASE i = j
    BY <2>1, <2>2, <2>3, PartitionDisjoint
  <2>4. CASE i # j
    <3>1. Span(i) \cap Span(j) = {}
      BY <2>4, <1>2 DEF SoundTable, OpenGapsDisjoint
    <3> QED BY <3>1, <2>1, <2>2, <1>4
  <2> QED BY <2>3, <2>4
<1> HIDE DEF after, pieces, kept, split
<1>11. IsGapTable(after)
  BY <1>2, <1>5, <1>6, <1>7, <1>8 DEF IsGapTable
<1>12. Open(after) \subseteq (Open(tab) \ split) \cup pieces
  <2>1. kept = DOMAIN tab \ split
    BY DEF kept
  <2> QED BY <2>1, <1>5, <1>7 DEF Open
<1>13. OpenGapsDisjoint(after)
  <2>1. \A g, h \in Open(tab) \ split : g # h => Span(g) \cap Span(h) = {}
    BY DEF SoundTable, OpenGapsDisjoint
  <2> QED BY <1>9, <1>10, <1>12, <2>1 DEF OpenGapsDisjoint
<1>14. WatermarkInRange(after)
  BY <1>5, <1>6, <1>7, <1>8 DEF WatermarkInRange, SoundTable, Open
<1> QED BY <1>11, <1>13, <1>14 DEF SoundTable, after

\* A healed chunk leaves the watermark in the gap or resolves it.
LEMMA HealRowSound ==
    ASSUME NEW tab, SoundTable(tab), NEW id \in DOMAIN tab, tab[id].open,
           NEW newNextTo \in Int, id[1] - 1 <= newNextTo, newNextTo <= id[2]
    PROVE  SoundTable(HealRow(tab, id, newNextTo))
<1> DEFINE after == HealRow(tab, id, newNextTo)
           above == newNextTo >= id[1]
<1>1. /\ DOMAIN tab \subseteq GapId
      /\ \A g \in DOMAIN tab : tab[g] \in GapRow
      /\ tab = [g \in DOMAIN tab |-> tab[g]]
  BY DEF SoundTable, IsGapTable
<1>2. id[1] \in Ledgers /\ id[2] \in Ledgers /\ id[1] <= id[2]
  BY <1>1, GapIdPair
<1>3. newNextTo \in 0..MaxLedger
  BY <1>2, MaxLedgerAssumption DEF Ledgers
<1>4. /\ DOMAIN after = DOMAIN tab
      /\ after = [g \in DOMAIN after |-> after[g]]
      /\ \A g \in DOMAIN tab \ {id} : after[g] = tab[g]
  BY <1>1 DEF HealRow
<1>5. above \in BOOLEAN /\ (above => newNextTo \in Span(id))
  BY <1>2 DEF Span, Ledgers
<1>6. after[id] = [tab[id] EXCEPT !.healNextTo = newNextTo, !.open = above]
  BY DEF HealRow
<1>7. /\ after[id] \in GapRow
      /\ after[id].open = above /\ after[id].healNextTo = newNextTo
  <2> HIDE DEF above, after
  <2> QED BY <1>1, <1>3, <1>5, <1>6 DEF GapRow
<1> HIDE DEF after
<1>8. IsGapTable(after)
  BY <1>1, <1>4, <1>7 DEF IsGapTable
<1>9. Open(after) \subseteq Open(tab)
  BY <1>4 DEF Open
<1>10. OpenGapsDisjoint(after)
  BY <1>9 DEF OpenGapsDisjoint, SoundTable
<1>11. WatermarkInRange(after)
  <2> HIDE DEF above
  <2> QED BY <1>4, <1>5, <1>7, <1>9 DEF WatermarkInRange, SoundTable, Open
<1> QED BY <1>8, <1>10, <1>11 DEF SoundTable, after

-----------------------------------------------------------------------------
(* What the table owes.                                                    *)

\* The maximal runs of a set of ledgers cover it.
LEMMA RunsCover ==
    ASSUME NEW S \in SUBSET Ledgers, NEW l \in S
    PROVE  \E id \in Runs(S) : l \in Span(id)
<1>1. l \in 1..MaxLedger
  BY DEF Ledgers
<1> DEFINE A == {a \in 1..l : a..l \subseteq S}
           B == {b \in l..MaxLedger : l..b \subseteq S}
<1>2. PICK a \in A : \A x \in A : a <= x
  <2>1. l \in A /\ A \in SUBSET Nat
    BY <1>1
  <2> HIDE DEF A
  <2> QED BY <2>1, LeastNatural
<1>3. PICK b \in B : \A x \in B : x <= b
  <2>1. l \in B /\ B \in SUBSET (0..MaxLedger)
    BY <1>1, MaxLedgerAssumption
  <2> HIDE DEF B
  <2> QED BY <2>1, MaxBounded, MaxLedgerAssumption
<1>4. a \in 1..l /\ b \in l..MaxLedger /\ a..l \subseteq S /\ l..b \subseteq S
  BY <1>2, <1>3
<1>5. a - 1 \notin S
  <2> SUFFICES ASSUME a - 1 \in S PROVE FALSE
    OBVIOUS
  <2>1. a - 1 \in 1..l
    BY <1>1, <1>4 DEF Ledgers
  <2>2. (a - 1)..l \subseteq S
    BY <1>4, <2>1
  <2>3. a - 1 \in A
    BY <2>1, <2>2
  <2> QED BY <1>2, <1>4, <2>3
<1>6. b + 1 \notin S
  <2> SUFFICES ASSUME b + 1 \in S PROVE FALSE
    OBVIOUS
  <2>1. b + 1 \in l..MaxLedger
    BY <1>1, <1>4, MaxLedgerAssumption DEF Ledgers
  <2>2. l..(b + 1) \subseteq S
    BY <1>4, <2>1
  <2>3. b + 1 \in B
    BY <2>1, <2>2
  <2> QED BY <1>3, <1>4, <2>3
<1> HIDE DEF A, B
<1>7. <<a, b>> \in GapId /\ l \in a..b /\ a..b \subseteq S
  BY <1>1, <1>4, MaxLedgerAssumption DEF GapId, Ledgers
<1>8. <<a, b>> \in Runs(S) /\ l \in Span(<<a, b>>)
  BY <1>5, <1>6, <1>7 DEF Runs, Span
<1> QED BY <1>8

\* What an open gap of a sound table owes lies in its range.
LEMMA RemainderInSpan ==
    ASSUME NEW tab, SoundTable(tab), NEW id \in Open(tab)
    PROVE  /\ id \in GapId /\ Remainder(tab, id) \subseteq Span(id)
           /\ Remainder(tab, id) \subseteq Ledgers
<1>1. id \in GapId /\ tab[id].healNextTo \in Span(id)
  BY DEF SoundTable, IsGapTable, Open, WatermarkInRange
<1>2. id[1] \in 1..MaxLedger /\ id[2] \in 1..MaxLedger
  BY <1>1, GapIdPair DEF Ledgers
<1> QED BY <1>1, <1>2, MaxLedgerAssumption DEF Remainder, Span, Ledgers

\* A ledger that an open gap still owes is owed by the table.
LEMMA OwedBy ==
    ASSUME NEW tab, NEW id \in Open(tab), NEW l \in Remainder(tab, id)
    PROVE  l \in Owed(tab)
  BY DEF Owed

\* Recording a gap owes the whole range, and whatever was owed before.
LEMMA RecordGapOwes ==
    ASSUME NEW tab, SoundTable(tab), NEW from \in Int, NEW to \in Int,
           from..to \subseteq Ledgers
    PROVE  Owed(tab) \cup (from..to) \subseteq Owed(RecordGapRows(tab, from, to))
<1> DEFINE touching == Touching(tab, from, to)
           S == (from..to) \ UNION {Span(id) : id \in touching}
           holes == Runs(S)
           after == RecordGapRows(tab, from, to)
<1>1. after = [id \in DOMAIN tab \cup holes |->
                 CASE id \in holes    -> FreshGap(id, "replay")
                   [] id \in touching -> [tab[id] EXCEPT !.healNextTo = id[2]]
                   [] OTHER           -> tab[id]]
  BY DEF RecordGapRows, uncoveredRanges
<1>2. /\ \A id \in DOMAIN tab : tab[id] \in GapRow
      /\ touching \subseteq Open(tab) /\ Open(tab) \subseteq DOMAIN tab
  BY DEF SoundTable, IsGapTable, Touching, Open
<1>3. \A id \in holes : id \in Open(after) /\ Remainder(after, id) = Span(id)
  <2> SUFFICES ASSUME NEW id \in holes
               PROVE  id \in Open(after) /\ Remainder(after, id) = Span(id)
    OBVIOUS
  <2>0. id \notin touching
    <3>1. id[1] \in Span(id) /\ Span(id) \subseteq S
      BY GapIdPair DEF Runs, Span, Ledgers
    <3> QED BY <3>1
  <2> HIDE DEF holes
  <2>1. id \in DOMAIN after /\ after[id] = FreshGap(id, "replay")
    BY <1>1, <2>0
  <2>2. FreshGap(id, "replay").open = TRUE /\ FreshGap(id, "replay").healNextTo = id[2]
    BY DEF FreshGap
  <2> HIDE DEF after
  <2> QED BY <2>1, <2>2 DEF Open, Remainder, Span
<1>4. \A id \in touching : id \in Open(after) /\ Remainder(after, id) = Span(id)
  <2> SUFFICES ASSUME NEW id \in touching, id \notin holes
               PROVE  id \in Open(after) /\ Remainder(after, id) = Span(id)
    BY <1>3
  <2>1. after[id] = [tab[id] EXCEPT !.healNextTo = id[2]] /\ id \in DOMAIN after
    BY <1>1, <1>2
  <2>2. after[id].open /\ after[id].healNextTo = id[2]
    BY <1>2, <2>1 DEF GapRow, Open
  <2> QED BY <2>1, <2>2 DEF Open, Remainder, Span
<1>5. \A id \in Open(tab) \ (touching \cup holes) :
         id \in Open(after) /\ Remainder(after, id) = Remainder(tab, id)
  BY <1>1, <1>2 DEF Open, Remainder
<1> HIDE DEF after
<1>6. Owed(tab) \subseteq Owed(after)
  <2> SUFFICES ASSUME NEW id \in Open(tab), NEW l \in Remainder(tab, id)
               PROVE  l \in Owed(after)
    BY DEF Owed
  <2>1. l \in Span(id)
    BY RemainderInSpan
  <2> QED BY <1>3, <1>4, <1>5, <2>1, OwedBy
<1>7. ASSUME NEW l \in from..to
      PROVE  l \in Owed(after)
  <2>1. CASE l \in S
    <3>1. S \in SUBSET Ledgers
      OBVIOUS
    <3>2. \E id \in holes : l \in Span(id)
      <4> HIDE DEF S
      <4> QED BY <2>1, <3>1, RunsCover
    <3> QED BY <1>3, <3>2, OwedBy
  <2>2. CASE l \notin S
    <3>1. PICK id \in touching : l \in Span(id)
      BY <1>7, <2>2
    <3> QED BY <1>4, <3>1, OwedBy
  <2> QED BY <2>1, <2>2
<1> QED BY <1>6, <1>7 DEF after

\* Reopening gaps drops nothing that was owed.
LEMMA ReopenGapsOwes ==
    ASSUME NEW tab, SoundTable(tab), NEW from, NEW to
    PROVE  Owed(tab) \subseteq Owed(ReopenGapsRows(tab, from, to))
<1> DEFINE after == ReopenGapsRows(tab, from, to)
<1> SUFFICES ASSUME NEW id \in Open(tab), NEW l \in Remainder(tab, id)
             PROVE  l \in Owed(after)
  BY DEF Owed
<1>1. l \in Span(id) /\ id \in DOMAIN tab
  BY RemainderInSpan DEF Open
<1>2. after[id] = (IF id \in Touching(tab, from, to) THEN FreshGap(id, "replay") ELSE tab[id])
      /\ id \in DOMAIN after
  BY <1>1 DEF ReopenGapsRows
<1>3. id \in Open(after) /\ l \in Remainder(after, id)
  BY <1>1, <1>2 DEF Open, FreshGap, Remainder, Span
<1> QED BY <1>3, OwedBy

\* A plan moves promises between rows and drops none, unless one of its pieces
\* has the range of a resolved row.
LEMMA PlanHealOwes ==
    ASSUME NEW tab, SoundTable(tab), NEW wanted, ~PlanHitsResolved(tab, wanted)
    PROVE  Owed(PlanHealRows(tab, wanted)) = Owed(tab)
<1> DEFINE split == SplitGaps(tab, wanted)
           kept == DOMAIN tab \ split
           Pieces(id) == partition(Remainder(tab, id), wanted)
           pieces == UNION {Pieces(id) : id \in split}
           after == PlanHealRows(tab, wanted)
<1>1. after = [id \in kept \cup pieces |->
                 CASE id \notin kept -> FreshGap(id, PieceMode(id, wanted))
                   [] id \in kept \cap pieces /\ tab[id].open
                        -> [tab[id] EXCEPT !.healMode = PieceMode(id, wanted)]
                   [] OTHER -> tab[id]]
  BY DEF PlanHealRows
<1>2. /\ \A id \in DOMAIN tab : tab[id] \in GapRow
      /\ split \subseteq Open(tab) /\ Open(tab) \subseteq DOMAIN tab
  BY DEF SoundTable, IsGapTable, SplitGaps, Open
<1>3. \A id \in kept : /\ after[id].open = tab[id].open
                       /\ after[id].healNextTo = tab[id].healNextTo
  <2> SUFFICES ASSUME NEW id \in kept
               PROVE  /\ after[id].open = tab[id].open
                      /\ after[id].healNextTo = tab[id].healNextTo
    OBVIOUS
  <2>1. \/ after[id] = tab[id]
        \/ after[id] = [tab[id] EXCEPT !.healMode = PieceMode(id, wanted)]
    BY <1>1
  <2> QED BY <2>1, <1>2 DEF GapRow
<1>4. \A id \in pieces \ kept : /\ after[id].open = TRUE
                                /\ Remainder(after, id) = Span(id)
  BY <1>1 DEF FreshGap, Remainder, Span
<1>5. DOMAIN after = kept \cup pieces
  BY <1>1
<1>6. \A id \in split : \A l \in Remainder(tab, id) : \E p \in Pieces(id) : l \in Span(p)
  <2> SUFFICES ASSUME NEW id \in split, NEW l \in Remainder(tab, id)
               PROVE  \E p \in Pieces(id) : l \in Span(p)
    OBVIOUS
  <2> DEFINE R == Remainder(tab, id)
  <2>1. R \cap wanted \in SUBSET Ledgers /\ R \ wanted \in SUBSET Ledgers
    BY <1>2, RemainderInSpan
  <2>2. \/ \E p \in Runs(R \cap wanted) : l \in Span(p)
        \/ \E p \in Runs(R \ wanted) : l \in Span(p)
    <3> HIDE DEF R
    <3>1. l \in R
      BY DEF R
    <3> QED BY <2>1, <3>1, RunsCover
  <2> QED BY <2>2 DEF partition
<1>7. \A id \in split : \A p \in Pieces(id) : Span(p) \subseteq Remainder(tab, id)
  BY PartitionDisjoint
<1> HIDE DEF after
<1>8. ASSUME NEW id \in Open(after), NEW l \in Remainder(after, id)
      PROVE  l \in Owed(tab)
  <2>1. CASE id \in kept
    <3>1. id \in Open(tab) /\ l \in Remainder(tab, id)
      BY <1>3, <1>8, <2>1 DEF Open, Remainder
    <3> QED BY <3>1, OwedBy
  <2>2. CASE id \notin kept
    <3>1. id \in pieces \ kept
      BY <1>5, <2>2 DEF Open
    <3>2. PICK parent \in split : id \in Pieces(parent)
      BY <3>1
    <3>3. l \in Remainder(tab, parent)
      BY <1>4, <1>7, <3>1, <3>2
    <3> QED BY <1>2, <3>2, <3>3, OwedBy
  <2> QED BY <2>1, <2>2
<1>9. ASSUME NEW id \in Open(tab), NEW l \in Remainder(tab, id)
      PROVE  l \in Owed(after)
  <2>1. CASE id \notin split
    <3>1. id \in Open(after) /\ l \in Remainder(after, id)
      BY <1>2, <1>3, <1>5, <1>9, <2>1 DEF Open, Remainder
    <3> QED BY <3>1, OwedBy
  <2>2. CASE id \in split
    <3>1. PICK p \in Pieces(id) : l \in Span(p)
      BY <1>6, <2>2
    <3>2. p \in pieces
      BY <2>2
    <3>3. p \notin kept
      <4> SUFFICES ASSUME p \in kept PROVE FALSE
        OBVIOUS
      <4>1. p \in Open(tab)
        BY <2>2 DEF PlanHitsResolved, Open
      <4>2. p # id
        BY <2>2
      <4>3. l \in Span(id)
        BY <1>9, RemainderInSpan
      <4> QED BY <3>1, <4>1, <4>2, <4>3 DEF SoundTable, OpenGapsDisjoint
    <3>4. p \in Open(after) /\ l \in Remainder(after, p)
      BY <1>4, <1>5, <3>1, <3>2, <3>3 DEF Open
    <3> QED BY <3>4, OwedBy
  <2> QED BY <2>1, <2>2
<1>10. Owed(after) \subseteq Owed(tab)
  BY <1>8 DEF Owed
<1>11. Owed(tab) \subseteq Owed(after)
  <2> SUFFICES ASSUME NEW l \in Owed(tab)
               PROVE  l \in Owed(after)
    OBVIOUS
  <2>1. PICK id \in Open(tab) : l \in Remainder(tab, id)
    BY DEF Owed
  <2> QED BY <1>9, <2>1
<1> QED BY <1>10, <1>11 DEF after

\* A healed chunk pays what the gap owed above the new watermark, nothing else.
LEMMA HealRowOwes ==
    ASSUME NEW tab, SoundTable(tab), NEW id \in Open(tab), NEW newNextTo \in Int,
           NEW l \in Owed(tab), ~(l \in Remainder(tab, id) /\ l > newNextTo)
    PROVE  l \in Owed(HealRow(tab, id, newNextTo))
<1> DEFINE after == HealRow(tab, id, newNextTo)
<1>1. PICK g \in Open(tab) : l \in Remainder(tab, g)
  BY DEF Owed
<1>2. /\ tab = [h \in DOMAIN tab |-> tab[h]] /\ tab[id] \in GapRow
      /\ g \in DOMAIN tab /\ id \in DOMAIN tab
  BY DEF SoundTable, IsGapTable, Open
<1>3. CASE g # id
  <2>1. after[g] = tab[g] /\ g \in DOMAIN after
    BY <1>2, <1>3 DEF HealRow
  <2>2. g \in Open(after) /\ l \in Remainder(after, g)
    BY <1>1, <2>1 DEF Open, Remainder
  <2> QED BY <2>2, OwedBy
<1>4. CASE g = id
  <2> DEFINE above == newNextTo >= id[1]
  <2>1. after[id] = [tab[id] EXCEPT !.healNextTo = newNextTo, !.open = above]
        /\ id \in DOMAIN after
    BY <1>2 DEF HealRow
  <2>2. after[id].healNextTo = newNextTo /\ after[id].open = above
    <3> HIDE DEF above
    <3> QED BY <1>2, <2>1 DEF GapRow
  <2>3. l \in Int /\ id[1] \in Int /\ id[1] <= l /\ l <= newNextTo
    BY <1>1, <1>4, RemainderInSpan, GapIdPair DEF Remainder, Ledgers
  <2>4. id \in Open(after)
    <3>1. above
      BY <2>3
    <3> HIDE DEF after, above
    <3> QED BY <2>1, <2>2, <3>1, Zenon DEF Open
  <2>5. l \in Remainder(after, id)
    <3> HIDE DEF after, above
    <3> QED BY <2>2, <2>3 DEF Remainder
  <2> QED BY <2>4, <2>5, OwedBy
<1> QED BY <1>3, <1>4

-----------------------------------------------------------------------------
(* The transactions on the whole store.                                    *)

StoreInv == StoreTypeOK /\ SoundTable(gaps)

\* A fresh database is well typed and its gaps table sound.
LEMMA StoreInitInv == StoreInit => StoreInv
<1> SUFFICES ASSUME StoreInit PROVE StoreInv
  OBVIOUS
<1>1. DOMAIN <<>> = {} /\ <<>> = [x \in {} |-> {}]
  OBVIOUS
<1>2. cursor \in 0..MaxLedger
  BY MaxLedgerAssumption DEF StoreInit
<1>3. IsWatch(contracts) /\ IsBackfillTable(backfill) /\ IsGapTable(gaps)
  BY <1>1 DEF StoreInit, IsWatch, IsBackfillTable, IsGapTable
<1>4. derived \in [Contracts -> [Kinds -> SUBSET Ledgers]]
  BY DEF StoreInit
<1>5. Open(gaps) = {}
  BY <1>1 DEF StoreInit, Open
<1> QED
  BY <1>2, <1>3, <1>4, <1>5
  DEF StoreInv, StoreTypeOK, SoundTable, OpenGapsDisjoint, WatermarkInRange

\* Only the tables matter: a step that leaves them alone keeps the invariant.
LEMMA StoreUnchanged ==
    ASSUME StoreInv, UNCHANGED storeVars
    PROVE  StoreInv'
  BY DEF StoreInv, StoreTypeOK, SoundTable, storeVars, IsWatch, IsBackfillTable,
         IsGapTable, OpenGapsDisjoint, WatermarkInRange, Open

\* Deriving a range of closed ledgers keeps the record of derived ledgers typed.
LEMMA DeriveTyped ==
    ASSUME StoreInv, NEW watch, NEW range, range \subseteq Ledgers, Derive(watch, range)
    PROVE  derived' \in [Contracts -> [Kinds -> SUBSET Ledgers]]
  BY DEF StoreInv, StoreTypeOK, Derive

\* gaps' enters SoundTable as a value, so lemmas on tables carry over.
LEMMA SoundNext ==
    ASSUME NEW g, SoundTable(g), gaps' = g
    PROVE  SoundTable(gaps)'
  BY DEF SoundTable, IsGapTable, OpenGapsDisjoint, WatermarkInRange, Open

\* Registering a contract keeps the store's invariant.
LEMMA UpsertContractInv ==
    ASSUME StoreInv, NEW c \in Contracts, NEW kinds \in KindSet, UpsertContract(c, kinds)
    PROVE  StoreInv'
<1>1. IsWatch(contracts)'
  BY DEF StoreInv, StoreTypeOK, IsWatch, UpsertContract
<1> QED
  BY <1>1 DEF StoreInv, StoreTypeOK, UpsertContract, SoundTable, IsBackfillTable,
              IsGapTable, OpenGapsDisjoint, WatermarkInRange, Open

\* Removing a contract keeps the store's invariant.
LEMMA DeleteContractInv ==
    ASSUME StoreInv, NEW c \in Contracts, DeleteContract(c)
    PROVE  StoreInv'
<1>1. IsWatch(contracts)'
  BY DEF StoreInv, StoreTypeOK, IsWatch, DeleteContract
<1>2. IsBackfillTable(backfill)'
  BY DEF StoreInv, StoreTypeOK, IsBackfillTable, DeleteContract
<1>3. SoundTable(gaps)'
  BY SoundNext DEF StoreInv, DeleteContract
<1> QED
  BY <1>1, <1>2, <1>3 DEF StoreInv, StoreTypeOK, DeleteContract, SoundTable

\* A live commit keeps the store's invariant.
LEMMA CommitLedgerInv ==
    ASSUME StoreInv, NEW seq \in Ledgers, NEW watch, CommitLedger(seq, watch)
    PROVE  StoreInv'
<1>1. cursor' \in 0..MaxLedger
  <2>1. cursor \in Int /\ seq \in Int
    BY DEF StoreInv, StoreTypeOK, Ledgers
  <2> QED BY <2>1, MaxPair DEF StoreInv, StoreTypeOK, CommitLedger, Ledgers
<1>2. derived' \in [Contracts -> [Kinds -> SUBSET Ledgers]]
  BY DeriveTyped DEF CommitLedger
<1>3. SoundTable(gaps)'
  BY SoundNext DEF StoreInv, CommitLedger
<1>4. IsWatch(contracts)' /\ IsBackfillTable(backfill)'
  BY DEF StoreInv, StoreTypeOK, CommitLedger, IsWatch, IsBackfillTable
<1> QED BY <1>1, <1>2, <1>3, <1>4 DEF StoreInv, StoreTypeOK, SoundTable

\* RecordGap keeps the store's invariant, whatever gaps the range overlaps.
LEMMA RecordGapInv ==
    ASSUME StoreInv, NEW from \in Int, NEW to \in Int, RecordGap(from, to)
    PROVE  StoreInv'
<1>1. SoundTable(gaps)'
  BY RecordGapSound, SoundNext DEF StoreInv, RecordGap
<1>2. IsWatch(contracts)' /\ IsBackfillTable(backfill)'
  BY DEF StoreInv, StoreTypeOK, RecordGap, IsWatch, IsBackfillTable
<1> QED BY <1>1, <1>2 DEF StoreInv, StoreTypeOK, SoundTable, RecordGap

\* A backfill chunk keeps the store's invariant.
LEMMA CommitBackfillChunkInv ==
    ASSUME StoreInv, NEW c, NEW nextTo \in Frontier, NEW done \in BOOLEAN,
           NEW clampedAt \in 0..(MaxLedger + 1), NEW kinds, NEW range,
           range \subseteq Ledgers,
           CommitBackfillChunk(c, nextTo, done, clampedAt, kinds, range)
    PROVE  StoreInv'
<1>1. IsBackfillTable(backfill)'
  <2>1. backfill[c] \in BackfillRow /\ c \in DOMAIN backfill
    BY DEF StoreInv, StoreTypeOK, IsBackfillTable, CommitBackfillChunk
  <2> DEFINE row == [backfill[c] EXCEPT !.nextTo = nextTo, !.done = done,
                                        !.clampedAt = clampedAt]
  <2>2. row \in BackfillRow
    BY <2>1 DEF BackfillRow
  <2>3. backfill' = [backfill EXCEPT ![c] = row]
    BY <2>1 DEF CommitBackfillChunk
  <2> HIDE DEF row
  <2> QED BY <2>2, <2>3 DEF StoreInv, StoreTypeOK, IsBackfillTable
<1>2. derived' \in [Contracts -> [Kinds -> SUBSET Ledgers]]
  BY DeriveTyped DEF CommitBackfillChunk
<1>3. SoundTable(gaps)'
  BY SoundNext DEF StoreInv, CommitBackfillChunk
<1>4. IsWatch(contracts)'
  BY DEF StoreInv, StoreTypeOK, CommitBackfillChunk, IsWatch
<1> QED
  BY <1>1, <1>2, <1>3, <1>4 DEF StoreInv, StoreTypeOK, SoundTable, CommitBackfillChunk

\* Reconciling a walk with a registration keeps the store's invariant.
LEMMA EnsureBackfillInv ==
    ASSUME StoreInv, NEW c \in Contracts, NEW targetFrom \in Ledgers,
           NEW nextTo \in Frontier, NEW kinds \in SUBSET Kinds,
           EnsureBackfill(c, targetFrom, nextTo, kinds)
    PROVE  StoreInv'
<1>1. IsBackfillTable(backfill)'
  <2>1. CASE c \in DOMAIN backfill
    <3> DEFINE row == Reconciled(backfill[c], targetFrom, nextTo, kinds)
    <3>1. backfill[c] \in BackfillRow
      BY <2>1 DEF StoreInv, StoreTypeOK, IsBackfillTable
    <3>2. row \in BackfillRow
      BY <3>1, MaxLedgerAssumption DEF Reconciled, BackfillRow, Ledgers
    <3>3. backfill' = [backfill EXCEPT ![c] = row]
      BY <2>1 DEF EnsureBackfill
    <3> HIDE DEF row
    <3> QED BY <3>2, <3>3 DEF StoreInv, StoreTypeOK, IsBackfillTable
  <2>2. CASE c \notin DOMAIN backfill
    <3> DEFINE row == NewBackfill(targetFrom, nextTo, kinds)
               born == nextTo < targetFrom
    <3>1. born \in BOOLEAN
      OBVIOUS
    <3>2. row = [targetFrom |-> targetFrom, nextTo |-> nextTo, done |-> born,
                 clampedAt |-> 0, covered |-> kinds]
      BY DEF NewBackfill
    <3>3. 0 \in 0..(MaxLedger + 1)
      BY MaxLedgerAssumption
    <3>4. row \in BackfillRow
      <4> HIDE DEF row, born
      <4> QED BY <3>1, <3>2, <3>3 DEF BackfillRow
    <3>5. backfill' = [d \in DOMAIN backfill \cup {c} |->
                         IF d = c THEN row ELSE backfill[d]]
      BY <2>2 DEF EnsureBackfill
    <3> HIDE DEF row
    <3> QED BY <3>4, <3>5 DEF StoreInv, StoreTypeOK, IsBackfillTable
  <2> QED BY <2>1, <2>2
<1>2. SoundTable(gaps)'
  <2>1. SoundTable(reopenDeferrals(targetFrom, nextTo))
    BY ReopenGapsSound DEF reopenDeferrals, StoreInv
  <2>2. gaps' = gaps \/ gaps' = reopenDeferrals(targetFrom, nextTo)
    BY DEF EnsureBackfill
  <2> QED BY <2>1, <2>2, SoundNext DEF StoreInv
<1>3. IsWatch(contracts)'
  BY DEF StoreInv, StoreTypeOK, EnsureBackfill, IsWatch
<1> QED BY <1>1, <1>2, <1>3 DEF StoreInv, StoreTypeOK, SoundTable, EnsureBackfill

\* A clamped row that follows a heal stays a well-typed row.
LEMMA FollowHealTyped ==
    ASSUME NEW row \in BackfillRow, NEW id \in GapId, NEW newNextTo \in Frontier,
           NEW after, IsGapTable(after)
    PROVE  FollowHeal(row, id, newNextTo, after) \in BackfillRow
<1> DEFINE closed == [row EXCEPT !.nextTo = row.targetFrom - 1, !.clampedAt = 0]
           lowered == [row EXCEPT !.nextTo = Min({@, newNextTo})]
           deeper == DeeperEnd(after, id[1])
           below == {g[2] : g \in {h \in Open(after) : h[2] < id[1]}}
<1>1. row.nextTo \in Frontier /\ row.targetFrom \in Ledgers
  BY DEF BackfillRow
<1>2. 0 \in 0..(MaxLedger + 1) /\ row.targetFrom - 1 \in Frontier
  BY <1>1, MaxLedgerAssumption, MarginAssumption DEF Ledgers, Frontier
<1>3. closed \in BackfillRow
  BY <1>2 DEF BackfillRow
<1>4. lowered \in BackfillRow
  <2>1. Min({row.nextTo, newNextTo}) \in Frontier
    BY <1>1, MinPair DEF Frontier
  <2> QED BY <2>1 DEF BackfillRow
<1>5. deeper + 1 \in 0..(MaxLedger + 1)
  <2>1. below \subseteq 0..MaxLedger
    BY GapIdPair, MaxLedgerAssumption DEF IsGapTable, Open, Ledgers
  <2>2. deeper = Max({0} \cup below)
    BY DEF DeeperEnd
  <2>3. ({0} \cup below) \in SUBSET (0..MaxLedger) /\ ({0} \cup below) # {}
    BY <2>1, MaxLedgerAssumption
  <2> HIDE DEF below
  <2>4. Max({0} \cup below) \in 0..MaxLedger
    BY <2>3, MaxBounded, MaxLedgerAssumption
  <2> HIDE DEF deeper
  <2> QED BY <2>2, <2>4, MaxLedgerAssumption
<1>6. [lowered EXCEPT !.clampedAt = deeper + 1] \in BackfillRow
  <2> HIDE DEF lowered, deeper
  <2> QED BY <1>4, <1>5 DEF BackfillRow
<1>7. \/ FollowHeal(row, id, newNextTo, after) = row
      \/ FollowHeal(row, id, newNextTo, after) = closed
      \/ FollowHeal(row, id, newNextTo, after) = lowered
      \/ FollowHeal(row, id, newNextTo, after) = [lowered EXCEPT !.clampedAt = deeper + 1]
  BY DEF FollowHeal
<1> QED BY <1>3, <1>4, <1>6, <1>7

\* A heal chunk keeps the store's invariant, even cut from a stale watermark.
LEMMA CommitHealChunkInv ==
    ASSUME StoreInv, NEW id \in GapId, NEW newNextTo \in Int,
           id[1] - 1 <= newNextTo, newNextTo <= id[2],
           NEW watch, NEW range, range \subseteq Ledgers,
           CommitHealChunk(id, newNextTo, watch, range)
    PROVE  StoreInv'
<1> DEFINE after == HealRow(gaps, id, newNextTo)
<1>1. SoundTable(after)
  BY HealRowSound DEF StoreInv, CommitHealChunk, Open
<1>2. SoundTable(gaps)'
  <2>1. gaps' = after
    BY DEF CommitHealChunk
  <2> HIDE DEF after
  <2> QED BY <1>1, <2>1, SoundNext
<1>3. newNextTo \in Frontier
  BY GapIdPair, MarginAssumption, MaxLedgerAssumption DEF Frontier, Ledgers
<1>4. IsBackfillTable(backfill)'
  <2>1. backfill' = [c \in DOMAIN backfill |-> FollowHeal(backfill[c], id, newNextTo, after)]
    BY DEF CommitHealChunk
  <2>2. \A c \in DOMAIN backfill : backfill[c] \in BackfillRow
    BY DEF StoreInv, StoreTypeOK, IsBackfillTable
  <2> HIDE DEF after
  <2>3. \A c \in DOMAIN backfill : FollowHeal(backfill[c], id, newNextTo, after) \in BackfillRow
    BY <2>2, <1>1, <1>3, FollowHealTyped DEF SoundTable
  <2> QED BY <2>1, <2>3 DEF StoreInv, StoreTypeOK, IsBackfillTable
<1>5. derived' \in [Contracts -> [Kinds -> SUBSET Ledgers]]
  BY DeriveTyped DEF CommitHealChunk
<1>6. IsWatch(contracts)'
  BY DEF StoreInv, StoreTypeOK, CommitHealChunk, IsWatch
<1> QED
  BY <1>2, <1>4, <1>5, <1>6 DEF StoreInv, StoreTypeOK, SoundTable, CommitHealChunk

\* A heal plan keeps the store's invariant.
LEMMA PlanHealInv ==
    ASSUME StoreInv, NEW wanted, PlanHeal(wanted)
    PROVE  StoreInv'
<1>1. SoundTable(gaps)'
  BY PlanHealSound, SoundNext DEF StoreInv, PlanHeal
<1>2. \A row \in BackfillRow : RepointClamp(row, wanted) \in BackfillRow
  <2> SUFFICES ASSUME NEW row \in BackfillRow
               PROVE  RepointClamp(row, wanted) \in BackfillRow
    OBVIOUS
  <2> DEFINE walls == {id \in SplitGaps(gaps, wanted) : id[2] + 1 = row.clampedAt}
             tops == {gaps[id].healNextTo + 1 : id \in walls}
             clamp == IF walls = {} THEN row.clampedAt ELSE Max(tops)
  <2>1. tops \in SUBSET (0..(MaxLedger + 1))
    <3>1. \A id \in walls : gaps[id].healNextTo \in 0..MaxLedger
      BY DEF SplitGaps, Open, StoreInv, SoundTable, IsGapTable, GapRow
    <3> QED BY <3>1, MaxLedgerAssumption
  <2>2. clamp \in 0..(MaxLedger + 1)
    <3>1. row.clampedAt \in 0..(MaxLedger + 1)
      BY DEF BackfillRow
    <3>2. walls # {} => tops # {}
      OBVIOUS
    <3>3. MaxLedger + 1 \in Nat
      BY MaxLedgerAssumption
    <3> HIDE DEF tops, walls
    <3> QED BY <2>1, <3>1, <3>2, <3>3, MaxBounded
  <2>3. RepointClamp(row, wanted) = [row EXCEPT !.clampedAt = clamp]
    BY DEF RepointClamp, BackfillRow
  <2> HIDE DEF clamp
  <2> QED BY <2>2, <2>3 DEF BackfillRow
<1>3. IsBackfillTable(backfill)'
  BY <1>2 DEF StoreInv, StoreTypeOK, IsBackfillTable, PlanHeal
<1>4. IsWatch(contracts)'
  BY DEF StoreInv, StoreTypeOK, PlanHeal, IsWatch
<1> QED BY <1>1, <1>3, <1>4 DEF StoreInv, StoreTypeOK, SoundTable, PlanHeal

-----------------------------------------------------------------------------
(* The backfiller.  What needs an argument is arithmetic: a chunk is cut   *)
(* between 1 and the frontier it starts from, the wall found is a ledger   *)
(* of the chain, and what is committed was served.                         *)

\* A pending walk's next chunk starts at ledger 1 or above and at or below its
\* frontier.
LEMMA chunkFromForBounds ==
    ASSUME NEW job \in Job, job.nextTo >= job.targetFrom
    PROVE  chunkFromFor(job) \in 1..job.nextTo
<1>1. job.nextTo \in Nat /\ job.targetFrom \in Nat \ {0}
  BY MaxLedgerAssumption, MarginAssumption DEF Job, Ledgers, Frontier
<1> DEFINE r == (job.nextTo - 1) % ChunkSize
<1>2. r \in Nat
  BY <1>1, ChunkSizeAssumption
<1>3. chunkFromFor(job) = Max({job.nextTo - r, job.targetFrom})
  BY DEF chunkFromFor
<1> HIDE DEF r
<1>4. Max({job.nextTo - r, job.targetFrom})
        = IF job.nextTo - r >= job.targetFrom THEN job.nextTo - r ELSE job.targetFrom
  BY <1>1, <1>2, MaxPair
<1> QED BY <1>1, <1>2, <1>3, <1>4

\* The group a round takes next exists and its range is made of frontiers.
LEMMA GroupBounds ==
    ASSUME BackfillerTypeOK, InGroup
    PROVE  /\ GroupFloor \in Frontier /\ GroupFloor >= 1
           /\ GroupOf(GroupFloor) \subseteq round.left
           /\ GroupTop(GroupOf(GroupFloor)) \in Frontier
           /\ GroupFloor <= GroupTop(GroupOf(GroupFloor))
<1> DEFINE floors == {chunkFromFor(round.jobs[c]) : c \in round.left}
           H == MaxLedger + Margin
<1>1. H \in Nat
  BY MaxLedgerAssumption, MarginAssumption
<1>2. \A c \in round.left : round.jobs[c] \in Job
  BY DEF BackfillerTypeOK
<1>3. \A c \in round.left : /\ round.jobs[c].nextTo \in 0..H
                            /\ round.jobs[c].targetFrom \in Int
  BY <1>2 DEF Job, Frontier, Ledgers
<1>4. \A c \in round.left : round.jobs[c].nextTo >= round.jobs[c].targetFrom
  BY <1>3 DEF InGroup, EmptyJobs
<1>5. \A c \in round.left : chunkFromFor(round.jobs[c]) \in 1..round.jobs[c].nextTo
  BY <1>2, <1>4, chunkFromForBounds
<1>6. floors \in SUBSET (1..H) /\ floors # {}
  <2>1. round.left # {}
    BY DEF BackfillerTypeOK, InGroup
  <2> QED BY <1>1, <1>3, <1>5, <2>1
<1>7. GroupFloor \in floors
  <2>1. floors \in SUBSET (0..H)
    BY <1>6
  <2> HIDE DEF floors
  <2>2. Max(floors) \in floors
    BY <1>1, <1>6, <2>1, MaxBounded
  <2> QED BY <2>2 DEF GroupFloor, floors
<1>8. PICK c \in round.left : GroupFloor = chunkFromFor(round.jobs[c])
  BY <1>7
<1>9. c \in GroupOf(GroupFloor) /\ GroupOf(GroupFloor) \subseteq round.left
  BY <1>8 DEF GroupOf
<1> DEFINE tops == {round.jobs[d].nextTo : d \in GroupOf(GroupFloor)}
<1>10. tops \in SUBSET (0..H) /\ tops # {}
  BY <1>3, <1>9
<1>11. Max(tops) \in 0..H /\ \A y \in tops : y <= Max(tops)
  <2> HIDE DEF tops
  <2> QED BY <1>1, <1>10, MaxBounded
<1>12. GroupFloor <= Max(tops)
  <2>1. round.jobs[c].nextTo <= Max(tops)
    BY <1>9, <1>11
  <2> HIDE DEF tops
  <2> QED BY <1>3, <1>5, <1>8, <1>11, <2>1
<1> QED BY <1>6, <1>7, <1>9, <1>11, <1>12 DEF GroupTop, Frontier

\* A group that starts below the wall is clamped at a ledger of the chain.
LEMMA findWallBounds ==
    ASSUME BackfillerTypeOK, NEW from \in Frontier, NEW to \in Frontier, from < wall
    PROVE  findWall(from, to) \in 1..MaxLedger
<1>1. from \in Nat /\ to \in Nat /\ wall \in 1..MaxLedger
  BY MaxLedgerAssumption, MarginAssumption DEF BackfillerTypeOK, Frontier, Ledgers
<1>2. Min({wall, to + 1}) = IF wall <= to + 1 THEN wall ELSE to + 1
  BY <1>1, MinPair
<1> DEFINE m == Min({wall, to + 1})
<1>3. m \in 1..wall
  BY <1>1, <1>2
<1> HIDE DEF m
<1>4. Max({from + 1, m}) = IF from + 1 >= m THEN from + 1 ELSE m
  BY <1>1, <1>3, MaxPair
<1>5. findWall(from, to) = Max({from + 1, m})
  BY DEF findWall, m
<1> QED BY <1>1, <1>3, <1>4, <1>5, MaxLedgerAssumption

-----------------------------------------------------------------------------
BackfillerInv == StoreInv /\ BackfillerTypeOK

\* The round as BackfillerTypeOK types it, for one value of it.
LEMMA NoRoundTyped ==
    ASSUME BackfillerInv, round' = NoRound, UNCHANGED <<tip, wall, lastScan>>
    PROVE  BackfillerTypeOK'
<1>1. DOMAIN <<>> = {} /\ <<>> = [x \in {} |-> {}]
  OBVIOUS
<1>2. 0 \in Frontier /\ 0 \in 0..MaxLedger
  BY MaxLedgerAssumption, MarginAssumption DEF Frontier
<1> QED BY <1>1, <1>2 DEF BackfillerInv, BackfillerTypeOK, NoRound, IsWatch

\* Leaving a group keeps the round well typed.
LEMMA SkipTyped ==
    ASSUME BackfillerInv, NEW cs, cs \subseteq round.left, round.left # {},
           Skip(cs), UNCHANGED <<tip, wall, lastScan>>
    PROVE  BackfillerTypeOK'
<1>1. CASE round.left = cs
  BY <1>1, NoRoundTyped DEF Skip
<1>2. CASE round.left # cs
  <2>1. DOMAIN <<>> = {} /\ <<>> = [x \in {} |-> {}]
    OBVIOUS
  <2>2. 0 \in Frontier /\ 0 \in 0..MaxLedger
    BY MaxLedgerAssumption, MarginAssumption DEF Frontier
  <2>3. round' = [pc |-> "listed", jobs |-> round.jobs, left |-> round.left \ cs,
                  group |-> {}, from |-> 0, to |-> 0, wall |-> 0,
                  targets |-> {}, res |-> <<>>]
    BY <1>2 DEF Skip, NoRound
  <2>4. round.left \ cs # {}
    BY <1>2
  <2> QED BY <2>1, <2>2, <2>3, <2>4 DEF BackfillerInv, BackfillerTypeOK, NoRound, IsWatch
<1> QED BY <1>1, <1>2

\* Taking one contract out of the group being committed keeps the round well typed.
LEMMA LeaveTyped ==
    ASSUME BackfillerInv, round.pc = "commit", NEW c \in round.group,
           Leave(c), UNCHANGED <<tip, wall, lastScan>>
    PROVE  BackfillerTypeOK'
<1>1. {c} \subseteq round.left /\ round.left # {}
  BY DEF BackfillerInv, BackfillerTypeOK
<1>2. CASE round.group = {c}
  BY <1>1, <1>2, SkipTyped DEF Leave
<1>3. CASE round.group # {c}
  <2>1. round' = [round EXCEPT !.group = @ \ {c}, !.left = @ \ {c}]
    BY <1>3 DEF Leave
  <2>2. round.left \ {c} # {}
    BY <1>1, <1>3 DEF BackfillerInv, BackfillerTypeOK
  <2>3. DOMAIN round = {"pc", "jobs", "left", "group", "from", "to", "wall", "targets", "res"}
    BY DEF BackfillerInv, BackfillerTypeOK, NoRound
  <2>4. /\ DOMAIN round' = DOMAIN round
        /\ round'.pc = round.pc /\ round'.jobs = round.jobs /\ round'.from = round.from
        /\ round'.to = round.to /\ round'.wall = round.wall
        /\ round'.targets = round.targets /\ round'.res = round.res
        /\ round'.left = round.left \ {c} /\ round'.group = round.group \ {c}
    BY <2>1, <2>3
  <2> QED BY <2>2, <2>4 DEF BackfillerInv, BackfillerTypeOK, IsWatch, ScannedRange
<1> QED BY <1>2, <1>3

\* What BeginGroup makes of the round, whatever the group was begun with.
LEMMA BeginGroupTyped ==
    ASSUME BackfillerInv, InGroup, NEW pc \in {"clamp", "commit"},
           NEW w \in 0..MaxLedger, NEW res, IsWatch(res), BeginGroup(pc, w, res),
           pc = "clamp" => w >= 1,
           pc = "commit" => w = 0 /\ GroupTop(GroupOf(GroupFloor)) <= MaxLedger,
           UNCHANGED <<tip, wall>>,
           DOMAIN lastScan' = DOMAIN NoScan, IsWatch(lastScan.members)',
           lastScan'.from \in 0..MaxLedger, lastScan'.to \in 0..MaxLedger
    PROVE  BackfillerTypeOK'
<1> DEFINE group == GroupOf(GroupFloor)
           targets == IF pc = "clamp" THEN {round.jobs[c].targetFrom : c \in group} ELSE {}
<1>1. /\ GroupFloor \in Frontier /\ GroupFloor >= 1
      /\ group \subseteq round.left /\ GroupTop(group) \in Frontier
  BY GroupBounds DEF BackfillerInv
<1>2. DOMAIN round = {"pc", "jobs", "left", "group", "from", "to", "wall", "targets", "res"}
  BY DEF BackfillerInv, BackfillerTypeOK, NoRound
<1>3. /\ DOMAIN round' = DOMAIN round
      /\ round'.pc = pc /\ round'.jobs = round.jobs /\ round'.left = round.left
      /\ round'.group = group /\ round'.from = GroupFloor /\ round'.to = GroupTop(group)
      /\ round'.wall = w /\ round'.targets = targets /\ round'.res = res
  BY <1>2 DEF BeginGroup
<1>4. targets \subseteq Ledgers
  BY <1>1 DEF BackfillerInv, BackfillerTypeOK, Job
<1>5. round.left # {}
  BY DEF BackfillerInv, BackfillerTypeOK, InGroup
<1> HIDE DEF group, targets
<1>6. pc = "commit" => ScannedRange' \subseteq Ledgers
  BY <1>1, <1>3, MaxLedgerAssumption DEF ScannedRange, Ledgers, Frontier, group
<1>7. IsWatch(round.res)'
  BY <1>3 DEF IsWatch
<1> QED
  BY <1>1, <1>3, <1>4, <1>5, <1>6, <1>7 DEF BackfillerInv, BackfillerTypeOK

\* A listing of the pending walks is a well-typed round.
LEMMA ListTyped ==
    ASSUME BackfillerInv, List, UNCHANGED <<tip, wall>>
    PROVE  BackfillerInv'
<1> DEFINE jobs == [c \in PendingBackfills |-> [targetFrom |-> backfill[c].targetFrom,
                                              nextTo |-> backfill[c].nextTo,
                                              kinds |-> contracts[c]]]
<1>1. round' = [pc |-> "listed", jobs |-> jobs, left |-> PendingBackfills, group |-> {},
                from |-> 0, to |-> 0, wall |-> 0, targets |-> {}, res |-> <<>>]
  BY DEF List, NoRound
<1>2. PendingBackfills \subseteq Contracts /\ PendingBackfills # {}
  BY DEF List, PendingBackfills, BackfillerInv, StoreInv, StoreTypeOK, IsWatch
<1>3. \A c \in PendingBackfills : backfill[c] \in BackfillRow /\ contracts[c] \in KindSet
  BY DEF PendingBackfills, BackfillerInv, StoreInv, StoreTypeOK, IsWatch, IsBackfillTable
<1>4. jobs \in [PendingBackfills -> Job]
  BY <1>3 DEF BackfillRow, Job
<1>5. DOMAIN jobs = PendingBackfills
  OBVIOUS
<1>6. DOMAIN <<>> = {} /\ <<>> = [x \in {} |-> {}]
  OBVIOUS
<1>7. 0 \in Frontier /\ 0 \in 0..MaxLedger
  BY MaxLedgerAssumption, MarginAssumption DEF Frontier
<1>8. StoreInv'
  BY StoreUnchanged DEF BackfillerInv, List
<1>9. UNCHANGED lastScan
  BY DEF List
<1> HIDE DEF jobs
<1> QED
  BY <1>1, <1>2, <1>4, <1>5, <1>6, <1>7, <1>8, <1>9
  DEF BackfillerInv, BackfillerTypeOK, NoRound, IsWatch

\* The kinds a scan extracts for are those of the listed jobs.
LEMMA KindsOfTyped ==
    ASSUME BackfillerInv, NEW cs, cs \subseteq DOMAIN round.jobs
    PROVE  IsWatch(KindsOf(cs))
  BY DEF BackfillerInv, BackfillerTypeOK, KindsOf, IsWatch, Job

\* One step of the worker, action by action.
LEMMA BackfillerStep ==
    ASSUME BackfillerInv, BackfillerNext, UNCHANGED <<tip, wall>>
    PROVE  BackfillerInv'
<1> USE DEF BackfillerInv
<1>a. round.group \subseteq round.left /\ (round.pc # "idle" => round.left # {})
  BY DEF BackfillerTypeOK
<1>1. CASE List
  BY <1>1, ListTyped
<1>2. ASSUME NEW c \in round.left, CloseEmptyWalk(c)
      PROVE  BackfillerInv'
  <2>1. BackfillerTypeOK'
    BY <1>a, <1>2, SkipTyped DEF CloseEmptyWalk
  <2>2. round.jobs[c].nextTo \in Frontier
    BY DEF BackfillerTypeOK, Job
  <2> DEFINE none == {}
  <2>3. 0 \in 0..(MaxLedger + 1) /\ none \subseteq Ledgers /\ TRUE \in BOOLEAN
    BY MaxLedgerAssumption
  <2>4. CommitBackfillChunk(c, round.jobs[c].nextTo, TRUE, 0, none, none)
    BY <1>2 DEF CloseEmptyWalk
  <2> HIDE DEF none
  <2>5. StoreInv'
    BY <2>2, <2>3, <2>4, CommitBackfillChunkInv
  <2> QED BY <2>1, <2>5
<1>3. ASSUME NEW c \in round.left, CloseEmptyWalkFails(c)
      PROVE  BackfillerInv'
  BY <1>a, <1>3, SkipTyped, StoreUnchanged DEF CloseEmptyWalkFails
<1>4. CASE ScanCached
  <2>1. GroupTop(GroupOf(GroupFloor)) <= MaxLedger
    BY <1>4, MaxLedgerAssumption DEF ScanCached, cachedScan, BackfillerTypeOK
  <2>2. /\ IsWatch(lastScan.members) /\ DOMAIN lastScan = DOMAIN NoScan
        /\ lastScan.from \in 0..MaxLedger /\ lastScan.to \in 0..MaxLedger
    BY DEF BackfillerTypeOK
  <2>3. lastScan' = lastScan /\ IsWatch(lastScan.members)'
    BY <1>4, <2>2 DEF ScanCached, IsWatch
  <2>4. 0 \in 0..MaxLedger
    BY MaxLedgerAssumption
  <2>5. BackfillerTypeOK'
    BY <1>4, <2>1, <2>2, <2>3, <2>4, BeginGroupTyped DEF ScanCached
  <2> QED BY <1>4, <2>5, StoreUnchanged DEF ScanCached
<1>5. CASE Scan
  <2> DEFINE group == GroupOf(GroupFloor)
             scanFor == KindsOf(group \cup Ahead(GroupFloor))
  <2>1. InGroup
    BY <1>5 DEF Scan
  <2>2. /\ GroupFloor \in Frontier /\ GroupFloor >= 1
        /\ group \subseteq round.left /\ GroupTop(group) \in Frontier
    BY <2>1, GroupBounds
  <2>3. /\ tip \in 1..MaxLedger /\ wall \in 1..tip
        /\ wall <= GroupFloor /\ GroupTop(group) <= tip
    BY <1>5 DEF Scan, Serves, BackfillerTypeOK, Ledgers
  <2>4. IsWatch(scanFor)
    BY <2>2, KindsOfTyped DEF Ahead, BackfillerTypeOK
  <2>5. GroupFloor <= GroupTop(group)
    BY <2>1, GroupBounds
  <2>6. /\ GroupFloor \in 0..MaxLedger /\ GroupTop(group) \in 0..MaxLedger
        /\ GroupTop(group) <= MaxLedger /\ 0 \in 0..MaxLedger
    BY <2>2, <2>3, <2>5, MaxLedgerAssumption, MarginAssumption DEF Frontier
  <2>7. lastScan' = [from |-> GroupFloor, to |-> GroupTop(group), members |-> scanFor]
    BY <1>5 DEF Scan
  <2>8. BeginGroup("commit", 0, scanFor)
    BY <1>5 DEF Scan
  <2> HIDE DEF group, scanFor
  <2>9. /\ DOMAIN lastScan' = DOMAIN NoScan /\ IsWatch(lastScan.members)'
        /\ lastScan'.from \in 0..MaxLedger /\ lastScan'.to \in 0..MaxLedger
    BY <2>4, <2>6, <2>7 DEF NoScan, IsWatch
  <2>10. BackfillerTypeOK'
    BY <2>1, <2>4, <2>6, <2>8, <2>9, BeginGroupTyped DEF group
  <2> QED BY <1>5, <2>10, StoreUnchanged DEF Scan
<1>6. CASE ScanFails
  <2>1. GroupOf(GroupFloor) \subseteq round.left
    BY DEF GroupOf
  <2> QED BY <1>a, <1>6, <2>1, SkipTyped, StoreUnchanged DEF ScanFails, InGroup
<1>7. CASE HitWall
  <2> DEFINE w == findWall(GroupFloor, GroupTop(GroupOf(GroupFloor)))
  <2>1. InGroup /\ GroupFloor < wall /\ BeginGroup("clamp", w, <<>>)
    BY <1>7 DEF HitWall
  <2>2. w \in 1..MaxLedger
    BY <2>1, GroupBounds, findWallBounds
  <2>3. /\ IsWatch(lastScan.members) /\ DOMAIN lastScan = DOMAIN NoScan
        /\ lastScan.from \in 0..MaxLedger /\ lastScan.to \in 0..MaxLedger
    BY DEF BackfillerTypeOK
  <2>4. lastScan' = lastScan /\ IsWatch(lastScan.members)'
    BY <1>7, <2>3 DEF HitWall, IsWatch
  <2>5. IsWatch(<<>>)
    BY DEF IsWatch
  <2> HIDE DEF w
  <2>6. w \in 0..MaxLedger /\ w >= 1
    BY <2>2, MaxLedgerAssumption
  <2>7. BackfillerTypeOK'
    BY <2>1, <2>3, <2>4, <2>5, <2>6, BeginGroupTyped
  <2> QED BY <1>7, <2>7, StoreUnchanged DEF HitWall
<1>8. ASSUME NEW t \in round.targets, RecordClampGap(t)
      PROVE  BackfillerInv'
  <2>1. t \in Int /\ round.wall - 1 \in Int
    BY MaxLedgerAssumption DEF BackfillerTypeOK, Ledgers
  <2>2. StoreInv'
    BY <1>8, <2>1, RecordGapInv DEF RecordClampGap
  <2>3. DOMAIN round = {"pc", "jobs", "left", "group", "from", "to", "wall", "targets", "res"}
    BY DEF BackfillerTypeOK, NoRound
  <2>4. /\ DOMAIN round' = DOMAIN round
        /\ round'.pc \in {"clamp", "above"}
        /\ round'.jobs = round.jobs /\ round'.left = round.left
        /\ round'.group = round.group /\ round'.from = round.from
        /\ round'.to = round.to /\ round'.wall = round.wall
        /\ round'.targets = round.targets \ {t} /\ round'.res = round.res
    BY <1>8, <2>3 DEF RecordClampGap
  <2>5. round.pc = "clamp" /\ UNCHANGED lastScan
    BY <1>8 DEF RecordClampGap
  <2>6. BackfillerTypeOK'
    BY <2>4, <2>5 DEF BackfillerTypeOK, IsWatch
  <2> QED BY <2>2, <2>6
<1>9. CASE ScanAbove
  <2> DEFINE res == IF round.wall <= round.to THEN KindsOf(round.group) ELSE <<>>
  <2>1. IsWatch(res)
    <3>1. IsWatch(KindsOf(round.group))
      BY <1>a, KindsOfTyped DEF BackfillerTypeOK
    <3>2. IsWatch(<<>>)
      BY DEF IsWatch
    <3> QED BY <3>1, <3>2
  <2>2. DOMAIN round = {"pc", "jobs", "left", "group", "from", "to", "wall", "targets", "res"}
    BY DEF BackfillerTypeOK, NoRound
  <2>3. /\ DOMAIN round' = DOMAIN round
        /\ round'.pc = "commit"
        /\ round'.jobs = round.jobs /\ round'.left = round.left
        /\ round'.group = round.group /\ round'.from = round.from
        /\ round'.to = round.to /\ round'.wall = round.wall
        /\ round'.targets = round.targets /\ round'.res = res
    BY <1>9, <2>2 DEF ScanAbove
  <2> HIDE DEF res
  <2>4. /\ round.pc = "above" /\ UNCHANGED lastScan
        /\ (round.wall <= round.to => round.to <= tip)
    BY <1>9 DEF ScanAbove, Serves
  <2>5. round.from >= 1 /\ round.wall >= 1 /\ round.wall \in Int /\ round.to \in Int
    BY <2>4 DEF BackfillerTypeOK, Frontier
  <2>6. ScannedRange' \subseteq Ledgers
    <3>1. ScannedRange' = round.wall..round.to
      BY <2>3, <2>5 DEF ScannedRange
    <3> QED
      BY <2>4, <2>5, <3>1, MaxLedgerAssumption DEF BackfillerTypeOK, Ledgers
  <2>7. IsWatch(round.res)'
    BY <2>1, <2>3 DEF IsWatch
  <2>8. BackfillerTypeOK'
    BY <2>3, <2>4, <2>5, <2>6, <2>7 DEF BackfillerTypeOK, IsWatch
  <2> QED BY <1>9, <2>8, StoreUnchanged DEF ScanAbove
<1>10. CASE AbandonClamp
  BY <1>a, <1>10, SkipTyped, StoreUnchanged DEF AbandonClamp
<1>11. ASSUME NEW c \in round.group, CommitWalk(c)
       PROVE  BackfillerInv'
  <2> DEFINE done == round.from <= round.jobs[c].targetFrom
  <2>1. BackfillerTypeOK'
    BY <1>11, LeaveTyped DEF CommitWalk
  <2>2. done \in BOOLEAN
    OBVIOUS
  <2>3. round.from - 1 \in Frontier /\ ScannedRange \subseteq Ledgers
    BY <1>11, MaxLedgerAssumption, MarginAssumption DEF CommitWalk, BackfillerTypeOK, Frontier
  <2>4. 0 \in 0..(MaxLedger + 1)
    BY MaxLedgerAssumption
  <2>5. CommitBackfillChunk(c, round.from - 1, done, 0, ResKinds(c), ScannedRange)
    BY <1>11 DEF CommitWalk
  <2> HIDE DEF done
  <2>6. StoreInv'
    BY <2>2, <2>3, <2>4, <2>5, CommitBackfillChunkInv
  <2> QED BY <2>1, <2>6
<1>12. ASSUME NEW c \in round.group, CommitClamp(c)
       PROVE  BackfillerInv'
  <2> DEFINE next == Min({round.jobs[c].nextTo, round.wall - 1})
  <2>1. BackfillerTypeOK'
    BY <1>12, LeaveTyped DEF CommitClamp
  <2>2. round.wall \in 1..MaxLedger /\ round.jobs[c].nextTo \in Frontier
    BY <1>a, <1>12 DEF CommitClamp, BackfillerTypeOK, Job
  <2>3. next = IF round.jobs[c].nextTo <= round.wall - 1
               THEN round.jobs[c].nextTo ELSE round.wall - 1
    BY <2>2, MinPair DEF Frontier
  <2>4. next \in Frontier
    BY <2>2, <2>3, MaxLedgerAssumption, MarginAssumption DEF Frontier
  <2>5. ScannedRange \subseteq Ledgers /\ round.wall \in 0..(MaxLedger + 1) /\ TRUE \in BOOLEAN
    BY <1>12, <2>2, MaxLedgerAssumption DEF CommitClamp, BackfillerTypeOK
  <2>6. CommitBackfillChunk(c, next, TRUE, round.wall, ResKinds(c), ScannedRange)
    BY <1>12 DEF CommitClamp
  <2> HIDE DEF next
  <2>7. StoreInv'
    BY <2>4, <2>5, <2>6, CommitBackfillChunkInv
  <2> QED BY <2>1, <2>7
<1>13. ASSUME NEW c \in round.group, CommitFails(c)
       PROVE  BackfillerInv'
  BY <1>13, LeaveTyped, StoreUnchanged DEF CommitFails
<1> QED
  BY <1>1, <1>2, <1>3, <1>4, <1>5, <1>6, <1>7, <1>8, <1>9, <1>10, <1>11, <1>12, <1>13
  DEF BackfillerNext

-----------------------------------------------------------------------------
(* The healer.                                                             *)

\* What HealerTypeOK says of one worker.
WorkerOK(r) ==
    /\ r.pc \in {"idle", "listed", "replay"}
    /\ DOMAIN r.listed \subseteq GapId
    /\ \A id \in DOMAIN r.listed : r.listed[id] \in Span(id)
    /\ IsWatch(r.watch)
    /\ r.pc = "replay" => r.gap \in GapId /\ r.to \in Span(r.gap)

\* The healer's types, worker by worker.
LEMMA HealerTypeOKByWorker ==
    HealerTypeOK <=> /\ IsWatch(snap) /\ DOMAIN healer = Workers
                     /\ \A w \in Workers : WorkerOK(healer[w])
  BY DEF HealerTypeOK, WorkerOK

\* An idle worker is well typed.
LEMMA IdleWorkerOK == WorkerOK(IdleWorker)
<1>1. DOMAIN <<>> = {} /\ IsWatch(<<>>)
  BY DEF IsWatch
<1> QED BY <1>1 DEF WorkerOK, IdleWorker

\* One worker moves to a well-typed step and the snapshot stays.
LEMMA WorkerMoves ==
    ASSUME HealerTypeOK, NEW w \in Workers, NEW r, WorkerOK(r),
           healer' = [healer EXCEPT ![w] = r], UNCHANGED snap
    PROVE  HealerTypeOK'
<1>1. DOMAIN healer' = Workers /\ \A v \in Workers : healer'[v] = IF v = w THEN r ELSE healer[v]
  BY HealerTypeOKByWorker
<1>2. \A v \in Workers : WorkerOK(healer'[v])
  BY <1>1, HealerTypeOKByWorker
<1>3. IsWatch(snap)'
  BY DEF HealerTypeOK, IsWatch
<1> QED BY <1>1, <1>2, <1>3 DEF HealerTypeOK, WorkerOK

\* A heal chunk starts inside its gap, at or below the watermark it was cut from.
LEMMA ChunkFromBounds ==
    ASSUME NEW id \in GapId, NEW to \in Span(id)
    PROVE  ChunkFrom(id, to) \in id[1]..to
<1>1. id[1] \in Int /\ id[2] \in Int /\ to \in Int /\ id[1] <= to
  BY GapIdPair DEF Span, Ledgers
<1>2. to - HealChunk + 1 \in Int /\ to - HealChunk + 1 <= to
  BY <1>1, HealChunkAssumption
<1>3. ChunkFrom(id, to)
        = IF id[1] >= to - HealChunk + 1 THEN id[1] ELSE to - HealChunk + 1
  BY <1>1, <1>2, MaxPair DEF ChunkFrom
<1> QED BY <1>1, <1>2, <1>3

\* Every step of a worker keeps the store's invariant and the healer's types.
LEMMA HealerStep ==
    ASSUME StoreInv, HealerTypeOK, HealerNext
    PROVE  StoreInv' /\ HealerTypeOK'
<1>1. PICK w \in Workers : work(w)
  BY DEF HealerNext
<1>2. WorkerOK(healer[w]) /\ IsWatch(snap)
  BY HealerTypeOKByWorker
<1>3. CASE ListOpenGaps(w)
  <2> DEFINE listed == [id \in ReplayGaps |-> gaps[id].healNextTo]
             r == [IdleWorker EXCEPT !.pc = "listed", !.listed = listed]
  <2>1. healer' = [healer EXCEPT ![w] = r]
    BY <1>3 DEF ListOpenGaps
  <2>2. ReplayGaps \subseteq GapId /\ \A id \in ReplayGaps : listed[id] \in Span(id)
    BY DEF ReplayGaps, Open, StoreInv, SoundTable, IsGapTable, WatermarkInRange
  <2>3. IsWatch(<<>>) /\ DOMAIN listed = ReplayGaps
    BY DEF IsWatch
  <2> HIDE DEF listed
  <2>4. r.pc = "listed" /\ r.listed = listed /\ r.watch = <<>>
    BY DEF IdleWorker
  <2>5. WorkerOK(r)
    <3> HIDE DEF r
    <3> QED BY <2>2, <2>3, <2>4 DEF WorkerOK
  <2> HIDE DEF r
  <2> QED BY <1>3, <2>1, <2>5, WorkerMoves, StoreUnchanged DEF ListOpenGaps
<1>4. CASE claim(w)
  <2>1. PICK id \in claimable(w) :
           healer' = [healer EXCEPT ![w] =
                        [IdleWorker EXCEPT !.pc = "replay", !.gap = id,
                           !.to = healer[w].listed[id], !.watch = snap]]
    BY <1>4 DEF claim
  <2> DEFINE r == [IdleWorker EXCEPT !.pc = "replay", !.gap = id,
                     !.to = healer[w].listed[id], !.watch = snap]
  <2>2. healer' = [healer EXCEPT ![w] = r]
    BY <2>1
  <2>3. id \in GapId /\ healer[w].listed[id] \in Span(id)
    BY <1>2 DEF claimable, WorkerOK
  <2>4. /\ r.pc = "replay" /\ r.gap = id /\ r.to = healer[w].listed[id]
        /\ r.watch = snap /\ DOMAIN r.listed = {}
    BY DEF IdleWorker
  <2>5. WorkerOK(r)
    <3> HIDE DEF r
    <3> QED BY <1>2, <2>3, <2>4 DEF WorkerOK
  <2> HIDE DEF r
  <2> QED BY <1>4, <2>2, <2>5, WorkerMoves, StoreUnchanged DEF claim
<1>5. CASE NothingToClaim(w)
  BY <1>5, IdleWorkerOK, WorkerMoves, StoreUnchanged DEF NothingToClaim
<1>6. CASE healChunk(w)
  <2> DEFINE id == healer[w].gap
             to == healer[w].to
             from == ChunkFrom(id, to)
  <2>1. id \in GapId /\ to \in Span(id)
    BY <1>2, <1>6 DEF healChunk, WorkerOK
  <2>2. CommitHealChunk(id, from - 1, healer[w].watch, from..to)
    BY <1>6 DEF healChunk
  <2>3. from \in id[1]..to
    BY <2>1, ChunkFromBounds
  <2> HIDE DEF id, to, from
  <2>4. id[1] \in Ledgers /\ id[2] \in Ledgers /\ to \in Int /\ to <= id[2]
    BY <2>1, GapIdPair DEF Span, Ledgers
  <2>5. /\ from - 1 \in Int /\ id[1] - 1 <= from - 1 /\ from - 1 <= id[2]
        /\ from..to \subseteq Ledgers
    BY <2>3, <2>4, MaxLedgerAssumption DEF Ledgers
  <2>6. StoreInv'
    BY <2>1, <2>2, <2>5, CommitHealChunkInv
  <2>7. HealerTypeOK'
    BY <1>6, IdleWorkerOK, WorkerMoves DEF healChunk
  <2> QED BY <2>6, <2>7
<1>7. CASE healChunkFails(w)
  BY <1>7, IdleWorkerOK, WorkerMoves, StoreUnchanged DEF healChunkFails
<1> QED BY <1>1, <1>3, <1>4, <1>5, <1>6, <1>7 DEF work

-----------------------------------------------------------------------------
(* The induction.                                                          *)

BudgetOK == budget \in [admin: 0..MaxAdmin, crash: 0..MaxCrash]

IndInv == TypeOK /\ GapsSound

\* The inductive invariant, by component.
LEMMA IndInvParts ==
    IndInv <=> /\ StoreInv /\ BackfillerTypeOK /\ HealerTypeOK /\ AdminTypeOK
               /\ unseen \in Nat /\ BudgetOK
  BY DEF IndInv, TypeOK, GapsSound, StoreInv, StoreTypeOK, SoundTable, BudgetOK

\* The same of the next state.
LEMMA IndInvPartsNext ==
    ASSUME StoreInv', BackfillerTypeOK', HealerTypeOK', AdminTypeOK',
           unseen' \in Nat, BudgetOK'
    PROVE  IndInv'
  BY DEF IndInv, TypeOK, GapsSound, StoreInv, StoreTypeOK, SoundTable, BudgetOK

\* Steps that leave the backfiller alone keep its types.
LEMMA BackfillerUnchanged ==
    ASSUME BackfillerTypeOK, UNCHANGED <<tip, wall, round, lastScan>>
    PROVE  BackfillerTypeOK'
  BY DEF BackfillerTypeOK, IsWatch, ScannedRange

\* Steps that leave the healer alone keep its types.
LEMMA HealerUnchanged ==
    ASSUME HealerTypeOK, UNCHANGED <<snap, healer>>
    PROVE  HealerTypeOK'
  BY DEF HealerTypeOK, IsWatch

\* Steps that leave the request alone keep its type.
LEMMA AdminUnchanged ==
    ASSUME AdminTypeOK, UNCHANGED req
    PROVE  AdminTypeOK'
  BY DEF AdminTypeOK

\* The idle request is well typed.
LEMMA NoRequestTyped ==
    /\ NoRequest.c \in Contracts /\ NoRequest.target \in Ledgers
    /\ NoRequest \in [pc: {"idle", "upserted", "anchored", "reload"}, c: Contracts,
                      target: Ledgers, kinds: SUBSET Kinds, anchor: Frontier]
<1>1. (CHOOSE c \in Contracts : TRUE) \in Contracts
  BY ContractsAssumption
<1>2. 1 \in Ledgers /\ 0 \in Frontier
  BY MaxLedgerAssumption, MarginAssumption DEF Ledgers, Frontier
<1> QED BY <1>1, <1>2 DEF NoRequest

\* The inductive invariant holds when the process first starts.
LEMMA InitInv == Init => IndInv
<1> SUFFICES ASSUME Init PROVE IndInv
  OBVIOUS
<1>1. StoreInv
  BY StoreInitInv DEF Init
<1>2. DOMAIN <<>> = {} /\ IsWatch(<<>>) /\ <<>> = [x \in {} |-> {}]
  BY DEF IsWatch
<1>3. /\ 0 \in Frontier /\ 0 \in 0..MaxLedger
      /\ FirstTip \in Ledgers /\ 1 \in 1..FirstTip
  BY MaxLedgerAssumption, MarginAssumption, IndexerAssumption DEF Frontier, Ledgers
<1>4. BackfillerTypeOK
  BY <1>2, <1>3 DEF Init, BackfillerInit, BackfillerTypeOK, NoRound, NoScan, IsWatch
<1>5. HealerTypeOK
  BY <1>2, IdleWorkerOK, HealerTypeOKByWorker DEF Init, HealerInit
<1>6. AdminTypeOK
  BY NoRequestTyped DEF Init, AdminInit, AdminTypeOK
<1>7. unseen \in Nat /\ BudgetOK
  BY IndexerAssumption DEF Init, BudgetOK
<1> QED BY <1>1, <1>4, <1>5, <1>6, <1>7, IndInvParts

\* Every step of every actor preserves the inductive invariant.
LEMMA NextInv == IndInv /\ [Next]_vars => IndInv'
<1> SUFFICES ASSUME IndInv, [Next]_vars
             PROVE  IndInv'
  OBVIOUS
<1>0. /\ StoreInv /\ BackfillerTypeOK /\ HealerTypeOK /\ AdminTypeOK
      /\ unseen \in Nat /\ BudgetOK
  BY IndInvParts
<1>t. tip \in 1..MaxLedger /\ wall \in 1..tip /\ cursor \in 0..MaxLedger
  BY <1>0 DEF BackfillerTypeOK, StoreInv, StoreTypeOK, Ledgers
<1>1. CASE LiveFirst
  <2>1. PICK start \in wall..tip : CommitLedger(start, snap)
    BY <1>1 DEF LiveFirst
  <2>2. start \in Ledgers
    BY <1>t, MaxLedgerAssumption DEF Ledgers
  <2>3. StoreInv'
    BY <1>0, <2>1, <2>2, CommitLedgerInv
  <2> QED
    BY <1>0, <1>1, <2>3, BackfillerUnchanged, HealerUnchanged, AdminUnchanged,
       IndInvPartsNext DEF LiveFirst, BudgetOK
<1>2. CASE LiveNext
  <2>1. cursor + 1 \in Ledgers /\ CommitLedger(cursor + 1, snap)
    BY <1>2, <1>t, MaxLedgerAssumption DEF LiveNext, Serves, Ledgers
  <2>2. StoreInv'
    BY <1>0, <2>1, CommitLedgerInv
  <2>3. unseen' \in Nat
    BY <1>0, <1>2 DEF LiveNext
  <2> QED
    BY <1>0, <1>2, <2>2, <2>3, BackfillerUnchanged, HealerUnchanged, AdminUnchanged,
       IndInvPartsNext DEF LiveNext, BudgetOK
<1>3. CASE Reload
  <2>1. HealerTypeOK'
    BY <1>0, <1>3 DEF Reload, HealerTypeOK, StoreInv, StoreTypeOK, IsWatch
  <2>2. AdminTypeOK'
    BY <1>0, <1>3, NoRequestTyped DEF Reload, AdminTypeOK
  <2>3. StoreInv' /\ unseen' \in Nat
    BY <1>0, <1>3, StoreUnchanged DEF Reload
  <2> QED
    BY <1>0, <1>3, <2>1, <2>2, <2>3, BackfillerUnchanged, IndInvPartsNext
    DEF Reload, BudgetOK
<1>4. CASE ReloadFails
  <2>1. AdminTypeOK'
    BY <1>4, NoRequestTyped DEF ReloadFails, AdminTypeOK
  <2> QED
    BY <1>0, <1>4, <2>1, StoreUnchanged, BackfillerUnchanged, HealerUnchanged,
       IndInvPartsNext DEF ReloadFails, BudgetOK
<1>5. CASE Register
  <2>1. PICK c \in Contracts : \E target \in Targets(c), kinds \in KindSet :
                                   RegisterContract(c, target, kinds)
    BY <1>5 DEF Register
  <2>2. PICK target \in Targets(c), kinds \in KindSet : RegisterContract(c, target, kinds)
    BY <2>1
  <2>3. StoreInv'
    BY <1>0, <2>2, UpsertContractInv DEF RegisterContract
  <2>4. AdminTypeOK'
    <3>1. target \in Ledgers /\ kinds \in SUBSET Kinds /\ 0 \in Frontier
      BY TargetsAssumption, MaxLedgerAssumption, MarginAssumption DEF KindSet, Frontier
    <3> QED BY <2>2, <3>1 DEF RegisterContract, AdminTypeOK
  <2>5. BudgetOK'
    BY <1>0, <1>5, IndexerAssumption DEF Register, MayMutate, Spend, BudgetOK
  <2> QED
    BY <1>0, <1>5, <2>3, <2>4, <2>5, BackfillerUnchanged, HealerUnchanged,
       IndInvPartsNext DEF Register
<1>6. CASE RegisterContinues
  <2>1. /\ req.c \in Contracts /\ req.target \in Ledgers /\ req.anchor \in Frontier
        /\ req.kinds \in SUBSET Kinds
    BY <1>0 DEF AdminTypeOK
  <2>2. CASE AnchorWalk
    <3>1. AnchorAt \in Frontier
      BY <1>t, MaxLedgerAssumption, MarginAssumption DEF AnchorAt, Frontier
    <3>2. AdminTypeOK' /\ StoreInv'
      BY <1>0, <2>2, <3>1, StoreUnchanged DEF AnchorWalk, AdminTypeOK
    <3> QED
      BY <1>0, <1>6, <3>2, BackfillerUnchanged, HealerUnchanged, IndInvPartsNext
      DEF RegisterContinues, BudgetOK
  <2>3. CASE PlanWalk
    <3>1. StoreInv'
      BY <1>0, <2>1, <2>3, EnsureBackfillInv DEF PlanWalk
    <3>2. AdminTypeOK'
      BY <1>0, <2>3 DEF PlanWalk, AdminTypeOK
    <3> QED
      BY <1>0, <1>6, <3>1, <3>2, BackfillerUnchanged, HealerUnchanged, IndInvPartsNext
      DEF RegisterContinues, BudgetOK
  <2> QED BY <1>6, <2>2, <2>3 DEF RegisterContinues
<1>7. CASE RegisterFails
  <2>1. AdminTypeOK' /\ StoreInv'
    BY <1>0, <1>7, NoRequestTyped, StoreUnchanged DEF RegisterFails, RequestFails, AdminTypeOK
  <2> QED
    BY <1>0, <1>7, <2>1, BackfillerUnchanged, HealerUnchanged, IndInvPartsNext
    DEF RegisterFails, BudgetOK
<1>8. CASE Unregister
  <2>1. PICK c \in Contracts : UnregisterContract(c)
    BY <1>8 DEF Unregister
  <2>2. StoreInv'
    BY <1>0, <2>1, DeleteContractInv DEF UnregisterContract
  <2>3. AdminTypeOK'
    BY <2>1, NoRequestTyped DEF UnregisterContract, AdminTypeOK
  <2>4. BudgetOK'
    BY <1>0, <1>8, IndexerAssumption DEF Unregister, MayMutate, Spend, BudgetOK
  <2> QED
    BY <1>0, <1>8, <2>2, <2>3, <2>4, BackfillerUnchanged, HealerUnchanged,
       IndInvPartsNext DEF Unregister
<1>9. CASE Plan
  <2>1. PICK wanted \in Plans : SubmitPlan(wanted)
    BY <1>9 DEF Plan
  <2>2. StoreInv' /\ AdminTypeOK'
    BY <1>0, <2>1, PlanHealInv, AdminUnchanged DEF SubmitPlan
  <2>3. BudgetOK'
    BY <1>0, <1>9, IndexerAssumption DEF Plan, MayMutate, Spend, BudgetOK
  <2> QED
    BY <1>0, <1>9, <2>2, <2>3, BackfillerUnchanged, HealerUnchanged, IndInvPartsNext
    DEF Plan
<1>10. CASE Backfill
  <2>1. StoreInv' /\ BackfillerTypeOK'
    BY <1>0, <1>10, BackfillerStep DEF Backfill, BackfillerInv
  <2> QED
    BY <1>0, <1>10, <2>1, HealerUnchanged, AdminUnchanged, IndInvPartsNext
    DEF Backfill, BudgetOK
<1>11. CASE Heal
  <2>1. StoreInv' /\ HealerTypeOK'
    BY <1>0, <1>11, HealerStep DEF Heal
  <2> QED
    BY <1>0, <1>11, <2>1, BackfillerUnchanged, AdminUnchanged, IndInvPartsNext
    DEF Heal, BudgetOK
<1>12. CASE Source
  <2>1. tip' \in Ledgers /\ wall' \in 1..tip'
    BY <1>t, <1>12, MaxLedgerAssumption DEF Source, SourceCloses, SourcePrunes, Ledgers
  <2>2. BackfillerTypeOK'
    BY <1>0, <1>12, <2>1 DEF Source, BackfillerTypeOK, IsWatch, ScannedRange
  <2> QED
    BY <1>0, <1>12, <2>2, StoreUnchanged, HealerUnchanged, AdminUnchanged,
       IndInvPartsNext DEF Source, BudgetOK
<1>13. CASE Crash
  <2>1. DOMAIN <<>> = {} /\ IsWatch(<<>>) /\ <<>> = [x \in {} |-> {}]
    BY DEF IsWatch
  <2>2. 0 \in Frontier /\ 0 \in 0..MaxLedger
    BY MaxLedgerAssumption, MarginAssumption DEF Frontier
  <2>3. BackfillerTypeOK'
    BY <1>0, <1>13, <2>1, <2>2 DEF Crash, BackfillerTypeOK, NoRound, NoScan, IsWatch
  <2>4. HealerTypeOK'
    <3>1. IsWatch(snap)'
      BY <1>0, <1>13 DEF Crash, StoreInv, StoreTypeOK, IsWatch
    <3>2. DOMAIN healer' = Workers /\ \A w \in Workers : WorkerOK(healer'[w])
      BY <1>13, IdleWorkerOK DEF Crash
    <3> QED BY <3>1, <3>2 DEF HealerTypeOK, WorkerOK
  <2>5. AdminTypeOK' /\ unseen' \in Nat /\ StoreInv'
    BY <1>0, <1>13, NoRequestTyped, StoreUnchanged DEF Crash, AdminTypeOK
  <2>6. BudgetOK'
    BY <1>0, <1>13, IndexerAssumption DEF Crash, BudgetOK
  <2> QED BY <2>3, <2>4, <2>5, <2>6, IndInvPartsNext
<1>14. CASE UNCHANGED vars
  <2>1. UNCHANGED storeVars
    BY <1>14 DEF vars, storeVars
  <2> QED
    BY <1>0, <1>14, <2>1, StoreUnchanged, BackfillerUnchanged, HealerUnchanged,
       AdminUnchanged, IndInvPartsNext DEF vars, BudgetOK
<1> QED
  BY <1>1, <1>2, <1>3, <1>4, <1>5, <1>6, <1>7, <1>8, <1>9, <1>10, <1>11, <1>12, <1>13, <1>14
  DEF Next, Live, AdminStep

\* Type correctness of the whole ingesting process: every table, the round in
\* progress, every worker's copy of a gap row and the request being served.
THEOREM Typed == Spec => []TypeOK
<1>1. IndInv => TypeOK
  BY DEF IndInv
<1> QED BY <1>1, InitInv, NextInv, PTL DEF Spec

\* Under every interleaving of live loop, backfiller, healer workers, admin
\* requests and crashes, no ledger is promised by two open gaps and every
\* open gap's heal watermark lies inside it (RecordGap, PlanHeal, ReopenGaps
\* and CommitHealChunk of internal/store).
THEOREM GapsStaySound == Spec => []GapsSound
<1>1. IndInv => GapsSound
  BY DEF IndInv
<1> QED BY <1>1, InitInv, NextInv, PTL DEF Spec

\* Submitting a heal plan never drops a promise (PlanHeal of internal/store),
\* in every interleaving, as long as no piece of a plan has the range of a
\* resolved gap: the race replan_resolved is the one that breaks it.
THEOREM PlansKeepOwed ==
    ASSUME "replan_resolved" \notin Races
    PROVE  Spec => PlanKeepsOwed
<1>1. IndInv /\ [Next]_vars => [Plan => Owed(gaps') = Owed(gaps)]_vars
  <2> SUFFICES ASSUME IndInv, Plan
               PROVE  Owed(gaps') = Owed(gaps)
    OBVIOUS
  <2>1. PICK wanted \in Plans : SubmitPlan(wanted) /\ ~PlanHitsResolved(gaps, wanted)
    BY DEF Plan, Permits
  <2>2. SoundTable(gaps) /\ gaps' = PlanHealRows(gaps, wanted)
    BY <2>1, IndInvParts DEF StoreInv, SubmitPlan, PlanHeal
  <2> QED BY <2>1, <2>2, PlanHealOwes
<1> QED BY <1>1, InitInv, NextInv, PTL DEF Spec, PlanKeepsOwed

=============================================================================
