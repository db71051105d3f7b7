--------------------------- MODULE Coverage_proofs ---------------------------
(***************************************************************************)
(* The promise of the indexer, for every instance: what the API vouches    *)
(* for was derived, what a finished walk left out is owed or derived, and  *)
(* the whole process implements Coverage.  This holds under the discipline *)
(* Quiet, which leaves out the races that break it (README, section 4).    *)
(*                                                                         *)
(* The heart is Honest, a property of one walk's row: what lies above its  *)
(* frontier was derived, and what a finished walk left below is derived or *)
(* owed.  The lemmas of the first part say what each transaction makes of  *)
(* an honest row, as facts about values; the second part shows that every  *)
(* actor calls the transactions with arguments for which they apply.       *)
(***************************************************************************)
EXTENDS Indexer_proofs

\* No races, and a stale snapshot misses no more ledgers than the margin by
\* which a registration anchors its walk past the cursor.
Quiet == Races = {} /\ MaxStale <= Margin

-----------------------------------------------------------------------------
(* Rows.                                                                   *)

Has(kinds, der, l) == \A k \in kinds : l \in der[k]

\* row is a walk whose claim is on kinds, der what was derived for its
\* contract, owed the ledgers open gaps owe, cur the cursor.  The last conjunct
\* is about a walk handed to a deeper gap: the stretch between its new wall and
\* its frontier belongs to no gap.
Honest(row, kinds, der, owed, cur) ==
    /\ row.nextTo <= cur + Margin
    /\ ~row.done => row.clampedAt = 0
    /\ row.clampedAt # 0 => row.targetFrom <= row.nextTo
    /\ \A l \in Ledgers : row.nextTo < l /\ l <= cur => Has(kinds, der, l)
    /\ row.done =>
          \A l \in Ledgers : row.targetFrom <= l /\ l <= row.nextTo
                                => l \in owed \/ Has(kinds, der, l)
    /\ row.clampedAt # 0 =>
          \A l \in Ledgers :
             row.clampedAt <= l /\ row.targetFrom <= l /\ l <= row.nextTo
                => Has(kinds, der, l)

\* What a walk left out between two ledgers of a gap is derived: a gap healed
\* from hi down to lo may be healed on without asking what became of it since.
Settles(row, kinds, der, lo, hi) ==
    row.done =>
       \A l \in Ledgers : lo < l /\ l <= hi /\ row.targetFrom <= l /\ l <= row.nextTo
                             => Has(kinds, der, l)

\* der2 has everything der has, for these kinds.
Grows(kinds, der, der2) == \A k \in kinds : der[k] \subseteq der2[k]

\* An honest row stays honest when more is derived or owed and less claimed.
LEMMA HonestKept ==
    ASSUME NEW row, NEW kinds, NEW kinds2 \in SUBSET kinds, NEW der, NEW der2,
           Grows(kinds, der, der2), NEW owed, NEW owed2, owed \subseteq owed2,
           NEW cur, Honest(row, kinds, der, owed, cur)
    PROVE  Honest(row, kinds2, der2, owed2, cur)
  BY DEF Honest, Has, Grows

\* The cursor moves on by one ledger that was derived, or that the walk has
\* still before it.
LEMMA HonestLive ==
    ASSUME NEW row \in BackfillRow, NEW kinds, NEW der, NEW der2,
           Grows(kinds, der, der2), NEW owed, NEW cur \in Nat,
           cur + 1 <= row.nextTo \/ Has(kinds, der2, cur + 1),
           Honest(row, kinds, der, owed, cur)
    PROVE  Honest(row, kinds, der2, owed, cur + 1)
<1>1. row.nextTo \in Int /\ Margin \in Int
  BY MarginAssumption DEF BackfillRow, Frontier
<1>2. \A l \in Ledgers : Has(kinds, der, l) => Has(kinds, der2, l)
  BY DEF Has, Grows
<1>3. \A l \in Ledgers : l \in Int
  BY DEF Ledgers
<1> QED BY <1>1, <1>2, <1>3 DEF Honest

\* A clamped chunk leaves below the wall only what a gap now owes.
LEMMA HonestClamp ==
    ASSUME NEW row \in BackfillRow, NEW kinds, NEW der, NEW der2,
           Grows(kinds, der, der2), NEW owed, NEW cur \in Nat,
           NEW from \in Int, NEW to \in Int, NEW w \in Int,
           row.targetFrom <= from, from <= row.nextTo, row.nextTo <= to, from < w,
           row.targetFrom..(w - 1) \subseteq owed,
           \A l \in w..to : Has(kinds, der2, l),
           NEW row2, row2.targetFrom = row.targetFrom,
           NEW low, low = Min({row.nextTo, w - 1}),
           row2.nextTo = low, row2.done, row2.clampedAt = w,
           Honest(row, kinds, der, owed, cur)
    PROVE  Honest(row2, kinds, der2, owed, cur)
<1>1. row.nextTo \in Int /\ row.targetFrom \in Int /\ Margin \in Int
  BY MarginAssumption DEF BackfillRow, Frontier, Ledgers
<1>2. \A l \in Ledgers : l \in Int /\ (Has(kinds, der, l) => Has(kinds, der2, l))
  BY DEF Has, Grows, Ledgers
<1>4. row2.nextTo = IF row.nextTo <= w - 1 THEN row.nextTo ELSE w - 1
  BY <1>1, MinPair
<1>5. row2.nextTo \in Int /\ row2.nextTo <= row.nextTo /\ row2.nextTo <= w - 1
      /\ row.targetFrom <= row2.nextTo /\ row2.nextTo <= cur + Margin
  BY <1>1, <1>4 DEF Honest
<1>6. \A l \in Ledgers : row2.nextTo < l /\ l <= cur => Has(kinds, der2, l)
  BY <1>1, <1>2, <1>4 DEF Honest
<1>7. \A l \in Ledgers : row.targetFrom <= l /\ l <= row2.nextTo => l \in owed
  BY <1>1, <1>2, <1>5
<1>8. \A l \in Ledgers : ~(w <= l /\ l <= row2.nextTo)
  BY <1>2, <1>5
<1>9. row2.targetFrom <= row2.nextTo /\ row2.done
  BY <1>5
<1>10. \A l \in Ledgers : row2.targetFrom <= l /\ l <= row2.nextTo
                             => l \in owed \/ Has(kinds, der2, l)
  BY <1>7
<1>11. \A l \in Ledgers :
          row2.clampedAt <= l /\ row2.targetFrom <= l /\ l <= row2.nextTo
             => Has(kinds, der2, l)
  BY <1>8
<1> QED BY <1>5, <1>6, <1>9, <1>10, <1>11, Zenon DEF Honest

\* A walk with nothing before it may be closed where it stands.
LEMMA HonestEmpty ==
    ASSUME NEW row \in BackfillRow, NEW kinds, NEW der, NEW der2,
           Grows(kinds, der, der2), NEW owed, NEW cur \in Nat,
           row.nextTo < row.targetFrom,
           NEW row2, row2.targetFrom = row.targetFrom, row2.nextTo = row.nextTo,
           row2.done = TRUE, row2.clampedAt = 0,
           Honest(row, kinds, der, owed, cur)
    PROVE  Honest(row2, kinds, der2, owed, cur)
<1>1. row.nextTo \in Int /\ row.targetFrom \in Int
  BY DEF BackfillRow, Frontier, Ledgers
<1>2. \A l \in Ledgers : l \in Int /\ (Has(kinds, der, l) => Has(kinds, der2, l))
  BY DEF Has, Grows, Ledgers
<1> QED BY <1>1, <1>2 DEF Honest

-----------------------------------------------------------------------------
(* A healed chunk.                                                         *)

\* Between the end of the next open gap below and the floor of a resolved gap
\* nothing is owed.
LEMMA AboveDeeper ==
    ASSUME NEW tab, SoundTable(tab), NEW id \in Open(tab), NEW n \in Int, n = id[1] - 1,
           NEW l \in Ledgers, l \in Owed(HealRow(tab, id, n)), l < id[1]
    PROVE  l <= DeeperEnd(HealRow(tab, id, n), id[1])
<1> DEFINE after == HealRow(tab, id, n)
           below == {g[2] : g \in {h \in Open(after) : h[2] < id[1]}}
<1>1. id \in DOMAIN tab /\ tab[id].open /\ id \in GapId /\ Open(tab) \subseteq GapId
  BY DEF Open, SoundTable, IsGapTable
<1>2. id[1] \in Ledgers /\ id[2] \in Ledgers /\ id[1] <= id[2] /\ l \in Int
  BY <1>1, GapIdPair DEF Ledgers
<1>3. SoundTable(after)
  BY <1>1, <1>2, HealRowSound DEF Ledgers
<1>4. PICK g \in Open(after) : l \in Remainder(after, g)
  BY DEF Owed
<1>5. g \in GapId /\ l \in Span(g)
  BY <1>3, <1>4, RemainderInSpan
<1>6. DOMAIN after = DOMAIN tab /\ ~after[id].open
      /\ \A h \in DOMAIN tab : h # id => after[h] = tab[h]
  <2> DEFINE above == n >= id[1]
  <2>1. tab[id] \in GapRow /\ tab = [h \in DOMAIN tab |-> tab[h]]
    BY <1>1 DEF SoundTable, IsGapTable
  <2>2. /\ after[id] = [tab[id] EXCEPT !.healNextTo = n, !.open = above]
        /\ DOMAIN after = DOMAIN tab
        /\ \A h \in DOMAIN tab : h # id => after[h] = tab[h]
    BY <1>1, <2>1 DEF HealRow
  <2>3. ~above
    BY <1>2 DEF Ledgers
  <2>4. after[id].open = above
    <3> HIDE DEF above, after
    <3> QED BY <2>1, <2>2 DEF GapRow
  <2> HIDE DEF above, after
  <2> QED BY <2>2, <2>3, <2>4
<1>7. g # id /\ g \in Open(tab)
  BY <1>4, <1>6 DEF Open
<1>8. Span(g) \cap Span(id) = {}
  BY <1>7 DEF SoundTable, OpenGapsDisjoint
<1>9. g[1] \in Int /\ g[2] \in Int /\ g[1] <= l /\ l <= g[2]
  BY <1>5, GapIdPair DEF Span, Ledgers
<1>10. g[2] < id[1]
  <2>1. id[1] \in Span(id)
    BY <1>2 DEF Span, Ledgers
  <2>2. g[2] >= id[1] => id[1] \in Span(g)
    BY <1>2, <1>9 DEF Span, Ledgers
  <2> QED BY <1>2, <1>8, <1>9, <2>1, <2>2 DEF Ledgers
<1>11. g[2] \in below
  BY <1>4, <1>10
<1>12. below \in SUBSET (0..MaxLedger)
  <2>1. Open(after) \subseteq GapId
    BY <1>3 DEF SoundTable, IsGapTable, Open
  <2> QED BY <2>1, GapIdPair, MaxLedgerAssumption DEF Ledgers
<1>13. DeeperEnd(after, id[1]) = Max({0} \cup below)
  BY DEF DeeperEnd
<1> HIDE DEF below, after
<1>14. {0} \cup below \in SUBSET (0..MaxLedger) /\ {0} \cup below # {} /\ MaxLedger \in Nat
  BY <1>12, MaxLedgerAssumption
<1>15. Max({0} \cup below) \in 0..MaxLedger /\ g[2] <= Max({0} \cup below)
  BY <1>11, <1>14, MaxBounded
<1> QED BY <1>2, <1>9, <1>13, <1>15 DEF after

\* The end of the next open gap below is a ledger, or 0 when there is none.
LEMMA DeeperEndTyped ==
    ASSUME NEW tab, IsGapTable(tab), NEW floor
    PROVE  DeeperEnd(tab, floor) \in 0..MaxLedger
<1> DEFINE below == {g[2] : g \in {h \in Open(tab) : h[2] < floor}}
<1>1. {0} \cup below \in SUBSET (0..MaxLedger) /\ {0} \cup below # {} /\ MaxLedger \in Nat
  BY GapIdPair, MaxLedgerAssumption DEF IsGapTable, Open, Ledgers
<1>2. DeeperEnd(tab, floor) = Max({0} \cup below)
  BY DEF DeeperEnd
<1> HIDE DEF below
<1> QED BY <1>1, <1>2, MaxBounded

\* What a healed chunk makes of a walk's claims: its frontier moves down or
\* stays, its target and what it claims stay.
LEMMA FollowHealFrame ==
    ASSUME NEW row \in BackfillRow, NEW id \in GapId, NEW n \in Int, NEW after,
           row.clampedAt # 0 => row.targetFrom <= row.nextTo
    PROVE  LET row2 == FollowHeal(row, id, n, after)
           IN /\ row2.done = row.done /\ row2.targetFrom = row.targetFrom
              /\ row2.covered = row.covered /\ row2.nextTo <= row.nextTo
<1> DEFINE deeper == DeeperEnd(after, id[1])
           low == Min({row.nextTo, n})
           lowered == [row EXCEPT !.nextTo = low]
           closed == [row EXCEPT !.nextTo = row.targetFrom - 1, !.clampedAt = 0]
           handed == [lowered EXCEPT !.clampedAt = deeper + 1]
           row2 == FollowHeal(row, id, n, after)
<1>1. row.nextTo \in Int /\ row.targetFrom \in Int /\ id[2] \in Int /\ id[2] >= 1
  BY GapIdPair DEF BackfillRow, Frontier, Ledgers
<1>2. low = IF row.nextTo <= n THEN row.nextTo ELSE n
  BY <1>1, MinPair
<1>3. low \in Int /\ low <= row.nextTo
  <2> HIDE DEF low
  <2> QED BY <1>1, <1>2
<1>4. row2 = row \/ (row.clampedAt = id[2] + 1 /\ row2 \in {closed, lowered, handed})
  BY DEF FollowHeal
<1>5. row.clampedAt = id[2] + 1 => row.targetFrom - 1 <= row.nextTo
  BY <1>1 DEF BackfillRow
<1> HIDE DEF low, deeper, row2
<1>6. row2 = closed => row2.nextTo = row.targetFrom - 1 /\ row2.done = row.done
         /\ row2.targetFrom = row.targetFrom /\ row2.covered = row.covered
  BY DEF BackfillRow
<1>7. row2 = lowered => row2.nextTo = low /\ row2.done = row.done
         /\ row2.targetFrom = row.targetFrom /\ row2.covered = row.covered
  BY DEF BackfillRow
<1>8. row2 = handed => row2.nextTo = low /\ row2.done = row.done
         /\ row2.targetFrom = row.targetFrom /\ row2.covered = row.covered
  BY DEF BackfillRow
<1> HIDE DEF closed, lowered, handed
<1> QED BY <1>1, <1>3, <1>4, <1>5, <1>6, <1>7, <1>8 DEF row2

\* An honest walk stays honest when a chunk of a gap is healed, whether it was
\* clamped at that gap or not: what the gap no longer owes was derived, by this
\* chunk or, above the watermark the chunk was cut from, before it.
LEMMA HonestHeal ==
    ASSUME NEW tab, SoundTable(tab), NEW id \in Open(tab),
           NEW to \in Span(id), NEW from \in id[1]..to, NEW n \in Int, n = from - 1,
           NEW row \in BackfillRow, NEW kinds, NEW der, NEW der2, NEW cur \in Nat,
           Grows(kinds, der, der2), \A k \in kinds : from..to \subseteq der2[k],
           Settles(row, kinds, der, to, id[2]),
           Honest(row, kinds, der, Owed(tab), cur)
    PROVE  Honest(FollowHeal(row, id, n, HealRow(tab, id, n)), kinds, der2,
                  Owed(HealRow(tab, id, n)), cur)
<1> DEFINE after == HealRow(tab, id, n)
           deeper == DeeperEnd(after, id[1])
           low == Min({row.nextTo, n})
           Left(l) == row.targetFrom <= l /\ l <= row.nextTo
<1>1. id \in DOMAIN tab /\ tab[id].open /\ id \in GapId /\ Open(tab) \subseteq GapId
  BY DEF Open, SoundTable, IsGapTable
<1>2. /\ id[1] \in Int /\ id[2] \in Int /\ id[1] <= id[2] /\ 1 <= id[1]
      /\ to \in Int /\ to <= id[2] /\ from \in Int /\ id[1] <= from /\ from <= to
      /\ row.nextTo \in Int /\ row.targetFrom \in Int /\ row.clampedAt \in Int
      /\ row.clampedAt >= 0 /\ row.targetFrom >= 1
  BY <1>1, GapIdPair DEF Ledgers, Span, BackfillRow, Frontier
<1>3. SoundTable(after)
  BY <1>1, <1>2, HealRowSound
<1>4. \A l \in Ledgers : l \in Int /\ (Has(kinds, der, l) => Has(kinds, der2, l))
  BY DEF Has, Grows, Ledgers
<1>5. \A l \in from..to : Has(kinds, der2, l)
  BY DEF Has
<1>6. \A l \in Ledgers : row.done /\ Left(l) /\ l \in Remainder(tab, id) /\ l > n
                            => Has(kinds, der2, l)
  BY <1>1, <1>2, <1>4, <1>5, RemainderInSpan DEF Settles, Span
<1>7. \A l \in Ledgers : row.done /\ Left(l) => l \in Owed(after) \/ Has(kinds, der2, l)
  <2> SUFFICES ASSUME NEW l \in Ledgers, row.done, Left(l), ~Has(kinds, der2, l)
               PROVE  l \in Owed(after)
    OBVIOUS
  <2>1. l \in Owed(tab)
    BY <1>4 DEF Honest
  <2>2. ~(l \in Remainder(tab, id) /\ l > n)
    BY <1>6
  <2> QED BY <2>1, <2>2, HealRowOwes
<1>8. \A l \in Ledgers : row.nextTo < l /\ l <= cur => Has(kinds, der2, l)
  BY <1>4 DEF Honest
<1>9. CASE row.clampedAt # id[2] + 1
  <2>1. FollowHeal(row, id, n, after) = row
    BY <1>9 DEF FollowHeal
  <2> HIDE DEF after
  <2>2. Honest(row, kinds, der2, Owed(after), cur)
    BY <1>4, <1>7, <1>8 DEF Honest
  <2> QED BY <2>1, <2>2 DEF after
<1>10. CASE row.clampedAt = id[2] + 1
  <2>1. row.done /\ row.targetFrom <= row.nextTo /\ row.nextTo <= cur + Margin
    BY <1>2, <1>10 DEF Honest
  <2>2. \A l \in Ledgers : Left(l) /\ n < l => Has(kinds, der2, l)
    <3> SUFFICES ASSUME NEW l \in Ledgers, Left(l), n < l
                 PROVE  Has(kinds, der2, l)
      OBVIOUS
    <3>1. CASE l >= row.clampedAt
      BY <1>2, <1>4, <1>10, <3>1 DEF Honest
    <3>2. CASE l < row.clampedAt
      <4>1. l \in Span(id)
        BY <1>2, <1>4, <1>10, <3>2 DEF Span
      <4>2. l \in Owed(tab) \/ Has(kinds, der, l)
        BY <2>1 DEF Honest
      <4>3. l \in Owed(tab) => l \in Remainder(tab, id)
        <5> SUFFICES ASSUME NEW g \in Open(tab), l \in Remainder(tab, g)
                     PROVE  l \in Remainder(tab, id)
          BY DEF Owed
        <5>1. l \in Span(g)
          BY RemainderInSpan
        <5> QED BY <4>1, <5>1 DEF SoundTable, OpenGapsDisjoint
      <4> QED BY <1>4, <1>6, <2>1, <4>2, <4>3
    <3> QED BY <1>2, <1>4, <3>1, <3>2
  <2>3. n < id[1] => \A l \in Ledgers : Left(l) /\ deeper < l => Has(kinds, der2, l)
    <3> SUFFICES ASSUME n < id[1], NEW l \in Ledgers, Left(l), deeper < l
                 PROVE  Has(kinds, der2, l)
      OBVIOUS
    <3>1. n = id[1] - 1
      BY <1>2
    <3>2. deeper \in Int
      <4> HIDE DEF after
      <4> QED BY <1>3, DeeperEndTyped DEF SoundTable
    <3>3. l < id[1] => l \notin Owed(after)
      <4>1. l < id[1] /\ l \in Owed(after) => l <= deeper
        BY <3>1, AboveDeeper
      <4> HIDE DEF after, deeper
      <4> QED BY <1>4, <3>2, <4>1
    <3>4. l < id[1] \/ n < l
      BY <1>2, <1>4, <3>1
    <3> QED BY <1>7, <2>1, <2>2, <3>3, <3>4
  <2>4. low = IF row.nextTo <= n THEN row.nextTo ELSE n
    BY <1>2, MinPair
  <2>5. deeper \in 0..MaxLedger
    <3> HIDE DEF after
    <3> QED BY <1>3, DeeperEndTyped DEF SoundTable
  <2> DEFINE row2 == FollowHeal(row, id, n, after)
             shut == row.targetFrom > n \/ (n < id[1] /\ deeper < row.targetFrom)
  <2>6. /\ shut => row2 = [row EXCEPT !.nextTo = row.targetFrom - 1, !.clampedAt = 0]
        /\ ~shut /\ n < id[1]
              => row2 = [row EXCEPT !.nextTo = low, !.clampedAt = deeper + 1]
        /\ ~shut /\ ~(n < id[1]) => row2 = [row EXCEPT !.nextTo = low]
    BY <1>10 DEF FollowHeal
  <2> HIDE DEF row2, after, low, deeper
  <2>7. CASE shut
    <3>1. row2.nextTo = row.targetFrom - 1 /\ row2.clampedAt = 0 /\ row2.done
          /\ row2.targetFrom = row.targetFrom
      BY <2>1, <2>6, <2>7 DEF BackfillRow
    <3>2. \A l \in Ledgers : Left(l) => Has(kinds, der2, l)
      BY <1>2, <1>4, <2>2, <2>3, <2>5, <2>7
    <3> QED BY <1>2, <1>4, <1>8, <2>1, <3>1, <3>2, MarginAssumption DEF Honest, row2, after
  <2>8. CASE ~shut /\ n < id[1]
    <3>1. row2.nextTo = low /\ row2.clampedAt = deeper + 1 /\ row2.done
          /\ row2.targetFrom = row.targetFrom
      BY <2>1, <2>6, <2>8 DEF BackfillRow
    <3>2. low \in Int /\ low <= row.nextTo /\ low <= n /\ row.targetFrom <= low
          /\ (low = row.nextTo \/ low = n) /\ low <= cur + Margin
      BY <1>2, <2>1, <2>4, <2>8, MarginAssumption
    <3>3. \A l \in Ledgers : low < l /\ l <= cur => Has(kinds, der2, l)
      BY <1>2, <1>4, <1>8, <2>2, <2>8, <3>2
    <3>4. \A l \in Ledgers : row.targetFrom <= l /\ l <= low
                                => l \in Owed(after) \/ Has(kinds, der2, l)
      BY <1>2, <1>4, <1>7, <2>1, <3>2
    <3>5. \A l \in Ledgers : deeper + 1 <= l /\ row.targetFrom <= l /\ l <= low
                                => Has(kinds, der2, l)
      BY <1>2, <1>4, <2>3, <2>5, <2>8, <3>2
    <3> QED BY <3>1, <3>2, <3>3, <3>4, <3>5 DEF Honest, row2, after
  <2>9. CASE ~shut /\ ~(n < id[1])
    <3>1. row2.nextTo = low /\ row2.clampedAt = id[2] + 1 /\ row2.done
          /\ row2.targetFrom = row.targetFrom
      BY <1>10, <2>1, <2>6, <2>9 DEF BackfillRow
    <3>2. low \in Int /\ low <= row.nextTo /\ low <= n /\ row.targetFrom <= low
          /\ (low = row.nextTo \/ low = n) /\ low <= cur + Margin
      BY <1>2, <2>1, <2>4, <2>9, MarginAssumption
    <3>3. \A l \in Ledgers : low < l /\ l <= cur => Has(kinds, der2, l)
      BY <1>2, <1>4, <1>8, <2>2, <2>9, <3>2
    <3>4. \A l \in Ledgers : row.targetFrom <= l /\ l <= low
                                => l \in Owed(after) \/ Has(kinds, der2, l)
      BY <1>2, <1>4, <1>7, <2>1, <3>2
    <3>5. \A l \in Ledgers : ~(id[2] + 1 <= l /\ l <= low)
      BY <1>2, <1>4, <3>2
    <3> QED BY <3>1, <3>2, <3>3, <3>4, <3>5 DEF Honest, row2, after
  <2> QED BY <2>7, <2>8, <2>9 DEF row2
<1> QED BY <1>9, <1>10

-----------------------------------------------------------------------------
(* Marks, plans and registrations.                                         *)

\* Above the watermark of an open gap an honest walk left nothing behind: what
\* is owed there would be owed by another gap, and gaps do not overlap.
LEMMA SettlesAtMark ==
    ASSUME NEW tab, SoundTable(tab), NEW id \in Open(tab), NEW row, NEW kinds, NEW der,
           NEW cur, Honest(row, kinds, der, Owed(tab), cur)
    PROVE  Settles(row, kinds, der, tab[id].healNextTo, id[2])
<1> SUFFICES ASSUME row.done, NEW l \in Ledgers, tab[id].healNextTo < l, l <= id[2],
                    row.targetFrom <= l, l <= row.nextTo, ~Has(kinds, der, l)
             PROVE  FALSE
  BY DEF Settles
<1>1. l \in Owed(tab)
  BY DEF Honest
<1>2. PICK g \in Open(tab) : l \in Remainder(tab, g)
  BY <1>1 DEF Owed
<1>3. l \in Span(g)
  BY <1>2, RemainderInSpan
<1>4. id \in GapId /\ tab[id].healNextTo \in Span(id)
  BY DEF Open, SoundTable, IsGapTable, WatermarkInRange
<1>5. id[1] \in Int /\ id[2] \in Int /\ tab[id].healNextTo \in Int
      /\ id[1] <= tab[id].healNextTo /\ l \in Int
  BY <1>4, GapIdPair DEF Ledgers, Span
<1>6. l \in Span(id) /\ l \notin Remainder(tab, id)
  BY <1>5 DEF Span, Remainder
<1> QED BY <1>2, <1>3, <1>6 DEF SoundTable, OpenGapsDisjoint

\* What is settled stays settled when more is derived and the frontier moves down.
LEMMA SettlesKept ==
    ASSUME NEW row \in BackfillRow, NEW row2 \in BackfillRow, NEW kinds, NEW der, NEW der2,
           NEW lo, NEW hi, Grows(kinds, der, der2), Settles(row, kinds, der, lo, hi),
           row2.targetFrom = row.targetFrom,
           row2.done => row.done /\ row2.nextTo <= row.nextTo
    PROVE  Settles(row2, kinds, der2, lo, hi)
<1>1. row.nextTo \in Int /\ row2.nextTo \in Int /\ \A l \in Ledgers : l \in Int
  BY DEF BackfillRow, Frontier, Ledgers
<1> QED BY <1>1 DEF Settles, Has, Grows

\* A finished walk that left nothing behind is settled everywhere.
LEMMA SettlesEmpty ==
    ASSUME NEW row \in BackfillRow, NEW kinds, NEW der, NEW lo, NEW hi,
           row.done => row.nextTo < row.targetFrom
    PROVE  Settles(row, kinds, der, lo, hi)
<1>1. row.nextTo \in Int /\ row.targetFrom \in Int /\ \A l \in Ledgers : l \in Int
  BY DEF BackfillRow, Frontier, Ledgers
<1> QED BY <1>1 DEF Settles

\* A plan that drops no promise keeps every walk honest: the clamp it re-points
\* moves down over the part of its gap that was healed.
LEMMA HonestPlan ==
    ASSUME SoundTable(gaps), NEW wanted, ~PlanHitsResolved(gaps, wanted),
           NEW row \in BackfillRow, NEW kinds, NEW der, NEW cur,
           Honest(row, kinds, der, Owed(gaps), cur)
    PROVE  Honest(RepointClamp(row, wanted), kinds, der,
                  Owed(PlanHealRows(gaps, wanted)), cur)
<1> DEFINE walls == {id \in SplitGaps(gaps, wanted) : id[2] + 1 = row.clampedAt}
           tops == {gaps[id].healNextTo + 1 : id \in walls}
           row2 == RepointClamp(row, wanted)
<1>1. Owed(PlanHealRows(gaps, wanted)) = Owed(gaps)
  BY PlanHealOwes
<1>2. CASE walls = {}
  <2>1. row2 = row
    BY <1>2 DEF RepointClamp, BackfillRow
  <2> QED BY <1>1, <2>1
<1>3. CASE walls # {}
  <2>1. walls \subseteq Open(gaps) /\ Open(gaps) \subseteq GapId
        /\ \A id \in walls : gaps[id].healNextTo \in 0..MaxLedger
    BY DEF SplitGaps, Open, SoundTable, IsGapTable, GapRow
  <2>2. tops \in SUBSET (0..(MaxLedger + 1)) /\ tops # {} /\ MaxLedger + 1 \in Nat
    BY <1>3, <2>1, MaxLedgerAssumption
  <2>3. Max(tops) \in tops
    <3> HIDE DEF tops
    <3> QED BY <2>2, MaxBounded
  <2>4. PICK id \in walls : Max(tops) = gaps[id].healNextTo + 1
    BY <2>3
  <2>5. id \in Open(gaps) /\ id[2] \in Int /\ id[2] >= 1 /\ gaps[id].healNextTo \in Nat
        /\ row.clampedAt = id[2] + 1
    BY <2>1, GapIdPair DEF Ledgers
  <2>6. row2 = [row EXCEPT !.clampedAt = gaps[id].healNextTo + 1]
    BY <1>3, <2>4 DEF RepointClamp
  <2> HIDE DEF row2, tops, walls
  <2>7. /\ row2.targetFrom = row.targetFrom /\ row2.nextTo = row.nextTo
        /\ row2.done = row.done /\ row2.clampedAt = gaps[id].healNextTo + 1
    BY <2>6 DEF BackfillRow
  <2>8. row.done /\ row.targetFrom <= row.nextTo
    BY <2>5 DEF Honest
  <2>9. Settles(row, kinds, der, gaps[id].healNextTo, id[2])
    BY <2>5, SettlesAtMark
  <2>10. \A l \in Ledgers : gaps[id].healNextTo + 1 <= l /\ row.targetFrom <= l
                               /\ l <= row.nextTo => Has(kinds, der, l)
    <3>1. \A l \in Ledgers : l \in Int
      BY DEF Ledgers
    <3> QED BY <2>5, <2>8, <2>9, <3>1 DEF Honest, Settles
  <2>11. Honest(row2, kinds, der, Owed(gaps), cur)
    BY <2>7, <2>8, <2>10 DEF Honest
  <2> QED BY <1>1, <2>11 DEF row2
<1> QED BY <1>2, <1>3

\* A new walk is honest when what lies above its anchor was derived.
LEMMA HonestNew ==
    ASSUME NEW target \in Ledgers, NEW nextTo \in Frontier, NEW kinds, NEW der, NEW owed,
           NEW cur \in Nat, nextTo <= cur + Margin,
           \A k \in kinds : (nextTo + 1)..cur \subseteq der[k]
    PROVE  LET row == NewBackfill(target, nextTo, kinds)
           IN Honest(row, kinds, der, owed, cur) /\ row.covered = kinds
<1> DEFINE row == NewBackfill(target, nextTo, kinds)
           born == nextTo < target
<1>1. /\ row.targetFrom = target /\ row.nextTo = nextTo /\ row.done = born
      /\ row.clampedAt = 0 /\ row.covered = kinds
  <2>1. row = [targetFrom |-> target, nextTo |-> nextTo, done |-> born,
               clampedAt |-> 0, covered |-> kinds]
    BY DEF NewBackfill
  <2> HIDE DEF born, row
  <2> QED BY <2>1
<1>2. nextTo \in Int /\ target \in Int /\ \A l \in Ledgers : l \in Int
  BY DEF Frontier, Ledgers
<1>3. \A l \in Ledgers : nextTo < l /\ l <= cur => Has(kinds, der, l)
  BY <1>2 DEF Has
<1>4. \A l \in Ledgers : born /\ target <= l => ~(l <= nextTo)
  BY <1>2
<1> HIDE DEF row, born
<1>5. Honest(row, kinds, der, owed, cur)
  BY <1>1, <1>3, <1>4 DEF Honest
<1> QED BY <1>1, <1>5 DEF row

\* A walk that gains no kind claims no more than before, whatever its target.
LEMMA HonestReconciled ==
    ASSUME NEW row \in BackfillRow, NEW target, NEW nextTo, NEW kinds, NEW der, NEW owed,
           NEW cur, kinds \subseteq row.covered, Honest(row, kinds, der, owed, cur)
    PROVE  LET row2 == Reconciled(row, target, nextTo, kinds)
           IN /\ Honest(row2, kinds, der, owed, cur) /\ row2.covered = kinds
              /\ row2.nextTo = row.nextTo
<1> DEFINE row2 == Reconciled(row, target, nextTo, kinds)
           extends == target < row.targetFrom
<1>1. CASE extends
  <2>1. /\ row2.nextTo = row.nextTo /\ row2.done = FALSE /\ row2.clampedAt = 0
        /\ row2.covered = kinds
    BY <1>1 DEF Reconciled
  <2> HIDE DEF row2
  <2> QED BY <2>1 DEF Honest, row2
<1>2. CASE ~extends
  <2>1. row2 = [row EXCEPT !.covered = @ \cap kinds]
    BY <1>2 DEF Reconciled
  <2>2. row.covered \cap kinds = kinds
    OBVIOUS
  <2>3. /\ row2.nextTo = row.nextTo /\ row2.done = row.done
        /\ row2.clampedAt = row.clampedAt /\ row2.targetFrom = row.targetFrom
        /\ row2.covered = kinds
    BY <2>1, <2>2 DEF BackfillRow
  <2> HIDE DEF row2
  <2> QED BY <2>3 DEF Honest, row2
<1> QED BY <1>1, <1>2

-----------------------------------------------------------------------------
(* The whole process.  What the actors keep between two transactions has   *)
(* to agree with the tables for the transactions to do as above.           *)

\* The kinds for which a walk lets the API vouch.
Claims(c) == contracts[c] \cap backfill[c].covered

Serving == req.pc \in {"upserted", "anchored"}

Sees(c, k) == c \in DOMAIN snap /\ k \in snap[c]

\* Nothing is registered before the first live ledger.
BeforeFirstLedger ==
    cursor = 0 => DOMAIN contracts = {} /\ DOMAIN backfill = {} /\ req.pc = "idle"

\* Requests are served while no chunk is worked on, the loop sees what is
\* registered once a request is over, and no gap is healed under a clamp.
Discipline ==
    /\ ~WorkersIdle => req.pc = "idle"
    /\ req.pc = "idle" => snap = contracts
    /\ Clamping => Healing = {}

\* Every registration has its walk, for the kinds registered, but for the one
\* that is being served.
WalksMatch ==
    /\ DOMAIN backfill \subseteq DOMAIN contracts
    /\ \A c \in DOMAIN contracts : ~(Serving /\ c = req.c) =>
          c \in DOMAIN backfill /\ backfill[c].covered = contracts[c]
    /\ Serving => req.c \in DOMAIN contracts /\ contracts[req.c] = req.kinds

\* A claim the loop does not see yet lies ahead of what it can commit before
\* it does: this is what the anchor's margin is for.
StaleOnlyAhead ==
    \A c \in DOMAIN backfill : \A k \in Claims(c) : ~Sees(c, k) =>
       req.pc = "reload" /\ cursor + MaxStale - unseen <= backfill[c].nextTo

\* The anchor a request carries still is a place to start a walk from.
AnchorAhead ==
    req.pc = "anchored" =>
       /\ req.anchor <= cursor + Margin
       /\ req.c \in DOMAIN backfill => backfill[req.c].nextTo <= req.anchor
       /\ \A k \in req.kinds :
             /\ (req.anchor + 1)..cursor \subseteq derived[req.c][k]
             /\ ~Sees(req.c, k) => cursor + MaxStale - unseen <= req.anchor

\* The jobs a round has before it are the walks as they are.
RoundAgrees ==
    round.pc # "idle" => \A c \in round.left :
       /\ c \in DOMAIN backfill /\ c \in DOMAIN contracts
       /\ ~backfill[c].done
       /\ round.jobs[c].targetFrom = backfill[c].targetFrom
       /\ round.jobs[c].nextTo = backfill[c].nextTo
       /\ round.jobs[c].kinds = contracts[c]

\* The chunk in hand reaches each walk of the group, what was scanned is what
\* each asked for, and a group being clamped has its gap on record or still to
\* be recorded.
GroupAgrees ==
    /\ round.pc \in {"clamp", "above", "commit"} => \A c \in round.group :
          /\ round.jobs[c].targetFrom <= round.from
          /\ round.from <= round.jobs[c].nextTo
          /\ round.jobs[c].nextTo <= round.to
          /\ round.pc = "commit" /\ round.wall <= round.to =>
                c \in DOMAIN round.res /\ round.res[c] = round.jobs[c].kinds
    /\ Clamping => /\ round.from < round.wall
                   /\ \A c \in round.group :
                         \/ round.jobs[c].targetFrom \in round.targets
                         \/ round.jobs[c].targetFrom..(round.wall - 1) \subseteq Owed(gaps)
    /\ Clamping /\ round.pc # "clamp" => round.targets = {}

\* No walk left anything underived between a watermark and the top of its gap.
Settled(id, to) ==
    \A c \in DOMAIN backfill : Settles(backfill[c], Claims(c), derived[c], to, id[2])

\* A worker's copy of a gap row may be stale, but only above it is settled, and
\* the snapshot it extracts against is the current one.
WorkerHonest(w) ==
    /\ healer[w].pc = "listed" =>
          \A id \in DOMAIN healer[w].listed : Settled(id, healer[w].listed[id])
    /\ healer[w].pc = "replay" =>
          healer[w].watch = snap /\ Settled(healer[w].gap, healer[w].to)

WorkersHonest == \A w \in Workers : WorkerHonest(w)

RowsHonest ==
    \A c \in DOMAIN backfill :
       Honest(backfill[c], Claims(c), derived[c], Owed(gaps), cursor)

Agrees ==
    /\ BeforeFirstLedger /\ Discipline /\ WalksMatch /\ StaleOnlyAhead /\ AnchorAhead
    /\ RoundAgrees /\ GroupAgrees /\ WorkersHonest /\ RowsHonest

CoverageInv == IndInv /\ Agrees

-----------------------------------------------------------------------------
(* Facts shared by the actions.                                            *)

\* The types of the tables, unfolded.
LEMMA Tables ==
    ASSUME IndInv
    PROVE  /\ cursor \in 0..MaxLedger /\ unseen \in Nat
           /\ DOMAIN contracts \subseteq Contracts /\ DOMAIN backfill \subseteq Contracts
           /\ \A c \in DOMAIN contracts : contracts[c] \in SUBSET Kinds
           /\ \A c \in DOMAIN backfill : backfill[c] \in BackfillRow
           /\ backfill = [c \in DOMAIN backfill |-> backfill[c]]
           /\ contracts = [c \in DOMAIN contracts |-> contracts[c]]
           /\ SoundTable(gaps)
           /\ derived \in [Contracts -> [Kinds -> SUBSET Ledgers]]
<1>1. StoreInv /\ unseen \in Nat
  BY IndInvParts
<1>2. \A c \in DOMAIN contracts : contracts[c] \in KindSet
  BY <1>1 DEF StoreInv, StoreTypeOK, IsWatch
<1> QED
  BY <1>1, <1>2 DEF StoreInv, StoreTypeOK, IsWatch, IsBackfillTable, KindSet

\* The same of the next state.
LEMMA TablesNext ==
    ASSUME IndInv'
    PROVE  /\ cursor' \in 0..MaxLedger /\ DOMAIN backfill' \subseteq Contracts
           /\ \A c \in DOMAIN backfill' : backfill'[c] \in BackfillRow
<1>1. StoreTypeOK'
  BY DEF IndInv, TypeOK
<1> QED BY <1>1 DEF StoreTypeOK, IsBackfillTable

\* Deriving adds the range for whoever is watched and takes nothing away.
LEMMA DeriveGrows ==
    ASSUME IndInv, NEW watch, NEW range, Derive(watch, range), NEW c \in Contracts
    PROVE  /\ \A kinds \in SUBSET Kinds : Grows(kinds, derived[c], derived'[c])
           /\ c \in DOMAIN watch =>
                 \A k \in watch[c] \cap Kinds : range \subseteq derived'[c][k]
  BY Tables DEF Derive, Grows

\* Nothing is asked of workers that are idle.
LEMMA IdleAgrees ==
    ASSUME WorkersIdle
    PROVE  RoundAgrees /\ GroupAgrees /\ WorkersHonest /\ ~Clamping /\ Healing = {}
  BY DEF WorkersIdle, RoundAgrees, GroupAgrees, WorkersHonest, WorkerHonest, Clamping, Healing

\* The same of the next state.
LEMMA IdleAgreesNext ==
    ASSUME WorkersIdle'
    PROVE  RoundAgrees' /\ GroupAgrees' /\ WorkersHonest' /\ ~Clamping' /\ Healing' = {}
  BY DEF WorkersIdle, RoundAgrees, GroupAgrees, WorkersHonest, WorkerHonest, Clamping, Healing

\* A worker takes a step only while no request is served.
LEMMA NoRequestUnderWork ==
    ASSUME Quiet, CoverageInv, Backfill \/ Heal
    PROVE  req.pc = "idle" /\ snap = contracts /\ UNCHANGED <<snap, req>>
<1>1. ~WorkersIdle => req.pc = "idle"
  BY DEF CoverageInv, Agrees, Discipline
<1>2. Backfill => req.pc = "idle" /\ UNCHANGED <<snap, req>>
  BY <1>1 DEF Quiet, Backfill, NoRequestBeingServed, Permits, WorkersIdle
<1>3. Heal => req.pc = "idle" /\ UNCHANGED <<snap, req>>
  BY <1>1 DEF Quiet, Heal, NoRequestBeingServed, Permits, WorkersIdle, HealerNext, work,
     ListOpenGaps, claim, NothingToClaim, healChunk, healChunkFails
<1> QED BY <1>2, <1>3 DEF CoverageInv, Agrees, Discipline

\* A step of a worker leaves the registrations alone and what each walk claims.
LEMMA WorkerAgrees ==
    ASSUME CoverageInv, req.pc = "idle", snap = contracts,
           UNCHANGED <<cursor, contracts, snap, req>>, DOMAIN backfill' = DOMAIN backfill,
           \A c \in DOMAIN backfill : backfill'[c].covered = backfill[c].covered
    PROVE  /\ BeforeFirstLedger' /\ WalksMatch' /\ StaleOnlyAhead' /\ AnchorAhead'
           /\ (~WorkersIdle)' => (req.pc = "idle")'
           /\ (req.pc = "idle")' => (snap = contracts)'
           /\ \A c \in DOMAIN backfill : Claims(c)' = Claims(c)
<1>1. BeforeFirstLedger'
  BY DEF CoverageInv, Agrees, BeforeFirstLedger
<1>2. WalksMatch'
  BY DEF CoverageInv, Agrees, WalksMatch, Serving
<1>3. StaleOnlyAhead'
  BY DEF CoverageInv, Agrees, StaleOnlyAhead, WalksMatch, Claims, Sees
<1>4. AnchorAhead'
  BY DEF AnchorAhead
<1> QED BY <1>1, <1>2, <1>3, <1>4 DEF Claims

\* Nothing that the agreement is about has moved.
LEMMA UnmovedAgrees ==
    ASSUME CoverageInv, UNCHANGED <<storeVars, round, snap, healer, req, unseen>>
    PROVE  Agrees'
<1>1. UNCHANGED <<cursor, contracts, backfill, gaps, derived>>
  BY DEF storeVars
<1>2. BeforeFirstLedger' /\ Discipline' /\ WalksMatch'
  BY <1>1 DEF CoverageInv, Agrees, BeforeFirstLedger, Discipline, WalksMatch, Serving,
     WorkersIdle, Clamping, Healing
<1>3. StaleOnlyAhead' /\ AnchorAhead'
  BY <1>1 DEF CoverageInv, Agrees, StaleOnlyAhead, AnchorAhead, Claims, Sees
<1>4. RoundAgrees' /\ GroupAgrees'
  BY <1>1 DEF CoverageInv, Agrees, RoundAgrees, GroupAgrees, Clamping
<1>5. WorkersHonest'
  BY <1>1 DEF CoverageInv, Agrees, WorkersHonest, WorkerHonest, Settled, Claims
<1>6. RowsHonest'
  BY <1>1 DEF CoverageInv, Agrees, RowsHonest, Claims
<1> QED BY <1>2, <1>3, <1>4, <1>5, <1>6 DEF Agrees

-----------------------------------------------------------------------------
(* The live loop.                                                          *)

\* What was settled stays so when a ledger is derived.
LEMMA LiveWorkers ==
    ASSUME CoverageInv, NEW seq, Derive(snap, {seq}),
           UNCHANGED <<contracts, backfill, snap, healer>>
    PROVE  WorkersHonest'
<1>1. ASSUME NEW id, NEW to, Settled(id, to)
      PROVE  Settled(id, to)'
  <2> SUFFICES ASSUME NEW c \in DOMAIN backfill
               PROVE  Settles(backfill[c], Claims(c), derived'[c], to, id[2])
    BY DEF Settled, Claims
  <2>1. backfill[c] \in BackfillRow /\ c \in Contracts
    BY Tables DEF CoverageInv
  <2>2. Claims(c) \in SUBSET Kinds
    BY <2>1 DEF Claims, BackfillRow
  <2>3. Grows(Claims(c), derived[c], derived'[c])
    BY <2>1, <2>2, DeriveGrows DEF CoverageInv
  <2>4. Settles(backfill[c], Claims(c), derived[c], to, id[2])
    BY <1>1 DEF Settled
  <2>5. backfill[c].done => backfill[c].done /\ backfill[c].nextTo <= backfill[c].nextTo
    BY <2>1 DEF BackfillRow, Frontier
  <2> QED BY <2>1, <2>3, <2>4, <2>5, SettlesKept
<1> QED BY <1>1 DEF CoverageInv, Agrees, WorkersHonest, WorkerHonest

\* The first ledger of a fresh database: nobody is registered yet.
LEMMA LiveFirstAgrees ==
    ASSUME CoverageInv, LiveFirst
    PROVE  Agrees'
<1>1. PICK start \in wall..tip : CommitLedger(start, snap)
  BY DEF LiveFirst
<1>2. DOMAIN contracts = {} /\ DOMAIN backfill = {} /\ req.pc = "idle" /\ cursor = 0
  BY DEF LiveFirst, CoverageInv, Agrees, BeforeFirstLedger
<1>3. start \in Int /\ start >= 1
  BY IndInvParts DEF CoverageInv, BackfillerTypeOK, Ledgers
<1>4. cursor' = start
  <2>1. Max({0, start}) = IF 0 >= start THEN 0 ELSE start
    BY <1>3, MaxPair
  <2> QED BY <1>1, <1>2, <1>3, <2>1 DEF CommitLedger
<1>5. UNCHANGED <<contracts, backfill, gaps, unseen, round, snap, healer, req>>
      /\ Derive(snap, {start})
  BY <1>1 DEF LiveFirst, CommitLedger
<1>6. BeforeFirstLedger' /\ Discipline' /\ WalksMatch'
  BY <1>3, <1>4, <1>5 DEF CoverageInv, Agrees, BeforeFirstLedger, Discipline, WalksMatch,
     Serving, WorkersIdle, Clamping, Healing
<1>7. StaleOnlyAhead' /\ AnchorAhead' /\ RowsHonest'
  BY <1>2, <1>5 DEF StaleOnlyAhead, AnchorAhead, RowsHonest
<1>8. RoundAgrees' /\ GroupAgrees'
  BY <1>5 DEF CoverageInv, Agrees, RoundAgrees, GroupAgrees, Clamping
<1>9. WorkersHonest'
  BY <1>5, LiveWorkers
<1> QED BY <1>6, <1>7, <1>8, <1>9 DEF Agrees

\* The next ledger: whoever does not see a claim still has it before him.
LEMMA LiveNextAgrees ==
    ASSUME Quiet, CoverageInv, LiveNext
    PROVE  Agrees'
<1>1. /\ cursor \in Nat /\ cursor > 0 /\ unseen \in Nat /\ MaxStale \in Nat /\ Margin \in Nat
      /\ CommitLedger(cursor + 1, snap)
      /\ snap = contracts \/ unseen < MaxStale
      /\ unseen' = IF snap = contracts THEN 0 ELSE unseen + 1
      /\ UNCHANGED <<contracts, backfill, gaps, round, snap, healer, req>>
  BY Tables, IndexerAssumption, MarginAssumption DEF LiveNext, CommitLedger, CoverageInv
<1>2. cursor' = cursor + 1 /\ Derive(snap, {cursor + 1})
  <2>1. Max({cursor, cursor + 1}) = IF cursor >= cursor + 1 THEN cursor ELSE cursor + 1
    BY <1>1, MaxPair
  <2> QED BY <1>1, <2>1 DEF CommitLedger
<1>3. \A c \in DOMAIN backfill :
         /\ c \in Contracts /\ backfill[c] \in BackfillRow /\ backfill[c].nextTo \in Int
         /\ c \in DOMAIN contracts /\ Claims(c) \in SUBSET Kinds /\ Claims(c) \subseteq contracts[c]
  BY Tables DEF CoverageInv, Agrees, WalksMatch, BackfillRow, Frontier, Claims
<1>4. BeforeFirstLedger' /\ Discipline' /\ WalksMatch'
  BY <1>1, <1>2 DEF CoverageInv, Agrees, BeforeFirstLedger, Discipline, WalksMatch, Serving,
     WorkersIdle, Clamping, Healing
<1>5. StaleOnlyAhead'
  <2> SUFFICES ASSUME NEW c \in DOMAIN backfill, NEW k \in Claims(c), ~Sees(c, k)
               PROVE  req.pc = "reload" /\ cursor' + MaxStale - unseen' <= backfill[c].nextTo
    BY <1>1 DEF StaleOnlyAhead, Claims, Sees
  <2>1. snap # contracts
    BY <1>3 DEF Sees
  <2>2. req.pc = "reload" /\ cursor + MaxStale - unseen <= backfill[c].nextTo
    BY DEF CoverageInv, Agrees, StaleOnlyAhead
  <2>3. cursor' + MaxStale - unseen' = cursor + MaxStale - unseen
    BY <1>1, <1>2, <2>1
  <2> QED BY <2>2, <2>3
<1>6. AnchorAhead'
  <2> SUFFICES ASSUME req.pc = "anchored" PROVE AnchorAhead'
    BY <1>1 DEF AnchorAhead
  <2>1. /\ req.c \in Contracts /\ req.kinds \in SUBSET Kinds /\ req.anchor \in Int
        /\ req.c \in DOMAIN contracts /\ contracts[req.c] = req.kinds
    BY IndInvParts DEF CoverageInv, Agrees, WalksMatch, Serving, AdminTypeOK, Frontier
  <2>2. /\ req.anchor <= cursor' + Margin
        /\ req.c \in DOMAIN backfill => backfill[req.c].nextTo <= req.anchor
    BY <1>1, <1>2, <2>1 DEF CoverageInv, Agrees, AnchorAhead
  <2>3. ASSUME NEW k \in req.kinds
        PROVE  /\ (req.anchor + 1)..cursor' \subseteq derived'[req.c][k]
               /\ ~Sees(req.c, k) => cursor' + MaxStale - unseen' <= req.anchor
    <3>1. /\ (req.anchor + 1)..cursor \subseteq derived[req.c][k]
          /\ ~Sees(req.c, k) => cursor + MaxStale - unseen <= req.anchor
      BY DEF CoverageInv, Agrees, AnchorAhead
    <3>2. derived[req.c][k] \subseteq derived'[req.c][k]
      BY <1>2, <2>1, DeriveGrows DEF CoverageInv, Grows
    <3>3. Sees(req.c, k) => cursor + 1 \in derived'[req.c][k]
      BY <1>2, <2>1, DeriveGrows DEF CoverageInv, Sees
    <3>4. ~Sees(req.c, k) => snap # contracts
      BY <2>1 DEF Sees
    <3>5. ~Sees(req.c, k) => cursor' + MaxStale - unseen' <= req.anchor /\ cursor + 1 <= req.anchor
      BY <1>1, <1>2, <2>1, <3>1, <3>4
    <3>6. (req.anchor + 1)..cursor' \subseteq derived'[req.c][k]
      BY <1>1, <1>2, <2>1, <3>1, <3>2, <3>3, <3>5
    <3> QED BY <3>5, <3>6
  <2> QED BY <1>1, <2>2, <2>3 DEF AnchorAhead, Sees
<1>7. RoundAgrees' /\ GroupAgrees'
  BY <1>1 DEF CoverageInv, Agrees, RoundAgrees, GroupAgrees, Clamping
<1>8. WorkersHonest'
  BY <1>1, <1>2, LiveWorkers
<1>9. RowsHonest'
  <2> SUFFICES ASSUME NEW c \in DOMAIN backfill
               PROVE  Honest(backfill[c], Claims(c), derived'[c], Owed(gaps), cursor + 1)
    BY <1>1, <1>2 DEF RowsHonest, Claims
  <2>1. Honest(backfill[c], Claims(c), derived[c], Owed(gaps), cursor)
    BY DEF CoverageInv, Agrees, RowsHonest
  <2>2. Grows(Claims(c), derived[c], derived'[c])
    BY <1>2, <1>3, DeriveGrows DEF CoverageInv
  <2>3. CASE \A k \in Claims(c) : Sees(c, k)
    <3>1. \A k \in Claims(c) : cursor + 1 \in derived'[c][k]
      BY <1>2, <1>3, <2>3, DeriveGrows DEF CoverageInv, Sees
    <3>2. Has(Claims(c), derived'[c], cursor + 1)
      BY <3>1 DEF Has
    <3> QED BY <1>1, <1>3, <2>1, <2>2, <3>2, HonestLive
  <2>4. ASSUME NEW k \in Claims(c), ~Sees(c, k)
        PROVE  cursor + 1 <= backfill[c].nextTo
    <3>1. cursor + MaxStale - unseen <= backfill[c].nextTo
      BY <2>4 DEF CoverageInv, Agrees, StaleOnlyAhead
    <3>2. snap # contracts
      BY <1>3, <2>4 DEF Sees
    <3> QED BY <1>1, <1>3, <3>1, <3>2
  <2> QED BY <1>1, <1>3, <2>1, <2>2, <2>3, <2>4, HonestLive
<1> QED BY <1>4, <1>5, <1>6, <1>7, <1>8, <1>9 DEF Agrees

-----------------------------------------------------------------------------
(* Requests, reloads and crashes: the workers are idle.                    *)

\* An honest row stays so when nothing new is claimed.
LEMMA HonestFewer ==
    ASSUME NEW row, NEW kinds, NEW kinds2 \in SUBSET kinds, NEW der, NEW owed, NEW owed2,
           owed \subseteq owed2, NEW cur, Honest(row, kinds, der, owed, cur)
    PROVE  Honest(row, kinds2, der, owed2, cur)
<1>1. Grows(kinds, der, der)
  BY DEF Grows
<1> QED BY <1>1, HonestKept

\* What is left to show of a step that ends with the workers idle.
LEMMA IdleStepAgrees ==
    ASSUME WorkersIdle', BeforeFirstLedger', WalksMatch', StaleOnlyAhead', AnchorAhead',
           RowsHonest', (req.pc = "idle")' => (snap = contracts)'
    PROVE  Agrees'
<1>1. RoundAgrees' /\ GroupAgrees' /\ WorkersHonest' /\ ~Clamping'
  BY IdleAgreesNext
<1>2. Discipline'
  BY <1>1 DEF Discipline
<1> QED BY <1>1, <1>2 DEF Agrees

\* After a reload the loop sees every claim.
LEMMA ReloadAgrees ==
    ASSUME CoverageInv, Reload
    PROVE  Agrees'
<1>1. /\ UNCHANGED <<cursor, contracts, backfill, gaps, derived, round, healer>>
      /\ snap' = contracts /\ unseen' = 0
      /\ req' = IF req.pc = "reload" THEN NoRequest ELSE req
      /\ snap # contracts \/ req.pc = "reload"
  BY DEF Reload, storeVars
<1>2. WorkersIdle'
  BY <1>1 DEF CoverageInv, Agrees, Discipline, WorkersIdle
<1>3. NoRequest.pc = "idle"
  BY DEF NoRequest
<1>4. BeforeFirstLedger'
  BY <1>1, <1>3 DEF CoverageInv, Agrees, BeforeFirstLedger
<1>5. WalksMatch'
  BY <1>1, <1>3 DEF CoverageInv, Agrees, WalksMatch, Serving
<1>6. StaleOnlyAhead'
  BY <1>1 DEF CoverageInv, Agrees, WalksMatch, StaleOnlyAhead, Claims, Sees
<1>7. AnchorAhead'
  <2> SUFFICES ASSUME (req.pc = "anchored")' PROVE AnchorAhead'
    BY DEF AnchorAhead
  <2>1. req' = req /\ req.pc = "anchored"
    BY <1>1, <1>3
  <2>2. req.c \in DOMAIN contracts /\ contracts[req.c] = req.kinds
    BY <2>1 DEF CoverageInv, Agrees, WalksMatch, Serving
  <2> QED BY <1>1, <2>1, <2>2 DEF CoverageInv, Agrees, AnchorAhead, Sees
<1>8. RowsHonest'
  BY <1>1 DEF CoverageInv, Agrees, RowsHonest, Claims
<1> QED BY <1>1, <1>2, <1>4, <1>5, <1>6, <1>7, <1>8, IdleStepAgrees

\* A crash leaves the tables, and a request never dies half done.
LEMMA CrashAgrees ==
    ASSUME Quiet, CoverageInv, Crash
    PROVE  Agrees'
<1>1. /\ UNCHANGED <<cursor, contracts, backfill, gaps, derived>>
      /\ snap' = contracts /\ unseen' = 0 /\ req' = NoRequest
      /\ round' = NoRound /\ healer' = [w \in Workers |-> IdleWorker]
      /\ req.pc \in {"idle", "reload"}
  BY DEF Crash, storeVars, Quiet, Permits
<1>2. WorkersIdle'
  BY <1>1 DEF WorkersIdle, NoRound, IdleWorker
<1>3. req'.pc = "idle"
  BY <1>1 DEF NoRequest
<1>4. BeforeFirstLedger'
  BY <1>1, <1>3 DEF CoverageInv, Agrees, BeforeFirstLedger
<1>5. WalksMatch'
  BY <1>1, <1>3 DEF CoverageInv, Agrees, WalksMatch, Serving
<1>6. StaleOnlyAhead'
  BY <1>1 DEF CoverageInv, Agrees, WalksMatch, StaleOnlyAhead, Claims, Sees
<1>7. AnchorAhead'
  BY <1>3 DEF AnchorAhead
<1>8. RowsHonest'
  BY <1>1 DEF CoverageInv, Agrees, RowsHonest, Claims
<1> QED BY <1>1, <1>2, <1>4, <1>5, <1>6, <1>7, <1>8, IdleStepAgrees

\* A registration's first call: the kinds change, the walk does not yet.
LEMMA RegisterAgrees ==
    ASSUME Quiet, CoverageInv, Register
    PROVE  Agrees'
<1>1. PICK c \in Contracts, target \in Ledgers, kinds \in KindSet :
         RegisterContract(c, target, kinds)
  BY TargetsAssumption DEF Register
<1>2. /\ contracts' = [d \in DOMAIN contracts \cup {c} |->
                         IF d = c THEN kinds ELSE contracts[d]]
      /\ req' = [pc |-> "upserted", c |-> c, target |-> target, kinds |-> kinds, anchor |-> 0]
      /\ UNCHANGED <<cursor, backfill, gaps, derived, round, snap, healer, unseen>>
      /\ req.pc = "idle" /\ cursor # 0 /\ WorkersIdle
  BY <1>1, Tables DEF RegisterContract, UpsertContract, Register, Quiet, Permits, MayMutate,
     CoverageInv
<1>3. snap = contracts
  BY <1>2 DEF CoverageInv, Agrees, Discipline
<1>4. \A d \in DOMAIN backfill : d \in DOMAIN contracts /\ backfill[d].covered = contracts[d]
  BY <1>2 DEF CoverageInv, Agrees, WalksMatch, Serving
<1>5. WorkersIdle'
  BY <1>2 DEF WorkersIdle
<1>6. BeforeFirstLedger'
  BY <1>2 DEF BeforeFirstLedger
<1>7. WalksMatch'
  BY <1>2 DEF CoverageInv, Agrees, WalksMatch, Serving
<1>8. \A d \in DOMAIN backfill : Claims(d)' \subseteq Claims(d)
  BY <1>2, <1>4 DEF Claims
<1>9. StaleOnlyAhead'
  BY <1>2, <1>3, <1>4, <1>8 DEF StaleOnlyAhead, Claims, Sees
<1>10. AnchorAhead' /\ (req.pc # "idle")'
  BY <1>2 DEF AnchorAhead
<1>11. RowsHonest'
  <2> SUFFICES ASSUME NEW d \in DOMAIN backfill
               PROVE  Honest(backfill[d], Claims(d)', derived[d], Owed(gaps), cursor)
    BY <1>2 DEF RowsHonest
  <2>1. Honest(backfill[d], Claims(d), derived[d], Owed(gaps), cursor)
    BY DEF CoverageInv, Agrees, RowsHonest
  <2> QED BY <1>8, <2>1, HonestFewer
<1> QED BY <1>5, <1>6, <1>7, <1>9, <1>10, <1>11, IdleStepAgrees

\* The second call reads the cursor: the walk is anchored past whatever the
\* loop commits before it sees the registration.
LEMMA AnchorWalkAgrees ==
    ASSUME Quiet, CoverageInv, AnchorWalk, UNCHANGED <<round, snap, healer, unseen>>
    PROVE  Agrees'
<1>1. /\ UNCHANGED <<cursor, contracts, backfill, gaps, derived>>
      /\ req.pc = "upserted" /\ req' = [req EXCEPT !.pc = "anchored", !.anchor = AnchorAt]
  BY DEF AnchorWalk, storeVars
<1>2. /\ cursor \in Nat /\ cursor # 0 /\ unseen \in Nat /\ Margin \in Nat /\ MaxStale \in Nat
      /\ MaxStale <= Margin
  BY <1>1, Tables, MarginAssumption, IndexerAssumption
  DEF CoverageInv, Agrees, BeforeFirstLedger, Quiet
<1>3. AnchorAt = cursor + Margin
  BY <1>2 DEF AnchorAt
<1>4. /\ req'.pc = "anchored" /\ req'.anchor = cursor + Margin /\ req'.c = req.c
      /\ req'.kinds = req.kinds
  BY <1>1, <1>3, IndInvParts DEF CoverageInv, AdminTypeOK
<1>5. WorkersIdle'
  BY <1>1 DEF CoverageInv, Agrees, Discipline, WorkersIdle
<1>6. BeforeFirstLedger'
  BY <1>1, <1>2 DEF BeforeFirstLedger
<1>7. WalksMatch'
  BY <1>1, <1>4 DEF CoverageInv, Agrees, WalksMatch, Serving
<1>8. StaleOnlyAhead'
  BY <1>1, <1>4 DEF CoverageInv, Agrees, StaleOnlyAhead, Claims, Sees
<1>9. AnchorAhead'
  <2>1. \A c \in DOMAIN backfill : backfill[c].nextTo <= cursor + Margin
    BY DEF CoverageInv, Agrees, RowsHonest, Honest
  <2>2. (cursor + Margin + 1)..cursor = {} /\ cursor + MaxStale - unseen <= cursor + Margin
    BY <1>2
  <2> QED BY <1>1, <1>2, <1>4, <2>1, <2>2 DEF AnchorAhead
<1>10. RowsHonest'
  BY <1>1 DEF CoverageInv, Agrees, RowsHonest, Claims
<1> QED BY <1>4, <1>5, <1>6, <1>7, <1>8, <1>9, <1>10, IdleStepAgrees

\* What the third call of a registration does to the tables, for the walk of
\* the contract and for the others.
LEMMA PlanWalkRows ==
    ASSUME CoverageInv, PlanWalk
    PROVE  /\ UNCHANGED <<cursor, contracts, derived>>
           /\ req.pc = "anchored" /\ req' = [req EXCEPT !.pc = "reload"] /\ req'.pc = "reload"
           /\ req.c \in Contracts /\ req.c \in DOMAIN contracts
           /\ contracts[req.c] = req.kinds /\ req.kinds \in SUBSET Kinds
           /\ req.anchor \in Int
           /\ DOMAIN backfill' = DOMAIN backfill \cup {req.c}
           /\ \A d \in DOMAIN backfill : d # req.c => backfill'[d] = backfill[d]
           /\ Owed(gaps) \subseteq Owed(gaps')
           /\ backfill'[req.c].covered = req.kinds
           /\ Honest(backfill'[req.c], req.kinds, derived[req.c], Owed(gaps'), cursor)
           /\ req.c \in DOMAIN backfill =>
                 /\ backfill[req.c].nextTo <= backfill'[req.c].nextTo
                 /\ ~(req.kinds \subseteq backfill[req.c].covered)
                       => backfill'[req.c].nextTo = req.anchor
           /\ req.c \notin DOMAIN backfill => backfill'[req.c].nextTo = req.anchor
<1> DEFINE c == req.c
<1>1. /\ req.pc = "anchored" /\ EnsureBackfill(c, req.target, req.anchor, req.kinds)
      /\ req' = [req EXCEPT !.pc = "reload"]
  BY DEF PlanWalk
<1>2. /\ c \in Contracts /\ req.target \in Ledgers /\ req.anchor \in Frontier
      /\ req.kinds \in SUBSET Kinds /\ req'.pc = "reload" /\ req.anchor \in Int
  BY <1>1, IndInvParts DEF CoverageInv, AdminTypeOK, Frontier
<1>3. UNCHANGED <<cursor, contracts, derived>>
  BY <1>1 DEF EnsureBackfill
<1>4. c \in DOMAIN contracts /\ contracts[c] = req.kinds
  BY <1>1 DEF CoverageInv, Agrees, WalksMatch, Serving
<1>5. /\ req.anchor <= cursor + Margin /\ cursor \in Nat
      /\ c \in DOMAIN backfill => backfill[c].nextTo <= req.anchor
      /\ \A k \in req.kinds : (req.anchor + 1)..cursor \subseteq derived[c][k]
  BY <1>1, Tables DEF CoverageInv, Agrees, AnchorAhead
<1>6. Owed(gaps) \subseteq Owed(gaps')
  <2>1. SoundTable(gaps)
    BY Tables DEF CoverageInv
  <2>2. gaps' = gaps \/ gaps' = ReopenGapsRows(gaps, req.target, req.anchor)
    BY <1>1 DEF EnsureBackfill, reopenDeferrals
  <2> QED BY <2>1, <2>2, ReopenGapsOwes
<1>7. backfill = [d \in DOMAIN backfill |-> backfill[d]]
  BY Tables DEF CoverageInv
<1>8. CASE c \in DOMAIN backfill
  <2> DEFINE row2 == Reconciled(backfill[c], req.target, req.anchor, req.kinds)
  <2>1. backfill' = [backfill EXCEPT ![c] = row2]
    BY <1>1, <1>8 DEF EnsureBackfill
  <2>2. Honest(backfill[c], req.kinds \cap backfill[c].covered, derived[c], Owed(gaps), cursor)
    BY <1>4, <1>8 DEF CoverageInv, Agrees, RowsHonest, Claims
  <2>3. backfill[c] \in BackfillRow
    BY <1>8, Tables DEF CoverageInv
  <2>4. /\ Honest(row2, req.kinds, derived[c], Owed(gaps'), cursor)
        /\ row2.covered = req.kinds /\ backfill[c].nextTo <= row2.nextTo
        /\ ~(req.kinds \subseteq backfill[c].covered) => row2.nextTo = req.anchor
    <3>1. backfill[c].nextTo \in Int /\ backfill[c].nextTo <= req.anchor
      BY <1>5, <1>8, <2>3 DEF BackfillRow, Frontier
    <3>2. CASE ~(req.kinds \subseteq backfill[c].covered)
      <4>1. /\ row2.nextTo = req.anchor /\ row2.done = FALSE /\ row2.clampedAt = 0
            /\ row2.covered = req.kinds
        BY <3>2 DEF Reconciled
      <4>2. \A l \in Ledgers : req.anchor < l /\ l <= cursor => Has(req.kinds, derived[c], l)
        BY <1>2, <1>5 DEF Has, Ledgers
      <4> HIDE DEF row2
      <4>3. Honest(row2, req.kinds, derived[c], Owed(gaps'), cursor)
        BY <1>5, <4>1, <4>2 DEF Honest
      <4> QED BY <3>1, <4>1, <4>3
    <3>3. CASE req.kinds \subseteq backfill[c].covered
      <4>1. req.kinds \cap backfill[c].covered = req.kinds
        BY <3>3
      <4>2. Honest(backfill[c], req.kinds, derived[c], Owed(gaps'), cursor)
        BY <1>6, <2>2, <4>1, HonestFewer
      <4> QED BY <2>3, <3>1, <3>3, <4>2, HonestReconciled
    <3> QED BY <3>2, <3>3
  <2> HIDE DEF row2
  <2>5. /\ DOMAIN backfill' = DOMAIN backfill /\ backfill'[c] = row2
        /\ \A d \in DOMAIN backfill : d # c => backfill'[d] = backfill[d]
    BY <1>8, <2>1
  <2> QED BY <1>1, <1>2, <1>3, <1>4, <1>6, <1>8, <2>4, <2>5
<1>9. CASE c \notin DOMAIN backfill
  <2> DEFINE row2 == NewBackfill(req.target, req.anchor, req.kinds)
  <2>1. backfill' = [d \in DOMAIN backfill \cup {c} |-> IF d = c THEN row2 ELSE backfill[d]]
    BY <1>1, <1>9 DEF EnsureBackfill
  <2>2. Honest(row2, req.kinds, derived[c], Owed(gaps'), cursor) /\ row2.covered = req.kinds
    BY <1>2, <1>5, HonestNew
  <2>3. row2.nextTo = req.anchor
    BY DEF NewBackfill
  <2> HIDE DEF row2
  <2>4. /\ DOMAIN backfill' = DOMAIN backfill \cup {c} /\ backfill'[c] = row2
        /\ \A d \in DOMAIN backfill : d # c => backfill'[d] = backfill[d]
    BY <2>1
  <2> QED BY <1>1, <1>2, <1>3, <1>4, <1>6, <1>9, <2>2, <2>3, <2>4
<1> QED BY <1>8, <1>9

\* The third call reconciles the walk; what it now claims lies ahead of the
\* loop, or was derived.
LEMMA PlanWalkAgrees ==
    ASSUME CoverageInv, PlanWalk, UNCHANGED <<round, snap, healer, unseen>>
    PROVE  Agrees'
<1> DEFINE c == req.c
<1>1. /\ UNCHANGED <<cursor, contracts, derived>>
      /\ req.pc = "anchored" /\ req'.pc = "reload" /\ c \in DOMAIN contracts
      /\ contracts[c] = req.kinds /\ DOMAIN backfill' = DOMAIN backfill \cup {c}
      /\ \A d \in DOMAIN backfill : d # c => backfill'[d] = backfill[d]
      /\ Owed(gaps) \subseteq Owed(gaps') /\ backfill'[c].covered = req.kinds
      /\ Honest(backfill'[c], req.kinds, derived[c], Owed(gaps'), cursor)
  BY PlanWalkRows
<1>2. /\ req.c \in DOMAIN backfill /\ ~(req.kinds \subseteq backfill[req.c].covered)
            => backfill'[req.c].nextTo = req.anchor
      /\ req.c \notin DOMAIN backfill => backfill'[req.c].nextTo = req.anchor
  BY PlanWalkRows
<1>3. WorkersIdle'
  BY <1>1 DEF CoverageInv, Agrees, Discipline, WorkersIdle
<1>4. BeforeFirstLedger'
  BY <1>1 DEF CoverageInv, Agrees, BeforeFirstLedger
<1>5. WalksMatch'
  <2>1. DOMAIN backfill' \subseteq DOMAIN contracts'
    BY <1>1 DEF CoverageInv, Agrees, WalksMatch
  <2>2. \A d \in DOMAIN contracts : d \in DOMAIN backfill' /\ backfill'[d].covered = contracts[d]
    BY <1>1 DEF CoverageInv, Agrees, WalksMatch, Serving
  <2> QED BY <1>1, <2>1, <2>2 DEF WalksMatch, Serving
<1>6. \A d \in DOMAIN backfill : \A k \in Claims(d) : Sees(d, k)
  BY <1>1 DEF CoverageInv, Agrees, StaleOnlyAhead
<1>7. StaleOnlyAhead'
  <2> SUFFICES ASSUME NEW d \in DOMAIN backfill', NEW k \in Claims(d)', ~Sees(d, k)
               PROVE  cursor + MaxStale - unseen <= backfill'[d].nextTo
    BY <1>1 DEF StaleOnlyAhead, Sees
  <2>1. CASE d # c
    BY <1>1, <1>6, <2>1 DEF Claims
  <2>2. CASE d = c
    <3>1. k \in req.kinds
      BY <1>1, <2>2 DEF Claims
    <3>2. cursor + MaxStale - unseen <= req.anchor
      BY <1>1, <2>2, <3>1 DEF CoverageInv, Agrees, AnchorAhead
    <3>3. ~(c \in DOMAIN backfill /\ req.kinds \subseteq backfill[c].covered)
      BY <1>1, <1>6, <2>2, <3>1 DEF Claims
    <3> QED BY <1>2, <2>2, <3>2, <3>3
  <2> QED BY <2>1, <2>2
<1>8. AnchorAhead' /\ (req.pc # "idle")'
  BY <1>1 DEF AnchorAhead
<1>9. RowsHonest'
  <2> SUFFICES ASSUME NEW d \in DOMAIN backfill'
               PROVE  Honest(backfill'[d], Claims(d)', derived[d], Owed(gaps'), cursor)
    BY <1>1 DEF RowsHonest
  <2>1. CASE d # c
    <3>1. Honest(backfill[d], Claims(d), derived[d], Owed(gaps), cursor)
      BY <1>1, <2>1 DEF CoverageInv, Agrees, RowsHonest
    <3>2. Claims(d)' = Claims(d) /\ backfill'[d] = backfill[d]
      BY <1>1, <2>1 DEF Claims
    <3> QED BY <1>1, <3>1, <3>2, HonestFewer
  <2>2. CASE d = c
    <3>1. Claims(d)' = req.kinds
      BY <1>1, <2>2 DEF Claims
    <3> QED BY <1>1, <2>2, <3>1
  <2> QED BY <2>1, <2>2
<1> QED BY <1>3, <1>4, <1>5, <1>7, <1>8, <1>9, IdleStepAgrees

\* Removing a contract takes its claims with it.
LEMMA UnregisterAgrees ==
    ASSUME Quiet, CoverageInv, Unregister
    PROVE  Agrees'
<1>1. PICK c \in Contracts : UnregisterContract(c)
  BY DEF Unregister
<1>2. /\ contracts' = [d \in DOMAIN contracts \ {c} |-> contracts[d]]
      /\ backfill' = [d \in DOMAIN backfill \ {c} |-> backfill[d]]
      /\ UNCHANGED <<cursor, gaps, derived, round, snap, healer, unseen>>
      /\ req.pc = "idle" /\ c \in DOMAIN contracts
      /\ req'.pc = "reload" /\ WorkersIdle
  BY <1>1 DEF UnregisterContract, DeleteContract, Unregister, Quiet, Permits, MayMutate, NoRequest
<1>3. snap = contracts
  BY <1>2 DEF CoverageInv, Agrees, Discipline
<1>4. WorkersIdle'
  BY <1>2 DEF WorkersIdle
<1>5. BeforeFirstLedger'
  BY <1>2 DEF CoverageInv, Agrees, BeforeFirstLedger
<1>6. WalksMatch'
  BY <1>2 DEF CoverageInv, Agrees, WalksMatch, Serving
<1>7. StaleOnlyAhead'
  BY <1>2, <1>3 DEF CoverageInv, Agrees, WalksMatch, StaleOnlyAhead, Claims, Sees
<1>8. AnchorAhead' /\ (req.pc # "idle")'
  BY <1>2 DEF AnchorAhead
<1>9. RowsHonest'
  BY <1>2 DEF CoverageInv, Agrees, WalksMatch, RowsHonest, Claims
<1> QED BY <1>4, <1>5, <1>6, <1>7, <1>8, <1>9, IdleStepAgrees

\* A plan moves the wall of a clamped walk and nothing else of it.
LEMMA RepointClampFrame ==
    ASSUME NEW row \in BackfillRow, NEW wanted
    PROVE  LET row2 == RepointClamp(row, wanted)
           IN /\ row2.done = row.done /\ row2.targetFrom = row.targetFrom
              /\ row2.covered = row.covered /\ row2.nextTo = row.nextTo
  BY DEF RepointClamp, BackfillRow

\* A plan keeps every walk honest.
LEMMA PlanAgrees ==
    ASSUME Quiet, CoverageInv, Plan
    PROVE  Agrees'
<1>1. PICK wanted \in Plans : SubmitPlan(wanted) /\ ~PlanHitsResolved(gaps, wanted)
  BY DEF Plan, Permits, Quiet
<1>2. /\ gaps' = PlanHealRows(gaps, wanted)
      /\ backfill' = [c \in DOMAIN backfill |-> RepointClamp(backfill[c], wanted)]
      /\ UNCHANGED <<cursor, contracts, derived, round, snap, healer, unseen, req>>
      /\ req.pc = "idle" /\ WorkersIdle
  BY <1>1 DEF SubmitPlan, PlanHeal, Plan, Quiet, Permits, MayMutate
<1>3. snap = contracts
  BY <1>2 DEF CoverageInv, Agrees, Discipline
<1>4. SoundTable(gaps) /\ \A c \in DOMAIN backfill : backfill[c] \in BackfillRow
  BY Tables DEF CoverageInv
<1>5. /\ DOMAIN backfill' = DOMAIN backfill
      /\ \A c \in DOMAIN backfill : backfill'[c] = RepointClamp(backfill[c], wanted)
  BY <1>2
<1>6. \A c \in DOMAIN backfill : backfill'[c].covered = backfill[c].covered
  BY <1>4, <1>5, RepointClampFrame
<1>7. /\ BeforeFirstLedger' /\ WalksMatch' /\ StaleOnlyAhead' /\ AnchorAhead'
      /\ \A c \in DOMAIN backfill : Claims(c)' = Claims(c)
  BY <1>2, <1>3, <1>5, <1>6, WorkerAgrees
<1>8. RowsHonest'
  <2> SUFFICES ASSUME NEW c \in DOMAIN backfill
               PROVE  Honest(RepointClamp(backfill[c], wanted), Claims(c), derived[c],
                             Owed(PlanHealRows(gaps, wanted)), cursor)
    BY <1>2, <1>5, <1>7 DEF RowsHonest
  <2>1. Honest(backfill[c], Claims(c), derived[c], Owed(gaps), cursor)
    BY DEF CoverageInv, Agrees, RowsHonest
  <2> QED BY <1>1, <1>4, <2>1, HonestPlan
<1>9. WorkersIdle'
  BY <1>2 DEF WorkersIdle
<1> QED BY <1>2, <1>3, <1>7, <1>8, <1>9, IdleStepAgrees

-----------------------------------------------------------------------------
(* The healer's workers.                                                   *)

\* A worker that lists, claims or gives up touches no table.
LEMMA HealerMovesAgrees ==
    ASSUME CoverageInv, req.pc = "idle", snap = contracts, ~Clamping,
           UNCHANGED <<storeVars, round, snap, req>>, NEW w \in Workers, NEW r,
           healer' = [healer EXCEPT ![w] = r],
           r.pc = "listed" => \A id \in DOMAIN r.listed : Settled(id, r.listed[id]),
           r.pc = "replay" => r.watch = snap /\ Settled(r.gap, r.to)
    PROVE  Agrees'
<1>1. UNCHANGED <<cursor, contracts, backfill, gaps, derived>>
  BY DEF storeVars
<1>2. BeforeFirstLedger' /\ WalksMatch' /\ StaleOnlyAhead' /\ AnchorAhead'
  BY <1>1, WorkerAgrees
<1>3. Discipline'
  BY <1>1 DEF Discipline, Clamping
<1>4. RoundAgrees' /\ GroupAgrees'
  BY <1>1 DEF CoverageInv, Agrees, RoundAgrees, GroupAgrees, Clamping
<1>5. \A v \in Workers : healer'[v] = IF v = w THEN r ELSE healer[v]
  BY IndInvParts, HealerTypeOKByWorker DEF CoverageInv
<1>6. ASSUME NEW v \in Workers PROVE WorkerHonest(v)'
  <2>1. \A id, to : Settled(id, to) => Settled(id, to)'
    BY <1>1 DEF Settled, Claims
  <2>2. WorkerHonest(v)
    BY DEF CoverageInv, Agrees, WorkersHonest
  <2> QED BY <1>5, <2>1, <2>2 DEF WorkerHonest
<1>7. WorkersHonest'
  BY <1>6 DEF WorkersHonest
<1>8. RowsHonest'
  BY <1>1 DEF CoverageInv, Agrees, RowsHonest, Claims
<1> QED BY <1>2, <1>3, <1>4, <1>7, <1>8 DEF Agrees

\* What a healed chunk does to every walk.
LEMMA HealChunkRows ==
    ASSUME CoverageInv, snap = contracts, NEW w \in Workers, healChunk(w)
    PROVE  /\ UNCHANGED <<cursor, contracts>> /\ DOMAIN backfill' = DOMAIN backfill
           /\ \A c \in DOMAIN backfill :
                 /\ Claims(c) \in SUBSET Kinds /\ Grows(Claims(c), derived[c], derived'[c])
                 /\ backfill'[c].done = backfill[c].done
                 /\ backfill'[c].targetFrom = backfill[c].targetFrom
                 /\ backfill'[c].covered = backfill[c].covered
                 /\ backfill'[c].nextTo <= backfill[c].nextTo
                 /\ ~backfill[c].done => backfill'[c] = backfill[c]
                 /\ Honest(backfill'[c], Claims(c), derived'[c], Owed(gaps'), cursor)
<1> DEFINE id == healer[w].gap
           to == healer[w].to
           from == ChunkFrom(id, to)
           n == from - 1
           after == HealRow(gaps, id, n)
<1>1. healer[w].pc = "replay" /\ CommitHealChunk(id, n, healer[w].watch, from..to)
  BY DEF healChunk
<1>2. WorkerOK(healer[w])
  BY IndInvParts, HealerTypeOKByWorker DEF CoverageInv
<1>3. id \in GapId /\ to \in Span(id)
  BY <1>1, <1>2 DEF WorkerOK
<1>4. from \in id[1]..to
  BY <1>3, ChunkFromBounds
<1>5. healer[w].watch = contracts /\ Settled(id, to)
  BY <1>1 DEF CoverageInv, Agrees, WorkersHonest, WorkerHonest
<1>6. /\ id \in Open(gaps) /\ gaps' = after /\ Derive(healer[w].watch, from..to)
      /\ backfill' = [c \in DOMAIN backfill |-> FollowHeal(backfill[c], id, n, after)]
      /\ UNCHANGED <<cursor, contracts>>
  BY <1>1 DEF CommitHealChunk
<1>7. SoundTable(gaps) /\ cursor \in Nat
  BY Tables DEF CoverageInv
<1>8. from \in Int /\ n \in Int /\ n = from - 1 /\ id[2] \in Int /\ id[2] >= 1
  BY <1>3, <1>4, GapIdPair DEF Span, Ledgers
<1> SUFFICES ASSUME NEW c \in DOMAIN backfill
             PROVE  /\ Claims(c) \in SUBSET Kinds /\ Grows(Claims(c), derived[c], derived'[c])
                    /\ backfill'[c].done = backfill[c].done
                    /\ backfill'[c].targetFrom = backfill[c].targetFrom
                    /\ backfill'[c].covered = backfill[c].covered
                    /\ backfill'[c].nextTo <= backfill[c].nextTo
                    /\ ~backfill[c].done => backfill'[c] = backfill[c]
                    /\ Honest(backfill'[c], Claims(c), derived'[c], Owed(gaps'), cursor)
  BY <1>6
<1> HIDE DEF id, to, from, n, after
<1>9. /\ c \in Contracts /\ backfill[c] \in BackfillRow /\ c \in DOMAIN contracts
      /\ Claims(c) \in SUBSET Kinds /\ Claims(c) \subseteq contracts[c]
  BY Tables DEF CoverageInv, Agrees, WalksMatch, Claims
<1>10. Grows(Claims(c), derived[c], derived'[c])
  BY <1>6, <1>9, DeriveGrows DEF CoverageInv
<1>11. \A k \in Claims(c) : from..to \subseteq derived'[c][k]
  BY <1>5, <1>6, <1>9, DeriveGrows DEF CoverageInv
<1>12. Honest(backfill[c], Claims(c), derived[c], Owed(gaps), cursor)
  BY DEF CoverageInv, Agrees, RowsHonest
<1>13. Settles(backfill[c], Claims(c), derived[c], to, id[2])
  BY <1>5 DEF Settled
<1>14. backfill'[c] = FollowHeal(backfill[c], id, n, after)
  BY <1>6
<1>15. Honest(FollowHeal(backfill[c], id, n, after), Claims(c), derived'[c], Owed(after), cursor)
  <2>1. Honest(FollowHeal(backfill[c], id, n, HealRow(gaps, id, n)), Claims(c), derived'[c],
               Owed(HealRow(gaps, id, n)), cursor)
    BY <1>3, <1>4, <1>6, <1>7, <1>8, <1>9, <1>10, <1>11, <1>12, <1>13, HonestHeal
  <2> QED BY <2>1 DEF after
<1>16. backfill[c].clampedAt # 0 => backfill[c].targetFrom <= backfill[c].nextTo
  BY <1>12 DEF Honest
<1>17. /\ backfill'[c].done = backfill[c].done
       /\ backfill'[c].targetFrom = backfill[c].targetFrom
       /\ backfill'[c].covered = backfill[c].covered
       /\ backfill'[c].nextTo <= backfill[c].nextTo
  <2> DEFINE row2 == FollowHeal(backfill[c], id, n, after)
  <2>1. /\ row2.done = backfill[c].done /\ row2.targetFrom = backfill[c].targetFrom
        /\ row2.covered = backfill[c].covered /\ row2.nextTo <= backfill[c].nextTo
    BY <1>3, <1>8, <1>9, <1>16, FollowHealFrame
  <2> QED BY <1>14, <2>1
<1>18. ~backfill[c].done => backfill'[c] = backfill[c]
  <2>1. ~backfill[c].done => backfill[c].clampedAt # id[2] + 1
    BY <1>8, <1>12 DEF Honest
  <2> QED BY <1>14, <2>1 DEF FollowHeal
<1> QED BY <1>6, <1>9, <1>10, <1>14, <1>15, <1>17, <1>18

\* A healed chunk keeps every walk, the round's jobs and every other worker's
\* copy in agreement.
LEMMA HealChunkAgrees ==
    ASSUME CoverageInv, IndInv', req.pc = "idle", snap = contracts, ~Clamping,
           NEW w \in Workers, healChunk(w), UNCHANGED <<round, req>>
    PROVE  Agrees'
<1>1. /\ UNCHANGED <<cursor, contracts>> /\ DOMAIN backfill' = DOMAIN backfill
      /\ \A c \in DOMAIN backfill :
            /\ Grows(Claims(c), derived[c], derived'[c])
            /\ backfill'[c].done = backfill[c].done
            /\ backfill'[c].targetFrom = backfill[c].targetFrom
            /\ backfill'[c].covered = backfill[c].covered
            /\ backfill'[c].nextTo <= backfill[c].nextTo
            /\ ~backfill[c].done => backfill'[c] = backfill[c]
            /\ Honest(backfill'[c], Claims(c), derived'[c], Owed(gaps'), cursor)
  BY HealChunkRows
<1>2. snap' = snap /\ healer' = [healer EXCEPT ![w] = IdleWorker]
  BY DEF healChunk
<1>3. /\ BeforeFirstLedger' /\ WalksMatch' /\ StaleOnlyAhead' /\ AnchorAhead'
      /\ \A c \in DOMAIN backfill : Claims(c)' = Claims(c)
  BY <1>1, <1>2, WorkerAgrees
<1>4. Discipline'
  BY <1>1, <1>2 DEF Discipline, Clamping
<1>5. RoundAgrees'
  BY <1>1 DEF CoverageInv, Agrees, RoundAgrees
<1>6. GroupAgrees'
  BY DEF CoverageInv, Agrees, GroupAgrees, Clamping
<1>7. ASSUME NEW id, NEW to, Settled(id, to)
      PROVE  Settled(id, to)'
  <2> SUFFICES ASSUME NEW c \in DOMAIN backfill
               PROVE  Settles(backfill'[c], Claims(c), derived'[c], to, id[2])
    BY <1>1, <1>3 DEF Settled
  <2>1. backfill[c] \in BackfillRow /\ backfill'[c] \in BackfillRow
    BY <1>1, Tables, TablesNext DEF CoverageInv
  <2>2. Settles(backfill[c], Claims(c), derived[c], to, id[2])
    BY <1>7 DEF Settled
  <2>3. /\ Grows(Claims(c), derived[c], derived'[c])
        /\ backfill'[c].targetFrom = backfill[c].targetFrom
        /\ backfill'[c].done => backfill[c].done /\ backfill'[c].nextTo <= backfill[c].nextTo
    BY <1>1
  <2> QED BY <2>1, <2>2, <2>3, SettlesKept
<1>8. WorkersHonest'
  <2>1. \A v \in Workers : healer'[v] = IF v = w THEN IdleWorker ELSE healer[v]
    BY <1>2, IndInvParts, HealerTypeOKByWorker DEF CoverageInv
  <2>2. IdleWorker.pc = "idle"
    BY DEF IdleWorker
  <2>3. ASSUME NEW v \in Workers PROVE WorkerHonest(v)'
    <3>1. WorkerHonest(v)
      BY DEF CoverageInv, Agrees, WorkersHonest
    <3> QED BY <1>2, <1>7, <2>1, <2>2, <3>1 DEF WorkerHonest
  <2> QED BY <2>3 DEF WorkersHonest
<1>9. RowsHonest'
  BY <1>1, <1>3 DEF RowsHonest
<1> QED BY <1>3, <1>4, <1>5, <1>6, <1>8, <1>9 DEF Agrees

\* Every step of a worker.
LEMMA HealAgrees ==
    ASSUME Quiet, CoverageInv, IndInv', Heal
    PROVE  Agrees'
<1>1. req.pc = "idle" /\ snap = contracts /\ UNCHANGED <<snap, req>>
  BY NoRequestUnderWork
<1>2. ~Clamping /\ UNCHANGED round
  BY DEF Heal, Quiet, Permits
<1>3. PICK w \in Workers : work(w)
  BY DEF Heal, HealerNext
<1>4. IdleWorker.pc = "idle"
  BY DEF IdleWorker
<1>5. CASE ListOpenGaps(w)
  <2> DEFINE listed == [id \in ReplayGaps |-> gaps[id].healNextTo]
             r == [IdleWorker EXCEPT !.pc = "listed", !.listed = listed]
  <2>1. healer' = [healer EXCEPT ![w] = r] /\ UNCHANGED storeVars
    BY <1>5 DEF ListOpenGaps
  <2>2. r.pc = "listed" /\ r.listed = listed /\ DOMAIN listed = ReplayGaps
    BY DEF IdleWorker
  <2>3. ASSUME NEW id \in ReplayGaps PROVE Settled(id, listed[id])
    <3>1. id \in Open(gaps) /\ SoundTable(gaps) /\ listed[id] = gaps[id].healNextTo
      BY Tables DEF ReplayGaps, CoverageInv
    <3>2. ASSUME NEW c \in DOMAIN backfill
          PROVE  Settles(backfill[c], Claims(c), derived[c], gaps[id].healNextTo, id[2])
      <4>1. Honest(backfill[c], Claims(c), derived[c], Owed(gaps), cursor)
        BY DEF CoverageInv, Agrees, RowsHonest
      <4> QED BY <3>1, <4>1, SettlesAtMark
    <3> QED BY <3>1, <3>2 DEF Settled
  <2> HIDE DEF r, listed
  <2> QED BY <1>1, <1>2, <2>1, <2>2, <2>3, HealerMovesAgrees
<1>6. CASE claim(w)
  <2>1. PICK id \in claimable(w) :
           healer' = [healer EXCEPT ![w] =
                        [IdleWorker EXCEPT !.pc = "replay", !.gap = id,
                           !.to = healer[w].listed[id], !.watch = snap]]
    BY <1>6 DEF claim
  <2> DEFINE r == [IdleWorker EXCEPT !.pc = "replay", !.gap = id,
                     !.to = healer[w].listed[id], !.watch = snap]
  <2>2. healer' = [healer EXCEPT ![w] = r] /\ UNCHANGED storeVars
    BY <1>6, <2>1 DEF claim
  <2>3. Settled(id, healer[w].listed[id])
    BY <1>6 DEF claim, claimable, CoverageInv, Agrees, WorkersHonest, WorkerHonest
  <2>4. r.pc = "replay" /\ r.gap = id /\ r.to = healer[w].listed[id] /\ r.watch = snap
    BY DEF IdleWorker
  <2> HIDE DEF r
  <2> QED BY <1>1, <1>2, <2>2, <2>3, <2>4, HealerMovesAgrees
<1>7. CASE NothingToClaim(w)
  BY <1>1, <1>2, <1>4, <1>7, HealerMovesAgrees DEF NothingToClaim
<1>8. CASE healChunk(w)
  BY <1>1, <1>2, <1>8, HealChunkAgrees
<1>9. CASE healChunkFails(w)
  BY <1>1, <1>2, <1>4, <1>9, HealerMovesAgrees DEF healChunkFails
<1> QED BY <1>3, <1>5, <1>6, <1>7, <1>8, <1>9 DEF work

-----------------------------------------------------------------------------
(* The backfiller.                                                         *)

\* The chunk of a group lies between the target of each of its walks and its
\* frontier, and reaches up to the frontier.
LEMMA GroupReaches ==
    ASSUME BackfillerTypeOK, InGroup, NEW c \in GroupOf(GroupFloor)
    PROVE  /\ c \in round.left
           /\ round.jobs[c].targetFrom <= GroupFloor /\ GroupFloor <= round.jobs[c].nextTo
           /\ round.jobs[c].nextTo <= GroupTop(GroupOf(GroupFloor))
<1> DEFINE job == round.jobs[c]
           H == MaxLedger + Margin
           tops == {round.jobs[d].nextTo : d \in GroupOf(GroupFloor)}
<1>1. c \in round.left /\ chunkFromFor(job) = GroupFloor
  BY DEF GroupOf
<1>2. \A d \in round.left : round.jobs[d] \in Job
  BY DEF BackfillerTypeOK
<1>3. /\ job \in Job /\ job.nextTo \in Nat /\ job.targetFrom \in Nat /\ H \in Nat
      /\ \A d \in round.left : round.jobs[d].nextTo \in 0..H
  BY <1>1, <1>2, MaxLedgerAssumption, MarginAssumption DEF Job, Frontier, Ledgers
<1>4. job.nextTo >= job.targetFrom
  BY <1>1, <1>3 DEF InGroup, EmptyJobs
<1>5. GroupFloor \in 1..job.nextTo
  BY <1>1, <1>3, <1>4, chunkFromForBounds
<1>6. job.targetFrom <= GroupFloor
  <2> DEFINE low == job.nextTo - ((job.nextTo - 1) % ChunkSize)
  <2>1. low \in Int
    BY <1>3, ChunkSizeAssumption
  <2>2. chunkFromFor(job) = Max({low, job.targetFrom})
    BY DEF chunkFromFor
  <2> HIDE DEF low
  <2>3. Max({low, job.targetFrom}) = IF low >= job.targetFrom THEN low ELSE job.targetFrom
    BY <1>3, <2>1, MaxPair
  <2> QED BY <1>1, <1>3, <2>1, <2>2, <2>3
<1>7. job.nextTo \in tops /\ tops \in SUBSET (0..H) /\ tops # {}
  BY <1>3 DEF GroupOf
<1>8. job.nextTo <= Max(tops)
  <2> HIDE DEF tops
  <2> QED BY <1>3, <1>7, MaxBounded
<1> QED BY <1>1, <1>3, <1>5, <1>6, <1>8 DEF GroupTop

\* A step of the round that touches no table.
LEMMA RoundMovesAgrees ==
    ASSUME CoverageInv, req.pc = "idle", snap = contracts,
           UNCHANGED <<storeVars, snap, healer, req>>,
           RoundAgrees', GroupAgrees', Clamping' => Healing = {}
    PROVE  Agrees'
<1>1. UNCHANGED <<cursor, contracts, backfill, gaps, derived>>
  BY DEF storeVars
<1>2. BeforeFirstLedger' /\ WalksMatch' /\ StaleOnlyAhead' /\ AnchorAhead'
  BY <1>1, WorkerAgrees
<1>3. Discipline'
  BY <1>1 DEF Discipline, Healing
<1>4. WorkersHonest'
  BY <1>1 DEF CoverageInv, Agrees, WorkersHonest, WorkerHonest, Settled, Claims
<1>5. RowsHonest'
  BY <1>1 DEF CoverageInv, Agrees, RowsHonest, Claims
<1> QED BY <1>2, <1>3, <1>4, <1>5 DEF Agrees

\* Going back to the list without some contracts leaves jobs that agree, as
\* long as only the walks of those contracts changed.
LEMMA SkipAgrees ==
    ASSUME RoundAgrees, round.pc # "idle", NEW cs, Skip(cs), contracts' = contracts,
           \A c \in round.left \ cs : c \in DOMAIN backfill' /\ backfill'[c] = backfill[c]
    PROVE  RoundAgrees' /\ GroupAgrees' /\ ~Clamping'
<1>1. \/ round' = NoRound
      \/ round' = [pc |-> "listed", jobs |-> round.jobs, left |-> round.left \ cs,
                   group |-> {}, from |-> 0, to |-> 0, wall |-> 0,
                   targets |-> {}, res |-> <<>>]
  <2>1. CASE round.left = cs
    BY <2>1 DEF Skip
  <2>2. CASE round.left # cs
    BY <2>2 DEF Skip, NoRound
  <2> QED BY <2>1, <2>2
<1>2. \/ round'.pc = "idle"
      \/ round'.pc = "listed" /\ round'.jobs = round.jobs /\ round'.left = round.left \ cs
  <2>1. NoRound.pc = "idle"
    BY DEF NoRound
  <2> QED BY <1>1, <2>1
<1>3. RoundAgrees'
  BY <1>2 DEF RoundAgrees
<1>4. GroupAgrees' /\ ~Clamping'
  BY <1>2 DEF GroupAgrees, Clamping
<1> QED BY <1>3, <1>4

\* The same of one contract leaving the group that is being committed.
LEMMA LeaveAgrees ==
    ASSUME BackfillerTypeOK, RoundAgrees, GroupAgrees, round.pc = "commit",
           NEW c \in round.group, Leave(c), UNCHANGED <<contracts, gaps>>,
           \A d \in round.left \ {c} : d \in DOMAIN backfill' /\ backfill'[d] = backfill[d]
    PROVE  RoundAgrees' /\ GroupAgrees' /\ (Clamping' => Clamping)
<1>1. CASE round.group = {c}
  BY <1>1, SkipAgrees DEF Leave
<1>2. CASE round.group # {c}
  <2>1. DOMAIN round = {"pc", "jobs", "left", "group", "from", "to", "wall", "targets", "res"}
    BY DEF BackfillerTypeOK, NoRound
  <2>2. /\ round'.pc = round.pc /\ round'.jobs = round.jobs /\ round'.from = round.from
        /\ round'.to = round.to /\ round'.wall = round.wall
        /\ round'.targets = round.targets /\ round'.res = round.res
        /\ round'.left = round.left \ {c} /\ round'.group = round.group \ {c}
    BY <1>2, <2>1 DEF Leave
  <2>3. RoundAgrees'
    BY <2>2 DEF RoundAgrees
  <2>4. Clamping' = Clamping
    BY <2>2 DEF Clamping
  <2>5. GroupAgrees'
    BY <2>2, <2>4 DEF GroupAgrees
  <2> QED BY <2>3, <2>4, <2>5
<1> QED BY <1>1, <1>2

\* A group begins with a chunk that reaches each of its walks.
LEMMA BeginGroupAgrees ==
    ASSUME BackfillerTypeOK, RoundAgrees, InGroup, NEW pc \in {"clamp", "commit"}, NEW w \in Int,
           NEW res, BeginGroup(pc, w, res), UNCHANGED storeVars,
           pc = "clamp" => GroupFloor < w,
           pc = "commit" => w = 0 /\ \A c \in GroupOf(GroupFloor) :
                               c \in DOMAIN res /\ res[c] = round.jobs[c].kinds
    PROVE  RoundAgrees' /\ GroupAgrees' /\ (Clamping' => round'.pc = "clamp")
<1> DEFINE group == GroupOf(GroupFloor)
           targets == IF pc = "clamp" THEN {round.jobs[c].targetFrom : c \in group} ELSE {}
<1>1. DOMAIN round = {"pc", "jobs", "left", "group", "from", "to", "wall", "targets", "res"}
  BY DEF BackfillerTypeOK, NoRound
<1>2. /\ round'.pc = pc /\ round'.jobs = round.jobs /\ round'.left = round.left
      /\ round'.group = group /\ round'.from = GroupFloor /\ round'.to = GroupTop(group)
      /\ round'.wall = w /\ round'.targets = targets /\ round'.res = res
  BY <1>1 DEF BeginGroup
<1>3. UNCHANGED <<contracts, backfill, gaps>>
  BY DEF storeVars
<1>4. RoundAgrees'
  BY <1>2, <1>3 DEF RoundAgrees, InGroup
<1>5. \A c \in group : /\ round.jobs[c].targetFrom <= GroupFloor
                       /\ GroupFloor <= round.jobs[c].nextTo
                       /\ round.jobs[c].nextTo <= GroupTop(group)
  BY GroupReaches
<1>6. \A c \in group : pc = "clamp" => round.jobs[c].targetFrom \in targets
  OBVIOUS
<1> HIDE DEF group, targets
<1>7. Clamping' => pc = "clamp"
  BY <1>2 DEF Clamping
<1>8. GroupAgrees'
  BY <1>2, <1>5, <1>6, <1>7 DEF GroupAgrees, group
<1> QED BY <1>2, <1>4, <1>7, <1>8

\* What committing a chunk does to the tables.
LEMMA ChunkRows ==
    ASSUME CoverageInv, NEW c \in DOMAIN backfill, NEW nextTo, NEW done, NEW clampedAt,
           NEW kinds, NEW range, CommitBackfillChunk(c, nextTo, done, clampedAt, kinds, range)
    PROVE  /\ UNCHANGED <<cursor, contracts, gaps>> /\ DOMAIN backfill' = DOMAIN backfill
           /\ \A d \in DOMAIN backfill : d # c => backfill'[d] = backfill[d]
           /\ backfill'[c].nextTo = nextTo /\ backfill'[c].done = done
           /\ backfill'[c].clampedAt = clampedAt
           /\ backfill'[c].targetFrom = backfill[c].targetFrom
           /\ backfill'[c].covered = backfill[c].covered
           /\ \A d \in DOMAIN backfill : Grows(Claims(d), derived[d], derived'[d])
           /\ \A k \in kinds \cap Kinds : range \subseteq derived'[c][k]
<1>1. /\ backfill' = [backfill EXCEPT ![c].nextTo = nextTo, ![c].done = done,
                                      ![c].clampedAt = clampedAt]
      /\ Derive([d \in {c} |-> kinds], range) /\ UNCHANGED <<cursor, contracts, gaps>>
  BY DEF CommitBackfillChunk
<1>2. \A d \in DOMAIN backfill : d \in Contracts /\ backfill[d] \in BackfillRow
  BY Tables DEF CoverageInv
<1>3. DOMAIN backfill' = DOMAIN backfill
      /\ \A d \in DOMAIN backfill : d # c => backfill'[d] = backfill[d]
  BY <1>1
<1>4. backfill'[c] = [backfill[c] EXCEPT !.nextTo = nextTo, !.done = done,
                                         !.clampedAt = clampedAt]
  BY <1>1
<1>5. /\ backfill'[c].nextTo = nextTo /\ backfill'[c].done = done
      /\ backfill'[c].clampedAt = clampedAt
      /\ backfill'[c].targetFrom = backfill[c].targetFrom
      /\ backfill'[c].covered = backfill[c].covered
  BY <1>2, <1>4 DEF BackfillRow
<1>6. \A d \in DOMAIN backfill : Claims(d) \in SUBSET Kinds
  BY <1>2 DEF Claims, BackfillRow
<1>7. \A d \in DOMAIN backfill : Grows(Claims(d), derived[d], derived'[d])
  BY <1>1, <1>2, <1>6, DeriveGrows DEF CoverageInv
<1> DEFINE watch == [d \in {c} |-> kinds]
<1>8. c \in DOMAIN watch /\ watch[c] = kinds /\ Derive(watch, range)
  BY <1>1
<1> HIDE DEF watch
<1>9. \A k \in kinds \cap Kinds : range \subseteq derived'[c][k]
  BY <1>2, <1>8, DeriveGrows DEF CoverageInv
<1> QED BY <1>1, <1>3, <1>5, <1>7, <1>9

\* A chunk that leaves its walk honest, and settled for whoever is healing,
\* leaves everything in agreement.
LEMMA ChunkAgrees ==
    ASSUME CoverageInv, IndInv', req.pc = "idle", snap = contracts,
           NEW c \in DOMAIN backfill,
           UNCHANGED <<cursor, contracts, gaps, snap, healer, req>>,
           DOMAIN backfill' = DOMAIN backfill,
           \A d \in DOMAIN backfill : d # c => backfill'[d] = backfill[d],
           \A d \in DOMAIN backfill : Grows(Claims(d), derived[d], derived'[d]),
           backfill'[c].covered = backfill[c].covered,
           Honest(backfill'[c], Claims(c), derived'[c], Owed(gaps), cursor),
           (backfill'[c].done => backfill'[c].nextTo < backfill'[c].targetFrom)
             \/ Healing = {},
           RoundAgrees', GroupAgrees', Clamping' => Healing = {}
    PROVE  Agrees'
<1>1. \A d \in DOMAIN backfill : backfill'[d].covered = backfill[d].covered
  OBVIOUS
<1>2. /\ BeforeFirstLedger' /\ WalksMatch' /\ StaleOnlyAhead' /\ AnchorAhead'
      /\ \A d \in DOMAIN backfill : Claims(d)' = Claims(d)
  BY <1>1, WorkerAgrees
<1>3. Discipline'
  BY DEF Discipline, Healing
<1>4. RowsHonest'
  <2> SUFFICES ASSUME NEW d \in DOMAIN backfill
               PROVE  Honest(backfill'[d], Claims(d), derived'[d], Owed(gaps), cursor)
    BY <1>2 DEF RowsHonest
  <2>1. Honest(backfill[d], Claims(d), derived[d], Owed(gaps), cursor)
    BY DEF CoverageInv, Agrees, RowsHonest
  <2>2. d # c => Honest(backfill[d], Claims(d), derived'[d], Owed(gaps), cursor)
    BY <2>1, HonestKept
  <2> QED BY <2>2
<1>5. WorkersHonest'
  <2>1. CASE Healing = {}
    BY <2>1 DEF WorkersHonest, WorkerHonest, Healing
  <2>2. CASE Healing # {}
    <3>1. ASSUME NEW id, NEW to, Settled(id, to)
          PROVE  Settled(id, to)'
      <4> SUFFICES ASSUME NEW d \in DOMAIN backfill
                   PROVE  Settles(backfill'[d], Claims(d), derived'[d], to, id[2])
        BY <1>2 DEF Settled
      <4>1. backfill[d] \in BackfillRow /\ backfill'[d] \in BackfillRow
        BY Tables, TablesNext DEF CoverageInv
      <4>2. CASE d = c
        BY <2>2, <4>1, <4>2, SettlesEmpty
      <4>3. CASE d # c
        <5>1. /\ Settles(backfill[d], Claims(d), derived[d], to, id[2])
              /\ Grows(Claims(d), derived[d], derived'[d]) /\ backfill'[d] = backfill[d]
          BY <3>1, <4>3 DEF Settled
        <5>2. backfill[d].done => backfill[d].done /\ backfill[d].nextTo <= backfill[d].nextTo
          BY <4>1 DEF BackfillRow, Frontier
        <5> QED BY <4>1, <5>1, <5>2, SettlesKept
      <4> QED BY <4>2, <4>3
    <3>2. ASSUME NEW v \in Workers PROVE WorkerHonest(v)'
      <4>1. WorkerHonest(v)
        BY DEF CoverageInv, Agrees, WorkersHonest
      <4> QED BY <3>1, <4>1 DEF WorkerHonest
    <3> QED BY <3>2 DEF WorkersHonest
  <2> QED BY <2>1, <2>2
<1> QED BY <1>2, <1>3, <1>4, <1>5 DEF Agrees

\* What a committed chunk may do: one walk's frontier moves down, honestly.
WalkMoves(c) ==
    /\ UNCHANGED <<cursor, contracts, gaps>> /\ DOMAIN backfill' = DOMAIN backfill
    /\ \A d \in DOMAIN backfill : d # c => backfill'[d] = backfill[d]
    /\ \A d \in DOMAIN backfill : Grows(Claims(d), derived[d], derived'[d])
    /\ backfill'[c].covered = backfill[c].covered
    /\ backfill'[c].nextTo <= backfill[c].nextTo
    /\ Honest(backfill'[c], Claims(c), derived'[c], Owed(gaps), cursor)

\* The walk a round has in hand, as the table has it.
LEMMA JobIsWalk ==
    ASSUME CoverageInv, round.pc # "idle", NEW c \in round.left
    PROVE  /\ c \in DOMAIN backfill /\ c \in DOMAIN contracts
           /\ backfill[c] \in BackfillRow /\ cursor \in Nat
           /\ backfill[c].nextTo \in Int /\ backfill[c].targetFrom \in Int
           /\ round.jobs[c].targetFrom = backfill[c].targetFrom
           /\ round.jobs[c].nextTo = backfill[c].nextTo
           /\ round.jobs[c].kinds = contracts[c]
           /\ Claims(c) \subseteq contracts[c] /\ Claims(c) \in SUBSET Kinds
           /\ Honest(backfill[c], Claims(c), derived[c], Owed(gaps), cursor)
           /\ round.from \in Int /\ round.to \in Int /\ round.wall \in Int
           /\ round.to >= 0 /\ round.wall >= 0
<1>1. RoundAgrees /\ RowsHonest /\ BackfillerTypeOK
  BY IndInvParts DEF CoverageInv, Agrees
<1>2. /\ c \in DOMAIN backfill /\ c \in DOMAIN contracts
      /\ round.jobs[c].targetFrom = backfill[c].targetFrom
      /\ round.jobs[c].nextTo = backfill[c].nextTo
      /\ round.jobs[c].kinds = contracts[c]
  BY <1>1 DEF RoundAgrees
<1>3. backfill[c] \in BackfillRow /\ cursor \in Nat
  BY <1>2, Tables DEF CoverageInv
<1>4. backfill[c].nextTo \in Int /\ backfill[c].targetFrom \in Int /\ backfill[c].covered \in SUBSET Kinds
  BY <1>3 DEF BackfillRow, Frontier, Ledgers
<1>5. /\ round.from \in Int /\ round.to \in Int /\ round.wall \in Int
      /\ round.to >= 0 /\ round.wall >= 0
  BY <1>1 DEF BackfillerTypeOK, Frontier
<1> QED BY <1>1, <1>2, <1>3, <1>4, <1>5 DEF RowsHonest, Claims

\* A walk with nothing before it is closed.
LEMMA CloseEmptyMoves ==
    ASSUME CoverageInv, NEW c \in round.left, CloseEmptyWalk(c)
    PROVE  WalkMoves(c) /\ backfill'[c].nextTo < backfill'[c].targetFrom
<1> DEFINE none == {}
           yes == TRUE
<1>1. round.pc = "listed" /\ round.jobs[c].nextTo < round.jobs[c].targetFrom
      /\ CommitBackfillChunk(c, round.jobs[c].nextTo, yes, 0, none, none)
  BY DEF CloseEmptyWalk, EmptyJobs
<1> HIDE DEF none, yes
<1>2. /\ c \in DOMAIN backfill /\ backfill[c] \in BackfillRow /\ cursor \in Nat
      /\ backfill[c].nextTo \in Int
      /\ round.jobs[c].targetFrom = backfill[c].targetFrom
      /\ round.jobs[c].nextTo = backfill[c].nextTo
      /\ Honest(backfill[c], Claims(c), derived[c], Owed(gaps), cursor)
  BY <1>1, JobIsWalk
<1>3. /\ UNCHANGED <<cursor, contracts, gaps>> /\ DOMAIN backfill' = DOMAIN backfill
      /\ \A d \in DOMAIN backfill : d # c => backfill'[d] = backfill[d]
      /\ backfill'[c].nextTo = round.jobs[c].nextTo /\ backfill'[c].done = yes
      /\ backfill'[c].clampedAt = 0
      /\ backfill'[c].targetFrom = backfill[c].targetFrom
      /\ backfill'[c].covered = backfill[c].covered
      /\ \A d \in DOMAIN backfill : Grows(Claims(d), derived[d], derived'[d])
  BY <1>1, <1>2, ChunkRows
<1>4. backfill'[c].done = TRUE
  BY <1>3 DEF yes
<1>5. Grows(Claims(c), derived[c], derived'[c])
  BY <1>2, <1>3
<1>6. Honest(backfill'[c], Claims(c), derived'[c], Owed(gaps), cursor)
  BY <1>1, <1>2, <1>3, <1>4, <1>5, HonestEmpty
<1> QED BY <1>1, <1>2, <1>3, <1>6 DEF WalkMoves

\* A walked chunk.
LEMMA CommitWalkMoves ==
    ASSUME CoverageInv, NEW c \in round.group, CommitWalk(c)
    PROVE  /\ WalkMoves(c)
           /\ backfill'[c].done => backfill'[c].nextTo < backfill'[c].targetFrom
<1> DEFINE last == round.from <= round.jobs[c].targetFrom
<1>1. /\ round.pc = "commit" /\ round.wall = 0
      /\ CommitBackfillChunk(c, round.from - 1, last, 0, ResKinds(c), ScannedRange)
  BY DEF CommitWalk
<1>2. c \in round.left
  BY IndInvParts DEF CoverageInv, BackfillerTypeOK
<1>3. /\ c \in DOMAIN backfill /\ c \in DOMAIN contracts
      /\ backfill[c] \in BackfillRow /\ cursor \in Nat
      /\ backfill[c].nextTo \in Int /\ backfill[c].targetFrom \in Int
      /\ round.jobs[c].targetFrom = backfill[c].targetFrom
      /\ round.jobs[c].nextTo = backfill[c].nextTo
      /\ round.jobs[c].kinds = contracts[c]
      /\ Claims(c) \subseteq contracts[c] /\ Claims(c) \in SUBSET Kinds
      /\ Honest(backfill[c], Claims(c), derived[c], Owed(gaps), cursor)
      /\ round.from \in Int /\ round.to \in Int /\ round.wall <= round.to
  BY <1>1, <1>2, JobIsWalk
<1>4. /\ backfill[c].targetFrom <= round.from /\ round.from <= backfill[c].nextTo
      /\ backfill[c].nextTo <= round.to
      /\ ResKinds(c) = contracts[c] /\ ScannedRange = round.from..round.to
  BY <1>1, <1>3 DEF CoverageInv, Agrees, GroupAgrees, ResKinds, ScannedRange
<1>5. last = (round.from <= backfill[c].targetFrom)
  BY <1>3
<1> HIDE DEF last
<1>6. /\ UNCHANGED <<cursor, contracts, gaps>> /\ DOMAIN backfill' = DOMAIN backfill
      /\ \A d \in DOMAIN backfill : d # c => backfill'[d] = backfill[d]
      /\ backfill'[c].nextTo = round.from - 1 /\ backfill'[c].done = last
      /\ backfill'[c].clampedAt = 0
      /\ backfill'[c].targetFrom = backfill[c].targetFrom
      /\ backfill'[c].covered = backfill[c].covered
      /\ \A d \in DOMAIN backfill : Grows(Claims(d), derived[d], derived'[d])
      /\ \A k \in ResKinds(c) \cap Kinds : ScannedRange \subseteq derived'[c][k]
  BY <1>1, <1>3, ChunkRows
<1>7. \A l \in round.from..round.to : Has(Claims(c), derived'[c], l)
  BY <1>3, <1>4, <1>6 DEF Has
<1>8. backfill'[c].done => round.from <= backfill[c].targetFrom
  BY <1>5, <1>6
<1>9. Honest(backfill'[c], Claims(c), derived'[c], Owed(gaps), cursor)
  <2>1. Grows(Claims(c), derived[c], derived'[c])
    BY <1>3, <1>6
  <2>2. /\ backfill'[c].targetFrom = backfill[c].targetFrom
        /\ backfill'[c].nextTo = round.from - 1 /\ backfill'[c].clampedAt = 0
    BY <1>6
  <2>3. \A l \in Ledgers : l \in Int
           /\ (Has(Claims(c), derived[c], l) => Has(Claims(c), derived'[c], l))
    BY <2>1 DEF Has, Grows, Ledgers
  <2> QED BY <1>3, <1>4, <1>7, <1>8, <2>2, <2>3, MarginAssumption DEF Honest
<1>10. backfill'[c].nextTo <= backfill[c].nextTo
  BY <1>3, <1>4, <1>6
<1>11. backfill'[c].done => backfill'[c].nextTo < backfill'[c].targetFrom
  <2> SUFFICES ASSUME backfill'[c].done PROVE backfill'[c].nextTo < backfill'[c].targetFrom
    OBVIOUS
  <2>1. round.from <= backfill[c].targetFrom
    BY <1>8
  <2> QED BY <1>3, <1>6, <2>1
<1> QED BY <1>6, <1>9, <1>10, <1>11 DEF WalkMoves

\* A chunk clamped at the wall: its gap is on record.
LEMMA CommitClampMoves ==
    ASSUME CoverageInv, NEW c \in round.group, CommitClamp(c)
    PROVE  WalkMoves(c) /\ Healing = {}
<1> DEFINE low == Min({round.jobs[c].nextTo, round.wall - 1})
           yes == TRUE
<1>1. /\ round.pc = "commit" /\ round.wall # 0
      /\ CommitBackfillChunk(c, low, yes, round.wall, ResKinds(c), ScannedRange)
  BY DEF CommitClamp
<1>2. c \in round.left /\ Clamping /\ Healing = {}
  BY <1>1, IndInvParts DEF CoverageInv, Agrees, Discipline, Clamping, BackfillerTypeOK
<1>3. /\ c \in DOMAIN backfill /\ c \in DOMAIN contracts
      /\ backfill[c] \in BackfillRow /\ cursor \in Nat
      /\ backfill[c].nextTo \in Int /\ backfill[c].targetFrom \in Int
      /\ round.jobs[c].targetFrom = backfill[c].targetFrom
      /\ round.jobs[c].nextTo = backfill[c].nextTo
      /\ round.jobs[c].kinds = contracts[c]
      /\ Claims(c) \subseteq contracts[c] /\ Claims(c) \in SUBSET Kinds
      /\ Honest(backfill[c], Claims(c), derived[c], Owed(gaps), cursor)
      /\ round.from \in Int /\ round.to \in Int /\ round.wall \in Int
  BY <1>1, <1>2, JobIsWalk
<1>4. /\ backfill[c].targetFrom <= round.from /\ round.from <= backfill[c].nextTo
      /\ backfill[c].nextTo <= round.to /\ round.from < round.wall
      /\ round.wall <= round.to => ResKinds(c) = contracts[c]
      /\ ScannedRange = round.wall..round.to
  BY <1>1, <1>2, <1>3 DEF CoverageInv, Agrees, GroupAgrees, ResKinds, ScannedRange
<1>5. backfill[c].targetFrom..(round.wall - 1) \subseteq Owed(gaps)
  BY <1>1, <1>2, <1>3 DEF CoverageInv, Agrees, GroupAgrees
<1>6. low = Min({backfill[c].nextTo, round.wall - 1})
  BY <1>3
<1>7. low \in Int /\ low <= backfill[c].nextTo
  <2>1. Min({backfill[c].nextTo, round.wall - 1})
          = IF backfill[c].nextTo <= round.wall - 1 THEN backfill[c].nextTo ELSE round.wall - 1
    BY <1>3, MinPair
  <2> HIDE DEF low
  <2> QED BY <1>3, <1>6, <2>1
<1> HIDE DEF low, yes
<1>8. /\ UNCHANGED <<cursor, contracts, gaps>> /\ DOMAIN backfill' = DOMAIN backfill
      /\ \A d \in DOMAIN backfill : d # c => backfill'[d] = backfill[d]
      /\ backfill'[c].nextTo = low /\ backfill'[c].done = yes
      /\ backfill'[c].clampedAt = round.wall
      /\ backfill'[c].targetFrom = backfill[c].targetFrom
      /\ backfill'[c].covered = backfill[c].covered
      /\ \A d \in DOMAIN backfill : Grows(Claims(d), derived[d], derived'[d])
      /\ \A k \in ResKinds(c) \cap Kinds : ScannedRange \subseteq derived'[c][k]
  BY <1>1, <1>3, ChunkRows
<1>9. \A l \in round.wall..round.to : Has(Claims(c), derived'[c], l)
  <2> SUFFICES ASSUME NEW l \in round.wall..round.to PROVE Has(Claims(c), derived'[c], l)
    OBVIOUS
  <2>1. ResKinds(c) = contracts[c]
    BY <1>3, <1>4
  <2> QED BY <1>3, <1>4, <1>8, <2>1 DEF Has
<1>10. Honest(backfill'[c], Claims(c), derived'[c], Owed(gaps), cursor)
  <2>1. Grows(Claims(c), derived[c], derived'[c])
    BY <1>3, <1>8
  <2>2. backfill'[c].done
    BY <1>8 DEF yes
  <2> QED BY <1>3, <1>4, <1>5, <1>6, <1>8, <1>9, <2>1, <2>2, HonestClamp
<1> QED BY <1>2, <1>7, <1>8, <1>10 DEF WalkMoves

\* A group of walks that is scanned.
LEMMA ScanAgrees ==
    ASSUME Quiet, CoverageInv, ScanCached \/ Scan \/ HitWall,
           round'.pc = "clamp" => Healing = {}
    PROVE  RoundAgrees' /\ GroupAgrees' /\ (Clamping' => Healing = {}) /\ UNCHANGED storeVars
<1>1. BackfillerTypeOK /\ RoundAgrees
  BY IndInvParts DEF CoverageInv, Agrees
<1>2. InGroup /\ UNCHANGED storeVars
  BY DEF ScanCached, Scan, HitWall
<1>3. CASE ScanCached
  <2>1. BeginGroup("commit", 0, lastScan.members)
        /\ \A c \in GroupOf(GroupFloor) : c \in DOMAIN lastScan.members
                                          /\ lastScan.members[c] = round.jobs[c].kinds
    BY <1>3 DEF ScanCached, cachedScan
  <2>2. RoundAgrees' /\ GroupAgrees' /\ (Clamping' => round'.pc = "clamp")
    BY <1>1, <1>2, <2>1, BeginGroupAgrees
  <2> QED BY <1>2, <2>2
<1>4. CASE Scan
  <2> DEFINE res == KindsOf(GroupOf(GroupFloor) \cup Ahead(GroupFloor))
  <2>1. BeginGroup("commit", 0, res)
    BY <1>4 DEF Scan
  <2>2. \A c \in GroupOf(GroupFloor) : c \in DOMAIN res /\ res[c] = round.jobs[c].kinds
    BY DEF KindsOf
  <2> HIDE DEF res
  <2>3. RoundAgrees' /\ GroupAgrees' /\ (Clamping' => round'.pc = "clamp")
    BY <1>1, <1>2, <2>1, <2>2, BeginGroupAgrees
  <2> QED BY <1>2, <2>3
<1>5. CASE HitWall
  <2> DEFINE top == GroupTop(GroupOf(GroupFloor))
             w == findWall(GroupFloor, top)
             none == <<>>
  <2>1. BeginGroup("clamp", w, none)
    BY <1>5 DEF HitWall
  <2>2. GroupFloor \in Int /\ top \in Int /\ wall \in Int
    BY <1>1, <1>2, GroupBounds DEF Frontier, BackfillerTypeOK
  <2> HIDE DEF top
  <2>3. w \in Int /\ GroupFloor < w
    <3> DEFINE m == Min({wall, top + 1})
    <3>1. m = IF wall <= top + 1 THEN wall ELSE top + 1
      BY <2>2, MinPair
    <3>2. m \in Int
      <4> HIDE DEF m
      <4> QED BY <2>2, <3>1
    <3>3. w = Max({GroupFloor + 1, m})
      BY DEF findWall
    <3> HIDE DEF m, w
    <3>4. Max({GroupFloor + 1, m}) = IF GroupFloor + 1 >= m THEN GroupFloor + 1 ELSE m
      BY <2>2, <3>2, MaxPair
    <3> QED BY <2>2, <3>2, <3>3, <3>4
  <2> HIDE DEF w, none
  <2>4. RoundAgrees' /\ GroupAgrees' /\ (Clamping' => round'.pc = "clamp")
    BY <1>1, <1>2, <2>1, <2>3, BeginGroupAgrees
  <2> QED BY <1>2, <2>4
<1> QED BY <1>3, <1>4, <1>5

\* A gap recorded for a clamp: more is owed, and no walk has moved.
LEMMA RecordClampAgrees ==
    ASSUME CoverageInv, req.pc = "idle", snap = contracts, UNCHANGED <<snap, healer, req>>,
           NEW t \in round.targets, RecordClampGap(t)
    PROVE  Agrees'
<1>1. /\ round.pc = "clamp" /\ gaps' = RecordGapRows(gaps, t, round.wall - 1)
      /\ UNCHANGED <<cursor, contracts, backfill, derived>>
  BY DEF RecordClampGap, RecordGap
<1>2. BackfillerTypeOK /\ RoundAgrees /\ GroupAgrees /\ SoundTable(gaps) /\ Clamping /\ Healing = {}
  BY <1>1, IndInvParts, Tables DEF CoverageInv, Agrees, Discipline, Clamping
<1>3. Owed(gaps) \subseteq Owed(gaps') /\ t..(round.wall - 1) \subseteq Owed(gaps')
  <2>1. t \in Int /\ round.wall - 1 \in Int /\ t..(round.wall - 1) \subseteq Ledgers
    <3>1. round.targets \subseteq 1..MaxLedger /\ round.wall \in 0..MaxLedger
      BY <1>2 DEF BackfillerTypeOK, Ledgers
    <3> QED BY <3>1, MaxLedgerAssumption DEF Ledgers
  <2> QED BY <1>1, <1>2, <2>1, RecordGapOwes
<1>4. DOMAIN round = {"pc", "jobs", "left", "group", "from", "to", "wall", "targets", "res"}
  BY <1>2 DEF BackfillerTypeOK, NoRound
<1>5. /\ round'.jobs = round.jobs /\ round'.left = round.left /\ round'.group = round.group
      /\ round'.from = round.from /\ round'.to = round.to /\ round'.wall = round.wall
      /\ round'.targets = round.targets \ {t}
      /\ round'.pc = IF round.targets = {t} THEN "above" ELSE "clamp"
  BY <1>4 DEF RecordClampGap
<1>6. RoundAgrees'
  BY <1>1, <1>2, <1>5 DEF RoundAgrees
<1>7. GroupAgrees'
  <2>1. \A c \in round.group : /\ round.jobs[c].targetFrom <= round.from
                               /\ round.from <= round.jobs[c].nextTo
                               /\ round.jobs[c].nextTo <= round.to
    BY <1>1, <1>2 DEF GroupAgrees
  <2>2. round.from < round.wall
        /\ \A c \in round.group :
              \/ round.jobs[c].targetFrom \in round.targets
              \/ round.jobs[c].targetFrom..(round.wall - 1) \subseteq Owed(gaps)
    BY <1>2 DEF GroupAgrees
  <2>3. \A c \in round.group :
           \/ round.jobs[c].targetFrom \in round.targets \ {t}
           \/ round.jobs[c].targetFrom..(round.wall - 1) \subseteq Owed(gaps')
    BY <1>3, <2>2
  <2>4. round'.pc # "commit" /\ (round'.pc # "clamp" => round'.targets = {})
    BY <1>5
  <2> QED BY <1>5, <2>1, <2>2, <2>3, <2>4 DEF GroupAgrees
<1>8. BeforeFirstLedger' /\ WalksMatch' /\ StaleOnlyAhead' /\ AnchorAhead'
  BY <1>1, WorkerAgrees
<1>9. Discipline'
  <2>1. Healing' = {}
    BY <1>2 DEF Healing
  <2> QED BY <1>1, <2>1 DEF Discipline
<1>10. WorkersHonest'
  BY <1>2 DEF WorkersHonest, WorkerHonest, Healing
<1>11. RowsHonest'
  <2> SUFFICES ASSUME NEW c \in DOMAIN backfill
               PROVE  Honest(backfill[c], Claims(c), derived[c], Owed(gaps'), cursor)
    BY <1>1 DEF RowsHonest, Claims
  <2>1. Honest(backfill[c], Claims(c), derived[c], Owed(gaps), cursor)
    BY DEF CoverageInv, Agrees, RowsHonest
  <2> QED BY <1>3, <2>1, HonestFewer
<1> QED BY <1>6, <1>7, <1>8, <1>9, <1>10, <1>11 DEF Agrees

\* The backfiller, step by step.
LEMMA BackfillAgrees ==
    ASSUME Quiet, CoverageInv, IndInv', Backfill
    PROVE  Agrees'
<1>1. /\ BackfillerNext /\ req.pc = "idle" /\ snap = contracts /\ UNCHANGED <<snap, healer, req>>
      /\ round'.pc = "clamp" => Healing = {}
  BY NoRequestUnderWork DEF Backfill, Quiet, Permits
<1>2. BackfillerTypeOK /\ RoundAgrees /\ GroupAgrees /\ (Clamping => Healing = {})
  BY IndInvParts DEF CoverageInv, Agrees, Discipline
<1>3. round.pc # "idle" =>
         \A c \in round.left : c \in DOMAIN backfill /\ c \in DOMAIN contracts
  BY <1>2 DEF RoundAgrees
<1>4. UNCHANGED storeVars => contracts' = contracts /\ backfill' = backfill /\ gaps' = gaps
  BY DEF storeVars
<1>5. CASE List
  <2> DEFINE jobs == [c \in PendingBackfills |-> [targetFrom |-> backfill[c].targetFrom,
                        nextTo |-> backfill[c].nextTo, kinds |-> contracts[c]]]
  <2>1. /\ round'.pc = "listed" /\ round'.left = PendingBackfills /\ round'.jobs = jobs
        /\ UNCHANGED storeVars
    BY <1>5 DEF List, NoRound
  <2>2. \A c \in PendingBackfills :
           /\ c \in DOMAIN backfill /\ c \in DOMAIN contracts /\ ~backfill[c].done
           /\ jobs[c].targetFrom = backfill[c].targetFrom
           /\ jobs[c].nextTo = backfill[c].nextTo /\ jobs[c].kinds = contracts[c]
    BY DEF PendingBackfills
  <2> HIDE DEF jobs
  <2>3. RoundAgrees'
    BY <1>4, <2>1, <2>2 DEF RoundAgrees
  <2>4. GroupAgrees' /\ ~Clamping'
    BY <2>1 DEF GroupAgrees, Clamping
  <2> QED BY <1>1, <2>1, <2>3, <2>4, RoundMovesAgrees
<1>6. ASSUME NEW c \in round.left, CloseEmptyWalk(c)
      PROVE  Agrees'
  <2>1. round.pc # "idle" /\ Skip({c})
    BY <1>6 DEF CloseEmptyWalk
  <2>2. WalkMoves(c) /\ backfill'[c].nextTo < backfill'[c].targetFrom
    BY <1>6, CloseEmptyMoves
  <2>3. RoundAgrees' /\ GroupAgrees' /\ ~Clamping'
    <3>1. \A d \in round.left \ {c} : d \in DOMAIN backfill' /\ backfill'[d] = backfill[d]
      BY <1>3, <2>1, <2>2 DEF WalkMoves
    <3>2. contracts' = contracts
      BY <2>2 DEF WalkMoves
    <3> QED BY <1>2, <2>1, <3>1, <3>2, SkipAgrees
  <2> QED BY <1>1, <1>3, <2>1, <2>2, <2>3, ChunkAgrees DEF WalkMoves
<1>7. ASSUME NEW c \in round.left, CloseEmptyWalkFails(c)
      PROVE  Agrees'
  <2>1. round.pc # "idle" /\ Skip({c}) /\ UNCHANGED storeVars
    BY <1>7 DEF CloseEmptyWalkFails
  <2>2. RoundAgrees' /\ GroupAgrees' /\ ~Clamping'
    BY <1>2, <1>3, <1>4, <2>1, SkipAgrees
  <2> QED BY <1>1, <2>1, <2>2, RoundMovesAgrees
<1>8. CASE ScanCached \/ Scan \/ HitWall
  BY <1>1, <1>8, ScanAgrees, RoundMovesAgrees
<1>9. CASE ScanFails \/ AbandonClamp
  <2>1. PICK cs : round.pc # "idle" /\ Skip(cs) /\ UNCHANGED storeVars
    BY <1>9 DEF ScanFails, AbandonClamp, InGroup
  <2>2. RoundAgrees' /\ GroupAgrees' /\ ~Clamping'
    BY <1>2, <1>3, <1>4, <2>1, SkipAgrees
  <2> QED BY <1>1, <2>1, <2>2, RoundMovesAgrees
<1>10. ASSUME NEW t \in round.targets, RecordClampGap(t)
       PROVE  Agrees'
  BY <1>1, <1>10, RecordClampAgrees
<1>11. CASE ScanAbove
  <2> DEFINE res == IF round.wall <= round.to THEN KindsOf(round.group) ELSE <<>>
  <2>1. DOMAIN round = {"pc", "jobs", "left", "group", "from", "to", "wall", "targets", "res"}
    BY <1>2 DEF BackfillerTypeOK, NoRound
  <2>2. /\ round.pc = "above" /\ UNCHANGED storeVars
        /\ round'.pc = "commit" /\ round'.jobs = round.jobs /\ round'.left = round.left
        /\ round'.group = round.group /\ round'.from = round.from /\ round'.to = round.to
        /\ round'.wall = round.wall /\ round'.targets = round.targets /\ round'.res = res
    BY <1>11, <2>1 DEF ScanAbove
  <2>3. round.wall <= round.to =>
           \A c \in round.group : c \in DOMAIN res /\ res[c] = round.jobs[c].kinds
    BY DEF KindsOf
  <2> HIDE DEF res
  <2>4. Clamping /\ Healing = {}
    BY <1>2, <2>2 DEF Clamping
  <2>5. RoundAgrees'
    BY <1>2, <1>4, <2>2 DEF RoundAgrees
  <2>6. GroupAgrees'
    BY <1>2, <1>4, <2>2, <2>3, <2>4 DEF GroupAgrees
  <2> QED BY <1>1, <2>2, <2>4, <2>5, <2>6, RoundMovesAgrees
<1>12. ASSUME NEW c \in round.group, CommitWalk(c) \/ CommitClamp(c)
       PROVE  Agrees'
  <2>1. round.pc = "commit" /\ Leave(c) /\ c \in round.left
    BY <1>2, <1>12 DEF CommitWalk, CommitClamp, BackfillerTypeOK
  <2>2. WalkMoves(c)
        /\ ((backfill'[c].done => backfill'[c].nextTo < backfill'[c].targetFrom) \/ Healing = {})
    BY <1>12, CommitWalkMoves, CommitClampMoves
  <2>3. RoundAgrees' /\ GroupAgrees' /\ (Clamping' => Clamping)
    <3>1. \A d \in round.left \ {c} : d \in DOMAIN backfill' /\ backfill'[d] = backfill[d]
      BY <1>3, <2>1, <2>2 DEF WalkMoves
    <3>2. UNCHANGED <<contracts, gaps>>
      BY <2>2 DEF WalkMoves
    <3> QED BY <1>2, <2>1, <3>1, <3>2, LeaveAgrees
  <2> QED BY <1>1, <1>2, <1>3, <2>1, <2>2, <2>3, ChunkAgrees DEF WalkMoves
<1>13. ASSUME NEW c \in round.group, CommitFails(c)
       PROVE  Agrees'
  <2>1. round.pc = "commit" /\ Leave(c) /\ UNCHANGED storeVars
    BY <1>13 DEF CommitFails
  <2>2. RoundAgrees' /\ GroupAgrees' /\ (Clamping' => Clamping)
    BY <1>2, <1>3, <1>4, <2>1, LeaveAgrees
  <2> QED BY <1>1, <1>2, <2>1, <2>2, RoundMovesAgrees
<1> QED BY <1>1, <1>5, <1>6, <1>7, <1>8, <1>9, <1>10, <1>11, <1>12, <1>13 DEF BackfillerNext

-----------------------------------------------------------------------------
(* The invariant.                                                          *)

LEMMA CoverageInit == Init => CoverageInv
<1> SUFFICES ASSUME Init PROVE CoverageInv
  OBVIOUS
<1>1. /\ cursor = 0 /\ contracts = <<>> /\ backfill = <<>> /\ snap = <<>>
      /\ req = NoRequest /\ round = NoRound /\ healer = [w \in Workers |-> IdleWorker]
  BY DEF Init, StoreInit, BackfillerInit, HealerInit, AdminInit
<1>2. DOMAIN contracts = {} /\ DOMAIN backfill = {} /\ req.pc = "idle" /\ snap = contracts
  BY <1>1 DEF NoRequest
<1>3. WorkersIdle
  BY <1>1 DEF WorkersIdle, NoRound, IdleWorker
<1>4. RoundAgrees /\ GroupAgrees /\ WorkersHonest /\ ~Clamping
  BY <1>3, IdleAgrees
<1>5. BeforeFirstLedger /\ Discipline /\ WalksMatch /\ StaleOnlyAhead /\ AnchorAhead /\ RowsHonest
  BY <1>2, <1>3, <1>4 DEF BeforeFirstLedger, Discipline, WalksMatch, Serving, StaleOnlyAhead,
     AnchorAhead, RowsHonest
<1> QED BY <1>4, <1>5, InitInv DEF CoverageInv, Agrees

LEMMA CoverageNext ==
    ASSUME Quiet
    PROVE  CoverageInv /\ [Next]_vars => CoverageInv'
<1> SUFFICES ASSUME CoverageInv, [Next]_vars PROVE CoverageInv'
  OBVIOUS
<1>1. IndInv'
  BY NextInv DEF CoverageInv
<1> SUFFICES Agrees'
  BY <1>1 DEF CoverageInv
<1>2. CASE Live
  BY <1>2, LiveFirstAgrees, LiveNextAgrees DEF Live
<1>3. CASE Reload
  BY <1>3, ReloadAgrees
<1>4. ~ReloadFails /\ ~RegisterFails
  BY DEF Quiet, Permits, ReloadFails, RegisterFails
<1>5. CASE RegisterContinues
  BY <1>5, AnchorWalkAgrees, PlanWalkAgrees DEF RegisterContinues
<1>6. CASE Register \/ Unregister \/ Plan
  BY <1>6, RegisterAgrees, UnregisterAgrees, PlanAgrees
<1>7. CASE Backfill
  BY <1>1, <1>7, BackfillAgrees
<1>8. CASE Heal
  BY <1>1, <1>8, HealAgrees
<1>9. CASE Source
  BY <1>9, UnmovedAgrees DEF Source
<1>10. CASE Crash
  BY <1>10, CrashAgrees
<1>11. CASE UNCHANGED vars
  <2>1. UNCHANGED <<storeVars, round, snap, healer, req, unseen>>
    BY <1>11 DEF vars, storeVars
  <2> QED BY <2>1, UnmovedAgrees
<1> QED
  BY <1>2, <1>3, <1>4, <1>5, <1>6, <1>7, <1>8, <1>9, <1>10, <1>11 DEF Next, AdminStep

\* Every ledger the API vouches for was derived, whatever the order in which
\* the live loop, the backfiller and the healer got there, across crashes,
\* re-registrations and plans, for any number of contracts, kinds and workers,
\* any chunk sizes and any chain, as long as requests are served between
\* chunks and no other race of Indexer is met.
THEOREM CoverageIsHonest ==
    ASSUME Quiet
    PROVE  Spec => []CoverageHonest
<1>1. CoverageInv => CoverageHonest
  <2> SUFFICES ASSUME CoverageInv, NEW c \in DOMAIN contracts \cap DOMAIN backfill,
                      NEW k \in contracts[c] \cap backfill[c].covered, NEW l \in Vouched(c)
               PROVE  l \in derived[c][k]
    BY DEF CoverageHonest
  <2>1. backfill[c] \in BackfillRow /\ cursor \in 0..MaxLedger
    BY Tables DEF CoverageInv
  <2>2. l \in Ledgers /\ backfill[c].nextTo < l /\ l <= cursor
    BY <2>1, MaxLedgerAssumption DEF Vouched, BackfillRow, Frontier, Ledgers
  <2>3. Honest(backfill[c], Claims(c), derived[c], Owed(gaps), cursor)
    BY DEF CoverageInv, Agrees, RowsHonest
  <2>4. Has(Claims(c), derived[c], l)
    BY <2>2, <2>3 DEF Honest
  <2> QED BY <2>4 DEF Has, Claims
<1> QED BY <1>1, CoverageInit, CoverageNext, PTL DEF Spec

\* Gap first, then the work: a finished walk leaves no ledger above its target
\* to nobody.  What it does not vouch for is owed by an open gap, or was
\* derived all the same.
THEOREM NothingIsLost ==
    ASSUME Quiet
    PROVE  Spec => []NothingLost
<1>1. CoverageInv => NothingLost
  <2> SUFFICES ASSUME CoverageInv, NEW c \in DOMAIN contracts \cap DOMAIN backfill,
                      backfill[c].done,
                      NEW l \in backfill[c].targetFrom..Min({backfill[c].nextTo, MaxLedger}),
                      ~\E id \in Open(gaps) : l \in Remainder(gaps, id)
               PROVE  \A k \in contracts[c] \cap backfill[c].covered : l \in derived[c][k]
    BY DEF NothingLost
  <2>1. backfill[c] \in BackfillRow
    BY Tables DEF CoverageInv
  <2>2. backfill[c].nextTo \in Int /\ backfill[c].targetFrom \in Int
        /\ backfill[c].targetFrom >= 1 /\ MaxLedger \in Int
    BY <2>1, MaxLedgerAssumption DEF BackfillRow, Frontier, Ledgers
  <2>3. Min({backfill[c].nextTo, MaxLedger})
          = IF backfill[c].nextTo <= MaxLedger THEN backfill[c].nextTo ELSE MaxLedger
    BY <2>2, MinPair
  <2>4. l \in Ledgers /\ backfill[c].targetFrom <= l /\ l <= backfill[c].nextTo
    BY <2>2, <2>3 DEF Ledgers
  <2>5. l \notin Owed(gaps)
    BY DEF Owed
  <2>6. Honest(backfill[c], Claims(c), derived[c], Owed(gaps), cursor)
    BY DEF CoverageInv, Agrees, RowsHonest
  <2>7. Has(Claims(c), derived[c], l)
    BY <2>4, <2>5, <2>6 DEF Honest
  <2> QED BY <2>7 DEF Has, Claims
<1> QED BY <1>1, CoverageInit, CoverageNext, PTL DEF Spec

-----------------------------------------------------------------------------
(* The process implements Coverage.                                        *)

\* What the API vouches for, by contract and kind.
VouchedFor(c, k) ==
    IF c \in DOMAIN contracts \cap DOMAIN backfill /\ k \in contracts[c] \cap backfill[c].covered
    THEN Vouched(c) ELSE {}

\* Rows are only ever added.
DerivedGrows == \A c \in Contracts : \A k \in Kinds : derived[c][k] \subseteq derived'[c][k]

LEMMA DeriveOnlyAdds ==
    ASSUME NEW watch, NEW range, Derive(watch, range)
    PROVE  DerivedGrows
  BY DEF Derive, DerivedGrows

\* What is vouched for was derived, by contract and kind.
LEMMA VouchedIsDerived ==
    ASSUME CoverageInv', NEW c \in Contracts, NEW k \in Kinds
    PROVE  VouchedFor(c, k)' \subseteq derived'[c][k]
<1> SUFFICES ASSUME (c \in DOMAIN contracts \cap DOMAIN backfill)',
                    (k \in contracts[c] \cap backfill[c].covered)', NEW l \in Vouched(c)'
             PROVE  l \in derived'[c][k]
  BY DEF VouchedFor
<1>1. backfill'[c] \in BackfillRow /\ cursor' \in 0..MaxLedger
  BY TablesNext DEF CoverageInv
<1>2. l \in Ledgers /\ backfill'[c].nextTo < l /\ l <= cursor'
  BY <1>1, MaxLedgerAssumption DEF Vouched, BackfillRow, Frontier, Ledgers
<1>3. Honest(backfill'[c], Claims(c)', derived'[c], Owed(gaps'), cursor')
  BY DEF CoverageInv, Agrees, RowsHonest
<1>4. Has(Claims(c)', derived'[c], l)
  BY <1>2, <1>3 DEF Honest
<1> QED BY <1>4 DEF Has, Claims

\* A step that moves no claim up and leaves the request alone indexes.
LEMMA StepIndexes ==
    ASSUME CoverageInv, CoverageInv', req'.pc = req.pc, contracts' = contracts,
           cursor <= cursor', DOMAIN backfill' = DOMAIN backfill,
           \A c \in DOMAIN backfill : backfill'[c].covered = backfill[c].covered
                                      /\ backfill'[c].nextTo <= backfill[c].nextTo,
           DerivedGrows
    PROVE  Promise!Index
<1>1. ASSUME NEW c \in Contracts, NEW k \in Kinds
      PROVE  VouchedFor(c, k) \subseteq VouchedFor(c, k)'
  <2> SUFFICES ASSUME c \in DOMAIN contracts \cap DOMAIN backfill,
                      k \in contracts[c] \cap backfill[c].covered, NEW l \in Vouched(c)
               PROVE  l \in VouchedFor(c, k)'
    BY DEF VouchedFor
  <2>1. VouchedFor(c, k)' = (backfill'[c].nextTo + 1)..cursor'
    BY DEF VouchedFor, Vouched
  <2>2. backfill[c].nextTo \in Int /\ backfill'[c].nextTo \in Int /\ cursor \in Int /\ cursor' \in Int
    BY Tables, TablesNext DEF CoverageInv, BackfillRow, Frontier
  <2> QED BY <2>1, <2>2 DEF Vouched
<1>2. \A c \in Contracts : \A k \in Kinds : VouchedFor(c, k)' \subseteq derived'[c][k]
  BY VouchedIsDerived
<1>3. Promise!Within(derived, derived')
  BY DEF Promise!Within, Promise!Pairs, DerivedGrows
<1> DEFINE v == [c \in Contracts |-> [k \in Kinds |-> VouchedFor(c, k)]]
<1>4. Promise!Within(v, v')
  BY <1>1 DEF Promise!Within, Promise!Pairs
<1>5. Promise!Within(v', derived')
  BY <1>2 DEF Promise!Within, Promise!Pairs
<1>6. (req.pc # "idle")' = (req.pc # "idle")
  OBVIOUS
<1> QED BY <1>3, <1>4, <1>5, <1>6 DEF Promise!Index, VouchedFor

\* A step of a request, which takes claims back or begins them on what is
\* derived already, serves.
LEMMA StepServes ==
    ASSUME req.pc # "idle" \/ req'.pc # "idle", derived' = derived,
           \A c \in Contracts : \A k \in Kinds :
              \/ VouchedFor(c, k)' \subseteq VouchedFor(c, k)
              \/ VouchedFor(c, k) = {} /\ VouchedFor(c, k)' \subseteq derived[c][k]
    PROVE  Promise!Serve
<1> DEFINE v == [c \in Contracts |-> [k \in Kinds |-> VouchedFor(c, k)]]
<1>1. \A p \in Contracts \X Kinds :
         \/ v'[p[1]][p[2]] \subseteq v[p[1]][p[2]]
         \/ v[p[1]][p[2]] = {} /\ v'[p[1]][p[2]] \subseteq derived[p[1]][p[2]]
  OBVIOUS
<1>2. (req.pc # "idle") \/ (req.pc # "idle")'
  OBVIOUS
<1> QED
  BY <1>1, <1>2 DEF Promise!Serve, Promise!TakenBack, Promise!Begun, Promise!Pairs, VouchedFor

\* A step that leaves the tables alone, while a request is served or not.
LEMMA StepLeavesTables ==
    ASSUME CoverageInv, CoverageInv', UNCHANGED storeVars
    PROVE  Promise!Next
<1>1. UNCHANGED <<cursor, contracts, backfill, derived>>
  BY DEF storeVars
<1>2. CASE req.pc = "idle" /\ req'.pc = "idle"
  <2>1. cursor \in Int /\ \A c \in DOMAIN backfill : backfill[c].nextTo \in Int
    BY Tables DEF CoverageInv, BackfillRow, Frontier
  <2>2. DerivedGrows
    BY <1>1 DEF DerivedGrows
  <2>3. Promise!Index
    BY <1>1, <1>2, <2>1, <2>2, StepIndexes
  <2> QED BY <2>3 DEF Promise!Next
<1>3. CASE req.pc # "idle" \/ req'.pc # "idle"
  <2>1. \A c \in Contracts : \A k \in Kinds : VouchedFor(c, k)' \subseteq VouchedFor(c, k)
    BY <1>1 DEF VouchedFor, Vouched
  <2>2. Promise!Serve
    BY <1>1, <1>3, <2>1, StepServes
  <2> QED BY <2>2 DEF Promise!Next
<1> QED BY <1>2, <1>3

\* The calls of a registration and the removal of one.
LEMMA RequestServes ==
    ASSUME Quiet, CoverageInv, CoverageInv', Register \/ RegisterContinues \/ Unregister
    PROVE  Promise!Next
<1>1. CASE Register
  <2>1. PICK c \in Contracts, target \in Ledgers, kinds \in KindSet :
           RegisterContract(c, target, kinds)
    BY <1>1, TargetsAssumption DEF Register
  <2>2. /\ contracts' = [d \in DOMAIN contracts \cup {c} |->
                           IF d = c THEN kinds ELSE contracts[d]]
        /\ UNCHANGED <<cursor, backfill, derived>> /\ req.pc = "idle" /\ req'.pc # "idle"
    BY <2>1 DEF RegisterContract, UpsertContract
  <2>3. DOMAIN backfill \subseteq DOMAIN contracts
        /\ \A d \in DOMAIN backfill : backfill[d].covered = contracts[d]
    BY <2>2 DEF CoverageInv, Agrees, WalksMatch, Serving
  <2>4. \A d \in Contracts : \A k \in Kinds : VouchedFor(d, k)' \subseteq VouchedFor(d, k)
    BY <2>2, <2>3 DEF VouchedFor, Vouched
  <2>5. Promise!Serve
    BY <2>2, <2>4, StepServes
  <2> QED BY <2>5 DEF Promise!Next
<1>2. CASE AnchorWalk
  BY <1>2, StepLeavesTables DEF AnchorWalk
<1>3. CASE PlanWalk
  <2>1. /\ UNCHANGED <<cursor, contracts, derived>> /\ req.pc # "idle"
        /\ DOMAIN backfill' = DOMAIN backfill \cup {req.c}
        /\ \A d \in DOMAIN backfill : d # req.c => backfill'[d] = backfill[d]
        /\ req.c \in DOMAIN backfill => backfill[req.c].nextTo <= backfill'[req.c].nextTo
    BY <1>3, PlanWalkRows
  <2>2. ASSUME NEW c \in Contracts, NEW k \in Kinds
        PROVE  \/ VouchedFor(c, k)' \subseteq VouchedFor(c, k)
               \/ VouchedFor(c, k) = {} /\ VouchedFor(c, k)' \subseteq derived[c][k]
    <3>1. CASE c # req.c
      BY <2>1, <3>1 DEF VouchedFor, Vouched
    <3>2. CASE ~(c \in DOMAIN contracts \cap DOMAIN backfill
                   /\ k \in contracts[c] \cap backfill[c].covered)
      <4>1. VouchedFor(c, k) = {}
        BY <3>2 DEF VouchedFor
      <4> QED BY <2>1, <4>1, VouchedIsDerived
    <3>3. CASE c = req.c /\ c \in DOMAIN contracts \cap DOMAIN backfill
                /\ k \in contracts[c] \cap backfill[c].covered
      <4>1. /\ backfill[c].nextTo \in Int /\ backfill'[c].nextTo \in Int /\ cursor \in Int
            /\ backfill[c].nextTo <= backfill'[c].nextTo
        BY <2>1, <3>3, Tables, TablesNext DEF CoverageInv, BackfillRow, Frontier
      <4>2. (backfill'[c].nextTo + 1)..cursor \subseteq (backfill[c].nextTo + 1)..cursor
        BY <4>1
      <4>3. VouchedFor(c, k) = (backfill[c].nextTo + 1)..cursor
        BY <3>3 DEF VouchedFor, Vouched
      <4>4. VouchedFor(c, k)' \subseteq (backfill'[c].nextTo + 1)..cursor
        BY <2>1 DEF VouchedFor, Vouched
      <4> QED BY <4>2, <4>3, <4>4
    <3> QED BY <3>1, <3>2, <3>3
  <2>3. Promise!Serve
    BY <2>1, <2>2, StepServes
  <2> QED BY <2>3 DEF Promise!Next
<1>4. CASE Unregister
  <2>1. PICK c \in Contracts : UnregisterContract(c)
    BY <1>4 DEF Unregister
  <2>2. /\ contracts' = [d \in DOMAIN contracts \ {c} |-> contracts[d]]
        /\ backfill' = [d \in DOMAIN backfill \ {c} |-> backfill[d]]
        /\ UNCHANGED <<cursor, derived>> /\ req'.pc # "idle"
    BY <2>1 DEF UnregisterContract, DeleteContract, NoRequest
  <2>3. \A d \in Contracts : \A k \in Kinds : VouchedFor(d, k)' \subseteq VouchedFor(d, k)
    BY <2>2 DEF VouchedFor, Vouched
  <2>4. Promise!Serve
    BY <2>2, <2>3, StepServes
  <2> QED BY <2>4 DEF Promise!Next
<1> QED BY <1>1, <1>2, <1>3, <1>4 DEF RegisterContinues

\* The loop, the plans and the workers index.
LEMMA WorkIndexes ==
    ASSUME Quiet, CoverageInv, CoverageInv', Live \/ Plan \/ Backfill \/ Heal
    PROVE  Promise!Next
<1>1. /\ cursor \in Nat
      /\ \A c \in DOMAIN backfill : backfill[c] \in BackfillRow /\ backfill[c].nextTo \in Int
      /\ \A c \in DOMAIN backfill : backfill[c].nextTo <= backfill[c].nextTo
  BY Tables DEF CoverageInv, BackfillRow, Frontier
<1> SUFFICES Promise!Index \/ UNCHANGED storeVars
  BY StepLeavesTables DEF Promise!Next
<1>2. CASE Live
  <2>1. PICK seq \in Int : CommitLedger(seq, snap) /\ req' = req
    <3>1. CASE LiveFirst
      BY <3>1 DEF LiveFirst
    <3>2. CASE LiveNext
      BY <1>1, <3>2 DEF LiveNext
    <3> QED BY <1>2, <3>1, <3>2 DEF Live
  <2>2. DerivedGrows /\ UNCHANGED <<contracts, backfill>> /\ cursor' = Max({cursor, seq})
    BY <2>1, DeriveOnlyAdds DEF CommitLedger
  <2>3. Max({cursor, seq}) = IF cursor >= seq THEN cursor ELSE seq
    BY <1>1, MaxPair
  <2>4. cursor <= cursor'
    BY <1>1, <2>2, <2>3
  <2> QED BY <1>1, <2>1, <2>2, <2>4, StepIndexes
<1>3. CASE Plan
  <2>1. PICK wanted \in Plans : SubmitPlan(wanted)
    BY <1>3 DEF Plan
  <2>2. /\ backfill' = [c \in DOMAIN backfill |-> RepointClamp(backfill[c], wanted)]
        /\ UNCHANGED <<cursor, contracts, derived, req>>
    BY <2>1 DEF SubmitPlan, PlanHeal
  <2>3. DOMAIN backfill' = DOMAIN backfill
        /\ \A c \in DOMAIN backfill : backfill'[c].covered = backfill[c].covered
                                      /\ backfill'[c].nextTo = backfill[c].nextTo
    BY <1>1, <2>2, RepointClampFrame
  <2>4. DerivedGrows /\ cursor <= cursor'
    BY <1>1, <2>2 DEF DerivedGrows
  <2> QED BY <1>1, <2>2, <2>3, <2>4, StepIndexes
<1>4. CASE Heal
  <2>1. snap = contracts /\ UNCHANGED req
    BY <1>4, NoRequestUnderWork
  <2>2. PICK w \in Workers : work(w)
    BY <1>4 DEF Heal, HealerNext
  <2>3. CASE healChunk(w)
    <3>1. /\ UNCHANGED <<cursor, contracts>> /\ DOMAIN backfill' = DOMAIN backfill
          /\ \A c \in DOMAIN backfill : backfill'[c].covered = backfill[c].covered
                                        /\ backfill'[c].nextTo <= backfill[c].nextTo
      BY <2>1, <2>3, HealChunkRows
    <3>2. DerivedGrows /\ cursor <= cursor'
      BY <1>1, <2>3, <3>1, DeriveOnlyAdds DEF healChunk, CommitHealChunk
    <3> QED BY <2>1, <3>1, <3>2, StepIndexes
  <2> QED BY <2>2, <2>3 DEF work, ListOpenGaps, claim, NothingToClaim, healChunkFails
<1>5. CASE Backfill
  <2>1. UNCHANGED req /\ BackfillerNext
    BY <1>5 DEF Backfill
  <2>2. ASSUME NEW c, c \in round.left \/ c \in round.group,
               CloseEmptyWalk(c) \/ CommitWalk(c) \/ CommitClamp(c)
        PROVE  Promise!Index
    <3>1. WalkMoves(c) /\ c \in DOMAIN backfill
      BY <2>2, CloseEmptyMoves, CommitWalkMoves, CommitClampMoves
      DEF CloseEmptyWalk, EmptyJobs, CommitWalk, CommitClamp, CommitBackfillChunk
    <3>2. /\ UNCHANGED <<cursor, contracts>> /\ DOMAIN backfill' = DOMAIN backfill
          /\ \A d \in DOMAIN backfill : backfill'[d].covered = backfill[d].covered
                                        /\ backfill'[d].nextTo <= backfill[d].nextTo
      BY <1>1, <3>1 DEF WalkMoves
    <3>3. DerivedGrows /\ cursor <= cursor'
      BY <1>1, <2>2, <3>2, DeriveOnlyAdds
      DEF CloseEmptyWalk, CommitWalk, CommitClamp, CommitBackfillChunk
    <3> QED BY <2>1, <3>2, <3>3, StepIndexes
  <2>3. ASSUME NEW t \in round.targets, RecordClampGap(t)
        PROVE  Promise!Index
    <3>1. UNCHANGED <<cursor, contracts, backfill, derived>>
      BY <2>3 DEF RecordClampGap, RecordGap
    <3>2. DerivedGrows /\ cursor <= cursor'
      BY <1>1, <3>1 DEF DerivedGrows
    <3> QED BY <1>1, <2>1, <3>1, <3>2, StepIndexes
  <2> QED
    BY <2>1, <2>2, <2>3 DEF BackfillerNext, List, CloseEmptyWalkFails, ScanCached, Scan,
       ScanFails, HitWall, ScanAbove, AbandonClamp, CommitFails
<1> QED BY <1>2, <1>3, <1>4, <1>5

LEMMA PromiseInit == Init => Promise!Init
<1> SUFFICES ASSUME Init PROVE Promise!Init
  OBVIOUS
<1>1. /\ contracts = <<>> /\ req = NoRequest
      /\ derived = [c \in Contracts |-> [k \in Kinds |-> {}]]
  BY DEF Init, StoreInit, AdminInit
<1>2. DOMAIN contracts = {} /\ ~(req.pc # "idle")
  BY <1>1 DEF NoRequest
<1> QED BY <1>1, <1>2 DEF Promise!Init, Promise!Nothing

LEMMA PromiseNext ==
    ASSUME Quiet
    PROVE  CoverageInv /\ CoverageInv' /\ [Next]_vars => [Promise!Next]_(Promise!vars)
<1> SUFFICES ASSUME CoverageInv, CoverageInv', [Next]_vars PROVE Promise!Next
  OBVIOUS
<1>1. ~ReloadFails /\ ~RegisterFails
  BY DEF Quiet, Permits, ReloadFails, RegisterFails
<1>2. Reload \/ Source \/ Crash \/ UNCHANGED vars => UNCHANGED storeVars
  BY DEF Reload, Source, Crash, vars, storeVars
<1> QED BY <1>1, <1>2, StepLeavesTables, RequestServes, WorkIndexes DEF Next, AdminStep

\* The ingesting process implements Coverage: every step indexes, and then
\* takes back no ledger it vouched for and vouches for none it does not have,
\* or serves a request of the operator.  This is the promise of README and
\* DESIGN for every instance, under the same discipline.
THEOREM CoverageImplemented ==
    ASSUME Quiet
    PROVE  Spec => ImplementsCoverage
  BY CoverageInit, CoverageNext, PromiseInit, PromiseNext, PTL
  DEF Spec, ImplementsCoverage, Promise!Spec

=============================================================================
