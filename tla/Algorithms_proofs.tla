-------------------------- MODULE Algorithms_proofs --------------------------
(***************************************************************************)
(* The loops of PlanAlgebra, the derivation of Extraction, the cursors of  *)
(* PageCursor and the walk of Classifier, for every range, ledger, request *)
(* and module.                                                             *)
(***************************************************************************)
EXTENDS PlanAlgebra, Extraction, PageCursor, Classifier, WellFoundedInduction, TLAPS

-----------------------------------------------------------------------------
(* normalizePlan.                                                          *)

LEMMA DivMod ==
    ASSUME NEW f \in Nat \ {0}, NEW a \in Nat
    PROVE  /\ a \div f \in Nat /\ a % f \in 0..(f - 1)
           /\ a = f * (a \div f) + (a % f)
  BY Z3

\* The quotient is the only number with a remainder below the divisor.
LEMMA Quotient ==
    ASSUME NEW f \in Nat \ {0}, NEW a \in Nat, NEW q \in Nat
    PROVE  f * q <= a /\ a < f * q + f <=> a \div f = q
<1>1. /\ a \div f \in Nat /\ a % f \in 0..(f - 1)
      /\ a = f * (a \div f) + (a % f)
  BY DivMod
<1> DEFINE d == a \div f
<1>2. f * d <= a /\ a < f * d + f
  BY <1>1
<1> HIDE DEF d
<1>3. d \in Nat BY <1>1 DEF d
<1>4. ASSUME q < d PROVE f * q + f <= f * d
  BY <1>3, <1>4
<1>5. ASSUME d < q PROVE f * d + f <= f * q
  BY <1>3, <1>5
<1>6. f * d \in Nat /\ f * q \in Nat
  BY <1>3
<1>7. q < d \/ d < q \/ q = d
  BY <1>3
<1>8. CASE q < d
  BY <1>2, <1>3, <1>4, <1>6, <1>8 DEF d
<1>9. CASE d < q
  BY <1>2, <1>3, <1>5, <1>6, <1>9 DEF d
<1> QED BY <1>2, <1>7, <1>8, <1>9 DEF d
LEMMA QuotientsOrdered ==
    ASSUME NEW f \in Nat \ {0}, NEW p \in Nat, NEW q \in Nat
    PROVE  /\ f * p \in Nat /\ f * q \in Nat
           /\ p <= q <=> f * p <= f * q
           /\ p < q <=> f * p + f <= f * q
<1>1. f * p \in Nat /\ f * q \in Nat
  OBVIOUS
<1>2. ASSUME p < q PROVE f * p + f <= f * q
  BY <1>2
<1>3. ASSUME q < p PROVE f * q + f <= f * p
  BY <1>3
<1>4. p = q => f * p = f * q
  OBVIOUS
<1>5. p < q \/ q < p \/ p = q
  OBVIOUS
<1> QED BY <1>1, <1>2, <1>3, <1>4, <1>5

\* Padding and snapping give the checkpoints of the padded interval, whole.
LEMMA PadSnaps ==
    ASSUME NEW id \in GapId, NEW padding \in 0..MaxLedger
    PROVE  /\ Pad(id, padding) \in GapId
           /\ Span(Pad(id, padding))
                = {l \in Ledgers : \E a \in Span(Pad_NoSnap(id, padding)) :
                      l \div checkpointFrequency = a \div checkpointFrequency}
<1> DEFINE f == checkpointFrequency
           from == IF id[1] > padding THEN id[1] - padding ELSE 1
           to == IF id[2] < MaxLedger - padding THEN Plus(id[2], padding) ELSE MaxLedger
           low == from - (from % f)
           pad == f - 1 - (to % f)
           high == IF to < MaxLedger - pad THEN Plus(to, pad) ELSE MaxLedger
           top == f * (to \div f) + f - 1
<1>1. /\ f \in Nat \ {0} /\ MaxLedger \in Nat \ {0} /\ (MaxLedger + 1) % f = 0
      /\ id[1] \in 1..MaxLedger /\ id[2] \in 1..MaxLedger /\ id[1] <= id[2]
  BY PlanAssumption, MaxLedgerAssumption DEF GapId, Ledgers
<1>2. \A x \in 0..MaxLedger : x % (MaxLedger + 1) = x
  BY <1>1
<1>3. from \in Nat /\ to \in Nat /\ 1 <= from /\ from <= to /\ to <= MaxLedger
  BY <1>1, <1>2 DEF Plus
<1> HIDE DEF from, to, f
<1>4. /\ from \div f \in Nat /\ low = f * (from \div f) /\ low <= from
      /\ to \div f \in Nat /\ top = to + pad /\ pad \in Nat /\ to <= top
  <2>1. /\ from \div f \in Nat /\ from % f \in 0..(f - 1)
        /\ from = f * (from \div f) + (from % f)
    BY <1>1, <1>3, DivMod
  <2>2. /\ to \div f \in Nat /\ to % f \in 0..(f - 1)
        /\ to = f * (to \div f) + (to % f)
    BY <1>1, <1>3, DivMod
  <2>3. f * (from \div f) \in Nat /\ f * (to \div f) \in Nat
    BY <1>1, <2>1, <2>2, QuotientsOrdered
  <2>4. ASSUME NEW x \in Nat, NEW d \in Nat, NEW m \in 0..(f - 1), x = d + m
        PROVE  x - m = d /\ d <= x /\ f - 1 - m \in Nat /\ d + f - 1 = x + (f - 1 - m)
    BY <1>1, <2>4
  <2> HIDE DEF low, pad, top
  <2>5. from - (from % f) = f * (from \div f) /\ f * (from \div f) <= from
    BY <1>3, <2>1, <2>3, <2>4
  <2>6. f - 1 - (to % f) \in Nat /\ f * (to \div f) + f - 1 = to + (f - 1 - (to % f))
    BY <1>3, <2>2, <2>3, <2>4
  <2>7. low = f * (from \div f) /\ low <= from
    BY <2>5 DEF low
  <2>8. pad \in Nat /\ top = to + pad
    BY <2>6 DEF pad, top
  <2> QED BY <1>3, <2>1, <2>2, <2>7, <2>8
<1>5. top <= MaxLedger
  <2> DEFINE m == (MaxLedger + 1) \div f
  <2>1. m \in Nat /\ MaxLedger + 1 = f * m
    <3>0. MaxLedger + 1 \in Nat /\ f \in Nat \ {0}
      BY <1>1
    <3>1. m \in Nat /\ MaxLedger + 1 = f * m + ((MaxLedger + 1) % f)
      BY ONLY <3>0, DivMod
    <3> HIDE DEF m
    <3>2. f * m \in Nat
      BY <1>1, <3>1
    <3> QED BY <1>1, <3>0, <3>1, <3>2
  <2> HIDE DEF m
  <2>2. to \div f < m
    <3>1. f * (to \div f) <= to
      BY <1>1, <1>3, Quotient
    <3>2. f * (to \div f) < f * m
      BY <1>1, <1>3, <1>4, <2>1, <3>1, QuotientsOrdered
    <3> QED BY <1>1, <1>4, <2>1, <3>2, QuotientsOrdered
  <2>3. f * (to \div f) + f <= f * m
    BY <1>1, <1>4, <2>1, <2>2, QuotientsOrdered
  <2>4. f * (to \div f) \in Nat
    BY <1>1, <1>4, QuotientsOrdered
  <2> QED BY <1>1, <2>1, <2>3, <2>4
<1>6. low \in Nat /\ top \in Nat
  BY <1>1, <1>3, <1>4, QuotientsOrdered
<1> HIDE DEF low, top, pad
<1>7. high = top
  BY <1>1, <1>2, <1>3, <1>4, <1>5, <1>6 DEF Plus
<1> HIDE DEF high
<1>8. Pad(id, padding) = <<IF low = 0 THEN 1 ELSE low, high>>
  BY DEF Pad, low, high, pad, from, to, f
<1>9. Span(Pad_NoSnap(id, padding)) = from..to
  BY DEF Pad_NoSnap, Span, from, to
<1>10. Pad(id, padding) \in GapId
  BY <1>1, <1>3, <1>4, <1>5, <1>6, <1>7, <1>8 DEF GapId, Ledgers
<1>11. Span(Pad(id, padding)) = {l \in Ledgers : low <= l /\ l <= top}
  BY <1>1, <1>5, <1>6, <1>7, <1>8 DEF Span, Ledgers
<1>12. ASSUME NEW l \in Ledgers
       PROVE  low <= l /\ l <= top <=> \E a \in from..to : l \div f = a \div f
  <2> DEFINE q == l \div f
             r == from \div f
             s == to \div f
  <2>1. l \in Nat /\ q \in Nat /\ r \in Nat /\ s \in Nat
    <3>1. l \in Nat
      BY <1>1 DEF Ledgers
    <3>2. l \div f \in Nat
      BY <1>1, <3>1, DivMod
    <3> QED BY <1>4, <3>1, <3>2
  <2>2. f * q <= l /\ l < f * q + f /\ f * s <= to /\ to < f * s + f
        /\ f * r <= from /\ from < f * r + f
    BY <1>1, <1>3, <2>1, Quotient
  <2>3. low = f * r /\ top = f * s + f - 1
    BY <1>4 DEF top
  <2>4. f * q \in Nat /\ f * r \in Nat /\ f * s \in Nat
    BY <1>1, <2>1, QuotientsOrdered
  <2> HIDE DEF q, r, s
  <2>5. low <= l /\ l <= top <=> r <= q /\ q <= s
    <3>1. low <= l => r <= q
      <4>1. f * r < f * q + f => ~ (f * q + f <= f * r)
        BY <1>1, <2>4
      <4> QED BY <1>1, <2>1, <2>2, <2>3, <2>4, <4>1, QuotientsOrdered
    <3>2. l <= top => q <= s
      <4>1. f * q < f * s + f => ~ (f * s + f <= f * q)
        BY <1>1, <2>4
      <4> QED BY <1>1, <2>1, <2>2, <2>3, <2>4, <4>1, QuotientsOrdered
    <3>3. r <= q => low <= l
      BY <1>1, <2>1, <2>2, <2>3, <2>4, QuotientsOrdered
    <3>4. q <= s => l <= top
      <4>1. q <= s => f * q <= f * s
        BY <1>1, <2>1, QuotientsOrdered
      <4> QED BY <1>1, <2>1, <2>2, <2>3, <2>4, <4>1
    <3> QED BY <3>1, <3>2, <3>3, <3>4
  <2>6. ASSUME r <= q, q <= s PROVE \E a \in from..to : l \div f = a \div f
    <3>1. CASE q = r
      BY <1>3, <3>1 DEF q, r
    <3>2. CASE q = s
      BY <1>3, <3>2 DEF q, s
    <3>3. CASE r < q /\ q < s
      <4>1. f * r + f <= f * q /\ f * q + f <= f * s
        BY <1>1, <2>1, <3>3, QuotientsOrdered
      <4>2. l \in from..to
        BY <1>1, <1>3, <2>1, <2>2, <2>4, <4>1
      <4> QED BY <4>2
    <3> QED BY <2>1, <2>6, <3>1, <3>2, <3>3
  <2>7. ASSUME NEW a \in from..to, l \div f = a \div f PROVE r <= q /\ q <= s
    <3>1. a \in Nat /\ from <= a /\ a <= to /\ a \div f = q
      BY <1>3, <2>7 DEF q
    <3>2. f * q <= a /\ a < f * q + f
      BY <1>1, <2>1, <3>1, Quotient
    <3>3. ~ (f * q + f <= f * r) /\ ~ (f * s + f <= f * q)
      BY <1>1, <1>3, <2>2, <2>4, <3>1, <3>2
    <3> QED BY <1>1, <2>1, <3>3, QuotientsOrdered
  <2> QED BY <2>5, <2>6, <2>7
<1> QED BY <1>9, <1>10, <1>11, <1>12 DEF f

-----------------------------------------------------------------------------
\* b comes after a in a normalised plan: apart, unless a reaches the last
\* sequence number, where the comparison of the merge wraps.
Follows(a, b) == a[1] <= b[1] /\ (a[2] = MaxLedger \/ a[2] + 1 < b[1])

Ordered(merged) == \A i, j \in DOMAIN merged : i < j => Follows(merged[i], merged[j])

LEMMA MergeStep ==
    ASSUME NEW merged \in Seq(GapId), NEW iv \in GapId, Ordered(merged),
           \A i \in DOMAIN merged : merged[i][1] <= iv[1]
    PROVE  LET m == Merge(merged, iv)
           IN  /\ m \in Seq(GapId) /\ Ordered(m)
               /\ \A i \in DOMAIN m : m[i][1] <= iv[1]
               /\ Wanted(m) = Wanted(merged) \cup Span(iv)
<1> DEFINE n == Len(merged)
           last == merged[n]
           wide == <<last[1], IF iv[2] > last[2] THEN iv[2] ELSE last[2]>>
           m == Merge(merged, iv)
<1>1. n \in Nat /\ DOMAIN merged = 1..n /\ \A i \in 1..n : merged[i] \in GapId
  OBVIOUS
<1>2. \A id \in GapId : id[1] \in Int /\ id[2] \in Int /\ 1 <= id[1] /\ id[1] <= id[2] /\ id[2] <= MaxLedger
  BY MaxLedgerAssumption DEF GapId, Ledgers
<1>3. \A x \in 1..MaxLedger : Plus(x, 1) = IF x = MaxLedger THEN 0 ELSE x + 1
  <2>1. ASSUME NEW x \in 1..MaxLedger PROVE (x + 1) % (MaxLedger + 1) = IF x = MaxLedger THEN 0 ELSE x + 1
    BY MaxLedgerAssumption
  <2> QED BY <2>1 DEF Plus
<1>4. CASE merged # <<>> /\ iv[1] <= Plus(last[2], 1)
  <2>1. n \in 1..n /\ last \in GapId /\ last[1] <= iv[1]
    BY <1>1, <1>4
  <2>2. last[2] # MaxLedger /\ iv[1] <= last[2] + 1
    BY <1>2, <1>3, <1>4, <2>1
  <2>3. wide \in GapId /\ wide[1] = last[1] /\ wide[2] \in {iv[2], last[2]}
    BY <1>2, <2>1 DEF GapId, Ledgers
  <2>4. Span(wide) = Span(last) \cup Span(iv)
    BY <1>2, <2>1, <2>2 DEF Span
  <2>5. m = [merged EXCEPT ![n] = wide]
    BY <1>4 DEF Merge
  <2> HIDE DEF wide, m, last
  <2>6. m \in Seq(GapId) /\ DOMAIN m = 1..n /\ m[n] = wide /\ \A i \in 1..n : i # n => m[i] = merged[i]
    BY <1>1, <2>1, <2>3, <2>5
  <2>7. Ordered(m)
    <3> SUFFICES ASSUME NEW i \in 1..n, NEW j \in 1..n, i < j PROVE Follows(m[i], m[j])
      BY <2>6 DEF Ordered
    <3>1. Follows(merged[i], merged[j])
      BY <1>1 DEF Ordered
    <3>2. m[i] = merged[i] /\ m[j][1] = merged[j][1]
      BY <2>3, <2>6 DEF last
    <3> QED BY <3>1, <3>2 DEF Follows
  <2>8. \A i \in DOMAIN m : m[i][1] <= iv[1]
    BY <1>1, <2>1, <2>3, <2>6
  <2>9. Wanted(m) = Wanted(merged) \cup Span(iv)
    <3>1. ASSUME NEW l, NEW i \in 1..n, l \in Span(m[i]) PROVE l \in Wanted(merged) \cup Span(iv)
      BY <1>1, <2>1, <2>4, <2>6, <3>1 DEF Wanted, last
    <3>2. ASSUME NEW l, NEW i \in 1..n, l \in Span(merged[i]) PROVE l \in Wanted(m)
      BY <1>1, <2>1, <2>4, <2>6, <3>2 DEF Wanted, last
    <3>3. Span(iv) \subseteq Wanted(m)
      BY <2>1, <2>4, <2>6 DEF Wanted
    <3> QED BY <1>1, <2>6, <3>1, <3>2, <3>3 DEF Wanted
  <2> QED BY <2>6, <2>7, <2>8, <2>9 DEF m
<1>5. CASE ~ (merged # <<>> /\ iv[1] <= Plus(last[2], 1))
  <2>1. m = Append(merged, iv)
    BY <1>5 DEF Merge
  <2> HIDE DEF m
  <2>2. /\ m \in Seq(GapId) /\ DOMAIN m = 1..(n + 1) /\ m[n + 1] = iv
        /\ \A i \in 1..n : m[i] = merged[i]
    BY <1>1, <2>1
  <2>3. ASSUME NEW i \in 1..n PROVE Follows(merged[i], iv)
    <3>1. n \in 1..n /\ last \in GapId /\ merged[i] \in GapId /\ merged # <<>>
      BY <1>1
    <3>2. last[2] = MaxLedger \/ last[2] + 1 < iv[1]
      <4>1. last[2] \in 1..MaxLedger /\ ~ (iv[1] <= Plus(last[2], 1))
        BY <1>2, <1>5, <3>1, MaxLedgerAssumption
      <4> HIDE DEF last
      <4> QED BY <1>2, <1>3, <4>1
    <3>3. i = n \/ Follows(merged[i], last)
      <4>1. i \in DOMAIN merged /\ n \in DOMAIN merged
        BY <1>1, <3>1
      <4>2. ASSUME NEW k \in Nat, NEW h \in 1..k PROVE h = k \/ h < k
        OBVIOUS
      <4>3. i = n \/ i < n
        BY <1>1, <4>2
      <4> QED BY <4>1, <4>3 DEF Ordered
    <3>4. merged[i][1] <= iv[1] /\ last[1] <= iv[1]
      BY <1>1, <3>1
    <3> QED BY <1>2, <3>1, <3>2, <3>3, <3>4 DEF Follows
  <2>4. Ordered(m)
    <3> SUFFICES ASSUME NEW i \in 1..(n + 1), NEW j \in 1..(n + 1), i < j PROVE Follows(m[i], m[j])
      BY <2>2 DEF Ordered
    <3>1. CASE j = n + 1
      BY <1>1, <2>2, <2>3, <3>1
    <3>2. CASE j # n + 1
      BY <1>1, <2>2, <3>2 DEF Ordered
    <3> QED BY <3>1, <3>2
  <2>5. \A i \in DOMAIN m : m[i][1] <= iv[1]
    BY <1>1, <1>2, <2>2
  <2>6. Wanted(m) = Wanted(merged) \cup Span(iv)
    <3>1. ASSUME NEW l, NEW i \in 1..(n + 1), l \in Span(m[i]) PROVE l \in Wanted(merged) \cup Span(iv)
      BY <1>1, <2>2, <3>1 DEF Wanted
    <3>2. ASSUME NEW l, NEW i \in 1..n, l \in Span(merged[i]) PROVE l \in Wanted(m)
      BY <1>1, <2>2, <3>2 DEF Wanted
    <3>3. Span(iv) \subseteq Wanted(m)
      BY <1>1, <2>2 DEF Wanted
    <3> QED BY <1>1, <2>2, <3>1, <3>2, <3>3 DEF Wanted
  <2> QED BY <2>2, <2>4, <2>5, <2>6 DEF m
<1> QED BY <1>4, <1>5

PlanType ==
    plan \in [pc: {"idle", "merge"}, padding: 0..MaxLedger, asked: SUBSET GapId, n: Nat,
              key: Nat, merged: Seq(GapId)]

\* What the merge has made of the request met so far.
MergeInv ==
    /\ PlanType
    /\ Ordered(plan.merged)
    /\ \A i \in DOMAIN plan.merged : plan.merged[i][1] <= plan.key
    /\ PlanCoversAsked

LEMMA MergeInvInit == PlanInit => MergeInv
<1> SUFFICES ASSUME PlanInit PROVE MergeInv
  OBVIOUS
<1>1. plan = NotPlanning
  BY DEF PlanInit
<1>2. plan.merged = <<>> /\ plan.asked = {} /\ DOMAIN plan.merged = {}
  BY <1>1 DEF NotPlanning
<1>3. PlanType
  BY <1>1, MaxLedgerAssumption DEF PlanType, NotPlanning
<1> QED BY <1>2, <1>3 DEF MergeInv, Ordered, PlanCoversAsked, Wanted

LEMMA MergeInvNext == MergeInv /\ [PlanNext]_planVars => MergeInv'
<1> SUFFICES ASSUME MergeInv, [PlanNext]_planVars PROVE MergeInv'
  OBVIOUS
<1>1. CASE StartPlan
  <2>1. PICK padding \in Paddings : plan' = [NotPlanning EXCEPT !.pc = "merge", !.padding = padding]
    BY <1>1 DEF StartPlan
  <2>2. plan'.merged = <<>> /\ plan'.asked = {} /\ DOMAIN plan'.merged = {}
    BY <2>1 DEF NotPlanning
  <2>3. PlanType'
    <3>1. padding \in 0..MaxLedger
      BY PlanAssumption
    <3>2. plan' = [pc |-> "merge", padding |-> padding, asked |-> {}, n |-> 0, key |-> 0,
                   merged |-> <<>>]
      BY <2>1 DEF NotPlanning
    <3> QED BY <3>1, <3>2 DEF PlanType
  <2> QED BY <2>2, <2>3 DEF MergeInv, Ordered, PlanCoversAsked, Wanted
<1>2. CASE normalizePlan
  <2>1. PICK id \in GapId :
           LET iv == Pad(id, plan.padding)
           IN  /\ iv[1] >= plan.key
               /\ plan' = [plan EXCEPT !.asked = @ \cup {id}, !.n = @ + 1, !.key = iv[1],
                                       !.merged = Merge(@, iv)]
    BY <1>2 DEF normalizePlan
  <2> DEFINE iv == Pad(id, plan.padding)
             m == Merge(plan.merged, iv)
  <2>2. /\ plan.padding \in 0..MaxLedger /\ plan.asked \in SUBSET GapId /\ plan.n \in Nat
        /\ plan.merged \in Seq(GapId) /\ plan.key \in Nat
    BY DEF MergeInv, PlanType
  <2>3. /\ iv \in GapId
        /\ Span(iv) = {l \in Ledgers : \E a \in Span(Pad_NoSnap(id, plan.padding)) :
                          l \div checkpointFrequency = a \div checkpointFrequency}
    BY <2>2, PadSnaps
  <2>4. iv[1] \in Nat /\ \A i \in DOMAIN plan.merged : plan.merged[i][1] \in Nat
    BY <2>2, <2>3 DEF GapId, Ledgers
  <2> HIDE DEF iv
  <2>5. \A i \in DOMAIN plan.merged : plan.merged[i][1] <= iv[1]
    BY <2>1, <2>2, <2>4 DEF MergeInv, iv
  <2>6. /\ m \in Seq(GapId) /\ Ordered(m)
        /\ \A i \in DOMAIN m : m[i][1] <= iv[1]
        /\ Wanted(m) = Wanted(plan.merged) \cup Span(iv)
    BY <2>2, <2>3, <2>5, MergeStep DEF MergeInv
  <2> HIDE DEF m
  <2>7. plan' = [plan EXCEPT !.asked = @ \cup {id}, !.n = @ + 1, !.key = iv[1], !.merged = m]
    BY <2>1 DEF iv, m
  <2>8. /\ PlanType' /\ plan'.asked = plan.asked \cup {id} /\ plan'.padding = plan.padding
        /\ plan'.key = iv[1] /\ plan'.merged = m
    <3>1. plan.asked \cup {id} \in SUBSET GapId /\ plan.n + 1 \in Nat /\ PlanType
      BY <2>2 DEF MergeInv
    <3> QED BY <2>4, <2>6, <2>7, <3>1 DEF PlanType
  <2>9. PlanCoversAsked'
    <3>1. Wanted(plan.merged)
            = {l \in Ledgers : \E i \in plan.asked : \E a \in Span(Pad_NoSnap(i, plan.padding)) :
                  l \div checkpointFrequency = a \div checkpointFrequency}
      BY DEF MergeInv, PlanCoversAsked
    <3>2. Wanted(m)
            = {l \in Ledgers : \E i \in plan.asked \cup {id} : \E a \in Span(Pad_NoSnap(i, plan.padding)) :
                  l \div checkpointFrequency = a \div checkpointFrequency}
      BY <2>3, <2>6, <3>1, Zenon
    <3> QED BY <2>8, <3>2 DEF PlanCoversAsked
  <2> QED BY <2>6, <2>8, <2>9 DEF MergeInv
<1>3. CASE UNCHANGED plan
  BY <1>3 DEF MergeInv, PlanType, Ordered, PlanCoversAsked, Wanted
<1> QED
  BY <1>1, <1>2, <1>3 DEF PlanNext, planVars, StartCut, partitionLoop, StartHoles, uncoveredLoop,
     EndHoles, StartProbe, findWall, ProbeFails, Prune

-----------------------------------------------------------------------------
(* partition.                                                              *)

LEMMA IdBounds ==
    ASSUME NEW id \in GapId
    PROVE  /\ id[1] \in Int /\ id[2] \in Int /\ id = <<id[1], id[2]>>
           /\ 1 <= id[1] /\ id[1] <= id[2] /\ id[2] <= MaxLedger
  BY MaxLedgerAssumption DEF GapId, Ledgers

\* A maximal run that ends inside another is the other.
LEMMA RunsMeet ==
    ASSUME NEW S, NEW g \in Runs(S), NEW h \in Runs(S), h[2] \in Span(g)
    PROVE  h = g
<1>1. g \in GapId /\ h \in GapId
  BY DEF Runs
<1>2. /\ g[1] \in Int /\ g[2] \in Int /\ h[1] \in Int /\ h[2] \in Int
      /\ g = <<g[1], g[2]>> /\ h = <<h[1], h[2]>> /\ g[1] <= h[2] /\ h[2] <= g[2] /\ h[1] <= h[2]
  BY <1>1, IdBounds DEF Span
<1>3. h[2] = g[2]
  <2>1. h[2] < g[2] => h[2] + 1 \in Span(g)
    BY <1>2 DEF Span
  <2> QED BY <1>2, <2>1 DEF Runs
<1>4. h[1] = g[1]
  <2>1. h[1] < g[1] => g[1] - 1 \in Span(h)
    BY <1>2 DEF Span
  <2>2. g[1] < h[1] => h[1] - 1 \in Span(g)
    BY <1>2 DEF Span
  <2> QED BY <1>2, <2>1, <2>2 DEF Runs
<1> QED BY <1>2, <1>3, <1>4

\* The pieces of a cut that end before a ledger, as partition reports them.
PiecesBelow(range, wanted, cur) ==
    {<<p[1], p[2], PieceMode(p, wanted)>> : p \in {r \in partition(range, wanted) : r[2] < cur}}

\* A piece is the only one to end within it.
LEMMA NextPiece ==
    ASSUME NEW range, NEW wanted, NEW g \in partition(range, wanted)
    PROVE  PiecesBelow(range, wanted, g[2] + 1)
              = PiecesBelow(range, wanted, g[1]) \cup {<<g[1], g[2], PieceMode(g, wanted)>>}
<1> DEFINE P == partition(range, wanted)
           cur == g[1]
           end == g[2]
<1>1. \A r \in P : r \in GapId /\ r[1] \in Int /\ r[2] \in Int /\ Span(r) \subseteq range
                   /\ r[2] \in Span(r)
  <2>1. ASSUME NEW r \in P PROVE r \in GapId /\ Span(r) \subseteq range
    BY DEF partition, Runs
  <2> QED BY <2>1, IdBounds DEF Span
<1>2. \A r \in P : r[2] \in Span(g) => r = g
  <2> SUFFICES ASSUME NEW r \in P, r[2] \in Span(g) PROVE r = g
    OBVIOUS
  <2>1. CASE r \in Runs(range \cap wanted) /\ g \in Runs(range \cap wanted)
    BY <2>1, RunsMeet
  <2>2. CASE r \in Runs(range \ wanted) /\ g \in Runs(range \ wanted)
    BY <2>2, RunsMeet
  <2>3. CASE r \in Runs(range \cap wanted) /\ g \in Runs(range \ wanted)
    <3>1. r[2] \in wanted /\ r[2] \notin wanted
      BY <1>1, <2>3 DEF Runs
    <3> QED BY <3>1
  <2>4. CASE r \in Runs(range \ wanted) /\ g \in Runs(range \cap wanted)
    <3>1. r[2] \in wanted /\ r[2] \notin wanted
      BY <1>1, <2>4 DEF Runs
    <3> QED BY <3>1
  <2> QED BY <2>1, <2>2, <2>3, <2>4 DEF partition
<1>3. g \in P /\ cur \in Int /\ end \in Int /\ cur <= end
  BY <1>1, IdBounds
<1>4. {r \in P : r[2] < end + 1} = {r \in P : r[2] < cur} \cup {g}
  <2>1. ASSUME NEW r \in P PROVE r[2] < end + 1 <=> r[2] < cur \/ r = g
    <3>1. r[2] \in Int
      BY <1>1
    <3>2. r[2] \in Span(g) <=> cur <= r[2] /\ r[2] <= end
      BY <1>3, <3>1 DEF Span
    <3> QED BY <1>2, <1>3, <3>1, <3>2
  <2> QED BY <2>1
<1>5. PiecesBelow(range, wanted, end + 1)
         = {<<p[1], p[2], PieceMode(p, wanted)>> : p \in {r \in P : r[2] < cur} \cup {g}}
  BY <1>4 DEF PiecesBelow
<1> QED BY <1>5 DEF PiecesBelow

\* All pieces end within the range.
LEMMA AllPieces ==
    ASSUME NEW from \in Ledgers, NEW to \in Ledgers, NEW wanted
    PROVE  PiecesBelow(from..to, wanted, to + 1)
              = {<<p[1], p[2], PieceMode(p, wanted)>> : p \in partition(from..to, wanted)}
<1>1. \A r \in partition(from..to, wanted) : r[2] \in from..to
  <2>1. ASSUME NEW r \in partition(from..to, wanted) PROVE r \in GapId /\ Span(r) \subseteq from..to
    BY DEF partition, Runs
  <2> QED BY <2>1, IdBounds DEF Span
<1>2. {r \in partition(from..to, wanted) : r[2] < to + 1} = partition(from..to, wanted)
  BY <1>1, MaxLedgerAssumption DEF Ledgers
<1> QED BY <1>2 DEF PiecesBelow

\* What the loop of a cut has done when it has reached cut.cur: its pieces so far
\* are those of the whole range that end below, every interval passed ends below,
\* and the last piece, if there is one, was wanted while cur is not.
CutLoop ==
    LET wanted == Wanted(plan.merged)
    IN  /\ cut.from \in Ledgers /\ cut.to \in Ledgers /\ cut.cur \in cut.from..cut.to
        /\ cut.i \in Nat \ {0}
        /\ cut.out = PiecesBelow(cut.from..cut.to, wanted, cut.cur)
        /\ cut.cur = cut.from \/ (cut.cur - 1 \in wanted /\ cut.cur \notin wanted)
        /\ \A j \in DOMAIN plan.merged : j < cut.i => plan.merged[j][2] < cut.cur

CutInv ==
    /\ MergeInv
    /\ cut.pc \in {"idle", "loop", "done"}
    /\ cut = [pc |-> cut.pc, from |-> cut.from, to |-> cut.to, i |-> cut.i, cur |-> cut.cur,
              out |-> cut.out]
    /\ plan.pc = "idle" => cut.pc = "idle"
    /\ cut.pc = "loop" => CutLoop
    /\ PartitionExact

\* Nothing lies below the first piece of a cut.
LEMMA NoPieces ==
    ASSUME NEW from \in Ledgers, NEW to \in Ledgers, NEW wanted
    PROVE  PiecesBelow(from..to, wanted, from) = {}
<1>1. ASSUME NEW r \in partition(from..to, wanted) PROVE ~(r[2] < from)
  <2>1. r \in GapId /\ Span(r) \subseteq from..to
    BY DEF partition, Runs
  <2> QED BY <2>1, IdBounds, MaxLedgerAssumption DEF Span, Ledgers
<1> QED BY <1>1 DEF PiecesBelow

\* A stretch no interval of the plan meets, up to one that does or to the end of
\* the range, is one deferred piece.
LEMMA DeferredPiece ==
    ASSUME NEW from \in Ledgers, NEW to \in Ledgers, NEW wanted, NEW cur \in from..to,
           NEW end \in cur..to,
           cur = from \/ cur - 1 \in wanted, end = to \/ end + 1 \in wanted,
           (cur..end) \cap wanted = {}
    PROVE  PiecesBelow(from..to, wanted, end + 1)
              = PiecesBelow(from..to, wanted, cur) \cup {<<cur, end, "deferred">>}
<1>1. from \in Int /\ to \in Int /\ cur \in Int /\ end \in Int /\ MaxLedger \in Int
      /\ 1 <= from /\ from <= cur /\ cur <= end /\ end <= to /\ to <= MaxLedger
  BY MaxLedgerAssumption DEF Ledgers
<1>2. <<cur, end>> \in GapId /\ Span(<<cur, end>>) = cur..end
  BY <1>1 DEF GapId, Ledgers, Span
<1>3. cur..end \subseteq (from..to) \ wanted
  <2>1. cur..end \subseteq from..to
    BY <1>1
  <2> QED BY <2>1
<1>4. cur - 1 \notin (from..to) \ wanted /\ end + 1 \notin (from..to) \ wanted
  BY <1>1
<1>5. <<cur, end>> \in partition(from..to, wanted)
  BY <1>2, <1>3, <1>4 DEF Runs, partition
<1>6. cur \notin wanted
  BY <1>1
<1>7. PieceMode(<<cur, end>>, wanted) = "deferred"
  BY <1>6 DEF PieceMode
<1>8. PiecesBelow(from..to, wanted, end + 1)
         = PiecesBelow(from..to, wanted, cur) \cup {<<cur, end, PieceMode(<<cur, end>>, wanted)>>}
  <2> DEFINE range == from..to
             g == <<cur, end>>
  <2>1. g \in partition(range, wanted) /\ g[1] = cur /\ g[2] = end
    BY <1>5
  <2> HIDE DEF range, g
  <2>2. PiecesBelow(range, wanted, g[2] + 1)
          = PiecesBelow(range, wanted, g[1]) \cup {<<g[1], g[2], PieceMode(g, wanted)>>}
    BY <2>1, NextPiece
  <2> QED BY <2>1, <2>2 DEF range, g
<1> QED BY <1>7, <1>8

\* A stretch inside the plan, bounded by ledgers outside it or by the range, is
\* one replayed piece.
LEMMA ReplayPiece ==
    ASSUME NEW from \in Ledgers, NEW to \in Ledgers, NEW wanted, NEW cur \in from..to,
           NEW end \in cur..to,
           cur = from \/ cur - 1 \notin wanted, end = to \/ end + 1 \notin wanted,
           cur..end \subseteq wanted
    PROVE  PiecesBelow(from..to, wanted, end + 1)
              = PiecesBelow(from..to, wanted, cur) \cup {<<cur, end, "replay">>}
<1>1. from \in Int /\ to \in Int /\ cur \in Int /\ end \in Int /\ MaxLedger \in Int
      /\ 1 <= from /\ from <= cur /\ cur <= end /\ end <= to /\ to <= MaxLedger
  BY MaxLedgerAssumption DEF Ledgers
<1>2. <<cur, end>> \in GapId /\ Span(<<cur, end>>) = cur..end
  BY <1>1 DEF GapId, Ledgers, Span
<1>3. cur..end \subseteq (from..to) \cap wanted
  <2>1. cur..end \subseteq from..to
    BY <1>1
  <2> QED BY <2>1
<1>4. cur - 1 \notin (from..to) \cap wanted /\ end + 1 \notin (from..to) \cap wanted
  BY <1>1
<1>5. <<cur, end>> \in partition(from..to, wanted)
  BY <1>2, <1>3, <1>4 DEF Runs, partition
<1>6. cur \in wanted
  BY <1>1
<1>7. PieceMode(<<cur, end>>, wanted) = "replay"
  BY <1>6 DEF PieceMode
<1>8. PiecesBelow(from..to, wanted, end + 1)
         = PiecesBelow(from..to, wanted, cur) \cup {<<cur, end, PieceMode(<<cur, end>>, wanted)>>}
  <2> DEFINE range == from..to
             g == <<cur, end>>
  <2>1. g \in partition(range, wanted) /\ g[1] = cur /\ g[2] = end
    BY <1>5
  <2> HIDE DEF range, g
  <2>2. PiecesBelow(range, wanted, g[2] + 1)
          = PiecesBelow(range, wanted, g[1]) \cup {<<g[1], g[2], PieceMode(g, wanted)>>}
    BY <2>1, NextPiece
  <2> QED BY <2>1, <2>2 DEF range, g
<1> QED BY <1>7, <1>8

\* Where the plan is not: between what is passed and the interval that is next.
LEMMA BetweenIntervals ==
    ASSUME NEW merged \in Seq(GapId), Ordered(merged), NEW i \in Nat \ {0}, NEW cur \in Int,
           \A j \in DOMAIN merged : j < i => merged[j][2] < cur,
           NEW l \in Int, cur <= l, i \in DOMAIN merged => l < merged[i][1]
    PROVE  l \notin Wanted(merged)
<1> SUFFICES ASSUME NEW j \in DOMAIN merged, l \in Span(merged[j]) PROVE FALSE
  BY DEF Wanted
<1>1. j \in Int /\ merged[j] \in GapId /\ DOMAIN merged = 1..Len(merged) /\ Len(merged) \in Nat
  OBVIOUS
<1>2. merged[j][1] \in Int /\ merged[j][2] \in Int /\ merged[j][1] <= l /\ l <= merged[j][2]
  BY <1>1, IdBounds DEF Span
<1>3. CASE j < i
  BY <1>2, <1>3
<1>4. CASE j = i
  BY <1>2, <1>4
<1>5. CASE i < j
  <2>1. i \in DOMAIN merged
    BY <1>1, <1>5
  <2>2. merged[i][1] <= merged[j][1] /\ merged[i][1] \in Int
    BY <1>5, <2>1, IdBounds DEF Ordered, Follows
  <2> QED BY <1>2, <2>1, <2>2
<1> QED BY <1>1, <1>3, <1>4, <1>5

\* Nor is it just past an interval that ends below the top.
LEMMA PastInterval ==
    ASSUME NEW merged \in Seq(GapId), Ordered(merged), NEW i \in DOMAIN merged, NEW cur \in Int,
           \A j \in DOMAIN merged : j < i => merged[j][2] < cur,
           cur <= merged[i][2], merged[i][2] # MaxLedger
    PROVE  merged[i][2] + 1 \notin Wanted(merged)
<1> SUFFICES ASSUME NEW j \in DOMAIN merged, merged[i][2] + 1 \in Span(merged[j]) PROVE FALSE
  BY DEF Wanted
<1>1. j \in Int /\ i \in Int /\ merged[j] \in GapId /\ merged[i] \in GapId
  OBVIOUS
<1>2. /\ merged[j][1] \in Int /\ merged[j][2] \in Int /\ merged[i][2] \in Int
      /\ merged[j][1] <= merged[i][2] + 1 /\ merged[i][2] + 1 <= merged[j][2]
  BY <1>1, IdBounds DEF Span
<1>3. CASE j < i
  BY <1>2, <1>3
<1>4. CASE j = i
  BY <1>2, <1>4
<1>5. CASE i < j
  <2>1. Follows(merged[i], merged[j])
    BY <1>5 DEF Ordered
  <2> QED BY <1>2, <2>1 DEF Follows
<1> QED BY <1>1, <1>3, <1>4, <1>5

\* One interval of the plan, cut out of the range.
LEMMA CutStep ==
    ASSUME CutInv, cut.pc = "loop", partitionLoop, ~CutEnds
    PROVE  cut'.pc \in {"loop", "done"} /\ (cut'.pc = "loop" => CutLoop') /\ PartitionExact'
           /\ cut' = [pc |-> cut'.pc, from |-> cut'.from, to |-> cut'.to, i |-> cut'.i,
                      cur |-> cut'.cur, out |-> cut'.out]
<1> DEFINE merged == plan.merged
           wanted == Wanted(merged)
           from == cut.from
           to == cut.to
           cur == cut.cur
           i == cut.i
           iv == merged[i]
           start == IF iv[1] > cur THEN iv[1] ELSE cur
           end == IF iv[2] < to THEN iv[2] ELSE to
<1>1. /\ merged \in Seq(GapId) /\ Ordered(merged) /\ CutLoop
      /\ cut = [pc |-> cut.pc, from |-> from, to |-> to, i |-> i, cur |-> cur, out |-> cut.out]
  BY DEF CutInv, MergeInv, PlanType
<1>2. /\ from \in Ledgers /\ to \in Ledgers /\ cur \in from..to /\ i \in Nat \ {0}
      /\ cut.out = PiecesBelow(from..to, wanted, cur)
      /\ cur = from \/ (cur - 1 \in wanted /\ cur \notin wanted)
      /\ \A j \in DOMAIN merged : j < i => merged[j][2] < cur
  BY <1>1 DEF CutLoop
<1>3. /\ from \in Int /\ to \in Int /\ cur \in Int /\ MaxLedger \in Int /\ i \in Int
      /\ 1 <= from /\ from <= cur /\ cur <= to /\ to <= MaxLedger
  BY <1>2, MaxLedgerAssumption DEF Ledgers
<1>4. i \in DOMAIN merged /\ iv \in GapId /\ cut' = Cut(cut, iv) /\ plan' = plan
  BY <1>1, <1>2 DEF partitionLoop, CutEnds
<1>5. iv[1] \in Int /\ iv[2] \in Int /\ iv[1] <= iv[2] /\ iv[2] <= MaxLedger
      /\ (iv[2] < cur \/ iv[1] <= to)
  BY <1>3, <1>4, IdBounds DEF CutEnds
<1>6. plan'.merged = merged /\ Wanted(plan'.merged) = wanted
  BY <1>4
<1> HIDE DEF merged, wanted, from, to, cur, i, iv
<1>7. CASE iv[2] < cur
  <2>1. cut' = [cut EXCEPT !.i = @ + 1]
    BY <1>4, <1>7 DEF Cut, cur
  <2>2. /\ cut'.pc = "loop" /\ cut'.from = from /\ cut'.to = to /\ cut'.i = i + 1 /\ cut'.cur = cur
        /\ cut'.out = cut.out
        /\ cut' = [pc |-> "loop", from |-> from, to |-> to, i |-> i + 1, cur |-> cur, out |-> cut.out]
    BY <1>1, <2>1 DEF from, to, i, cur
  <2>3. \A j \in DOMAIN merged : j < i + 1 => merged[j][2] < cur
    <3> SUFFICES ASSUME NEW j \in DOMAIN merged, j < i + 1 PROVE merged[j][2] < cur
      OBVIOUS
    <3>1. j \in Int /\ (j < i \/ j = i)
      BY <1>1, <1>3
    <3> QED BY <1>2, <1>7, <3>1 DEF iv
  <2>4. CutLoop'
    BY <1>2, <1>6, <2>2, <2>3 DEF CutLoop
  <2>5. PartitionExact'
    BY <2>2 DEF PartitionExact
  <2> QED BY <2>2, <2>4, <2>5
<1>8. CASE ~(iv[2] < cur)
  <2>1. /\ start \in Int /\ end \in Int /\ cur <= start /\ start <= end /\ end <= to
        /\ iv[1] <= start /\ end <= iv[2] /\ (start = cur \/ start = iv[1])
        /\ (end = to \/ end = iv[2])
    BY <1>3, <1>5, <1>8
  <2>2. start..end \subseteq wanted
    <3>1. start..end \subseteq Span(iv)
      BY <1>5, <2>1 DEF Span
    <3> QED BY <1>4, <3>1 DEF Wanted, wanted, iv
  <2>3. \A l \in cur..start - 1 : l \notin wanted
    <3> SUFFICES ASSUME NEW l \in cur..start - 1 PROVE l \notin wanted
      OBVIOUS
    <3>1. l \in Int /\ cur <= l /\ l < iv[1]
      BY <1>3, <1>5, <2>1
    <3> QED BY <1>1, <1>2, <1>3, <3>1, BetweenIntervals DEF wanted, iv
  <2>4. end = to \/ end + 1 \notin wanted
    <3>1. ASSUME end # to PROVE end + 1 \notin wanted
      <4>1. end = iv[2] /\ iv[2] # MaxLedger /\ cur <= iv[2]
        BY <1>3, <1>5, <1>8, <2>1, <3>1
      <4>2. iv[2] + 1 \notin wanted
        BY <1>1, <1>2, <1>3, <1>4, <4>1, PastInterval DEF wanted, iv
      <4> QED BY <4>1, <4>2
    <3> QED BY <3>1
  <2> HIDE DEF start, end
  <2>5. start \in wanted /\ end \in wanted /\ start \in from..to /\ end \in start..to
    <3>1. start \in start..end /\ end \in start..end
      BY <2>1
    <3> QED BY <1>3, <2>1, <2>2, <3>1
  <2>6. start = from \/ start - 1 \notin wanted
    <3>1. CASE start = cur
      BY <1>2, <2>5, <3>1
    <3>2. CASE start # cur
      <4>1. start - 1 \in cur..start - 1
        BY <1>3, <2>1, <3>2
      <4> QED BY <2>3, <4>1
    <3> QED BY <3>1, <3>2
  <2>7. PiecesBelow(from..to, wanted, end + 1)
          = PiecesBelow(from..to, wanted, start) \cup {<<start, end, "replay">>}
    BY <1>2, <2>2, <2>4, <2>5, <2>6, ReplayPiece
  <2>8. PiecesBelow(from..to, wanted, start)
          = PiecesBelow(from..to, wanted, cur)
               \cup (IF start > cur THEN {<<cur, start - 1, "deferred">>} ELSE {})
    <3>1. CASE start > cur
      <4>1. start - 1 \in cur..to /\ start - 1 + 1 = start
        BY <1>3, <2>1, <3>1
      <4>2. (cur..start - 1) \cap wanted = {}
        BY <2>3
      <4>3. PiecesBelow(from..to, wanted, start - 1 + 1)
              = PiecesBelow(from..to, wanted, cur) \cup {<<cur, start - 1, "deferred">>}
        BY <1>2, <2>5, <4>1, <4>2, DeferredPiece
      <4> QED BY <3>1, <4>1, <4>3
    <3>2. CASE ~(start > cur)
      <4>1. start = cur
        BY <1>3, <2>1, <3>2
      <4> QED BY <3>2, <4>1
    <3> QED BY <3>1, <3>2
  <2>9. /\ cut' = [pc |-> IF end = to THEN "done" ELSE "loop", from |-> from, to |-> to, i |-> i + 1,
                   cur |-> Plus(end, 1), out |-> PiecesBelow(from..to, wanted, end + 1)]
        /\ cut'.pc = IF end = to THEN "done" ELSE "loop"
        /\ cut'.from = from /\ cut'.to = to /\ cut'.i = i + 1 /\ cut'.cur = Plus(end, 1)
        /\ cut'.out = PiecesBelow(from..to, wanted, end + 1)
    <3>1. PiecesBelow(from..to, wanted, end + 1)
            = cut.out \cup {<<start, end, "replay">>}
                 \cup (IF start > cur THEN {<<cur, start - 1, "deferred">>} ELSE {})
      BY <1>2, <2>7, <2>8
    <3>2. cut' = [cut EXCEPT !.pc = IF end = to THEN "done" ELSE "loop",
                             !.i = @ + 1, !.cur = Plus(end, 1),
                             !.out = @ \cup {<<start, end, "replay">>}
                                       \cup (IF start > cur THEN {<<cur, start - 1, "deferred">>} ELSE {})]
      BY <1>4, <1>8 DEF Cut, start, end, cur, to
    <3>3. cut' = [pc |-> IF end = to THEN "done" ELSE "loop", from |-> from, to |-> to, i |-> i + 1,
                  cur |-> Plus(end, 1), out |-> PiecesBelow(from..to, wanted, end + 1)]
      BY <1>1, <3>1, <3>2 DEF from, to, i
    <3> QED BY <3>3
  <2>10. CASE end = to
    <3>1. PartitionExact'
      BY <1>2, <1>6, <2>9, <2>10, AllPieces DEF PartitionExact
    <3> QED BY <2>9, <2>10, <3>1
  <2>11. CASE end # to
    <3>1. Plus(end, 1) = end + 1
      BY <1>3, <2>1, <2>11 DEF Plus
    <3>2. /\ end + 1 \in from..to /\ end + 1 - 1 = end /\ end + 1 \notin wanted
          /\ i + 1 \in Nat \ {0}
      BY <1>2, <1>3, <2>1, <2>4, <2>11
    <3>3. \A j \in DOMAIN merged : j < i + 1 => merged[j][2] < end + 1
      <4> SUFFICES ASSUME NEW j \in DOMAIN merged, j < i + 1 PROVE merged[j][2] < end + 1
        OBVIOUS
      <4>1. j \in Int /\ (j < i \/ j = i) /\ merged[j] \in GapId
        BY <1>1, <1>3
      <4>2. merged[j][2] \in Int
        BY <4>1, IdBounds
      <4>3. j < i => merged[j][2] < cur
        BY <1>2
      <4>4. j = i => merged[j][2] = end
        BY <2>1, <2>11 DEF iv
      <4> QED BY <1>3, <2>1, <4>1, <4>2, <4>3, <4>4
    <3>4. CutLoop'
      BY <1>2, <1>6, <2>5, <2>9, <3>1, <3>2, <3>3 DEF CutLoop
    <3>5. PartitionExact'
      BY <2>9, <2>11 DEF PartitionExact
    <3> QED BY <2>9, <2>11, <3>4, <3>5
  <2> QED BY <2>10, <2>11
<1> QED BY <1>7, <1>8

LEMMA CutInvInit == PlanInit => CutInv
<1> SUFFICES ASSUME PlanInit PROVE CutInv
  OBVIOUS
<1>1. cut = NotCutting
  BY DEF PlanInit
<1>2. cut.pc = "idle" /\ cut = [pc |-> cut.pc, from |-> cut.from, to |-> cut.to, i |-> cut.i,
                                cur |-> cut.cur, out |-> cut.out]
  BY <1>1 DEF NotCutting
<1> QED BY <1>2, MergeInvInit DEF CutInv, PartitionExact

LEMMA CutInvNext == CutInv /\ [PlanNext]_planVars => CutInv'
<1> SUFFICES ASSUME CutInv, [PlanNext]_planVars PROVE CutInv'
  OBVIOUS
<1>1. MergeInv'
  BY MergeInvNext DEF CutInv
<1>2. CASE StartCut
  <2>1. PICK range \in GapId :
           cut' = [NotCutting EXCEPT !.pc = "loop", !.from = range[1], !.to = range[2],
                                     !.cur = range[1]]
    BY <1>2 DEF StartCut
  <2>2. /\ cut' = [pc |-> "loop", from |-> range[1], to |-> range[2], i |-> 1, cur |-> range[1],
                   out |-> {}]
        /\ plan' = plan
    BY <1>2, <2>1 DEF NotCutting, StartCut
  <2>3. /\ cut'.pc = "loop" /\ cut'.from = range[1] /\ cut'.to = range[2] /\ cut'.i = 1
        /\ cut'.cur = range[1] /\ cut'.out = {}
    BY <2>2
  <2>4. range[1] \in Ledgers /\ range[2] \in Ledgers /\ range[1] \in range[1]..range[2]
    BY DEF GapId, Ledgers
  <2>5. PiecesBelow(range[1]..range[2], Wanted(plan.merged), range[1]) = {}
    BY <2>4, NoPieces
  <2>6. \A j \in DOMAIN plan.merged : ~(j < 1)
    BY DEF CutInv, MergeInv, PlanType
  <2>7. CutLoop'
    BY <2>2, <2>3, <2>4, <2>5, <2>6 DEF CutLoop
  <2>8. plan'.pc = "merge"
    BY <1>2 DEF StartCut
  <2> QED BY <1>1, <2>2, <2>3, <2>7, <2>8 DEF CutInv, PartitionExact
<1>3. CASE partitionLoop
  <2>1. cut.pc = "loop" /\ plan' = plan
    BY <1>3 DEF partitionLoop
  <2>4. plan'.pc # "idle"
    BY <2>1 DEF CutInv
  <2>2. CASE CutEnds
    <3> DEFINE merged == plan.merged
               wanted == Wanted(merged)
    <3>1. merged \in Seq(GapId) /\ Ordered(merged) /\ CutLoop
      BY <2>1 DEF CutInv, MergeInv, PlanType
    <3>2. /\ cut.from \in Ledgers /\ cut.to \in Ledgers /\ cut.cur \in cut.from..cut.to
          /\ cut.i \in Nat \ {0} /\ cut.out = PiecesBelow(cut.from..cut.to, wanted, cut.cur)
          /\ cut.cur = cut.from \/ (cut.cur - 1 \in wanted /\ cut.cur \notin wanted)
          /\ \A j \in DOMAIN merged : j < cut.i => merged[j][2] < cut.cur
      BY <3>1 DEF CutLoop
    <3>3. cut.cur \in Int /\ cut.to \in Int /\ cut.to \in cut.cur..cut.to
      BY <3>2 DEF Ledgers
    <3>4. (cut.cur..cut.to) \cap wanted = {}
      <4> SUFFICES ASSUME NEW l \in cut.cur..cut.to PROVE l \notin wanted
        OBVIOUS
      <4>1. l \in Int /\ cut.cur <= l /\ l <= cut.to
        BY <3>3
      <4>2. cut.i \in DOMAIN merged => l < merged[cut.i][1]
        <5> SUFFICES ASSUME cut.i \in DOMAIN merged PROVE l < merged[cut.i][1]
          OBVIOUS
        <5>1. merged[cut.i][1] > cut.to
          BY <2>2, <3>1, <3>2 DEF CutEnds
        <5>2. merged[cut.i][1] \in Int
          BY <3>1, IdBounds
        <5> QED BY <3>3, <4>1, <5>1, <5>2
      <4> QED BY <3>1, <3>2, <3>3, <4>1, <4>2, BetweenIntervals
    <3>5. PiecesBelow(cut.from..cut.to, wanted, cut.to + 1)
            = PiecesBelow(cut.from..cut.to, wanted, cut.cur) \cup {<<cut.cur, cut.to, "deferred">>}
      BY <3>2, <3>3, <3>4, DeferredPiece
    <3>6. /\ cut' = [cut EXCEPT !.pc = "done", !.out = @ \cup {<<cut.cur, cut.to, "deferred">>}]
          /\ cut = [pc |-> cut.pc, from |-> cut.from, to |-> cut.to, i |-> cut.i, cur |-> cut.cur,
                    out |-> cut.out]
      BY <1>3, <2>2 DEF partitionLoop, CutInv
    <3>7. /\ cut' = [pc |-> "done", from |-> cut.from, to |-> cut.to, i |-> cut.i, cur |-> cut.cur,
                     out |-> cut.out \cup {<<cut.cur, cut.to, "deferred">>}]
      BY <3>6
    <3>8. /\ cut'.pc = "done" /\ cut'.from = cut.from /\ cut'.to = cut.to
          /\ cut'.out = PiecesBelow(cut.from..cut.to, wanted, cut.to + 1)
      BY <3>2, <3>5, <3>7
    <3>9. PartitionExact'
      BY <2>1, <3>2, <3>8, AllPieces DEF PartitionExact
    <3> QED BY <1>1, <2>1, <2>4, <3>7, <3>8, <3>9 DEF CutInv
  <2>3. CASE ~CutEnds
    BY <1>1, <1>3, <2>1, <2>3, <2>4, CutStep DEF CutInv
  <2> QED BY <2>2, <2>3
<1>4. CASE cut' = cut /\ plan' = plan
  BY <1>1, <1>4 DEF CutInv, CutLoop, PartitionExact
<1>5. CASE StartPlan \/ normalizePlan
  <2>1. cut' = cut /\ cut.pc = "idle"
    <3>1. plan.pc = "idle" => cut.pc = "idle"
      BY DEF CutInv
    <3> QED BY <1>5, <3>1 DEF StartPlan, normalizePlan
  <2> QED BY <1>1, <2>1 DEF CutInv, PartitionExact
<1> QED
  BY <1>2, <1>3, <1>4, <1>5 DEF PlanNext, planVars, StartHoles, uncoveredLoop,
     EndHoles, StartProbe, findWall, ProbeFails, Prune

-----------------------------------------------------------------------------
(* uncoveredRanges.                                                        *)

\* The ledgers of the range being recorded that nothing met so far covers.
Uncovered == (holes.from..holes.to) \ UNION {Span(c) : c \in holes.met}

\* The runs that end below a ledger.
RunsBelow(S, cur) == {p \in Runs(S) : p[2] < cur}

\* Where the cursor goes past a covering range, and the hole it leaves on the way.
Beyond(c, cur) == IF c[2] + 1 > cur THEN c[2] + 1 ELSE cur

Skipped(c, cur, to) ==
    IF c[1] > cur THEN {<<cur, IF c[1] - 1 > to THEN to ELSE c[1] - 1>>} ELSE {}

\* What the loop has done when its cursor has got where it is: the runs that end
\* below it are out, it stands past a covered ledger, everything from it on is
\* still uncovered, and what it has left uncovered lies below the sort's position,
\* where no later range can start.
HolesLoop ==
    /\ holes.from \in Ledgers /\ holes.to \in Ledgers /\ holes.from <= holes.to
    /\ holes.met \subseteq Ledgers \X Ledgers /\ holes.key \in Nat
    /\ holes.cursor \in Int /\ holes.from <= holes.cursor
    /\ \A c \in holes.met : c[1] <= c[2] => c[2] < holes.cursor \/ holes.to < holes.cursor
    /\ holes.out = RunsBelow(Uncovered, holes.cursor)
    /\ holes.cursor = holes.from \/ holes.cursor - 1 \notin Uncovered
    /\ \A l \in Uncovered : l < holes.cursor => l < holes.key

HolesInv ==
    /\ holes.pc \in {"idle", "loop", "done"}
    /\ holes = [pc |-> holes.pc, from |-> holes.from, to |-> holes.to, met |-> holes.met,
                key |-> holes.key, cursor |-> holes.cursor, out |-> holes.out]
    /\ holes.pc = "loop" => HolesLoop
    /\ UncoveredExact

\* One more covering range takes its ledgers out.
LEMMA CoverMore ==
    ASSUME NEW c, holes'.from = holes.from, holes'.to = holes.to, holes'.met = holes.met \cup {c}
    PROVE  Uncovered' = Uncovered \ Span(c)
<1>1. Uncovered' = (holes.from..holes.to) \ UNION {Span(d) : d \in holes.met \cup {c}}
  BY DEF Uncovered
<1>2. \A l : l \in UNION {Span(d) : d \in holes.met \cup {c}}
               <=> l \in UNION {Span(d) : d \in holes.met} \/ l \in Span(c)
  OBVIOUS
<1> QED BY <1>1, <1>2 DEF Uncovered

\* The runs of two sets that agree below cur, where cur - 1 is in neither.
LEMMA SameRunsBelow ==
    ASSUME NEW S, NEW T, NEW cur \in Int, T \subseteq S, cur - 1 \notin S,
           \A l \in Int : l < cur => (l \in S <=> l \in T)
    PROVE  {p \in Runs(S) : p[2] < cur} = {p \in Runs(T) : p[2] < cur}
<1> SUFFICES ASSUME NEW p \in GapId, p[2] < cur PROVE p \in Runs(S) <=> p \in Runs(T)
  BY DEF Runs
<1>1. p[1] \in Int /\ p[2] \in Int /\ p[1] <= p[2]
  BY IdBounds
<1>2. \A l \in Span(p) : l \in Int /\ l < cur
  BY <1>1 DEF Span
<1>3. Span(p) \subseteq S <=> Span(p) \subseteq T
  BY <1>2
<1>4. p[1] - 1 \in S <=> p[1] - 1 \in T
  BY <1>1
<1>5. CASE p[2] + 1 < cur
  <2>1. p[2] + 1 \in S <=> p[2] + 1 \in T
    BY <1>1, <1>5
  <2> QED BY <1>3, <1>4, <2>1 DEF Runs
<1>6. CASE p[2] + 1 = cur
  <2>1. p[2] \in Span(p) /\ p[2] = cur - 1
    BY <1>1, <1>6 DEF Span
  <2>2. ~(Span(p) \subseteq S) /\ ~(Span(p) \subseteq T)
    BY <2>1
  <2> QED BY <2>2 DEF Runs
<1> QED BY <1>1, <1>5, <1>6

\* The one run that ends from cur on and no later than its own end.
LEMMA NextRun ==
    ASSUME NEW S, NEW cur \in Int, NEW end \in Int, <<cur, end>> \in Runs(S),
           NEW lim \in Int, end < lim, \A l \in S : l < lim => l <= end
    PROVE  {p \in Runs(S) : p[2] < lim} = {p \in Runs(S) : p[2] < cur} \cup {<<cur, end>>}
<1>1. cur <= end /\ Span(<<cur, end>>) = cur..end
  <2>1. <<cur, end>> \in GapId
    BY DEF Runs
  <2> QED BY <2>1 DEF GapId, Span
<1>2. ASSUME NEW p \in Runs(S) PROVE p[2] < lim <=> p[2] < cur \/ p = <<cur, end>>
  <2>1. p \in GapId /\ p[2] \in Int /\ p[2] \in S
    <3>1. p \in GapId /\ Span(p) \subseteq S
      BY DEF Runs
    <3>2. p[2] \in Int /\ p[2] \in Span(p)
      BY <3>1, IdBounds DEF Span
    <3> QED BY <3>1, <3>2
  <2>2. ASSUME p[2] < lim, ~(p[2] < cur) PROVE p = <<cur, end>>
    <3>1. p[2] \in Span(<<cur, end>>)
      BY <1>1, <2>1, <2>2
    <3> QED BY <3>1, RunsMeet
  <2>3. p = <<cur, end>> => p[2] < lim
    BY <2>1
  <2>4. p[2] < cur => p[2] < lim
    BY <1>1, <2>1
  <2> QED BY <2>2, <2>3, <2>4
<1> QED BY <1>2

\* One covering range that reaches past the cursor or starts past it.
LEMMA UncoverStep ==
    ASSUME NEW from \in Ledgers, NEW to \in Ledgers, NEW U \in SUBSET (from..to), NEW c \in Ledgers \X Ledgers,
           NEW cur \in Int, from <= cur, cur <= to, c[1] <= c[2],
           cur..to \subseteq U, cur = from \/ cur - 1 \notin U,
           \A l \in U : l < cur => l < c[1]
    PROVE  /\ RunsBelow(U \ Span(c), Beyond(c, cur)) = RunsBelow(U, cur) \cup Skipped(c, cur, to)
           /\ Beyond(c, cur) - 1 \notin U \ Span(c) \/ Beyond(c, cur) = from
           /\ \A l \in U \ Span(c) : l < Beyond(c, cur) => l < c[1]
<1> USE DEF RunsBelow, Beyond, Skipped
<1> DEFINE V == U \ Span(c)
           next == Beyond(c, cur)
           end == IF c[1] - 1 > to THEN to ELSE c[1] - 1
<1>1. /\ from \in Int /\ to \in Int /\ c[1] \in Int /\ c[2] \in Int /\ MaxLedger \in Int
      /\ 1 <= from /\ to <= MaxLedger /\ next \in Int /\ cur <= next
      /\ Span(c) = c[1]..c[2]
  BY MaxLedgerAssumption DEF Ledgers, Span
<1>2. \A l \in U : l \in Int /\ from <= l /\ l <= to
  BY <1>1
<1>3. cur - 1 \notin U
  BY <1>1, <1>2
<1>4. \A l \in Int : l < cur => (l \in U <=> l \in V)
  BY <1>1
<1>5. {p \in Runs(U) : p[2] < cur} = {p \in Runs(V) : p[2] < cur}
  BY <1>3, <1>4, SameRunsBelow
<1>6. \A l \in V : l < next => l < c[1]
  BY <1>1, <1>2
<1>7. next - 1 \notin V \/ next = from
  BY <1>1
<1>8. CASE c[1] > cur
  <2>1. next = c[2] + 1 /\ end \in Int /\ cur <= end /\ end <= to /\ end < c[1] /\ end < next
    BY <1>1, <1>8
  <2>2. <<cur, end>> \in GapId /\ Span(<<cur, end>>) = cur..end
    BY <1>1, <2>1 DEF GapId, Span, Ledgers
  <2>3. cur..end \subseteq V
    BY <1>1, <2>1
  <2>4. end + 1 \notin V
    BY <1>1, <1>2, <1>8
  <2>5. <<cur, end>> \in Runs(V)
    BY <1>3, <2>2, <2>3, <2>4 DEF Runs
  <2>6. \A l \in V : l < next => l <= end
    BY <1>1, <1>2, <1>6
  <2> HIDE DEF V, next, end
  <2>7. {p \in Runs(V) : p[2] < next} = {p \in Runs(V) : p[2] < cur} \cup {<<cur, end>>}
    BY <1>1, <2>1, <2>5, <2>6, NextRun
  <2> QED BY <1>5, <1>6, <1>7, <1>8, <2>7 DEF V, next, end
<1>9. CASE ~(c[1] > cur)
  <2>1. \A l \in V : l < next => l < cur
    BY <1>1, <1>6, <1>9
  <2>2. ASSUME NEW p \in Runs(V) PROVE p[2] < next <=> p[2] < cur
    <3>1. p \in GapId /\ Span(p) \subseteq V
      BY DEF Runs
    <3>2. p[2] \in Int /\ p[2] \in V
      BY <3>1, IdBounds DEF Span
    <3> QED BY <1>1, <2>1, <3>2
  <2> HIDE DEF V, next
  <2>3. {p \in Runs(V) : p[2] < next} = {p \in Runs(V) : p[2] < cur}
    BY <2>2
  <2> QED BY <1>5, <1>6, <1>7, <1>9, <2>3 DEF V, next
<1> QED BY <1>8, <1>9

LEMMA HolesInvInit == PlanInit => HolesInv
<1> SUFFICES ASSUME PlanInit PROVE HolesInv
  OBVIOUS
<1>1. holes = NotRecording
  BY DEF PlanInit
<1> QED BY <1>1 DEF HolesInv, UncoveredExact, NotRecording

\* A covering range that changes nothing: the cursor is past the range, or the
\* covering range is empty.
LEMMA UncoverIdle ==
    ASSUME HolesLoop, NEW c \in Ledgers \X Ledgers, c[1] >= holes.key,
           holes.cursor > holes.to \/ c[2] < c[1]
    PROVE  Uncovered \ Span(c) = Uncovered
<1>1. c[1] \in Int /\ c[2] \in Int /\ Span(c) = c[1]..c[2]
  BY DEF Ledgers, Span
<1>2. holes.from \in Int /\ holes.to \in Int /\ holes.cursor \in Int /\ holes.key \in Int
  BY DEF HolesLoop, Ledgers
<1>3. ASSUME NEW l \in Uncovered PROVE l \notin Span(c)
  <2>1. l \in Int /\ l <= holes.to
    BY <1>2 DEF Uncovered
  <2>2. l < holes.cursor => l < holes.key
    BY DEF HolesLoop
  <2> QED BY <1>1, <1>2, <2>1, <2>2
<1> QED BY <1>3

LEMMA HolesInvNext == HolesInv /\ [PlanNext]_planVars => HolesInv'
<1> SUFFICES ASSUME HolesInv, [PlanNext]_planVars PROVE HolesInv'
  OBVIOUS
<1> USE DEF HolesInv
<1>1. CASE StartHoles
  <2>1. PICK range \in GapId :
           holes' = [NotRecording EXCEPT !.pc = "loop", !.from = range[1], !.to = range[2],
                                         !.cursor = range[1]]
    BY <1>1 DEF StartHoles
  <2>2. holes' = [pc |-> "loop", from |-> range[1], to |-> range[2], met |-> {}, key |-> 0,
                  cursor |-> range[1], out |-> {}]
    BY <2>1 DEF NotRecording
  <2>3. /\ range[1] \in Ledgers /\ range[2] \in Ledgers /\ range[1] <= range[2]
        /\ range[1] \in Int /\ range[2] \in Int
    BY DEF GapId, Ledgers
  <2>4. Uncovered' = range[1]..range[2]
    BY <2>2 DEF Uncovered
  <2>5. \A p \in Runs(Uncovered') : ~(p[2] < range[1])
    <3> SUFFICES ASSUME NEW p \in Runs(range[1]..range[2]) PROVE ~(p[2] < range[1])
      BY <2>4
    <3>1. p \in GapId /\ Span(p) \subseteq range[1]..range[2]
      BY DEF Runs
    <3> QED BY <2>3, <3>1, IdBounds DEF Span
  <2>6. \A l \in Uncovered' : ~(l < range[1])
    BY <2>3, <2>4
  <2>7. HolesLoop'
    BY <2>2, <2>3, <2>5, <2>6 DEF HolesLoop, RunsBelow
  <2> QED BY <2>2, <2>7 DEF UncoveredExact
<1>2. CASE uncoveredLoop
  <2>1. PICK c \in Ledgers \X Ledgers :
           /\ c[1] >= holes.key
           /\ holes' = [Uncover(holes, c) EXCEPT !.met = @ \cup {c}, !.key = c[1]]
    BY <1>2 DEF uncoveredLoop
  <2>2. HolesLoop /\ holes.pc = "loop"
    BY <1>2 DEF uncoveredLoop
  <2>3. /\ c[1] \in Int /\ c[2] \in Int /\ c[1] \in Nat /\ holes.from \in Int /\ holes.to \in Int
        /\ holes.cursor \in Int /\ holes.key \in Int
    BY <2>2 DEF HolesLoop, Ledgers
  <2>4. holes.met \cup {c} \subseteq Ledgers \X Ledgers
    BY <2>2 DEF HolesLoop
  <2>5. CASE holes.cursor > holes.to \/ c[2] < c[1]
    <3>1. holes' = [holes EXCEPT !.met = @ \cup {c}, !.key = c[1]]
      BY <2>1, <2>5 DEF Uncover
    <3>2. holes' = [pc |-> "loop", from |-> holes.from, to |-> holes.to, met |-> holes.met \cup {c},
                    key |-> c[1], cursor |-> holes.cursor, out |-> holes.out]
      BY <2>2, <3>1
    <3>3. Uncovered' = Uncovered
      <4>1. Uncovered' = Uncovered \ Span(c)
        <5>1. holes'.from = holes.from /\ holes'.to = holes.to /\ holes'.met = holes.met \cup {c}
          BY <3>2
        <5> QED BY <5>1, CoverMore
      <4> QED BY <2>1, <2>2, <2>5, <4>1, UncoverIdle
    <3>4. \A d \in holes.met \cup {c} :
             d[1] <= d[2] => d[2] < holes.cursor \/ holes.to < holes.cursor
      BY <2>2, <2>3, <2>5 DEF HolesLoop
    <3>5. \A l \in Uncovered : l < holes.cursor => l < c[1]
      <4> SUFFICES ASSUME NEW l \in Uncovered, l < holes.cursor PROVE l < c[1]
        OBVIOUS
      <4>1. l \in Int /\ l < holes.key
        BY <2>2, <2>3 DEF HolesLoop, Uncovered
      <4> QED BY <2>1, <2>3, <4>1
    <3>6. HolesLoop'
      BY <2>2, <2>3, <2>4, <3>2, <3>3, <3>4, <3>5 DEF HolesLoop
    <3> QED BY <3>2, <3>6 DEF UncoveredExact
  <2>6. CASE holes.cursor <= holes.to /\ c[1] <= c[2]
    <3> DEFINE next == Beyond(c, holes.cursor)
               more == holes.out \cup Skipped(c, holes.cursor, holes.to)
    <3>1. ~(holes.cursor > holes.to \/ c[2] < c[1])
      BY <2>3, <2>6
    <3>2. holes' = [pc |-> "loop", from |-> holes.from, to |-> holes.to, met |-> holes.met \cup {c},
                    key |-> c[1], cursor |-> next, out |-> more]
      BY <2>1, <2>2, <3>1 DEF Uncover, Beyond, Skipped
    <3>3. Uncovered' = Uncovered \ Span(c)
      <4>1. holes'.from = holes.from /\ holes'.to = holes.to /\ holes'.met = holes.met \cup {c}
        BY <3>2
      <4> QED BY <4>1, CoverMore
    <3>4. Uncovered \subseteq holes.from..holes.to
      BY DEF Uncovered
    <3>5. holes.cursor..holes.to \subseteq Uncovered
      <4> SUFFICES ASSUME NEW l \in holes.cursor..holes.to PROVE l \in Uncovered
        OBVIOUS
      <4>1. l \in holes.from..holes.to /\ l \in Int
        BY <2>2, <2>3 DEF HolesLoop
      <4>2. ASSUME NEW d \in holes.met PROVE l \notin Span(d)
        <5>1. d[1] \in Int /\ d[2] \in Int /\ (d[1] <= d[2] => d[2] < holes.cursor)
          BY <2>2, <2>3, <2>6 DEF HolesLoop, Ledgers
        <5> QED BY <2>3, <5>1 DEF Span
      <4> QED BY <4>1, <4>2 DEF Uncovered
    <3>6. \A l \in Uncovered : l < holes.cursor => l < c[1]
      <4> SUFFICES ASSUME NEW l \in Uncovered, l < holes.cursor PROVE l < c[1]
        OBVIOUS
      <4>1. l \in Int /\ l < holes.key
        BY <2>2, <2>3 DEF HolesLoop, Uncovered
      <4> QED BY <2>1, <2>3, <4>1
    <3>7. /\ RunsBelow(Uncovered \ Span(c), next) = more
          /\ next - 1 \notin Uncovered \ Span(c) \/ next = holes.from
          /\ \A l \in Uncovered \ Span(c) : l < next => l < c[1]
      <4>1. /\ holes.out = RunsBelow(Uncovered, holes.cursor)
            /\ holes.from \in Ledgers /\ holes.to \in Ledgers /\ holes.from <= holes.cursor
            /\ holes.cursor = holes.from \/ holes.cursor - 1 \notin Uncovered
        BY <2>2 DEF HolesLoop
      <4>2. Uncovered \in SUBSET (holes.from..holes.to)
        BY <3>4
      <4>3. /\ RunsBelow(Uncovered \ Span(c), Beyond(c, holes.cursor))
                 = RunsBelow(Uncovered, holes.cursor) \cup Skipped(c, holes.cursor, holes.to)
            /\ Beyond(c, holes.cursor) - 1 \notin Uncovered \ Span(c) \/ Beyond(c, holes.cursor) = holes.from
            /\ \A l \in Uncovered \ Span(c) : l < Beyond(c, holes.cursor) => l < c[1]
        BY <2>3, <2>6, <3>5, <3>6, <4>1, <4>2, UncoverStep
      <4> QED BY <4>1, <4>3
    <3>8. next \in Int /\ holes.cursor <= next /\ c[2] < next /\ holes.from <= next
      BY <2>2, <2>3 DEF HolesLoop, Beyond
    <3>9. \A d \in holes.met \cup {c} : d[1] <= d[2] => d[2] < next \/ holes.to < next
      <4> SUFFICES ASSUME NEW d \in holes.met, d[1] <= d[2] PROVE d[2] < next
        BY <3>8
      <4>1. d[2] \in Int /\ d[2] < holes.cursor
        BY <2>2, <2>3, <2>6 DEF HolesLoop, Ledgers
      <4> QED BY <2>3, <3>8, <4>1
    <3> HIDE DEF next, more
    <3>10. HolesLoop'
      BY <2>2, <2>3, <2>4, <3>2, <3>3, <3>7, <3>8, <3>9 DEF HolesLoop
    <3> QED BY <3>2, <3>10 DEF UncoveredExact
  <2> QED BY <2>3, <2>5, <2>6
<1>3. CASE EndHoles
  <2>1. HolesLoop /\ holes.pc = "loop"
    BY <1>3 DEF EndHoles
  <2> DEFINE all == IF holes.cursor <= holes.to THEN holes.out \cup {<<holes.cursor, holes.to>>}
                    ELSE holes.out
  <2>2. holes' = [pc |-> "done", from |-> holes.from, to |-> holes.to, met |-> holes.met,
                  key |-> holes.key, cursor |-> holes.cursor, out |-> all]
    BY <1>3 DEF EndHoles
  <2>3. /\ holes.from \in Int /\ holes.to \in Int /\ holes.cursor \in Int /\ MaxLedger \in Int
        /\ 1 <= holes.from /\ holes.from <= holes.cursor /\ holes.to <= MaxLedger
        /\ holes.out = RunsBelow(Uncovered, holes.cursor)
        /\ holes.cursor = holes.from \/ holes.cursor - 1 \notin Uncovered
    BY <2>1, MaxLedgerAssumption DEF HolesLoop, Ledgers
  <2>4. \A l \in Uncovered : l \in Int /\ holes.from <= l /\ l <= holes.to
    BY <2>3 DEF Uncovered
  <2>5. \A p \in Runs(Uncovered) : p[2] < holes.to + 1
    <3> SUFFICES ASSUME NEW p \in Runs(Uncovered) PROVE p[2] < holes.to + 1
      OBVIOUS
    <3>1. p \in GapId /\ Span(p) \subseteq Uncovered
      BY DEF Runs
    <3>2. p[2] \in Int /\ p[2] \in Uncovered
      BY <3>1, IdBounds DEF Span
    <3> QED BY <2>3, <2>4, <3>2
  <2>6. all = Runs(Uncovered)
    <3>1. CASE holes.cursor <= holes.to
      <4>1. holes.cursor..holes.to \subseteq Uncovered
        <5> SUFFICES ASSUME NEW l \in holes.cursor..holes.to PROVE l \in Uncovered
          OBVIOUS
        <5>1. l \in holes.from..holes.to /\ l \in Int
          BY <2>3
        <5>2. ASSUME NEW d \in holes.met PROVE l \notin Span(d)
          <6>1. d[1] \in Int /\ d[2] \in Int /\ (d[1] <= d[2] => d[2] < holes.cursor)
            BY <2>1, <2>3, <3>1 DEF HolesLoop, Ledgers
          <6> QED BY <2>3, <6>1 DEF Span
        <5> QED BY <5>1, <5>2 DEF Uncovered
      <4>2. <<holes.cursor, holes.to>> \in Runs(Uncovered)
        <5>1. <<holes.cursor, holes.to>> \in GapId
          BY <2>3, <3>1 DEF GapId, Ledgers
        <5>2. holes.cursor - 1 \notin Uncovered /\ holes.to + 1 \notin Uncovered
          BY <2>3, <2>4
        <5> QED BY <4>1, <5>1, <5>2 DEF Runs, Span
      <4>3. \A l \in Uncovered : l < holes.to + 1 => l <= holes.to
        BY <2>4
      <4>4. {p \in Runs(Uncovered) : p[2] < holes.to + 1}
               = {p \in Runs(Uncovered) : p[2] < holes.cursor} \cup {<<holes.cursor, holes.to>>}
        <5> HIDE DEF Uncovered
        <5> QED BY <2>3, <4>2, <4>3, NextRun
      <4> QED BY <2>3, <2>5, <3>1, <4>4 DEF RunsBelow
    <3>2. CASE ~(holes.cursor <= holes.to)
      <4>1. \A p \in Runs(Uncovered) : p[2] < holes.cursor
        <5> SUFFICES ASSUME NEW p \in Runs(Uncovered) PROVE p[2] < holes.cursor
          OBVIOUS
        <5>1. p[2] \in Int
          BY IdBounds DEF Runs
        <5> QED BY <2>3, <2>5, <3>2, <5>1
      <4> QED BY <2>3, <3>2, <4>1 DEF RunsBelow
    <3> QED BY <3>1, <3>2
  <2>7. UncoveredExact'
    BY <2>2, <2>6 DEF UncoveredExact, uncoveredRanges, Uncovered
  <2> QED BY <2>2, <2>7
<1>4. CASE UNCHANGED holes
  BY <1>4 DEF HolesLoop, UncoveredExact, Uncovered
<1> QED
  BY <1>1, <1>2, <1>3, <1>4 DEF PlanNext, planVars, StartPlan, normalizePlan, StartCut,
     partitionLoop, StartProbe, findWall, ProbeFails, Prune

-----------------------------------------------------------------------------
(* findWall.                                                               *)

\* The greater of two integers, from the definition of Max by CHOOSE.
LEMMA MaxPair ==
    ASSUME NEW a \in Int, NEW b \in Int
    PROVE  Max({a, b}) = IF a >= b THEN a ELSE b
<1>1. CASE a >= b
  <2>1. \A x \in {a, b} : (\A y \in {a, b} : x >= y) <=> x = a
    BY <1>1
  <2> QED BY <1>1, <2>1 DEF Max
<1>2. CASE b > a
  <2>1. \A x \in {a, b} : (\A y \in {a, b} : x >= y) <=> x = b
    BY <1>2
  <2> QED BY <1>2, <2>1 DEF Max
<1> QED BY <1>1, <1>2

\* The lesser of two integers, likewise.
LEMMA MinPair ==
    ASSUME NEW a \in Int, NEW b \in Int
    PROVE  Min({a, b}) = IF a <= b THEN a ELSE b
<1>1. CASE a <= b
  <2>1. \A x \in {a, b} : (\A y \in {a, b} : x <= y) <=> x = a
    BY <1>1
  <2> QED BY <1>1, <2>1 DEF Min
<1>2. CASE b < a
  <2>1. \A x \in {a, b} : (\A y \in {a, b} : x <= y) <=> x = b
    BY <1>2
  <2> QED BY <1>2, <2>1 DEF Min
<1> QED BY <1>1, <1>2

\* Where a search stands: below lo nothing was served when it was asked for, above
\* hi everything was there from the start, and the two bounds have not crossed
\* unless the range was empty.
WallInv ==
    /\ probe = [pc |-> probe.pc, from |-> probe.from, to |-> probe.to, lo |-> probe.lo,
                hi |-> probe.hi, first |-> probe.first, wall |-> probe.wall]
    /\ probe.pc = "search" =>
          /\ probe.from \in Int /\ probe.to \in Int /\ probe.lo \in Int /\ probe.hi \in Int
          /\ probe.first \in Int /\ probe.wall \in Int /\ probe.first <= probe.wall
          /\ probe.from <= probe.to + 1 /\ probe.from <= probe.lo /\ probe.hi <= probe.to
          /\ probe.lo <= probe.hi \/ (probe.lo = probe.from /\ probe.hi = probe.to)
          /\ probe.lo = probe.from \/ probe.lo <= probe.wall
          /\ probe.hi = probe.to \/ probe.first <= probe.hi
    /\ WallFound

\* The oldest ledger served, kept within the range and one past it.
LEMMA Clamped ==
    ASSUME NEW from \in Int, NEW to \in Int, NEW wall \in Int, from <= to + 1
    PROVE  Max({from, Min({wall, to + 1})})
              = IF wall <= from THEN from ELSE IF wall <= to + 1 THEN wall ELSE to + 1
<1>1. Min({wall, to + 1}) = IF wall <= to + 1 THEN wall ELSE to + 1
  BY MinPair
<1>2. Min({wall, to + 1}) \in Int
  BY <1>1
<1>3. Max({from, Min({wall, to + 1})})
         = IF from >= Min({wall, to + 1}) THEN from ELSE Min({wall, to + 1})
  BY <1>2, MaxPair
<1> QED BY <1>1, <1>3

\* The middle of a range lies in it.
LEMMA Middle ==
    ASSUME NEW lo \in Int, NEW hi \in Int, lo <= hi
    PROVE  lo + (hi - lo) \div 2 \in lo..hi
  OBVIOUS

LEMMA WallInvInit == PlanInit => WallInv
<1> SUFFICES ASSUME PlanInit PROVE WallInv
  OBVIOUS
<1>1. probe = NotProbing
  BY DEF PlanInit
<1> QED BY <1>1 DEF WallInv, WallFound, NotProbing

LEMMA WallInvNext == WallInv /\ [PlanNext]_planVars => WallInv'
<1> SUFFICES ASSUME WallInv, [PlanNext]_planVars PROVE WallInv'
  OBVIOUS
<1>1. CASE StartProbe
  <2>1. PICK from \in 1..MaxLedger + 1, wall \in 1..MaxLedger + 1, to \in Ledgers :
           /\ from <= to + 1
           /\ probe' = [pc |-> "search", from |-> from, to |-> to, lo |-> from, hi |-> to,
                        first |-> wall, wall |-> wall]
    BY <1>1 DEF StartProbe
  <2>2. from \in Int /\ wall \in Int /\ to \in Int
    BY MaxLedgerAssumption DEF Ledgers
  <2> QED BY <2>1, <2>2 DEF WallInv, WallFound
<1>2. CASE findWall
  <2> DEFINE lo == probe.lo
             hi == probe.hi
             mid == lo + (hi - lo) \div 2
             served == mid >= probe.wall
             found(w) == [pc |-> "found", from |-> probe.from, to |-> probe.to, lo |-> w,
                          hi |-> hi, first |-> probe.first, wall |-> probe.wall]
  <2>1. /\ probe.pc = "search"
        /\ probe.from \in Int /\ probe.to \in Int /\ lo \in Int /\ hi \in Int
        /\ probe.first \in Int /\ probe.wall \in Int /\ probe.first <= probe.wall
        /\ probe.from <= probe.to + 1 /\ probe.from <= lo /\ hi <= probe.to
        /\ lo <= hi \/ (lo = probe.from /\ hi = probe.to)
        /\ lo = probe.from \/ lo <= probe.wall
        /\ hi = probe.to \/ probe.first <= hi
    BY <1>2 DEF WallInv, findWall
  <2>2. probe = [pc |-> "search", from |-> probe.from, to |-> probe.to, lo |-> lo,
                 hi |-> hi, first |-> probe.first, wall |-> probe.wall]
    BY <2>1 DEF WallInv
  <2>3. /\ mid \in Int
        /\ lo <= hi => lo <= mid /\ mid <= hi
    BY <2>1, Middle
  <2>4. probe' = IF lo > hi THEN found(lo)
                 ELSE IF served /\ mid = lo THEN found(mid)
                 ELSE IF ~served /\ mid = hi THEN found(hi + 1)
                 ELSE IF served THEN [probe EXCEPT !.hi = mid]
                 ELSE [probe EXCEPT !.lo = mid + 1]
    <3> DEFINE stop(w) == [probe EXCEPT !.pc = "found", !.lo = w]
    <3>1. probe' = IF lo > hi THEN stop(lo)
                   ELSE IF served /\ mid = lo THEN stop(mid)
                   ELSE IF ~served /\ mid = hi THEN stop(hi + 1)
                   ELSE IF served THEN [probe EXCEPT !.hi = mid]
                   ELSE [probe EXCEPT !.lo = mid + 1]
      BY <1>2, <2>2 DEF findWall, Halve
    <3> HIDE DEF lo, hi, mid, served
    <3>2. ASSUME NEW w PROVE stop(w) = found(w)
      <4>1. stop(w) = [[pc |-> "search", from |-> probe.from, to |-> probe.to, lo |-> lo,
                        hi |-> hi, first |-> probe.first, wall |-> probe.wall]
                          EXCEPT !.pc = "found", !.lo = w]
        BY <2>2
      <4>2. [[pc |-> "search", from |-> probe.from, to |-> probe.to, lo |-> lo, hi |-> hi,
              first |-> probe.first, wall |-> probe.wall] EXCEPT !.pc = "found"]
              = [pc |-> "found", from |-> probe.from, to |-> probe.to, lo |-> lo, hi |-> hi,
                 first |-> probe.first, wall |-> probe.wall]
        OBVIOUS
      <4>3. [[pc |-> "found", from |-> probe.from, to |-> probe.to, lo |-> lo, hi |-> hi,
              first |-> probe.first, wall |-> probe.wall] EXCEPT !.lo = w] = found(w)
        OBVIOUS
      <4> HIDE DEF found
      <4> QED BY <4>1, <4>2, <4>3
    <3>3. stop(lo) = found(lo) /\ stop(mid) = found(mid) /\ stop(hi + 1) = found(hi + 1)
      BY <3>2
    <3> HIDE DEF stop, found
    <3> QED BY <3>1, <3>3
  <2> HIDE DEF lo, hi, mid
  <2>5. ASSUME NEW w \in Int, probe' = found(w),
               w = probe.from \/ (w <= probe.wall /\ w <= probe.to + 1),
               probe.from <= w, probe.first <= w \/ probe.to + 1 <= w
        PROVE  WallInv'
    <3>1. probe' = found(w)
      BY <2>5
    <3>2. /\ probe'.pc = "found" /\ probe'.from = probe.from /\ probe'.to = probe.to /\ probe'.lo = w
          /\ probe'.first = probe.first /\ probe'.wall = probe.wall
      BY <3>1
    <3>3. Max({probe.from, Min({probe.first, probe.to + 1})}) <= w
      <4>1. Max({probe.from, Min({probe.first, probe.to + 1})})
              = IF probe.first <= probe.from THEN probe.from
                ELSE IF probe.first <= probe.to + 1 THEN probe.first ELSE probe.to + 1
        BY <2>1, Clamped
      <4> QED BY <2>1, <2>5, <4>1
    <3>4. w <= Max({probe.from, Min({probe.wall, probe.to + 1})})
      <4>1. Max({probe.from, Min({probe.wall, probe.to + 1})})
              = IF probe.wall <= probe.from THEN probe.from
                ELSE IF probe.wall <= probe.to + 1 THEN probe.wall ELSE probe.to + 1
        BY <2>1, Clamped
      <4> QED BY <2>1, <2>5, <4>1
    <3>5. WallFound'
      BY <3>2, <3>3, <3>4 DEF WallFound
    <3> QED BY <3>1, <3>2, <3>5 DEF WallInv
  <2>6. CASE lo > hi
    <3>1. probe' = found(lo) /\ lo = probe.from /\ probe.to + 1 <= lo
      BY <2>1, <2>4, <2>6
    <3> QED BY <2>1, <2>5, <3>1
  <2>7. CASE lo <= hi /\ served /\ mid = lo
    <3>1. probe' = found(lo)
      BY <2>1, <2>4, <2>7
    <3>2. probe.first <= lo /\ (lo = probe.from \/ (lo <= probe.wall /\ lo <= probe.to + 1))
      BY <2>1, <2>3, <2>7
    <3> QED BY <2>1, <2>5, <3>1, <3>2
  <2>8. CASE lo <= hi /\ ~served /\ mid = hi
    <3>1. probe' = found(hi + 1)
      BY <2>1, <2>4, <2>8
    <3>2. /\ hi + 1 \in Int /\ probe.from <= hi + 1 /\ hi + 1 <= probe.wall /\ hi + 1 <= probe.to + 1
          /\ (probe.first <= hi + 1 \/ probe.to + 1 <= hi + 1)
      BY <2>1, <2>3, <2>8
    <3> QED BY <2>5, <3>1, <3>2
  <2>9. CASE lo <= hi /\ served /\ mid # lo
    <3>1. probe' = [pc |-> "search", from |-> probe.from, to |-> probe.to, lo |-> lo,
                    hi |-> mid, first |-> probe.first, wall |-> probe.wall]
      BY <2>1, <2>2, <2>4, <2>9
    <3>2. lo <= mid /\ mid <= probe.to /\ probe.first <= mid
      BY <2>1, <2>3, <2>9
    <3> QED BY <2>1, <2>3, <3>1, <3>2 DEF WallInv, WallFound
  <2>10. CASE lo <= hi /\ ~served /\ mid # hi
    <3>1. probe' = [pc |-> "search", from |-> probe.from, to |-> probe.to, lo |-> mid + 1,
                    hi |-> hi, first |-> probe.first, wall |-> probe.wall]
      BY <2>1, <2>2, <2>4, <2>10
    <3>2. mid + 1 \in Int /\ mid + 1 <= hi /\ mid + 1 <= probe.wall /\ probe.from <= mid + 1
      BY <2>1, <2>3, <2>10
    <3> QED BY <2>1, <3>1, <3>2 DEF WallInv, WallFound
  <2> QED BY <2>1, <2>6, <2>7, <2>8, <2>9, <2>10
<1>3. CASE ProbeFails
  <2>1. probe' = [pc |-> "failed", from |-> probe.from, to |-> probe.to, lo |-> probe.lo,
                  hi |-> probe.hi, first |-> probe.first, wall |-> probe.wall]
    BY <1>3 DEF ProbeFails, WallInv
  <2> QED BY <2>1 DEF WallInv, WallFound
<1>4. CASE Prune
  <2>1. probe.pc = "search"
    BY <1>4 DEF Prune
  <2>2. probe' = [pc |-> "search", from |-> probe.from, to |-> probe.to, lo |-> probe.lo,
                  hi |-> probe.hi, first |-> probe.first, wall |-> probe.wall + 1]
    BY <1>4, <2>1 DEF Prune, WallInv
  <2>3. probe.wall \in Int /\ probe.first \in Int /\ probe.lo \in Int /\ probe.first <= probe.wall + 1
        /\ (probe.lo = probe.from \/ probe.lo <= probe.wall + 1)
    BY <2>1 DEF WallInv
  <2> QED BY <2>1, <2>2, <2>3 DEF WallInv, WallFound
<1>5. CASE UNCHANGED probe
  BY <1>5 DEF WallInv, WallFound
<1> QED
  BY <1>1, <1>2, <1>3, <1>4, <1>5 DEF PlanNext, planVars, StartPlan, normalizePlan, StartCut,
     partitionLoop, StartHoles, uncoveredLoop, EndHoles

LEMMA PlanInvariant == PlanSpec => [](CutInv /\ HolesInv /\ WallInv)
<1>1. PlanInit => CutInv /\ HolesInv /\ WallInv
  BY CutInvInit, HolesInvInit, WallInvInit
<1>2. (CutInv /\ HolesInv /\ WallInv) /\ [PlanNext]_planVars => (CutInv /\ HolesInv /\ WallInv)'
  BY CutInvNext, HolesInvNext, WallInvNext
<1> QED BY <1>1, <1>2, PTL DEF PlanSpec

\* normalizePlan and its merge: whatever is asked for, with whatever padding, the
\* merged plan is the whole checkpoints around it and nothing else, up to the last
\* sequence number, where adding one to an interval's end wraps to zero.
THEOREM PlansCoverAsked == PlanSpec => []PlanCoversAsked
<1>1. CutInv => PlanCoversAsked
  BY DEF CutInv, MergeInv
<1> QED BY <1>1, PlanInvariant, PTL

\* partition: a gap's remainder is cut into the maximal wanted and unwanted runs,
\* each in its mode, which is what Gaps' PlanHealRows takes it to do.
THEOREM CutsAreExact == PlanSpec => []PartitionExact
<1>1. CutInv => PartitionExact
  BY DEF CutInv
<1> QED BY <1>1, PlanInvariant, PTL

\* uncoveredRanges: what is inserted for a recorded range is the maximal holes
\* between the gaps that cover it, which is what Gaps' RecordGapRows takes it to do.
THEOREM HolesAreExact == PlanSpec => []UncoveredExact
<1>1. HolesInv => UncoveredExact
  BY DEF HolesInv
<1> QED BY <1>1, PlanInvariant, PTL

\* findWall: the binary search ends between the wall it started under and the one
\* it ends under, however often retention moves it up between two probes.
THEOREM WallIsFound == PlanSpec => []WallFound
<1>1. WallInv => WallFound
  BY DEF WallInv
<1> QED BY <1>1, PlanInvariant, PTL

-----------------------------------------------------------------------------
(* Extraction: the ledgers a behaviour builds.                             *)

\* A change vector as core writes it.
Paired(v) ==
    \A i \in DOMAIN v : v[i].type \in {"updated", "removed"} => i > 1 /\ v[i - 1].type = "state"

Vector == {v \in Seq(RawChange) : Paired(v)}

Tx == [state: TxStates, events: Seq(Event), metas: Seq(Vector)]

LedgerInv == ledger \in Seq(Tx)

LEMMA ReplaceLast ==
    ASSUME NEW S, NEW s \in Seq(S), s # <<>>, NEW e \in S
    PROVE  Len(s) \in DOMAIN s /\ Last(s) = s[Len(s)] /\ Last(s) \in S
           /\ [s EXCEPT ![Len(s)] = e] \in Seq(S)
<1>1. Len(s) \in Nat /\ DOMAIN s = 1..Len(s) /\ Len(s) \in DOMAIN s /\ s \in [1..Len(s) -> S]
  OBVIOUS
<1>2. [s EXCEPT ![Len(s)] = e] \in [1..Len(s) -> S]
  BY <1>1
<1>3. \A n \in Nat : \A f \in [1..n -> S] : f \in Seq(S)
  OBVIOUS
<1> QED BY <1>1, <1>2, <1>3 DEF Last

\* Two vectors, one after the other.
LEMMA Joined ==
    ASSUME NEW u \in Vector, NEW v \in Vector
    PROVE  u \o v \in Vector
<1>1. u \in Seq(RawChange) /\ v \in Seq(RawChange) /\ Paired(u) /\ Paired(v)
  BY DEF Vector
<1>2. /\ u \o v \in Seq(RawChange) /\ Len(u) \in Nat /\ Len(v) \in Nat
      /\ DOMAIN (u \o v) = 1..(Len(u) + Len(v)) /\ DOMAIN u = 1..Len(u) /\ DOMAIN v = 1..Len(v)
  BY <1>1
<1>3. ASSUME NEW i \in DOMAIN (u \o v), (u \o v)[i].type \in {"updated", "removed"}
      PROVE  i > 1 /\ (u \o v)[i - 1].type = "state"
  <2>1. CASE i <= Len(u)
    <3>1. i \in DOMAIN u /\ (u \o v)[i] = u[i]
      BY <1>1, <1>2, <2>1
    <3>2. i > 1 /\ u[i - 1].type = "state"
      BY <1>1, <1>3, <3>1 DEF Paired
    <3>3. (u \o v)[i - 1] = u[i - 1]
      BY <1>1, <1>2, <2>1, <3>2
    <3> QED BY <3>2, <3>3
  <2>2. CASE i > Len(u)
    <3>1. i - Len(u) \in DOMAIN v /\ (u \o v)[i] = v[i - Len(u)]
      BY <1>1, <1>2, <2>2
    <3>2. i - Len(u) > 1 /\ v[i - Len(u) - 1].type = "state"
      BY <1>1, <1>3, <3>1 DEF Paired
    <3>3. i > 1 /\ i - 1 \in 1..(Len(u) + Len(v)) /\ i - 1 > Len(u) /\ i - 1 - Len(u) = i - Len(u) - 1
      BY <1>2, <2>2, <3>2
    <3>4. (u \o v)[i - 1] = v[i - 1 - Len(u)]
      BY <1>1, <1>2, <3>3
    <3> QED BY <3>2, <3>3, <3>4
  <2> QED BY <1>2, <2>1, <2>2
<1> QED BY <1>2, <1>3 DEF Vector, Paired

LEMMA UnitsPaired ==
    ASSUME NEW u \in UnitCatalog
    PROVE  u \in Vector
  BY ExtractionAssumption DEF Vector, Paired

LEMMA VectorsPaired ==
    ASSUME NEW u \in Vectors
    PROVE  u \in Vector
  BY UnitsPaired, Joined DEF Vectors

LEMMA LedgerInvNext == LedgerInv /\ [ExtractionNext]_ledger => LedgerInv'
<1> SUFFICES ASSUME LedgerInv, [ExtractionNext]_ledger PROVE LedgerInv'
  OBVIOUS
<1>0. <<>> \in Vector
  BY DEF Vector, Paired
<1>1. CASE AddTx
  <2>1. PICK s \in TxStates :
           ledger' = Append(ledger, [state |-> s, events |-> <<>>, metas |-> <<<<>>>>])
    BY <1>1 DEF AddTx
  <2>2. <<<<>>>> \in Seq(Vector) /\ <<>> \in Seq(Event)
    BY <1>0
  <2>3. [state |-> s, events |-> <<>>, metas |-> <<<<>>>>] \in Tx
    BY <2>2 DEF Tx
  <2> QED BY <2>1, <2>3 DEF LedgerInv
<1>2. ASSUME ledger # <<>>
      PROVE  /\ Len(ledger) \in DOMAIN ledger /\ Last(ledger) = ledger[Len(ledger)]
             /\ Last(ledger) \in Tx
             /\ \A e \in Tx : [ledger EXCEPT ![Len(ledger)] = e] \in Seq(Tx)
  BY <1>2, ReplaceLast DEF LedgerInv
<1>3. CASE AddOp
  <2>1. ledger # <<>> /\ ledger' = [ledger EXCEPT ![Len(ledger)].metas = Append(@, <<>>)]
    BY <1>3 DEF AddOp
  <2> DEFINE tx == [Last(ledger) EXCEPT !.metas = Append(@, <<>>)]
  <2>2. tx \in Tx
    <3>1. Append(Last(ledger).metas, <<>>) \in Seq(Vector)
      BY <1>0, <1>2, <2>1 DEF Tx
    <3> QED BY <1>2, <2>1, <3>1 DEF Tx
  <2>3. ledger' = [ledger EXCEPT ![Len(ledger)] = tx]
    BY <1>2, <2>1
  <2> QED BY <1>2, <2>1, <2>2, <2>3 DEF LedgerInv
<1>4. CASE AddEvent
  <2>1. ledger # <<>>
    BY <1>4 DEF AddEvent
  <2>2. PICK ev \in EventCatalog : ledger' = [ledger EXCEPT ![Len(ledger)].events = Append(@, ev)]
    BY <1>4 DEF AddEvent
  <2> DEFINE tx == [Last(ledger) EXCEPT !.events = Append(@, ev)]
  <2>3. tx \in Tx
    <3>1. Append(Last(ledger).events, ev) \in Seq(Event)
      <4>1. ev \in Event
        BY ExtractionAssumption
      <4>2. Last(ledger).events \in Seq(Event)
        BY <1>2, <2>1 DEF Tx
      <4> QED BY <4>1, <4>2
    <3> QED BY <1>2, <2>1, <3>1 DEF Tx
  <2>4. ledger' = [ledger EXCEPT ![Len(ledger)] = tx]
    BY <1>2, <2>1, <2>2
  <2> QED BY <1>2, <2>1, <2>3, <2>4 DEF LedgerInv
<1>5. CASE AddChange
  <2>1. ledger # <<>>
    BY <1>5 DEF AddChange
  <2> DEFINE metas == Last(ledger).metas
  <2>2. PICK u \in UnitCatalog :
           ledger' = [ledger EXCEPT ![Len(ledger)].metas = [metas EXCEPT ![Len(metas)] = @ \o u]]
    BY <1>5 DEF AddChange
  <2> DEFINE more == [metas EXCEPT ![Len(metas)] = @ \o u]
             tx == [Last(ledger) EXCEPT !.metas = more]
  <2>3. metas \in Seq(Vector)
    BY <1>2, <2>1 DEF Tx
  <2> HIDE DEF metas
  <2>4. more \in Seq(Vector)
    <3>1. CASE metas = <<>>
      <4>1. DOMAIN metas = {} /\ Len(metas) = 0
        BY <3>1
      <4>2. more = metas
        BY <2>3, <4>1
      <4> QED BY <2>3, <4>2
    <3>2. CASE metas # <<>>
      <4>1. metas[Len(metas)] \in Vector
        BY <2>3, <3>2
      <4>2. metas[Len(metas)] \o u \in Vector
        BY <4>1, UnitsPaired, Joined
      <4>3. more = [metas EXCEPT ![Len(metas)] = metas[Len(metas)] \o u]
        OBVIOUS
      <4> QED BY <2>3, <3>2, <4>2, <4>3, ReplaceLast
    <3> QED BY <3>1, <3>2
  <2>5. tx \in Tx
    BY <1>2, <2>1, <2>4 DEF Tx
  <2>6. ledger' = [ledger EXCEPT ![Len(ledger)] = tx]
    BY <1>2, <2>1, <2>2
  <2> QED BY <1>2, <2>1, <2>5, <2>6 DEF LedgerInv
<1>6. CASE UNCHANGED ledger
  BY <1>6 DEF LedgerInv
<1> QED BY <1>1, <1>3, <1>4, <1>5, <1>6 DEF ExtractionNext

LEMMA LedgerInvariant == ExtractionSpec => []LedgerInv
<1>1. ExtractionInit => LedgerInv
  BY DEF ExtractionInit, LedgerInv
<1> QED BY <1>1, LedgerInvNext, PTL DEF ExtractionSpec

-----------------------------------------------------------------------------
(* The equivalence gate.                                                   *)

\* One unit of a canonical vector, as the SDK reads it.
ChangeOf(unit) ==
    IF Len(unit) = 2
    THEN [type |-> unit[2].type, key |-> unit[2].key, pre |-> unit[1].val, post |-> unit[2].val]
    ELSE [type |-> unit[1].type, key |-> unit[1].key, pre |-> 0, post |-> unit[1].val]

\* The changes of a vector can be read off its canonical form.
LEMMA ChangesOfUnits ==
    ASSUME NEW v \in Vector
    PROVE  ChangesMade(v) = {ChangeOf(u) : u \in {w \in canonicalizeChanges(v) :
                                                     Len(w) = 2 \/ w[1].type # "state"}}
<1> DEFINE made == {i \in DOMAIN v : v[i].type # "state"}
           change(i) == [type |-> v[i].type, key |-> v[i].key,
                         pre |-> IF v[i].type \in {"updated", "removed"} THEN v[i - 1].val ELSE 0,
                         post |-> v[i].val]
           units == {w \in canonicalizeChanges(v) : Len(w) = 2 \/ w[1].type # "state"}
<1>1. /\ v \in Seq(RawChange) /\ Paired(v) /\ DOMAIN v = 1..Len(v) /\ Len(v) \in Nat
  BY DEF Vector
<1>2. ASSUME NEW i \in made PROVE \E w \in units : change(i) = ChangeOf(w)
  <2>1. i \in DOMAIN v /\ i \in Int /\ v[i].type # "state"
    BY <1>1
  <2>2. CASE v[i].type \in {"updated", "removed"}
    <3>1. i > 1 /\ v[i - 1].type = "state" /\ i - 1 \in DOMAIN v
      BY <1>1, <2>1, <2>2 DEF Paired
    <3>2. Absorbed(v, i) /\ ~Absorbed(v, i - 1) /\ i - 1 + 1 = i /\ i - 1 < Len(v)
      BY <1>1, <2>1, <2>2, <3>1 DEF Absorbed
    <3>3. UnitAt(v, i - 1) = <<v[i - 1], v[i]>>
      BY <3>2 DEF UnitAt
    <3>4. UnitAt(v, i - 1) \in canonicalizeChanges(v)
      BY <3>1, <3>2 DEF canonicalizeChanges
    <3>5. ChangeOf(<<v[i - 1], v[i]>>) = change(i) /\ Len(<<v[i - 1], v[i]>>) = 2
      BY <2>2 DEF ChangeOf
    <3> QED BY <3>3, <3>4, <3>5
  <2>3. CASE v[i].type \notin {"updated", "removed"}
    <3>1. ~Absorbed(v, i)
      BY <2>3 DEF Absorbed
    <3>2. ~(i < Len(v) /\ Absorbed(v, i + 1))
      <4>1. i + 1 - 1 = i
        BY <2>1
      <4> QED BY <2>1, <4>1 DEF Absorbed
    <3>3. UnitAt(v, i) = <<v[i]>>
      BY <3>2 DEF UnitAt
    <3>4. UnitAt(v, i) \in canonicalizeChanges(v)
      BY <2>1, <3>1 DEF canonicalizeChanges
    <3>5. ChangeOf(<<v[i]>>) = change(i) /\ Len(<<v[i]>>) = 1 /\ <<v[i]>>[1].type # "state"
      BY <2>1, <2>3 DEF ChangeOf
    <3> QED BY <3>3, <3>4, <3>5
  <2> QED BY <2>2, <2>3
<1>3. ASSUME NEW w \in units PROVE \E i \in made : change(i) = ChangeOf(w)
  <2>1. PICK j \in DOMAIN v : ~Absorbed(v, j) /\ w = UnitAt(v, j)
    BY DEF canonicalizeChanges
  <2>2. j \in Int
    BY <1>1
  <2>3. CASE j < Len(v) /\ Absorbed(v, j + 1)
    <3>1. w = <<v[j], v[j + 1]>>
      BY <2>1, <2>3 DEF UnitAt
    <3>2. j + 1 \in DOMAIN v /\ j + 1 - 1 = j /\ v[j + 1].type \in {"updated", "removed"}
      BY <1>1, <2>2, <2>3 DEF Absorbed
    <3>3. ChangeOf(w) = change(j + 1)
      <4>1. Len(w) = 2 /\ w[1] = v[j] /\ w[2] = v[j + 1]
        BY <3>1
      <4>2. ChangeOf(w) = [type |-> v[j + 1].type, key |-> v[j + 1].key, pre |-> v[j].val,
                           post |-> v[j + 1].val]
        BY <4>1 DEF ChangeOf
      <4>3. change(j + 1) = [type |-> v[j + 1].type, key |-> v[j + 1].key, pre |-> v[j].val,
                             post |-> v[j + 1].val]
        BY <2>2, <3>2
      <4> QED BY <4>2, <4>3
    <3>4. j + 1 \in made
      BY <3>2
    <3> QED BY <3>3, <3>4
  <2>4. CASE ~(j < Len(v) /\ Absorbed(v, j + 1))
    <3>1. w = <<v[j]>> /\ Len(w) = 1 /\ w[1] = v[j]
      BY <2>1, <2>4 DEF UnitAt
    <3>2. v[j].type # "state"
      BY <3>1
    <3>3. v[j].type \notin {"updated", "removed"}
      BY <1>1, <2>1 DEF Absorbed, Paired
    <3>4. ChangeOf(w) = change(j)
      BY <3>1, <3>3 DEF ChangeOf
    <3> QED BY <3>2, <3>4
  <2> QED BY <2>3, <2>4
<1>4. ChangesMade(v) = {change(i) : i \in made}
  BY DEF ChangesMade
<1> QED BY <1>2, <1>3, <1>4

\* The gate compares everything the rows of a vector depend on.
LEMMA SameChanges ==
    ASSUME NEW u \in Vector, NEW v \in Vector, canonicalizeChanges(u) = canonicalizeChanges(v)
    PROVE  GetChanges(u) = GetChanges(v)
<1>1. ChangesMade(u) = ChangesMade(v)
  BY ChangesOfUnits
<1> QED BY <1>1 DEF GetChanges

LEMMA SameRows ==
    ASSUME NEW t1, NEW t2, t1.state = t2.state, EventsIn(t1) = EventsIn(t2),
           ChangesIn(t1) = ChangesIn(t2), NEW n, NEW watch
    PROVE  processTx(t1, n, watch) = processTx(t2, n, watch)
<1>1. Walked(t1, watch) = Walked(t2, watch)
  BY DEF Walked
<1>2. Panics(t1, watch) <=> Panics(t2, watch)
  BY DEF Panics
<1> QED BY <1>1, <1>2 DEF processTx

LEMMA GateHolds == LedgerInv => GateMeansSameRows
<1> DEFINE tx(v) == [state |-> "ok", events |-> <<>>, metas |-> <<v>>]
           watch == [c \in Contracts |-> Kinds]
<1> SUFFICES ASSUME LedgerInv, NEW u \in Vectors, NEW n \in DOMAIN ledger,
                    NEW j \in DOMAIN ledger[n].metas,
                    canonicalizeChanges(u) = canonicalizeChanges(ledger[n].metas[j])
             PROVE  processTx(tx(u), 1, watch) = processTx(tx(ledger[n].metas[j]), 1, watch)
  BY DEF GateMeansSameRows
<1> DEFINE v == ledger[n].metas[j]
<1>1. v \in Vector
  <2>1. ledger[n] \in Tx
    BY DEF LedgerInv
  <2>2. ledger[n].metas \in Seq(Vector)
    BY <2>1 DEF Tx
  <2> QED BY <2>2
<1> HIDE DEF v
<1>2. canonicalizeChanges(u) = canonicalizeChanges(v)
  BY DEF v
<1>3. GetChanges(u) = GetChanges(v)
  BY <1>1, <1>2, VectorsPaired, SameChanges
<1>4. /\ tx(u).state = "ok" /\ tx(v).state = "ok" /\ EventsIn(tx(u)) = <<>> /\ EventsIn(tx(v)) = <<>>
      /\ ChangesIn(tx(u)) = ChangesIn(tx(v))
  <2>1. ASSUME NEW w PROVE /\ tx(w).state = "ok" /\ EventsIn(tx(w)) = <<>>
                           /\ ChangesIn(tx(w)) = FlattenSeq([i \in {1} |-> GetChanges(w)])
    <3>1. tx(w).state = "ok" /\ tx(w).metas = <<w>> /\ tx(w).events = <<>>
      OBVIOUS
    <3>2. [i \in DOMAIN <<w>> |-> GetChanges(<<w>>[i])] = [i \in {1} |-> GetChanges(w)]
      OBVIOUS
    <3> HIDE DEF tx
    <3> QED BY <3>1, <3>2 DEF EventsIn, ChangesIn
  <2> HIDE DEF tx
  <2> QED BY <1>3, <2>1
<1> HIDE DEF tx, watch
<1>5. processTx(tx(u), 1, watch) = processTx(tx(v), 1, watch)
  BY <1>4, SameRows
<1> QED BY <1>5 DEF v

-----------------------------------------------------------------------------
(* Projection.                                                             *)

\* What watch set p[1] and kind p[2] alone make of a registry question.
LEMMA OnlyKinds ==
    ASSUME NEW c \in Contracts, NEW k
    PROVE  /\ \A d, m : HasKind(Only(c, k), d, m) <=> d = c /\ m = k
           /\ \A m : AnyKind(Only(c, k), m) <=> m = k
  BY DEF Only, HasKind, AnyKind

\* A registration that is part of a watch set sees no more than the set does.
LEMMA OnlySeesLess ==
    ASSUME NEW watch, NEW c \in Contracts, NEW k \in watch[c]
    PROVE  /\ \A d, m : HasKind(Only(c, k), d, m) => HasKind(watch, d, m)
           /\ \A m : AnyKind(Only(c, k), m) => AnyKind(watch, m)
           /\ \A ev : Decodes(ev, Only(c, k)) => Decodes(ev, watch)
           /\ \A ev : EventPanics(ev, Only(c, k)) => EventPanics(ev, watch)
           /\ \A ch : ChangePanics(ch, Only(c, k)) => ChangePanics(ch, watch)
<1>1. \A d, m : HasKind(Only(c, k), d, m) => HasKind(watch, d, m)
  BY OnlyKinds DEF HasKind
<1>2. \A m : AnyKind(Only(c, k), m) => AnyKind(watch, m)
  BY OnlyKinds DEF AnyKind
<1>3. \A ev : Decodes(ev, Only(c, k)) => Decodes(ev, watch)
  BY <1>1, <1>2 DEF Decodes, emitsTransfers, wantMovements, participatesWatched
<1>4. \A ev : EventPanics(ev, Only(c, k)) => EventPanics(ev, watch)
  BY <1>1, <1>3 DEF EventPanics
<1>5. \A ch : ChangePanics(ch, Only(c, k)) => ChangePanics(ch, watch)
  BY <1>2 DEF ChangePanics
<1> QED BY <1>1, <1>2, <1>3, <1>4, <1>5

\* The rows of one event, one disjunct per kind.
EventRow(r, ev, id, watch) ==
    \/ /\ HasKind(watch, ev.emitter, "events") /\ ev.form \notin {"later", "unencodable"}
       /\ r = Row("events", ev.emitter, id, ev)
    \/ /\ IsMovement(ev) /\ buildTransfer(ev).ok /\ emitsTransfers(ev, watch)
       /\ r = Row("transfers", ev.emitter, id, ev)
    \/ /\ IsMovement(ev) /\ buildTransfer(ev).ok /\ wantMovements(ev, watch)
       /\ ev.form # "unencodable"
       /\ r \in movementsOf(buildTransfer(ev), ev, id, watch)

\* When an event decodes as a token movement.
LEMMA BuildOk ==
    ASSUME NEW ev
    PROVE  buildTransfer(ev).ok <=> /\ ev.form # "undecodable"
                                    /\ IF ev.name = "transfer" THEN Len(ev.addrs) = 2
                                       ELSE ev.addrs # <<>>
<1>1. buildTransfer(ev).ok = (/\ ev.form # "undecodable"
                              /\ IF ev.name = "transfer" THEN Len(ev.addrs) = 2
                                 ELSE ev.addrs # <<>>)
  BY DEF buildTransfer
<1> QED BY <1>1

LEMMA RowOfEvent ==
    ASSUME NEW r, NEW ev, NEW id, NEW watch
    PROVE  r \in eventRows(ev, id, watch).rows <=> EventRow(r, ev, id, watch)
<1> DEFINE emits == emitsTransfers(ev, watch)
           wants == wantMovements(ev, watch)
           ok == buildTransfer(ev).ok
           moves == movementsOf(buildTransfer(ev), ev, id, watch)
           rows == (IF HasKind(watch, ev.emitter, "events") /\ ev.form \notin {"later", "unencodable"}
                    THEN {Row("events", ev.emitter, id, ev)} ELSE {})
                   \cup (IF Decodes(ev, watch) /\ ok /\ emits
                         THEN {Row("transfers", ev.emitter, id, ev)} ELSE {})
                   \cup (IF Decodes(ev, watch) /\ ok /\ wants /\ ev.form # "unencodable"
                         THEN moves ELSE {})
<1>1. eventRows(ev, id, watch).rows = rows
  BY DEF eventRows
<1>2. Decodes(ev, watch) <=> IsMovement(ev) /\ (emits \/ wants)
  BY DEF Decodes
<1> HIDE DEF emits, wants, ok, moves
<1>3. r \in rows <=> EventRow(r, ev, id, watch)
  BY <1>2 DEF EventRow, emits, wants, ok, moves
<1> QED BY <1>1, <1>3

\* Who an event's money comes from or goes to is one of its address topics.
LEMMA PartyIsTopic ==
    ASSUME NEW ev \in Event, IsMovement(ev), buildTransfer(ev).ok, NEW c \in Contracts,
           c \in {buildTransfer(ev).from, buildTransfer(ev).to}
    PROVE  \E i \in DOMAIN ev.addrs : ev.addrs[i] = c
<1> DEFINE addrs == ev.addrs
<1>1. addrs \in Seq(Contracts \cup Accounts) /\ ev.name \in Names
  BY DEF Event
<1>2. addrs # <<>>
  <2>1. IF ev.name = "transfer" THEN Len(addrs) = 2 ELSE addrs # <<>>
    BY BuildOk
  <2>2. addrs = <<>> => Len(addrs) = 0
    OBVIOUS
  <2> QED BY <2>1, <2>2
<1>3. /\ Len(addrs) \in Nat /\ DOMAIN addrs = 1..Len(addrs) /\ 1 \in DOMAIN addrs
      /\ Len(addrs) \in DOMAIN addrs /\ Head(addrs) = addrs[1] /\ Last(addrs) = addrs[Len(addrs)]
  BY <1>1, <1>2 DEF Last
<1>4. c # ""
  BY ExtractionAssumption
<1>5. buildTransfer(ev).from \in {Head(addrs), Last(addrs), ""} /\ buildTransfer(ev).to \in {Last(addrs), ""}
  BY DEF buildTransfer
<1> QED BY <1>3, <1>4, <1>5

\* The rows of an event are those it has for one registration at a time.
LEMMA EventProjects ==
    ASSUME NEW ev \in Event, NEW id, NEW watch, NEW r
    PROVE  EventRow(r, ev, id, watch)
             <=> \E c \in Contracts, k \in Kinds : k \in watch[c] /\ EventRow(r, ev, id, Only(c, k))
<1>1. ASSUME NEW c \in Contracts, NEW k \in Kinds, k \in watch[c], EventRow(r, ev, id, Only(c, k))
      PROVE  EventRow(r, ev, id, watch)
  <2>1. /\ \A d, m : HasKind(Only(c, k), d, m) => HasKind(watch, d, m)
        /\ \A m : AnyKind(Only(c, k), m) => AnyKind(watch, m)
    BY <1>1, OnlySeesLess
  <2>2. emitsTransfers(ev, Only(c, k)) => emitsTransfers(ev, watch)
    BY <2>1 DEF emitsTransfers
  <2>3. wantMovements(ev, Only(c, k)) => wantMovements(ev, watch)
    BY <2>1 DEF wantMovements, participatesWatched
  <2>4. r \in movementsOf(buildTransfer(ev), ev, id, Only(c, k))
          => r \in movementsOf(buildTransfer(ev), ev, id, watch)
    BY <2>1 DEF movementsOf
  <2> QED BY <1>1, <2>1, <2>2, <2>3, <2>4 DEF EventRow
<1>2. ASSUME EventRow(r, ev, id, watch)
      PROVE  \E c \in Contracts, k \in Kinds : k \in watch[c] /\ EventRow(r, ev, id, Only(c, k))
  <2>1. CASE /\ HasKind(watch, ev.emitter, "events") /\ ev.form \notin {"later", "unencodable"}
             /\ r = Row("events", ev.emitter, id, ev)
    <3>1. ev.emitter \in Contracts /\ "events" \in watch[ev.emitter] /\ "events" \in Kinds
      BY <2>1 DEF HasKind, Kinds
    <3>2. EventRow(r, ev, id, Only(ev.emitter, "events"))
      BY <2>1, <3>1, OnlyKinds DEF EventRow
    <3> QED BY <3>1, <3>2
  <2>2. CASE /\ IsMovement(ev) /\ buildTransfer(ev).ok /\ emitsTransfers(ev, watch)
             /\ r = Row("transfers", ev.emitter, id, ev)
    <3>1. ev.emitter \in Contracts /\ "transfers" \in watch[ev.emitter] /\ "transfers" \in Kinds
      BY <2>2 DEF HasKind, Kinds, emitsTransfers
    <3>2. emitsTransfers(ev, Only(ev.emitter, "transfers"))
      BY <3>1, OnlyKinds DEF emitsTransfers
    <3>3. EventRow(r, ev, id, Only(ev.emitter, "transfers"))
      BY <2>2, <3>2 DEF EventRow
    <3> QED BY <3>1, <3>3
  <2>3. CASE /\ IsMovement(ev) /\ buildTransfer(ev).ok /\ wantMovements(ev, watch)
             /\ ev.form # "unencodable"
             /\ r \in movementsOf(buildTransfer(ev), ev, id, watch)
    <3> DEFINE t == buildTransfer(ev)
    <3>1. PICK p \in {<<t.from, "sender">>, <<t.to, "recipient">>} :
             /\ HasKind(watch, p[1], "movements")
             /\ r = [kind |-> "movements", contract |-> p[1], id |-> id, role |-> p[2], of |-> ev]
      BY <2>3 DEF movementsOf
    <3> HIDE DEF t
    <3>2. p[1] \in Contracts /\ "movements" \in watch[p[1]] /\ "movements" \in Kinds
      BY <3>1 DEF HasKind, Kinds
    <3>3. p[1] \in {t.from, t.to}
      BY <3>1
    <3>4. \E i \in DOMAIN ev.addrs : ev.addrs[i] = p[1]
      BY <2>3, <3>2, <3>3, PartyIsTopic DEF t
    <3>5. wantMovements(ev, Only(p[1], "movements"))
      BY <3>2, <3>4, OnlyKinds DEF wantMovements, participatesWatched
    <3>6. r \in movementsOf(t, ev, id, Only(p[1], "movements"))
      BY <3>1, <3>2, OnlyKinds DEF movementsOf
    <3>7. EventRow(r, ev, id, Only(p[1], "movements"))
      BY <2>3, <3>5, <3>6 DEF EventRow, t
    <3> QED BY <3>2, <3>7
  <2> QED BY <1>2, <2>1, <2>2, <2>3 DEF EventRow
<1> QED BY <1>1, <1>2

\* The row of one change: whose it is, and which kind asks for it.
LEMMA ChangeProjects ==
    ASSUME NEW ch, NEW id, NEW watch, NEW r
    PROVE  r \in changeRows(ch, id, watch).rows
             <=> \E c \in Contracts, k \in Kinds :
                    k \in watch[c] /\ r \in changeRows(ch, id, Only(c, k)).rows
<1> DEFINE key == LedgerKeys[ch.key]
           row == [kind |-> IF key.class = "data" THEN "state" ELSE "trustlines",
                   contract |-> key.owner, id |-> id, key |-> ch.key,
                   type |-> ch.type, pre |-> ch.pre, post |-> ch.post]
           owed(w) == \/ key.class = "data" /\ HasKind(w, key.owner, "state")
                      \/ key.class = "trustline" /\ HasKind(w, key.owner, "trustlines")
<1>1. ASSUME NEW w PROVE r \in changeRows(ch, id, w).rows <=> owed(w) /\ r = row
  BY DEF changeRows
<1> HIDE DEF row
<1>2. owed(watch) <=> \E c \in Contracts, k \in Kinds : k \in watch[c] /\ owed(Only(c, k))
  <2>1. ASSUME NEW c \in Contracts, NEW k \in Kinds, k \in watch[c], owed(Only(c, k))
        PROVE  owed(watch)
    BY <2>1, OnlySeesLess
  <2>2. ASSUME owed(watch)
        PROVE  \E c \in Contracts, k \in Kinds : k \in watch[c] /\ owed(Only(c, k))
    <3>1. PICK m \in {"state", "trustlines"} :
             /\ HasKind(watch, key.owner, m)
             /\ key.class = IF m = "state" THEN "data" ELSE "trustline"
      BY <2>2
    <3>2. key.owner \in Contracts /\ m \in watch[key.owner] /\ m \in Kinds
      BY <3>1 DEF HasKind, Kinds
    <3>3. HasKind(Only(key.owner, m), key.owner, m)
      BY <3>2, OnlyKinds
    <3>4. owed(Only(key.owner, m))
      BY <3>1, <3>3
    <3> HIDE DEF key, owed
    <3> QED BY <3>2, <3>4
  <2> QED BY <2>1, <2>2
<1> HIDE DEF owed
<1> QED BY <1>1, <1>2

\* What a transaction yields when nothing in it panics: every item is walked.
TxRow(r, tx, n, watch) ==
    /\ tx.state \notin {"unreadable", "failed"}
    /\ \/ \E i \in DOMAIN EventsIn(tx) : EventRow(r, EventsIn(tx)[i], <<n, i - 1>>, watch)
       \/ \E i \in DOMAIN ChangesIn(tx) : r \in changeRows(ChangesIn(tx)[i], <<n, i - 1>>, watch).rows

LEMMA WalksAll ==
    ASSUME NEW tx, NEW watch, ~Panics(tx, watch)
    PROVE  /\ Walked(tx, watch).events = DOMAIN EventsIn(tx)
           /\ Walked(tx, watch).changes = DOMAIN ChangesIn(tx)
  BY DEF Walked, Panics

LEMMA RowOfTx ==
    ASSUME NEW tx, NEW n, NEW watch, ~Panics(tx, watch), NEW r
    PROVE  r \in processTx(tx, n, watch).rows <=> TxRow(r, tx, n, watch)
<1> DEFINE events == EventsIn(tx)
           changes == ChangesIn(tx)
           out == {eventRows(events[i], <<n, i - 1>>, watch) : i \in DOMAIN events}
                  \cup {changeRows(changes[i], <<n, i - 1>>, watch) : i \in DOMAIN changes}
<1>1. processTx(tx, n, watch).rows
        = IF tx.state \in {"unreadable", "failed"} THEN {} ELSE UNION {o.rows : o \in out}
  BY WalksAll DEF processTx, Index
<1>2. r \in UNION {o.rows : o \in out}
        <=> \/ \E i \in DOMAIN events : r \in eventRows(events[i], <<n, i - 1>>, watch).rows
            \/ \E i \in DOMAIN changes : r \in changeRows(changes[i], <<n, i - 1>>, watch).rows
  OBVIOUS
<1>3. (\E i \in DOMAIN events : r \in eventRows(events[i], <<n, i - 1>>, watch).rows)
        <=> \E i \in DOMAIN events : EventRow(r, events[i], <<n, i - 1>>, watch)
  BY RowOfEvent
<1> QED BY <1>1, <1>2, <1>3 DEF TxRow

LEMMA EventsTyped ==
    ASSUME NEW tx \in Tx
    PROVE  \A i \in DOMAIN EventsIn(tx) : EventsIn(tx)[i] \in Event
<1>1. tx.events \in Seq(Event)
  BY DEF Tx
<1>2. \A i \in DOMAIN <<>> : FALSE
  OBVIOUS
<1> QED BY <1>1, <1>2 DEF EventsIn

LEMMA TxsTyped ==
    ASSUME LedgerInv
    PROVE  \A n \in DOMAIN ledger : ledger[n] \in Tx
  BY DEF LedgerInv

\* So are the rows of a transaction those of one registration at a time.
LEMMA TxProjects ==
    ASSUME NEW tx \in Tx, NEW n, NEW watch, ~Panics(tx, watch), NEW r
    PROVE  TxRow(r, tx, n, watch)
             <=> \E c \in Contracts, k \in Kinds : k \in watch[c] /\ TxRow(r, tx, n, Only(c, k))
<1>1. \A i \in DOMAIN EventsIn(tx) : EventsIn(tx)[i] \in Event
  BY EventsTyped
<1>2. \A i \in DOMAIN EventsIn(tx) :
         EventRow(r, EventsIn(tx)[i], <<n, i - 1>>, watch)
            <=> \E c \in Contracts, k \in Kinds :
                   k \in watch[c] /\ EventRow(r, EventsIn(tx)[i], <<n, i - 1>>, Only(c, k))
  BY <1>1, EventProjects
<1>3. \A i \in DOMAIN ChangesIn(tx) :
         r \in changeRows(ChangesIn(tx)[i], <<n, i - 1>>, watch).rows
            <=> \E c \in Contracts, k \in Kinds :
                   k \in watch[c] /\ r \in changeRows(ChangesIn(tx)[i], <<n, i - 1>>, Only(c, k)).rows
  BY ChangeProjects
<1> QED BY <1>2, <1>3, Zenon DEF TxRow

\* A transaction that does not panic for a watch set panics for no part of it.
LEMMA NoPartPanics ==
    ASSUME NEW tx, NEW watch, ~Panics(tx, watch), NEW c \in Contracts, NEW k \in watch[c]
    PROVE  ~Panics(tx, Only(c, k))
  BY OnlySeesLess DEF Panics

LEMMA ProjectionHolds == LedgerInv => Projection
<1> DEFINE alone == [p \in Contracts \X Kinds |-> EventsOf(Only(p[1], p[2]))]
<1> SUFFICES ASSUME LedgerInv, NEW watch \in Watches, \A n \in DOMAIN ledger : ~Panics(ledger[n], watch)
             PROVE  EventsOf(watch)
                      = UNION {alone[p] : p \in {q \in DOMAIN alone : q[2] \in watch[q[1]]}}
  BY DEF Projection
<1>1. watch \in [Contracts -> SUBSET Kinds]
  BY ExtractionAssumption
<1>2. \A n \in DOMAIN ledger : ledger[n] \in Tx
  BY DEF LedgerInv
<1>3. ASSUME NEW r PROVE r \in EventsOf(watch) <=> \E n \in DOMAIN ledger : TxRow(r, ledger[n], n, watch)
  <2>1. CASE \A c \in Contracts : watch[c] = {}
    <3>1. EventsOf(watch) = {}
      BY <2>1 DEF EventsOf
    <3>2. \A n \in DOMAIN ledger : ~TxRow(r, ledger[n], n, watch)
      BY <1>2, <2>1, TxProjects
    <3> QED BY <3>1, <3>2
  <2>2. CASE ~(\A c \in Contracts : watch[c] = {})
    <3>1. EventsOf(watch) = UNION {processTx(ledger[n], n, watch).rows : n \in DOMAIN ledger}
      BY <2>2 DEF EventsOf
    <3>2. \A n \in DOMAIN ledger : r \in processTx(ledger[n], n, watch).rows <=> TxRow(r, ledger[n], n, watch)
      BY RowOfTx
    <3> QED BY <3>1, <3>2
  <2> QED BY <2>1, <2>2
<1>4. ASSUME NEW r, NEW c \in Contracts, NEW k \in watch[c]
      PROVE  r \in EventsOf(Only(c, k)) <=> \E n \in DOMAIN ledger : TxRow(r, ledger[n], n, Only(c, k))
  <2>1. ~(\A d \in Contracts : Only(c, k)[d] = {})
    BY DEF Only
  <2>2. EventsOf(Only(c, k)) = UNION {processTx(ledger[n], n, Only(c, k)).rows : n \in DOMAIN ledger}
    BY <2>1 DEF EventsOf
  <2>3. \A n \in DOMAIN ledger : ~Panics(ledger[n], Only(c, k))
    BY NoPartPanics
  <2>4. \A n \in DOMAIN ledger :
           r \in processTx(ledger[n], n, Only(c, k)).rows <=> TxRow(r, ledger[n], n, Only(c, k))
    BY <2>3, RowOfTx
  <2> QED BY <2>2, <2>4
<1>5. ASSUME NEW r
      PROVE  r \in EventsOf(watch)
               <=> \E c \in Contracts, k \in Kinds : k \in watch[c] /\ r \in EventsOf(Only(c, k))
  <2>1. \A n \in DOMAIN ledger :
           TxRow(r, ledger[n], n, watch)
             <=> \E c \in Contracts, k \in Kinds : k \in watch[c] /\ TxRow(r, ledger[n], n, Only(c, k))
    BY <1>2, TxProjects
  <2> QED BY <1>3, <1>4, <2>1, Zenon
<1>6. ASSUME NEW r
      PROVE  r \in UNION {alone[p] : p \in {q \in DOMAIN alone : q[2] \in watch[q[1]]}}
               <=> \E c \in Contracts, k \in Kinds : k \in watch[c] /\ r \in EventsOf(Only(c, k))
  <2>1. DOMAIN alone = Contracts \X Kinds
    OBVIOUS
  <2>2. \A c \in Contracts, k \in Kinds : alone[<<c, k>>] = EventsOf(Only(c, k))
    OBVIOUS
  <2> HIDE DEF alone
  <2>3. ASSUME NEW p \in DOMAIN alone, p[2] \in watch[p[1]], r \in alone[p]
        PROVE  \E c \in Contracts, k \in Kinds : k \in watch[c] /\ r \in EventsOf(Only(c, k))
    <3>1. p[1] \in Contracts /\ p[2] \in Kinds /\ p = <<p[1], p[2]>>
      BY <2>1
    <3>2. r \in EventsOf(Only(p[1], p[2]))
      BY <2>2, <2>3, <3>1
    <3> QED BY <2>3, <3>1, <3>2
  <2>4. ASSUME NEW c \in Contracts, NEW k \in Kinds, k \in watch[c], r \in EventsOf(Only(c, k))
        PROVE  \E p \in {q \in DOMAIN alone : q[2] \in watch[q[1]]} : r \in alone[p]
    <3>1. <<c, k>> \in {q \in DOMAIN alone : q[2] \in watch[q[1]]}
      BY <2>1, <2>4
    <3>2. r \in alone[<<c, k>>]
      BY <2>2, <2>4
    <3> QED BY <3>1, <3>2
  <2>5. r \in UNION {alone[p] : p \in {q \in DOMAIN alone : q[2] \in watch[q[1]]}}
          <=> \E p \in {q \in DOMAIN alone : q[2] \in watch[q[1]]} : r \in alone[p]
    OBVIOUS
  <2>6. (\E p \in {q \in DOMAIN alone : q[2] \in watch[q[1]]} : r \in alone[p])
          => \E p \in DOMAIN alone : p[2] \in watch[p[1]] /\ r \in alone[p]
    OBVIOUS
  <2> QED BY <2>3, <2>4, <2>5, <2>6
<1> QED BY <1>5, <1>6

-----------------------------------------------------------------------------
(* Accounted.                                                              *)

\* Whose balance a movement that decodes moves.
LEMMA PartiesMove ==
    ASSUME NEW ev \in Event, IsMovement(ev), NEW c \in Parties(ev)
    PROVE  /\ \E i \in DOMAIN ev.addrs : ev.addrs[i] = c
           /\ buildTransfer(ev).ok => c \in {buildTransfer(ev).from, buildTransfer(ev).to}
<1> DEFINE addrs == ev.addrs
<1>1. addrs \in Seq(Contracts \cup Accounts) /\ ev.name \in Names /\ ev.name # "other"
  BY DEF Event, IsMovement
<1>2. addrs # <<>>
  BY DEF Parties
<1>3. /\ Len(addrs) \in Nat /\ DOMAIN addrs = 1..Len(addrs) /\ 1 \in DOMAIN addrs
      /\ Len(addrs) \in DOMAIN addrs /\ Head(addrs) = addrs[1] /\ Last(addrs) = addrs[Len(addrs)]
  BY <1>1, <1>2 DEF Last
<1>4. CASE ev.name = "transfer"
  <2>1. c \in Range(addrs)
    BY <1>2, <1>4 DEF Parties
  <2>2. PICK i \in DOMAIN addrs : addrs[i] = c
    BY <2>1 DEF Range
  <2>3. buildTransfer(ev).from = Head(addrs) /\ buildTransfer(ev).to = Last(addrs)
    BY <1>4 DEF buildTransfer
  <2>4. buildTransfer(ev).ok => Len(addrs) = 2
    BY <1>4, BuildOk
  <2>5. Len(addrs) = 2 => i = 1 \/ i = Len(addrs)
    BY <1>3
  <2> QED BY <1>3, <2>2, <2>3, <2>4, <2>5
<1>5. CASE ev.name = "burn"
  <2>1. c = Head(addrs)
    BY <1>2, <1>5 DEF Parties
  <2>2. buildTransfer(ev).from = Head(addrs)
    BY <1>5 DEF buildTransfer
  <2> QED BY <1>3, <2>1, <2>2
<1>6. CASE ev.name = "mint"
  <2>1. c = Last(addrs)
    BY <1>2, <1>6 DEF Parties
  <2>2. buildTransfer(ev).to = Last(addrs)
    BY <1>6 DEF buildTransfer
  <2> QED BY <1>3, <2>1, <2>2
<1>7. CASE ev.name = "clawback"
  <2>1. c = Last(addrs)
    BY <1>2, <1>7 DEF Parties
  <2>2. buildTransfer(ev).from = Last(addrs)
    BY <1>7 DEF buildTransfer
  <2> QED BY <1>3, <2>1, <2>2
<1> QED BY <1>1, <1>4, <1>5, <1>6, <1>7 DEF Names

\* What one event leaves in the counters.
LEMMA LostOfEvent ==
    ASSUME NEW ev, NEW id, NEW watch
    PROVE  LET lost == eventRows(ev, id, watch).lost
               refused == ~buildTransfer(ev).ok \/ (wantMovements(ev, watch) /\ ev.form = "unencodable")
           IN  /\ HasKind(watch, ev.emitter, "events") /\ ev.form \in {"later", "unencodable"}
                     => "SuppressedEvents" \in lost
               /\ Decodes(ev, watch) /\ refused /\ emitsTransfers(ev, watch)
                     => "SuppressedTransfers" \in lost
               /\ Decodes(ev, watch) /\ refused
                     => "SuppressedTransfers" \in lost \/ "ForeignUndecodable" \in lost
               /\ "SuppressedTransfers" \in lost => emitsTransfers(ev, watch)
<1> DEFINE emits == emitsTransfers(ev, watch)
           wants == wantMovements(ev, watch)
           ok == buildTransfer(ev).ok
           counter == IF emits THEN "SuppressedTransfers" ELSE "ForeignUndecodable"
           lost == (IF HasKind(watch, ev.emitter, "events") /\ ~(ev.form \notin {"later", "unencodable"})
                    THEN {"SuppressedEvents"} ELSE {})
                   \cup (IF Decodes(ev, watch) /\ (~ok \/ (wants /\ ~(ev.form # "unencodable")))
                         THEN {counter} ELSE {})
<1>1. eventRows(ev, id, watch).lost = lost
  BY DEF eventRows
<1> HIDE DEF emits, wants, ok
<1> QED BY <1>1 DEF emits, wants, ok

\* What one change leaves in the counters.
LEMMA LostOfChange ==
    ASSUME NEW ch, NEW id, NEW watch
    PROVE  LET lost == changeRows(ch, id, watch).lost
               key == LedgerKeys[ch.key]
           IN  /\ key.class = "unencodable" /\ HasKind(watch, key.owner, "state")
                     => "SuppressedEvents" \in lost
               /\ key.class = "unreadable" /\ AnyKind(watch, "trustlines")
                     => "SuppressedTrustlines" \in lost
               /\ "SuppressedTransfers" \notin lost
  BY DEF changeRows

\* What was counted in a transaction without a suppression: the counts of its
\* items.
LEMMA LostOfTx ==
    ASSUME NEW tx \in Tx, NEW n, NEW watch, processTx(tx, n, watch).count = ""
    PROVE  /\ ~Panics(tx, watch) /\ tx.state = "ok"
           /\ \A l : l \in processTx(tx, n, watch).lost
                 <=> \/ \E i \in DOMAIN EventsIn(tx) :
                           l \in eventRows(EventsIn(tx)[i], <<n, i - 1>>, watch).lost
                     \/ \E i \in DOMAIN ChangesIn(tx) :
                           l \in changeRows(ChangesIn(tx)[i], <<n, i - 1>>, watch).lost
<1> DEFINE events == EventsIn(tx)
           changes == ChangesIn(tx)
           walked == Walked(tx, watch)
           items == {eventRows(events[i], <<n, Index(events, i, watch)>>, watch) : i \in walked.events}
                    \cup {changeRows(changes[i], <<n, i - 1>>, watch) : i \in walked.changes}
           broken == tx.state \in {"noevents", "nochanges"} \/ Panics(tx, watch)
           whole == [rows |-> UNION {o.rows : o \in items}, lost |-> UNION {o.lost : o \in items},
                     count |-> IF broken THEN "SuppressedTxs" ELSE ""]
<1>1. tx.state \in {"ok", "failed", "unreadable", "noevents", "nochanges"}
  BY DEF Tx, TxStates
<1>2. processTx(tx, n, watch)
        = CASE tx.state = "unreadable" -> [rows |-> {}, lost |-> {}, count |-> "SuppressedTxs"]
            [] tx.state = "failed"     -> [rows |-> {}, lost |-> {}, count |-> "FailedTxs"]
            [] OTHER -> whole
  BY DEF processTx
<1>3. whole.count = (IF broken THEN "SuppressedTxs" ELSE "") /\ whole.lost = UNION {o.lost : o \in items}
  OBVIOUS
<1> HIDE DEF whole, broken, items
<1>4. tx.state \notin {"unreadable", "failed"} /\ processTx(tx, n, watch) = whole
  <2>1. CASE tx.state = "unreadable"
    <3>1. processTx(tx, n, watch) = [rows |-> {}, lost |-> {}, count |-> "SuppressedTxs"]
      BY <1>2, <2>1
    <3>2. processTx(tx, n, watch).count = "SuppressedTxs"
      BY <3>1
    <3> QED BY <3>2
  <2>2. CASE tx.state = "failed"
    <3>1. processTx(tx, n, watch) = [rows |-> {}, lost |-> {}, count |-> "FailedTxs"]
      BY <1>2, <2>2
    <3>2. processTx(tx, n, watch).count = "FailedTxs"
      BY <3>1
    <3> QED BY <3>2
  <2>3. CASE tx.state \notin {"unreadable", "failed"}
    BY <1>2, <2>3
  <2> QED BY <2>1, <2>2, <2>3
<1>5. ~broken
  BY <1>3, <1>4
<1>6. ~Panics(tx, watch) /\ tx.state = "ok"
  BY <1>1, <1>4, <1>5 DEF broken
<1>7. items = {eventRows(events[i], <<n, i - 1>>, watch) : i \in DOMAIN events}
              \cup {changeRows(changes[i], <<n, i - 1>>, watch) : i \in DOMAIN changes}
  BY <1>6, WalksAll DEF items, Index
<1>8. \A l : l \in UNION {o.lost : o \in items}
         <=> \/ \E i \in DOMAIN events : l \in eventRows(events[i], <<n, i - 1>>, watch).lost
             \/ \E i \in DOMAIN changes : l \in changeRows(changes[i], <<n, i - 1>>, watch).lost
  BY <1>7
<1> QED BY <1>3, <1>4, <1>6, <1>8

LEMMA AccountedHolds == LedgerInv => Accounted
<1> SUFFICES ASSUME LedgerInv, NEW watch \in Watches, NEW n \in DOMAIN ledger,
                    processTx(ledger[n], n, watch).count = ""
             PROVE  LET out == processTx(ledger[n], n, watch)
                        events == EventsIn(ledger[n])
                        changes == ChangesIn(ledger[n])
                        has(kind, c, i) == \E r \in out.rows : r.kind = kind /\ r.contract = c /\ r.id = <<n, i - 1>>
                        undecoded == out.lost \cap {"SuppressedTransfers", "ForeignUndecodable"} # {}
                    IN  /\ \A i \in DOMAIN events :
                              LET ev == events[i]
                              IN  /\ HasKind(watch, ev.emitter, "events") =>
                                        has("events", ev.emitter, i) \/ "SuppressedEvents" \in out.lost
                                  /\ HasKind(watch, ev.emitter, "transfers") /\ IsMovement(ev) =>
                                        has("transfers", ev.emitter, i) \/ "SuppressedTransfers" \in out.lost
                                  /\ \A c \in Parties(ev) :
                                        HasKind(watch, c, "movements") /\ IsMovement(ev) =>
                                           has("movements", c, i) \/ undecoded
                        /\ \A i \in DOMAIN changes :
                              LET key == LedgerKeys[changes[i].key]
                              IN  /\ key.class \in {"data", "unencodable"} /\ HasKind(watch, key.owner, "state") =>
                                        has("state", key.owner, i) \/ "SuppressedEvents" \in out.lost
                                  /\ key.class \in {"trustline", "unreadable"}
                                        /\ HasKind(watch, key.owner, "trustlines") =>
                                        has("trustlines", key.owner, i) \/ "SuppressedTrustlines" \in out.lost
                        /\ "SuppressedTransfers" \in out.lost =>
                              \E i \in DOMAIN events : HasKind(watch, events[i].emitter, "transfers")
  BY DEF Accounted
<1> DEFINE tx == ledger[n]
           out == processTx(tx, n, watch)
           events == EventsIn(tx)
           changes == ChangesIn(tx)
           has(kind, c, i) == \E r \in out.rows : r.kind = kind /\ r.contract = c /\ r.id = <<n, i - 1>>
           undecoded == out.lost \cap {"SuppressedTransfers", "ForeignUndecodable"} # {}
<1>1. tx \in Tx
  BY TxsTyped
<1>2. ~Panics(tx, watch) /\ tx.state = "ok"
  BY <1>1, LostOfTx
<1>3. \A l : l \in out.lost
         <=> \/ \E i \in DOMAIN events : l \in eventRows(events[i], <<n, i - 1>>, watch).lost
             \/ \E i \in DOMAIN changes : l \in changeRows(changes[i], <<n, i - 1>>, watch).lost
  BY <1>1, LostOfTx
<1>4. \A r : /\ \A i \in DOMAIN events : EventRow(r, events[i], <<n, i - 1>>, watch) => r \in out.rows
             /\ \A i \in DOMAIN changes :
                   r \in changeRows(changes[i], <<n, i - 1>>, watch).rows => r \in out.rows
  <2>1. ASSUME NEW r PROVE r \in out.rows <=> TxRow(r, tx, n, watch)
    BY <1>2, RowOfTx
  <2> QED BY <1>2, <2>1 DEF TxRow
<1>5. \A i \in DOMAIN events : events[i] \in Event
  BY <1>1, EventsTyped
<1> HIDE DEF tx, out, events, changes
<1>6. ASSUME NEW i \in DOMAIN events
      PROVE  LET ev == events[i]
             IN  /\ HasKind(watch, ev.emitter, "events") =>
                       has("events", ev.emitter, i) \/ "SuppressedEvents" \in out.lost
                 /\ HasKind(watch, ev.emitter, "transfers") /\ IsMovement(ev) =>
                       has("transfers", ev.emitter, i) \/ "SuppressedTransfers" \in out.lost
                 /\ \A c \in Parties(ev) :
                       HasKind(watch, c, "movements") /\ IsMovement(ev) =>
                          has("movements", c, i) \/ undecoded
  <2> DEFINE ev == events[i]
             id == <<n, i - 1>>
             lost == eventRows(ev, id, watch).lost
             t == buildTransfer(ev)
             refused == ~t.ok \/ (wantMovements(ev, watch) /\ ev.form = "unencodable")
  <2>1. \A l \in lost : l \in out.lost
    BY <1>3
  <2>2. \A r : EventRow(r, ev, id, watch) => r \in out.rows
    BY <1>4
  <2>3. ev \in Event
    BY <1>5
  <2>4. \A kind : LET r == Row(kind, ev.emitter, id, ev)
                  IN  r.kind = kind /\ r.contract = ev.emitter /\ r.id = id
    BY DEF Row
  <2>5. /\ HasKind(watch, ev.emitter, "events") /\ ev.form \in {"later", "unencodable"}
              => "SuppressedEvents" \in lost
        /\ Decodes(ev, watch) /\ refused /\ emitsTransfers(ev, watch) => "SuppressedTransfers" \in lost
        /\ Decodes(ev, watch) /\ refused => "SuppressedTransfers" \in lost \/ "ForeignUndecodable" \in lost
    BY LostOfEvent
  <2> HIDE DEF ev, lost
  <2>6. ASSUME HasKind(watch, ev.emitter, "events")
        PROVE  has("events", ev.emitter, i) \/ "SuppressedEvents" \in out.lost
    <3>1. CASE ev.form \in {"later", "unencodable"}
      BY <2>1, <2>5, <2>6, <3>1
    <3>2. CASE ev.form \notin {"later", "unencodable"}
      <4>1. Row("events", ev.emitter, id, ev) \in out.rows
        BY <2>2, <2>6, <3>2 DEF EventRow
      <4> QED BY <2>4, <4>1
    <3> QED BY <3>1, <3>2
  <2>7. ASSUME HasKind(watch, ev.emitter, "transfers"), IsMovement(ev)
        PROVE  has("transfers", ev.emitter, i) \/ "SuppressedTransfers" \in out.lost
    <3>1. emitsTransfers(ev, watch) /\ Decodes(ev, watch)
      BY <2>7 DEF emitsTransfers, Decodes
    <3>2. CASE t.ok
      <4>1. Row("transfers", ev.emitter, id, ev) \in out.rows
        BY <2>2, <2>7, <3>1, <3>2 DEF EventRow
      <4> QED BY <2>4, <4>1
    <3>3. CASE ~t.ok
      BY <2>1, <2>5, <3>1, <3>3
    <3> QED BY <3>2, <3>3
  <2>8. ASSUME NEW c \in Parties(ev), HasKind(watch, c, "movements"), IsMovement(ev)
        PROVE  has("movements", c, i) \/ undecoded
    <3>1. /\ \E j \in DOMAIN ev.addrs : ev.addrs[j] = c
          /\ t.ok => c \in {t.from, t.to}
      BY <2>3, <2>8, PartiesMove
    <3>2. wantMovements(ev, watch)
      BY <2>8, <3>1 DEF wantMovements, participatesWatched, AnyKind, HasKind
    <3>3. Decodes(ev, watch)
      BY <2>8, <3>2 DEF Decodes
    <3>4. CASE t.ok /\ ev.form # "unencodable"
      <4> HIDE DEF t, id
      <4>1. PICK role : <<c, role>> \in {<<t.from, "sender">>, <<t.to, "recipient">>}
        BY <3>1, <3>4
      <4> DEFINE r == [kind |-> "movements", contract |-> c, id |-> id, role |-> role, of |-> ev]
                 p == <<c, role>>
      <4>2. r \in movementsOf(t, ev, id, watch)
        <5>1. p[1] = c /\ p[2] = role /\ p \in {<<t.from, "sender">>, <<t.to, "recipient">>}
          BY <4>1
        <5>2. r = [kind |-> "movements", contract |-> p[1], id |-> id, role |-> p[2], of |-> ev]
          BY <5>1
        <5> HIDE DEF p, r
        <5> QED BY <2>8, <5>1, <5>2 DEF movementsOf
      <4>3. EventRow(r, ev, id, watch)
        BY <2>8, <3>2, <3>4, <4>2 DEF EventRow, t
      <4>4. r \in out.rows
        BY <2>2, <4>3
      <4>5. r.kind = "movements" /\ r.contract = c /\ r.id = id
        OBVIOUS
      <4> HIDE DEF r
      <4> QED BY <4>4, <4>5 DEF id
    <3>5. CASE ~(t.ok /\ ev.form # "unencodable")
      <4>1. "SuppressedTransfers" \in lost \/ "ForeignUndecodable" \in lost
        BY <2>5, <3>2, <3>3, <3>5
      <4> QED BY <2>1, <4>1
    <3> QED BY <3>4, <3>5
  <2> HIDE DEF has, undecoded
  <2> QED BY <2>6, <2>7, <2>8 DEF ev
<1>7. ASSUME NEW i \in DOMAIN changes
      PROVE  LET key == LedgerKeys[changes[i].key]
             IN  /\ key.class \in {"data", "unencodable"} /\ HasKind(watch, key.owner, "state") =>
                       has("state", key.owner, i) \/ "SuppressedEvents" \in out.lost
                 /\ key.class \in {"trustline", "unreadable"} /\ HasKind(watch, key.owner, "trustlines") =>
                       has("trustlines", key.owner, i) \/ "SuppressedTrustlines" \in out.lost
  <2> DEFINE ch == changes[i]
             key == LedgerKeys[ch.key]
             id == <<n, i - 1>>
             lost == changeRows(ch, id, watch).lost
             row == [kind |-> IF key.class = "data" THEN "state" ELSE "trustlines",
                     contract |-> key.owner, id |-> id, key |-> ch.key,
                     type |-> ch.type, pre |-> ch.pre, post |-> ch.post]
             owed == \/ key.class = "data" /\ HasKind(watch, key.owner, "state")
                     \/ key.class = "trustline" /\ HasKind(watch, key.owner, "trustlines")
  <2>1. \A l \in lost : l \in out.lost
    BY <1>3
  <2>2. owed => row \in changeRows(ch, id, watch).rows
    BY DEF changeRows
  <2>3. owed => row \in out.rows
    <3> HIDE DEF owed, row
    <3> QED BY <1>4, <2>2
  <2>4. /\ key.class = "unencodable" /\ HasKind(watch, key.owner, "state") => "SuppressedEvents" \in lost
        /\ key.class = "unreadable" /\ AnyKind(watch, "trustlines") => "SuppressedTrustlines" \in lost
    BY LostOfChange
  <2>5. HasKind(watch, key.owner, "trustlines") => AnyKind(watch, "trustlines")
    BY DEF HasKind, AnyKind
  <2>6. /\ row.kind = (IF key.class = "data" THEN "state" ELSE "trustlines")
        /\ row.contract = key.owner /\ row.id = <<n, i - 1>>
    OBVIOUS
  <2> HIDE DEF row, lost, ch
  <2>7. key.class = "data" /\ HasKind(watch, key.owner, "state") => has("state", key.owner, i)
    BY <2>3, <2>6
  <2>8. key.class = "trustline" /\ HasKind(watch, key.owner, "trustlines") => has("trustlines", key.owner, i)
    BY <2>3, <2>6
  <2> HIDE DEF has
  <2> QED BY <2>1, <2>4, <2>5, <2>7, <2>8 DEF ch
<1>8. ASSUME "SuppressedTransfers" \in out.lost
      PROVE  \E i \in DOMAIN events : HasKind(watch, events[i].emitter, "transfers")
  <2>1. PICK i \in DOMAIN events :
           "SuppressedTransfers" \in eventRows(events[i], <<n, i - 1>>, watch).lost
    BY <1>3, <1>8, LostOfChange
  <2>2. emitsTransfers(events[i], watch)
    BY <2>1, LostOfEvent
  <2> QED BY <2>2 DEF emitsTransfers
<1> QED BY <1>6, <1>7, <1>8 DEF tx, out, events, changes

\* The live loop, the backfiller and the healer derive a ledger against different
\* watch sets: each registration gets the rows it would get alone, under the same
\* ids, whatever else is registered and however many transactions there are.
THEOREM ExtractionProjects == ExtractionSpec => []Projection
<1> QED BY LedgerInvariant, ProjectionHolds, PTL

\* Nothing a registration is owed is lost without a count, and the counter that
\* alerts is bumped only for a registered emitter.
THEOREM NothingLostUncounted == ExtractionSpec => []Accounted
<1> QED BY LedgerInvariant, AccountedHolds, PTL

\* The canonical form the equivalence gate compares holds everything the rows of
\* a change vector depend on.
THEOREM GateImpliesSameRows == ExtractionSpec => []GateMeansSameRows
<1> QED BY LedgerInvariant, GateHolds, PTL

-----------------------------------------------------------------------------
(* PageCursor.                                                             *)

\* The names of a payload are its own: no two fields share one, and none is
\* that of a stamp.
LEMMA NamesApart ==
    ASSUME NEW kind \in EndpointKinds
    PROVE  /\ \A f, g \in DOMAIN Payload(kind) : Payload(kind)[f] = Payload(kind)[g] => f = g
           /\ \A f \in DOMAIN Payload(kind) : Payload(kind)[f] \notin Stamp
           /\ "Limit" \in DOMAIN Payload(kind) /\ Payload(kind)["Limit"] = "l"
           /\ kind # ""
<1>1. kind \in {"events", "state", "state_history", "transfers", "trustlines",
                "trustlines_history", "movements"}
  BY DEF EndpointKinds, Handler
<1>2. CASE kind = "events"
  BY <1>2 DEF Payload, cursorPayload, Stamp
<1>3. CASE kind \in {"state", "state_history"}
  <2>1. Payload(kind) = stateCursorPayload
    BY <1>3 DEF Payload
  <2>2. /\ \A f, g \in DOMAIN stateCursorPayload : stateCursorPayload[f] = stateCursorPayload[g] => f = g
        /\ \A f \in DOMAIN stateCursorPayload : stateCursorPayload[f] \notin Stamp
        /\ "Limit" \in DOMAIN stateCursorPayload /\ stateCursorPayload["Limit"] = "l"
    BY DEF stateCursorPayload, Stamp
  <2>3. kind # ""
    BY <1>3
  <2> QED BY <2>1, <2>2, <2>3
<1>4. CASE kind = "transfers"
  BY <1>4 DEF Payload, transfersCursorPayload, Stamp
<1>5. CASE kind \in {"trustlines", "trustlines_history"}
  <2>1. Payload(kind) = trustlinesCursorPayload
    BY <1>5 DEF Payload
  <2>2. /\ \A f, g \in DOMAIN trustlinesCursorPayload : trustlinesCursorPayload[f] = trustlinesCursorPayload[g] => f = g
        /\ \A f \in DOMAIN trustlinesCursorPayload : trustlinesCursorPayload[f] \notin Stamp
        /\ "Limit" \in DOMAIN trustlinesCursorPayload /\ trustlinesCursorPayload["Limit"] = "l"
    BY DEF trustlinesCursorPayload, Stamp
  <2>3. kind # ""
    BY <1>5
  <2> QED BY <2>1, <2>2, <2>3
<1>6. CASE kind = "movements"
  BY <1>6 DEF Payload, movementsCursorPayload, Stamp
<1> QED BY <1>1, <1>2, <1>3, <1>4, <1>5, <1>6

\* A query as a cursor carries it: every field of the payload, a legal limit.
Query(kind) == {q \in [DOMAIN Payload(kind) -> Nat] : q["Limit"] \in 1..maxLimit}

\* cursor holds q: it is what the encoder writes, but for the stamp of the kind.
Holds(cursor, kind, network, contract, q) ==
    /\ {"v", "n", "c"} \subseteq DOMAIN cursor
    /\ cursor["v"] = cursorVersion /\ cursor["n"] = network /\ cursor["c"] = contract
    /\ \A f \in DOMAIN Payload(kind) : At(cursor, Payload(kind)[f]) = q[f]

LEMMA Encoded ==
    ASSUME NEW kind \in EndpointKinds, NEW network, NEW contract, NEW q \in Query(kind)
    PROVE  /\ Holds(encodeCursor(kind, network, contract, q), kind, network, contract, q)
           /\ KindOf(encodeCursor(kind, network, contract, q)) = kind
<1> DEFINE payload == Payload(kind)
           named == {f \in DOMAIN payload : q[f] # 0}
           stamp == [v |-> cursorVersion, k |-> kind, n |-> network, c |-> contract]
           names == Stamp \cup {payload[f] : f \in named}
           cursor == encodeCursor(kind, network, contract, q)
<1>1. cursor = [name \in names |-> IF name \in Stamp THEN stamp[name]
                                   ELSE q[CHOOSE f \in named : payload[f] = name]]
  BY DEF encodeCursor
<1>2. /\ DOMAIN cursor = names
      /\ \A name \in names : cursor[name] = IF name \in Stamp THEN stamp[name]
                                            ELSE q[CHOOSE f \in named : payload[f] = name]
  BY <1>1
<1> HIDE DEF cursor
<1>3. /\ Stamp \subseteq DOMAIN cursor
      /\ cursor["v"] = cursorVersion /\ cursor["k"] = kind
      /\ cursor["n"] = network /\ cursor["c"] = contract
  BY <1>2 DEF Stamp
<1>4. ASSUME NEW f \in DOMAIN payload PROVE At(cursor, payload[f]) = q[f]
  <2>1. payload[f] \notin Stamp
    BY NamesApart
  <2>2. CASE f \in named
    <3>1. (CHOOSE g \in named : payload[g] = payload[f]) = f
      <4>1. \A g \in named : payload[g] = payload[f] => g = f
        BY NamesApart
      <4> QED BY <2>2, <4>1
    <3>2. payload[f] \in names
      BY <2>2
    <3> QED BY <1>2, <2>1, <3>1, <3>2 DEF At
  <2>3. CASE f \notin named
    <3>1. payload[f] \notin names
      <4>1. \A g \in named : payload[g] # payload[f]
        BY <2>3, NamesApart
      <4> QED BY <2>1, <4>1
    <3>2. q[f] = 0
      BY <2>3
    <3> QED BY <1>2, <3>1, <3>2 DEF At
  <2> QED BY <2>2, <2>3
<1> QED BY <1>3, <1>4 DEF Holds, KindOf, Stamp, cursor

LEMMA UnstampedHolds ==
    ASSUME NEW kind \in EndpointKinds, NEW network, NEW contract, NEW q, NEW cursor,
           Holds(cursor, kind, network, contract, q)
    PROVE  Holds(Unstamped(cursor), kind, network, contract, q) /\ KindOf(Unstamped(cursor)) = ""
<1>1. \A f \in DOMAIN Payload(kind) : Payload(kind)[f] # "k"
  BY NamesApart DEF Stamp
<1>2. /\ DOMAIN Unstamped(cursor) = DOMAIN cursor \ {"k"}
      /\ \A x \in DOMAIN cursor \ {"k"} : Unstamped(cursor)[x] = cursor[x]
  BY DEF Unstamped
<1> QED BY <1>1, <1>2 DEF Holds, KindOf, At

\* The client's cursor holds the query of its page.
PageInv ==
    held # <<>> =>
       /\ minted.kind \in EndpointKinds /\ minted.q \in Query(minted.kind)
       /\ Holds(held, minted.kind, minted.network, minted.contract, minted.q)
       /\ KindOf(held) = minted.kind \/ (minted.kind = "events" /\ KindOf(held) = "")

LEMMA HeldResumes ==
    ASSUME PageInv PROVE CursorResumes /\ CursorStaysHome
<1> SUFFICES ASSUME held # <<>> PROVE CursorResumes /\ CursorStaysHome
  BY DEF CursorResumes, CursorStaysHome
<1> DEFINE kind == minted.kind
           q == minted.q
<1>1. /\ kind \in EndpointKinds /\ q \in Query(kind)
      /\ Holds(held, kind, minted.network, minted.contract, q)
      /\ KindOf(held) = kind \/ (kind = "events" /\ KindOf(held) = "")
  BY DEF PageInv
<1> HIDE DEF kind, q
<1>2. At(held, "l") \in 1..maxLimit
  BY <1>1, NamesApart DEF Holds, Query
<1>3. Accepted(kind, minted.network, minted.contract, held)
  BY <1>1, <1>2 DEF Accepted, ownKind, validateCursorLimit, Holds
<1>4. decodeCursor(kind, held) = q
  <2>1. q \in [DOMAIN Payload(kind) -> Nat]
    BY <1>1 DEF Query
  <2> QED BY <1>1, <2>1 DEF decodeCursor, Holds
<1>5. ASSUME NEW kind2 \in EndpointKinds, NEW network \in Networks, NEW contract \in ContractIds,
             Accepted(kind2, network, contract, held)
      PROVE  kind2 = kind /\ network = minted.network /\ contract = minted.contract
  BY <1>1, <1>5, NamesApart DEF Accepted, ownKind, Holds
<1> QED BY <1>3, <1>4, <1>5 DEF CursorResumes, CursorStaysHome, kind, q

LEMMA MintInv ==
    ASSUME NEW kind \in EndpointKinds, NEW network, NEW contract, NEW q \in Query(kind),
           Mint(kind, network, contract, q)
    PROVE  PageInv'
<1>1. PICK row \in {0} \cup RowIds :
         LET past == IF row = 0 THEN q ELSE Past(kind, q, row)
         IN  /\ row = 0 => Handler[kind].bounded
             /\ minted' = [kind |-> kind, network |-> network, contract |-> contract, q |-> past]
             /\ \/ held' = encodeCursor(kind, network, contract, past)
                \/ kind = "events" /\ held' = Unstamped(encodeCursor(kind, network, contract, past))
  BY DEF Mint
<1> DEFINE past == IF row = 0 THEN q ELSE Past(kind, q, row)
           cursor == encodeCursor(kind, network, contract, past)
<1>2. past \in Query(kind)
  <2>1. q \in [DOMAIN Payload(kind) -> Nat] /\ q["Limit"] \in 1..maxLimit /\ row \in Nat
    BY PageCursorAssumption DEF Query
  <2>2. "Limit" \notin Handler[kind].position
    BY DEF EndpointKinds, Handler, Endpoint, handleEvents, handleStateSnapshot, handleStateHistory,
       handleTransfers, handleTrustlineSnapshot, handleTrustlineHistory, handleMovements
  <2>3. Past(kind, q, row) \in Query(kind)
    BY <2>1, <2>2, NamesApart DEF Past, Query
  <2> QED BY <2>3
<1> HIDE DEF past
<1>3. Holds(cursor, kind, network, contract, past) /\ KindOf(cursor) = kind
  BY <1>2, Encoded
<1>4. Holds(Unstamped(cursor), kind, network, contract, past) /\ KindOf(Unstamped(cursor)) = ""
  BY <1>3, UnstampedHolds
<1>5. /\ minted' = [kind |-> kind, network |-> network, contract |-> contract, q |-> past]
      /\ held' = cursor \/ (kind = "events" /\ held' = Unstamped(cursor))
  BY <1>1 DEF past
<1> HIDE DEF cursor
<1> QED BY <1>2, <1>3, <1>4, <1>5 DEF PageInv

LEMMA PageInvariant == PageSpec => []PageInv
<1>1. PageInit => PageInv
  BY DEF PageInit, PageInv
<1>2. PageInv /\ [PageNext]_pageVars => PageInv'
  <2> SUFFICES ASSUME PageInv, [PageNext]_pageVars PROVE PageInv'
    OBVIOUS
  <2>1. CASE FirstPage
    <3>1. PICK kind \in EndpointKinds : \E q \in [DOMAIN Payload(kind) -> Values] :
             /\ FreshQuery(kind, q)
             /\ \E network \in Networks, contract \in ContractIds : Mint(kind, network, contract, q)
      BY <2>1 DEF FirstPage
    <3>2. PICK q \in [DOMAIN Payload(kind) -> Values] :
             /\ FreshQuery(kind, q)
             /\ \E network \in Networks, contract \in ContractIds : Mint(kind, network, contract, q)
      BY <3>1
    <3>3. q \in Query(kind)
      <4>1. Values \subseteq Nat
        BY PageCursorAssumption DEF Values
      <4> QED BY <3>2, <4>1 DEF FreshQuery, Query
    <3> QED BY <3>2, <3>3, MintInv
  <2>2. CASE NextPage
    <3>1. /\ minted.kind \in EndpointKinds /\ minted.q \in Query(minted.kind)
          /\ decodeCursor(minted.kind, held) = minted.q
      BY <2>2, HeldResumes DEF NextPage, PageInv, CursorResumes
    <3> QED BY <2>2, <3>1, MintInv DEF NextPage
  <2>3. CASE UNCHANGED pageVars
    BY <2>3 DEF pageVars, PageInv, Query, Holds, At, KindOf
  <2> QED BY <2>1, <2>2, <2>3 DEF PageNext
<1> QED BY <1>1, <1>2, PTL DEF PageSpec

\* A cursor is its scan: brought back to its own endpoint it is accepted and
\* yields the query of its page, for any number of pages, every endpoint, all
\* filters, bounds and positions and every maximal limit.
THEOREM CursorsResume == PageSpec => []CursorResumes
<1>1. PageInv => CursorResumes
  BY HeldResumes
<1> QED BY <1>1, PageInvariant, PTL

\* No cursor is accepted by another endpoint, or for another contract or
\* network, the ones from before the kind was stamped included.
THEOREM CursorsStayHome == PageSpec => []CursorStaysHome
<1>1. PageInv => CursorStaysHome
  BY HeldResumes
<1> QED BY <1>1, PageInvariant, PTL

-----------------------------------------------------------------------------
(* contractSpecSection: what the walk reads back of what a compiler wrote.  *)

\* A non-empty set of naturals has a least element.
LEMMA LeastNatural ==
    ASSUME NEW T \in SUBSET Nat, T # {}
    PROVE  \E x \in T : \A y \in T : x <= y
<1> DEFINE R == OpToRel(<, Nat)
<1>1. IsWellFoundedOn(R, Nat)
  BY NatLessThanWellFounded
<1>2. PICK x \in T : \A y \in T : ~ (<<y, x>> \in R)
  <2> HIDE DEF R
  <2> QED BY <1>1, WFMin, Zenon
<1>3. \A y \in T : y < x => <<y, x>> \in R
  BY DEF OpToRel
<1>4. \A y \in T : ~ (y < x)
  <2> HIDE DEF R
  <2> QED BY <1>2, <1>3, Zenon
<1>5. \A y \in T : x <= y
  BY <1>4
<1> QED BY <1>5

\* A lower bound in a set is its Min.
LEMMA MinIs ==
    ASSUME NEW T \in SUBSET Nat, NEW x \in T, \A y \in T : x <= y
    PROVE  Min(T) = x
<1>1. \A z \in T : (\A y \in T : z <= y) <=> z = x
  OBVIOUS
<1> QED BY <1>1 DEF Min

\* The lengths two bytes can hold, and what two bytes hold.
IsLength(n) == n \in Nat /\ n < Continues * Continues

TwoBytes(a, b) == a - Continues + Continues * b

\* A varint has one byte or two, of which only the last does not continue.
LEMMA VarintBytes ==
    ASSUME NEW n, IsLength(n)
    PROVE  /\ n \in Nat /\ PutUvarint(n) \in Seq(Byte) /\ Len(PutUvarint(n)) \in Nat \ {0}
           /\ n < Continues => Len(PutUvarint(n)) = 1 /\ PutUvarint(n)[1] = n
           /\ n >= Continues => /\ Len(PutUvarint(n)) = 2
                                /\ PutUvarint(n)[1] >= Continues /\ PutUvarint(n)[2] < Continues
                                /\ TwoBytes(PutUvarint(n)[1], PutUvarint(n)[2]) = n
<1>0. n \in Nat /\ n < Continues * Continues
  BY DEF IsLength
<1>1. Continues \in Nat \ {0}
  BY ClassifierAssumption
<1>2. /\ n \div Continues \in Nat /\ n % Continues \in 0..(Continues - 1)
      /\ n = Continues * (n \div Continues) + (n % Continues)
  BY <1>0, <1>1, DivMod
<1>3. n \div Continues < Continues
  <2> DEFINE q == n \div Continues
             p == Continues * q
  <2>1. q \in Nat /\ p \in Nat /\ p <= n /\ Continues * Continues \in Nat
    BY <1>0, <1>1, <1>2
  <2> HIDE DEF p
  <2>2. p < Continues * Continues
    BY <1>0, <1>1, <2>1
  <2>3. q >= Continues => Continues * q >= Continues * Continues
    <3> HIDE DEF q
    <3> QED BY <1>1, <2>1, QuotientsOrdered
  <2> HIDE DEF q
  <2>4. ~ (q >= Continues)
    BY <1>1, <2>1, <2>2, <2>3 DEF p
  <2> QED BY <1>1, <2>1, <2>4 DEF q
<1>4. CASE n < Continues
  <2>1. PutUvarint(n) = <<n>> /\ n \in Byte
    BY <1>0, <1>1, <1>4 DEF PutUvarint, Byte
  <2> QED BY <1>0, <1>1, <1>4, <2>1
<1>5. CASE n >= Continues
  <2> DEFINE lo == n % Continues
             hi == n \div Continues
  <2>1. PutUvarint(n) = <<Continues + lo, hi>>
    BY <1>0, <1>1, <1>5 DEF PutUvarint
  <2>2. lo \in 0..(Continues - 1) /\ hi \in Nat /\ hi < Continues /\ n = Continues * hi + lo
    BY <1>2, <1>3
  <2> HIDE DEF lo, hi
  <2>3. Continues + lo \in Byte /\ hi \in Byte /\ Continues + lo >= Continues
    BY <1>1, <2>2 DEF Byte
  <2>4. TwoBytes(Continues + lo, hi) = n
    <3> DEFINE p == Continues * hi
    <3>1. p \in Nat /\ n = p + lo
      BY <1>0, <1>1, <2>2
    <3> HIDE DEF p
    <3>2. (Continues + lo) - Continues + p = n
      BY <1>1, <2>2, <3>1
    <3> QED BY <3>2 DEF p, TwoBytes
  <2>5. PutUvarint(n) \in Seq(Byte) /\ Len(PutUvarint(n)) = 2
        /\ PutUvarint(n)[1] = Continues + lo /\ PutUvarint(n)[2] = hi
    BY <2>1, <2>3
  <2> HIDE DEF TwoBytes
  <2> QED BY <1>0, <1>1, <1>5, <2>2, <2>3, <2>4, <2>5
<1> QED BY <1>0, <1>1, <1>4, <1>5

\* A varint is read back, whatever follows it.
LEMMA ReadsVarint ==
    ASSUME NEW n, IsLength(n), NEW buf \in Seq(Byte),
           Len(PutUvarint(n)) <= Len(buf),
           \A i \in 1..Len(PutUvarint(n)) : buf[i] = PutUvarint(n)[i]
    PROVE  Uvarint(buf) = [n |-> Len(PutUvarint(n)), val |-> n]
<1> DEFINE ends == {i \in DOMAIN buf : buf[i] < Continues}
<1>1. Continues \in Nat \ {0} /\ DOMAIN buf = 1..Len(buf) /\ Len(buf) \in Nat
  BY ClassifierAssumption
<1>2. ends \in SUBSET Nat
  BY <1>1
<1>3. CASE n < Continues
  <2>1. Len(PutUvarint(n)) = 1 /\ buf[1] = n
    BY <1>1, <1>3, VarintBytes
  <2>2. 1 \in ends /\ \A y \in ends : 1 <= y
    BY <1>1, <1>3, <2>1
  <2>3. Min(ends) = 1 /\ ends # {}
    BY <1>2, <2>2, MinIs
  <2> QED BY <2>1, <2>3 DEF Uvarint, maxVarintLen
<1>4. CASE n >= Continues
  <2>1. /\ Len(PutUvarint(n)) = 2 /\ buf[1] >= Continues /\ buf[2] < Continues
        /\ TwoBytes(buf[1], buf[2]) = n
    BY <1>1, <1>4, VarintBytes
  <2>2. 2 \in ends /\ \A y \in ends : 2 <= y
    <3>1. buf[1] \in Int /\ 1 \notin ends
      BY <1>1, <2>1 DEF Byte
    <3> QED BY <1>1, <2>1, <3>1
  <2>3. Min(ends) = 2 /\ ends # {}
    BY <1>2, <2>2, MinIs
  <2> QED BY <2>1, <2>3 DEF Uvarint, maxVarintLen, TwoBytes
<1>5. n \in Nat
  BY VarintBytes
<1> QED BY <1>1, <1>3, <1>4, <1>5

\* One that is cut is not.
LEMMA CutVarint ==
    ASSUME NEW n, IsLength(n), NEW buf \in Seq(Byte),
           Len(buf) < Len(PutUvarint(n)),
           \A i \in 1..Len(buf) : buf[i] = PutUvarint(n)[i]
    PROVE  Uvarint(buf).n = 0
<1> DEFINE ends == {i \in DOMAIN buf : buf[i] < Continues}
<1>1. Continues \in Nat \ {0} /\ DOMAIN buf = 1..Len(buf) /\ Len(buf) \in Nat
  BY ClassifierAssumption
<1>2. Len(buf) = 0 \/ (Len(buf) = 1 /\ buf[1] >= Continues)
  BY <1>1, VarintBytes
<1>3. ends = {}
  BY <1>1, <1>2 DEF Byte
<1> QED BY <1>3 DEF Uvarint

\* The parts of a section.
LEMMA SectionShape ==
    ASSUME NEW s \in SectionCatalog
    PROVE  /\ s \in [id: Byte, name: Seq(Byte), body: Seq(Byte)]
           /\ Content(s) \in Seq(Byte) /\ Len(Content(s)) \in Nat /\ IsLength(Len(Content(s)))
           /\ SectionBytes(s) \in Seq(Byte)
           /\ Len(SectionBytes(s)) = 1 + Len(PutUvarint(Len(Content(s)))) + Len(Content(s))
           /\ s.id = 0 => /\ IsLength(Len(s.name))
                          /\ Content(s) = PutUvarint(Len(s.name)) \o s.name \o s.body
<1>1. /\ s \in [id: Byte, name: Seq(Byte), body: Seq(Byte)] /\ Continues \in Nat \ {0}
      /\ Len(Content(s)) < Continues * Continues
  BY ClassifierAssumption
<1> DEFINE square == Continues * Continues
<1>2. square \in Nat
  BY <1>1
<1>4. s.id = 0 => /\ IsLength(Len(s.name))
                  /\ Content(s) = PutUvarint(Len(s.name)) \o s.name \o s.body
  <2> SUFFICES ASSUME s.id = 0 PROVE IsLength(Len(s.name))
    BY DEF Content
  <2>1. PutUvarint(Len(s.name)) \in Seq(Int)
    <3>1. Len(s.name) \in Nat /\ Len(s.name) % Continues \in Int /\ Len(s.name) \div Continues \in Int
      BY <1>1, DivMod
    <3>2. \A a, b \in Int : <<a>> \in Seq(Int) /\ <<a, b>> \in Seq(Int)
      OBVIOUS
    <3>3. Continues + (Len(s.name) % Continues) \in Int
      BY <1>1, <3>1
    <3> QED BY <3>1, <3>2, <3>3 DEF PutUvarint
  <2>2. Content(s) = PutUvarint(Len(s.name)) \o s.name \o s.body
    BY DEF Content
  <2>3. s.name \in Seq(Int) /\ s.body \in Seq(Int)
    BY <1>1 DEF Byte
  <2>4. Len(Content(s)) = Len(PutUvarint(Len(s.name))) + Len(s.name) + Len(s.body)
    BY <2>1, <2>2, <2>3
  <2> HIDE DEF square
  <2>5. Len(Content(s)) < square
    BY <1>1 DEF square
  <2>6. Len(s.name) \in Nat /\ Len(s.name) < square
    <3>1. Len(PutUvarint(Len(s.name))) \in Nat /\ Len(s.name) \in Nat /\ Len(s.body) \in Nat
      BY <2>1, <2>3
    <3>2. \A a, b, c, e \in Nat : a + b + c < e => b < e
      OBVIOUS
    <3>3. Len(PutUvarint(Len(s.name))) + Len(s.name) + Len(s.body) < square
      BY <2>4, <2>5, Zenon
    <3> QED BY <1>2, <3>1, <3>2, <3>3, Zenon
  <2> QED BY <2>6 DEF square, IsLength
<1>5. Content(s) \in Seq(Byte) /\ Len(Content(s)) \in Nat
  <2>1. CASE s.id = 0
    <3>1. PutUvarint(Len(s.name)) \in Seq(Byte)
      BY <1>4, <2>1, VarintBytes
    <3>2. PutUvarint(Len(s.name)) \o s.name \o s.body \in Seq(Byte)
      BY <1>1, <3>1
    <3>3. Content(s) = PutUvarint(Len(s.name)) \o s.name \o s.body
      BY <1>4, <2>1
    <3>4. Content(s) \in Seq(Byte)
      BY <3>2, <3>3, Zenon
    <3> QED BY <3>4
  <2>2. CASE s.id # 0
    BY <1>1, <2>2 DEF Content
  <2> QED BY <2>1, <2>2
<1>6. IsLength(Len(Content(s))) /\ PutUvarint(Len(Content(s))) \in Seq(Byte)
  <2>1. IsLength(Len(Content(s)))
    BY <1>1, <1>5 DEF IsLength
  <2> QED BY <2>1, VarintBytes
<1>7. /\ SectionBytes(s) \in Seq(Byte)
      /\ Len(SectionBytes(s)) = 1 + Len(PutUvarint(Len(Content(s)))) + Len(Content(s))
  <2>1. <<s.id>> \in Seq(Byte) /\ Len(<<s.id>>) = 1
    BY <1>1
  <2> QED BY <1>5, <1>6, <2>1 DEF SectionBytes
<1> QED BY <1>1, <1>4, <1>5, <1>6, <1>7

\* Where the bytes of a section are.
LEMMA SectionLayout ==
    ASSUME NEW s \in SectionCatalog
    PROVE  LET p == PutUvarint(Len(Content(s)))
           IN  /\ SectionBytes(s)[1] = s.id
               /\ \A i \in 1..Len(p) : SectionBytes(s)[1 + i] = p[i]
               /\ \A i \in 1..Len(Content(s)) : SectionBytes(s)[1 + Len(p) + i] = Content(s)[i]
<1> DEFINE p == PutUvarint(Len(Content(s)))
<1>1. p \in Seq(Byte) /\ Content(s) \in Seq(Byte) /\ <<s.id>> \in Seq(Byte) /\ Len(<<s.id>>) = 1
  <2>1. Content(s) \in Seq(Byte) /\ IsLength(Len(Content(s))) /\ s.id \in Byte
    BY SectionShape
  <2>2. p \in Seq(Byte)
    BY <2>1, VarintBytes
  <2> QED BY <2>1, <2>2
<1>2. SectionBytes(s) = <<s.id>> \o p \o Content(s)
  BY DEF SectionBytes
<1> HIDE DEF p
<1>3. <<s.id>> \o p \in Seq(Byte) /\ Len(<<s.id>> \o p) = 1 + Len(p)
  BY <1>1
<1>4. SectionBytes(s)[1] = s.id
  BY <1>1, <1>2, <1>3
<1>5. ASSUME NEW i \in 1..Len(p) PROVE SectionBytes(s)[1 + i] = p[i]
  <2>1. (<<s.id>> \o p)[1 + i] = p[i]
    BY <1>1
  <2> QED BY <1>1, <1>2, <1>3, <2>1
<1>6. ASSUME NEW i \in 1..Len(Content(s)) PROVE SectionBytes(s)[1 + Len(p) + i] = Content(s)[i]
  BY <1>1, <1>2, <1>3
<1> QED BY <1>4, <1>5, <1>6 DEF p

\* Sequences that agree everywhere are equal.
LEMMA SameSeq ==
    ASSUME NEW S, NEW x \in Seq(S), NEW y \in Seq(S), Len(x) = Len(y),
           \A i \in 1..Len(x) : x[i] = y[i]
    PROVE  x = y
  OBVIOUS

\* A part of a sequence that agrees with another sequence is that sequence.
LEMMA PartIs ==
    ASSUME NEW S, NEW s \in Seq(S), NEW w \in Seq(S), NEW m \in Nat, m + Len(w) <= Len(s),
           \A i \in 1..Len(w) : s[m + i] = w[i]
    PROVE  SubSeq(s, m + 1, m + Len(w)) = w
<1> DEFINE x == SubSeq(s, m + 1, m + Len(w))
<1>1. /\ x \in Seq(S) /\ Len(x) = Len(w)
      /\ \A i \in 1..Len(w) : x[i] = s[m + i]
  OBVIOUS
<1> HIDE DEF x
<1>2. x = w
  BY <1>1, SameSeq
<1> QED BY <1>2 DEF x

\* Two sequences in a row.
LEMMA TwoParts ==
    ASSUME NEW S, NEW a \in Seq(S), NEW b \in Seq(S)
    PROVE  /\ a \o b \in Seq(S) /\ Len(a \o b) = Len(a) + Len(b)
           /\ \A i \in 1..Len(a) : (a \o b)[i] = a[i]
           /\ \A i \in 1..Len(b) : (a \o b)[Len(a) + i] = b[i]
  OBVIOUS

\* Three sequences in a row.
LEMMA ThreeParts ==
    ASSUME NEW S, NEW a \in Seq(S), NEW b \in Seq(S), NEW c \in Seq(S), NEW s, s = a \o b \o c
    PROVE  /\ s \in Seq(S) /\ Len(s) = Len(a) + Len(b) + Len(c)
           /\ \A i \in 1..Len(a) : s[i] = a[i]
           /\ \A i \in 1..Len(b) : s[Len(a) + i] = b[i]
           /\ \A i \in 1..Len(c) : s[Len(a) + Len(b) + i] = c[i]
<1> DEFINE w == a \o b
<1>1. w \in Seq(S)
  OBVIOUS
<1>2. /\ Len(w) = Len(a) + Len(b) /\ Len(a) \in Nat /\ Len(b) \in Nat /\ Len(c) \in Nat
      /\ \A i \in 1..Len(a) : w[i] = a[i]
      /\ \A i \in 1..Len(b) : w[Len(a) + i] = b[i]
  OBVIOUS
<1>3. s = w \o c
  OBVIOUS
<1> HIDE DEF w
<1>4. /\ w \o c \in Seq(S) /\ Len(w \o c) = Len(w) + Len(c)
      /\ \A i \in 1..Len(w) : (w \o c)[i] = w[i]
      /\ \A i \in 1..Len(c) : (w \o c)[Len(w) + i] = c[i]
  BY <1>1
<1>5. /\ s \in Seq(S) /\ Len(s) = Len(w) + Len(c)
      /\ \A i \in 1..Len(w) : s[i] = w[i]
      /\ \A i \in 1..Len(c) : s[Len(w) + i] = c[i]
  BY <1>3, <1>4, Zenon
<1>6. \A i \in 1..Len(a) : i \in 1..Len(w)
  BY <1>2
<1>7. \A i \in 1..Len(b) : Len(a) + i \in 1..Len(w)
  BY <1>2
<1> QED BY <1>2, <1>5, <1>6, <1>7, Zenon

\* Bytes are none of the outcomes that are not a payload.
LEMMA BytesAreNoOutcome ==
    ASSUME NEW x \in Seq(Byte)
    PROVE  x # Panic /\ x # NoSpec
<1>1. ASSUME NEW v \in {-1, -2}, x = <<v>> PROVE FALSE
  <2>1. x[1] \in Byte /\ x[1] = v
    BY <1>1
  <2>2. v >= 0
    BY <2>1 DEF Byte
  <2> QED BY <1>1, <2>2
<1> QED BY <1>1 DEF Panic, NoSpec

\* What a custom section holds.
Custom(name, body) == PutUvarint(Len(name)) \o name \o body

\* Its name and what follows it are read back.
LEMMA ReadsCustom ==
    ASSUME NEW name \in Seq(Byte), NEW body \in Seq(Byte), IsLength(Len(name)),
           NEW c, c = Custom(name, body)
    PROVE  LET v == Uvarint(c)
           IN  Fits(v, c) /\ Slice(c, v) = name /\ After(c, v) = body
<1> DEFINE q == PutUvarint(Len(name))
           v == [n |-> Len(q), val |-> Len(name)]
<1>1. q \in Seq(Byte) /\ Len(q) \in Nat \ {0}
  BY VarintBytes
<1> HIDE DEF q
<1>2. /\ c \in Seq(Byte) /\ Len(c) = Len(q) + Len(name) + Len(body)
      /\ \A i \in 1..Len(q) : c[i] = q[i]
      /\ \A i \in 1..Len(name) : c[Len(q) + i] = name[i]
      /\ \A i \in 1..Len(body) : c[Len(q) + Len(name) + i] = body[i]
  <2>1. c = q \o name \o body
    BY DEF q, Custom
  <2> QED BY <1>1, <2>1, ThreeParts
<1>3. Len(name) \in Nat /\ Len(body) \in Nat
  OBVIOUS
<1>4. Len(q) <= Len(c) /\ Len(q) + Len(name) <= Len(c) /\ Len(name) <= Len(c) - Len(q)
      /\ Len(c) = (Len(q) + Len(name)) + Len(body) /\ Len(q) + Len(name) \in Nat
  BY <1>1, <1>2, <1>3
<1>5. Uvarint(c) = v
  BY <1>2, <1>4, ReadsVarint DEF q
<1>6. Fits(v, c)
  BY <1>1, <1>4 DEF Fits
<1>7. Slice(c, v) = name
  <2>1. Slice(c, v) = SubSeq(c, Len(q) + 1, Len(q) + Len(name))
    BY <1>4 DEF Slice
  <2>2. SubSeq(c, Len(q) + 1, Len(q) + Len(name)) = name
    BY <1>1, <1>2, <1>4, PartIs
  <2> QED BY <2>1, <2>2
<1>8. After(c, v) = body
  <2>1. After(c, v) = SubSeq(c, (Len(q) + Len(name)) + 1, (Len(q) + Len(name)) + Len(body))
    BY <1>4 DEF After
  <2>2. \A i \in 1..Len(body) : c[(Len(q) + Len(name)) + i] = body[i]
    BY <1>2
  <2>3. SubSeq(c, (Len(q) + Len(name)) + 1, (Len(q) + Len(name)) + Len(body)) = body
    <3> DEFINE m == Len(q) + Len(name)
    <3>1. m \in Nat /\ m + Len(body) <= Len(c) /\ \A i \in 1..Len(body) : c[m + i] = body[i]
      BY <1>3, <1>4, <2>2
    <3> HIDE DEF m
    <3>2. SubSeq(c, m + 1, m + Len(body)) = body
      BY <1>2, <3>1, PartIs
    <3> QED BY <3>2 DEF m
  <2> QED BY <2>1, <2>3
<1> QED BY <1>5, <1>6, <1>7, <1>8

\* One step of the walk, on bytes that begin as a section does: a section that is
\* not all there ends it without a spec, a whole one is found or passed.
LEMMA WalkStep ==
    ASSUME NEW s \in SectionCatalog, NEW rest \in Seq(Byte),
           \A i \in 1..Len(rest) : i <= Len(SectionBytes(s)) => rest[i] = SectionBytes(s)[i]
    PROVE  LET step == walkSection(rest)
               spec == s.id = 0 /\ s.name = specName
           IN  /\ Len(rest) < Len(SectionBytes(s)) => step.pc = "done" /\ step.spec = NoSpec
               /\ Len(rest) >= Len(SectionBytes(s)) /\ spec => step.pc = "done" /\ step.spec = s.body
               /\ Len(rest) >= Len(SectionBytes(s)) /\ ~spec =>
                     /\ step.pc = "walk"
                     /\ step.rest = SubSeq(rest, Len(SectionBytes(s)) + 1, Len(rest))
<1> DEFINE p == PutUvarint(Len(Content(s)))
           c == Content(s)
           b == SectionBytes(s)
           buf == Tail(rest)
           step == walkSection(rest)
<1>1. /\ p \in Seq(Byte) /\ c \in Seq(Byte) /\ b \in Seq(Byte)
      /\ Len(p) \in Nat /\ Len(c) \in Nat /\ IsLength(Len(c)) /\ Len(b) = 1 + Len(p) + Len(c)
  <2>1. c \in Seq(Byte) /\ b \in Seq(Byte) /\ IsLength(Len(c)) /\ Len(b) = 1 + Len(p) + Len(c)
    BY SectionShape
  <2>2. p \in Seq(Byte)
    BY <2>1, VarintBytes
  <2> QED BY <2>1, <2>2
<1>2. /\ b[1] = s.id /\ \A i \in 1..Len(p) : b[1 + i] = p[i]
      /\ \A i \in 1..Len(c) : b[1 + Len(p) + i] = c[i]
  BY SectionLayout
<1>3. s.id \in Byte /\ s.name \in Seq(Byte) /\ s.body \in Seq(Byte) /\ specName \in Seq(Byte)
  BY SectionShape, ClassifierAssumption
<1>4. CASE rest = <<>>
  <2>1. step.pc = "done" /\ step.spec = NoSpec
    BY <1>4 DEF walkSection
  <2>2. Len(rest) = 0
    BY <1>4
  <2> HIDE DEF step, b, p, c
  <2>3. Len(rest) < Len(b) /\ ~ (Len(rest) >= Len(b))
    BY <1>1, <2>2
  <2> QED BY <2>1, <2>3 DEF step, b
<1>5. CASE rest # <<>>
  <2>1. /\ Len(rest) \in Nat \ {0} /\ buf \in Seq(Byte) /\ Len(buf) = Len(rest) - 1
        /\ Head(rest) = rest[1] /\ \A i \in 1..Len(buf) : buf[i] = rest[1 + i]
    BY <1>5
  <2> HIDE DEF buf, b, p, c
  <2>2. \A i \in 1..Len(rest) : i <= Len(b) => rest[i] = b[i]
    BY DEF b
  <2>3. Head(rest) = s.id
    BY <1>1, <1>2, <2>1, <2>2
  <2>4. \A i \in 1..Len(buf) : i <= Len(p) => buf[i] = p[i]
    <3> TAKE i \in 1..Len(buf)
    <3> HAVE i <= Len(p)
    <3>1. 1 + i \in 1..Len(rest) /\ 1 + i <= Len(b) /\ i \in 1..Len(p)
      BY <1>1, <2>1
    <3> QED BY <1>2, <2>1, <2>2, <3>1
  <2>5. \A i \in 1..Len(c) : Len(p) + i <= Len(buf) => buf[Len(p) + i] = c[i]
    <3> TAKE i \in 1..Len(c)
    <3> HAVE Len(p) + i <= Len(buf)
    <3>1. /\ Len(p) + i \in 1..Len(buf) /\ 1 + (Len(p) + i) \in 1..Len(rest)
          /\ 1 + (Len(p) + i) = 1 + Len(p) + i /\ 1 + (Len(p) + i) <= Len(b)
      BY <1>1, <2>1
    <3>2. buf[Len(p) + i] = rest[1 + (Len(p) + i)]
      BY <2>1, <3>1
    <3>3. rest[1 + (Len(p) + i)] = b[1 + (Len(p) + i)]
      BY <2>2, <3>1
    <3>4. b[1 + (Len(p) + i)] = c[i]
      BY <1>2, <3>1
    <3> QED BY <3>2, <3>3, <3>4
  <2>6. Len(buf) \in Nat /\ (Len(rest) < Len(b) <=> Len(buf) < Len(p) + Len(c))
    BY <1>1, <2>1
  <2>7. CASE Len(buf) < Len(p)
    <3>1. \A i \in 1..Len(buf) : buf[i] = p[i]
      BY <1>1, <2>4, <2>6, <2>7
    <3>2. Uvarint(buf).n = 0
      BY <1>1, <2>1, <2>7, <3>1, CutVarint DEF p, c
    <3>3. ~ Fits(Uvarint(buf), buf)
      BY <3>2 DEF Fits
    <3>4. step.pc = "done" /\ step.spec = NoSpec
      BY <3>3 DEF walkSection, buf
    <3>5. Len(rest) < Len(b) /\ ~ (Len(rest) >= Len(b))
      BY <1>1, <2>1, <2>6, <2>7
    <3> HIDE DEF step
    <3> QED BY <3>4, <3>5 DEF step, b
  <2>8. CASE Len(buf) >= Len(p)
    <3> DEFINE size == [n |-> Len(p), val |-> Len(c)]
    <3>1. \A i \in 1..Len(p) : buf[i] = p[i]
      BY <1>1, <2>4, <2>6, <2>8
    <3>2. Uvarint(buf) = size
      <4>1. Len(p) <= Len(buf)
        BY <1>1, <2>6, <2>8
      <4> QED BY <1>1, <2>1, <3>1, <4>1, ReadsVarint DEF p, c
    <3>3. Len(p) > 0
      BY <1>1, VarintBytes DEF p, c
    <3>4. Fits(size, buf) <=> Len(c) <= Len(buf) - Len(p)
      BY <3>3 DEF Fits
    <3>5. CASE Len(rest) < Len(b)
      <4>1. ~ Fits(Uvarint(buf), buf)
        <5>1. ~ (Len(c) <= Len(buf) - Len(p))
          BY <1>1, <2>6, <3>5
        <5> HIDE DEF size
        <5> QED BY <3>2, <3>4, <5>1
      <4>2. step.pc = "done" /\ step.spec = NoSpec
        BY <4>1 DEF walkSection, buf
      <4>3. ~ (Len(rest) >= Len(b))
        BY <1>1, <2>1, <3>5
      <4> HIDE DEF step
      <4> QED BY <3>5, <4>2, <4>3 DEF step, b
    <3>6. CASE Len(rest) >= Len(b)
      <4>1. Len(p) + Len(c) <= Len(buf) /\ ~ (Len(rest) < Len(b))
        BY <1>1, <2>1, <2>6, <3>6
      <4>2. Fits(size, buf)
        <5>1. Len(c) <= Len(buf) - Len(p)
          BY <1>1, <2>6, <4>1
        <5> HIDE DEF size
        <5> QED BY <3>4, <5>1
      <4>3. Slice(buf, size) = c
        <5>1. Slice(buf, size) = SubSeq(buf, Len(p) + 1, Len(p) + Len(c))
          BY <4>1 DEF Slice
        <5>2. \A i \in 1..Len(c) : buf[Len(p) + i] = c[i]
          <6> TAKE i \in 1..Len(c)
          <6>1. Len(p) + i <= Len(buf)
            BY <1>1, <2>6, <4>1
          <6> QED BY <2>5, <6>1
        <5>3. SubSeq(buf, Len(p) + 1, Len(p) + Len(c)) = c
          BY <1>1, <2>1, <4>1, <5>2, PartIs
        <5> QED BY <5>1, <5>3
      <4>4. After(buf, size) = SubSeq(rest, Len(b) + 1, Len(rest))
        <5>1. After(buf, size) = SubSeq(buf, Len(p) + Len(c) + 1, Len(buf))
          BY DEF After
        <5> DEFINE x == SubSeq(buf, Len(p) + Len(c) + 1, Len(buf))
                   y == SubSeq(rest, Len(b) + 1, Len(rest))
        <5>2. /\ x \in Seq(Byte) /\ Len(x) = Len(buf) - (Len(p) + Len(c))
              /\ \A i \in 1..Len(x) : x[i] = buf[Len(p) + Len(c) + i]
          BY <1>1, <2>1, <2>6, <4>1
        <5>3. /\ y \in Seq(Byte) /\ Len(y) = Len(rest) - Len(b)
              /\ \A i \in 1..Len(y) : y[i] = rest[Len(b) + i]
          BY <1>1, <2>1, <3>6
        <5>4. Len(x) = Len(y)
          BY <1>1, <2>1, <5>2, <5>3
        <5>5. \A i \in 1..Len(x) : x[i] = y[i]
          <6> TAKE i \in 1..Len(x)
          <6>1. /\ Len(p) + Len(c) + i \in 1..Len(buf)
                /\ 1 + (Len(p) + Len(c) + i) = Len(b) + i
            BY <1>1, <2>1, <4>1, <5>2
          <6>2. buf[Len(p) + Len(c) + i] = rest[1 + (Len(p) + Len(c) + i)]
            BY <2>1, <6>1
          <6> HIDE DEF x, y
          <6> QED BY <5>2, <5>3, <5>4, <6>1, <6>2
        <5> HIDE DEF x, y
        <5>6. x = y
          BY <5>2, <5>3, <5>4, <5>5, SameSeq
        <5> QED BY <5>1, <5>6 DEF x, y
      <4>5. c # Panic
        BY <1>1, BytesAreNoOutcome
      <4> DEFINE name == Uvarint(c)
                 next == [pc |-> "walk", rest |-> SubSeq(rest, Len(b) + 1, Len(rest)), spec |-> <<>>]
                 ends(spec) == [pc |-> "done", rest |-> rest, spec |-> spec]
      <4>6. step = IF s.id # 0 THEN next
                   ELSE IF ~Fits(name, c) THEN ends(NoSpec)
                   ELSE IF Slice(c, name) = Panic THEN ends(Panic)
                   ELSE IF Slice(c, name) = specName THEN ends(After(c, name))
                   ELSE next
        <5> HIDE DEF size, b
        <5> QED BY <1>5, <2>3, <3>2, <4>2, <4>3, <4>4, <4>5 DEF walkSection, buf
      <4>7. CASE s.id # 0
        <5>1. step = next
          BY <4>6, <4>7
        <5> HIDE DEF step
        <5> QED BY <4>1, <4>7, <5>1 DEF step, b
      <4>8. CASE s.id = 0
        <5>1. IsLength(Len(s.name)) /\ c = Custom(s.name, s.body)
          BY <4>8, SectionShape DEF c, Custom
        <5>2. Fits(name, c) /\ Slice(c, name) = s.name /\ After(c, name) = s.body
          BY <1>3, <5>1, ReadsCustom, Zenon
        <5>3. s.name # Panic
          BY <1>3, BytesAreNoOutcome
        <5>4. step = IF s.name = specName THEN ends(s.body) ELSE next
          <6> HIDE DEF name, next
          <6> QED BY <4>6, <4>8, <5>2, <5>3
        <5> HIDE DEF step
        <5> QED BY <4>1, <4>8, <5>4 DEF step, b
      <4> QED BY <4>7, <4>8
    <3> QED BY <1>1, <2>1, <3>5, <3>6
  <2> QED BY <1>1, <2>6, <2>7, <2>8
<1> QED BY <1>4, <1>5

-----------------------------------------------------------------------------
(* contractSpecSection: where the walk stands.                             *)

\* Where a section begins: behind the header, or behind the one before it.
Begin(secs, k) == IF k = 1 THEN Len(wasmMagic) + Len(wasmVersion) ELSE secs[k - 1].end

\* The module is its header and its sections, one behind the other.
CodeInv ==
    /\ sections \in Seq([sec: SectionCatalog, end: Nat]) /\ code \in Seq(Byte)
    /\ Len(wasmMagic) + Len(wasmVersion) <= Len(code)
    /\ \A i \in 1..Len(wasmMagic) : code[i] = wasmMagic[i]
    /\ Begin(sections, Len(sections) + 1) = Len(code)
    /\ \A k \in 1..Len(sections) :
          LET bytes == SectionBytes(sections[k].sec)
          IN  /\ sections[k].end = Begin(sections, k) + Len(bytes) /\ sections[k].end <= Len(code)
              /\ \A i \in 1..Len(bytes) : code[Begin(sections, k) + i] = bytes[i]
    /\ \A j, k \in 1..Len(sections) : j <= k => sections[j].end <= sections[k].end

\* The walk stands at the beginning of a section or behind the last one, no
\* section before it is the spec, and it sees the code from there to the cut and
\* then what follows.
AtSection(k) ==
    /\ Begin(sections, k) <= scan.cut
    /\ Len(scan.rest) = (scan.cut - Begin(sections, k)) + Len(scan.junk)
    /\ \A i \in 1..(scan.cut - Begin(sections, k)) : scan.rest[i] = code[Begin(sections, k) + i]
    /\ \A j \in SpecSections : j >= k

\* The first spec section is all in the code that arrived.
WholeSpec == SpecSections # {} /\ scan.cut >= sections[Min(SpecSections)].end

\* The walk may stand anywhere in what follows a cut that left no whole spec.
Lost == ~WholeSpec /\ scan.junk # <<>>

ScanShape == scan = [pc |-> scan.pc, cut |-> scan.cut, junk |-> scan.junk,
                     rest |-> scan.rest, spec |-> scan.spec]

Walking ==
    /\ scan.cut \in 0..Len(code) /\ scan.junk \in Seq(Byte) /\ scan.rest \in Seq(Byte)
    /\ (\E k \in 1..(Len(sections) + 1) : AtSection(k)) \/ Lost

ScanInv ==
    /\ CodeInv
    /\ ScanShape /\ scan.pc \in {"idle", "walk", "done"}
    /\ scan.pc = "walk" => Walking
    /\ SpecHonest

LEMMA ElementOf ==
    ASSUME NEW S, NEW s \in Seq(S), NEW i \in 1..Len(s)
    PROVE  s[i] \in S
  OBVIOUS

LEMMA BeginTyped ==
    ASSUME CodeInv, NEW k \in 1..(Len(sections) + 1)
    PROVE  Begin(sections, k) \in Nat
<1>1. /\ sections \in Seq([sec: SectionCatalog, end: Nat]) /\ Len(sections) \in Nat
      /\ Len(wasmMagic) \in Nat /\ Len(wasmVersion) \in Nat
  <2>1. sections \in Seq([sec: SectionCatalog, end: Nat])
    BY DEF CodeInv
  <2>2. wasmMagic \in Seq(Byte) /\ wasmVersion \in Seq(Byte)
    BY ClassifierAssumption
  <2> QED BY <2>1, <2>2
<1>2. CASE k = 1
  BY <1>1, <1>2 DEF Begin
<1>3. CASE k # 1
  <2>1. k - 1 \in 1..Len(sections)
    BY <1>1, <1>3
  <2>2. sections[k - 1] \in [sec: SectionCatalog, end: Nat]
    BY <1>1, <2>1, ElementOf
  <2> QED BY <1>3, <2>2 DEF Begin
<1> QED BY <1>2, <1>3

LEMMA CodeInvAdds == CodeInv /\ AddSection => CodeInv'
<1> SUFFICES ASSUME CodeInv, AddSection PROVE CodeInv'
  OBVIOUS
<1>1. PICK s \in SectionCatalog :
         /\ sections' = Append(sections, [sec |-> s, end |-> Len(code) + Len(SectionBytes(s))])
         /\ code' = code \o SectionBytes(s)
  BY DEF AddSection
<1> DEFINE n == Len(sections)
           b == SectionBytes(s)
           new == [sec |-> s, end |-> Len(code) + Len(b)]
           header == Len(wasmMagic) + Len(wasmVersion)
<1>2. /\ sections \in Seq([sec: SectionCatalog, end: Nat]) /\ code \in Seq(Byte) /\ b \in Seq(Byte)
      /\ Len(code) \in Nat /\ Len(b) \in Nat /\ n \in Nat
      /\ Len(wasmMagic) \in Nat /\ Len(wasmVersion) \in Nat /\ header \in Nat
  <2>1. sections \in Seq([sec: SectionCatalog, end: Nat]) /\ code \in Seq(Byte)
    BY DEF CodeInv
  <2>2. b \in Seq(Byte)
    BY SectionShape
  <2>3. wasmMagic \in Seq(Byte) /\ wasmVersion \in Seq(Byte)
    BY ClassifierAssumption
  <2> QED BY <2>1, <2>2, <2>3
<1>3. /\ new \in [sec: SectionCatalog, end: Nat] /\ new.sec = s /\ new.end = Len(code) + Len(b)
  BY <1>2
<1> HIDE DEF b, new
<1>4. /\ sections' \in Seq([sec: SectionCatalog, end: Nat]) /\ Len(sections') = n + 1
      /\ sections'[n + 1] = new /\ \A k \in 1..n : sections'[k] = sections[k]
  BY <1>1, <1>2, <1>3 DEF new, b
<1>5. /\ code' \in Seq(Byte) /\ Len(code') = Len(code) + Len(b)
      /\ \A i \in 1..Len(code) : code'[i] = code[i]
      /\ \A i \in 1..Len(b) : code'[Len(code) + i] = b[i]
  <2>1. code' = code \o b
    BY <1>1 DEF b
  <2>2. code \in Seq(Byte) /\ b \in Seq(Byte)
    BY <1>2
  <2> QED BY <2>1, <2>2, TwoParts
<1>6. \A k \in 1..(n + 1) : Begin(sections', k) = Begin(sections, k)
  <2> TAKE k \in 1..(n + 1)
  <2>1. CASE k = 1
    BY <2>1 DEF Begin
  <2>2. CASE k # 1
    <3>1. k - 1 \in 1..n
      BY <1>2, <2>2
    <3> QED BY <1>4, <2>2, <3>1 DEF Begin
  <2> QED BY <2>1, <2>2
<1>7. header <= Len(code') /\ \A i \in 1..Len(wasmMagic) : code'[i] = wasmMagic[i]
  <2>1. header <= Len(code) /\ \A i \in 1..Len(wasmMagic) : code[i] = wasmMagic[i]
    BY DEF CodeInv
  <2>2. \A i \in 1..Len(wasmMagic) : i \in 1..Len(code)
    BY <1>2, <2>1
  <2> HIDE DEF header
  <2> QED BY <1>2, <1>5, <2>1, <2>2
<1>8. Begin(sections', Len(sections') + 1) = Len(code')
  <2>1. Len(sections') + 1 # 1 /\ (Len(sections') + 1) - 1 = n + 1
    BY <1>2, <1>4
  <2>2. Begin(sections', Len(sections') + 1) = sections'[n + 1].end
    BY <2>1 DEF Begin
  <2> QED BY <1>3, <1>4, <1>5, <2>2
<1>9. ASSUME NEW k \in 1..(n + 1)
      PROVE  LET bytes == SectionBytes(sections'[k].sec)
             IN  /\ sections'[k].end = Begin(sections', k) + Len(bytes) /\ sections'[k].end <= Len(code')
                 /\ \A i \in 1..Len(bytes) : code'[Begin(sections', k) + i] = bytes[i]
  <2>1. Begin(sections', k) = Begin(sections, k) /\ Begin(sections, k) \in Nat
    BY <1>6, BeginTyped
  <2>2. CASE k \in 1..n
    <3> DEFINE bytes == SectionBytes(sections[k].sec)
    <3>0. sections \in Seq([sec: SectionCatalog, end: Nat])
      BY <1>2
    <3>1. sections'[k] = sections[k] /\ sections[k] \in [sec: SectionCatalog, end: Nat]
      BY <1>4, <2>2, <3>0, ElementOf
    <3>2. /\ sections[k].end = Begin(sections, k) + Len(bytes) /\ sections[k].end <= Len(code)
          /\ \A i \in 1..Len(bytes) : code[Begin(sections, k) + i] = bytes[i]
      BY <2>2 DEF CodeInv
    <3>3. Len(bytes) \in Nat
      BY <3>1, SectionShape
    <3> HIDE DEF bytes
    <3>4. sections[k].end <= Len(code')
      BY <1>2, <1>5, <3>1, <3>2
    <3>5. \A i \in 1..Len(bytes) : code'[Begin(sections, k) + i] = bytes[i]
      <4> TAKE i \in 1..Len(bytes)
      <4>1. Begin(sections, k) + i \in 1..Len(code)
        BY <1>2, <2>1, <3>2, <3>3
      <4> QED BY <1>5, <3>2, <4>1
    <3> QED BY <2>1, <3>1, <3>2, <3>4, <3>5 DEF bytes
  <2>3. CASE k = n + 1
    <3>1. Begin(sections, k) = Len(code)
      BY <2>3 DEF CodeInv
    <3>2. sections'[k].sec = s /\ sections'[k].end = Len(code) + Len(b)
      BY <1>3, <1>4, <2>3
    <3>3. sections'[k].end <= Len(code')
      BY <1>2, <1>5, <3>2
    <3> QED BY <1>5, <2>1, <3>1, <3>2, <3>3 DEF b
  <2> QED BY <1>2, <2>2, <2>3
<1>10. ASSUME NEW j \in 1..(n + 1), NEW k \in 1..(n + 1), j <= k
       PROVE  sections'[j].end <= sections'[k].end
  <2>1. CASE k \in 1..n
    <3>1. j \in 1..n
      BY <1>2, <1>10, <2>1
    <3> QED BY <1>4, <1>10, <2>1, <3>1 DEF CodeInv
  <2>2. CASE k = n + 1
    <3>1. sections'[k].end = Len(code')
      BY <1>3, <1>4, <1>5, <2>2
    <3>2. sections'[j].end <= Len(code')
      BY <1>9
    <3> QED BY <3>1, <3>2
  <2> QED BY <1>2, <2>1, <2>2
<1>11. 1..Len(sections') = 1..(n + 1)
  BY <1>4
<1> HIDE DEF n, header
<1> QED BY <1>4, <1>5, <1>7, <1>8, <1>9, <1>10, <1>11 DEF CodeInv, header

LEMMA CodeInvStays ==
    ASSUME CodeInv, sections' = sections, code' = code
    PROVE  CodeInv'
  BY DEF CodeInv

LEMMA SectionsTyped ==
    ASSUME CodeInv, NEW k \in 1..Len(sections)
    PROVE  /\ sections[k].sec \in SectionCatalog /\ sections[k].end \in Nat
           /\ Begin(sections, k) \in Nat /\ Begin(sections, k + 1) = sections[k].end
<1>1. sections \in Seq([sec: SectionCatalog, end: Nat]) /\ Len(sections) \in Nat
  BY DEF CodeInv
<1>2. sections[k] \in [sec: SectionCatalog, end: Nat]
  BY <1>1, ElementOf
<1>3. k \in 1..(Len(sections) + 1) /\ k + 1 # 1 /\ (k + 1) - 1 = k
  BY <1>1
<1>4. Begin(sections, k + 1) = sections[k].end
  BY <1>3 DEF Begin
<1> QED BY <1>2, <1>3, <1>4, BeginTyped

\* A module cut before the end of the first section that could be the spec does
\* not hold a whole one.
LEMMA NotWhole ==
    ASSUME CodeInv, NEW k \in 1..(Len(sections) + 1), NEW upTo \in Nat,
           \A j \in SpecSections : j >= k, k <= Len(sections) => upTo < sections[k].end
    PROVE  ~ (SpecSections # {} /\ upTo >= sections[Min(SpecSections)].end)
<1> SUFFICES ASSUME SpecSections # {} PROVE ~ (upTo >= sections[Min(SpecSections)].end)
  OBVIOUS
<1>1. Len(sections) \in Nat /\ SpecSections \subseteq 1..Len(sections)
  BY DEF CodeInv, SpecSections
<1>2. SpecSections \in SUBSET Nat
  BY <1>1
<1>3. PICK m \in SpecSections : \A y \in SpecSections : m <= y
  BY <1>2, LeastNatural
<1>4. Min(SpecSections) = m
  BY <1>2, <1>3, MinIs
<1>5. m \in 1..Len(sections) /\ k \in 1..Len(sections) /\ k <= m
  BY <1>1, <1>3
<1>6. sections[k].end <= sections[m].end
  BY <1>5 DEF CodeInv
<1>7. upTo < sections[k].end /\ sections[k].end \in Nat /\ sections[m].end \in Nat
  BY <1>5, SectionsTyped
<1> QED BY <1>4, <1>6, <1>7

\* Only a panic of the walk is an error.
LEMMA OnlyPanicFails ==
    ASSUME NEW spec, spec # Panic
    PROVE  Classify("wasm", "code", spec) # Failed
<1>1. Classify("wasm", "code", spec) \in {Opaque, Mined(specNames(spec))}
  BY DEF Classify, classifyWasm
<1>2. ASSUME NEW names PROVE Mined(names).type = "wasm"
  BY DEF Mined, Opaque, Cls
<1>3. Opaque.type = "wasm" /\ Failed.type = "error"
  BY DEF Opaque, Failed, Cls
<1> QED BY <1>1, <1>2, <1>3

LEMMA NoSpecIsOpaque == NoSpec # Panic /\ Classify("wasm", "code", NoSpec) = Opaque
<1>1. NoSpec # Panic
  <2>1. NoSpec[1] = -1 /\ Panic[1] = -2
    BY DEF NoSpec, Panic
  <2> QED BY <2>1
<1> QED BY <1>1 DEF Classify, classifyWasm

\* What a scan that found no spec, one that went astray, and one that found the
\* spec is classified as.
LEMMA NoneFound ==
    ASSUME scan'.spec = NoSpec, ~WholeSpec'
    PROVE  SpecHonest'
<1>1. Classify("wasm", "code", scan'.spec) # Failed
  BY NoSpecIsOpaque, OnlyPanicFails
<1>2. Classify("wasm", "code", scan'.spec) = Opaque
  BY NoSpecIsOpaque
<1> QED BY <1>1, <1>2 DEF SpecHonest, WholeSpec

LEMMA StrayFound ==
    ASSUME scan'.spec # Panic, Lost'
    PROVE  SpecHonest'
<1>1. Classify("wasm", "code", scan'.spec) # Failed
  BY OnlyPanicFails
<1> QED BY <1>1 DEF SpecHonest, Lost, WholeSpec

LEMMA OneFound ==
    ASSUME NEW k \in SpecSections, SpecSections \in SUBSET Nat, \A j \in SpecSections : j >= k,
           sections[k].sec.body \in Seq(Byte), scan'.spec = sections[k].sec.body,
           sections' = sections, scan'.cut >= sections[k].end
    PROVE  SpecHonest'
<1>1. Min(SpecSections) = k
  <2>1. \A j \in SpecSections : k <= j
    OBVIOUS
  <2> QED BY <2>1, MinIs
<1>2. scan'.spec # Panic /\ scan'.spec # NoSpec
  BY BytesAreNoOutcome
<1>3. Classify("wasm", "code", scan'.spec) = Mined(specNames(scan'.spec))
  BY <1>2 DEF Classify, classifyWasm
<1>4. SpecSections' = SpecSections /\ SpecSections # {}
  BY DEF SpecSections
<1>5. Classify("wasm", "code", scan'.spec) # Failed
  BY <1>2, OnlyPanicFails
<1> QED BY <1>1, <1>3, <1>4, <1>5 DEF SpecHonest

\* A length that fits its buffer cuts it into bytes, never out of range.
LEMMA FitsSlices ==
    ASSUME NEW buf \in Seq(Byte), Fits(Uvarint(buf), buf)
    PROVE  Slice(buf, Uvarint(buf)) \in Seq(Byte) /\ After(buf, Uvarint(buf)) \in Seq(Byte)
<1> DEFINE ends == {i \in DOMAIN buf : buf[i] < Continues}
           v == Uvarint(buf)
<1>1. Continues \in Nat \ {0} /\ DOMAIN buf = 1..Len(buf) /\ Len(buf) \in Nat
  BY ClassifierAssumption
<1>2. ends \in SUBSET Nat
  BY <1>1
<1>3. v.n > 0
  BY DEF Fits
<1>4. ends # {} /\ ~ (Min(ends) > maxVarintLen)
  <2>1. ends = {} => v.n = 0
    BY DEF Uvarint
  <2>2. ends # {} /\ Min(ends) > maxVarintLen => v.n = -1
    BY DEF Uvarint
  <2> HIDE DEF ends, v
  <2> QED BY <1>3, <2>1, <2>2
<1>5. PICK m \in ends : \A y \in ends : m <= y
  BY <1>2, <1>4, LeastNatural
<1>6. Min(ends) = m
  BY <1>2, <1>5, MinIs
<1>7. m \in 1..Len(buf) /\ buf[m] < Continues /\ m \in {1, 2}
  BY <1>1, <1>4, <1>5, <1>6 DEF maxVarintLen
<1>8. v.n = m /\ v.val = IF m = 1 THEN buf[1] ELSE buf[1] - Continues + Continues * buf[2]
  BY <1>4, <1>6 DEF Uvarint
<1>9. v.val \in Nat
  <2>1. CASE m = 1
    <3>1. buf[1] \in Byte
      BY <1>7, <2>1, ElementOf
    <3> QED BY <1>1, <1>8, <2>1, <3>1 DEF Byte
  <2>2. CASE m = 2
    <3>1. 1 \in 1..Len(buf) /\ 2 \in 1..Len(buf)
      BY <1>1, <1>7, <2>2
    <3>2. buf[1] \in Byte /\ buf[2] \in Byte
      BY <3>1, ElementOf
    <3>3. 1 \notin ends
      BY <1>5, <2>2
    <3>4. ~ (buf[1] < Continues)
      BY <1>1, <3>1, <3>3
    <3>5. buf[1] \in Nat /\ buf[2] \in Nat /\ buf[1] - Continues \in Nat
      BY <1>1, <3>2, <3>4 DEF Byte
    <3>6. Continues * buf[2] \in Nat
      BY <1>1, <3>5
    <3> QED BY <1>8, <2>2, <3>5, <3>6
  <2> QED BY <1>7, <2>1, <2>2
<1> HIDE DEF v
<1>10. v.val <= Len(buf) - v.n /\ v.n \in Nat
  BY <1>7, <1>8 DEF Fits, v
<1>11. v.n + v.val <= Len(buf) /\ v.n + v.val \in Nat
  BY <1>1, <1>9, <1>10
<1>12. Slice(buf, v) = SubSeq(buf, v.n + 1, v.n + v.val)
  BY <1>11 DEF Slice
<1>13. SubSeq(buf, v.n + 1, v.n + v.val) \in Seq(Byte)
  BY <1>1, <1>9, <1>10, <1>11
<1>14. After(buf, v) \in Seq(Byte)
  <2> DEFINE a == v.n + v.val
  <2>1. a \in Nat /\ a <= Len(buf)
    BY <1>11
  <2> HIDE DEF a
  <2>2. SubSeq(buf, a + 1, Len(buf)) \in Seq(Byte)
    BY <1>1, <2>1
  <2> QED BY <2>2 DEF After, a
<1> QED BY <1>12, <1>13, <1>14 DEF v

\* One step of the walk on any bytes: it does not panic, and goes on on bytes.
LEMMA WalkSafe ==
    ASSUME NEW rest \in Seq(Byte)
    PROVE  LET step == walkSection(rest)
           IN  /\ step.pc \in {"walk", "done"} /\ step.spec # Panic
               /\ step.pc = "walk" => step.rest \in Seq(Byte)
<1> DEFINE buf == Tail(rest)
           size == Uvarint(buf)
           section == Slice(buf, size)
           name == Uvarint(section)
           step == walkSection(rest)
           ends(spec) == [pc |-> "done", rest |-> rest, spec |-> spec]
           next == [pc |-> "walk", rest |-> After(buf, size), spec |-> <<>>]
<1>1. <<>> # Panic /\ NoSpec # Panic
  <2>1. Len(Panic) = 1 /\ Len(<<>>) = 0
    BY DEF Panic
  <2> QED BY <2>1, NoSpecIsOpaque
<1>2. CASE rest = <<>> \/ ~Fits(size, buf)
  <2>1. step = ends(NoSpec)
    BY <1>2 DEF walkSection
  <2> QED BY <1>1, <2>1
<1>3. CASE ~ (rest = <<>> \/ ~Fits(size, buf))
  <2>1. buf \in Seq(Byte)
    BY <1>3
  <2>2. section \in Seq(Byte) /\ After(buf, size) \in Seq(Byte)
    <3> HIDE DEF buf
    <3> QED BY <1>3, <2>1, FitsSlices
  <2>3. section # Panic
    BY <2>2, BytesAreNoOutcome
  <2>4. next.pc = "walk" /\ next.rest \in Seq(Byte) /\ next.spec # Panic
    BY <1>1, <2>2
  <2>5. CASE Head(rest) # 0
    <3>1. step = next
      BY <1>3, <2>3, <2>5 DEF walkSection
    <3> QED BY <2>4, <3>1
  <2>6. CASE Head(rest) = 0 /\ ~Fits(name, section)
    <3>1. step = ends(NoSpec)
      BY <1>3, <2>3, <2>6 DEF walkSection
    <3> QED BY <1>1, <3>1
  <2>7. CASE Head(rest) = 0 /\ Fits(name, section)
    <3>1. Slice(section, name) \in Seq(Byte) /\ After(section, name) \in Seq(Byte)
      <4> HIDE DEF section
      <4> QED BY <2>2, <2>7, FitsSlices
    <3>2. Slice(section, name) # Panic /\ After(section, name) # Panic
      BY <3>1, BytesAreNoOutcome
    <3>3. step = IF Slice(section, name) = specName THEN ends(After(section, name)) ELSE next
      BY <1>3, <2>3, <2>7, <3>2 DEF walkSection
    <3> QED BY <2>4, <3>2, <3>3
  <2> QED BY <2>5, <2>6, <2>7
<1> QED BY <1>2, <1>3

LEMMA ScanInvInit == ClassifierInit => ScanInv
<1> SUFFICES ASSUME ClassifierInit PROVE ScanInv
  OBVIOUS
<1>1. /\ sections = <<>> /\ Len(sections) = 0 /\ code = wasmMagic \o wasmVersion
      /\ wasmMagic \in Seq(Byte) /\ wasmVersion \in Seq(Byte)
  BY ClassifierAssumption DEF ClassifierInit
<1>2. /\ code \in Seq(Byte) /\ Len(code) = Len(wasmMagic) + Len(wasmVersion)
      /\ \A i \in 1..Len(wasmMagic) : code[i] = wasmMagic[i]
  <2>1. wasmMagic \in Seq(Byte) /\ wasmVersion \in Seq(Byte)
    BY <1>1
  <2> QED BY <1>1, <2>1, TwoParts
<1>3. Begin(sections, Len(sections) + 1) = Len(code)
  BY <1>1, <1>2 DEF Begin
<1>4. Len(wasmMagic) + Len(wasmVersion) <= Len(code)
  <2>1. Len(code) \in Nat
    BY <1>2
  <2> QED BY <1>2, <2>1
<1>5. sections \in Seq([sec: SectionCatalog, end: Nat]) /\ 1..Len(sections) = {}
  BY <1>1
<1>6. CodeInv
  BY <1>2, <1>3, <1>4, <1>5 DEF CodeInv
<1>7. scan.pc = "idle" /\ ScanShape
  BY DEF ClassifierInit, NotScanning, ScanShape
<1> QED BY <1>6, <1>7 DEF ScanInv, SpecHonest

\* What the walk begins on: a module cut in its header may only go astray, any
\* other one begins with the magic number.
LEMMA ScanStarts == ScanInv /\ StartScan => ScanInv'
<1> SUFFICES ASSUME ScanInv, StartScan PROVE ScanInv'
  OBVIOUS
<1> DEFINE header == Len(wasmMagic) + Len(wasmVersion)
           wasm(upTo, junk) == SubSeq(code, 1, upTo) \o junk
           after(upTo, junk) == SubSeq(wasm(upTo, junk), header + 1, Len(wasm(upTo, junk)))
<1>1. PICK upTo \in 0..Len(code), junk \in Junk :
         scan' = IF \/ Len(wasm(upTo, junk)) < header
                    \/ SubSeq(wasm(upTo, junk), 1, Len(wasmMagic)) # wasmMagic
                 THEN [pc |-> "done", cut |-> upTo, junk |-> junk, rest |-> <<>>, spec |-> NoSpec]
                 ELSE [pc |-> "walk", cut |-> upTo, junk |-> junk, rest |-> after(upTo, junk),
                       spec |-> <<>>]
  BY DEF StartScan
<1>2. sections' = sections /\ code' = code /\ CodeInv /\ CodeInv'
  BY CodeInvStays DEF StartScan, ScanInv
<1>3. /\ code \in Seq(Byte) /\ wasmMagic \in Seq(Byte) /\ junk \in Seq(Byte)
      /\ Len(code) \in Nat /\ Len(wasmMagic) \in Nat /\ Len(wasmVersion) \in Nat
      /\ Len(junk) \in Nat /\ header \in Nat
      /\ Len(sections) \in Nat /\ upTo \in Nat /\ upTo <= Len(code)
  <2>1. code \in Seq(Byte) /\ sections \in Seq([sec: SectionCatalog, end: Nat])
    BY <1>2 DEF CodeInv
  <2>2. wasmMagic \in Seq(Byte) /\ wasmVersion \in Seq(Byte) /\ junk \in Seq(Byte)
    BY ClassifierAssumption
  <2> QED BY <2>1, <2>2
<1> DEFINE part == SubSeq(code, 1, upTo)
           w == part \o junk
           r == SubSeq(w, header + 1, Len(w))
<1>4. part \in Seq(Byte) /\ Len(part) = upTo /\ \A i \in 1..upTo : part[i] = code[i]
  BY <1>3
<1>5. scan' = IF Len(w) < header \/ SubSeq(w, 1, Len(wasmMagic)) # wasmMagic
              THEN [pc |-> "done", cut |-> upTo, junk |-> junk, rest |-> <<>>, spec |-> NoSpec]
              ELSE [pc |-> "walk", cut |-> upTo, junk |-> junk, rest |-> r, spec |-> <<>>]
  BY <1>1
<1> HIDE DEF part
<1>6. w \in Seq(Byte) /\ Len(w) = upTo + Len(junk) /\ \A i \in 1..upTo : w[i] = code[i]
  <2>1. part \in Seq(Byte) /\ junk \in Seq(Byte)
    BY <1>3, <1>4
  <2>2. /\ w \in Seq(Byte) /\ Len(w) = Len(part) + Len(junk)
        /\ \A i \in 1..Len(part) : w[i] = part[i]
    BY <2>1, TwoParts
  <2> HIDE DEF w
  <2> QED BY <1>4, <2>2
<1> HIDE DEF w
<1>7. scan'.cut = upTo /\ scan'.junk = junk /\ ScanShape' /\ scan'.pc \in {"walk", "done"}
  <2> HIDE DEF r
  <2> QED BY <1>5 DEF ScanShape
<1>8. scan'.pc = "done" => scan'.spec = NoSpec
  BY <1>5
<1>9. scan'.pc = "walk" =>
         scan'.rest = r /\ header <= Len(w) /\ r \in Seq(Byte) /\ Len(r) = Len(w) - header
         /\ \A i \in 1..Len(r) : r[i] = w[header + i]
  <2> HAVE scan'.pc = "walk"
  <2>1. scan'.rest = r /\ ~ (Len(w) < header)
    BY <1>5
  <2>2. Len(w) \in Nat /\ w \in Seq(Byte)
    BY <1>6
  <2> HIDE DEF header
  <2> QED BY <1>3, <2>1, <2>2
<1>10. SpecSections' = SpecSections /\ \A j \in SpecSections : j >= 1
  <2>1. SpecSections \subseteq 1..Len(sections)
    BY <1>2 DEF CodeInv, SpecSections
  <2> QED BY <1>2, <1>3, <2>1 DEF SpecSections
<1> HIDE DEF r
<1>11. CASE upTo < header
  <2>1. 1 <= Len(sections) => upTo < sections[1].end
    <3> HAVE 1 <= Len(sections)
    <3>1. 1 \in 1..Len(sections)
      BY <1>3
    <3>2. sections[1].end = Begin(sections, 1) + Len(SectionBytes(sections[1].sec))
      BY <1>2, <3>1 DEF CodeInv
    <3>3. Len(SectionBytes(sections[1].sec)) \in Nat
      <4>1. SectionBytes(sections[1].sec) \in Seq(Byte)
        BY <1>2, <3>1, SectionsTyped, SectionShape
      <4> QED BY <4>1
    <3>4. Begin(sections, 1) = header
      BY DEF Begin
    <3> QED BY <1>3, <1>11, <3>2, <3>3, <3>4
  <2>2. ~ (SpecSections # {} /\ upTo >= sections[Min(SpecSections)].end)
    <3>1. 1 \in 1..(Len(sections) + 1)
      BY <1>3
    <3> QED BY <1>2, <1>3, <1>10, <2>1, <3>1, NotWhole
  <2>3. ~WholeSpec'
    BY <1>2, <1>7, <1>10, <2>2 DEF WholeSpec
  <2>4. CASE scan'.pc = "done"
    <3>1. SpecHonest'
      BY <1>8, <2>3, <2>4, NoneFound
    <3> QED BY <1>2, <1>7, <2>4, <3>1 DEF ScanInv
  <2>5. CASE scan'.pc = "walk"
    <3>1. junk # <<>>
      <4> SUFFICES ASSUME junk = <<>> PROVE FALSE
        OBVIOUS
      <4>1. Len(junk) = 0
        OBVIOUS
      <4>2. Len(w) < header
        BY <1>3, <1>6, <1>11, <4>1
      <4>3. Len(w) \in Nat
        BY <1>6
      <4> QED BY <1>3, <1>9, <2>5, <4>2, <4>3
    <3>2. Lost'
      BY <1>7, <2>3, <3>1 DEF Lost
    <3>3. Walking'
      BY <1>2, <1>3, <1>7, <1>9, <2>5, <3>2 DEF Walking
    <3> QED BY <1>2, <1>7, <2>5, <3>3 DEF ScanInv, SpecHonest
  <2> QED BY <1>7, <2>4, <2>5
<1>12. CASE ~ (upTo < header)
  <2>1. header <= upTo /\ header <= Len(w) /\ Len(wasmMagic) <= Len(w)
    BY <1>3, <1>6, <1>12
  <2>2. \A i \in 1..Len(wasmMagic) : w[i] = wasmMagic[i]
    <3> TAKE i \in 1..Len(wasmMagic)
    <3>1. i \in 1..upTo
      BY <1>3, <2>1
    <3>2. code[i] = wasmMagic[i]
      BY <1>2 DEF CodeInv
    <3> QED BY <1>6, <3>1, <3>2
  <2>3. SubSeq(w, 1, Len(wasmMagic)) = wasmMagic
    <3> DEFINE x == SubSeq(w, 1, Len(wasmMagic))
    <3>0. w \in Seq(Byte) /\ Len(wasmMagic) <= Len(w)
      BY <1>6, <2>1
    <3>1. x \in Seq(Byte) /\ Len(x) = Len(wasmMagic) /\ \A i \in 1..Len(wasmMagic) : x[i] = w[i]
      BY <1>3, <3>0
    <3> HIDE DEF x
    <3>2. x = wasmMagic
      BY <1>3, <2>2, <3>1, SameSeq
    <3> QED BY <3>2 DEF x
  <2>4. scan'.pc = "walk"
    <3>1. ~ (Len(w) < header)
      <4>1. Len(w) \in Nat
        BY <1>6
      <4> QED BY <1>3, <2>1, <4>1
    <3> HIDE DEF header
    <3> QED BY <1>5, <2>3, <3>1
  <2>5. AtSection(1)'
    <3>1. Begin(sections', 1) = header
      BY DEF Begin
    <3>2. Len(r) = (upTo - header) + Len(junk)
      BY <1>3, <1>6, <1>9, <2>1, <2>4
    <3>3. \A i \in 1..(upTo - header) : r[i] = code[header + i]
      <4> TAKE i \in 1..(upTo - header)
      <4>1. header + i \in 1..upTo /\ i \in 1..Len(r)
        BY <1>3, <2>1, <3>2
      <4>2. w[header + i] = code[header + i]
        BY <1>6, <4>1
      <4> QED BY <1>9, <2>4, <4>1, <4>2
    <3> HIDE DEF header
    <3> QED BY <1>2, <1>7, <1>9, <1>10, <2>1, <2>4, <3>1, <3>2, <3>3 DEF AtSection
  <2>6. \E k \in 1..(Len(sections') + 1) : AtSection(k)'
    <3>1. 1 \in 1..(Len(sections') + 1)
      BY <1>2, <1>3
    <3> QED BY <2>5, <3>1
  <2>7. Walking'
    BY <1>2, <1>3, <1>7, <1>9, <2>4, <2>6 DEF Walking
  <2> QED BY <1>2, <1>7, <2>4, <2>7 DEF ScanInv, SpecHonest
<1> QED BY <1>11, <1>12

\* What a step of the walk does to the scan.
LEMMA WalkTaken ==
    ASSUME ScanInv, contractSpecSection
    PROVE  LET step == walkSection(scan.rest)
           IN  /\ scan.pc = "walk" /\ Walking /\ CodeInv /\ CodeInv'
               /\ sections' = sections /\ code' = code /\ ScanShape'
               /\ scan'.pc = step.pc /\ scan'.rest = step.rest /\ scan'.spec = step.spec
               /\ scan'.cut = scan.cut /\ scan'.junk = scan.junk
               /\ SpecSections' = SpecSections /\ WholeSpec' = WholeSpec
<1> DEFINE step == walkSection(scan.rest)
<1>1. /\ scan.pc = "walk" /\ sections' = sections /\ code' = code
      /\ scan' = [scan EXCEPT !.pc = step.pc, !.rest = step.rest, !.spec = step.spec]
  BY DEF contractSpecSection
<1> HIDE DEF step
<1>2. Walking /\ CodeInv /\ CodeInv'
  BY <1>1, CodeInvStays DEF ScanInv
<1>3. /\ ScanShape' /\ scan'.pc = step.pc /\ scan'.rest = step.rest /\ scan'.spec = step.spec
      /\ scan'.cut = scan.cut /\ scan'.junk = scan.junk
  <2>1. scan = [pc |-> scan.pc, cut |-> scan.cut, junk |-> scan.junk,
                rest |-> scan.rest, spec |-> scan.spec]
    BY DEF ScanInv, ScanShape
  <2>2. scan' = [pc |-> step.pc, cut |-> scan.cut, junk |-> scan.junk,
                 rest |-> step.rest, spec |-> step.spec]
    BY <1>1, <2>1
  <2> QED BY <2>2 DEF ScanShape
<1>4. SpecSections' = SpecSections
  BY <1>1 DEF SpecSections
<1>5. WholeSpec' = WholeSpec
  BY <1>1, <1>3, <1>4 DEF WholeSpec
<1> QED BY <1>1, <1>2, <1>3, <1>4, <1>5 DEF step

\* Astray, the walk stays astray or ends without a panic.
LEMMA LostWalks ==
    ASSUME ScanInv, contractSpecSection, Lost
    PROVE  ScanInv'
<1> DEFINE step == walkSection(scan.rest)
<1>1. /\ Walking /\ CodeInv' /\ code' = code /\ ScanShape'
      /\ scan'.pc = step.pc /\ scan'.rest = step.rest /\ scan'.spec = step.spec
      /\ scan'.cut = scan.cut /\ scan'.junk = scan.junk /\ WholeSpec' = WholeSpec
  BY WalkTaken
<1>2. Lost'
  BY <1>1 DEF Lost
<1>3. /\ step.pc \in {"walk", "done"} /\ step.spec # Panic
      /\ step.pc = "walk" => step.rest \in Seq(Byte)
  <2>1. scan.rest \in Seq(Byte)
    BY <1>1 DEF Walking
  <2> QED BY <2>1, WalkSafe
<1> HIDE DEF step
<1>4. scan'.pc = "walk" => Walking'
  BY <1>1, <1>2, <1>3 DEF Walking
<1>5. SpecHonest'
  BY <1>1, <1>2, <1>3, StrayFound
<1> QED BY <1>1, <1>3, <1>4, <1>5 DEF ScanInv

\* The walk goes on from one section to the next.
LEMMA ScanWalks == ScanInv /\ contractSpecSection => ScanInv'
<1> SUFFICES ASSUME ScanInv, contractSpecSection, ~Lost PROVE ScanInv'
  BY LostWalks
<1> DEFINE rest == scan.rest
           step == walkSection(rest)
           upTo == scan.cut
           more == Len(scan.junk)
<1>1. /\ scan.pc = "walk" /\ sections' = sections /\ code' = code /\ ScanShape'
      /\ scan'.pc = step.pc /\ scan'.cut = upTo /\ scan'.rest = step.rest /\ scan'.spec = step.spec
      /\ scan'.junk = scan.junk /\ WholeSpec' = WholeSpec
  BY WalkTaken
<1>2. CodeInv /\ CodeInv' /\ Walking
  BY WalkTaken
<1>3. /\ upTo \in Nat /\ upTo <= Len(code) /\ upTo \in 0..Len(code) /\ rest \in Seq(Byte)
      /\ Len(rest) \in Nat /\ Len(code) \in Nat /\ Len(sections) \in Nat
      /\ SpecSections \subseteq 1..Len(sections) /\ SpecSections \in SUBSET Nat
      /\ SpecSections' = SpecSections /\ scan.junk \in Seq(Byte) /\ more \in Nat
  <2>1. code \in Seq(Byte) /\ sections \in Seq([sec: SectionCatalog, end: Nat])
    BY <1>2 DEF CodeInv
  <2>2. Len(code) \in Nat /\ Len(sections) \in Nat /\ DOMAIN sections = 1..Len(sections)
    BY <2>1
  <2>3. upTo \in 0..Len(code) /\ rest \in Seq(Byte) /\ scan.junk \in Seq(Byte)
    BY <1>2 DEF Walking
  <2>4. SpecSections \subseteq 1..Len(sections) /\ SpecSections' = SpecSections
    BY <1>1, <2>2 DEF SpecSections
  <2> QED BY <2>2, <2>3, <2>4
<1>4. PICK k \in 1..(Len(sections) + 1) : AtSection(k)
  BY <1>2 DEF Walking
<1>5. /\ Begin(sections, k) <= upTo /\ Len(rest) = (upTo - Begin(sections, k)) + more
      /\ \A i \in 1..(upTo - Begin(sections, k)) : rest[i] = code[Begin(sections, k) + i]
      /\ \A j \in SpecSections : j >= k
  BY <1>4 DEF AtSection
<1>6. ASSUME k <= Len(sections) => upTo < sections[k].end
      PROVE  more = 0 /\ ~WholeSpec'
  <2>1. ~ (SpecSections # {} /\ upTo >= sections[Min(SpecSections)].end)
    <3> HIDE DEF upTo
    <3> QED BY <1>2, <1>3, <1>5, <1>6, NotWhole
  <2>2. ~WholeSpec
    BY <2>1 DEF WholeSpec
  <2>3. scan.junk = <<>>
    BY <2>2 DEF Lost
  <2> QED BY <1>1, <2>2, <2>3
<1> HIDE DEF step, rest, upTo, more
<1>7. CASE k = Len(sections) + 1
  <2>1. Begin(sections, k) = Len(code)
    BY <1>2, <1>7 DEF CodeInv
  <2>2. ~ (k <= Len(sections))
    BY <1>3, <1>7
  <2>3. more = 0 /\ ~WholeSpec'
    BY <1>6, <2>2
  <2>4. Len(rest) = 0
    BY <1>3, <1>5, <2>1, <2>3
  <2>5. rest = <<>>
    BY <1>3, <2>4
  <2>6. step.pc = "done" /\ step.spec = NoSpec
    BY <2>5 DEF step, walkSection
  <2>7. SpecHonest'
    BY <1>1, <2>3, <2>6, NoneFound
  <2> QED BY <1>1, <1>2, <2>6, <2>7 DEF ScanInv
<1>8. CASE k \in 1..Len(sections)
  <2> DEFINE s == sections[k].sec
             b == SectionBytes(s)
             seen == upTo - Begin(sections, k)
  <2>1. /\ s \in SectionCatalog /\ sections[k].end \in Nat /\ Begin(sections, k) \in Nat
        /\ Begin(sections, k + 1) = sections[k].end
    BY <1>2, <1>8, SectionsTyped
  <2>2. sections[k].end = Begin(sections, k) + Len(b)
        /\ \A i \in 1..Len(b) : code[Begin(sections, k) + i] = b[i]
    BY <1>2, <1>8 DEF CodeInv
  <2>3. b \in Seq(Byte) /\ Len(b) \in Nat /\ s.body \in Seq(Byte) /\ seen \in Nat
    <3>1. b \in Seq(Byte) /\ s.body \in Seq(Byte)
      BY <2>1, SectionShape
    <3>2. seen \in Nat
      BY <1>3, <1>5, <2>1
    <3> QED BY <3>1, <3>2
  <2> HIDE DEF b
  <2>4. seen < Len(b) => more = 0 /\ ~WholeSpec'
    <3> HAVE seen < Len(b)
    <3>1. upTo < sections[k].end
      BY <1>3, <2>1, <2>2, <2>3
    <3> QED BY <1>6, <3>1
  <2>5. Len(rest) = seen + more
    BY <1>5
  <2>6. (Len(rest) < Len(b) <=> seen < Len(b)) /\ (Len(rest) >= Len(b) <=> seen >= Len(b))
    <3> HIDE DEF seen
    <3> QED BY <1>3, <2>3, <2>4, <2>5
  <2>7. \A i \in 1..Len(rest) : i <= Len(b) => rest[i] = b[i]
    <3> TAKE i \in 1..Len(rest)
    <3> HAVE i <= Len(b)
    <3>1. i \in 1..Len(b)
      BY <1>3, <2>3
    <3>2. i \in 1..seen
      <4> HIDE DEF seen
      <4> QED BY <1>3, <2>3, <2>4, <2>5
    <3> QED BY <1>5, <2>2, <3>1, <3>2
  <2> DEFINE isSpec == s.id = 0 /\ s.name = specName
  <2>8. /\ Len(rest) < Len(b) => step.pc = "done" /\ step.spec = NoSpec
        /\ Len(rest) >= Len(b) /\ isSpec => step.pc = "done" /\ step.spec = s.body
        /\ Len(rest) >= Len(b) /\ ~isSpec =>
              step.pc = "walk" /\ step.rest = SubSeq(rest, Len(b) + 1, Len(rest))
    <3> HIDE DEF s
    <3> QED BY <1>3, <2>1, <2>7, WalkStep DEF b, step
  <2>9. isSpec <=> k \in SpecSections
    BY <1>2, <1>8 DEF SpecSections, CodeInv
  <2> HIDE DEF isSpec
  <2>10. CASE Len(rest) < Len(b)
    <3>1. ~WholeSpec'
      BY <2>4, <2>6, <2>10
    <3>2. SpecHonest'
      BY <1>1, <2>8, <2>10, <3>1, NoneFound
    <3> QED BY <1>1, <1>2, <2>8, <2>10, <3>2 DEF ScanInv
  <2>11. CASE Len(rest) >= Len(b) /\ isSpec
    <3>1. upTo >= sections[k].end
      <4>1. seen >= Len(b)
        BY <2>6, <2>11
      <4> QED BY <1>3, <1>5, <2>1, <2>2, <2>3, <4>1
    <3>2. k \in SpecSections /\ scan'.spec = s.body /\ scan'.pc = "done"
      BY <1>1, <2>8, <2>9, <2>11
    <3>3. SpecHonest'
      BY <1>1, <1>3, <1>5, <2>3, <3>1, <3>2, OneFound
    <3> QED BY <1>1, <1>2, <3>2, <3>3 DEF ScanInv
  <2>12. CASE Len(rest) >= Len(b) /\ ~isSpec
    <3> DEFINE r == SubSeq(rest, Len(b) + 1, Len(rest))
    <3>1. scan'.pc = "walk" /\ scan'.rest = r
      BY <1>1, <2>8, <2>12
    <3>2. r \in Seq(Byte) /\ Len(r) = Len(rest) - Len(b) /\ \A i \in 1..Len(r) : r[i] = rest[Len(b) + i]
      BY <1>3, <2>3, <2>12
    <3> HIDE DEF r
    <3>3. k + 1 \in 1..(Len(sections') + 1)
      BY <1>1, <1>3, <1>8
    <3>4. AtSection(k + 1)'
      <4>0. seen >= Len(b)
        BY <2>6, <2>12
      <4>1. sections[k].end <= upTo /\ Len(r) = (upTo - sections[k].end) + more
        <5>1. ASSUME NEW begin \in Nat, NEW u \in Nat, NEW l \in Nat, NEW m \in Nat, u - begin >= l
              PROVE  begin + l <= u /\ ((u - begin) + m) - l = (u - (begin + l)) + m
          BY <5>1
        <5>2. /\ Begin(sections, k) \in Nat /\ upTo \in Nat /\ Len(b) \in Nat /\ more \in Nat
              /\ sections[k].end = Begin(sections, k) + Len(b)
              /\ Len(r) = ((upTo - Begin(sections, k)) + more) - Len(b)
          BY <1>3, <1>5, <2>1, <2>2, <2>3, <3>2
        <5> QED BY <4>0, <5>1, <5>2
      <4>2. \A i \in 1..(upTo - sections[k].end) : r[i] = code[sections[k].end + i]
        <5> TAKE i \in 1..(upTo - sections[k].end)
        <5>1. /\ Len(b) + i \in 1..seen /\ i \in 1..Len(r)
              /\ Begin(sections, k) + (Len(b) + i) = sections[k].end + i
          <6>1. ASSUME NEW begin \in Nat, NEW u \in Nat, NEW l \in Nat, NEW m \in Nat, NEW e \in Nat,
                       e = begin + l, NEW x \in 1..(u - e)
                PROVE  l + x \in 1..(u - begin) /\ x \in 1..((u - e) + m) /\ begin + (l + x) = e + x
            BY <6>1
          <6>2. /\ Begin(sections, k) \in Nat /\ upTo \in Nat /\ Len(b) \in Nat /\ more \in Nat
                /\ sections[k].end \in Nat /\ sections[k].end = Begin(sections, k) + Len(b)
            BY <1>3, <2>1, <2>2, <2>3
          <6> QED BY <4>1, <6>1, <6>2
        <5>2. rest[Len(b) + i] = code[Begin(sections, k) + (Len(b) + i)]
          BY <1>5, <5>1
        <5> QED BY <3>2, <5>1, <5>2
      <4>3. \A j \in SpecSections : j >= k + 1
        <5> TAKE j \in SpecSections
        <5>1. j >= k /\ j # k /\ j \in Nat /\ k \in Nat
          BY <1>3, <1>5, <1>8, <2>9, <2>12
        <5> QED BY <5>1
      <4>4. Begin(sections', k + 1) = sections[k].end
        BY <1>1, <2>1
      <4>5. Len(scan'.junk) = more
        BY <1>1 DEF more
      <4> QED BY <1>1, <1>3, <3>1, <4>1, <4>2, <4>3, <4>4, <4>5 DEF AtSection
    <3>5. \E j \in 1..(Len(sections') + 1) : AtSection(j)'
      BY <3>3, <3>4
    <3>6. Walking'
      BY <1>1, <1>3, <3>1, <3>2, <3>5 DEF Walking
    <3> QED BY <1>1, <1>2, <3>1, <3>6 DEF ScanInv, SpecHonest
  <2> QED BY <1>3, <2>3, <2>10, <2>11, <2>12
<1> QED BY <1>3, <1>7, <1>8

LEMMA ScanInvariant == ClassifierSpec => []ScanInv
<1>1. ScanInv /\ [ClassifierNext]_classifierVars => ScanInv'
  <2> SUFFICES ASSUME ScanInv, [ClassifierNext]_classifierVars PROVE ScanInv'
    OBVIOUS
  <2>1. CASE AddSection
    <3>1. CodeInv'
      BY <2>1, CodeInvAdds DEF ScanInv
    <3>2. scan'.pc = "idle" /\ ScanShape'
      BY <2>1 DEF AddSection, ScanInv, ScanShape
    <3> QED BY <3>1, <3>2 DEF ScanInv, SpecHonest
  <2>2. CASE UNCHANGED classifierVars
    <3>1. sections' = sections /\ code' = code /\ scan' = scan
      BY <2>2 DEF classifierVars
    <3>2. CodeInv'
      BY <3>1, CodeInvStays DEF ScanInv
    <3>3. SpecSections' = SpecSections /\ ScanShape'
      BY <3>1 DEF SpecSections, ScanInv, ScanShape
    <3>4. scan.pc = "walk" => Walking'
      BY <3>1, <3>3 DEF ScanInv, Walking, Lost, WholeSpec, AtSection
    <3>5. SpecHonest'
      BY <3>1, <3>3 DEF ScanInv, SpecHonest
    <3> QED BY <3>1, <3>2, <3>3, <3>4, <3>5 DEF ScanInv
  <2> QED BY <2>1, <2>2, ScanStarts, ScanWalks DEF ClassifierNext
<1> QED BY <1>1, ScanInvInit, PTL DEF ClassifierSpec

\* contractSpecSection and classifyWasm: whatever sections a module has, wherever
\* its code is cut and whatever bytes follow, classification is no error; it names
\* what the first spec section declares if the whole of it is there, and nothing
\* if it is not and nothing follows.
THEOREM SpecsAreHonest == ClassifierSpec => []SpecHonest
<1>1. ScanInv => SpecHonest
  BY DEF ScanInv
<1> QED BY <1>1, ScanInvariant, PTL

=============================================================================
