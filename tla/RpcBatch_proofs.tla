--------------------------- MODULE RpcBatch_proofs ---------------------------
(***************************************************************************)
(* Scans in batches leave no hole, for any number of callers, any weights  *)
(* of ledgers and any limits.                                              *)
(***************************************************************************)
EXTENDS RpcBatch, TLAPS

\* What a caller holds and may still be sent, by the step it is at.
ScanInv(s) ==
    /\ s.pc # "idle" \/ s.got # {} => s.got = s.from..(s.seq - 1)
    /\ s.pc # "idle" => s.from <= s.seq /\ s.seq <= s.to + 1
    /\ s.pc = "idle" /\ s.got # {} => s.seq = s.to + 1
    /\ s.pc \in {"ask", "call", "over"} => s.seq <= s.to
    /\ s.pc \in {"call", "over", "grow"} => s.eff >= 1
    /\ s.pc \in {"call", "over"} => s.seq + s.eff - 1 <= s.to

IInv == TypeOK /\ \A c \in Callers : ScanInv(scan[c])

-----------------------------------------------------------------------------
LEMMA MinPair ==
    ASSUME NEW a \in Int, NEW b \in Int
    PROVE  Min({a, b}) = IF a <= b THEN a ELSE b
<1> DEFINE m == IF a <= b THEN a ELSE b
<1>1. m \in {a, b} /\ \A y \in {a, b} : m <= y
  OBVIOUS
<1>2. \A x \in {a, b} : (\A y \in {a, b} : x <= y) => x = m
  OBVIOUS
<1> HIDE DEF m
<1>3. Min({a, b}) = m
  BY <1>1, <1>2 DEF Min
<1> QED BY <1>3 DEF m

LEMMA MaxPair ==
    ASSUME NEW a \in Int, NEW b \in Int
    PROVE  Max({a, b}) = IF a >= b THEN a ELSE b
<1> DEFINE m == IF a >= b THEN a ELSE b
<1>1. m \in {a, b} /\ \A y \in {a, b} : m >= y
  OBVIOUS
<1>2. \A x \in {a, b} : (\A y \in {a, b} : x >= y) => x = m
  OBVIOUS
<1> HIDE DEF m
<1>3. Max({a, b}) = m
  BY <1>1, <1>2 DEF Max
<1> QED BY <1>3 DEF m

LEMMA MinTriple ==
    ASSUME NEW a \in Int, NEW b \in Int, NEW d \in Int
    PROVE  /\ Min({a, b, d}) \in {a, b, d}
           /\ Min({a, b, d}) <= a /\ Min({a, b, d}) <= b /\ Min({a, b, d}) <= d
<1>1. \E x \in {a, b, d} : \A y \in {a, b, d} : x <= y
  OBVIOUS
<1>2. /\ Min({a, b, d}) \in {a, b, d}
      /\ \A y \in {a, b, d} : Min({a, b, d}) <= y
  BY <1>1 DEF Min
<1> QED BY <1>2

\* A call asks for at least one ledger and for none beyond the range.
LEMMA LimitBounds ==
    ASSUME TypeOK, NEW c \in Callers, scan[c].seq <= scan[c].to
    PROVE  /\ limit(c) \in 1..maxBatchLimit
           /\ scan[c].seq + limit(c) - 1 <= scan[c].to
<1>1. scan[c].seq \in 1..(MaxLedger + 1) /\ scan[c].to \in 1..MaxLedger
  BY DEF TypeOK, Ledgers
<1> DEFINE a == scan[c].to - scan[c].seq + 1
<1>2. a \in Int /\ a >= 1
  BY <1>1, RpcBatchAssumption
<1>3. batchLimit \in Int /\ batchLimit >= 1 /\ maxBatchLimit \in Int /\ maxBatchLimit >= 1
  BY RpcBatchAssumption
<1>4. /\ limit(c) \in {a, batchLimit, maxBatchLimit}
      /\ limit(c) <= a /\ limit(c) <= maxBatchLimit
  BY <1>2, <1>3, MinTriple DEF limit
<1>5. limit(c) \in Int /\ limit(c) >= 1
  BY <1>2, <1>3, <1>4
<1> QED BY <1>1, <1>4, <1>5, RpcBatchAssumption

\* A step of one caller that keeps its own record right keeps them all right.
LEMMA OneScan ==
    ASSUME IInv, NEW c \in Callers, NEW s,
           s \in [pc: {"idle", "ask", "call", "over", "grow"}, from: Ledgers, to: Ledgers,
                  seq: 1..MaxLedger + 1, eff: 0..maxBatchLimit, got: SUBSET Ledgers],
           ScanInv(s), scan' = [scan EXCEPT ![c] = s],
           batchCeiling' \in 1..maxBatchLimit,
           batchWins' \in 0..(batchGrowEvery - 1), fails' \in 0..MaxFails
    PROVE  IInv'
<1>1. TypeOK'
  BY DEF IInv, TypeOK
<1>2. ASSUME NEW d \in Callers PROVE ScanInv(scan'[d])
  <2>1. scan'[d] = IF d = c THEN s ELSE scan[d]
    BY DEF IInv, TypeOK
  <2> QED BY <2>1 DEF IInv
<1>3. (\A d \in Callers : ScanInv(scan[d]))'
  BY <1>2 DEF ScanInv
<1> QED BY <1>1, <1>3 DEF IInv

LEMMA InitIInv == Init => IInv
<1> SUFFICES ASSUME Init PROVE IInv
  OBVIOUS
<1>1. 1 \in Ledgers /\ 1 \in 1..(MaxLedger + 1) /\ 0 \in 0..maxBatchLimit
  BY RpcBatchAssumption DEF Ledgers
<1>2. batchCeiling \in 1..maxBatchLimit /\ batchWins \in 0..(batchGrowEvery - 1) /\ fails \in 0..MaxFails
  BY RpcBatchAssumption DEF Init
<1>3. TypeOK
  BY <1>1, <1>2 DEF Init, TypeOK, Idle
<1>4. \A c \in Callers : ScanInv(scan[c])
  BY DEF Init, Idle, ScanInv
<1> QED BY <1>3, <1>4 DEF IInv

-----------------------------------------------------------------------------
LEMMA BeginIInv ==
    ASSUME IInv, NEW c \in Callers, Begin(c)
    PROVE  IInv'
<1>1. PICK from \in Ledgers : \E to \in from..MaxLedger :
         scan' = [scan EXCEPT ![c] = [pc |-> "ask", from |-> from, to |-> to, seq |-> from,
                                      eff |-> 0, got |-> {}]]
  BY DEF Begin
<1>2. PICK to \in from..MaxLedger :
         scan' = [scan EXCEPT ![c] = [pc |-> "ask", from |-> from, to |-> to, seq |-> from,
                                      eff |-> 0, got |-> {}]]
  BY <1>1
<1> DEFINE s == [pc |-> "ask", from |-> from, to |-> to, seq |-> from, eff |-> 0, got |-> {}]
<1>3. scan' = [scan EXCEPT ![c] = s]
  BY <1>2
<1>4. /\ from \in Int /\ to \in Ledgers /\ from <= to /\ from \in 1..(MaxLedger + 1)
      /\ 0 \in 0..maxBatchLimit /\ from..(from - 1) = {}
  BY RpcBatchAssumption DEF Ledgers
<1>5. ScanInv(s)
  BY <1>4, RpcBatchAssumption DEF ScanInv, Ledgers
<1>6. s \in [pc: {"idle", "ask", "call", "over", "grow"}, from: Ledgers, to: Ledgers,
             seq: 1..MaxLedger + 1, eff: 0..maxBatchLimit, got: SUBSET Ledgers]
  BY <1>4
<1>7. batchCeiling' \in 1..maxBatchLimit /\ batchWins' \in 0..(batchGrowEvery - 1) /\ fails' \in 0..MaxFails
  BY DEF Begin, IInv, TypeOK
<1> HIDE DEF s
<1> QED BY <1>3, <1>5, <1>6, <1>7, OneScan

\* The fields of the caller's record, with their ranges and what holds of it.
LEMMA Fields ==
    ASSUME IInv, NEW c \in Callers
    PROVE  /\ scan[c] \in [pc: {"idle", "ask", "call", "over", "grow"}, from: Ledgers, to: Ledgers,
                           seq: 1..MaxLedger + 1, eff: 0..maxBatchLimit, got: SUBSET Ledgers]
           /\ ScanInv(scan[c])
           /\ scan[c].from \in Int /\ scan[c].to \in Int /\ scan[c].seq \in Int /\ scan[c].eff \in Int
           /\ scan[c].from >= 1 /\ scan[c].to <= MaxLedger
           /\ batchCeiling \in 1..maxBatchLimit
           /\ batchWins \in 0..(batchGrowEvery - 1) /\ fails \in 0..MaxFails
BY RpcBatchAssumption DEF IInv, TypeOK, Ledgers

LEMMA TwoFields ==
    ASSUME NEW r \in [pc: {"idle", "ask", "call", "over", "grow"}, from: Ledgers, to: Ledgers,
                      seq: 1..MaxLedger + 1, eff: 0..maxBatchLimit, got: SUBSET Ledgers],
           NEW p \in {"call", "over"}, NEW k \in 0..maxBatchLimit
    PROVE  [r EXCEPT !.pc = p, !.eff = k] =
             [pc |-> p, from |-> r.from, to |-> r.to, seq |-> r.seq, eff |-> k, got |-> r.got]
<1> DEFINE r1 == [r EXCEPT !.pc = p]
<1>1. r1 = [pc |-> p, from |-> r.from, to |-> r.to, seq |-> r.seq, eff |-> r.eff, got |-> r.got]
  OBVIOUS
<1> HIDE DEF r1
<1>2. [r1 EXCEPT !.eff = k] =
         [pc |-> p, from |-> r.from, to |-> r.to, seq |-> r.seq, eff |-> k, got |-> r.got]
  BY <1>1
<1> QED BY <1>2, Zenon DEF r1

LEMMA AskIInv ==
    ASSUME IInv, NEW c \in Callers, Ask(c)
    PROVE  IInv'
<1>0. /\ scan[c] \in [pc: {"idle", "ask", "call", "over", "grow"}, from: Ledgers, to: Ledgers,
                       seq: 1..MaxLedger + 1, eff: 0..maxBatchLimit, got: SUBSET Ledgers]
      /\ ScanInv(scan[c])
      /\ scan[c].from \in Int /\ scan[c].to \in Int /\ scan[c].seq \in Int /\ scan[c].eff \in Int
      /\ scan[c].from >= 1 /\ scan[c].to <= MaxLedger
      /\ batchCeiling \in 1..maxBatchLimit
      /\ batchWins \in 0..(batchGrowEvery - 1) /\ fails \in 0..MaxFails
  BY Fields
<1> DEFINE e == Max({1, Min({limit(c), batchCeiling})})
           s == [pc |-> "call", from |-> scan[c].from, to |-> scan[c].to, seq |-> scan[c].seq,
                 eff |-> e, got |-> scan[c].got]
<1>1. scan[c].pc = "ask" /\ scan[c].seq <= scan[c].to
  BY <1>0 DEF Ask, ScanInv
<1>2. limit(c) \in 1..maxBatchLimit /\ scan[c].seq + limit(c) - 1 <= scan[c].to
  BY <1>1, LimitBounds DEF IInv
<1>3. limit(c) \in Int /\ batchCeiling \in Int /\ limit(c) >= 1 /\ batchCeiling >= 1
  BY <1>2, <1>0, RpcBatchAssumption
<1>4. e \in 1..maxBatchLimit /\ e <= limit(c)
  <2>1. Min({limit(c), batchCeiling}) \in 1..limit(c)
    BY <1>3, MinPair
  <2> DEFINE m == Min({limit(c), batchCeiling})
  <2>3. m \in Int /\ m >= 1
    BY <2>1, <1>3
  <2> HIDE DEF m
  <2>4. Max({1, m}) = m
    BY <2>3, MaxPair
  <2>2. e = Min({limit(c), batchCeiling})
    BY <2>4 DEF m
  <2> QED BY <2>1, <2>2, <1>2, RpcBatchAssumption
<1> HIDE DEF e
<1>5. s \in [pc: {"idle", "ask", "call", "over", "grow"}, from: Ledgers, to: Ledgers,
             seq: 1..MaxLedger + 1, eff: 0..maxBatchLimit, got: SUBSET Ledgers]
  BY <1>4, <1>0, RpcBatchAssumption
<1>6. ScanInv(s)
  BY <1>1, <1>2, <1>3, <1>4, <1>0, RpcBatchAssumption DEF ScanInv
<1>9. scan' = [scan EXCEPT ![c] = [scan[c] EXCEPT !.pc = "call", !.eff = e]]
  BY DEF Ask, e
<1>10. [scan[c] EXCEPT !.pc = "call", !.eff = e] = s
  <2>1. e \in 0..maxBatchLimit /\ "call" \in {"call", "over"}
    BY <1>4, RpcBatchAssumption
  <2> QED BY <1>0, <2>1, TwoFields, Zenon
<1>7. scan' = [scan EXCEPT ![c] = s]
  BY <1>9, <1>10
<1>8. batchCeiling' = batchCeiling /\ batchWins' = batchWins /\ fails' = fails
  BY DEF Ask
<1> HIDE DEF s
<1> QED BY <1>5, <1>6, <1>7, <1>8, <1>0, OneScan

LEMMA OverflowIInv ==
    ASSUME IInv, NEW c \in Callers, scan[c].pc = "call", NEW n, Overflow(c, n)
    PROVE  IInv'
<1>0. /\ scan[c] \in [pc: {"idle", "ask", "call", "over", "grow"}, from: Ledgers, to: Ledgers,
                       seq: 1..MaxLedger + 1, eff: 0..maxBatchLimit, got: SUBSET Ledgers]
      /\ ScanInv(scan[c])
      /\ scan[c].from \in Int /\ scan[c].to \in Int /\ scan[c].seq \in Int /\ scan[c].eff \in Int
      /\ scan[c].from >= 1 /\ scan[c].to <= MaxLedger
      /\ batchCeiling \in 1..maxBatchLimit
      /\ batchWins \in 0..(batchGrowEvery - 1) /\ fails \in 0..MaxFails
  BY Fields
<1> DEFINE e == Halved(scan[c].eff)
           s == [pc |-> "over", from |-> scan[c].from, to |-> scan[c].to, seq |-> scan[c].seq,
                 eff |-> e, got |-> scan[c].got]
<1>1. scan[c].eff > 1 /\ scan[c].eff \in 0..maxBatchLimit
  BY <1>0 DEF Overflow
<1>2. e \in 1..maxBatchLimit /\ e <= scan[c].eff
  BY <1>1, RpcBatchAssumption DEF Halved
<1>9. /\ scan' = [scan EXCEPT ![c] = [scan[c] EXCEPT !.pc = "over", !.eff = e]]
      /\ batchCeiling' = e
  BY DEF Overflow
<1> HIDE DEF e
<1>10. [scan[c] EXCEPT !.pc = "over", !.eff = e] = s
  <2>1. e \in 0..maxBatchLimit /\ "over" \in {"call", "over"}
    BY <1>2, RpcBatchAssumption
  <2> QED BY <1>0, <2>1, TwoFields, Zenon
<1>3. scan' = [scan EXCEPT ![c] = s] /\ batchCeiling' = e
  BY <1>9, <1>10
<1>4. s \in [pc: {"idle", "ask", "call", "over", "grow"}, from: Ledgers, to: Ledgers,
             seq: 1..MaxLedger + 1, eff: 0..maxBatchLimit, got: SUBSET Ledgers]
  BY <1>2, <1>0, RpcBatchAssumption
<1>5. ScanInv(s)
  BY <1>2, <1>0, RpcBatchAssumption DEF ScanInv
<1>6. batchWins' = batchWins /\ fails' = fails
  BY DEF Overflow
<1> HIDE DEF s
<1> QED BY <1>2, <1>3, <1>4, <1>5, <1>6, <1>0, OneScan

LEMMA ResetWinsIInv ==
    ASSUME IInv, NEW c \in Callers, ResetWins(c)
    PROVE  IInv'
<1>0. /\ scan[c] \in [pc: {"idle", "ask", "call", "over", "grow"}, from: Ledgers, to: Ledgers,
                       seq: 1..MaxLedger + 1, eff: 0..maxBatchLimit, got: SUBSET Ledgers]
      /\ ScanInv(scan[c])
      /\ scan[c].from \in Int /\ scan[c].to \in Int /\ scan[c].seq \in Int /\ scan[c].eff \in Int
      /\ scan[c].from >= 1 /\ scan[c].to <= MaxLedger
      /\ batchCeiling \in 1..maxBatchLimit
      /\ batchWins \in 0..(batchGrowEvery - 1) /\ fails \in 0..MaxFails
  BY Fields
<1> DEFINE s == [scan[c] EXCEPT !.pc = "call"]
<1>1. s \in [pc: {"idle", "ask", "call", "over", "grow"}, from: Ledgers, to: Ledgers,
             seq: 1..MaxLedger + 1, eff: 0..maxBatchLimit, got: SUBSET Ledgers]
  BY <1>0
<1>2. ScanInv(s)
  BY <1>0 DEF ScanInv, ResetWins
<1>3. scan' = [scan EXCEPT ![c] = s] /\ batchCeiling' = batchCeiling /\ batchWins' = 0 /\ fails' = fails
  BY DEF ResetWins
<1>4. 0 \in 0..(batchGrowEvery - 1)
  BY RpcBatchAssumption
<1> HIDE DEF s
<1> QED BY <1>1, <1>2, <1>3, <1>4, <1>0, OneScan

LEMMA Extended ==
    ASSUME NEW f \in Int, NEW q \in Int, NEW k \in Int, NEW to \in Int, NEW top \in Int,
           1 <= f, f <= q, k >= 1, q + k - 1 <= to, to <= top
    PROVE  /\ (f..(q - 1)) \cup (q..(q + k - 1)) = f..(q + k - 1)
           /\ f..(q + k - 1) \in SUBSET (1..top)
           /\ q + k \in 1..(top + 1) /\ q + k <= to + 1 /\ f <= q + k
OBVIOUS

\* A batch extends what the scan holds by exactly the ledgers it skips over.
LEMMA FitsIInv ==
    ASSUME IInv, NEW c \in Callers, scan[c].pc = "call", NEW n \in 1..scan[c].eff, Fits(c, n)
    PROVE  IInv'
<1>0. /\ scan[c] \in [pc: {"idle", "ask", "call", "over", "grow"}, from: Ledgers, to: Ledgers,
                       seq: 1..MaxLedger + 1, eff: 0..maxBatchLimit, got: SUBSET Ledgers]
      /\ ScanInv(scan[c])
      /\ scan[c].from \in Int /\ scan[c].to \in Int /\ scan[c].seq \in Int /\ scan[c].eff \in Int
      /\ scan[c].from >= 1 /\ scan[c].to <= MaxLedger
      /\ batchCeiling \in 1..maxBatchLimit
      /\ batchWins \in 0..(batchGrowEvery - 1) /\ fails \in 0..MaxFails
  BY Fields
<1> DEFINE seq == scan[c].seq + n
           wins == (batchWins + 1) % batchGrowEvery
           reduced == scan[c].eff < limit(c)
           pc == IF reduced /\ Due(wins) THEN "grow" ELSE Resume(seq, scan[c].to)
           got == scan[c].got \cup (scan[c].seq..(scan[c].seq + n - 1))
           s == [pc |-> pc, from |-> scan[c].from, to |-> scan[c].to, seq |-> seq,
                 eff |-> scan[c].eff, got |-> got]
<1>1. /\ n \in Int /\ n >= 1 /\ n <= scan[c].eff
      /\ scan[c].seq + scan[c].eff - 1 <= scan[c].to
      /\ scan[c].from <= scan[c].seq /\ scan[c].got = scan[c].from..(scan[c].seq - 1)
      /\ scan[c].eff >= 1
  BY <1>0 DEF ScanInv
<1>11. /\ scan[c].seq + n - 1 \in Int /\ scan[c].seq + n - 1 <= scan[c].to
       /\ scan[c].seq + n - 1 = seq - 1 /\ MaxLedger \in Int
  <2> HIDE DEF wins, reduced, pc, got, s
  <2> QED BY <1>0, <1>1, RpcBatchAssumption
<1>12. /\ (scan[c].from..(scan[c].seq - 1)) \cup (scan[c].seq..(scan[c].seq + n - 1))
             = scan[c].from..(scan[c].seq + n - 1)
       /\ scan[c].from..(scan[c].seq + n - 1) \in SUBSET (1..MaxLedger)
       /\ seq \in 1..(MaxLedger + 1) /\ seq <= scan[c].to + 1 /\ scan[c].from <= seq
  <2> HIDE DEF wins, reduced, pc, got, s
  <2> QED BY <1>0, <1>1, <1>11, Extended
<1>2. got = scan[c].from..(seq - 1)
  <2> HIDE DEF wins, reduced, pc, s, seq
  <2> QED BY <1>1, <1>11, <1>12
<1>3. seq \in 1..MaxLedger + 1 /\ seq <= scan[c].to + 1 /\ scan[c].from <= seq
  BY <1>12
<1>4. got \in SUBSET Ledgers
  <2> HIDE DEF wins, reduced, pc, s, seq
  <2> QED BY <1>1, <1>12 DEF Ledgers
<1>5. pc \in {"idle", "ask", "grow"} /\ (pc = "ask" => seq <= scan[c].to) /\ (pc = "idle" => ~(seq <= scan[c].to))
  BY DEF Resume
<1>6. wins \in 0..(batchGrowEvery - 1)
  BY <1>0, RpcBatchAssumption
<1>7. /\ scan' = [scan EXCEPT ![c] = s]
      /\ batchWins' = (IF reduced THEN wins ELSE batchWins)
      /\ batchCeiling' = batchCeiling /\ fails' = fails
  BY <1>0 DEF Fits, NextSeq, IInv, TypeOK
<1> HIDE DEF seq, wins, reduced, pc, got
<1>8. s \in [pc: {"idle", "ask", "call", "over", "grow"}, from: Ledgers, to: Ledgers,
             seq: 1..MaxLedger + 1, eff: 0..maxBatchLimit, got: SUBSET Ledgers]
  BY <1>3, <1>4, <1>5, <1>0
<1>9. ScanInv(s)
  BY <1>1, <1>2, <1>3, <1>5, <1>0 DEF ScanInv
<1>10. batchWins' \in 0..(batchGrowEvery - 1)
  BY <1>6, <1>7, <1>0
<1> HIDE DEF s
<1> QED BY <1>7, <1>8, <1>9, <1>10, <1>0, OneScan

LEMMA GrowIInv ==
    ASSUME IInv, NEW c \in Callers, Grow(c)
    PROVE  IInv'
<1>0. /\ scan[c] \in [pc: {"idle", "ask", "call", "over", "grow"}, from: Ledgers, to: Ledgers,
                       seq: 1..MaxLedger + 1, eff: 0..maxBatchLimit, got: SUBSET Ledgers]
      /\ ScanInv(scan[c])
      /\ scan[c].from \in Int /\ scan[c].to \in Int /\ scan[c].seq \in Int /\ scan[c].eff \in Int
      /\ scan[c].from >= 1 /\ scan[c].to <= MaxLedger
      /\ batchCeiling \in 1..maxBatchLimit
      /\ batchWins \in 0..(batchGrowEvery - 1) /\ fails \in 0..MaxFails
  BY Fields
<1> DEFINE pc == Resume(scan[c].seq, scan[c].to)
           s == [scan[c] EXCEPT !.pc = pc]
           q == scan[c].eff \div 4
<1>1. scan[c].pc = "grow" /\ scan[c].eff >= 1 /\ scan[c].seq <= scan[c].to + 1
  BY <1>0 DEF Grow, ScanInv
<1>2. pc \in {"idle", "ask"} /\ (pc = "ask" => scan[c].seq <= scan[c].to) /\ (pc = "idle" => ~(scan[c].seq <= scan[c].to))
  BY DEF Resume
<1>3. /\ scan' = [scan EXCEPT ![c] = s]
      /\ batchCeiling' = Min({maxBatchLimit, scan[c].eff + Max({q, 1})})
      /\ batchWins' = batchWins /\ fails' = fails
  BY DEF Grow
<1>4. q \in Int
  BY <1>0, RpcBatchAssumption
<1> HIDE DEF q, pc
<1>5. Max({q, 1}) \in Int /\ Max({q, 1}) >= 1
  BY <1>4, MaxPair
<1> DEFINE grown == scan[c].eff + Max({q, 1})
<1>9. grown \in Int /\ grown >= 1 /\ maxBatchLimit \in Int /\ maxBatchLimit >= 1
  BY <1>0, <1>1, <1>5, RpcBatchAssumption
<1> HIDE DEF grown
<1>10. Min({maxBatchLimit, grown}) \in 1..maxBatchLimit
  BY <1>9, MinPair
<1>6. batchCeiling' \in 1..maxBatchLimit
  BY <1>3, <1>10 DEF grown
<1>7. s \in [pc: {"idle", "ask", "call", "over", "grow"}, from: Ledgers, to: Ledgers,
             seq: 1..MaxLedger + 1, eff: 0..maxBatchLimit, got: SUBSET Ledgers]
  BY <1>2, <1>0
<1>8. ScanInv(s)
  BY <1>1, <1>2, <1>0 DEF ScanInv
<1> HIDE DEF s
<1> QED BY <1>3, <1>6, <1>7, <1>8, <1>0, OneScan

LEMMA FailsIInv ==
    ASSUME IInv, NEW c \in Callers, Fails(c)
    PROVE  IInv'
<1>0. /\ scan[c] \in [pc: {"idle", "ask", "call", "over", "grow"}, from: Ledgers, to: Ledgers,
                       seq: 1..MaxLedger + 1, eff: 0..maxBatchLimit, got: SUBSET Ledgers]
      /\ ScanInv(scan[c])
      /\ scan[c].from \in Int /\ scan[c].to \in Int /\ scan[c].seq \in Int /\ scan[c].eff \in Int
      /\ scan[c].from >= 1 /\ scan[c].to <= MaxLedger
      /\ batchCeiling \in 1..maxBatchLimit
      /\ batchWins \in 0..(batchGrowEvery - 1) /\ fails \in 0..MaxFails
  BY Fields
<1> DEFINE s == [scan[c] EXCEPT !.pc = "ask", !.seq = scan[c].from, !.eff = 0, !.got = {}]
<1>1. scan[c].pc = "call" /\ scan[c].from <= scan[c].to
  BY <1>0 DEF Fails, ScanInv
<1>2. scan[c].from \in 1..MaxLedger + 1 /\ 0 \in 0..maxBatchLimit
  BY <1>0, RpcBatchAssumption DEF Ledgers
<1>3. scan' = [scan EXCEPT ![c] = s] /\ batchCeiling' = batchCeiling /\ batchWins' = batchWins
  BY DEF Fails
<1>4. fails' \in 0..MaxFails
  BY <1>0, RpcBatchAssumption DEF Fails
<1>5. s \in [pc: {"idle", "ask", "call", "over", "grow"}, from: Ledgers, to: Ledgers,
             seq: 1..MaxLedger + 1, eff: 0..maxBatchLimit, got: SUBSET Ledgers]
  BY <1>2, <1>0
<1>6. ScanInv(s)
  BY <1>1, <1>0 DEF ScanInv
<1> HIDE DEF s
<1> QED BY <1>3, <1>4, <1>5, <1>6, <1>0, OneScan

LEMMA NextIInv ==
    ASSUME IInv, [Next]_vars
    PROVE  IInv'
<1>1. CASE UNCHANGED vars
  BY <1>1 DEF vars, IInv, TypeOK, ScanInv
<1>2. ASSUME NEW c \in Callers, Begin(c) \/ Step(c) \/ Fails(c) PROVE IInv'
  <2>1. CASE Begin(c)
    BY <2>1, BeginIInv
  <2>2. CASE Ask(c)
    BY <2>2, AskIInv
  <2>3. CASE Answer(c)
    BY <2>3, OverflowIInv, FitsIInv DEF Answer
  <2>4. CASE ResetWins(c)
    BY <2>4, ResetWinsIInv
  <2>5. CASE Grow(c)
    BY <2>5, GrowIInv
  <2>6. CASE Fails(c)
    BY <2>6, FailsIInv
  <2> QED BY <1>2, <2>1, <2>2, <2>3, <2>4, <2>5, <2>6 DEF Step
<1> QED BY <1>1, <1>2 DEF Next

-----------------------------------------------------------------------------
\* What GetLedgerBatch shares between its callers stays in range: the ceiling
\* is never zero and never beyond the RPC's cap, whoever halves or grows it.
THEOREM BatchTyped == Spec => []TypeOK
<1>1. IInv => TypeOK
  BY DEF IInv
<1> QED BY <1>1, InitIInv, NextIInv, PTL DEF Spec

\* A scan in batches reads every ledger of its range, for every number of
\* callers sharing the ceiling, every weight of the ledgers and every limit.
THEOREM ScansExact == Spec => []NoLedgerSkipped
<1>1. IInv => NoLedgerSkipped
  BY DEF IInv, ScanInv, NoLedgerSkipped
<1> QED BY <1>1, InitIInv, NextIInv, PTL DEF Spec

=============================================================================
