---------------------------- MODULE ReadApi_proofs ----------------------------
(***************************************************************************)
(* What a scan of the history endpoints may promise, for every chain,      *)
(* every page size and every order of commits, registrations and reads.    *)
(***************************************************************************)
EXTENDS ReadApi, FiniteSetTheorems, WellFoundedInduction, TLAPS

\* The steps of a request, and the fields of the scan.
Reads == {"contract", "page", "cursor", "coverage"}
Scan == [pc: Reads \cup {"idle", "answered"}, q: Query, kindDerived: BOOLEAN,
         page: SUBSET Chain, hasMore: BOOLEAN, cursorSeq: 0..MaxLedger,
         got: SUBSET Chain, status: Statuses, indexed: SUBSET Ledgers, raced: SUBSET Overlap]

Types ==
    /\ cursor \in 0..MaxLedger /\ reg \in {"absent", "upserted", "anchored", "live"}
    /\ nextTo \in 0..MaxLedger + Margin /\ have \in SUBSET Ledgers
    /\ scan \in Scan

\* The writers: nothing is derived before there is a walk, what is derived has
\* no hole above the walk's frontier, and none up to the cursor.
Derived ==
    /\ reg \in {"absent", "upserted"} => have = {}
    /\ reg \in {"anchored", "live"} =>
          /\ \A l \in Ledgers : nextTo < l /\ l <= cursor => l \in have
          /\ \A l \in Ledgers, h \in have : nextTo < l /\ l <= h => l \in have

\* The scan's position: a derived row, and the last one delivered.
Marked ==
    /\ scan.q.after = Start \/ (scan.q.after \in Chain /\ scan.q.after[1] \in have)
    /\ \A row \in scan.got : ~After(row, scan.q.after)
    /\ scan.pc \in {"cursor", "coverage"} =>
          \A row \in scan.page : row[1] \in have /\ After(row, scan.q.after)

\* What the request has read of the registration is still so, unless the
\* registration moved meanwhile.
Registered ==
    "kind_in_between" \notin scan.raced =>
       /\ scan.pc \in Reads => Settled
       /\ scan.pc \in Reads \ {"contract"} => (scan.kindDerived => reg # "absent")

\* What it has read of the rows and the cursor is still so, unless a commit
\* came in between; a cursor that moved only moved up.
Read ==
    /\ scan.pc = "coverage" => scan.cursorSeq <= cursor
    /\ scan.raced = {} /\ scan.pc \in {"cursor", "coverage"} =>
          /\ scan.page = FirstRows(Matching(scan.q), scan.q.limit)
          /\ ~scan.hasMore => Cardinality(Matching(scan.q)) <= scan.q.limit

\* The rows a scan asks for and that are derived for good: above the frontier.
Due(row) ==
    /\ row[1] \in have /\ nextTo < row[1]
    /\ scan.q.from <= row[1] /\ (scan.q.to > 0 => row[1] <= scan.q.to)

\* The scan has delivered every one of them up to its position.
Delivered ==
    scan.raced = {} /\ scan.pc # "idle" =>
       \A row \in Chain : Due(row) /\ ~After(row, scan.q.after) => row \in scan.got

IndInv == Types /\ Derived /\ Marked /\ Registered /\ Read /\ Delivered
              /\ ScanHonest /\ AnswerVouchesDerived

-----------------------------------------------------------------------------
(* Rows in chain order.                                                    *)

Pos == (0..MaxLedger) \X Nat

LEMMA RowsArePositions ==
    Chain \subseteq Pos /\ Start \in Pos /\ \A row \in Chain : row[1] \in Ledgers /\ After(row, Start)
  BY ReadApiAssumption DEF Pos, Start, Ledgers, After

\* After is a strict total order.
LEMMA ChainOrder ==
    ASSUME NEW a \in Pos, NEW b \in Pos
    PROVE  /\ ~After(a, a) /\ ~(After(a, b) /\ After(b, a))
           /\ a = b \/ After(a, b) \/ After(b, a)
           /\ After(a, b) => a[1] >= b[1]
<1>1. a = <<a[1], a[2]>> /\ b = <<b[1], b[2]>>
  BY DEF Pos
<1>2. a[1] \in Int /\ a[2] \in Int /\ b[1] \in Int /\ b[2] \in Int
  BY ReadApiAssumption DEF Pos
<1> QED BY <1>1, <1>2 DEF After

LEMMA ChainTransitive ==
    ASSUME NEW a \in Pos, NEW b \in Pos, NEW c \in Pos
    PROVE  /\ After(a, b) /\ After(b, c) => After(a, c)
           /\ After(a, b) /\ ~After(c, b) => After(a, c)
           /\ ~After(a, b) /\ After(c, b) => After(c, a)
           /\ ~After(a, b) /\ ~After(b, c) => ~After(a, c)
<1>1. /\ a[1] \in Int /\ a[2] \in Int /\ b[1] \in Int /\ b[2] \in Int
      /\ c[1] \in Int /\ c[2] \in Int
  BY ReadApiAssumption DEF Pos
<1> QED BY <1>1 DEF After

\* A non-empty set of naturals has a least element.
LEMMA LeastNatural ==
    ASSUME NEW T \in SUBSET Nat, T # {}
    PROVE  \E x \in T : \A y \in T : x <= y
<1> DEFINE R == OpToRel(<, Nat)
<1>1. PICK x \in T : \A y \in T : ~ (<<y, x>> \in R)
  <2>1. IsWellFoundedOn(R, Nat)
    BY NatLessThanWellFounded
  <2> HIDE DEF R
  <2> QED BY <2>1, WFMin, Zenon
<1>2. \A y \in T : y < x => <<y, x>> \in R
  BY DEF OpToRel
<1>3. \A y \in T : ~ (y < x)
  <2> HIDE DEF R
  <2> QED BY <1>1, <1>2, Zenon
<1> QED BY <1>3

\* How many rows of S come before a row, and how many after it.
Earlier(S, r) == {s \in S : After(r, s)}
Newer(S, r) == {s \in S : After(s, r)}

\* Counting rows: a set of fewer rows is smaller.
LEMMA Counting ==
    ASSUME NEW S \in SUBSET Chain
    PROVE  /\ IsFiniteSet(S) /\ Cardinality(S) \in Nat /\ (S = {} => Cardinality(S) = 0)
           /\ \A T \in SUBSET S : /\ Cardinality(T) \in Nat /\ Cardinality(T) <= Cardinality(S)
                                  /\ T # S => Cardinality(T) < Cardinality(S)
<1>1. IsFiniteSet(S) /\ Cardinality(S) \in Nat
  BY ReadApiAssumption, FS_Subset, FS_CardinalityType
<1>2. S = {} => Cardinality(S) = 0
  BY FS_EmptySet
<1>3. ASSUME NEW T \in SUBSET S
      PROVE  /\ Cardinality(T) \in Nat /\ Cardinality(T) <= Cardinality(S)
             /\ T # S => Cardinality(T) < Cardinality(S)
  <2>1. IsFiniteSet(T) /\ Cardinality(T) <= Cardinality(S) /\ (Cardinality(S) = Cardinality(T) => S = T)
    BY <1>1, FS_Subset
  <2>2. Cardinality(T) \in Nat
    BY <2>1, FS_CardinalityType
  <2> QED BY <1>1, <2>1, <2>2
<1> QED BY <1>1, <1>2, <1>3

\* Of some rows one is the first, and one is the last.
LEMMA FirstExists ==
    ASSUME NEW S \in SUBSET Chain, S # {}
    PROVE  \E r \in S : Earlier(S, r) = {}
<1> DEFINE T == {Cardinality(Earlier(S, r)) : r \in S}
<1>1. \A r \in S : Earlier(S, r) \in SUBSET Chain
  BY DEF Earlier
<1>2. T \in SUBSET Nat /\ T # {}
  BY <1>1, Counting
<1>3. PICK r \in S : \A s \in S : Cardinality(Earlier(S, r)) <= Cardinality(Earlier(S, s))
  <2>1. PICK x \in T : \A y \in T : x <= y
    <3> HIDE DEF T
    <3> QED BY <1>2, LeastNatural
  <2> QED BY <2>1
<1>4. ASSUME NEW s \in Earlier(S, r)
      PROVE  FALSE
  <2>1. s \in S /\ After(r, s) /\ s \in Pos /\ r \in Pos /\ S \subseteq Pos
    BY RowsArePositions DEF Earlier
  <2>2. Earlier(S, s) \in SUBSET Earlier(S, r)
    BY <2>1, ChainTransitive DEF Earlier
  <2>3. s \notin Earlier(S, s)
    BY <2>1, ChainOrder DEF Earlier
  <2>4. Cardinality(Earlier(S, s)) < Cardinality(Earlier(S, r))
    BY <1>1, <2>2, <2>3, Counting
  <2>5. Cardinality(Earlier(S, s)) \in Nat /\ Cardinality(Earlier(S, r)) \in Nat
    BY <1>1, <2>1, Counting
  <2> QED BY <1>3, <2>1, <2>4, <2>5
<1> QED BY <1>4

LEMMA LastExists ==
    ASSUME NEW S \in SUBSET Chain, S # {}
    PROVE  \E r \in S : Newer(S, r) = {}
<1> DEFINE T == {Cardinality(Newer(S, r)) : r \in S}
<1>1. \A r \in S : Newer(S, r) \in SUBSET Chain
  BY DEF Newer
<1>2. T \in SUBSET Nat /\ T # {}
  BY <1>1, Counting
<1>3. PICK r \in S : \A s \in S : Cardinality(Newer(S, r)) <= Cardinality(Newer(S, s))
  <2>1. PICK x \in T : \A y \in T : x <= y
    <3> HIDE DEF T
    <3> QED BY <1>2, LeastNatural
  <2> QED BY <2>1
<1>4. ASSUME NEW s \in Newer(S, r)
      PROVE  FALSE
  <2>1. s \in S /\ After(s, r) /\ s \in Pos /\ r \in Pos /\ S \subseteq Pos
    BY RowsArePositions DEF Newer
  <2>2. Newer(S, s) \in SUBSET Newer(S, r)
    BY <2>1, ChainTransitive DEF Newer
  <2>3. s \notin Newer(S, s)
    BY <2>1, ChainOrder DEF Newer
  <2>4. Cardinality(Newer(S, s)) < Cardinality(Newer(S, r))
    BY <1>1, <2>2, <2>3, Counting
  <2>5. Cardinality(Newer(S, s)) \in Nat /\ Cardinality(Newer(S, r)) \in Nat
    BY <1>1, <2>1, Counting
  <2> QED BY <1>3, <2>1, <2>4, <2>5
<1> QED BY <1>4

\* A page: the first rows, with no hole, all of them when they fit.
LEMMA PageRows ==
    ASSUME NEW rows \in SUBSET Chain, NEW limit \in Nat \ {0}
    PROVE  /\ FirstRows(rows, limit) \subseteq rows
           /\ rows # {} => FirstRows(rows, limit) # {}
           /\ \A r \in FirstRows(rows, limit), s \in rows :
                 After(r, s) => s \in FirstRows(rows, limit)
           /\ Cardinality(rows) <= limit => FirstRows(rows, limit) = rows
<1>1. FirstRows(rows, limit) = {r \in rows : Cardinality(Earlier(rows, r)) < limit}
  BY DEF FirstRows, Earlier
<1>2. rows \subseteq Pos
  BY RowsArePositions
<1>3. \A r \in rows : Earlier(rows, r) \in SUBSET rows /\ Earlier(rows, r) \in SUBSET Chain
  BY DEF Earlier
<1>4. \A r \in rows : Cardinality(Earlier(rows, r)) \in Nat
  BY <1>3, Counting
<1>5. ASSUME rows # {}
      PROVE  FirstRows(rows, limit) # {}
  <2>1. PICK r \in rows : Earlier(rows, r) = {}
    BY <1>5, FirstExists
  <2>2. Cardinality(Earlier(rows, r)) = 0
    BY <2>1, FS_EmptySet
  <2> QED BY <1>1, <2>2
<1>6. ASSUME NEW r \in FirstRows(rows, limit), NEW s \in rows, After(r, s)
      PROVE  s \in FirstRows(rows, limit)
  <2>1. Earlier(rows, s) \in SUBSET Earlier(rows, r)
    BY <1>1, <1>2, <1>6, ChainTransitive DEF Earlier
  <2>2. Cardinality(Earlier(rows, s)) <= Cardinality(Earlier(rows, r))
    BY <1>1, <1>3, <2>1, Counting
  <2> QED BY <1>1, <1>4, <2>2
<1>7. ASSUME Cardinality(rows) <= limit, NEW r \in rows
      PROVE  r \in FirstRows(rows, limit)
  <2>1. r \notin Earlier(rows, r)
    BY <1>2, ChainOrder DEF Earlier
  <2>2. Cardinality(Earlier(rows, r)) < Cardinality(rows) /\ Cardinality(rows) \in Nat
    BY <1>3, <2>1, Counting
  <2> QED BY <1>1, <1>4, <1>7, <2>2
<1> QED BY <1>1, <1>5, <1>6, <1>7

\* The next cursor's position: the page's last row, or the old one.
LEMMA NextMark ==
    ASSUME NEW rows \in SUBSET Chain, NEW mark \in Pos, \A r \in rows : After(r, mark)
    PROVE  /\ rows = {} => LastOf(rows, mark) = mark
           /\ rows # {} => LastOf(rows, mark) \in rows
           /\ LastOf(rows, mark) \in Pos
           /\ \A s \in rows : ~After(s, LastOf(rows, mark))
           /\ ~After(mark, LastOf(rows, mark))
<1> DEFINE m == LastOf(rows, mark)
<1>1. rows \subseteq Pos
  BY RowsArePositions
<1>2. \E r \in rows \cup {mark} : \A s \in rows : ~After(s, r)
  <2>1. CASE rows = {}
    BY <2>1
  <2>2. CASE rows # {}
    BY <2>2, LastExists DEF Newer
  <2> QED BY <2>1, <2>2
<1>3. m \in rows \cup {mark} /\ \A s \in rows : ~After(s, m)
  BY <1>2 DEF LastOf
<1>4. rows # {} => m \in rows
  BY <1>3
<1>5. ~After(mark, m)
  BY <1>1, <1>3, ChainOrder
<1> HIDE DEF m
<1>6. /\ rows = {} => m = mark
      /\ m \in Pos
  BY <1>1, <1>3
<1> QED BY <1>3, <1>4, <1>5, <1>6 DEF m

LEMMA MaxOfTwo ==
    ASSUME NEW a \in Int, NEW b \in Int
    PROVE  Max({a, b}) \in Int /\ Max({a, b}) >= a /\ Max({a, b}) >= b
<1> DEFINE S == {a, b}
<1>1. \E x \in S : \A y \in S : x >= y
  OBVIOUS
<1>2. Max(S) \in S /\ \A y \in S : Max(S) >= y
  <2> HIDE DEF S
  <2> QED BY <1>1 DEF Max
<1> QED BY <1>2

-----------------------------------------------------------------------------
(* Types.                                                                  *)

LEMMA Constants ==
    /\ MaxLedger \in Int /\ Margin \in Int /\ MaxLedger >= 1 /\ Margin >= 0
    /\ Ledgers \subseteq Int
    /\ \A q \in Query : /\ q.from \in Ledgers /\ q.to \in {0} \cup Ledgers
                        /\ q.limit \in Nat \ {0} /\ q.after \in Pos
<1>1. /\ MaxLedger \in Int /\ Margin \in Int /\ MaxLedger >= 1 /\ Margin >= 0
      /\ Ledgers \subseteq Int
  BY ReadApiAssumption DEF Ledgers
<1>2. \A q \in Query : /\ q.from \in Ledgers /\ q.to \in {0} \cup Ledgers
                       /\ q.limit \in Nat \ {0} /\ q.after \in Pos
  BY ReadApiAssumption DEF Query, Pos
<1> QED BY <1>1, <1>2

\* A scan that has not begun.
LEMMA IdleTyped == Idle \in Scan
<1>1. PICK x \in Limits : \A y \in Limits : x <= y
  BY ReadApiAssumption, LeastNatural
<1>2. Min(Limits) \in Limits
  BY <1>1 DEF Min
<1>3. Start \in (0..MaxLedger) \X Nat /\ 1 \in Ledgers
  BY ReadApiAssumption DEF Start, Ledgers
<1>4. [from |-> 1, to |-> 0, limit |-> Min(Limits), after |-> Start] \in Query
  BY <1>2, <1>3 DEF Query
<1>5. 0 \in 0..MaxLedger /\ "" \in Statuses
  BY ReadApiAssumption DEF Statuses
<1> QED BY <1>4, <1>5 DEF Idle, Scan

LEMMA TypesAreOK == Types => TypeOK
  BY DEF Types, TypeOK, Scan, Reads

\* What a writer's note leaves of the scan.
LEMMA NotingKeeps ==
    ASSUME Types, NEW race \in Overlap, NEW happened, Noting(race, happened)
    PROVE  /\ scan' \in Scan
           /\ scan'.pc = scan.pc /\ scan'.q = scan.q /\ scan'.kindDerived = scan.kindDerived
           /\ scan'.page = scan.page /\ scan'.hasMore = scan.hasMore
           /\ scan'.cursorSeq = scan.cursorSeq /\ scan'.got = scan.got
           /\ scan'.status = scan.status /\ scan'.indexed = scan.indexed
           /\ scan.raced \subseteq scan'.raced /\ (happened => race \in scan'.raced)
<1>1. CASE happened
  BY <1>1 DEF Noting, Types, Scan
<1>2. CASE ~happened
  BY <1>2 DEF Noting, Types
<1> QED BY <1>1, <1>2

-----------------------------------------------------------------------------
(* The writers.                                                            *)

\* A writer leaves the scan alone, except for what is noted of it.
Untouched ==
    /\ scan'.pc = scan.pc /\ scan'.q = scan.q /\ scan'.kindDerived = scan.kindDerived
    /\ scan'.page = scan.page /\ scan'.hasMore = scan.hasMore
    /\ scan'.cursorSeq = scan.cursorSeq /\ scan'.got = scan.got
    /\ scan'.status = scan.status /\ scan'.indexed = scan.indexed
    /\ scan.raced \subseteq scan'.raced

\* Rows are only ever added, so what was promised of them stays true.
LEMMA WritersKeep ==
    ASSUME IndInv, Untouched, have \subseteq have', cursor <= cursor', cursor \in Int, cursor' \in Int
    PROVE  /\ Marked' /\ ScanHonest' /\ AnswerVouchesDerived'
           /\ scan'.pc = "coverage" => scan'.cursorSeq <= cursor'
<1>1. Marked'
  BY DEF IndInv, Marked, Untouched, After
<1>2. ScanHonest'
  <2>1. scan'.raced = {} => HoldsAll
    BY DEF IndInv, ScanHonest, Untouched
  <2>2. HoldsAll => HoldsAll'
    BY DEF HoldsAll, Untouched
  <2> QED BY <2>1, <2>2 DEF ScanHonest
<1>3. AnswerVouchesDerived'
  BY DEF IndInv, AnswerVouchesDerived, Untouched
<1>4. scan'.pc = "coverage" => scan'.cursorSeq <= cursor'
  <2>1. scan.cursorSeq \in Int
    BY Constants DEF IndInv, Types, Scan
  <2> QED BY <2>1 DEF IndInv, Read, Untouched
<1> QED BY <1>1, <1>2, <1>3, <1>4

LEMMA LiveCommitInv == IndInv /\ LiveCommit => IndInv'
<1> SUFFICES ASSUME IndInv, LiveCommit PROVE IndInv'
  OBVIOUS
<1>1. /\ Types /\ cursor \in Int /\ nextTo \in Int /\ MaxLedger \in Int
      /\ cursor >= 0 /\ cursor < MaxLedger
  BY Constants DEF IndInv, Types, LiveCommit
<1>2. /\ cursor' = cursor + 1 /\ UNCHANGED <<reg, nextTo>>
      /\ (reg = "anchored" => cursor + 1 <= nextTo)
      /\ have' = IF reg = "live" THEN have \cup {cursor + 1} ELSE have
      /\ Noting("write_in_request", ~Between)
  BY DEF LiveCommit
<1>3. "write_in_request" \in Overlap
  BY DEF Overlap
<1>4. Untouched /\ scan' \in Scan /\ (~Between => "write_in_request" \in scan'.raced)
  BY <1>1, <1>2, <1>3, NotingKeeps DEF Untouched
<1>5. cursor + 1 \in Ledgers /\ have \subseteq have'
  BY <1>1, <1>2 DEF Ledgers
<1>6. Types'
  BY <1>1, <1>2, <1>4, <1>5 DEF Types, Ledgers
<1>7. Derived'
  <2>1. CASE reg = "live"
    <3>1. \A l \in Ledgers : l \in Int
      BY Constants
    <3>2. \A l \in Ledgers : nextTo < l /\ l <= cursor + 1 => l \in have'
      BY <1>1, <1>2, <2>1, <3>1 DEF IndInv, Derived
    <3>3. ASSUME NEW l \in Ledgers, NEW h \in have', nextTo < l, l <= h
          PROVE  l \in have'
      <4>1. CASE h = cursor + 1
        BY <3>2, <3>3, <4>1
      <4>2. CASE h \in have
        BY <1>5, <2>1, <3>3, <4>2 DEF IndInv, Derived
      <4> QED BY <1>2, <3>3, <4>1, <4>2
    <3> QED BY <1>2, <2>1, <3>2, <3>3 DEF Derived
  <2>2. CASE reg # "live"
    <3>1. \A l \in Ledgers : nextTo < l /\ l <= cursor + 1 /\ reg = "anchored" => l \in have
      BY <1>1, <1>2, Constants DEF IndInv, Derived
    <3> QED BY <1>1, <1>2, <2>2, <3>1 DEF IndInv, Derived
  <2> QED BY <2>1, <2>2
<1>8. /\ Marked' /\ ScanHonest' /\ AnswerVouchesDerived'
      /\ scan'.pc = "coverage" => scan'.cursorSeq <= cursor'
  <2>1. cursor <= cursor' /\ cursor' \in Int
    BY <1>1, <1>2
  <2> QED BY <1>1, <1>4, <1>5, <2>1, WritersKeep
<1>9. Registered'
  BY <1>2, <1>4 DEF IndInv, Registered, Untouched, Settled
<1>10. scan'.raced = {} => Between
  BY <1>4
<1>11. Read'
  BY <1>4, <1>8, <1>10 DEF Read, Untouched, Between
<1>12. Delivered'
  <2> SUFFICES ASSUME scan'.raced = {}, scan'.pc # "idle", NEW row \in Chain,
                      Due(row)', ~After(row, scan'.q.after)
               PROVE  row \in scan'.got
    BY DEF Delivered, After
  <2>1. scan.raced = {} /\ scan.pc # "idle" /\ scan'.q = scan.q /\ scan'.got = scan.got
    BY <1>4 DEF Untouched
  <2>2. row[1] \in Ledgers /\ row \in Pos /\ After(row, Start)
    BY RowsArePositions
  <2>3. row[1] \in have
    <3>1. CASE row[1] \in have
      BY <3>1
    <3>2. CASE row[1] \notin have
      <4>1. reg = "live" /\ nextTo < row[1]
        BY <1>2, <3>2 DEF Due
      <4>2. scan.q.after \in Chain /\ scan.q.after[1] \in have
        BY <2>1, <2>2 DEF IndInv, Marked
      <4>3. row[1] <= scan.q.after[1]
        <5>1. scan.q.after \in Pos /\ scan.q.after[1] \in Int /\ row[1] \in Int
          BY <2>2, <4>2, RowsArePositions, Constants
        <5> QED BY <2>1, <5>1 DEF After
      <4> QED BY <2>2, <4>1, <4>2, <4>3 DEF IndInv, Derived
    <3> QED BY <3>1, <3>2
  <2>4. Due(row)
    BY <1>2, <2>1, <2>3 DEF Due
  <2> QED BY <2>1, <2>4 DEF IndInv, Delivered
<1> QED BY <1>6, <1>7, <1>8, <1>9, <1>11, <1>12 DEF IndInv

LEMMA WalkCommitInv == IndInv /\ WalkCommit => IndInv'
<1> SUFFICES ASSUME IndInv, WalkCommit PROVE IndInv'
  OBVIOUS
<1> DEFINE race == IF Between THEN "walk_in_scan" ELSE "write_in_request"
<1>1. /\ Types /\ cursor \in Int /\ nextTo \in Ledgers /\ nextTo \in Int /\ Ledgers \subseteq Int
      /\ reg \in {"anchored", "live"} /\ MaxLedger \in Int /\ Margin \in Int /\ Margin >= 0
  BY Constants DEF IndInv, Types, WalkCommit
<1>2. /\ nextTo' = nextTo - 1 /\ have' = have \cup {nextTo} /\ UNCHANGED <<cursor, reg>>
      /\ Noting(race, scan.pc # "idle")
  BY DEF WalkCommit
<1>3. race \in Overlap
  BY DEF Overlap
<1> HIDE DEF race
<1>4. Untouched /\ scan' \in Scan /\ (scan.pc # "idle" => scan'.raced # {})
  BY <1>1, <1>2, <1>3, NotingKeeps DEF Untouched
<1>5. Types'
  BY <1>1, <1>2, <1>4 DEF Types, Ledgers
<1>6. Derived'
  <2>1. \A l \in Ledgers : nextTo - 1 < l /\ l <= cursor => l \in have'
    BY <1>1, <1>2 DEF IndInv, Derived
  <2>2. ASSUME NEW l \in Ledgers, NEW h \in have', nextTo - 1 < l, l <= h
        PROVE  l \in have'
    <3>1. CASE l = nextTo
      BY <1>2, <3>1
    <3>2. CASE l # nextTo
      <4>1. nextTo < l
        BY <1>1, <2>2, <3>2
      <4>2. h # nextTo
        BY <1>1, <2>2, <4>1
      <4> QED BY <1>1, <1>2, <2>2, <4>1, <4>2 DEF IndInv, Derived
    <3> QED BY <3>1, <3>2
  <2> QED BY <1>1, <1>2, <2>1, <2>2 DEF Derived
<1>7. /\ Marked' /\ ScanHonest' /\ AnswerVouchesDerived'
      /\ scan'.pc = "coverage" => scan'.cursorSeq <= cursor'
  <2>1. cursor <= cursor' /\ cursor' \in Int /\ have \subseteq have'
    BY <1>1, <1>2
  <2> QED BY <1>1, <1>4, <2>1, WritersKeep
<1>8. Registered'
  BY <1>2, <1>4 DEF IndInv, Registered, Untouched, Settled
<1>9. Read' /\ Delivered'
  BY <1>4, <1>7 DEF Read, Delivered, Untouched
<1> QED BY <1>5, <1>6, <1>7, <1>8, <1>9 DEF IndInv

LEMMA RegisterKindInv == IndInv /\ RegisterKind => IndInv'
<1> SUFFICES ASSUME IndInv, RegisterKind PROVE IndInv'
  OBVIOUS
<1>1. /\ Types /\ cursor \in Int /\ cursor >= 0 /\ cursor <= MaxLedger
      /\ MaxLedger \in Int /\ Margin \in Int /\ Margin >= 0
  BY Constants DEF IndInv, Types
<1>2. /\ \/ reg = "absent" /\ reg' = "upserted" /\ nextTo' = nextTo
         \/ reg = "upserted" /\ reg' = "anchored" /\ nextTo' = cursor + Margin
         \/ reg = "anchored" /\ reg' = "live" /\ nextTo' = nextTo
      /\ UNCHANGED <<cursor, have>> /\ Noting("kind_in_between", ~Between)
  BY DEF RegisterKind
<1>3. "kind_in_between" \in Overlap
  BY DEF Overlap
<1>4. Untouched /\ scan' \in Scan /\ (~Between => "kind_in_between" \in scan'.raced)
  BY <1>1, <1>2, <1>3, NotingKeeps DEF Untouched
<1>5. Types'
  BY <1>1, <1>2, <1>4 DEF Types
<1>6. Derived'
  <2>1. CASE reg = "absent" \/ reg = "anchored"
    BY <1>2, <2>1 DEF IndInv, Derived
  <2>2. CASE reg = "upserted"
    <3>1. \A l \in Ledgers : ~(cursor + Margin < l /\ l <= cursor)
      BY <1>1, Constants
    <3>2. have' = {}
      BY <1>2, <2>2 DEF IndInv, Derived
    <3> QED BY <1>2, <2>2, <3>1, <3>2 DEF Derived
  <2> QED BY <1>2, <2>1, <2>2
<1>7. /\ Marked' /\ ScanHonest' /\ AnswerVouchesDerived'
      /\ scan'.pc = "coverage" => scan'.cursorSeq <= cursor'
  <2>1. cursor <= cursor' /\ cursor' \in Int /\ have \subseteq have'
    BY <1>1, <1>2
  <2> QED BY <1>1, <1>4, <2>1, WritersKeep
<1>8. Registered' /\ Read'
  BY <1>4, <1>7 DEF Registered, Read, Untouched, Between, Reads
<1>9. Delivered'
  <2> SUFFICES ASSUME scan'.raced = {}, scan'.pc # "idle", NEW row \in Chain,
                      Due(row)', ~After(row, scan'.q.after)
               PROVE  row \in scan'.got
    BY DEF Delivered, After
  <2>1. scan.raced = {} /\ scan.pc # "idle" /\ scan'.q = scan.q /\ scan'.got = scan.got
    BY <1>4 DEF Untouched
  <2>2. reg # "upserted"
    BY <1>2 DEF Due, IndInv, Derived
  <2>3. Due(row)
    BY <1>2, <2>1, <2>2 DEF Due
  <2> QED BY <2>1, <2>3 DEF IndInv, Delivered
<1> QED BY <1>5, <1>6, <1>7, <1>8, <1>9 DEF IndInv

-----------------------------------------------------------------------------
(* The reader.                                                             *)

LEMMA AskInv == IndInv /\ Ask => IndInv'
<1> SUFFICES ASSUME IndInv, Ask PROVE IndInv'
  OBVIOUS
<1>1. UNCHANGED <<cursor, reg, nextTo, have>>
  BY DEF Ask, writeVars
<1>2. PICK from \in Ledgers, to \in {0} \cup Ledgers, limit \in Limits :
         scan' = [Idle EXCEPT !.pc = "contract",
                    !.q = [from |-> from, to |-> to, limit |-> limit, after |-> Start],
                    !.raced = IF Settled THEN {} ELSE {"kind_in_between"}]
  BY DEF Ask
<1>3. [from |-> from, to |-> to, limit |-> limit, after |-> Start] \in Query
  BY RowsArePositions DEF Query, Pos
<1>4. /\ scan' \in Scan
      /\ scan'.pc = "contract" /\ scan'.q.after = Start /\ scan'.got = {} /\ scan'.page = {}
      /\ scan'.status = "" /\ scan'.indexed = {}
      /\ (Settled \/ "kind_in_between" \in scan'.raced)
  <2>1. {"kind_in_between"} \in SUBSET Overlap /\ "contract" \in Reads
    BY DEF Overlap, Reads
  <2>2. Idle.got = {} /\ Idle.page = {} /\ Idle.status = "" /\ Idle.indexed = {}
    BY DEF Idle
  <2> QED BY <1>2, <1>3, <2>1, <2>2, IdleTyped DEF Scan
<1>5. Types' /\ Derived'
  BY <1>1, <1>4 DEF IndInv, Types, Derived
<1>6. Marked'
  BY <1>4 DEF Marked
<1>7. Registered' /\ Read'
  BY <1>1, <1>4 DEF Registered, Read, Settled
<1>8. Delivered'
  BY <1>4, RowsArePositions DEF Delivered, After
<1>9. ScanHonest' /\ AnswerVouchesDerived'
  BY <1>4 DEF ScanHonest, HoldsAll, AnswerVouchesDerived
<1> QED BY <1>5, <1>6, <1>7, <1>8, <1>9 DEF IndInv

\* A step of the reader that leaves the position and what was delivered.
LEMMA ReaderKeeps ==
    ASSUME IndInv, UNCHANGED writeVars, scan' \in Scan, scan'.q = scan.q, scan'.got = scan.got,
           scan.raced \subseteq scan'.raced, scan.pc # "idle",
           scan'.status = scan.status \/ scan'.status = "",
           scan'.indexed = scan.indexed \/ scan'.indexed = {}
    PROVE  Types' /\ Derived' /\ Delivered' /\ ScanHonest' /\ AnswerVouchesDerived'
<1>1. UNCHANGED <<cursor, reg, nextTo, have>>
  BY DEF writeVars
<1>2. Types' /\ Derived'
  BY <1>1 DEF IndInv, Types, Derived
<1>3. Delivered'
  BY <1>1 DEF IndInv, Delivered, Due, After
<1>4. ScanHonest' /\ AnswerVouchesDerived'
  BY <1>1 DEF IndInv, ScanHonest, HoldsAll, AnswerVouchesDerived
<1> QED BY <1>2, <1>3, <1>4

LEMMA ReadContractInv == IndInv /\ ReadContract => IndInv'
<1> SUFFICES ASSUME IndInv, ReadContract PROVE IndInv'
  OBVIOUS
<1> DEFINE known == reg # "absent"
<1>1. known \in BOOLEAN /\ (known => reg # "absent")
  OBVIOUS
<1>2. scan.pc = "contract" /\ scan' = [scan EXCEPT !.pc = "page", !.kindDerived = known]
  BY DEF ReadContract
<1> HIDE DEF known
<1>3. /\ scan' \in Scan /\ scan'.pc = "page" /\ scan'.q = scan.q /\ scan'.got = scan.got
      /\ scan'.kindDerived = known /\ scan'.raced = scan.raced
      /\ scan'.status = scan.status /\ scan'.indexed = scan.indexed
  BY <1>1, <1>2 DEF IndInv, Types, Scan, Reads
<1>4. UNCHANGED writeVars /\ UNCHANGED <<reg, have>>
  BY DEF ReadContract, writeVars
<1>5. Types' /\ Derived' /\ Delivered' /\ ScanHonest' /\ AnswerVouchesDerived'
  BY <1>2, <1>3, <1>4, ReaderKeeps
<1>6. Marked' /\ Read'
  BY <1>3, <1>4 DEF IndInv, Marked, Read, After
<1>7. Registered'
  BY <1>1, <1>2, <1>3, <1>4 DEF IndInv, Registered, Settled, Reads
<1> QED BY <1>5, <1>6, <1>7 DEF IndInv

\* The rows a page is taken from lie beyond the position.
LEMMA MatchingRows ==
    ASSUME Types
    PROVE  /\ Matching(scan.q) \in SUBSET Chain /\ scan.q.limit \in Nat \ {0}
           /\ \A row \in Matching(scan.q) : row[1] \in have /\ After(row, scan.q.after)
  BY Constants DEF Matching, Types, Scan

LEMMA ReadPageInv == IndInv /\ ReadPage => IndInv'
<1> SUFFICES ASSUME IndInv, ReadPage PROVE IndInv'
  OBVIOUS
<1> DEFINE more == Cardinality(Matching(scan.q)) > scan.q.limit
           rows == FirstRows(Matching(scan.q), scan.q.limit)
<1>1. /\ Types /\ Matching(scan.q) \in SUBSET Chain /\ scan.q.limit \in Nat \ {0}
      /\ \A row \in Matching(scan.q) : row[1] \in have /\ After(row, scan.q.after)
  BY MatchingRows DEF IndInv
<1>2. rows \in SUBSET Chain /\ \A row \in rows : row[1] \in have /\ After(row, scan.q.after)
  BY <1>1, PageRows
<1>3. more \in BOOLEAN /\ (~more => Cardinality(Matching(scan.q)) <= scan.q.limit)
  <2>1. Cardinality(Matching(scan.q)) \in Nat
    BY <1>1, Counting
  <2> QED BY <1>1, <2>1
<1>4. scan.pc = "page" /\ scan' = [scan EXCEPT !.pc = "cursor", !.page = rows, !.hasMore = more]
  BY DEF ReadPage
<1> HIDE DEF more, rows
<1>5. /\ scan' \in Scan /\ scan'.pc = "cursor" /\ scan'.q = scan.q /\ scan'.got = scan.got
      /\ scan'.page = rows /\ scan'.hasMore = more
      /\ scan'.kindDerived = scan.kindDerived /\ scan'.raced = scan.raced
      /\ scan'.status = scan.status /\ scan'.indexed = scan.indexed
  BY <1>1, <1>2, <1>3, <1>4 DEF Types, Scan, Reads
<1>6. UNCHANGED writeVars /\ UNCHANGED <<reg, have>>
  BY DEF ReadPage, writeVars
<1>7. Types' /\ Derived' /\ Delivered' /\ ScanHonest' /\ AnswerVouchesDerived'
  BY <1>4, <1>5, <1>6, ReaderKeeps
<1>8. Marked'
  BY <1>2, <1>5, <1>6 DEF IndInv, Marked, After
<1>9. Registered'
  BY <1>4, <1>5, <1>6 DEF IndInv, Registered, Settled, Reads
<1>10. Read'
  <2>1. Matching(scan.q)' = Matching(scan.q) /\ scan'.q.limit = scan.q.limit
    BY <1>5, <1>6 DEF Matching, After
  <2>2. FirstRows(Matching(scan.q), scan.q.limit)' = rows
    BY <2>1 DEF FirstRows, After, rows
  <2> QED BY <1>3, <1>5, <2>1, <2>2 DEF Read
<1> QED BY <1>7, <1>8, <1>9, <1>10 DEF IndInv

LEMMA ReadCursorInv == IndInv /\ ReadCursor => IndInv'
<1> SUFFICES ASSUME IndInv, ReadCursor PROVE IndInv'
  OBVIOUS
<1>1. scan.pc = "cursor" /\ scan' = [scan EXCEPT !.pc = "coverage", !.cursorSeq = cursor]
  BY DEF ReadCursor
<1>2. /\ scan' \in Scan /\ scan'.pc = "coverage" /\ scan'.q = scan.q /\ scan'.got = scan.got
      /\ scan'.page = scan.page /\ scan'.hasMore = scan.hasMore /\ scan'.cursorSeq = cursor
      /\ scan'.kindDerived = scan.kindDerived /\ scan'.raced = scan.raced
      /\ scan'.status = scan.status /\ scan'.indexed = scan.indexed
  BY <1>1 DEF IndInv, Types, Scan, Reads
<1>3. UNCHANGED writeVars /\ UNCHANGED <<cursor, reg, have>>
  BY DEF ReadCursor, writeVars
<1>4. Types' /\ Derived' /\ Delivered' /\ ScanHonest' /\ AnswerVouchesDerived'
  BY <1>1, <1>2, <1>3, ReaderKeeps
<1>5. Marked'
  BY <1>1, <1>2, <1>3 DEF IndInv, Marked, After
<1>6. Registered'
  BY <1>1, <1>2, <1>3 DEF IndInv, Registered, Settled, Reads
<1>7. Read'
  <2>1. Matching(scan.q)' = Matching(scan.q) /\ scan'.q.limit = scan.q.limit
    BY <1>2, <1>3 DEF Matching, After
  <2>2. FirstRows(Matching(scan.q), scan.q.limit)' = FirstRows(Matching(scan.q), scan.q.limit)
    BY <2>1 DEF FirstRows, After
  <2>3. scan'.cursorSeq <= cursor'
    BY <1>2, <1>3, Constants DEF IndInv, Types
  <2> QED BY <1>1, <1>2, <2>1, <2>2, <2>3 DEF IndInv, Read
<1> QED BY <1>4, <1>5, <1>6, <1>7 DEF IndInv

LEMMA FollowInv == IndInv /\ Follow => IndInv'
<1> SUFFICES ASSUME IndInv, Follow PROVE IndInv'
  OBVIOUS
<1>1. /\ scan.pc = "answered"
      /\ scan' = [scan EXCEPT !.pc = "contract", !.page = {}, !.status = "", !.indexed = {},
                    !.raced = IF Settled THEN @ ELSE @ \cup {"kind_in_between"}]
  BY DEF Follow
<1>2. "" \in Statuses /\ "kind_in_between" \in Overlap
  BY DEF Statuses, Overlap
<1>3. /\ scan' \in Scan /\ scan'.pc = "contract" /\ scan'.q = scan.q /\ scan'.got = scan.got
      /\ scan'.page = {} /\ scan'.status = "" /\ scan'.indexed = {}
      /\ scan.raced \subseteq scan'.raced
      /\ Settled \/ "kind_in_between" \in scan'.raced
  BY <1>1, <1>2 DEF IndInv, Types, Scan, Reads
<1>4. UNCHANGED writeVars /\ UNCHANGED <<reg, have>>
  BY DEF Follow, writeVars
<1>5. Types' /\ Derived' /\ Delivered' /\ ScanHonest' /\ AnswerVouchesDerived'
  BY <1>1, <1>3, <1>4, ReaderKeeps
<1>6. Marked'
  BY <1>3, <1>4 DEF IndInv, Marked, After
<1>7. Registered' /\ Read'
  BY <1>3, <1>4 DEF Registered, Read, Settled
<1> QED BY <1>5, <1>6, <1>7 DEF IndInv

\* A scan that has not begun promises nothing.
LEMMA NothingAsked ==
    ASSUME scan.pc = "idle", scan.q.after = Start, scan.got = {}, scan.page = {}, scan.status = "",
           scan.indexed = {}
    PROVE  /\ Marked /\ Registered /\ Read /\ Delivered /\ ScanHonest /\ AnswerVouchesDerived
  BY DEF Marked, Registered, Read, Delivered, ScanHonest, HoldsAll, AnswerVouchesDerived, Reads

LEMMA LeaveInv == IndInv /\ Leave => IndInv'
<1> SUFFICES ASSUME IndInv, Leave PROVE IndInv'
  OBVIOUS
<1>1. scan' = Idle /\ UNCHANGED <<cursor, reg, nextTo, have>>
  BY DEF Leave, writeVars
<1>2. Types' /\ Derived'
  BY <1>1, IdleTyped DEF IndInv, Types, Derived
<1>3. /\ scan'.pc = "idle" /\ scan'.q.after = Start /\ scan'.got = {} /\ scan'.page = {}
      /\ scan'.status = "" /\ scan'.indexed = {}
  BY <1>1 DEF Idle
<1>4. Marked' /\ Registered' /\ Read' /\ Delivered' /\ ScanHonest' /\ AnswerVouchesDerived'
  BY <1>3 DEF Marked, Registered, Read, Delivered, ScanHonest, HoldsAll, AnswerVouchesDerived, Reads
<1> QED BY <1>2, <1>4 DEF IndInv

\* Where the response begins to vouch.
LEMMA IndexedFrom ==
    ASSUME Types, NEW walkRead \in BOOLEAN
    PROVE  /\ indexedFrom(walkRead) \in Int
           /\ walkRead /\ reg \in {"anchored", "live"} => indexedFrom(walkRead) = nextTo + 1
<1>1. nextTo \in Int /\ scan.cursorSeq \in Int
  BY Constants DEF Types, Scan
<1> QED BY <1>1 DEF indexedFrom

\* What a COMPLETE says, and what the range of a response holds.
LEMMA SaysComplete ==
    ASSUME Types, NEW walkRead \in BOOLEAN
    PROVE  /\ scanStatus(walkRead) \in Statuses
           /\ scanStatus(walkRead) = "COMPLETE" =>
                 /\ ~scan.hasMore /\ scan.kindDerived
                 /\ scan.q.to \in Ledgers /\ scan.q.to <= scan.cursorSeq
                 /\ indexedFrom(walkRead) <= scan.q.from
<1>1. /\ scan.q.to \in {0} \cup Ledgers /\ scan.q.from \in Int /\ scan.q.to \in Int
      /\ scan.cursorSeq \in Int
  <2>1. scan.q \in Query /\ scan.cursorSeq \in 0..MaxLedger
    BY DEF Types, Scan
  <2>2. scan.q.to \in {0} \cup Ledgers /\ scan.q.from \in Ledgers
    BY <2>1, Constants
  <2>3. \A x \in {0} \cup Ledgers : x \in Int
    BY Constants
  <2>4. scan.cursorSeq \in Int
    BY <2>1
  <2> QED BY <2>2, <2>3, <2>4
<1>2. scanStatus(walkRead) \in Statuses
  BY DEF scanStatus, Statuses
<1>3. ASSUME scanStatus(walkRead) = "COMPLETE"
      PROVE  /\ ~scan.hasMore /\ scan.kindDerived /\ ~(scan.q.to = 0)
             /\ ~(scan.q.to > scan.cursorSeq) /\ ~(scan.q.from < indexedFrom(walkRead))
  BY <1>3 DEF scanStatus
<1>4. indexedFrom(walkRead) \in Int
  BY IndexedFrom
<1>5. ~(scan.q.from < indexedFrom(walkRead)) => indexedFrom(walkRead) <= scan.q.from
  BY <1>1, <1>4
<1> QED BY <1>1, <1>2, <1>3, <1>5

LEMMA VouchesFor ==
    ASSUME Types, NEW walkRead \in BOOLEAN
    PROVE  /\ coverage(walkRead) \in SUBSET Ledgers
           /\ \A l \in coverage(walkRead) :
                 scan.kindDerived /\ indexedFrom(walkRead) <= l /\ l <= scan.cursorSeq
<1> SUFFICES ASSUME NEW l \in coverage(walkRead)
             PROVE  /\ l \in Ledgers
                    /\ scan.kindDerived /\ indexedFrom(walkRead) <= l /\ l <= scan.cursorSeq
  OBVIOUS
<1>1. /\ scan.q.from \in Int /\ scan.q.from >= 1 /\ scan.q.to \in Int
      /\ scan.cursorSeq \in Int /\ scan.cursorSeq <= MaxLedger /\ MaxLedger \in Int
      /\ indexedFrom(walkRead) \in Int
  BY Constants, IndexedFrom DEF Types, Scan, Ledgers
<1> DEFINE low == Max({indexedFrom(walkRead), scan.q.from})
           high == IF scan.q.to > 0 /\ scan.q.to < scan.cursorSeq THEN scan.q.to ELSE scan.cursorSeq
<1>2. low \in Int /\ low >= indexedFrom(walkRead) /\ low >= scan.q.from
  BY <1>1, MaxOfTwo
<1>3. high \in Int /\ high <= scan.cursorSeq
  BY <1>1
<1>4. coverage(walkRead) = IF ~scan.kindDerived THEN {} ELSE low..high
  BY DEF coverage
<1> HIDE DEF low, high
<1>5. scan.kindDerived /\ l \in low..high
  BY <1>4
<1> QED BY <1>1, <1>2, <1>3, <1>5 DEF Ledgers

\* The heart of a scan's promise: with the page, everything due up to the new
\* position is delivered, and everything due at all when there is no more.
LEMMA PageDelivers ==
    ASSUME IndInv, scan.pc = "coverage", scan.raced = {}, NEW row \in Chain, Due(row)
    PROVE  /\ ~After(row, LastOf(scan.page, scan.q.after)) => row \in scan.got \cup scan.page
           /\ ~scan.hasMore => row \in scan.got \cup scan.page
<1> DEFINE rows == Matching(scan.q)
           m == LastOf(scan.page, scan.q.after)
<1>1. /\ Types /\ rows \in SUBSET Chain /\ scan.q.limit \in Nat \ {0}
      /\ \A r \in rows : r[1] \in have /\ After(r, scan.q.after)
  BY MatchingRows DEF IndInv
<1>2. scan.page = FirstRows(rows, scan.q.limit) /\ (~scan.hasMore => Cardinality(rows) <= scan.q.limit)
  BY DEF IndInv, Read
<1>3. CASE ~After(row, scan.q.after)
  BY <1>3 DEF IndInv, Delivered
<1>4. CASE After(row, scan.q.after)
  <2>1. row \in rows
    <3>1. row[1] \in Int /\ scan.q.from \in Int
      BY <1>1, RowsArePositions, Constants DEF Types, Scan
    <3> QED BY <1>4, <3>1 DEF Due, Matching
  <2> HIDE DEF rows
  <2>2. ~scan.hasMore => row \in scan.page
    BY <1>1, <1>2, <2>1, PageRows
  <2>3. ASSUME ~After(row, m)
        PROVE  row \in scan.page
    <3>1. scan.page # {} /\ scan.page \subseteq rows
      BY <1>1, <1>2, <2>1, PageRows
    <3>2. scan.q.after \in Pos
      BY <1>1, Constants DEF Types, Scan
    <3>3. m \in scan.page
      BY <1>1, <3>1, <3>2, NextMark
    <3> HIDE DEF m
    <3>4. row = m \/ After(m, row)
      BY <1>1, <2>3, <3>1, <3>3, RowsArePositions, ChainOrder
    <3>5. \A r \in scan.page, s \in rows : After(r, s) => s \in scan.page
      BY <1>1, <1>2, PageRows
    <3> QED BY <2>1, <3>3, <3>4, <3>5
  <2> QED BY <2>2, <2>3
<1> QED BY <1>3, <1>4

LEMMA AnswerInv == IndInv /\ Answer => IndInv'
<1> SUFFICES ASSUME IndInv, Answer PROVE IndInv'
  OBVIOUS
<1> DEFINE m == LastOf(scan.page, scan.q.after)
<1>1. PICK walkRead \in BOOLEAN :
         scan' = [scan EXCEPT !.pc = "answered", !.got = @ \cup scan.page,
                    !.q.after = LastOf(scan.page, @),
                    !.status = scanStatus(walkRead), !.indexed = coverage(walkRead),
                    !.raced = IF walkRead THEN @ ELSE @ \cup {"walk_unreadable"}]
  BY DEF Answer
<1>2. /\ scan.pc = "coverage" /\ Types /\ UNCHANGED <<cursor, reg, nextTo, have>>
      /\ scan.page \in SUBSET Chain /\ scan.got \in SUBSET Chain /\ scan.q \in Query
      /\ scan.q.after \in Pos /\ \A row \in scan.page : row[1] \in have /\ After(row, scan.q.after)
  BY Constants DEF Answer, IndInv, Types, Scan, writeVars, Marked
<1>3. /\ scan.page = {} => m = scan.q.after
      /\ scan.page # {} => m \in scan.page
      /\ m \in Pos /\ ~After(scan.q.after, m)
      /\ \A s \in scan.page : ~After(s, m)
  BY <1>2, NextMark
<1>4. /\ scanStatus(walkRead) \in Statuses /\ coverage(walkRead) \in SUBSET Ledgers
      /\ "walk_unreadable" \in Overlap
  BY <1>2, SaysComplete, VouchesFor DEF Overlap
<1> HIDE DEF m
<1>5. /\ scan' \in Scan /\ scan'.pc = "answered" /\ scan'.got = scan.got \cup scan.page
      /\ scan'.q = [scan.q EXCEPT !.after = m]
      /\ scan'.status = scanStatus(walkRead) /\ scan'.indexed = coverage(walkRead)
      /\ scan.raced \subseteq scan'.raced /\ (walkRead \/ "walk_unreadable" \in scan'.raced)
  <2>1. [scan.q EXCEPT !.after = m] \in Query
    BY <1>2, <1>3 DEF Query, Pos
  <2>2. scan' = [scan EXCEPT !.pc = "answered", !.got = scan.got \cup scan.page,
                    !.q = [scan.q EXCEPT !.after = m],
                    !.status = scanStatus(walkRead), !.indexed = coverage(walkRead),
                    !.raced = IF walkRead THEN @ ELSE @ \cup {"walk_unreadable"}]
    BY <1>1 DEF m
  <2> QED BY <1>2, <1>4, <2>1, <2>2 DEF Types, Scan, Reads
<1>6. /\ scan'.q.after = m /\ scan'.q.from = scan.q.from /\ scan'.q.to = scan.q.to
  BY <1>2, <1>5 DEF Query
<1>7. Types' /\ Derived'
  BY <1>2, <1>5 DEF IndInv, Types, Derived
<1>8. Marked'
  <2>1. m = Start \/ (m \in Chain /\ m[1] \in have')
    BY <1>2, <1>3 DEF IndInv, Marked
  <2>2. ASSUME NEW row \in scan.got
        PROVE  ~After(row, m)
    <3>1. ~After(row, scan.q.after) /\ row \in Pos
      BY <1>2, RowsArePositions DEF IndInv, Marked
    <3> QED BY <1>2, <1>3, <3>1, ChainTransitive
  <2> QED BY <1>3, <1>5, <1>6, <2>1, <2>2 DEF Marked, After
<1>9. Registered' /\ Read'
  BY <1>5 DEF Registered, Read, Reads
<1>10. ASSUME NEW row \in Chain, scan'.raced = {}, Due(row)'
       PROVE  /\ ~After(row, m) => row \in scan'.got
              /\ ~scan.hasMore => row \in scan'.got
  <2>1. Due(row) /\ scan.raced = {}
    BY <1>2, <1>5, <1>6, <1>10 DEF Due
  <2> QED BY <1>2, <1>5, <2>1, PageDelivers DEF m
<1>11. Delivered'
  BY <1>5, <1>6, <1>10 DEF Delivered, After
<1>12. ASSUME "kind_in_between" \notin scan'.raced, "walk_unreadable" \notin scan'.raced,
              scan.kindDerived
       PROVE  reg = "live" /\ indexedFrom(walkRead) = nextTo + 1
  <2>1. reg # "absent" /\ reg \in {"absent", "live"}
    BY <1>2, <1>5, <1>12 DEF IndInv, Registered, Settled, Reads
  <2> QED BY <1>2, <1>5, <1>12, <2>1, IndexedFrom
<1>13. cursor \in Int /\ nextTo \in Int /\ scan.cursorSeq \in Int /\ scan.cursorSeq <= cursor
  BY <1>2, Constants DEF IndInv, Types, Scan, Read
<1>14. AnswerVouchesDerived'
  <2> SUFFICES ASSUME "kind_in_between" \notin scan'.raced, "walk_unreadable" \notin scan'.raced,
                      NEW l \in coverage(walkRead)
               PROVE  l \in have
    BY <1>2, <1>5 DEF AnswerVouchesDerived
  <2>1. /\ scan.kindDerived /\ indexedFrom(walkRead) <= l /\ l <= scan.cursorSeq
        /\ l \in Ledgers /\ l \in Int
    BY <1>2, VouchesFor, Constants
  <2>2. reg = "live" /\ nextTo < l /\ l <= cursor
    BY <1>12, <1>13, <2>1
  <2> QED BY <2>1, <2>2 DEF IndInv, Derived
<1>15. ScanHonest'
  <2> SUFFICES ASSUME scan'.raced = {}, scanStatus(walkRead) = "COMPLETE",
                      NEW row \in Chain, scan.q.from <= row[1], row[1] <= scan.q.to
               PROVE  row \in scan'.got
    BY <1>5, <1>6 DEF ScanHonest, HoldsAll
  <2>1. /\ ~scan.hasMore /\ scan.kindDerived /\ scan.q.to \in Int /\ scan.q.from \in Int
        /\ scan.q.to <= scan.cursorSeq /\ indexedFrom(walkRead) <= scan.q.from
        /\ row[1] \in Ledgers /\ row[1] \in Int
    BY <1>2, SaysComplete, Constants, RowsArePositions
  <2>2. reg = "live" /\ nextTo < row[1] /\ row[1] <= cursor
    BY <1>12, <1>13, <2>1
  <2>3. row[1] \in have
    BY <2>1, <2>2 DEF IndInv, Derived
  <2>4. Due(row)'
    BY <1>2, <1>6, <2>2, <2>3 DEF Due
  <2> QED BY <1>10, <2>1, <2>4
<1> QED BY <1>7, <1>8, <1>9, <1>11, <1>14, <1>15 DEF IndInv

-----------------------------------------------------------------------------
(* The theorems.                                                           *)

LEMMA InitInv == Init => IndInv
<1> SUFFICES ASSUME Init PROVE IndInv
  OBVIOUS
<1>1. Types /\ Derived
  BY IdleTyped, Constants DEF Init, Types, Derived
<1>2. /\ scan.pc = "idle" /\ scan.q.after = Start /\ scan.got = {} /\ scan.page = {}
      /\ scan.status = "" /\ scan.indexed = {}
  BY DEF Init, Idle
<1> QED BY <1>1, <1>2, NothingAsked DEF IndInv

LEMMA NextInv == IndInv /\ [Next]_vars => IndInv'
<1> SUFFICES ASSUME IndInv, [Next]_vars PROVE IndInv'
  OBVIOUS
<1>1. CASE UNCHANGED vars
  BY <1>1 DEF vars, writeVars, IndInv, Types, Derived, Marked, Registered, Read, Delivered, Due,
     ScanHonest, HoldsAll, AnswerVouchesDerived, Settled, Matching, FirstRows, After
<1>2. CASE Next
  BY <1>2, LiveCommitInv, WalkCommitInv, RegisterKindInv, AskInv, ReadContractInv, ReadPageInv,
     ReadCursorInv, AnswerInv, FollowInv, LeaveInv DEF Next, Serve
<1> QED BY <1>1, <1>2

LEMMA Invariant == Spec => []IndInv
  BY InitInv, NextInv, PTL DEF Spec

\* The scan and the tables of a reader stay in their domains: no page, mark or
\* range leaves the chain, whatever the reads of a request overlap with.
THEOREM ReaderTyped == Spec => []TypeOK
<1>1. IndInv => TypeOK
  BY TypesAreOK DEF IndInv
<1> QED BY <1>1, Invariant, PTL

\* COMPLETE keeps its promise: a client that followed the cursor of any of the
\* history endpoints to COMPLETE, with any page size, holds every row of the
\* chain within its bounds, if none of the four overlaps fell into its scan
\* (ledgers closing and registrations moving between its pages are none).
THEOREM ScansAreHonest == Spec => []ScanHonest
<1>1. IndInv => ScanHonest
  BY DEF IndInv
<1> QED BY <1>1, Invariant, PTL

\* The range a response vouches for was derived for the kind, whatever is
\* committed between its four reads, once the kind's registration is through
\* and if the walk can be read.
THEOREM AnswersVouchDerived == Spec => []AnswerVouchesDerived
<1>1. IndInv => AnswerVouchesDerived
  BY DEF IndInv
<1> QED BY <1>1, Invariant, PTL

\* A scan never drifts: every page lies beyond all that was delivered before,
\* while rows keep arriving on both sides of the mark.
THEOREM PagesDoAdvance == Spec => PagesAdvance
<1>1. ASSUME IndInv, [Next]_vars, scan.pc = "page", scan'.pc = "cursor",
             NEW row \in scan'.page, NEW old \in scan.got
      PROVE  After(row, old)
  <2>1. ReadPage
    <3>1. ASSUME NEW race \in Overlap, NEW happened, Noting(race, happened)
          PROVE  FALSE
      BY <1>1, <3>1, NotingKeeps DEF IndInv
    <3>2. ~LiveCommit /\ ~WalkCommit /\ ~RegisterKind
      BY <3>1 DEF LiveCommit, WalkCommit, RegisterKind, Overlap
    <3> QED BY <1>1, <3>2 DEF Next, Serve, Ask, ReadContract, ReadCursor, Answer, Follow, Leave, vars
  <2>2. scan'.page = FirstRows(Matching(scan.q), scan.q.limit)
    BY <2>1 DEF ReadPage, IndInv, Types, Scan
  <2>3. /\ Matching(scan.q) \in SUBSET Chain /\ scan.q.limit \in Nat \ {0}
        /\ \A r \in Matching(scan.q) : After(r, scan.q.after)
    BY <1>1, MatchingRows DEF IndInv
  <2>4. row \in Chain /\ After(row, scan.q.after)
    BY <2>2, <2>3, PageRows
  <2>5. old \in Chain /\ ~After(old, scan.q.after) /\ scan.q.after \in Pos
    BY <1>1, Constants DEF IndInv, Marked, Types, Scan
  <2> QED BY <2>4, <2>5, RowsArePositions, ChainTransitive
<1>2. IndInv /\ [Next]_vars => [scan.pc = "page" /\ scan'.pc = "cursor" =>
                                   \A row \in scan'.page, old \in scan.got : After(row, old)]_vars
  BY <1>1
<1> QED BY <1>2, Invariant, PTL DEF Spec, PagesAdvance

=============================================================================
