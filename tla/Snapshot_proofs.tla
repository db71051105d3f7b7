--------------------------- MODULE Snapshot_proofs ---------------------------
(***************************************************************************)
(* The snapshot tables converge for every chain, every set of keys and     *)
(* every order of commits, and a listing of them is exact for every page   *)
(* size and every write between its pages.                                 *)
(***************************************************************************)
EXTENDS Listing, FiniteSetTheorems, WellFoundedInduction, TLAPS

\* A non-empty set of naturals below a bound has a greatest element.
LEMMA GreatestNatural ==
    ASSUME NEW N \in Nat, NEW S \in SUBSET (0..N), S # {}
    PROVE  \E x \in S : \A y \in S : y <= x
<1> DEFINE R == OpToRel(<, Nat)
           T == {N - x : x \in S}
<1>1. T \in SUBSET Nat /\ T # {}
  <2>1. PICK x \in S : TRUE
    OBVIOUS
  <2> QED BY <2>1
<1>2. PICK m \in T : \A y \in T : ~ (<<y, m>> \in R)
  <2>1. IsWellFoundedOn(R, Nat)
    BY NatLessThanWellFounded
  <2> HIDE DEF R, T
  <2> QED BY <1>1, <2>1, WFMin, Zenon
<1>3. \A y \in T : y < m => <<y, m>> \in R
  BY <1>1 DEF OpToRel
<1>4. \A y \in T : ~ (y < m)
  <2> HIDE DEF R, T
  <2> QED BY <1>2, <1>3, Zenon
<1>5. PICK x \in S : m = N - x
  BY <1>2
<1>6. ASSUME NEW y \in S PROVE y <= x
  <2>1. N - y \in T /\ ~ (N - y < m)
    BY <1>4
  <2> HIDE DEF T
  <2> QED BY <1>5, <2>1
<1> QED BY <1>6

\* Among some changes one is the newest: the last of the highest ledger.
LEMMA NewestExists ==
    ASSUME NEW S \in SUBSET Chain, S # {}
    PROVE  \E c \in S : IsNewest(c, S)
<1> DEFINE L == {c.ledger : c \in S}
<1>0. \A c \in S : c.ledger \in 0..MaxLedger /\ c.index \in 0..MaxIndex
  BY SnapshotAssumption DEF Change, Ledgers
<1>1. PICK l \in L : \A y \in L : y <= l
  <2>1. L \in SUBSET (0..MaxLedger) /\ L # {}
    BY <1>0
  <2> HIDE DEF L
  <2> QED BY <2>1, GreatestNatural, SnapshotAssumption
<1> DEFINE I == {c.index : c \in {d \in S : d.ledger = l}}
<1>2. PICK i \in I : \A y \in I : y <= i
  <2>1. I \in SUBSET (0..MaxIndex) /\ I # {}
    BY <1>0, <1>1
  <2> HIDE DEF I
  <2> QED BY <2>1, GreatestNatural, SnapshotAssumption
<1>3. PICK c \in S : c.ledger = l /\ c.index = i
  BY <1>2
<1>4. \A d \in S : d.ledger <= l /\ (d.ledger = l => d.index <= i)
  BY <1>1, <1>2
<1>5. \A d \in S : ~Later(d, c)
  BY <1>0, <1>3, <1>4 DEF Later
<1> QED BY <1>5 DEF IsNewest

\* What final[k] of a slice is: the newest of the changes the slice holds.
LEMMA NewestIsNewest ==
    ASSUME NEW k, NEW A \in SUBSET Ledgers, Of(k, A) # {}
    PROVE  IsNewest(Newest(k, A), Of(k, A))
<1>1. Of(k, A) \in SUBSET Chain
  BY DEF Of
<1>2. \E c \in Of(k, A) : IsNewest(c, Of(k, A))
  BY <1>1, NewestExists
<1> QED BY <1>2 DEF Newest

\* A newest change is the only one.
LEMMA NewestUnique ==
    ASSUME NEW S \in SUBSET Chain, NEW c, NEW d, IsNewest(c, S), IsNewest(d, S)
    PROVE  c = d
<1>1. c \in Chain /\ d \in Chain /\ ~Later(c, d) /\ ~Later(d, c)
  BY DEF IsNewest
<1>2. c.ledger \in Int /\ d.ledger \in Int /\ c.index \in Int /\ d.index \in Int
  BY <1>1, SnapshotAssumption DEF Change, Ledgers
<1>3. c.ledger = d.ledger /\ c.index = d.index
  BY <1>1, <1>2 DEF Later
<1> QED BY <1>1, <1>3, SnapshotAssumption

\* The heart of convergence: of the newest change written so far and the
\* newest of the slice, the guard keeps the newest of both together.  On a tie
\* of ledgers they are one change, because a ledger is written whole.
LEMMA GuardKeepsNewest ==
    ASSUME NEW k, NEW W \in SUBSET Ledgers, NEW A \in SUBSET Ledgers,
           NEW c, IsNewest(c, Of(k, W)), NEW d, IsNewest(d, Of(k, A))
    PROVE  /\ c.ledger <= d.ledger => IsNewest(d, Of(k, W \cup A))
           /\ ~(c.ledger <= d.ledger) => IsNewest(c, Of(k, W \cup A))
<1>1. /\ Of(k, W) \in SUBSET Chain /\ Of(k, A) \in SUBSET Chain
      /\ Of(k, W \cup A) = Of(k, W) \cup Of(k, A)
  BY DEF Of
<1>2. \A e \in Chain : e.ledger \in Int /\ e.index \in Int
  BY SnapshotAssumption DEF Change, Ledgers
<1>3. /\ c \in Of(k, W) /\ \A e \in Of(k, W) : ~Later(e, c)
      /\ d \in Of(k, A) /\ \A e \in Of(k, A) : ~Later(e, d)
  BY DEF IsNewest
<1>4. CASE c.ledger <= d.ledger
  <2>1. \A e \in Of(k, W) : ~Later(e, d)
    <3> SUFFICES ASSUME NEW e \in Of(k, W), Later(e, d) PROVE FALSE
      OBVIOUS
    <3>1. e.ledger >= d.ledger /\ e.ledger <= c.ledger
      BY <1>1, <1>2, <1>3 DEF Later
    <3>2. e.ledger = d.ledger
      BY <1>1, <1>2, <1>3, <1>4, <3>1
    <3>3. e \in Of(k, A)
      BY <1>3, <3>2 DEF Of
    <3> QED BY <1>3, <3>3
  <2> QED BY <1>1, <1>3, <1>4, <2>1 DEF IsNewest
<1>5. CASE ~(c.ledger <= d.ledger)
  <2>1. \A e \in Of(k, A) : ~Later(e, c)
    BY <1>1, <1>2, <1>3, <1>5 DEF Later
  <2> QED BY <1>1, <1>3, <1>5, <2>1 DEF IsNewest
<1> QED BY <1>4, <1>5

IndInv == TypeOK /\ SnapshotIsNewest

\* The empty tables are the snapshot of no ledger.
LEMMA InitInv == Init => IndInv
BY DEF Init, IndInv, TypeOK, SnapshotIsNewest, Of

\* A row made of a change is a well-typed entry at the change's ledger.
LEMMA RowTyped ==
    ASSUME NEW c \in Chain
    PROVE  Row(c) \in Entry /\ Row(c).last = c.ledger
BY SnapshotAssumption DEF Row, Entry, Change, Ledgers

\* Any transaction of any writer keeps the tables the snapshot of what was
\* written.
LEMMA CommitInv ==
    ASSUME IndInv, NEW from \in Ledgers, NEW to \in from..MaxLedger, Commit(from, to)
    PROVE  IndInv'
<1> DEFINE A == from..to
           touched == {k \in Keys : Of(k, A) # {}}
<1>1. A \in SUBSET Ledgers /\ written \in SUBSET Ledgers
  BY SnapshotAssumption DEF Ledgers, IndInv, TypeOK
<1>2. written' = written \cup A /\ written' \in SUBSET Ledgers
  BY <1>1 DEF Commit
<1>3. DOMAIN entries' = DOMAIN entries \cup touched
  BY DEF Commit, applyEntries
<1>4. \A k \in DOMAIN entries' :
         entries'[k] = IF k \in touched /\ Wins(k, Newest(k, A))
                       THEN Row(Newest(k, A)) ELSE entries[k]
  BY DEF Commit, applyEntries
<1>5. DOMAIN entries = {k \in Keys : Of(k, written) # {}}
  BY DEF IndInv, SnapshotIsNewest
<1>6. \A k : Of(k, written') = Of(k, written) \cup Of(k, A)
  BY <1>2 DEF Of
<1>7. DOMAIN entries' = {k \in Keys : Of(k, written') # {}}
  BY <1>3, <1>5, <1>6
<1>8. ASSUME NEW k \in DOMAIN entries'
      PROVE  \E c \in Of(k, written') : IsNewest(c, Of(k, written')) /\ entries'[k] = Row(c)
  <2> HIDE DEF A
  <2>1. CASE k \notin touched
    <3>1. k \in DOMAIN entries /\ entries'[k] = entries[k]
      BY <1>3, <1>4, <1>8, <2>1
    <3>2. Of(k, written') = Of(k, written)
      BY <1>5, <1>6, <2>1, <3>1
    <3> QED BY <3>1, <3>2 DEF IndInv, SnapshotIsNewest
  <2>2. CASE k \in touched
    <3> DEFINE d == Newest(k, A)
    <3>1. IsNewest(d, Of(k, A))
      BY <1>1, <2>2, NewestIsNewest
    <3> HIDE DEF d
    <3>2. CASE k \notin DOMAIN entries
      <4>1. entries'[k] = Row(d)
        BY <1>4, <1>8, <2>2, <3>2 DEF Wins, d
      <4>2. Of(k, written') = Of(k, A)
        BY <1>5, <1>6, <2>2, <3>2
      <4> QED BY <3>1, <4>1, <4>2 DEF IsNewest
    <3>3. CASE k \in DOMAIN entries
      <4>1. PICK c \in Of(k, written) : IsNewest(c, Of(k, written)) /\ entries[k] = Row(c)
        BY <3>3 DEF IndInv, SnapshotIsNewest
      <4>2. c \in Chain
        BY DEF Of
      <4>3. entries[k].last = c.ledger
        BY <4>1, <4>2, RowTyped
      <4>4. /\ c.ledger <= d.ledger => IsNewest(d, Of(k, written'))
            /\ ~(c.ledger <= d.ledger) => IsNewest(c, Of(k, written'))
        BY <1>1, <1>2, <3>1, <4>1, GuardKeepsNewest
      <4>5. entries'[k] = IF c.ledger <= d.ledger THEN Row(d) ELSE Row(c)
        BY <1>4, <1>8, <2>2, <3>3, <4>1, <4>3 DEF Wins, d
      <4> QED BY <4>4, <4>5 DEF IsNewest
    <3> QED BY <3>2, <3>3
  <2> QED BY <2>1, <2>2
<1>9. TypeOK'
  <2>1. \A k \in DOMAIN entries' : entries'[k] \in Entry
    BY <1>8, RowTyped DEF Of
  <2> QED BY <1>2, <1>7, <2>1 DEF TypeOK
<1> QED BY <1>7, <1>8, <1>9 DEF IndInv, SnapshotIsNewest

LEMMA NextInv == IndInv /\ [Next]_vars => IndInv'
<1> SUFFICES ASSUME IndInv, [Next]_vars PROVE IndInv'
  OBVIOUS
<1>1. CASE Next
  BY <1>1, CommitInv DEF Next
<1>2. CASE UNCHANGED vars
  BY <1>2 DEF vars, IndInv, TypeOK, SnapshotIsNewest
<1> QED BY <1>1, <1>2

\* Whatever the order and the repetition of live, backfill and heal commits,
\* every row of state_entries and trustline_entries is the newest change of
\* its key among the ledgers written (applyStateEntries and
\* applyTrustlineEntries), for every chain and any number of keys.
THEOREM SnapshotConverges == Spec => []SnapshotIsNewest
<1>1. IndInv => SnapshotIsNewest
  BY DEF IndInv
<1> QED BY <1>1, InitInv, NextInv, PTL DEF Spec

\* Every row of the tables is an entry of a ledger of the chain and of a key
\* the program knows: a tombstone stays a row.
THEOREM SnapshotTyped == Spec => []TypeOK
<1>1. IndInv => TypeOK
  BY DEF IndInv
<1> QED BY <1>1, InitInv, NextInv, PTL DEF Spec

-----------------------------------------------------------------------------
(* Listing: keys in the order of the table.                                *)

Pos == Nat \X Nat

LEMMA KeysArePositions ==
    /\ Keys \subseteq Pos /\ <<0, 0>> \in Pos
    /\ \A k \in Keys : Before(<<0, 0>>, k)
  BY ListingAssumption DEF Pos, Before

\* Before is a strict total order.
LEMMA KeyOrder ==
    ASSUME NEW a \in Pos, NEW b \in Pos
    PROVE  /\ ~Before(a, a) /\ ~(Before(a, b) /\ Before(b, a))
           /\ a = b \/ Before(a, b) \/ Before(b, a)
<1>1. a = <<a[1], a[2]>> /\ b = <<b[1], b[2]>>
  BY DEF Pos
<1>2. a[1] \in Int /\ a[2] \in Int /\ b[1] \in Int /\ b[2] \in Int
  BY DEF Pos
<1> QED BY <1>1, <1>2 DEF Before

LEMMA KeyTransitive ==
    ASSUME NEW a \in Pos, NEW b \in Pos, NEW c \in Pos
    PROVE  /\ Before(a, b) /\ Before(b, c) => Before(a, c)
           /\ ~Before(b, a) /\ Before(b, c) => Before(a, c)
<1>1. /\ a[1] \in Int /\ a[2] \in Int /\ b[1] \in Int /\ b[2] \in Int
      /\ c[1] \in Int /\ c[2] \in Int
  BY DEF Pos
<1> QED BY <1>1 DEF Before

\* The keys of S before a key, and those after it.
Earlier(S, k) == {l \in S : Before(l, k)}
Newer(S, k) == {l \in S : Before(k, l)}

\* Counting keys: a set of fewer keys is smaller.
LEMMA Counting ==
    ASSUME NEW S \in SUBSET Keys
    PROVE  /\ Cardinality(S) \in 0..Cardinality(Keys) /\ Cardinality(Keys) \in Nat
           /\ (S = {} => Cardinality(S) = 0)
           /\ \A T \in SUBSET S : /\ Cardinality(T) \in Nat /\ Cardinality(T) <= Cardinality(S)
                                  /\ T # S => Cardinality(T) < Cardinality(S)
<1>1. IsFiniteSet(S) /\ Cardinality(S) <= Cardinality(Keys)
  BY ListingAssumption, FS_Subset
<1>2. Cardinality(S) \in Nat /\ Cardinality(Keys) \in Nat
  BY <1>1, ListingAssumption, FS_CardinalityType
<1>3. S = {} => Cardinality(S) = 0
  BY FS_EmptySet
<1>4. ASSUME NEW T \in SUBSET S
      PROVE  /\ Cardinality(T) \in Nat /\ Cardinality(T) <= Cardinality(S)
             /\ T # S => Cardinality(T) < Cardinality(S)
  <2>1. IsFiniteSet(T) /\ Cardinality(T) <= Cardinality(S) /\ (Cardinality(S) = Cardinality(T) => S = T)
    BY <1>1, FS_Subset
  <2>2. Cardinality(T) \in Nat
    BY <2>1, FS_CardinalityType
  <2> QED BY <1>2, <2>1, <2>2
<1> QED BY <1>1, <1>2, <1>3, <1>4

\* Of some keys one is the last: the one with the most keys before it.
LEMMA LastExists ==
    ASSUME NEW S \in SUBSET Keys, S # {}
    PROVE  \E k \in S : \A l \in S : ~Before(k, l)
<1> DEFINE T == {Cardinality(Earlier(S, k)) : k \in S}
           N == Cardinality(Keys)
<1>1. \A k \in S : Earlier(S, k) \in SUBSET Keys
  BY DEF Earlier
<1>2. N \in Nat /\ T \in SUBSET (0..N) /\ T # {}
  BY <1>1, Counting
<1>3. PICK k \in S : \A l \in S : Cardinality(Earlier(S, l)) <= Cardinality(Earlier(S, k))
  <2>1. PICK x \in T : \A y \in T : y <= x
    <3> HIDE DEF T, N
    <3> QED BY <1>2, GreatestNatural
  <2> QED BY <2>1
<1>4. ASSUME NEW l \in S, Before(k, l)
      PROVE  FALSE
  <2>1. l \in Pos /\ k \in Pos /\ S \subseteq Pos
    BY KeysArePositions
  <2>2. Earlier(S, k) \in SUBSET Earlier(S, l) /\ k \in Earlier(S, l)
    BY <1>4, <2>1, KeyTransitive DEF Earlier
  <2>3. k \notin Earlier(S, k)
    BY <2>1, KeyOrder DEF Earlier
  <2>4. Cardinality(Earlier(S, k)) < Cardinality(Earlier(S, l))
    BY <1>1, <2>2, <2>3, Counting
  <2>5. Cardinality(Earlier(S, k)) \in Nat /\ Cardinality(Earlier(S, l)) \in Nat
    BY <1>1, Counting
  <2> QED BY <1>3, <2>4, <2>5
<1> QED BY <1>4

\* And one is the first: the one with the most keys after it.
LEMMA FirstExists ==
    ASSUME NEW S \in SUBSET Keys, S # {}
    PROVE  \E k \in S : Earlier(S, k) = {}
<1> DEFINE T == {Cardinality(Newer(S, k)) : k \in S}
           N == Cardinality(Keys)
<1>1. \A k \in S : Newer(S, k) \in SUBSET Keys
  BY DEF Newer
<1>2. N \in Nat /\ T \in SUBSET (0..N) /\ T # {}
  BY <1>1, Counting
<1>3. PICK k \in S : \A l \in S : Cardinality(Newer(S, l)) <= Cardinality(Newer(S, k))
  <2>1. PICK x \in T : \A y \in T : y <= x
    <3> HIDE DEF T, N
    <3> QED BY <1>2, GreatestNatural
  <2> QED BY <2>1
<1>4. ASSUME NEW l \in Earlier(S, k)
      PROVE  FALSE
  <2>1. l \in S /\ Before(l, k) /\ l \in Pos /\ k \in Pos /\ S \subseteq Pos
    BY KeysArePositions DEF Earlier
  <2>2. Newer(S, k) \in SUBSET Newer(S, l) /\ k \in Newer(S, l)
    BY <2>1, KeyTransitive DEF Newer
  <2>3. k \notin Newer(S, k)
    BY <2>1, KeyOrder DEF Newer
  <2>4. Cardinality(Newer(S, k)) < Cardinality(Newer(S, l))
    BY <1>1, <2>1, <2>2, <2>3, Counting
  <2>5. Cardinality(Newer(S, k)) \in Nat /\ Cardinality(Newer(S, l)) \in Nat
    BY <1>1, <2>1, Counting
  <2> QED BY <1>3, <2>1, <2>4, <2>5
<1> QED BY <1>4

\* A page: the first rows, with no hole, all of them when they fit.
LEMMA PageRows ==
    ASSUME NEW rows \in SUBSET Keys, NEW limit \in Nat \ {0}
    PROVE  /\ FirstRows(rows, limit) \subseteq rows
           /\ rows # {} => FirstRows(rows, limit) # {}
           /\ \A k \in FirstRows(rows, limit), l \in rows :
                 Before(l, k) => l \in FirstRows(rows, limit)
           /\ Cardinality(rows) <= limit => FirstRows(rows, limit) = rows
<1>1. FirstRows(rows, limit) = {k \in rows : Cardinality(Earlier(rows, k)) < limit}
  BY DEF FirstRows, Earlier
<1>2. rows \subseteq Pos
  BY KeysArePositions
<1>3. \A k \in rows : Earlier(rows, k) \in SUBSET rows /\ Earlier(rows, k) \in SUBSET Keys
  BY DEF Earlier
<1>4. \A k \in rows : Cardinality(Earlier(rows, k)) \in Nat
  BY <1>3, Counting
<1>5. ASSUME rows # {}
      PROVE  FirstRows(rows, limit) # {}
  <2>1. PICK k \in rows : Earlier(rows, k) = {}
    BY <1>5, FirstExists
  <2>2. Cardinality(Earlier(rows, k)) = 0
    BY <2>1, FS_EmptySet
  <2> QED BY <1>1, <2>2
<1>6. ASSUME NEW k \in FirstRows(rows, limit), NEW l \in rows, Before(l, k)
      PROVE  l \in FirstRows(rows, limit)
  <2>1. Earlier(rows, l) \in SUBSET Earlier(rows, k)
    BY <1>1, <1>2, <1>6, KeyTransitive DEF Earlier
  <2>2. Cardinality(Earlier(rows, l)) <= Cardinality(Earlier(rows, k))
    BY <1>1, <1>3, <2>1, Counting
  <2> QED BY <1>1, <1>4, <2>2
<1>7. ASSUME Cardinality(rows) <= limit, NEW k \in rows
      PROVE  k \in FirstRows(rows, limit)
  <2>1. k \notin Earlier(rows, k)
    BY <1>2, KeyOrder DEF Earlier
  <2>2. Cardinality(Earlier(rows, k)) < Cardinality(rows) /\ Cardinality(rows) \in Nat
    BY <1>3, <2>1, Counting
  <2> QED BY <1>1, <1>4, <1>7, <2>2
<1> QED BY <1>1, <1>5, <1>6, <1>7

-----------------------------------------------------------------------------
(* The scan.                                                               *)

ScanOf == [pc: {"idle", "paging", "done"}, filter: Nat, limit: Nat, after: Pos,
           got: SUBSET Keys, page: SUBSET Keys, steady: SUBSET Keys, seen: SUBSET Keys]

\* Between two pages: the history is the table's, the position is behind all
\* that was delivered, and no key that stayed is missing up to it.
Paging ==
    listing.pc = "paging" =>
       /\ listing.limit # 0
       /\ listing.steady \subseteq Live(entries, listing.filter)
       /\ Live(entries, listing.filter) \subseteq listing.seen
       /\ \A k \in listing.got \cup listing.page : ~Before(listing.after, k)
       /\ \A k \in listing.steady :
             ~Before(listing.after, k) => k \in listing.got \cup listing.page

ListInv == IndInv /\ listing \in ScanOf /\ Paging /\ ListingExact

\* A page of a scan that is sound up to its position leaves one that is sound
\* up to the next, or finished.
LEMMA OnePage ==
    ASSUME IndInv, UNCHANGED vars,
           NEW filter \in Nat, NEW limit \in Nat \ {0}, NEW after \in Pos,
           NEW got \in SUBSET Keys, NEW steady \in SUBSET Keys, NEW seen \in SUBSET Keys,
           steady \subseteq Live(entries, filter), Live(entries, filter) \subseteq seen,
           got \subseteq seen,
           \A k \in got : ~Before(after, k),
           \A k \in steady : ~Before(after, k) => k \in got,
           handleStateSnapshot(filter, limit, after, got, steady, seen)
    PROVE  ListInv'
<1> DEFINE live == Live(entries, filter)
           beyond == {k \in live : Beyond(k, after)}
           rows == FirstRows(beyond, limit)
           more == Cardinality(beyond) > limit /\ rows # {}
           next == IF more THEN LastOf(rows) ELSE after
<1>1. live \in SUBSET Keys
  BY DEF Live, IndInv, TypeOK
<1> HIDE DEF live
<1>2. beyond \in SUBSET Keys /\ beyond \subseteq live /\ \A k \in beyond : Before(after, k)
  BY <1>1 DEF Beyond
<1>3. \A k \in live : Before(after, k) => k \in beyond
  BY DEF Beyond
<1>4. listing' = [pc |-> IF more THEN "paging" ELSE "done", filter |-> filter, limit |-> limit,
                  after |-> next, got |-> got, page |-> rows, steady |-> steady, seen |-> seen]
  BY DEF handleStateSnapshot, QueryStateEntries, live
<1> HIDE DEF beyond
<1>5. /\ rows \subseteq beyond /\ (beyond # {} => rows # {})
      /\ \A k \in rows, l \in beyond : Before(l, k) => l \in rows
      /\ Cardinality(beyond) <= limit => rows = beyond
  BY <1>2, PageRows
<1>6. Cardinality(beyond) \in Nat
  BY <1>2, Counting
<1>7. ~more => rows = beyond
  BY <1>5, <1>6
<1>8. more => next \in rows /\ \A k \in rows : ~Before(next, k)
  <2> SUFFICES ASSUME more PROVE next \in rows /\ \A k \in rows : ~Before(next, k)
    OBVIOUS
  <2>1. rows # {} /\ rows \in SUBSET Keys /\ next = LastOf(rows)
    BY <1>2, <1>5
  <2> HIDE DEF rows, next
  <2>2. \E k \in rows : \A l \in rows : ~Before(k, l)
    BY <2>1, LastExists
  <2> QED BY <2>1, <2>2 DEF LastOf
<1>9. ~more => next = after
  OBVIOUS
<1> HIDE DEF rows, more, next
<1>10. rows \in SUBSET Keys /\ next \in Pos /\ rows \subseteq live
  BY <1>2, <1>5, <1>8, <1>9, KeysArePositions
<1>11. listing' \in ScanOf
  BY <1>4, <1>10 DEF ScanOf
<1>12. /\ listing'.pc = (IF more THEN "paging" ELSE "done") /\ listing'.filter = filter
       /\ listing'.limit = limit /\ listing'.after = next /\ listing'.got = got
       /\ listing'.page = rows /\ listing'.steady = steady /\ listing'.seen = seen
  BY <1>4
<1>13. \A k \in rows, l \in got : Before(l, k)
  <2> SUFFICES ASSUME NEW k \in rows, NEW l \in got PROVE Before(l, k)
    OBVIOUS
  <2>1. k \in Pos /\ l \in Pos /\ Before(after, k) /\ ~Before(after, l)
    BY <1>2, <1>5, <1>10, KeysArePositions
  <2> QED BY <2>1, KeyTransitive
<1>14. ASSUME more
       PROVE  /\ \A k \in got \cup rows : ~Before(next, k)
              /\ \A k \in steady : ~Before(next, k) => k \in got \cup rows
  <2>1. next \in rows /\ next \in Keys /\ next \in Pos /\ \A k \in rows : ~Before(next, k)
    BY <1>8, <1>10, <1>14
  <2>2. ASSUME NEW k \in got PROVE ~Before(next, k)
    BY <1>13, <2>1, KeysArePositions, KeyOrder
  <2>3. ASSUME NEW k \in steady, ~Before(next, k), k \notin got
        PROVE  k \in rows
    <3>1. k \in beyond /\ k \in Pos
      BY <1>3, <2>3, KeysArePositions DEF live
    <3>2. k = next \/ Before(k, next)
      BY <2>1, <2>3, <3>1, KeyOrder
    <3> QED BY <1>5, <2>1, <3>1, <3>2
  <2> QED BY <2>1, <2>2, <2>3
<1>15. ASSUME ~more, NEW k \in steady
       PROVE  k \in got \cup rows
  BY <1>3, <1>7, <1>15 DEF live
<1>16. IndInv'
  BY DEF vars, IndInv, TypeOK, SnapshotIsNewest
<1>17. Live(entries, filter)' = live
  BY DEF Live, live, vars, Asked
<1>18. Paging'
  <2> SUFFICES ASSUME more
               PROVE  /\ limit # 0 /\ steady \subseteq live /\ live \subseteq seen
                      /\ \A k \in got \cup rows : ~Before(next, k)
                      /\ \A k \in steady : ~Before(next, k) => k \in got \cup rows
    BY <1>12, <1>17 DEF Paging, Before, Live, Asked, live, vars
  <2> QED BY <1>14 DEF live
<1>19. ListingExact'
  BY <1>10, <1>12, <1>13, <1>15 DEF ListingExact, Before, live
<1> QED BY <1>11, <1>16, <1>18, <1>19 DEF ListInv

LEMMA ListInitInv == ListInit => ListInv
<1> SUFFICES ASSUME ListInit PROVE ListInv
  OBVIOUS
<1>1. IndInv
  BY InitInv DEF ListInit
<1>2. listing \in ScanOf
  BY KeysArePositions DEF ListInit, NotListing, ScanOf
<1>3. Paging /\ ListingExact
  BY DEF ListInit, NotListing, Paging, ListingExact
<1> QED BY <1>1, <1>2, <1>3 DEF ListInv

LEMMA FirstPageInv == ListInv /\ FirstPage => ListInv'
<1> SUFFICES ASSUME ListInv, FirstPage PROVE ListInv'
  OBVIOUS
<1>1. PICK limit \in Limits, filter \in {0} \cup {k[1] : k \in Keys} :
         handleStateSnapshot(filter, limit, <<0, 0>>, {}, Live(entries, filter), Live(entries, filter))
  BY DEF FirstPage
<1>2. limit \in Nat \ {0} /\ filter \in Nat
  BY ListingAssumption
<1>3. IndInv /\ UNCHANGED vars /\ Live(entries, filter) \in SUBSET Keys
  BY DEF ListInv, FirstPage, IndInv, TypeOK, Live
<1>4. <<0, 0>> \in Pos /\ \A k \in Live(entries, filter) : Before(<<0, 0>>, k)
  BY <1>3, KeysArePositions
<1> DEFINE live == Live(entries, filter)
           zero == <<0, 0>>
<1> HIDE DEF live, zero
<1>5. /\ live \in SUBSET Keys /\ live \subseteq Live(entries, filter)
      /\ Live(entries, filter) \subseteq live
      /\ handleStateSnapshot(filter, limit, zero, {}, live, live)
      /\ \A k \in live : ~Before(zero, k) => k \in {}
      /\ zero \in Pos
  BY <1>1, <1>3, <1>4 DEF live, zero
<1>6. {} \in SUBSET Keys /\ {} \subseteq live /\ \A k \in {} : ~Before(zero, k)
  OBVIOUS
<1> QED BY <1>2, <1>3, <1>5, <1>6, OnePage

LEMMA NextPageInv == ListInv /\ NextPage => ListInv'
<1> SUFFICES ASSUME ListInv, NextPage PROVE ListInv'
  OBVIOUS
<1>1. /\ IndInv /\ UNCHANGED vars /\ listing \in ScanOf /\ listing.pc = "paging"
      /\ handleStateSnapshot(listing.filter, listing.limit, listing.after,
                             listing.got \cup listing.page, listing.steady, listing.seen)
  BY DEF ListInv, NextPage
<1> DEFINE got == listing.got \cup listing.page
<1>2. /\ listing.filter \in Nat /\ listing.limit \in Nat \ {0} /\ listing.after \in Pos
      /\ got \in SUBSET Keys /\ listing.steady \in SUBSET Keys /\ listing.seen \in SUBSET Keys
  BY <1>1 DEF ListInv, ScanOf, Paging
<1>3. /\ listing.steady \subseteq Live(entries, listing.filter)
      /\ Live(entries, listing.filter) \subseteq listing.seen
      /\ \A k \in got : ~Before(listing.after, k)
      /\ \A k \in listing.steady : ~Before(listing.after, k) => k \in got
  BY <1>1 DEF ListInv, Paging
<1>4. got \subseteq listing.seen
  BY DEF ListInv, ListingExact
<1> HIDE DEF got
<1> QED BY <1>1, <1>2, <1>3, <1>4, OnePage DEF got

LEMMA WrittenInv == ListInv /\ Written => ListInv'
<1> SUFFICES ASSUME ListInv, Written PROVE ListInv'
  OBVIOUS
<1>1. IndInv'
  BY NextInv DEF ListInv, Written
<1>2. CASE listing.pc # "paging"
  <2>1. listing' = listing
    BY <1>2 DEF Written
  <2> QED BY <1>1, <1>2, <2>1 DEF ListInv, Paging, ListingExact, Before
<1>3. CASE listing.pc = "paging"
  <2> DEFINE live == Live(entries', listing.filter)
  <2>1. live \in SUBSET Keys
    BY <1>1 DEF Live, IndInv, TypeOK
  <2>2. listing' = [listing EXCEPT !.steady = @ \cap live, !.seen = @ \cup live]
    BY <1>3 DEF Written
  <2>3. \A f : Live(entries, f)' = Live(entries', f)
    BY DEF Live, Asked
  <2> HIDE DEF live
  <2>4. /\ listing' \in ScanOf /\ listing'.pc = listing.pc /\ listing'.filter = listing.filter
        /\ listing'.limit = listing.limit /\ listing'.after = listing.after
        /\ listing'.got = listing.got /\ listing'.page = listing.page
        /\ listing'.steady = listing.steady \cap live /\ listing'.seen = listing.seen \cup live
    BY <2>1, <2>2 DEF ListInv, ScanOf
  <2>5. Paging'
    <3>1. Live(entries, listing.filter)' = live
      BY <2>4 DEF live, Live, Asked
    <3> QED BY <1>3, <2>4, <3>1 DEF ListInv, Paging, Before
  <2>6. ListingExact'
    BY <1>3, <2>4 DEF ListInv, ListingExact, Before
  <2> QED BY <1>1, <2>4, <2>5, <2>6 DEF ListInv
<1> QED BY <1>2, <1>3

\* A client that pages through a contract's current state or trustlines gets
\* every key that stayed live, no key twice and no key that was never live,
\* for every page size and whatever the writers commit between two pages.
THEOREM ListingsAreExact == ListSpec => []ListingExact
<1>1. ListInv /\ [ListNext]_<<vars, listing>> => ListInv'
  <2> SUFFICES ASSUME ListInv, [ListNext]_<<vars, listing>> PROVE ListInv'
    OBVIOUS
  <2>1. CASE UNCHANGED <<vars, listing>>
    BY <2>1 DEF vars, ListInv, IndInv, TypeOK, SnapshotIsNewest, Paging, ListingExact, Live, Asked,
       Before
  <2>2. CASE ListNext
    BY <2>2, FirstPageInv, NextPageInv, WrittenInv DEF ListNext
  <2> QED BY <2>1, <2>2
<1>2. ListInv => ListingExact
  BY DEF ListInv
<1> QED BY <1>1, <1>2, ListInitInv, PTL DEF ListSpec

=============================================================================
