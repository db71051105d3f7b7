------------------------------ MODULE Snapshot -------------------------------
(***************************************************************************)
(* The current-state tables state_entries and trustline_entries: folds of  *)
(* ledger changes that arrive in any order.  The live loop writes upwards, *)
(* the backfiller and the healer's workers write chunks downwards, crashes *)
(* and plans make them write ranges again.  What must come out is what the *)
(* chain says of every key, as far as its ledgers were written.            *)
(***************************************************************************)
EXTENDS Integers

CONSTANTS
    MaxLedger,
    MaxIndex,   \* changes a ledger may hold
    Keys,       \* (contract, key, durability), or (contract, account)
    Chain       \* the changes: [ledger, index, key, post, removed]

Ledgers == 1..MaxLedger
Change == [ledger: Ledgers, index: 1..MaxIndex, key: Keys, post: Nat, removed: BOOLEAN]

ASSUME SnapshotAssumption ==
    /\ MaxLedger \in Nat /\ MaxIndex \in Nat
    /\ Chain \subseteq Change
    \* a position on the chain holds one change
    /\ \A c, d \in Chain : c.ledger = d.ledger /\ c.index = d.index => c = d

VARIABLES
    entries,    \* key -> [post, deleted, last]; no row: a key never written
    written     \* the ledgers some commit carried

vars == <<entries, written>>

Entry == [post: Nat, deleted: BOOLEAN, last: Ledgers]

TypeOK ==
    /\ DOMAIN entries \subseteq Keys
    /\ \A k \in DOMAIN entries : entries[k] \in Entry
    /\ written \subseteq Ledgers

Init == entries = [k \in {} |-> 0] /\ written = {}

Later(c, d) == c.ledger > d.ledger \/ (c.ledger = d.ledger /\ c.index > d.index)

\* The changes of a key that a set of ledgers carries.
Of(k, ledgers) == {c \in Chain : c.key = k /\ c.ledger \in ledgers}

IsNewest(c, S) == c \in S /\ \A d \in S : ~Later(d, c)

\* Within the slice the later change to a key wins: final[k].
Newest(k, ledgers) == CHOOSE c \in Of(k, ledgers) : IsNewest(c, Of(k, ledgers))

\* Mutant: the row is stamped with the ledger before the change.
Row_Before(c) ==
    [post |-> IF c.removed THEN 0 ELSE c.post, deleted |-> c.removed, last |-> c.ledger - 1]

\* A removal leaves a tombstone, never a missing row.
Row(c) == [post |-> IF c.removed THEN 0 ELSE c.post, deleted |-> c.removed, last |-> c.ledger]

\* Mutant: a tombstone is overwritten whatever its ledger.
Wins_Tombstone(k, c) ==
    k \in DOMAIN entries => entries[k].deleted \/ entries[k].last <= c.ledger

\* ON CONFLICT DO UPDATE ... WHERE last_ledger <= EXCLUDED.last_ledger
Wins(k, c) == k \in DOMAIN entries => entries[k].last <= c.ledger

applyEntries(ledgers) ==
    LET touched == {k \in Keys : Of(k, ledgers) # {}}
        wins(k) == k \in touched /\ Wins(k, Newest(k, ledgers))
    IN  [k \in DOMAIN entries \cup touched |->
            IF wins(k) THEN Row(Newest(k, ledgers)) ELSE entries[k]]

\* One transaction of any writer: a ledger of the live loop, a chunk of a
\* walk, a chunk of a gap, again or for the first time.
Commit(from, to) ==
    /\ entries' = applyEntries(from..to)
    /\ written' = written \cup (from..to)

Next == \E from \in Ledgers : \E to \in from..MaxLedger : Commit(from, to)

Spec == Init /\ [][Next]_vars

-----------------------------------------------------------------------------
\* "The last_ledger guard keeps out-of-order replays from overwriting newer
\* state": whatever the order and the repetition of the writes, a key's row
\* is the newest change the written ledgers hold for it, and a key they do
\* not change has no row.
SnapshotIsNewest ==
    /\ DOMAIN entries = {k \in Keys : Of(k, written) # {}}
    /\ \A k \in DOMAIN entries :
          \E c \in Of(k, written) : IsNewest(c, Of(k, written)) /\ entries[k] = Row(c)

=============================================================================
