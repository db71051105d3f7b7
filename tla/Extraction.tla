----------------------------- MODULE Extraction ------------------------------
(***************************************************************************)
(* internal/extract: what one closed ledger yields for a set of watched    *)
(* contracts.  The live loop, the backfiller and the healer extract the    *)
(* same ledger against different watch sets and at different times, and    *)
(* the rows meet in one table under ON CONFLICT DO NOTHING; Store.Derive   *)
(* and the equivalence gate rest on the properties at the end.             *)
(*                                                                         *)
(* A ledger is a sequence of transactions, a transaction the contract      *)
(* events of its operations, in order, and the raw change vector of the    *)
(* meta of each.  Values are abstracted to whether they decode.            *)
(***************************************************************************)
EXTENDS Integers, FiniteSetsExt, SequencesExt

CONSTANTS
    Contracts,
    Accounts,       \* addresses that are not contracts
    LedgerKeys,     \* a sequence, in the byte order of the keys: [class, owner]
    EventCatalog,   \* events an operation may emit
    UnitCatalog,    \* change units an operation may make
    Watches,        \* watch sets to extract against
    MaxTxs,         \* bound: transactions in a ledger
    MaxItems        \* bound: events and change units in a transaction

Kinds == {"events", "state", "transfers", "trustlines", "movements"}
Names == {"transfer", "mint", "burn", "clawback", "other"}

\* form: what the bytes of the event hold.  "later" has a body version this
\* build does not know, "unencodable" does not marshal, "undecodable" has
\* topics or data that are not a token movement's, "nil" panics where it is read.
Forms == {"plain", "later", "unencodable", "undecodable", "nil"}

Event == [emitter: Contracts, name: Names, addrs: Seq(Contracts \cup Accounts), form: Forms]

\* class of a ledger key: contract data, data that does not encode, a trustline, a
\* pool share, a trustline that cannot be read, one whose asset is a nil union.
Classes == {"data", "unencodable", "trustline", "pool", "unreadable", "nil"}

\* A raw entry of a change vector; val 0 stands for no value.
RawChange == [type: {"state", "created", "updated", "removed", "restored"},
              key: DOMAIN LedgerKeys, val: Nat]

ASSUME ExtractionAssumption ==
    /\ EventCatalog \subseteq Event
    /\ UnitCatalog \subseteq Seq(RawChange)
    \* core writes what an update or a removal replaces right before it
    /\ \A u \in UnitCatalog : \A i \in DOMAIN u :
          u[i].type \in {"updated", "removed"} => i > 1 /\ u[i - 1].type = "state"
    /\ \A i \in DOMAIN LedgerKeys : LedgerKeys[i] \in [class: Classes, owner: Contracts]
    /\ Watches \subseteq [Contracts -> SUBSET Kinds]
    \* no contract's strkey is empty
    /\ "" \notin Contracts
    /\ MaxTxs \in Nat /\ MaxItems \in Nat

VARIABLE ledger     \* the transactions of the ledger being extracted

\* state: what the reader makes of the transaction.
TxStates == {"ok", "failed", "unreadable", "noevents", "nochanges"}

ExtractionInit == ledger = <<>>

\* The bound on a ledger's size is per transaction.
Items(tx) ==
    LET made(changes) == SelectSeq(changes, LAMBDA c : c.type # "state")
    IN  Len(tx.events) + MapThenSumSet(LAMBDA j : Len(made(tx.metas[j])), DOMAIN tx.metas)

KeysOf(changes) == {changes[i].key : i \in DOMAIN changes}

\* The ledgers the properties are checked on: every one the bounds allow.
AddTx ==
    /\ Len(ledger) < MaxTxs
    /\ \E s \in TxStates :
          ledger' = Append(ledger, [state |-> s, events |-> <<>>, metas |-> <<<<>>>>])

AddOp ==
    /\ ledger # <<>> /\ Len(Last(ledger).metas) < 2
    /\ Last(Last(ledger).metas) # <<>>
    /\ ledger' = [ledger EXCEPT ![Len(ledger)].metas = Append(@, <<>>)]

AddEvent ==
    /\ ledger # <<>> /\ Items(Last(ledger)) < MaxItems
    /\ \E ev \in EventCatalog :
          ledger' = [ledger EXCEPT ![Len(ledger)].events = Append(@, ev)]

\* The meta of one operation holds one unit per ledger key.
AddChange ==
    /\ ledger # <<>> /\ Items(Last(ledger)) < MaxItems
    /\ LET metas == Last(ledger).metas
       IN  \E u \in UnitCatalog :
              /\ KeysOf(u) \cap KeysOf(Last(metas)) = {}
              /\ ledger' = [ledger EXCEPT ![Len(ledger)].metas =
                               [metas EXCEPT ![Len(metas)] = @ \o u]]

\* Every change vector of one or two units.
Vectors == UnitCatalog \cup {p[1] \o p[2] : p \in {q \in UnitCatalog \X UnitCatalog :
                                                 KeysOf(q[1]) \cap KeysOf(q[2]) = {}}}

ExtractionNext == AddTx \/ AddOp \/ AddEvent \/ AddChange

ExtractionSpec == ExtractionInit /\ [][ExtractionNext]_ledger

-----------------------------------------------------------------------------
(* The registry snapshot.                                                  *)

HasKind(watch, c, k) == c \in Contracts /\ k \in watch[c]

AnyKind(watch, k) == \E c \in Contracts : k \in watch[c]

-----------------------------------------------------------------------------
(* Token movements.                                                        *)

IsMovement(ev) == ev.form # "later" /\ ev.name # "other"

\* Mutant: only the first address topic is looked at.
participatesWatched_First(ev, watch) ==
    ev.addrs # <<>> /\ HasKind(watch, ev.addrs[1], "movements")

\* The cheap pre-check: any address topic, the admin's included.
participatesWatched(ev, watch) ==
    \E i \in DOMAIN ev.addrs : HasKind(watch, ev.addrs[i], "movements")

emitsTransfers(ev, watch) == HasKind(watch, ev.emitter, "transfers")

wantMovements(ev, watch) ==
    AnyKind(watch, "movements") /\ participatesWatched(ev, watch)

\* buildTransfer is reached.
Decodes(ev, watch) ==
    IsMovement(ev) /\ (emitsTransfers(ev, watch) \/ wantMovements(ev, watch))

\* Both topic generations: the admin of a classic mint or clawback comes first.
buildTransfer(ev) ==
    [ok   |-> /\ ev.form # "undecodable"
              /\ IF ev.name = "transfer" THEN Len(ev.addrs) = 2 ELSE ev.addrs # <<>>,
     from |-> CASE ev.name \in {"transfer", "burn"} -> Head(ev.addrs)
                [] ev.name = "clawback"             -> Last(ev.addrs)
                [] OTHER                            -> "",
     to   |-> IF ev.name \in {"transfer", "mint"} THEN Last(ev.addrs) ELSE ""]

\* A self-transfer yields one attribution per role.
movementsOf(t, ev, id, watch) ==
    {[kind |-> "movements", contract |-> r[1], id |-> id, role |-> r[2], of |-> ev] :
        r \in {p \in {<<t.from, "sender">>, <<t.to, "recipient">>} :
                  HasKind(watch, p[1], "movements")}}

-----------------------------------------------------------------------------
(* One transaction: rows, and what was refused, by counter.                *)

Row(kind, contract, id, ev) == [kind |-> kind, contract |-> contract, id |-> id, of |-> ev]

\* What one event gives: the rows, and the counters it bumps.
eventRows(ev, id, watch) ==
    LET emits == emitsTransfers(ev, watch)
        wants == wantMovements(ev, watch)
        counter == IF emits THEN "SuppressedTransfers" ELSE "ForeignUndecodable"
        t == buildTransfer(ev)
        wanted == HasKind(watch, ev.emitter, "events")
        built == ev.form \notin {"later", "unencodable"}
        encodes == ev.form # "unencodable"
    IN  [rows |->
            (IF wanted /\ built THEN {Row("events", ev.emitter, id, ev)} ELSE {})
            \cup (IF Decodes(ev, watch) /\ t.ok /\ emits
                  THEN {Row("transfers", ev.emitter, id, ev)} ELSE {})
            \cup (IF Decodes(ev, watch) /\ t.ok /\ wants /\ encodes
                  THEN movementsOf(t, ev, id, watch) ELSE {}),
         lost |->
            (IF wanted /\ ~built THEN {"SuppressedEvents"} ELSE {})
            \cup (IF Decodes(ev, watch) /\ (~t.ok \/ (wants /\ ~encodes))
                  THEN {counter} ELSE {})]

\* The SDK's GetChanges (external): a STATE and what follows it are one change,
\* and the changes of a vector come in the order of their ledger keys.
ChangesMade(changes) ==
    LET made == {i \in DOMAIN changes : changes[i].type # "state"}
        pre(i) == IF changes[i].type \in {"updated", "removed"} THEN changes[i - 1].val ELSE 0
    IN  {[type |-> changes[i].type, key |-> changes[i].key,
          pre |-> pre(i), post |-> changes[i].val] : i \in made}

InKeyOrder(made) == SetToSortSeq(made, LAMBDA c, d : c.key < d.key)

GetChanges(changes) == InKeyOrder(ChangesMade(changes))

\* What one change gives.
changeRows(ch, id, watch) ==
    LET key == LedgerKeys[ch.key]
        row == [kind |-> IF key.class = "data" THEN "state" ELSE "trustlines",
                contract |-> key.owner, id |-> id, key |-> ch.key,
                type |-> ch.type, pre |-> ch.pre, post |-> ch.post]
        derives == AnyKind(watch, "trustlines")
    IN  [rows |-> IF \/ key.class = "data" /\ HasKind(watch, key.owner, "state")
                     \/ key.class = "trustline" /\ HasKind(watch, key.owner, "trustlines")
                  THEN {row} ELSE {},
         lost |-> CASE key.class = "unencodable" /\ HasKind(watch, key.owner, "state")
                          -> {"SuppressedEvents"}
                    [] key.class = "unreadable" /\ derives -> {"SuppressedTrustlines"}
                    [] OTHER -> {}]

EventsIn(tx) == IF tx.state = "noevents" THEN <<>> ELSE tx.events
ChangesIn(tx) == IF tx.state = "nochanges" THEN <<>>
                 ELSE FlattenSeq([i \in DOMAIN tx.metas |-> GetChanges(tx.metas[i])])

\* Items the walk over the events, then the changes, panics on.  Every event
\* here is a contract event; the loop passes over the others by their type.
EventPanics(ev, watch) ==
    ev.form = "nil" /\ (HasKind(watch, ev.emitter, "events") \/ Decodes(ev, watch))
ChangePanics(ch, watch) ==
    LedgerKeys[ch.key].class = "nil" /\ AnyKind(watch, "trustlines")

Panics(tx, watch) ==
    \/ \E i \in DOMAIN EventsIn(tx) : EventPanics(EventsIn(tx)[i], watch)
    \/ \E i \in DOMAIN ChangesIn(tx) : ChangePanics(ChangesIn(tx)[i], watch)

\* Mutant: the index counts only the items of watched emitters.
Index_AfterFilter(items, i, watch) ==
    Cardinality({j \in 1..(i - 1) : HasKind(watch, items[j].emitter, "events")})

\* The index of an item counts every one before it, stored or not.
Index(items, i, watch) == i - 1

\* The items walked before a panic, if there is one.  A panicking event also
\* keeps its transaction's changes from being read.
Walked(tx, watch) ==
    LET events == EventsIn(tx)
        changes == ChangesIn(tx)
        badEvent(i) == EventPanics(events[i], watch)
        badChange(i) == ChangePanics(changes[i], watch)
    IN  [events |-> {i \in DOMAIN events : \A j \in DOMAIN events : j <= i => ~badEvent(j)},
         changes |-> {i \in DOMAIN changes :
                        /\ \A j \in DOMAIN events : ~badEvent(j)
                        /\ \A j \in DOMAIN changes : j <= i => ~badChange(j)}]

\* One transaction, n-th of its ledger.  An event or a change that is refused
\* is counted; one broken transaction is one suppression, however many
\* extractors trip over it.
processTx(tx, n, watch) ==
    LET events == EventsIn(tx)
        changes == ChangesIn(tx)
        walked == Walked(tx, watch)
        out == {eventRows(events[i], <<n, Index(events, i, watch)>>, watch) : i \in walked.events}
               \cup {changeRows(changes[i], <<n, i - 1>>, watch) : i \in walked.changes}
        broken == tx.state \in {"noevents", "nochanges"} \/ Panics(tx, watch)
    IN  CASE tx.state = "unreadable" -> [rows |-> {}, lost |-> {}, count |-> "SuppressedTxs"]
          [] tx.state = "failed"     -> [rows |-> {}, lost |-> {}, count |-> "FailedTxs"]
          [] OTHER -> [rows |-> UNION {o.rows : o \in out}, lost |-> UNION {o.lost : o \in out},
                       count |-> IF broken THEN "SuppressedTxs" ELSE ""]

\* The rows of the whole ledger; an empty registry opens nothing.
EventsOf(watch) ==
    IF \A c \in Contracts : watch[c] = {} THEN {}
    ELSE UNION {processTx(ledger[n], n, watch).rows : n \in DOMAIN ledger}

-----------------------------------------------------------------------------
(* The equivalence gate's canonical form of a change vector.               *)

Absorbed(changes, i) ==
    i > 1 /\ changes[i - 1].type = "state" /\ changes[i].type \in {"updated", "removed"}

\* Mutant: a unit is compared by what it leaves, not by what it replaces.
UnitAt_PostOnly(changes, i) ==
    IF i < Len(changes) /\ Absorbed(changes, i + 1) THEN <<changes[i + 1]>> ELSE <<changes[i]>>

\* A STATE and the UPDATED or REMOVED after it travel together.
UnitAt(changes, i) ==
    IF i < Len(changes) /\ Absorbed(changes, i + 1)
    THEN <<changes[i], changes[i + 1]>> ELSE <<changes[i]>>

\* Sorting units by their bytes keeps of a vector which units it holds.
canonicalizeChanges(changes) ==
    {UnitAt(changes, i) : i \in {j \in DOMAIN changes : ~Absorbed(changes, j)}}

-----------------------------------------------------------------------------
Only(c, k) == [d \in Contracts |-> IF d = c THEN {k} ELSE {}]

\* "Ids stay stable regardless of what we store" (decision D7), and the rows
\* with them: what a ledger yields for a contract and a kind does not depend on
\* what else is watched, so the live loop, a chunk of the backfiller and a heal
\* write the same rows, and together what one pass over all of them would.
\* Unless a getter panics: then the rest of that transaction is given up.
Projection ==
    LET alone == [p \in Contracts \X Kinds |-> EventsOf(Only(p[1], p[2]))]
    IN  \A watch \in Watches :
           \/ \E n \in DOMAIN ledger : Panics(ledger[n], watch)
           \/ EventsOf(watch)
                = UNION {alone[p] : p \in {q \in DOMAIN alone : q[2] \in watch[q[1]]}}

\* The addresses whose balance an event moves, by its kind.
Parties(ev) ==
    IF ev.addrs = <<>> THEN {}
    ELSE CASE ev.name = "transfer"              -> Range(ev.addrs)
           [] ev.name = "burn"                  -> {Head(ev.addrs)}
           [] ev.name \in {"mint", "clawback"}  -> {Last(ev.addrs)}
           [] OTHER                             -> {}

\* "Per-transaction damage never fails the ledger, it is counted instead": in a
\* transaction that was neither failed nor suppressed, whatever is owed to a
\* registration is a row or was counted, and the counters that alert are bumped
\* only for emitters whose transfers are indexed.
Accounted ==
    \A watch \in Watches : \A n \in DOMAIN ledger :
       LET out == processTx(ledger[n], n, watch)
           events == EventsIn(ledger[n])
           changes == ChangesIn(ledger[n])
           has(kind, c, i) == \E r \in out.rows : r.kind = kind /\ r.contract = c /\ r.id = <<n, i - 1>>
           undecoded == out.lost \cap {"SuppressedTransfers", "ForeignUndecodable"} # {}
       IN  out.count = "" =>
              /\ \A i \in DOMAIN events :
                    LET ev == events[i]
                    IN  /\ HasKind(watch, ev.emitter, "events") =>
                              has("events", ev.emitter, i) \/ "SuppressedEvents" \in out.lost
                        /\ HasKind(watch, ev.emitter, "transfers") /\ IsMovement(ev) =>
                              has("transfers", ev.emitter, i) \/ "SuppressedTransfers" \in out.lost
                        /\ \A c \in Parties(ev) :
                              HasKind(watch, c, "movements") /\ IsMovement(ev) =>
                                 has("movements", c, i) \/ undecoded
              /\ \A i \in DOMAIN changes :
                    LET key == LedgerKeys[changes[i].key]
                    IN  /\ key.class \in {"data", "unencodable"} /\ HasKind(watch, key.owner, "state") =>
                              has("state", key.owner, i) \/ "SuppressedEvents" \in out.lost
                        /\ key.class \in {"trustline", "unreadable"}
                              /\ HasKind(watch, key.owner, "trustlines") =>
                              has("trustlines", key.owner, i) \/ "SuppressedTrustlines" \in out.lost
              /\ "SuppressedTransfers" \in out.lost =>
                    \E i \in DOMAIN events : HasKind(watch, events[i].emitter, "transfers")

\* "Within-vector unit order carries no meaning": a replay whose change vector
\* is equal to the RPC's once both are canonical yields the same rows under the
\* same ids, whatever order core emitted it in.
GateMeansSameRows ==
    \A u \in Vectors :
       LET watch == [c \in Contracts |-> Kinds]
           with(v) == processTx([state |-> "ok", events |-> <<>>, metas |-> <<v>>], 1, watch)
       IN  \A n \in DOMAIN ledger : \A j \in DOMAIN ledger[n].metas :
              LET v == ledger[n].metas[j]
              IN  canonicalizeChanges(u) = canonicalizeChanges(v) => with(u) = with(v)

=============================================================================
