# sierpe: a TLA+ verification of the indexer

sierpe indexes the ledgers of a Stellar network for a set of registered contracts and
serves what it derived, together with a statement of what it has derived. That statement is
the product: an answer must never say "nothing happened" where it should say "not indexed
yet" (the repository's *rule 7*). This directory models the protocol that keeps the
statement true, checks it with TLC on small instances and proves its safety with TLAPS.

## 1. Inventory

| Component | Source | State it keeps | Operations |
|---|---|---|---|
| Gap table | `internal/store/{store,plan,heal}.go` | range → open, heal watermark, mode | RecordGap, ReopenGaps, PlanHeal, the gap row of CommitHealChunk |
| Store transactions | `internal/store/*.go` | cursor, ledger ring, registrations, walks, gaps, derived rows | CommitLedger, CommitBackfillChunk, CommitHealChunk, EnsureBackfill, UpsertContract, DeleteContract |
| Current-state snapshots | `internal/store/{state,trustlines}.go` | key → newest post image | applyStateEntries, applyTrustlineEntries |
| Backfiller | `internal/ingest/backfill.go` | round, groups, a one-entry scan cache | list, scan, clamp at the retention wall, commit per contract |
| Gap healer | `internal/ingest/heal.go` | claims of its workers, the equivalence gate | verify a sample, claim, replay, commit |
| Live loop | `internal/ingest/loop.go` | next ledger, expected predecessor, readiness | verify network, resume, fetch, check continuity, commit |
| RPC client | `internal/source/rpc/*.go` | preferred endpoint, remembered batch size | failover, window classification, batches |
| Admin API | `internal/admin/admin.go` | none of its own | register, delete, plan |
| Registry | `internal/registry` | the published snapshot | reload |
| Read API | `internal/api/*.go` | none; the client holds a cursor | paged scans with a coverage verdict, listings of the current state |
| Extraction | `internal/extract/*.go` | none | the rows and counters of one ledger for a watch set |
| Classifier | `internal/registry/classify.go` | none | the events a contract declares, from untrusted bytes |
| Status | `internal/health`, `cmd/sierpe/main.go` | readiness, polled counters | polls, `gaps_pending_heal` |
| Core adapter, config, auth, console, migrations, metrics | | | see §8 |

**How they interact.** Everything meets in the database. One process runs the live loop
(upwards from the cursor), the backfiller (downwards from a registration's anchor) and the
heal workers (downwards through a gap). None holds a lock on the rows it is working from: each
lists, downloads for minutes, and commits. The admin API changes registrations, walks and gaps
meanwhile, as several transactions per request, and the ingesting process learns of them when
its registry snapshot is reloaded. The read API answers from four reads outside a transaction.
When the RPC no longer serves what a walk needs, the walk is *clamped* at the wall and the
range below it becomes an open gap; a heal of that gap drags the clamped walks down with it.
Walks and gaps are joined by the number of the wall alone.

**What is hard here.** Rows read before a download and written after it; requests that
stop between two transactions; walks, gaps and plans that overlap in ways one test does not
set up; crashes between the transactions of a clamp; a commit whose acknowledgement is lost;
endpoints with different tips, windows or forks; the ends of `uint32`; and loops that must
terminate. The list, line by line, is `hazards` in `PROJECT.json`.

**What makes each part correct.**

* Store, backfiller, healer, admin: what the API vouches for was derived; what was not
  derived is covered by a walk or owed by a gap; walks end; clamps are released.
* Gap table: open gaps never overlap; a watermark stays in its gap; a plan changes how gaps
  are healed and never what is owed.
* Live loop: no ledger is skipped, the recorded ring is one chain, a fatal stop is a real one,
  the cursor reaches the tip.
* RPC batches: no ledger is skipped, probing is paced, a scan finishes.
* Snapshots: any order and repetition of commits converges to the newest change.
* Read API: a page vouches for derived ledgers only; COMPLETE means complete; scans end; a
  cursor resumes its own scan and no other; a listing misses nothing that was there throughout.
* Extraction: what a ledger yields for a contract and kind does not depend on what else is
  watched, and whatever is refused is counted.
* Classifier: code cut or malformed anywhere is never an error; a whole spec section is read
  whatever follows it, and code that is merely cut never yields half of one.
* Status: the count an operator waits on settles on the gaps left to replay.
* Equivalence gate: nothing is healed before a whole sample was proven equal.

## 2. Modules

```
Gaps ── Store ─┬─ Backfiller ─┐
               ├─ Healer ─────┼─ Indexer ── MCIndexer
               └─ Admin ──────┘
RpcPool ── LiveLoop          RpcBatch ── MCRpcBatch
ReadApi ── MCReadApi         Snapshot ── Listing ── MCSnapshot
HealGate ── Status

Gaps ── PlanAlgebra ─┐
Extraction ──────────┼─ MCAlgorithms
PageCursor ──────────┤
Classifier ──────────┘

Indexer implements Coverage          LiveLoop implements LedgerFeed

Indexer_proofs ── Coverage_proofs
LiveLoop_proofs    RpcBatch_proofs    HealGate_proofs
ReadApi_proofs     Snapshot_proofs (of Snapshot and Listing)
Algorithms_proofs (of PlanAlgebra, Extraction, PageCursor and Classifier)
```

**Gaps** has no state. A gap is identified by its range, as the primary key of the table is
built from it, and each SQL statement is an operator on the table. `RecordGapRows` inserts the
uncovered parts of a range, reopens a resolved row of the same range, and rewinds the open
gaps it touches; `PlanHealRows` cuts open gaps into pieces, some to replay, some deferred.

**Store** declares the tables as variables and one operator per transaction. Derived rows are
abstracted to the set of ledgers derived per contract and kind: no row is ever updated in the
insert-only tables, so that set is all a property can tell apart.

**Backfiller** is the round of `Run`: `List`, then groups of walks that share a chunk of the
ledger grid, for each a cached scan, a scan, or the discovery of a wall, the gap, the scan above the
wall, and a commit for each contract. Every `return err` of the code is a step of its own
(`ScanFails`, `AbandonClamp`, `CommitFails`, `CloseEmptyWalkFails`).

**Healer** is the worker loop: list, claim under the mutex, replay and commit, or fail.
**Admin** is `handleRegister` store call by store call (`RegisterContract`, `AnchorWalk`,
`PlanWalk`, `RequestFails`), `handleDelete` and `handlePlan`.

**Indexer** composes the four over one store, with the live loop as one step per committed
ledger, the registry snapshot, the ledger source and crashes. The constant `Races` names the
overlaps that break the coverage promise (§4). With `Races = {}` a request does not overlap a
chunk or a listing in flight, no gap is listed or healed while a group is being clamped, a
request runs to its end, and a plan cuts no piece with the range of a resolved gap;
everything else interleaves freely. Requests do not overlap one another under any value of
`Races` (§8).

**RpcPool** and **LiveLoop** are the loop in detail over a pool of endpoints with their own
tips, windows and forks: boot, resume from the cursor, the fetch with failover, the window
error and the probe that classifies it (two calls, perhaps two endpoints), continuity, commit,
failed commits, commits that landed but lost their acknowledgement, crash and restart.

**RpcBatch** is the adaptive batch size: two atomics shared by several callers.
**ReadApi** is one scan of a client: contract, page, cursor and walk read in that order while
commits happen, the coverage computed from them, and the next page. Every overlap is allowed; a history
component, `scan.raced`, notes which of them a scan has met, so that a property can say under
which it holds.
**Snapshot** is the fold of out-of-order commits into the current-state tables, guarded by
`last_ledger`; **Listing** is a client that pages through such a table while the writers of
Snapshot commit between its pages. A page is the set of its keys, the first of the table beyond
the position in the cursor; the order of the table is that of the pairs of key and durability, and a
key of 0 stands for one that was not given. The history components `steady` and `seen` hold the
keys that had a live row in every, and in some, state since the scan began.
**HealGate** is `awaitVerified` and `verifyEquivalence`; **Status** adds `feedStatus`, which
reads the two gap counters behind `/status` by two queries, beside the healer.

**Extraction** is one ledger and what `Events` makes of it for a watch set: rows, counters, and
what a panic costs. A transaction has the events of its operations in order, which is all the event
index depends on, and one raw change vector per operation. The same
module holds the canonical form in which the equivalence gate compares change vectors. A
behaviour builds a ledger item by item; the properties quantify over the watch sets.
**PageCursor** is the cursor of the seven paged endpoints, as the JSON object it is: fields
under their short names, zero fields omitted, names shared between payloads. The five hand-written
pairs of encoder and decoder are one generic pair over a table of their fields.
**Classifier** is the walk over a wasm section table, one section per step, on a module cut at
any byte and followed there by anything (cut at zero, the code is not a compiler's at all); bytes are shrunk to below `2 * Continues`, and varints to two of them.
**PlanAlgebra** holds the loops of `normalizePlan`, `partition`, `uncoveredRanges` and
`findWall`, one step per iteration, and compares them with the set definitions that
Gaps and Backfiller use, so those modules can stay at the level of sets. `uint32` is a constant
`MaxLedger` at which additions wrap. A loop meets the elements of its slice as it goes, in the order
of the sort before it: the properties hold of every prefix of every input. Between two probes of `findWall`
retention may move on (`Prune`).

**Coverage** and **LedgerFeed** are abstract: what the indexer promises about history (there
are ledgers it has and ledgers it vouches for; indexing never vouches for what it does not
have and never takes a claim back, only a request does), and what the rest of the process
takes the live loop for (a first ledger, then always the next). `ImplementsCoverage` in
Indexer maps the derived rows and the vouched range of each walk; `ImplementsFeed` in LiveLoop
maps the cursor and a history of ingested ledgers. LedgerFeed justifies that Indexer has one
step for the live loop.

`map` in `PROJECT.json` gives the source lines of each definition.

## 3. Passing runs

| Run | Shows |
|---|---|
| `indexer_quiet` | Two contracts with different floors, plans, walls, heals and a crash: coverage is honest (`CoverageHonest`), every ledger a finished walk left out is derived or owed (`NothingLost`), a plan keeps the owed set (`PlanKeepsOwed`), and the process implements Coverage (`ImplementsCoverage`). |
| `indexer_kinds` | The same per kind while re-registrations add and drop kinds and move the floor, two workers heal, chunks fail and the snapshot is a ledger stale; types, and the gap table stays sound (`GapsSound`). |
| `indexer_live` | Two contracts that share groups, trail one another after a failed commit, and clamp above, below and inside one another's gaps, with failed scans, a rising wall, an anchor past the tip, and requests and reloads that stop half way (`Races` allows `half_registered` and `stale_snapshot`); no plans. Each walk reaches its target or is released by a heal, handed from gap to gap if need be, unless it is removed or clamps strictly inside a gap another walk opened (`WalkCompletes`). What becomes of that one is in §4. |
| `live_loop` | Two endpoints with their own tips, windows and forks, outages, failovers, a network reset, failed commits, a lost acknowledgement, a crash: what is recorded is one chain (`ChainLinked`), cursor and ring agree (`CursorInRing`), the loop implements LedgerFeed, so no ledger is skipped or repeated (`ImplementsFeed`), a fatal stop is never only a lagging endpoint (`StopsAreReal`), and again and again the cursor is at the tip with readiness up, unless integrity stops recur (`CatchesUp`). |
| `rpc_batch` | Two callers sharing the remembered size skip no ledger (`NoLedgerSkipped`), keep it in bounds, and finish (`ScanFinishes`). |
| `read_api` | With writes anywhere: a page vouches for derived ledgers only (`AnswerVouchesDerived`), never repeats a row (`PagesAdvance`), and a bounded scan reaches a final status (`ScanEnds`); COMPLETE means complete for a scan no overlap fell into (`ScanHonest`). |
| `snapshot` | Any order and repetition of commits shows the newest change (`SnapshotIsNewest`); a listing paged meanwhile delivers no key twice, every key that was live throughout, and none that was not live at any moment of the scan (`ListingExact`). |
| `heal_gate` | No heal before a whole aligned sample was equal (`HealsOnlyProven`); once the gap table rests, `gaps_pending_heal` comes to be the number of gaps to replay, through failing polls and restarts (`PendingSettles`). |
| `algorithms` | On every bounded input: the slice loops compute what the gap operators say (`PlanCoversAsked`, `PartitionExact`, `UncoveredExact`, `WallFound`); extraction for several registrations is the union of extraction for each (`Projection`), and whatever is owed is a row or counted (`Accounted`); change vectors the gate calls equal give equal rows under equal ids (`GateMeansSameRows`); a cursor resumes its scan (`CursorResumes`) and is refused anywhere else (`CursorStaysHome`); code cut at any byte, whatever follows, is classified by a whole spec section and never an error (`SpecHonest`). |

Each property of these runs has a mutant in `PROJECT.json`, a plausible slip in the code the
model translates, that TLC finds with the same configuration.

## 4. Where the code and its own words differ

Three runs each check one sentence of the repository, and TLC finds a behaviour of the code
that contradicts it. The quotations are under `findings` in `PROJECT.json`.

| Run | Behaviour |
|---|---|
| `v_admin_in_flight` | A re-registration rewinds a walk while a chunk of it is in flight; the chunk commits the old frontier over it, and the added kind counts as walked. |
| `v_replan_resolved` | A plan's piece with the range of a resolved gap is dropped by the conflict clause: its ledgers stop being owed. |
| `v_complete` | A chunk that commits between a response's page read and its walk read makes the older page COMPLETE. |

The model contains more of them. They are named so that the runs above can say which they
leave out, and each is reproduced by the change given here.

| Reproduce with | Behaviour |
|---|---|
| `indexer_kinds`, `Races = {"heal_during_clamp"}`: `CoverageHonest` | A worker that listed or is replaying a gap overwrites the rewind a clamp made meanwhile (`heal.go:110`), and the clamped walk is dragged past a stretch not derived for it. |
| `indexer_kinds`, `Races = {"no_cursor"}`: `CoverageHonest` | A registration before the first live commit is covered from ledger 1 (`admin.go:285`). |
| `indexer_kinds`, `Races = {"half_registered"}`: `CoverageHonest` | A re-registration that drops a kind and stops before the walk is narrowed (`admin.go:297`): the walk goes on without the kind, and adding it back finds it covered. |
| `indexer_live`: `ClampIsOwed` | A walk whose chunk lies below the one at which another walk met the wall clamps strictly inside the gap that walk recorded. RecordGap adds no row that ends at its wall and a heal commit matches rows by the wall alone (`store/heal.go:130`): the gap is healed, with this walk's history in it, and the walk stays clamped for good, with nothing owed below it. The comment above says the commit un-clamps "every backfill row this gap was blocking" (`store/heal.go:75`). `WalkCompletes` excludes this case by name, `InnerWall`. |
| `live_loop`: `OneChain` | After a lost acknowledgement and a failover to another fork the loop's predecessor differs from the recorded one (`loop.go:203`). |
| `live_loop`: `OnlyIntegrityStops` | Outages at boot end the loop that is documented to retry them (`loop.go:114`). |
| `live_loop`: `ReadyAtTip` | Readiness stays up during a new catch-up (`loop.go:274`). |
| `heal_gate`: `OnlyDivergenceDisables` | A transient error in the equivalence gate disables healing for the life of the process (`ingest/heal.go:187`). |
| `heal_gate`: `gapsPendingHeal = 0 => gaps.replay = 0` | `openapi.yaml` says of the count that "Zero means every range the instance intends to replay has been replayed". It is also zero before the first poll, and between the two queries when a plan cuts gaps meanwhile (`main.go:312`). |
| `read_api`: `HoldsAll` | Besides `v_complete`: rows the walk writes below a scan's position are never delivered and the scan ends COMPLETE; between the two writes of a registration, or when the walk row cannot be read, a page vouches for the cursor's own ledger (`api.go:264`). |

## 5. Bounds, and why they are enough

* **Indexer**: four ledgers, chunks of two, margin one. Four ledgers hold a wall strictly
  inside a chunk and on its border, a gap with a healed and an unhealed half, a plan that cuts
  a gap in three, and an anchor past the tip. Two contracts are the fewest that share or
  trail a group, two kinds the fewest of which one is added or dropped; two workers contend
  for a claim, and heal chunks of one ledger leave a gap half healed. The runs divide these
  dimensions, for their product is too large. `indexer_live` has three ledgers and chunks of
  one, the smallest instance in which walls lie above, below and inside the gap of another walk; requests stop half way
  and reloads fail while at most one contract is registered (`FewFaults` in MCIndexer), and there is no crash. With one contract,
  the four ledgers and chunks of two of the other runs, a wall inside a chunk and a crash, `WalkCompletes` holds as
  well. There are no plans in it, for a deferred piece keeps a walk clamped as long as the operator wishes. `MaxAdmin` (2–3 requests) allows register,
  re-register and plan; `MaxCrash` is one where there are crashes, for a crash
  leaves nothing in memory that a second one could compound.
* **Symmetry** is used over kinds and workers, in `indexer_kinds` only; no liveness run has it.
* **LiveLoop**: two endpoints that fork at ledger 3, tips up to 4 and two ledgers apart, a window of 3 so that the
  cursor can fall below it, a ring of two hashes so that trimming happens, one reset, one crash,
  two outages so that the whole pool can be down, one lost acknowledgement.
* **RpcBatch**: ledgers of different weights against a cap of 5, so that a batch of four
  overflows, one of two may, and one ledger never does; `batchGrowEvery` 2.
* **ReadApi**: four ledgers, one with two rows so that a page can end inside a ledger; limits
  below and above the number of rows that fit a page.
* **Snapshot** and **Listing**: changes in seven ledgers, two keys of which one exists in both durabilities,
  several changes to a key in one ledger, removal and re-creation; pages of one and two rows, so that a page
  can end between the two durabilities of a key.
* **HealGate** and **Status**: whole checkpoints of four, one restart, a divergent ledger inside a
  possible sample; up to two gaps of each mode, so that a plan can change both counters at once.
* **PlanAlgebra**: a `uint32` of 8 values, whose largest is the end of a checkpoint as 2³²−1 is; checkpoints of
  two; a padding of none and of a whole checkpoint; all pairs of intervals and of covering ranges; every wall, moved
  any number of times. **Extraction**: one transaction of at most two operations and two items, out of twelve events (both
  topic generations, self-transfers, wrong arities, undecodable, unencodable, later versions, nil unions) and ten
  change units; properties compare two items of one transaction or two watch sets, and transactions do not
  influence each other. **PageCursor**: two networks, two contracts, every endpoint and combination of filters, two
  ledgers to bound a scan by, limits of one and two, any number of pages. **Classifier**: bytes of 0..7, up to three sections, one of them with bytes that look like
  the spec section, lengths of one and of two bytes, cut at every byte and followed by nothing, by a varint too wide, by
  a name longer than its section or by a section longer than what is left.
* **Deadlock** is checked wherever the configuration does not turn it off. A bounded
  Indexer stops when the ledgers and requests of the instance are used up and nothing is
  pending, HealGate when the cursor is at its bound, the inputs of MCAlgorithms when they are full: there
  the check is off.

Assumptions taken from the code's own parameters: a stale registry snapshot misses at most
`Margin` ledgers (`admin.go`'s anchor margin exists for this; more would be the race
`stale_snapshot`); one ledger fits the body cap; endpoints differ by at most `MaxSkew`.

## 6. Fairness

The loops of the process retry for ever with backoff, so each enabled worker step is weakly
fair: `Live`, `Reload`, `Backfill`, `work(w)` in Indexer, `Work` in LiveLoop, `Step` in
RpcBatch, `Serve` in ReadApi. A step that competes with its own failure (a scan, a commit, a
replay) is strongly fair: an endpoint or database that is retried for ever does not fail
for ever. A scan is one such step whether it is answered with the ledgers or with the wall, and so are the transactions that
move a walk. No fairness is given to crashes, outages, pruning, admin requests or clients, except
that a request in progress goes on (`RegisterContinues`) and a client that follows a scan
asks for its next page. In LiveLoop a stopped process is restarted, which is the supervisor's
part and the reason `OnlyIntegrityStops` matters (§4); ledgers close and endpoints recover, the
network's part. In Status the two polls are strongly fair: the ticker never stops, and a query
made every 30 seconds does not fail for ever.

## 7. What is proved

`tlapm` checks these theorems, for all values of the constants that satisfy the named
assumptions (positive chunk sizes, limits and ledger count, natural margins, floors and plans made of
ledgers, a non-empty contract set, a sample shorter than two checkpoints, a ledger that fits the body cap,
some page size a client may ask for, finitely many keys, a largest sequence number that ends a
checkpoint as 2³²−1 does, no contract with an empty address, and change vectors in which core wrote what an
update or a removal replaces right before it, and section lengths that a varint can hold).

**Indexer**, with all races allowed, since `Races` is a constant (requests are served one at a time throughout, §8):

* `Typed`: `Spec => []TypeOK`. Not only a typing: it bounds each in-memory claim
  of a worker to its gap, each round's range to the ledgers, each frontier to the margin.
* `GapsStaySound`: `Spec => []GapsSound`. Open gaps are pairwise disjoint and each watermark
  lies in its gap.
* `PlansKeepOwed`: `Spec => PlanKeepsOwed`, if `"replan_resolved"` is not in `Races`. The run
  `v_replan_resolved` shows that the hypothesis is needed (§4).

**Indexer under the discipline** `Quiet == Races = {} /\ MaxStale <= Margin`:

* `CoverageIsHonest` (`CoverageHonest`), `NothingIsLost` (`NothingLost`) and
  `CoverageImplemented` (`ImplementsCoverage`, the refinement of Coverage).

`Quiet` is what §2 says of `Races = {}`, with a stale registry snapshot no older than the
margin that `admin.go` adds for it. It is a hypothesis on the schedule that the code does not enforce by itself:
§4 gives counterexamples without it. The runs
`indexer_quiet` and `indexer_kinds` satisfy it, the second with equality.

**Other components**:

* `LoopIsFeed`: `Spec => ImplementsFeed`, the refinement of LedgerFeed by LiveLoop; with it
  `CursorAnchored` (`CursorInRing`), `LoopTyped`, and `ChainIsLinked` (`ChainLinked`).
* `StopsReal`: `Spec => []StopsAreReal` for LiveLoop, if `MaxSkew <= tipAmbiguitySlack + 1`: the
  slack with which the probe classifies a window error covers the distance between the tips of two endpoints, less
  one. The configuration of the run has equality; like the property, it speaks of the time before a network reset.
* `ReaderTyped`, `ScansAreHonest` (`ScanHonest`), `AnswersVouchDerived`
  (`AnswerVouchesDerived`) and the action property `PagesDoAdvance` (`PagesAdvance`) for ReadApi.
* `SnapshotTyped` and `SnapshotConverges` (`SnapshotIsNewest`) for Snapshot, and
  `ListingsAreExact`: `ListSpec => []ListingExact` for a listing beside its writers.
* `HealsProven`: `Spec => []HealsOnlyProven` for HealGate, and `GateTyped`.
* `ScansExact`: `Spec => []NoLedgerSkipped` for RpcBatch, and `BatchTyped`.
* `PlansCoverAsked` (`PlanCoversAsked`), `CutsAreExact` (`PartitionExact`), `HolesAreExact`
  (`UncoveredExact`) and `WallIsFound` (`WallFound`) for PlanAlgebra: the loops compute what Gaps and
  Backfiller say they do, which the theorems about the indexer rest on.
* `ExtractionProjects` (`Projection`), `NothingLostUncounted` (`Accounted`) and `GateImpliesSameRows`
  (`GateMeansSameRows`) for Extraction: every ledger, catalogue of items and watch set.
* `CursorsResume` (`CursorResumes`) and `CursorsStayHome` (`CursorStaysHome`) for PageCursor.
* `SpecsAreHonest` (`SpecHonest`) for Classifier: every module, every cut, every bytes after it.

### The arguments

The invariant of `Typed` and `GapsStaySound` is `IndInv == TypeOK /\ GapsSound`; neither half is inductive
alone. A heal commits the watermark it listed minutes ago: that it is still inside the gap
follows from the worker's type, and that a worker's listed watermark lies in its gap follows from
the soundness of the table it was listed from. `Indexer_proofs` goes up through the modules:

1. On the table: each operator of Gaps keeps a sound table sound. The core is `RunsDisjoint`
   (maximal runs of a set do not overlap), whence the inserted pieces of RecordGap and the cut
   pieces of PlanHeal are disjoint from each other and from what stays. The same pieces cover what
   they were cut from, which gives what each operator does to the ledgers owed.
2. On the store: each transaction keeps the store's types and a sound table.
3. On the process: chunk floors, group tops and walls are ledgers in the right order;
   every step of a round keeps its types; then the healer's steps, and one case for each
   action of `Next`.

`Coverage_proofs` adds to `IndInv` what the tables and the work in flight owe each other.
`Honest` is what one walk promises: everything above its frontier up to the cursor is derived; below it
everything down to its target is, once the walk is done, derived or owed; and a walk handed to a gap has
derived what lies above its wall. `CoverageHonest` alone is not inductive: a commit vouches for a chunk that was scanned
earlier, so `Agrees` relates the walk copied into the round, and the chunk being scanned, clamped or committed, to
the row it was listed from (`RoundAgrees`, `GroupAgrees`), and a worker's copy of a gap, with the watermark it will
commit, to the derived rows (`WorkersHonest`, by `Settles`: what the worker will count as healed above its watermark
is derived, even if the gap was planned away or reopened since). `Discipline` says which of these copies can exist
together, and `StaleOnlyAhead` and `AnchorAhead` what the margin is for; this is where `Quiet` is used. The lemmas are about one row first, so that each transaction needs one
argument for the row it writes and one (`HonestKept`) for all others. `CoverageImplemented`
compares the vouched ranges before and after each step under the same invariant: only a
request takes a claim back.

For Snapshot the invariant says that the rows are exactly the keys written and each row is
made from the newest change of the written ledgers; `GuardKeepsNewest` is the heart of it:
the guard `last_ledger <=` picks the newer of the row and the batch, whichever came first.
For Listing `ListInv` adds `Paging`: while a scan lasts, everything delivered lies at or before the position in the
cursor, and each steady key at or before it was delivered. `OnePage` is what one statement contributes: its rows are an initial
segment of what lies beyond the position, and if there are more, the last of them is the next
position. That a finite non-empty set has a first and a last row is proved by counting
predecessors, and likewise in ReadApi.

For LiveLoop the invariant is `TypeOK /\ Position /\ Committing /\ CursorAgrees`. A commit
extends the feed only if the ledger being committed is the cursor's next, or the cursor's own
when a lost acknowledgement makes the loop commit it again; `Position` says so of every step
of the loop, `Committing` that an endpoint served the ledger in hand, and `CursorAgrees` that the newest ring row is the
cursor's, which trimming and the repeated insert, ignored by the conflict clause, both keep.
`ChainInv` adds that until an acknowledgement is lost the loop is `Armed`: the hash it holds is the one recorded
under its cursor, so the continuity check compares the new ledger with the ring. `StopInv` follows the probe: the window error it classifies came from an
endpoint whose window lies above the ledger, or from one whose tip is below it, and no answer is more than the skew
ahead of that tip, so the slack keeps the second from being taken for the first. `OnChain` adds that every
hash the loop holds is one some endpoint serves, so a divergence is between two endpoints.

For ReadApi the invariant follows the four reads of a request. `Marked` says that
no delivered row lies after the mark of the scan, `Delivered` that each row up to it and above the walk's frontier
was delivered unless an overlap was noted, `Read` what each value read earlier still says about the tables, which
have moved on. `NextMark` and `PageDelivers` take a page to the next mark, also when the page ends
inside a ledger.

For HealGate `GateInv` relates the step of the gate to what it holds: the sample ends at a
checkpoint a full cadence behind the cursor, what was found equal is a prefix of it up to the
ledger being compared, and all of it when the gate opens; the cursor only grows.

For RpcBatch `ScanInv` says of each caller, by its step, what it holds and that the request it
is about to make stays inside its range; the shared ceiling enters only through its bounds,
which is why no interleaving of the two atomics can hurt a scan.

In `Algorithms_proofs` each loop has an invariant that speaks of the part of the input it has passed.
`MergeInv`: the merged intervals are in order, each two at least a ledger apart unless the earlier one reaches the
largest sequence number (`Follows`: there `last.To+1` is 0, nothing merges any more, and later intervals only
lie inside), and together they are the checkpoints touched so far; `PadSnaps` is the arithmetic of one interval.
`CutInv`: the pieces made are the pieces of the set definition below the position, and the position starts a new piece
(`NextPiece`, by the maximality of runs); the interval at hand is the first that can reach beyond it. `HolesInv`:
the holes made are the runs below the position, and nothing between the sort position and the loop's
is uncovered, so a later covering range cannot touch a hole already made. `WallInv`: everything below
the searched stretch was refused when it was asked for, its upper end was served or is past the range, and the
wall moves only up.

For Extraction `LedgerInv` gives the shape of the ledger, and the rest is about items. `EventProjects` and
`ChangeProjects` say that an item yields the same rows for a contract and a kind alone as among others;
`OnlySeesLess` that a smaller watch set never decodes, hence never panics on, more than a larger one; `TxProjects` adds
that the ids are the positions in the unfiltered sequence. `Accounted` follows item by item from the
pre-check looking at every address topic (`PartiesMove`). For the gate, `ChangesOfUnits` recovers the changes of a vector from
the set of its units, and `GetChanges` orders them by key. For PageCursor `PageInv` says that the cursor held
carries exactly the fields of the query its page was read with (`Holds`); `NamesApart`, that no payload uses a short
name twice or one of the stamp's, is what makes it decodable.

For Classifier `CodeInv` lays the module out: each section's bytes stand behind the end of the one before. `ScanInv` says that
the walk stands at the beginning of a section (`AtSection`), sees the code from there to the cut and then what follows, and
that no section before it is the spec; or that it is `Lost`: the cut left no whole spec, bytes follow it, and the walk may
stand anywhere in them. There `WalkSafe` is all that holds and all that is needed: a step on any bytes does
not panic. `WalkStep` is one iteration: bytes that begin as a section does are passed, found or refused as that section
is not the spec, is it, or is not all there; it rests on `ReadsVarint` and `CutVarint`, that a length is read back whatever
follows it and is never read from a part of its bytes.

### Only model-checked

* The liveness properties (`WalkCompletes`, `CatchesUp`, `ScanFinishes`, `ScanEnds`, `PendingSettles`):
  ENABLED and fairness are outside the prover.

## 8. Not modelled

* **Captive core**: the process handling of stellar-core; a replay is a stream that may fail.
* **Configuration** is parsed once at boot, before anything runs; its results are the constants here.
* **Migrations, basic auth, console, metrics and status rendering** keep no
  state that a property here reads; the models start from a migrated schema.
* In **extraction**, amounts and the rendering of values: a value decodes or it does not. Events that are not contract events, which the loop
  skips, and a panic on a missing address where nobody watched takes part (`movements.go:30`), whose cost is that of the panics
  that are there. In the **classifier**, the encoding of ledger keys and the snake_case of names.
* **Overlapping admin requests.** `net/http` serves them concurrently and no lock orders them; `req` is one
  request. What two registrations of one contract can leave between them, kinds written by one and the walk
  reconciled by the other, is close to what `half_registered` leaves (§4), which the model does have.
* Three fatal exits of the **live loop**: another network's passphrase, an error answer to the first call, and a
  ledger other than the one asked for (`loop.go:114`, `loop.go:158`). The pool of the model serves one network
  and answers what it is asked. The preferred endpoint, which the code shares with the backfiller and the gate, is the loop's
  alone here; an outage moves it at any moment, as another caller's failover would.
* During a **read scan** the kind may be registered and its walk descend; it is not unregistered, its walk is not rewound
  by a re-registration, and no heal writes below the walk's frontier.
* In the **read API** the contract detail, one read and its rendering; in the **RPC client**
  `GetLedgerEntry` and the HTTP and JSON plumbing.
* **Byte comparison** in the equivalence gate is a set of divergent ledgers in HealGate and,
  for change vectors, equality of canonical forms in Extraction. That the SDK orders the changes of an
  operation by ledger key is taken from how the code relies on it.

## 9. Plan

Done: the store protocol and its four actors, the live loop, batches, snapshots and their
listings, the read scan and its cursors, the gate and the status beside it, extraction, the
classifier, the slice loops; the abstract specifications Coverage and LedgerFeed with their refinements, both
proved; proofs of every safety property the runs check.

Left: the contract detail of the read API.
