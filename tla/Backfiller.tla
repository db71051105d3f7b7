----------------------------- MODULE Backfiller -----------------------------
(***************************************************************************)
(* internal/ingest/backfill.go: one worker walks every pending             *)
(* registration's history downward in chunks aligned to an absolute grid.  *)
(*                                                                         *)
(* A round lists the pending walks once, groups them by the floor of their *)
(* next chunk and processes the groups from the highest floor down: one    *)
(* scan per group, then one transaction per contract.  The listed rows are *)
(* what every later step of the round works from; the store may have moved *)
(* on.  A scan below the source's retention clamps the group at the wall,  *)
(* after the unserved range has been recorded as a gap.                    *)
(***************************************************************************)
EXTENDS Store

CONSTANT ChunkSize      \* backfillChunkSize, the grid's cell

ASSUME ChunkSizeAssumption == ChunkSize \in Nat \ {0}

VARIABLES
    tip,        \* newest ledger the source serves
    wall,       \* oldest ledger the source still serves (retention)
    round,      \* the round in progress, a record (see NoRound)
    lastScan    \* the one-entry scan cache

sourceVars == <<tip, wall>>
backfillerVars == <<round, lastScan>>

\* pc: idle, listed (between groups), clamp (recording gaps), above (scanning
\* above the wall), commit (one transaction per contract of the group).
NoRound == [pc |-> "idle", jobs |-> <<>>, left |-> {}, group |-> {}, from |-> 0,
            to |-> 0, wall |-> 0, targets |-> {}, res |-> <<>>]

NoScan == [from |-> 0, to |-> 0, members |-> <<>>]

Job == [targetFrom: Ledgers, nextTo: Frontier, kinds: KindSet]

ScannedRange == (IF round.wall = 0 THEN round.from ELSE round.wall)..round.to

\* What waits to be committed was served, so its ledgers have closed.
BackfillerTypeOK ==
    /\ tip \in Ledgers /\ wall \in 1..tip
    /\ DOMAIN round = DOMAIN NoRound /\ DOMAIN lastScan = DOMAIN NoScan
    /\ round.pc \in {"idle", "listed", "clamp", "above", "commit"}
    /\ DOMAIN round.jobs \subseteq Contracts
    /\ round.jobs \in [DOMAIN round.jobs -> Job]
    /\ round.left \subseteq DOMAIN round.jobs
    /\ round.group \subseteq round.left
    /\ round.pc # "idle" => round.left # {}
    /\ round.from \in Frontier /\ round.to \in Frontier /\ round.wall \in 0..MaxLedger
    /\ round.targets \subseteq Ledgers
    /\ IsWatch(round.res) /\ IsWatch(lastScan.members)
    /\ lastScan.from \in 0..MaxLedger /\ lastScan.to \in 0..MaxLedger
    /\ round.pc = "commit" => round.from >= 1 /\ ScannedRange \subseteq Ledgers
    /\ round.pc \in {"clamp", "above"} => round.from >= 1 /\ round.wall >= 1

BackfillerInit == round = NoRound /\ lastScan = NoScan

-----------------------------------------------------------------------------
(* The source: the chain grows, retention rises behind it.                 *)

SourceCloses == tip < MaxLedger /\ tip' = tip + 1 /\ UNCHANGED wall

SourcePrunes(newest) == wall < newest /\ wall < tip /\ wall' = wall + 1 /\ UNCHANGED tip

Serves(from, to) == wall <= from /\ to <= tip

-----------------------------------------------------------------------------
(* Listing and grouping.                                                   *)

List ==
    /\ round.pc = "idle"
    /\ PendingBackfills # {}
    /\ round' = [NoRound EXCEPT !.pc = "listed", !.left = PendingBackfills,
                   !.jobs = [c \in PendingBackfills |->
                               [targetFrom |-> backfill[c].targetFrom,
                                nextTo |-> backfill[c].nextTo,
                                kinds |-> contracts[c]]]]
    /\ UNCHANGED <<lastScan, storeVars>>

chunkFromFor(job) ==
    Max({job.nextTo - ((job.nextTo - 1) % ChunkSize), job.targetFrom})

\* Done at birth: the anchor already sits below the target.
EmptyJobs == {c \in round.left : round.jobs[c].nextTo < round.jobs[c].targetFrom}

\* Back to the list of groups, without these contracts; the round ends when
\* none is left.
Skip(cs) ==
    round' = IF round.left = cs THEN NoRound
             ELSE [NoRound EXCEPT !.pc = "listed", !.jobs = round.jobs,
                                  !.left = round.left \ cs]

CloseEmptyWalk(c) ==
    /\ round.pc = "listed" /\ c \in EmptyJobs
    /\ CommitBackfillChunk(c, round.jobs[c].nextTo, TRUE, 0, {}, {})
    /\ Skip({c})
    /\ UNCHANGED lastScan

CloseEmptyWalkFails(c) ==
    /\ round.pc = "listed" /\ c \in EmptyJobs
    /\ Skip({c})
    /\ UNCHANGED <<lastScan, storeVars>>

\* Highest cell first; a group is the walks whose next chunk has that floor.
GroupFloor == Max({chunkFromFor(round.jobs[c]) : c \in round.left})
GroupOf(floor) == {c \in round.left : chunkFromFor(round.jobs[c]) = floor}
GroupTop(group) == Max({round.jobs[c].nextTo : c \in group})

\* The walks one cell above the group: they ask for this range next round, so
\* the scan extracts for them too.
Ahead(floor) ==
    {c \in DOMAIN round.jobs :
        /\ round.jobs[c].nextTo >= round.jobs[c].targetFrom
        /\ chunkFromFor(round.jobs[c]) = floor + ChunkSize}

KindsOf(cs) == [c \in cs |-> round.jobs[c].kinds]

InGroup == round.pc = "listed" /\ EmptyJobs = {}

-----------------------------------------------------------------------------
(* One group: scan, or reuse the last scan, or meet the retention wall.    *)

\* Mutant: a hit needs the range and the membership, not the same kinds.
cachedScan_AnyKinds(from, to, group) ==
    /\ lastScan.from = from /\ lastScan.to = to
    /\ group \subseteq DOMAIN lastScan.members

cachedScan(from, to, group) ==
    /\ lastScan.from = from /\ lastScan.to = to
    /\ group \subseteq DOMAIN lastScan.members
    /\ \A c \in group : lastScan.members[c] = round.jobs[c].kinds

BeginGroup(pc, w, res) ==
    LET group == GroupOf(GroupFloor)
    IN round' = [round EXCEPT !.pc = pc, !.group = group, !.from = GroupFloor,
                   !.to = GroupTop(group), !.wall = w, !.res = res,
                   !.targets = IF pc = "clamp"
                               THEN {round.jobs[c].targetFrom : c \in group} ELSE {}]

ScanCached ==
    /\ InGroup
    /\ cachedScan(GroupFloor, GroupTop(GroupOf(GroupFloor)), GroupOf(GroupFloor))
    /\ BeginGroup("commit", 0, lastScan.members)
    /\ UNCHANGED <<lastScan, storeVars>>

Scan ==
    LET group == GroupOf(GroupFloor)
        scanFor == KindsOf(group \cup Ahead(GroupFloor))
    IN /\ InGroup
       /\ ~cachedScan(GroupFloor, GroupTop(group), group)
       /\ Serves(GroupFloor, GroupTop(group))
       /\ BeginGroup("commit", 0, scanFor)
       /\ lastScan' = [from |-> GroupFloor, to |-> GroupTop(group), members |-> scanFor]
       /\ UNCHANGED storeVars

\* ErrNotYetAvailable (the anchor has not closed) and transient errors alike:
\* the group waits for the next round.
ScanFails ==
    /\ InGroup
    /\ ~cachedScan(GroupFloor, GroupTop(GroupOf(GroupFloor)), GroupOf(GroupFloor))
    /\ Skip(GroupOf(GroupFloor))
    /\ UNCHANGED <<lastScan, storeVars>>

\* findWall's answer over [from + 1 .. to]: to + 1 when nothing is served.
findWall(from, to) == Max({from + 1, Min({wall, to + 1})})

HitWall ==
    /\ InGroup
    /\ ~cachedScan(GroupFloor, GroupTop(GroupOf(GroupFloor)), GroupOf(GroupFloor))
    /\ GroupFloor < wall
    /\ BeginGroup("clamp", findWall(GroupFloor, GroupTop(GroupOf(GroupFloor))), <<>>)
    /\ UNCHANGED <<lastScan, storeVars>>

\* One gap per distinct target of the group, each its own transaction, all of
\* them before any clamped row is written.
RecordClampGap(t) ==
    /\ round.pc = "clamp" /\ t \in round.targets
    /\ RecordGap(t, round.wall - 1)
    /\ round' = [round EXCEPT !.targets = @ \ {t},
                              !.pc = IF round.targets = {t} THEN "above" ELSE "clamp"]
    /\ UNCHANGED lastScan

ScanAbove ==
    /\ round.pc = "above"
    /\ round.wall <= round.to => Serves(round.wall, round.to)
    /\ round' = [round EXCEPT !.pc = "commit",
                   !.res = IF round.wall <= round.to THEN KindsOf(round.group) ELSE <<>>]
    /\ UNCHANGED <<lastScan, storeVars>>

\* A gap that cannot be recorded, or a scan above the wall that fails: the
\* group retries next round with its gaps already on record.
AbandonClamp ==
    /\ round.pc \in {"clamp", "above"}
    /\ Skip(round.group)
    /\ UNCHANGED <<lastScan, storeVars>>

-----------------------------------------------------------------------------
(* Commits: one transaction per contract, failures skip only that contract. *)

ResKinds(c) == IF c \in DOMAIN round.res THEN round.res[c] ELSE {}

Leave(c) ==
    IF round.group = {c} THEN Skip({c})
    ELSE round' = [round EXCEPT !.group = @ \ {c}, !.left = @ \ {c}]

\* Mutant: the frontier is put one ledger too low, below zero at genesis.
CommitWalk_BelowZero(c) ==
    /\ round.pc = "commit" /\ round.wall = 0 /\ c \in round.group
    /\ CommitBackfillChunk(c, round.from - 2, round.from <= round.jobs[c].targetFrom, 0,
                           ResKinds(c), ScannedRange)
    /\ Leave(c)
    /\ UNCHANGED lastScan

CommitWalk(c) ==
    /\ round.pc = "commit" /\ round.wall = 0 /\ c \in round.group
    /\ CommitBackfillChunk(c, round.from - 1, round.from <= round.jobs[c].targetFrom, 0,
                           ResKinds(c), ScannedRange)
    /\ Leave(c)
    /\ UNCHANGED lastScan

CommitClamp(c) ==
    /\ round.pc = "commit" /\ round.wall # 0 /\ c \in round.group
    /\ CommitBackfillChunk(c, Min({round.jobs[c].nextTo, round.wall - 1}), TRUE,
                           round.wall, ResKinds(c), ScannedRange)
    /\ Leave(c)
    /\ UNCHANGED lastScan

\* The row vanished (contract deleted) or the database said no.
CommitFails(c) ==
    /\ round.pc = "commit" /\ c \in round.group
    /\ Leave(c)
    /\ UNCHANGED <<lastScan, storeVars>>

\* The group is somewhere between finding the wall and its last clamped row.
Clamping == round.pc \in {"clamp", "above"} \/ (round.pc = "commit" /\ round.wall # 0)

BackfillerNext ==
    \/ List
    \/ \E c \in round.left : CloseEmptyWalk(c) \/ CloseEmptyWalkFails(c)
    \/ ScanCached
    \/ Scan
    \/ ScanFails
    \/ HitWall
    \/ \E t \in round.targets : RecordClampGap(t)
    \/ ScanAbove
    \/ AbandonClamp
    \/ \E c \in round.group : CommitWalk(c) \/ CommitClamp(c) \/ CommitFails(c)

=============================================================================
