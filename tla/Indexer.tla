------------------------------- MODULE Indexer -------------------------------
(***************************************************************************)
(* The ingesting process composed: live loop, backfiller, healer, admin    *)
(* API and registry over one store, with crashes.  The question it answers *)
(* is the one README and DESIGN make the product's promise: whatever the   *)
(* API vouches for was derived, and whatever was not derived is declared.  *)
(*                                                                         *)
(* Races names the overlaps of independent actors a behaviour may contain; *)
(* the code allows all of them, and a run that leaves one out says under   *)
(* which discipline its properties hold.  One overlap is not among them:   *)
(* Admin serves one request at a time.                                     *)
(***************************************************************************)
EXTENDS Backfiller, Healer, Admin

CONSTANTS
    Races,      \* subset of RaceNames
    MaxStale,   \* ledgers the loop may commit before a reload lands
    MaxWall,    \* bound: retention rises up to here
    FirstTip,   \* the source's tip when the process first starts
    MaxAdmin,   \* bound: admin mutations in a behaviour
    MaxCrash    \* bound: process crashes in a behaviour

\* admin_in_flight    an admin mutation while a chunk is being worked on
\* heal_during_clamp  a gap listed or healed while a group is being clamped
\* no_cursor          a registration before the first live commit
\* half_registered    a registration that stops between two store calls
\* replan_resolved    a plan cutting a piece with the range of a resolved gap
\* stale_snapshot     a registration whose reload is left to the ticker
RaceNames == {"admin_in_flight", "heal_during_clamp", "no_cursor",
              "half_registered", "replan_resolved", "stale_snapshot"}

ASSUME IndexerAssumption ==
    /\ Races \subseteq RaceNames
    /\ MaxStale \in Nat /\ MaxAdmin \in Nat /\ MaxCrash \in Nat
    /\ MaxWall \in Ledgers /\ FirstTip \in Ledgers

VARIABLES
    unseen,     \* ledgers committed since the snapshot fell behind
    budget      \* admin mutations and crashes left

vars == <<cursor, contracts, backfill, gaps, derived, tip, wall, round, lastScan,
          snap, healer, req, unseen, budget>>

TypeOK ==
    /\ StoreTypeOK /\ BackfillerTypeOK /\ HealerTypeOK /\ AdminTypeOK
    /\ unseen \in Nat
    /\ budget \in [admin: 0..MaxAdmin, crash: 0..MaxCrash]

Init ==
    /\ StoreInit /\ BackfillerInit /\ HealerInit /\ AdminInit
    /\ tip = FirstTip /\ wall = 1
    /\ snap = <<>> /\ unseen = 0
    /\ budget = [admin |-> MaxAdmin, crash |-> MaxCrash]

WorkersIdle == round.pc = "idle" /\ \A w \in Workers : healer[w].pc = "idle"

Permits(race) == race \in Races

-----------------------------------------------------------------------------
(* The live loop, one ledger per step (module LiveLoop has its inside).    *)

\* A fresh database starts at the tip or at START_LEDGER inside the window.
LiveFirst ==
    /\ cursor = 0
    /\ \E start \in wall..tip : CommitLedger(start, snap)
    /\ UNCHANGED <<unseen, tip, wall, round, lastScan, snap, healer, req, budget>>

LiveNext ==
    /\ cursor > 0 /\ Serves(cursor + 1, cursor + 1)
    /\ snap = contracts \/ unseen < MaxStale
    /\ req.pc = "upserted" => cursor + 1 + Margin <= MaxLedger     \* bound
    /\ CommitLedger(cursor + 1, snap)
    /\ unseen' = IF snap = contracts THEN 0 ELSE unseen + 1
    /\ UNCHANGED <<tip, wall, round, lastScan, snap, healer, req, budget>>

Live == LiveFirst \/ LiveNext

-----------------------------------------------------------------------------
(* Registry.Reload, after a mutation or by the periodic ticker.            *)

Reload ==
    /\ snap # contracts \/ req.pc = "reload"
    /\ snap' = contracts /\ unseen' = 0
    /\ req' = IF req.pc = "reload" THEN NoRequest ELSE req
    /\ UNCHANGED <<storeVars, tip, wall, round, lastScan, healer, budget>>

\* The post-mutation reload fails and is only logged.
ReloadFails ==
    /\ req.pc = "reload" /\ Permits("stale_snapshot")
    /\ req' = NoRequest
    /\ UNCHANGED <<storeVars, tip, wall, round, lastScan, snap, healer, unseen, budget>>

-----------------------------------------------------------------------------
(* Admin requests, under the discipline Races leaves them.                 *)

MayMutate ==
    /\ budget.admin > 0
    /\ Permits("admin_in_flight") \/ WorkersIdle

Spend == budget' = [budget EXCEPT !.admin = @ - 1]

Register ==
    /\ MayMutate
    /\ cursor > 0 \/ Permits("no_cursor")
    /\ cursor + Margin <= MaxLedger     \* bound: the anchor can close
    /\ \E c \in Contracts : \E target \in Targets(c), kinds \in KindSet :
          RegisterContract(c, target, kinds)
    /\ Spend
    /\ UNCHANGED <<tip, wall, round, lastScan, snap, healer, unseen>>

RegisterContinues ==
    /\ AnchorWalk \/ PlanWalk
    /\ UNCHANGED <<tip, wall, round, lastScan, snap, healer, unseen, budget>>

RegisterFails ==
    /\ Permits("half_registered")
    /\ RequestFails
    /\ UNCHANGED <<tip, wall, round, lastScan, snap, healer, unseen, budget>>

Unregister ==
    /\ MayMutate
    /\ \E c \in Contracts : UnregisterContract(c)
    /\ Spend
    /\ UNCHANGED <<tip, wall, round, lastScan, snap, healer, unseen>>

Plan ==
    /\ MayMutate
    /\ Open(gaps) # {}
    /\ \E wanted \in Plans :
          /\ Permits("replan_resolved") \/ ~PlanHitsResolved(gaps, wanted)
          /\ SubmitPlan(wanted)
    /\ Spend
    /\ UNCHANGED <<tip, wall, round, lastScan, snap, healer, unseen>>

AdminStep == Register \/ RegisterContinues \/ RegisterFails \/ Unregister \/ Plan

-----------------------------------------------------------------------------
(* Workers, the source and crashes.                                        *)

NoRequestBeingServed == Permits("admin_in_flight") \/ req.pc = "idle"

Backfill ==
    /\ BackfillerNext
    /\ round.pc = "idle" => NoRequestBeingServed
    /\ round'.pc = "clamp" => Permits("heal_during_clamp") \/ Healing = {}
    /\ UNCHANGED <<tip, wall, snap, healer, req, unseen, budget>>

Heal ==
    /\ HealerNext
    /\ (\A w \in Workers : healer[w].pc = "idle") => NoRequestBeingServed
    /\ Permits("heal_during_clamp") \/ ~Clamping
    /\ UNCHANGED <<tip, wall, round, lastScan, req, unseen, budget>>

Source ==
    /\ SourceCloses \/ SourcePrunes(MaxWall)
    /\ UNCHANGED <<storeVars, round, lastScan, snap, healer, req, unseen, budget>>

\* Everything in memory is lost; the next boot reloads the registry.
Crash ==
    /\ budget.crash > 0
    /\ req.pc \in {"idle", "reload"} \/ Permits("half_registered")
    /\ budget' = [budget EXCEPT !.crash = @ - 1]
    /\ round' = NoRound /\ lastScan' = NoScan
    /\ healer' = [w \in Workers |-> IdleWorker]
    /\ req' = NoRequest
    /\ snap' = contracts /\ unseen' = 0
    /\ UNCHANGED <<storeVars, tip, wall>>

Next ==
    \/ Live
    \/ Reload
    \/ ReloadFails
    \/ AdminStep
    \/ Backfill
    \/ Heal
    \/ Source
    \/ Crash

Spec == Init /\ [][Next]_vars

\* A transaction of the backfiller that moves a walk.
CommitsAWalk ==
    \/ \E c \in round.left : CloseEmptyWalk(c)
    \/ \E c \in round.group : CommitWalk(c) \/ CommitClamp(c)

\* Every worker loops forever and retries after an idle pause, requests are
\* served to their end, the ticker reloads, the chain grows.  Strong fairness
\* where a step competes with its own failure: endpoints, archives and the
\* database recover, so what is retried forever is not refused forever.  A
\* scan is answered with the ledgers or with the wall.
Fairness ==
    /\ WF_vars(Live) /\ WF_vars(Reload) /\ WF_vars(RegisterContinues)
    /\ WF_vars(SourceCloses /\ Source)
    /\ WF_vars(Backfill)
    /\ SF_vars((Scan \/ HitWall) /\ Backfill)
    /\ SF_vars((\E t \in round.targets : RecordClampGap(t)) /\ Backfill)
    /\ SF_vars(ScanAbove /\ Backfill)
    /\ SF_vars(CommitsAWalk /\ Backfill)
    /\ \A w \in Workers : WF_vars(work(w) /\ Heal) /\ SF_vars(healChunk(w) /\ Heal)

FairSpec == Spec /\ Fairness

-----------------------------------------------------------------------------
(* What the API vouches for.                                               *)

\* coverage: the range a walk lets the API call indexed for a kind.
Vouched(c) == (backfill[c].nextTo + 1)..cursor

\* Rule 7: an empty page inside the declared coverage means nothing happened.
\* Every ledger the API vouches for, from the walk's frontier to the live
\* cursor, was derived for that contract and that kind by somebody: the live
\* loop, the backfiller or the healer, in any order and across crashes,
\* re-registrations and plans.
CoverageHonest ==
    \A c \in DOMAIN contracts \cap DOMAIN backfill :
       \A k \in contracts[c] \cap backfill[c].covered :
          Vouched(c) \subseteq derived[c][k]

\* "The declared coverage follows what was actually derived, in both
\* directions", as an abstract specification: every step of the process
\* indexes or serves a request.  A walk that is clamped, handed from gap to
\* gap, replayed by the healer or interrupted by a crash never takes back a
\* ledger it vouched for.
Promise == INSTANCE Coverage
              WITH have <- derived,
                   vouched <- [c \in Contracts |-> [k \in Kinds |->
                               IF /\ c \in DOMAIN contracts \cap DOMAIN backfill
                                  /\ k \in contracts[c] \cap backfill[c].covered
                               THEN Vouched(c) ELSE {}]],
                   request <- req.pc # "idle"

ImplementsCoverage == Promise!Spec

\* Gap first, then the work (P7): a finished walk leaves no ledger to nobody.
\* Each ledger above its target that it does not vouch for was derived all the
\* same (a heal below a deferred piece), or is still owed by an open gap.
NothingLost ==
    \A c \in DOMAIN contracts \cap DOMAIN backfill : backfill[c].done =>
       \A l \in backfill[c].targetFrom..Min({backfill[c].nextTo, MaxLedger}) :
          \/ \E id \in Open(gaps) : l \in Remainder(gaps, id)
          \/ \A k \in contracts[c] \cap backfill[c].covered : l \in derived[c][k]

\* "The declared coverage follows what was actually derived, in both
\* directions": a walk stays clamped only while part of the history it is
\* clamped above is still owed by an open gap.  A walk that clamps inside a gap
\* another walk opened breaks it: RecordGap adds no row that ends at its wall,
\* and no heal commit matches it (README, section 4).
ClampIsOwed ==
    \A c \in DOMAIN backfill :
       backfill[c].clampedAt # 0 =>
          \E id \in Open(gaps) :
             Remainder(gaps, id) \cap (backfill[c].targetFrom..backfill[c].nextTo) # {}

\* A plan moves promises between rows and never drops one: the ledgers still
\* owed are the same before and after (PlanHeal's contract).
PlanKeepsOwed == [][Plan => Owed(gaps') = Owed(gaps)]_vars

\* An open gap ends at the wall of the walk: its heal commits follow the walk.
Awaited(c) == \E id \in Open(gaps) : id[2] + 1 = backfill[c].clampedAt

\* The walk's wall lies inside an open gap another walk recorded.
InnerWall(c) ==
    /\ backfill[c].clampedAt # 0
    /\ \E id \in Open(gaps) : backfill[c].clampedAt \in (id[1] + 1)..id[2]

Whole(c) == backfill[c].done /\ backfill[c].clampedAt = 0

\* Every history comes to be whole, where no plan defers part of it: whatever
\* fails on the way, a walk that is under way, or that waits for a gap ending
\* at its wall, reaches its target or is released by the heal, unless the
\* contract is removed or the walk clamps inside a gap another walk opened.
\* That last case is no escape of the property's: nothing releases such a walk
\* (ClampIsOwed).
WalkCompletes ==
    \A c \in Contracts :
       (c \in DOMAIN backfill /\ (~backfill[c].done \/ Awaited(c)))
          ~> (c \notin DOMAIN backfill \/ Whole(c) \/ InnerWall(c))

\* The structure of the gaps table under every interleaving.
GapsSound == OpenGapsDisjoint(gaps) /\ WatermarkInRange(gaps)

=============================================================================
