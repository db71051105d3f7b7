-------------------------------- MODULE Store --------------------------------
(***************************************************************************)
(* The tables of internal/store that say what has been indexed, and one    *)
(* action per transaction that changes them.  Each transaction commits     *)
(* atomically (pgx.BeginFunc), so it is one step; everything a caller does *)
(* between two transactions belongs to the caller's module.                *)
(*                                                                         *)
(* The derived rows themselves (events, state, transfers, trustlines,      *)
(* movements) are abstracted to which ledgers were derived for which       *)
(* contract and kind: inserts are idempotent, so a set of ledgers is all   *)
(* that survives of them.  The database cannot tell a ledger that was      *)
(* derived and held nothing from one that was never read; derived can, and *)
(* that is what the coverage the API declares is compared with.            *)
(***************************************************************************)
EXTENDS Gaps

CONSTANTS
    Contracts, Kinds,
    Margin      \* registrationAnchorMargin, how far past the cursor a walk starts

ASSUME MarginAssumption == Margin \in Nat

\* The frontiers a walk can have.
Frontier == 0..(MaxLedger + Margin)

VARIABLES
    cursor,     \* last committed live ledger; 0 when there is no cursor row
    contracts,  \* registered contract -> the kinds it derives
    backfill,   \* registered contract -> its walk (BackfillRow)
    gaps,       \* range -> GapRow, every gap ever recorded
    derived     \* contract -> kind -> ledgers whose rows were committed

storeVars == <<cursor, contracts, backfill, gaps, derived>>

KindSet == (SUBSET Kinds) \ {{}}

\* A set of watched contracts and the kinds derived for each (a snapshot).
IsWatch(w) == DOMAIN w \subseteq Contracts /\ w \in [DOMAIN w -> KindSet]

\* clampedAt = 0 stands for NULL.
BackfillRow == [targetFrom: Ledgers, nextTo: Frontier, done: BOOLEAN,
                clampedAt: 0..(MaxLedger + 1), covered: SUBSET Kinds]

IsBackfillTable(b) == DOMAIN b \subseteq Contracts /\ b \in [DOMAIN b -> BackfillRow]

StoreTypeOK ==
    /\ cursor \in 0..MaxLedger
    /\ IsWatch(contracts)
    /\ IsBackfillTable(backfill)
    /\ IsGapTable(gaps)
    /\ derived \in [Contracts -> [Kinds -> SUBSET Ledgers]]

StoreInit ==
    /\ cursor = 0
    /\ contracts = <<>>
    /\ backfill = <<>>
    /\ gaps = <<>>
    /\ derived = [c \in Contracts |-> [k \in Kinds |-> {}]]

\* The rows of a ledger range, extracted against a set of watched contracts.
Derive(watch, range) ==
    derived' = [c \in Contracts |-> [k \in Kinds |->
                  IF c \in DOMAIN watch /\ k \in watch[c]
                  THEN derived[c][k] \cup range
                  ELSE derived[c][k]]]

-----------------------------------------------------------------------------
(* Contracts.                                                              *)

UpsertContract(c, kinds) ==
    /\ contracts' = [d \in DOMAIN contracts \cup {c} |->
                        IF d = c THEN kinds ELSE contracts[d]]
    /\ UNCHANGED <<cursor, backfill, gaps, derived>>

\* Mutant: the derived rows go with the registration (ON DELETE CASCADE).
DeleteContract_Cascades(c) ==
    /\ contracts' = [d \in DOMAIN contracts \ {c} |-> contracts[d]]
    /\ backfill' = [d \in DOMAIN backfill \ {c} |-> backfill[d]]
    /\ derived' = [derived EXCEPT ![c] = [k \in Kinds |-> {}]]
    /\ UNCHANGED <<cursor, gaps>>

\* The registration and its walk go; the rows already derived stay.
DeleteContract(c) ==
    /\ contracts' = [d \in DOMAIN contracts \ {c} |-> contracts[d]]
    /\ backfill' = [d \in DOMAIN backfill \ {c} |-> backfill[d]]
    /\ UNCHANGED <<cursor, gaps, derived>>

-----------------------------------------------------------------------------
(* EnsureBackfill reconciles a walk with a registration.                   *)

reopenDeferrals(targetFrom, nextTo) ==
    IF nextTo < targetFrom THEN gaps ELSE ReopenGapsRows(gaps, targetFrom, nextTo)

NewBackfill(targetFrom, nextTo, kinds) ==
    [targetFrom |-> targetFrom, nextTo |-> nextTo, done |-> nextTo < targetFrom,
     clampedAt |-> 0, covered |-> kinds]

\* What re-registering makes of an existing row.  A kind outside covered
\* restarts the walk at the anchor; an older target moves the floor; fewer
\* kinds only narrow covered.
Reconciled(row, targetFrom, nextTo, kinds) ==
    LET extends == targetFrom < row.targetFrom
        newKinds == ~(kinds \subseteq row.covered)
    IN IF extends \/ newKinds
       THEN [targetFrom |-> IF extends THEN targetFrom ELSE row.targetFrom,
             nextTo |-> IF newKinds THEN nextTo ELSE row.nextTo,
             done |-> FALSE, clampedAt |-> 0, covered |-> kinds]
       ELSE [row EXCEPT !.covered = @ \cap kinds]

AsksForHistory(row, targetFrom, kinds) ==
    targetFrom < row.targetFrom \/ ~(kinds \subseteq row.covered)

EnsureBackfill(c, targetFrom, nextTo, kinds) ==
    /\ IF c \in DOMAIN backfill
       THEN /\ backfill' = [backfill EXCEPT
                              ![c] = Reconciled(@, targetFrom, nextTo, kinds)]
            /\ gaps' = IF AsksForHistory(backfill[c], targetFrom, kinds)
                       THEN reopenDeferrals(targetFrom, nextTo) ELSE gaps
       ELSE /\ backfill' = [d \in DOMAIN backfill \cup {c} |->
                              IF d = c THEN NewBackfill(targetFrom, nextTo, kinds)
                              ELSE backfill[d]]
            /\ gaps' = reopenDeferrals(targetFrom, nextTo)
    /\ UNCHANGED <<cursor, contracts, derived>>

\* ListPendingBackfills: unfinished walks of contracts still registered.
PendingBackfills ==
    {c \in DOMAIN backfill \cap DOMAIN contracts : ~backfill[c].done}

-----------------------------------------------------------------------------
(* The transactions of the live loop, the backfiller and the healer.       *)

CommitLedger(seq, watch) ==
    /\ cursor' = Max({cursor, seq})
    /\ Derive(watch, {seq})
    /\ UNCHANGED <<contracts, backfill, gaps>>

RecordGap(from, to) ==
    /\ from <= to
    /\ gaps' = RecordGapRows(gaps, from, to)
    /\ UNCHANGED <<cursor, contracts, backfill, derived>>

\* The update is keyed by the contract alone: it does not ask whether the row
\* still is the one the walk was computed from.
CommitBackfillChunk(c, nextTo, done, clampedAt, kinds, range) ==
    /\ c \in DOMAIN backfill
    /\ backfill' = [backfill EXCEPT ![c].nextTo = nextTo, ![c].done = done,
                                    ![c].clampedAt = clampedAt]
    /\ Derive([d \in {c} |-> kinds], range)
    /\ UNCHANGED <<cursor, contracts, gaps>>

\* Mutant: on resolution every row clamped at the wall is closed, however
\* deep its target lies below the gap's floor.
FollowHeal_NoHandoff(row, id, newNextTo, gapsAfter) ==
    IF row.clampedAt # id[2] + 1 THEN row
    ELSE IF row.targetFrom > newNextTo \/ newNextTo < id[1]
         THEN [row EXCEPT !.nextTo = row.targetFrom - 1, !.clampedAt = 0]
         ELSE [row EXCEPT !.nextTo = Min({@, newNextTo})]

\* Mutant: a row whose gap resolved above a deeper one keeps the old wall.
FollowHeal_KeepsWall(row, id, newNextTo, gapsAfter) ==
    LET resolved == newNextTo < id[1]
        deeper == DeeperEnd(gapsAfter, id[1])
    IN IF row.clampedAt # id[2] + 1 THEN row
       ELSE IF row.targetFrom > newNextTo \/ (resolved /\ deeper < row.targetFrom)
       THEN [row EXCEPT !.nextTo = row.targetFrom - 1, !.clampedAt = 0]
       ELSE [row EXCEPT !.nextTo = Min({@, newNextTo})]

\* A row clamped exactly at the gap's wall follows the heal down, is closed
\* once its target is covered, and on resolution is handed to the next open
\* gap below, or closed when none reaches its target.
FollowHeal(row, id, newNextTo, gapsAfter) ==
    LET lowered == [row EXCEPT !.nextTo = Min({@, newNextTo})]
        resolved == newNextTo < id[1]
        deeper == DeeperEnd(gapsAfter, id[1])
    IN IF row.clampedAt # id[2] + 1 THEN row
       ELSE IF row.targetFrom > newNextTo \/ (resolved /\ deeper < row.targetFrom)
       THEN [row EXCEPT !.nextTo = row.targetFrom - 1, !.clampedAt = 0]
       ELSE IF resolved THEN [lowered EXCEPT !.clampedAt = deeper + 1] ELSE lowered

\* id names the row that was listed; the update asks only that it is still
\* open, not that its watermark is the one the chunk was cut from.
CommitHealChunk(id, newNextTo, watch, range) ==
    LET gapsAfter == HealRow(gaps, id, newNextTo)
    IN /\ id \in Open(gaps)
       /\ gaps' = gapsAfter
       /\ backfill' = [c \in DOMAIN backfill |->
                         FollowHeal(backfill[c], id, newNextTo, gapsAfter)]
       /\ Derive(watch, range)
       /\ UNCHANGED <<cursor, contracts>>

\* Registrations clamped at the wall of a split gap are re-pointed at its
\* topmost piece.
RepointClamp(row, wanted) ==
    LET walls == {id \in SplitGaps(gaps, wanted) : id[2] + 1 = row.clampedAt}
    IN [row EXCEPT !.clampedAt =
          IF walls = {} THEN @ ELSE Max({gaps[id].healNextTo + 1 : id \in walls})]

PlanHeal(wanted) ==
    /\ gaps' = PlanHealRows(gaps, wanted)
    /\ backfill' = [c \in DOMAIN backfill |-> RepointClamp(backfill[c], wanted)]
    /\ UNCHANGED <<cursor, contracts, derived>>

=============================================================================
