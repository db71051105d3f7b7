------------------------------ MODULE HealGate -------------------------------
(***************************************************************************)
(* internal/ingest/heal.go, the equivalence gate in front of the healer's  *)
(* workers: wait for a gap, pick a checkpoint-aligned sample behind the    *)
(* cursor, fetch it from the RPC in batches of any size, replay it through *)
(* captive core and compare ledger by ledger.  Archive and RPC are         *)
(* external: Divergent names the ledgers whose replay is not what the RPC  *)
(* serves once both are normalised.                                        *)
(***************************************************************************)
EXTENDS Integers

CONSTANTS
    checkpointFrequency,
    equivalenceSample,
    Divergent,
    MaxCursor,      \* bound: the live cursor grows up to here
    MaxGaps,        \* bound: open gaps of one mode
    MaxRestarts     \* bound: process restarts in a behaviour

ASSUME HealGateAssumption ==
    /\ checkpointFrequency \in Nat \ {0}
    /\ equivalenceSample \in 1..(2 * checkpointFrequency - 1)
    /\ MaxCursor \in Nat /\ MaxGaps \in Nat /\ MaxRestarts \in Nat
    /\ Divergent \subseteq Nat

VARIABLES
    cursor,     \* the live cursor; 0 = no cursor
    gaps,       \* open gaps by mode: [replay, deferred]
    gate,       \* awaitVerified and verifyEquivalence
    healed,     \* heal chunks committed by this process
    restarts

vars == <<cursor, gaps, gate, healed, restarts>>

Unverified == [pc |-> "await", cp |-> 0, seq |-> 0, served |-> {}, equal |-> {}, why |-> "none"]

TypeOK ==
    /\ cursor \in 0..MaxCursor
    /\ gaps \in [replay: 0..MaxGaps, deferred: 0..MaxGaps]
    /\ gate \in [pc: {"await", "sample", "rpc", "replay", "verified", "off"},
                 cp: 0..MaxCursor, seq: 0..MaxCursor + 1,
                 served: SUBSET (1..MaxCursor), equal: SUBSET (1..MaxCursor),
                 why: {"none", "error", "divergence"}]
    /\ healed \in 0..1
    /\ restarts \in 0..MaxRestarts

Init ==
    /\ cursor = 0 /\ gaps = [replay |-> 0, deferred |-> 0] /\ gate = Unverified
    /\ healed = 0 /\ restarts = MaxRestarts

\* Whatever verifyEquivalence returns, the healer is off for this process.
Disable(reason) ==
    /\ gate' = [gate EXCEPT !.pc = "off", !.why = reason]
    /\ UNCHANGED <<cursor, gaps, healed, restarts>>

\* ListOpenGaps: what a plan deferred is not the healer's to replay.
ToReplay == gaps.replay > 0

\* The gate is lazy: no core starts before there is a gap.
awaitGap ==
    /\ gate.pc = "await" /\ ToReplay
    /\ gate' = [gate EXCEPT !.pc = "sample"]
    /\ UNCHANGED <<cursor, gaps, healed, restarts>>

\* The newest checkpoint a full cadence behind the cursor.
newestCheckpoint(cur) ==
    ((cur - checkpointFrequency + 1) \div checkpointFrequency) * checkpointFrequency - 1

From(cp) == cp - equivalenceSample + 1

\* Mutant: the minimum history is not asked for.
pickSample_NoFloor ==
    /\ gate.pc = "sample"
    /\ LET cp == newestCheckpoint(cursor)
       IN  gate' = [gate EXCEPT !.pc = "rpc", !.cp = cp, !.seq = From(cp)]
    /\ UNCHANGED <<cursor, gaps, healed, restarts>>

pickSample ==
    /\ gate.pc = "sample" /\ cursor >= 3 * checkpointFrequency
    /\ LET cp == newestCheckpoint(cursor)
       IN  gate' = [gate EXCEPT !.pc = "rpc", !.cp = cp, !.seq = From(cp)]
    /\ UNCHANGED <<cursor, gaps, healed, restarts>>

cursorTooLow ==
    /\ gate.pc = "sample" /\ cursor < 3 * checkpointFrequency
    /\ Disable("error")

\* A batch may be shorter than asked for; the loop goes on after what came.
fetchBatch ==
    /\ gate.pc = "rpc"
    /\ \E last \in gate.seq..gate.cp :
          gate' = [gate EXCEPT !.served = @ \cup (gate.seq..last),
                     !.pc = IF last = gate.cp THEN "replay" ELSE "rpc",
                     !.seq = IF last = gate.cp THEN From(gate.cp) ELSE last + 1]
    /\ UNCHANGED <<cursor, gaps, healed, restarts>>

Equal(seq) == seq \in gate.served /\ seq \notin Divergent

\* Mutant: one equal ledger opens the gate.
compare_FirstOnly ==
    /\ gate.pc = "replay" /\ Equal(gate.seq)
    /\ gate' = [gate EXCEPT !.equal = @ \cup {gate.seq}, !.pc = "verified"]
    /\ UNCHANGED <<cursor, gaps, healed, restarts>>

\* One replayed ledger equals the RPC's; after the last, the gate is open.
compare ==
    /\ gate.pc = "replay" /\ Equal(gate.seq)
    /\ gate' = [gate EXCEPT !.equal = @ \cup {gate.seq}, !.seq = @ + 1,
                  !.pc = IF gate.seq = gate.cp THEN "verified" ELSE "replay"]
    /\ UNCHANGED <<cursor, gaps, healed, restarts>>

diverges ==
    /\ gate.pc = "replay" /\ ~Equal(gate.seq)
    /\ Disable("divergence")

\* The cursor read, an RPC batch or the captive core fails.
verificationFails ==
    /\ gate.pc \in {"sample", "rpc", "replay"}
    /\ Disable("error")

\* The workers, as far as the gate is concerned (module Healer).
heal ==
    /\ gate.pc = "verified" /\ ToReplay
    /\ healed' = 1
    /\ \E resolved \in 0..1 : gaps' = [gaps EXCEPT !.replay = @ - resolved]
    /\ UNCHANGED <<cursor, gate, restarts>>

liveCommit ==
    /\ cursor < MaxCursor
    /\ cursor' = cursor + 1
    /\ UNCHANGED <<gaps, gate, healed, restarts>>

recordGap ==
    /\ gaps.replay < MaxGaps
    /\ gaps' = [gaps EXCEPT !.replay = @ + 1]
    /\ UNCHANGED <<cursor, gate, healed, restarts>>

\* A plan cuts the open gaps into pieces of either mode, a wider one hands
\* deferred pieces back; no open gap disappears (module Gaps).
planHeal ==
    /\ gaps.replay + gaps.deferred > 0
    /\ gaps' \in {g \in [replay: 0..MaxGaps, deferred: 0..MaxGaps] : g.replay + g.deferred > 0}
    /\ UNCHANGED <<cursor, gate, healed, restarts>>

restart ==
    /\ restarts > 0 /\ restarts' = restarts - 1
    /\ gate' = Unverified /\ healed' = 0
    /\ UNCHANGED <<cursor, gaps>>

Next == awaitGap \/ pickSample \/ cursorTooLow \/ fetchBatch \/ compare \/ diverges
        \/ verificationFails \/ heal \/ liveCommit \/ recordGap \/ planHeal \/ restart

Spec == Init /\ [][Next]_vars

-----------------------------------------------------------------------------
\* Served lies are worse than declared gaps: no chunk is committed before a
\* whole sample was fetched and found equal; the sample ends at a checkpoint
\* the archives have had a full cadence to publish.
HealsOnlyProven ==
    healed > 0 =>
       /\ gate.equal = From(gate.cp)..gate.cp /\ From(gate.cp) >= 1
       /\ gate.equal \cap Divergent = {}
       /\ (gate.cp + 1) % checkpointFrequency = 0
       /\ gate.cp + checkpointFrequency <= cursor

\* "Transient failures idle and retry; only a proven divergence stops the
\* healer": Run's contract, and what /status calls equivalence_failed.
\* verificationFails breaks it (README, section 4).
OnlyDivergenceDisables == gate.pc = "off" => gate.why = "divergence"

=============================================================================
