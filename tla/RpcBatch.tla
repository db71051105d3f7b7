------------------------------ MODULE RpcBatch -------------------------------
(***************************************************************************)
(* GetLedgerBatch and the loops that call it: the backfiller's scan and    *)
(* the equivalence gate read a range of ledgers batch by batch, sharing    *)
(* one client that remembers how many ledgers fit under its body cap.  The *)
(* ceiling and the success counter are atomics; callers interleave between *)
(* reading one and writing the other.                                      *)
(***************************************************************************)
EXTENDS Integers, FiniteSetsExt

CONSTANTS
    Callers,
    MaxLedger,
    Weight,             \* ledger -> the size of its meta
    bodyCap,
    maxBatchLimit,
    batchGrowEvery,
    batchLimit,         \* what a caller asks for at most (backfillBatchLimit)
    MaxFails            \* bound: calls that fail for another reason

Ledgers == 1..MaxLedger

ASSUME RpcBatchAssumption ==
    /\ MaxLedger \in Nat \ {0} /\ bodyCap \in Nat
    /\ maxBatchLimit \in Nat \ {0} /\ batchGrowEvery \in Nat \ {0} /\ batchLimit \in Nat \ {0}
    /\ MaxFails \in Nat
    \* one ledger always fits: an oversized one is an error no retry cures
    /\ Weight \in [Ledgers -> 0..bodyCap]

VARIABLES
    batchCeiling,
    batchWins,      \* modulo batchGrowEvery, the only way it is read
    scan,           \* caller -> the range it is reading
    fails           \* failures left

vars == <<batchCeiling, batchWins, scan, fails>>

Idle == [pc |-> "idle", from |-> 1, to |-> 1, seq |-> 1, eff |-> 0, got |-> {}]

TypeOK ==
    /\ batchCeiling \in 1..maxBatchLimit
    /\ batchWins \in 0..(batchGrowEvery - 1) /\ fails \in 0..MaxFails
    /\ scan \in [Callers -> [pc: {"idle", "ask", "call", "over", "grow"}, from: Ledgers, to: Ledgers,
                             seq: 1..MaxLedger + 1, eff: 0..maxBatchLimit, got: SUBSET Ledgers]]

Init ==
    /\ batchCeiling = maxBatchLimit /\ batchWins = 0
    /\ scan = [c \in Callers |-> Idle]
    /\ fails = MaxFails

Begin(c) ==
    /\ scan[c].pc = "idle"
    /\ \E from \in Ledgers : \E to \in from..MaxLedger :
          scan' = [scan EXCEPT ![c] = [pc |-> "ask", from |-> from, to |-> to, seq |-> from,
                                       eff |-> 0, got |-> {}]]
    /\ UNCHANGED <<batchCeiling, batchWins, fails>>

\* The clamped limit of the call: what is left, the caller's batch, the RPC's cap.
limit(c) == Min({scan[c].to - scan[c].seq + 1, batchLimit, maxBatchLimit})

\* GetLedgerBatch reads the remembered ceiling once, when it is called.
Ask(c) ==
    /\ scan[c].pc = "ask"
    /\ scan' = [scan EXCEPT ![c].pc = "call",
                            ![c].eff = Max({1, Min({limit(c), batchCeiling})})]
    /\ UNCHANGED <<batchCeiling, batchWins, fails>>

Size(from, to) == MapThenSumSet(LAMBDA l : Weight[l], from..to)

\* Mutant: a third is asked for next, and nothing after a batch of two.
Halved_Third(eff) == eff \div 3

\* Mutant: the identical oversized request is sent again.
Halved_Same(eff) == eff

Halved(eff) == eff \div 2

\* The answer overflows the cap: halve the request and remember it.
Overflow(c, n) ==
    /\ Size(scan[c].seq, scan[c].seq + n - 1) > bodyCap
    /\ scan[c].eff > 1
    /\ batchCeiling' = Halved(scan[c].eff)
    /\ scan' = [scan EXCEPT ![c].pc = "over", ![c].eff = Halved(@)]
    /\ UNCHANGED <<batchWins, fails>>

ResetWins(c) ==
    /\ scan[c].pc = "over"
    /\ batchWins' = 0
    /\ scan' = [scan EXCEPT ![c].pc = "call"]
    /\ UNCHANGED <<batchCeiling, fails>>

\* Mutant: the scan moves on by what it asked for, not by what it got.
NextSeq_Asked(c, n) == scan[c].seq + scan[c].eff

NextSeq(c, n) == scan[c].seq + n

\* After a batch the caller's loop asks again, or is through.
Resume(seq, to) == IF seq <= to THEN "ask" ELSE "idle"

Due(wins) == wins = 0

\* A batch arrives, perhaps shorter than asked for.  A reduced batch counts
\* towards the next probe.
Fits(c, n) ==
    LET seq == NextSeq(c, n)
        reduced == scan[c].eff < limit(c)
        wins == (batchWins + 1) % batchGrowEvery
    IN  /\ Size(scan[c].seq, scan[c].seq + n - 1) <= bodyCap
        /\ batchWins' = IF reduced THEN wins ELSE batchWins
        /\ scan' = [scan EXCEPT ![c].got = @ \cup (scan[c].seq..scan[c].seq + n - 1),
                      ![c].seq = seq,
                      ![c].pc = IF reduced /\ Due(wins) THEN "grow" ELSE Resume(seq, scan[c].to)]
        /\ UNCHANGED <<batchCeiling, fails>>

Answer(c) ==
    /\ scan[c].pc = "call"
    /\ \E n \in 1..scan[c].eff : Overflow(c, n) \/ Fits(c, n)

Grow(c) ==
    /\ scan[c].pc = "grow"
    /\ batchCeiling' = Min({maxBatchLimit, scan[c].eff + Max({scan[c].eff \div 4, 1})})
    /\ scan' = [scan EXCEPT ![c].pc = Resume(scan[c].seq, scan[c].to)]
    /\ UNCHANGED <<batchWins, fails>>

\* Any other error ends the scan: the chunk is read again from its start.
Fails(c) ==
    /\ scan[c].pc = "call" /\ fails > 0 /\ fails' = fails - 1
    /\ scan' = [scan EXCEPT ![c] = [@ EXCEPT !.pc = "ask", !.seq = scan[c].from,
                                             !.eff = 0, !.got = {}]]
    /\ UNCHANGED <<batchCeiling, batchWins>>

Step(c) == Ask(c) \/ Answer(c) \/ ResetWins(c) \/ Grow(c)

Next == \E c \in Callers : Begin(c) \/ Step(c) \/ Fails(c)

Spec == Init /\ [][Next]_vars

\* A started scan goes on; failures come to an end (MaxFails).
FairSpec == Spec /\ \A c \in Callers : WF_vars(Step(c))

-----------------------------------------------------------------------------
\* Short batches leave no hole: what a scan holds is its range up to the next
\* ledger it will ask for, all of it when the scan is through, whatever the
\* other callers do to the ceiling meanwhile.
NoLedgerSkipped ==
    \A c \in Callers : scan[c].pc # "idle" \/ scan[c].got # {} =>
       /\ scan[c].got = scan[c].from..(scan[c].seq - 1)
       /\ scan[c].pc = "idle" => scan[c].seq = scan[c].to + 1

\* Halving ends and short batches add up: a scan that starts is finished.
ScanFinishes == \A c \in Callers : (scan[c].pc = "ask") ~> (scan[c].pc = "idle")

=============================================================================
