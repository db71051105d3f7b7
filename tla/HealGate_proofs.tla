--------------------------- MODULE HealGate_proofs ---------------------------
(***************************************************************************)
(* No unproven ledger is healed, whatever the checkpoint cadence, the size *)
(* of the sample and the ledgers on which archive and RPC disagree.        *)
(***************************************************************************)
EXTENDS HealGate, TLAPS

\* A checkpoint that can be sampled: it ends its cadence, lies a full cadence
\* behind the cursor and has a whole sample below it.
Sampled(cp) ==
    /\ (cp + 1) % checkpointFrequency = 0
    /\ cp + checkpointFrequency <= cursor
    /\ From(cp) >= 1

\* What the gate has found equal so far, by the step it is at.
GateInv ==
    /\ healed > 0 => gate.pc = "verified"
    /\ gate.pc \in {"rpc", "replay", "verified"} => Sampled(gate.cp)
    /\ gate.pc \in {"await", "sample", "rpc"} => gate.equal = {}
    /\ gate.pc = "rpc" => gate.seq \in From(gate.cp)..gate.cp
    /\ gate.pc = "replay" => /\ gate.seq \in From(gate.cp)..gate.cp
                             /\ gate.equal = From(gate.cp)..(gate.seq - 1)
    /\ gate.pc = "verified" => gate.equal = From(gate.cp)..gate.cp
    /\ gate.equal \cap Divergent = {}

IInv == TypeOK /\ GateInv

-----------------------------------------------------------------------------
\* A multiple of the cadence leaves no remainder.
LEMMA Multiple ==
    ASSUME NEW q \in Nat, NEW f \in Nat, f > 0
    PROVE  (q * f) % f = 0
OBVIOUS

\* pickSample's arithmetic: from three cadences on, the checkpoint it picks can
\* be sampled.
LEMMA PickedIsSampled ==
    ASSUME cursor \in Nat, cursor >= 3 * checkpointFrequency
    PROVE  LET cp == newestCheckpoint(cursor)
           IN  /\ cp \in Nat /\ cp + checkpointFrequency <= cursor
               /\ (cp + 1) % checkpointFrequency = 0
               /\ From(cp) \in 1..cp
<1> DEFINE f == checkpointFrequency
           n == cursor - f + 1
           q == n \div f
<1>1. f \in Nat /\ f > 0 /\ equivalenceSample \in 1..(2 * f - 1)
  BY HealGateAssumption
<1>2. n \in Nat /\ n >= 2 * f + 1
  BY <1>1
<1>3. q \in Nat /\ q * f <= n /\ n < q * f + f
  BY <1>1, <1>2, Z3
<1>4. q >= 2
  BY <1>1, <1>2, <1>3
<1>5. q * f >= 2 * f
  BY <1>1, <1>3, <1>4
<1>6. q * f \in Nat /\ (q * f) % f = 0
  BY <1>1, <1>3, Multiple
<1>7. newestCheckpoint(cursor) = q * f - 1
  BY DEF newestCheckpoint
<1> HIDE DEF q
<1> QED BY <1>1, <1>2, <1>3, <1>5, <1>6, <1>7 DEF From

-----------------------------------------------------------------------------
LEMMA InitIInv == Init => IInv
BY HealGateAssumption DEF Init, IInv, TypeOK, GateInv, Unverified

\* The step that picks the sample.
LEMMA PickKeepsIInv == IInv /\ pickSample => IInv'
<1> SUFFICES ASSUME IInv, pickSample PROVE IInv'
  OBVIOUS
<1> DEFINE cp == newestCheckpoint(cursor)
<1>1. cursor \in Nat /\ MaxCursor \in Nat /\ checkpointFrequency \in Nat \ {0}
  BY HealGateAssumption DEF IInv, TypeOK
<1>2. /\ cp \in Nat /\ cp + checkpointFrequency <= cursor
      /\ (cp + 1) % checkpointFrequency = 0 /\ From(cp) \in 1..cp
  BY <1>1, PickedIsSampled DEF pickSample
<1>3. cp \in 0..MaxCursor /\ From(cp) \in 0..(MaxCursor + 1)
  BY <1>1, <1>2 DEF IInv, TypeOK
<1>4. /\ gate' = [gate EXCEPT !.pc = "rpc", !.cp = cp, !.seq = From(cp)]
      /\ UNCHANGED <<cursor, gaps, healed, restarts>> /\ gate.pc = "sample"
  BY DEF pickSample
<1> HIDE DEF cp
<1>5. TypeOK'
  BY <1>3, <1>4 DEF IInv, TypeOK
<1>6. gate'.pc = "rpc" /\ gate'.cp = cp /\ gate'.seq = From(cp) /\ gate'.equal = gate.equal
  BY <1>4 DEF IInv, TypeOK
<1>7. Sampled(gate.cp)' /\ From(gate.cp)' = From(cp)
  BY <1>1, <1>2, <1>4, <1>6 DEF Sampled, From
<1>8. GateInv'
  BY <1>1, <1>2, <1>4, <1>6, <1>7 DEF IInv, GateInv
<1> QED BY <1>5, <1>8 DEF IInv

\* A batch of any length moves on inside the sample.
LEMMA FetchKeepsIInv == IInv /\ fetchBatch => IInv'
<1> SUFFICES ASSUME IInv, fetchBatch PROVE IInv'
  OBVIOUS
<1>1. PICK last \in gate.seq..gate.cp :
         gate' = [gate EXCEPT !.served = @ \cup (gate.seq..last),
                    !.pc = IF last = gate.cp THEN "replay" ELSE "rpc",
                    !.seq = IF last = gate.cp THEN From(gate.cp) ELSE last + 1]
  BY DEF fetchBatch
<1>2. /\ gate.pc = "rpc" /\ UNCHANGED <<cursor, gaps, healed, restarts>>
      /\ gate.cp \in 0..MaxCursor /\ MaxCursor \in Nat /\ cursor \in Nat
      /\ checkpointFrequency \in Nat \ {0} /\ equivalenceSample \in Nat \ {0}
  BY HealGateAssumption DEF fetchBatch, IInv, TypeOK
<1>3. Sampled(gate.cp) /\ gate.seq \in From(gate.cp)..gate.cp /\ gate.equal = {}
  BY <1>2 DEF IInv, GateInv
<1>4. From(gate.cp) \in 1..gate.cp /\ last \in 1..gate.cp
  BY <1>2, <1>3 DEF Sampled, From
<1>5. gate.seq..last \subseteq 1..MaxCursor
  BY <1>2, <1>3, <1>4
<1>6. TypeOK'
  <2>1. gate.served \cup (gate.seq..last) \in SUBSET (1..MaxCursor)
    BY <1>5 DEF IInv, TypeOK
  <2>2. (IF last = gate.cp THEN From(gate.cp) ELSE last + 1) \in 0..(MaxCursor + 1)
    BY <1>2, <1>4
  <2> QED BY <1>1, <1>2, <2>1, <2>2 DEF IInv, TypeOK
<1>7. /\ gate'.pc = (IF last = gate.cp THEN "replay" ELSE "rpc")
      /\ gate'.seq = (IF last = gate.cp THEN From(gate.cp) ELSE last + 1)
      /\ gate'.cp = gate.cp /\ gate'.equal = {}
  BY <1>1, <1>3 DEF IInv, TypeOK
<1>8. Sampled(gate.cp)' /\ From(gate.cp)' = From(gate.cp)
  BY <1>2, <1>3, <1>7 DEF Sampled, From
<1>9. GateInv'
  BY <1>2, <1>3, <1>4, <1>7, <1>8 DEF IInv, GateInv
<1> QED BY <1>6, <1>9 DEF IInv

\* One more ledger of the sample found equal.
LEMMA CompareKeepsIInv == IInv /\ compare => IInv'
<1> SUFFICES ASSUME IInv, compare PROVE IInv'
  OBVIOUS
<1>1. /\ gate' = [gate EXCEPT !.equal = @ \cup {gate.seq}, !.seq = @ + 1,
                    !.pc = IF gate.seq = gate.cp THEN "verified" ELSE "replay"]
      /\ gate.pc = "replay" /\ UNCHANGED <<cursor, gaps, healed, restarts>>
      /\ gate.seq \notin Divergent
  BY DEF compare, Equal
<1>2. /\ gate.cp \in 0..MaxCursor /\ MaxCursor \in Nat /\ cursor \in Nat
      /\ checkpointFrequency \in Nat \ {0} /\ equivalenceSample \in Nat \ {0}
  BY HealGateAssumption DEF IInv, TypeOK
<1>3. /\ Sampled(gate.cp) /\ gate.seq \in From(gate.cp)..gate.cp
      /\ gate.equal = From(gate.cp)..(gate.seq - 1)
  BY <1>1 DEF IInv, GateInv
<1>4. From(gate.cp) \in 1..gate.cp
  BY <1>2, <1>3 DEF Sampled, From
<1>5. gate.equal \cup {gate.seq} = From(gate.cp)..gate.seq
  BY <1>2, <1>3, <1>4
<1>6. TypeOK'
  <2>1. gate.equal \cup {gate.seq} \in SUBSET (1..MaxCursor)
    BY <1>2, <1>3, <1>4 DEF IInv, TypeOK
  <2>2. gate.seq + 1 \in 0..(MaxCursor + 1)
    BY <1>2, <1>3, <1>4
  <2> QED BY <1>1, <1>2, <2>1, <2>2 DEF IInv, TypeOK
<1>7. /\ gate'.pc = (IF gate.seq = gate.cp THEN "verified" ELSE "replay")
      /\ gate'.seq = gate.seq + 1 /\ gate'.cp = gate.cp
      /\ gate'.equal = From(gate.cp)..gate.seq
  BY <1>1, <1>5 DEF IInv, TypeOK
<1>8. Sampled(gate.cp)' /\ From(gate.cp)' = From(gate.cp)
  BY <1>1, <1>2, <1>3, <1>7 DEF Sampled, From
<1>9. gate'.equal \cap Divergent = {}
  BY <1>1, <1>5, <1>7 DEF IInv, GateInv
<1>10. GateInv'
  BY <1>1, <1>2, <1>3, <1>4, <1>7, <1>8, <1>9 DEF IInv, GateInv
<1> QED BY <1>6, <1>10 DEF IInv

\* The gate and the heals stand still.
LEMMA GateStays ==
    ASSUME IInv, TypeOK', UNCHANGED <<gate, healed>>, cursor <= cursor'
    PROVE  GateInv'
<1>1. cursor \in Nat /\ cursor' \in Nat /\ gate.cp \in Nat
  BY HealGateAssumption DEF IInv, TypeOK
<1>2. Sampled(gate.cp) => Sampled(gate.cp)'
  BY <1>1, HealGateAssumption DEF Sampled, From
<1>3. From(gate.cp)' = From(gate.cp)
  BY DEF From
<1> QED BY <1>2, <1>3 DEF IInv, GateInv

\* The steps that leave the sample alone.
LEMMA OthersKeepIInv ==
    ASSUME IInv,
           awaitGap \/ cursorTooLow \/ diverges \/ verificationFails \/ heal
              \/ liveCommit \/ recordGap \/ planHeal \/ restart \/ UNCHANGED vars
    PROVE  IInv'
<1>1. CASE awaitGap
  <2>1. TypeOK'
    BY <1>1 DEF IInv, TypeOK, awaitGap
  <2>2. gate'.pc = "sample" /\ gate'.equal = gate.equal /\ healed' = healed /\ gate.pc = "await"
    BY <1>1 DEF IInv, TypeOK, awaitGap
  <2> QED BY <2>1, <2>2 DEF IInv, GateInv
<1>2. CASE cursorTooLow \/ diverges \/ verificationFails
  <2>1. PICK reason \in {"error", "divergence"} : Disable(reason)
    BY <1>2 DEF cursorTooLow, diverges, verificationFails
  <2>2. TypeOK'
    BY <2>1 DEF IInv, TypeOK, Disable
  <2>3. gate'.pc = "off" /\ gate'.equal = gate.equal /\ healed' = healed
    BY <2>1 DEF IInv, TypeOK, Disable
  <2>4. gate.pc # "verified"
    BY <1>2 DEF cursorTooLow, diverges, verificationFails
  <2> QED BY <2>2, <2>3, <2>4 DEF IInv, GateInv, TypeOK
<1>3. CASE heal
  <2>1. TypeOK'
    BY <1>3, HealGateAssumption DEF IInv, TypeOK, heal, ToReplay
  <2>2. gate' = gate /\ cursor' = cursor /\ gate.pc = "verified"
    BY <1>3 DEF heal
  <2>3. (Sampled(gate.cp)' <=> Sampled(gate.cp)) /\ From(gate.cp)' = From(gate.cp)
    BY <2>2 DEF Sampled, From
  <2> QED BY <2>1, <2>2, <2>3 DEF IInv, GateInv
<1>4. CASE liveCommit
  <2>1. TypeOK' /\ UNCHANGED <<gate, healed>> /\ cursor <= cursor'
    BY <1>4, HealGateAssumption DEF IInv, TypeOK, liveCommit
  <2> QED BY <2>1, GateStays DEF IInv
<1>5. CASE recordGap \/ planHeal
  <2>1. TypeOK' /\ UNCHANGED <<gate, healed>> /\ cursor <= cursor'
    BY <1>5, HealGateAssumption DEF IInv, TypeOK, recordGap, planHeal
  <2> QED BY <2>1, GateStays DEF IInv
<1>6. CASE restart
  <2>1. TypeOK'
    BY <1>6, HealGateAssumption DEF IInv, TypeOK, restart, Unverified
  <2>2. gate'.pc = "await" /\ gate'.equal = {} /\ healed' = 0
    BY <1>6 DEF restart, Unverified
  <2> QED BY <2>1, <2>2 DEF IInv, GateInv
<1>7. CASE UNCHANGED vars
  <2>1. TypeOK' /\ UNCHANGED <<gate, healed>> /\ cursor <= cursor'
    BY <1>7, HealGateAssumption DEF IInv, TypeOK, vars
  <2> QED BY <2>1, GateStays DEF IInv
<1> QED BY <1>1, <1>2, <1>3, <1>4, <1>5, <1>6, <1>7

LEMMA NextIInv == IInv /\ [Next]_vars => IInv'
BY PickKeepsIInv, FetchKeepsIInv, CompareKeepsIInv, OthersKeepIInv DEF Next

LEMMA IInvImplies == IInv => HealsOnlyProven
BY HealGateAssumption DEF IInv, TypeOK, GateInv, Sampled, HealsOnlyProven

\* The gate's bookkeeping stays in range: the batches and the replay never leave
\* the ledgers behind the cursor.
THEOREM GateTyped == Spec => []TypeOK
<1>1. IInv => TypeOK
  BY DEF IInv
<1> QED BY InitIInv, NextIInv, <1>1, PTL DEF Spec

\* Served lies are worse than declared gaps: for every cadence, sample size
\* and set of divergent ledgers, a heal chunk is committed only by a process
\* whose gate found a whole checkpoint-aligned sample, a full cadence behind
\* the cursor, equal to the RPC's.
THEOREM HealsProven == Spec => []HealsOnlyProven
<1>1. Init => IInv
  BY InitIInv
<1>2. IInv /\ [Next]_vars => IInv'
  BY NextIInv
<1>3. IInv => HealsOnlyProven
  BY IInvImplies
<1> QED BY <1>1, <1>2, <1>3, PTL DEF Spec

=============================================================================
