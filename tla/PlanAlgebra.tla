----------------------------- MODULE PlanAlgebra -----------------------------
(***************************************************************************)
(* The loops over sorted slices behind RecordGap, PlanHeal and the clamp,  *)
(* with 32-bit sequence numbers shrunk to 0..MaxLedger, against what the   *)
(* rest of the project takes them to compute: module Gaps' uncoveredRanges *)
(* and partition, and the backfiller's wall.                               *)
(*                                                                         *)
(* A step is one iteration of a loop.  A loop over a slice is handed its   *)
(* elements as it goes, in the order the sort before it leaves them in, so *)
(* that the input of a behaviour is whatever its loop has met.             *)
(***************************************************************************)
EXTENDS Gaps, Sequences

CONSTANTS
    checkpointFrequency,
    Paddings,       \* padding values an operator may ask for
    MaxIntervals    \* bound: ranges a loop meets

ASSUME PlanAssumption ==
    /\ checkpointFrequency \in Nat \ {0}
    \* the largest sequence number is the last of its checkpoint, as 2^32 - 1 is
    /\ (MaxLedger + 1) % checkpointFrequency = 0
    /\ Paddings \subseteq 0..MaxLedger /\ MaxIntervals \in Nat

VARIABLES
    plan,       \* normalizePlan: the request met so far, and its merged intervals
    cut,        \* partition of a gap's remainder along the plan
    holes,      \* uncoveredRanges of a range being recorded
    probe       \* findWall

planVars == <<plan, cut, holes, probe>>

NotPlanning == [pc |-> "idle", padding |-> 0, asked |-> {}, n |-> 0, key |-> 0,
                merged |-> <<>>]
NotCutting == [pc |-> "idle", from |-> 0, to |-> 0, i |-> 1, cur |-> 0, out |-> {}]
NotRecording == [pc |-> "idle", from |-> 0, to |-> 0, met |-> {}, key |-> 0, cursor |-> 0,
                 out |-> {}]
NotProbing == [pc |-> "idle", from |-> 0, to |-> 0, lo |-> 0, hi |-> 0, first |-> 0, wall |-> 0]

PlanInit ==
    /\ plan = NotPlanning /\ cut = NotCutting
    /\ holes = NotRecording /\ probe = NotProbing

-----------------------------------------------------------------------------
(* normalizePlan.                                                          *)

\* uint32 addition.
Plus(a, b) == (a + b) % (MaxLedger + 1)

\* Padding alone, saturating at both ends (as a mutant of Pad: no snapping).
Pad_NoSnap(id, padding) ==
    <<IF id[1] > padding THEN id[1] - padding ELSE 1,
      IF id[2] < MaxLedger - padding THEN Plus(id[2], padding) ELSE MaxLedger>>

\* Widen an interval by the padding, then out to checkpoint boundaries,
\* saturating at both ends.
Pad(id, padding) ==
    LET from == IF id[1] > padding THEN id[1] - padding ELSE 1
        to == IF id[2] < MaxLedger - padding THEN Plus(id[2], padding) ELSE MaxLedger
        low == from - (from % checkpointFrequency)
        pad == checkpointFrequency - 1 - (to % checkpointFrequency)
    IN  <<IF low = 0 THEN 1 ELSE low,
          IF to < MaxLedger - pad THEN Plus(to, pad) ELSE MaxLedger>>

\* One step of the merge: last.To+1 wraps at the top of the range.
Merge(merged, iv) ==
    LET last == merged[Len(merged)]
    IN  IF merged # <<>> /\ iv[1] <= Plus(last[2], 1)
        THEN [merged EXCEPT ![Len(merged)] = <<last[1], IF iv[2] > last[2] THEN iv[2] ELSE last[2]>>]
        ELSE Append(merged, iv)

StartPlan ==
    /\ plan.pc = "idle"
    /\ \E padding \in Paddings :
          plan' = [NotPlanning EXCEPT !.pc = "merge", !.padding = padding]
    /\ UNCHANGED <<cut, holes, probe>>

\* The next interval of the sorted request is merged; key is where the sort has got to.
normalizePlan ==
    /\ plan.pc = "merge" /\ plan.n < MaxIntervals /\ cut.pc = "idle"
    /\ \E id \in GapId :
          LET iv == Pad(id, plan.padding)
          IN  /\ iv[1] >= plan.key
              /\ plan' = [plan EXCEPT !.asked = @ \cup {id}, !.n = @ + 1, !.key = iv[1],
                                      !.merged = Merge(@, iv)]
    /\ UNCHANGED <<cut, holes, probe>>

-----------------------------------------------------------------------------
(* partition.                                                              *)

\* Mutant: the deferred piece ends where the replayed one starts.
Cut_Overlap(acc, iv) ==
    LET start == IF iv[1] > acc.cur THEN iv[1] ELSE acc.cur
        end == IF iv[2] < acc.to THEN iv[2] ELSE acc.to
    IN  IF iv[2] < acc.cur THEN [acc EXCEPT !.i = @ + 1]
        ELSE [acc EXCEPT !.pc = IF end = acc.to THEN "done" ELSE "loop",
                         !.i = @ + 1, !.cur = Plus(end, 1),
                         !.out = @ \cup {<<start, end, "replay">>}
                                   \cup (IF start > acc.cur
                                         THEN {<<acc.cur, start, "deferred">>} ELSE {})]

\* One interval of the plan that does not start past the range.
Cut(acc, iv) ==
    LET start == IF iv[1] > acc.cur THEN iv[1] ELSE acc.cur
        end == IF iv[2] < acc.to THEN iv[2] ELSE acc.to
    IN  IF iv[2] < acc.cur THEN [acc EXCEPT !.i = @ + 1]
        ELSE [acc EXCEPT !.pc = IF end = acc.to THEN "done" ELSE "loop",
                         !.i = @ + 1, !.cur = Plus(end, 1),
                         !.out = @ \cup {<<start, end, "replay">>}
                                   \cup (IF start > acc.cur
                                         THEN {<<acc.cur, start - 1, "deferred">>} ELSE {})]

\* PlanHeal cuts what is left of one open gap after the other.
StartCut ==
    /\ plan.pc = "merge" /\ cut.pc # "loop"
    /\ \E range \in GapId :
          cut' = [NotCutting EXCEPT !.pc = "loop", !.from = range[1], !.to = range[2],
                                    !.cur = range[1]]
    /\ UNCHANGED <<plan, holes, probe>>

\* The plan is used up, or its next interval is neither passed nor in the range.
CutEnds ==
    \/ cut.i > Len(plan.merged)
    \/ plan.merged[cut.i][2] >= cut.cur /\ plan.merged[cut.i][1] > cut.to

partitionLoop ==
    /\ cut.pc = "loop"
    /\ cut' = IF CutEnds
              THEN [cut EXCEPT !.pc = "done", !.out = @ \cup {<<cut.cur, cut.to, "deferred">>}]
              ELSE Cut(cut, plan.merged[cut.i])
    /\ UNCHANGED <<plan, holes, probe>>

-----------------------------------------------------------------------------
(* uncoveredRanges.                                                        *)

\* Mutant: the cursor follows the last covering range, not the furthest.
Uncover_Trim(acc, c) ==
    IF acc.cursor > acc.to \/ c[2] < c[1] THEN acc
    ELSE [acc EXCEPT !.out = IF c[1] > acc.cursor
                             THEN @ \cup {<<acc.cursor, IF c[1] - 1 > acc.to THEN acc.to ELSE c[1] - 1>>}
                             ELSE @,
                     !.cursor = c[2] + 1]

\* One covering gap met by the range being recorded (64-bit arithmetic).
Uncover(acc, c) ==
    IF acc.cursor > acc.to \/ c[2] < c[1] THEN acc
    ELSE [acc EXCEPT !.out = IF c[1] > acc.cursor
                             THEN @ \cup {<<acc.cursor, IF c[1] - 1 > acc.to THEN acc.to ELSE c[1] - 1>>}
                             ELSE @,
                     !.cursor = IF c[2] + 1 > @ THEN c[2] + 1 ELSE @]

StartHoles ==
    /\ holes.pc = "idle"
    /\ \E range \in GapId :
          holes' = [NotRecording EXCEPT !.pc = "loop", !.from = range[1], !.to = range[2],
                                        !.cursor = range[1]]
    /\ UNCHANGED <<plan, cut, probe>>

\* The next of the covering ranges, by their first element.
uncoveredLoop ==
    /\ holes.pc = "loop" /\ Cardinality(holes.met) < MaxIntervals
    /\ \E c \in Ledgers \X Ledgers :
          /\ c[1] >= holes.key
          /\ holes' = [Uncover(holes, c) EXCEPT !.met = @ \cup {c}, !.key = c[1]]
    /\ UNCHANGED <<plan, cut, probe>>

EndHoles ==
    /\ holes.pc = "loop"
    /\ holes' = [holes EXCEPT !.pc = "done",
                              !.out = IF holes.cursor <= holes.to
                                      THEN @ \cup {<<holes.cursor, holes.to>>} ELSE @]
    /\ UNCHANGED <<plan, cut, probe>>

-----------------------------------------------------------------------------
(* findWall.                                                               *)

\* Mutant: the search resumes one ledger too high after a miss.
Halve_SkipsOne(lo, hi, mid, served) == IF served THEN <<lo, mid>> ELSE <<mid + 2, hi>>

\* What is left to search after probing mid.
Halve(lo, hi, mid, served) == IF served THEN <<lo, mid>> ELSE <<mid + 1, hi>>

\* The source serves the ledgers from wall on; first is the wall at the start.
StartProbe ==
    /\ probe.pc # "search"
    /\ \E from, wall \in 1..MaxLedger + 1, to \in Ledgers :
          /\ from <= to + 1
          /\ probe' = [pc |-> "search", from |-> from, to |-> to, lo |-> from, hi |-> to,
                       first |-> wall, wall |-> wall]
    /\ UNCHANGED <<plan, cut, holes>>

\* One ledger is asked for.  A search that is over leaves its answer in lo.
findWall ==
    LET mid == probe.lo + (probe.hi - probe.lo) \div 2
        served == mid >= probe.wall
        rest == Halve(probe.lo, probe.hi, mid, served)
        found(w) == [probe EXCEPT !.pc = "found", !.lo = w]
    IN  /\ probe.pc = "search"
        /\ probe' = IF probe.lo > probe.hi THEN found(probe.lo)
                    ELSE IF served /\ mid = probe.lo THEN found(mid)
                    ELSE IF ~served /\ mid = probe.hi THEN found(probe.hi + 1)
                    ELSE [probe EXCEPT !.lo = rest[1], !.hi = rest[2]]
        /\ UNCHANGED <<plan, cut, holes>>

\* Any other error of the source is returned; the round is tried again.
ProbeFails ==
    /\ probe.pc = "search" /\ probe.lo <= probe.hi
    /\ probe' = [probe EXCEPT !.pc = "failed"]
    /\ UNCHANGED <<plan, cut, holes>>

\* Retention moves on between two probes, and only ever cuts from below.
Prune ==
    /\ probe.pc = "search" /\ probe.wall <= MaxLedger
    /\ probe' = [probe EXCEPT !.wall = @ + 1]
    /\ UNCHANGED <<plan, cut, holes>>

-----------------------------------------------------------------------------
PlanNext ==
    \/ StartPlan \/ normalizePlan \/ StartCut \/ partitionLoop
    \/ StartHoles \/ uncoveredLoop \/ EndHoles
    \/ StartProbe \/ findWall \/ ProbeFails \/ Prune

PlanSpec == PlanInit /\ [][PlanNext]_planVars

\* The ledgers of a normalised plan.
Wanted(merged) == UNION {Span(merged[i]) : i \in DOMAIN merged}

\* The plan covers everything asked for and the padding around it, in whole
\* checkpoints, with no stretch in between that nobody asked for.
PlanCoversAsked ==
    Wanted(plan.merged)
       = {l \in Ledgers : \E id \in plan.asked : \E a \in Span(Pad_NoSnap(id, plan.padding)) :
             l \div checkpointFrequency = a \div checkpointFrequency}

\* "The result always covers the range exactly once": cutting a gap along a
\* normalised plan yields the maximal runs of wanted and unwanted ledgers,
\* each in its mode, also for plans that reach the last sequence number.
PartitionExact ==
    LET wanted == Wanted(plan.merged)
    IN  cut.pc = "done" =>
           cut.out = {<<p[1], p[2], PieceMode(p, wanted)>> : p \in partition(cut.from..cut.to, wanted)}

\* Recording a range minus the gaps that cover it leaves exactly the maximal
\* holes, whatever overlaps among the covering ranges.
UncoveredExact ==
    holes.pc = "done" => holes.out = uncoveredRanges(holes.from, holes.to, holes.met)

\* The search ends between the oldest ledger served when it began and the oldest
\* served when it ends, within the range or one past it: no ledger it leaves
\* below the wall is to be had any more, and none it could keep is given up.
WallFound ==
    LET oldest(wall) == Max({probe.from, Min({wall, probe.to + 1})})
    IN  probe.pc = "found" => oldest(probe.first) <= probe.lo /\ probe.lo <= oldest(probe.wall)

=============================================================================
