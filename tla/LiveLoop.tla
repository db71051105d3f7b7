------------------------------ MODULE LiveLoop -------------------------------
(***************************************************************************)
(* The single-writer ledger loop against the RPC pool and the database:    *)
(* resume from the cursor, fetch, check continuity, commit, follow the     *)
(* tip, stop on what it takes for an integrity violation.  A transient     *)
(* failure of a fetch changes nothing but the back-off, so it is a stutter *)
(* here.  What a commit carries besides the cursor and the hash ring is    *)
(* module Store's Derive.                                                  *)
(*                                                                         *)
(* The endpoints here are of the configured network, answer a call they    *)
(* are up for, and return the ledger they were asked for: the stops on a   *)
(* passphrase mismatch, on an error answer at boot and on a ledger of      *)
(* another sequence cannot happen.  The loop is the pool's only caller.    *)
(***************************************************************************)
EXTENDS RpcPool

CONSTANTS
    StartLedger,        \* 0 = start at the tip on a fresh database
    hashRingSize,
    resetSlack,
    readyLagThreshold,
    MaxCrashes,         \* bound: process crashes in a behaviour
    MaxOutages,         \* bound: endpoint outages in a behaviour
    MaxLostAcks         \* bound: commits that land but report an error

ASSUME LoopAssumption ==
    /\ StartLedger \in 0..MaxTip
    /\ hashRingSize \in Nat \ {0} /\ resetSlack \in Nat /\ readyLagThreshold \in Nat
    /\ MaxCrashes \in Nat /\ MaxOutages \in Nat /\ MaxLostAcks \in Nat

VARIABLES
    cursor,     \* the cursor row: <<>> or <<[seq, hash]>>
    ring,       \* ledger_hashes: sequence -> [hash, prev]
    ingested,   \* ledgers whose rows some commit wrote
    loop,       \* Run's locals
    ready,      \* the flag /ready serves
    budget      \* crashes, outages and lost acknowledgements left

dbVars == <<cursor, ring, ingested>>
loopVars == <<dbVars, loop, ready, budget>>
vars == <<poolVars, loopVars>>

NoHash == <<>>
Hashes == (0..MaxResets) \X (0..PoolSize) \X (0..MaxTip)
Fetched == [hash: Hashes, prev: Hashes, latest: 1..MaxTip]
NoLedger == [hash |-> <<0, 0, 0>>, prev |-> <<0, 0, 0>>, latest |-> 1]

Loop == [pc: {"boot", "resume", "fetch", "probe", "tip", "commit", "stopped"},
         next: 0..MaxTip + 1, expectedPrev: Hashes \cup {NoHash}, got: Fetched,
         asked: 0..MaxTip, why: {"none", "unreachable", "database", "reset", "retention", "divergence"}]

TypeOK ==
    /\ PoolTypeOK
    /\ cursor = <<>> \/ \E s \in 1..MaxTip, h \in Hashes : cursor = <<[seq |-> s, hash |-> h]>>
    /\ DOMAIN ring \subseteq 1..MaxTip
    /\ \A s \in DOMAIN ring : ring[s] \in [hash: Hashes, prev: Hashes]
    /\ ingested \subseteq 1..MaxTip
    /\ loop \in Loop
    /\ ready \in BOOLEAN
    /\ budget \in [crash: 0..MaxCrashes, outage: 0..MaxOutages, ack: 0..MaxLostAcks]

Booting == [pc |-> "boot", next |-> 0, expectedPrev |-> NoHash, got |-> NoLedger,
            asked |-> 0, why |-> "none"]

Init ==
    /\ PoolInit
    /\ cursor = <<>> /\ ring = <<>> /\ ingested = {}
    /\ loop = Booting /\ ready = FALSE
    /\ budget = [crash |-> MaxCrashes, outage |-> MaxOutages, ack |-> MaxLostAcks]

Stop(reason) == loop' = [loop EXCEPT !.pc = "stopped", !.why = reason, !.got = NoLedger]

Goto(pc) == loop' = [loop EXCEPT !.pc = pc, !.got = NoLedger, !.asked = 0]

-----------------------------------------------------------------------------
(* Boot: VerifyNetwork, then resumePoint.  Here every error is returned.   *)

VerifyNetwork ==
    /\ loop.pc = "boot" /\ Reached
    /\ Prefer /\ Goto("resume")
    /\ UNCHANGED <<dbVars, ready, budget>>

VerifyNetworkFails ==
    /\ loop.pc = "boot" /\ ~Reached
    /\ Stop("unreachable")
    /\ UNCHANGED <<poolVars, dbVars, ready, budget>>

LoadCursorFails ==
    /\ loop.pc = "resume"
    /\ Stop("database")
    /\ UNCHANGED <<poolVars, dbVars, ready, budget>>

\* ErrNoCursor: the tip must be known; continuity arms from the second ledger.
resumeFresh ==
    /\ loop.pc = "resume" /\ cursor = <<>>
    /\ IF Reached
       THEN /\ Prefer
            /\ loop' = [loop EXCEPT !.pc = "fetch",
                           !.next = IF StartLedger = 0 THEN tip[Answering] ELSE StartLedger]
       ELSE Stop("unreachable") /\ UNCHANGED poolVars
    /\ UNCHANGED <<dbVars, ready, budget>>

\* Mutant: a boot skips the ledger after the cursor.
resumeNext_Skips(seq) == seq + 2

resumeNext(seq) == seq + 1

\* A cursor is resumed even when the tip cannot be read.
resumeCursor ==
    /\ loop.pc = "resume" /\ cursor # <<>>
    /\ IF Reached THEN Prefer ELSE UNCHANGED poolVars
    /\ IF Reached /\ cursor[1].seq > tip[Answering] + resetSlack
       THEN Stop("reset")
       ELSE loop' = [loop EXCEPT !.pc = "fetch", !.next = resumeNext(cursor[1].seq),
                                 !.expectedPrev = cursor[1].hash]
    /\ UNCHANGED <<dbVars, ready, budget>>

-----------------------------------------------------------------------------
(* GetLedger.                                                              *)

Extends(prev, expectedPrev) == expectedPrev = NoHash \/ prev = expectedPrev

\* The ledger arrives; one that does not extend the committed chain stops us.
GetLedger ==
    /\ loop.pc = "fetch" /\ Reached
    /\ oldest(Answering) <= loop.next /\ loop.next <= tip[Answering]
    /\ Prefer
    /\ IF Extends(Hash(Answering, loop.next - 1), loop.expectedPrev)
       THEN loop' = [loop EXCEPT !.pc = "commit",
                        !.got = [hash |-> Hash(Answering, loop.next),
                                 prev |-> Hash(Answering, loop.next - 1),
                                 latest |-> tip[Answering]]]
       ELSE Stop("divergence")
    /\ UNCHANGED <<dbVars, ready, budget>>

OutOfRange ==
    /\ loop.pc = "fetch" /\ Reached
    /\ loop.next < oldest(Answering) \/ loop.next > tip[Answering]

\* An empty page carries the window of the endpoint that sent it.
EmptyPage ==
    /\ OutOfRange
    /\ Prefer
    /\ IF loop.next > tip[Answering] THEN Goto("tip") ELSE Stop("retention")
    /\ UNCHANGED <<dbVars, ready, budget>>

\* A window error does not: it is classified by a second call, and as an
\* error it leaves the preference where it was.
WindowError ==
    /\ OutOfRange
    /\ loop' = [loop EXCEPT !.pc = "probe", !.asked = tip[Answering]]
    /\ UNCHANGED <<poolVars, dbVars, ready, budget>>

\* Mutant: a window error is classified with no allowance for a moving tip.
BeyondTip_NoSlack(seq, latest) == seq >= latest

BeyondTip(seq, latest) == seq + tipAmbiguitySlack >= latest

classifyOutOfRange ==
    /\ loop.pc = "probe"
    /\ IF Reached
       THEN /\ Prefer
            /\ IF BeyondTip(loop.next, tip[Answering]) THEN Goto("tip") ELSE Stop("retention")
       ELSE Goto("fetch") /\ UNCHANGED poolVars
    /\ UNCHANGED <<dbVars, ready, budget>>

markTipReached ==
    /\ loop.pc = "tip"
    /\ IF Reached
       THEN Prefer /\ ready' = (loop.next + readyLagThreshold >= tip[Answering])
       ELSE UNCHANGED <<poolVars, ready>>
    /\ Goto("fetch")
    /\ UNCHANGED <<dbVars, budget>>

-----------------------------------------------------------------------------
(* CommitLedger: the cursor only rises, a recorded hash stays, the ring is *)
(* pruned below its size.                                                  *)

\* Mutant: the upsert loses its last_sequence guard.
AdvanceCursor_Unguarded(seq, hash) == <<[seq |-> seq, hash |-> hash]>>

AdvanceCursor(seq, hash) ==
    IF cursor # <<>> /\ cursor[1].seq >= seq THEN cursor ELSE <<[seq |-> seq, hash |-> hash]>>

RingInsert(seq, row) ==
    LET kept == IF seq \in DOMAIN ring THEN ring ELSE
                [s \in DOMAIN ring \cup {seq} |-> IF s = seq THEN row ELSE ring[s]]
    IN  [s \in {t \in DOMAIN kept : t >= seq - hashRingSize} |-> kept[s]]

CommitLedger ==
    /\ cursor' = AdvanceCursor(loop.next, loop.got.hash)
    /\ ring' = RingInsert(loop.next, [hash |-> loop.got.hash, prev |-> loop.got.prev])
    /\ ingested' = ingested \cup {loop.next}

\* Mutant: the committed hash is not carried to the next continuity check.
Advanced_StalePrev == [loop EXCEPT !.pc = "fetch", !.next = @ + 1, !.expectedPrev = NoHash,
                                   !.got = NoLedger]

\* Mutant: the committed ledger is fetched again.
Advanced_SameLedger == [loop EXCEPT !.pc = "fetch", !.got = NoLedger]

Advanced == [loop EXCEPT !.pc = "fetch", !.next = @ + 1, !.expectedPrev = loop.got.hash,
                         !.got = NoLedger]

Commit ==
    /\ loop.pc = "commit"
    /\ CommitLedger
    /\ loop' = Advanced
    /\ UNCHANGED <<poolVars, ready, budget>>

\* Mutant: a failed commit moves on to the next ledger.
CommitFails_Skips ==
    /\ loop.pc = "commit"
    /\ loop' = [loop EXCEPT !.pc = "fetch", !.next = @ + 1, !.got = NoLedger, !.expectedPrev = NoHash]
    /\ UNCHANGED <<poolVars, dbVars, ready, budget>>

\* Extraction or the transaction fails: back off and fetch the same ledger.
CommitFails ==
    /\ loop.pc = "commit"
    /\ Goto("fetch")
    /\ UNCHANGED <<poolVars, dbVars, ready, budget>>

\* The transaction commits but its acknowledgement is lost: to the loop, the
\* same failure.
CommitLosesAck ==
    /\ loop.pc = "commit" /\ budget.ack > 0
    /\ CommitLedger
    /\ Goto("fetch")
    /\ budget' = [budget EXCEPT !.ack = @ - 1]
    /\ UNCHANGED <<poolVars, ready>>

-----------------------------------------------------------------------------
(* The process: it dies with whatever was in memory, and is restarted.     *)

Crash ==
    /\ budget.crash > 0 /\ loop.pc # "stopped"
    /\ budget' = [budget EXCEPT !.crash = @ - 1]
    /\ loop' = Booting /\ ready' = FALSE
    /\ UNCHANGED <<dbVars, tip, up, epoch>> /\ preferred' = 1

Restart ==
    /\ loop.pc = "stopped"
    /\ loop' = Booting /\ ready' = FALSE
    /\ UNCHANGED <<dbVars, budget, tip, up, epoch>> /\ preferred' = 1

\* The answer to a probe is no further ahead of the window error it explains
\* than two endpoints may be of each other.
Closes ==
    /\ \E e \in Endpoints :
          /\ Close(e)
          /\ loop.pc = "probe" => tip[e] + 1 <= loop.asked + MaxSkew
    /\ UNCHANGED loopVars

Outage ==
    /\ budget.outage > 0
    /\ \E e \in Endpoints : Fails(e)
    /\ budget' = [budget EXCEPT !.outage = @ - 1]
    /\ UNCHANGED <<dbVars, loop, ready>>

Recovery ==
    /\ \E e \in Endpoints : Recovers(e)
    /\ UNCHANGED loopVars

NetworkReset == Reset /\ UNCHANGED loopVars

Work ==
    \/ VerifyNetwork \/ VerifyNetworkFails
    \/ LoadCursorFails \/ resumeFresh \/ resumeCursor
    \/ GetLedger \/ EmptyPage \/ WindowError \/ classifyOutOfRange \/ markTipReached
    \/ Commit \/ CommitFails \/ CommitLosesAck
    \/ Restart

Next == Work \/ Crash \/ Closes \/ Outage \/ Recovery \/ NetworkReset

Spec == Init /\ [][Next]_vars

\* The loop runs, the supervisor restarts it, ledgers keep closing and
\* outages end; the database does not refuse what is retried forever.
Fairness ==
    /\ WF_vars(Work) /\ WF_vars(Closes) /\ WF_vars(Recovery)
    /\ SF_vars(VerifyNetwork) /\ SF_vars(resumeFresh \/ resumeCursor)
    /\ SF_vars(GetLedger) /\ SF_vars(Commit)

FairSpec == Spec /\ Fairness

-----------------------------------------------------------------------------
\* The recorded chain is one chain: each hash the ring holds is the
\* predecessor its successor names ("every ledger must extend the one we
\* committed", package ingest).
OneChain ==
    \A s \in DOMAIN ring : s + 1 \in DOMAIN ring => ring[s + 1].prev = ring[s].hash

\* It is, across failovers between endpoints that disagree, network resets,
\* crashes and failed commits, as long as no acknowledgement was lost.
ChainLinked == budget.ack = MaxLostAcks => OneChain

\* A ledger is ingested exactly once and none is skipped, across crashes, failed
\* commits, lost acknowledgements and failovers: seen from outside, the loop is
\* a feed that delivers the next ledger and nothing else.
Feed == INSTANCE LedgerFeed
           WITH last <- IF cursor = <<>> THEN 0 ELSE cursor[1].seq,
                delivered <- ingested

ImplementsFeed == Feed!Spec

\* A restart arms continuity with the hash that was recorded: the cursor and
\* the ring never disagree about the newest ledger, even when a commit that
\* landed is tried again with another endpoint's ledger.
CursorInRing ==
    cursor # <<>> => /\ cursor[1].seq \in DOMAIN ring
                     /\ cursor[1].hash = ring[cursor[1].seq].hash

\* A fatal stop is never a hiccup: the ledger an endpoint no longer serves is
\* really below its window, and a divergence means the endpoints really disagree
\* about the predecessor, or the network was reset.
StopsAreReal ==
    /\ loop.why = "retention" => epoch > 0 \/ \E e \in Endpoints : loop.next < oldest(e)
    /\ loop.why = "divergence" =>
          epoch > 0 \/ \E e, f \in Endpoints : Hash(e, loop.next - 1) # Hash(f, loop.next - 1)

\* Failure doctrine of package ingest: "transient errors back off and retry
\* forever; only integrity violations and configuration errors terminate".
\* Boot breaks it (README, section 4).
OnlyIntegrityStops == loop.why \notin {"unreachable", "database"}

\* /ready answers 200 only at the tip: no ledger is being committed further
\* behind the tip its own answer reports while the flag is up.
\* A second catch-up breaks it (README, section 4).
ReadyAtTip ==
    ready /\ loop.pc = "commit" => loop.next + readyLagThreshold >= loop.got.latest

\* Whatever fails on the way, the cursor reaches the end of the chain and the
\* readiness flag, refreshed only when the tip is met, is up there; only a chain
\* that diverged, was reset or left the window behind can keep them away.
CatchesUp ==
    []<>(\/ ready /\ cursor # <<>> /\ cursor[1].seq = MaxTip
         \/ loop.why \in {"divergence", "reset", "retention"})

=============================================================================
