------------------------------- MODULE ReadApi -------------------------------
(***************************************************************************)
(* A client scanning one kind of one contract's history while ingestion    *)
(* writes.  The events, transfers, movements, state-history and trustline- *)
(* history handlers are one program: read the contract, read a page, read  *)
(* the live cursor, read the walk, and only then say what the page means.  *)
(* The four reads are four statements, so writers commit between them.     *)
(***************************************************************************)
EXTENDS Integers, FiniteSets, FiniteSetsExt

CONSTANTS
    MaxLedger,  \* bound: ledgers 1..MaxLedger
    Chain,      \* what happened on chain: rows <<ledger, position>>
    Limits,     \* page sizes a client may ask for
    Margin      \* registrationAnchorMargin

\* What can happen to a scan on its way, each of them noted in scan.raced:
\* write_in_request  a commit between the statements of one request
\* walk_in_scan      the history walk descends between two pages of a scan
\* kind_in_between   a read while the kind's registration is half done
\* walk_unreadable   GetBackfill fails and the handler answers anyway
Overlap == {"write_in_request", "walk_in_scan", "kind_in_between", "walk_unreadable"}

Ledgers == 1..MaxLedger

ASSUME ReadApiAssumption ==
    /\ MaxLedger \in Nat \ {0} /\ Margin \in Nat
    /\ Chain \subseteq Ledgers \X Nat /\ IsFiniteSet(Chain)
    /\ Limits \subseteq Nat \ {0} /\ Limits # {}

VARIABLES
    cursor,     \* the live cursor; 0 = no cursor yet
    reg,        \* how far the kind's registration got
    nextTo,     \* the walk's frontier
    have,       \* ledgers derived for the kind
    scan        \* the client's scan and the request being served

writeVars == <<cursor, reg, nextTo, have>>
vars == <<writeVars, scan>>

Statuses == {"", "HAS_MORE", "WAITING_FOR_LEDGERS", "OLDEST_REACHED", "COMPLETE"}
Start == <<0, 0>>       \* an empty AfterID: every row is beyond it

\* A page cursor: the whole query and the resume position.
Query == [from: Ledgers, to: {0} \cup Ledgers, limit: Limits, after: (0..MaxLedger) \X Nat]

Idle == [pc |-> "idle", q |-> [from |-> 1, to |-> 0, limit |-> Min(Limits), after |-> Start],
         kindDerived |-> FALSE, page |-> {}, hasMore |-> FALSE, cursorSeq |-> 0,
         got |-> {}, status |-> "", indexed |-> {}, raced |-> {}]

TypeOK ==
    /\ cursor \in 0..MaxLedger
    /\ reg \in {"absent", "upserted", "anchored", "live"}
    /\ nextTo \in 0..MaxLedger + Margin
    /\ have \subseteq Ledgers
    /\ scan.pc \in {"idle", "contract", "page", "cursor", "coverage", "answered"}
    /\ scan.q \in Query /\ scan.status \in Statuses
    /\ scan.page \subseteq Chain /\ scan.got \subseteq Chain /\ scan.indexed \subseteq Ledgers
    /\ scan.kindDerived \in BOOLEAN /\ scan.hasMore \in BOOLEAN /\ scan.cursorSeq \in 0..MaxLedger
    /\ scan.raced \subseteq Overlap

Init ==
    /\ cursor = 0 /\ reg = "absent" /\ nextTo = 0 /\ have = {}
    /\ scan = Idle

Between == scan.pc \in {"idle", "answered"}
Settled == reg \in {"absent", "live"}

\* History of the scan in progress: no variable of the code.
Noting(race, happened) ==
    scan' = IF happened THEN [scan EXCEPT !.raced = @ \cup {race}] ELSE scan

-----------------------------------------------------------------------------
(* The writers, as far as a reader can tell them apart.                    *)

\* The live loop derives the kind once the registry snapshot carries it; the
\* anchor margin covers the ledgers until then.
LiveCommit ==
    /\ cursor < MaxLedger
    /\ reg = "anchored" => cursor + 1 <= nextTo
    /\ cursor' = cursor + 1
    /\ have' = IF reg = "live" THEN have \cup {cursor + 1} ELSE have
    /\ Noting("write_in_request", ~Between)
    /\ UNCHANGED <<reg, nextTo>>

\* Mutant: the walk goes on below its last ledger and writes no rows.
WalkCommit_PastGenesis ==
    /\ reg \in {"anchored", "live"} /\ nextTo <= MaxLedger
    /\ nextTo' = nextTo - 1
    /\ UNCHANGED <<cursor, reg, have, scan>>

\* A backfill or heal chunk: rows and frontier move in one transaction.
WalkCommit ==
    /\ reg \in {"anchored", "live"} /\ nextTo \in Ledgers
    /\ nextTo' = nextTo - 1
    /\ have' = have \cup {nextTo}
    /\ Noting(IF Between THEN "walk_in_scan" ELSE "write_in_request", scan.pc # "idle")
    /\ UNCHANGED <<cursor, reg>>

\* handleRegister: UpsertContract, then EnsureBackfill, then the reload.
RegisterKind ==
    /\ \/ reg = "absent" /\ cursor > 0 /\ reg' = "upserted" /\ UNCHANGED nextTo
       \/ reg = "upserted" /\ reg' = "anchored" /\ nextTo' = cursor + Margin
       \/ reg = "anchored" /\ reg' = "live" /\ UNCHANGED nextTo
    /\ Noting("kind_in_between", ~Between)
    /\ UNCHANGED <<cursor, have>>

-----------------------------------------------------------------------------
(* One request, read by read.                                              *)

\* A fresh scan: buildQuery from the request's parameters.
Ask ==
    /\ scan.pc = "idle"
    /\ \E from \in Ledgers, to \in {0} \cup Ledgers, limit \in Limits :
          /\ to = 0 \/ from <= to
          /\ scan' = [Idle EXCEPT !.pc = "contract",
                        !.q = [from |-> from, to |-> to, limit |-> limit, after |-> Start],
                        !.raced = IF Settled THEN {} ELSE {"kind_in_between"}]
    /\ UNCHANGED writeVars

\* knownContract: the registration's kinds, as they are now.
ReadContract ==
    /\ scan.pc = "contract"
    /\ scan' = [scan EXCEPT !.pc = "page", !.kindDerived = (reg # "absent")]
    /\ UNCHANGED writeVars

\* Rows are in chain order and a page resumes strictly after its mark.
After(row, mark) == row[1] > mark[1] \/ (row[1] = mark[1] /\ row[2] > mark[2])

\* Mutant: the keyset comparison is >= instead of >.
Matching_Inclusive(q) ==
    {row \in Chain : /\ row[1] \in have /\ row[1] >= q.from
                     /\ q.to > 0 => row[1] <= q.to
                     /\ ~After(q.after, row)}

Matching(q) ==
    {row \in Chain : /\ row[1] \in have /\ row[1] >= q.from
                     /\ q.to > 0 => row[1] <= q.to
                     /\ After(row, q.after)}

FirstRows(rows, limit) ==
    {row \in rows : Cardinality({r \in rows : After(row, r)}) < limit}

\* QueryEvents and its siblings: one row more than the page answers has-more.
ReadPage ==
    /\ scan.pc = "page"
    /\ scan' = [scan EXCEPT !.pc = "cursor",
                  !.page = FirstRows(Matching(scan.q), scan.q.limit),
                  !.hasMore = (Cardinality(Matching(scan.q)) > scan.q.limit)]
    /\ UNCHANGED writeVars

ReadCursor ==
    /\ scan.pc = "cursor"
    /\ scan' = [scan EXCEPT !.pc = "coverage", !.cursorSeq = cursor]
    /\ UNCHANGED writeVars

\* Mutant: the frontier itself, not yet derived, is declared indexed.
indexedFrom_Frontier(walkRead) ==
    IF walkRead /\ reg \in {"anchored", "live"} THEN nextTo ELSE scan.cursorSeq

\* coverage: from where to where the response vouches.  Without a walk that
\* covers the kind it falls back to the cursor's own ledger.
indexedFrom(walkRead) ==
    IF walkRead /\ reg \in {"anchored", "live"} THEN nextTo + 1 ELSE scan.cursorSeq

coverage(walkRead) ==
    LET q == scan.q
    IN  IF ~scan.kindDerived THEN {}
        ELSE Max({indexedFrom(walkRead), q.from})..
             (IF q.to > 0 /\ q.to < scan.cursorSeq THEN q.to ELSE scan.cursorSeq)

\* Mutant: the lower bound of the coverage is not consulted.
scanStatus_Eager(walkRead) ==
    IF scan.hasMore THEN "HAS_MORE"
    ELSE IF ~scan.kindDerived THEN "OLDEST_REACHED"
    ELSE IF scan.q.to = 0 \/ scan.q.to > scan.cursorSeq THEN "WAITING_FOR_LEDGERS"
    ELSE "COMPLETE"

scanStatus(walkRead) ==
    IF scan.hasMore THEN "HAS_MORE"
    ELSE IF ~scan.kindDerived THEN "OLDEST_REACHED"
    ELSE IF scan.q.to = 0 \/ scan.q.to > scan.cursorSeq THEN "WAITING_FOR_LEDGERS"
    ELSE IF scan.q.from < indexedFrom(walkRead) THEN "OLDEST_REACHED"
    ELSE "COMPLETE"

\* Mutant: the next cursor repeats the resume position it came with.
LastOf_Stuck(rows, mark) == mark

LastOf(rows, mark) == CHOOSE r \in rows \cup {mark} : \A s \in rows : ~After(s, r)

\* The response: the page, what it means, and the cursor for the next one.
Answer ==
    /\ scan.pc = "coverage"
    /\ \E walkRead \in BOOLEAN :
          scan' = [scan EXCEPT !.pc = "answered",
                     !.got = @ \cup scan.page,
                     !.q.after = LastOf(scan.page, @),
                     !.status = scanStatus(walkRead),
                     !.indexed = coverage(walkRead),
                     !.raced = IF walkRead THEN @ ELSE @ \cup {"walk_unreadable"}]
    /\ UNCHANGED writeVars

\* The client follows the cursor while there is, or may come, more.
Follow ==
    /\ scan.pc = "answered"
    /\ scan.status \in {"HAS_MORE", "WAITING_FOR_LEDGERS"}
    /\ scan' = [scan EXCEPT !.pc = "contract", !.page = {}, !.status = "", !.indexed = {},
                  !.raced = IF Settled THEN @ ELSE @ \cup {"kind_in_between"}]
    /\ UNCHANGED writeVars

Leave ==
    /\ scan.pc = "answered"
    /\ scan' = Idle
    /\ UNCHANGED writeVars

Serve == ReadContract \/ ReadPage \/ ReadCursor \/ Answer

Next == LiveCommit \/ WalkCommit \/ RegisterKind \/ Ask \/ Serve \/ Follow \/ Leave

Spec == Init /\ [][Next]_vars

\* Requests are served, the client follows its cursor, ingestion goes on.
FairSpec ==
    /\ Spec
    /\ WF_vars(Serve) /\ WF_vars(Follow) /\ WF_vars(LiveCommit)
    /\ WF_vars(RegisterKind)

-----------------------------------------------------------------------------
\* What COMPLETE promises: a client that followed its cursor to it holds every
\* row that happened within its bounds.
HoldsAll ==
    scan.status = "COMPLETE" =>
       {row \in Chain : scan.q.from <= row[1] /\ row[1] <= scan.q.to} \subseteq scan.got

\* COMPLETE keeps its promise to a scan that none of the overlaps fell into:
\* ledgers may close between its pages, and the kind may be registered before
\* or after it.  Nothing unregisters the kind or rewinds its walk here.
ScanHonest == scan.raced = {} => HoldsAll

\* "COMPLETE: the requested bounds are fully indexed and exhausted", for a kind
\* whose registration is through, whatever is committed during the scan.
CompleteUnderWrites == scan.raced \subseteq {"write_in_request", "walk_in_scan"} => HoldsAll

\* Rule 7 at the moment of the answer: every ledger of the range the response
\* vouches for was derived for the kind, commits between its reads included,
\* once the registration is through and if the walk can be read.
AnswerVouchesDerived ==
    scan.raced \cap {"kind_in_between", "walk_unreadable"} = {} => scan.indexed \subseteq have

\* A scan never drifts: a row already delivered is not delivered again, and
\* every page lies beyond all the pages before it, while rows keep arriving
\* above and below the mark.
PagesAdvance ==
    [][scan.pc = "page" /\ scan'.pc = "cursor" =>
          \A row \in scan'.page, old \in scan.got : After(row, old)]_vars

\* A scan with an upper bound ends: its cursor is not followed forever.
ScanEnds == (scan.pc = "contract" /\ scan.q.to > 0) ~>
               (\/ scan.pc = "answered" /\ scan.status \in {"OLDEST_REACHED", "COMPLETE"}
                \/ scan.pc = "idle")

=============================================================================
