------------------------------- MODULE Status --------------------------------
(***************************************************************************)
(* feedStatus and health.State beside the healer: the gap counters behind  *)
(* /status are read by two queries a tick, each of which may fail and      *)
(* leaves the old value then, while gaps are recorded, planned and healed. *)
(***************************************************************************)
EXTENDS HealGate

VARIABLE status     \* next: the query feedStatus makes next; the two counters

statusVars == <<vars, status>>

NoStatus == [next |-> "open", openGaps |-> 0, deferredGaps |-> 0]

StatusInit == Init /\ status = NoStatus

\* Mutant: the open gaps are reported as they are.
gapsPendingHeal_Open == status.openGaps

\* The difference, floored: the counters may be of two moments.
gapsPendingHeal ==
    IF status.openGaps > status.deferredGaps THEN status.openGaps - status.deferredGaps ELSE 0

pollOpenGaps ==
    /\ status.next = "open"
    /\ status' = [status EXCEPT !.next = "deferred", !.openGaps = gaps.replay + gaps.deferred]
    /\ UNCHANGED vars

pollDeferredGaps ==
    /\ status.next = "deferred"
    /\ status' = [status EXCEPT !.next = "open", !.deferredGaps = gaps.deferred]
    /\ UNCHANGED vars

\* A query fails; the tick goes on to the next.
pollFails ==
    /\ status' = [status EXCEPT !.next = IF @ = "open" THEN "deferred" ELSE "open"]
    /\ UNCHANGED vars

\* The healer, the live loop and the admin API; a restart clears the counters.
Others ==
    /\ Next
    /\ status' = IF restarts' # restarts THEN NoStatus ELSE status

StatusNext == pollOpenGaps \/ pollDeferredGaps \/ pollFails \/ Others

\* The ticker goes on; a query that is made again and again succeeds once more.
StatusSpec == StatusInit /\ [][StatusNext]_statusVars
              /\ SF_statusVars(pollOpenGaps) /\ SF_statusVars(pollDeferredGaps)

-----------------------------------------------------------------------------
\* gaps_pending_heal is what an operator means by "is it done yet": although its
\* two halves are read apart, and either read may fail, once the gap table rests
\* it comes to be, and stays, the number of gaps left to replay, so a watcher
\* that waits for zero waits neither for ever nor in vain.
PendingSettles ==
    <>[][FALSE]_gaps => <>[](gapsPendingHeal = gaps.replay)

=============================================================================
