----------------------------- MODULE PageCursor ------------------------------
(***************************************************************************)
(* internal/api/cursor.go and the query each listing handler builds: the   *)
(* opaque cursor of the seven paged endpoints.  A cursor is minted by one  *)
(* endpoint, for one contract of one network, and comes back in a later    *)
(* request, to any endpoint.  It is a JSON object: what a payload omits    *)
(* reads as zero (0 here), and a field another payload uses under the same *)
(* name is read without complaint.  cursor.go writes an encoder and a      *)
(* decoder per payload; here one of each works over the table of payloads, *)
(* so what tells the payloads apart is the table, field by field.          *)
(***************************************************************************)
EXTENDS Integers

CONSTANTS
    maxLimit,
    Networks, ContractIds,
    LedgerBounds,   \* ledgers a request may name as its bounds
    FilterValues,   \* values it may ask for in a filter
    RowIds          \* identities of the last row of a page

\* A value that is given is not the zero value.
ASSUME PageCursorAssumption ==
    /\ maxLimit \in Nat \ {0}
    /\ LedgerBounds \subseteq Nat \ {0} /\ FilterValues \subseteq Nat \ {0} /\ RowIds \subseteq Nat \ {0}

cursorVersion == 1

-----------------------------------------------------------------------------
(* The endpoints: the filters a request may name, whether it may bound the *)
(* ledgers, and the fields that resume after the last row of a page.       *)

Endpoint(filters, bounded, position) ==
    [filters |-> filters, bounded |-> bounded, position |-> position]

handleEvents == Endpoint({"Topics"}, TRUE, {"AfterID"})
handleStateSnapshot == Endpoint({"KeyXDR"}, FALSE, {"AfterKey", "AfterDurability"})
handleStateHistory == Endpoint({"KeyXDR"}, TRUE, {"AfterID"})
handleTransfers == Endpoint({"Account", "From", "To", "TransferType"}, TRUE, {"AfterID"})
handleTrustlineSnapshot == Endpoint({"AccountID"}, FALSE, {"AfterAccount"})
handleTrustlineHistory == Endpoint({"AccountID"}, TRUE, {"AfterID"})
handleMovements == Endpoint({"Role", "Token", "Type"}, TRUE, {"AfterID", "AfterRole"})

Handler == [events |-> handleEvents, state |-> handleStateSnapshot,
            state_history |-> handleStateHistory, transfers |-> handleTransfers,
            trustlines |-> handleTrustlineSnapshot,
            trustlines_history |-> handleTrustlineHistory, movements |-> handleMovements]

EndpointKinds == DOMAIN Handler

-----------------------------------------------------------------------------
(* The payloads: query field -> JSON name.                                 *)

cursorPayload ==
    [FromLedger |-> "f", ToLedger |-> "e", Limit |-> "l", AfterID |-> "a", Topics |-> "t"]
stateCursorPayload ==
    [FromLedger |-> "f", ToLedger |-> "e", Limit |-> "l", AfterID |-> "a",
     KeyXDR |-> "key", AfterKey |-> "ak", AfterDurability |-> "ad"]
transfersCursorPayload ==
    [FromLedger |-> "f", ToLedger |-> "e", Limit |-> "l", AfterID |-> "a",
     Account |-> "acc", From |-> "from", To |-> "to", TransferType |-> "tt"]
trustlinesCursorPayload ==
    [FromLedger |-> "f", ToLedger |-> "e", Limit |-> "l", AfterID |-> "a",
     AccountID |-> "acc", AfterAccount |-> "aa"]
movementsCursorPayload ==
    [FromLedger |-> "f", ToLedger |-> "e", Limit |-> "l", AfterID |-> "a",
     Role |-> "r", Token |-> "tk", Type |-> "tt", AfterRole |-> "ar"]

Payload(kind) ==
    CASE kind = "events"                               -> cursorPayload
      [] kind \in {"state", "state_history"}           -> stateCursorPayload
      [] kind = "transfers"                            -> transfersCursorPayload
      [] kind \in {"trustlines", "trustlines_history"} -> trustlinesCursorPayload
      [] kind = "movements"                            -> movementsCursorPayload

\* What every payload is stamped with.
Stamp == {"v", "k", "n", "c"}

\* encodeCursor and its four siblings.  Zero fields are omitted.
encodeCursor(kind, network, contract, q) ==
    LET payload == Payload(kind)
        named == {f \in DOMAIN payload : q[f] # 0}
        stamp == [v |-> cursorVersion, k |-> kind, n |-> network, c |-> contract]
    IN  [name \in Stamp \cup {payload[f] : f \in named} |->
           IF name \in Stamp THEN stamp[name] ELSE q[CHOOSE f \in named : payload[f] = name]]

\* An events cursor minted before the kind was stamped.
Unstamped(cursor) == [x \in DOMAIN cursor \ {"k"} |-> cursor[x]]

At(cursor, name) == IF name \in DOMAIN cursor THEN cursor[name] ELSE 0

KindOf(cursor) == IF "k" \in DOMAIN cursor THEN cursor.k ELSE ""

\* Mutant: the events decoder does not look at the kind.
ownKind_AnyEvents(kind, cursor) == kind = "events" \/ KindOf(cursor) = kind

\* An empty kind stays valid at events, and only there.
ownKind(kind, cursor) ==
    \/ KindOf(cursor) = kind
    \/ kind = "events" /\ KindOf(cursor) = ""

validateCursorLimit(limit) == limit \in 1..maxLimit

Accepted(kind, network, contract, cursor) ==
    /\ cursor.v = cursorVersion
    /\ ownKind(kind, cursor)
    /\ cursor.n = network /\ cursor.c = contract
    /\ validateCursorLimit(At(cursor, "l"))

\* Mutant: half of a two-part position is not read back.
decodeCursor_DropsRole(kind, cursor) ==
    [f \in DOMAIN Payload(kind) |-> IF f = "AfterRole" THEN 0 ELSE At(cursor, Payload(kind)[f])]

decodeCursor(kind, cursor) == [f \in DOMAIN Payload(kind) |-> At(cursor, Payload(kind)[f])]

-----------------------------------------------------------------------------
(* A client pages: the first request names filters, bounds and a limit,    *)
(* the following ones a cursor and nothing else.                           *)

VARIABLES
    held,       \* the cursor the client holds; <<>> before the first page
    minted      \* the query its page was read with, past the page

pageVars == <<held, minted>>

PageInit == held = <<>> /\ minted = <<>>

\* What a field of a query can hold, 0 when it is not given.
Values == {0} \cup 1..maxLimit \cup LedgerBounds \cup FilterValues

\* The queries a request without a cursor can make; the position is unset.
FreshQuery(kind, q) ==
    /\ q.Limit \in 1..maxLimit
    /\ IF Handler[kind].bounded
       THEN /\ q.FromLedger \in LedgerBounds /\ q.ToLedger \in {0} \cup LedgerBounds
            /\ q.ToLedger = 0 \/ q.ToLedger >= q.FromLedger
       ELSE q.FromLedger = 0 /\ q.ToLedger = 0
    /\ \A f \in Handler[kind].filters : q[f] \in {0} \cup FilterValues
    /\ \A f \in DOMAIN q \ ({"FromLedger", "ToLedger", "Limit"} \cup Handler[kind].filters) : q[f] = 0
    /\ kind = "transfers" => q.Account = 0 \/ (q.From = 0 /\ q.To = 0)

\* The position of the page's last row.
Past(kind, q, row) ==
    [f \in DOMAIN q |-> IF f \in Handler[kind].position THEN row ELSE q[f]]

\* A snapshot endpoint mints a cursor only if there is more to read, the others
\* always: an empty page (row 0) leaves the position where it was.
Mint(kind, network, contract, q) ==
    \E row \in {0} \cup RowIds :
       LET past == IF row = 0 THEN q ELSE Past(kind, q, row)
       IN  /\ row = 0 => Handler[kind].bounded
           /\ minted' = [kind |-> kind, network |-> network, contract |-> contract, q |-> past]
           /\ \/ held' = encodeCursor(kind, network, contract, past)
              \/ kind = "events" /\ held' = Unstamped(encodeCursor(kind, network, contract, past))

FirstPage ==
    /\ held = <<>>
    /\ \E kind \in EndpointKinds :
          \E q \in [DOMAIN Payload(kind) -> Values] :
             /\ FreshQuery(kind, q)
             /\ \E network \in Networks, contract \in ContractIds : Mint(kind, network, contract, q)

NextPage ==
    /\ held # <<>>
    /\ Accepted(minted.kind, minted.network, minted.contract, held)
    /\ Mint(minted.kind, minted.network, minted.contract, decodeCursor(minted.kind, held))

PageNext == FirstPage \/ NextPage

PageSpec == PageInit /\ [][PageNext]_pageVars

-----------------------------------------------------------------------------
\* "A cursor always honors the bounds it was minted with" (decision D7): brought
\* back to its own endpoint it is accepted and yields the query of its page, the
\* filters, bounds and limit of the first request included, past the last row.
CursorResumes ==
    held # <<>> =>
       /\ Accepted(minted.kind, minted.network, minted.contract, held)
       /\ decodeCursor(minted.kind, held) = minted.q

\* "A cursor can never be replayed against the wrong endpoint", nor against
\* another contract or network, whatever names the payloads share; nor can a
\* cursor from before the kind was stamped.
CursorStaysHome ==
    held # <<>> =>
       \A kind \in EndpointKinds, network \in Networks, contract \in ContractIds :
          Accepted(kind, network, contract, held) =>
             <<kind, network, contract>> = <<minted.kind, minted.network, minted.contract>>

=============================================================================
