-------------------------------- MODULE Admin --------------------------------
(***************************************************************************)
(* internal/admin: the mutations of the admin API.  A registration is four *)
(* separate store or registry calls (upsert the contract, read the cursor, *)
(* reconcile the walk, reload the registry); other processes run between   *)
(* them and the request can die between them.  Two requests never overlap  *)
(* here: req is one request, where net/http serves each on a goroutine of  *)
(* its own (README, section 8).                                            *)
(***************************************************************************)
EXTENDS Store

CONSTANTS
    Targets(_), \* the "from" values a contract is registered with
    Plans       \* the sets of ledgers a normalized heal plan may name

ASSUME ContractsAssumption == Contracts # {}
ASSUME TargetsAssumption == \A c \in Contracts : Targets(c) \subseteq Ledgers
ASSUME PlansAssumption == Plans \subseteq SUBSET Ledgers

VARIABLE req    \* the admin request in progress

\* pc: idle, upserted, anchored, reload.
NoRequest == [pc |-> "idle", c |-> CHOOSE c \in Contracts : TRUE, target |-> 1,
              kinds |-> {}, anchor |-> 0]

AdminTypeOK ==
    req \in [pc: {"idle", "upserted", "anchored", "reload"}, c: Contracts,
             target: Ledgers, kinds: SUBSET Kinds, anchor: Frontier]

AdminInit == req = NoRequest

RegisterContract(c, target, kinds) ==
    /\ req.pc = "idle"
    /\ UpsertContract(c, kinds)
    /\ req' = [pc |-> "upserted", c |-> c, target |-> target, kinds |-> kinds, anchor |-> 0]

\* The walk is anchored a margin past the cursor; at 0 when there is none.
AnchorAt == IF cursor = 0 THEN 0 ELSE cursor + Margin

AnchorWalk ==
    /\ req.pc = "upserted"
    /\ req' = [req EXCEPT !.pc = "anchored", !.anchor = AnchorAt]
    /\ UNCHANGED storeVars

PlanWalk ==
    /\ req.pc = "anchored"
    /\ EnsureBackfill(req.c, req.target, req.anchor, req.kinds)
    /\ req' = [req EXCEPT !.pc = "reload"]

\* A store call fails, the client's context ends, the process dies: what the
\* request already committed stays.
RequestFails ==
    /\ req.pc \in {"upserted", "anchored"}
    /\ req' = NoRequest
    /\ UNCHANGED storeVars

UnregisterContract(c) ==
    /\ req.pc = "idle"
    /\ c \in DOMAIN contracts
    /\ DeleteContract(c)
    /\ req' = [NoRequest EXCEPT !.pc = "reload"]

SubmitPlan(wanted) ==
    /\ req.pc = "idle"
    /\ PlanHeal(wanted)
    /\ UNCHANGED req

=============================================================================
