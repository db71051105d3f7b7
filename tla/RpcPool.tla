------------------------------- MODULE RpcPool -------------------------------
(***************************************************************************)
(* The RPC client as the live loop meets it: a preference-ordered pool of  *)
(* endpoints, each with its own tip and retention window, any of which may *)
(* be down.  A call walks the pool from the preferred endpoint until one   *)
(* answers; an answer, even an error answer, ends the walk.                *)
(***************************************************************************)
EXTENDS Integers, FiniteSets, FiniteSetsExt

CONSTANTS
    PoolSize,           \* endpoints, in configured order
    MaxTip,             \* bound: the chain grows up to this ledger
    Window,             \* ledgers an endpoint retains
    MaxSkew,            \* how far an endpoint may be ahead of another
    ForkAt,             \* endpoints disagree from this ledger on; 0 = never
    MaxResets,          \* bound: network resets in a behaviour
    tipAmbiguitySlack

Endpoints == 1..PoolSize

ASSUME PoolAssumption ==
    /\ PoolSize \in Nat \ {0} /\ Window \in Nat \ {0}
    /\ MaxTip \in Nat \ {0} /\ MaxSkew \in Nat
    /\ ForkAt \in Nat /\ MaxResets \in Nat /\ tipAmbiguitySlack \in Nat

VARIABLES
    tip,        \* per endpoint, the newest ledger it serves
    up,         \* the endpoints that answer
    epoch,      \* which network: a reset starts another
    preferred   \* where the next call starts

poolVars == <<tip, up, epoch, preferred>>

PoolTypeOK ==
    /\ tip \in [Endpoints -> 1..MaxTip]
    /\ up \subseteq Endpoints
    /\ epoch \in 0..MaxResets
    /\ preferred \in Endpoints

PoolInit ==
    /\ tip = [e \in Endpoints |-> 1]
    /\ up = Endpoints /\ epoch = 0 /\ preferred = 1

oldest(e) == Max({1, tip[e] - Window + 1})

\* A ledger's hash names its whole past: network, fork and height.
Hash(e, seq) == <<epoch, IF ForkAt > 0 /\ seq >= ForkAt THEN e ELSE 0, seq>>

\* call: the first endpoint that answers, walking from the preferred one.
Reached == up # {}
Turn(e) == (e + PoolSize - preferred) % PoolSize
Answering == CHOOSE e \in up : \A f \in up : Turn(e) <= Turn(f)

\* A call that succeeds moves the preference; a JSON-RPC error does not.
Prefer == preferred' = Answering /\ UNCHANGED <<tip, up, epoch>>

Slowest == Min({tip[e] : e \in Endpoints})

-----------------------------------------------------------------------------
(* What the endpoints do on their own.                                     *)

Close(e) ==
    /\ tip[e] < MaxTip
    /\ tip[e] + 1 <= Slowest + MaxSkew
    /\ tip' = [tip EXCEPT ![e] = @ + 1]
    /\ UNCHANGED <<up, epoch, preferred>>

Fails(e) == e \in up /\ up' = up \ {e} /\ UNCHANGED <<tip, epoch, preferred>>

Recovers(e) == e \notin up /\ up' = up \cup {e} /\ UNCHANGED <<tip, epoch, preferred>>

\* A network reset: every endpoint now serves another chain, from its start.
Reset ==
    /\ epoch < MaxResets
    /\ epoch' = epoch + 1
    /\ tip' = [e \in Endpoints |-> 1]
    /\ UNCHANGED <<up, preferred>>

=============================================================================
