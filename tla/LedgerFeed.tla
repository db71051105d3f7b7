----------------------------- MODULE LedgerFeed ------------------------------
(***************************************************************************)
(* What the rest of the process may take the live loop for: a feed that    *)
(* starts at some ledger and then delivers the next one, never another.    *)
(* Module LiveLoop implements it; module Indexer's Live is it.             *)
(***************************************************************************)
EXTENDS Naturals

VARIABLES
    last,       \* the newest ledger delivered; 0 before the first
    delivered   \* every ledger delivered

vars == <<last, delivered>>

Init == last = 0 /\ delivered = {}

First ==
    /\ last = 0 /\ last' \in Nat \ {0}
    /\ delivered' = {last'}

Following ==
    /\ last > 0 /\ last' = last + 1
    /\ delivered' = delivered \cup {last'}

Next == First \/ Following

Spec == Init /\ [][Next]_vars

=============================================================================
