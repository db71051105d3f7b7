----------------------------- MODULE MCRpcBatch ------------------------------
(* Instances of RpcBatch.                                                  *)
EXTENDS RpcBatch

\* Heavy ledgers in the middle of light ones.
Mixed == [l \in Ledgers |-> IF l \in 3..4 THEN 4 ELSE 1]

=============================================================================
