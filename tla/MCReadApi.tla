------------------------------ MODULE MCReadApi ------------------------------
(* Instances of ReadApi: a chain with a quiet ledger and a busy one.        *)
EXTENDS ReadApi

\* Two rows share ledger 2, so a page boundary can fall between them.
BusyChain == {<<1, 1>>, <<2, 1>>, <<2, 2>>, <<4, 1>>}

=============================================================================
