----------------------------- MODULE MCSnapshot ------------------------------
(* An instance of Snapshot and Listing: a key in both durabilities and      *)
(* another, several changes in one ledger, removals undone and not.         *)
EXTENDS Listing

At(ledger, index, key, post) ==
    [ledger |-> ledger, index |-> index, key |-> key, post |-> post, removed |-> FALSE]
Gone(ledger, index, key) ==
    [ledger |-> ledger, index |-> index, key |-> key, post |-> 0, removed |-> TRUE]

a == <<1, 1>>
aTemp == <<1, 2>>
b == <<2, 1>>
ThreeKeys == {a, aTemp, b}
BusyChain == {At(1, 1, a, 1), At(1, 2, a, 2), At(1, 3, b, 1),
              At(2, 1, aTemp, 1),
              Gone(3, 1, a), At(3, 2, b, 2), Gone(3, 3, b), At(3, 4, b, 3),
              At(5, 1, a, 4), Gone(6, 1, a), Gone(6, 2, aTemp), At(7, 1, b, 5)}

=============================================================================
