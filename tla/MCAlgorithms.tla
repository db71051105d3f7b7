---------------------------- MODULE MCAlgorithms -----------------------------
(* The pure algorithms on bounded inputs: a behaviour builds the input of   *)
(* one of them, a step at a time, and leaves the others' empty.             *)
EXTENDS PlanAlgebra, Extraction, PageCursor, Classifier

TheContracts == {"a", "b"}

Ev(e, name, addrs, form) == [emitter |-> e, name |-> name, addrs |-> addrs, form |-> form]
TheEvents ==
    {Ev("a", "other", <<>>, "plain"), Ev("a", "transfer", <<"u", "b">>, "plain"),
     Ev("a", "transfer", <<"b", "b">>, "plain"), Ev("b", "mint", <<"a", "u">>, "plain"),
     Ev("b", "mint", <<"u", "a">>, "plain"), Ev("b", "burn", <<"a">>, "plain"),
     Ev("a", "clawback", <<"u", "b">>, "plain"), Ev("b", "transfer", <<"a">>, "plain"),
     Ev("b", "transfer", <<"a", "u">>, "undecodable"),
     Ev("a", "transfer", <<"u", "b">>, "unencodable"),
     Ev("a", "transfer", <<"u", "b">>, "later"), Ev("b", "transfer", <<"u", "a">>, "nil")}

Key(class, owner) == [class |-> class, owner |-> owner]
TheKeys == <<Key("trustline", "a"), Key("data", "a"), Key("pool", "a"), Key("data", "b"),
             Key("unreadable", "b"), Key("nil", "b"), Key("unencodable", "a")>>

Raw(type, key, val) == [type |-> type, key |-> key, val |-> val]
TheUnits ==
    {<<Raw("created", 2, 1)>>, <<Raw("state", 2, 1), Raw("updated", 2, 2)>>,
     <<Raw("state", 2, 2), Raw("updated", 2, 2)>>, <<Raw("state", 4, 1), Raw("removed", 4, 0)>>,
     <<Raw("restored", 4, 1)>>, <<Raw("state", 1, 1), Raw("updated", 1, 2)>>,
     <<Raw("created", 3, 1)>>, <<Raw("created", 5, 1)>>, <<Raw("created", 6, 1)>>,
     <<Raw("created", 7, 1)>>}

TheWatches == [TheContracts -> {{}, {"events", "state"}, {"movements"},
                                {"transfers", "trustlines"}, Kinds}]

TheMagic == <<7, 7>>
TheVersion == <<1>>
TheSpecName == <<3, 5>>

Sec(id, name, body) == [id |-> id, name |-> name, body |-> body]
TheSections ==
    {Sec(1, <<>>, <<0, 1>>), Sec(0, <<>>, <<1>>), Sec(0, <<3>>, <<5, 1>>),
     Sec(0, TheSpecName, <<1, 2>>), Sec(0, TheSpecName, <<2>>), Sec(0, TheSpecName, <<>>),
     Sec(0, TheSpecName, <<3, 6>>), Sec(2, <<>>, <<0, 3, 2, 3, 5, 1>>)}

\* Nothing, a varint that is too wide, a name and a section longer than what is left.
TheJunk == {<<>>, <<0, 4, 4, 4>>, <<0, 1, 3>>, <<2, 7, 3>>}

Init == PlanInit /\ ExtractionInit /\ PageInit /\ ClassifierInit

NoPlan == planVars = <<NotPlanning, NotCutting, NotRecording, NotProbing>>
NoLedger == ledger = <<>>
NoPage == held = <<>>
NoModule == sections = <<>> /\ scan = NotScanning

\* One algorithm of PlanAlgebra at a time.
OnePlan ==
    /\ plan'.pc # "idle" => holes'.pc = "idle" /\ probe'.pc = "idle"
    /\ holes'.pc # "idle" => probe'.pc = "idle"

Next ==
    \/ /\ NoLedger /\ NoPage /\ NoModule /\ PlanNext /\ OnePlan
       /\ UNCHANGED <<ledger, pageVars, classifierVars>>
    \/ NoPlan /\ NoPage /\ NoModule /\ ExtractionNext /\ UNCHANGED <<planVars, pageVars, classifierVars>>
    \/ NoPlan /\ NoLedger /\ NoModule /\ PageNext /\ UNCHANGED <<planVars, ledger, classifierVars>>
    \/ NoPlan /\ NoLedger /\ NoPage /\ ClassifierNext /\ UNCHANGED <<planVars, ledger, pageVars>>

Spec == Init /\ [][Next]_<<planVars, ledger, pageVars, classifierVars>>

=============================================================================
