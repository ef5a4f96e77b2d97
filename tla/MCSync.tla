------------------------------ MODULE MCSync ------------------------------
EXTENDS SyncProps

CONSTANTS c1, c2, k1, k2, f1, a1

MCOwnerOf == [r \in Resources |-> IF r \in {k2, a1} THEN c2 ELSE c1]

On(s, type, wait, test) == [sync |-> s, type |-> type, wait |-> wait, test |-> test]
MCAmounts == {-2}

Fence == On(f1, "absolute", 0, "Fence")

\* conditions on counters, on the time and on the fence, alone and together
AnyWaits ==
    {<<On(k1, "absolute", 1, "PositiveComparison")>>,
     <<On(k1, "relative", 2, "PositiveTransition"), On(k2, "absolute", -1, "NegativeComparison")>>,
     <<On(k2, "absolute", 0, "NegativeTransition"), On(ServerTime, "relative", 1, "PositiveComparison")>>,
     <<Fence>>}

TimeWaits == {<<On(ServerTime, "relative", n, "PositiveComparison")>> : n \in {1, 2}}

Attributes(counter, type, wait, test, delta) ==
    [counter |-> counter, type |-> type, wait |-> wait, test |-> test, delta |-> delta]

AnyChanges ==
    {Attributes(k1, Keep, 1, Keep, Keep), Attributes(k2, Keep, Keep, "NegativeComparison", -1),
     Attributes(None, Keep, Keep, "PositiveTransition", 0)}
=============================================================================
