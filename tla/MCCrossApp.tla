----------------------------- MODULE MCCrossApp -----------------------------
EXTENDS CrossApp

MCOrderKey == [l \in Lock |-> l]
MCWants == [n \in Node |-> IF n = 1 THEN <<1, 2>>
                      ELSE IF n = 2 THEN <<3, 2, 1, 2>> ELSE <<2, 3, 1>>]
MCCuts == {nodes \in SUBSET Node : Cardinality(nodes) <= 1}
MCDeadlines == {[n \in Node |-> None], [n \in Node |-> n],
                [n \in Node |-> 3 - n]}
=============================================================================
