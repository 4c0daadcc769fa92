---------------------------- MODULE MCRecovery ------------------------------
EXTENDS Recovery

CONSTANTS a, b

MCOneClient == {a}
MCTwoClients == {a, b}
MCPks == {1, 2}
MCVals == {1, 2}
MCOneVal == {1}
MCAny == [c \in Clients |-> Vals]
MCTagged == [c \in Clients |-> IF c = a THEN {1} ELSE {2}]
MCZero == {0}
MCNormal == {FALSE}
MCBoth == {FALSE, TRUE}
=============================================================================
