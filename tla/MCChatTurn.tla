------------------------------ MODULE MCChatTurn ------------------------------
\* Small instances of ChatTurn.
EXTENDS ChatTurn

CONSTANTS gateway, tui, t1, t2, t3

MCProcesses == {gateway, tui}
MCTurns == {t1, t2, t3}
MCHome == [t \in MCTurns |-> IF t = t3 THEN tui ELSE gateway]
=============================================================================
