------------------------------ MODULE MCInnerLife ------------------------------
\* Small instances of InnerLife.
EXTENDS InnerLife

MCWaitTimes == {1, 2}
=============================================================================
