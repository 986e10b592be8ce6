------------------------- MODULE MCReflectiveLearning -------------------------
\* Small instances of ReflectiveLearning.
EXTENDS ReflectiveLearning

CONSTANTS a1, w1, w2

MCArtifacts == {a1}
MCWorkers == {w1, w2}
MCOneWorker == {w1}
=============================================================================
