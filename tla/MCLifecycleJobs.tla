--------------------------- MODULE MCLifecycleJobs ---------------------------
\* Small instances of LifecycleJobs: a recurring job and a one-shot job.
EXTENDS LifecycleJobs, TLC

CONSTANTS refresh, oneshot, w1, w2

MCJobs == {refresh, oneshot}
MCRecurring == {refresh}
MCInterval == [j \in MCRecurring |-> 2]
MCWorkers == {w1, w2}
MCOneWorker == {w1}

MCAllHandlers == {MCJobs}

\* A current process registers the recurring job, an older one does not know it.
MCOldAndNew == {MCJobs, {oneshot}}

MCSymmetry == Permutations(MCWorkers)
=============================================================================
