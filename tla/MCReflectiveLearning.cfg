SPECIFICATION FairSpec
CONSTANTS
    a1 = a1
    w1 = w1
    w2 = w2
    Artifacts <- MCArtifacts
    Workers <- MCWorkers
    NoProposal = NoProposal
    MinEvidence = 1
    MinObservations = 1
    Said = {0, 1}
    MaxFeedback = 1
    MaxCrashes = 1
INVARIANTS
    TypeOK
    HistoryIsTold
    EffectWasApproved
    PolicyIsTested
PROPERTIES
    LearningConcludes
