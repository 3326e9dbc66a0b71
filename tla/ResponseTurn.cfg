CONSTANTS
    Requests = {q1, q2}
    MaxAsk = 1
    MaxCancel = 1
    MaxReinvoke = 1
    None = None
SPECIFICATION Spec
CHECK_DEADLOCK FALSE
INVARIANTS OneReader KeepsItsClient AnsweredOnce
PROPERTIES CommitsChain OwnAnswer EveryTurnEnds
