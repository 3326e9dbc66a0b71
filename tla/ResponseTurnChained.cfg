CONSTANTS
    Requests = {q1, q2}
    MaxAsk = 1
    MaxCancel = 0
    MaxReinvoke = 0
    None = None
SPECIFICATION Spec
INVARIANT QuestionIsShown
CHECK_DEADLOCK FALSE
