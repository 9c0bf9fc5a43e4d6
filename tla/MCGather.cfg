\* Two nodes that move between all conditions, words cut to 0..127.
CONSTANTS
    MaxWord = 127
    Nodes = {n1, n2}
    Conditions <- AllConditions
    Failed = Failed
    Denied = Denied
    a = a
    b = b
    c = c
    d = d
SPECIFICATION FairSpec
INVARIANTS TypeOK Tally AllNodesCounted SpaceBalance AnswerIsOfThisRequest
PROPERTIES HandlerAnswers
