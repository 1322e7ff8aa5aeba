\* Coroutines of one service: sleeping and failing, exiting, queueing
CONSTANTS
    Co = {c1, c2, c3}
    Peer = {p}
    None = None
    Break = Break
    Limits <- All
SPECIFICATION Spec
INVARIANTS AnswersFindCallers NobodyLeft QueueHandsOver QueueMovesOn
PROPERTY AnsweredOnce
CHECK_DEADLOCK FALSE
