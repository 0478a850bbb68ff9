CONSTANT MaxOrderers = 4
SPECIFICATION FairSpec
INVARIANTS TypeOK AnswerMatchesOrderers
PROPERTIES QuorumReturns WorkersEnd CancelReturns
CHECK_DEADLOCK FALSE
