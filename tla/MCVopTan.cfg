\* Every call, every combination of result codes, the bank says "not yet" twice.
CONSTANT MaxRepeats = 2
SPECIFICATION FairSpec
INVARIANTS ConsentComesFirst OrderRepeatedForCause AnswersLastChallenge SuccessMeansReleased SuccessMeansConfirmed
PROPERTIES NoMeansNo CallEnds ImplementsConsent
\* A call that has returned does nothing more.
CHECK_DEADLOCK FALSE
