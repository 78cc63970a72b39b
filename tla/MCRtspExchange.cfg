SPECIFICATION Spec
CONSTANT MaxKeepalives = 2
INVARIANTS TypeOK RtpLearntAll RequestsNameSession WholeAnswersUnderstood
PROPERTIES AcceptedIsOwn ImplementsDialogue
