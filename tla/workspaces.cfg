SPECIFICATION Spec
CONSTANTS
  Objects <- MCObjects
  Outboxes <- MCOutboxes
  Policy <- MCPolicy
  Tasks <- MCTasks
  Scope <- MCScope
  Offers <- MCOffers
  Questions <- MCQuestions
  Starts <- MCStarts
  MaxTasks = 2
INVARIANTS ValidHasNoDangling GateAcceptsTheValid
PROPERTIES NothingOverwritten NamesWhatWasSeen BrokenIsImpacted
CHECK_DEADLOCK FALSE
