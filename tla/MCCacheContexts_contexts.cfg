\* A cache worker with three requests and four contexts.
SPECIFICATION Spec
CONSTANTS
  Requests <- MCRequests
  MaxRequests = 3
  MaxContexts = 4
CHECK_DEADLOCK FALSE
INVARIANTS
  ContextsInvariant
  AnsweredOnce
  PackAnswers
PROPERTIES
  EventuallyReplied
