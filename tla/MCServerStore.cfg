CONSTANTS
  Window = 3
  Most = 2
  Second = 2
  Posted = {p1, p2, p3}
  Reading = {r1}
  Genesis = genesis
  Page = {page}
  Note = {n1}
SPECIFICATION Spec
INVARIANTS
  LedgerIntact
  AnsweredSurvives
  SaveHeals
  WindowHolds
  RetryAfterSuffices
PROPERTIES
  LedgerExtendsWhileUp
