\* The smallest instance that shows it: two records of pages, no limit in reach.
CONSTANTS
  Window = 1
  Most = 3
  Second = 1
  Posted = {p1, p2}
  Reading = {r1}
  Genesis = genesis
  Page = {page}
  Note = {n1}
SPECIFICATION Spec
INVARIANTS
  AnsweredIsDurable
