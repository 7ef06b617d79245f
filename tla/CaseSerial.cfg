\* One call at a time, two cases: the lifecycle as the register promises it.
SPECIFICATION FairSpec
CONSTANTS
  Cases = {c1, c2}
  Legacy = {c2}
  Workers = {w1}
  Figures = {5}
  ObjectionWindow = 1
  ResponseWindow = 0
  MaxTime = 2
  MayAbort = FALSE
INVARIANTS RecordsFollow
PROPERTIES ImplementsLaw OverdueObjectionEnds
CHECK_DEADLOCK FALSE
