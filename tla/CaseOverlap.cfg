\* Two overlapping calls on one case, each of which may die midway.
SPECIFICATION Spec
CONSTANTS
  Cases = {c1}
  Legacy = {c1}
  Workers = {w1, w2}
  Figures = {0, 5}
  ObjectionWindow = 0
  ResponseWindow = 0
  MaxTime = 2
  MayAbort = TRUE
SYMMETRY WorkerSymmetry
INVARIANTS TypeOK DemandNeedsNotice NoDemandOnCompanies ObjectionHasDeadline
CHECK_DEADLOCK FALSE
