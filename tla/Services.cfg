SPECIFICATION Spec
CONSTANTS
  Deps = {s1, s2}
  Others = {s3}
  Waiters = {w1, w2}
  Budgeted = {w2}
  MaxForced = 2
  Elements = {"db"}
  Instances = {0, 1}
  Outputs <- MCOutputs
  Parameters = {"qps"}
  MaxTries = 5
  MaxProcesses = 2
  Trials = {t1, t2}
  Pieces = {"log", "trace"}
  Values = {1, 2}
  MaxPieces = 2
INVARIANTS
  AnswersSound
  OutputsFresh
  CollectedOnce
PROPERTY
  WaitersReturn
CHECK_DEADLOCK FALSE
