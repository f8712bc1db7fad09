SPECIFICATION SuperviseSpec
CONSTANTS
  Workers = {w1, w2}
  Nothing = nothing
INVARIANT PanicIsReported
CHECK_DEADLOCK FALSE
