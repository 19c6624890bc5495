SPECIFICATION Spec
CONSTANTS
  Workers = {w1, w2}
  Hot = {w1}
  Nobody = Nobody
INVARIANTS
  TypeOK
  CrashIsRace
  ExitJoinsThreads
PROPERTY SigintEnds
CHECK_DEADLOCK FALSE
