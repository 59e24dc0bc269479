SPECIFICATION Spec
CONSTANTS
  s1 = s1
  s2 = s2
  p1 = p1
  Sessions = {s1, s2}
  First = s1
  Turns = {p1, t1, t2}
  Past = {p1}
  PastHome <- HomeOfPast
  None = none
  Slots = {f1, f2}
INVARIANTS
  StreamOwnsWindow
  TranscriptClean
PROPERTIES
  ComposerReopens
CHECK_DEADLOCK FALSE
