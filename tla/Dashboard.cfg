SPECIFICATION ServerSpec
CONSTANTS
  Pages = {p1, p2}
  Sockets = {s1, s2, s3}
  None = None
INVARIANTS TypeOK RegisteredIsServed
PROPERTIES EndSparesOthers ReplacedEnds
