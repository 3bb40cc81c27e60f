SPECIFICATION FairSpec
CONSTANTS
  Pages = {p1}
  Sockets = {s1, s2}
  None = None
PROPERTY PageReconnects
