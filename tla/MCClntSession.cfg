SPECIFICATION Spec
CONSTANTS
  Clients = {c1, c2}
  Sessions = {s1, s2}
  UpsKeepalive = TRUE
  FileParts = {0, 2}
  NumNbqs = 8
  MaxItems = 1
  MaxRequests = 2
INVARIANTS InCare OneUserPerQueue OwnResponse WorksForClient
PROPERTIES KeptWhenAnswered
SYMMETRY Symmetry
VIEW View
