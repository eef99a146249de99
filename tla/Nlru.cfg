SPECIFICATION Spec
CONSTANTS
  Labels = {la, lb}
  Items = {x, y, z}
  MaxEntries = 2
  MaxId = 5
  NoItem = NoItem
INVARIANT IndexesAgree
PROPERTY ImplementsLru
