CONSTANTS
  MaxKeys = 2
  KeyOf <- SevenKeys
  Workloads <- GrowsAndShips
  MaxImages = 2
SPECIFICATION Spec
INVARIANTS
  LookupsAgree
  Balanced
  PagesAccounted
  CopyIsCurrent
VIEW StateView
