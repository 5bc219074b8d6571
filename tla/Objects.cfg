CONSTANTS
  c1 = c1
  c2 = c2
  w1 = w1
  k1 = k1
  k2 = k2
  other = other
  f1 = f1
  Clients <- MCClients
  Walkers <- MCWalkers
  Keys <- MCKeys
  Supported <- MCSupported
  Fields = {f1}
  Factories <- UIDFirst
  Meta <- MCMeta
  Filters <- MCFilters
  MaxFaults = 1
  NoCall = NoCall
SPECIFICATION MCSpec
INVARIANTS TypeOK ListsStable CountsObjects
PROPERTY ImplementsStore
SYMMETRY Symmetry
