CONSTANTS
  first = first
  reader = reader
  last = last
  own = own
  u = u
  s = s
  b1 = b1
  b2 = b2
  r1 = r1
  None = None
  Importers = {first, reader, last, own}
  Chain <- MCChain
  BaseImporters = {own}
  Urls = {u, s}
  Bases = {b1, b2}
  LoadBases = {b1, b2}
  SchemeOf <- Scheme1
  NonCanonical <- MCNonCanonical
  Readers = {reader}
SPECIFICATION Spec
INVARIANT CacheTransparent
INVARIANT NothingContextualKept
