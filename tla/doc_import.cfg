\* Two statements of comments that the code violates, one at a time:
\*   BaseImporterFirst   as below, a base without a scheme
\*   AccessesNotCovered  BaseImporters = {own, first}, Bases = {b1, b2},
\*                       LoadBases = {b1, None}, Readers = {reader}
CONSTANTS
  first = first
  reader = reader
  last = last
  own = own
  u = u
  s = s
  b1 = b1
  b2 = b2
  r1 = r1
  None = None
  Importers = {first, reader, last, own}
  Chain <- MCChain
  BaseImporters = {own}
  Urls = {u}
  Bases = {r1}
  LoadBases = {r1}
  SchemeOf <- Scheme1
  NonCanonical <- MCNonCanonical
  Readers = {own}
SPECIFICATION Spec
INVARIANT BaseImporterFirst
\* INVARIANT AccessesNotCovered
