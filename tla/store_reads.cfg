SPECIFICATION Spec
CONSTANTS
  a = a  b = b  r1 = r1  r2 = r2  v1 = v1  v2 = v2
  Writers <- MCWriters
  Readers <- MCOneReader
  Contents <- MCContents
  Ttl = 1
  Tombstone = 1
  Faults = {"outage", "damage"}
  MaxTime = 2
  MaxReads = 1
  None = None
SYMMETRY Symmetry
INVARIANTS TypeOK ReadsTrueOrRaced ExpiryStaysKnown TombstoneCoversBody
CHECK_DEADLOCK FALSE
