SPECIFICATION Spec
CONSTANTS
  s1 = s1
  s2 = s2
  a = a
  b = b
  Slots = {s1, s2}
  Signatures = {a, b}
  Span = 1
  Gap = 1
  Sightings = 3
  Global = 1
  PerSlot = 2
  MaxClock = 2
  MaxPasses = 3
CONSTRAINT OneVaries
INVARIANTS FencedOnEvidence
PROPERTIES EvidenceIsActedOn ImplementsThrottle
