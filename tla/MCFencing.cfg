CONSTANTS
  p1 = p1  p2 = p2  b1 = b1  b2 = b2  b3 = b3  d1 = d1  e1 = e1  c1 = c1  k1 = k1
  Publisher = {p1, p2}
  Boot = {b1, b2, b3}
  Source <- MCSource
  Evidence = {2, 3}
  Class = {c1}
  Exclusive = {c1}
  Domain = {d1}
  ClassOf <- MCClassOf
  Member = {e1}
  EntityOf <- MCEntityOf
  Grants <- MCGrants
  OwnAttribution = TRUE
  MaxPublishers = 2
  MaxFences = 2
  MaxEvidence = 2
  MaxMemberships = 1
  MaxEpoch = 2
  MaxGeneration = 1
SPECIFICATION FencingSpec
INVARIANTS TypeOK OneLiveIncarnation LiveSessionsAreFit EvidenceOfTheLiving FencesAreDistinct
PROPERTIES LostIncarnationsHoldNoDomain  IncarnationsAreLeased
SYMMETRY Symmetry
CHECK_DEADLOCK FALSE
