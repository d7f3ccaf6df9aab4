CONSTANTS
  p1 = p1  b1 = b1  d1 = d1  d2 = d2  m1 = m1  m2 = m2  e1 = e1  c1 = c1  k1 = k1  k2 = k2
  Publisher = {p1}
  Boot = {b1}
  Source <- MCSource
  Evidence = {2, 3}
  Class = {c1}
  Exclusive = {c1}
  Domain = {d1, d2}
  ClassOf <- MCClassOf
  Member = {m1, m2}
  EntityOf <- MCEntityOf
  Grants <- MCGrants
  OwnAttribution = TRUE
  MaxPublishers = 1
  MaxFences = 1
  MaxEvidence = 2
  MaxMemberships = 2
  MaxEpoch = 1
  MaxGeneration = 2
SPECIFICATION MembersSpec
INVARIANT Exclusivity
SYMMETRY Symmetry
CHECK_DEADLOCK FALSE
