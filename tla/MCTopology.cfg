CONSTANTS
  t1 = t1  t2 = t2  t3 = t3  t4 = t4  d1 = d1  d2 = d2  d3 = d3  d4 = d4
  e1 = e1  e2 = e2  tier = tier  near = near  far = far  ext = ext  s1 = s1  s2 = s2
  cb = cb  fed = fed  risk = risk
  Domain = {t1, t2, t3, t4, d1, d2, d3, d4}
  ClassOf <- MCClassOf
  ScopeOf <- MCScopeOf
  Class = {tier, near, far, ext}
  Canonical = {near, far}
  Entity = {e1, e2}
  Rules <- MCRules
  RelationType = {cb, fed, risk}
  Acyclic = {cb, fed}
  ContainedBy = cb
  Containment = {tier}
  MaxRelations = 4
  MaxDepth = 2
  MaxWalk = 2
  MaxMemberships = 6
  MaxCoverage = 3
  MaxGeneration = 3
  NoSnapshot = NoSnapshot
SPECIFICATION MCSpec
INVARIANTS TypeOK ImageIsAcyclic ChainsAreBounded WalksAreExact RunIsExact ContextIsExact IndependenceIsSound QueriesAgree CurrentSnapshotIsFaithful
PROPERTIES ChangeIsFelt InvalidStaysOut
SYMMETRY Symmetry
VIEW View
CONSTRAINT Scenes
CHECK_DEADLOCK FALSE
