SPECIFICATION Spec
CONSTANTS
  MinInt <- MCMinInt
  MaxInt = 31
  Nil = Nil
  MaxPersisted = 7
  Second = 4
  MaxProbes = 3
  DefaultProbes <- MCDefaultProbes
  DefaultDial = 2
  MinDial = 1
  Bodies <- MCBodies
  Names = {1, 2}
  Specs <- MCSpecs
  Limits = {1, 3}
  AlphabetSize = 2
  DefaultLength = 1
  MaxRandomLength = 2
  AttemptsPerValue = 1
  DialHorizon = 2
  Zones = {"zen", "other"}
  Variants = {1, 2}
  Addresses = {1, 2}
  MaxReportObservations = 3
  MaxReportIPRows = 1
  Reputations <- MCReputations
  Sightings <- MCSightings
  Requested <- MCRequested
  PageSize = 3
  MaxSamples = 4
  LastInstant = 1
  SampleIPs = {1, 2}
  Pages = {0, 1, 23}
  ShortBucket = 1
  LongBucket = 2
  ShortRange = 0
  Kinds = {"session", "run"}
  MaxRows = 3
  MaxLines = 2
INVARIANTS AcceptedSurvives ExpansionExact DialLeavesConnection VerdictFollowsEvidence ReportsAgree HonorNeedsEvidence ReadsCoherent ExportTruthful
PROPERTIES DialReturns ExportEnds
CHECK_DEADLOCK FALSE
