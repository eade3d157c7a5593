CONSTANTS
  Callers = {c1, c2}
  WindowSize = 2
  MinSamples = 1
  RateNum = 1
  RateDen = 2
  RecoveryWindow = 1
  Bypasses = {"cancelled", "answered", "nested"}
SPECIFICATION FairSpec
PROPERTY
  ProbeSettles
