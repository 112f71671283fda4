SPECIFICATION Spec
CONSTANTS
  s1 = s1
  s2 = s2
  t1 = t1
  SLOs = {s1, s2}
  Thresholds = {t1}
  Budgeted = {s1}
  Target <- MCTarget
  NoData = NoData
  Readings <- AllReadings
  RestoreMayFail = TRUE
  MaxFaults = 1
PROPERTY StoredRatchet
