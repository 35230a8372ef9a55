\* Three saves, one the retry of another, and two opens, any two of them at once,
\* while the document is archived, its file edited outside, and writes are refused.
CONSTANTS
  s1 = s1
  s2 = s2
  s3 = s3
  o1 = o1
  o2 = o2
  k1 = k1
  k2 = k2
  original = original
  pulled = pulled
  Original = original
  Saves = {s1, s2, s3}
  Forced = {s1, s2}
  Opens = {o1, o2}
  Keys = {k1, k2}
  Key <- RetryKeys
  Edits = {pulled}
  TwinOverlap = FALSE
  WriteFails = TRUE
  MaxInFlight = 2
  MaxEdits = 1
  MaxRows = 2
SPECIFICATION Spec
SYMMETRY TwinsAndOpens
INVARIANTS
  OneLiveRow
  RevisionNamesContent
  RetryRunsOnce
  SavedMeansOnDisk
PROPERTIES
  NoSilentOverwrite
  AdoptLosesNothing
CHECK_DEADLOCK FALSE
