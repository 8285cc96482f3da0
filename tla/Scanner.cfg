\* Texts of up to 12 items; a scan ends, so TLC would call it a deadlock.
CONSTANTS
  Words <- Keywords
  Texts <- AllTexts
SPECIFICATION Spec
INVARIANTS OffsetsStable NothingOpens MaskIsExact ReadsAreReads
CHECK_DEADLOCK FALSE
