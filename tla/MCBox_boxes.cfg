SPECIFICATION Spec
CONSTANTS
  Given <- AllKinds
  Changes = {0, 1, 129, 255}
  Damaged <- DamagedKinds
INVARIANTS BoxTypeOK ReadsAsBuilt CutNoticed StreamReadsBack MovieReadsBack
CHECK_DEADLOCK FALSE
