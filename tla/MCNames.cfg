SPECIFICATION Spec
CONSTANTS
  Hex = {"0"}
  OtherAlphaNumeric = {"z"}
  Punctuation = {"@"}
  Dash = "-"
  Others = {" "}
  HashLength = 2
  EmailLimit = 4
  PlanLimit = 2
  MaxText = 6
INVARIANTS TypeOK NameIsOwned SegmentIsReference
CHECK_DEADLOCK FALSE
