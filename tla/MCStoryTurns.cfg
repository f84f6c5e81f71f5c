SPECIFICATION Spec
CONSTANTS
  Branches = {main, b1}
  Default = main
  None = None
  MaxTurns = 4
  Requests = {r1, r2}
  NoRequest = NoRequest
  Replies = {"write_next_segment", "rewrite_pending_segment", "discuss_outline"}
SYMMETRY Symmetry
INVARIANTS
  Inv
  OneWriter
  DurableAdoptedIsSettled
  DurableReviewHasPendingDraft
PROPERTIES
  HiddenStaysHidden
CHECK_DEADLOCK FALSE
