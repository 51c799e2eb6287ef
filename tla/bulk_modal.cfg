\* Two openings of the dialog.  The bounds end a behavior: no deadlock check.
SPECIFICATION Spec
CONSTANTS
  Verbs = {"delete", "archive"}
  Typed = {1, 2}
  TYPED_CONFIRM_THRESHOLD = 0
  MaxCount = 1
  MaxOpenings = 2
  MaxInFlight = 2
INVARIANTS ModalTypeOK ExecutedAsConfirmed HandsOverOnce NoStrayPreview
CHECK_DEADLOCK FALSE
