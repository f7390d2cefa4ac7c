SPECIFICATION AjaxSpec
CONSTANTS
  Requests = {1, 2}
  Options <- Plain
  None = None
INVARIANTS
  ActiveIsTheNumber
CHECK_DEADLOCK FALSE
