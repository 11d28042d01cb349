\* The smallest documents that hold a dictionary in the root dictionary.
CONSTANTS
  Strings = {"id", "v"}
  Selected = {"id"}
  Long = {}
  Binaries = {}
  MaxDepth = 4
  MaxNodes = 5
  MaxRetained = 2
  MaxRefs = 2
  MaxText = 1
SPECIFICATION Spec
INVARIANT KeysAreTopLevel
CHECK_DEADLOCK FALSE
