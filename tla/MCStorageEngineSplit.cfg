\* One key more than a leaf takes.
CONSTANTS
  MAX_KEYS = 2
  Key = {1, 2, 3}
  MaxNodes = 3
  MaxPages = 2
  MaxSlots = 2
  Value = {a}
SPECIFICATION Spec
PROPERTY SplitsKeepEntries
