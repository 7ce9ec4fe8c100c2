SPECIFICATION Spec
CONSTANTS
  Name = {a, b}
  NoName = NoName
  Dots = {".", ".."}
  MAX_OPEN_FILES = 2
  DENTRIES = 4
INVARIANTS FormattedIsWhole NamesUnique CreatedIsListed
PROPERTIES DescriptorsKept
