CONSTANTS
  one = one
  two = two
  file = file
  easy = easy
  hard = hard
  other = other
  nodir = nodir
  Sets = {one, two}
  Files = {file}
  Maps = {easy, hard, other}
  Home <- MCHome
  Archive <- Whole
  FileSet <- MCFileSet
  NoMap = nomap
  NoSet = noset
  NoDir = nodir
  Leftovers <- Clean
  Fragile = {}
  Attentive = TRUE
  MaxActs = 3
SPECIFICATION Spec
PROPERTY DoneIsWhole
CHECK_DEADLOCK FALSE
