CONSTANTS
  one = one
  two = two
  file = file
  easy = easy
  hard = hard
  other = other
  nodir = nodir
  Sets = {one, two}
  Files = {file}
  Maps = {easy, hard, other}
  Home <- MCHome
  Archive <- MCArchive
  FileSet <- MCFileSet
  NoMap = nomap
  NoSet = noset
  NoDir = nodir
  Leftovers <- MCLeftovers
  Fragile = {hard}
  Attentive = TRUE
  MaxActs = 2
SPECIFICATION FairSpec
INVARIANTS TransfersAreWanted RetryIsFresh MismatchHasAReason
PROPERTIES VerdictReached EntriesEnd
CHECK_DEADLOCK FALSE
