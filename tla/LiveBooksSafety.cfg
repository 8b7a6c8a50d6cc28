\* Two runs, stopped at most twice each; see MCLiveBooks.
CONSTANTS
  RunIds = {r1, r2}
  Agents = {"desk", "billing"}
  Watched = "desk"
  Scenes = {"empty", "busy"}
  Quiet = "quiet"
  Places = 1
  MaxKeys = 1
  Priced = {"desk"}
  PerHour = 1
  OnlyOnChange = FALSE
  Hour = 1
  MaxSteps = 1
  MaxStints = 2
  MaxNow = 2
SPECIFICATION BooksSpec
INVARIANTS NothingStays TalliedOnce SpendKept HourlyCeiling
CHECK_DEADLOCK FALSE
SYMMETRY RunSymmetry
