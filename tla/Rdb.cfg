SPECIFICATION FairSpec
CONSTANTS
  Keys = {k1, k2}
  MaxDbs = 2
  MaxSets = 2
  MaxCrashes = 2
  None = None
INVARIANTS HeaderMatches ValuesOfThisSave OneSavePerFile SavedSurvives
PROPERTIES RestartRestores EventuallySaved
CHECK_DEADLOCK TRUE
