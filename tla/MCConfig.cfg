CONSTANTS
  Dims <- MCDims
  Files <- MCFiles
  Results <- MCResults
  Signals <- MCSignals
  CodeLimit = 2
  Unset = Unset
  Missing = Missing
SPECIFICATION Spec
INVARIANTS AssumptionsMet SelectsFirstMatch PinIsHighest ClampsAgree
