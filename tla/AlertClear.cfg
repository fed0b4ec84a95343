SPECIFICATION AlertSpec
CONSTANTS
  Rules = 2
  Values <- MCValues
  Breaching <- MCBreaching
  Unfit <- MCUnfit
  Debounce <- MCDebounce
  HasClear <- MCHasClear
  MaxRounds = 6
INVARIANT
  ClearDebounced
CHECK_DEADLOCK FALSE
