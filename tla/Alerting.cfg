SPECIFICATION AlertSpec
CONSTANTS
  Rules = 2
  Values <- MCValues
  Breaching <- MCBreaching
  Unfit <- MCUnfit
  Debounce <- MCDebounce
  HasClear <- MCHasClear
  MaxRounds = 6
INVARIANTS
  AlarmFollowsSignal
  CallbacksInTurn
CHECK_DEADLOCK FALSE
