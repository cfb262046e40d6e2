SPECIFICATION RebootSpec
CONSTANTS
  Word = 16
  Delays = {0, 1, 3, 5}
  Second = 4
  Uptime = 12
  RebootDelay = 5
  Keys = 2
INVARIANTS SecondsAreExact SignalIsTaken
PROPERTIES ImplementsDelay WaitReturns RebootResets
CHECK_DEADLOCK FALSE
