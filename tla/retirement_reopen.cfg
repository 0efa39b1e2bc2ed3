SPECIFICATION FairSpec
CONSTANTS
  MaxParks = 1
  MaxRunners = 2
  MaxWords = 1
  MaxCrashes = 0
  MaxTimeouts = 0
CHECK_DEADLOCK FALSE
PROPERTIES ParkedIsOpen
