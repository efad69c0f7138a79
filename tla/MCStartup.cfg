SPECIFICATION Spec
CONSTANTS
  Texts <- AllTexts
  Kilo = 4
  Wide = 4096
  MayFail = TRUE
INVARIANTS
  MeansWhatItSays
  ListenersOwned
PROPERTIES
  Decided
CHECK_DEADLOCK FALSE
