SPECIFICATION Spec
CONSTANTS
  Basic <- MCBasic
  Extended <- MCExtended
  Astral <- MCAstral
  Spaces <- MCSpaces
  Breaks <- MCSpaces
  Transliterations <- MCTransliterations
  MaxSeptets = 72
  MaxUCS2Units = 32
  MaxWordLookback = 4
  MinLabelRunes = 4
  Rune <- MCRune
  T <- MCT
  Timelines <- Extravagant
  Unreachable = Unreachable
  MaxPostBytes = 90
  MaxHeaderLen = 6
  WidestPageCounter = 9
  Wide = {"quote"}
  Wider = {"globe"}
  Subscriber <- MCSubscriber
  Inputs <- MCInputs
  MaxAnswers = 5
  NoSession = NoSession
CHECK_DEADLOCK FALSE
INVARIANT NamesLeaveTheControls
