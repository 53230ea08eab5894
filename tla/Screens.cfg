SPECIFICATION Spec
CONSTANTS
  Basic <- MCBasic
  Extended <- MCExtended
  Astral <- MCAstral
  Spaces <- MCSpaces
  Breaks <- MCBreaks
  Transliterations <- MCTransliterations
  MaxWordLookback = 2
  MinLabelRunes = 4
  MaxSeptets = 21
  MaxUCS2Units = 12
  Starts <- MCStarts
  Mixes <- MCMixes
  MaxRunes <- MCMaxRunes
  Reserves = {1, 6, 10}
  Keys <- MCKeys
  LabelRunes <- MCLabelRunes
  MaxLabelRunes = 6
  Fallback <- MCFallback
  Title <- MCTitle
  Footer <- MCFooter
CHECK_DEADLOCK FALSE
INVARIANTS
  ShrinkFits
  SearchFindsTheLongest
  PagesFit
  PagesLoseNothing
  LabelIsOneGSMLine
  MenuOffersItsFirstItems
  LabelsAreLongest
  FooterStays
