SPECIFICATION Spec
CONSTANTS
  Names <- MCNames
  Langs <- MCLangs
  DefaultLang = "en"
  Versions <- MCVersions
  First <- MCFirst
  NoSession = NoSession
  NoState = NoState
  Same = Same
  NoText = NoText
  Notice = Notice
  SessionEnded = SessionEnded
  Faults = {"save", "delete"}
  Expiry = FALSE
  Retries = FALSE
  Reuses = FALSE
  Deploys = FALSE
  MaxData = 8
PROPERTY WalksTheScreens
