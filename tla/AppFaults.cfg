SPECIFICATION Spec
CONSTANTS
  Names <- MCNames
  Langs <- MCLangs
  DefaultLang = "en"
  Versions <- MCVersions
  First <- MCFirst
  NoSession = NoSession
  NoState = NoState
  Same = Same
  NoText = NoText
  Notice = Notice
  SessionEnded = SessionEnded
  Faults = {"load", "save", "delete"}
  Expiry = TRUE
  Retries = TRUE
  Reuses = TRUE
  Deploys = TRUE
  MaxData = 2
INVARIANTS TypeOK StoredScreenAsks 
