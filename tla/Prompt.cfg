SPECIFICATION Spec
CONSTANTS
  Accounts = {"hellcatjack", "member", "guest"}
  Actor = "hellcatjack"
  Collaborators = {"hellcatjack", "member"}
  Texts <- MCTexts
  Beginnings <- MCBeginnings
  HandlerMinutes = 300
  PageSize = 2
  MaxChanges = 3
  Attachments = {"attachment"}
  Hosted = {"hosted", "camo"}
  Storage = {"storage"}
  Elsewhere = {"elsewhere"}
  MaxImages = 2
  MaxRequests = 3
CHECK_DEADLOCK FALSE
INVARIANTS
  IInv
  PreparedWasCurrent
  RejectedHasCause
  FetchIsFaithful
  ImagesAreTrusted
  ImagesAreOwnFiles
  ReferencesAreAccounted
