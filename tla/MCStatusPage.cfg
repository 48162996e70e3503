SPECIFICATION FairSpec
CONSTANTS
  q1 = q1
  p1 = p1
  b1 = b1
  Names = {1, 2, 3}
  New = {3}
  Groups = {1, 2}
  Checks = 1
  Movers = {q1}
  SystemLevels = {"critical"}
  CustomLevels = {"minor"}
  SystemSources = {"graph"}
  OtherSources = {"sensor"}
  OldOrder <- MCOldOrder
  Earlier = {1}
  MaxEvents = 2
  Health = {"serviceOperational", "serviceDegradation"}
  Settable = {"operational", "degraded"}
  Silent = Silent
  Polls = {p1}
  Pages = {b1}
  LastDay = 1
  Kinds <- MCKinds
  Excluded = {"maintenance", "advisory"}
  Months <- MCMonths
  Listed = {1, 2}
  Recent = 0
  PerGroup = 1
  TotalCap = 4
  NoEnd = NoEnd
  MaxAttempts = 2
INVARIANTS EventsTypeOK StreamsTell SlaCoversBars ReasonsAccount HeadlineIsInBars PagesAgree MonthsAddUp
PROPERTIES MovesOnePlace DeadStreamsLeave PagesReconnect
CHECK_DEADLOCK FALSE
