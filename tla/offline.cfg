SPECIFICATION NotifyFairSpec
CONSTANTS
  Conn = {c1}
  Ticker = Ticker
  Admin = Admin
  Absent = Absent
  MaxTrouble = 1
PROPERTIES
  NoRepeat
  NoFalseRecovery
  StatusFollows
  PlainOutageAnnounced
  RecoveryAnnounced
CHECK_DEADLOCK FALSE
