SPECIFICATION CtrlFairSpec
CONSTANTS
  r1 = r1
  r2 = r2
  t1 = t1
  t2 = t2
  all = all
  Rollers <- MCRollers
  Timeout = 2
  HandlerTicks = 1
  ULongMax = 7
  ROLLER_COUNT = 2
  RollerTab <- MCTab
  Topics <- MCTopics
  TopicOf <- MCTopicOf
  MQTT_ALL_ROLETS = all
INVARIANTS
  CtrlTypeOK
  LastMessageWins
PROPERTIES
  OfflineStops
  LinkSpec
  LinkLossStops
