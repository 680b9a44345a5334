SPECIFICATION FairSpec
CONSTANTS
  W = 16
  MQTT_KEEPALIVE = 3
  MQTT_SOCKET_TIMEOUT = 1
  ReconnectPeriod = 1
  ConnectDelay = 1
  WDTO = 3
  Topics = 1
  PassTicks = 1
  MaxInbox = 2
INVARIANTS
  ClientInv
  KeepsAlive
  DeadBrokerNoticed
  RetryComes
  NeverDeaf
PROPERTIES
  SessionsLast
  AttemptsSpaced
  LinkSpec
  Recovers
