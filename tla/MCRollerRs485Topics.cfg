SPECIFICATION Spec
CONSTANTS
  salon = salon
  kuchniafront = kuchniafront
  kuchniabok = kuchniabok
  all = all
  level = level
  timeout = timeout
  trigger = trigger
  pir = pir
  ROLLER_COUNT = 3
  Topics <- Listed
  TopicOf <- Built
  MQTT_ROLLER_ALL = all
  MQTT_DIMMER = level
  Timeout = 5
  ULongMax = 7
  HandlerTicks = 2
INVARIANT
  ListedSubscribed
