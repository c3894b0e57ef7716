SPECIFICATION Spec
CONSTANTS
  r1 = r1
  r2 = r2
  map = map
  news = news
  web = web
  wiki = wiki
  none = none
  a = a
  box = box
  Requests = {r1, r2}
  Engines = {web, wiki, map, news}
  Networks = {"own", "shared"}
  NetworkOf <- MCNetworkOf
  EngineTimeout <- MCEngineTimeout
  Quiet = {}
  Offline = {web}
  Items = {a}
  Infoboxes = {box}
  Outcomes <- MCOutcomes
  Answers <- MCAnswers
  Queries <- MCQueries
  MaxEngines = 3
  MaxRequestTimeout = none
  NoLimit = none
  BanTime = 1
  LastStart = 1
  MaxTime = 2
INVARIANTS EveryEngineIsAccountedFor DeliveredIsKept OnlyALateResultBreaksTheSearch
PROPERTIES ImplementsSurvey ReportIsFrozen RequestsEnd
