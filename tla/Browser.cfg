SPECIFICATION BrowserSpec
CONSTANTS
  Hooks = {page}
  Keys = {a, b}
  Errors = {refused}
  NoKey = NoKey
  NoError = NoError
  MaxWrites = 1
  MaxClicks = 3
  MaxCalls = 2
  Shelf <- Four
  Weights <- BelowAndAbove
  Amounts <- SomeOrGarbled
  Bands <- TenToTwenty
  MaxLoadFailures = 1
  MaxLines = 4
  EngineNames <- Two
  MaxChoices = 2
  MaxEngineNews = 1
  EventTail = 2
  Fresh = 1
  Finished = 2
  MaxTime = 4
  MaxEvents = 4
  Windows = {here, there}
  MaxEdits = 3
  MaxRefusals = 1
INVARIANTS
  BrowserTypeOK
  QuietShowsWrites
  PagesAreExact
  
  NoLineLost
  
  LooksAgain
  RobotsFollow
PROPERTIES
  NeverOlder
CHECK_DEADLOCK FALSE
