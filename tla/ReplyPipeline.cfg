CONSTANTS
  Configs <- ThreeVersions
  Reloaders = {h1, h2}
  MinBudget = 2
  MaxTokens = 4
  DefaultRead = 2
  MaxRead = 3
  ResultRows = 2
  RowChars = 2
  MetaChars = 1
  Requests = {1, 2, 3}
  Calls <- SomeCalls
  DefaultWindow = 3
  Mixes <- Scenarios
SPECIFICATION Spec
INVARIANTS
  TypeOK
  ConfigurationSettles
  SettingsNotAheadOfEndpoint
  AnswerNamesItsQuestion
  HistoryTellsOutcome
  QuestionSeen
  PagesCoverHistory
CHECK_DEADLOCK FALSE
