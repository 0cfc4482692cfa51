\* Two tabs, two questions, five reports.
SPECIFICATION Spec
CONSTANTS
  tab1 = tab1
  tab2 = tab2
  None = None
  Unknown = Unknown
  Tabs <- MCTabs
  Questions <- MCQuestions
  MaxAsked = 2
  Library <- MCLibrary
  Lines <- MCLines
  Associates <- MCAssociates
  Sales <- MCSales
  Month <- MCMonth
  ChatLimit = 2
  TrendWeeks = 2
  RowLimit = 2
  Capacity = 9
  RecordSize = 1
  HistorySize = 3
  TurnSize <- MCTurnSize
  SentTurns = 2
  SavedTurns = 2
  WindowSize = 2
INVARIANTS
  StoredChat
  DashboardShowsWeeks
  DashboardAddsUp
  RecentMonthExact
PROPERTIES
  QuestionsEnd
