CONSTANTS
  NoNode = NoNode
  AllFields = AllFields
  Plans <- SmallPlans
  Configs <- SmallConfigs
  Catalogs <- SmallCatalogs
  Numeric <- Numbers
  MaxCalls = 2
  MaxChanges = 2
SPECIFICATION FairSpec
INVARIANTS TypeOK OrdersAgree EntriesLinked TextShowsTree IssuesInOrder NoIssueLost OneSnapshot WorkMemIsLeast LimitSilences
PROPERTIES CallsEnd
CHECK_DEADLOCK FALSE
