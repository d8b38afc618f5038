CONSTANTS
  NoNode = NoNode
  AllFields = AllFields
  Plans <- SmallPlans
  Configs <- SmallConfigs
  Catalogs <- SmallCatalogs
  Numeric <- Numbers
  MaxCalls = 2
  MaxChanges = 2
SPECIFICATION Spec
INVARIANTS FunctionWraps
CHECK_DEADLOCK FALSE
