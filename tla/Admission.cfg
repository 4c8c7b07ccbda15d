SPECIFICATION Spec
CONSTANTS
  Configs <- MCConfigs
  Tasks <- MCTasks
  MaxTime = 1
  MaxUpserts = 1
INVARIANTS TypeOK SubscriptionComesFirst ChoiceIsLegitimate VerdictIsJustified
PROPERTIES ChoiceIsStable
CHECK_DEADLOCK FALSE
