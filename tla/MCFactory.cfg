SPECIFICATION Spec
CONSTANTS
  Builders <- MCBuilders
  Leaves <- MCLeaves
  Requests <- MCRequests
  Answers <- MCAnswers
  Asks <- MCAsks
  Stubborn <- MCStubborn
  Fickle <- MCFickle
  Picky <- MCPicky
  Settings <- MCSettings
INVARIANTS
  TypeOK
  SurvivorsCounted
  DepthIsBounded
  BudgetsHold
PROPERTY GenerationSucceeds
