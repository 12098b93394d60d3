SPECIFICATION Spec
CONSTANTS
  Knobs <- MCKnobs
  Models = {"a", "b"}
  Declared = {"a"}
  Groups = {"g", "h"}
  MaxEdits = 2
  Budgets <- MCBudgets
  Ids <- MCIds
  Lower <- MCLower
INVARIANTS ConfigTypeOK PendingEditStaysVisible HoldsWhatItClaims Agreement
PROPERTIES MarkNeverGoesBack DeleteHitsItsKey RenameKeepsTheGroup LateAnswerChangesNothing PreviewsEnd LoadingEnds
CHECK_DEADLOCK FALSE
