SPECIFICATION Spec
CONSTANTS
  BadNames = {"1"}
  MaxInt = 7
  Exponent = 6
  Wildcards = {37, 95}
  PageSizes <- MCPageSizes
  FilterTexts <- MCFilterTexts
  Patches <- MCPatches
  Lists <- MCLists
  Selections <- MCSelections
  Columns <- MCColumns
  V2Resources <- MCV2Resources
  EvalFilter <- MCEvalFilter
  FilterFrom <- MCFilterFrom
  FilterToText <- MCFilterToText
  PatchPathFrom <- MCPatchPathFrom
  PatchPathToText <- MCPatchPathToText
  Selected <- MCSelected
INVARIANTS ReadsBack  PatchSettles PageIsAsked ProxyIsTransparent QueriesAgree V1Agrees
CHECK_DEADLOCK FALSE
