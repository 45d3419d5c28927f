---------------------------- MODULE FilterLanguage ----------------------------
(***************************************************************************)
(* What PATCH, lists and queries take of filters, whatever their language:  *)
(* FilterText and Translations have the operators that the code has.       *)
(***************************************************************************)
EXTENDS Attributes

CONSTANTS
  EvalFilter(_, _),     \* does a map of attributes match a filter
  FilterFrom(_),        \* the filter of a text, or BadFilter
  FilterToText(_),
  PatchPathFrom(_),     \* the path of a text, or BadPath
  PatchPathToText(_),
  Selected(_, _, _)     \* does a database find the resource that has the attributes:
                        \* "true", "false", "null" or "error"

=============================================================================
