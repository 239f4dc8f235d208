SPECIFICATION Spec
CONSTANTS
  Names = {x}
  MaxNodes = 4
  MaxUses = 3
  Avoided = {"closures", "keeping a name someone imports",
             "parameters below a nested expression",
             "managed names in functions",
             "rebinding a managed name",
             "importing below a managed name",
             "shadowing an imported name"}
INVARIANTS
  ReadsSeeTheirBindings
  BindingsApart
  KeptNamesLiteral
  ParametersStable
  ImportsFollowTheirOwner
CHECK_DEADLOCK FALSE
