CONSTANTS
  Root = "root"
  Decls <- MCDecls
  FieldOrders <- MCOrders
  Marshallers = {g1, g2}
  Giver = Giver
  Nil = Nil
  Shared <- MCShared
SPECIFICATION FlatSpec
INVARIANTS SelectsTheSame DeclarationOrder NeverPanics AllLive SawTheValue NoNilPanic
CHECK_DEADLOCK FALSE
