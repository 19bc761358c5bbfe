CONSTANTS
  Root = "root"
  Decls <- PointerInValue
  FieldOrders <- MCOrders
  Marshallers = {g1, g2}
  Giver = Giver
  Nil = Nil
  Shared <- NoneShared
SPECIFICATION FlatSpec
INVARIANT AllLive
CHECK_DEADLOCK FALSE
