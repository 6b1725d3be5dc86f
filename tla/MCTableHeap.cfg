CONSTANTS
  MaxPages = 2
  MaxSlots = 2
  Value = {a}
  Zero = zero
SPECIFICATION Spec
INVARIANTS
  TypeOK
  TailIsDead
  InsertTakesFreeSlot
PROPERTIES
  GrowsOnlyWhenFull
  ImplementsRowStore
