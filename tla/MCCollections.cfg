SPECIFICATION CollectionsSpec
CONSTANTS
  Priorities = {1, 2, 3}
  MaxPushes = 6
  HashOf <- MCHashOf
  ClassOf <- MCClassOf
  MinSlots = 4
  Primitive <- MCPrimitive
  Other <- MCOther
  Values = {1, 2}
  Uses <- MCUses
INVARIANTS ProbesEnd BucketsIndexEntries LookupsAgree
PROPERTIES RefinesOrderedMap RefinesStableQueue
CHECK_DEADLOCK FALSE
