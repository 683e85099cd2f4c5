SPECIFICATION Spec
CONSTANTS
  Steps <- MCSteps
  EagerMax = 2
  HashModulus = 1009
  WordBits = 2
  IntBits = 5
  Variables = 2
  Literals <- MCLiterals
  Starts <- MCStarts
  Elements <- MCElements
  Indices <- MCIndices
  StartItems <- MCStartItems
  MaxLen = 4
  Primitive <- MCPrimitive
  Other = {}
  HashOf <- MCHashOf
  ClassOf <- MCClassOf
  MinSlots = 4
  MinIndex = 4
  Given = {1}
  Capacities <- MCCapacities
  Histories <- MCHistories
  MaxValue = 1
  BitSizes = {0, 3}
  BitIndices <- MCBitIndices
  QueuePriorities = {1, 2}
  MaxItems = 4
  SeqTexts <- MCTexts
  SeqDelims <- MCDelims
  SeqSizes = {0, 1, 2}
  Samples <- MCSamples
  Floats <- MCFloats
  DigitChars <- MCDigitChars
  Radixes <- MCRadixes
  HostTexts <- MCHostTexts
  FileTexts <- MCFileTexts
  ReadCapacity = 2
  Payloads = {0, 1, 2}
INVARIANTS
  
  StringsHoldTexts
  ListsHoldItems
  
  BitsetsHoldBits
  EnginesAgree
  ValuesHoldParts
  DigestsHold
  ChoicesHold
CHECK_DEADLOCK FALSE
