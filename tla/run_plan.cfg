SPECIFICATION RunSpec
CONSTANTS
  A = A
  A2 = A2
  B = B
  Broken = Broken
  K = K
  KNull = KNull
  BrokenKey = BrokenKey
  KeyBinding = KeyBinding
  S = S
  T = T
  None = None
  Malformed <- MCMalformed
  RecordOf <- MCRecordOf
  KeyValues <- MCKeyValues
  Payloads <- MCPayloads
  Invocations <- MCInvocations
  MaxEntities = 2
  PerKeys <- MCPerKeys
  EntityBound = 5
INVARIANTS
  FlagsBeforeFiles
  NothingIgnored
  EncodesAsGenerated
PROPERTY
  KeepsWindow
CHECK_DEADLOCK FALSE
