CONSTANTS
  a = a
  b = b
  None = None
  Clients = {a, b}
  QueueCap = 1
  Programs = {"ssh", "nostr"}
  MaxCalls = 4
  MaxDrops = 1
SPECIFICATION Spec
INVARIANTS TypeOK StreamInStep AnswerIsForCall WaiterIsServed FieldsConverted
PROPERTIES WaitEnds RequestReplied KeepsContract
CHECK_DEADLOCK FALSE
