CONSTANTS
  p = p
  q = q
  MaxRound = 2
  Runtime = {p, q}
  Orders <- MCAnyOrder
  First <- MCFirst
  ItemCount <- MCItemCount
  Unreadable <- MCUnreadable
  None = None
  MaxFaults = 2
SPECIFICATION Spec
INVARIANTS
  ExactlyOnce
  UnreadableHoldsBack
PROPERTIES
  CursorSpec
  EveryItemStored
