SPECIFICATION Spec
CONSTANTS
  Limit = 4
  Caps = {0, 2}
  Timed = {TRUE, FALSE}
  IPs = {x}
  MaxTicks = 4
INVARIANTS SequenceUnique RowCoversIssued CapRespected InventoryCovers
CHECK_DEADLOCK FALSE
