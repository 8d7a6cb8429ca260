SPECIFICATION Spec
CONSTANTS
  ann = ann
  bob = bob
  cid = cid
  old = old
  new = new
  union = union
  Person <- MCPerson
  Value = {old, new}
  Label = {old, new}
  Key = {union}
  Start <- MCStart
  Tx = {t1}
  NoPerson = NoPerson
  NoKey = NoKey
  MaxLog = 4
PROPERTY RevertedFieldIsRestored
CHECK_DEADLOCK FALSE
