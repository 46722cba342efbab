SPECIFICATION Spec
CONSTANTS
  phone = phone
  shift = shift
  a = a
  b = b
  Udids = {phone}
  Usages = {shift, a, b}
  Modifiers = {shift}
  MaxKeys = 1
  MaxPending = 3
INVARIANTS KeysAgree CreationLosesNoKey ContactFollows
