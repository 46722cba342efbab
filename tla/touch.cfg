SPECIFICATION Spec
CONSTANTS
  phone = phone
  tablet = tablet
  mouse = mouse
  pen = pen
  p1 = p1
  p2 = p2
  None = None
  Udids = {phone, tablet}
  Pointers = {mouse, pen}
  Players = {p1, p2}
SYMMETRY Symmetry
INVARIANTS HeldFingersAreOwned OwnedFingersAreHeld
CONSTRAINTS FewStray FewGestures
