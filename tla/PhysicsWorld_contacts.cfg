SPECIFICATION Spec
CONSTANTS
  b = b
  c = c
  s = s
  t = t
  j = j
  Bodies = {b, c}
  Shapes = {s, t}
  Joints = {j}
  BodyOf <- BodyOfShape
  Ends <- EndsOfJoint
  Pairs <- CanTouch
  Contacts = {1, 2}
  Addresses = {1, 2}
  NoAddress = 0
  NoContact = 0
  NoPair = NoPair
  MaxDeferred = 1
  ListsApart = TRUE
INVARIANT ContactsExist
