SPECIFICATION Spec
CONSTANTS
  Docs = {d1, u1}
  Uploads = {u1}
  w1 = w1
  s1 = s1
  s2 = s2
  Bodies <- MCBodies
  Original <- Page
  Null = Null
  Broken = Broken
  Gone = Gone
  Runs = {r1, r2}
  Batch = 2
  MaxEdits = 1
  MaxEvents = 1
INVARIANTS TypeOK 
PROPERTIES EveryMemberIsChecked 
CHECK_DEADLOCK FALSE
