CONSTANTS
  m1 = m1
  m2 = m2
  m3 = m3
  Item = {m1, m2, m3}
  MaxEgressQueueSize = 3
  Nil = Nil
  Blank = Blank
SPECIFICATION Spec
INVARIANT RingInv
PROPERTY ImplementsFIFO
