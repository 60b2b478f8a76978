SPECIFICATION Spec
CONSTANTS
  a = a
  p = p
  Keys = {a, p}
  Events <- MCEvents
  BytesOf <- MCBytesOf
  FifoCap = 1
  CodeOf <- MCCodeOf
  NoCode = 0
  KEYBOARD_QUEUE_LEN = 2
  QueueCap = 2
  TIMER_HZ = 2
  VGA_HZ = 1
  JiffySpace = 2
  SCR_W = 2
  SCR_H = 1
  Colors = {0, 4095}
INVARIANTS
  IInv
PROPERTIES
  ImplementsPipe
  QuitEnds
  FramesGoOn
CHECK_DEADLOCK FALSE
