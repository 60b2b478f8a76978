SPECIFICATION Spec
CONSTANTS
  SERIAL_QUEUE_LEN = 4
  SDLKeys <- MCKeys
  Chars <- MCChars
  NUL = "NUL"
  SDLK_to_ascii <- MCAscii
  CtrlValues = {0, 2}
INVARIANT IInv
PROPERTIES
  PolledReadExact
  ImplementsFifo
  StoreIsTheLoop
