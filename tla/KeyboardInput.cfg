CONSTANTS
  KB_BUFFER_SIZE = 4
  Scancodes = {1, 2, 3, 4, 5}
  MaxKeys = 5
SPECIFICATION InputSpec
INVARIANT TypeOK
INVARIANT CopyStaysCurrent
INVARIANT NoRepeats
INVARIANT NoByteVanishes
PROPERTY ImplementsQueue
PROPERTY ReaderNotStuck
