CONSTANTS
    BlockSize = 2
    LineMax = 2
    Letters <- OneLetter
    MaxPut = 3
    MaxFed = 6
SPECIFICATION Spec
INVARIANTS LinesExact
PROPERTIES ImplementsByteQueue
