SPECIFICATION Spec
CONSTANTS RECV_SIZE = 2
          MaxUnits = 3
          MaxStarts = 2
INVARIANTS IInv ShownInOrder
PROPERTIES SenderReleased ReaderReleased
