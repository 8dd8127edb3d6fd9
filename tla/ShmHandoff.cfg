SPECIFICATION Spec
CONSTANTS MAX_SIZE = 2
          MaxStarts = 2
          Garbled = Garbled
INVARIANTS IInv HandsOver
PROPERTIES TurnComes
