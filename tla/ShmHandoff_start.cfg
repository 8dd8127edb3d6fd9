SPECIFICATION Spec
CONSTANTS MAX_SIZE = 2
          MaxStarts = 1
          Garbled = Garbled
INVARIANTS ProducerFirst
