SPECIFICATION Spec
CONSTANTS LOOPS = 4
          MaxCounter = 7
INVARIANTS IInv ResultRight NoCircularWait NeverOversold
PROPERTIES GoodsConsumed
