SPECIFICATION Spec
CONSTANTS c1 = c1
          c2 = c2
          Clients <- TwoClients
          NoClient = NoClient
          MaxLines <- Lines
INVARIANTS IInv OwnConnectionOnly ZombiesAnnounced
PROPERTIES EveryChildReaped AwaitAnswered QueueServed
CHECK_DEADLOCK FALSE
