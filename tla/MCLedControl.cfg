SPECIFICATION FairSpec
CONSTANTS
  ctl = ctl
  other = other
  NUM_LEDS = 4
  Users = {ctl, other}
  Ctl = ctl
  Patterns <- HalfInvalid
  Contested = {2}
INVARIANTS IInv 
PROPERTIES OrphansFromFailedLoad LeakIsForever OnePressOneStep PressNoticed
