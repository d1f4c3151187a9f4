SPECIFICATION FairSpec
CONSTANTS
  Calls = {c1, c2, c3, c4}
  NoCall = none
  MaxPending = 2
INVARIANTS TypeOK NoSlotLeak
PROPERTIES ImplementsOfficeCalls EveryCallAnswered
