\* The barrier clock: safety, termination and refinement of TtiLockstep.
CONSTANTS
  ue1 = ue1
  ue2 = ue2
  enb = enb
  clock = clock
  Workers <- MCWorkers
  Clock <- clock
  MaxTti = 2
SPECIFICATION FairSpec
INVARIANTS
  TypeOK
  Lockstep
  NoTtiLost
  CountIsMarked
PROPERTIES
  Termination
  ImplementsLockstep
