SPECIFICATION FairSpec
CONSTANTS
  h1 = h1  h2 = h2  w1 = w1  w2 = w2
  Handles = {h1, h2}
  Boot <- MCBoot
  Workers = {w1, w2}
  Pollers = {timer}
  Weight <- MCWeight
  MaxSends = 2
  System = System
  None = None
INVARIANTS OwnedOnce AliveWhileUsed
PROPERTIES ActorSpec Handled Reclaimed
