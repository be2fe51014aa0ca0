SPECIFICATION FairSpec
CONSTANTS
  Players = {p1, p2, ai}
  AIs = {ai}
  Slots = {s1}
  Heroes <- MCHeroes
  Roles <- MCRoles
  PickTime = 0
  MaxExits = 1
INVARIANTS TypeOK PickedDistinct EarlyEnd RoomComplete
PROPERTY Ends
