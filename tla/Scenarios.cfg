CONSTANTS
  MaxUsers = 4
  MaxLines = 8
  MaxIdx = 1
  MaxWifi = 4
  Networks = 3
SPECIFICATION Spec
INVARIANTS
  TypeOK
  SufficientIsExact
  UserGetsOwn
CHECK_DEADLOCK FALSE
