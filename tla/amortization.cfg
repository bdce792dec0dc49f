SPECIFICATION Spec
CONSTANTS
  Scale = 1000
  Minor = 10
  Application <- MCSmall
  Accuracy = 40
CHECK_DEADLOCK FALSE
INVARIANTS
  PrincipalRepaidOnce
  InstalmentsAddUp
  LastLikeTheOthers
  StoredAddsUp
