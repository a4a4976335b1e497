SPECIFICATION Spec
CONSTANTS
  Clients <- MCTwo
  Text <- MCLine
  MayDie = {}
  Kinds = {"poll"}
  OneAtATime = TRUE
  MaxTyped = 0
  FDSSIZE = 5
  EVENTSIZE = 5
INVARIANT
  OnlyOpenPolled
