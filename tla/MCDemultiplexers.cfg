SPECIFICATION FairSpec
CONSTANTS
  Clients <- MCThree
  Text <- MCText
  MayDie = {"mortal"}
  Kinds = {"poll", "select", "epoll"}
  OneAtATime = FALSE
  MaxTyped = 1
  FDSSIZE = 4
  EVENTSIZE = 5
INVARIANTS
  NothingForgotten
  ReadBeforeClosed
  SlotsKept
  SpinsOnlyOnKeyboard
PROPERTIES
  EveryClientServed
  QuitEnds
