SPECIFICATION FairSpec
CONSTANTS
  Producers = {p1, p2, p3}
  Capacity = 2
  MaxValues = 2
PROPERTIES ImplementsQueue RejectedOnlyWhenFull EverythingTaken
CHECK_DEADLOCK FALSE
