\* Three workers that may hold one job together, crashes and time at any step.
SPECIFICATION FairSpec
CONSTANTS
  w1 = w1
  w2 = w2
  w3 = w3
  j1 = j1
  j2 = j2
  Workers = {w1, w2, w3}
  Jobs = {j1}
  MaxAttempts = 3
INVARIANTS TypeOK AttemptsBounded FiledOnce RunnableHasFiles DoneIsFiled
PROPERTIES Settles StagingReclaimed
