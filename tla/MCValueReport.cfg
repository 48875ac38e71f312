CONSTANTS
  Reader = {t1, t2}
  Limit = 2
  ReportLimit = 1
  Interval = 1
  Age = 1
  SkipsRepeats = TRUE
  MaxCount = 2
  MaxTime = 3
  NoTime = NoTime
SPECIFICATION FairSpec
INVARIANT RepeatsOnlyBoundary
INVARIANT InOrder
 
PROPERTY EventuallyTaken
