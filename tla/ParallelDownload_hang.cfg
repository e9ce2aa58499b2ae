\* Three segments for two workers, nothing fails.
SPECIFICATION FairSpec
CONSTANTS
  Concurrency = 2
  SegmentSize = 2
  ContentLengths <- ThreeSegments
  Failures <- NoFailures
PROPERTY DoReturns
CHECK_DEADLOCK FALSE
