CONSTANTS
  Message = {m1, m2}
  Limit = 1
  MaxMessages = 10
  Initial = 6
  Longest = 8
  Buffer = 5
  MaxFaults = 1
  Group = {g1, g2}
  Service = {s1}
  MaxFailures = 1
  MaxMeddling = 1
SPECIFICATION LoopsSpec
INVARIANTS LoopsTypeOK EnablersAreFaithful GroupsFollowVerdict WithinLimit OneHandler
PROPERTIES ResumeJustified SuspendsWhenBad ResumesWhenGood EveryMessageDone EndsOnError
