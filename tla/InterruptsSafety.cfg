SPECIFICATION FairSpec
CONSTANTS
  Rates = {2, 512, 100}
  Readers = {1, 2}
  Depth = 2
  Exposed = {}
INVARIANTS Acknowledged ResumesWhole
PROPERTIES RtcServed ComesUp
