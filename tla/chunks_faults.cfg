SPECIFICATION FairSpec
CONSTANTS
  Worker = {w1,w2}
  Chunks = 3
  Attempts = 2
  Faults <- AllFaults
INVARIANTS MarkedIsWritten OneWorkerPerChunk QuietSuccessIsComplete
PROPERTIES OnlyAbandonedHangs
