SPECIFICATION FairSpec
CONSTANTS
  llbuf_num = 1
  MaxBufs = 7
INVARIANTS NoDanglingNode OneOwner NullOnlyUnowned
PROPERTIES ExitEndsFft ImplementsFifo
CHECK_DEADLOCK FALSE
