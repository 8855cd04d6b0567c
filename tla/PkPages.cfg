SPECIFICATION Spec
CONSTANTS
  PGSIZE = 2
  VaPages = 30
  TableSpan = 4
  DRAM_BASE = 16
  KernelPages = 1
  FreePages = 13
  MemPages = 30
  StackPages = 1
  VmrPages = 2
  MAX_VMR = 4
  MAX_FILES = 6
  MAX_FDS = 5
  FileSize <- MCFileSize
  Elfs <- MCElfs
  Options <- MCOptions
  Maps <- MCMaps
  Areas <- MCAreas
  Prots <- MCProts
  Breaks <- MCBreaks
  Bufs <- MCBufs
  Touched = {1, 5}
  Offsets = {1}
  MaxCalls = 1
INVARIANT PageOwnedOnce
