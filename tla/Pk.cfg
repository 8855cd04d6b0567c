SPECIFICATION Spec
CONSTANTS
  PGSIZE = 2
  VaPages = 31
  TableSpan = 6
  DRAM_BASE = 10
  KernelPages = 1
  FreePages = 8
  MemPages = 19
  StackPages = 1
  VmrPages = 1
  MAX_VMR = 4
  MAX_FILES = 6
  MAX_FDS = 5
  FileSize <- MCFileSize
  Elfs <- MCElfs
  Options <- MCOptions
  Maps <- MCMaps
  Areas <- MCAreas
  Prots <- MCProts
  Breaks <- MCBreaks
  Bufs <- MCBufs
  Touched = {1, 5}
  Offsets = {1}
  MaxCalls = 3
INVARIANTS RefcntExact FilesOpen KernelIntact ContentRight TlbFresh HostSeesUser
