SPECIFICATION DataSpec
CONSTANTS
  Subjects = {"commands", "samples", "capture", "filters", "memory", "addresses", "store"}
  NUM_SAMPLES_IN_WAVE_BLOCK = 8
  MAX_CAPTURE_SIZE = 320
  CAPTURE_RAM_WORD_SIZE = 32
  CAPTURE_DATA_ALIGNMENT_SIZE = 64
  \* commands
  Candidates <- MCCandidates
  Reports <- MCReports
  MAX_CMD_NO = 65535
  MaxEntries = 512
  \* samples
  ChunkArgs <- MCChunkArgs
  WaitLens <- MCWaitLens
  Repeats = {0, 1, 2}
  Indexes <- MCIndexes
  MAX_CHUNKS = 3
  NUM_SAMPLES_IN_AWG_WORD = 4
  \* capture parameters
  Sections <- MCSections
  IntegCounts = {0, 1, 2}
  UnitSets <- MCUnitSets
  SumStarts = {0, 1}
  SumCounts = {1, 9}
  Delays = {0, 3}
  OldSections <- MCOldSections
  WaveLen = 60
  MAX_SUM_SECTIONS = 2
  MAX_INTEG_SECTIONS = 2
  MAX_SUM_SECTION_LEN = 9
  MAX_INTEG_VEC_ELEMS = 9
  CAPTURE_START_DELAY = 2
  \* filters
  CoefLists <- MCCoefLists
  NumCoefs <- MCNumCoefs
  Inputs <- MCInputs
  FilterUnits <- MCFilterUnits
  FilterSections <- MCFilterSections
  IntegSections = {1, 2}
  FIR_LIMIT = 32
  REG_LIMIT = 512
  \* memory
  c1 = c1
  c2 = c2
  v1 = v1
  RamClients = {c1, c2}
  RamWorkers = {v1}
  RamRequests <- MCRamRequests
  WorkerWrites <- MCWorkerWrites
  MAX_RAM_CALLS = 3
  MIN_RW_SIZE = 4
  MAX_RW_SIZE = 8
  PAGE_SIZE = 8
  MEM_SIZE = 24
  \* addresses
  MapUnits = {0, 1, 2, 3, 4, 5, 6, 7, 8, 9, 10, 11, 12, 13, 14, 15}
  MapKeys = {0, 63, 64, 511}
  \* wave store
  w1 = w1
  w2 = w2
  k1 = k1
  k2 = k2
  Callers = {c1, c2}
  Direct = Direct
  Nothing = Nothing
  Waves <- MCWaves
  Chunks <- MCChunks
  Keys <- MCKeys
  AreaSize = 4
  ArgumentSets <- MCArgumentSets
  Maps <- MCMaps
INVARIANTS
  CommandReadBack
  ReportTellsTheError
  LazyListIsTheList
  BytesAreTheSamples
  DataIsTheCapture
  AcceptedFits
  FiltersAreConvolutions
  MemoryIsTheWrites
  AddressesApart
  AsRegistered
  StaysInArea
CHECK_DEADLOCK FALSE
