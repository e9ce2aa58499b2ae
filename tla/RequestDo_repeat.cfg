SPECIFICATION Spec
CONSTANTS
    Parts = {"upload"}
    Configs <- MCConfigs  MaxAttempts <- MCMaxAttempts
    DumpPlans <- DumpCalls  MaxTries = 3
    DumpProducers = {"p1", "p2"}  Kinds <- DumpKinds  DumpSetups <- Reconfigurations
    QueueCap = 1  MaxPieces = 2
    DigestReqs = {"r1", "r2", "r3"}  DigestModes <- DigestCases  MaxNonces = 4
    Concurrency = 2  SegmentSize = 2  ContentLengths <- MCContentLengths
    Failures = {"head", "open", "get", "output", "copy", "cleanup"}
    WriteRequests <- MCWriteRequests  MaxWrite = 3
    ReadResponses <- MCReadResponses  ReadSizes = {1, 4}  TrailerRoom = 6
    HeaderInputs <- MCHeaderInputs  Dumping <- MCDumping  BufSize = 3
    Getters = {"g1", "g2", "g3"}  Adders = {"a1", "a2"}  Plans <- PoolPlans  CtxOf <- MCCtxOf
    StreamLimit = 1  MaxDials = 2
    Scripts <- MCScripts  MaxReadSize = 12
    Streams = {"s1", "s2"}  ConnWindow = 4  StreamWindow = 3  MinRefresh = 2  MaxWindow = 7
    MaxFrameSize = 2  MaxInFlight = 2  Situations <- MCSituations
    Classes = {1, 2, 4}  MaxBytes = 9  Writes = {1, 3, 5}  Reads = {1, 2, 6}
    Expected = {0, 3}
    H3Reqs = {"r1", "r2"}  H3Scenarios <- H3Situations  MaxClients = 3
    H3Calls = {"r1", "r2"}  StreamScenarios <- StreamSituations  Max1xx = 1
    DatagramQueueLen = 1
    AltReqs <- MCAltReqs  AltModes <- Modes  MaxPas = 2
    Dialers <- MCDialers
INVARIANT SameRequest
CHECK_DEADLOCK FALSE
