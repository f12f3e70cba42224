SPECIFICATION DevicesSpec
CONSTANTS
  n_threads = 3
  chunk_size = 2
  Cases <- MCCases
  Setups <- MCSetups
  Batches = 4
  Clients = {p, q}
  Nobody = nobody
  MaxCalls = 3
  Addrs = {1, 2}
  Values = {"v", "w"}
  max_inputs = 2
  Buffers = {0, 1, 2, 3}
  alignment = 2
  MaxSize = 40
INVARIANTS WrittenOnce ReadsReady ComputesOwnInputs ReadsItsWrites NothingLeaks
    RunsWhereItCan MemoryTiled ReadsItsSources
PROPERTIES IsBarrier Returns AllComputed AllServed IsDynAlloc
