INIT MCInit
NEXT MCNext
CONSTANTS
  BlockPcs <- LoopPcs
  StaticExits <- LoopTarget
  CodeBytes <- LoopSize
  MaxBlocks = 4
  CodeSize = 24
  BlockReserve = 4
  CodeAlign = 2
  HitBins = 4
  HitMax = 4
  MaxPasses = 2
  Bits = 4
  MaxInsns = 7
  MaxTemps = 6
  LoopCap = 3
  TargetPc <- MCPc
  NoReg = 99
  GuestRegs = {0, 1, 2, 3}
  MaxLen = 7
  Reach = 2
  HostRegs = {1, 2}
  TargetLoad <- MCLoad
  TargetStore <- MCStore
  TargetHelper <- MCHelper
  TargetZero <- MCZero
  TargetFlags <- MCFlags
  CanLower <- MCCanLower
  Vocabularies <- MCVocabularies
  Prelude <- MCPrelude
  Cpus <- MCCpus
INVARIANTS OptimiserSound RegistersNotShared LoopBodyKept
