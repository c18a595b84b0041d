INIT MCInit
NEXT MCNext
CONSTANTS
  Bits = 8
  MaxInsns = 16
  MaxTemps = 16
  LoopCap = 3
  NoReg = 99
  GuestRegs = {0, 1}
  TargetPc <- MachinePc
  TargetLoad <- ArmIrLoad
  TargetStore <- ArmIrStore
  TargetHelper <- MachineHelper
  TargetZero <- MachineZero
  TargetFlags <- MachineFlags
  CanLower <- MachineLowers
  ArmMap <- MachineMap
  ArmStack <- MachineStack
  ArmVector <- MachineVector
  ArmIrqs = {16, 17}
  ArmSRegs = 2
  ArmRegions = 2
  ArmMinSz = 1
  ArmSubSz = 3
  ArmPage = 4
  ArmPages = 4
  ArmMaxBlock = 4
  ArmHeadroom = 8
  ArmKinds <- MCArmKinds
  ArmDepth = 3
  ArmLooking <- MachineLooking
  ArmInterpreting <- MachineInterpreting
  ArmBlockRunning <- MachineBlockRunning
INVARIANTS ArmNotMissed SmcSound
PROPERTY ReturnsWhole
