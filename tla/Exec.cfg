SPECIFICATION Spec
CONSTANTS
  Bits = 8
  MaxInsns = 160
  MaxTemps = 120
  LoopCap = 3
  NoReg = 99
  GuestRegs = {0, 1, 2, 3, 12, 13, 14, 16, 17, 18, 19, 20, 21, 30, 31, 32, 33, 34, 35}
  TargetPc <- MCPc
  TargetLoad <- MCLoad
  TargetStore <- MCStore
  TargetHelper <- MCHelper
  TargetZero <- MCZero
  TargetFlags <- MCFlags
  CanLower <- MCCanLower
  Map <- MCMap
  PmpCount = 1
  TlbSize = 1
  DtlbSize = 1
  MisalignedOk = TRUE
  BlockSize = 8
  HpmLimit = 2
  Sources = {1, 2}
  Sp = 2
  PpcTlbSize = 2
  PpcMinPage = 8
  PpcTsizeMax = 5
  PpcWindows = 1
  PpcJitPage = 8
  PpcMap <- MCMap
  PpcCores = {0}
  PpcForever = 255
  PpcSources = {0, 1}
  PpcSoftware = 1
  PpcLifo = 1
  PpcPriMax = 1
  PpcStmIrq0 = 1
  PpcSwtIrq0 = 1
  PpcChannels = {0}
  PpcSwtToMin = 1
  PpcSwtToReset = 2
  PpcGprs = 4
  PpcLine = 8
  PpcMaxBlock = 4
  PpcHeadroom = 30
  ArmMap <- ArmGuestMap
  ArmStack <- ArmGuestStack
  ArmVector <- ArmGuestVector
  ArmIrqs = {16}
  ArmSRegs = 2
  ArmRegions = 2
  ArmMinSz = 1
  ArmSubSz = 5
  ArmPage = 8
  ArmPages = 4
  ArmMaxBlock = 5
  ArmHeadroom = 40
  G4Entries = 2
  G4Mpids = 2
  G4Map <- G4GuestMap
  G4VecUnit = 1
  G4SpidList = {0, 1}
  G4BankRegs <- G4Banked
  G4MaxBlock = 5
  Guests <- MCGuests
  Executed <- MCStep
  Translation <- MCTranslation
  Trapped <- MCTrapped
  LengthOf <- MCLength
  Entered <- MCEntered
  Leaves <- MCLeft
  Unprivileged <- MCUser
  Protected <- MCKept
  Handlers <- MCHandlers
  Faulted <- MCRefused
  Opened <- MCOpened
  Returned <- MCReturned
  Visible <- MCVisible
INVARIANTS TranslationAgrees Confined Restartable
