CONSTANTS
    Own = {0}
    Shared = {32}
    Eip <- MCEip
    TptmChan = 0
    Eitb = {32}
    Banked = {0}
    BankOpen = {0}
    Ulnr = 0
    Configs <- MCConfigs
    Plms = {1, 16}
    MaxDepth = 2
SPECIFICATION Spec
INVARIANTS
    PendExact
    NothingMissed
    HandlersNest
PROPERTY RequestKept
