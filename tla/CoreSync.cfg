SPECIFICATION SyncSpec
CONSTANTS
  Signallers = {s0, s1, s2}
  Owner = Owner
  Nobody = Nobody
  ResvCores = {p0, p1}
  FirstCore = p0
  ResvWords = {0, 4}
  SwapWords = {0}
  ResvValues = {0, 1}
  ResvDrift = 1
INVARIANTS NoWakeupLost HintNotBelow
PROPERTIES OneShot StwcxAtomic
