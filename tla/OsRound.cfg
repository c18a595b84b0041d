SPECIFICATION FairSpec
CONSTANT N = 3
INVARIANTS BarrierHolds OrderKept IdleIsTrue
PROPERTIES NoneLeftOut RoundsEnd
