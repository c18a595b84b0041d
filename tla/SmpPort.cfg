SPECIFICATION FairSpec
CONSTANTS
  Cores = {c0, c1}
  Idles = {i0, i1}
  Workers = {w0, w1}
  Core0 = c0
  Nobody = Nobody
  Nowhere = Nowhere
INVARIANT WhoRuns
PROPERTY ReadyRuns
