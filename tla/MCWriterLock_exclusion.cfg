CONSTANTS
  p1 = p1
  p2 = p2
  p3 = p3
  Proc = {p1, p2, p3}
  Recoverers = {p1, p2, p3}
  HostOf <- OneHost
  Lock = {l1, l2, l3}
  NoLock = NoLock
  NoProc = NoProc
SYMMETRY Alike
SPECIFICATION NotedSpec
INVARIANT MutualExclusion
