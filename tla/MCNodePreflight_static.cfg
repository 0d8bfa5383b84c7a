SPECIFICATION PreflightSpec
CONSTANTS
  d = d
  s = s
  w1 = w1
  w2 = w2
  Pods = {d, s, w1, w2}
  Kind <- KindOf
PROPERTY StaticPodsAllowed
