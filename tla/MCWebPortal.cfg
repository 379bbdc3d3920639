SPECIFICATION MCSpec
CONSTANTS
  People = {p1, s1}  Public = {p1}  NoOne = NoOne  Nothing = Nothing  Idle = Idle
  Handlers = {h1, h2}  Files = {f1, f2}  Hires = {c1}
INVARIANTS SessionIsUsers InputIsKept
PROPERTIES BusyEnds
