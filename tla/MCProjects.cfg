SPECIFICATION Spec
CONSTANTS
  Path = {"m", "a", "w", "aw", "x", "c", "y"}
  NoPath = "-"
  Name = {"given", "kit"}
  NoName = "-"
  Real <- MCReal
  Under <- MCUnder
  Linked <- MCLinked
  SameName <- MCSameName
  Kit <- MCKit
  GitDir = {"m", "c"}
  Session = {"s"}
  Hook = {h1, h2}
  User = {u}
  Cwd = {"a", "x", "c"}
  Given = {"given"}
  Opted <- MCOpted
  Legacy <- MCLegacy
  Removable = {"c"}
  Markable = {"m"}
  MaxId = 4
  MaxStarted = 3
SYMMETRY HookSymmetry
CHECK_DEADLOCK FALSE
INVARIANTS
  IndInv
  FiledAtHome
  FoldIsFinal
  FoldKeepsKnown
PROPERTIES
  NoUnseenTwin
  DisabledIsOff
