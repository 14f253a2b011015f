SPECIFICATION Spec
CONSTANTS
  Event = {"a", "b", "c"}
  Session = {"s", "t"}
  SessionOf <- MCSessionOf
  Content <- MCContent
  Foreign = {"F"}
  Hook = {h1}
  User = {u1, u2}
  Started <- MCStarted
  MaxUuid = 2
  MaxCommands = 2
  MaxFaults = 1
SYMMETRY Symmetry
CHECK_DEADLOCK FALSE
INVARIANTS
  Accounted
  VerifiedIsWhole
  UndisturbedMatches
  SettingsHold
