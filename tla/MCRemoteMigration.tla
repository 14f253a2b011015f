-------------------------- MODULE MCRemoteMigration --------------------------
EXTENDS RemoteMigration, TLC

\* Two sessions; the two rows of the first are equal in every column.
MCSessionOf == [a |-> "s", b |-> "s", c |-> "t"]
MCContent == [a |-> "A", b |-> "A", c |-> "C"]

\* A new installation, a registered user, and one who has logged in.
MCStarted ==
  {[uuid |-> 0, auth |-> FALSE, configured |-> FALSE, pointer |-> "local"],
   [uuid |-> 1, auth |-> FALSE, configured |-> TRUE, pointer |-> "local"],
   [uuid |-> 1, auth |-> TRUE, configured |-> TRUE, pointer |-> "local"]}

Symmetry == Permutations(User)
=============================================================================
