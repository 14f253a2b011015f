----------------------------- MODULE MCProjects -----------------------------
EXTENDS Projects, TLC

\* A repository m with an alias a, a worktree w below .claude/worktrees (also
\* spelled through the alias, aw), one elsewhere (x), and a clone c of its own
\* below .claude/worktrees, which has a worktree (y) itself.
MCReal == [m |-> "m", a |-> "m", w |-> "w", aw |-> "w", x |-> "x", c |-> "c", y |-> "y"]
MCUnder == [m |-> "-", a |-> "-", w |-> "m", aw |-> "a", x |-> "-", c |-> "m", y |-> "-"]
MCLinked == [m |-> "-", w |-> "m", x |-> "m", c |-> "-", y |-> "c"]
MCSameName == {<<p, p>> : p \in Path} \cup {<<"m", "a">>, <<"a", "m">>, <<"w", "aw">>, <<"aw", "w">>}
MCKit == [p \in Path |-> IF p = "c" THEN "kit" ELSE "-"]

LegacyRow(i, p, n, mir) == [id |-> i, path |-> p, name |-> n, mirror |-> mir]
Left(rows, home, dirs) == [tables |-> [rows |-> rows, home |-> [s |-> home]], present |-> dirs]
MCLegacy ==
  {Left({LegacyRow(1, "w", "given", "-"), LegacyRow(2, "m", "-", "-")}, 1, {"m", "x", "c"}),
   Left({LegacyRow(1, "c", "-", "-"), LegacyRow(2, "aw", "-", "w")}, 1, Dir),
   Left({LegacyRow(1, "y", "given", "-"), LegacyRow(2, "c", "-", "-"), LegacyRow(3, "m", "-", "-")}, 1, Dir),
   Left({LegacyRow(1, "a", "kit", "a"), LegacyRow(2, "x", "given", "x")}, 0, Dir)}

MCOpted == {[m |-> "central", w |-> "project", x |-> "none", c |-> "central", y |-> "none"]}

\* The layout and the user that the theorems are about.
ASSUME MCLayoutAssumption == WorktreesBelong /\ OneUser

HookSymmetry == Permutations(Hook)
=============================================================================
