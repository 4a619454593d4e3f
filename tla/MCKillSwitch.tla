---------------------------- MODULE MCKillSwitch ----------------------------
(* Instances of KillSwitch for TLC.                                        *)
EXTENDS KillSwitch, TLC

CONSTANTS api1, postmarket, stoploss, i1, i2, i3

Says(l, p, u) == [losing |-> l, prices |-> p, up |-> u]

\* One of each: losses, old prices, no prices, no database.
EachTrouble == {Says(TRUE, "fresh", TRUE), Says(FALSE, "stale", TRUE),
                Says(FALSE, "none", TRUE), Says(FALSE, "fresh", FALSE)}

Sym == Permutations(Inodes)
=============================================================================
