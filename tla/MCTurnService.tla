---------------------------- MODULE MCTurnService ----------------------------
(* Small instances of TurnService for TLC. *)
EXTENDS TurnService, TLC

CONSTANTS c1, c2, c3, p1, p2, s1, s2, r1, r2, b1, b2

Calls2 == {c1, c2}
Calls3 == {c1, c2, c3}
NoFaults == {}
Crashes == {"crash"}
FailedTurns == {"process"}
AllFaults == {"cache", "reserve", "insert", "load", "process", "commit", "persist",
              "complete", "save", "release", "delete", "purge", "replay", "crash"}
Symmetry == Permutations(Call) \cup Permutations(Process) \cup Permutations(Request)
=============================================================================
