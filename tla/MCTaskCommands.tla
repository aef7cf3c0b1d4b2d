---------------------------- MODULE MCTaskCommands ----------------------------
EXTENDS TaskCommands, TLC

(* One key comes with either body, the other with one.                     *)
MCBodies == {<<"k1", "d1">>, <<"k1", "d2">>, <<"k2", "d1">>}

Symmetry == Permutations(Clients) \cup Permutations(Decisions)
=============================================================================
