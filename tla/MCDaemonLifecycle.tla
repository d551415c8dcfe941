-------------------------- MODULE MCDaemonLifecycle --------------------------
(* DaemonLifecycle for TLC: everything but the null values is interchangeable. *)
EXTENDS DaemonLifecycle, TLC

Symmetry == Permutations(Pids) \cup Permutations(Cmds)
                \cup Permutations(Dirs) \cup Permutations(PidFiles)
=============================================================================
