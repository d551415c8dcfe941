---------------------------- MODULE MCKillConverge ----------------------------
(* KillConverge for TLC: both backends, with tools that work or may fail. *)
EXTENDS KillConverge, TLC

Tools(backend, mayFail) == [backend |-> backend, mayFail |-> mayFail]

\* The backend that misses half-open sockets where everything may fail, the other
\* where the sweep has to converge.
BothTools == {Tools("ss", TRUE), Tools("netlink", FALSE)}

WorkingSs == {Tools("ss", FALSE)}

\* The tuples are interchangeable (not where liveness is checked).
Symmetry == Permutations(Tuples)
=============================================================================
