---------------------------- MODULE MCJobLifecycle ----------------------------
(* Instances of JobLifecycle for TLC.                                      *)
EXTENDS JobLifecycleImplements, TLC

\* Runner objects are interchangeable, and so are requests.
Symmetry == Permutations(RunnerIds) \cup Permutations(Clients)
===============================================================================
