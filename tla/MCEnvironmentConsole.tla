------------------------ MODULE MCEnvironmentConsole ------------------------
(* Small instances of EnvironmentConsole for TLC. *)
EXTENDS EnvironmentConsole, TLC

\* Environments and clicks are interchangeable.
Symmetry == Permutations(Envs) \union Permutations(Clicks)
=============================================================================
