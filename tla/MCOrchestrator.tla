--------------------------- MODULE MCOrchestrator ---------------------------
(* Small instances of Orchestrator for TLC. *)
EXTENDS Orchestrator, TLC

\* Clients with the same rights, runners and job ids are interchangeable.
Symmetry == Permutations(Admins) \union Permutations(Clients \ Admins)
            \union Permutations(Runners) \union Permutations(Jobs)
=============================================================================
