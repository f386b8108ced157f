----------------------------- MODULE MCAccounts -----------------------------
(* Small instances of Accounts for TLC. *)
EXTENDS Accounts, TLC

\* Requests, tokens, and the accounts and passwords the seed does not name, are
\* interchangeable.
Symmetry == Permutations(Requests) \union Permutations(Tokens)
            \union Permutations(Users \ {SeedUser})
            \union Permutations(Passwords \ {SeedPassword})
=============================================================================
