---------------------------- MODULE MCAccounts ----------------------------
(* Accounts on small sets, for TLC. *)
EXTENDS AccountsInvariant, TLC

Symmetry == Permutations(User) \cup Permutations(Token) \cup Permutations(Task)
              \cup Permutations(Password)
=============================================================================
