---------------------------- MODULE MCFavorites ----------------------------
(* Favorites on small sets, for TLC. *)
EXTENDS FavoritesInvariant, TLC

Symmetry == Permutations(User) \cup Permutations(Book) \cup Permutations(Task)
=============================================================================
