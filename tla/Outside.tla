------------------------------ MODULE Outside ------------------------------
(***************************************************************************)
(* What the backend gets from outside, by its two ways: books from the     *)
(* catalogues, and the documents they lead to.  The two share no state, so *)
(* one moves while the other is as at the start.                           *)
(***************************************************************************)
EXTENDS Catalogs, ReadingContent

outsideVars == <<catalogVars, contentVars>>

Init == CatalogInit /\ ContentInit

Next ==
    \/ get = NoPage /\ CatalogNext /\ UNCHANGED contentVars
    \/ CatalogInit /\ ContentNext /\ UNCHANGED catalogVars

Spec == Init /\ [][Next]_outsideVars /\ CatalogFairness /\ ContentFairness
=============================================================================
