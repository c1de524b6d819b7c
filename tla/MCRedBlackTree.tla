--------------------------- MODULE MCRedBlackTree ---------------------------
(* A small instance of RedBlackTree. *)
EXTENDS RedBlackTree

\* A pair and a triple of equal keys.
MCKey == <<1, 2, 2, 3, 4, 5, 5, 5, 6>>

=============================================================================
