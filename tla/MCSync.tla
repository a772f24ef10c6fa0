------------------------------- MODULE MCSync -------------------------------
(* Small instances of CollectionSync: every card is of one note.             *)
EXTENDS CollectionSync, TLC

CONSTANTS a, b, n, k, d, p, q

MCNoteOf == [x \in Cards |-> n]

Symmetry == Permutations({a, b}) \union Permutations({p, q})
=============================================================================
