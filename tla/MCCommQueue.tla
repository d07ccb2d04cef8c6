---------------------------- MODULE MCCommQueue ----------------------------
(* CommQueue for TLC: new takes one address of those that are free. *)
EXTENDS CommQueue

OneOf(free) == IF free = {} THEN {} ELSE {CHOOSE h \in free : TRUE}
=============================================================================
