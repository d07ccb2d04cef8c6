--------------------------- MODULE MCContributors ---------------------------
(* Model checking of Contributors: the children share the contributors as    *)
(* evenly as can be, all PETs are in one process.                            *)
EXTENDS Contributors

MCChildOf == [k \in Contribs |-> (k % NChildren) + 1]
MCOneProcess == [k \in PETs |-> "local"]
=============================================================================
