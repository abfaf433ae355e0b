--------------------------- MODULE MCProjectStore ----------------------------
(* Small instances of ProjectStore for TLC. *)
EXTENDS ProjectStore, TLC

CONSTANTS p, q, x, y

MCInitial == (p :> x) @@ (q :> Missing)

\* One commit rewrites a file and creates another, one deletes, one changes nothing.
MCPatches == {(p :> y) @@ (q :> y), (p :> x) @@ (q :> Missing)}

MCEdits == {<<p, y>>, <<q, x>>, <<q, Broken>>}
=============================================================================
