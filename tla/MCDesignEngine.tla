-------------------------- MODULE MCDesignEngine ---------------------------
(* Small instances of DesignEngine for TLC. *)
EXTENDS DesignEngine, TLC

CONSTANTS a, b, x, y

\* b refers to a: one task rewrites what the other builds on.
MCPatches ==
    {[writes |-> (a :> y), addresses |-> {a}, refs |-> {}],
     [writes |-> (b :> x), addresses |-> {b}, refs |-> {a}]}

\* Restates a as it was created: laid over Initial, it changes nothing.
MCRestating ==
    {[writes |-> (a :> x), addresses |-> {a}, refs |-> {}]}

\* A patch that refers to nothing applies wherever its session stands.
MCFreePatches ==
    {[writes |-> (b :> x), addresses |-> {b}, refs |-> {}]}

MCInitial == (a :> x) @@ (b :> Absent)
NoEdits == {}
MCEdits == {(a :> y) @@ (b :> Absent)}
MCScopes == {Symbols}

Symmetry == Permutations(Tasks) \cup Permutations(Tokens) \cup Permutations(Nonces)
=============================================================================
