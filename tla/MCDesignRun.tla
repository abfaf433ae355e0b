------------------------------ MODULE MCDesignRun ------------------------------
(* Instances of the design run: a proof about `a` names `b`. *)
EXTENDS DesignRun, TLC

CONSTANTS a, b

MCOps == {a, b}
MCNames == (a :> {b}) @@ (b :> {})

Empty ==
    [program |-> [o \in MCOps |-> "absent"], declared |-> {}, asked |-> "none",
     runtime |-> "empty", shared |-> "sound"]

\* An empty project; one a session designed down to the runtime without
\* declaring a requirement; two it left half done; and one with
\* requirements and an obligation it never mapped.
MCAdopted ==
    {Empty,
     [Empty EXCEPT !.program = (a :> "strong") @@ (b :> "weak"), !.runtime = "authored"],
     [Empty EXCEPT !.program = (a :> "invalid") @@ (b :> "missing"), !.shared = "faulty"],
     [Empty EXCEPT !.program = (a :> "strong") @@ (b :> "invalid")],
     [Empty EXCEPT !.program = [o \in MCOps |-> "weak"], !.declared = MCOps,
                   !.asked = "unmapped", !.runtime = "invalid"]}
================================================================================
