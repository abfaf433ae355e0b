----------------------------- MODULE MCScheduler -----------------------------
(* Small instances of Scheduler for TLC. *)
EXTENDS Scheduler, TLC

CONSTANTS a, b, c, x

Grant(kind, o) == [kind |-> kind, target |-> o]

Task(o, grants, chains) ==
    [operation |-> o, peers |-> {}, include |-> {}, grants |-> grants, chains |-> chains]

Synthesis(o) == Task(o, {Grant("OperationProgram", o)}, TRUE)
Repair(o) == Task(o, {Grant("OperationProgram", o)}, FALSE)
Topology == [Task(None, {[kind |-> "RuntimeTopology"]}, FALSE) EXCEPT !.include = {x}]

\* An operation synthesized beside the repair of another, a repair beside a
\* discovery of its operation, one beside the topology author, who runs alone,
\* and the repairs of two operations.
MCBatches ==
    {<<Synthesis(a), Repair(b)>>, <<Repair(a), Discovery(a)>>, <<Repair(a), Topology>>,
     <<Repair(b), Repair(c)>>}

\* Calls: none, or a calls b, and b and c call each other.
MCCallGraphs ==
    {[o \in Operations |-> {}],
     [o \in Operations |-> CASE o = a -> {b} [] o = b -> {c} [] o = c -> {b}]}

MCShared == {x}

MCVoluntary == {Program(b)}

Symmetry == Permutations(Slots)

=============================================================================
