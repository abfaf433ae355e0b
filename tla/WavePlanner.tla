----------------------------- MODULE WavePlanner -----------------------------
(****************************************************************************)
(* How the scheduler lays a batch of logical tasks out in waves whose       *)
(* members may run at the same time: footprints, the callee-first order,    *)
(* and the greedy assignment (harness/scheduler.rs, footprint to            *)
(* plan_waves). A task is named by its place in the batch; the order and    *)
(* the waves are built one task a step.                                     *)
(****************************************************************************)
EXTENDS Integers, Sequences

CONSTANTS
    Operations,     \* operations of the design
    None,           \* no operation, or no task
    Batches,        \* the batches a run may submit
    CallGraphs      \* the calls its head may hold: callees of each operation

\* A batch is a list of tasks, and what is granted over an operation is granted
\* over one of the design.
ASSUME PlannerConstants ==
    /\ None \notin Operations
    /\ \A b \in Batches : Len(b) \in Nat /\ DOMAIN b = 1 .. Len(b)
    /\ \A b \in Batches : \A i \in DOMAIN b :
          /\ b[i].operation \in Operations \cup {None}
          /\ \A g \in b[i].grants :
                g.kind \in {"Operation", "OperationProgram"} => g.target \in Operations
    /\ CallGraphs \subseteq [Operations -> SUBSET Operations]

VARIABLES
    batch,          \* the tasks submitted, in order
    calls,          \* callees of each operation at the head
    deep,           \* whether the analysis of the head was ready
    ready,          \* tasks with no callee left to wait for
    order,          \* tasks in callee-first order, as far as known
    placed,         \* how many of them have a wave
    wave            \* the wave of each task, 0 for none yet

planVars == <<batch, calls, deep, ready, order, placed, wave>>

-----------------------------------------------------------------------------
(* Footprints *)

Interface(o) == <<"Interface", o>>
Program(o) == <<"Program", o>>
Requirements(o) == <<"Requirements", o>>

Whole(o) == {Interface(o), Program(o), Requirements(o)}

\* WriteGrant: what is granted, and over what. A grant over shared symbols has no target.
GlobalGrants == {"All", "SharedSkeleton", "RuntimeTopology"}
OperationGrants == {"Operation", "OperationProgram", "OperationRequirements", "OperationInterface"}

\* Transaction requirements are adopted onto the program's transactions.
Granted(g) ==
    CASE g.kind = "Operation" -> Whole(g.target)
      [] g.kind = "OperationProgram" -> {Program(g.target)}
      [] g.kind = "OperationRequirements" -> {Requirements(g.target), Program(g.target)}
      [] g.kind = "OperationInterface" -> {Interface(g.target)}
      [] g.kind = "TopLevelSymbol" -> {g.target}
      [] OTHER -> {}

Global(task) == \E g \in task.grants : g.kind \in GlobalGrants

Writes(task) == UNION {Granted(g) : g \in task.grants}

Focus(task) == ({task.operation} \ {None}) \cup task.peers

\* What a task's bundle records: with the analysis ready, callees enter as
\* summaries, and their programs and requirements with them.
Reads(task, deeply) ==
    task.include
        \cup (UNION {Whole(o) : o \in Focus(task)})
        \cup (UNION {IF deeply THEN Whole(c) ELSE {Interface(c)} :
                         c \in UNION {calls[o] : o \in Focus(task)}})

\* Mutant: only two writers of one symbol are kept apart.
WritersConflict(a, b) ==
    \/ Global(a)
    \/ Global(b)
    \/ Writes(a) \cap Writes(b) # {}

Conflicts(a, b) ==
    \/ Global(a)
    \/ Global(b)
    \/ Writes(a) \cap Writes(b) # {}
    \/ Reads(a, deep) \cap Writes(b) # {}
    \/ Reads(b, deep) \cap Writes(a) # {}

-----------------------------------------------------------------------------
(* Callee-first order *)

Indices == 1 .. Len(batch)

\* Of several tasks of one operation, the last is its owner.
Owns(i, o) == batch[i].operation = o /\ \A j \in Indices : batch[j].operation = o => j <= i

\* The task of some callee of c's operation.
Precedes(i, c) ==
    /\ i # c
    /\ batch[c].operation # None
    /\ \E o \in calls[batch[c].operation] : Owns(i, o)

Before(c) == {i \in Indices : Precedes(i, c)}

Ordered == {order[k] : k \in DOMAIN order}

\* The one sequence that lists these tasks, each once, by rising place.
Listed(tasks, place) ==
    {list \in UNION {[1 .. n -> tasks] : n \in 0 .. Len(batch)} :
        /\ \A i \in tasks : \E k \in DOMAIN list : list[k] = i
        /\ \A k, l \in DOMAIN list : k < l => place[list[k]] < place[list[l]]}

Submission == [i \in Indices |-> i]

\* Mutant: every task is ready.
AllAtOnce == Indices

WithoutCallees == {i \in Indices : Before(i) = {}}

PlanInit ==
    /\ batch \in Batches
    /\ calls \in CallGraphs
    /\ deep \in BOOLEAN
    /\ ready \in Listed(WithoutCallees, Submission)
    /\ order = <<>>
    /\ placed = 0
    /\ wave = [i \in Indices |-> 0]

\* Mutant: a dependent is released by the first of its callees.
ReleasedByFirst(i) == {c \in Indices : i \in Before(c) /\ c \notin Ordered}

\* Dependents that waited for i alone.
Released(i) == {c \in Indices : i \in Before(c) /\ Before(c) \subseteq Ordered \cup {i}}

TakeReady ==
    /\ ready # <<>>
    /\ order' = Append(order, Head(ready))
    /\ \E released \in Listed(Released(Head(ready)), Submission) :
          ready' = Tail(ready) \o released
    /\ UNCHANGED <<batch, calls, deep, placed, wave>>

Leftover == Indices \ Ordered

\* Whatever remains waits for a call cycle: it follows in submission order.
AppendCycles ==
    /\ ready = <<>>
    /\ Ordered # Indices
    /\ \E rest \in Listed(Leftover, Submission) : order' = order \o rest
    /\ UNCHANGED <<batch, calls, deep, ready, placed, wave>>

-----------------------------------------------------------------------------
(* Waves *)

InWave(k) == {j \in Indices : wave[j] = k}

Fits(i, k) == \A j \in InWave(k) : ~Conflicts(batch[i], batch[j])

Fitting(i) == {k \in 1 .. Len(batch) : Fits(i, k)}

\* An empty wave fits, so the first that does is at most one beyond those there are.
Place ==
    /\ ready = <<>>
    /\ Ordered = Indices
    /\ placed < Len(batch)
    /\ LET i == order[placed + 1] IN
       \E k \in Fitting(i) : /\ \A l \in Fitting(i) : k <= l
                             /\ wave' = [wave EXCEPT ![i] = k]
    /\ placed' = placed + 1
    /\ UNCHANGED <<batch, calls, deep, ready, order>>

Planned == ready = <<>> /\ Ordered = Indices /\ placed = Len(batch)

PlanNext == TakeReady \/ AppendCycles \/ Place

PlanSpec == PlanInit /\ [][PlanNext]_planVars

-----------------------------------------------------------------------------
(* Properties *)

PlanTypeOK ==
    /\ order \in Seq(Indices)
    /\ ready \in Seq(Indices)
    /\ placed \in 0 .. Len(batch)
    /\ wave \in [Indices -> 0 .. Len(batch)]

\* No two tasks of a wave write what the other writes or will be handed to
\* read, and one that may write anything shared runs alone.
WavesConflictFree ==
    \A i, j \in Indices :
        i # j /\ wave[i] = wave[j] /\ wave[i] # 0 =>
            /\ ~Global(batch[i])
            /\ Writes(batch[i]) \cap (Writes(batch[j]) \cup Reads(batch[j], deep)) = {}

\* Every task is ordered once, and when the plan is made each has its wave.
EveryTaskPlanned ==
    /\ \A k, l \in DOMAIN order : order[k] = order[l] => k = l
    /\ Planned => \A i \in Indices : wave[i] # 0

\* A task is held back to a later wave only by a task in each earlier one:
\* planning takes no parallelism away without cause.
HeldBackForCause ==
    \A i \in Indices : \A k \in 1 .. wave[i] - 1 :
        \E j \in InWave(k) : Conflicts(batch[i], batch[j])

\* Tasks that wait for i, directly or not: they are in every set that holds what
\* waits for i and what waits for its members.
Later(i) ==
    {c \in Indices :
        \A waiting \in SUBSET Indices :
            (\A j \in waiting \cup {i} : \A d \in Indices : Precedes(j, d) => d \in waiting)
                => c \in waiting}

Acyclic == \A i \in Indices : i \notin Later(i)

\* In the order a callee's task comes before its caller's, unless the caller
\* sits on a call cycle or downstream of one.
CalleesFirst ==
    \A k, l \in DOMAIN order :
        k < l /\ Precedes(order[l], order[k]) =>
            \E i \in Indices : i \in Later(i) /\ order[k] \in Later(i)

\* The plan as a whole: no task is lost or ordered twice, none waits for
\* nothing, and callees go first as far as call cycles let them
\* (callee_first_order and plan_waves together).
PlanSound == EveryTaskPlanned /\ HeldBackForCause /\ CalleesFirst

\* scheduler.rs:666 "a caller then lands in a later wave than a callee it
\* observes, and works against the callee's *final* state instead of racing it".
CallersComeLater ==
    Planned /\ Acyclic =>
        \A i, c \in Indices :
            /\ Precedes(i, c)
            /\ Reads(batch[c], deep) \cap Writes(batch[i]) # {}
            => wave[i] < wave[c]

=============================================================================
