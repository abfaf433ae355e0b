------------------------------ MODULE DesignRun ------------------------------
(****************************************************************************)
(* One run of the design workflow: decomposition, fanout, and the fixpoint  *)
(* of analysis, repair, discovery, realization and verification, down to    *)
(* the report it ends with (harness/workflow.rs), driven either by agents   *)
(* (conseqa design) or in process, where what no builder settles is handed  *)
(* back to the caller (harness/build.rs, harness/handoff.rs).               *)
(*                                                                          *)
(* The workflow moves at its awaits: between two of them other writers, a   *)
(* session of the same server or a worker that outlived its task, may move  *)
(* the head.  A task is one step here, its patch and its ask together; how  *)
(* it gets there is module Scheduler.  The analyzer is a function of the    *)
(* head: what a program's proof takes is that it and every program its      *)
(* evidence names are strong.                                               *)
(****************************************************************************)
EXTENDS Naturals, FiniteSets, Sequences

CONSTANTS
    Ops,            \* operations the application may have
    Names,          \* Names[o]: the operations the evidence about o names
    MaxIterations,  \* max_iterations of the configuration
    Adopted,        \* the heads a run may find
    MaxAsks,        \* bound: dependency requests filed in a run
    MaxOutside      \* bound: commits by others during a run

Written == {"invalid", "weak", "strong"}
Programs == {"absent", "missing"} \cup Written

\* What of a workspace the workflow acts on.  `asked` is the prompt
\* obligation, which names no operation; `shared` the symbols of no
\* operation, where an error names none.
Heads ==
    [program : [Ops -> Programs], declared : SUBSET Ops,
     asked : {"none", "unmapped", "mapped"},
     runtime : {"empty", "invalid", "authored"},
     shared : {"sound", "faulty"}]

ASSUME RunConstants ==
    /\ Names \in [Ops -> SUBSET Ops]
    /\ MaxIterations \in Nat
    /\ Adopted \subseteq Heads
    /\ MaxAsks \in Nat
    /\ MaxOutside \in Nat

VARIABLES
    driver,         \* "agents" or "builders"
    head,
    moved,          \* the head has moved in this iteration
    analysis,       \* of the head the iteration pinned as `revision`
    phase,          \* where the workflow goes on when its batch has ended
    tasks,          \* the batch's tasks that have not ended
    ran,            \* it had some
    iterations,
    topologyAuthored,
    discovered,     \* operations discovery was scheduled for
    halt,
    asks,           \* dependency requests, in the order they were filed
    carried,        \* those the dispatch at hand carries
    touched,        \* symbols changed since the dispatch began
    outside,        \* commits by others so far
    report

vars == <<driver, head, moved, analysis, phase, tasks, ran, iterations,
          topologyAuthored, discovered, halt, asks, carried, touched, outside, report>>

-----------------------------------------------------------------------------
(* What the workflow reads off a head *)

Present(h) == {o \in Ops : h.program[o] # "absent"}
Missing(h) == {o \in Ops : h.program[o] = "missing"}

Proven(h, o) ==
    /\ h.program[o] = "strong"
    /\ \A p \in Names[o] \cap Present(h) : h.program[p] = "strong"

Verdict(h) ==
    IF Missing(h) # {} THEN "gaps"
    ELSE IF \/ \E o \in Ops : h.program[o] = "invalid"
            \/ h.runtime = "invalid"
            \/ h.shared = "faulty" THEN "errors"
    ELSE "ready"

\* AnalysisState of a head: the operations errors name, whether one is about
\* the runtime model, and the obligations that are unproven.
Analysis(h) ==
    [verdict |-> Verdict(h),
     named |-> {o \in Ops : h.program[o] = "invalid"},
     runtime |-> h.runtime = "invalid",
     unproven |-> {o \in h.declared \cap Present(h) : ~Proven(h, o)}]

Unmapped(h) == h.asked = "unmapped"

\* requirements_empty, or the target of an unmapped obligation.
Undiscovered(h) == {o \in Present(h) : o \notin h.declared \/ Unmapped(h)}

Open == {i \in DOMAIN asks : asks[i].state = "open"}
Asked == {asks[i].target : i \in carried}

-----------------------------------------------------------------------------
(* Tasks.  A task is what it is about and what it may write. *)

Program(o) == <<"program", o>>
Requirements(o) == <<"requirements", o>>
Skeleton == <<"skeleton">>
Topology == <<"runtime">>
Symbols ==
    {Skeleton, Topology} \cup {Program(o) : o \in Ops} \cup {Requirements(o) : o \in Ops}

\* "revision" is repair_validation's: a synthesis nothing is chained onto.
Task(kind, scope) == [kind |-> kind, scope |-> scope]
Kinds == {"decompose", "synthesis", "revision", "discovery", "topology", "repair",
          "dependency"}

Synthesis(operations) == {Task("synthesis", {Program(o)}) : o \in operations}
Revision(operations) == {Task("revision", {Program(o)}) : o \in operations}
Discovery(operations) == {Task("discovery", {Requirements(o)}) : o \in operations}
TopologyAuthor == Task("topology", {Topology})

Targets == {Skeleton} \cup {Program(o) : o \in Ops}

\* One task per target, whatever the number of asks against it.
DependencyTasks(open) == {Task("dependency", {asks[i].target}) : i \in open}

\* Mutation of RepairGroups: a task per operation, with a grant for every
\* operation its evidence names.
GroupPerOperation(h, unproven) == {{o} \cup (Names[o] \cap Present(h)) : o \in unproven}

\* repair_groups: connected components of "the evidence about one names the
\* other", over the operations with something unproven and those they name.
RepairGroups(h, unproven) ==
    LET named(o) == Names[o] \cap Present(h)
        members == unproven \cup UNION {named(o) : o \in unproven}
        Closed(g) == \A o \in unproven : \A p \in named(o) : o \in g <=> p \in g
        closed == {g \in SUBSET members : g # {} /\ Closed(g)}
    IN  {g \in closed : g \cap unproven # {} /\ \A f \in closed : f \subseteq g => f = g}

RepairTasks(h, unproven) ==
    {Task("repair", {Program(o) : o \in g}) : g \in RepairGroups(h, unproven)}

OneEffect(h, g) ==
    LET changed == {o \in Ops : g.program[o] # h.program[o]}
    IN  \/ changed = {} /\ g.asked = h.asked
        \/ /\ g.shared = h.shared
           /\ \/ Cardinality(changed) = 1 /\ g.asked = h.asked
              \/ \A o \in changed : h.program[o] = "absent"

\* The heads a patch within `scope` may make of h.  A program, once there,
\* is replaced; the skeleton's author adds interfaces and the obligations of
\* the prompt, and what it changes may break or mend any program; only
\* discovery maps an obligation.
Edits(h, scope) ==
    {g \in [program : {q \in [Ops -> Programs] :
                \A o \in Ops : q[o] # h.program[o] =>
                    \/ /\ Program(o) \in scope /\ h.program[o] # "absent"
                       /\ q[o] \in Written
                    \/ Skeleton \in scope /\ {q[o], h.program[o]} \subseteq Written
                    \/ /\ Skeleton \in scope /\ h.program[o] = "absent"
                       /\ q[o] = "missing"},
            declared : {d \in SUBSET Ops : \A o \in Ops :
                (o \in d) # (o \in h.declared) =>
                    Requirements(o) \in scope /\ h.program[o] # "absent"},
            asked : {h.asked} \cup
                (IF Skeleton \in scope /\ h.asked = "none" THEN {"unmapped"} ELSE {}) \cup
                (IF Unmapped(h) /\ \E o \in Present(h) : Requirements(o) \in scope
                 THEN {"mapped"} ELSE {}),
            runtime : IF Topology \in scope THEN {h.runtime, "invalid", "authored"}
                      ELSE {h.runtime},
            shared : IF Skeleton \in scope THEN {"sound", "faulty"} ELSE {h.shared}] :
        /\ g # h
        \* Bound: a skeleton's patch does one of its things.
        /\ Skeleton \in scope => OneEffect(h, g)}

\* The symbols an ask may target whose versions a commit advances.
Advanced(h, g, scope) ==
    (scope \cap {Skeleton}) \cup
    (scope \cap {Program(o) : o \in {p \in Ops : g.program[p] # h.program[p]}})

-----------------------------------------------------------------------------
(* Steps of the workflow *)

NoReport == [kind |-> "none", reason |-> "none"]

Ended == report # NoReport

\* The workflow runs on once every task of its batch has ended.
At(p) == phase = p /\ tasks = {} /\ ~Ended

Batch(next, batch) ==
    /\ tasks' = batch
    /\ ran' = (batch # {})
    /\ phase' = next

GoTo(next) == phase' = next /\ UNCHANGED <<tasks, ran>>

Report(kind, reason) ==
    /\ report' = [kind |-> kind, reason |-> reason]
    /\ GoTo("ended")

\* Workflow::stopped.
Stop == Report("stopped", "handed back")

Pin == analysis' = Analysis(head) /\ moved' = FALSE

NothingAnalysed == [verdict |-> "gaps", named |-> {}, runtime |-> FALSE, unproven |-> {}]

\* Mutation of Again: analysed anew in place, without the loop's head.
InPlace(batch) == Batch("analysed", batch) /\ analysis' = Analysis(head)

\* The next iteration pins a head of its own.
Again(batch) == Batch("top", batch) /\ analysis' = NothingAnalysed

Init ==
    /\ driver \in {"agents", "builders"}
    /\ head \in Adopted
    /\ moved = FALSE
    /\ analysis = NothingAnalysed
    /\ phase = "decompose"
    /\ tasks = {}
    /\ ran = FALSE
    /\ iterations = 0
    /\ topologyAuthored = FALSE
    /\ discovered = {}
    /\ halt = FALSE
    /\ asks = <<>>
    /\ carried = {}
    /\ touched = {}
    /\ outside = 0
    /\ report = NoReport

\* Only an empty head is decomposed; an adopted model converges as it is.
Decompose ==
    /\ At("decompose")
    /\ Batch("fanout",
             IF Present(head) = {} THEN {Task("decompose", {Skeleton})} ELSE {})
    /\ UNCHANGED <<driver, head, moved, analysis, iterations, topologyAuthored,
                   discovered, halt, asks, carried, touched, outside, report>>

OperationFanout ==
    /\ At("fanout")
    /\ Batch("top", Synthesis(Missing(head)))
    /\ UNCHANGED <<driver, head, moved, analysis, iterations, topologyAuthored,
                   discovered, halt, asks, carried, touched, outside, report>>

OverBudget == iterations + 1 > MaxIterations

\* The loop's head: a halted run stops, one over its budget is judged as it
\* is, asks are dispatched before anything else.
NextIteration ==
    /\ At("top")
    /\ iterations' = iterations + 1
    /\ \/ /\ halt
          /\ Stop
          /\ UNCHANGED <<moved, analysis, carried, touched>>
       \/ /\ ~halt /\ OverBudget
          /\ Pin
          /\ GoTo("judge")
          /\ UNCHANGED <<carried, touched, report>>
       \/ /\ ~halt /\ ~OverBudget /\ Open # {}
          /\ carried' = Open
          /\ touched' = {}
          /\ Batch("dispatched", DependencyTasks(Open))
          /\ UNCHANGED <<moved, analysis, report>>
       \/ /\ ~halt /\ ~OverBudget /\ Open = {}
          /\ Pin
          /\ GoTo("analysed")
          /\ UNCHANGED <<carried, touched, report>>
    /\ UNCHANGED <<driver, head, topologyAuthored, discovered, halt, asks, outside>>

\* The outcome of a dispatch is read from the workspace, and every ask it
\* carried is settled by it.
Resolution(i) == IF asks[i].target \in touched THEN "applied" ELSE "declined"

SettleAsks ==
    /\ At("dispatched")
    /\ asks' = [i \in DOMAIN asks |->
                    IF i \in carried THEN [asks[i] EXCEPT !.state = Resolution(i)]
                    ELSE asks[i]]
    /\ carried' = {}
    /\ touched' = {}
    /\ GoTo("top")
    /\ UNCHANGED <<driver, head, moved, analysis, iterations, topologyAuthored,
                   discovered, halt, outside, report>>

\* await_analysis gives up.  The deadline is on wall time: any wait may.
AnalysisTimeout ==
    /\ At("analysed") \/ At("judge")
    /\ Report("error", "timeout")
    /\ UNCHANGED <<driver, head, moved, analysis, iterations, topologyAuthored,
                   discovered, halt, asks, carried, touched, outside>>

\* A terminal state that is none of the three: the analyzer failed, or the
\* revision was coalesced away.
AnalysisStuck ==
    /\ At("analysed") \/ At("judge")
    /\ Report("incomplete", IF phase = "judge" THEN "does not validate" ELSE "stuck")
    /\ UNCHANGED <<driver, head, moved, analysis, iterations, topologyAuthored,
                   discovered, halt, asks, carried, touched, outside>>

FillGaps ==
    /\ At("analysed") /\ analysis.verdict = "gaps"
    /\ \/ /\ Missing(head) = {}
          /\ Report("incomplete", "gaps of no operation")
          /\ UNCHANGED analysis
       \/ /\ Missing(head) # {}
          /\ Again(Synthesis(Missing(head)))
          /\ UNCHANGED report
    /\ UNCHANGED <<driver, head, moved, iterations, topologyAuthored, discovered, halt,
                   asks, carried, touched, outside>>

Named == analysis.named \cap Present(head)

RepairErrors ==
    /\ At("analysed") /\ analysis.verdict = "errors"
    /\ \/ /\ ~analysis.runtime /\ Named = {}
          /\ Report("incomplete", "errors of no operation")
          /\ UNCHANGED analysis
       \/ /\ analysis.runtime
          /\ Batch("repairPrograms", {TopologyAuthor})
          /\ UNCHANGED <<analysis, report>>
       \/ /\ ~analysis.runtime /\ Named # {}
          /\ Again(Revision(Named))
          /\ UNCHANGED report
    /\ UNCHANGED <<driver, head, moved, iterations, topologyAuthored, discovered, halt,
                   asks, carried, touched, outside>>

\* The second batch of the same phase: nothing looks at `halt` between them.
RepairPrograms ==
    /\ At("repairPrograms")
    /\ Again(Revision(Named))
    /\ UNCHANGED <<driver, head, moved, iterations, topologyAuthored, discovered, halt,
                   asks, carried, touched, outside, report>>

\* Operations discovery is for, once in a run.
Discoverable == Undiscovered(head) \ discovered

RequirementDiscovery ==
    /\ At("analysed") /\ analysis.verdict = "ready"
    /\ moved' = FALSE
    /\ discovered' = discovered \cup Discoverable
    /\ Batch("discovered", Discovery(Discoverable))
    /\ UNCHANGED <<driver, head, analysis, iterations, topologyAuthored, halt,
                   asks, carried, touched, outside, report>>

RepairUnproven == Batch("repaired", RepairTasks(head, analysis.unproven))

Author == ~topologyAuthored /\ head.runtime = "empty"

AfterDiscovery ==
    /\ At("discovered")
    /\ \/ halt /\ Stop /\ UNCHANGED <<analysis, topologyAuthored>>
       \/ ~halt /\ moved /\ Again({}) /\ UNCHANGED <<topologyAuthored, report>>
       \/ /\ ~halt /\ ~moved /\ Author
          /\ topologyAuthored' = TRUE
          /\ Batch("realized", {TopologyAuthor})
          /\ UNCHANGED <<analysis, report>>
       \/ /\ ~halt /\ ~moved /\ ~Author
          /\ RepairUnproven
          /\ UNCHANGED <<analysis, topologyAuthored, report>>
    /\ UNCHANGED <<driver, head, moved, iterations, discovered, halt, asks, carried,
                   touched, outside>>

\* Mutation of Progress: only an ask counts.
AskedSomething == Open # {}

Progress == moved \/ Open # {}

AfterTopology ==
    /\ At("realized")
    /\ \/ halt /\ Stop /\ UNCHANGED analysis
       \/ ~halt /\ Progress /\ Again({}) /\ UNCHANGED report
       \/ ~halt /\ ~Progress /\ RepairUnproven /\ UNCHANGED <<analysis, report>>
    /\ UNCHANGED <<driver, head, moved, iterations, topologyAuthored, discovered, halt,
                   asks, carried, touched, outside>>

\* Mutation of AfterRepair: the halt is looked at after the verdict.
JudgedFirst ==
    /\ At("repaired")
    /\ \/ (~ran \/ ~Progress) /\ GoTo("judge") /\ UNCHANGED <<analysis, report>>
       \/ halt /\ ran /\ Progress /\ Stop /\ UNCHANGED analysis
       \/ ~halt /\ ran /\ Progress /\ Again({}) /\ UNCHANGED report
    /\ UNCHANGED <<driver, head, moved, iterations, topologyAuthored, discovered, halt,
                   asks, carried, touched, outside>>

\* Nothing to repair, or a repair that got nowhere and asked for nothing:
\* the run is judged.  Anything else is another iteration.
AfterRepair ==
    /\ At("repaired")
    /\ \/ halt /\ Stop /\ UNCHANGED analysis
       \/ /\ ~halt /\ (~ran \/ ~Progress)
          /\ GoTo("judge")
          /\ UNCHANGED <<analysis, report>>
       \/ ~halt /\ ran /\ Progress /\ Again({}) /\ UNCHANGED report
    /\ UNCHANGED <<driver, head, moved, iterations, topologyAuthored, discovered, halt,
                   asks, carried, touched, outside>>

\* Workflow::finalize: the verdict is the analysed revision's, the rest is
\* read off the head.  Assembling the head's model may fail.
Judgement ==
    IF analysis.verdict # "ready" THEN [kind |-> "incomplete", reason |-> "does not validate"]
    ELSE IF Verdict(head) = "gaps" THEN [kind |-> "error", reason |-> "not assemblable"]
    ELSE IF Present(head) = {} THEN [kind |-> "incomplete", reason |-> "built nothing"]
    ELSE IF analysis.unproven # {} THEN [kind |-> "incomplete", reason |-> "unproven"]
    ELSE IF Unmapped(head) THEN [kind |-> "incomplete", reason |-> "unmapped"]
    ELSE IF Open # {} THEN [kind |-> "incomplete", reason |-> "open asks"]
    ELSE [kind |-> "success", reason |-> "none"]

Finalize ==
    /\ At("judge")
    /\ Report(Judgement.kind, Judgement.reason)
    /\ UNCHANGED <<driver, head, moved, analysis, iterations, topologyAuthored,
                   discovered, halt, asks, carried, touched, outside>>

-----------------------------------------------------------------------------
(* Tasks and other writers *)

Commit(scope) ==
    \E h \in Edits(head, scope) :
        /\ head' = h
        /\ moved' = TRUE
        /\ touched' = touched \cup (Advanced(head, h, scope) \cap Asked)

NoCommit == UNCHANGED <<head, moved, touched>>

\* Discovery is chained onto the synthesis of an operation as soon as its
\* program is there (the closure operation_fanout and the gap repair share).
Chained(t) ==
    {o \in Undiscovered(head') \ discovered :
        /\ t = Task("synthesis", {Program(o)})
        /\ head'.program[o] # "missing"}

Ends(t) ==
    /\ tasks' = (tasks \ {t}) \cup Discovery(Chained(t))
    /\ discovered' = discovered \cup Chained(t)

\* A task ends, having committed within its scope or not; an agent may have
\* asked for what is outside it.
TaskEnds ==
    \E t \in tasks :
        /\ ~Ended
        /\ \/ Commit(t.scope)
           \/ NoCommit
        /\ \/ UNCHANGED asks
           \/ /\ driver = "agents" /\ Len(asks) < MaxAsks
              /\ \E x \in Targets \ t.scope : asks' = Append(asks, [target |-> x, state |-> "open"])
        /\ Ends(t)
        /\ UNCHANGED <<driver, analysis, phase, ran, iterations, topologyAuthored, halt,
                       carried, outside, report>>

\* HandOffBackend::run: no builder settled it, and nothing is written.
HandedBack ==
    \E t \in tasks :
        /\ ~Ended /\ driver = "builders"
        /\ halt' = TRUE
        /\ NoCommit
        /\ Ends(t)
        /\ UNCHANGED <<driver, analysis, phase, ran, iterations, topologyAuthored, asks,
                       carried, outside, report>>

\* The engine refused the scheduler something (its store failed).
TaskFails ==
    /\ tasks # {} /\ ~Ended
    /\ report' = [kind |-> "error", reason |-> "scheduler"]
    /\ tasks' = {}
    /\ phase' = "ended"
    /\ UNCHANGED <<driver, head, moved, analysis, ran, iterations,
                   topologyAuthored, discovered, halt, asks, carried, touched, outside>>

\* A session of the same server, or a worker that outlived its task.
OutsideCommit ==
    /\ ~Ended /\ outside < MaxOutside
    /\ \E s \in Symbols : Commit({s})
    /\ outside' = outside + 1
    /\ UNCHANGED <<driver, analysis, phase, tasks, ran, iterations, topologyAuthored,
                   discovered, halt, asks, carried, report>>

Step ==
    \/ Decompose \/ OperationFanout \/ NextIteration \/ SettleAsks
    \/ FillGaps \/ RepairErrors \/ RepairPrograms
    \/ RequirementDiscovery \/ AfterDiscovery \/ AfterTopology \/ AfterRepair
    \/ Finalize \/ TaskEnds \/ HandedBack

Next == Step \/ AnalysisTimeout \/ AnalysisStuck \/ TaskFails \/ OutsideCommit

\* The workflow is one async function whose awaits end: every task is bounded
\* by its session's limits and its attempts, every analysis by a timeout.
Spec == Init /\ [][Next]_vars /\ WF_vars(Step)

-----------------------------------------------------------------------------
(* Properties *)

\* Every value has its type, every ask a dispatch carries was filed, and no
\* iteration starts over the budget.
TypeOK ==
    /\ driver \in {"agents", "builders"}
    /\ head \in Heads
    /\ moved \in BOOLEAN
    /\ analysis \in [verdict : {"gaps", "errors", "ready"}, named : SUBSET Ops,
                     runtime : BOOLEAN, unproven : SUBSET Ops]
    /\ tasks \subseteq [kind : Kinds, scope : SUBSET Symbols]
    /\ iterations \in 0..MaxIterations + 1
    /\ discovered \subseteq Ops
    /\ asks \in Seq([target : Targets, state : {"open", "applied", "declined"}])
    /\ carried \subseteq DOMAIN asks
    /\ report.kind \in {"none", "success", "incomplete", "stopped", "error"}

\* Success is the truth about the design that is there, as long as nobody
\* else wrote to it: every program valid, every requirement proven, every
\* obligation mapped, no ask open (RunStatus::Success, workflow.rs; the
\* verdict is of a revision pinned before two phases that may commit).  And
\* a run that ends by itself, not by its budget, has looked for the
\* requirements of every operation: without them there is nothing to prove.
SuccessIsSound ==
    report.kind = "success" /\ outside = 0 =>
        /\ Verdict(head) = "ready"
        /\ Present(head) # {}
        /\ \A o \in head.declared \cap Present(head) : Proven(head, o)
        /\ ~Unmapped(head)
        /\ Open = {}
        /\ iterations <= MaxIterations =>
              \A o \in Present(head) : o \in head.declared \/ o \in discovered

\* Once a task was handed back to the caller the design is not judged: the
\* run stops, or fails (Workflow::stopped, HandOffBackend).
HandedBackIsNotJudged == halt => report.kind \in {"none", "stopped", "error"}

\* No two tasks that run at once may write the same symbol: repairs are one
\* per closure of conflicting operations, asks one per target, and discovery
\* is once per operation, chained or not.
NoTwoWriters == \A t, u \in tasks : t # u => t.scope \cap u.scope = {}

\* The fixpoint ends: whatever the tasks do and whoever else writes, the run
\* comes to a report.
RunEnds == <>Ended

\* "A filed dependency request is progress even with no commit behind it: the
\* next iteration dispatches it" (workflow.rs:337): a run with iterations left
\* never ends over asks nobody was given.
AsksDispatched ==
    iterations < MaxIterations => report.reason # "open asks"

=============================================================================
