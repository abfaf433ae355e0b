--------------------------- MODULE DesignRun_proofs ---------------------------
(****************************************************************************)
(* What a run of the design workflow promises, for every set of operations, *)
(* every relation of "the evidence about one names the other", every budget *)
(* of iterations, and any number of asks and of commits by others.          *)
(****************************************************************************)
EXTENDS DesignRun, TLAPS

-----------------------------------------------------------------------------
(* Types *)

Phases == {"decompose", "fanout", "top", "dispatched", "analysed", "repairPrograms",
           "discovered", "realized", "repaired", "judge", "ended"}

\* TypeOK, and the two facts about control its bounds rest on: the budget is
\* exceeded once, and then the run is judged.
RunTypes ==
    /\ TypeOK
    /\ phase \in Phases
    /\ outside \in Nat
    /\ halt \in BOOLEAN
    /\ ran \in BOOLEAN
    /\ iterations > MaxIterations => phase \in {"judge", "ended"}
    /\ Ended => phase = "ended"

LEMMA EditIsAHead ==
    ASSUME RunTypes, NEW scope, NEW h \in Edits(head, scope)
    PROVE  h \in Heads
<1>1. h.program \in [Ops -> Programs] /\ h.declared \in SUBSET Ops
  BY DEF Edits
<1>2. head.asked \in {"none", "unmapped", "mapped"}
      /\ head.runtime \in {"empty", "invalid", "authored"}
      /\ head.shared \in {"sound", "faulty"}
  BY DEF RunTypes, TypeOK, Heads
<1>3. h.asked \in {"none", "unmapped", "mapped"}
  BY <1>2 DEF Edits
<1>4. h.runtime \in {"empty", "invalid", "authored"} /\ h.shared \in {"sound", "faulty"}
  BY <1>2 DEF Edits
<1>5. h = [program |-> h.program, declared |-> h.declared, asked |-> h.asked,
           runtime |-> h.runtime, shared |-> h.shared]
  BY DEF Edits
<1> QED
  BY <1>1, <1>3, <1>4, <1>5 DEF Heads

Analyses ==
    [verdict : {"gaps", "errors", "ready"}, named : SUBSET Ops,
     runtime : BOOLEAN, unproven : SUBSET Ops]

LEMMA AnalysisTyped ==
    ASSUME NEW h \in Heads
    PROVE  Analysis(h) \in Analyses
<1>1. Verdict(h) \in {"gaps", "errors", "ready"}
  BY DEF Verdict
<1>2. (h.runtime = "invalid") \in BOOLEAN
  OBVIOUS
<1>3. {o \in Ops : h.program[o] = "invalid"} \in SUBSET Ops
  OBVIOUS
<1>4. {o \in h.declared \cap Present(h) : ~Proven(h, o)} \in SUBSET Ops
  BY DEF Present
<1> QED
  BY <1>1, <1>2, <1>3, <1>4 DEF Analysis, Analyses

LEMMA TasksTyped ==
    /\ \A kind \in Kinds, scope \in SUBSET Symbols :
           Task(kind, scope) \in [kind : Kinds, scope : SUBSET Symbols]
    /\ \A operations \in SUBSET Ops :
           /\ Synthesis(operations) \subseteq [kind : Kinds, scope : SUBSET Symbols]
           /\ Revision(operations) \subseteq [kind : Kinds, scope : SUBSET Symbols]
           /\ Discovery(operations) \subseteq [kind : Kinds, scope : SUBSET Symbols]
    /\ TopologyAuthor \in [kind : Kinds, scope : SUBSET Symbols]
    /\ Task("decompose", {Skeleton}) \in [kind : Kinds, scope : SUBSET Symbols]
<1>1. \A kind \in Kinds, scope \in SUBSET Symbols :
          Task(kind, scope) \in [kind : Kinds, scope : SUBSET Symbols]
  BY DEF Task
<1>2. \A o \in Ops : {Program(o)} \in SUBSET Symbols /\ {Requirements(o)} \in SUBSET Symbols
  BY DEF Symbols
<1>3. {Topology} \in SUBSET Symbols /\ {Skeleton} \in SUBSET Symbols
  BY DEF Symbols
<1>4. {"decompose", "synthesis", "revision", "discovery", "topology"} \subseteq Kinds
  BY DEF Kinds
<1>5. \A kind \in Kinds, operations \in SUBSET Ops :
          /\ {Task(kind, {Program(o)}) : o \in operations}
                 \subseteq [kind : Kinds, scope : SUBSET Symbols]
          /\ {Task(kind, {Requirements(o)}) : o \in operations}
                 \subseteq [kind : Kinds, scope : SUBSET Symbols]
  BY <1>1, <1>2
<1>6. \A operations \in SUBSET Ops :
          /\ Synthesis(operations) \subseteq [kind : Kinds, scope : SUBSET Symbols]
          /\ Revision(operations) \subseteq [kind : Kinds, scope : SUBSET Symbols]
          /\ Discovery(operations) \subseteq [kind : Kinds, scope : SUBSET Symbols]
  BY <1>4, <1>5 DEF Synthesis, Revision, Discovery
<1>7. TopologyAuthor \in [kind : Kinds, scope : SUBSET Symbols]
  BY <1>1, <1>3, <1>4 DEF TopologyAuthor
<1>8. Task("decompose", {Skeleton}) \in [kind : Kinds, scope : SUBSET Symbols]
  BY <1>1, <1>3, <1>4
<1> QED
  BY <1>1, <1>6, <1>7, <1>8

LEMMA RepairsTyped ==
    ASSUME NEW h \in Heads, NEW unproven \in SUBSET Ops
    PROVE  RepairTasks(h, unproven) \subseteq [kind : Kinds, scope : SUBSET Symbols]
<1>1. \A g \in RepairGroups(h, unproven) : g \subseteq Ops
  BY DEF RepairGroups, Present
<1>2. \A g \in SUBSET Ops : {Program(o) : o \in g} \in SUBSET Symbols
  BY DEF Symbols
<1>3. "repair" \in Kinds
  BY DEF Kinds
<1> QED
  BY <1>1, <1>2, <1>3 DEF RepairTasks, Task

AskType == [target : Targets, state : {"open", "applied", "declined"}]

LEMMA AsksTyped ==
    ASSUME RunTypes
    PROVE  /\ asks \in Seq(AskType)
           /\ Len(asks) \in Nat
           /\ DOMAIN asks = 1..Len(asks)
           /\ \A i \in DOMAIN asks : asks[i] \in AskType
<1>1. asks \in Seq(AskType)
  BY DEF RunTypes, TypeOK, AskType
<1> QED
  BY <1>1

LEMMA DependenciesTyped ==
    ASSUME RunTypes, NEW open \in SUBSET DOMAIN asks
    PROVE  DependencyTasks(open) \subseteq [kind : Kinds, scope : SUBSET Symbols]
<1>1. \A i \in DOMAIN asks : asks[i].target \in Targets
  BY AsksTyped DEF AskType
<1>2. Targets \subseteq Symbols
  BY DEF Targets, Symbols
<1>3. "dependency" \in Kinds
  BY DEF Kinds
<1> QED
  BY <1>1, <1>2, <1>3 DEF DependencyTasks, Task

LEMMA AnEdit ==
    ASSUME RunTypes, NEW scope, Commit(scope)
    PROVE  head' \in Heads /\ moved' = TRUE
BY EditIsAHead DEF Commit

LEMMA MissingTyped ==
    /\ \A h : Missing(h) \in SUBSET Ops /\ Present(h) \in SUBSET Ops
    /\ Named \in SUBSET Ops
    /\ Discoverable \in SUBSET Ops
BY DEF Missing, Present, Named, Discoverable, Undiscovered

LEMMA EndsTyped ==
    ASSUME RunTypes, NEW t \in tasks, Ends(t)
    PROVE  /\ tasks' \subseteq [kind : Kinds, scope : SUBSET Symbols]
           /\ discovered' \subseteq Ops
<1>1. Chained(t) \in SUBSET Ops
  BY DEF Chained, Undiscovered, Present
<1>2. Discovery(Chained(t)) \subseteq [kind : Kinds, scope : SUBSET Symbols]
  BY <1>1, TasksTyped
<1> QED
  BY <1>1, <1>2 DEF Ends, RunTypes, TypeOK

\* No task is running where the workflow is between two batches, and a batch
\* whose tasks run is in a phase that waits for it.
LEMMA TypesStep ==
    ASSUME RunTypes, [Next]_vars
    PROVE  RunTypes'
<1> USE RunConstants
<1>0. CASE UNCHANGED vars
  BY <1>0 DEF vars, RunTypes, TypeOK, Ended, NoReport
<1>1. CASE Decompose
  <2>1. tasks' \subseteq [kind : Kinds, scope : SUBSET Symbols] /\ ran' \in BOOLEAN
        /\ phase' = "fanout"
    BY <1>1, TasksTyped DEF Decompose, Batch
  <2> QED
    BY <1>1, <2>1 DEF Decompose, RunTypes, TypeOK, Phases, At, Ended
<1>2. CASE OperationFanout
  <2>1. tasks' \subseteq [kind : Kinds, scope : SUBSET Symbols] /\ ran' \in BOOLEAN
        /\ phase' = "top"
    BY <1>2, TasksTyped, MissingTyped DEF OperationFanout, Batch
  <2> QED
    BY <1>2, <2>1 DEF OperationFanout, RunTypes, TypeOK, Phases, At, Ended
<1>3. CASE NextIteration
  <2>1. iterations' \in 0..MaxIterations + 1 /\ phase = "top" /\ ~Ended
    BY <1>3 DEF NextIteration, At, RunTypes, TypeOK
  <2>2. Analysis(head) \in Analyses
    BY AnalysisTyped DEF RunTypes, TypeOK
  <2>3. CASE halt /\ Stop /\ UNCHANGED <<moved, analysis, carried, touched>>
    BY <1>3, <2>1, <2>3 DEF NextIteration, Stop, Report, GoTo, RunTypes, TypeOK, Phases, Ended, NoReport
  <2>4. CASE ~halt /\ OverBudget /\ Pin /\ GoTo("judge") /\ UNCHANGED <<carried, touched, report>>
    BY <1>3, <2>1, <2>2, <2>4 DEF NextIteration, Pin, GoTo, RunTypes, TypeOK, Phases, Ended, NoReport, Analyses
  <2>5. CASE /\ ~OverBudget /\ Batch("dispatched", DependencyTasks(Open)) /\ carried' = Open
             /\ UNCHANGED <<moved, analysis, report>>
    <3>1. Open \in SUBSET DOMAIN asks
      BY DEF Open
    <3>2. tasks' \subseteq [kind : Kinds, scope : SUBSET Symbols] /\ ran' \in BOOLEAN
      BY <2>5, <3>1, DependenciesTyped DEF Batch
    <3>3. ~(iterations' > MaxIterations)
      BY <1>3, <2>1, <2>5 DEF NextIteration, OverBudget, RunTypes, TypeOK
    <3> QED
      BY <1>3, <2>1, <2>5, <3>1, <3>2, <3>3 DEF NextIteration, Batch, RunTypes, TypeOK, Phases, Ended, NoReport
  <2>6. CASE /\ ~OverBudget /\ Pin /\ GoTo("analysed") /\ UNCHANGED <<carried, touched, report>>
    <3>3. ~(iterations' > MaxIterations)
      BY <1>3, <2>1, <2>6 DEF NextIteration, OverBudget, RunTypes, TypeOK
    <3> QED
      BY <1>3, <2>1, <2>2, <2>6, <3>3 DEF NextIteration, Pin, GoTo, RunTypes, TypeOK, Phases, Ended, NoReport, Analyses
  <2> QED
    BY <1>3, <2>3, <2>4, <2>5, <2>6 DEF NextIteration
<1>4. CASE SettleAsks
  <2>1. asks' \in Seq(AskType) /\ DOMAIN asks' = DOMAIN asks
    <3>1. \A i \in DOMAIN asks :
              (IF i \in carried THEN [asks[i] EXCEPT !.state = Resolution(i)] ELSE asks[i])
              \in AskType
      BY AsksTyped DEF AskType, Resolution
    <3>2. asks' \in [1..Len(asks) -> AskType]
      BY <1>4, <3>1, AsksTyped DEF SettleAsks
    <3> QED
      BY <3>2, AsksTyped
  <2> QED
    BY <1>4, <2>1 DEF SettleAsks, GoTo, At, RunTypes, TypeOK, Phases, Ended, NoReport, AskType
<1>5. CASE FillGaps
  <2>1. Synthesis(Missing(head)) \subseteq [kind : Kinds, scope : SUBSET Symbols]
    BY TasksTyped, MissingTyped
  <2>2. phase = "analysed" /\ ~Ended
    BY <1>5 DEF FillGaps, At
  <2>3. CASE Report("incomplete", "gaps of no operation") /\ UNCHANGED analysis
    BY <1>5, <2>2, <2>3 DEF FillGaps, Report, GoTo, RunTypes, TypeOK, Phases, Ended, NoReport
  <2>4. CASE Again(Synthesis(Missing(head))) /\ UNCHANGED report
    BY <1>5, <2>1, <2>2, <2>4 DEF FillGaps, Again, Batch, RunTypes, TypeOK, Phases, Ended, NoReport, NothingAnalysed
  <2> QED
    BY <1>5, <2>3, <2>4 DEF FillGaps
<1>6. CASE RepairErrors
  <2>1. Revision(Named) \subseteq [kind : Kinds, scope : SUBSET Symbols]
        /\ {TopologyAuthor} \subseteq [kind : Kinds, scope : SUBSET Symbols]
    BY TasksTyped, MissingTyped
  <2>2. phase = "analysed" /\ ~Ended
    BY <1>6 DEF RepairErrors, At
  <2>3. CASE Report("incomplete", "errors of no operation") /\ UNCHANGED analysis
    BY <1>6, <2>2, <2>3 DEF RepairErrors, Report, GoTo, RunTypes, TypeOK, Phases, Ended, NoReport
  <2>4. CASE Again(Revision(Named)) /\ UNCHANGED report
    BY <1>6, <2>1, <2>2, <2>4 DEF RepairErrors, Again, Batch, RunTypes, TypeOK, Phases, Ended, NoReport, NothingAnalysed
  <2>5. CASE Batch("repairPrograms", {TopologyAuthor}) /\ UNCHANGED <<analysis, report>>
    BY <1>6, <2>1, <2>2, <2>5 DEF RepairErrors, Batch, RunTypes, TypeOK, Phases, Ended, NoReport
  <2> QED
    BY <1>6, <2>3, <2>4, <2>5 DEF RepairErrors
<1>7. CASE RepairPrograms
  <2>1. Revision(Named) \subseteq [kind : Kinds, scope : SUBSET Symbols]
    BY TasksTyped, MissingTyped
  <2> QED
    BY <1>7, <2>1 DEF RepairPrograms, At, Again, Batch, RunTypes, TypeOK, Phases, Ended, NoReport, NothingAnalysed
<1>8. CASE RequirementDiscovery
  <2>1. Discovery(Discoverable) \subseteq [kind : Kinds, scope : SUBSET Symbols]
        /\ Discoverable \subseteq Ops
    BY TasksTyped, MissingTyped
  <2> QED
    BY <1>8, <2>1 DEF RequirementDiscovery, At, Batch, RunTypes, TypeOK, Phases, Ended, NoReport
<1>9. ASSUME RepairUnproven
      PROVE  /\ tasks' \subseteq [kind : Kinds, scope : SUBSET Symbols]
             /\ ran' \in BOOLEAN /\ phase' = "repaired"
  <2>1. head \in Heads /\ analysis.unproven \in SUBSET Ops
    BY DEF RunTypes, TypeOK
  <2> QED
    BY <1>9, <2>1, RepairsTyped DEF RepairUnproven, Batch
<1>10. CASE AfterDiscovery
  <2>2. phase = "discovered" /\ ~Ended
    BY <1>10 DEF AfterDiscovery, At
  <2>3. CASE Stop /\ UNCHANGED <<analysis, topologyAuthored>>
    BY <1>10, <2>2, <2>3 DEF AfterDiscovery, Stop, Report, GoTo, RunTypes, TypeOK, Phases, Ended, NoReport
  <2>4. CASE Again({}) /\ UNCHANGED <<topologyAuthored, report>>
    BY <1>10, <2>2, <2>4 DEF AfterDiscovery, Again, Batch, RunTypes, TypeOK, Phases, Ended, NoReport, NothingAnalysed
  <2>5. CASE Batch("realized", {TopologyAuthor}) /\ UNCHANGED <<analysis, report>>
    <3>1. {TopologyAuthor} \subseteq [kind : Kinds, scope : SUBSET Symbols]
      BY TasksTyped
    <3> QED
      BY <1>10, <2>2, <2>5, <3>1 DEF AfterDiscovery, Batch, RunTypes, TypeOK, Phases, Ended, NoReport
  <2>6. CASE RepairUnproven /\ UNCHANGED <<analysis, topologyAuthored, report>>
    BY <1>9, <1>10, <2>2, <2>6 DEF AfterDiscovery, RunTypes, TypeOK, Phases, Ended, NoReport
  <2> QED
    BY <1>10, <2>3, <2>4, <2>5, <2>6 DEF AfterDiscovery
<1>11. CASE AfterTopology
  <2>2. phase = "realized" /\ ~Ended
    BY <1>11 DEF AfterTopology, At
  <2>3. CASE Stop /\ UNCHANGED analysis
    BY <1>11, <2>2, <2>3 DEF AfterTopology, Stop, Report, GoTo, RunTypes, TypeOK, Phases, Ended, NoReport
  <2>4. CASE Again({}) /\ UNCHANGED report
    BY <1>11, <2>2, <2>4 DEF AfterTopology, Again, Batch, RunTypes, TypeOK, Phases, Ended, NoReport, NothingAnalysed
  <2>6. CASE RepairUnproven /\ UNCHANGED <<analysis, report>>
    BY <1>9, <1>11, <2>2, <2>6 DEF AfterTopology, RunTypes, TypeOK, Phases, Ended, NoReport
  <2> QED
    BY <1>11, <2>3, <2>4, <2>6 DEF AfterTopology
<1>12. CASE AfterRepair
  <2>2. phase = "repaired" /\ ~Ended
    BY <1>12 DEF AfterRepair, At
  <2>3. CASE Stop /\ UNCHANGED analysis
    BY <1>12, <2>2, <2>3 DEF AfterRepair, Stop, Report, GoTo, RunTypes, TypeOK, Phases, Ended, NoReport
  <2>4. CASE Again({}) /\ UNCHANGED report
    BY <1>12, <2>2, <2>4 DEF AfterRepair, Again, Batch, RunTypes, TypeOK, Phases, Ended, NoReport, NothingAnalysed
  <2>5. CASE GoTo("judge") /\ UNCHANGED <<analysis, report>>
    BY <1>12, <2>2, <2>5 DEF AfterRepair, GoTo, RunTypes, TypeOK, Phases, Ended, NoReport
  <2> QED
    BY <1>12, <2>3, <2>4, <2>5 DEF AfterRepair
<1>13. CASE Finalize
  <2>1. Judgement.kind \in {"success", "incomplete", "error"}
    BY DEF Judgement
  <2> QED
    BY <1>13, <2>1 DEF Finalize, Report, GoTo, RunTypes, TypeOK, Phases, Ended, NoReport
<1>14. CASE TaskEnds
  <2>1. PICK t \in tasks :
            /\ ~Ended
            /\ Commit(t.scope) \/ NoCommit
            /\ \/ UNCHANGED asks
               \/ \E x \in Targets \ t.scope :
                      asks' = Append(asks, [target |-> x, state |-> "open"])
            /\ Ends(t)
            /\ UNCHANGED <<driver, analysis, phase, ran, iterations, topologyAuthored, halt,
                           carried, outside, report>>
    BY <1>14 DEF TaskEnds
  <2>2. head' \in Heads /\ moved' \in BOOLEAN
    BY <2>1, AnEdit DEF NoCommit, RunTypes, TypeOK
  <2>3. asks' \in Seq(AskType) /\ DOMAIN asks \subseteq DOMAIN asks'
    <3>1. CASE UNCHANGED asks
      BY <3>1, AsksTyped
    <3>2. ASSUME NEW x \in Targets, asks' = Append(asks, [target |-> x, state |-> "open"])
          PROVE  asks' \in Seq(AskType) /\ DOMAIN asks \subseteq DOMAIN asks'
      <4>1. [target |-> x, state |-> "open"] \in AskType
        BY DEF AskType
      <4> QED
        BY <3>2, <4>1, AsksTyped
    <3> QED
      BY <2>1, <3>1, <3>2
  <2>4. tasks' \subseteq [kind : Kinds, scope : SUBSET Symbols] /\ discovered' \subseteq Ops
    BY <2>1, EndsTyped
  <2> QED
    BY <2>1, <2>2, <2>3, <2>4 DEF RunTypes, TypeOK, Ended, NoReport, AskType
<1>15. CASE HandedBack
  <2>1. PICK t \in tasks :
            /\ ~Ended /\ halt' = TRUE /\ NoCommit /\ Ends(t)
            /\ UNCHANGED <<driver, analysis, phase, ran, iterations, topologyAuthored, asks,
                           carried, outside, report>>
    BY <1>15 DEF HandedBack
  <2>2. tasks' \subseteq [kind : Kinds, scope : SUBSET Symbols] /\ discovered' \subseteq Ops
    BY <2>1, EndsTyped
  <2> QED
    BY <2>1, <2>2 DEF RunTypes, TypeOK, Ended, NoReport, NoCommit
<1>16. CASE AnalysisTimeout
  BY <1>16 DEF AnalysisTimeout, Report, GoTo, RunTypes, TypeOK, Phases, Ended, NoReport
<1>17. CASE AnalysisStuck
  BY <1>17 DEF AnalysisStuck, Report, GoTo, RunTypes, TypeOK, Phases, Ended, NoReport
<1>18. CASE TaskFails
  BY <1>18 DEF TaskFails, RunTypes, TypeOK, Phases, Ended, NoReport
<1>19. CASE OutsideCommit
  <2>1. head' \in Heads /\ moved' \in BOOLEAN
    BY <1>19, AnEdit DEF OutsideCommit
  <2> QED
    BY <1>19, <2>1 DEF OutsideCommit, RunTypes, TypeOK, Ended, NoReport
<1> QED
  BY <1>0, <1>1, <1>2, <1>3, <1>4, <1>5, <1>6, <1>7, <1>8, <1>10, <1>11, <1>12, <1>13,
     <1>14, <1>15, <1>16, <1>17, <1>18, <1>19 DEF Next, Step

LEMMA InitTyped == Init => RunTypes
<1>1. <<>> \in Seq([target : Targets, state : {"open", "applied", "declined"}])
  OBVIOUS
<1>2. Init => /\ asks \in Seq([target : Targets, state : {"open", "applied", "declined"}])
              /\ carried \subseteq DOMAIN asks
  BY <1>1 DEF Init
<1>3. Init => /\ iterations \in 0..MaxIterations + 1
              /\ ~(iterations > MaxIterations)
  BY RunConstants DEF Init
<1>4. Init => /\ analysis \in Analyses
              /\ report.kind = "none" /\ ~Ended
  BY DEF Init, Analyses, NothingAnalysed, NoReport, Ended
<1>5. Init => TypeOK
  <2>1. Init => /\ driver \in {"agents", "builders"} /\ head \in Heads /\ moved \in BOOLEAN
                /\ tasks \subseteq [kind : Kinds, scope : SUBSET Symbols]
                /\ discovered \subseteq Ops
    BY RunConstants DEF Init
  <2>2. Init => report.kind \in {"none", "success", "incomplete", "stopped", "error"}
    BY <1>4
  <2> QED
    BY <1>2, <1>3, <1>4, <2>1, <2>2 DEF TypeOK, Analyses
<1>6. Init => phase \in Phases /\ outside \in Nat
  BY DEF Init, Phases
<1>7. Init => halt \in BOOLEAN /\ ran \in BOOLEAN
  BY DEF Init
<1>8. Init => (iterations > MaxIterations => phase \in {"judge", "ended"})
  BY <1>3
<1>9. Init => (Ended => phase = "ended")
  BY <1>4
<1> QED
  BY <1>5, <1>6, <1>7, <1>8, <1>9 DEF RunTypes

\* Every value the workflow keeps has its type, every ask a dispatch carries
\* was filed, and no iteration starts over the budget but the one that is
\* judged as it is (Workflow::run).
THEOREM RunTypeCorrect == Spec => []RunTypes
BY InitTyped, TypesStep, PTL DEF Spec

-----------------------------------------------------------------------------
(* One writer per symbol *)

\* The scope of a task grants the requirements of an operation only once
\* discovery was scheduled for it, which it is once in a run.
ChainedOnce ==
    \A t \in tasks : \A o \in Ops : Requirements(o) \in t.scope => o \in discovered

WriterInv == RunTypes /\ ChainedOnce /\ NoTwoWriters

\* Two minimal closed sets that meet are one: what they share is closed too.
LEMMA GroupsApart ==
    ASSUME NEW h, NEW unproven,
           NEW f \in RepairGroups(h, unproven), NEW g \in RepairGroups(h, unproven),
           f # g
    PROVE  f \cap g = {}
<1> DEFINE named(o) == Names[o] \cap Present(h)
           members == unproven \cup UNION {named(o) : o \in unproven}
           Closed(s) == \A o \in unproven : \A p \in named(o) : o \in s <=> p \in s
           closed == {s \in SUBSET members : s # {} /\ Closed(s)}
<1>1. /\ f \in closed /\ \A s \in closed : s \subseteq f => s = f
      /\ g \in closed /\ \A s \in closed : s \subseteq g => s = g
  BY DEF RepairGroups
<1>2. ASSUME f \cap g # {} PROVE FALSE
  <2>1. Closed(f) /\ Closed(g)
    BY <1>1
  <2>2. Closed(f \cap g)
    BY <2>1
  <2>3. f \cap g \in SUBSET members
    BY <1>1
  <2> HIDE DEF members, Closed
  <2>4. f \cap g \in closed
    BY <1>2, <2>2, <2>3
  <2> HIDE DEF closed
  <2>5. f \cap g = f /\ f \cap g = g
    BY <1>1, <2>4
  <2> QED
    BY <2>5
<1> QED
  BY <1>2

Apart(batch) == \A t, u \in batch : t # u => t.scope \cap u.scope = {}

LEMMA SymbolsDiffer ==
    /\ \A o, p : Program(o) = Program(p) => o = p
    /\ \A o, p : Requirements(o) = Requirements(p) => o = p
    /\ \A o, p : Program(o) # Requirements(p)
    /\ \A o : Requirements(o) # Skeleton /\ Requirements(o) # Topology
BY DEF Program, Requirements, Skeleton, Topology

LEMMA RepairsApart ==
    ASSUME NEW h, NEW unproven
    PROVE  Apart(RepairTasks(h, unproven))
<1> SUFFICES ASSUME NEW t \in RepairTasks(h, unproven), NEW u \in RepairTasks(h, unproven),
                    t # u
             PROVE  t.scope \cap u.scope = {}
  BY DEF Apart
<1>1. PICK f \in RepairGroups(h, unproven) : t = Task("repair", {Program(o) : o \in f})
  BY DEF RepairTasks
<1>2. PICK g \in RepairGroups(h, unproven) : u = Task("repair", {Program(o) : o \in g})
  BY DEF RepairTasks
<1>3. f \cap g = {}
  BY <1>1, <1>2, GroupsApart
<1>4. t.scope = {Program(o) : o \in f} /\ u.scope = {Program(o) : o \in g}
  BY <1>1, <1>2 DEF Task
<1> QED
  BY <1>3, <1>4, SymbolsDiffer

LEMMA TaskScope == \A kind, scope : Task(kind, scope).scope = scope
BY DEF Task

LEMMA BatchesApart ==
    ASSUME NEW operations
    PROVE  /\ Apart(Synthesis(operations))
           /\ Apart(Revision(operations))
           /\ Apart(Discovery(operations))
<1>1. ASSUME NEW kind PROVE Apart({Task(kind, {Program(o)}) : o \in operations})
  <2> SUFFICES ASSUME NEW o \in operations, NEW p \in operations,
                      Task(kind, {Program(o)}) # Task(kind, {Program(p)})
               PROVE  Task(kind, {Program(o)}).scope \cap Task(kind, {Program(p)}).scope = {}
    BY Zenon DEF Apart
  <2> QED
    BY TaskScope, SymbolsDiffer
<1>2. ASSUME NEW kind PROVE Apart({Task(kind, {Requirements(o)}) : o \in operations})
  <2> SUFFICES ASSUME NEW o \in operations, NEW p \in operations,
                      Task(kind, {Requirements(o)}) # Task(kind, {Requirements(p)})
               PROVE  Task(kind, {Requirements(o)}).scope
                          \cap Task(kind, {Requirements(p)}).scope = {}
    BY Zenon DEF Apart
  <2> QED
    BY TaskScope, SymbolsDiffer
<1> QED
  BY <1>1, <1>2 DEF Synthesis, Revision, Discovery

LEMMA AsksApart == \A open : Apart(DependencyTasks(open))
<1> SUFFICES ASSUME NEW open, NEW i \in open, NEW j \in open,
                    Task("dependency", {asks[i].target}) # Task("dependency", {asks[j].target})
             PROVE  Task("dependency", {asks[i].target}).scope
                        \cap Task("dependency", {asks[j].target}).scope = {}
  BY Zenon DEF Apart, DependencyTasks
<1> QED
  BY TaskScope

LEMMA SmallBatchesApart == (\A t : Apart({t})) /\ Apart({})
BY DEF Apart

\* Only discovery's tasks are granted requirements.
LEMMA WhoDeclares ==
    ASSUME NEW o
    PROVE  /\ \A operations : \A t \in Synthesis(operations) : Requirements(o) \notin t.scope
           /\ \A operations : \A t \in Revision(operations) : Requirements(o) \notin t.scope
           /\ \A operations : \A t \in Discovery(operations) :
                  Requirements(o) \in t.scope => o \in operations
           /\ \A h, unproven : \A t \in RepairTasks(h, unproven) :
                  Requirements(o) \notin t.scope
           /\ Requirements(o) \notin TopologyAuthor.scope
           /\ Requirements(o) \notin Task("decompose", {Skeleton}).scope
<1>1. ASSUME NEW operations, NEW t \in Synthesis(operations)
      PROVE  Requirements(o) \notin t.scope
  <2>1. PICK p \in operations : t = Task("synthesis", {Program(p)})
    BY DEF Synthesis
  <2>2. t.scope = {Program(p)}
    BY <2>1, TaskScope
  <2> QED
    BY <2>2, SymbolsDiffer
<1>2. ASSUME NEW operations, NEW t \in Revision(operations)
      PROVE  Requirements(o) \notin t.scope
  <2>1. PICK p \in operations : t = Task("revision", {Program(p)})
    BY DEF Revision
  <2>2. t.scope = {Program(p)}
    BY <2>1, TaskScope
  <2> QED
    BY <2>2, SymbolsDiffer
<1>3. ASSUME NEW operations, NEW t \in Discovery(operations), Requirements(o) \in t.scope
      PROVE  o \in operations
  <2>1. PICK p \in operations : t = Task("discovery", {Requirements(p)})
    BY DEF Discovery
  <2> QED
    BY <1>3, <2>1, TaskScope, SymbolsDiffer
<1>4. ASSUME NEW h, NEW unproven, NEW t \in RepairTasks(h, unproven)
      PROVE  Requirements(o) \notin t.scope
  <2>1. PICK g \in RepairGroups(h, unproven) : t = Task("repair", {Program(p) : p \in g})
    BY DEF RepairTasks
  <2>2. t.scope = {Program(p) : p \in g}
    BY <2>1, TaskScope
  <2> QED
    BY <2>2, SymbolsDiffer
<1>5. /\ Requirements(o) \notin TopologyAuthor.scope
      /\ Requirements(o) \notin Task("decompose", {Skeleton}).scope
  BY TaskScope, SymbolsDiffer DEF TopologyAuthor
<1> QED
  BY <1>1, <1>2, <1>3, <1>4, <1>5

LEMMA NoAskForRequirements ==
    ASSUME RunTypes, NEW open \in SUBSET DOMAIN asks,
           NEW t \in DependencyTasks(open), NEW o \in Ops
    PROVE  Requirements(o) \notin t.scope
<1>1. PICK i \in open : t = Task("dependency", {asks[i].target})
  BY DEF DependencyTasks
<1>2. asks[i].target \in Targets
  BY <1>1, AsksTyped DEF AskType
<1> QED
  BY <1>1, <1>2, SymbolsDiffer DEF Targets, Task

\* The batch of tasks one step schedules: apart, and granting requirements only
\* of operations discovery was scheduled for.
Scheduled(batch, found) ==
    /\ Apart(batch)
    /\ \A t \in batch : \A o \in Ops : Requirements(o) \in t.scope => o \in found

LEMMA EndsKeepApart ==
    ASSUME WriterInv, NEW t \in tasks, Ends(t)
    PROVE  ChainedOnce' /\ NoTwoWriters'
<1> DEFINE C == Chained(t)
<1>1. C \subseteq Ops /\ C \cap discovered = {}
  BY DEF Chained, Undiscovered, Present
<1>2. tasks' = (tasks \ {t}) \cup Discovery(C) /\ discovered' = discovered \cup C
  BY DEF Ends
<1> HIDE DEF C
<1>3. \A u \in Discovery(C) : \E o \in C : u.scope = {Requirements(o)}
  BY TaskScope DEF Discovery
<1>4. \A u \in tasks, o \in C : Requirements(o) \notin u.scope
  BY <1>1 DEF WriterInv, ChainedOnce
<1>5. \A u \in tasks, w \in Discovery(C) : u.scope \cap w.scope = {}
  BY <1>3, <1>4
<1>6. Apart(Discovery(C))
  BY BatchesApart
<1>7. \A u, w \in tasks : u # w => u.scope \cap w.scope = {}
  BY DEF WriterInv, NoTwoWriters
<1>8. NoTwoWriters'
  BY <1>2, <1>5, <1>6, <1>7 DEF Apart, NoTwoWriters
<1>9. \A u \in Discovery(C) : \A o \in Ops : Requirements(o) \in u.scope => o \in C
  BY WhoDeclares
<1>10. ChainedOnce'
  BY <1>2, <1>9 DEF WriterInv, ChainedOnce
<1> QED
  BY <1>8, <1>10

LEMMA BatchKeepsApart ==
    ASSUME WriterInv, NEW batch, tasks' = batch, Scheduled(batch, discovered'),
           discovered \subseteq discovered'
    PROVE  ChainedOnce' /\ NoTwoWriters'
BY DEF Scheduled, Apart, ChainedOnce, NoTwoWriters

LEMMA SameTasksKeepApart ==
    ASSUME WriterInv, tasks' \subseteq tasks, discovered' = discovered
    PROVE  ChainedOnce' /\ NoTwoWriters'
BY DEF WriterInv, ChainedOnce, NoTwoWriters

LEMMA WritersStep ==
    ASSUME WriterInv, [Next]_vars
    PROVE  WriterInv'
<1>0. RunTypes'
  BY TypesStep DEF WriterInv
<1>1. CASE tasks' \subseteq tasks /\ discovered' = discovered
  BY <1>0, <1>1, SameTasksKeepApart DEF WriterInv
<1>2. ASSUME NEW batch, tasks' = batch, Scheduled(batch, discovered'),
             discovered \subseteq discovered'
      PROVE  WriterInv'
  BY <1>0, <1>2, BatchKeepsApart DEF WriterInv
<1>3. ASSUME NEW t \in tasks, Ends(t)
      PROVE  WriterInv'
  BY <1>0, <1>3, EndsKeepApart DEF WriterInv
<1>4. \A operations, found :
          /\ Scheduled(Synthesis(operations), found)
          /\ Scheduled(Revision(operations), found)
          /\ Scheduled({TopologyAuthor}, found)
          /\ Scheduled({}, found)
  BY BatchesApart, SmallBatchesApart, WhoDeclares DEF Scheduled
<1>5. \A h, unproven, found : Scheduled(RepairTasks(h, unproven), found)
  BY RepairsApart, WhoDeclares DEF Scheduled
<1>6. \A next, batch : Batch(next, batch) => tasks' = batch
  BY DEF Batch
<1>7. CASE UNCHANGED vars
  BY <1>1, <1>7 DEF vars
<1>8. CASE Decompose
  <2>1. Scheduled({Task("decompose", {Skeleton})}, discovered')
    BY SmallBatchesApart, WhoDeclares DEF Scheduled
  <2>2. tasks' \in {{}, {Task("decompose", {Skeleton})}} /\ discovered' = discovered
    BY <1>6, <1>8 DEF Decompose
  <2> QED
    BY <1>2, <1>4, <2>1, <2>2
<1>9. CASE OperationFanout
  <2>1. tasks' = Synthesis(Missing(head)) /\ discovered' = discovered
    BY <1>6, <1>9 DEF OperationFanout
  <2> QED
    BY <1>2, <1>4, <2>1
<1>10. CASE NextIteration
  <2>1. discovered' = discovered
    BY <1>10 DEF NextIteration
  <2>2. CASE UNCHANGED tasks
    BY <1>1, <2>1, <2>2
  <2>3. CASE Batch("dispatched", DependencyTasks(Open))
    <3>1. Open \in SUBSET DOMAIN asks
      BY DEF Open
    <3>2. \A t \in DependencyTasks(Open) : \A o \in Ops : Requirements(o) \notin t.scope
      BY <3>1, NoAskForRequirements DEF WriterInv
    <3>3. Scheduled(DependencyTasks(Open), discovered')
      BY <3>2, AsksApart DEF Scheduled
    <3> QED
      BY <1>2, <1>6, <2>1, <2>3, <3>3
  <2> QED
    BY <1>10, <2>2, <2>3 DEF NextIteration, Stop, Report, GoTo
<1>11. CASE SettleAsks
  BY <1>1, <1>11 DEF SettleAsks, GoTo
<1>12. CASE FillGaps
  <2>1. discovered' = discovered
    BY <1>12 DEF FillGaps
  <2>2. tasks' = tasks \/ tasks' = Synthesis(Missing(head))
    BY <1>6, <1>12 DEF FillGaps, Report, GoTo, Again
  <2> QED
    BY <1>1, <1>2, <1>4, <2>1, <2>2
<1>13. CASE RepairErrors
  <2>1. discovered' = discovered
    BY <1>13 DEF RepairErrors
  <2>2. tasks' = tasks \/ tasks' = Revision(Named) \/ tasks' = {TopologyAuthor}
    BY <1>6, <1>13 DEF RepairErrors, Report, GoTo, Again
  <2> QED
    BY <1>1, <1>2, <1>4, <2>1, <2>2
<1>14. CASE RepairPrograms
  <2>1. tasks' = Revision(Named) /\ discovered' = discovered
    BY <1>6, <1>14 DEF RepairPrograms, Again
  <2> QED
    BY <1>2, <1>4, <2>1
<1>15. CASE RequirementDiscovery
  <2>1. tasks' = Discovery(Discoverable) /\ discovered' = discovered \cup Discoverable
    BY <1>6, <1>15 DEF RequirementDiscovery
  <2>2. Scheduled(Discovery(Discoverable), discovered')
    BY <2>1, BatchesApart, WhoDeclares DEF Scheduled
  <2> QED
    BY <1>2, <2>1, <2>2
<1>16. ASSUME RepairUnproven PROVE tasks' = RepairTasks(head, analysis.unproven)
  BY <1>6, <1>16 DEF RepairUnproven
<1>17. CASE AfterDiscovery
  <2>1. discovered' = discovered
    BY <1>17 DEF AfterDiscovery
  <2>2. \/ tasks' = tasks \/ tasks' = {} \/ tasks' = {TopologyAuthor}
        \/ tasks' = RepairTasks(head, analysis.unproven)
    BY <1>6, <1>16, <1>17 DEF AfterDiscovery, Stop, Report, GoTo, Again
  <2> QED
    BY <1>1, <1>2, <1>4, <1>5, <2>1, <2>2
<1>18. CASE AfterTopology
  <2>1. discovered' = discovered
    BY <1>18 DEF AfterTopology
  <2>2. \/ tasks' = tasks \/ tasks' = {}
        \/ tasks' = RepairTasks(head, analysis.unproven)
    BY <1>6, <1>16, <1>18 DEF AfterTopology, Stop, Report, GoTo, Again
  <2> QED
    BY <1>1, <1>2, <1>4, <1>5, <2>1, <2>2
<1>19. CASE AfterRepair
  <2>1. discovered' = discovered
    BY <1>19 DEF AfterRepair
  <2>2. tasks' = tasks \/ tasks' = {}
    BY <1>6, <1>19 DEF AfterRepair, Stop, Report, GoTo, Again
  <2> QED
    BY <1>1, <1>2, <1>4, <2>1, <2>2
<1>20. CASE Finalize \/ AnalysisTimeout \/ AnalysisStuck
  BY <1>1, <1>20 DEF Finalize, AnalysisTimeout, AnalysisStuck, Report, GoTo
<1>21. CASE TaskEnds
  BY <1>3, <1>21 DEF TaskEnds
<1>22. CASE HandedBack
  BY <1>3, <1>22 DEF HandedBack
<1>23. CASE TaskFails
  BY <1>1, <1>23 DEF TaskFails
<1>24. CASE OutsideCommit
  BY <1>1, <1>24 DEF OutsideCommit
<1> QED
  BY <1>7, <1>8, <1>9, <1>10, <1>11, <1>12, <1>13, <1>14, <1>15, <1>17, <1>18, <1>19,
     <1>20, <1>21, <1>22, <1>23, <1>24 DEF Next, Step

\* No two tasks that run at once may write the same symbol, whatever the
\* evidence about programs names and whatever was asked for: repair groups
\* are disjoint, and discovery is chained once per operation (repair_groups,
\* group_dependency_requests, operation_fanout's closure).
THEOREM WritersAreApart == Spec => []NoTwoWriters
<1>1. Init => ChainedOnce /\ NoTwoWriters
  BY DEF Init, ChainedOnce, NoTwoWriters
<1>2. Init => RunTypes
  BY InitTyped
<1>3. Init => WriterInv
  BY <1>1, <1>2 DEF WriterInv
<1>4. WriterInv => NoTwoWriters
  BY DEF WriterInv
<1> QED
  BY <1>3, <1>4, WritersStep, PTL DEF Spec

-----------------------------------------------------------------------------
(* Success *)

\* Nobody else wrote: what was analysed is the head, until a task commits, and
\* a repair that had nothing to do has changed nothing.
Followed ==
    /\ phase \in {"analysed", "judge"} => tasks = {}
    /\ ~ran => tasks = {}
    /\ outside = 0 =>
          /\ phase = "analysed" => analysis = Analysis(head)
          /\ phase \in {"discovered", "realized", "repaired"} /\ ~moved =>
                analysis = Analysis(head) /\ Undiscovered(head) \subseteq discovered
          /\ phase = "repaired" /\ ~ran => ~moved
          /\ phase = "judge" =>
                /\ analysis = Analysis(head)
                /\ iterations <= MaxIterations => Undiscovered(head) \subseteq discovered

\* A run that was handed something back is not in a phase that reads a verdict.
Halted == halt /\ ~Ended => phase \notin {"analysed", "judge"}

SuccessInv == RunTypes /\ Followed /\ Halted /\ SuccessIsSound /\ HandedBackIsNotJudged

LEMMA EndedIsOver == ASSUME Next PROVE ~Ended
BY DEF Next, Step, Decompose, OperationFanout, NextIteration, SettleAsks, FillGaps,
       RepairErrors, RepairPrograms, RequirementDiscovery, AfterDiscovery, AfterTopology,
       AfterRepair, Finalize, TaskEnds, HandedBack, AnalysisTimeout, AnalysisStuck,
       TaskFails, OutsideCommit, At

\* What a step that reports nothing must show, and what one that ends the run
\* without success must.
LEMMA RunsOn ==
    ASSUME ~Ended, UNCHANGED report, Followed', Halted'
    PROVE  Followed' /\ Halted' /\ SuccessIsSound' /\ HandedBackIsNotJudged'
BY DEF Ended, NoReport, SuccessIsSound, HandedBackIsNotJudged

LEMMA EndsWithout ==
    ASSUME ~Ended, NEW kind \in {"incomplete", "stopped", "error"}, NEW reason,
           report' = [kind |-> kind, reason |-> reason], phase' = "ended",
           ~ran' => tasks' = {}, halt' => kind \in {"stopped", "error"}
    PROVE  Followed' /\ Halted' /\ SuccessIsSound' /\ HandedBackIsNotJudged'
BY DEF Ended, NoReport, SuccessIsSound, HandedBackIsNotJudged, Followed, Halted

\* The verdict a run ends with by success was read off what is there.
LEMMA JudgedSuccess ==
    ASSUME RunTypes, Followed, phase = "judge", Judgement.kind = "success", outside = 0
    PROVE  /\ Verdict(head) = "ready"
           /\ Present(head) # {}
           /\ \A o \in head.declared \cap Present(head) : Proven(head, o)
           /\ ~Unmapped(head)
           /\ Open = {}
           /\ iterations <= MaxIterations =>
                 \A o \in Present(head) : o \in head.declared \/ o \in discovered
<1>1. /\ analysis.verdict = "ready" /\ Present(head) # {} /\ analysis.unproven = {}
      /\ ~Unmapped(head) /\ Open = {}
  BY DEF Judgement
<1>2. /\ analysis = Analysis(head)
      /\ iterations <= MaxIterations => Undiscovered(head) \subseteq discovered
  BY DEF Followed
<1>3. Verdict(head) = "ready"
  BY <1>1, <1>2 DEF Analysis
<1>4. {o \in head.declared \cap Present(head) : ~Proven(head, o)} = {}
  BY <1>1, <1>2 DEF Analysis
<1>5. \A o \in Present(head) : o \in head.declared \/ o \in Undiscovered(head)
  BY DEF Undiscovered
<1> QED
  BY <1>1, <1>2, <1>3, <1>4, <1>5

LEMMA SuccessStep ==
    ASSUME SuccessInv, [Next]_vars
    PROVE  SuccessInv'
<1> DEFINE Goal == Followed' /\ Halted' /\ SuccessIsSound' /\ HandedBackIsNotJudged'
<1> SUFFICES Goal
  BY TypesStep DEF SuccessInv
<1>1. CASE UNCHANGED vars
  <2>1. UNCHANGED <<Followed, Halted, SuccessIsSound, HandedBackIsNotJudged>>
    BY <1>1 DEF vars, Followed, Halted, SuccessIsSound, HandedBackIsNotJudged, Open, Ended
  <2> QED
    BY <2>1 DEF SuccessInv
<1>2. SUFFICES ASSUME Next PROVE Goal
  BY <1>1
<1>3. ~Ended
  BY <1>2, EndedIsOver
<1>4. /\ outside \in Nat /\ ran \in BOOLEAN /\ Halted /\ phase \in Phases
      /\ halt => phase \notin {"analysed", "judge"}
  BY <1>3 DEF SuccessInv, RunTypes, Halted
<1>5. ASSUME UNCHANGED report, Followed', Halted' PROVE Goal
  BY <1>3, <1>5, RunsOn
<1>6. ASSUME NEW kind \in {"incomplete", "stopped", "error"}, NEW reason,
             Report(kind, reason), UNCHANGED halt, halt => kind \in {"stopped", "error"}
      PROVE  Goal
  <2>1. ~ran' => tasks' = {}
    BY <1>6 DEF Report, GoTo, SuccessInv, Followed
  <2> QED
    BY <1>3, <1>6, <2>1, EndsWithout DEF Report, GoTo
<1>7. ASSUME NEW next, NEW batch, Batch(next, batch),
             next \notin {"analysed", "judge", "discovered", "realized", "repaired"},
             UNCHANGED report
      PROVE  Goal
  <2>1. Followed' /\ Halted'
    BY <1>7 DEF Batch, Followed, Halted
  <2> QED
    BY <1>5, <1>7, <2>1
<1>8. CASE Decompose
  BY <1>7, <1>8 DEF Decompose
<1>9. CASE OperationFanout
  BY <1>7, <1>9 DEF OperationFanout
<1>10. CASE NextIteration
  <2>0. phase = "top" /\ tasks = {}
    BY <1>10 DEF NextIteration, At
  <2>1. CASE Stop
    BY <1>6, <1>10, <2>1 DEF NextIteration, Stop
  <2>2. CASE /\ ~halt /\ OverBudget /\ Pin /\ GoTo("judge") /\ UNCHANGED report
    <3>1. iterations' > MaxIterations /\ iterations' \in Nat
      BY <1>10, <2>2, RunConstants DEF NextIteration, OverBudget, SuccessInv, RunTypes, TypeOK
    <3>2. ~(iterations' <= MaxIterations)
      BY <3>1, RunConstants
    <3>3. head' = head /\ analysis' = Analysis(head) /\ tasks' = {} /\ phase' = "judge"
          /\ ~halt'
      BY <1>10, <2>0, <2>2 DEF NextIteration, Pin, GoTo
    <3>4. Followed' /\ Halted'
      BY <3>2, <3>3 DEF Followed, Halted
    <3> QED
      BY <1>5, <2>2, <3>4
  <2>3. CASE Batch("dispatched", DependencyTasks(Open)) /\ UNCHANGED report
    BY <1>7, <2>3
  <2>4. CASE ~halt /\ Pin /\ GoTo("analysed") /\ UNCHANGED report
    <3>1. head' = head /\ analysis' = Analysis(head) /\ tasks' = {} /\ phase' = "analysed"
          /\ ~halt'
      BY <1>10, <2>0, <2>4 DEF NextIteration, Pin, GoTo
    <3>2. Followed' /\ Halted'
      BY <3>1 DEF Followed, Halted
    <3> QED
      BY <1>5, <2>4, <3>2
  <2> QED
    BY <1>10, <2>1, <2>2, <2>3, <2>4 DEF NextIteration
<1>11. CASE SettleAsks
  <2>1. Followed' /\ Halted'
    BY <1>11 DEF SettleAsks, GoTo, At, Followed, Halted
  <2> QED
    BY <1>5, <1>11, <2>1 DEF SettleAsks
<1>12. CASE FillGaps
  <2>1. ~halt
    BY <1>4, <1>12 DEF FillGaps, At
  <2>2. CASE Report("incomplete", "gaps of no operation")
    BY <1>6, <1>12, <2>1, <2>2 DEF FillGaps
  <2>3. CASE Again(Synthesis(Missing(head))) /\ UNCHANGED report
    BY <1>7, <2>3 DEF Again
  <2> QED
    BY <1>12, <2>2, <2>3 DEF FillGaps
<1>13. CASE RepairErrors
  <2>1. ~halt
    BY <1>4, <1>13 DEF RepairErrors, At
  <2>2. CASE Report("incomplete", "errors of no operation")
    BY <1>6, <1>13, <2>1, <2>2 DEF RepairErrors
  <2>3. CASE Batch("repairPrograms", {TopologyAuthor}) /\ UNCHANGED report
    BY <1>7, <2>3
  <2>4. CASE Again(Revision(Named)) /\ UNCHANGED report
    BY <1>7, <2>4 DEF Again
  <2> QED
    BY <1>13, <2>2, <2>3, <2>4 DEF RepairErrors
<1>14. CASE RepairPrograms
  BY <1>7, <1>14 DEF RepairPrograms, Again
<1>15. CASE RequirementDiscovery
  <2>1. phase = "analysed" /\ Followed
    BY <1>15 DEF RequirementDiscovery, At, SuccessInv
  <2>2. /\ ran' = (tasks' # {}) /\ phase' = "discovered" /\ outside' = outside
        /\ head' = head /\ analysis' = analysis
        /\ discovered' = discovered \cup (Undiscovered(head) \ discovered)
    BY <1>15 DEF RequirementDiscovery, Batch, Discoverable
  <2>3. Followed' /\ Halted'
    BY <2>1, <2>2 DEF Followed, Halted
  <2> QED
    BY <1>5, <1>15, <2>3 DEF RequirementDiscovery
<1>16. ASSUME phase \in {"discovered", "realized"}, ~moved,
              \E batch : Batch("repaired", batch) \/ Batch("realized", batch),
              UNCHANGED <<head, moved, analysis, discovered, outside, report>>
       PROVE  Goal
  <2>1. ran' = (tasks' # {}) /\ phase' \in {"repaired", "realized"}
    BY <1>16 DEF Batch
  <2>2. Followed' /\ Halted'
    BY <1>16, <2>1 DEF SuccessInv, Followed, Halted
  <2> QED
    BY <1>5, <1>16, <2>2
<1>17. CASE AfterDiscovery
  <2>1. phase = "discovered"
        /\ UNCHANGED <<head, moved, discovered, outside, halt>>
    BY <1>17 DEF AfterDiscovery, At
  <2>2. CASE Stop
    BY <1>6, <2>1, <2>2 DEF Stop
  <2>3. CASE Again({}) /\ UNCHANGED report
    BY <1>7, <2>3 DEF Again
  <2>4. CASE ~moved /\ Batch("realized", {TopologyAuthor}) /\ UNCHANGED <<analysis, report>>
    BY <1>16, <2>1, <2>4
  <2>5. CASE ~moved /\ RepairUnproven /\ UNCHANGED <<analysis, topologyAuthored, report>>
    BY <1>16, <2>1, <2>5 DEF RepairUnproven
  <2> QED
    BY <1>17, <2>2, <2>3, <2>4, <2>5 DEF AfterDiscovery
<1>18. CASE AfterTopology
  <2>1. phase = "realized"
        /\ UNCHANGED <<head, moved, discovered, outside, halt>>
    BY <1>18 DEF AfterTopology, At
  <2>2. CASE Stop
    BY <1>6, <2>1, <2>2 DEF Stop
  <2>3. CASE Again({}) /\ UNCHANGED report
    BY <1>7, <2>3 DEF Again
  <2>4. CASE ~Progress /\ RepairUnproven /\ UNCHANGED <<analysis, report>>
    <3>1. ~moved
      BY <2>4 DEF Progress
    <3> QED
      BY <1>16, <2>1, <2>4, <3>1 DEF RepairUnproven
  <2> QED
    BY <1>18, <2>2, <2>3, <2>4 DEF AfterTopology
<1>19. CASE AfterRepair
  <2>1. phase = "repaired" /\ tasks = {}
        /\ UNCHANGED <<head, moved, iterations, discovered, outside, halt>>
    BY <1>19 DEF AfterRepair, At
  <2>2. CASE Stop
    BY <1>6, <2>1, <2>2 DEF Stop
  <2>3. CASE Again({}) /\ UNCHANGED report
    BY <1>7, <2>3 DEF Again
  <2>4. CASE ~halt /\ (~ran \/ ~Progress) /\ GoTo("judge") /\ UNCHANGED <<analysis, report>>
    <3>1. outside = 0 => ~moved
      BY <2>1, <2>4 DEF Progress, SuccessInv, Followed
    <3>2. outside = 0 => analysis = Analysis(head) /\ Undiscovered(head) \subseteq discovered
      BY <2>1, <3>1 DEF SuccessInv, Followed
    <3>3. tasks' = {} /\ phase' = "judge" /\ ~halt'
      BY <2>1, <2>4 DEF GoTo
    <3>4. Followed' /\ Halted'
      BY <2>1, <2>4, <3>2, <3>3 DEF Followed, Halted
    <3> QED
      BY <1>5, <2>4, <3>4
  <2> QED
    BY <1>19, <2>2, <2>3, <2>4 DEF AfterRepair
<1>20. CASE Finalize
  <2>1. phase = "judge" /\ ~halt
    BY <1>4, <1>20 DEF Finalize, At
  <2>2. Judgement.kind \in {"success", "incomplete", "error"}
    BY DEF Judgement
  <2>3. CASE Judgement.kind # "success"
    BY <1>6, <1>20, <2>1, <2>2, <2>3 DEF Finalize
  <2>4. CASE Judgement.kind = "success"
    <3>1. outside = 0 =>
           /\ Verdict(head) = "ready"
           /\ Present(head) # {}
           /\ \A o \in head.declared \cap Present(head) : Proven(head, o)
           /\ ~Unmapped(head)
           /\ Open = {}
           /\ iterations <= MaxIterations =>
                 \A o \in Present(head) : o \in head.declared \/ o \in discovered
      BY <2>1, <2>4, JudgedSuccess DEF SuccessInv
    <3>2. UNCHANGED <<head, asks, iterations, discovered, outside, halt>>
      BY <1>20 DEF Finalize
    <3>3. SuccessIsSound'
      BY <3>1, <3>2 DEF SuccessIsSound, Open
    <3>4. HandedBackIsNotJudged'
      BY <2>1, <3>2 DEF HandedBackIsNotJudged
    <3>5. phase' = "ended" /\ report' # NoReport /\ UNCHANGED <<tasks, ran>>
      BY <1>20, <2>4 DEF Finalize, Report, GoTo, NoReport
    <3>6. Followed' /\ Halted'
      BY <3>5 DEF Followed, Halted, SuccessInv
    <3> QED
      BY <3>3, <3>4, <3>6
  <2> QED
    BY <2>3, <2>4
<1>21. ASSUME NEW t \in tasks, Ends(t), Commit(t.scope) \/ NoCommit,
              UNCHANGED <<analysis, phase, ran, iterations, outside, report>>
       PROVE  Goal
  <2>1. phase \notin {"analysed", "judge"} /\ ran
    BY <1>21 DEF SuccessInv, Followed
  <2>2. discovered \subseteq discovered'
    BY <1>21 DEF Ends
  <2>3. moved' \/ (moved' = moved /\ head' = head)
    BY <1>21 DEF Commit, NoCommit
  <2>4. Followed' /\ Halted'
    BY <1>21, <2>1, <2>2, <2>3 DEF SuccessInv, Followed, Halted
  <2> QED
    BY <1>5, <1>21, <2>4
<1>22. CASE TaskEnds
  BY <1>21, <1>22 DEF TaskEnds
<1>23. CASE HandedBack
  BY <1>21, <1>23 DEF HandedBack
<1>24. CASE AnalysisTimeout
  BY <1>6, <1>24 DEF AnalysisTimeout
<1>25. CASE AnalysisStuck
  <2>1. ~halt
    BY <1>4, <1>25 DEF AnalysisStuck, At
  <2> QED
    BY <1>6, <1>25, <2>1 DEF AnalysisStuck
<1>26. CASE TaskFails
  BY <1>3, <1>26, EndsWithout DEF TaskFails
<1>27. CASE OutsideCommit
  <2>1. outside' # 0
    BY <1>4, <1>27 DEF OutsideCommit
  <2>2. Followed' /\ Halted'
    BY <1>4, <1>27, <2>1 DEF OutsideCommit, SuccessInv, Followed, Halted, Ended
  <2> QED
    BY <1>5, <1>27, <2>2 DEF OutsideCommit
<1> QED
  BY <1>2, <1>8, <1>9, <1>10, <1>11, <1>12, <1>13, <1>14, <1>15, <1>17, <1>18, <1>19,
     <1>20, <1>22, <1>23, <1>24, <1>25, <1>26, <1>27 DEF Next, Step

LEMMA SuccessHolds == Spec => []SuccessInv
<1>1. Init => SuccessInv
  <2>1. Init => report = NoReport /\ ~halt /\ tasks = {} /\ phase = "decompose"
    BY DEF Init
  <2>2. Init => Followed /\ Halted
    BY <2>1 DEF Followed, Halted
  <2>3. Init => SuccessIsSound /\ HandedBackIsNotJudged
    BY <2>1 DEF NoReport, SuccessIsSound, HandedBackIsNotJudged
  <2> QED
    BY <2>2, <2>3, InitTyped DEF SuccessInv
<1> QED
  BY <1>1, SuccessStep, PTL DEF Spec

\* A run that reports success while nobody else wrote leaves a design that
\* validates, with every requirement proven, every obligation mapped and no ask
\* open; and unless its budget ended it, requirements of every operation were
\* looked for (Workflow::run, Workflow::finalize): the two phases that may
\* commit between the verdict and the report never leave it behind.
THEOREM SuccessIsTrue == Spec => []SuccessIsSound
<1>1. SuccessInv => SuccessIsSound
  BY DEF SuccessInv
<1> QED
  BY <1>1, SuccessHolds, PTL

\* A design is never judged, well or badly, once a task was handed back to the
\* caller (Workflow::stopped, HandOffBackend::run).
THEOREM HandedBackStops == Spec => []HandedBackIsNotJudged
<1>1. SuccessInv => HandedBackIsNotJudged
  BY DEF SuccessInv
<1> QED
  BY <1>1, SuccessHolds, PTL

=============================================================================
