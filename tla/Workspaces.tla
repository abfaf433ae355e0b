------------------------------- MODULE Workspaces -------------------------------
(***************************************************************************)
(* Tasks that write one design together: each is given a snapshot of the   *)
(* head and a write scope, reads parts of the snapshot, and submits a      *)
(* patch, which the commit gate judges against the head that there is by   *)
(* then (src/design/engine.rs, validate_and_commit).                       *)
(*                                                                         *)
(* DesignEngine is the same gate with the design reduced to versions of    *)
(* symbols; here the symbols, what a patch writes and refers to, and the   *)
(* checks are those of the code, and sessions, persistence and crashes are *)
(* left to DesignEngine and ProjectStore.                                  *)
(***************************************************************************)
EXTENDS DraftRules

CONSTANTS Tasks,
          Scope,           \* task -> what it may write: its grants
          Offers,          \* task -> the patches its agent may come up with
          Questions,       \* task -> the queries its agent may have asked
          Starts,          \* the workspaces that there are to begin with
          MaxTasks         \* how many tasks are begun in a run

VARIABLES head,            \* the published workspace
          base,            \* task begun -> its snapshot
          committed,       \* the tasks whose patch was committed
          last             \* the commit that published the head

vars == <<head, base, committed, last>>

Init ==
    /\ head \in Starts
    /\ base = <<>>
    /\ committed = {}
    /\ last = [task |-> None, patch |-> <<>>]

(* A task is created on the head that there is. *)
BeginTask(t) ==
    /\ t \notin DOMAIN base
    /\ Cardinality(DOMAIN base) < MaxTasks
    /\ base' = With(base, t, head)
    /\ UNCHANGED <<head, committed, last>>

(* What has happened since a task was given its snapshot: the symbols whose *)
(* fingerprints have moved, and the queries that would be answered again   *)
(* as they were.                                                           *)
Since(t) ==
    [moved |-> ChangedSymbols(base[t], head),
     stable |-> {q \in Questions[t] : Answer(base[t], q) = Answer(head, q)}]

Gate(t, since, patch, observed, asked) ==
    /\ InScope(Scope[t], patch)
    /\ observed \cap since.moved = {}
    /\ asked \subseteq since.stable
    /\ WriteTargets(patch) \cap since.moved = {}
    /\ ExternalReferences(patch) \subseteq observed

(* An agent has read what its patch refers to, or nothing; and has asked   *)
(* nothing, or all that it may.                                            *)
ReadSets(t, patch) == {R \in {{}, ExternalReferences(patch)} : R \subseteq Keys(base[t])}

Asked(t) == {{}, Questions[t]}

(* The read sets and questions under which the gate lets the patch through. *)
Passing(t, since, patch) ==
    {p \in ReadSets(t, patch) \X Asked(t) : Gate(t, since, patch, p[1], p[2])}

SubmitPatch(t, since, patch) ==
    LET candidate == Apply(head, patch)
    IN  /\ Passing(t, since, patch) # {}
        /\ candidate.ok
        /\ CheckPatch(candidate.w, patch)
        /\ head' = candidate.w
        /\ last' = [task |-> t, patch |-> patch]
        /\ committed' = committed \cup {t}
        /\ UNCHANGED base

Submits(t) ==
    LET since == Since(t)
    IN  /\ t \in DOMAIN base \ committed
        /\ \E patch \in Offers[t] : SubmitPatch(t, since, patch)

Next == \E t \in Tasks : BeginTask(t) \/ Submits(t)

Spec == Init /\ [][Next]_vars

(***************************************************************************)
(* Properties.                                                             *)
(***************************************************************************)

Put(kind, f) == [i \in {<<kind, j>> : j \in DOMAIN f} |-> f[i[2]]]

(* What can be written by itself, and its content. *)
Parts(w) ==
    LET of(field(_)) == [o \in DOMAIN w.operations |-> field(w.operations[o])]
    IN  Put("service", w.services) @@ Put("schema", w.schemas) @@ Put("data_model", w.models) @@ Put("topic", w.topics)
        @@ Put("state_machine", w.machines) @@ Put("operation_interface", of(Interface))
        @@ Put("operation_program", of(LAMBDA d : d.program))
        @@ Put("operation_requirements", of(LAMBDA d : d.requirements))
        @@ Put("topic_runtime", w.runtime.topics) @@ Put("subscription_runtime", w.runtime.subscriptions)
        @@ Put("execution_pool", w.runtime.pools) @@ Put("router", w.runtime.routers)
        @@ Put("storage_layout", w.runtime.layouts)

Moved(v, w) ==
    LET a == Parts(v)
        b == Parts(w)
    IN  {k \in DOMAIN a \cup DOMAIN b : k \notin DOMAIN a \cap DOMAIN b} \cup {k \in DOMAIN a \cap DOMAIN b : a[k] # b[k]}

Commits == committed' # committed

(* A commit changes only what nobody has changed since the task that makes *)
(* it was given its snapshot, whatever its mutations change on their way:  *)
(* a proposal adopted in a transaction is a change to the program.  The    *)
(* runtime of an outbox, of which there is no fingerprint, and prompt      *)
(* obligations, which proposals map as they find them, are not among the   *)
(* parts (engine.rs:1743, patch.rs:165).                                   *)
NothingOverwritten ==
    [][Commits => Moved(head, head') \cap Moved(base[last'.task], head) = {}]_vars

(* A name of an input is of the interface that declares it.                *)
Declarer(key) == IF key[1] \in {"operation", "input"} THEN <<"operation_interface", key[2]>> ELSE key

Owner(key) == IF key[1] \in {"operation_interface", "operation_program", "operation_requirements", "input", "transaction",
                             "effect_site", "binding", "requirement"} THEN <<"operation", key[2]>> ELSE key

(* What is written in a part: under an operation's part, all that it names. *)
Within(key, targets) ==
    \/ key \in targets
    \/ key[1] \in {"data_object", "outbox"} /\ <<"data_model", key[2]>> \in targets
    \/ key[1] = "transition" /\ <<"state_machine", key[2]>> \in targets
    \/ key[1] = "input" /\ <<"operation_interface", key[2]>> \in targets
    \/ key[1] \in {"transaction", "effect_site", "binding"} /\ <<"operation_program", key[2]>> \in targets

(* The names that a patch itself gives.  What an input is delivered follows *)
(* from its topic, an outbox and the subject of a machine are found by     *)
(* their ids.                                                              *)
NamesGiven(w, targets) ==
    {e \in Names(w) : /\ Within(e[1], targets)
                      /\ ~Within(e[3], targets)
                      /\ e[2] \notin {"contains", "contract_depends_on"}
                      /\ e[3][1] # "outbox"
                      /\ e[1][1] # "state_machine"
                      /\ Owner(e[3]) # Owner(e[1])}

(* Whatever a commit names is as its task saw it: nobody has changed it    *)
(* since the snapshot of the task was taken, even if the patch is in the   *)
(* sight of the gate otherwise right.                                      *)
NamesWhatWasSeen ==
    [][Commits => LET targets == {WriteTarget(m) : m \in Range(last'.patch)}
                  IN  \A e \in NamesGiven(head', targets) :
                        Fingerprint(head, Declarer(e[3])) = Fingerprint(base[last'.task], Declarer(e[3]))]_vars

(* Every part of a workspace as the mutation that writes it. *)
Written(w) ==
    SkeletonOf(w) \cup Mutations("operation_program", [o \in {p \in DOMAIN w.operations : w.operations[p].program # NoProgram} |->
                                                        w.operations[o].program])
                  \cup Mutations("operation_requirements", [o \in DOMAIN w.operations |-> w.operations[o].requirements])

(* What is judged by more than its own names: that a topic's transport is  *)
(* declared at the topic alone, which is asked of both runtimes.           *)
Twofold(m) == m.kind = "topic_runtime" /\ DeclaresTransport(m.value)

(* Every value that a step names. *)
Evaluates(s) ==
    CASE s.kind = "tx" -> s.key \cup s.requires \cup UNION {Given(b) : b \in Range(s.body)}
      [] s.kind = "execute" -> s.from \cup s.contract.keys
      [] s.kind \in {"branch", "return"} -> s.from
      [] OTHER -> {}

(* What the graph has no edge for.  An outbox's runtime has no node; what a *)
(* transition admits to an outbox is in no index; and an operation is not  *)
(* linked to its service, to the schemas of its outputs, to the data       *)
(* models of its transactions, nor to the machines whose subject it names. *)
Unlinked(w) ==
    LET program(o) == w.operations[o].program
        admits(m) == UNION {Range(w.machines[m].transitions[t].admits) : t \in DOMAIN w.machines[m].transitions}
        subjects(o) == {r \in UNION {Evaluates(s) : s \in StepsOf(program(o))} : r[1] = "subject"}
        of(o) == {<<"service", w.operations[o].service>>}
                 \cup SchemaKeys({b[2].schema : b \in {c \in BodyOf(program(o)) : c[2].kind = "output"}})
                 \cup {<<"data_model", t.model>> : t \in Transactions(program(o))}
                 \cup {<<"state_machine", r[2]>> : r \in subjects(o)}
        letter(c) == OutboxKeys(w, c.to) \cup SchemaKeys({c.schema})
        run(b) == {<<"input", b[1], b[2]>>, <<"execution_pool", w.runtime.outboxes[b].pool>>}
                    \cup SchemaKeys(DOMAIN w.runtime.outboxes[b].grouping)
    IN  UNION {From(<<"operation", o>>, "unlinked", of(o)) : o \in DOMAIN w.operations}
        \cup UNION {From(<<"state_machine", m>>, "unlinked", UNION {letter(c) : c \in admits(m)}) : m \in DOMAIN w.machines}
        \cup UNION {From(<<"outbox_runtime", b[1], b[2]>>, "unlinked", run(b)) : b \in DOMAIN w.runtime.outboxes}

Impacted(w, edges, changed) == {r[1] : r \in Spread(edges, changed \X {0}, 1, Cardinality(Keys(w)))}

(* What an operation names is there, and its values lead somewhere. *)
Holds(w, o) == OperationReferences(w, o) /\ OperationLeads(w, o)

(* What a commit leaves as it was and breaks: parts that would no longer be *)
(* accepted, and operations whose names or values the analyzer would now   *)
(* refuse.                                                                 *)
Broken(v, w) ==
    {WriteTarget(m) : m \in {n \in Written(v) \cap Written(w) : ~Twofold(n) /\ ~Check(w, n) /\ Check(v, n)}}
    \cup {<<"operation", o>> : o \in {p \in DOMAIN v.operations \cap DOMAIN w.operations :
            v.operations[p] = w.operations[p] /\ ~Holds(w, p) /\ Holds(v, p)}}

Reached(edges) ==
    Commits => LET impacted == Impacted(head, edges, ChangedSymbols(head, head'))
               IN  \A key \in Broken(head, head') : key \in impacted \/ Owner(key) \in impacted

(* What a commit breaks elsewhere is what the graph of the head says that  *)
(* it may, but for what is Unlinked: what nobody has touched, and would no *)
(* longer be accepted, is reached backwards from a symbol that has changed, *)
(* or is a part of an operation that is.                                   *)
BrokenIsImpacted == [][Reached(Edges(head) \cup Unlinked(head))]_vars

Judged == Assemblable(head) /\ Valid(head)

(* A model that the analyzer finds nothing wrong with names nothing that   *)
(* there is not: what the reference stage resolves covers every name the   *)
(* graph knows of.                                                         *)
ValidHasNoDangling == Judged => Names(head) = Edges(head)

(* Whatever the analyzer accepts the gate accepts, piece by piece: any     *)
(* part of a valid model may be written again as it is, and the skeleton   *)
(* is ready.  Sketches, and operations that nothing invokes, of which the  *)
(* analyzer says nothing, are left aside.                                  *)
GateAcceptsTheValid ==
    (Judged /\ Invoked(head) /\ \A o \in DOMAIN head.operations : CheckSketch(head, o)) =>
        SkeletonReady(head) /\ \A m \in Written(head) : Check(head, m)

(***************************************************************************)
(* What is said of the code, and is not so: no run checks these.           *)
(***************************************************************************)

MovedRuntimes(v, w) ==
    {b \in DOMAIN v.runtime.outboxes \cup DOMAIN w.runtime.outboxes :
        \/ b \notin DOMAIN v.runtime.outboxes \cap DOMAIN w.runtime.outboxes
        \/ v.runtime.outboxes[b] # w.runtime.outboxes[b]}

(* Every model that can be assembled is judged, or found wanting.  A       *)
(* grouping that maps a schema no longer declared stops the judgment       *)
(* instead (validation/mod.rs:4699, "references already validated").       *)
EveryModelIsJudged == Assemblable(head) => ~Panics(head)

(* A topic's transport is declared at the topic or at its subscriptions,   *)
(* and no commit makes it otherwise (commit.rs:1802).                      *)
TransportDeclaredOnce ==
    \A b \in DOMAIN head.runtime.subscriptions : OwnTransport(head, b) \cap SharedTransport(head) = {}

(* The requirements that a prompt's obligation has been mapped to are kept, *)
(* or the obligation is open again (workspace.rs, PromptObligation).       *)
ObligationsAreKept ==
    \A i \in DOMAIN head.obligations : head.obligations[i].status = "mapped" =>
        \A ref \in head.obligations[i].refs :
            /\ ref.op \in DOMAIN head.operations
            /\ \E r \in RequirementsOf(head.operations[ref.op]) : r.family = ref.family

(* What NothingOverwritten says, of the runtime of an outbox.              *)
OutboxRuntimesToo ==
    [][Commits => MovedRuntimes(head, head') \cap MovedRuntimes(base[last'.task], head) = {}]_vars

(* What BrokenIsImpacted says, by the edges that the graph has             *)
(* (graph_build.rs:1427 is the last of an operation's).                    *)
ImpactIsComplete == [][Reached(Edges(head))]_vars
================================================================================
