------------------------------- MODULE ModelRules -------------------------------
(***************************************************************************)
(* The analyzer's judgment of a whole assembled model:                     *)
(* src/analyzer/validation/mod.rs (validate) and runtime.rs.  The judgment *)
(* of each program in it is that of ProgramRules.                          *)
(*                                                                         *)
(* The model is a workspace of SymbolGraph, and the values that it names   *)
(* are judged as in ValueRules.  A judgment is kept as whether it reports  *)
(* nothing: which error, and its wording, are left out.  So are the fields *)
(* that a selector compares and that a lock is ordered by.                 *)
(***************************************************************************)
EXTENDS ValueRules

AllPrograms(w) == {<<o, w.operations[o].program>> : o \in DOMAIN w.operations}

(***************************************************************************)
(* One namespace for everything that is declared.                          *)
(***************************************************************************)

(* The ids a program declares in turn.  A binding is <<id>>.               *)
DeclaredBy(s) ==
    LET names(bs) == [i \in DOMAIN bs |-> bs[i][1]]
        inBody(b) == (IF Carries(b) THEN <<b.effect>> ELSE <<>>) \o names(SetToSeq(b.binds))
    IN  CASE s.kind = "tx" -> <<s.id>> \o FlattenSeq([i \in DOMAIN s.body |-> inBody(s.body[i])])
          [] s.kind = "execute" -> <<s.effect>> \o names(Bound(s.bind) \o Bound(s.handle))
          [] OTHER -> names(Declares(s))

ProgramIds(program) ==
    LET steps == AllSteps(program) IN FlattenSeq([i \in DOMAIN steps |-> DeclaredBy(steps[i])])

MachineIds(w, m) ==
    LET machine == w.machines[m]
        t(i) == machine.transitions[i]
    IN  {<<m, "state", s>> : s \in machine.states}
        \cup {<<m, "transition", i>> : i \in DOMAIN machine.transitions}
        \cup UNION {{<<i, "side", e>> : e \in DOMAIN t(i).sides} \cup {<<i, "admitted", e>> : e \in DOMAIN t(i).admits} :
                    i \in DOMAIN machine.transitions}

(* Each declaration outside a program: <<owner, kind, id>>.                *)
SharedIds(w) ==
    LET top(kind, f) == {<<"model", kind, i>> : i \in DOMAIN f}
    IN  top("service", w.services) \cup top("schema", w.schemas) \cup top("data_model", w.models)
        \cup top("topic", w.topics) \cup top("state_machine", w.machines) \cup top("operation", w.operations)
        \cup top("pool", w.runtime.pools) \cup top("router", w.runtime.routers) \cup top("layout", w.runtime.layouts)
        \cup {<<p[1], "object", p[2]>> : p \in AllObjects(w)}
        \cup {<<p[1], "outbox", p[2]>> : p \in AllOutboxes(w)}
        \cup {<<b[1], "input", b[2]>> : b \in Inputs(w)}
        \cup UNION {MachineIds(w, m) : m \in DOMAIN w.machines}

UniqueIds(w) ==
    LET programs == {ProgramIds(p[2]) : p \in AllPrograms(w)}
        written == FoldSet(LAMBDA p, n : n + Len(ProgramIds(p[2])), 0, AllPrograms(w))
        ids == {d[3] : d \in SharedIds(w)} \cup UNION {Range(q) : q \in programs}
    IN  Cardinality(ids) = Cardinality(SharedIds(w)) + written

(***************************************************************************)
(* References: each name is borne by a declaration of the kind expected.   *)
(***************************************************************************)

SchemasDeclared(w, schemas) == schemas \subseteq DOMAIN w.schemas

(* What an external effect may declare of itself: to be the same for an    *)
(* identity needs an identity, to describe its answer needs an answer.     *)
GuaranteesPlaced(c) ==
    c.kind = "external" =>
        /\ c.declares \cap {"identical_per_identity", "replay_stable"} # {} => c.keys # {}
        /\ c.declares \cap {"unstable", "replay_stable"} # {} => c.answers # <<>>

PublicationReferences(w, c) == c.to \in DOMAIN w.topics /\ SchemasDeclared(w, {c.schema})

(* The input is one of the operation that is called, and takes requests.   *)
RequestReferences(w, c) == <<c.to, c.input>> \in OfKind(w, "request") /\ SchemasDeclared(w, {c.schema})

EffectReferences(w, c) ==
    CASE c.kind = "publication" -> PublicationReferences(w, c)
      [] c.kind = "request"     -> RequestReferences(w, c)
      [] c.kind = "outbox"      -> ModelOfOutbox(w, c.to) # {} /\ SchemasDeclared(w, {c.schema})
      [] c.kind = "external"    -> SchemasDeclared(w, Range(c.answers)) /\ GuaranteesPlaced(c)

(* Mutant: the messages of outboxes are not resolved. *)
MailUnresolved(w) ==
    /\ \A s \in DOMAIN w.schemas : SchemasDeclared(w, SchemaRefs(w.schemas[s]))
    /\ \A p \in AllObjects(w) : SchemasDeclared(w, {ObjectAt(w, p).schema})
    /\ \A t \in DOMAIN w.topics : SchemasDeclared(w, w.topics[t].messages \cup DOMAIN w.topics[t].identity)

SharedReferences(w) ==
    /\ \A s \in DOMAIN w.schemas : SchemasDeclared(w, SchemaRefs(w.schemas[s]))
    /\ \A p \in AllObjects(w) : SchemasDeclared(w, {ObjectAt(w, p).schema})
    /\ \A p \in AllOutboxes(w) : SchemasDeclared(w, OutboxAt(w, p).messages \cup DOMAIN OutboxAt(w, p).identity)
    /\ \A t \in DOMAIN w.topics : SchemasDeclared(w, w.topics[t].messages \cup DOMAIN w.topics[t].identity)

MachineReferences(w, machine) ==
    LET resolves(t) ==
            /\ t.from \cup {t.to} \subseteq machine.states
            /\ \A e \in DOMAIN t.sides : EffectReferences(w, t.sides[e])
            /\ \A e \in DOMAIN t.admits : EffectReferences(w, t.admits[e])
    IN  /\ ModelOfObject(w, machine.object) # {}
        /\ machine.initial \in machine.states
        /\ \A i \in DOMAIN machine.transitions : resolves(machine.transitions[i])

(* Whoever applies a transition evaluates what its effects are keyed by.   *)
TransitionsNamed(w) ==
    \A m \in DOMAIN w.machines : \A t \in DOMAIN w.machines[m].transitions :
        \A g \in TransitionRefs(w, m, t) : Named(w, g[1], g[2])

InputReferencesHold(w, input) ==
    CASE input.kind = "request" -> SchemasDeclared(w, {input.schema} \cup Range(input.answers))
      [] input.kind = "subscription" ->
            /\ input.topic \in DOMAIN w.topics
            /\ input.only # AllMessages => SchemasDeclared(w, input.only)
      [] input.kind = "outbox" -> ModelOfOutbox(w, input.outbox) # {}

(* A message to an outbox is written by a transaction and by nothing else. *)
Placed(c) == c.kind # "outbox"

Touching == {"read", "advance", "fence", "update", "compare_and_set", "upsert", "create", "delete", "lock", "transition"}

ObjectReferencesHold(w, s) == s.kind \in Touching => ModelOfObject(w, s.on[1]) # {}

BodyReferencesHold(w, s) ==
    /\ ObjectReferencesHold(w, s)
    /\ CASE s.kind = "transition" ->
              /\ s.machine \in DOMAIN w.machines
              /\ s.transition \in DOMAIN w.machines[s.machine].transitions
         [] s.kind = "intent" -> Placed(s.contract) /\ EffectReferences(w, s.contract)
         [] s.kind = "outbox" -> EffectReferences(w, s.contract)
         [] s.kind = "output" -> SchemasDeclared(w, {s.schema})
         [] OTHER -> TRUE

(* A return answers a request of its own operation, with a class of it.    *)
ReturnReferencesHold(draft, s) ==
    /\ s.request \in DOMAIN draft.inputs
    /\ draft.inputs[s.request].kind = "request"
    /\ s.arm \in DOMAIN draft.inputs[s.request].answers

StepReferencesHold(w, draft, s) ==
    CASE s.kind = "tx" ->
            /\ s.model \in {None} \cup DOMAIN w.models
            /\ \A i \in DOMAIN s.body : BodyReferencesHold(w, s.body[i])
      [] s.kind = "execute" -> Placed(s.contract) /\ EffectReferences(w, s.contract)
      [] s.kind = "return" -> ReturnReferencesHold(draft, s)
      [] OTHER -> TRUE

InputsNamed(roots) == {r[2] : r \in {q \in roots : q[1] = "input"}}

OperationReferences(w, o) ==
    LET draft == w.operations[o]
        steps == StepsOf(draft.program)
    IN  /\ draft.service \in DOMAIN w.services
        /\ \A i \in DOMAIN draft.inputs : InputReferencesHold(w, draft.inputs[i])
        /\ \A s \in steps : StepReferencesHold(w, draft, s)
        /\ \A g \in OperationRefs(w, o) : Named(w, g[1], g[2])

ReferencesHold(w) ==
    /\ SharedReferences(w)
    /\ \A m \in DOMAIN w.machines : MachineReferences(w, w.machines[m])
    /\ TransitionsNamed(w)
    /\ \A o \in DOMAIN w.operations : OperationReferences(w, o)

(* No fragment is, through its sources, a fragment of itself.              *)
RECURSIVE Sources(_, _)
Sources(w, seen) ==
    LET next == seen \cup ({w.schemas[s].source : s \in seen} \ {None})
    IN  IF next = seen THEN seen ELSE Sources(w, next)

FragmentsGrounded(w) ==
    \A s \in DOMAIN w.schemas : w.schemas[s].source # None => s \notin Sources(w, {w.schemas[s].source})

(***************************************************************************)
(* Paths of what is declared; those of values are in ValueRules.           *)
(***************************************************************************)

Related(a, b) == IsPrefix(a, b) \/ IsPrefix(b, a)

IdentityPaths(w, identity) == \A s \in DOMAIN identity : ResolveAll(w, s, Range(identity[s]))

(* What a transaction reads, writes and selects by. *)
TransactionPaths(w) ==
    \A u \in AllTransactions(w) : \A s \in Range(u[2].body) :
        s.kind \in Touching => ObjectPaths(w, s.on[1], s.fields \cup s.compared)

FieldPaths(w) ==
    /\ \A s \in DOMAIN w.schemas :
            w.schemas[s].source # None => ResolveAll(w, w.schemas[s].source, Range(w.schemas[s].mapping))
    /\ \A p \in AllObjects(w) : ResolveAll(w, ObjectAt(w, p).schema, ObjectAt(w, p).identity)
    /\ \A t \in DOMAIN w.topics : IdentityPaths(w, w.topics[t].identity)
    /\ \A p \in AllOutboxes(w) : IdentityPaths(w, OutboxAt(w, p).identity)
    /\ \A m \in DOMAIN w.machines : ObjectPaths(w, w.machines[m].object, {w.machines[m].state})
    /\ \A b \in OfKind(w, "request") : ResolveAll(w, InputOf(w, b).schema, UNION InputOf(w, b).identity)
    /\ TransactionPaths(w)

(***************************************************************************)
(* The shape of what is declared.                                          *)
(***************************************************************************)

(* Positions of an identity correspond across the messages it is given for. *)
SameArity(identity) ==
    /\ \A s \in DOMAIN identity : identity[s] # <<>>
    /\ Cardinality({Len(identity[s]) : s \in DOMAIN identity}) <= 1

IdentityShape(messages, identity) == DOMAIN identity \subseteq messages /\ SameArity(identity)

Publications(w) ==
    {c \in {s[3] : s \in ProgramSites(w)} \cup {s[2] : s \in TransitionSides(w)} : c.kind = "publication"}

Messages(w) ==
    /\ \A b \in OfKind(w, "subscription") :
            InputOf(w, b).only \in {AllMessages} \cup SUBSET w.topics[InputOf(w, b).topic].messages
    /\ \A c \in Publications(w) : c.schema \in w.topics[c.to].messages
    /\ \A t \in DOMAIN w.topics : IdentityShape(w.topics[t].messages, w.topics[t].identity)
    /\ \A p \in AllOutboxes(w) : IdentityShape(OutboxAt(w, p).messages, OutboxAt(w, p).identity)
    /\ \A b \in OfKind(w, "request") : {} \notin InputOf(w, b).identity

OneConsumerEach(w) ==
    \A p \in AllOutboxes(w) :
        Cardinality({b \in OfKind(w, "outbox") : InputOf(w, b).outbox = p[2]}) = 1

NoVersion == <<>>

(* A version is an integer of its own, always there, outside the identity. *)
ObjectShape(w, object) ==
    /\ w.schemas[object.schema].source = None
    /\ object.identity # {}
    /\ object.version # NoVersion =>
            /\ \A path \in object.identity : ~Related(path, object.version)
            /\ AlwaysOf(w, object.schema, object.version, Whole)

(***************************************************************************)
(* Transactions.                                                           *)
(***************************************************************************)

InModel(w, t, s) ==
    CASE s.kind \in Touching -> t.model # None /\ s.on[1] \in DOMAIN w.models[t.model].objects
      [] s.kind = "outbox" ->
            /\ t.model # None
            /\ s.contract.to \in DOMAIN w.models[t.model].outboxes
            /\ s.contract.schema \in w.models[t.model].outboxes[s.contract.to].messages
      [] OTHER -> TRUE

(* One value is supplied for each effect of the transition, and no other.  *)
Supplied(w, s) ==
    LET machine == w.machines[s.machine]
    IN  /\ s.on[1] = machine.object
        /\ DOMAIN s.supplies = DOMAIN machine.transitions[s.transition].sides
        /\ s.derives = DOMAIN machine.transitions[s.transition].admits

AdmittedBySubject(w) ==
    \A m \in DOMAIN w.machines : \A i \in DOMAIN w.machines[m].transitions :
        LET admits == w.machines[m].transitions[i].admits
        IN  \A e \in DOMAIN admits : \A p \in {q \in AllOutboxes(w) : q[2] = admits[e].to} :
                p[1] \in ModelOfObject(w, w.machines[m].object) /\ admits[e].schema \in OutboxAt(w, p).messages

(* What an atomic conditional write may not do. *)
Guarded(w, s) ==
    LET declared == UNION {{w.models[m].objects[s.on[1]]} : m \in ModelOfObject(w, s.on[1])}
        touches(path) == \E field \in s.fields : Related(field, path)
    IN  /\ s.kind \in {"update", "compare_and_set", "upsert"} =>
                \A object \in declared : object.version # NoVersion => ~touches(object.version)
        /\ s.kind = "upsert" =>
                s.fields # {} /\ \A object \in declared : \A path \in object.identity : ~touches(path)

GuardedMutations(w, program) ==
    \A t \in Transactions(program) : Unguarded(t) = {} /\ \A s \in Range(t.body) : Guarded(w, s)

(* Fields that only one kind of step may move: <<object, field, role>>.  A *)
(* cursor's role is also the rule it advances by.                          *)
Managed(w) ==
    LET moved(s) == {<<s.on[1], path, <<s.kind, s.rule>>>> : path \in s.fields}
    IN  {<<p[2], ObjectAt(w, p).version, <<"version", None>>>> : p \in {q \in AllObjects(w) : ObjectAt(w, q).version # NoVersion}}
        \cup UNION {UNION {moved(s) : s \in {b \in Range(u[2].body) : b.kind \in {"advance", "fence"}}} : u \in AllTransactions(w)}

RoleTypes(role) == IF role = <<"advance", "successor">> THEN Whole ELSE Ordered

(* What drives a cursor or a fence has the type of its field.              *)
Driven(w, o) ==
    LET fits(c, s, field) ==
            \A x \in SchemaOf(w, s.on[1]) : \A type \in FieldAt(w, x, field) :
                type[2] \/ \A r \in s.from : ValueTypes(w, c, r) \subseteq {type}
        here(classes) == [InOperation(o) EXCEPT !.classes = classes]
    IN  \A x \in Scoped(w.operations[o].program, <<>>) : x[1].kind = "tx" =>
            \A i \in DOMAIN x[1].body : x[1].body[i].kind \in {"advance", "fence"} =>
                \A field \in x[1].body[i].fields : fits(InBody(here(x[2]), x[1], i), x[1].body[i], field)

ManagedFields(w) ==
    LET managed == Managed(w)
        writes == UNION {{s \in Range(u[2].body) : s.kind \in {"update", "compare_and_set", "upsert"}} :
                         u \in AllTransactions(w)}
    IN  /\ \A a, b \in managed : a[1] = b[1] /\ a[2] = b[2] => a[3] = b[3]
        /\ \A a \in managed : a[3][1] # "version" =>
                /\ \A s \in SchemaOf(w, a[1]) : AlwaysOf(w, s, a[2], RoleTypes(a[3]))
                /\ \A s \in writes : s.on[1] = a[1] => \A field \in s.fields : ~Related(field, a[2])
        /\ \A o \in DOMAIN w.operations : Driven(w, o)

(***************************************************************************)
(* Programs.                                                               *)
(***************************************************************************)

(* Each result that a step binds, and the contracts it may be of.          *)
BoundContracts(w, program, s) ==
    CASE s.kind \in {"execute", "execute_intent"} -> ({s.bind} \ {NoBind}) \X Launched(w, program, s)
      [] s.kind = "join" ->
            UNION {{e.bind} \X HandleContracts(w, program, e.handle) : e \in {f \in Range(s.handles) : f.bind # NoBind}}
      [] s.kind = "race" -> ({s.bind} \ {NoBind}) \X UNION {HandleContracts(w, program, h) : h \in Range(s.handles)}
      [] OTHER -> {}

(* What is bound is an answer, and of a race one and the same.             *)
ResultsBound(w, program) ==
    \A s \in StepsOf(program) :
        LET contracts == {k[2] : k \in BoundContracts(w, program, s)}
        IN  /\ \A k \in contracts : ResultOf(w, k) # {}
            /\ s.kind = "race" => Cardinality(UNION {ResultOf(w, k) : k \in contracts}) <= 1

(* A match has an arm for each class that the answer may be of, no other.  *)
ArmsMatch(w, program) ==
    \A s \in StepsOf(program) : s.kind = "match" =>
        \A k \in Answered_(w, program, s.result) : \A answers \in ResultOf(w, k) : DOMAIN s.arms = DOMAIN answers

TransitionKeys(w, t) == UNION {x[3].keys : x \in {y \in TransitionEffects(w) : y[1] = t}}

(* A program as availability is judged: a step also evaluates what its     *)
(* contract is keyed by.  What a transition's effects are keyed by must be *)
(* there when the transaction begins: an output of the same body, which    *)
(* satisfies the steps after it, does not satisfy them.                    *)
RECURSIVE Evaluated(_, _)
Evaluated(w, program) ==
    [i \in DOMAIN program |->
        LET s == program[i]
            applied == UNION {TransitionKeys(w, <<b.machine, b.transition>>) : b \in {c \in Range(s.body) : c.kind = "transition"}}
        IN  CASE s.kind = "execute" -> [s EXCEPT !.from = @ \cup s.contract.keys]
              [] s.kind = "tx" ->
                    [s EXCEPT !.key = @ \cup applied,
                              !.body = [j \in DOMAIN @ |-> [@[j] EXCEPT !.from = Given(s.body[j]) \ s.body[j].on[2]]],
                              !.rejected = IF Rejects(s) THEN Evaluated(w, @) ELSE @]
              [] s.kind # "tx" /\ Decides(s) -> [s EXCEPT !.arms = [a \in DOMAIN @ |-> Evaluated(w, @[a])]]
              [] OTHER -> s]

OperationHolds(w, o) ==
    LET draft == w.operations[o]
        program == draft.program
        consumes == \E i \in DOMAIN draft.inputs : draft.inputs[i].kind # "request"
    IN  /\ \A t \in Transactions(program) : \A s \in Range(t.body) :
                InModel(w, t, s) /\ (s.kind = "transition" => Supplied(w, s))
        /\ GuardedMutations(w, program)
        /\ ResultsBound(w, program)
        /\ ArmsMatch(w, program)
        /\ Abandons(~consumes, program) = {}
        /\ Availability(Evaluated(w, program)) = {}
        /\ PositionsOrdered(w, o)

(***************************************************************************)
(* The runtime.  Grouping is <<>> where none is declared.                  *)
(***************************************************************************)

(* Every message received falls in one group.  Paths are resolved for a    *)
(* mapped schema whether it is declared or not.                            *)
GroupingHolds(w, grouping, carried, received) ==
    DOMAIN grouping # {} =>
        /\ DOMAIN grouping \subseteq carried
        /\ received \subseteq DOMAIN grouping
        /\ SameArity(grouping)
        /\ \A s \in DOMAIN grouping : ResolveAll(w, s, Range(grouping[s]))

Grouped(runtime) == DOMAIN runtime.grouping # {}

(* An order within each group needs a grouping. *)
OrderedAsGrouped(runtime) == runtime.ordering = "within_group" => Grouped(runtime)

DeclaresTransport(runtime) == Grouped(runtime) \/ runtime.ordering # None

TopicRuntimes(w) ==
    \A t \in DOMAIN w.runtime.topics :
        LET runtime == w.runtime.topics[t]
        IN  /\ t \in DOMAIN w.topics
            /\ OrderedAsGrouped(runtime)
            /\ GroupingHolds(w, runtime.grouping, w.topics[t].messages, w.topics[t].messages)

(* Transport is declared once: at the topic or at its subscriptions.       *)
SubscriptionRuntimes(w) ==
    \A b \in DOMAIN w.runtime.subscriptions :
        LET runtime == w.runtime.subscriptions[b]
            topic == InputOf(w, b).topic
            shared == {t \in DOMAIN w.runtime.topics : t = topic}
        IN  /\ b \in OfKind(w, "subscription")
            /\ runtime.pool \in DOMAIN w.runtime.pools
            /\ OrderedAsGrouped(runtime)
            /\ GroupingHolds(w, runtime.grouping, w.topics[topic].messages, Admitted(w, InputOf(w, b)))
            /\ runtime.routed => Grouped(runtime) \/ \E t \in shared : Grouped(w.runtime.topics[t])
            /\ DeclaresTransport(runtime) => \A t \in shared : ~DeclaresTransport(w.runtime.topics[t])

OutboxRuntimes(w) ==
    \A b \in DOMAIN w.runtime.outboxes :
        LET runtime == w.runtime.outboxes[b]
            messages == Admitted(w, InputOf(w, b))
        IN  /\ b \in OfKind(w, "outbox")
            /\ runtime.pool \in DOMAIN w.runtime.pools
            /\ OrderedAsGrouped(runtime)
            /\ runtime.routed => Grouped(runtime)
            /\ GroupingHolds(w, runtime.grouping, messages, messages)

(* A boundary has one router and an object one layout. *)
Routers(w) ==
    \A r \in DOMAIN w.runtime.routers :
        LET router == w.runtime.routers[r]
        IN  /\ router.boundary \in OfKind(w, "request")
            /\ router.pool \in DOMAIN w.runtime.pools
            /\ {} \notin router.routing
            /\ ResolveAll(w, InputOf(w, router.boundary).schema, UNION router.routing)
            /\ \A q \in DOMAIN w.runtime.routers : w.runtime.routers[q].boundary = router.boundary => q = r

StorageLayouts(w) ==
    \A y \in DOMAIN w.runtime.layouts :
        LET layout == w.runtime.layouts[y]
        IN  /\ layout.object \in AllObjects(w)
            /\ layout.key # {}
            /\ ResolveAll(w, ObjectAt(w, layout.object).schema, layout.key)
            /\ \A z \in DOMAIN w.runtime.layouts : w.runtime.layouts[z].object = layout.object => z = y

RuntimeHolds(w) ==
    TopicRuntimes(w) /\ SubscriptionRuntimes(w) /\ OutboxRuntimes(w) /\ Routers(w) /\ StorageLayouts(w)

(***************************************************************************)
(* The judgment.                                                           *)
(***************************************************************************)

Assemblable(w) == \A o \in DOMAIN w.operations : w.operations[o].program # NoProgram

(* Each stage is reached when the one before it reports nothing.           *)
Referring(w) == UniqueIds(w) /\ ReferencesHold(w) /\ FragmentsGrounded(w)

(* What a runtime maps to groups is no reference of the stage that resolves *)
(* references: a path of a schema that is not declared stops the judgment.  *)
GroupedSchemas(w) ==
    UNION {DOMAIN w.runtime.topics[t].grouping : t \in DOMAIN w.runtime.topics \cap DOMAIN w.topics}
    \cup UNION {DOMAIN w.runtime.subscriptions[b].grouping :
                b \in DOMAIN w.runtime.subscriptions \cap OfKind(w, "subscription")}
    \cup UNION {DOMAIN w.runtime.outboxes[b].grouping : b \in DOMAIN w.runtime.outboxes \cap OfKind(w, "outbox")}

Panics(w) == Referring(w) /\ ~SchemasDeclared(w, GroupedSchemas(w))

Valid(w) ==
    /\ Referring(w)
    /\ ~Panics(w)
    /\ Messages(w)
    /\ OneConsumerEach(w)
    /\ \A p \in AllObjects(w) : ObjectShape(w, ObjectAt(w, p))
    /\ AdmittedBySubject(w)
    /\ \A o \in DOMAIN w.operations : OperationHolds(w, o)
    /\ ManagedFields(w)
    /\ FieldPaths(w)
    /\ ValuesLead(w)
    /\ RuntimeHolds(w)
================================================================================
