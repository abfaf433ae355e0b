------------------------------- MODULE DraftRules -------------------------------
(***************************************************************************)
(* The patch a task submits and the judgment of it at the commit gate:     *)
(* src/design/patch.rs, src/design/commit.rs, and the write scopes of      *)
(* src/design/task.rs.                                                     *)
(*                                                                         *)
(* A patch is a sequence of mutations [kind, id, value].  A kind that      *)
(* writes one part bears the name of its symbol: "service", "schema",      *)
(* "data_model", "topic", "state_machine", "operation_interface",          *)
(* "operation_program", "operation_requirements", "topic_runtime",         *)
(* "subscription_runtime" and "outbox_runtime" (whose id is <<op, input>>),*)
(* "execution_pool", "router", "storage_layout", "prompt_obligation"; the  *)
(* others are "propose", a sequence of [family, tx, key, position, origin], *)
(* and "delete", whose id is a symbol key.  A position is a set of one     *)
(* root, of an ordering, or of none; an origin is <<"prompt", obligation>>, *)
(* <<"implied">> or <<"recommended">>.  A sketch is reduced to the set of  *)
(* data objects that it names.                                             *)
(***************************************************************************)
EXTENDS ModelRules

CONSTANT Policy          \* [strict, recommended]: which proposals are adopted

Transactional == {"serializability", "ordering"}

BoundaryRuntime == {"subscription_runtime", "outbox_runtime"}

(***************************************************************************)
(* What a patch writes, refers to and is allowed.                          *)
(***************************************************************************)

WriteTarget(m) ==
    CASE m.kind = "delete"  -> m.id
      [] m.kind = "propose" -> <<"operation_requirements", m.id>>
      [] m.kind \in BoundaryRuntime -> <<m.kind, m.id[1], m.id[2]>>
      [] OTHER -> <<m.kind, m.id>>

(* Mutant: a proposal writes where requirements are kept, and nowhere else. *)
TargetAlone(m) == {WriteTarget(m)}

Footprint(m) ==
    {WriteTarget(m)}
        \cup IF m.kind = "propose" /\ \E p \in Range(m.value) : p.family \in Transactional
             THEN {<<"operation_program", m.id>>} ELSE {}

WriteTargets(patch) == UNION {Footprint(m) : m \in Range(patch)}

Skeleton == {"service", "schema", "data_model", "topic", "state_machine", "operation_interface", "prompt_obligation"}

Topology == {"topic_runtime", "subscription_runtime", "outbox_runtime", "execution_pool", "router", "storage_layout"}

RequirementKinds == {"operation_requirements", "propose"}

MutationKinds == Skeleton \cup Topology \cup {"operation_program"} \cup RequirementKinds \cup {"delete"}

(* A grant is <<kind>> or <<kind, what it is of>>. *)
GrantCovers(grant, m) ==
    CASE grant[1] = "all" -> m.kind \in MutationKinds
      [] grant[1] = "shared_skeleton" -> m.kind \in Skeleton
      [] grant[1] = "runtime_topology" -> m.kind \in Topology
      [] grant[1] = "top_level_symbol" -> WriteTarget(m) = grant[2]
      [] grant[1] = "operation" ->
            m.kind \in {"operation_interface", "operation_program"} \cup RequirementKinds /\ m.id = grant[2]
      [] grant[1] = "operation_program" -> m.kind = "operation_program" /\ m.id = grant[2]
      [] grant[1] = "operation_requirements" -> m.kind \in RequirementKinds /\ m.id = grant[2]
      [] grant[1] = "operation_interface" -> m.kind = "operation_interface" /\ m.id = grant[2]

InScope(grants, patch) == \A m \in Range(patch) : \E grant \in grants : GrantCovers(grant, m)

InterfaceKeys(ops) == {<<"operation_interface", o>> : o \in ops}

PoolKeys(pools) == {<<"execution_pool", p>> : p \in pools}

(* Mutant: what is published is not among what must have been read. *)
TargetsAlone(c) ==
    CASE c.kind = "publication" -> {<<"topic", c.to>>}
      [] c.kind = "request"     -> {<<"operation_interface", c.to>>}
      [] c.kind = "outbox"      -> {<<"schema", c.schema>>}
      [] c.kind = "external"    -> SchemaKeys(Range(c.answers))

(* What an effect's contract refers to.  An outbox is found by its id.     *)
ContractReferences(c) ==
    CASE c.kind = "publication" -> {<<"topic", c.to>>, <<"schema", c.schema>>}
      [] c.kind = "request"     -> {<<"operation_interface", c.to>>, <<"schema", c.schema>>}
      [] c.kind = "outbox"      -> {<<"schema", c.schema>>}
      [] c.kind = "external"    -> SchemaKeys(Range(c.answers))

InputReferences(input) ==
    CASE input.kind = "request" -> SchemaKeys({input.schema} \cup Range(input.answers))
      [] input.kind = "subscription" ->
            {<<"topic", input.topic>>} \cup (IF input.only = AllMessages THEN {} ELSE SchemaKeys(input.only))
      [] input.kind = "outbox" -> {}

BodyReferences(tx, s) ==
    (IF s.kind \in Touching /\ tx.model # None THEN {<<"data_object", tx.model, s.on[1]>>} ELSE {})
    \cup CASE s.kind = "transition" -> {<<"state_machine", s.machine>>, <<"transition", s.machine, s.transition>>}
           [] s.kind = "output" -> {<<"schema", s.schema>>}
           [] Carries(s) -> ContractReferences(s.contract)
           [] OTHER -> {}

OfOperation(key, o) ==
    /\ key[1] \in {"operation_interface", "input", "transaction", "effect_site", "binding"}
    /\ key[2] = o

(* A program's own operation is nothing it must have read. *)
ProgramReferences(o, program) ==
    LET txs == Transactions(program)
        made == {s \in StepsOf(program) : s.kind = "execute"}
        all == UNION {UNION {BodyReferences(t, s) : s \in Range(t.body)} : t \in txs}
               \cup {<<"data_model", t.model>> : t \in {u \in txs : u.model # None}}
               \cup UNION {ContractReferences(s.contract) : s \in made}
    IN  {key \in all : ~OfOperation(key, o)}

(* A machine's subject, an outbox and what an obligation is about are no   *)
(* references.                                                             *)
ReferencesOf(m) ==
    CASE m.kind = "schema"     -> SchemaKeys(SchemaRefs(m.value))
      [] m.kind = "data_model" -> SchemaKeys({m.value.objects[x].schema : x \in DOMAIN m.value.objects}
                                             \cup UNION {m.value.outboxes[x].messages : x \in DOMAIN m.value.outboxes})
      [] m.kind = "topic"      -> SchemaKeys(m.value.messages)
      [] m.kind = "state_machine" ->
            UNION {LET t == m.value.transitions[i]
                   IN  UNION {ContractReferences(t.sides[e]) : e \in DOMAIN t.sides}
                       \cup UNION {ContractReferences(t.admits[e]) : e \in DOMAIN t.admits} :
                   i \in DOMAIN m.value.transitions}
      [] m.kind = "operation_interface" ->
            {<<"service", m.value.service>>} \cup UNION {InputReferences(m.value.inputs[i]) : i \in DOMAIN m.value.inputs}
      [] m.kind = "operation_program" -> ProgramReferences(m.id, m.value)
      [] m.kind = "topic_runtime" -> {<<"topic", m.id>>} \cup SchemaKeys(DOMAIN m.value.grouping)
      [] m.kind \in BoundaryRuntime ->
            InterfaceKeys({m.id[1]}) \cup PoolKeys({m.value.pool}) \cup SchemaKeys(DOMAIN m.value.grouping)
      [] m.kind = "router" -> InterfaceKeys({m.value.boundary[1]}) \cup PoolKeys({m.value.pool})
      [] m.kind = "storage_layout" ->
            {<<"data_model", m.value.object[1]>>, <<"data_object", m.value.object[1], m.value.object[2]>>}
      [] OTHER -> {}

(* What must have been read: not what the patch writes. *)
ExternalReferences(patch) == UNION {ReferencesOf(m) : m \in Range(patch)} \ WriteTargets(patch)

(***************************************************************************)
(* Application.                                                            *)
(***************************************************************************)

With(f, i, x) == (i :> x) @@ f

Without(f, i) == [j \in DOMAIN f \ {i} |-> f[j]]

RequirementsOf(draft) ==
    UNION {Range(t.requirements) : t \in Transactions(draft.program)} \cup Range(draft.requirements)

Stage(draft) ==
    IF draft.stage = "ready" THEN "ready"
    ELSE IF draft.program = NoProgram THEN "planned"
    ELSE IF RequirementsOf(draft) # {} THEN "requirements" ELSE "program"

Staged(draft) == [draft EXCEPT !.stage = Stage(draft)]

Planned(interface) == interface @@ [program |-> NoProgram, requirements |-> <<>>, stage |-> "planned"]

Drafts(w, o) == IF o \in DOMAIN w.operations THEN {w.operations[o]} ELSE {}

Draft(w, o, draft) == [w EXCEPT !.operations = With(@, o, Staged(draft))]

(* What a requirement evaluates. *)
Asks(requirement) == requirement.key \cup requirement.position

(* The named transaction with one requirement more.  It is looked for at   *)
(* every depth; its key is judged where it is declared.                    *)
RECURSIVE Requiring(_, _, _)
Requiring(program, tx, requirement) ==
    [i \in DOMAIN program |->
        LET s == program[i]
            inner == IF s.kind = "tx" /\ Rejects(s) THEN [s EXCEPT !.rejected = Requiring(@, tx, requirement)]
                     ELSE IF s.kind # "tx" /\ Decides(s)
                     THEN [s EXCEPT !.arms = [a \in DOMAIN @ |-> Requiring(@[a], tx, requirement)]]
                     ELSE s
        IN  IF s.kind = "tx" /\ s.id = tx
            THEN [inner EXCEPT !.requirements = Append(@, requirement), !.requires = @ \cup Asks(requirement)]
            ELSE inner]

Declared(draft, p) ==
    LET list == IF p.family \in Transactional
                THEN FlattenSeq([i \in DOMAIN AllSteps(draft.program) |->
                        LET s == AllSteps(draft.program)[i] IN IF s.kind = "tx" /\ s.id = p.tx THEN s.requirements ELSE <<>>])
                ELSE draft.requirements
    IN  SelectSeq(list, LAMBDA r : r.family = p.family)

Requirement(p) == [family |-> p.family, key |-> p.key, position |-> p.position]

Adopts(p) ==
    \/ p.origin[1] = "prompt"
    \/ p.origin[1] = "implied" /\ Policy.strict
    \/ p.origin[1] = "recommended" /\ Policy.recommended

Adopt(draft, p) ==
    IF p.family \in Transactional THEN [draft EXCEPT !.program = Requiring(@, p.tx, Requirement(p))]
    ELSE [draft EXCEPT !.requirements = Append(@, Requirement(p))]

Discharged(obligation, ref) ==
    CASE obligation.status = "unmapped" -> [obligation EXCEPT !.status = "mapped", !.refs = {ref}]
      [] obligation.status = "mapped"   -> [obligation EXCEPT !.refs = @ \cup {ref}]
      [] OTHER -> obligation

Failed(acc) == [acc EXCEPT !.ok = FALSE]

(* One proposal: refused, found declared already, adopted, or put by.      *)
Propose(acc, o, p) ==
    LET w == acc.w
        draft == w.operations[o]
        declared == Declared(draft, p)
        at == SelectInSeq(declared, LAMBDA r : r = Requirement(p))
        adopts == at = 0 /\ Adopts(p)
        ref == [op |-> o, family |-> p.family, tx |-> p.tx, at |-> IF at = 0 THEN Len(declared) + 1 ELSE at]
        recorded == [w EXCEPT !.proposals = Append(@, [op |-> o, of |-> p,
            status |-> IF at # 0 THEN "duplicate" ELSE IF adopts THEN "adopted" ELSE "advisory"])]
        adopted == IF adopts THEN [recorded EXCEPT !.operations = With(@, o, Adopt(draft, p))] ELSE recorded
    IN  IF \/ p.origin[1] = "prompt" /\ p.origin[2] \notin DOMAIN w.obligations
           \/ p.family \in Transactional /\ p.tx \notin {t.id : t \in Transactions(draft.program)}
        THEN Failed(acc)
        ELSE [acc EXCEPT !.w = IF p.origin[1] = "prompt"
                               THEN [adopted EXCEPT !.obligations[p.origin[2]] = Discharged(@, ref)]
                               ELSE adopted]

(* The part of the workspace that holds a kind of top-level symbol. *)
Delete(acc, key) ==
    LET from(f) == IF Len(key) = 2 THEN Without(f, key[2]) ELSE Without(f, <<key[2], key[3]>>)
        w == acc.w
    IN  IF key \notin Keys(w) /\ key[1] # "outbox_runtime" THEN Failed(acc)
        ELSE CASE key[1] = "service"       -> [acc EXCEPT !.w.services = from(@)]
               [] key[1] = "schema"        -> [acc EXCEPT !.w.schemas = from(@)]
               [] key[1] = "data_model"    -> [acc EXCEPT !.w.models = from(@)]
               [] key[1] = "topic"         -> [acc EXCEPT !.w.topics = from(@)]
               [] key[1] = "state_machine" -> [acc EXCEPT !.w.machines = from(@)]
               [] key[1] = "operation"     -> [acc EXCEPT !.w.operations = from(@)]
               [] key[1] = "topic_runtime" -> [acc EXCEPT !.w.runtime.topics = from(@)]
               [] key[1] = "subscription_runtime" -> [acc EXCEPT !.w.runtime.subscriptions = from(@)]
               [] key[1] = "outbox_runtime" /\ <<key[2], key[3]>> \in DOMAIN w.runtime.outboxes ->
                    [acc EXCEPT !.w.runtime.outboxes = from(@)]
               [] key[1] = "execution_pool" -> [acc EXCEPT !.w.runtime.pools = from(@)]
               [] key[1] = "router"         -> [acc EXCEPT !.w.runtime.routers = from(@)]
               [] key[1] = "storage_layout" -> [acc EXCEPT !.w.runtime.layouts = from(@)]
               [] key[1] = "prompt_obligation" -> [acc EXCEPT !.w.obligations = from(@)]
               [] OTHER -> Failed(acc)

ApplyMutation(acc, m) ==
    LET w == acc.w
        drafts == Drafts(w, m.id)
        draft == CHOOSE d \in drafts : TRUE
    IN  CASE m.kind = "service"       -> [acc EXCEPT !.w.services = With(@, m.id, m.value)]
          [] m.kind = "schema"        -> [acc EXCEPT !.w.schemas = With(@, m.id, m.value)]
          [] m.kind = "data_model"    -> [acc EXCEPT !.w.models = With(@, m.id, m.value)]
          [] m.kind = "topic"         -> [acc EXCEPT !.w.topics = With(@, m.id, m.value)]
          [] m.kind = "state_machine" -> [acc EXCEPT !.w.machines = With(@, m.id, m.value)]
          [] m.kind = "operation_interface" ->
                [acc EXCEPT !.w = Draft(w, m.id, IF drafts = {} THEN Planned(m.value) ELSE m.value @@ draft)]
          [] m.kind = "topic_runtime"        -> [acc EXCEPT !.w.runtime.topics = With(@, m.id, m.value)]
          [] m.kind = "subscription_runtime" -> [acc EXCEPT !.w.runtime.subscriptions = With(@, m.id, m.value)]
          [] m.kind = "outbox_runtime"       -> [acc EXCEPT !.w.runtime.outboxes = With(@, m.id, m.value)]
          [] m.kind = "execution_pool"       -> [acc EXCEPT !.w.runtime.pools = With(@, m.id, m.value)]
          [] m.kind = "router"               -> [acc EXCEPT !.w.runtime.routers = With(@, m.id, m.value)]
          [] m.kind = "storage_layout"       -> [acc EXCEPT !.w.runtime.layouts = With(@, m.id, m.value)]
          [] m.kind = "prompt_obligation"    -> [acc EXCEPT !.w.obligations = With(@, m.id, m.value)]
          [] m.kind = "delete" -> Delete(acc, m.id)
          [] drafts = {} -> Failed(acc)
          [] m.kind = "operation_program" -> [acc EXCEPT !.w = Draft(w, m.id, [draft EXCEPT !.program = m.value])]
          [] m.kind = "operation_requirements" ->
                [acc EXCEPT !.w = Draft(w, m.id, [draft EXCEPT !.requirements = m.value])]
          [] m.kind = "propose" ->
                LET done == FoldLeft(LAMBDA a, p : Propose(a, m.id, p), acc, m.value)
                IN  [done EXCEPT !.w = Draft(done.w, m.id, done.w.operations[m.id])]

(* The candidate, and whether every mutation could be applied. *)
Apply(w, patch) == FoldLeft(ApplyMutation, [w |-> w, ok |-> TRUE], patch)

(***************************************************************************)
(* The checks of what a patch has written, against the candidate.          *)
(***************************************************************************)

HasSchemas(w, schemas) == schemas \subseteq DOMAIN w.schemas

HasTopic(w, t) == t \in DOMAIN w.topics

RequestTarget(w, c) == c.to \in DOMAIN w.operations /\ c.input \in DOMAIN w.operations[c.to].inputs

(* The models that declare an outbox or an object: one, or the first. *)
OwnersOf(w, x) == {m \in DOMAIN w.models : x \in DOMAIN w.models[m].outboxes}

FirstOwner(w, x) == CHOOSE m \in OwnersOf(w, x) : TRUE

ObjectOwners(w, x) == {m \in DOMAIN w.models : x \in DOMAIN w.models[m].objects}

ContractResolves(w, c) ==
    CASE c.kind = "publication" -> HasTopic(w, c.to) /\ HasSchemas(w, {c.schema})
      [] c.kind = "request"     -> RequestTarget(w, c) /\ HasSchemas(w, {c.schema})
      [] c.kind = "outbox"      -> OwnersOf(w, c.to) # {} /\ HasSchemas(w, {c.schema})
      [] c.kind = "external"    -> HasSchemas(w, Range(c.answers))

(* A message goes to an outbox of this data model that admits it. *)
AdmitsMessage(w, model, c) ==
    /\ ContractResolves(w, c)
    /\ model \in {None, FirstOwner(w, c.to)}
    /\ c.schema \in w.models[FirstOwner(w, c.to)].outboxes[c.to].messages

CheckMachine(w, machine) ==
    LET owners == ObjectOwners(w, machine.object)
        owner == IF owners = {} THEN None ELSE CHOOSE m \in owners : TRUE
        coherent(t) == /\ t.from \cup {t.to} \subseteq machine.states
                       /\ \A e \in DOMAIN t.sides : ContractResolves(w, t.sides[e])
                       /\ \A e \in DOMAIN t.admits : AdmitsMessage(w, owner, t.admits[e])
    IN  /\ machine.initial \in machine.states
        /\ owners # {}
        /\ \A i \in DOMAIN machine.transitions : coherent(machine.transitions[i])

(* Mutant: an input that is written again is a consumer beside itself. *)
BesideItself(w, o, i, input) ==
    CASE input.kind = "request" -> HasSchemas(w, {input.schema} \cup Range(input.answers))
      [] input.kind = "subscription" ->
            /\ HasTopic(w, input.topic)
            /\ input.only \in {AllMessages} \cup SUBSET w.topics[input.topic].messages
      [] input.kind = "outbox" -> OwnersOf(w, input.outbox) # {} /\ ConsumersOf(w, input.outbox) = {}

(* An outbox has no second consumer. *)
CheckInput(w, o, i, input) ==
    CASE input.kind = "request" -> HasSchemas(w, {input.schema} \cup Range(input.answers))
      [] input.kind = "subscription" ->
            /\ HasTopic(w, input.topic)
            /\ input.only \in {AllMessages} \cup SUBSET w.topics[input.topic].messages
      [] input.kind = "outbox" ->
            /\ OwnersOf(w, input.outbox) # {}
            /\ ConsumersOf(w, input.outbox) \cap {<<p, j>> \in ConsumersOf(w, input.outbox) :
                    w.operations[p].inputs[j].kind = "outbox"} \subseteq {<<o, i>>}

CheckSketch(w, o) ==
    \A object \in w.operations[o].sketch : ObjectOwners(w, object) # {}

Repeats(ids) == Cardinality(Range(ids)) # Len(ids)

(* The four namespaces of a program. *)
IdsIn(program) ==
    LET steps == AllSteps(program)
        of(pick(_)) == FlattenSeq([i \in DOMAIN steps |-> pick(steps[i])])
        bodies(s) == IF s.kind = "tx" THEN s.body ELSE <<>>
        inBody(s, kinds, ids(_)) ==
            FlattenSeq([i \in DOMAIN bodies(s) |-> IF bodies(s)[i].kind \in kinds THEN ids(bodies(s)[i]) ELSE <<>>])
        effects(s) == IF s.kind = "execute" THEN <<s.effect>>
                      ELSE inBody(s, {"intent", "outbox"}, LAMBDA b : <<b.effect>>)
        bindings(s) == CASE s.kind \in {"execute", "execute_intent", "race"} -> Bound(s.bind)
                         [] s.kind = "join" -> FlattenSeq([i \in DOMAIN s.handles |-> Bound(s.handles[i].bind)])
                         [] OTHER -> inBody(s, Establishing, LAMBDA b : SetToSeq(b.binds))
    IN  <<of(LAMBDA s : IF s.kind = "tx" THEN <<s.id>> ELSE <<>>), of(effects), of(bindings),
         of(LAMBDA s : IF s.kind \in {"execute", "execute_intent"} THEN Bound(s.handle) ELSE <<>>)>>

(* The applied transition is declared, and each of its effects supplied.   *)
Supplies(w, s) ==
    /\ s.machine \in DOMAIN w.machines
    /\ s.transition \in DOMAIN w.machines[s.machine].transitions
    /\ DOMAIN s.supplies = DOMAIN w.machines[s.machine].transitions[s.transition].sides
    /\ s.derives = DOMAIN w.machines[s.machine].transitions[s.transition].admits

CheckBody(w, draft, t, s) ==
    /\ InputsNamed(Given(s)) \subseteq DOMAIN draft.inputs
    /\ s.kind \in Touching /\ t.model # None => s.on[1] \in DOMAIN w.models[t.model].objects
    /\ CASE s.kind = "transition" -> Supplies(w, s)
         [] s.kind = "intent" -> ContractResolves(w, s.contract)
         [] s.kind = "output" -> HasSchemas(w, {s.schema})
         [] s.kind = "outbox" -> t.model # None /\ AdmitsMessage(w, t.model, s.contract)
         [] OTHER -> TRUE

CheckStep(w, draft, s) ==
    CASE s.kind = "tx" ->
            /\ s.model \in {None} \cup DOMAIN w.models
            /\ InputsNamed(UNION {Asks(r) : r \in Range(s.requirements)}) \subseteq DOMAIN draft.inputs
            /\ \A i \in DOMAIN s.body : CheckBody(w, draft, s, s.body[i])
      [] s.kind = "execute" -> ContractResolves(w, s.contract) /\ InputsNamed(s.from \cup s.contract.keys) \subseteq DOMAIN draft.inputs
      [] s.kind = "return"  -> InputsNamed(s.from) \cup {s.request} \subseteq DOMAIN draft.inputs
      [] s.kind = "branch"  -> InputsNamed(s.from) \subseteq DOMAIN draft.inputs
      [] OTHER -> TRUE

(* A source that only a program or a transition can declare.  Of an effect *)
(* that is not declared, and of a machine, nothing is said here.           *)
NamedHere(w, c, root) ==
    CASE root[1] \in {"output", "ok", "err", "read"} -> Named(w, c, root)
      [] root[1] = "effect" -> \A x \in TransitionEffects(w) : x[2] = root[2] => OfTransitions(w, c, x[1])
      [] OTHER -> TRUE

(* What the validator says of a program that is decided by the program and *)
(* by what is shared, of a model with no other operation.  Where the paths *)
(* of its values lead is not judged.                                       *)
ProgramDiagnostics(w, o) ==
    LET draft == w.operations[o]
        answered(s) == {i \in {s.request} \cap DOMAIN draft.inputs : draft.inputs[i].kind = "request"}
        answers(s) == s.kind = "return" => \A i \in answered(s) : s.arm \in DOMAIN draft.inputs[i].answers
        placed(s) == s.kind \in {"execute", "intent"} => Placed(s.contract) /\ GuaranteesPlaced(s.contract)
    IN  /\ \A g \in ProgramRefs(o, draft.program) : NamedHere(w, g[1], g[2])
        /\ Availability(Evaluated(w, draft.program)) = {}
        /\ GuardedMutations(w, draft.program)
        /\ \A s \in StepsOf(draft.program) : answers(s) /\ placed(s)
        /\ \A b \in BodyOf(draft.program) : placed(b[2])

CheckProgram(w, o, program) ==
    /\ \A s \in StepsOf(program) : CheckStep(w, w.operations[o], s)
    /\ \A i \in DOMAIN IdsIn(program) : ~Repeats(IdsIn(program)[i])
    /\ ProgramDiagnostics(w, o)

CheckRequirements(w, o) ==
    \A draft \in Drafts(w, o) : InputsNamed(UNION {Asks(r) : r \in RequirementsOf(draft)}) \subseteq DOMAIN draft.inputs

CheckBoundary(w, b, kind) ==
    /\ b[1] \in DOMAIN w.operations
    /\ b[2] \in DOMAIN w.operations[b[1]].inputs
    /\ w.operations[b[1]].inputs[b[2]].kind = kind

CheckPool(w, pool) == pool \in DOMAIN w.runtime.pools

(* The topics of which a subscription runtime declares transport of its own. *)
OwnTransport(w, b) ==
    IF DeclaresTransport(w.runtime.subscriptions[b]) /\ CheckBoundary(w, b, "subscription")
    THEN {w.operations[b[1]].inputs[b[2]].topic} ELSE {}

SharedTransport(w) == {t \in DOMAIN w.runtime.topics : DeclaresTransport(w.runtime.topics[t])}

CheckTopicRuntime(w, t, value) ==
    /\ HasTopic(w, t)
    /\ OrderedAsGrouped(value)
    /\ DeclaresTransport(value) => \A b \in DOMAIN w.runtime.subscriptions : t \notin OwnTransport(w, b)

CheckLayout(w, value) ==
    /\ value.key # {}
    /\ value.object[1] \in DOMAIN w.models
    /\ value.object[2] \in DOMAIN w.models[value.object[1]].objects

CheckDispatch(w, b, value, kind) == CheckBoundary(w, b, kind) /\ CheckPool(w, value.pool)

Check(w, m) ==
    CASE m.kind = "schema"        -> HasSchemas(w, SchemaRefs(m.value))
      [] m.kind = "data_model"    -> HasSchemas(w, {m.value.objects[x].schema : x \in DOMAIN m.value.objects})
      [] m.kind = "topic"         -> HasSchemas(w, m.value.messages)
      [] m.kind = "state_machine" -> CheckMachine(w, m.value)
      [] m.kind = "operation_interface" ->
            /\ m.value.service \in DOMAIN w.services
            /\ \A i \in DOMAIN m.value.inputs : CheckInput(w, m.id, i, m.value.inputs[i])
            /\ CheckSketch(w, m.id)
      [] m.kind = "operation_program" -> CheckProgram(w, m.id, m.value)
      [] m.kind \in RequirementKinds -> CheckRequirements(w, m.id)
      [] m.kind = "router" -> CheckBoundary(w, m.value.boundary, "request") /\ CheckPool(w, m.value.pool)
      [] m.kind = "subscription_runtime" ->
            /\ CheckDispatch(w, m.id, m.value, "subscription")
            /\ DeclaresTransport(m.value) => w.operations[m.id[1]].inputs[m.id[2]].topic \notin SharedTransport(w)
      [] m.kind = "outbox_runtime" -> CheckDispatch(w, m.id, m.value, "outbox")
      [] m.kind = "topic_runtime"  -> CheckTopicRuntime(w, m.id, m.value)
      [] m.kind = "storage_layout" -> CheckLayout(w, m.value)
      [] OTHER -> TRUE

CheckPatch(w, patch) == \A m \in Range(patch) : Check(w, m)

Mutations(kind, f) == {[kind |-> kind, id |-> i, value |-> f[i]] : i \in DOMAIN f}

SkeletonOf(w) ==
    Mutations("schema", w.schemas) \cup Mutations("data_model", w.models) \cup Mutations("topic", w.topics)
        \cup Mutations("state_machine", w.machines)
        \cup Mutations("operation_interface", [o \in DOMAIN w.operations |-> Interface(w.operations[o])])
        \cup Mutations("topic_runtime", w.runtime.topics) \cup Mutations("execution_pool", w.runtime.pools)
        \cup Mutations("subscription_runtime", w.runtime.subscriptions)
        \cup Mutations("outbox_runtime", w.runtime.outboxes)
        \cup Mutations("router", w.runtime.routers) \cup Mutations("storage_layout", w.runtime.layouts)

Invoked(w) == \A o \in DOMAIN w.operations : w.operations[o].inputs # <<>>

EveryOutboxConsumed(w) ==
    \A p \in AllOutboxes(w) : \E b \in OfKind(w, "outbox") : InputOf(w, b).outbox = p[2]

(* Whether programs may be written against what has been declared: checked *)
(* again, every operation invoked by something, every outbox consumed.     *)
SkeletonReady(w) ==
    (\A m \in SkeletonOf(w) : Check(w, m)) /\ Invoked(w) /\ EveryOutboxConsumed(w)
================================================================================
