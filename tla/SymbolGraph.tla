------------------------------ MODULE SymbolGraph ------------------------------
(***************************************************************************)
(* The workspace that a design is written in and the semantic graph that   *)
(* is rebuilt from it after every commit: src/design/workspace.rs,         *)
(* graph_build.rs and graph_query.rs.                                      *)
(*                                                                         *)
(* A workspace is a record of declarations, each part a function of ids:   *)
(*   services    -> content                                                *)
(*   schemas     -> [fields |-> [name -> type], optional, source,          *)
(*                  mapping]; a type is <<"scalar", name>>,                *)
(*                  <<"schema", s>> or <<"list", type>>; source is None    *)
(*                  unless a fragment                                      *)
(*   models      -> [objects |-> [id -> [schema, identity, version]],      *)
(*                   outboxes |-> [id -> [messages, identity]]]            *)
(*   topics      -> [messages, identity |-> [schema -> tuple of paths]]    *)
(*   machines    -> [object, state, states, initial, transitions |-> [id   *)
(*                   -> [from, to, sides |-> [effect -> contract],         *)
(*                   admits |-> [effect -> contract]]]]                    *)
(*   operations  -> [service, inputs, sketch, program, requirements,       *)
(*                   stage]                                                *)
(*   runtime     -> [topics, subscriptions, outboxes, pools, routers,      *)
(*                   layouts], two of them functions of <<op, input>>      *)
(*   obligations -> [status, refs], and a sequence of proposals.           *)
(* An input is [kind |-> "request", schema, answers, identity],            *)
(* [kind |-> "subscription", topic, only] or [kind |-> "outbox", outbox].  *)
(* Answers are a function of arms, "ok" and the error classes, to schemas. *)
(* A program is one of ProgramRules whose roots have a path, <<source, id, *)
(* path>>, the source also "effect" or "subject"; whose effects also name  *)
(* their contract ([kind, to, schema, keys], keys the roots of its         *)
(* propagations; a request with its input; an external effect with its     *)
(* answers, the guarantees it declares, and the roots of its identity);    *)
(* and whose body steps name the fields they touch, the machine and        *)
(* transition they apply, and what they supply to it: supplies is a        *)
(* function from the transition's effects to the bindings of the intents.  *)
(* A fingerprint is the content itself.                                    *)
(***************************************************************************)
EXTENDS ProgramRules

NoProgram == <<>>

AllMessages == {"*"}

AllFields == {<<"*">>}

(***************************************************************************)
(* What a program declares.                                                *)
(***************************************************************************)

StepsOf(program) == Range(AllSteps(program))

BodyOf(program) == UNION {{<<t.id, s>> : s \in Range(t.body)} : t \in Transactions(program)}

Carries(s) == s.kind \in {"intent", "outbox"}

(* Effect sites: <<effect, contract, content>>. *)
Sites(program) ==
    {<<s.effect, s.contract, <<s.effect, s.contract>>>> : s \in {e \in StepsOf(program) : e.kind = "execute"}}
        \cup {<<b[2].effect, b[2].contract,
                IF b[2].kind = "outbox" THEN <<b[2].effect, "write_outbox", b[1], b[2].contract>>
                ELSE <<b[2].effect, b[2].contract>>>> : b \in {c \in BodyOf(program) : Carries(c[2])}}

IntentProducers(o, program, intent) ==
    {IF b[2].kind = "intent" THEN <<"effect_site", o, b[2].effect>> ELSE <<"transaction", o, b[1]>> :
        b \in {c \in BodyOf(program) : c[2].kind \in {"intent", "transition"} /\ intent \in c[2].binds}}

LaunchProducers(o, program, s) ==
    IF s.kind = "execute" THEN {<<"effect_site", o, s.effect>>} ELSE IntentProducers(o, program, s.intent)

LaunchesOf(program, h) ==
    {s \in StepsOf(program) : s.kind \in {"execute", "execute_intent"} /\ s.handle = h}

HandleProducers(o, program, h) == UNION {LaunchProducers(o, program, s) : s \in LaunchesOf(program, h)}

(* A race is attributed to its first candidate that resolves. *)
FirstLaunched(program, s) ==
    LET found == SelectSeq(s.handles, LAMBDA h : LaunchesOf(program, h) # {})
    IN  IF found = <<>> THEN {} ELSE {Head(found)}

(* What operation control can name: <<binding, content, its producers>>.   *)
Bindings(o, program) ==
    LET results(s) ==
            CASE s.kind \in {"execute", "execute_intent"} ->
                    {<<b, <<"result", s>>, LaunchProducers(o, program, s)>> : b \in {s.bind} \ {NoBind}}
              [] s.kind = "join" ->
                    {<<e.bind, <<"join_result", e>>, HandleProducers(o, program, e.handle)>> :
                        e \in {f \in Range(s.handles) : f.bind # NoBind /\ LaunchesOf(program, f.handle) # {}}}
              [] s.kind = "race" ->
                    {<<s.bind, <<"race_result", s>>, HandleProducers(o, program, h)>> :
                        h \in IF s.bind = NoBind THEN {} ELSE FirstLaunched(program, s)}
              [] OTHER -> {}
        made(b) == {<<x, <<b[2].kind, b[2]>>,
                      IF b[2].kind = "intent" THEN {<<"effect_site", o, b[2].effect>>}
                      ELSE {<<"transaction", o, b[1]>>}>> : x \in b[2].binds}
    IN  UNION {results(s) : s \in StepsOf(program)}
            \cup UNION {made(b) : b \in {c \in BodyOf(program) : c[2].kind \in Establishing}}

IntentUses(program) == {s.intent : s \in {e \in StepsOf(program) : e.kind = "execute_intent"}}

(* Every declared requirement and its occurrence among identical ones.     *)
RequirementEntries(draft) ==
    LET txs == SelectSeq(AllSteps(draft.program), LAMBDA s : s.kind = "tx")
        all == FlattenSeq([i \in DOMAIN txs |-> txs[i].requirements]) \o draft.requirements
    IN  {<<all[i], Cardinality({j \in 1..(i - 1) : all[j] = all[i]})>> : i \in DOMAIN all}

Interface(draft) == [service |-> draft.service, inputs |-> draft.inputs, sketch |-> draft.sketch]

(***************************************************************************)
(* Nodes: pairs of a symbol key and its content.                           *)
(***************************************************************************)

Entries(kind, f) == {<<<<kind, i>>, f[i]>> : i \in DOMAIN f}

Owned(kind, owner, f) == {<<<<kind, owner, i>>, f[i]>> : i \in DOMAIN f}

(* No node stands for an outbox's runtime. *)
RuntimeNodes(w) ==
    Entries("topic_runtime", w.runtime.topics)
        \cup {<<<<"subscription_runtime", b[1], b[2]>>, w.runtime.subscriptions[b]>> :
                b \in DOMAIN w.runtime.subscriptions}
        \cup Entries("execution_pool", w.runtime.pools)
        \cup Entries("router", w.runtime.routers)
        \cup Entries("storage_layout", w.runtime.layouts)

SharedNodes(w) ==
    Entries("service", w.services)
        \cup Entries("schema", w.schemas)
        \cup Entries("data_model", w.models)
        \cup UNION {Owned("data_object", m, w.models[m].objects) : m \in DOMAIN w.models}
        \cup UNION {Owned("outbox", m, w.models[m].outboxes) : m \in DOMAIN w.models}
        \cup Entries("topic", w.topics)
        \cup Entries("state_machine", w.machines)
        \cup UNION {Owned("transition", m, w.machines[m].transitions) : m \in DOMAIN w.machines}
        \cup Entries("prompt_obligation", w.obligations)
        \cup RuntimeNodes(w)

OperationNodes(w, o) ==
    LET draft == w.operations[o]
    IN  {<<<<"operation", o>>, draft>>,
         <<<<"operation_interface", o>>, Interface(draft)>>,
         <<<<"operation_program", o>>, draft.program>>,
         <<<<"operation_requirements", o>>, draft.requirements>>}
            \cup Owned("input", o, draft.inputs)
            \cup {<<<<"transaction", o, t.id>>, t>> : t \in Transactions(draft.program)}
            \cup {<<<<"effect_site", o, s[1]>>, s[3]>> : s \in Sites(draft.program)}
            \cup {<<<<"binding", o, b[1]>>, b[2]>> : b \in Bindings(o, draft.program)}
            \cup {<<<<"requirement", o, e[1], e[2]>>, e[1]>> : e \in RequirementEntries(draft)}

Nodes(w) == SharedNodes(w) \cup UNION {OperationNodes(w, o) : o \in DOMAIN w.operations}

Keys(w) == {n[1] : n \in Nodes(w)}

(* The content under a key, as a set of at most one. *)
Fingerprint(w, key) == {n[2] : n \in {m \in Nodes(w) : m[1] = key}}

ChangedSymbols(before, after) ==
    LET moved == (Nodes(before) \ Nodes(after)) \cup (Nodes(after) \ Nodes(before))
    IN  {n[1] : n \in moved}

(***************************************************************************)
(* Edges: what each declaration names, where it exists.                    *)
(***************************************************************************)

RECURSIVE TypeSchemas(_)
TypeSchemas(type) ==
    CASE type[1] = "schema" -> {type[2]}
      [] type[1] = "list"   -> TypeSchemas(type[2])
      [] OTHER -> {}

SchemaRefs(schema) ==
    IF schema.source # None THEN {schema.source}
    ELSE UNION {TypeSchemas(schema.fields[f]) : f \in DOMAIN schema.fields}

From(from, kind, targets) == {<<from, kind, t>> : t \in targets}

SchemaKeys(schemas) == {<<"schema", s>> : s \in schemas}

OutboxKeys(w, x) == {<<"outbox", m, x>> : m \in {n \in DOMAIN w.models : x \in DOMAIN w.models[n].outboxes}}

ObjectLocations(w, x) == {<<"data_object", m, x>> : m \in {n \in DOMAIN w.models : x \in DOMAIN w.models[n].objects}}

(* Mutant: an effect is linked to what it carries and not to where it goes. *)
PayloadAlone(w, from, c) ==
    From(from, "references", SchemaKeys(IF c.kind = "external" THEN Range(c.answers) ELSE {c.schema}))

(* What an effect's contract reaches. *)
ContractEdges(w, from, c) ==
    LET reached == CASE c.kind = "publication" -> {<<"topic", c.to>>}
                     [] c.kind = "request"     -> {<<"operation", c.to>>}
                     [] c.kind = "outbox"      -> OutboxKeys(w, c.to)
                     [] OTHER -> {}
        kind == CASE c.kind = "publication" -> "publishes_topic"
                  [] c.kind = "request"     -> "calls_operation"
                  [] OTHER -> "writes_outbox"
    IN  IF c.kind = "external" THEN From(from, "references", SchemaKeys(Range(c.answers)))
        ELSE From(from, kind, reached)
             \cup From(from, "references", SchemaKeys({c.schema}))
             \cup (IF c.keys # {} THEN From(from, "propagates_idempotency_key", reached) ELSE {})

ModelEdges(w, m) ==
    LET model == w.models[m]
    IN  From(<<"data_model", m>>, "contains",
             {<<"data_object", m, x>> : x \in DOMAIN model.objects} \cup {<<"outbox", m, x>> : x \in DOMAIN model.outboxes})
        \cup UNION {From(<<"data_object", m, x>>, "references", {<<"schema", model.objects[x].schema>>}) :
                    x \in DOMAIN model.objects}
        \cup UNION {From(<<"outbox", m, x>>, "references", SchemaKeys(model.outboxes[x].messages)) :
                    x \in DOMAIN model.outboxes}

MachineEdges(w, m) ==
    LET machine == w.machines[m]
        key(t) == <<"transition", m, t>>
        sides(t) == machine.transitions[t].sides
    IN  From(<<"state_machine", m>>, "references", ObjectLocations(w, machine.object))
        \cup From(<<"state_machine", m>>, "contains", {key(t) : t \in DOMAIN machine.transitions})
        \cup UNION {UNION {ContractEdges(w, key(t), sides(t)[e]) : e \in DOMAIN sides(t)} :
                    t \in DOMAIN machine.transitions}

(* Who refers to a pool, a topic or a boundary by running on it. *)
RuntimeEdges(w) ==
    UNION {From(<<"topic_runtime", t>>, "references",
                {<<"topic", t>>} \cup SchemaKeys(DOMAIN w.runtime.topics[t].grouping)) : t \in DOMAIN w.runtime.topics}
    \cup UNION {From(<<"subscription_runtime", b[1], b[2]>>, "references",
                     {<<"input", b[1], b[2]>>, <<"execution_pool", w.runtime.subscriptions[b].pool>>}
                        \cup SchemaKeys(DOMAIN w.runtime.subscriptions[b].grouping)) :
                b \in DOMAIN w.runtime.subscriptions}
    \cup UNION {From(<<"router", r>>, "references",
                     {<<"input", w.runtime.routers[r].boundary[1], w.runtime.routers[r].boundary[2]>>,
                      <<"execution_pool", w.runtime.routers[r].pool>>}) : r \in DOMAIN w.runtime.routers}
    \cup UNION {From(<<"storage_layout", y>>, "references",
                     {<<"data_object", w.runtime.layouts[y].object[1], w.runtime.layouts[y].object[2]>>}) :
                y \in DOMAIN w.runtime.layouts}

SharedEdges(w) ==
    UNION {From(<<"schema", s>>, "references", SchemaKeys(SchemaRefs(w.schemas[s]))) : s \in DOMAIN w.schemas}
    \cup UNION {ModelEdges(w, m) : m \in DOMAIN w.models}
    \cup UNION {From(<<"topic", t>>, "references", SchemaKeys(w.topics[t].messages)) : t \in DOMAIN w.topics}
    \cup UNION {MachineEdges(w, m) : m \in DOMAIN w.machines}
    \cup RuntimeEdges(w)

OutboxDeclared(w, x) == {w.models[m].outboxes[x] : m \in {n \in DOMAIN w.models : x \in DOMAIN w.models[n].outboxes}}

(* The messages an input takes delivery of. *)
Admitted(w, input) ==
    CASE input.kind = "subscription" /\ input.only # AllMessages -> input.only
      [] input.kind = "subscription" -> UNION {w.topics[t].messages : t \in {input.topic} \cap DOMAIN w.topics}
      [] input.kind = "outbox" -> UNION {x.messages : x \in OutboxDeclared(w, input.outbox)}
      [] OTHER -> {}

InterfaceEdges(w, o) ==
    LET inputs == w.operations[o].inputs
        source(input) == IF input.kind = "outbox" THEN OutboxKeys(w, input.outbox) ELSE {<<"topic", input.topic>>}
        of(i, input) ==
            IF input.kind = "request"
            THEN From(<<"operation_interface", o>>, "contract_depends_on", SchemaKeys({input.schema} \cup Range(input.answers)))
            ELSE From(<<"input", o, i>>, IF input.kind = "outbox" THEN "consumes_outbox" ELSE "consumes_topic", source(input))
                 \cup From(<<"operation", o>>, "triggered_by", source(input))
                 \cup From(<<"operation_interface", o>>, "contract_depends_on", SchemaKeys(Admitted(w, input)))
    IN  From(<<"operation_interface", o>>, "contains", {<<"input", o, i>> : i \in DOMAIN inputs})
        \cup UNION {of(i, inputs[i]) : i \in DOMAIN inputs}

(* A body's accesses: <<"reads" or "writes", object, fields>>. *)
Accesses(w, s) ==
    LET state == {w.machines[m].state : m \in {s.machine} \cap DOMAIN w.machines}
        compared == IF s.compares = {} THEN {} ELSE {<<"reads_object", s.on[1], s.compared>>}
    IN  compared \cup
        CASE s.kind = "read" -> {<<"reads_object", s.on[1], s.fields>>}
          [] s.kind \in {"update", "compare_and_set", "advance", "fence"} -> {<<"writes_object", s.on[1], s.fields>>}
          [] s.kind \in {"upsert", "create", "delete"} -> {<<"writes_object", s.on[1], AllFields>>}
          [] s.kind = "transition" -> {<<"writes_object", s.on[1], IF state = {} THEN AllFields ELSE state>>}
          [] OTHER -> {}

TransactionEdges(w, o, t) ==
    LET key == <<"transaction", o, t.id>>
        applied == {s \in Range(t.body) : s.kind = "transition"}
    IN  From(key, "applies_state_machine", {<<"state_machine", s.machine>> : s \in applied})
        \cup From(key, "applies_transition", {<<"transition", s.machine, s.transition>> : s \in applied})
        \cup UNION {{<<key, a[1], <<"data_object", t.model, a[2]>>>> : a \in Accesses(w, s)} :
                    s \in {b \in Range(t.body) : t.model # None}}

ProgramEdges(w, o) ==
    LET program == w.operations[o].program
        node == <<"operation_program", o>>
        binding(b) == <<"binding", o, b>>
    IN  From(node, "contains",
             {<<"transaction", o, t.id>> : t \in Transactions(program)}
             \cup {<<"effect_site", o, s[1]>> : s \in Sites(program)}
             \cup {binding(b[1]) : b \in Bindings(o, program)})
        \cup UNION {TransactionEdges(w, o, t) : t \in Transactions(program)}
        \cup UNION {ContractEdges(w, <<"effect_site", o, s[1]>>, s[2]) : s \in Sites(program)}
        \cup UNION {{<<p, "produces_binding", binding(b[1])>> : p \in b[3]} : b \in Bindings(o, program)}
        \cup From(node, "uses_binding", {binding(i) : i \in IntentUses(program)})

RequirementEdges(w, o) ==
    UNION {LET key == <<"requirement", o, e[1], e[2]>>
           IN  {<<<<"operation_requirements", o>>, "contains", key>>, <<key, "requirement_targets", <<"operation", o>>>>}
               \cup From(key, "references", {<<"input", o, r[2]>> : r \in {q \in e[1].key \cup e[1].position : q[1] = "input"}}) :
           e \in RequirementEntries(w.operations[o])}

OperationEdges(w, o) ==
    From(<<"operation", o>>, "contains",
         {<<"operation_interface", o>>, <<"operation_program", o>>, <<"operation_requirements", o>>})
    \cup InterfaceEdges(w, o) \cup ProgramEdges(w, o) \cup RequirementEdges(w, o)

(* Every name that a declaration gives, whether anything bears it or not.  *)
Names(w) == SharedEdges(w) \cup UNION {OperationEdges(w, o) : o \in DOMAIN w.operations}

Edges(w) == LET keys == Keys(w) IN {e \in Names(w) : e[3] \in keys}

(***************************************************************************)
(* Queries.  An answer is a set of rows.                                   *)
(***************************************************************************)

ProgramSites(w) ==
    UNION {{<<o, s[1], s[2]>> : s \in Sites(w.operations[o].program)} : o \in DOMAIN w.operations}

(* Requests made by programs; those of transitions are in no index. *)
Calls(w) == {<<c[1], c[3].to, c[3].input, c[2]>> : c \in {s \in ProgramSites(w) : s[3].kind = "request"}}

TransitionSides(w) ==
    UNION {UNION {{<<<<m, t, e>>, w.machines[m].transitions[t].sides[e]>> :
                    e \in DOMAIN w.machines[m].transitions[t].sides} :
                  t \in DOMAIN w.machines[m].transitions} : m \in DOMAIN w.machines}

Published(c) == c.kind \in {"publication", "outbox"}

Publishers(w, to) ==
    {<<<<s[1], s[2]>>, s[3].schema>> : s \in {q \in ProgramSites(w) : Published(q[3]) /\ q[3].to = to}}
        \cup {<<s[1], s[2].schema>> : s \in {q \in TransitionSides(w) : q[2].kind = "publication" /\ q[2].to = to}}

(* An outbox no model declares has no consumers; a topic needs no declaring. *)
TakesFrom(w, input) ==
    CASE input.kind = "subscription" -> {input.topic}
      [] input.kind = "outbox" /\ OutboxKeys(w, input.outbox) # {} -> {input.outbox}
      [] OTHER -> {}

ConsumersOf(w, from) ==
    UNION {{<<o, i>> : i \in {j \in DOMAIN w.operations[o].inputs : from \in TakesFrom(w, w.operations[o].inputs[j])}} :
           o \in DOMAIN w.operations}

AllTransactions(w) == UNION {{<<o, t>> : t \in Transactions(w.operations[o].program)} : o \in DOMAIN w.operations}

TransitionUsers(w, m, t) ==
    {<<u[1], u[2].id>> : u \in {q \in AllTransactions(w) :
        \E s \in Range(q[2].body) : s.kind = "transition" /\ s.machine = m /\ s.transition = t}}

Accessing(w, kind, m, object) ==
    UNION {UNION {{<<u[1], u[2].id, a[3]>> : a \in {b \in Accesses(w, s) : b[1] = kind /\ b[2] = object}} :
                  s \in Range(u[2].body)} : u \in {q \in AllTransactions(w) : q[2].model = m}}

(* Breadth first, from `seen`, whose farthest are at distance d - 1.       *)
RECURSIVE Spread(_, _, _, _)
Spread(edges, seen, d, depth) ==
    LET reached == {s[1] : s \in seen}
        farthest == {s[1] : s \in {q \in seen : q[2] = d - 1}}
        next == {e[1] : e \in {f \in edges : f[3] \in farthest}} \ reached
    IN  IF d > depth \/ next = {} THEN seen ELSE Spread(edges, seen \cup (next \X {d}), d + 1, depth)

Both(edges) == edges \cup {<<e[3], e[2], e[1]>> : e \in edges}

Traverse(w, edges, start, depth) ==
    IF start \in Keys(w) THEN Spread(edges, {<<start, 0>>}, 1, depth) \ {<<start, 0>>} ELSE {}

(* What a value is made of: <<transaction or None, roots>>.  The values of *)
(* a binding are those of the artifact that was established under it.      *)
ValuesOf(program, x) ==
    IF x[1] = "effect"
    THEN {<<None, s.from>> : s \in {e \in StepsOf(program) : e.kind = "execute" /\ e.effect = x[2]}}
         \cup UNION {{<<t, s.from>> : s \in {e \in Range(t.body) : e.kind = "intent" /\ e.effect = x[2]}} : t \in Transactions(program)}
    ELSE UNION {{<<t, s.from>> : s \in {e \in Range(t.body) : e.kind \in Establishing /\ x[2] \in e.binds}} :
                t \in Transactions(program)}

(* An output and an effect are followed to the values they were made of.   *)
Followed(root) ==
    CASE root[1] = "output" -> {<<"binding", root[2]>>}
      [] root[1] = "effect" -> {<<"effect", root[2]>>}
      [] OTHER -> {}

RECURSIVE Behind(_, _)
Behind(program, seen) ==
    LET next == seen \cup UNION {UNION {UNION {Followed(r) : r \in v[2]} : v \in ValuesOf(program, x)} : x \in seen}
    IN  IF next = seen THEN seen ELSE Behind(program, next)

ReadFrom(t, r) == {s.on[1] : s \in {q \in (IF t = None THEN {} ELSE Range(t.body)) : q.kind = "read" /\ r[2] \in q.binds}}

Unresolved == {<<"unspecified">>}

ReadObjects(t, r) ==
    IF ReadFrom(t, r) = {} THEN Unresolved ELSE {<<"object", t.id, x, r[3]>> : x \in ReadFrom(t, r)}

ResultEffects(o, program, b) ==
    UNION {x[3] : x \in {y \in Bindings(o, program) : y[1] = b /\ ValuesOf(program, <<"binding", b>>) = {}}}

ResultRoots(o, program, r) ==
    LET effects == ResultEffects(o, program, r[2])
    IN  IF effects = {} THEN Unresolved ELSE {<<"result", e, r[1], r[3]>> : e \in effects}

RootsBehind(o, program, x) ==
    LET named(v, r) == CASE r[1] \in {"input", "subject", "unspecified"} -> {r}
                         [] r[1] = "read"                 -> ReadObjects(v[1], r)
                         [] r[1] \in {"ok", "err"}        -> ResultRoots(o, program, r)
                         [] OTHER -> {}
        values == ValuesOf(program, x)
    IN  IF values # {} THEN UNION {UNION {named(v, r) : r \in v[2]} : v \in values}
        ELSE IF x[1] = "effect" \/ ResultEffects(o, program, x[2]) = {} THEN Unresolved
        ELSE ResultEffects(o, program, x[2]) \X {None}

ProvenanceRoots(w, o, b) ==
    LET program == IF o \in DOMAIN w.operations THEN w.operations[o].program ELSE NoProgram
    IN  UNION {RootsBehind(o, program, x) : x \in Behind(program, {<<"binding", b>>})}

(* What the gate runs again over the head. *)
Answer(w, q) ==
    CASE q.kind = "callers"       -> {c \in Calls(w) : c[2] = q.of}
      [] q.kind = "callees"       -> {c \in Calls(w) : c[1] = q.of}
      [] q.kind = "readers"       -> Accessing(w, "reads_object", q.model, q.of)
      [] q.kind = "writers"       -> Accessing(w, "writes_object", q.model, q.of)
      [] q.kind = "publishers"    -> Publishers(w, q.of)
      [] q.kind = "consumers"     -> ConsumersOf(w, q.of)
      [] q.kind = "users"         -> TransitionUsers(w, q.machine, q.of)
      [] q.kind = "references_to" -> {<<e[1], e[2]>> : e \in {f \in Edges(w) : f[3] = q.of}}
      [] q.kind = "impacted_by"   -> Traverse(w, Edges(w), q.of, q.depth)
      [] q.kind = "neighborhood"  -> Traverse(w, Both(Edges(w)), q.of, q.depth)
      [] q.kind = "provenance"    -> ProvenanceRoots(w, q.op, q.of)
================================================================================
