------------------------------- MODULE ValueRules -------------------------------
(***************************************************************************)
(* The values that a model's declarations name: src/analyzer/validation/   *)
(* mod.rs, where a reference to a value is judged twice, first whether its *)
(* source can be observed where it is named, then whether its path leads   *)
(* to a field in every schema that the source may have.                    *)
(***************************************************************************)
EXTENDS SymbolGraph

Inputs(w) == UNION {{<<o, i>> : i \in DOMAIN w.operations[o].inputs} : o \in DOMAIN w.operations}

InputOf(w, b) == w.operations[b[1]].inputs[b[2]]

OfKind(w, kind) == {b \in Inputs(w) : InputOf(w, b).kind = kind}

ModelOfObject(w, x) == {m \in DOMAIN w.models : x \in DOMAIN w.models[m].objects}

ModelOfOutbox(w, x) == {m \in DOMAIN w.models : x \in DOMAIN w.models[m].outboxes}

AllObjects(w) == UNION {{<<m, x>> : x \in DOMAIN w.models[m].objects} : m \in DOMAIN w.models}

AllOutboxes(w) == UNION {{<<m, x>> : x \in DOMAIN w.models[m].outboxes} : m \in DOMAIN w.models}

ObjectAt(w, p) == w.models[p[1]].objects[p[2]]

OutboxAt(w, p) == w.models[p[1]].outboxes[p[2]]

SchemaOf(w, x) == {ObjectAt(w, <<m, x>>).schema : m \in ModelOfObject(w, x)}

(***************************************************************************)
(* Paths of a schema.                                                      *)
(***************************************************************************)

(* What a path leads to, as a set of at most one: a type, and whether a    *)
(* field on the way may be absent.  No path goes through a list.           *)
RECURSIVE FieldAt(_, _, _)
FieldAt(w, s, path) ==
    LET schema == w.schemas[s]
        first == Head(path)
        type == schema.fields[first]
        absent == first \in schema.optional
    IN  IF s \notin DOMAIN w.schemas \/ path = <<>> THEN {}
        ELSE IF schema.source # None
             THEN IF first \in DOMAIN schema.mapping
                  THEN FieldAt(w, schema.source, schema.mapping[first] \o Tail(path)) ELSE {}
        ELSE IF first \notin DOMAIN schema.fields THEN {}
        ELSE IF Len(path) = 1 THEN {<<type, absent>>}
        ELSE IF type[1] # "schema" THEN {}
        ELSE {<<f[1], absent \/ f[2]>> : f \in FieldAt(w, type[2], Tail(path))}

Resolves(w, s, path) == FieldAt(w, s, path) # {}

ResolveAll(w, s, paths) == \A path \in paths : Resolves(w, s, path)

(* Of one of these types, and never absent. *)
AlwaysOf(w, s, path, types) == FieldAt(w, s, path) \cap (types \X {FALSE}) # {}

(* `*` stands for every field of the object. *)
ObjectPaths(w, x, paths) == \A s \in SchemaOf(w, x) : ResolveAll(w, s, paths \ AllFields)

(***************************************************************************)
(* Where a value is named.  A context is the operation that evaluates it,  *)
(* or the transition whose every applier does; the body it is in, if any,  *)
(* and the step; and the error class that each enclosing arm selects.      *)
(***************************************************************************)

InOperation(o) == [op |-> o, transition |-> None, body |-> <<>>, at |-> 0, classes |-> <<>>]

InTransition(t) == [InOperation(None) EXCEPT !.transition = t]

InBody(here, tx, i) == [here EXCEPT !.body = tx.body, !.at = i]

(* The steps of a program, each with the classes selected where it stands. *)
RECURSIVE Scoped(_, _)
Scoped(program, classes) ==
    UNION {LET s == program[i]
               in(arm) == IF s.kind = "match" /\ arm # "ok" THEN (s.result :> arm) @@ classes ELSE classes
           IN  {<<s, classes>>} \cup (IF Decides(s) THEN UNION {Scoped(Arms(s)[arm], in(arm)) : arm \in DOMAIN Arms(s)} ELSE {}) :
           i \in DOMAIN program}

TransitionEffects(w) ==
    LET owned(m, t, effects) == {<<<<m, t>>, e, effects[e]>> : e \in DOMAIN effects}
    IN  UNION {UNION {owned(m, t, w.machines[m].transitions[t].sides) \cup owned(m, t, w.machines[m].transitions[t].admits) :
                      t \in DOMAIN w.machines[m].transitions} : m \in DOMAIN w.machines}

Applies(w, o, t) ==
    \E b \in BodyOf(w.operations[o].program) : b[2].kind = "transition" /\ <<b[2].machine, b[2].transition>> = t

(* Whether those who evaluate a value here are invocations of an operation, *)
(* or have applied a transition.                                           *)
OfOperations(w, c, o) == IF c.op = None THEN Applies(w, o, c.transition) ELSE c.op = o

OfTransitions(w, c, t) == IF c.op = None THEN c.transition = t ELSE Applies(w, c.op, t)

OutputsOf(program) == UNION {b[2].binds : b \in {c \in BodyOf(program) : c[2].kind = "output"}}

ResultsOf(program) == UNION {Binds(s) : s \in StepsOf(program)}

(* The source of a value is declared, and can be observed here.            *)
Named(w, c, root) ==
    LET ops == {o \in DOMAIN w.operations : OfOperations(w, c, o)}
        program(o) == w.operations[o].program
    IN  CASE root[1] = "input"  -> \E o \in ops : root[2] \in DOMAIN w.operations[o].inputs
          [] root[1] = "output" -> \E o \in ops : root[2] \in OutputsOf(program(o))
          [] root[1] \in {"ok", "err"} -> \E o \in ops : root[2] \in ResultsOf(program(o))
          [] root[1] = "effect" ->
                \/ \E s \in ProgramSites(w) : s[2] = root[2] /\ s[1] \in ops
                \/ \E x \in TransitionEffects(w) : x[2] = root[2] /\ OfTransitions(w, c, x[1])
          [] root[1] = "read"    -> root[2] \in KnownReads(c.body, c.at)
          [] root[1] = "subject" -> root[2] \in DOMAIN w.machines
          [] OTHER -> TRUE

(***************************************************************************)
(* What a value may be.                                                    *)
(***************************************************************************)

(* An effect's answer, arm by arm, as a set of at most one.                *)
ResultOf(w, c) ==
    CASE c.kind = "request" ->
            {InputOf(w, b).answers : b \in {<<c.to, c.input>>} \cap OfKind(w, "request")}
      [] c.kind = "external" -> {c.answers} \ {<<>>}
      [] OTHER -> {}

(* The contract of the effect that an intent captures. *)
Captured(w, program, intent) ==
    LET inBody(s) ==
            CASE s.kind = "intent" /\ intent \in s.binds -> {s.contract}
              [] s.kind = "transition" ->
                    {x[3] : x \in {y \in TransitionEffects(w) : /\ y[1] = <<s.machine, s.transition>>
                                                                /\ y[2] \in DOMAIN s.supplies
                                                                /\ s.supplies[y[2]] = intent}}
              [] OTHER -> {}
    IN  UNION {inBody(b[2]) : b \in BodyOf(program)}

Launched(w, program, s) == IF s.kind = "execute" THEN {s.contract} ELSE Captured(w, program, s.intent)

HandleContracts(w, program, h) == UNION {Launched(w, program, s) : s \in LaunchesOf(program, h)}

(* The contract behind a result.  A race is known by its first candidate.  *)
Answered_(w, program, b) ==
    LET by(s) ==
            CASE s.kind \in {"execute", "execute_intent"} /\ s.bind = b -> Launched(w, program, s)
              [] s.kind = "join" -> UNION {HandleContracts(w, program, e.handle) : e \in {f \in Range(s.handles) : f.bind = b}}
              [] s.kind = "race" /\ s.bind = b /\ s.handles # <<>> -> HandleContracts(w, program, Head(s.handles))
              [] OTHER -> {}
    IN  UNION {by(s) : s \in StepsOf(program)}

(* An error is of the class that an arm around the reference selects.      *)
ResultSchemas(w, c, root) ==
    LET arms == IF root[1] = "ok" THEN {"ok"} ELSE {c.classes[b] : b \in {root[2]} \cap DOMAIN c.classes}
        contracts == UNION {Answered_(w, w.operations[o].program, root[2]) : o \in DOMAIN w.operations}
    IN  UNION {UNION {{answers[a] : a \in arms \cap DOMAIN answers} : answers \in ResultOf(w, k)} : k \in contracts}

(* An external effect has no payload of its own. *)
EffectSchemas(w, e) ==
    LET all == {<<s[2], s[3]>> : s \in ProgramSites(w)} \cup {<<x[2], x[3]>> : x \in TransitionEffects(w)}
    IN  {x[2].schema : x \in {y \in all : y[1] = e /\ y[2].kind # "external"}}

ReadUnder(c, id) == {s \in Range(c.body) : s.kind = "read" /\ id \in s.binds}

Delivered(w, input) == IF input.kind = "request" THEN {input.schema} ELSE Admitted(w, input)

ValueSchemas(w, c, root) ==
    LET outputs == {b[2] : b \in UNION {BodyOf(w.operations[o].program) : o \in DOMAIN w.operations}}
    IN  CASE root[1] = "input"  -> UNION {Delivered(w, InputOf(w, b)) : b \in {d \in Inputs(w) : d[2] = root[2]}}
          [] root[1] = "output" -> {s.schema : s \in {t \in outputs : t.kind = "output" /\ root[2] \in t.binds}}
          [] root[1] \in {"ok", "err"} -> ResultSchemas(w, c, root)
          [] root[1] = "effect"  -> EffectSchemas(w, root[2])
          [] root[1] = "read"    -> UNION {SchemaOf(w, s.on[1]) : s \in ReadUnder(c, root[2])}
          [] root[1] = "subject" -> UNION {SchemaOf(w, w.machines[m].object) : m \in {root[2]} \cap DOMAIN w.machines}
          [] OTHER -> {}

(* A read of a field also observes what is nested beneath it. *)
Covers(fields, path) == fields = AllFields \/ \E field \in fields : IsPrefix(field, path)

Leads(w, c, root) ==
    /\ \A s \in ValueSchemas(w, c, root) : Resolves(w, s, root[3])
    /\ root[1] = "effect" => EffectSchemas(w, root[2]) # {}
    /\ root[1] = "read" => \A s \in ReadUnder(c, root[2]) : Covers(s.fields, root[3])

(***************************************************************************)
(* Every value that a declaration names, in its context.                   *)
(***************************************************************************)

Given(s) == BodyRoots(s) \cup (IF Carries(s) THEN s.contract.keys ELSE {})

(* A key, and what is required of a transaction, is evaluated before it.   *)
StepRefs(here, s) ==
    CASE s.kind = "tx" ->
            {here} \X (s.key \cup s.requires)
              \cup UNION {{InBody(here, s, i)} \X Given(s.body[i]) : i \in DOMAIN s.body}
      [] s.kind = "execute" -> {here} \X (s.from \cup s.contract.keys)
      [] s.kind \in {"branch", "return"} -> {here} \X s.from
      [] OTHER -> {}

ProgramRefs(o, program) ==
    UNION {StepRefs([InOperation(o) EXCEPT !.classes = x[2]], x[1]) : x \in Scoped(program, <<>>)}

OperationRefs(w, o) ==
    LET draft == w.operations[o]
        keyed == UNION {draft.requirements[i].key : i \in DOMAIN draft.requirements}
    IN  {InOperation(o)} \X keyed \cup ProgramRefs(o, draft.program)

(* The contracts of a transition's effects stay with the machine.          *)
TransitionRefs(w, m, t) ==
    {InTransition(<<m, t>>)} \X UNION {x[3].keys : x \in {y \in TransitionEffects(w) : y[1] = <<m, t>>}}

OperationLeads(w, o) == \A g \in OperationRefs(w, o) : Leads(w, g[1], g[2])

TransitionLeads(w, m, t) == \A g \in TransitionRefs(w, m, t) : Leads(w, g[1], g[2])

ValuesLead(w) ==
    /\ \A o \in DOMAIN w.operations : OperationLeads(w, o)
    /\ \A m \in DOMAIN w.machines : \A t \in DOMAIN w.machines[m].transitions : TransitionLeads(w, m, t)

(***************************************************************************)
(* Types.                                                                  *)
(***************************************************************************)

Whole == {<<"scalar", "int">>}

Ordered == {<<"scalar", t>> : t \in {"int", "decimal", "timestamp"}}

(* What a value may be of, when all its schemas have it. *)
ValueTypes(w, c, root) ==
    LET schemas == ValueSchemas(w, c, root)
    IN  IF \A s \in schemas : Resolves(w, s, root[3]) THEN UNION {FieldAt(w, s, root[3]) : s \in schemas} ELSE {}

(* A position in an order is a scalar with an order, and always there.     *)
PositionsOrdered(w, o) ==
    \A x \in Scoped(w.operations[o].program, <<>>) : x[1].kind = "tx" =>
        \A i \in DOMAIN x[1].requirements : \A r \in x[1].requirements[i].position :
            ValueTypes(w, [InOperation(o) EXCEPT !.classes = x[2]], r) \subseteq Ordered \X {FALSE}
================================================================================
