----------------------------- MODULE ProgramRules -----------------------------
(***************************************************************************)
(* The judgment of one operation program: the part of                      *)
(* src/analyzer/validation/mod.rs that the commit gate runs on every       *)
(* program it is given (program_local_diagnostics) and that the analyzer   *)
(* runs on the whole model.                                                *)
(*                                                                         *)
(* A program is a sequence of steps, as in ReplayRules; here a step is     *)
(*   [kind |-> "tx", id, model, key |-> roots, requires |-> roots, body    *)
(*        |-> sequence of body steps, rejected |-> program or NoBlock]     *)
(*   [kind |-> "execute", classes, from |-> roots, bind, handle]           *)
(*   [kind |-> "execute_intent", intent, bind, handle]                     *)
(*   [kind |-> "join", handles |-> sequence of [handle, bind]]             *)
(*   [kind |-> "race", handles |-> sequence of handles, bind]              *)
(*   [kind |-> "match", result, arms]   [kind |-> "branch", from, arms]    *)
(*   [kind |-> "return", arm, from]     complete     abandon               *)
(* and a body step is [kind, on |-> <<object, roots, "one" or "all">>,     *)
(* from |-> roots, compares |-> roots, binds |-> ids, classes].  `classes` *)
(* are the error classes an effect's answer may carry, NoAnswer when it    *)
(* answers nothing; a root is <<"input", field>>, <<"read", id>>,          *)
(* <<"output", id>>, <<"ok", id>> or <<"err", id>>.  An error is           *)
(* <<code, id, step>>.                                                     *)
(***************************************************************************)
EXTENDS ReplayRules, FiniteSetsExt

CONSTANTS Objects,      \* data object -> [model, versioned]
          Outboxes      \* outbox -> its data model

NoAnswer == {None}

NoBind == <<None>>         \* no `bind`, and no `handle`

(***************************************************************************)
(* What a step uses and declares.                                          *)
(***************************************************************************)

BodyRoots(s) == s.on[2] \cup s.from \cup s.compares

BodyKinds(tx) == {tx.body[i].kind : i \in DOMAIN tx.body}

(* A step that can turn the commit down. *)
Rejecting == {"compare_and_set", "transition", "advance", "fence"}

MayReject(tx) == BodyKinds(tx) \cap Rejecting # {}

Establishing == {"output", "intent", "transition"}

EstablishedBy(body) ==
    UNION {body[i].binds : i \in {j \in DOMAIN body : body[j].kind \in Establishing}}

(* Every step of a program, outer ones first. *)
RECURSIVE AllSteps(_)
AllSteps(program) ==
    IF program = <<>> THEN <<>>
    ELSE LET s == Head(program)
             arms == IF Decides(s) THEN SetToSeq(DOMAIN Arms(s)) ELSE <<>>
         IN  <<s>> \o FlattenSeq([i \in DOMAIN arms |-> AllSteps(Arms(s)[arms[i]])])
                   \o AllSteps(Tail(program))

Bound(b) == IF b = NoBind THEN <<>> ELSE <<b>>

(* The ids a step declares, in the one namespace of the model. *)
Declares(s) ==
    CASE s.kind = "tx" -> <<<<"tx", s.id>>>> \o FlattenSeq([i \in DOMAIN s.body |-> SetToSeq(s.body[i].binds)])
      [] s.kind \in {"execute", "execute_intent"} -> Bound(s.bind) \o Bound(s.handle)
      [] s.kind = "join" -> FlattenSeq([i \in DOMAIN s.handles |-> Bound(s.handles[i].bind)])
      [] s.kind = "race" -> Bound(s.bind)
      [] OTHER -> <<>>

Declarations(program) ==
    LET steps == AllSteps(program) IN FlattenSeq([i \in DOMAIN steps |-> Declares(steps[i])])

DuplicateIds(program) ==
    LET ids == Declarations(program)
    IN  {<<"duplicate", ids[i], {}>> : i \in {j \in DOMAIN ids : \E k \in 1..(j - 1) : ids[k] = ids[j]}}

(***************************************************************************)
(* Definite availability.                                                  *)
(***************************************************************************)

Nothing == [artifacts |-> {}, bound |-> {}, handles |-> {}, ok |-> {}, err |-> {}]

Meet(a, b) == [part \in DOMAIN a |-> a[part] \cap b[part]]

(* Of the states that fall through, at most one: what all of them hold.  A *)
(* predecessor that terminates contributes none.                           *)
Join(states) ==
    IF states = {} THEN {}
    ELSE LET any == CHOOSE a \in states : TRUE IN {FoldSet(Meet, any, states)}

Selected(state, root) ==
    CASE root[1] = "ok"  -> root[2] \in state.ok
      [] root[1] = "err" -> \E e \in state.err : e[1] = root[2]
      [] OTHER -> FALSE

(* Why a root is not available, as a set of at most one error. *)
Lacking(state, root, s) ==
    IF root[1] = "output" THEN {<<"artifact", i, s>> : i \in {root[2]} \ state.artifacts}
    ELSE IF root[1] \in {"ok", "err"} /\ ~Selected(state, root)
         THEN {<<IF root[2] \in state.bound THEN "scope" ELSE "unbound", root[2], s>>}
    ELSE {}

Require(state, roots, s) == UNION {Lacking(state, root, s) : root \in roots}

(* A key or position of a requirement is evaluated before the body. *)
RequirementUnavailable(state, roots, s) ==
    {<<"requirement", root[2], s>> : root \in
        {r \in roots : r[1] = "read" \/ Lacking(state, r, s) # {}}}

(* An output that the body itself has established satisfies what follows. *)
BodyRequire(state, s) ==
    UNION {LET here == EstablishedBy(SelectSeq(SubSeq(s.body, 1, i - 1), LAMBDA e : e.kind = "output"))
           IN  Require([state EXCEPT !.artifacts = @ \cup here], BodyRoots(s.body[i]), s) : i \in DOMAIN s.body}

RejectedArm(s) ==
    IF MayReject(s) /\ s.rejected = NoBlock THEN {<<"missing arm", s.id, s>>}
    ELSE IF ~MayReject(s) /\ s.rejected # NoBlock THEN {<<"unexpected arm", s.id, s>>}
    ELSE {}

HandlesOf(s) == IF s.kind = "join" THEN [i \in DOMAIN s.handles |-> s.handles[i].handle] ELSE s.handles

Synchronize(state, s) ==
    LET named == HandlesOf(s)
    IN  {<<"handle", named[i], s>> : i \in {j \in DOMAIN named : named[j] \notin state.handles}}
        \cup {<<"handle twice", named[i], s>> :
                i \in {j \in DOMAIN named : \E k \in 1..(j - 1) : named[k] = named[j]}}
        \cup (IF Len(named) < (IF s.kind = "join" THEN 1 ELSE 2) THEN {<<"too few", s.kind, s>>} ELSE {})

(* Mutant: a key is evaluated once the body has run. *)
MissingAfterBody(state, s) ==
    CASE s.kind = "tx" -> Require([state EXCEPT !.artifacts = @ \cup EstablishedBy(s.body)],
                                  s.key \cup UNION {BodyRoots(s.body[i]) : i \in DOMAIN s.body}, s)
                          \cup RejectedArm(s)
      [] s.kind \in {"execute", "branch", "return"} -> Require(state, s.from, s)
      [] s.kind = "execute_intent" -> {<<"artifact", i, s>> : i \in {s.intent} \ state.artifacts}
      [] s.kind \in {"join", "race"} -> Synchronize(state, s)
      [] s.kind = "match" -> {<<"unbound", r, s>> : r \in {s.result} \ state.bound}
      [] OTHER -> {}

Missing(state, s) ==
    CASE s.kind = "tx" -> Require(state, s.key, s)
                          \cup RequirementUnavailable(state, s.requires, s)
                          \cup BodyRequire(state, s)
                          \cup RejectedArm(s)
      [] s.kind \in {"execute", "branch", "return"} -> Require(state, s.from, s)
      [] s.kind = "execute_intent" -> {<<"artifact", i, s>> : i \in {s.intent} \ state.artifacts}
      [] s.kind \in {"join", "race"} -> Synchronize(state, s)
      [] s.kind = "match" -> {<<"unbound", r, s>> : r \in {s.result} \ state.bound}
      [] OTHER -> {}

(* What a step binds for the steps after it. *)
Binds(s) ==
    CASE s.kind \in {"execute", "execute_intent"} -> {s.bind} \ {NoBind}
      [] s.kind = "join" -> {s.handles[i].bind : i \in DOMAIN s.handles} \ {NoBind}
      [] s.kind = "race" -> {s.bind} \ {NoBind}
      [] OTHER -> {}

Launches(s) == IF s.kind \in {"execute", "execute_intent"} THEN {s.handle} \ {NoBind} ELSE {}

(* The state an arm begins in. *)
Entered(state, s, arm) ==
    CASE s.kind = "tx" /\ arm = "committed" -> [state EXCEPT !.artifacts = @ \cup EstablishedBy(s.body)]
      [] s.kind = "match" /\ arm = "ok"     -> [state EXCEPT !.ok = @ \cup {s.result}]
      [] s.kind = "match" /\ arm # "ok"     ->
            [state EXCEPT !.err = {e \in @ : e[1] # s.result} \cup {<<s.result, arm>>}]
      [] OTHER -> state

(* An arm's selection is its own; an outer one of the same result stays.   *)
Left(state, s, out) ==
    IF s.kind # "match" THEN out
    ELSE {[o EXCEPT !.ok = (@ \ {s.result}) \cup (state.ok \cap {s.result}),
                    !.err = {e \in @ : e[1] # s.result} \cup {e \in state.err : e[1] = s.result}] : o \in out}

After(state, s) ==
    IF s.kind = "tx" THEN Entered(state, s, "committed")
    ELSE [state EXCEPT !.bound = @ \cup Binds(s), !.handles = @ \cup Launches(s)]

(* The errors of a block entered in a state, and what falls through it.    *)
RECURSIVE Judge(_, _)
Judge(block, state) ==
    IF block = <<>> THEN [errors |-> {}, out |-> {state}]
    ELSE LET s == Head(block)
             arms == IF Decides(s) THEN [arm \in DOMAIN Arms(s) |-> Judge(Arms(s)[arm], Entered(state, s, arm))]
                     ELSE <<>>
             through == UNION {arms[arm].out : arm \in DOMAIN arms}
             out == IF s.kind \in Terminals THEN {}
                    ELSE IF Decides(s) THEN Left(state, s, Join(through))
                    ELSE {After(state, s)}
             here == Missing(state, s) \cup UNION {arms[arm].errors : arm \in DOMAIN arms}
         IN  IF out = {}
             THEN [errors |-> here \cup {<<"unreachable", None, t>> : t \in Range(SubSeq(block, 2, Min({2, Len(block)})))},
                   out |-> {}]
             ELSE LET rest == Judge(Tail(block), CHOOSE o \in out : TRUE)
                  IN  [rest EXCEPT !.errors = here \cup @]

Availability(program) ==
    LET judged == Judge(program, Nothing)
    IN  judged.errors \cup (IF judged.out # {} THEN {<<"not terminated", None, {}>>} ELSE {})

(***************************************************************************)
(* References.                                                             *)
(***************************************************************************)

(* A read is known to the steps after it in its own body. *)
KnownReads(body, i) == UNION {body[j].binds : j \in {k \in 1..(i - 1) : body[k].kind = "read"}}

ReadsOf(roots) == {r[2] : r \in {q \in roots : q[1] = "read"}}

MisplacedReads(s) ==
    CASE s.kind = "tx" ->
            ReadsOf(s.key) \cup UNION {ReadsOf(BodyRoots(s.body[i])) \ KnownReads(s.body, i) : i \in DOMAIN s.body}
      [] s.kind \in {"execute", "branch", "return"} -> ReadsOf(s.from)
      [] OTHER -> {}

References(program) ==
    LET steps == AllSteps(program)
    IN  UNION {{<<"reference", r, steps[i]>> : r \in MisplacedReads(steps[i])} : i \in DOMAIN steps}

(***************************************************************************)
(* Results.                                                                *)
(***************************************************************************)

IntentClasses(program, intent) ==
    UNION {UNION {IF s.kind = "intent" /\ intent \in s.binds THEN {s.classes} ELSE {} : s \in Range(t.body)} :
           t \in {u \in Range(AllSteps(program)) : u.kind = "tx"}}

EffectClasses(program, s) ==
    IF s.kind = "execute" THEN {s.classes} ELSE IntentClasses(program, s.intent)

HandleClasses(program, h) ==
    UNION {EffectClasses(program, s) : s \in
        {t \in Range(AllSteps(program)) : t.kind \in {"execute", "execute_intent"} /\ t.handle = h}}

(* The contracts of what a step binds: pairs of a result and its classes.  *)
Contracts(program, s) ==
    CASE s.kind \in {"execute", "execute_intent"} /\ s.bind # NoBind -> {s.bind} \X EffectClasses(program, s)
      [] s.kind = "join" -> UNION {{s.handles[i].bind} \X HandleClasses(program, s.handles[i].handle) :
                                   i \in {j \in DOMAIN s.handles : s.handles[j].bind # NoBind}}
      [] s.kind = "race" /\ s.bind # NoBind ->
            {s.bind} \X UNION {HandleClasses(program, s.handles[i]) : i \in DOMAIN s.handles}
      [] OTHER -> {}

ResultBindings(program) ==
    UNION {LET contracts == Contracts(program, s)
           IN  {<<"no result", c[1], s>> : c \in {d \in contracts : d[2] = NoAnswer}}
               \cup (IF s.kind = "race" /\ Cardinality({c \in contracts : c[2] # NoAnswer}) > 1
                     THEN {<<"mismatch", s.bind, s>>} ELSE {}) : s \in Range(AllSteps(program))}

MatchArms(program) ==
    LET steps == Range(AllSteps(program))
        contracts == UNION {Contracts(program, s) : s \in steps}
        differs(s, c) == c[1] = s.result /\ c[2] # NoAnswer /\ c[2] # DOMAIN s.arms \ {"ok"}
    IN  {<<"arms", s.result, s>> : s \in
            {t \in steps : t.kind = "match" /\ \E c \in contracts : differs(t, c)}}

Abandons(request, program) ==
    {<<"abandon", None, s>> : s \in {t \in Range(AllSteps(program)) : request /\ t.kind = "abandon"}}

(***************************************************************************)
(* Bodies.                                                                 *)
(***************************************************************************)

Transactions(program) == {s \in Range(AllSteps(program)) : s.kind = "tx"}

(* An object or an outbox is of the transaction's own data model. *)
Misplaced(tx) ==
    LET model(s) == IF s.kind = "outbox" THEN Outboxes[s.on[1]] ELSE Objects[s.on[1]].model
    IN  {<<"outside data model", s.on[1], tx>> : s \in
            {e \in Range(tx.body) : e.kind \notin {"output", "intent"} /\ model(e) # tx.model}}

IdentifiesOne(s) == s.on[3] = "one"

(* A compare-and-set identifies one instance and compares something, an    *)
(* upsert identifies one, and nothing is compared twice.                   *)
Unguarded(tx) ==
    {<<"unguarded", s.on[1], tx>> : s \in
        {e \in Range(tx.body) : \/ e.kind \in {"compare_and_set", "upsert"} /\ ~IdentifiesOne(e)
                                \/ e.kind = "compare_and_set" /\ e.compares = {}
                                \/ Cardinality(e.compares) > 1}}

Bodies(program) == UNION {Misplaced(t) : t \in Transactions(program)}

(***************************************************************************)
(* The two judgments.                                                      *)
(***************************************************************************)

(* What the commit gate says of a program written in a session. *)
GateErrors(program) ==
    References(program) \cup Availability(program) \cup UNION {Unguarded(t) : t \in Transactions(program)}

(* What the analyzer says of the assembled model. *)
AnalyzerErrors(request, program) ==
    GateErrors(program) \cup ResultBindings(program) \cup MatchArms(program)
        \cup Abandons(request, program) \cup DuplicateIds(program) \cup Bodies(program)
===============================================================================
