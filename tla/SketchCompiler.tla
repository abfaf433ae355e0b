---------------------------- MODULE SketchCompiler ----------------------------
(***************************************************************************)
(* How an operation's sketch becomes its program: src/design/sketch.rs.    *)
(*                                                                         *)
(* A sketch is [request, errors, keyed, wants, returns, steps,             *)
(* on_rejected]: whether its one input is a request, the error classes the *)
(* request declares, whether the input has an identity, the objects whose  *)
(* fields the ok result carries, and the list of actions.  A value is      *)
(* named by its source, "input" or an alias: which field is taken of it is *)
(* abstracted, so `from`, `by` and `returns` are sets of sources, and the  *)
(* text the compiler scans for later uses is the set of sources mentioned. *)
(*                                                                         *)
(* The compiler's working state c has the fields of the code's Compiler;   *)
(* c.why is the refusal, None while there is none.                         *)
(***************************************************************************)
EXTENDS ProgramRules

CONSTANTS Machines,     \* transition -> [on |-> object, effects |-> its declared side effects]
          AliasOrder    \* every alias, in the order of the code's ordered maps

Unset == "unset"        \* `returns` left out

KeyRoots(sk) == IF sk.keyed THEN {<<"input", "k">>} ELSE {}

InputRoots == {<<"input", "f">>}

OrderedAliases(set) == SelectSeq(AliasOrder, LAMBDA a : a \in set)

(***************************************************************************)
(* Program steps.                                                          *)
(***************************************************************************)

BodyStep(kind, on, from, binds) ==
    [kind |-> kind, on |-> on, from |-> from, binds |-> binds, compares |-> {}, classes |-> NoAnswer]

Of(object, roots) == <<object, roots, "one">>

Nowhere == Of(None, {})

Complete == [kind |-> "complete"]

Return(arm, from) == [kind |-> "return", arm |-> arm, from |-> from]

Refused(class) == Return(class, InputRoots)

OkFromInput == Return("ok", InputRoots)

FinishEffects(sk) == IF sk.request THEN OkFromInput ELSE Complete

Execute(name, effect, classes, from, bind, handle) ==
    [kind |-> "execute", name |-> name, effect |-> effect, classes |-> classes, from |-> from,
     bind |-> bind, handle |-> handle]

ExecuteIntent(intent, bind, handle) ==
    [kind |-> "execute_intent", intent |-> intent, bind |-> bind, handle |-> handle]

(* What runs after a commit: its intents, waited for or started.           *)
AfterCommit(after) ==
    [i \in DOMAIN after |->
        ExecuteIntent(after[i].intent, NoBind,
                      IF after[i].detached THEN <<"handle of", after[i].intent>> ELSE NoBind)]

Tx(id, sk, model, body, rejected) ==
    [kind |-> "tx", id |-> id, model |-> model, key |-> KeyRoots(sk), requires |-> {}, body |-> body, rejected |-> rejected]

(***************************************************************************)
(* What steps mention, nested ones included.                               *)
(***************************************************************************)

Own(s, field) == IF field \in DOMAIN s THEN s[field] ELSE {}

RECURSIVE Mentions(_)
Mentions(steps) ==
    UNION {LET s == steps[i]
               inner(field) == IF field \in DOMAIN s THEN Mentions(s[field]) ELSE {}
               arms == IF "on_error" \in DOMAIN s
                       THEN UNION {Mentions(s.on_error[class]) : class \in DOMAIN s.on_error} ELSE {}
           IN  Own(s, "from") \cup Own(s, "by") \cup Own(s, "test")
               \cup inner("on_ok") \cup inner("then") \cup inner("otherwise_steps") \cup inner("steps") \cup arms
           : i \in DOMAIN steps}

MentionedByReturns(sk) == IF sk.returns = {Unset} THEN {} ELSE sk.returns

(***************************************************************************)
(* Values.                                                                 *)
(***************************************************************************)

Refuse(c, why) == [c EXCEPT !.why = why]

Known(c, source) ==
    \/ source = "input"
    \/ source \in DOMAIN c.results
    \/ source \in DOMAIN c.found /\ (c.found[source].open \/ c.found[source].exported)

RootOf(c, source) ==
    IF source = "input" THEN <<"input", "f">>
    ELSE IF source \in DOMAIN c.results THEN c.results[source]
    ELSE IF c.found[source].open THEN <<"read", <<"read", source>>>>
    ELSE <<"output", <<"output", source>>>>

Resolves(c, sources) == \A x \in sources : Known(c, x)

Resolve(c, sources) == {RootOf(c, x) : x \in sources}

(***************************************************************************)
(* The steps of a transaction.                                             *)
(***************************************************************************)

Transactional ==
    {"find", "update", "create", "upsert", "transition", "advance", "enqueue", "delete", "fence"}

OnAlias == {"update", "transition", "advance", "delete", "fence"}

(* What has an effect of its own: a request to another operation is a call. *)
EffectKinds == {"publish", "call"}

(* The refusal a guard names, or the one settled for it. *)
RefusalOf(sk, s) ==
    IF s.otherwise # None THEN s.otherwise
    ELSE IF s.kind = "transition" /\ sk.errors # {} THEN CHOOSE e \in sk.errors : TRUE
    ELSE None

(* Why a step cannot be recorded. *)
Unrecordable(c, sk, s) ==
    CASE s.kind = "find" /\ s.as \in DOMAIN c.found -> "names two things"
      [] s.kind \in OnAlias /\ s.record \notin DOMAIN c.found -> "no find names it"
      [] s.kind = "delete" /\ ~c.found[s.record].open -> "found in an earlier transaction"
      [] s.kind = "create" /\ s.from = {} -> "from nothing"
      [] s.kind = "transition" /\ Machines[s.transition].on # c.found[s.record].object -> "no machine"
      [] s.kind = "transition" /\ c.guarded # <<>> /\ ~c.general -> "at most one transition"
      [] s.kind = "transition" /\ sk.request /\ RefusalOf(sk, s) = None -> "names no otherwise"
      [] s.kind \in {"transition", "advance", "fence"} /\ s.otherwise # None /\ s.otherwise \notin sk.errors ->
            "not a declared error"
      [] ~Resolves(c, Own(s, "from") \cup Own(s, "by")) -> "out of scope"
      [] OTHER -> None

Find(c, s) ==
    LET selector == <<s.record, Resolve(c, s.by), IF s.all THEN "all" ELSE "one">>
        lock == IF s.lock THEN <<BodyStep("lock", selector, {}, {})>> ELSE <<>>
    IN  [c EXCEPT !.steps = @ \o lock \o <<BodyStep("read", selector, {}, {<<"read", s.as>>})>>,
                  !.models = @ \cup {Objects[s.record].model},
                  !.found = (s.as :> [object |-> s.record, selector |-> selector, single |-> ~s.all,
                                      input_only |-> s.by \subseteq {"input"},
                                      open |-> TRUE, exported |-> FALSE]) @@ @]

Create(c, s) ==
    LET on == Of(s.record, IF s.kind = "upsert" THEN Resolve(c, s.by) ELSE {})
    IN  [c EXCEPT !.steps = Append(@, BodyStep(s.kind, on, Resolve(c, s.from), {})),
                  !.created = @ \cup {s.record},
                  !.created_from = @ \o SetToSeq(Resolve(c, s.from)),
                  !.models = @ \cup {Objects[s.record].model}]

(* The intents a transition establishes are named for its side effects. *)
Transition(c, sk, s) ==
    LET t == c.found[s.record]
        intents == {<<"effect of", e>> : e \in Machines[s.transition].effects}
        refusal == RefusalOf(sk, s)
    IN  [c EXCEPT !.steps = Append(@, BodyStep("transition", t.selector, Resolve(c, s.from) \cup InputRoots, intents)),
                  !.after = @ \o [i \in DOMAIN SetToSeq(intents) |->
                                    [intent |-> SetToSeq(intents)[i], detached |-> FALSE]],
                  !.refusals = IF refusal = None THEN @ ELSE Append(@, refusal),
                  !.guarded = IF @ # <<>> THEN @
                              ELSE [alias |-> s.record, refusal |-> refusal, already_ok |-> s.already_ok],
                  !.mutated = @ \cup {s.record}]

Publish(c, s) ==
    LET intent == <<"intent", c.effects + 1>>
    IN  [c EXCEPT !.steps = Append(@, BodyStep("intent", Of(s.name, {}), Resolve(c, s.from), {intent})),
                  !.effects = @ + 1,
                  !.after = Append(@, [intent |-> intent, detached |-> s.detached])]

UpdateStep(c, s) ==
    [c EXCEPT !.steps = Append(@, BodyStep("update", c.found[s.record].selector, Resolve(c, s.from), {})),
              !.mutated = @ \cup {s.record}]

AdvanceStep(c, s) ==
    [c EXCEPT !.steps = Append(@, BodyStep(s.kind, c.found[s.record].selector, Resolve(c, s.from), {})),
              !.refusals = IF s.otherwise = None THEN @ ELSE Append(@, s.otherwise),
              !.mutated = @ \cup {s.record}]

EnqueueStep(c, s) ==
    [c EXCEPT !.steps = Append(@, BodyStep("outbox", Of(s.outbox, {}), Resolve(c, s.from), {})),
              !.effects = @ + 1,
              !.models = @ \cup {Outboxes[s.outbox]}]

DeleteStep(c, s) ==
    [c EXCEPT !.steps = Append(@, BodyStep("delete", c.found[s.record].selector, {}, {})),
              !.deleted = @ \cup {s.record}]

Recorded(c, sk, s) ==
    CASE s.kind = "find" -> Find(c, s)
      [] s.kind \in {"create", "upsert"} -> Create(c, s)
      [] s.kind = "transition" -> Transition(c, sk, s)
      [] s.kind = "publish" -> Publish(c, s)
      [] s.kind = "update" -> UpdateStep(c, s)
      [] s.kind \in {"advance", "fence"} -> AdvanceStep(c, s)
      [] s.kind = "delete" -> DeleteStep(c, s)
      [] s.kind = "enqueue" -> EnqueueStep(c, s)

RecordStep(c, sk, s) ==
    IF c.why # None THEN c
    ELSE IF Unrecordable(c, sk, s) # None THEN Refuse(c, Unrecordable(c, sk, s))
    ELSE Recorded(c, sk, s)

(***************************************************************************)
(* Protection of what the transaction changes.                             *)
(***************************************************************************)

ReadIndex(c, alias) == SelectInSeq(c.steps, LAMBDA s : s.kind = "read" /\ <<"read", alias>> \in s.binds)

FirstChange(c, alias) ==
    SelectInSeq(c.steps, LAMBDA s : /\ s.kind \in {"update", "transition", "advance"}
                                    /\ s.on = c.found[alias].selector)

Guardable(c, alias) ==
    /\ alias \in c.mutated
    /\ c.found[alias].single
    /\ Objects[c.found[alias].object].versioned
    /\ ReadIndex(c, alias) # 0
    /\ FirstChange(c, alias) # 0

(* The first change is made on the version the read observed. *)
Observed(s, alias) ==
    [s EXCEPT !.kind = IF @ = "update" THEN "compare_and_set" ELSE @,
              !.compares = @ \cup {<<"read", <<"read", alias>>>>}]

(* Mutant: a lock is taken where the change is made. *)
HoldLate(c, alias) ==
    LET selector == c.found[alias].selector
        at == SelectInSeq(c.steps, LAMBDA s : s.kind \in {"update", "transition", "advance", "fence", "delete"}
                                              /\ s.on = selector)
    IN  IF at = 0 THEN c
        ELSE [c EXCEPT !.steps = InsertAt(@, at, BodyStep("exclusive", selector, {}, {}))]

(* An author's lock on the selection is kept; else one is taken before the read. *)
Hold(c, alias) ==
    LET selector == c.found[alias].selector
        lock == SelectInSeq(c.steps, LAMBDA s : s.kind \in {"lock", "exclusive"} /\ s.on = selector)
        exclusive == BodyStep("exclusive", selector, {}, {})
    IN  IF c.why # None THEN c
        ELSE IF lock # 0 THEN [c EXCEPT !.steps[lock] = exclusive]
        ELSE IF ReadIndex(c, alias) = 0 THEN Refuse(c, "panic: a found record has a read")
        ELSE [c EXCEPT !.steps = InsertAt(@, ReadIndex(c, alias), exclusive)]

Protect(c) ==
    LET aliases == OrderedAliases(c.mutated \cup c.deleted)
        guard(q, alias) ==
            IF Guardable(q.c, alias)
            THEN [q EXCEPT !.c.steps[FirstChange(q.c, alias)] = Observed(@, alias)]
            ELSE [q EXCEPT !.held = Append(@, alias)]
        guarded == FoldLeft(guard, [c |-> c, held |-> <<>>], aliases)
    IN  FoldLeft(Hold, guarded.c, guarded.held)

(***************************************************************************)
(* The result's output, and the closing of a transaction.                  *)
(***************************************************************************)

(* Where an object's field is found by name: the first record found of it, *)
(* in whichever transaction, else what a creation was made from.           *)
ByName(c, object) ==
    LET aliases == OrderedAliases({a \in DOMAIN c.found : c.found[a].object = object})
    IN  IF object = "input" THEN InputRoots
        ELSE IF aliases # <<>> THEN {<<"read", <<"read", Head(aliases)>>>>}
        ELSE IF object \in c.created /\ c.created_from # <<>> THEN {Head(c.created_from)}
        ELSE {}

(* The roots of the ok result's output; none when it needs no output. *)
OutputFrom(c, sk) ==
    LET from == IF sk.returns # {Unset} THEN Resolve(c, sk.returns)
                ELSE UNION {ByName(c, object) : object \in sk.wants}
    IN  IF ~sk.request THEN {} ELSE IF from # {} THEN from ELSE KeyRoots(sk)

ResultOutput(from) == BodyStep("output", Nowhere, from, {<<"output", "result">>})

ReturnsResolve(c, sk) == sk.request /\ sk.returns # {Unset} => Resolves(c, sk.returns)

Exports(c, later) == OrderedAliases({a \in DOMAIN c.found \cap later : c.found[a].open})

Exporting(c, later) ==
    [i \in DOMAIN Exports(c, later) |->
        BodyStep("output", Nowhere, {<<"read", <<"read", Exports(c, later)[i]>>>>},
                 {<<"output", Exports(c, later)[i]>>})]

(* Mutant: a record can still be read once its transaction has committed. *)
CloseNothing(c, exported) ==
    [c EXCEPT !.found = [a \in DOMAIN @ |-> [@[a] EXCEPT !.exported = @ \/ a \in exported]]]

Close(c, exported) ==
    [c EXCEPT !.found = [a \in DOMAIN @ |-> [@[a] EXCEPT !.open = FALSE, !.exported = @ \/ a \in exported]]]

(* A publication alone is arranged in a transaction of no data model. *)
ModelOpen(c) == IF c.models = {} THEN None ELSE CHOOSE m \in c.models : TRUE

Fail(c, why) == [c |-> Refuse(c, why), out |-> <<>>, ended |-> TRUE]

Go(c, out) == [c |-> c, out |-> out, ended |-> FALSE]

(* The first refusal is the compilation's. *)
AndThen(r, Next(_)) == IF r.c.why # None THEN r ELSE Next(r)

Following(out, r) == [r EXCEPT !.out = out \o @]

RECURSIVE Steps(_, _, _, _, _)

InBlock(c, r) == [r EXCEPT !.c.found = [a \in DOMAIN @ \cap DOMAIN c.found |-> @[a]]]

(* A block's own finds go out of scope with it. *)
Block(c, steps, after, top, sk) == InBlock(c, Steps(c, steps, after, top, sk))

(* What a rejected transaction does. *)
RejectedCourse(c, sk, tx) ==
    LET back(r) == [r.c EXCEPT !.on_rejected = c.on_rejected]
        finished(r) == IF r.ended THEN Go(back(r), r.out)
                       ELSE IF sk.request THEN Fail(back(r), "on_rejected must end a request")
                       ELSE Go(back(r), Append(r.out, Complete))
    IN  IF ~MayReject(tx) THEN Go(c, NoBlock)
        ELSE IF sk.request /\ c.refusals # <<>> THEN Go(c, <<Refused(Head(c.refusals))>>)
        ELSE IF c.on_rejected = <<>> THEN Go(c, <<Complete>>)
        ELSE finished(Block([c EXCEPT !.used = TRUE, !.on_rejected = <<>>], c.on_rejected, {}, FALSE,
                            [sk EXCEPT !.returns = {Unset}]))

(* The protected steps of the open transaction, what later steps and the   *)
(* result take from it, and the course of its rejection.                   *)
Sealed(p, later, from, sk) ==
    LET result == IF from # {} THEN <<ResultOutput(from)>> ELSE <<>>
        tx == Tx(p.segments + 1, sk, ModelOpen(p), p.steps \o Exporting(p, later) \o result, NoBlock)
        closed == [Close(p, {}) EXCEPT !.steps = <<>>, !.segments = @ + 1, !.final = @ \/ from # {}]
        committed(turned) ==
            Go([Close(turned.c, Range(Exports(p, later))) EXCEPT
                    !.mutated = {}, !.deleted = {}, !.models = {},
                    !.guarded = <<>>, !.refusals = <<>>, !.after = <<>>],
               <<[tx EXCEPT !.rejected = turned.out]>> \o AfterCommit(turned.c.after))
    IN  IF p.why # None THEN Fail(p, p.why) ELSE AndThen(RejectedCourse(closed, sk, tx), committed)

Seal(c, later, last, sk) ==
    IF c.why # None \/ c.steps = <<>> THEN Go(c, <<>>)
    ELSE IF Cardinality(c.models) > 1 THEN Fail(c, "two data models")
    ELSE IF last /\ ~ReturnsResolve(c, sk) THEN Fail(c, "out of scope")
    ELSE Sealed(Protect(c), later, IF last THEN OutputFrom(c, sk) ELSE {}, sk)

(***************************************************************************)
(* Effects and their answers.                                              *)
(***************************************************************************)

DataModelOf(c, s) ==
    CASE s.kind \in {"find", "create", "upsert"} -> Objects[s.record].model
      [] s.kind = "enqueue" -> Outboxes[s.outbox]
      [] OTHER -> Objects[c.found[s.record].object].model

(* A change is to a record that the open transaction found. *)
OutOfReach(c, s) ==
    s.kind \in OnAlias /\ (s.record \notin DOMAIN c.found \/ ~c.found[s.record].open)

ClassesOf(s) == IF s.kind = "publish" THEN NoAnswer ELSE s.classes

AliasOf(s) == IF s.kind = "publish" THEN None ELSE s.as

Acts(s) == s.kind # "publish" /\ (s.on_ok # <<>> \/ DOMAIN s.on_error # {})

(* An effect is counted when its ids are drawn. *)
Answered(c, s) ==
    IF ~Resolves(c, s.from) THEN Refuse(c, "out of scope") ELSE [c EXCEPT !.effects = @ + 1]

NameOf(alias, other) == IF alias = None THEN other ELSE <<"result", alias>>

Launch(c, s) ==
    LET launched(a) ==
            IF a.why # None THEN Fail(a, a.why)
            ELSE IF Acts(s) THEN Fail(a, "cannot act on its answer itself")
            ELSE Go(a, <<Execute(s.name, a.effects, ClassesOf(s), Resolve(c, s.from), NoBind, <<"handle", a.effects>>)>>)
    IN  IF c.why # None THEN Go(c, <<>>) ELSE launched(Answered(c, s))

LaunchAll(c, members) ==
    FoldLeft(LAMBDA q, s : Following(q.out, Launch(q.c, s)), Go(c, <<>>), members)

(* The match on an answer.  Steps that use the answer continue in its ok   *)
(* arm, and then every error arm ends the operation.                       *)
ErrorArm(c, class, usedLater, r, sk) ==
    IF ~usedLater \/ r.ended \/ r.c.why # None THEN r
    ELSE IF ~sk.request THEN Go(r.c, Append(r.out, Complete))
    ELSE IF class \in sk.errors THEN Go(r.c, Append(r.out, Refused(class)))
    ELSE Fail(r.c, "its arm must end the request")

Matched(c, bind, alias, classes, onOk, onError, usedLater, remaining, rest, after, top, sk) ==
    LET named(q, arm) == IF alias = None THEN q ELSE [q EXCEPT !.results = (alias :> <<arm, bind>>) @@ @]
        armOf(class) == IF class \in DOMAIN onError THEN onError[class] ELSE <<>>
        grown(q, class, r) == [c |-> r.c, arms |-> (class :> r.out) @@ q.arms]
        one(q, class) ==
            grown(q, class, ErrorArm(q.c, class, usedLater,
                                     Block(named(q.c, "err"), armOf(class), rest, FALSE, sk), sk))
        all(ok) == FoldLeft(one, [c |-> ok.c, arms |-> ("ok" :> ok.out)], SetToSeq(classes))
        match(q) == Go([q.c EXCEPT !.results = [a \in DOMAIN @ \ {alias} |-> @[a]]],
                       <<[kind |-> "match", result |-> bind, arms |-> q.arms]>>)
    IN  IF ~(DOMAIN onError \subseteq classes) THEN Fail(c, "acts on an undeclared error")
        ELSE match(all(Block(named(c, "ok"), IF usedLater THEN onOk \o remaining ELSE onOk,
                             IF usedLater THEN after ELSE rest, top /\ usedLater, sk)))

(***************************************************************************)
(* The general path.                                                       *)
(***************************************************************************)

FinishGeneral(c, sk) ==
    IF ~sk.request THEN Go(c, <<Complete>>)
    ELSE IF c.final THEN Go(c, <<Return("ok", {<<"output", <<"output", "result">>>>})>>)
    ELSE IF sk.returns = {Unset} THEN Go(c, <<OkFromInput>>)
    ELSE IF ~Resolves(c, sk.returns) THEN Fail(c, "out of scope")
    ELSE Go(c, <<Return("ok", Resolve(c, sk.returns))>>)

(* The steps after a block's last: what is open is sealed, and at the top  *)
(* the operation ends.                                                     *)
EndOfBlock(c, after, top, sk) ==
    LET finished(sealed) == Following(sealed.out, [FinishGeneral(sealed.c, sk) EXCEPT !.ended = TRUE])
    IN  IF top THEN AndThen(Seal(c, after, TRUE, sk), finished) ELSE Seal(c, after, FALSE, sk)

(* A call, a request or a publication outside a transaction; durable ones  *)
(* are arranged in the open transaction and made once it commits.          *)
Arranged(c, s, here, rest, sk) ==
    LET intent(a) == <<"intent", a.effects>>
        step(a) == [BodyStep("intent", Of(s.name, {}), Resolve(c, s.from), {intent(a)}) EXCEPT !.classes = ClassesOf(s)]
        durable(a) ==
            IF a.why # None THEN Fail(a, a.why)
            ELSE Seal([a EXCEPT !.steps = Append(@, step(a))], rest, FALSE, sk)
                 @@ [launch |-> ExecuteIntent(intent(a), NoBind, NoBind)]
        direct(sealed, a) ==
            IF a.why # None THEN Fail(a, a.why)
            ELSE Go(a, sealed.out)
                 @@ [launch |-> Execute(s.name, a.effects, ClassesOf(s), Resolve(sealed.c, s.from), NoBind, NoBind)]
    IN  IF s.durable THEN durable(Answered(c, s))
        ELSE AndThen(Seal(c, here, FALSE, sk), LAMBDA sealed : direct(sealed, Answered(sealed.c, s)))

EffectStep(c, s, tail, here, rest, after, top, sk) ==
    LET usedLater == AliasOf(s) # None /\ AliasOf(s) \in rest
        bind(a) == NameOf(AliasOf(s), <<"answer", a.c.effects>>)
        matched(a) == Matched(a.c, bind(a), AliasOf(s), s.classes, s.on_ok, s.on_error, usedLater,
                              tail, rest, after, top, sk)
        launched(a) ==
            IF s.detached
            THEN IF Acts(s) THEN Fail(a.c, "not waited for")
                 ELSE Go([a.c EXCEPT !.effects = @ + 1],
                         Append(a.out, [a.launch EXCEPT !.handle = <<"handle", a.c.effects + 1>>]))
            ELSE IF ~Acts(s) /\ ~usedLater THEN Go(a.c, Append(a.out, a.launch))
            ELSE IF ClassesOf(s) = NoAnswer THEN Fail(a.c, "an answer it does not declare")
            ELSE [Following(Append(a.out, [a.launch EXCEPT !.bind = bind(a)]), matched(a)) EXCEPT !.ended = usedLater]
    IN  AndThen(Arranged(c, s, here, rest, sk), launched)

(* A branch on what its condition compares, whatever the condition is. *)
Condition(c, test, yes, no) ==
    [kind |-> "branch", id |-> None, from |-> Resolve(c, test),
     arms |-> [arm \in {"yes", "no"} |-> IF arm = "yes" THEN yes ELSE no]]

When(c, s, tail, here, rest, sk) ==
    LET both(sealed, yes, no) ==
            IF no.c.why # None THEN no
            ELSE IF yes.ended /\ no.ended /\ tail # <<>> THEN Fail(no.c, "nothing may follow")
            ELSE [c |-> no.c, ended |-> yes.ended /\ no.ended,
                  out |-> Append(sealed.out, Condition(sealed.c, s.test, yes.out, no.out))]
        otherwise(sealed, yes) ==
            both(sealed, yes, IF s.otherwise_steps = <<>> THEN Go(yes.c, <<>>)
                              ELSE Block(yes.c, s.otherwise_steps, rest, FALSE, sk))
        tested(sealed) ==
            IF ~Resolves(sealed.c, s.test) THEN Fail(sealed.c, "out of scope")
            ELSE otherwise(sealed, Block(sealed.c, s.then, rest, FALSE, sk))
    IN  AndThen(Seal(c, here, FALSE, sk), tested)

(* A reject or an abandon. *)
Stop(c, s, tail, here, sk) ==
    LET stopped(sealed) ==
            IF sk.request # (s.kind = "reject") THEN Fail(sealed.c, "only a request rejects, only a message abandons")
            ELSE IF s.kind = "reject" /\ s.error \notin sk.errors THEN Fail(sealed.c, "not a declared error")
            ELSE IF tail # <<>> THEN Fail(sealed.c, "nothing may follow")
            ELSE IF ~Resolves(sealed.c, s.from) THEN Fail(sealed.c, "out of scope")
            ELSE [c |-> sealed.c, ended |-> TRUE,
                  out |-> Append(sealed.out,
                    IF s.kind = "abandon" THEN [kind |-> "abandon"]
                    ELSE Return(s.error, IF s.from = {} THEN InputRoots ELSE Resolve(sealed.c, s.from)))]
    IN  AndThen(Seal(c, here, FALSE, sk), stopped)

Parallel(c, s, here, sk) ==
    LET named == {i \in DOMAIN s.steps : AliasOf(s.steps[i]) # None}
        bindOf(i) == IF i \in named THEN <<"result", AliasOf(s.steps[i])>> ELSE NoBind
        joined == [a \in {AliasOf(s.steps[i]) : i \in named} |->
                      LET i == CHOOSE j \in named : AliasOf(s.steps[j]) = a
                      IN  [bind |-> bindOf(i), classes |-> ClassesOf(s.steps[i])]]
        join(out) == [kind |-> "join", handles |-> [i \in DOMAIN s.steps |->
                         [handle |-> out[i].handle, bind |-> bindOf(i)]]]
        launched(l) ==
            IF s.steps = <<>> THEN Fail(l.c, "starts nothing")
            ELSE IF \E i \in named : ClassesOf(s.steps[i]) = NoAnswer THEN Fail(l.c, "an answer it does not declare")
            ELSE Go([l.c EXCEPT !.joined = joined @@ @], Append(l.out, join(l.out)))
        sealed(r) == Following(r.out, AndThen(LaunchAll(r.c, s.steps), launched))
    IN  AndThen(Seal(c, here, FALSE, sk), sealed)

Start(c, s, here, sk) ==
    AndThen(Seal(c, here, FALSE, sk), LAMBDA sealed : Following(sealed.out, LaunchAll(sealed.c, s.steps)))

(* The starts written right after an acting race come before its match.    *)
LeadingStarts(tail) ==
    IF \A i \in DOMAIN tail : tail[i].kind = "start" THEN Len(tail)
    ELSE Min({i \in DOMAIN tail : tail[i].kind # "start"}) - 1

Members(starts) == FlattenSeq([i \in DOMAIN starts |-> starts[i].steps])

Race(c, s, tail, here, rest, after, top, sk) ==
    LET contracts == {ClassesOf(s.steps[i]) : i \in DOMAIN s.steps}
        usedLater == s.as # None /\ s.as \in rest
        acts == s.on_ok # <<>> \/ DOMAIN s.on_error # {} \/ usedLater
        bind == NameOf(s.as, <<"result", "race">>)
        race(out) == [kind |-> "race", handles |-> [i \in DOMAIN s.steps |-> out[i].handle],
                      bind |-> IF acts THEN bind ELSE NoBind]
        n == LeadingStarts(tail)
        remaining == SubSeq(tail, n + 1, Len(tail))
        ended(m) ==
            IF usedLater THEN [m EXCEPT !.ended = TRUE]
            ELSE Following(m.out, Block(m.c, remaining, after, top, sk)) @@ [closed |-> TRUE]
        started(q) ==
            Following(q.out,
                AndThen(Matched(q.c, bind, s.as, CHOOSE classes \in contracts : TRUE, s.on_ok, s.on_error, usedLater,
                                remaining, Mentions(remaining) \cup after, after, top, sk), ended))
        launched(l) ==
            IF s.steps = <<>> THEN Fail(l.c, "starts nothing")
            ELSE IF Cardinality(contracts) > 1 THEN Fail(l.c, "the same result type")
            ELSE IF ~acts THEN Go(l.c, Append(l.out, race(l.out)))
            ELSE IF contracts = {NoAnswer} THEN Fail(l.c, "an answer they do not declare")
            ELSE Following(Append(l.out, race(l.out)), AndThen(LaunchAll(l.c, Members(SubSeq(tail, 1, n))), started))
    IN  AndThen(Seal(c, here, FALSE, sk),
                LAMBDA sealed : Following(sealed.out, AndThen(LaunchAll(sealed.c, s.steps), launched)))

Answer(c, s, tail, here, rest, after, top, sk) ==
    LET usedLater == s.of \in rest
        matched(q, of) == Matched(q, of.bind, s.of, of.classes, s.on_ok, s.on_error, usedLater,
                                  tail, rest, after, top, sk)
        sealed(r) ==
            IF s.of \notin DOMAIN r.c.joined THEN Fail(r.c, "no parallel bound it")
            ELSE [Following(r.out, matched(r.c, r.c.joined[s.of])) EXCEPT !.ended = usedLater]
    IN  AndThen(Seal(c, here, FALSE, sk), sealed)

(* A transactional step, in the open transaction or in one of its own.     *)
InTransaction(c, s, here, sk) ==
    LET turns == c.steps # <<>> /\ DataModelOf(c, s) \notin c.models
    IN  IF OutOfReach(c, s) THEN Fail(c, "found in an earlier transaction")
        ELSE AndThen(IF turns THEN Seal(c, here, FALSE, sk) ELSE Go(c, <<>>),
                     LAMBDA sealed : Go(RecordStep(sealed.c, sk, s), sealed.out))

(* `here` and `rest` are what is mentioned from this step, and after it.   *)
One(c, s, tail, here, rest, after, top, sk) ==
    CASE s.kind \in Transactional -> InTransaction(c, s, here, sk)
      [] s.kind = "publish" /\ c.steps # <<>> -> Go(RecordStep(c, sk, s), <<>>)
      [] s.kind = "call" \/ (s.kind = "publish" /\ c.steps = <<>>) ->
            EffectStep(c, s, tail, here, rest, after, top, sk)
      [] s.kind = "when" -> When(c, s, tail, here, rest, sk)
      [] s.kind \in {"reject", "abandon"} -> Stop(c, s, tail, here, sk)
      [] s.kind = "parallel" -> Parallel(c, s, here, sk)
      [] s.kind = "start" -> Start(c, s, here, sk)
      [] s.kind = "race" -> Race(c, s, tail, here, rest, after, top, sk)
      [] s.kind = "answer" -> Answer(c, s, tail, here, rest, after, top, sk)

(* The steps of a block, which `after` follows, and whether the compiler   *)
(* takes every course through them to end the operation.                   *)
Steps(c, steps, after, top, sk) ==
    LET tail == Tail(steps)
        continued(one) ==
            IF one.c.why # None \/ one.ended \/ "closed" \in DOMAIN one
            THEN [c |-> one.c, out |-> one.out, ended |-> one.ended]
            ELSE Following(one.out, Steps(one.c, tail, after, top, sk))
    IN  IF c.why # None THEN Fail(c, c.why)
        ELSE IF steps = <<>> THEN EndOfBlock(c, after, top, sk)
        ELSE continued(One(c, Head(steps), tail, Mentions(steps) \cup after, Mentions(tail) \cup after, after, top, sk))

(***************************************************************************)
(* The simple path.                                                        *)
(***************************************************************************)

Plain(s) ==
    CASE s.kind \in EffectKinds -> ~s.durable /\ ~s.detached
      [] s.kind = "advance" -> s.otherwise = None
      [] OTHER -> TRUE

ModelsOf(s) ==
    CASE s.kind \in {"find", "create", "upsert"} -> {Objects[s.record].model}
      [] s.kind = "enqueue" -> {Outboxes[s.outbox]}
      [] OTHER -> {}

IsSimple(sk) ==
    LET kinds == {s.kind : s \in Range(sk.steps)}
    IN  /\ sk.on_rejected = <<>>
        /\ \A s \in Range(sk.steps) : Plain(s)
        /\ \/ kinds \subseteq EffectKinds
           \/ /\ kinds \subseteq (Transactional \ {"delete", "fence"}) \cup {"publish"}
              /\ Len(SelectSeq(sk.steps, LAMBDA s : s.kind = "transition")) <= 1
              /\ Cardinality(UNION {ModelsOf(s) : s \in Range(sk.steps)}) <= 1

RECURSIVE Effects(_, _, _)
(* An effect outside any transaction; an answer's arms hold only effects.  *)
Effects(c, steps, sk) ==
    LET arm(q, class, r) == [c |-> r.c, arms |-> (class :> Append(r.out, FinishEffects(sk))) @@ q.arms]
        answered(q, s, a, bind) ==
            LET stepsOf(class) == IF class \in DOMAIN s.on_error THEN s.on_error[class] ELSE <<>>
                one(p, class) == arm(p, class, Effects(p.c, stepsOf(class), sk))
                match(p) == [c |-> p.c, ended |-> TRUE,
                             out |-> q.out \o <<Execute(s.name, a.effects, s.classes, Resolve(q.c, s.from), bind, NoBind),
                                                [kind |-> "match", result |-> bind, arms |-> p.arms]>>]
            IN  match(FoldLeft(one, arm([arms |-> <<>>], "ok", Effects(a, s.on_ok, sk)), SetToSeq(s.classes)))
        effect(q, s, a) ==
            IF a.why # None THEN Fail(a, a.why)
            ELSE IF s.kind = "publish" \/ (s.classes = NoAnswer /\ ~Acts(s))
            THEN Go(a, Append(q.out, Execute(s.name, a.effects, ClassesOf(s), Resolve(q.c, s.from), NoBind, NoBind)))
            ELSE IF ~(DOMAIN s.on_error \subseteq s.classes) THEN Fail(a, "acts on an undeclared error")
            ELSE IF s.classes = NoAnswer THEN Fail(a, "acts on its answer but declares no result")
            ELSE answered(q, s, a, NameOf(s.as, <<"result", "call">>))
        one(q, s) ==
            IF q.c.why # None THEN q
            ELSE IF s.kind \notin EffectKinds THEN Fail(q.c, "not an effect step")
            ELSE effect(q, s, Answered(q.c, s))
    IN  FoldLeft(one, Go(c, <<>>), steps)

EffectsOnly(c, sk) ==
    LET acting == {i \in DOMAIN sk.steps : sk.steps[i].kind = "call" /\ sk.steps[i].classes # NoAnswer}
        finished(r) == IF r.ended THEN r ELSE Go(r.c, Append(r.out, FinishEffects(sk)))
    IN  IF \E i \in acting : i < Len(sk.steps) THEN Fail(c, "nothing may follow")
        ELSE AndThen(Effects(c, sk.steps, sk), finished)

(* Inspect, then decide: every attempt of one request decides alike.       *)
Inspects(c, sk) ==
    /\ sk.request /\ sk.keyed /\ c.guarded # <<>>
    /\ c.guarded.refusal # None
    /\ c.found[c.guarded.alias].input_only /\ c.found[c.guarded.alias].single

Inspected(c, sk, main, success) ==
    LET selector == c.found[c.guarded.alias].selector
        read == <<"read", "inspect">>
        lookup == <<"output", "lookup">>
        inspect == Tx(0, sk, ModelOpen(c), <<BodyStep("read", selector, {}, {read}),
                               BodyStep("output", Nowhere, KeyRoots(sk) \cup {<<"read", read>>}, {lookup})>>, NoBlock)
        branch(id, yes, no) == [kind |-> "branch", id |-> id, from |-> {<<"output", lookup>>},
                                arms |-> [arm \in {"yes", "no"} |-> IF arm = "yes" THEN yes ELSE no]]
        decide == branch("applies", <<[main EXCEPT !.rejected = <<Complete>>]>> \o success,
                         <<Refused(c.guarded.refusal)>>)
    IN  <<inspect, IF c.guarded.already_ok THEN branch("already", <<OkFromInput>>, <<decide>>) ELSE decide>>

(* One transaction, which returns the refusal declared or completes if it is *)
(* rejected.                                                               *)
Decided(p, sk, main, success) ==
    LET refusal == IF sk.request /\ p.guarded # <<>> /\ p.guarded.refusal # None
                   THEN <<Refused(p.guarded.refusal)>> ELSE <<Complete>>
    IN  <<[main EXCEPT !.rejected = IF MayReject(main) THEN refusal ELSE NoBlock]>> \o success

Assembled(p, from, sk) ==
    LET main == Tx(1, sk, ModelOpen(p), p.steps \o (IF from # {} THEN <<ResultOutput(from)>> ELSE <<>>), NoBlock)
        success == Append(AfterCommit(p.after),
                          IF ~sk.request THEN Complete
                          ELSE IF from # {} THEN Return("ok", {<<"output", <<"output", "result">>>>})
                          ELSE OkFromInput)
    IN  IF p.why # None THEN Fail(p, p.why)
        ELSE IF Inspects(p, sk) THEN Go(p, Inspected(p, sk, main, success))
        ELSE Go(p, Decided(p, sk, main, success))

Assemble(c, sk) ==
    IF c.why # None THEN Fail(c, c.why)
    ELSE IF Cardinality(c.models) # 1 THEN Fail(c, "one transaction spans one data model")
    ELSE IF ~ReturnsResolve(c, sk) THEN Fail(c, "out of scope")
    ELSE Assembled(Protect(c), OutputFrom(c, sk), sk)

(***************************************************************************)
(* Compilation.                                                            *)
(***************************************************************************)

Fresh(sk, general) ==
    [why |-> None, found |-> <<>>, steps |-> <<>>, mutated |-> {}, deleted |-> {}, created |-> {},
     created_from |-> <<>>, models |-> {}, guarded |-> <<>>, after |-> <<>>, effects |-> 0,
     general |-> general, segments |-> 0, refusals |-> <<>>, results |-> <<>>, final |-> FALSE,
     joined |-> <<>>, on_rejected |-> sk.on_rejected, used |-> FALSE]

General(sk) ==
    LET applied(r) == IF sk.on_rejected # <<>> /\ ~r.c.used THEN Fail(r.c, "on_rejected never applies") ELSE r
    IN  AndThen(Block(Fresh(sk, TRUE), sk.steps, MentionedByReturns(sk), TRUE, sk), applied)

CompileInner(sk) ==
    IF ~IsSimple(sk) THEN General(sk)
    ELSE IF {s.kind : s \in Range(sk.steps)} \cap Transactional = {} THEN EffectsOnly(Fresh(sk, FALSE), sk)
    ELSE Assemble(FoldLeft(LAMBDA q, s : RecordStep(q, sk, s), Fresh(sk, FALSE), sk.steps), sk)

Compile(sk) ==
    LET verdict(r) == [why |-> r.c.why, program |-> r.out] IN verdict(CompileInner(sk))
===============================================================================
