-------------------------------- MODULE Programs --------------------------------
(***************************************************************************)
(* A sketch on its way to a running program: it is compiled                *)
(* (SketchCompiler), the program is judged (ProgramRules), and then any of *)
(* its transactions runs beside a writer that is not one of its attempts.  *)
(* Some programs are written directly, without a sketch.                   *)
(*                                                                         *)
(* What the judgment and the compilation are held to is stated apart from  *)
(* both: the walk of a program's paths one by one, and the courses that a  *)
(* sketch tells when it is read as it stands, with no transactions'        *)
(* bodies, locks, exports, binds or joins.                                 *)
(***************************************************************************)
EXTENDS SketchCompiler

CONSTANTS Sketches, Written,    \* sketches, and programs as [request, program]
          MaxOutside            \* changes made by the other writer

VARIABLES work,         \* what was written: a member of Sketches \cup Written
          stage,        \* "drafted", "refused", "judged", "running", "over"
          program, errors,
          tx, at,       \* the transaction that runs, and the next step of its body
          outside,      \* selection -> times the other writer has changed it
          seen,         \* read -> what `outside` was for its selection
          held,         \* selections the transaction has locked or changed
          written       \* its changes: [on, rests]

vars == <<work, stage, program, errors, tx, at, outside, seen, held, written>>

run == <<tx, at, outside, seen, held, written>>

(***************************************************************************)
(* A program, path by path.                                                *)
(***************************************************************************)

OutputsOf(roots) == {r[2] : r \in {q \in roots : q[1] = "output"}}

(* What a step of a path, and one of a body, asks to be there already.     *)
Asks(s) ==
    CASE s.kind = "tx" -> OutputsOf(s.key \cup s.requires)
      [] s.kind \in {"execute", "return"} -> OutputsOf(s.from)
      [] s.kind = "execute_intent" -> {s.intent}
      [] s.kind = "join" -> {s.handles[i].handle : i \in DOMAIN s.handles}
      [] s.kind = "race" -> Range(s.handles)
      [] s.kind = "decision" /\ s.of.kind = "match" -> {s.of.result}
      [] s.kind = "decision" /\ s.of.kind = "branch" -> OutputsOf(s.of.from)
      [] OTHER -> {}

Answers(s) ==
    LET roots == CASE s.kind = "tx" -> s.key \cup UNION {BodyRoots(s.body[i]) : i \in DOMAIN s.body}
                   [] s.kind \in {"execute", "return"} -> s.from
                   [] s.kind = "decision" /\ s.of.kind = "branch" -> s.of.from
                   [] OTHER -> {}
    IN  {r \in roots : r[1] \in {"ok", "err"}}

Brings(s) ==
    CASE s.kind \in {"execute", "execute_intent"} -> {s.bind, s.handle}
      [] s.kind = "join" -> {s.handles[i].bind : i \in DOMAIN s.handles}
      [] s.kind = "race" -> {s.bind}
      [] OTHER -> {}

StepOf(s) == IF s.kind = "decision" THEN s.of ELSE s

Chosen(s) ==
    IF s.kind = "decision" /\ s.of.kind = "match" THEN {<<IF s.arm = "ok" THEN "ok" ELSE "err", s.of.result>>} ELSE {}

(* One step more of a path: what is there, which arms were taken, and the  *)
(* uses of something that was not there, or of an arm not taken.           *)
Walk(q, s) ==
    LET body == IF s.kind = "tx" THEN s.body ELSE <<>>
        inner(b, e) == [have |-> b.have \cup (IF e.kind \in Establishing THEN e.binds ELSE {}),
                        lacks |-> b.lacks \cup (OutputsOf(BodyRoots(e)) \ b.have)]
        through == FoldLeft(inner, [have |-> q.have, lacks |-> Asks(s) \ q.have], body)
    IN  [have |-> through.have \cup Brings(s),
         took |-> q.took \cup Chosen(s),
         lacks |-> q.lacks \cup {<<x, StepOf(s)>> : x \in through.lacks},
         astray |-> q.astray \cup {<<r[2], StepOf(s)>> : r \in Answers(s) \ q.took}]

Walked(path) == FoldLeft(Walk, [have |-> {}, took |-> {}, lacks |-> {}, astray |-> {}], path)

(***************************************************************************)
(* The courses of a program: what it changes, asks for and answers.        *)
(***************************************************************************)

Origins(roots) == {IF r[1] = "input" THEN "input" ELSE r[2][2] : r \in roots}

Changing == {"update", "compare_and_set", "transition", "advance", "fence", "delete", "create", "upsert", "outbox"}

Changes(body) ==
    LET changing == SelectSeq(body, LAMBDA s : s.kind \in Changing)
    IN  [i \in DOMAIN changing |->
            <<IF changing[i].kind = "compare_and_set" THEN "update" ELSE changing[i].kind,
              changing[i].on[1], Origins(changing[i].from)>>]

Commit(changes) == IF changes = <<>> THEN <<>> ELSE <<<<"commit", changes>>>>

Effect(name, origins) == <<"effect", name, origins>>

End(arm, origins) == <<"end", arm, origins>>

BodyStepsOf(path) == UNION {IF path[i].kind = "tx" THEN Range(path[i].body) ELSE {} : i \in DOMAIN path}

IntentEffect(path, intent) ==
    LET s == CHOOSE e \in BodyStepsOf(path) : intent \in e.binds
    IN  IF s.kind = "transition" THEN Effect(intent[2], {}) ELSE Effect(s.on[1], Origins(s.from))

(* The result's own sources, where it is returned from a transaction.      *)
Sources(path, roots) ==
    LET results == {s \in BodyStepsOf(path) : <<"output", "result">> \in s.binds}
    IN  IF <<"output", <<"output", "result">>>> \in roots THEN UNION {Origins(s.from) : s \in results} ELSE Origins(roots)

Event(path, s, sk) ==
    CASE s.kind = "tx" -> Commit(Changes(s.body))
      [] s.kind = "execute" -> <<Effect(s.name, Origins(s.from))>>
      [] s.kind = "execute_intent" -> <<IntentEffect(path, s.intent)>>
      [] s.kind = "return" -> <<End(s.arm, IF s.arm = "ok" /\ sk.returns = {Unset} THEN {} ELSE Sources(path, s.from))>>
      [] s.kind \in {"complete", "abandon"} -> <<End(s.kind, {})>>
      [] OTHER -> <<>>

CoursesOf(p, sk) == {FlattenSeq([i \in DOMAIN path |-> Event(path, path[i], sk)]) : path \in Paths(p)}

(***************************************************************************)
(* The courses a sketch tells.  A unit is the run of changes that commits  *)
(* together: it ends where anything else begins, where the data model      *)
(* changes and where a block ends.                                         *)
(***************************************************************************)

NoUnit == [open |-> FALSE, changes |-> <<>>, effects |-> <<>>, models |-> {}, turned |-> FALSE,
           refusals |-> <<>>, found |-> <<>>]

Closing == [kind |-> "close"]

Finishing == [kind |-> "finish"]

Giving(class) == [kind |-> "give up", class |-> class]

ModelOf(unit, s) ==
    CASE s.kind \in {"find", "create", "upsert"} -> Objects[s.record].model
      [] s.kind = "enqueue" -> Outboxes[s.outbox]
      [] OTHER -> Objects[unit.found[s.record].object].model

ObjectOf(unit, s) ==
    CASE s.kind = "enqueue" -> s.outbox
      [] s.kind \in {"create", "upsert"} -> s.record
      [] OTHER -> unit.found[s.record].object

(* A change that finds the record other than it was read is turned down.   *)
CanBeTurnedDown(unit, s) ==
    \/ s.kind \in {"transition", "advance", "fence"}
    \/ s.kind = "update" /\ unit.found[s.record].single /\ Objects[unit.found[s.record].object].versioned

Refusal(sk, s) ==
    IF s.kind \notin {"transition", "advance", "fence"} \/ RefusalOf(sk, s) = None THEN <<>> ELSE <<RefusalOf(sk, s)>>

Join1(unit, s, sk) ==
    LET change == <<IF s.kind = "enqueue" THEN "outbox" ELSE s.kind, ObjectOf(unit, s),
                    Own(s, "from") \cup (IF s.kind = "transition" THEN {"input"} ELSE {})>>
    IN  IF s.kind = "find"
        THEN [unit EXCEPT !.open = TRUE, !.models = @ \cup {Objects[s.record].model},
                          !.found = (s.as :> [object |-> s.record, single |-> ~s.all]) @@ @]
        ELSE IF s.kind = "publish"
        THEN [unit EXCEPT !.effects = Append(@, Effect(s.name, s.from))]
        ELSE [unit EXCEPT !.open = TRUE, !.models = @ \cup {ModelOf(unit, s)},
                          !.changes = Append(@, change),
                          !.turned = @ \/ CanBeTurnedDown(unit, s),
                          !.refusals = @ \o Refusal(sk, s),
                          !.effects = IF s.kind # "transition" THEN @
                                      ELSE @ \o [i \in DOMAIN SetToSeq(Machines[s.transition].effects) |->
                                                    Effect(SetToSeq(Machines[s.transition].effects)[i], {})]]

RECURSIVE Told(_, _, _)

TurnedDown(unit, sk) ==
    IF sk.request /\ unit.refusals # <<>> THEN {<<End(Head(unit.refusals), {"input"})>>}
    ELSE Told(sk.on_rejected \o <<Giving("complete")>>, NoUnit, [sk EXCEPT !.returns = {Unset}, !.on_rejected = <<>>])

(* The unit commits and the rest follows, or it is turned down. *)
Settled(unit, courses, sk) ==
    {Commit(unit.changes) \o unit.effects \o c : c \in courses}
        \cup (IF unit.turned THEN TurnedDown(unit, sk) ELSE {})

(* What may follow an answer: its ok arm, and the arm of each error class. *)
(* Steps that use the answer are not reached without it.                   *)
Arrives(alias, classes, s, tail, sk) ==
    LET used == alias # None /\ alias \in Mentions(tail) \cup MentionedByReturns(sk)
        arm(class) == IF class \in DOMAIN s.on_error THEN s.on_error[class] ELSE <<>>
        next(class) == arm(class) \o (IF used THEN <<Giving(class)>> ELSE <<Closing>> \o tail)
    IN  Told(s.on_ok \o (IF used THEN <<>> ELSE <<Closing>>) \o tail, NoUnit, sk)
        \cup UNION {Told(next(class), NoUnit, sk) : class \in classes \ NoAnswer}

Asked(members) == [i \in DOMAIN members |-> Effect(members[i].name, members[i].from)]

Prefixed(events, courses) == {events \o c : c \in courses}

ClassesJoined(sk, alias) ==
    (CHOOSE s \in UNION {Range(t.steps) : t \in {u \in Range(sk.steps) : u.kind = "parallel"}} :
        AliasOf(s) = alias).classes

Told(todo, unit, sk) ==
    LET s == Head(todo)
        tail == Tail(todo)
        effect == <<Effect(s.name, s.from)>>
        moves == s.kind \in Transactional
        stays == \/ moves /\ (~unit.open \/ ModelOf(unit, s) \in unit.models)
                 \/ s.kind = "publish" /\ unit.open
        durable == s.kind \in {"call", "publish"} /\ s.durable /\ ~stays
        next ==
            CASE moves -> Told(todo, NoUnit, sk)
              [] s.kind = "publish" -> Prefixed(effect, Told(tail, NoUnit, sk))
              [] s.kind = "call" -> Prefixed(effect, Arrives(s.as, s.classes, s, tail, sk))
              [] s.kind = "when" -> Told(s.then \o <<Closing>> \o tail, NoUnit, sk)
                                    \cup Told(s.otherwise_steps \o <<Closing>> \o tail, NoUnit, sk)
              [] s.kind = "reject" -> {<<End(s.error, IF s.from = {} THEN {"input"} ELSE s.from)>>}
              [] s.kind = "abandon" -> {<<End("abandon", {})>>}
              [] s.kind \in {"parallel", "start"} -> Prefixed(Asked(s.steps), Told(tail, NoUnit, sk))
              [] s.kind = "race" ->
                    LET n == LeadingStarts(tail)
                        rest == SubSeq(tail, n + 1, Len(tail))
                    IN  Prefixed(Asked(s.steps \o Members(SubSeq(tail, 1, n))),
                                 Arrives(s.as, ClassesOf(Head(s.steps)), s, rest, sk))
              [] s.kind = "answer" -> Arrives(s.of, ClassesJoined(sk, s.of), s, tail, sk)
              [] s.kind = "close" -> Told(tail, NoUnit, sk)
              [] s.kind = "give up" -> {<<IF sk.request /\ s.class # "complete" THEN End(s.class, {"input"})
                                          ELSE End("complete", {})>>}
              [] s.kind = "finish" -> {<<IF ~sk.request THEN End("complete", {})
                                         ELSE End("ok", IF sk.returns = {Unset} THEN {} ELSE sk.returns)>>}
    IN  IF stays THEN Told(tail, Join1(unit, s, sk), sk) ELSE Settled(unit, next, sk)

(* A request that is refused for a state its input selects looks first, so *)
(* a later attempt decides as the first did: it may also find the work     *)
(* already done, or lose the race and end without an answer.               *)
LooksFirst(sk) ==
    LET guards == SelectSeq(sk.steps, LAMBDA s : s.kind = "transition")
        found == SelectSeq(sk.steps, LAMBDA s : s.kind = "find" /\ s.as = guards[1].record)
    IN  /\ IsSimple(sk) /\ sk.request /\ sk.keyed /\ guards # <<>>
        /\ RefusalOf(sk, guards[1]) # None
        /\ found[1].by \subseteq {"input"} /\ ~found[1].all

AlreadyDone(sk) ==
    IF \E s \in Range(sk.steps) : s.kind = "transition" /\ s.already_ok
    THEN {<<End("ok", IF sk.returns = {Unset} THEN {} ELSE {"input"})>>} ELSE {}

TheCoursesOf(sk) ==
    Told(Append(sk.steps, Finishing), NoUnit, sk)
        \cup (IF LooksFirst(sk) THEN {<<End("complete", {})>>} \cup AlreadyDone(sk) ELSE {})

(***************************************************************************)
(* Where a name may be used.                                               *)
(***************************************************************************)

ArmsOf(s) ==
    {s[field] : field \in DOMAIN s \cap {"on_ok", "then", "otherwise_steps", "steps"}}
        \cup (IF "on_error" \in DOMAIN s THEN Range(s.on_error) ELSE {})

(* What a step names: for the steps after it, and for those of its arms.   *)
Introduces(s) ==
    CASE s.kind \in {"find", "call", "race"} -> {s.as}
      [] s.kind = "answer" -> {s.of}
      [] OTHER -> {}

RECURSIVE InScope(_, _)
InScope(steps, names) ==
    \/ steps = <<>>
    \/ LET s == Head(steps)
           named == names \cup Introduces(s)
       IN  /\ Own(s, "from") \cup Own(s, "by") \cup Own(s, "test") \subseteq names
           /\ \A arm \in ArmsOf(s) : InScope(arm, named)
           /\ InScope(Tail(steps), named)

(* A refusal that nothing its author can see explains.                     *)
Unexplained == {"out of scope", "two data models", "panic: a found record has a read"}

(***************************************************************************)
(* Compiling and judging.                                                  *)
(***************************************************************************)

FromSketch(w) == "steps" \in DOMAIN w

NoTx == [kind |-> "none"]

NotRunning ==
    /\ tx = NoTx /\ at = 0 /\ outside = <<>> /\ seen = <<>> /\ held = {} /\ written = {}

Init ==
    /\ work \in Sketches \cup Written
    /\ stage = "drafted" /\ program = <<>> /\ errors = {}
    /\ NotRunning

Becomes(compiled) ==
    /\ program' = compiled.program
    /\ errors' = IF compiled.why = None THEN AnalyzerErrors(work.request, compiled.program) ELSE {compiled.why}
    /\ stage' = IF compiled.why = None THEN "judged" ELSE "refused"

(* The commit of a sketch compiles it; what does not compile is refused.   *)
CompileSketch ==
    /\ stage = "drafted" /\ FromSketch(work)
    /\ Becomes(Compile(work))
    /\ UNCHANGED <<work, run>>

JudgeWritten ==
    /\ stage = "drafted" /\ ~FromSketch(work)
    /\ program' = work.program
    /\ errors' = AnalyzerErrors(work.request, work.program)
    /\ stage' = "judged"
    /\ UNCHANGED <<work, run>>

(***************************************************************************)
(* Running a transaction of a compiled program.                            *)
(***************************************************************************)

Touched(t) == {t.body[i].on : i \in {j \in DOMAIN t.body : t.body[j].kind = "read"}}

ChangesARecordItRead(t) ==
    \E i, j \in DOMAIN t.body : /\ t.body[i].kind = "read" /\ t.body[j].kind \in Changing
                                /\ t.body[i].on = t.body[j].on

Begin ==
    /\ stage = "judged" /\ FromSketch(work) /\ errors = {}
    /\ \E t \in {s \in Range(AllSteps(program)) : s.kind = "tx"} :
        /\ ChangesARecordItRead(t)
        /\ tx' = t
        /\ outside' = [on \in Touched(t) |-> 0]
    /\ stage' = "running" /\ at' = 1
    /\ UNCHANGED <<work, program, errors, seen, held, written>>

Step == tx.body[at]

AtStep(kinds) == stage = "running" /\ at <= Len(tx.body) /\ Step.kind \in kinds

Past == at' = at + 1 /\ UNCHANGED <<work, stage, program, errors, tx, outside>>

ReadStep ==
    /\ AtStep({"read"})
    /\ seen' = [b \in Step.binds |-> outside[Step.on]] @@ seen
    /\ Past /\ UNCHANGED <<held, written>>

LockStep ==
    /\ AtStep({"lock", "exclusive"})
    /\ held' = held \cup {Step.on}
    /\ Past /\ UNCHANGED <<seen, written>>

(* The earliest observation of the record that the change is made to.      *)
Rests(on) ==
    LET reads == {i \in 1..(at - 1) : tx.body[i].kind = "read" /\ tx.body[i].on = on}
    IN  {seen[b] : b \in UNION {tx.body[i].binds : i \in reads}}

Unchanged(s) == \A r \in s.compares : seen[r[2]] = outside[s.on]

(* A change is the transaction's alone until it commits.  A fence on an    *)
(* equal token writes nothing.                                             *)
ChangeStep ==
    /\ AtStep(Changing)
    /\ Unchanged(Step)
    /\ held' = held \cup {Step.on}
    /\ written' = written \cup {[on |-> Step.on, rests |-> Rests(Step.on)]}
    /\ Past /\ UNCHANGED seen

EqualFence ==
    /\ AtStep({"fence"})
    /\ Past /\ UNCHANGED <<seen, held, written>>

OtherStep ==
    /\ AtStep({"output", "intent"})
    /\ Past /\ UNCHANGED <<seen, held, written>>

(* The commit is turned down, and nothing of it remains. *)
Reject ==
    /\ AtStep(Rejecting)
    /\ Step.kind = "compare_and_set" => ~Unchanged(Step)
    /\ stage' = "over" /\ written' = {}
    /\ UNCHANGED <<work, program, errors, tx, at, outside, seen, held>>

CommitTx ==
    /\ stage = "running" /\ at > Len(tx.body)
    /\ stage' = "over"
    /\ UNCHANGED <<work, program, errors, run>>

OutsideChange ==
    /\ stage = "running"
    /\ \E on \in DOMAIN outside \ held :
        /\ outside[on] < MaxOutside
        /\ outside' = [outside EXCEPT ![on] = @ + 1]
    /\ UNCHANGED <<work, stage, program, errors, tx, at, seen, held, written>>

Next == \/ CompileSketch \/ JudgeWritten
        \/ Begin \/ ReadStep \/ LockStep \/ ChangeStep \/ EqualFence \/ OtherStep
        \/ Reject \/ CommitTx \/ OutsideChange

Spec == Init /\ [][Next]_vars

(***************************************************************************)
(* Properties.                                                             *)
(***************************************************************************)

NamesMissing ==
    {<<e[2], e[3]>> : e \in {d \in errors : d[1] \in {"artifact", "handle"}
                                            \/ (d[1] = "requirement" /\ d[2] \in OutputsOf(d[3].requires))
                                            \/ (d[1] = "unbound" /\ d[3].kind = "match")}}

NamesAstray == {<<e[2], e[3]>> : e \in {d \in errors : d[1] \in {"scope", "unbound"}}}

(* The validator of mod.rs 4981-5704 judges a program by one pass that     *)
(* meets the arms of each decision where they join.  It names exactly the  *)
(* artifacts, handles and results that some path reaches without having    *)
(* brought them, it misses no use of an answer's arm on a path that did    *)
(* not take it, and it says that the program does not end exactly when a   *)
(* path falls off its end.                                                 *)
JudgedByItsPaths ==
    stage = "judged" =>
        LET paths == Paths(program)
            walked == {Walked(p) : p \in paths}
        IN  /\ NamesMissing = UNION {w.lacks : w \in walked}
            /\ UNION {w.astray : w \in walked} \subseteq NamesAstray
            /\ <<"not terminated", None, {}>> \in errors <=> \E p \in paths : Last(p).kind = None

(* A sketch that compiles gives a program which the analyzer admits        *)
(* ("Operation sketches compile into programs the checker admits",         *)
(* tests/sketch.rs:1) and whose courses are those the sketch tells: the    *)
(* same changes commit together, the same effects follow in their order,   *)
(* on values of the same things, and each course ends as it says.  None is *)
(* refused for what the compiler itself arranges: which record is exported *)
(* to which later transaction, where one ends, and what it protects.       *)
CompiledIsSketched ==
    /\ stage = "judged" /\ FromSketch(work) =>
            errors = {} /\ CoursesOf(program, work) = TheCoursesOf(work)
    /\ stage = "refused" /\ InScope(work.steps, {"input"}) => errors \cap Unexplained = {}

(* No transaction of a compiled program commits a change to a record that  *)
(* someone else has changed since the transaction found it (protect,       *)
(* sketch.rs 2684-2689): it compares the version it read, or it has held   *)
(* the record from before the read.                                        *)
NoStaleChange ==
    stage = "over" => \A w \in written : w.rests # {} => w.rests = {outside[w.on]}
=================================================================================
