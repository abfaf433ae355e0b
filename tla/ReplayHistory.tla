---------------------------- MODULE ReplayHistory ----------------------------
(***************************************************************************)
(* What attempts of one logical invocation can do, against what            *)
(* ReplayRules says of them.  Any number of attempts of a class run at     *)
(* once and any of them may stop for good at any step: a stopped attempt   *)
(* is one that takes no more steps.  The program is run as                 *)
(* docs/live/CONSEQA_DSL_SEMANTICS.md defines its steps, the boundaries (external   *)
(* systems, brokers, the keyed commit) do no more than their declarations  *)
(* promise, and everything undeclared is arbitrary.                        *)
(*                                                                         *)
(* A value is a function from the roots it was derived from to theirs, so  *)
(* that a deterministic derivation is injective and nothing else is known  *)
(* of it; what an unspecified derivation yields, and what a read sees, is  *)
(* any of two plain values.                                                *)
(***************************************************************************)
EXTENDS ReplayRules

CONSTANTS Models,      \* the specifications judged, each with its `entry` operation
          MaxRoots,    \* bound: attempts that the environment starts
          MaxAttempts  \* bound: attempts in all

VARIABLES model,       \* one of Models
          verdict,     \* the operations proven, per family
          att,         \* the attempts, in the order they began
          commits,     \* the retained artifacts of each keyed commit
          fixed,       \* what conditions and replay-stable boundaries have answered
          sent,        \* the messages admitted to a channel
          delivered,   \* <<admission, consumer>>, once delivered
          works        \* the logical work done: where, for whom, which

vars == <<model, verdict, att, commits, fixed, sent, delivered, works>>

Plain(x) == [r \in {<<"any">>} |-> x]

Anything == {Plain(0), Plain(1)}

Pick(env, roots) == [r \in roots |-> env[r]]

Values(env, d) == IF d.det THEN {Pick(env, d.from)} ELSE Anything

(***************************************************************************)
(* Attempts.                                                               *)
(***************************************************************************)

Attempt(o, payload, chain, from) ==
    LET op == model.ops[o]
    IN  [op |-> o, class |-> [f \in op.key |-> payload[f]], payload |-> payload,
         env |-> [r \in {<<"input", f>> : f \in DOMAIN payload} |-> payload[r[2]]],
         todo |-> op.program, took |-> <<>>, got |-> <<>>, flying |-> <<>>, landed |-> <<>>,
         chain |-> chain, from |-> from, end |-> None, result |-> <<>>]

Begin(a) == Len(att) < MaxAttempts /\ att' = Append(att, a)

Input(o) == model.ops[o].input

(* Equal identities are one stimulus, and so one payload. *)
Payloads(o) ==
    {[f \in {"k", "f"} |-> IF f = "k" THEN Plain(0) ELSE other] :
        other \in IF Input(o).identity = {"k"} THEN {Plain(0)} ELSE Anything}

(* The environment invokes the operation, and invokes it again. *)
Stimulate(o) ==
    /\ o = model.entry
    /\ Cardinality({i \in DOMAIN att : att[i].op = o}) < MaxRoots
    /\ \E payload \in Payloads(o) :
          /\ Input(o).delivery = "at_most_once" /\ Input(o).identity # {}
                => \A i \in DOMAIN att : \E f \in Input(o).identity : att[i].payload[f] # payload[f]
          /\ Begin(Attempt(o, payload, <<>>, <<>>))
    /\ UNCHANGED <<model, verdict, commits, fixed, sent, delivered, works>>

Here(i, kinds) == att[i].todo # <<>> /\ Head(att[i].todo).kind \in kinds

Proceed(i, changes) == att' = [att EXCEPT ![i] = changes @@ [todo |-> Tail(att[i].todo)] @@ @]

Site(i, site) == Append(att[i].chain, <<att[i].op, att[i].class, site>>)

Work(i, site, item) == [chain |-> Site(i, site), took |-> att[i].took, item |-> item]

(* Two executions of one site are told apart by the attempt that ran them. *)
Unlike(i) == Plain(i)

Message(i, site, channel, value) ==
    [channel |-> channel, value |-> value, by |-> i, chain |-> Site(i, site)]

Identified(channel) == model.channels[channel] # {}

(* What makes one admission differ from another of the same message. *)
Occurrence(i, channel, value) == IF Identified(channel) THEN value ELSE Unlike(i)

(***************************************************************************)
(* Transactions.                                                           *)
(***************************************************************************)

(* What a body may do once it commits: the environment it leaves, its      *)
(* writes and its outbox messages.                                         *)
Bodies(i, tx) ==
    LET inner(q, n) ==
            LET s == tx.body[n]
                site == <<tx.id, n>>
                bound(root, values) == {[q EXCEPT !.env = (root :> v) @@ @] : v \in values}
            IN  CASE s.kind = "read" -> bound(<<"read", s.bind>>, Anything)
                  [] s.kind \in {"output", "intent"} -> bound(<<"output", s.bind>>, Values(q.env, s.values))
                  [] s.kind = "update" ->
                        {[q EXCEPT !.works = @ \cup {Work(i, site,
                            IF s.versioned THEN Unlike(i) ELSE Pick(q.env, s.target) @@ v)}] :
                         v \in Values(q.env, s.values)}
                  [] s.kind = "outbox" ->
                        {[q EXCEPT !.works = @ \cup {Work(i, site, Occurrence(i, s.channel, v))},
                                   !.sent = @ \cup {Message(i, site, s.channel, v)}] :
                         v \in Values(q.env, s.values)}
                  [] s.kind = "insert" -> {[q EXCEPT !.works = @ \cup {Work(i, site, Unlike(i))}]}
                  [] OTHER -> {q}
    IN  FoldLeft(LAMBDA qs, n : UNION {inner(q, n) : q \in qs},
                 {[env |-> att[i].env, works |-> {}, sent |-> {}]}, [n \in DOMAIN tx.body |-> n])

CommitKey(i, tx) == <<att[i].op, tx.id, Pick(att[i].env, tx.dedup)>>

Keyed(tx) == tx.dedup # NoKey

(* A commit under a key that has committed retrieves what was retained. *)
Recover(i) ==
    /\ Here(i, {"tx"})
    /\ LET tx == Head(att[i].todo)
       IN  /\ Keyed(tx)
           /\ CommitKey(i, tx) \in DOMAIN commits
           /\ Proceed(i, [env |-> commits[CommitKey(i, tx)] @@ att[i].env])
    /\ UNCHANGED <<model, verdict, commits, fixed, sent, delivered, works>>

(* A body that writes what only one execution can write. *)
Once(tx) == \E n \in DOMAIN tx.body : tx.body[n].kind = "insert"

SameClass(i, j) == att[i].op = att[j].op /\ att[i].class = att[j].class

(* The site was committed, unkeyed, for the class: the row is there. *)
Spent(i, tx) ==
    ~Keyed(tx) /\ Once(tx) /\ \E w \in works : \E n \in DOMAIN tx.body :
        Last(w.chain) = <<att[i].op, att[i].class, <<tx.id, n>>>>

Commit(i) ==
    /\ Here(i, {"tx"})
    /\ LET tx == Head(att[i].todo)
       IN  /\ Keyed(tx) => CommitKey(i, tx) \notin DOMAIN commits
           /\ \E b \in Bodies(i, tx) :
                 /\ Proceed(i, [env |-> b.env])
                 /\ works' = works \cup b.works
                 /\ sent' = sent \cup b.sent
                 /\ commits' = IF Keyed(tx)
                               THEN (CommitKey(i, tx) :> [r \in DOMAIN b.env \ DOMAIN att[i].env |-> b.env[r]])
                                    @@ commits
                               ELSE commits
    /\ UNCHANGED <<model, verdict, fixed, delivered>>

(* A guard of the body does not hold in the state it meets. *)
Reject(i) ==
    /\ Here(i, {"tx"})
    /\ LET tx == Head(att[i].todo)
       IN  /\ Rejects(tx)
           /\ Keyed(tx) => CommitKey(i, tx) \notin DOMAIN commits
           /\ Proceed(i, [todo |-> tx.rejected \o Tail(att[i].todo)])
    /\ UNCHANGED <<model, verdict, commits, fixed, sent, delivered, works>>

(***************************************************************************)
(* Effects.                                                                *)
(***************************************************************************)

(* An execution waits for its own launch. *)
Launch(i) ==
    /\ Here(i, {"execute", "execute_intent"})
    /\ LET s == Head(att[i].todo)
           c == ContractOf(model.ops[att[i].op], s)
           h == IF s.handle = None THEN s.id ELSE s.handle
           await == IF s.handle = None THEN <<[kind |-> "join", binds |-> h :> s.bind]>> ELSE <<>>
       IN  \E v \in IF s.kind = "execute_intent" THEN {att[i].env[<<"output", s.intent>>]}
                    ELSE Values(att[i].env, s.values) :
              Proceed(i, [todo |-> await \o Tail(att[i].todo),
                          flying |-> (h :> [site |-> <<s.id, 0>>, contract |-> c, value |-> v, took |-> att[i].took,
                                            key |-> IF c.kind = "external" THEN Pick(att[i].env, c.identity)
                                                    ELSE <<>>]) @@ att[i].flying])
    /\ UNCHANGED <<model, verdict, commits, fixed, sent, delivered, works>>

Aloft(i, h) == h \in DOMAIN att[i].flying /\ h \notin DOMAIN att[i].landed

(* The work is of the place where it was launched. *)
Flown(i, h, item) ==
    [Work(i, att[i].flying[h].site, item) EXCEPT !.took = att[i].flying[h].took]

Land(i, h, result) == att' = [att EXCEPT ![i].landed = (h :> result) @@ @]

Answers(c) == {[arm |-> arm, value |-> v] : arm \in {"ok"} \cup DOMAIN c.errors, v \in Anything}

Lasting(c, answer) == answer.arm = "ok" \/ c.errors[answer.arm] = "terminal"

CallExternal(i, h) ==
    /\ Aloft(i, h)
    /\ LET f == att[i].flying[h]
           c == f.contract
           same == <<c.id, f.key>>
       IN  /\ c.kind = "external"
           /\ \E answer \in Answers(c) :
                 /\ IF c.replay = "replay_stable" /\ Lasting(c, answer)
                    THEN /\ same \in DOMAIN fixed => fixed[same] = answer
                         /\ fixed' = (same :> answer) @@ fixed
                    ELSE UNCHANGED fixed
                 /\ Land(i, h, answer)
           /\ works' = works \cup
                 CASE c.idempotency = "side_effect_free" -> {}
                   [] c.idempotency = "identical_per_identity" -> {Flown(i, h, f.key)}
                   [] OTHER -> {Flown(i, h, Unlike(i))}
    /\ UNCHANGED <<model, verdict, commits, sent, delivered>>

Publish(i, h) ==
    /\ Aloft(i, h)
    /\ LET f == att[i].flying[h]
       IN  /\ f.contract.kind = "publication"
           /\ sent' = sent \cup {Message(i, f.site, f.contract.channel, f.value)}
           /\ works' = works \cup {Flown(i, h, Occurrence(i, f.contract.channel, f.value))}
           /\ Land(i, h, [arm |-> "ok", value |-> Plain(0)])
    /\ UNCHANGED <<model, verdict, commits, fixed, delivered>>

Carried(o, v) == [f \in {"k", "f"} |-> v]

(* A request reaches its target, and again where the caller may repeat it. *)
Request(i, h) ==
    /\ Aloft(i, h)
    /\ LET f == att[i].flying[h]
           c == f.contract
       IN  /\ c.kind = "request"
           /\ c.target \notin model.repeated => \A j \in DOMAIN att : att[j].from # <<i, h>>
           /\ Begin(Attempt(c.target, Carried(c.target, f.value), Site(i, f.site), <<i, h>>))
    /\ UNCHANGED <<model, verdict, commits, fixed, sent, delivered, works>>

Respond(i, h) ==
    /\ Aloft(i, h)
    /\ \E j \in DOMAIN att : /\ att[j].from = <<i, h>>
                             /\ att[j].end = "return"
                             /\ Land(i, h, att[j].result)
    /\ UNCHANGED <<model, verdict, commits, fixed, sent, delivered, works>>

(* Only the first delivery of an admission is the work of whoever made it. *)
Deliver(m, o) ==
    /\ Input(o).channel = m.channel
    /\ Input(o).delivery = "at_most_once" =>
          \A other \in {d[1] : d \in {e \in delivered : e[2] = o}} :
             other.channel = m.channel /\ other.value = m.value
                => ~Identified(m.channel) /\ other # m
    /\ Begin(Attempt(o, Carried(o, m.value), IF <<m, o>> \in delivered THEN <<>> ELSE m.chain, <<>>))
    /\ delivered' = delivered \cup {<<m, o>>}
    /\ UNCHANGED <<model, verdict, commits, fixed, sent, works>>

(***************************************************************************)
(* Results and decisions.                                                  *)
(***************************************************************************)

Receive(i, bind, result) ==
    IF bind = None THEN [got |-> att[i].got]
    ELSE [got |-> (bind :> result.arm) @@ att[i].got,
          env |-> (<<IF result.arm = "ok" THEN "ok" ELSE "err", bind>> :> result.value) @@ att[i].env]

Join(i) ==
    /\ Here(i, {"join"})
    /\ LET binds == Head(att[i].todo).binds
       IN  /\ DOMAIN binds \subseteq DOMAIN att[i].landed
           /\ Proceed(i, FoldSet(
                 LAMBDA h, q : [got |-> Receive(i, binds[h], att[i].landed[h]).got @@ q.got,
                                env |-> IF binds[h] = None THEN q.env
                                        ELSE Receive(i, binds[h], att[i].landed[h]).env @@ q.env],
                 [got |-> <<>>, env |-> att[i].env], DOMAIN binds))
    /\ UNCHANGED <<model, verdict, commits, fixed, sent, delivered, works>>

Race(i) ==
    /\ Here(i, {"race"})
    /\ LET s == Head(att[i].todo)
       IN  \E h \in s.handles \cap DOMAIN att[i].landed : Proceed(i, Receive(i, s.bind, att[i].landed[h]))
    /\ UNCHANGED <<model, verdict, commits, fixed, sent, delivered, works>>

Decide(i) ==
    /\ Here(i, {"match", "branch"})
    /\ LET s == Head(att[i].todo)
           enter(arm) == Proceed(i, [todo |-> s.arms[arm] \o Tail(att[i].todo),
                                     took |-> (s.id :> arm) @@ att[i].took])
           judged == IF s.kind = "branch" THEN <<s.id, Pick(att[i].env, s.cond.from)>> ELSE <<>>
       IN  CASE s.kind = "match" -> enter(att[i].got[s.result]) /\ UNCHANGED fixed
             [] s.kind = "branch" /\ s.cond.det ->
                   \E arm \in DOMAIN s.arms :
                      /\ judged \in DOMAIN fixed => fixed[judged].arm = arm
                      /\ fixed' = (judged :> [arm |-> arm, value |-> Plain(0)]) @@ fixed
                      /\ enter(arm)
             [] OTHER -> (\E arm \in DOMAIN s.arms : enter(arm)) /\ UNCHANGED fixed
    /\ UNCHANGED <<model, verdict, commits, sent, delivered, works>>

Terminate(i) ==
    /\ Here(i, Terminals)
    /\ LET s == Head(att[i].todo)
           ended(result) == Proceed(i, [todo |-> <<>>, end |-> s.kind, result |-> result])
       IN  IF s.kind = "return"
           THEN \E v \in Values(att[i].env, s.values) : ended([arm |-> s.arm, value |-> v])
           ELSE ended(<<>>)
    /\ UNCHANGED <<model, verdict, commits, fixed, sent, delivered, works>>

(***************************************************************************)

Verdicts(m) ==
    LET consistent == Consistent(m)
    IN  [idempotency |-> Idempotent(m, consistent), result |-> consistent,
         recoverability |-> Recoverable(m, consistent)]

Init ==
    /\ model \in Models
    /\ verdict = Verdicts(model)
    /\ \E family \in DOMAIN verdict : verdict[family] # {}
    /\ att = <<>> /\ commits = <<>> /\ fixed = <<>>
    /\ sent = {} /\ delivered = {} /\ works = {}

Next ==
    \/ \E o \in DOMAIN model.ops : Stimulate(o) \/ \E m \in sent : Deliver(m, o)
    \/ \E i \in DOMAIN att :
          \/ Recover(i) \/ Commit(i) \/ Reject(i) \/ Launch(i)
          \/ Join(i) \/ Race(i) \/ Decide(i) \/ Terminate(i)
          \/ \E h \in DOMAIN att[i].flying :
                CallExternal(i, h) \/ Publish(i, h) \/ Request(i, h) \/ Respond(i, h)

Spec == Init /\ [][Next]_vars

(***************************************************************************)
(* Properties.                                                             *)
(***************************************************************************)

(* Two works at one place of one class: a class of an operation that is    *)
(* proven idempotent, or of one that it caused, at the same sites from     *)
(* there on.                                                               *)
OfOneClass(v, w, level) ==
    /\ level <= Len(v.chain)
    /\ Len(v.chain) = Len(w.chain)
    /\ v.chain[level][1] \in verdict.idempotency
    /\ v.chain[level][1] = w.chain[level][1]
    /\ v.chain[level][2] = w.chain[level][2]
    /\ \A n \in level..Len(v.chain) : v.chain[n][1] = w.chain[n][1] /\ v.chain[n][3] = w.chain[n][3]

(* Attempts of one class of an operation proven idempotent, run at once,   *)
(* cut short and run again, do one logical work at each place, there and   *)
(* in every operation they cause to run (idempotency.rs, check).           *)
WorkOnce ==
    \A v, w \in works : \A level \in DOMAIN v.chain : OfOneClass(v, w, level) => v.item = w.item

(* They do it on one side of every decision but a transaction's outcome:   *)
(* an arm whose taking may differ between attempts leads to no work        *)
(* (idempotency.rs, inert_decisions).                                      *)
OneContinuation ==
    \A v, w \in works :
        /\ Len(v.chain) = Len(w.chain)
        /\ Last(v.chain)[1] \in verdict.idempotency
        /\ Last(v.chain)[1] = Last(w.chain)[1] /\ Last(v.chain)[2] = Last(w.chain)[2]
        => \A d \in DOMAIN v.took \cap DOMAIN w.took : v.took[d] = w.took[d]

Conclusive(i) ==
    /\ att[i].end = "return"
    /\ att[i].result.arm = "ok" \/ model.ops[att[i].op].errors[att[i].result.arm] # "retryable"

(* All attempts of a class of an operation proven result-replaying that    *)
(* return, and do not return an error declared retryable, return the same  *)
(* (result_replay.rs, check).                                              *)
ResultsAgree ==
    \A i, j \in DOMAIN att :
        /\ SameClass(i, j) /\ att[i].op \in verdict.result
        /\ Conclusive(i) /\ Conclusive(j)
        => att[i].result = att[j].result

Done(i) == att[i].end = "complete" \/ Here(i, {"complete"})

(* The artifacts that steps of the operation are made of. *)
Needed(op) ==
    LET of(p) == UNION {CASE p[n].kind = "tx" -> Consumed(p[n]) \cup
                                UNION {IF s.kind = "outbox" THEN Uses(s) ELSE {} : s \in Range(p[n].body)}
                          [] p[n].kind \in {"execute", "execute_intent"} -> Uses(p[n])
                          [] p[n].kind = "return" -> OutputsIn(p[n].values.from)
                          [] OTHER -> {} : n \in DOMAIN p}
    IN  UNION {of(p) : p \in AdmittedPaths(op)}

(* What one attempt takes up in place of an artifact is what another had.  *)
ArtifactsAgree ==
    \A i, j \in DOMAIN att :
        att[i].op \in verdict.recoverability /\ SameClass(i, j)
        => \A a \in Needed(model.ops[att[i].op]) :
              LET r == <<"output", a>>
              IN  r \in DOMAIN att[i].env \cap DOMAIN att[j].env => att[i].env[r] = att[j].env[r]

(* An attempt of a class of an operation proven recoverable is stopped by  *)
(* what an earlier attempt committed only when the work was complete with  *)
(* that commit, and goes on from the artifacts the earlier one had         *)
(* (recoverability.rs, analyze_path and require_artifact).                 *)
NoneStrandedByItsPast ==
    /\ \A i \in DOMAIN att :
        /\ att[i].op \in verdict.recoverability
        /\ Here(i, {"tx"}) /\ Spent(i, Head(att[i].todo))
        => \E j \in DOMAIN att : SameClass(i, j) /\ Done(j)
    /\ ArtifactsAgree
=============================================================================
