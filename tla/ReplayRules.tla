----------------------------- MODULE ReplayRules -----------------------------
(***************************************************************************)
(* The replay engine of the verifier and the three families of verdicts    *)
(* that rest on it: src/analyzer/verification/paths.rs, replay.rs,         *)
(* trigger.rs, idempotency.rs, result_replay.rs and recoverability.rs.     *)
(*                                                                         *)
(* A specification M is [ops |-> [name -> operation], channels |-> [name   *)
(* -> set of identity fields]].  An operation has one input, the governing *)
(* key its requirements share, the error classes it may return with their  *)
(* dispositions, and a program:                                            *)
(*   [input |-> [kind, channel, delivery, identity], key |-> set of input  *)
(*    fields, requires |-> set of families, errors |-> [class -> disp.],   *)
(*    program |-> sequence of steps]                                       *)
(* A program is a sequence of steps; a decision's arms are programs.  A    *)
(* derivation is [det, from], from a set of roots; a root is <<"input",    *)
(* field>>, <<"output", bind>>, <<"ok", bind>>, <<"err", bind>> or         *)
(* <<"read", bind>>.  A judgment is a truth value: the gaps and obstacles  *)
(* that the code records in its place are wording.                         *)
(***************************************************************************)
EXTENDS Naturals, Sequences, FiniteSets, SequencesExt, TLC

None == "none"

NoKey == {<<None>>}                 \* `idempotency` of a transaction that declares no key

NoBlock == <<[kind |-> "none"]>>    \* no `rejected` arm: the body cannot reject

Terminals == {"return", "complete", "abandon"}

(***************************************************************************)
(* The paths of a program.                                                 *)
(***************************************************************************)

Took(s, arm) == [kind |-> "decision", of |-> s, arm |-> arm]

(* The arms of a decision and what each runs before the join. *)
Arms(s) ==
    IF s.kind = "tx" THEN [arm \in {"rejected", "committed"} |-> IF arm = "rejected" THEN s.rejected ELSE <<>>]
    ELSE s.arms

Rejects(s) == s.kind = "tx" /\ s.rejected # NoBlock

Decides(s) == s.kind \in {"match", "branch"} \/ Rejects(s)

(* A path has run the transaction that committed, not the one refused.     *)
Prefix(s, arm) == (IF s.kind = "tx" /\ arm = "committed" THEN <<s>> ELSE <<>>) \o <<Took(s, arm)>>

(* Every path through the steps still to run: steps and the decisions that *)
(* selected them, to a terminal, or to a fall off the end (None).          *)
RECURSIVE Paths(_)
Paths(todo) ==
    IF todo = <<>> THEN {<<[kind |-> None]>>}
    ELSE LET s == Head(todo)
             through(taken, block) == {taken \o p : p \in Paths(block \o Tail(todo))}
         IN  IF s.kind \in Terminals THEN {<<s>>}
             ELSE IF Decides(s)
             THEN UNION {through(Prefix(s, arm), Arms(s)[arm]) : arm \in DOMAIN Arms(s)}
             ELSE through(<<s>>, <<>>)

(* A request never abandons. *)
AdmittedPaths(op) ==
    {p \in Paths(op.program) : Last(p).kind = "abandon" => op.input.kind # "request"}

(***************************************************************************)
(* What is stable: equal in any two attempts of one class that evaluate it.*)
(***************************************************************************)

(* Results and artifacts a path has made available, with their judgments:  *)
(* artifacts[bind] and results[bind][arm] are whether they replay.         *)
NoContext == [artifacts |-> <<>>, results |-> <<>>, handles |-> <<>>, selected |-> <<>>]

PayloadIdentified(op) == op.input.identity # {} /\ op.input.identity \subseteq op.key

Stable(op, context, root) ==
    CASE root[1] = "input"  -> root[2] \in op.key \/ PayloadIdentified(op)
      [] root[1] = "output" -> root[2] \in DOMAIN context.artifacts /\ context.artifacts[root[2]]
      [] root[1] = "ok"     -> root[2] \in DOMAIN context.results /\ context.results[root[2]]["ok"]
      [] root[1] = "err"    -> /\ root[2] \in DOMAIN context.results \cap DOMAIN context.selected
                               /\ context.selected[root[2]] # "ok"
                               /\ context.results[root[2]][context.selected[root[2]]]
      [] root[1] = "read"   -> FALSE

AllStable(op, context, roots) == \A r \in roots : Stable(op, context, r)

Replayable(op, context, d) == d.det /\ AllStable(op, context, d.from)

(***************************************************************************)
(* Transactions.                                                           *)
(***************************************************************************)

OutputsIn(roots) == {r[2] : r \in {q \in roots : q[1] = "output"}}

(* The roots a step of a body takes its values from. *)
Roots(s) ==
    CASE s.kind = "update" -> s.target \cup s.values.from
      [] s.kind \in {"output", "intent", "outbox"} -> s.values.from
      [] OTHER -> {}

(* The artifacts an effect is made of. *)
Uses(s) == IF s.kind = "execute_intent" THEN {s.intent} ELSE OutputsIn(s.values.from)

(* Route B: a keyed commit over a stable key. *)
KeyDeclared(op, context, tx) == tx.dedup # NoKey    \* mutant: however its roots fare

RecoveryRoute(op, context, tx) == tx.dedup # NoKey /\ AllStable(op, context, tx.dedup)

(* Route A: running the body again reproduces what it did. *)
NaturalRoute(op, context, tx) ==
    \A i \in DOMAIN tx.body :
        LET s == tx.body[i]
        IN  CASE s.kind \in {"read", "lock", "output", "intent", "outbox"} -> TRUE
              [] s.kind = "update" -> /\ ~s.versioned
                                      /\ AllStable(op, context, s.target)
                                      /\ Replayable(op, context, s.values)
              [] s.kind = "fence"  -> ~s.compares /\ ~s.versioned
              [] OTHER -> FALSE

ArtifactReplays(op, context, recovery, natural, values) ==
    recovery \/ (natural /\ Replayable(op, context, values))

(* The context a committed body leaves, and its outbox writes as judged.   *)
ApplyTransaction(op, context, tx) ==
    LET recovery == RecoveryRoute(op, context, tx)
        natural  == NaturalRoute(op, context, tx)
        inner(q, s) ==
            CASE s.kind \in {"output", "intent"} ->
                    [q EXCEPT !.context.artifacts =
                        (s.bind :> ArtifactReplays(op, q.context, recovery, natural, s.values)) @@ @]
              [] s.kind = "outbox" ->
                    [q EXCEPT !.writes = Append(@, [kind |-> "effect", contract |-> s, tx |-> tx.id,
                        before |-> q.context, instance |-> Replayable(op, q.context, s.values),
                        uses |-> Uses(s)])]
              [] OTHER -> q
    IN  FoldLeft(inner, [context |-> context, recovery |-> recovery, natural |-> natural, writes |-> <<>>],
                 tx.body)

(***************************************************************************)
(* Results of effects.                                                     *)
(***************************************************************************)

ErrorsOf(M, c) == IF c.kind = "request" THEN M.ops[c.target].errors ELSE c.errors

Unfixed(M, c) == [arm \in {"ok"} \cup DOMAIN ErrorsOf(M, c) |-> FALSE]

(* Ok is terminal; an error is as its class declares it. *)
ExternalResult(M, op, context, c) ==
    IF c.replay # "replay_stable" \/ ~AllStable(op, context, c.identity) THEN Unfixed(M, c)
    ELSE [arm \in DOMAIN Unfixed(M, c) |-> arm = "ok" \/ c.errors[arm] = "terminal"]

(* The target's proof fixes all it does not declare retryable. *)
RequestResult(M, c, instance, consistent) ==
    IF ~instance \/ c.target \notin consistent THEN Unfixed(M, c)
    ELSE [arm \in DOMAIN Unfixed(M, c) |-> arm = "ok" \/ M.ops[c.target].errors[arm] # "retryable"]

ResultReplay(M, op, context, c, instance, consistent) ==
    CASE c.kind = "external" -> ExternalResult(M, op, context, c)
      [] c.kind = "request"  -> RequestResult(M, c, instance, consistent)
      [] OTHER -> <<>>

(***************************************************************************)
(* One forward pass over a path.                                           *)
(***************************************************************************)

(* Mutant: an arm is judged by what the boundary fixes for another. *)
AnyArm(op, context, commits, d) ==
    CASE d.of.kind = "match"  -> /\ d.of.result \in DOMAIN context.results
                                 /\ \E arm \in DOMAIN context.results[d.of.result] :
                                        context.results[d.of.result][arm]
      [] d.of.kind = "branch" -> Replayable(op, context, d.of.cond)
      [] d.of.kind = "tx"     -> d.arm = "committed" /\ d.of.id \in commits

(* Whether every attempt of the class takes the arm. *)
DecisionReplays(op, context, commits, d) ==
    CASE d.of.kind = "match"  -> /\ d.of.result \in DOMAIN context.results
                                 /\ context.results[d.of.result][d.arm]
      [] d.of.kind = "branch" -> Replayable(op, context, d.of.cond)
      [] d.of.kind = "tx"     -> d.arm = "committed" /\ d.of.id \in commits

(* The contract an intent's binding captured. *)
RECURSIVE IntentSites(_)
IntentSites(program) ==
    UNION {LET s == program[i]
           IN  (IF s.kind = "tx" THEN {s.body[j] : j \in {k \in DOMAIN s.body : s.body[k].kind = "intent"}}
                ELSE {})
               \cup (IF Decides(s) THEN UNION {IntentSites(Arms(s)[arm]) : arm \in DOMAIN Arms(s)} ELSE {})
           : i \in DOMAIN program}

ContractOf(op, s) ==
    IF s.kind = "execute_intent"
    THEN (CHOOSE e \in IntentSites(op.program) : e.bind = s.intent).contract
    ELSE s.contract

InstanceFixed(op, context, s) ==
    IF s.kind = "execute_intent"
    THEN s.intent \in DOMAIN context.artifacts /\ context.artifacts[s.intent]
    ELSE Replayable(op, context, s.values)

(* An attempt of an effect, and the result it binds at once.               *)
PushEffect(op, q, s, result) ==
    LET judged == [kind |-> "effect", contract |-> ContractOf(op, s), tx |-> None, before |-> q.context,
                   instance |-> InstanceFixed(op, q.context, s), uses |-> Uses(s)]
    IN  [q EXCEPT !.steps = Append(@, judged),
                  !.context.results = IF s.bind = None THEN @ ELSE (s.bind :> result) @@ @]

(* A result is judged where its effect is launched.                        *)
TraceEffect(M, op, q, s, consistent) ==
    LET result == ResultReplay(M, op, q.context, ContractOf(op, s), InstanceFixed(op, q.context, s), consistent)
    IN  [PushEffect(op, q, s, result) EXCEPT
            !.context.handles = IF s.handle = None THEN @ ELSE (s.handle :> result) @@ @]

TraceTransaction(op, q, s) ==
    LET a == ApplyTransaction(op, q.context, s)
    IN  [q EXCEPT !.context = a.context,
                  !.commits = IF a.recovery THEN @ \cup {s.id} ELSE @,
                  !.steps = @ \o <<[kind |-> "tx", tx |-> s, before |-> q.context,
                                    recovery |-> a.recovery, natural |-> a.natural]>> \o a.writes]

TraceJoin(q, s) ==
    [q EXCEPT !.context.results = [b \in {s.binds[h] : h \in DOMAIN s.binds} |->
        q.context.handles[CHOOSE h \in DOMAIN s.binds : s.binds[h] = b]] @@ @]

(* A race's winner is not judged to replay.                                *)
TraceRace(q, s) ==
    [q EXCEPT !.context.results =
        (s.bind :> [arm \in UNION {DOMAIN q.context.handles[h] : h \in s.handles} |-> FALSE]) @@ @]

(* A match arm taken selects the result's arm for the rest of the path.    *)
TraceDecision(op, q, s) ==
    [q EXCEPT !.steps = Append(@, [kind |-> "decision", taken |-> s,
                                   replays |-> DecisionReplays(op, q.context, q.commits, s)]),
              !.context.selected = IF s.of.kind = "match" THEN (s.of.result :> s.arm) @@ @ ELSE @]

Trace(M, op, path, consistent) ==
    LET step(q, s) ==
            CASE s.kind = "tx" -> TraceTransaction(op, q, s)
              [] s.kind \in {"execute", "execute_intent"} -> TraceEffect(M, op, q, s, consistent)
              [] s.kind = "join" -> TraceJoin(q, s)
              [] s.kind = "race" -> TraceRace(q, s)
              [] s.kind = "decision" -> TraceDecision(op, q, s)
              [] OTHER -> q
    IN  FoldLeft(step, [context |-> NoContext, commits |-> {}, steps |-> <<>>], path)

(***************************************************************************)
(* Result replay.                                                          *)
(***************************************************************************)

Returning(op) == {p \in Paths(op.program) : Last(p).kind = "return"}

(* Mutant: any error may be returned in place of another. *)
ErrorReturn(op, p) == Last(p).arm # "ok"

RetryableReturn(op, p) == Last(p).arm # "ok" /\ op.errors[Last(p).arm] = "retryable"

ResultHolds(M, op, assumed) ==
    \A p \in Returning(op) :
        \/ RetryableReturn(op, p)
        \/ LET trace == Trace(M, op, p, assumed)
           IN  /\ \A i \in DOMAIN trace.steps :
                     trace.steps[i].kind = "decision" => trace.steps[i].replays
               /\ Replayable(op, trace.context, Last(p).values)

(***************************************************************************)
(* Idempotency.                                                            *)
(***************************************************************************)

(* The inputs that take from each channel.                                  *)
TriggerGraph(M) ==
    [channel \in {M.ops[o].input.channel : o \in DOMAIN M.ops} |->
        {o \in DOMAIN M.ops : M.ops[o].input.channel = channel}]

Consumers(M, channel) == IF channel \in DOMAIN TriggerGraph(M) THEN TriggerGraph(M)[channel] ELSE {}

(* Duplicates of one logical message do no new work at the consumer. *)
Collapses(M, o, proven) ==
    \/ o \in proven
    \/ M.ops[o].input.kind = "subscription" /\ M.ops[o].input.delivery = "at_most_once"

DuplicateSafe(M, op, e, commits, proven) ==
    LET c == e.contract
        sameMessage == /\ M.channels[c.channel] # {}
                       /\ \A o \in Consumers(M, c.channel) : Collapses(M, o, proven)
                       /\ e.instance
    IN  CASE c.kind = "external"    -> \/ c.idempotency = "side_effect_free"
                                       \/ /\ c.idempotency = "identical_per_identity"
                                          /\ AllStable(op, e.before, c.identity)
          [] c.kind = "request"     -> c.target \in proven /\ e.instance
          [] c.kind = "publication" -> sameMessage
          [] c.kind = "outbox"      -> e.tx \in commits \/ sameMessage

(* Nothing but decisions follows the i-th step before the terminal. *)
Inert(path, i) == \A j \in (i + 1)..(Len(path) - 1) : path[j].kind = "decision"

(* The decisions of a path, in the order the pass judges them. *)
DecisionAt(path, d) == {i \in DOMAIN path : path[i] = d}

RetrySafe(M, op, path, proven, consistent) ==
    LET trace == Trace(M, op, path, consistent)
    IN  \A i \in DOMAIN trace.steps :
            LET s == trace.steps[i]
            IN  CASE s.kind = "tx"       -> s.recovery \/ s.natural
                  [] s.kind = "effect"   -> DuplicateSafe(M, op, s, trace.commits, proven)
                  [] s.kind = "decision" -> \/ s.replays
                                            \/ s.taken.of.kind = "tx"
                                            \/ \A j \in DecisionAt(path, s.taken) : Inert(path, j)

SingleDelivery(op) ==
    /\ op.input.kind = "subscription" /\ op.input.delivery = "at_most_once"
    /\ PayloadIdentified(op)

IdempotencyHolds(M, op, proven, consistent) ==
    \/ SingleDelivery(op)
    \/ \A p \in AdmittedPaths(op) : RetrySafe(M, op, p, proven, consistent)

(* The greatest set of requirements that hold when all of it is assumed.   *)
Consistent(M) ==
    LET every == {o \in DOMAIN M.ops : "result" \in M.ops[o].requires}
        after[n \in 0..Cardinality(every)] ==
            IF n = 0 THEN every
            ELSE LET assumed == after[n - 1] IN {o \in every : ResultHolds(M, M.ops[o], assumed)}
    IN  after[Cardinality(every)]

Idempotent(M, consistent) ==
    LET every == {o \in DOMAIN M.ops : "idempotency" \in M.ops[o].requires}
        after[n \in 0..Cardinality(every)] ==
            IF n = 0 THEN every
            ELSE LET assumed == after[n - 1]
                 IN  {o \in every : IdempotencyHolds(M, M.ops[o], assumed, consistent)}
    IN  after[Cardinality(every)]

(***************************************************************************)
(* Recoverability.                                                         *)
(***************************************************************************)

(* The outputs a body takes from earlier steps of the path. *)
Consumed(tx) ==
    LET inner(q, s) ==
            [uses |-> q.uses \cup (OutputsIn(Roots(s)) \ q.own),
             own  |-> IF s.kind = "output" THEN q.own \cup {s.bind} ELSE q.own]
    IN  FoldLeft(inner, [uses |-> {}, own |-> {}], tx.body).uses

Available(context, artifacts) ==
    \A a \in artifacts : a \in DOMAIN context.artifacts /\ context.artifacts[a]

(* Mutant: nothing of the body is met again once the path was at its end. *)
EndsPath(path, i, last) == i = last

ClosesPath(path, i, last) == i = last /\ Last(path).kind = "complete"

(* A step met again: a transaction is resolved, unless it is the last of a *)
(* path that completes, and every artifact that is used replays.           *)
StepResumes(path, trace, i) ==
    LET s == trace.steps[i]
    IN  CASE s.kind = "tx" ->
                /\ Available(s.before, Consumed(s.tx))
                /\ s.recovery \/ s.natural \/ ClosesPath(path, i, Len(trace.steps))
          [] s.kind = "effect" -> Available(s.before, s.uses)
          [] OTHER -> TRUE

TerminalResumes(path, trace) ==
    /\ Last(path).kind # None
    /\ Last(path).kind = "return" => Available(trace.context, OutputsIn(Last(path).values.from))

(* Running the path again from its first step reaches its terminal.        *)
Resumes(M, op, path, consistent) ==
    LET trace == Trace(M, op, path, consistent)
    IN  TerminalResumes(path, trace) /\ \A i \in DOMAIN trace.steps : StepResumes(path, trace, i)

Resumable(M, op, consistent) ==
    LET admitted == AdmittedPaths(op)
    IN  /\ \E p \in admitted : Last(p).kind # "abandon"
        /\ \A p \in admitted : Resumes(M, op, p, consistent)

Recoverable(M, consistent) ==
    {o \in DOMAIN M.ops : /\ "recoverability" \in M.ops[o].requires
                          /\ Resumable(M, M.ops[o], consistent)}
=============================================================================
