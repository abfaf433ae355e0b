------------------------------- MODULE MCReplay -------------------------------
(* The specifications whose verdicts are tried: one operation over a menu  *)
(* of transactions, effects and continuations, and pairs that meet through *)
(* a request, a topic and an outbox.                                       *)
EXTENDS ReplayHistory

k == <<"input", "k">>
f == <<"input", "f">>
out == <<"output", "o">>

Det(roots) == [det |-> TRUE, from |-> roots]

Unspecified == [det |-> FALSE, from |-> {}]

InputOf(kind, channel, delivery, identity) ==
    [kind |-> kind, channel |-> channel, delivery |-> delivery, identity |-> identity]

Call(identity) == InputOf("request", None, None, identity)

Families == {"idempotency", "result", "recoverability"}

Op(input, errors, program) ==
    [input |-> input, key |-> {"k"}, requires |-> Families, errors |-> errors, program |-> program]

Alone(op) ==
    [ops |-> [o \in {"a"} |-> op], channels |-> <<>>, repeated |-> {"a"}, entry |-> "a"]

Pair(a, b, identity, repeated) ==
    [ops |-> [o \in {"a", "b"} |-> IF o = "a" THEN a ELSE b],
     channels |-> [c \in {"c"} |-> identity], repeated |-> repeated, entry |-> "a"]

(* Steps. *)
Insert == [kind |-> "insert"]
Read == [kind |-> "read", bind |-> "r"]
Update(values) == [kind |-> "update", versioned |-> FALSE, target |-> {k}, values |-> values]
Output(values) == [kind |-> "output", bind |-> "o", values |-> values]
Outbox(values) == [kind |-> "outbox", channel |-> "c", values |-> values]

Tx(id, dedup, body, rejected) ==
    [kind |-> "tx", id |-> id, dedup |-> dedup, body |-> body, rejected |-> rejected]

External(id, idempotency, identity, replay, errors) ==
    [kind |-> "external", id |-> id, idempotency |-> idempotency, identity |-> identity,
     replay |-> replay, errors |-> errors]

Execute(id, contract, values, bind) ==
    [kind |-> "execute", id |-> id, contract |-> contract, values |-> values,
     bind |-> bind, handle |-> None, intent |-> None]

Start(id, contract, values, handle) ==
    [Execute(id, contract, values, None) EXCEPT !.handle = handle]

Complete == [kind |-> "complete"]

Return(arm, values) == [kind |-> "return", arm |-> arm, values |-> values]

Match(result, arms) == [kind |-> "match", id |-> "m", result |-> result, arms |-> arms]

Branch(cond, yes, no) ==
    [kind |-> "branch", id |-> "d", cond |-> cond, arms |-> [x \in {"yes", "no"} |-> IF x = "yes" THEN yes ELSE no]]

(* The menus. *)
Firsts ==
    {Tx("t", {k}, <<Insert, Output(Unspecified)>>, NoBlock),                \* a keyed commit
     Tx("t", {f}, <<Insert, Output(Det({k}))>>, NoBlock),                   \* under a doubtful key
     Tx("t", NoKey, <<Update(Det({k, f})), Output(Det({k}))>>, NoBlock),   \* naturally replayable
     Tx("t", NoKey, <<Read, Output(Det({<<"read", "r">>}))>>, NoBlock),    \* what it read
     Tx("t", NoKey, <<Insert, Output(Det({k}))>>, NoBlock)}                \* not replayable

Notify == External("n", "identical_per_identity", {out}, "replay_stable", [e \in {"e"} |-> "terminal"])

Calls ==
    {Notify,
     [Notify EXCEPT !.errors = [e \in {"e"} |-> "retryable"]],
     [Notify EXCEPT !.replay = "unspecified"],
     [Notify EXCEPT !.idempotency = "side_effect_free", !.identity = {k}],
     [Notify EXCEPT !.idempotency = "distinguishable"]}

Record(dedup) == Tx("u", dedup, <<Insert>>, NoBlock)

Again == Execute("x", [Notify EXCEPT !.id = "x", !.identity = {k}], Det({k}), None)

Matched(ok, e) == Match("v", [arm \in {"ok", "e"} |-> IF arm = "ok" THEN ok ELSE e])

(* What follows a result bound as v. *)
Nexts(root) ==
    {<<Complete>>,
     <<Matched(<<Return("ok", Det({<<"ok", "v">>}))>>, <<Return("e", Det({<<"err", "v">>}))>>)>>,
     <<Matched(<<Record({k})>>, <<Return("e", Det({k}))>>), Return("ok", Det({root}))>>,
     <<Matched(<<Record({k})>>, <<Again>>), Return("ok", Det({k}))>>,
     <<Matched(<<Branch(Det({<<"ok", "v">>}), <<Record({k})>>, <<>>)>>, <<>>), Complete>>}

Straight ==
    {Alone(Op(Call({}), [e \in {"e"} |-> "terminal"],
              <<first, Execute("n", call, Det({out}), "v")>> \o next)) :
        first \in Firsts, call \in Calls, next \in Nexts(out)}
    \cup
    {Alone(Op(Call({"k"}), [e \in {"e"} |-> "retryable"],
              <<first, Execute("n", Notify, Det({out}), "v")>> \o next)) :
        first \in Firsts, next \in Nexts(out)}

(* Without an effect in between. *)
Short ==
    {Alone(Op(Call(identity), [e \in {"e"} |-> "terminal"], <<first>> \o next)) :
        identity \in {{}, {"k"}}, first \in Firsts,
        next \in {<<Complete>>, <<Return("ok", Det({out}))>>, <<Return("ok", Det({k}))>>,
                  <<Branch(Det({f}), <<Again>>, <<Complete>>), Complete>>,
                  <<Branch(Det({out}), <<Record(NoKey)>>, <<>>), Complete>>,
                  <<Record(NoKey), Complete>>}}

(* A transaction that may be turned down, and launches that are joined or  *)
(* raced.                                                                  *)
Turned(first) == [first EXCEPT !.rejected = <<Return("e", Det({k}))>>]

Quote(id) == Start(id, [Notify EXCEPT !.id = id, !.identity = {k}], Det({k}), id)

Gathered(s) == <<Quote("p"), Quote("q"), s>>

Joined == Gathered([kind |-> "join", binds |-> [h \in {"p", "q"} |-> IF h = "p" THEN "v" ELSE "w"]])
Raced == Gathered([kind |-> "race", handles |-> {"p", "q"}, bind |-> "v"])

Forked ==
    {Alone(Op(Call({}), [e \in {"e"} |-> disposition],
              <<Turned(first), Execute("n", Notify, Det({out}), None), Return("ok", Det({out}))>>)) :
        disposition \in {"terminal", "retryable"}, first \in Firsts}
    \cup
    {Alone(Op(Call({}), [e \in {"e"} |-> "terminal"], gathered \o next)) :
        gathered \in {Joined, Raced}, next \in Nexts(k)}

(* A stimulus that comes once, and a captured intent. *)
Delivered ==
    {Alone(Op(InputOf("subscription", "s", "at_most_once", identity), [e \in {} |-> ""],
              <<Record(NoKey), Complete>>)) : identity \in {{}, {"k"}}}

Capture(values) == [kind |-> "intent", bind |-> "o", contract |-> [Notify EXCEPT !.identity = {k}], values |-> values]

Perform == [kind |-> "execute_intent", id |-> "n", intent |-> "o", bind |-> "v", handle |-> None]

Captured ==
    {Alone(Op(Call({}), [e \in {"e"} |-> "terminal"],
              <<Tx("t", dedup, <<Capture(values)>>, NoBlock), Perform, Complete>>)) :
        dedup \in {NoKey, {k}}, values \in {Det({k}), Det({f}), Unspecified}}

Singles == Straight \cup Short \cup Forked \cup Delivered \cup Captured

(* Pairs: what the second does, and how the first reaches it. *)
Servers(input) ==
    {Op(input, [e \in {"e"} |-> "terminal"], <<first>> \o next) :
        first \in {Turned(Record({k})), Record({f})},
        next \in {<<Return("ok", Det({k}))>>, <<Return("ok", Unspecified)>>}}
    \cup {Op(input, [e \in {"e"} |-> "retryable"], <<Turned(Record({k})), Return("ok", Det({k}))>>)}

Listeners(delivery, identity) ==
    {Op(InputOf("subscription", "c", delivery, identity), [e \in {} |-> ""], <<Record(dedup), Complete>>) :
        dedup \in {{k}, NoKey}}

Ask == [kind |-> "request", target |-> "b"]
Tell == [kind |-> "publication", channel |-> "c"]

Requesting ==
    {Pair(Op(Call({}), [e \in {"e"} |-> "terminal"], <<Execute("n", Ask, Det({k}), "v")>> \o next),
          b, {}, {"a", "b"}) : next \in Nexts(k), b \in Servers(Call({}))}

Telling == {<<Execute("n", Tell, values, None), Complete>> : values \in {Det({k}), Det({f})}}

Publishing ==
    UNION {{Pair(Op(Call({}), [e \in {"e"} |-> "terminal"], program), b, identity, {"a"}) :
              program \in Telling, b \in Listeners(delivery, identity)} :
           identity \in {{}, {"k"}}, delivery \in {"at_least_once", "at_most_once"}}

Admitting ==
    {Pair(Op(Call({}), [e \in {"e"} |-> "terminal"],
             <<Tx("t", dedup, <<Outbox(values)>>, NoBlock), Complete>>),
          Op(InputOf("outbox", "c", None, identity), [e \in {} |-> ""], <<Record(key), Complete>>),
          identity, {"a"}) :
        identity \in {{}, {"k"}}, dedup \in {{k}, NoKey}, values \in {Det({k}), Det({f}), Unspecified},
        key \in {{k}, NoKey}}

Catalogue == Singles \cup Requesting \cup Publishing \cup Admitting
===============================================================================
