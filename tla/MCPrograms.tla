------------------------------- MODULE MCPrograms -------------------------------
(* Sketches put together from the things a coordinator writes in one, and  *)
(* programs written step by step, well and badly.                          *)
EXTENDS Programs

MCObjects == [Account |-> [model |-> "main", versioned |-> TRUE],
              Ticket  |-> [model |-> "main", versioned |-> FALSE],
              Order   |-> [model |-> "main", versioned |-> FALSE],
              Ledger  |-> [model |-> "books", versioned |-> TRUE]]

MCMachines == [settle |-> [on |-> "Ticket", effects |-> {"notify"}]]

MCOutboxes == [mail |-> "main"]

MCAliasOrder == <<"a", "b", "p", "t", "u">>

FindBy(as, record, by) == [kind |-> "find", as |-> as, record |-> record, all |-> FALSE, lock |-> FALSE, by |-> by]
LockedFind(as, record, by) == [FindBy(as, record, by) EXCEPT !.lock = TRUE]
FindAll(as, record, by) == [FindBy(as, record, by) EXCEPT !.all = TRUE]
Guarded(kind, record, from, otherwise) == [kind |-> kind, record |-> record, from |-> from, otherwise |-> otherwise]
Change(kind, record, from) == Guarded(kind, record, from, None)
Settle(record, otherwise, already) ==
    [kind |-> "transition", record |-> record, from |-> {}, otherwise |-> otherwise,
     transition |-> "settle", already_ok |-> already]
Make(kind, record, from) == [kind |-> kind, record |-> record, from |-> from, by |-> {"input"}]
Enqueue(from) == [kind |-> "enqueue", outbox |-> "mail", from |-> from]
Publish1(name, from) == [kind |-> "publish", name |-> name, from |-> from, durable |-> FALSE, detached |-> FALSE]
Call(name, as, from, classes) ==
    [kind |-> "call", name |-> name, as |-> as, from |-> from, classes |-> classes, durable |-> FALSE,
     detached |-> FALSE, on_ok |-> <<>>, on_error |-> <<>>]
WhenElse(test, then, otherwise) ==
    [kind |-> "when", test |-> test, then |-> then, otherwise_steps |-> otherwise]
RejectAs(class) == [kind |-> "reject", error |-> class, from |-> {}]
Abandon == [kind |-> "abandon", from |-> {}]
Group(kind, steps) == [kind |-> kind, steps |-> steps]
RaceOf(as, steps, ok, err) == [kind |-> "race", as |-> as, steps |-> steps, on_ok |-> ok, on_error |-> err]
AnswerOf(of, ok, err) == [kind |-> "answer", of |-> of, on_ok |-> ok, on_error |-> err]

(* How a course is given up: a request is refused, a message abandoned.    *)
GiveUp(request) == IF request THEN RejectAs("gone") ELSE Abandon

Declined == {"declined"}

(* The parts a sketch is put together from.  Parts that mention "a" or "p" *)
(* are about what an earlier part found or asked for.                      *)
Parts(request) ==
    <<  <<FindBy("a", "Account", {"input"})>>,
        <<FindBy("a", "Account", {"input"}), Change("update", "a", {"a"})>>,
        <<FindAll("a", "Account", {}), Change("update", "a", {"a"})>>,
        <<FindBy("t", "Ticket", {"input"}), Settle("t", IF request THEN "gone" ELSE None, request)>>,
        <<LockedFind("b", "Ledger", {"input"}), Change("advance", "b", {"input"})>>,
        <<FindBy("b", "Order", {"a"}), Change("delete", "b", {})>>,
        <<FindBy("b", "Account", {"a"}), Guarded("fence", "b", {"input"}, IF request THEN "declined" ELSE None)>>,
        <<FindBy("b", "Account", {"p"}), Change("fence", "b", {"input"}), Change("update", "b", {"p"})>>,
        <<Change("update", "a", {"p"}), Make("create", "Order", {"a"})>>,
        <<Make("upsert", "Ledger", {"a"}), Enqueue({"a"})>>,
        <<Publish1("said", {"a"})>>,
        <<[Publish1("heard", {"input"}) EXCEPT !.detached = TRUE]>>,
        <<Call("pay", "p", {"input"}, Declined)>>,
        <<[Call("pay", "p", {"a"}, Declined) EXCEPT !.durable = TRUE,
                !.on_error = [declined |-> <<GiveUp(request)>>]]>>,
        <<[Call("ask", None, {"a"}, Declined) EXCEPT !.on_ok = <<Publish1("went", {"a"})>>,
                !.on_error = [declined |-> <<Make("create", "Order", {"input"})>>]]>>,
        <<WhenElse({"a"}, <<Make("create", "Order", {"a"})>>, <<GiveUp(request)>>)>>,
        <<WhenElse({"p"}, <<FindBy("u", "Ticket", {"p"}), Change("update", "u", {"a"})>>, <<>>)>>,
        <<Group("parallel", <<Call("one", "p", {"a"}, Declined), Publish1("two", {"input"})>>),
          AnswerOf("p", <<>>, [declined |-> <<GiveUp(request)>>])>>,
        <<Group("start", <<Publish1("later", {"a"})>>)>>,
        <<RaceOf("p", <<Call("near", None, {"input"}, Declined), Call("far", None, {"a"}, Declined)>>,
                 <<Publish1("first", {"p"})>>, <<>>)>>,
        <<RaceOf(None, <<Call("near", None, {"a"}, Declined), Call("far", None, {"input"}, Declined)>>,
                 <<Make("create", "Order", {"a"})>>, [declined |-> <<GiveUp(request)>>])>>,
        <<Make("create", "Order", {"a"})>>,
        <<WhenElse({"input"}, <<WhenElse({"a"}, <<Publish1("said", {"a"})>>, <<GiveUp(request)>>)>>,
                   <<Enqueue({"input"}), Make("create", "Ledger", {"a"})>>)>>,
        <<[Call("pay", "p", {"input"}, Declined) EXCEPT !.on_ok = <<Make("create", "Order", {"p"})>>]>>,
        <<[Publish1("kept", {"a"}) EXCEPT !.durable = TRUE], [Call("log", None, {"input"}, NoAnswer) EXCEPT !.detached = TRUE]>>,
        <<FindBy("b", "Ledger", {"input"}), Change("update", "b", {"a"}), Change("update", "b", {"input"})>>,
        <<GiveUp(request)>>  >>

Aliases(part) ==
    LET named == {x \in Range(part) : x.kind \in {"find", "call", "race"}}
        joined == UNION {Range(g.steps) : g \in {x \in Range(part) : x.kind = "parallel"}}
    IN  ({s.as : s \in named} \cup {AliasOf(s) : s \in joined}) \ {None}

(* No part is used twice, no alias is introduced twice, and none is used  *)
(* before it is introduced.                                                *)
Fits(parts, part) ==
    LET before == UNION {Aliases(parts[j]) : j \in DOMAIN parts}
    IN  /\ part \notin Range(parts)
        /\ Aliases(part) \cap before = {}
        /\ Mentions(part) \subseteq before \cup Aliases(part) \cup {"input"}

Longer(sequences, request) ==
    UNION {{Append(parts, p) : p \in {q \in Range(Parts(request)) : Fits(parts, q)}} : parts \in sequences}

PutTogether(request) ==
    LET one == Longer({<<>>}, request)
        two == Longer(one, request)
    IN  one \cup two \cup Longer(two, request)

Put(request, wants, returns, onRejected, parts) ==
    [request |-> request, errors |-> IF request THEN {"gone", "declined"} ELSE {}, keyed |-> TRUE, wants |-> wants,
     returns |-> returns, steps |-> FlattenSeq(parts), on_rejected |-> onRejected]

Finds(parts, alias) == alias \in UNION {Aliases(parts[i]) : i \in DOMAIN parts}

RequestSketches ==
    {Put(TRUE, {}, {Unset}, <<>>, parts) : parts \in PutTogether(TRUE)}
        \cup {Put(TRUE, {}, {"a"}, <<RejectAs("gone")>>, parts) : parts \in {q \in PutTogether(TRUE) : Finds(q, "a")}}
        \cup {sk \in {Put(TRUE, {"Account"}, {Unset}, <<>>, parts) : parts \in PutTogether(TRUE)} : IsSimple(sk)}

Unkeyed == {[sk EXCEPT !.keyed = FALSE] : sk \in {q \in RequestSketches : Len(q.steps) <= 3}}

MessageSketches ==
    {Put(FALSE, {}, {Unset}, onRejected, parts) :
        onRejected \in {<<>>, <<Publish1("lost", {"input"})>>}, parts \in PutTogether(FALSE)}

Catalogue == RequestSketches \cup Unkeyed \cup MessageSketches

(* Sketches that the catalogue leaves out: with any of them for Sketches,  *)
(* one of the properties fails.                                            *)
FallsThrough ==         \* an arm that uses an answer later is taken to end
    Put(TRUE, {}, {Unset}, <<>>,
        <<<<WhenElse({"input"}, <<Call("pay", "p", {"input"}, Declined), Publish1("said", {"p"})>>,
                     <<RejectAs("gone")>>)>>>>)
WritesWhenRejected ==   \* a change in on_rejected, while the rejected one is still at hand
    Put(FALSE, {}, {Unset}, <<Make("create", "Order", {"input"})>>,
        <<<<FindBy("a", "Account", {"input"}), Change("update", "a", {"a"})>>>>)
FoundEarlier ==         \* a result field found by name in an earlier transaction
    Put(TRUE, {"Account"}, {Unset}, <<>>,
        <<<<FindBy("a", "Account", {"input"}), Call("log", None, {"input"}, NoAnswer), Make("create", "Order", {"input"})>>>>)
NamedInTwoArms ==       \* one alias in the two arms of a decision
    Put(FALSE, {}, {Unset}, <<>>,
        <<<<WhenElse({"input"}, <<FindBy("u", "Ticket", {"input"}), Publish1("said", {"u"})>>,
                     <<FindBy("u", "Ticket", {"input"}), Publish1("heard", {"u"})>>)>>>>)
AnsweredElsewhere ==    \* a parallel of one arm answered after both
    Put(FALSE, {}, {Unset}, <<>>,
        <<<<WhenElse({"input"}, <<Group("parallel", <<Call("one", "p", {"input"}, Declined)>>)>>, <<>>),
            AnswerOf("p", <<Publish1("said", {"input"})>>, <<>>)>>>>)
LockedTooLate ==        \* the same record found again under a lock, and changed as first found
    Put(FALSE, {}, {Unset}, <<>>,
        <<<<FindBy("t", "Ticket", {"input"}), LockedFind("u", "Ticket", {"input"}), Change("update", "t", {"t"})>>>>)
ReturnsTheAnswer ==     \* `returns` of a sketch of effects alone
    Put(TRUE, {}, {"p"}, <<>>, <<<<Call("pay", "p", {"input"}, Declined)>>>>)

(***************************************************************************)
(* Programs written directly.  Output "o" and intent "i" are established   *)
(* by a transaction, handle "h" is launched, results "r" and "q" answered. *)
(***************************************************************************)

o == <<"output", "o">>
oRoot == <<"output", o>>
i1 == <<"intent", "i">>
h == <<"handle", "h">>
g == <<"handle", "g">>
r1 == <<"result", "r">>
q1 == <<"result", "q">>

Arranges == [BodyStep("intent", Nowhere, InputRoots, {i1}) EXCEPT !.classes = Declined]
Exported(from) == BodyStep("output", Nowhere, from, {o})
Fences(from) == BodyStep("fence", Of("Account", InputRoots), from, {})
TxOf(id, key, requires, body, rejected) ==
    [kind |-> "tx", id |-> id, model |-> "main", key |-> key, requires |-> requires, body |-> body, rejected |-> rejected]
Ask(from, bind, handle) == Execute("ask", 1, Declined, from, bind, handle)
MatchOf(result, ok, declined) == [kind |-> "match", result |-> result, arms |-> [ok |-> ok, declined |-> declined]]
BranchOf(from, yes, no) == [kind |-> "branch", id |-> None, from |-> from, arms |-> [yes |-> yes, no |-> no]]

Establishes == TxOf(1, {}, {}, <<BodyStep("read", Of("Account", InputRoots), {}, {<<"read", "a">>}),
                                Exported({<<"read", <<"read", "a">>>>}), Arranges>>, NoBlock)

SingleSteps ==
    {Establishes,
     TxOf(2, {}, {}, <<Exported(InputRoots), Fences({oRoot})>>, <<>>),
     TxOf(2, {}, {}, <<Fences(InputRoots), Exported(InputRoots)>>, <<Complete>>),
     TxOf(3, {oRoot}, {}, <<Exported(InputRoots)>>, NoBlock),
     TxOf(3, {}, {oRoot}, <<Fences({<<"ok", r1>>})>>, NoBlock),
     Ask(InputRoots, r1, NoBind), Ask({oRoot}, NoBind, h), Ask({<<"ok", r1>>}, NoBind, g),
     ExecuteIntent(i1, q1, NoBind), ExecuteIntent(i1, NoBind, h),
     [kind |-> "join", handles |-> <<[handle |-> h, bind |-> r1]>>],
     [kind |-> "race", handles |-> <<h, g>>, bind |-> r1],
     Return("ok", {oRoot}), [kind |-> "abandon"]}

Arms2 == {<<>>, <<Complete>>, <<Establishes>>, <<Ask({<<"ok", r1>>}, q1, NoBind)>>,
          <<Ask({<<"err", r1>>}, NoBind, h)>>}

Decisions ==
    {MatchOf(r1, ok, declined) : ok \in Arms2, declined \in Arms2}
        \cup {BranchOf({oRoot}, yes, no) : yes \in Arms2, no \in Arms2}
        \cup {MatchOf(r1, <<MatchOf(q1, <<>>, <<Complete>>)>>, no) : no \in Arms2}

MCWritten ==
    {[request |-> FALSE, program |-> Append(steps, Complete)] : steps \in
        {<<a, b>> : a, b \in SingleSteps \cup Decisions}
        \cup {<<a, b, c>> : a, b \in SingleSteps, c \in SingleSteps \cup Decisions}}
        \cup {[request |-> TRUE, program |-> <<a>>] : a \in SingleSteps \cup Decisions}
=================================================================================
