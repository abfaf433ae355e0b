------------------------------ MODULE MCWorkspaces ------------------------------
(* A shop that takes orders, settles them as events are heard, and sends a *)
(* letter about each; and the tasks that go on writing it.                 *)
EXTENDS Workspaces

MCPolicy == [strict |-> TRUE, recommended |-> FALSE]

NoContract == [kind |-> "none"]

In(input, path) == <<"input", input, path>>
Of == In("in", <<"of">>)
Id == In("heard", <<"id">>)
Serial == In("heard", <<"seq">>)
Got == In("got", <<"order", "id">>)
Subject == <<"subject", "life", <<"id">>>>

PublishTo(topic, schema, keys) == [kind |-> "publication", to |-> topic, schema |-> schema, keys |-> keys]
LetterOf(schema, keys) == [kind |-> "outbox", to |-> "mail", schema |-> schema, keys |-> keys]
CallOf(op, input, schema, keys) == [kind |-> "request", to |-> op, input |-> input, schema |-> schema, keys |-> keys]
Outside(declares) ==
    [kind |-> "external", to |-> None, schema |-> None, keys |-> {Got}, declares |-> declares,
     answers |-> [ok |-> "Reply", down |-> "Paid"]]

Nothing_ == [kind |-> "read", on |-> <<None, {}, "one">>, from |-> {}, compares |-> {}, compared |-> {}, binds |-> {},
             classes |-> NoAnswer, effect |-> None, contract |-> NoContract, fields |-> {}, machine |-> None,
             transition |-> None, supplies |-> <<>>, derives |-> {}, schema |-> None, rule |-> None]

On(kind, object, fields) == [Nothing_ EXCEPT !.kind = kind, !.on = <<object, {Of}, "one">>, !.fields = fields]
By(root, s) == [s EXCEPT !.on[2] = {root}]
Find(object, fields, bind) == [On("read", object, fields) EXCEPT !.binds = {<<bind>>}]
Write(kind, object, fields, from) == [On(kind, object, fields) EXCEPT !.from = from]
Advance(object, field, from) == [Write("advance", object, {field}, {from}) EXCEPT !.rule = "monotonic_after"]
Move(transition, sides, admits, binds) ==
    [On("transition", "order", {}) EXCEPT !.machine = "life", !.transition = transition, !.supplies = sides,
                                          !.derives = admits, !.binds = binds]
Letter(effect, schema) == [Nothing_ EXCEPT !.kind = "outbox", !.effect = effect, !.contract = LetterOf(schema, {Of})]
Output(bind, schema, from) == [Nothing_ EXCEPT !.kind = "output", !.binds = {<<bind>>}, !.schema = schema, !.from = {from}]

Tx(id, model, body, rejected) ==
    [kind |-> "tx", id |-> id, model |-> model, key |-> {}, requires |-> {}, requirements |-> <<>>, body |-> body,
     rejected |-> rejected]
Execute(effect, contract, classes, from, bind) ==
    [kind |-> "execute", effect |-> effect, contract |-> contract, classes |-> classes, from |-> from, bind |-> bind,
     handle |-> NoBind]
Launch(intent, bind) == [kind |-> "execute_intent", intent |-> intent, bind |-> bind, handle |-> NoBind]
Match(result, ok, errs) == [kind |-> "match", result |-> result, arms |-> ("ok" :> ok) @@ errs]
Answering_(request, arm, from) == [kind |-> "return", request |-> request, arm |-> arm, from |-> from]
Complete == [kind |-> "complete"]
Abandon == [kind |-> "abandon"]

Str == <<"scalar", "string">>
Number == <<"scalar", "int">>

Canonical(fields) == [fields |-> fields, optional |-> {}, source |-> None, mapping |-> <<>>]

Schemas ==
    [Order  |-> Canonical([id |-> Str, total |-> Number, state |-> Str, version |-> Number]),
     Entry  |-> Canonical([id |-> Str, sum |-> Number, last |-> Number]),
     Placed |-> Canonical([id |-> Str, order |-> <<"schema", "Order">>]),
     Paid   |-> Canonical([id |-> Str, seq |-> Number]),
     Reply  |-> Canonical([id |-> Str]),
     Brief  |-> [fields |-> <<>>, optional |-> {}, source |-> "Placed", mapping |-> [of |-> <<"order", "id">>]]]

Keyed(schemas) == [s \in schemas |-> <<<<"id">>>>]

Object(schema, version) == [schema |-> schema, identity |-> {<<"id">>}, version |-> version]

MainModel == [objects |-> [order |-> Object("Order", <<"version">>)],
              outboxes |-> [mail |-> [messages |-> {"Placed"}, identity |-> Keyed({"Placed"})]]]
BooksModel == [objects |-> [entry |-> Object("Entry", NoVersion)], outboxes |-> <<>>]

Events == [messages |-> {"Placed", "Paid"}, identity |-> Keyed({"Placed", "Paid"})]
Audit == [messages |-> {"Paid"}, identity |-> <<>>]

Pay(root) == [from |-> {"new"}, to |-> "paid", sides |-> [note |-> PublishTo("events", "Paid", {root})],
              admits |-> [receipt |-> LetterOf("Placed", {Subject})]]
Life == [object |-> "order", state |-> <<"state">>, states |-> {"new", "paid"}, initial |-> "new",
         transitions |-> [pay |-> Pay(Subject)]]

Request(errors) == [kind |-> "request", schema |-> "Brief", identity |-> {{<<"of">>}},
                    answers |-> [a \in {"ok"} \cup errors |-> "Reply"]]
Subscribe(topic, only) == [kind |-> "subscription", topic |-> topic, only |-> only]
Consume == [kind |-> "outbox", outbox |-> "mail"]

FaceOf(inputs, sketch) == [service |-> "shop", inputs |-> inputs, sketch |-> sketch]

PlaceFace == FaceOf([in |-> Request({"full"})], {"order"})
SettleFace == FaceOf([heard |-> Subscribe("events", {"Paid"})], {"order"})
DeliverFace == FaceOf([got |-> Consume], {})

Closing(transition) == Tx("close", "main", <<By(Id, Move(transition, [note |-> <<"noted">>], {"receipt"}, {<<"noted">>}))>>, <<Abandon>>)

PlaceProgram ==
    <<Tx("book", "main", <<Write("create", "order", {}, {Of}), Letter("post", "Placed"), Output("made", "Reply", Of)>>, NoBlock),
      Execute("told", PublishTo("events", "Placed", {Of, <<"effect", "told", <<"order", "id">>>>}), NoAnswer, {}, NoBind),
      Answering_("in", "ok", {<<"output", <<"made">>, <<"id">>>>})>>
SettleProgram == <<Closing("pay"), Launch(<<"noted">>, NoBind), Complete>>
DeliverProgram ==
    <<Execute("send", Outside({"identical_per_identity"}), {"down"}, {Got}, <<"sent">>),
      Match(<<"sent">>,
            <<Tx("log", "books", <<By(<<"ok", <<"sent">>, <<"id">>>>, Write("upsert", "entry", {<<"sum">>}, {Got}))>>, NoBlock), Complete>>,
            "down" :> <<Abandon>>)>>

Draft_(face, program) == Staged(face @@ [program |-> program, requirements |-> <<>>, stage |-> "planned"])

Pool == [content |-> "pool"]
TopicRun(grouping, ordering) == [grouping |-> grouping, ordering |-> ordering]
RunOn(pool, grouping, ordering) == [pool |-> pool, grouping |-> grouping, ordering |-> ordering, routed |-> FALSE]
RouterTo(boundary, pool) == [boundary |-> boundary, pool |-> pool, routing |-> {{<<"of">>}}]
Layout(object, key) == [object |-> object, key |-> key]

Full ==
    [services |-> [shop |-> "a shop"], schemas |-> Schemas, models |-> [main |-> MainModel, books |-> BooksModel],
     topics |-> [events |-> Events, audit |-> Audit], machines |-> [life |-> Life],
     operations |-> [place |-> Draft_(PlaceFace, PlaceProgram), settle |-> Draft_(SettleFace, SettleProgram),
                     deliver |-> Draft_(DeliverFace, DeliverProgram)],
     runtime |-> [topics |-> [events |-> TopicRun(Keyed({"Placed", "Paid"}), "within_group")],
                  subscriptions |-> <<"settle", "heard">> :> RunOn("pool1", <<>>, None),
                  outboxes |-> <<"deliver", "got">> :> RunOn("pool1", <<>>, None),
                  pools |-> [pool1 |-> Pool, pool2 |-> Pool], routers |-> [front |-> RouterTo(<<"place", "in">>, "pool1")],
                  layouts |-> [rows |-> Layout(<<"main", "order">>, {<<"id">>})]],
     obligations |-> [asked |-> [status |-> "unmapped", refs |-> {}]],
     proposals |-> <<>>]

M(kind, id, value) == [kind |-> kind, id |-> id, value |-> value]
Drop(key) == M("delete", key, None)
Proposal(family, tx, position, origin) ==
    [family |-> family, tx |-> tx, key |-> {Id}, position |-> position, origin |-> origin]

Renamed == [Life EXCEPT !.transitions = [charge |-> Pay(Subject)]]
Keyless == [Life EXCEPT !.transitions.pay = Pay(<<"subject", "life", <<"paid", "at">>>>)]
Blind == [Life EXCEPT !.transitions.pay = Pay(<<"output", <<"made">>, <<"id">>>>)]
ToAudit == FaceOf([heard |-> Subscribe("audit", AllMessages)], {"order"})

SkeletonOffers ==
    {<<M("schema", "Placed", Canonical([id |-> Str]))>>,
     <<M("schema", "Brief", [Schemas["Brief"] EXCEPT !.source = "Ghost"])>>,
     <<M("schema", "Slip", Canonical([id |-> Str])), M("topic", "audit", [Audit EXCEPT !.messages = {"Paid", "Slip"}])>>,
     <<M("topic", "audit", Audit)>>,
     <<M("topic", "events", [messages |-> {"Placed"}, identity |-> Keyed({"Placed"})])>>,
     <<M("data_model", "main", [MainModel EXCEPT !.outboxes = <<>>])>>,
     <<M("schema", "Slip", Canonical([id |-> Str])),
       M("data_model", "main", [MainModel EXCEPT !.outboxes.mail.messages = {"Placed", "Slip"}])>>,
     <<M("schema", "Paid", [Schemas["Paid"] EXCEPT !.optional = {"seq"}])>>,
     <<M("schema", "Reply", Canonical([code |-> Str]))>>,
     <<M("state_machine", "life", Keyless)>>,
     <<M("state_machine", "life", Blind)>>,
     <<M("state_machine", "life", Renamed)>>,
     <<M("state_machine", "life", [Life EXCEPT !.object = "ghost"])>>,
     <<M("operation_interface", "settle", ToAudit)>>,
     <<M("operation_interface", "place", FaceOf([in |-> Request({"full", "shut"})], {"order"}))>>,
     <<M("operation_interface", "extra", FaceOf([also |-> Consume], {}))>>,
     <<M("service", "shop", "a larger shop"), M("prompt_obligation", "second", [status |-> "unmapped", refs |-> {}])>>}

RuntimeOffers ==
    {<<M("topic_runtime", "events", TopicRun(<<>>, None))>>,
     <<M("topic_runtime", "audit", TopicRun(Keyed({"Paid"}), "within_group"))>>,
     <<M("subscription_runtime", <<"settle", "heard">>, RunOn("pool2", Keyed({"Paid"}), "within_group"))>>,
     <<M("topic_runtime", "events", TopicRun(<<>>, None)),
       M("subscription_runtime", <<"settle", "heard">>, RunOn("pool1", Keyed({"Paid"}), "within_group"))>>,
     <<M("outbox_runtime", <<"deliver", "got">>, RunOn("pool2", Keyed({"Placed"}), "within_group"))>>,
     <<M("execution_pool", "pool3", Pool), M("router", "front", RouterTo(<<"place", "in">>, "pool3"))>>,
     <<M("storage_layout", "copy", Layout(<<"main", "order">>, {<<"id">>}))>>,
     <<M("storage_layout", "entries", Layout(<<"books", "entry">>, {<<"id">>}))>>}

WriterOffers ==
    {<<M("operation_program", "settle", <<Execute("copied", PublishTo("audit", "Paid", {}), NoAnswer, {Id}, NoBind), Complete>>)>>,
     <<M("operation_program", "settle",
         <<Execute("again", CallOf("place", "in", "Brief", {Id, <<"effect", "again", <<"of">>>>}), {"full"}, {}, <<"answer">>),
           Match(<<"answer">>,
                 <<Tx("tally", "books", <<By(<<"ok", <<"answer">>, <<"id">>>>, Write("delete", "entry", {}, {}))>>, NoBlock), Complete>>,
                 "full" :> <<Abandon>>)>>)>>,
     <<M("operation_program", "settle",
         <<Tx("tally", "books",
              <<By(Id, Find("entry", {<<"sum">>}, "seen")),
                By(Id, Write("update", "entry", {<<"sum">>}, {<<"read", <<"seen">>, <<"sum">>>>}))>>, NoBlock), Complete>>)>>,
     <<M("operation_program", "settle",
         <<Tx("tally", "books", <<By(Id, Advance("entry", <<"last">>, Serial))>>, <<Abandon>>), Complete>>)>>,
     <<M("operation_program", "settle", <<Closing("charge"), Launch(<<"noted">>, NoBind), Complete>>)>>,
     <<M("operation_program", "settle", <<Closing("pay"), Complete>>)>>,
     <<M("operation_interface", "settle", ToAudit), M("operation_program", "settle", <<Complete>>)>>,
     <<M("operation_program", "place", <<Answering_("in", "shut", {Of})>>)>>,
     <<M("operation_program", "place", <<Answering_("in", "full", {<<"subject", "life", <<"total">>>>})>>)>>,
     <<M("operation_program", "deliver", <<Execute("send", Outside({"replay_stable"}), {"down"}, {Got}, NoBind), Complete>>)>>,
     <<M("propose", "settle", <<Proposal("serializability", "close", {}, <<"prompt", "asked">>)>>)>>,
     <<M("propose", "settle", <<Proposal("idempotency", None, {}, <<"implied">>), Proposal("idempotency", None, {}, <<"recommended">>),
                                Proposal("replay", None, {}, <<"recommended">>)>>)>>,
     <<M("operation_requirements", "settle", <<[family |-> "idempotency", key |-> {Id}, position |-> {}]>>)>>,
     <<M("execution_pool", "pool2", [content |-> "larger"])>>,
     <<M("schema", "Paid", Canonical([id |-> Str, at |-> Str]))>>}

FreeOffers ==
    {<<Drop(<<"schema", "Paid">>)>>, <<Drop(<<"schema", "Reply">>)>>, <<Drop(<<"service", "shop">>)>>, <<Drop(<<"topic", "events">>)>>, <<Drop(<<"topic", "audit">>)>>,
     <<Drop(<<"data_model", "books">>)>>, <<Drop(<<"state_machine", "life">>)>>,
     <<Drop(<<"state_machine", "life">>), M("operation_program", "settle", <<Complete>>)>>,
     <<Drop(<<"operation", "place">>)>>, <<Drop(<<"operation", "deliver">>)>>,
     <<Drop(<<"execution_pool", "pool1">>)>>, <<Drop(<<"execution_pool", "pool2">>)>>,
     <<Drop(<<"subscription_runtime", "settle", "heard">>)>>, <<Drop(<<"outbox_runtime", "deliver", "got">>)>>,
     <<Drop(<<"router", "front">>), Drop(<<"storage_layout", "rows">>)>>, <<Drop(<<"prompt_obligation", "asked">>)>>,
     <<M("propose", "settle", <<Proposal("ordering", "close", {Serial}, <<"implied">>)>>)>>,
     <<M("propose", "settle", <<Proposal("ordering", "close", {Id}, <<"implied">>)>>)>>,
     <<Drop(<<"schema", "Slip">>)>>, <<Drop(<<"schema", "Memo">>)>>}

MCTasks == {"skeleton", "runtime", "writer", "free"}
MCScope == [skeleton |-> {<<"shared_skeleton">>}, runtime |-> {<<"runtime_topology">>},
            writer |-> {<<"operation", "settle">>, <<"operation_program", "place">>, <<"operation_program", "deliver">>,
                        <<"top_level_symbol", <<"execution_pool", "pool2">>>>},
            free |-> {<<"all">>}]
MCOffers == [skeleton |-> SkeletonOffers, runtime |-> RuntimeOffers, writer |-> WriterOffers, free |-> FreeOffers]
Query(kind, of) == [kind |-> kind, of |-> of]
MCQuestions ==
    [skeleton |-> {Query("publishers", "events"), Query("references_to", <<"schema", "Placed">>)},
     runtime |-> {Query("consumers", "events"), Query("consumers", "mail"), Query("callers", "place")},
     writer |-> {[kind |-> "writers", model |-> "main", of |-> "order"], [kind |-> "users", machine |-> "life", of |-> "pay"],
                 [kind |-> "provenance", op |-> "settle", of |-> <<"noted">>]},
     free |-> {[kind |-> "impacted_by", of |-> <<"schema", "Paid">>, depth |-> 2],
               [kind |-> "neighborhood", of |-> <<"operation", "settle">>, depth |-> 1]}]
(* A topic, grouped as it is carried, and an outbox with one kind of message *)
(* more each; whoever takes the messages of the outbox is yet to say what   *)
(* is done with them.                                                       *)
Slipped ==
    [Full EXCEPT !.schemas = With(With(@, "Slip", Canonical([id |-> Str])), "Memo", Canonical([id |-> Str])),
                 !.topics.audit.messages = {"Paid", "Slip"},
                 !.runtime.topics = With(@, "audit", TopicRun(Keyed({"Paid", "Slip"}), "within_group")),
                 !.models.main.outboxes.mail.messages = {"Placed", "Memo"},
                 !.operations.deliver = Draft_(DeliverFace, <<Abandon>>)]
(* An operation whose program is still to be written. *)
Unwritten == [Full EXCEPT !.operations.settle = Draft_(SettleFace, NoProgram)]

MCStarts == {Full, Slipped, Unwritten}
MCObjects == <<>>
MCOutboxes == <<>>
================================================================================
