---------------------------- MODULE MCTransactions ----------------------------
EXTENDS TransactionHistory, SpecChange

(* Two objects with two instances each: `row` has no version, `doc` has one. *)
f == <<"f">>
g == <<"g">>
c == <<"c">>
ver == <<"version">>
id == <<"id">>
Schema == [row |-> [identity |-> {id}, version |-> NoField, fields |-> {f, g, c}],
           doc |-> [identity |-> {id}, version |-> ver,     fields |-> {f, ver}]]

Blank == [kind |-> "", sel |-> [object |-> "row", pins |-> {}], fields |-> Only({}), compare |-> {},
          bind |-> "", lock |-> "", field |-> NoField, rule |-> "none", incoming |-> <<"lit", 0>>,
          val |-> "own", from |-> {0}]

At(o, v) == [object |-> o, pins |-> {<<id, v>>}]
All(o)   == [object |-> o, pins |-> {}]
k1 == <<"lit", 1>>
k2 == <<"lit", 2>>
K  == <<"ref", "key">>
P  == <<"ref", "pos">>

Rd(sel, F, b)     == [Blank EXCEPT !.kind = "read", !.sel = sel, !.fields = F, !.bind = b]
Up(sel, F)        == [Blank EXCEPT !.kind = "update", !.sel = sel, !.fields = Declared(F)]
Cas(sel, C, F)    == [Blank EXCEPT !.kind = "compare_and_set", !.sel = sel, !.compare = C, !.fields = Only(F)]
Ins(sel)          == [Blank EXCEPT !.kind = "insert", !.sel = sel, !.fields = Only({f})]
Ups(sel, F)       == [Blank EXCEPT !.kind = "upsert", !.sel = sel, !.fields = Only(F)]
Del(sel)          == [Blank EXCEPT !.kind = "delete", !.sel = sel]
Lk(sel, mode)     == [Blank EXCEPT !.kind = "lock", !.sel = sel, !.lock = mode]
Tr(sel, F, C)     == [Blank EXCEPT !.kind = "transition", !.sel = sel, !.field = F, !.compare = C]
Cur(sel, rule, C) == [Blank EXCEPT !.kind = "advance_cursor", !.sel = sel, !.field = c, !.rule = rule,
                                   !.incoming = P, !.compare = C]
Fen(sel, C)       == [Blank EXCEPT !.kind = "fence", !.sel = sel, !.field = c, !.incoming = P, !.compare = C]
Seen(b, F)        == [field |-> F, expected |-> <<"read", b, F>>]
Is(F, n)          == [field |-> F, expected |-> <<"lit", n>>]

Tx(iso, steps) == [iso |-> iso, steps |-> steps, refs |-> {}, serial |-> TRUE, ordering |-> {}]
ByKey(t)       == [t EXCEPT !.refs = {"key"}]
Ordered(t)     == [t EXCEPT !.refs = {"key", "pos"}, !.ordering = {[key |-> K, position |-> P]}]

RC(steps)  == Tx("read_committed", steps)
SI(steps)  == Tx("snapshot", steps)
SER(steps) == Tx("serializable", steps)
UN(steps)  == Tx("unspecified", steps)

r1 == At("row", k1)
r2 == At("row", k2)
rK == At("row", K)
F1 == Only({f})
FG == Only({f, g})

RowCatalog == <<
    RC(<<Rd(r1, F1, "a"), Up(r1, {f})>>),
    SER(<<Rd(r1, F1, "a"), Up(r2, {f})>>),
    SER(<<Rd(r2, F1, "a"), Up(r1, {f})>>),
    RC(<<Rd(r1, F1, "a"), Cas(r1, {Seen("a", f)}, {f})>>),
    UN(<<Rd(r1, F1, "a"), Cas(r1, {Seen("a", f)}, {f})>>),
    RC(<<Up(r1, {f}), Up(r2, {f})>>),
    UN(<<Up(r2, {f}), Up(r1, {f})>>),
    RC(<<[Up(r1, {f}) EXCEPT !.val = "restore"]>>),
    RC(<<Lk(r1, "shared"), Rd(r1, F1, "a"), Lk(r2, "exclusive"), Up(r2, {f})>>),
    RC(<<Lk(r2, "shared"), Rd(r2, F1, "a"), Lk(r1, "exclusive"), Up(r1, {f})>>),
    RC(<<Rd(r1, F1, "a"), Lk(r1, "exclusive"), Up(r1, {f})>>),
    UN(<<Cas(r1, {Is(c, 0)}, {f}), Rd(r1, FG, "a"), Up(r1, {g})>>),
    UN(<<Cas(r1, {Is(c, 0)}, {f}), Cas(r2, {Is(c, 0)}, {f})>>),
    RC(<<Rd(r1, FG, "a")>>),
    RC(<<Rd(r1, F1, "a"), Rd(r2, F1, "b")>>),
    SI(<<Rd(r1, F1, "a"), Rd(r2, F1, "b")>>),
    RC(<<Lk(r1, "shared"), Rd(r1, F1, "a"), Cas(r2, {Is(c, 0)}, {f})>>),
    RC(<<Lk(r2, "shared"), Rd(r2, F1, "a"), Cas(r1, {Is(c, 0)}, {f})>>),
    RC(<<Rd(r1, F1, "a"), Tr(r1, f, {})>>),
    RC(<<Rd(r1, FG, "a"), Tr(r1, f, {Seen("a", g)})>>),
    RC(<<Rd(r1, FG, "a"), Cas(r1, {Seen("a", f)}, {f})>>),
    RC(<<Rd(r1, F1, "a"), Rd(r2, F1, "b"), Cas(r1, {Seen("a", f)}, {f}), Cas(r2, {Seen("b", f)}, {f})>>),
    RC(<<Lk(All("row"), "shared"), Rd(All("row"), F1, "a"), Lk(r1, "exclusive"), Up(r1, {f})>>),
    RC(<<Lk(All("row"), "exclusive"), Rd(All("row"), F1, "a"), Up(r2, {f})>>),
    SI(<<Rd(r1, F1, "a"), Cas(r1, {Seen("a", f)}, {f})>>),
    ByKey(RC(<<Rd(rK, F1, "a"), Cas(rK, {Seen("a", f)}, {f})>>)) >>


d1 == At("doc", k1)
FV == Only({f, ver})
ByVersion == {Seen("a", ver)}

(* No transaction of several steps here mutates by selector an instance    *)
(* that another may insert: see PredicateCatalog.                          *)
DocCatalog == <<
    RC(<<Rd(d1, FV, "a"), Rd(d1, F1, "b"), Cas(d1, ByVersion, {f})>>),
    RC(<<Rd(d1, AllFields, "a"), Cas(d1, {Seen("a", f)}, {f})>>),
    SI(<<Rd(d1, FV, "a"), Cas(d1, ByVersion, {f})>>),
    RC(<<Rd(d1, FV, "a"), Tr(d1, f, ByVersion)>>),
    UN(<<Ups(d1, {f}), Rd(d1, F1, "b"), Cas(d1, {Is(f, 1)}, {f})>>),
    RC(<<Up(d1, {f})>>),
    RC(<<Del(d1)>>),
    RC(<<Ins(d1)>>),
    RC(<<Ups(d1, {f})>>),
    RC(<<Rd(All("doc"), F1, "a")>>),
    SI(<<Rd(All("doc"), F1, "a"), Rd(d1, F1, "b")>>) >>

CursorCatalog == <<
    Ordered(RC(<<Cur(rK, "monotonic_after", {})>>)),
    Ordered(UN(<<Cur(rK, "successor", {}), Up(rK, {f})>>)),
    Ordered(RC(<<Rd(rK, F1, "a"), Cur(rK, "monotonic_after", {Seen("a", f)}), Up(rK, {f})>>)),
    Ordered(RC(<<Up(r2, {f}), Cur(r1, "monotonic_after", {})>>)),
    Ordered(RC(<<Fen(rK, {}), Up(rK, {f})>>)),
    Ordered(RC(<<Lk(rK, "exclusive"), Fen(rK, {}), Up(rK, {f})>>)),
    RC(<<[Up(r1, {}) EXCEPT !.val = "restore"]>>),
    RC(<<Up(r1, {f})>>) >>

(* Beside one that orders by it, an instance is brought into being. *)
InsertCatalog == <<
    ByKey(RC(<<[Ins(rK) EXCEPT !.fields = AllFields]>>)),
    ByKey(UN(<<Ups(rK, {f}), Up(rK, {f})>>)),
    Ordered(RC(<<Ups(rK, {f}), Fen(rK, {}), Up(rK, {f})>>)) >>

(* Each transaction of a catalogue alone, and each two of them. *)
Pairs(Cat) == {<<Cat[i]>> : i \in DOMAIN Cat}
              \cup UNION {{<<Cat[i], Cat[j]>> : j \in (i + 1)..Len(Cat)} : i \in DOMAIN Cat}
(* Three at once: a value changed and changed back, an instance deleted and *)
(* inserted again, a cycle through a third transaction.                    *)
Triples == {
    <<RowCatalog[4], RowCatalog[6], RowCatalog[8]>>,
    <<RowCatalog[21], RowCatalog[6], RowCatalog[8]>>,
    <<RowCatalog[16], RowCatalog[13], RowCatalog[4]>>,
    <<RowCatalog[14], RowCatalog[6], RowCatalog[15]>>,
    <<RowCatalog[22], RowCatalog[4], RowCatalog[8]>>,
    <<DocCatalog[1], DocCatalog[7], DocCatalog[8]>>,
    <<DocCatalog[1], DocCatalog[7], DocCatalog[9]>>,
    <<DocCatalog[2], DocCatalog[7], DocCatalog[8]>>,
    <<DocCatalog[4], DocCatalog[6], DocCatalog[9]>> }

Proved(Candidates) == {m \in Candidates : \E t \in Templates(m) : SerializabilityProven(m, t)}
Spec1(S, absent) == [schema |-> Schema, templates |-> S, absent |-> absent]

MCModels ==
    Proved({Spec1(S, {}) : S \in Pairs(RowCatalog) \cup Pairs(CursorCatalog) \cup Triples})
    \cup Proved({Spec1(S, a) : S \in Pairs(DocCatalog) \cup Triples, a \in {{}, {1}}})
    \cup Proved({Spec1(<<CursorCatalog[i], InsertCatalog[j]>>, {1}) :
                    i \in DOMAIN CursorCatalog, j \in DOMAIN InsertCatalog})

(* What OrderIsAsProven asks is true of every route that is proven here. *)
ASSUME ProvenRoutesAreKept ==
    \A m \in MCModels : \A t \in Templates(m) : \A r \in m.templates[t].ordering :
        OrderingProven(m, t, r) => KeepsRoute(m, t, r)

SnapshotCatalog == <<
    SI(<<Lk(r1, "shared"), Rd(r1, F1, "a"), Lk(r2, "exclusive"), Up(r2, {f})>>),
    SI(<<Lk(r2, "shared"), Rd(r2, F1, "a"), Lk(r1, "exclusive"), Up(r1, {f})>>) >>
PredicateCatalog == <<
    RC(<<[Up(All("row"), {f}) EXCEPT !.sel.pins = {<<g, <<"lit", 0>>>>}]>>),
    RC(<<[Up(All("row"), {g}) EXCEPT !.sel.pins = {<<f, <<"lit", 0>>>>}]>>) >>
ResetCatalog == <<
    Ordered(RC(<<Cur(rK, "monotonic_after", {})>>)),
    RC(<<Del(r1), Ins(r1)>>) >>
FenceCatalog == << Ordered(SER(<<Fen(rK, {})>>)) >>
FenceModels == Proved({Spec1(S, {}) : S \in Pairs(FenceCatalog)})
SnapshotModels == Proved({Spec1(S, {}) : S \in Pairs(SnapshotCatalog)})
PredicateModels == Proved({Spec1(S, {}) : S \in Pairs(PredicateCatalog)})
ResetModels == Proved({Spec1(S, {}) : S \in Pairs(ResetCatalog)})

historyVars == vars
Undecided == [schema |-> Schema, templates |-> <<>>, absent |-> {}]

(* Executions of a specification in which every transaction of it runs. *)
RunsInit ==
    /\ Init /\ \A t \in Templates(model) : \E p \in Procs : exec[p].tx = t
    /\ base = Undecided /\ head = Undecided
    /\ edits = MaxEdits /\ last = NoMutation /\ analyses = [base |-> <<>>, head |-> <<>>] /\ diff = <<>>

(* A specification edited, and not executed. *)
EditedInit ==
    /\ ChangeInit
    /\ model = Undecided /\ verdicts = <<>> /\ exec = [p \in Procs |-> [status |-> "none"]]
    /\ db = <<>> /\ pending = <<>> /\ later = {} /\ locks = {} /\ order = <<>>

MCInit == RunsInit \/ EditedInit
MCNext ==
    \/ Next /\ UNCHANGED changeVars
    \/ ChangeNext /\ UNCHANGED historyVars
=============================================================================
