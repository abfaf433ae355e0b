-------------------------- MODULE TransactionHistory --------------------------
(***************************************************************************)
(* What a serializability or ordering verdict is about: the executions of  *)
(* a specification's transactions on a database that gives each of them    *)
(* what the specification declares and nothing more.  The transaction      *)
(* steps are src/spec/operation/transaction.rs, their meaning              *)
(* docs/live/CONSEQA_DSL_SEMANTICS.md: an unspecified isolation promises   *)
(* nothing (dirty reads, overwritten writes), read_committed that reads    *)
(* are of committed state, snapshot that they are of one committed state,  *)
(* and each declared isolation that a write is held until its transaction  *)
(* ends; a lock is held to the end; a guarded mutation's condition and     *)
(* write are one operation and hold the instance's write protection to the *)
(* end; every mutation of a versioned instance publishes a newer version.  *)
(* A serializable transaction gets a serial order only if all the          *)
(* transactions are serializable; beside a weaker one it gets what         *)
(* read_committed does.                                                    *)
(***************************************************************************)
EXTENDS TransactionConflicts, Functions

CONSTANTS
    Procs,      \* the executions, numbers: 1, 2, ... (each writes its own number)
    Keys,       \* the identities of an object's instances
    Positions,  \* the ordering positions and fencing tokens executions carry
    Models      \* the specifications to run

VARIABLES
    model,      \* the specification, fixed
    exec,       \* each execution
    db,         \* committed state: [object, key, field] -> value
    pending,    \* what each active execution has written and not committed: location -> value
    later,      \* <<p, q, l>>: what p has written at l, it wrote after what q has
    locks,      \* what active executions hold: <<execution, instance, mode>>
    order,      \* the committed executions, in commit order
    verdicts    \* what the provers say of the specification
vars == <<model, exec, db, pending, later, locks, order, verdicts>>

Live == <<"live">>  \* the location that says whether an instance exists

Nothing == [l \in {} |-> 0]

(* The state b with the writes w made to it. *)
Over(w, b) == [l \in DOMAIN w \cup DOMAIN b |-> IF l \in DOMAIN w THEN w[l] ELSE b[l]]

Objects == DOMAIN model.schema
IdField(o)    == CHOOSE f \in model.schema[o].identity : TRUE
Instances(o)  == {o} \X Keys
FieldsOf(o)   == model.schema[o].fields
Loc(i, f)     == <<i[1], i[2], f>>
Locations     == UNION {{Loc(i, f) : i \in Instances(o), f \in FieldsOf(o) \cup {Live}} : o \in Objects}

(* What validation leaves of the objects and the protocol steps: a field   *)
(* has one role (validate_managed_fields), and only a cursor advance has a *)
(* rule.  An instance has one key here.                                    *)
ValidObject(object) ==
    /\ \E f \in object.identity : object.identity = {f}
    /\ Live \notin object.fields \cup {object.version}
    /\ \A f \in object.fields : Len(f) \in Nat

ValidStep(m, s) ==
    /\ DOMAIN s.sel = {"object", "pins"} /\ s.sel.object \in DOMAIN m.schema
    /\ \A p \in s.sel.pins : p[2] = <<p[2][1], p[2][2]>>
    /\ s.fields.kind = "only" \/ s.fields.of = {}
    /\ s.kind \in {"transition", "advance_cursor", "fence"} => s.field \in m.schema[s.sel.object].fields
    /\ s.kind \in {"advance_cursor", "fence"} =>
          /\ s.field # m.schema[s.sel.object].version
          /\ (s.kind = "fence") <=> (s.rule = "none")
          /\ \/ s.incoming = <<"ref", "pos">>
             \/ s.incoming[1] = "lit" /\ s.incoming[2] \in Nat

Valid(m) ==
    /\ WellFormed(m)
    /\ \A o \in DOMAIN m.schema : ValidObject(m.schema[o])
    /\ \A t \in Templates(m) :
          LET steps == m.templates[t].steps
          IN  /\ Len(steps) \in Nat /\ DOMAIN steps = 1..Len(steps)
              /\ \A i \in DOMAIN steps : ValidStep(m, steps[i])
    /\ \A t, u \in Templates(m) :
          \A i \in DOMAIN m.templates[t].steps, j \in DOMAIN m.templates[u].steps :
             LET a == m.templates[t].steps[i]
                 b == m.templates[u].steps[j]
             IN  a.kind = "transition" /\ b.kind \in {"advance_cursor", "fence"}
                    => <<a.sel.object, a.field>> # <<b.sel.object, b.field>>

ASSUME HistoryConstants ==
    /\ Procs \subseteq Nat /\ Positions \subseteq Nat
    /\ \A m \in Models : Valid(m)

InitialDb(m) ==
    [l \in UNION {{<<o, k, f>> : k \in Keys, f \in m.schema[o].fields \cup {Live}} :
                    o \in DOMAIN m.schema} |->
        IF l[2] \in m.absent THEN 0
        ELSE IF l[3] \in {Live, m.schema[l[1]].version} THEN 1 ELSE 0]

(***************************************************************************)
(* One step of one execution x on the state `view`: whether it applies,    *)
(* what it writes (a function on the locations written) and what it saw.   *)
(***************************************************************************)

Eval(x, value) ==
    CASE value[1] = "lit"  -> value[2]
      [] value[1] = "ref"  -> x.env[value[2]]

(* The instances a selector may address whatever the state is. *)
Domain(x, sel) ==
    {i \in Instances(sel.object) :
        \A p \in sel.pins : p[1] = IdField(sel.object) => i[2] = Eval(x, p[2])}

Selected(x, sel, view) ==
    {i \in Domain(x, sel) :
        /\ view[Loc(i, Live)] = 1
        /\ \A p \in sel.pins : p[1] # IdField(sel.object) => view[Loc(i, p[1])] = Eval(x, p[2])}

(* The leaf fields a footprint names. *)
Named(o, F) == IF F.kind = "only" THEN {f \in FieldsOf(o) : \E g \in F.of : Nested(f, g)}
               ELSE FieldsOf(o)

(* A mutation of live instances: the fields set, and the newer version. *)
Mutation(S, set, view) ==
    LET changed(i) == {Loc(i, f) : f \in DOMAIN set}
        version(i) == IF model.schema[i[1]].version = NoField THEN {}
                      ELSE {Loc(i, model.schema[i[1]].version)}
    IN  [l \in UNION {changed(i) \cup version(i) : i \in S} |->
            IF l[3] \in DOMAIN set THEN set[l[3]] ELSE view[l] + 1]

(* A whole new instance, with its initial version. *)
Insertion(S, set) ==
    [l \in UNION {{Loc(i, f) : f \in FieldsOf(i[1]) \cup {Live}} : i \in S} |->
        IF l[3] \in {Live, model.schema[l[1]].version} THEN 1
        ELSE IF l[3] \in DOMAIN set THEN set[l[3]] ELSE 0]

Deletion(S) == [l \in UNION {{Loc(i, f) : f \in FieldsOf(i[1]) \cup {Live}} : i \in S} |-> 0]

(* A comparison with what an earlier read saw, or with a value. *)
Matches(x, i, c, view) ==
    IF c.expected[1] = "read"
    THEN LET j == CHOOSE j \in DOMAIN x.seen : model.templates[x.tx].steps[j].bind = c.expected[2]
         IN  i \in DOMAIN x.seen[j] /\ x.seen[j][i][c.expected[3]] = view[Loc(i, c.field)]
    ELSE view[Loc(i, c.field)] = Eval(x, c.expected)

Holds(x, s, S, view) == S # {} /\ \A i \in S, c \in s.compare : Matches(x, i, c, view)

Outcome(x, s, view) ==
    LET S == Selected(x, s.sel, view)
        D == Domain(x, s.sel)
        value == IF s.val = "restore" THEN 0 ELSE x.id
        fields == Named(s.sel.object, s.fields)
        set == [f \in fields \ {model.schema[s.sel.object].version} |-> value]
        only(new) == [f \in {s.field} |-> new]
        stored(i) == view[Loc(i, s.field)]
        does(ok, w, seen) == [ok |-> ok, w |-> w, seen |-> seen]
        incoming == Eval(x, s.incoming)
    IN  CASE s.kind = "read" ->
                does(TRUE, Nothing, [i \in S |-> [f \in fields |-> view[Loc(i, f)]]])
          [] s.kind = "lock"   -> does(TRUE, Nothing, <<>>)
          [] s.kind = "update" -> does(TRUE, Mutation(S, set, view), <<>>)
          [] s.kind = "compare_and_set" ->
                does(Holds(x, s, S, view), Mutation(S, set, view), <<>>)
          [] s.kind = "insert" ->
                does(\A i \in D : view[Loc(i, Live)] = 0, Insertion(D, set), <<>>)
          [] s.kind = "upsert" ->
                does(\A i \in D \ S : view[Loc(i, Live)] = 0,
                     Over(Mutation(S, set, view), Insertion(D \ S, set)), <<>>)
          [] s.kind = "delete" -> does(TRUE, Deletion(S), <<>>)
          [] s.kind = "transition" ->
                does(/\ Holds(x, s, S, view)
                     /\ \A i \in S : stored(i) \in s.from,
                     Mutation(S, only(value), view), <<>>)
          [] s.kind = "advance_cursor" ->
                does(/\ Holds(x, s, S, view)
                     /\ \A i \in S : IF s.rule = "successor" THEN incoming = stored(i) + 1
                                     ELSE incoming > stored(i),
                     Mutation(S, only(incoming), view), <<>>)
          [] s.kind = "fence" ->
                does(/\ Holds(x, s, S, view)
                     /\ \A i \in S : incoming >= stored(i),
                     Mutation({i \in S : incoming > stored(i)}, only(incoming), view), <<>>)

(***************************************************************************)
(* The database.                                                           *)
(***************************************************************************)

Committed(p) == Over(pending[p], db)

(* The latest writes, committed or not. *)
Dirty ==
    [l \in DOMAIN db |->
        LET writers == {p \in Procs : l \in DOMAIN pending[p]}
            last == {p \in writers : \A q \in writers : <<q, p, l>> \notin later}
        IN  IF last = {} THEN db[l] ELSE pending[CHOOSE p \in last : TRUE][l]]

(* The states a step may act on. *)
Views(p, s) ==
    LET iso == model.templates[exec[p].tx].iso
    IN  CASE iso = "unspecified" -> {Committed(p), Dirty}
          [] iso = "snapshot" /\ s.kind = "read" ->
                {Over(pending[p], b) : b \in exec[p].snap}
          [] OTHER -> {Committed(p)}

(* What a step must acquire: S and X are locks, W is the write protection  *)
(* of a guarded mutation, H a write held under a declared isolation, U a   *)
(* write that nothing holds.                                               *)
Acquires(p, s, w) ==
    LET x == exec[p]
        written == {<<l[1], l[2]>> : l \in DOMAIN w}
        plain == IF Isolated(model, x.tx) THEN "H" ELSE "U"
    IN  IF s.kind = "lock"
        THEN {<<p, i, IF s.lock = "shared" THEN "S" ELSE "X">> : i \in Domain(x, s.sel)}
        ELSE IF HoldsProtection(s.kind)
        THEN {<<p, i, "W">> : i \in Domain(x, s.sel)}
        ELSE {<<p, i, plain>> : i \in written}

Excludes ==
    {<<"S", "X">>, <<"S", "W">>, <<"X", "S">>, <<"X", "X">>, <<"X", "W">>,
     <<"W", "S">>, <<"W", "X">>, <<"W", "W">>, <<"W", "H">>,
     <<"H", "W">>, <<"H", "H">>, <<"U", "W">>}

Available(p, wanted) ==
    \A h \in locks, n \in wanted : h[1] = p \/ h[2] # n[2] \/ <<n[3], h[3]>> \notin Excludes

(***************************************************************************)
(* Actions.                                                                *)
(***************************************************************************)

Init ==
    /\ model \in Models
    /\ verdicts = [t \in Templates(model) |->
                     [closure |-> Closure(model, t),
                      serializable |-> SerializabilityProven(model, t),
                      ordered |-> {r \in model.templates[t].ordering : OrderingProven(model, t, r)}]]
    /\ \E tx \in [Procs -> Templates(model)] :
          /\ \A p, q \in Procs : p < q => tx[p] <= tx[q]
          /\ \E key \in [Procs -> Keys], pos \in [Procs -> Positions] :
                /\ \A p \in Procs :
                      /\ "key" \in model.templates[tx[p]].refs \/ key[p] = CHOOSE k \in Keys : TRUE
                      /\ "pos" \in model.templates[tx[p]].refs \/ pos[p] = CHOOSE n \in Positions : TRUE
                /\ exec = [p \in Procs |-> [tx |-> tx[p], env |-> [key |-> key[p], pos |-> pos[p]],
                                            pc |-> 1, status |-> "active", seen |-> <<>>, snap |-> {}]]
    /\ db = InitialDb(model)
    /\ pending = [p \in Procs |-> Nothing] /\ later = {} /\ locks = {} /\ order = <<>>

Leave(p) ==
    /\ pending' = [pending EXCEPT ![p] = Nothing]
    /\ later' = {e \in later : p \notin {e[1], e[2]}}
    /\ locks' = {h \in locks : h[1] # p}

(* An execution's write is its own latest, and the latest of all. *)
Write(p, w) ==
    /\ pending' = [pending EXCEPT ![p] = Over(w, @)]
    /\ later' = {e \in later : e[2] = p => e[3] \notin DOMAIN w}
                \cup UNION {{<<p, q, l>> : l \in DOMAIN w \cap DOMAIN pending[q]} : q \in Procs \ {p}}

Ident(p) == [id |-> p, tx |-> exec[p].tx, env |-> exec[p].env, seen |-> exec[p].seen]

(* A snapshot transaction begins, and so does its snapshot. *)
Begin(p) ==
    /\ exec[p].status = "active" /\ exec[p].snap = {}
    /\ model.templates[exec[p].tx].iso = "snapshot"
    /\ exec' = [exec EXCEPT ![p].snap = {db}]
    /\ UNCHANGED <<model, db, pending, later, locks, order, verdicts>>

(* The next step of an execution; a guard that fails rejects it whole. *)
Step(p) ==
    LET x == exec[p]
        s == model.templates[x.tx].steps[x.pc]
    IN  /\ x.status = "active" /\ x.pc <= Len(model.templates[x.tx].steps)
        /\ model.templates[x.tx].iso = "snapshot" => x.snap # {}
        /\ \E view \in Views(p, s) :
              LET o == Outcome(Ident(p), s, view)
                  wanted == Acquires(p, s, o.w)
              IN  /\ Available(p, wanted)
                  /\ IF o.ok
                     THEN /\ exec' = [exec EXCEPT ![p].pc = @ + 1, ![p].seen = Append(@, o.seen)]
                          /\ Write(p, o.w)
                          /\ locks' = locks \cup {n \in wanted : n[3] # "U"}
                     ELSE /\ exec' = [exec EXCEPT ![p].status = "rejected"]
                          /\ Leave(p)
        /\ UNCHANGED <<model, db, order, verdicts>>

(* A crash, a timeout, a deadlock's victim. *)
Abort(p) ==
    /\ exec[p].status = "active" /\ exec[p].pc > 1
    /\ exec' = [exec EXCEPT ![p].status = "aborted"]
    /\ Leave(p)
    /\ UNCHANGED <<model, db, order, verdicts>>

(***************************************************************************)
(* Serial histories.                                                       *)
(***************************************************************************)

(* One execution alone on the state r.db: does it see what it saw? *)
Replay(r, p) ==
    LET x == Ident(p)
        steps == model.templates[x.tx].steps
        step(q, j) ==
            LET o == Outcome(x, steps[j], q.db)
            IN  [ok |-> q.ok /\ o.ok /\ o.seen = x.seen[j], db |-> Over(o.w, q.db),
                 locs |-> q.locs \cup DOMAIN o.w]
    IN  FoldLeft(step, r, [j \in DOMAIN steps |-> j])

(* The executions S, with the state they left, are some serial order's. *)
SerialOrderExists(S, final) ==
    \E q \in {f \in [1..Cardinality(S) -> S] : \A i, j \in 1..Cardinality(S) : i # j => f[i] # f[j]} :
        LET r == FoldLeft(Replay, [ok |-> TRUE, db |-> InitialDb(model), locs |-> {}], q)
        IN  r.ok /\ \A l \in r.locs : r.db[l] = final[l]

CommittedProcs == {p \in Procs : exec[p].status = "committed"}

AllSerializable == \A t \in Templates(model) : model.templates[t].iso = "serializable"

(* The execution's writes become the committed state.  A pending write     *)
(* that one of them overwrote is never seen again.                         *)
Commit(p) ==
    LET x == exec[p]
        overwrote(q, l) == <<p, q, l>> \in later
    IN  /\ x.status = "active" /\ x.pc > Len(model.templates[x.tx].steps)
        /\ db' = Committed(p)
        /\ AllSerializable => SerialOrderExists(CommittedProcs \cup {p}, db')
        /\ exec' = [exec EXCEPT ![p].status = "committed", ![p].snap = {}]
        /\ pending' = [q \in Procs |->
                         IF q = p THEN Nothing
                         ELSE Restrict(pending[q], {l \in DOMAIN pending[q] : ~overwrote(q, l)})]
        /\ later' = {e \in later : /\ p \notin {e[1], e[2]}
                                   /\ ~overwrote(e[1], e[3]) /\ ~overwrote(e[2], e[3])}
        /\ locks' = {h \in locks : h[1] # p}
        /\ order' = Append(order, p)
        /\ UNCHANGED <<model, verdicts>>

(***************************************************************************)
(* What a proof promises.                                                  *)
(***************************************************************************)

(* TransactionSerializabilityVerdict::Proven: the committed executions of  *)
(* the transaction and of every transaction of its conflict closure are    *)
(* those of some serial order, by what they saw and what they left.        *)
ProvenIsSerializable ==
    \A t \in Templates(model) :
        verdicts[t].serializable =>
            SerialOrderExists({p \in CommittedProcs : exec[p].tx \in verdicts[t].closure}, db)

(* TransactionOrderingVerdict::Proven: of one key, the executions of the   *)
(* transaction commit in the order of their positions; two never share one *)
(* position of a cursor.                                                   *)
InOrder(t, r) ==
    \A i, j \in DOMAIN order :
        LET p == order[i]
            q == order[j]
            cursor == \A k \in OrderingRoute(model, t, r) :
                          model.templates[t].steps[k].kind = "advance_cursor"
        IN  i < j /\ exec[p].tx = t /\ exec[q].tx = t
                /\ Eval(exec[p], r.key) = Eval(exec[q], r.key)
            => IF cursor THEN Eval(exec[p], r.position) < Eval(exec[q], r.position)
               ELSE Eval(exec[p], r.position) <= Eval(exec[q], r.position)

OrderedAsProven == \A t \in Templates(model) : \A r \in verdicts[t].ordered : InOrder(t, r)

(* Nothing deletes the instance the route orders by, and one that passes a *)
(* fence has taken the instance, which it names by identity alone, before. *)
KeepsRoute(m, t, r) ==
    \A i \in OrderingRoute(m, t, r) :
        LET s == m.templates[t].steps[i]
            access == [tx |-> t, step |-> i, sel |-> s.sel]
        IN  /\ ~Deleter(m, s.sel.object)
            /\ s.kind = "fence" =>
                  /\ PinnedFields(s.sel) \subseteq m.schema[s.sel.object].identity
                  /\ Protected(m, access) \/ CoveringLock(m, access, {"exclusive"})

Next == \E p \in Procs : Begin(p) \/ Step(p) \/ Commit(p) \/ Abort(p)

Spec == Init /\ [][Next]_vars
=============================================================================
