------------------------- MODULE TransactionConflicts -------------------------
(***************************************************************************)
(* The model-wide conflict analysis of transactions and the two provers    *)
(* that rest on it: src/analyzer/verification/transaction_conflicts.rs,    *)
(* transaction_serializability.rs and transaction_ordering.rs.             *)
(*                                                                         *)
(* A specification M is a record                                           *)
(*   [schema    |-> [object -> [identity: set of fields, version: field]], *)
(*    templates |-> sequence of transactions]                              *)
(* and a transaction a record [iso, steps, ordering]: its isolation, the   *)
(* sequence of its steps and its ordering requirements.  A field path is a *)
(* sequence of names; NoField stands for an absent one.  A selector is     *)
(* [object, pins], pins a set of <<field, value>> equalities (empty: every *)
(* instance); a value is <<"lit", x>>, <<"ref", r>> for a reference that   *)
(* one execution evaluates once, or <<"read", bind, field>> for what an    *)
(* earlier read of the same transaction saw.  References that the code     *)
(* compares through canonical paths (same_value) are one name here.  The   *)
(* steps that establish intents, outputs and outbox writes make no access. *)
(***************************************************************************)
EXTENDS Naturals, Sequences, FiniteSets, SequencesExt

NoField == <<>>

(* Footprints. *)
AllFields     == [kind |-> "all", of |-> {}]
UnknownFields == [kind |-> "unknown", of |-> {}]
Only(F)       == [kind |-> "only", of |-> F]

(* An update or compare-and-set that names no field has an unknown one. *)
Declared(F) == IF F = {} THEN UnknownFields ELSE Only(F)

Reading == {"Read", "CompareRead", "UpsertReadWrite", "TransitionRead",
            "CursorReadWrite", "FenceReadWrite"}
Writing == {"Update", "CompareWrite", "Insert", "UpsertReadWrite", "Delete",
            "TransitionWrite", "CursorReadWrite", "FenceReadWrite", "VersionPublish"}

StepKinds == {"read", "update", "compare_and_set", "insert", "upsert", "delete", "lock",
              "transition", "advance_cursor", "fence"}

GuardKinds == {"compare_and_set", "transition", "advance_cursor", "fence", "upsert"}

(* A fence leaves the instance alone on an equal token. *)
HoldsProtection(kind) == kind \in GuardKinds \ {"fence"}

Nested(f, g)  == IsPrefix(g, f)
Related(f, g) == Nested(f, g) \/ Nested(g, f)

PinnedFields(sel) == {p[1] : p \in sel.pins}

(* Whether a selector pins its object's whole identity. *)
IdentifiesInstance(M, sel) ==
    LET identity == M.schema[sel.object].identity
    IN  identity # {} /\ identity \subseteq PinnedFields(sel)

Templates(M) == 1..Len(M.templates)

(* The shape of a specification: its steps are numbered and of the kinds   *)
(* there are.                                                              *)
WellFormed(M) ==
    /\ {"schema", "templates"} \subseteq DOMAIN M
    /\ Len(M.templates) \in Nat
    /\ \A t \in Templates(M) :
          LET steps == M.templates[t].steps
          IN  /\ DOMAIN steps \subseteq Nat
              /\ \A i \in DOMAIN steps : steps[i].kind \in StepKinds

(***************************************************************************)
(* The access index.                                                       *)
(***************************************************************************)

(* The steps of a protocol: each reads what it manages as it writes it.    *)
ProtocolModes(s) ==
    CASE s.kind = "transition"     -> {"TransitionRead", "TransitionWrite"}
      [] s.kind = "advance_cursor" -> {"CursorReadWrite"}
      [] s.kind = "fence"          -> {"FenceReadWrite"}

(* What step i of transaction t does to persistent state. *)
StepAccesses(M, t, i) ==
    LET s == M.templates[t].steps[i]
        version == M.schema[s.sel.object].version
        at(mode, fields) ==
            [tx |-> t, step |-> i, sel |-> s.sel, fields |-> fields, mode |-> mode,
             field |-> s.field, rule |-> s.rule]
        everywhere(mode) ==
            [at(mode, AllFields) EXCEPT !.sel.pins = {}]
        published == IF version = NoField THEN {}
                     ELSE {[at("VersionPublish", Only({version})) EXCEPT !.field = version]}
        compared  == IF s.compare = {} THEN {}
                     ELSE {at("CompareRead", Only({c.field : c \in s.compare}))}
    IN  CASE s.kind = "read"   -> {at("Read", s.fields)}
          [] s.kind = "update" -> {at("Update", Declared(s.fields.of))} \cup published
          [] s.kind = "compare_and_set" ->
                {at("CompareWrite", Declared(s.fields.of))} \cup compared \cup published
          [] s.kind = "insert" -> {everywhere("Insert")}
          [] s.kind = "upsert" -> {at("UpsertReadWrite", AllFields)}
          [] s.kind = "delete" -> {at("Delete", AllFields)}
          [] s.kind = "lock"   -> {}
          [] s.kind \in {"transition", "advance_cursor", "fence"} ->
                {at(mode, Only({s.field})) : mode \in ProtocolModes(s)} \cup compared \cup published

Accesses(M, t) == UNION {StepAccesses(M, t, i) : i \in DOMAIN M.templates[t].steps}

(* A transaction that deletes some instance of the object. *)
Deleter(M, object) ==
    \E t \in Templates(M) : \E a \in Accesses(M, t) :
        a.mode = "Delete" /\ a.sel.object = object

(***************************************************************************)
(* Overlap and conflict.                                                   *)
(***************************************************************************)

(* The only disjointness two selectors of one object can prove is a pair   *)
(* of different literals for one field.                                    *)
SelectorsDisjoint(a, b) ==
    \/ a.sel.object # b.sel.object
    \/ \E p \in a.sel.pins, q \in b.sel.pins :
          /\ p[1] = q[1]
          /\ p[2][1] = "lit" /\ q[2][1] = "lit"
          /\ p[2] # q[2]

FieldsDisjoint(F, G) ==
    /\ F.kind = "only" /\ G.kind = "only"
    /\ \A f \in F.of, g \in G.of : ~Related(f, g)

Conflict(a, b) ==
    /\ a.mode \in Writing \/ b.mode \in Writing
    /\ ~SelectorsDisjoint(a, b)
    /\ ~FieldsDisjoint(a.fields, b.fields)

(* The pairs of transactions that conflict. *)
ConflictGraph(M) ==
    LET index == [t \in Templates(M) |-> Accesses(M, t)]
    IN  {e \in Templates(M) \X Templates(M) :
            \E a \in index[e[1]], b \in index[e[2]] : Conflict(a, b)}

(* The nodes some path of the graph leads to from one of From. *)
Reachable(From, edges) ==
    LET nodes == From \cup {e[2] : e \in edges}
        reach[n \in 0..Cardinality(nodes)] ==
            IF n = 0 THEN From
            ELSE reach[n - 1] \cup {e[2] : e \in {d \in edges : d[1] \in reach[n - 1]}}
    IN  reach[Cardinality(nodes)]

(* The transactions that conflict with the root, directly or through others. *)
Closure(M, root) == Reachable({root}, ConflictGraph(M))

(***************************************************************************)
(* Commit-order evidence.                                                  *)
(***************************************************************************)

Isolated(M, t) == M.templates[t].iso # "unspecified"

Guards(M, t) ==
    {i \in DOMAIN M.templates[t].steps :
        LET s == M.templates[t].steps[i]
        IN  /\ s.kind \in GuardKinds
            /\ HoldsProtection(s.kind)
            /\ IdentifiesInstance(M, s.sel)}

(* The access is part of, or follows, a guarded mutation of the instance. *)
Protected(M, a) ==
    \E i \in Guards(M, a.tx) :
        i <= a.step /\ M.templates[a.tx].steps[i].sel = a.sel

HeldWrite(M, a) == Isolated(M, a.tx) \/ Protected(M, a)

(* The earlier reads of the same instance whose same field a comparison    *)
(* of step i names.                                                        *)
Observed(M, t, i, c) ==
    {j \in 1..(i - 1) :
        LET r == M.templates[t].steps[j]
        IN  /\ r.kind = "read" /\ r.sel = M.templates[t].steps[i].sel
            /\ c.expected = <<"read", r.bind, c.field>>
            /\ r.fields.kind = "all" \/ \E f \in r.fields.of : Nested(c.field, f)}

(* Every region in which the read and the write meet lies in a compared field. *)
CoversConflict(read, written, compared) ==
    LET regions ==
            CASE read.kind = "all"    -> written.of
              [] written.kind = "all" -> read.of
              [] OTHER -> {f \in read.of : \E g \in written.of : Nested(f, g)}
                          \cup {g \in written.of : \E f \in read.of : Nested(g, f)}
    IN  /\ "unknown" \notin {read.kind, written.kind}
        /\ ~(read.kind = "all" /\ written.kind = "all")
        /\ \A f \in regions : \E g \in compared : Nested(f, g)

(* A later guarded mutation compares the version some read at or before    *)
(* the observation saw; no insertion may repeat that version.              *)
VersionObserved(M, a, b, i) ==
    LET version == M.schema[a.sel.object].version
    IN  /\ version # NoField
        /\ \E c \in M.templates[a.tx].steps[i].compare :
              c.field = version /\ \E j \in Observed(M, a.tx, i, c) : j <= a.step
        /\ ~(b.mode \in {"Insert", "UpsertReadWrite"} /\ Deleter(M, a.sel.object))

(* A later guarded mutation compares the very values the read saw. *)
StateObserved(M, a, b, i) ==
    LET compared == {c.field : c \in {d \in M.templates[a.tx].steps[i].compare :
                                        a.step \in Observed(M, a.tx, i, d)}}
    IN  /\ M.templates[a.tx].steps[a.step].kind = "read"
        /\ compared # {}
        /\ CoversConflict(a.fields, b.fields, compared)

ObservationGuarded(M, a, b) ==
    \/ Protected(M, a)
    \/ /\ IdentifiesInstance(M, a.sel)
       /\ \E i \in Guards(M, a.tx) :
             /\ i > a.step /\ M.templates[a.tx].steps[i].sel = a.sel
             /\ VersionObserved(M, a, b, i) \/ StateObserved(M, a, b, i)

(* A lock of an earlier step covers what the access selects. *)
CoveringLock(M, a, modes) ==
    \E i \in 1..(a.step - 1) :
        LET s == M.templates[a.tx].steps[i]
        IN  /\ s.kind = "lock" /\ s.lock \in modes
            /\ s.sel.object = a.sel.object
            /\ s.sel.pins \subseteq a.sel.pins

(* Mutant: reads of several statements are taken to see one instant. *)
ReadsOnly(M, t) ==
    /\ \A a \in Accesses(M, t) : a.mode \notin Writing
    /\ M.templates[t].iso # "unspecified"

(* A read-only transaction that observes committed state at one instant. *)
SerializesAtItsRead(M, t) ==
    LET reads == {a \in Accesses(M, t) : a.mode \in Reading}
    IN  /\ \A a \in Accesses(M, t) : a.mode \notin Writing
        /\ \/ M.templates[t].iso = "snapshot"
           \/ /\ M.templates[t].iso \in {"read_committed", "serializable"}
              /\ \A a, b \in reads : a.step = b.step
              /\ \A a \in reads : IdentifiesInstance(M, a.sel)

OrderedCursor(a, b) ==
    /\ a.mode = "CursorReadWrite" /\ b.mode = "CursorReadWrite"
    /\ a.field = b.field /\ a.rule = b.rule

WriteReadConstrained(M, a, b) ==
    \/ Isolated(M, b.tx)
    \/ Protected(M, b) /\ HeldWrite(M, a)

WriteWriteConstrained(M, a, b) ==
    \/ Isolated(M, a.tx) /\ Isolated(M, b.tx)
    \/ Protected(M, a)
    \/ Protected(M, b) /\ Isolated(M, a.tx)

ReadWriteConstrained(M, a, b) ==
    LET readerLock == CoveringLock(M, a, {"shared", "exclusive"})
    IN  \/ readerLock /\ CoveringLock(M, b, {"exclusive"})
        \/ ObservationGuarded(M, a, b)
        \/ SerializesAtItsRead(M, a.tx)
        \/ readerLock /\ Protected(M, b) /\ IdentifiesInstance(M, a.sel)

(* Whether a declared fact fixes the commit order of every dependency the  *)
(* two conflicting accesses can give rise to, from a's to b's transaction. *)
Unconstrained(M, a, b) ==
    /\ ~OrderedCursor(a, b)
    /\ \/ a.mode \in Writing /\ b.mode \in Reading /\ ~WriteReadConstrained(M, a, b)
       \/ a.mode \in Reading /\ b.mode \in Writing /\ ~ReadWriteConstrained(M, a, b)
       \/ a.mode \in Writing /\ b.mode \in Writing /\ ~WriteWriteConstrained(M, a, b)

(***************************************************************************)
(* The verdicts.                                                           *)
(***************************************************************************)

(* Every conflict gives a dependency each way, so the graph has an edge    *)
(* where two transactions of the closure conflict; an unconstrained edge   *)
(* refuses when its target leads back to its source.                       *)
UnconstrainedCycle(M, C) ==
    LET index == [t \in C |-> Accesses(M, t)]
        edges == ConflictGraph(M) \cap (C \X C)
    IN  \E e \in edges :
            /\ \E a \in index[e[1]], b \in index[e[2]] : Conflict(a, b) /\ Unconstrained(M, a, b)
            /\ e[1] \in Reachable({e[2]}, edges)

SerializabilityProven(M, root) ==
    LET C == Closure(M, root)
    IN  \/ \A t \in C : M.templates[t].iso = "serializable"
        \/ ~UnconstrainedCycle(M, C)

(* Every identity field is pinned, by a literal or by the key itself. *)
KeyIdentifiesDomain(M, sel, key) ==
    /\ IdentifiesInstance(M, sel)
    /\ \A p \in sel.pins :
          p[1] \in M.schema[sel.object].identity => p[2] = key \/ p[2][1] = "lit"
    /\ \E p \in sel.pins : p[1] \in M.schema[sel.object].identity /\ p[2] = key

(* Mutant: an update that names no field is taken to write none. *)
NamedWriter(M, object, field, rule) ==
    \E t \in Templates(M) : \E a \in Accesses(M, t) :
        /\ a.sel.object = object
        /\ \/ /\ a.mode \in {"Update", "CompareWrite"}
              /\ \E g \in a.fields.of : Related(field, g)
           \/ a.mode = "CursorReadWrite" /\ a.field = field /\ a.rule # rule
           \/ a.mode = "FenceReadWrite" /\ a.field = field /\ rule # "none"

(* A write of the managed field that is not the protocol's own. *)
UncontrolledWriter(M, object, field, rule) ==
    \E t \in Templates(M) : \E a \in Accesses(M, t) :
        /\ a.sel.object = object
        /\ \/ /\ a.mode \in {"Update", "CompareWrite"}
              /\ ~FieldsDisjoint(a.fields, Only({field}))
           \/ /\ a.mode = "UpsertReadWrite"
              /\ ~FieldsDisjoint(M.templates[t].steps[a.step].fields, Only({field}))
           \/ a.mode = "CursorReadWrite" /\ a.field = field /\ a.rule # rule
           \/ a.mode = "FenceReadWrite" /\ a.field = field /\ rule # "none"

(* The route of an ordering requirement: the first cursor advance or fence *)
(* whose incoming value is the position.                                   *)
OrderingRoute(M, t, r) ==
    LET carries == {i \in DOMAIN M.templates[t].steps :
                      /\ M.templates[t].steps[i].kind \in {"advance_cursor", "fence"}
                      /\ M.templates[t].steps[i].incoming = r.position}
    IN  {i \in carries : \A j \in carries : i <= j}

OrderingProven(M, t, r) ==
    /\ SerializabilityProven(M, t)
    /\ \E i \in OrderingRoute(M, t, r) :
          LET s == M.templates[t].steps[i]
          IN  /\ KeyIdentifiesDomain(M, s.sel, r.key)
              /\ ~UncontrolledWriter(M, s.sel.object, s.field, s.rule)
=============================================================================
