----------------------------- MODULE VerdictBasis -----------------------------
(***************************************************************************)
(* What a verdict on a transaction rests on: src/analyzer/basis/ (mod.rs,  *)
(* extract.rs) over the provers of TransactionConflicts.                   *)
(*                                                                         *)
(* The grounds of a verdict are the facts its proof consumed or its        *)
(* obstacles found (present), the facts the obstacles found missing, the   *)
(* declarations the obstacles name beside them (anchors), and every        *)
(* declaration read, the anchors of the facts included.  No fact names a   *)
(* step.  A declaration is <<"transaction", t>>, <<"object", o>> or a      *)
(* requirement; an obligation is <<"serializable", t>> or                  *)
(* <<"ordered", t, key>>.                                                  *)
(***************************************************************************)
EXTENDS TransactionConflicts

LeastOf(S) == CHOOSE i \in S : \A j \in S : i <= j

TransactionKey(t) == <<"transaction", t>>
ObjectKey(o)      == <<"object", o>>

(***************************************************************************)
(* Grounds.                                                                *)
(***************************************************************************)

NoGrounds == [present |-> {}, missing |-> {}, anchors |-> {}, read |-> {}]

PresentFact(fact, anchors) == [NoGrounds EXCEPT !.present = {fact}, !.read = anchors]
MissingFact(fact, anchors) == [NoGrounds EXCEPT !.missing = {fact}, !.read = anchors]
AnchorOnly(anchors)        == [NoGrounds EXCEPT !.anchors = anchors, !.read = anchors]

(* One set of facts, each with every anchor it was found with. *)
Joined(G) ==
    [present |-> UNION {g.present : g \in G}, missing |-> UNION {g.missing : g \in G},
     anchors |-> UNION {g.anchors : g \in G}, read |-> UNION {g.read : g \in G}]

(***************************************************************************)
(* The facts.                                                              *)
(***************************************************************************)

IsolationFact(M, t) ==
    PresentFact([kind |-> "isolation", tx |-> t, level |-> M.templates[t].iso],
                {TransactionKey(t)})

LockStated(t, sel, mode) ==
    [kind |-> "lock", tx |-> t, sel |-> sel, mode |-> mode]

LockFact(M, t, i) ==
    LET s == M.templates[t].steps[i]
    IN  PresentFact(LockStated(t, s.sel, s.lock), {TransactionKey(t), ObjectKey(s.sel.object)})

NoDeleters(o) == [kind |-> "no_deleters", object |-> o]

(* A guarded mutation's fact; one that names no field cites all it compares. *)
GuardedMutation(M, t, i, coverage, compared) ==
    LET s == M.templates[t].steps[i]
        fields == IF compared = {} THEN {c.field : c \in s.compare} ELSE compared
    IN  PresentFact([kind |-> "guarded_mutation", tx |-> t, object |-> s.sel.object,
                     mechanism |-> s.kind, coverage |-> coverage, compared |-> fields],
                    {TransactionKey(t), ObjectKey(s.sel.object)})

(***************************************************************************)
(* The evidence of a dependency: {} or a set of one element, the grounds.  *)
(***************************************************************************)

GuardsOf(M, a) == {i \in Guards(M, a.tx) : M.templates[a.tx].steps[i].sel = a.sel}

(* The guard whose write protection covers the access, its own step first. *)
ProtectionFact(M, a) ==
    IF a.step \in GuardsOf(M, a)
    THEN GuardedMutation(M, a.tx, a.step, <<"atomic">>, {})
    ELSE GuardedMutation(M, a.tx, LeastOf(GuardsOf(M, a)), <<"held_protection">>, {})

HeldWriteFact(M, a) ==
    IF Isolated(M, a.tx) THEN IsolationFact(M, a.tx) ELSE ProtectionFact(M, a)

WriteReadEvidence(M, a, b) ==
    CASE Isolated(M, b.tx) -> {IsolationFact(M, b.tx)}
      [] ~Isolated(M, b.tx) /\ Protected(M, b) /\ HeldWrite(M, a) ->
            {Joined({ProtectionFact(M, b), HeldWriteFact(M, a)})}
      [] OTHER -> {}

WriteWriteEvidence(M, a, b) ==
    CASE Isolated(M, a.tx) /\ Isolated(M, b.tx) ->
            {Joined({IsolationFact(M, a.tx), IsolationFact(M, b.tx)})}
      [] Protected(M, a) /\ ~(Isolated(M, a.tx) /\ Isolated(M, b.tx)) -> {ProtectionFact(M, a)}
      [] ~Protected(M, a) /\ Protected(M, b) /\ Isolated(M, a.tx) /\ ~Isolated(M, b.tx) ->
            {Joined({ProtectionFact(M, b), IsolationFact(M, a.tx)})}
      [] OTHER -> {}

(* The later guarded mutations of what the reader observed, and which cover. *)
LaterGuards(M, a) == {i \in GuardsOf(M, a) : i > a.step}

VersionFact(M, a, b, i) ==
    LET version == M.schema[a.sel.object].version
        o == a.sel.object
        read == M.templates[a.tx].steps[
                    LeastOf(UNION {Observed(M, a.tx, i, c) :
                        c \in {d \in M.templates[a.tx].steps[i].compare : d.field = version}})].bind
        guard == GuardedMutation(M, a.tx, i, <<"observed_version", read, version>>, {version})
        absence == PresentFact(NoDeleters(o), {ObjectKey(o)})
    IN  IF b.mode \in {"Insert", "UpsertReadWrite"} THEN Joined({guard, absence}) ELSE guard

StateFact(M, a, i) ==
    LET s == M.templates[a.tx].steps
    IN  GuardedMutation(M, a.tx, i, <<"observed_state", s[a.step].bind>>,
            {c.field : c \in {d \in s[i].compare : a.step \in Observed(M, a.tx, i, d)}})

ObservationEvidence(M, a, b) ==
    LET covering == {i \in LaterGuards(M, a) : VersionObserved(M, a, b, i) \/ StateObserved(M, a, b, i)}
        first == LeastOf(covering)
    IN  CASE Protected(M, a) -> {ProtectionFact(M, a)}
          [] ~Protected(M, a) /\ IdentifiesInstance(M, a.sel) /\ covering # {} ->
                {IF VersionObserved(M, a, b, first) THEN VersionFact(M, a, b, first)
                 ELSE StateFact(M, a, first)}
          [] OTHER -> {}

(* The first lock of an earlier step that covers the access. *)
CoveringLocks(M, a, modes) ==
    {i \in DOMAIN M.templates[a.tx].steps :
        LET s == M.templates[a.tx].steps[i]
        IN  /\ s.kind = "lock" /\ s.lock \in modes
            /\ s.sel.object = a.sel.object /\ s.sel.pins \subseteq a.sel.pins}

EarlierLocks(M, a, modes) == {i \in CoveringLocks(M, a, modes) : i < a.step}

ReaderLocks(M, a) == EarlierLocks(M, a, {"shared", "exclusive"})
WriterLocks(M, b) == EarlierLocks(M, b, {"exclusive"})

(* Mutant: the writer's lock is not cited beside the reader's. *)
ReaderLockAlone(M, a, b) == LockFact(M, a.tx, LeastOf(ReaderLocks(M, a)))

(* The lock of the reader and the lock of the writer that exclude each other. *)
LockPairEvidence(M, a, b) ==
    Joined({LockFact(M, a.tx, LeastOf(ReaderLocks(M, a))),
            LockFact(M, b.tx, LeastOf(WriterLocks(M, b)))})

ReadWriteEvidence(M, a, b) ==
    LET readerLocks == ReaderLocks(M, a)
        observation == ObservationEvidence(M, a, b)
        readerLock == LockFact(M, a.tx, LeastOf(readerLocks))
        locked == M.templates[a.tx].steps[LeastOf(readerLocks)]
        guard == IF b.step \in GuardsOf(M, b) THEN b.step ELSE LeastOf(GuardsOf(M, b))
    IN  IF readerLocks # {} /\ WriterLocks(M, b) # {} THEN {LockPairEvidence(M, a, b)}
        ELSE IF observation # {} THEN observation
        ELSE IF SerializesAtItsRead(M, a.tx) THEN {IsolationFact(M, a.tx)}
        ELSE IF readerLocks # {} /\ Protected(M, b) /\ IdentifiesInstance(M, a.sel)
        THEN {Joined({readerLock,
                GuardedMutation(M, b.tx, guard, <<"locked_reader", locked.sel, locked.lock>>, {})})}
        ELSE {}

(* Both advance one cursor under one rule, whatever the dependency. *)
CursorFact(object, field, rule, anchors) ==
    PresentFact([kind |-> "cursor", object |-> object, field |-> field, rule |-> rule],
                {ObjectKey(object)} \cup anchors)

Evidence(M, kind, a, b) ==
    CASE OrderedCursor(a, b) ->
            {CursorFact(a.sel.object, a.field, a.rule, {TransactionKey(a.tx), TransactionKey(b.tx)})}
      [] ~OrderedCursor(a, b) /\ kind = "wr" -> WriteReadEvidence(M, a, b)
      [] ~OrderedCursor(a, b) /\ kind = "ww" -> WriteWriteEvidence(M, a, b)
      [] ~OrderedCursor(a, b) /\ kind = "rw" -> ReadWriteEvidence(M, a, b)

(* The dependencies two conflicting accesses give rise to. *)
DependencyKinds(a, b) ==
    {k \in {"wr", "rw", "ww"} :
        CASE k = "wr" -> a.mode \in Writing /\ b.mode \in Reading
          [] k = "rw" -> a.mode \in Reading /\ b.mode \in Writing
          [] k = "ww" -> a.mode \in Writing /\ b.mode \in Writing}

(***************************************************************************)
(* The gaps of a dependency without evidence.                              *)
(***************************************************************************)

(* No covering lock: the lock over the access's own selector is missing.   *)
(* A covering one taken too late is present, and not enough.               *)
LockGap(M, a, modes, wanted) ==
    LET t == a.tx
        late == CoveringLocks(M, a, modes)
        s == M.templates[t].steps[a.step]
        here == {TransactionKey(t), ObjectKey(a.sel.object)}
    IN  IF late # {}
        THEN Joined({AnchorOnly({TransactionKey(t)}), LockFact(M, t, LeastOf(late))})
        ELSE IF s.kind = "insert" THEN AnchorOnly(here)
        ELSE Joined({AnchorOnly(here), MissingFact(LockStated(t, s.sel, wanted), here)})

(* A deleter of the object is what the version cannot stand. *)
DeletersOf(M, object) ==
    {t \in Templates(M) : \E a \in Accesses(M, t) : a.mode = "Delete" /\ a.sel.object = object}

(* The comparison of the version is there, and fails only for the deleter. *)
MayRepeat(M, a, b, i) ==
    LET version == M.schema[a.sel.object].version
    IN  /\ version # NoField /\ ~VersionObserved(M, a, b, i)
        /\ \E c \in M.templates[a.tx].steps[i].compare :
              c.field = version /\ \E j \in Observed(M, a.tx, i, c) : j <= a.step

(* The guard compares what the read saw, and not every field of the conflict. *)
FallsShort(M, a, b, i) ==
    /\ M.templates[a.tx].steps[a.step].kind = "read"
    /\ \E c \in M.templates[a.tx].steps[i].compare : a.step \in Observed(M, a.tx, i, c)
    /\ ~StateObserved(M, a, b, i)

ObservationGap(M, a, b) ==
    LET short == {i \in LaterGuards(M, a) : MayRepeat(M, a, b, i) \/ FallsShort(M, a, b, i)}
        o == a.sel.object
    IN  IF IdentifiesInstance(M, a.sel) /\ short # {} /\ MayRepeat(M, a, b, LeastOf(short))
        THEN Joined({AnchorOnly({TransactionKey(a.tx)}),
                     MissingFact(NoDeleters(o),
                        {ObjectKey(o), TransactionKey(LeastOf(DeletersOf(M, o)))})})
        ELSE AnchorOnly({TransactionKey(a.tx), ObjectKey(o)})

Gaps(M, kind, a, b) ==
    {AnchorOnly({TransactionKey(a.tx), TransactionKey(b.tx), ObjectKey(a.sel.object)})}
    \cup (CASE kind = "wr" -> {IsolationFact(M, b.tx)}
            [] kind = "ww" -> {IsolationFact(M, t) : t \in {u \in {a.tx, b.tx} : ~Isolated(M, u)}}
            [] kind = "rw" ->
                 (IF ReaderLocks(M, a) # {} THEN {}
                  ELSE {LockGap(M, a, {"shared", "exclusive"}, "shared")})
                 \cup (IF WriterLocks(M, b) # {} THEN {}
                       ELSE {LockGap(M, b, {"exclusive"}, "exclusive")})
                 \cup {ObservationGap(M, a, b)})

(***************************************************************************)
(* The grounds of a verdict.                                               *)
(***************************************************************************)

(* Every dependency among the transactions C, as <<kind, a, b>>. *)
Dependencies(M, C) ==
    LET index == [t \in C |-> Accesses(M, t)]
    IN  UNION {UNION {UNION {{<<k, a, b>> : k \in IF Conflict(a, b) THEN DependencyKinds(a, b) ELSE {}}
                                : b \in UNION {index[u] : u \in C}}
                        : a \in index[t]} : t \in C}

(* The strongly connected components that hold a cycle. *)
CyclicComponents(C, deps) ==
    LET edges == {<<d[2].tx, d[3].tx>> : d \in deps}
        after == [t \in C |-> Reachable({e[2] : e \in {x \in edges : x[1] = t}}, edges)]
    IN  {{u \in C : u \in after[t] /\ t \in after[u]} : t \in {u \in C : u \in after[u]}}

Inside(components, d) == \E c \in components : d[2].tx \in c /\ d[3].tx \in c

ClosureFact(root, C) ==
    PresentFact([kind |-> "conflict_closure", root |-> root, members |-> C],
                {TransactionKey(t) : t \in C})

ComponentsFact(root, C, components) ==
    PresentFact([kind |-> "cyclic_components", root |-> root, components |-> components],
                {TransactionKey(t) : t \in C})

(* The verdict on the dependencies inside cyclic components, each with its *)
(* evidence: {} leaves it open.                                            *)
VerdictFrom(M, root, C, components, evidence) ==
    LET open == {d \in DOMAIN evidence : evidence[d] = {}}
    IN  IF open = {}
        THEN [proven |-> TRUE,
              grounds |-> Joined({ClosureFact(root, C), ComponentsFact(root, C, components)}
                                 \cup UNION {evidence[d] : d \in DOMAIN evidence})]
        ELSE [proven |-> FALSE,
              grounds |-> Joined({IsolationFact(M, t) : t \in {u \in C : M.templates[u].iso # "serializable"}}
                                 \cup {AnchorOnly({TransactionKey(t) : t \in c}) :
                                          c \in {x \in components : \E d \in open : d[2].tx \in x}}
                                 \cup UNION {Gaps(M, d[1], d[2], d[3]) : d \in open})]

CycleVerdict(M, root, C, deps, components) ==
    VerdictFrom(M, root, C, components,
        [d \in {x \in deps : Inside(components, x)} |-> Evidence(M, d[1], d[2], d[3])])

ClosureVerdict(M, root, C, deps) ==
    IF \A t \in C : M.templates[t].iso = "serializable"
    THEN [proven |-> TRUE, grounds |-> Joined({ClosureFact(root, C)}
                                               \cup {IsolationFact(M, t) : t \in C})]
    ELSE CycleVerdict(M, root, C, deps, CyclicComponents(C, deps))

(* The verdict on a transaction's serializability, and what it rests on. *)
SerializabilityGrounds(M, root) ==
    ClosureVerdict(M, root, Closure(M, root), Dependencies(M, Closure(M, root)))

(* Every transaction that advances or fences the managed field. *)
ManagedFieldWriters(M, object, field) ==
    {t \in Templates(M) : \E i \in DOMAIN M.templates[t].steps :
        LET s == M.templates[t].steps[i]
        IN  s.kind \in {"advance_cursor", "fence"} /\ s.sel.object = object /\ s.field = field}

ManagedFact(M, s, anchors) ==
    IF s.kind = "advance_cursor" THEN CursorFact(s.sel.object, s.field, s.rule, anchors)
    ELSE PresentFact([kind |-> "fence", object |-> s.sel.object, field |-> s.field],
                     {ObjectKey(s.sel.object)} \cup anchors)

(* The writers an ordering route cannot stand. *)
UncontrolledWriters(M, s) ==
    {t \in Templates(M) :
        UncontrolledWriter([M EXCEPT !.templates = <<M.templates[t]>>], s.sel.object, s.field, s.rule)}

(* The obstacles of a requirement on its route, and off it. *)
OrderingObstacles(M, t, r, route) ==
    LET steps == M.templates[t].steps
        carriers == {i \in DOMAIN steps : steps[i].kind \in {"advance_cursor", "fence"}}
        s == steps[LeastOf(route)]
        requiring == AnchorOnly({TransactionKey(t)})
        misplaced(i) == Joined({requiring, ManagedFact(M, steps[i], {TransactionKey(t)})})
    IN  IF route = {}
        THEN IF carriers = {} THEN {requiring} ELSE {misplaced(i) : i \in carriers}
        ELSE (IF KeyIdentifiesDomain(M, s.sel, r.key) THEN {} ELSE {misplaced(LeastOf(route))})
             \cup {Joined({requiring, AnchorOnly({TransactionKey(u), ObjectKey(s.sel.object)})})
                        : u \in UncontrolledWriters(M, s)}

OrderingVerdict(M, t, route, obstacles, serializable) ==
    LET s == M.templates[t].steps[LeastOf(route)]
    IN  IF obstacles = {} /\ serializable.proven
        THEN [proven |-> TRUE,
              grounds |-> Joined({ManagedFact(M, s, {TransactionKey(u) :
                                    u \in ManagedFieldWriters(M, s.sel.object, s.field)}),
                                  serializable.grounds})]
        ELSE [proven |-> FALSE,
              grounds |-> Joined(obstacles \cup (IF serializable.proven THEN {}
                                                 ELSE {serializable.grounds}))]

OrderingGrounds(M, t, r) ==
    OrderingVerdict(M, t, OrderingRoute(M, t, r), OrderingObstacles(M, t, r, OrderingRoute(M, t, r)),
                    SerializabilityGrounds(M, t))

(* The obligations of a specification, by key, each with its verdict.      *)
Obligations(M) ==
    LET serial  == {<<"serializable", t>> : t \in {u \in Templates(M) : M.templates[u].serial}}
        ordered == UNION {{<<"ordered", t, r.key>> : r \in M.templates[t].ordering} : t \in Templates(M)}
    IN  [k \in serial \cup ordered |->
            IF k[1] = "serializable" THEN SerializabilityGrounds(M, k[2])
            ELSE OrderingGrounds(M, k[2], CHOOSE r \in M.templates[k[2]].ordering : r.key = k[3])]
=============================================================================
