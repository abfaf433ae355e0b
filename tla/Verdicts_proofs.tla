----------------------------- MODULE Verdicts_proofs -----------------------------
(****************************************************************************)
(* Two theorems on the verdicts of the provers.                             *)
(*                                                                          *)
(* Why a diff never leaves a changed verdict unexplained (src/design/       *)
(* change/diff.rs), for any two specifications over the same objects.       *)
(* Conflicts go both ways, so a transaction's conflict closure is one       *)
(* cyclic component or holds no cycle at all (OneComponent); so a verdict,  *)
(* proven or not, reads every transaction of its closure (ReadsItsClosure). *)
(* Two verdicts that read nothing changed are then about the same closure,  *)
(* and the evidence of a dependency in it can differ in one way only: a     *)
(* deleter came from outside, and the proof it took away names its absence, *)
(* which the diff counts as read.  Hence the same proof, of the same facts  *)
(* (SerializabilityHolds, OrderingHolds), and a diff with no such entry     *)
(* (DifferencesAreExplained).                                               *)
(*                                                                          *)
(* Why an ordering that is proven is kept (transaction_ordering.rs), on the *)
(* database of TransactionHistory, where nothing deletes the instance that  *)
(* the route orders by.  A proven closure isolates the route from every     *)
(* step that may touch its register, or has them hold the instance          *)
(* (ConstrainedBothWays, InsertersAreIsolated, FencesAreHeld), so one       *)
(* execution at a time writes the register, on its present value            *)
(* (RegisterIs, ViewAgrees), and it only grows.  An execution past the      *)
(* route has left its position there, above all that have committed, and    *)
(* holds the instance until it commits (PastIs, OnePast): executions commit *)
(* in the order of their positions (RoutesKeepTheirOrder).                  *)
(****************************************************************************)
EXTENDS TransactionHistory, SpecChange, Fixpoints, TLAPS

-----------------------------------------------------------------------------
(* What a graph's paths lead to *)

\* What a finite set of edges leads to is finite.
LEMMA TargetsFinite ==
    ASSUME NEW edges, IsFiniteSet(edges)
    PROVE  IsFiniteSet({e[2] : e \in edges})
<1> DEFINE T == {e[2] : e \in edges}
<1>1. [e \in edges |-> e[2]] \in Surjection(edges, T)
  BY DEF Surjection
<1> QED
  BY <1>1, FS_Surjection

\* The reachable nodes are the least set that holds the first ones and is closed
\* under the edges: as many rounds as there are nodes are enough.
LEMMA ReachableIsLeast ==
    ASSUME NEW From, IsFiniteSet(From), NEW edges, IsFiniteSet(edges)
    PROVE  /\ From \subseteq Reachable(From, edges)
           /\ \A e \in edges : e[1] \in Reachable(From, edges) => e[2] \in Reachable(From, edges)
           /\ \A X : (From \subseteq X /\ \A e \in edges : e[1] \in X => e[2] \in X)
                        => Reachable(From, edges) \subseteq X
<1> DEFINE nodes == From \cup {e[2] : e \in edges}
           K == Cardinality(nodes)
           Add(Y) == Y \cup {e[2] : e \in {d \in edges : d[1] \in Y}}
           F == [Y \in SUBSET nodes |-> Add(Y)]
           g == CHOOSE r : r = [n \in 0..K |-> IF n = 0 THEN From ELSE Add(r[n - 1])]
<1>1. Reachable(From, edges) = g[K]
  BY DEF Reachable
<1>2. IsFiniteSet(nodes) /\ K \in Nat
  <2>1. IsFiniteSet({e[2] : e \in edges})
    BY TargetsFinite
  <2>2. IsFiniteSet(nodes)
    BY <2>1, FS_Union
  <2> QED
    BY <2>2, FS_CardinalityType
<1>3. Growing(F, nodes) /\ From \in SUBSET nodes
  <2>1. \A Y \in SUBSET nodes : Add(Y) \in SUBSET nodes /\ Y \subseteq Add(Y)
    OBVIOUS
  <2> QED
    BY <2>1 DEF Growing
<1>4. \A Y \in SUBSET nodes : F[Y] = Add(Y)
  OBVIOUS
<1>5. g = CHOOSE r : r = [n \in 0..K |-> IF n = 0 THEN From ELSE Add(r[n - 1])]
  OBVIOUS
<1> HIDE DEF nodes, Add, F, g, K
<1>6. PICK h : Rounds(h, Nat, F, From)
  BY RoundsExist
<1>7. Computes(h, K, F, From)
  BY <1>2, <1>6, RoundsCompute
<1>8. \A n \in 0..K : h[n] \in SUBSET nodes
  BY <1>2, <1>3, <1>7, RoundsTyped
<1>9. \E r : r = [n \in 0..K |-> IF n = 0 THEN From ELSE Add(r[n - 1])]
  <2> DEFINE r == [n \in 0..K |-> h[n]]
  <2>1. ASSUME NEW n \in 0..K
        PROVE  r[n] = IF n = 0 THEN From ELSE Add(r[n - 1])
    <3>1. CASE n = 0
      BY <1>7, <3>1 DEF Computes
    <3>2. CASE n # 0
      <4>1. n \in 1..K /\ n - 1 \in 0..K
        BY <1>2, <3>2
      <4>2. h[n] = F[h[n - 1]]
        BY <1>7, <4>1 DEF Computes
      <4> QED
        BY <1>8, <1>4, <3>2, <4>1, <4>2
    <3> QED
      BY <3>1, <3>2
  <2>2. r = [n \in 0..K |-> IF n = 0 THEN From ELSE Add(r[n - 1])]
    BY <2>1
  <2> QED
    BY <2>2
<1>10. g = [n \in 0..K |-> IF n = 0 THEN From ELSE Add(g[n - 1])]
  BY <1>5, <1>9, Zenon
<1>11. Computes(g, K, F, From)
  <2>1. g[0] = From /\ \A n \in 1..K : g[n] = Add(g[n - 1])
    <3>1. 0 \in 0..K /\ \A n \in 1..K : n \in 0..K /\ n # 0
      BY <1>2
    <3> QED
      BY <1>10, <3>1
  <2> DEFINE Good == {n \in Nat : n <= K => g[n] = h[n]}
  <2>2. 0 \in Good
    BY <1>7, <2>1 DEF Computes
  <2>3. ASSUME NEW n \in Nat, n \in Good
        PROVE  n + 1 \in Good
    <3>1. CASE n + 1 <= K
      <4>1. n + 1 \in 1..K /\ (n + 1) - 1 = n /\ n \in 0..K /\ n <= K
        BY <1>2, <3>1
      <4>2. g[n + 1] = Add(g[n]) /\ h[n + 1] = F[h[n]] /\ g[n] = h[n]
        BY <1>7, <2>1, <2>3, <4>1 DEF Computes
      <4> QED
        BY <1>8, <1>4, <4>1, <4>2
    <3> QED
      BY <3>1
  <2> HIDE DEF Good
  <2>4. \A n \in Nat : n \in Good
    BY <2>2, <2>3, EveryNumber
  <2>5. \A n \in 0..K : g[n] = h[n]
    BY <1>2, <2>4 DEF Good
  <2>6. \A n \in 1..K : n - 1 \in 0..K /\ n \in 0..K
    BY <1>2
  <2> QED
    BY <1>7, <2>1, <2>5, <2>6 DEF Computes
<1>12. K \in 0..K
  BY <1>2
<1>13. g[K] \in SUBSET nodes /\ From \subseteq g[K]
  BY <1>2, <1>3, <1>11, <1>12, RoundsTyped, RoundsHold
<1>14. F[g[K]] = g[K]
  BY <1>2, <1>3, <1>11, RoundsSettle DEF K
<1>15. \A e \in edges : e[1] \in g[K] => e[2] \in g[K]
  BY <1>4, <1>13, <1>14 DEF Add
<1>16. ASSUME NEW X, From \subseteq X, \A e \in edges : e[1] \in X => e[2] \in X
       PROVE  g[K] \subseteq X
  <2>1. \A Y \in SUBSET nodes : Y \subseteq X => F[Y] \subseteq X
    BY <1>4, <1>16 DEF Add
  <2> QED
    BY <1>2, <1>3, <1>11, <1>12, <1>16, <2>1, RoundsStayWithin
<1> QED
  BY <1>1, <1>13, <1>15, <1>16

-----------------------------------------------------------------------------
(* What the access index holds *)

\* What one step accesses it accesses in a mode there is, and only a deletion
\* deletes.
LEMMA StepAccessTyped ==
    ASSUME NEW M, NEW t, NEW i, M.templates[t].steps[i].kind \in StepKinds,
           NEW a \in StepAccesses(M, t, i)
    PROVE  /\ a.tx = t /\ a.step = i
           /\ a.mode \in Reading \cup Writing
           /\ a.mode = "Delete" => /\ M.templates[t].steps[i].kind = "delete"
                                   /\ M.templates[t].steps[i].sel.object = a.sel.object
<1> DEFINE s == M.templates[t].steps[i]
           version == M.schema[s.sel.object].version
           at(mode, fields) ==
              [tx |-> t, step |-> i, sel |-> s.sel, fields |-> fields, mode |-> mode,
               field |-> s.field, rule |-> s.rule]
           everywhere(mode) ==
              [at(mode, AllFields) EXCEPT !.sel.pins = {}]
           published == IF version = NoField THEN {}
                     ELSE {[at("VersionPublish", Only({version})) EXCEPT !.field = version]}
           compared  == IF s.compare = {} THEN {}
                     ELSE {at("CompareRead", Only({c.field : c \in s.compare}))}
           Fits(x) == x.tx = t /\ x.step = i /\ x.mode \in Reading \cup Writing
<1>1. \A mode \in Reading \cup Writing : \A fields : Fits(at(mode, fields)) /\ at(mode, fields).mode = mode
                                                   /\ at(mode, fields).sel = s.sel
  OBVIOUS
<1>2. \A mode \in Reading \cup Writing : Fits(everywhere(mode)) /\ everywhere(mode).mode = mode
  OBVIOUS
<1>3. \A x \in published : Fits(x) /\ x.mode = "VersionPublish"
  BY DEF Writing
<1>4. \A x \in compared : Fits(x) /\ x.mode = "CompareRead"
  BY DEF Reading
<1>5. StepAccesses(M, t, i) =
        CASE s.kind = "read"   -> {at("Read", s.fields)}
          [] s.kind = "update" -> {at("Update", Declared(s.fields.of))} \cup published
          [] s.kind = "compare_and_set" ->
                {at("CompareWrite", Declared(s.fields.of))} \cup compared \cup published
          [] s.kind = "insert" -> {everywhere("Insert")}
          [] s.kind = "upsert" -> {at("UpsertReadWrite", AllFields)}
          [] s.kind = "delete" -> {at("Delete", AllFields)}
          [] s.kind = "lock"   -> {}
          [] s.kind \in {"transition", "advance_cursor", "fence"} ->
                {at(mode, Only({s.field})) : mode \in ProtocolModes(s)} \cup compared \cup published
  BY DEF StepAccesses
<1>6. {"Read", "Update", "CompareWrite", "Insert", "UpsertReadWrite", "Delete", "TransitionRead",
       "TransitionWrite", "CursorReadWrite", "FenceReadWrite"} \subseteq Reading \cup Writing
  BY DEF Reading, Writing
<1> DEFINE kind == s.kind
<1>7. kind = s.kind /\ kind \in StepKinds
  OBVIOUS
<1> HIDE DEF at, everywhere, published, compared, Fits
<1>8. Fits(a) /\ (a.mode = "Delete" => s.kind = "delete" /\ s.sel = a.sel)
  <2> HIDE DEF s
  <2>0. \/ a \in published \/ a \in compared
        \/ \E mode \in Reading \cup Writing : \E fields :
              a = at(mode, fields) /\ (mode = "Delete" => s.kind = "delete")
        \/ \E mode \in Reading \cup Writing : a = everywhere(mode) /\ mode # "Delete"
    <3>1. CASE s.kind \in {"read", "update", "compare_and_set", "lock"}
      BY <1>5, <1>6, <3>1
    <3>2. CASE s.kind \in {"insert", "upsert", "delete"}
      BY <1>5, <1>6, <3>2
    <3>3. CASE s.kind \in {"transition", "advance_cursor", "fence"}
      <4>1. StepAccesses(M, t, i) =
                {at(mode, Only({s.field})) : mode \in ProtocolModes(s)} \cup compared \cup published
        BY <1>5, <3>3
      <4>2. ProtocolModes(s) \subseteq
                {"TransitionRead", "TransitionWrite", "CursorReadWrite", "FenceReadWrite"}
        BY <3>3 DEF ProtocolModes
      <4>3. \A mode \in ProtocolModes(s) : mode \in Reading \cup Writing /\ mode # "Delete"
        BY <1>6, <4>2
      <4> QED
        BY <4>1, <4>3
    <3> QED
      BY <1>7, <3>1, <3>2, <3>3 DEF s, StepKinds
  <2> QED
    BY <1>1, <1>2, <1>3, <1>4, <2>0
<1> QED
  BY <1>8 DEF Fits

\* The same of a transaction's whole access index.
LEMMA AccessTyped ==
    ASSUME NEW M, WellFormed(M), NEW t \in Templates(M), NEW a \in Accesses(M, t)
    PROVE  /\ a.tx = t /\ a.step \in DOMAIN M.templates[t].steps
           /\ a.mode \in Reading \cup Writing
           /\ a.mode = "Delete" =>
                /\ M.templates[t].steps[a.step].kind = "delete"
                /\ M.templates[t].steps[a.step].sel.object = a.sel.object
<1>1. PICK i \in DOMAIN M.templates[t].steps : a \in StepAccesses(M, t, i)
  BY DEF Accesses
<1>2. M.templates[t].steps[i].kind \in StepKinds
  BY DEF WellFormed
<1> QED
  BY <1>1, <1>2, StepAccessTyped

\* Two accesses conflict in either order, and in each give rise to a dependency.
LEMMA ConflictsAreMutual ==
    ASSUME NEW a, NEW b, Conflict(a, b),
           a.mode \in Reading \cup Writing, b.mode \in Reading \cup Writing
    PROVE  Conflict(b, a) /\ DependencyKinds(a, b) # {}
<1>1. SelectorsDisjoint(b, a) => SelectorsDisjoint(a, b)
  BY DEF SelectorsDisjoint
<1>2. FieldsDisjoint(b.fields, a.fields) => FieldsDisjoint(a.fields, b.fields)
  BY DEF FieldsDisjoint, Related
<1>3. Conflict(b, a)
  BY <1>1, <1>2 DEF Conflict
<1>4. a.mode \in Writing \/ b.mode \in Writing
  BY DEF Conflict
<1>5. CASE a.mode \in Writing /\ b.mode \in Reading
  <2>1. "wr" \in DependencyKinds(a, b)
    BY <1>5 DEF DependencyKinds
  <2> QED
    BY <1>3, <2>1
<1>6. CASE a.mode \in Reading /\ b.mode \in Writing
  <2>1. "rw" \in DependencyKinds(a, b)
    BY <1>6 DEF DependencyKinds
  <2> QED
    BY <1>3, <2>1
<1>7. CASE a.mode \in Writing /\ b.mode \in Writing
  <2>1. "ww" \in DependencyKinds(a, b)
    BY <1>7 DEF DependencyKinds
  <2> QED
    BY <1>3, <2>1
<1> QED
  BY <1>4, <1>5, <1>6, <1>7

-----------------------------------------------------------------------------
(* The closure of a transaction *)

\* The conflict graph is finite and goes both ways, and joins the transactions
\* that have conflicting accesses.
LEMMA ConflictGraphIs ==
    ASSUME NEW M, WellFormed(M)
    PROVE  /\ IsFiniteSet(ConflictGraph(M))
           /\ \A e \in ConflictGraph(M) :
                 /\ e = <<e[1], e[2]>>
                 /\ e[1] \in Templates(M) /\ e[2] \in Templates(M)
                 /\ <<e[2], e[1]>> \in ConflictGraph(M)
           /\ \A t, u \in Templates(M) :
                 <<t, u>> \in ConflictGraph(M) <=>
                    \E a \in Accesses(M, t), b \in Accesses(M, u) : Conflict(a, b)
<1>1. ConflictGraph(M) = {e \in Templates(M) \X Templates(M) :
            \E a \in Accesses(M, e[1]), b \in Accesses(M, e[2]) : Conflict(a, b)}
  <2> DEFINE index == [t \in Templates(M) |-> Accesses(M, t)]
  <2>1. \A e \in Templates(M) \X Templates(M) :
            index[e[1]] = Accesses(M, e[1]) /\ index[e[2]] = Accesses(M, e[2])
    OBVIOUS
  <2>2. ConflictGraph(M) = {e \in Templates(M) \X Templates(M) :
                              \E a \in index[e[1]], b \in index[e[2]] : Conflict(a, b)}
    BY DEF ConflictGraph
  <2> HIDE DEF index
  <2> QED
    BY <2>1, <2>2
<1>2. IsFiniteSet(Templates(M))
  <2>1. Len(M.templates) \in Nat
    BY DEF WellFormed
  <2> QED
    BY <2>1, FS_Interval DEF Templates
<1>3. IsFiniteSet(Templates(M) \X Templates(M))
  BY <1>2, FS_Product
<1>4. IsFiniteSet(ConflictGraph(M))
  BY <1>1, <1>3, FS_Subset
<1>5. ASSUME NEW t \in Templates(M), NEW u \in Templates(M)
      PROVE  <<t, u>> \in ConflictGraph(M) <=>
                \E a \in Accesses(M, t), b \in Accesses(M, u) : Conflict(a, b)
  BY <1>1
<1>6. ASSUME NEW t \in Templates(M), NEW u \in Templates(M), <<t, u>> \in ConflictGraph(M)
      PROVE  <<u, t>> \in ConflictGraph(M)
  <2>1. PICK a \in Accesses(M, t), b \in Accesses(M, u) : Conflict(a, b)
    BY <1>5, <1>6
  <2>2. a.mode \in Reading \cup Writing /\ b.mode \in Reading \cup Writing
    BY AccessTyped
  <2>3. Conflict(b, a)
    BY <2>1, <2>2, ConflictsAreMutual
  <2> QED
    BY <1>5, <2>3
<1>7. ASSUME NEW e \in ConflictGraph(M)
      PROVE  /\ e = <<e[1], e[2]>>
             /\ e[1] \in Templates(M) /\ e[2] \in Templates(M)
             /\ <<e[2], e[1]>> \in ConflictGraph(M)
  <2>1. e = <<e[1], e[2]>> /\ e[1] \in Templates(M) /\ e[2] \in Templates(M)
    BY <1>1
  <2> QED
    BY <1>6, <2>1
<1> QED
  BY <1>4, <1>5, <1>7

\* A transaction's closure is the least set that holds it and all that conflicts
\* with what it holds.
LEMMA ClosureIs ==
    ASSUME NEW M, WellFormed(M), NEW root \in Templates(M)
    PROVE  /\ root \in Closure(M, root) /\ Closure(M, root) \subseteq Templates(M)
           /\ \A e \in ConflictGraph(M) : e[1] \in Closure(M, root) => e[2] \in Closure(M, root)
           /\ \A X : (root \in X /\ \A e \in ConflictGraph(M) : e[1] \in X => e[2] \in X)
                        => Closure(M, root) \subseteq X
<1>1. IsFiniteSet({root}) /\ IsFiniteSet(ConflictGraph(M))
  BY ConflictGraphIs, FS_Singleton
<1> DEFINE C == Reachable({root}, ConflictGraph(M))
<1>2. /\ {root} \subseteq C
      /\ \A e \in ConflictGraph(M) : e[1] \in C => e[2] \in C
      /\ \A X : ({root} \subseteq X /\ \A e \in ConflictGraph(M) : e[1] \in X => e[2] \in X) => C \subseteq X
  BY <1>1, ReachableIsLeast
<1>3. C = Closure(M, root)
  BY DEF Closure
<1> HIDE DEF C
<1>4. C \subseteq Templates(M)
  <2>1. \A e \in ConflictGraph(M) : e[2] \in Templates(M)
    BY ConflictGraphIs
  <2> QED
    BY <1>2, <2>1
<1>5. \A X : root \in X => {root} \subseteq X
  OBVIOUS
<1> QED
  BY <1>2, <1>3, <1>4, <1>5

\* A dependency is between accesses of the transactions.
LEMMA DependencyIs ==
    ASSUME NEW M, WellFormed(M), NEW C, C \subseteq Templates(M), NEW d \in Dependencies(M, C)
    PROVE  /\ d = <<d[1], d[2], d[3]>> /\ d[1] \in {"wr", "rw", "ww"}
           /\ d[2].tx \in C /\ d[2] \in Accesses(M, d[2].tx)
           /\ d[3].tx \in C /\ d[3] \in Accesses(M, d[3].tx)
           /\ Conflict(d[2], d[3])
<1> DEFINE index == [t \in C |-> Accesses(M, t)]
<1>1. PICK t \in C : \E a \in index[t] : \E b \in UNION {index[u] : u \in C} :
          d \in {<<k, a, b>> : k \in IF Conflict(a, b) THEN DependencyKinds(a, b) ELSE {}}
  BY DEF Dependencies
<1>2. \A u \in C : index[u] = Accesses(M, u)
  OBVIOUS
<1> HIDE DEF index
<1>3. PICK a \in index[t], u \in C : \E b \in index[u] :
          d \in {<<k, a, b>> : k \in IF Conflict(a, b) THEN DependencyKinds(a, b) ELSE {}}
  BY <1>1
<1>4. PICK b \in index[u] : \E k \in DependencyKinds(a, b) : Conflict(a, b) /\ d = <<k, a, b>>
  BY <1>3
<1>8. PICK k \in DependencyKinds(a, b) : Conflict(a, b) /\ d = <<k, a, b>>
  BY <1>4
<1>5. a \in Accesses(M, t) /\ b \in Accesses(M, u)
  BY <1>2, <1>3, <1>4
<1>6. a.tx = t /\ b.tx = u
  BY <1>5, AccessTyped
<1>7. k \in {"wr", "rw", "ww"}
  BY DEF DependencyKinds
<1> QED
  BY <1>5, <1>6, <1>7, <1>8

\* Wherever two of them conflict there is a dependency.
LEMMA DependencyEdges ==
    ASSUME NEW M, WellFormed(M), NEW C, C \subseteq Templates(M)
    PROVE  {<<d[2].tx, d[3].tx>> : d \in Dependencies(M, C)} = ConflictGraph(M) \cap (C \X C)
<1>1. ASSUME NEW d \in Dependencies(M, C)
      PROVE  <<d[2].tx, d[3].tx>> \in ConflictGraph(M) \cap (C \X C)
  <2>1. /\ d[2].tx \in C /\ d[2] \in Accesses(M, d[2].tx)
        /\ d[3].tx \in C /\ d[3] \in Accesses(M, d[3].tx)
        /\ Conflict(d[2], d[3])
    BY DependencyIs
  <2> QED
    BY <2>1, ConflictGraphIs
<1>2. ASSUME NEW t \in C, NEW u \in C, <<t, u>> \in ConflictGraph(M)
      PROVE  <<t, u>> \in {<<d[2].tx, d[3].tx>> : d \in Dependencies(M, C)}
  <2>1. PICK a \in Accesses(M, t), b \in Accesses(M, u) : Conflict(a, b)
    BY <1>2, ConflictGraphIs
  <2>2. /\ a.tx = t /\ b.tx = u
        /\ a.mode \in Reading \cup Writing /\ b.mode \in Reading \cup Writing
    BY AccessTyped
  <2>3. PICK k \in DependencyKinds(a, b) : TRUE
    BY <2>1, <2>2, ConflictsAreMutual
  <2> DEFINE index == [v \in C |-> Accesses(M, v)]
             of(x) == UNION {{<<j, x, y>> : j \in IF Conflict(x, y) THEN DependencyKinds(x, y) ELSE {}}
                                : y \in UNION {index[v] : v \in C}}
  <2>4. a \in index[t] /\ b \in UNION {index[v] : v \in C}
    OBVIOUS
  <2>5. Dependencies(M, C) = UNION {UNION {of(x) : x \in index[v]} : v \in C}
    BY DEF Dependencies
  <2>6. <<k, a, b>> \in of(a)
    BY <2>1, <2>3, <2>4
  <2> HIDE DEF of, index
  <2>7. <<k, a, b>> \in Dependencies(M, C)
    BY <2>4, <2>5, <2>6
  <2> QED
    BY <2>2, <2>7
<1>3. \A e \in ConflictGraph(M) \cap (C \X C) : e = <<e[1], e[2]>> /\ e[1] \in C /\ e[2] \in C
  OBVIOUS
<1> QED
  BY <1>1, <1>2, <1>3

NextOf(E, u) == {e[2] : e \in {x \in E : x[1] = u}}

After(E, u) == Reachable(NextOf(E, u), E)

\* A cyclic component is what one of its transactions reaches and is reached from.
LEMMA ComponentIs ==
    ASSUME NEW C, NEW deps, NEW E, {<<d[2].tx, d[3].tx>> : d \in deps} = E,
           NEW c \in CyclicComponents(C, deps)
    PROVE  \E t \in C : t \in After(E, t) /\ c = {u \in C : u \in After(E, t) /\ t \in After(E, u)}
<1> DEFINE edges == {<<d[2].tx, d[3].tx>> : d \in deps}
           go == [u \in C |-> Reachable({e[2] : e \in {x \in edges : x[1] = u}}, edges)]
           after(u) == After(E, u)
<1>1. CyclicComponents(C, deps) =
          {{u \in C : u \in go[v] /\ v \in go[u]} : v \in {u \in C : u \in go[u]}}
  BY DEF CyclicComponents
<1>2. edges = E
  OBVIOUS
<1> HIDE DEF edges
<1>3. \A u \in C : go[u] = after(u)
  BY <1>2 DEF After, NextOf
<1> HIDE DEF go
<1>4. PICK v \in C : v \in go[v] /\ c = {u \in C : u \in go[v] /\ v \in go[u]}
  BY <1>1
<1>5. {u \in C : u \in go[v] /\ v \in go[u]} = {u \in C : u \in after(v) /\ v \in after(u)}
  BY <1>3
<1> QED
  BY <1>3, <1>4, <1>5

\* Conflicts go both ways: what lies on a cycle reaches its whole closure,
\* and the cyclic components of a closure are none, or the closure.
THEOREM OneComponent ==
    ASSUME NEW M, WellFormed(M), NEW root \in Templates(M),
           NEW c \in CyclicComponents(Closure(M, root), Dependencies(M, Closure(M, root)))
    PROVE  c = Closure(M, root)
<1> DEFINE C == Closure(M, root)
           E == ConflictGraph(M) \cap (C \X C)
           next(t) == NextOf(E, t)
           after(t) == After(E, t)
<1>1. /\ root \in C /\ C \subseteq Templates(M)
      /\ \A e \in ConflictGraph(M) : e[1] \in C => e[2] \in C
      /\ \A X : (root \in X /\ \A e \in ConflictGraph(M) : e[1] \in X => e[2] \in X) => C \subseteq X
  BY ClosureIs
<1>2. {<<d[2].tx, d[3].tx>> : d \in Dependencies(M, C)} = E
  BY <1>1, DependencyEdges
<1> HIDE DEF C
<1>3. PICK t \in C : t \in after(t) /\ c = {u \in C : u \in after(t) /\ t \in after(u)}
  <2> DEFINE D == Dependencies(M, C)
  <2>1. c \in CyclicComponents(C, D) /\ {<<d[2].tx, d[3].tx>> : d \in D} = E
    BY <1>2 DEF C
  <2> HIDE DEF D, E
  <2>2. \E t \in C : t \in After(E, t) /\ c = {u \in C : u \in After(E, t) /\ t \in After(E, u)}
    BY <2>1, ComponentIs
  <2> QED
    BY <2>2
<1>4. /\ IsFiniteSet(E)
      /\ \A e \in E : /\ e = <<e[1], e[2]>> /\ e[1] \in C /\ e[2] \in C
                      /\ <<e[2], e[1]>> \in E
  BY ConflictGraphIs, FS_Intersection
<1>5. ASSUME NEW u \in C
      PROVE  /\ next(u) \subseteq after(u)
             /\ \A e \in E : e[1] \in after(u) => e[2] \in after(u)
             /\ \A X : (next(u) \subseteq X /\ \A e \in E : e[1] \in X => e[2] \in X) => after(u) \subseteq X
  <2>1. IsFiniteSet(next(u))
    <3> DEFINE out == {x \in E : x[1] = u}
    <3>1. IsFiniteSet(out)
      BY <1>4, FS_Subset
    <3> HIDE DEF out
    <3>2. IsFiniteSet({e[2] : e \in out})
      BY <3>1, TargetsFinite
    <3> QED
      BY <3>2 DEF out, NextOf
  <2> HIDE DEF E
  <2> QED
    BY <1>4, <2>1, ReachableIsLeast DEF After
<1>6. ASSUME NEW u \in C, u \in after(u)
      PROVE  C \subseteq after(u)
  <2> DEFINE X == after(u) \cap C
             Y == C \ after(u)
  <2> HIDE DEF after
  <2>1. \A e \in ConflictGraph(M) : e[1] \in C => e \in E
    <3>1. \A e \in ConflictGraph(M) : e = <<e[1], e[2]>>
      BY ConflictGraphIs
    <3> QED
      BY <1>1, <3>1
  <2>2. \A e \in ConflictGraph(M) : e[1] \in X => e[2] \in X
    BY <1>1, <1>5, <2>1
  <2>3. \A e \in ConflictGraph(M) : e[1] \in Y => e[2] \in Y
    <3> SUFFICES ASSUME NEW e \in ConflictGraph(M), e[1] \in Y, e[2] \in after(u) PROVE FALSE
      BY <1>1
    <3>1. <<e[2], e[1]>> \in E
      BY <1>4, <2>1
    <3>2. <<e[2], e[1]>>[2] \in after(u)
      BY <1>5, <3>1
    <3> QED
      BY <3>2
  <2>4. root \in X => C \subseteq X
    BY <1>1, <2>2
  <2>5. root \in Y => C \subseteq Y
    BY <1>1, <2>3
  <2> QED
    BY <1>1, <1>6, <2>4, <2>5
<1>7. ASSUME NEW u \in C
      PROVE  u \in after(u)
  <2> DEFINE Y == {e[2] : e \in E}
  <2>1. after(t) \subseteq Y
    <3>1. next(t) \subseteq Y /\ \A e \in E : e[1] \in Y => e[2] \in Y
      BY DEF NextOf
    <3> HIDE DEF next, after, Y
    <3> QED
      BY <1>5, <3>1
  <2>2. u \in Y
    BY <1>3, <1>6, <2>1
  <2>3. PICK e \in E : e[2] = u
    BY <2>2
  <2>4. <<u, e[1]>> \in E /\ e = <<e[1], u>> /\ e[1] \in C
    BY <1>4, <2>3
  <2>5. <<u, e[1]>>[2] \in next(u)
    BY <2>4 DEF NextOf
  <2>6. e[1] \in after(u)
    BY <1>5, <2>5
  <2> HIDE DEF after
  <2> QED
    BY <1>5, <2>3, <2>6
<1>8. C \subseteq c
  <2> HIDE DEF after
  <2> QED
    BY <1>3, <1>6, <1>7
<1> QED
  BY <1>3, <1>8 DEF C

-----------------------------------------------------------------------------
(* What a verdict on a closure reads *)

\* What a fact, or an anchor, gives a verdict to rest on.
LEMMA GroundsAre ==
    ASSUME NEW fact, NEW anchors
    PROVE  /\ PresentFact(fact, anchors).present = {fact} /\ PresentFact(fact, anchors).read = anchors
           /\ AnchorOnly(anchors).present = {} /\ AnchorOnly(anchors).read = anchors
  BY DEF PresentFact, AnchorOnly, NoGrounds

\* What grounds joined rest on.
LEMMA JoinedAre ==
    ASSUME NEW G
    PROVE  /\ Joined(G).present = UNION {g.present : g \in G}
           /\ Joined(G).read = UNION {g.read : g \in G}
  BY DEF Joined

\* What is joined is not lost.
LEMMA JoinedHolds ==
    ASSUME NEW G, NEW g \in G
    PROVE  g.present \subseteq Joined(G).present /\ g.read \subseteq Joined(G).read
  BY JoinedAre

\* The verdict when not every transaction is declared serializable.
CyclesOf(M, root) ==
    CyclicComponents(Closure(M, root), Dependencies(M, Closure(M, root)))

CycleDependencies(M, root) ==
    {d \in Dependencies(M, Closure(M, root)) : Inside(CyclesOf(M, root), d)}

EvidenceOf(M, d) == Evidence(M, d[1], d[2], d[3])

AllDeclared(M, root) == \A t \in Closure(M, root) : M.templates[t].iso = "serializable"

OpenDependencies(M, root) == {d \in CycleDependencies(M, root) : EvidenceOf(M, d) = {}}

\* The three verdicts of a closure: every transaction declared serializable,
\* every dependency with its evidence, or some left open; and what each rests on.
LEMMA VerdictIs ==
    ASSUME NEW M, NEW root
    PROVE  LET V == SerializabilityGrounds(M, root)
               C == Closure(M, root)
           IN  /\ V.proven \in BOOLEAN
               /\ V.proven <=> AllDeclared(M, root) \/ OpenDependencies(M, root) = {}
               /\ AllDeclared(M, root) =>
                    V.grounds = Joined({ClosureFact(root, C)} \cup {IsolationFact(M, t) : t \in C})
               /\ ~AllDeclared(M, root) /\ V.proven =>
                    V.grounds = Joined({ClosureFact(root, C), ComponentsFact(root, C, CyclesOf(M, root))}
                                        \cup UNION {EvidenceOf(M, d) : d \in CycleDependencies(M, root)})
               /\ ~V.proven =>
                    \A c \in CyclesOf(M, root) :
                        (\E d \in OpenDependencies(M, root) : d[2].tx \in c) =>
                            {TransactionKey(t) : t \in c} \subseteq V.grounds.read
<1> DEFINE V == SerializabilityGrounds(M, root)
           C == Closure(M, root)
           X == CyclesOf(M, root)
           D == CycleDependencies(M, root)
           e == [d \in D |-> EvidenceOf(M, d)]
           open == OpenDependencies(M, root)
<1>1. V = ClosureVerdict(M, root, C, Dependencies(M, C))
  BY DEF SerializabilityGrounds
<1>2. CASE AllDeclared(M, root)
  <2>1. V = [proven |-> TRUE, grounds |-> Joined({ClosureFact(root, C)} \cup {IsolationFact(M, t) : t \in C})]
    BY <1>1, <1>2 DEF ClosureVerdict, AllDeclared
  <2> QED
    BY <1>2, <2>1
<1>3. CASE ~AllDeclared(M, root)
  <2>1. V = CycleVerdict(M, root, C, Dependencies(M, C), X)
    BY <1>1, <1>3 DEF ClosureVerdict, AllDeclared, CyclesOf
  <2>2. [d \in {x \in Dependencies(M, C) : Inside(X, x)} |-> Evidence(M, d[1], d[2], d[3])] = e
    BY DEF CycleDependencies, EvidenceOf
  <2>3. V = VerdictFrom(M, root, C, X, e)
    BY <2>1, <2>2 DEF CycleVerdict
  <2>4. {d \in DOMAIN e : e[d] = {}} = open
    BY DEF OpenDependencies
  <2>5. DOMAIN e = D /\ UNION {e[d] : d \in D} = UNION {EvidenceOf(M, d) : d \in D}
    OBVIOUS
  <2> HIDE DEF e, C, X, D, open
  <2>6. CASE open = {}
    <3>1. V = [proven |-> TRUE,
               grounds |-> Joined({ClosureFact(root, C), ComponentsFact(root, C, X)}
                                 \cup UNION {e[d] : d \in D})]
      BY <2>3, <2>4, <2>5, <2>6 DEF VerdictFrom
    <3> QED
      BY <1>3, <2>5, <2>6, <3>1 DEF open, D, C, X
  <2>7. CASE open # {}
    <3> DEFINE anchored == {AnchorOnly({TransactionKey(t) : t \in c}) :
                                c \in {x \in X : \E d \in open : d[2].tx \in x}}
               before == {IsolationFact(M, t) : t \in {u \in C : M.templates[u].iso # "serializable"}}
               gaps == UNION {Gaps(M, d[1], d[2], d[3]) : d \in open}
    <3>1. V = [proven |-> FALSE, grounds |-> Joined(before \cup anchored \cup gaps)]
      BY <2>3, <2>4, <2>7 DEF VerdictFrom
    <3> HIDE DEF before, gaps
    <3>2. ASSUME NEW c \in X, \E d \in open : d[2].tx \in c
          PROVE  {TransactionKey(t) : t \in c} \subseteq V.grounds.read
      <4>1. AnchorOnly({TransactionKey(t) : t \in c}) \in before \cup anchored \cup gaps
        BY <3>2
      <4>2. AnchorOnly({TransactionKey(t) : t \in c}).read = {TransactionKey(t) : t \in c}
        BY GroundsAre
      <4> HIDE DEF anchored
      <4> QED
        BY <3>1, <4>1, <4>2, JoinedHolds
    <3> HIDE DEF anchored
    <3>3. V.proven = FALSE
      BY <3>1
    <3> QED
      BY <1>3, <2>7, <3>2, <3>3 DEF open, X
  <2> QED
    BY <2>6, <2>7
<1> QED
  BY <1>2, <1>3

\* Proven or not, a verdict reads every transaction of the closure.
THEOREM ReadsItsClosure ==
    ASSUME NEW M, WellFormed(M), NEW root \in Templates(M), NEW t \in Closure(M, root)
    PROVE  TransactionKey(t) \in SerializabilityGrounds(M, root).grounds.read
<1> DEFINE V == SerializabilityGrounds(M, root)
           C == Closure(M, root)
           keys == {TransactionKey(u) : u \in C}
<1>1. TransactionKey(t) \in keys
  OBVIOUS
<1>2. ClosureFact(root, C).read = keys
  BY GroundsAre DEF ClosureFact
<1> HIDE DEF keys
<1>3. CASE V.proven
  <2>1. PICK G : V.grounds = Joined(G) /\ ClosureFact(root, C) \in G
    BY <1>3, VerdictIs
  <2> HIDE DEF V
  <2> QED
    BY <1>1, <1>2, <2>1, JoinedHolds DEF V
<1>4. CASE ~V.proven
  <2>1. OpenDependencies(M, root) # {}
    BY <1>4, VerdictIs
  <2>2. PICK d \in Dependencies(M, C) : d \in OpenDependencies(M, root) /\ Inside(CyclesOf(M, root), d)
    BY <2>1 DEF OpenDependencies, CycleDependencies
  <2>3. PICK c \in CyclesOf(M, root) : d[2].tx \in c
    BY <2>2 DEF Inside
  <2>4. c = C
    BY OneComponent DEF CyclesOf
  <2>5. {TransactionKey(u) : u \in c} \subseteq V.grounds.read
    BY <1>4, <2>2, <2>3, VerdictIs
  <2> QED
    BY <2>4, <2>5
<1> QED
  BY <1>3, <1>4

-----------------------------------------------------------------------------
(* What two specifications share *)

\* Nothing of the transaction is changed between the two.
Alike(M, N, t) ==
    /\ t \in Templates(M) /\ t \in Templates(N) /\ M.schema = N.schema
    /\ M.templates[t].iso = N.templates[t].iso
    /\ M.templates[t].steps = N.templates[t].steps

\* Two transactions are two declarations.
LEMMA KeysDiffer ==
    ASSUME NEW t, NEW u
    PROVE  (TransactionKey(t) = TransactionKey(u)) <=> t = u
  BY DEF TransactionKey

\* What the partition declares of a transaction.
LEMMA MembersAre ==
    ASSUME NEW M, NEW t
    PROVE  /\ TransactionKey(t) \in DOMAIN Members(M) <=> t \in Templates(M)
           /\ t \in Templates(M) =>
                Members(M)[TransactionKey(t)] = [iso |-> M.templates[t].iso, steps |-> M.templates[t].steps]
<1> DEFINE keys == {TransactionKey(u) : u \in Templates(M)} \cup {ObjectKey(o) : o \in DOMAIN M.schema}
                    \cup {Requirement(r) : r \in RequirementKeys(M)}
<1>1. DOMAIN Members(M) = keys
  BY DEF Members
<1>2. TransactionKey(t)[1] = "transaction" /\ TransactionKey(t)[2] = t
  BY DEF TransactionKey
<1>3. \A o : ObjectKey(o)[1] = "object"
  BY DEF ObjectKey
<1>4. \A r : Requirement(r)[1] = "requirement"
  BY DEF Requirement
<1>5. TransactionKey(t) \in keys <=> t \in Templates(M)
  BY <1>2, <1>3, <1>4, KeysDiffer
<1>6. ASSUME t \in Templates(M)
      PROVE  Members(M)[TransactionKey(t)] = [iso |-> M.templates[t].iso, steps |-> M.templates[t].steps]
  <2>1. TransactionKey(t) \in keys
    BY <1>5, <1>6
  <2> HIDE DEF keys
  <2> QED
    BY <1>1, <1>2, <2>1 DEF Members
<1> QED
  BY <1>1, <1>5, <1>6

\* A transaction no declaration of which changed is the same on both sides.
LEMMA UnchangedIsAlike ==
    ASSUME NEW B, NEW H, B.schema = H.schema, NEW t \in Templates(B) \cup Templates(H),
           TransactionKey(t) \notin ChangedDeclarations(B, H)
    PROVE  Alike(B, H, t)
<1> DEFINE k == TransactionKey(t)
<1>1. k \in DOMAIN Members(B) \/ k \in DOMAIN Members(H)
  BY MembersAre
<1> HIDE DEF k
<1>2. k \in DOMAIN Members(B) /\ k \in DOMAIN Members(H) /\ Members(B)[k] = Members(H)[k]
  BY <1>1 DEF ChangedDeclarations, k
<1>3. /\ t \in Templates(B) /\ t \in Templates(H)
      /\ Members(B)[k] = [iso |-> B.templates[t].iso, steps |-> B.templates[t].steps]
      /\ Members(H)[k] = [iso |-> H.templates[t].iso, steps |-> H.templates[t].steps]
  BY <1>2, MembersAre DEF k
<1>4. /\ Members(B)[k].iso = B.templates[t].iso /\ Members(B)[k].steps = B.templates[t].steps
      /\ Members(H)[k].iso = H.templates[t].iso /\ Members(H)[k].steps = H.templates[t].steps
  BY <1>3
<1> QED
  BY <1>2, <1>3, <1>4 DEF Alike

\* What differs between two specifications differs either way.
LEMMA ChangedIsMutual ==
    ASSUME NEW B, NEW H
    PROVE  ChangedDeclarations(B, H) = ChangedDeclarations(H, B)
  BY DEF ChangedDeclarations

\* A transaction that is the same on both sides accesses the same.
LEMMA SameAccesses ==
    ASSUME NEW M, NEW N, NEW t, Alike(M, N, t)
    PROVE  Accesses(M, t) = Accesses(N, t)
<1>1. \A i : StepAccesses(M, t, i) = StepAccesses(N, t, i)
  BY DEF StepAccesses, Alike
<1> HIDE DEF StepAccesses
<1>2. M.templates[t].steps = N.templates[t].steps
  BY DEF Alike
<1> QED
  BY <1>1, <1>2 DEF Accesses

\* So is all that is derived from the transaction alone.
LEMMA SameTransaction ==
    ASSUME NEW M, NEW N, NEW t, Alike(M, N, t)
    PROVE  /\ Isolated(M, t) = Isolated(N, t)
           /\ Guards(M, t) = Guards(N, t)
           /\ SerializesAtItsRead(M, t) = SerializesAtItsRead(N, t)
           /\ IsolationFact(M, t) = IsolationFact(N, t)
           /\ \A i : LockFact(M, t, i) = LockFact(N, t, i)
           /\ \A i, coverage, compared :
                GuardedMutation(M, t, i, coverage, compared) = GuardedMutation(N, t, i, coverage, compared)
           /\ \A i, c : Observed(M, t, i, c) = Observed(N, t, i, c)
<1>1. /\ M.templates[t].iso = N.templates[t].iso
      /\ M.templates[t].steps = N.templates[t].steps
      /\ M.schema = N.schema
  BY DEF Alike
<1>2. \A sel : IdentifiesInstance(M, sel) = IdentifiesInstance(N, sel)
  BY <1>1 DEF IdentifiesInstance
<1>3. Isolated(M, t) = Isolated(N, t)
  BY <1>1 DEF Isolated
<1>4. Guards(M, t) = Guards(N, t)
  BY <1>1, <1>2 DEF Guards
<1>5. SerializesAtItsRead(M, t) = SerializesAtItsRead(N, t)
  BY <1>1, <1>2, SameAccesses DEF SerializesAtItsRead
<1>6. IsolationFact(M, t) = IsolationFact(N, t)
  BY <1>1 DEF IsolationFact
<1>7. \A i : LockFact(M, t, i) = LockFact(N, t, i)
  BY <1>1 DEF LockFact
<1>8. \A i, coverage, compared :
        GuardedMutation(M, t, i, coverage, compared) = GuardedMutation(N, t, i, coverage, compared)
  BY <1>1 DEF GuardedMutation
<1>9. \A i, c : Observed(M, t, i, c) = Observed(N, t, i, c)
  BY <1>1 DEF Observed
<1> QED
  BY <1>3, <1>4, <1>5, <1>6, <1>7, <1>8, <1>9

\* So is all that is derived from an access of it, its protections, locks and
\* guards included.
LEMMA SameAccess ==
    ASSUME NEW M, NEW N, NEW a, Alike(M, N, a.tx)
    PROVE  /\ IdentifiesInstance(M, a.sel) = IdentifiesInstance(N, a.sel)
           /\ Protected(M, a) = Protected(N, a)
           /\ HeldWrite(M, a) = HeldWrite(N, a)
           /\ GuardsOf(M, a) = GuardsOf(N, a)
           /\ LaterGuards(M, a) = LaterGuards(N, a)
           /\ ProtectionFact(M, a) = ProtectionFact(N, a)
           /\ HeldWriteFact(M, a) = HeldWriteFact(N, a)
           /\ ReaderLocks(M, a) = ReaderLocks(N, a)
           /\ WriterLocks(M, a) = WriterLocks(N, a)
           /\ \A i : StateFact(M, a, i) = StateFact(N, a, i)
           /\ \A b, i : StateObserved(M, a, b, i) = StateObserved(N, a, b, i)
<1>1. /\ M.templates[a.tx].steps = N.templates[a.tx].steps
      /\ M.schema = N.schema
  BY DEF Alike
<1>2. IdentifiesInstance(M, a.sel) = IdentifiesInstance(N, a.sel)
  BY <1>1 DEF IdentifiesInstance
<1>3. Guards(M, a.tx) = Guards(N, a.tx) /\ Isolated(M, a.tx) = Isolated(N, a.tx)
  BY SameTransaction
<1>4. Protected(M, a) = Protected(N, a)
  BY <1>1, <1>3 DEF Protected
<1>5. HeldWrite(M, a) = HeldWrite(N, a)
  BY <1>3, <1>4 DEF HeldWrite
<1>6. GuardsOf(M, a) = GuardsOf(N, a)
  BY <1>1, <1>3 DEF GuardsOf
<1>7. LaterGuards(M, a) = LaterGuards(N, a)
  BY <1>6 DEF LaterGuards
<1>8. \A i, coverage, compared :
        GuardedMutation(M, a.tx, i, coverage, compared) = GuardedMutation(N, a.tx, i, coverage, compared)
  BY SameTransaction
<1>9. ProtectionFact(M, a) = ProtectionFact(N, a)
  BY <1>6, <1>8 DEF ProtectionFact
<1>10. IsolationFact(M, a.tx) = IsolationFact(N, a.tx)
  BY SameTransaction
<1>11. HeldWriteFact(M, a) = HeldWriteFact(N, a)
  BY <1>3, <1>9, <1>10 DEF HeldWriteFact
<1>12. ReaderLocks(M, a) = ReaderLocks(N, a) /\ WriterLocks(M, a) = WriterLocks(N, a)
  <2>1. \A modes : CoveringLocks(M, a, modes) = CoveringLocks(N, a, modes)
    BY <1>1 DEF CoveringLocks
  <2> QED
    BY <2>1 DEF ReaderLocks, WriterLocks, EarlierLocks
<1>13. \A i, c : Observed(M, a.tx, i, c) = Observed(N, a.tx, i, c)
  BY SameTransaction
<1>14. ASSUME NEW i PROVE StateFact(M, a, i) = StateFact(N, a, i)
  <2> DEFINE s == N.templates[a.tx].steps
             seen(K) == {d \in s[i].compare : a.step \in Observed(K, a.tx, i, d)}
             compared == {c.field : c \in seen(N)}
  <2>1. seen(M) = seen(N)
    BY <1>13
  <2> HIDE DEF seen
  <2>2. {c.field : c \in seen(M)} = compared
    BY <2>1
  <2> HIDE DEF compared
  <2>3. /\ StateFact(M, a, i) = GuardedMutation(M, a.tx, i, <<"observed_state", s[a.step].bind>>, compared)
        /\ StateFact(N, a, i) = GuardedMutation(N, a.tx, i, <<"observed_state", s[a.step].bind>>, compared)
    BY <1>1, <2>2 DEF StateFact, seen, compared
  <2> QED
    BY <1>8, <2>3
<1>15. \A b, i : StateObserved(M, a, b, i) = StateObserved(N, a, b, i)
  BY <1>1, <1>13 DEF StateObserved
<1> QED
  BY <1>2, <1>4, <1>5, <1>6, <1>7, <1>9, <1>11, <1>12, <1>14, <1>15

\* A version comparison depends on one thing beside its own transaction: that no
\* transaction deletes from the object, when the other access may insert.
LEMMA SameVersion ==
    ASSUME NEW M, NEW N, NEW a, Alike(M, N, a.tx), NEW b, NEW i
    PROVE  /\ VersionFact(M, a, b, i) = VersionFact(N, a, b, i)
           /\ (b.mode \in {"Insert", "UpsertReadWrite"} =>
                    Deleter(M, a.sel.object) = Deleter(N, a.sel.object))
                => VersionObserved(M, a, b, i) = VersionObserved(N, a, b, i)
<1>1. /\ M.templates[a.tx].steps = N.templates[a.tx].steps
      /\ M.schema = N.schema
  BY DEF Alike
<1>2. /\ \A c : Observed(M, a.tx, i, c) = Observed(N, a.tx, i, c)
      /\ \A coverage, compared :
            GuardedMutation(M, a.tx, i, coverage, compared) = GuardedMutation(N, a.tx, i, coverage, compared)
  BY SameTransaction
<1>3. VersionFact(M, a, b, i) = VersionFact(N, a, b, i)
  <2> DEFINE s == N.templates[a.tx].steps
             version == N.schema[a.sel.object].version
             seen(K) == UNION {Observed(K, a.tx, i, c) : c \in {d \in s[i].compare : d.field = version}}
             read == s[LeastOf(seen(N))].bind
             guard == GuardedMutation(N, a.tx, i, <<"observed_version", read, version>>, {version})
             absence == PresentFact(NoDeleters(a.sel.object), {ObjectKey(a.sel.object)})
  <2>1. seen(M) = seen(N)
    BY <1>2
  <2>2. s[LeastOf(seen(M))].bind = read
    BY <2>1
  <2> HIDE DEF read
  <2>3. GuardedMutation(M, a.tx, i, <<"observed_version", read, version>>, {version}) = guard
    BY <1>2
  <2>4. VersionFact(M, a, b, i) =
            IF b.mode \in {"Insert", "UpsertReadWrite"} THEN Joined({guard, absence}) ELSE guard
    BY <1>1, <2>2, <2>3 DEF VersionFact
  <2>5. VersionFact(N, a, b, i) =
            IF b.mode \in {"Insert", "UpsertReadWrite"} THEN Joined({guard, absence}) ELSE guard
    BY DEF VersionFact, read
  <2> QED
    BY <2>4, <2>5
<1>4. ASSUME b.mode \in {"Insert", "UpsertReadWrite"} => Deleter(M, a.sel.object) = Deleter(N, a.sel.object)
      PROVE  VersionObserved(M, a, b, i) = VersionObserved(N, a, b, i)
  BY <1>1, <1>2, <1>4 DEF VersionObserved
<1> QED
  BY <1>3, <1>4

-----------------------------------------------------------------------------
(* The evidence of a dependency, in two specifications that share it *)

\* What makes an object one that is deleted from is a changed declaration.
LEMMA DeleterIsChanged ==
    ASSUME NEW M, NEW N, Comparable(M, N), NEW o, ~Deleter(M, o), Deleter(N, o)
    PROVE  \E k \in ChangedDeclarations(M, N) : k \in AbsenceMembers(NoDeleters(o), N)
<1>1. PICK u \in Templates(N) : \E a \in Accesses(N, u) : a.mode = "Delete" /\ a.sel.object = o
  BY DEF Deleter
<1>2. PICK a \in Accesses(N, u) : a.mode = "Delete" /\ a.sel.object = o
  BY <1>1
<1>3. TransactionKey(u) \in ChangedDeclarations(M, N)
  <2> SUFFICES ASSUME TransactionKey(u) \notin ChangedDeclarations(M, N) PROVE FALSE
    OBVIOUS
  <2>1. M.schema = N.schema
    BY DEF Comparable
  <2>2. Alike(M, N, u)
    BY <2>1, UnchangedIsAlike
  <2>3. u \in Templates(M) /\ a \in Accesses(M, u)
    BY <2>2, SameAccesses DEF Alike
  <2> QED
    BY <1>2, <2>3 DEF Deleter
<1>4. TransactionKey(u) \in AbsenceMembers(NoDeleters(o), N)
  <2>1. /\ a.step \in DOMAIN N.templates[u].steps
        /\ N.templates[u].steps[a.step].kind = "delete"
        /\ N.templates[u].steps[a.step].sel.object = o
    BY <1>2, AccessTyped DEF Comparable
  <2>2. NoDeleters(o).kind = "no_deleters" /\ NoDeleters(o).object = o
    BY DEF NoDeleters
  <2> QED
    BY <2>1, <2>2 DEF AbsenceMembers
<1> QED
  BY <1>3, <1>4

\* The first of a set of steps is one of them.
LEMMA LeastOfIs ==
    ASSUME NEW S, S \subseteq Nat, S # {}
    PROVE  LeastOf(S) \in S /\ \A i \in S : LeastOf(S) <= i
  BY LeastNumber DEF LeastOf

\* The first of the steps is the first of fewer of them that it is among.
LEMMA LeastOfSubset ==
    ASSUME NEW S, S \subseteq Nat, NEW T, T \subseteq S, LeastOf(S) \in T
    PROVE  LeastOf(T) = LeastOf(S)
<1>1. S # {} /\ T # {} /\ T \subseteq Nat
  OBVIOUS
<1>2. LeastOf(S) \in S /\ \A i \in S : LeastOf(S) <= i
  BY <1>1, LeastOfIs
<1>3. LeastOf(T) \in T /\ \A i \in T : LeastOf(T) <= i
  BY <1>1, LeastOfIs
<1>4. LeastOf(T) <= LeastOf(S) /\ LeastOf(S) <= LeastOf(T) /\ LeastOf(T) \in Nat /\ LeastOf(S) \in Nat
  BY <1>1, <1>2, <1>3
<1> QED
  BY <1>4

\* The later guards that cover what the reader observed.
Covering(M, a, b) ==
    {i \in LaterGuards(M, a) : VersionObserved(M, a, b, i) \/ StateObserved(M, a, b, i)}

\* The evidence of an observation: its own protection, or the first later guard
\* that covers it, or none.
LEMMA ObservationIs ==
    ASSUME NEW M, NEW a, NEW b
    PROVE  LET first == LeastOf(Covering(M, a, b))
           IN  /\ Protected(M, a) => ObservationEvidence(M, a, b) = {ProtectionFact(M, a)}
               /\ (~Protected(M, a) /\ IdentifiesInstance(M, a.sel) /\ Covering(M, a, b) # {}) =>
                    ObservationEvidence(M, a, b) =
                        {IF VersionObserved(M, a, b, first) THEN VersionFact(M, a, b, first)
                         ELSE StateFact(M, a, first)}
               /\ (~Protected(M, a) /\ ~(IdentifiesInstance(M, a.sel) /\ Covering(M, a, b) # {})) =>
                    ObservationEvidence(M, a, b) = {}
<1>1. Covering(M, a, b) =
        {i \in LaterGuards(M, a) : VersionObserved(M, a, b, i) \/ StateObserved(M, a, b, i)}
  BY DEF Covering
<1> HIDE DEF Covering
<1> QED
  BY <1>1 DEF ObservationEvidence

\* It is the same on both sides when the object has a deleter on both or neither.
LEMMA SameObservation ==
    ASSUME NEW M, NEW N, NEW a, NEW b, Alike(M, N, a.tx),
           b.mode \in {"Insert", "UpsertReadWrite"} => Deleter(M, a.sel.object) = Deleter(N, a.sel.object)
    PROVE  ObservationEvidence(M, a, b) = ObservationEvidence(N, a, b)
<1>1. \A i : /\ VersionObserved(M, a, b, i) = VersionObserved(N, a, b, i)
             /\ VersionFact(M, a, b, i) = VersionFact(N, a, b, i)
  BY SameVersion
<1>2. /\ Protected(M, a) = Protected(N, a)
      /\ IdentifiesInstance(M, a.sel) = IdentifiesInstance(N, a.sel)
      /\ LaterGuards(M, a) = LaterGuards(N, a)
      /\ ProtectionFact(M, a) = ProtectionFact(N, a)
      /\ \A i : StateFact(M, a, i) = StateFact(N, a, i) /\ StateObserved(M, a, b, i) = StateObserved(N, a, b, i)
  BY SameAccess
<1>3. Covering(M, a, b) = Covering(N, a, b)
  BY <1>1, <1>2 DEF Covering
<1> DEFINE first == LeastOf(Covering(N, a, b))
<1>4. LeastOf(Covering(M, a, b)) = first
  BY <1>3
<1> HIDE DEF first
<1>5. VersionObserved(M, a, b, first) <=> VersionObserved(N, a, b, first)
  BY <1>1
<1>6. VersionFact(M, a, b, first) = VersionFact(N, a, b, first) /\ StateFact(M, a, first) = StateFact(N, a, first)
  BY <1>1, <1>2
<1>7. Protected(M, a) <=> Protected(N, a)
  BY <1>2
<1>8. IdentifiesInstance(M, a.sel) <=> IdentifiesInstance(N, a.sel)
  BY <1>2
<1>9. CASE Protected(M, a)
  <2>1. ObservationEvidence(M, a, b) = {ProtectionFact(M, a)} /\ ObservationEvidence(N, a, b) = {ProtectionFact(N, a)}
    BY <1>7, <1>9, ObservationIs
  <2> QED
    BY <1>2, <2>1
<1>10. CASE ~Protected(M, a) /\ IdentifiesInstance(M, a.sel) /\ Covering(M, a, b) # {}
  <2>1. /\ ObservationEvidence(M, a, b) = {IF VersionObserved(M, a, b, first) THEN VersionFact(M, a, b, first)
                                            ELSE StateFact(M, a, first)}
        /\ ObservationEvidence(N, a, b) = {IF VersionObserved(N, a, b, first) THEN VersionFact(N, a, b, first)
                                            ELSE StateFact(N, a, first)}
    BY <1>3, <1>4, <1>7, <1>8, <1>10, ObservationIs DEF first
  <2> QED
    BY <1>5, <1>6, <2>1
<1>11. CASE ~Protected(M, a) /\ ~(IdentifiesInstance(M, a.sel) /\ Covering(M, a, b) # {})
  BY <1>3, <1>7, <1>8, <1>11, ObservationIs
<1> QED
  BY <1>9, <1>10, <1>11

\* Evidence that a deletion takes away names its absence.
LEMMA ObservationMoves ==
    ASSUME NEW M, NEW N, Comparable(M, N), NEW a, NEW b, Alike(M, N, a.tx),
           ~Deleter(M, a.sel.object), Deleter(N, a.sel.object),
           ObservationEvidence(M, a, b) # ObservationEvidence(N, a, b)
    PROVE  \E g \in ObservationEvidence(M, a, b) : NoDeleters(a.sel.object) \in g.present
<1> DEFINE o == a.sel.object
           S == Covering(M, a, b)
           T == Covering(N, a, b)
<1>1. b.mode \in {"Insert", "UpsertReadWrite"}
  BY SameObservation
<1>2. \A i : ~VersionObserved(N, a, b, i)
  BY <1>1 DEF VersionObserved
<1>3. /\ Protected(M, a) <=> Protected(N, a)
      /\ IdentifiesInstance(M, a.sel) <=> IdentifiesInstance(N, a.sel)
      /\ LaterGuards(M, a) = LaterGuards(N, a)
      /\ ProtectionFact(M, a) = ProtectionFact(N, a)
      /\ \A i : StateFact(M, a, i) = StateFact(N, a, i)
      /\ \A i : StateObserved(M, a, b, i) <=> StateObserved(N, a, b, i)
  BY SameAccess
<1>4. T \subseteq S
  BY <1>2, <1>3 DEF Covering
<1>5. S \subseteq Nat
  <2>1. DOMAIN M.templates[a.tx].steps \subseteq Nat
    BY DEF Comparable, WellFormed, Alike
  <2> QED
    BY <2>1 DEF Covering, LaterGuards, GuardsOf, Guards
<1> HIDE DEF S, T
<1>6. ~Protected(M, a)
  <2> SUFFICES ASSUME Protected(M, a) PROVE FALSE
    OBVIOUS
  <2>1. ObservationEvidence(M, a, b) = {ProtectionFact(M, a)} /\ ObservationEvidence(N, a, b) = {ProtectionFact(N, a)}
    BY <1>3, ObservationIs
  <2> QED
    BY <1>3, <2>1
<1>7. IdentifiesInstance(M, a.sel) /\ S # {}
  <2> SUFFICES ASSUME ~(IdentifiesInstance(M, a.sel) /\ S # {}) PROVE FALSE
    OBVIOUS
  <2>1. ~(IdentifiesInstance(N, a.sel) /\ T # {})
    BY <1>3, <1>4
  <2>2. ObservationEvidence(M, a, b) = {} /\ ObservationEvidence(N, a, b) = {}
    BY <1>3, <1>6, <2>1, ObservationIs DEF S, T
  <2> QED
    BY <2>2
<1> DEFINE first == LeastOf(S)
<1>8. first \in S
  BY <1>5, <1>7, LeastOfIs
<1>9. ObservationEvidence(M, a, b) = {IF VersionObserved(M, a, b, first) THEN VersionFact(M, a, b, first)
                                       ELSE StateFact(M, a, first)}
  BY <1>6, <1>7, ObservationIs DEF S
<1>10. VersionObserved(M, a, b, first)
  <2> SUFFICES ASSUME ~VersionObserved(M, a, b, first) PROVE FALSE
    OBVIOUS
  <2>1. StateObserved(M, a, b, first) /\ first \in LaterGuards(M, a)
    BY <1>8 DEF S, Covering
  <2>2. first \in T
    BY <1>3, <2>1 DEF T, Covering
  <2>3. LeastOf(T) = first
    BY <1>4, <1>5, <2>2, LeastOfSubset
  <2>4. ObservationEvidence(N, a, b) = {IF VersionObserved(N, a, b, LeastOf(T)) THEN VersionFact(N, a, b, LeastOf(T))
                                         ELSE StateFact(N, a, LeastOf(T))}
    BY <1>3, <1>6, <1>7, <2>2, ObservationIs DEF T
  <2>5. ObservationEvidence(N, a, b) = {StateFact(N, a, first)}
    BY <1>2, <2>3, <2>4
  <2>6. ObservationEvidence(M, a, b) = {StateFact(M, a, first)}
    BY <1>9
  <2> QED
    BY <1>3, <2>5, <2>6
<1>11. NoDeleters(o) \in VersionFact(M, a, b, first).present
  <2> DEFINE absence == PresentFact(NoDeleters(o), {ObjectKey(o)})
  <2>1. \E guard : VersionFact(M, a, b, first) = Joined({guard, absence})
    BY <1>1 DEF VersionFact
  <2>2. NoDeleters(o) \in absence.present
    BY GroundsAre
  <2> HIDE DEF absence
  <2>3. PICK guard : VersionFact(M, a, b, first) = Joined({guard, absence})
    BY <2>1
  <2>4. absence \in {guard, absence}
    OBVIOUS
  <2>5. absence.present \subseteq Joined({guard, absence}).present
    BY <2>4, JoinedHolds
  <2> QED
    BY <2>2, <2>3, <2>5
<1> QED
  BY <1>9, <1>10, <1>11

\* The evidence of a read-write dependency is the same when its observation's is,
\* and where it is another, it was the observation's.
LEMMA ReadWriteFollows ==
    ASSUME NEW M, NEW N, NEW a, NEW b, Alike(M, N, a.tx), Alike(M, N, b.tx)
    PROVE  /\ ObservationEvidence(M, a, b) = ObservationEvidence(N, a, b)
                => ReadWriteEvidence(M, a, b) = ReadWriteEvidence(N, a, b)
           /\ ObservationEvidence(M, a, b) # {} =>
                \/ ReadWriteEvidence(M, a, b) = ReadWriteEvidence(N, a, b)
                \/ ReadWriteEvidence(M, a, b) = ObservationEvidence(M, a, b)
<1>1. /\ M.templates[a.tx].steps = N.templates[a.tx].steps
      /\ M.templates[b.tx].steps = N.templates[b.tx].steps
  BY DEF Alike
<1>2. /\ ReaderLocks(M, a) = ReaderLocks(N, a) /\ WriterLocks(M, b) = WriterLocks(N, b)
      /\ GuardsOf(M, b) = GuardsOf(N, b)
      /\ Protected(M, b) <=> Protected(N, b)
      /\ IdentifiesInstance(M, a.sel) <=> IdentifiesInstance(N, a.sel)
  BY SameAccess
<1>3. /\ SerializesAtItsRead(M, a.tx) <=> SerializesAtItsRead(N, a.tx)
      /\ IsolationFact(M, a.tx) = IsolationFact(N, a.tx)
      /\ \A i : LockFact(M, a.tx, i) = LockFact(N, a.tx, i)
      /\ \A i : LockFact(M, b.tx, i) = LockFact(N, b.tx, i)
      /\ \A i, coverage, compared :
           GuardedMutation(M, b.tx, i, coverage, compared) = GuardedMutation(N, b.tx, i, coverage, compared)
  BY SameTransaction
<1> DEFINE readerLocks == ReaderLocks(N, a)
           readerLock == LockFact(N, a.tx, LeastOf(readerLocks))
           locked == N.templates[a.tx].steps[LeastOf(readerLocks)]
           guard == IF b.step \in GuardsOf(N, b) THEN b.step ELSE LeastOf(GuardsOf(N, b))
           pair == LockPairEvidence(N, a, b)
           lockedReader == Joined({readerLock,
                GuardedMutation(N, b.tx, guard, <<"locked_reader", locked.sel, locked.lock>>, {})})
           Chosen(observation) ==
              IF readerLocks # {} /\ WriterLocks(N, b) # {} THEN {pair}
              ELSE IF observation # {} THEN observation
              ELSE IF SerializesAtItsRead(N, a.tx) THEN {IsolationFact(N, a.tx)}
              ELSE IF readerLocks # {} /\ Protected(N, b) /\ IdentifiesInstance(N, a.sel)
              THEN {lockedReader} ELSE {}
<1>4. LockPairEvidence(M, a, b) = pair
  BY <1>2, <1>3 DEF LockPairEvidence
<1>5. ReadWriteEvidence(N, a, b) = Chosen(ObservationEvidence(N, a, b))
  BY DEF ReadWriteEvidence
<1>6. ReadWriteEvidence(M, a, b) = Chosen(ObservationEvidence(M, a, b))
  <2>1. LockFact(M, a.tx, LeastOf(ReaderLocks(M, a))) = readerLock
    BY <1>2, <1>3
  <2>2. M.templates[a.tx].steps[LeastOf(ReaderLocks(M, a))] = locked
    BY <1>1, <1>2
  <2>3. (IF b.step \in GuardsOf(M, b) THEN b.step ELSE LeastOf(GuardsOf(M, b))) = guard
    BY <1>2
  <2> HIDE DEF pair, readerLock, locked, guard
  <2>4. Joined({LockFact(M, a.tx, LeastOf(ReaderLocks(M, a))),
                GuardedMutation(M, b.tx, IF b.step \in GuardsOf(M, b) THEN b.step ELSE LeastOf(GuardsOf(M, b)),
                    <<"locked_reader", M.templates[a.tx].steps[LeastOf(ReaderLocks(M, a))].sel,
                       M.templates[a.tx].steps[LeastOf(ReaderLocks(M, a))].lock>>, {})}) = lockedReader
    BY Zenon, <1>3, <2>1, <2>2, <2>3
  <2> HIDE DEF lockedReader
  <2> QED
    BY <1>2, <1>3, <1>4, <2>4 DEF ReadWriteEvidence
<1> HIDE DEF pair, lockedReader
<1> QED
  BY <1>5, <1>6

\* The same of every kind of dependency.
LEMMA EvidenceFollows ==
    ASSUME NEW M, NEW N, NEW kind \in {"wr", "rw", "ww"}, NEW a, NEW b, Alike(M, N, a.tx), Alike(M, N, b.tx)
    PROVE  /\ ObservationEvidence(M, a, b) = ObservationEvidence(N, a, b)
                => Evidence(M, kind, a, b) = Evidence(N, kind, a, b)
           /\ ObservationEvidence(M, a, b) # {} =>
                \/ Evidence(M, kind, a, b) = Evidence(N, kind, a, b)
                \/ Evidence(M, kind, a, b) = ObservationEvidence(M, a, b)
<1>1. /\ Isolated(M, a.tx) <=> Isolated(N, a.tx)
      /\ Isolated(M, b.tx) <=> Isolated(N, b.tx)
      /\ IsolationFact(M, a.tx) = IsolationFact(N, a.tx)
      /\ IsolationFact(M, b.tx) = IsolationFact(N, b.tx)
  BY SameTransaction
<1>2. /\ Protected(M, a) <=> Protected(N, a)
      /\ Protected(M, b) <=> Protected(N, b)
      /\ HeldWrite(M, a) <=> HeldWrite(N, a)
      /\ ProtectionFact(M, a) = ProtectionFact(N, a)
      /\ ProtectionFact(M, b) = ProtectionFact(N, b)
      /\ HeldWriteFact(M, a) = HeldWriteFact(N, a)
  BY SameAccess
<1>3. WriteReadEvidence(M, a, b) = WriteReadEvidence(N, a, b)
  BY <1>1, <1>2 DEF WriteReadEvidence
<1>4. WriteWriteEvidence(M, a, b) = WriteWriteEvidence(N, a, b)
  BY <1>1, <1>2 DEF WriteWriteEvidence
<1>5. CASE OrderedCursor(a, b)
  <2>1. Evidence(M, kind, a, b) = Evidence(N, kind, a, b)
    BY <1>5 DEF Evidence
  <2> QED
    BY <2>1
<1>6. CASE ~OrderedCursor(a, b) /\ kind = "rw"
  <2>1. Evidence(M, kind, a, b) = ReadWriteEvidence(M, a, b) /\ Evidence(N, kind, a, b) = ReadWriteEvidence(N, a, b)
    BY <1>6 DEF Evidence
  <2> QED
    BY <2>1, ReadWriteFollows
<1>7. CASE ~OrderedCursor(a, b) /\ kind \in {"wr", "ww"}
  <2>1. Evidence(M, kind, a, b) = Evidence(N, kind, a, b)
    BY <1>3, <1>4, <1>7 DEF Evidence
  <2> QED
    BY <2>1
<1> QED
  BY <1>5, <1>6, <1>7

\* Evidence that is another between transactions that are the same has its reason
\* outside them: a deleter came, on one side or the other, and the evidence of the
\* side without it names its absence.
LEMMA EvidenceMoves ==
    ASSUME NEW M, NEW N, Comparable(M, N), NEW kind \in {"wr", "rw", "ww"}, NEW a, NEW b,
           Alike(M, N, a.tx), Alike(M, N, b.tx), Evidence(M, kind, a, b) # Evidence(N, kind, a, b)
    PROVE  \E o : \/ /\ ~Deleter(M, o) /\ Deleter(N, o)
                     /\ \E g \in Evidence(M, kind, a, b) : NoDeleters(o) \in g.present
                  \/ /\ ~Deleter(N, o) /\ Deleter(M, o)
                     /\ \E g \in Evidence(N, kind, a, b) : NoDeleters(o) \in g.present
<1> DEFINE o == a.sel.object
<1>1. ObservationEvidence(M, a, b) # ObservationEvidence(N, a, b)
  BY EvidenceFollows
<1>2. ~(Deleter(M, o) <=> Deleter(N, o))
  <2> SUFFICES ASSUME Deleter(M, o) <=> Deleter(N, o) PROVE FALSE
    OBVIOUS
  <2>1. Deleter(M, o) \in BOOLEAN /\ Deleter(N, o) \in BOOLEAN
    BY DEF Deleter
  <2>2. Deleter(M, o) = Deleter(N, o)
    BY <2>1
  <2> QED
    BY <1>1, <2>2, SameObservation
<1>3. Comparable(N, M) /\ Alike(N, M, a.tx) /\ Alike(N, M, b.tx)
  BY DEF Comparable, Alike
<1>4. CASE ~Deleter(M, o) /\ Deleter(N, o)
  <2>1. PICK g \in ObservationEvidence(M, a, b) : NoDeleters(o) \in g.present
    BY <1>1, <1>4, ObservationMoves
  <2>2. Evidence(M, kind, a, b) = ObservationEvidence(M, a, b)
    BY <2>1, EvidenceFollows
  <2> QED
    BY <1>4, <2>1, <2>2
<1>5. CASE ~Deleter(N, o) /\ Deleter(M, o)
  <2>1. PICK g \in ObservationEvidence(N, a, b) : NoDeleters(o) \in g.present
    BY <1>1, <1>3, <1>5, ObservationMoves
  <2>2. Evidence(N, kind, a, b) = ObservationEvidence(N, a, b)
    BY <1>3, <2>1, EvidenceFollows
  <2> QED
    BY <1>5, <2>1, <2>2
<1> QED
  BY <1>2, <1>4, <1>5

-----------------------------------------------------------------------------
(* A verdict on serializability that reads nothing changed *)

\* What a verdict reads: its anchors, and what would falsify its absences.
LEMMA ReadFromHolds ==
    ASSUME NEW V, NEW sides
    PROVE  /\ V.grounds.read \subseteq ReadFrom(V, sides)
           /\ \A fact \in V.grounds.present, M \in sides :
                 AbsenceMembers(fact, M) \subseteq ReadFrom(V, sides)
  BY DEF ReadFrom, Facts

\* No declaration that the verdict reads is changed.
ReadsUnchanged(B, H, v) == ReadFrom(v, {B, H}) \cap ChangedDeclarations(B, H) = {}

\* A closure in which every transaction is the same on both sides is the same.
LEMMA SameClosure ==
    ASSUME NEW M, NEW N, Comparable(M, N), NEW root \in Templates(M), root \in Templates(N),
           \A t \in Closure(M, root) \cup Closure(N, root) : Alike(M, N, t)
    PROVE  Closure(N, root) \subseteq Closure(M, root)
<1> DEFINE X == Closure(M, root) \cap Closure(N, root)
<1>1. root \in X
  BY ClosureIs DEF Comparable
<1>2. ASSUME NEW e \in ConflictGraph(N), e[1] \in X
      PROVE  e[2] \in X
  <2>1. /\ e = <<e[1], e[2]>> /\ e[1] \in Templates(N) /\ e[2] \in Templates(N)
    BY ConflictGraphIs DEF Comparable
  <2>2. e[2] \in Closure(N, root)
    BY <1>2, ClosureIs DEF Comparable
  <2>3. Alike(M, N, e[1]) /\ Alike(M, N, e[2])
    BY <1>2, <2>2
  <2>4. Accesses(M, e[1]) = Accesses(N, e[1]) /\ Accesses(M, e[2]) = Accesses(N, e[2])
    BY <2>3, SameAccesses
  <2>5. e[1] \in Templates(M) /\ e[2] \in Templates(M)
    BY <2>3 DEF Alike
  <2>6. <<e[1], e[2]>> \in ConflictGraph(M)
    <3>1. \E a \in Accesses(N, e[1]), b \in Accesses(N, e[2]) : Conflict(a, b)
      BY <2>1, ConflictGraphIs DEF Comparable
    <3> QED
      BY <2>4, <2>5, <3>1, ConflictGraphIs DEF Comparable
  <2>7. e[2] \in Closure(M, root)
    BY <1>2, <2>1, <2>6, ClosureIs DEF Comparable
  <2> QED
    BY <2>2, <2>7
<1> HIDE DEF X
<1>3. Closure(N, root) \subseteq X
  BY <1>1, <1>2, ClosureIs DEF Comparable
<1> QED
  BY <1>3 DEF X

\* So are the dependencies in it.
LEMMA SameDependencies ==
    ASSUME NEW M, NEW N, NEW C, \A t \in C : Alike(M, N, t)
    PROVE  Dependencies(M, C) = Dependencies(N, C)
<1>1. [t \in C |-> Accesses(M, t)] = [t \in C |-> Accesses(N, t)]
  BY SameAccesses
<1> DEFINE index == [t \in C |-> Accesses(N, t)]
           all == UNION {UNION {UNION {{<<k, a, b>> : k \in IF Conflict(a, b) THEN DependencyKinds(a, b) ELSE {}}
                                : b \in UNION {index[u] : u \in C}}
                        : a \in index[t]} : t \in C}
<1>2. Dependencies(N, C) = all
  BY DEF Dependencies
<1>3. Dependencies(M, C) = all
  <2> HIDE DEF index
  <2>1. [t \in C |-> Accesses(M, t)] = index
    BY <1>1 DEF index
  <2> QED
    BY <2>1 DEF Dependencies
<1> QED
  BY <1>2, <1>3

\* A verdict reads its whole closure: when nothing either side read has changed,
\* closure, components and dependencies are the same on both.
LEMMA ClosureUnchanged ==
    ASSUME NEW B, NEW H, Comparable(B, H), NEW root \in Templates(B), root \in Templates(H),
           ReadsUnchanged(B, H, SerializabilityGrounds(B, root)),
           ReadsUnchanged(B, H, SerializabilityGrounds(H, root))
    PROVE  /\ Closure(B, root) = Closure(H, root)
           /\ \A t \in Closure(B, root) : Alike(B, H, t)
           /\ CyclesOf(B, root) = CyclesOf(H, root)
           /\ CycleDependencies(B, root) = CycleDependencies(H, root)
<1>1. ASSUME NEW t \in Closure(B, root) \cup Closure(H, root)
      PROVE  Alike(B, H, t)
  <2>1. /\ Closure(B, root) \subseteq Templates(B) /\ Closure(H, root) \subseteq Templates(H)
        /\ B.schema = H.schema
    BY ClosureIs DEF Comparable
  <2>2. TransactionKey(t) \notin ChangedDeclarations(B, H)
    <3>1. CASE t \in Closure(B, root)
      BY <3>1, ReadsItsClosure, ReadFromHolds DEF Comparable, ReadsUnchanged
    <3>2. CASE t \in Closure(H, root)
      BY <3>2, ReadsItsClosure, ReadFromHolds DEF Comparable, ReadsUnchanged
    <3> QED
      BY <3>1, <3>2
  <2> QED
    BY <2>1, <2>2, UnchangedIsAlike
<1>2. Closure(H, root) \subseteq Closure(B, root)
  BY <1>1, SameClosure
<1>3. Closure(B, root) \subseteq Closure(H, root)
  <2>1. Comparable(H, B) /\ \A t \in Closure(B, root) \cup Closure(H, root) : Alike(H, B, t)
    BY <1>1 DEF Comparable, Alike
  <2> QED
    BY <2>1, SameClosure
<1>4. Closure(B, root) = Closure(H, root)
  BY <1>2, <1>3
<1>5. Dependencies(B, Closure(B, root)) = Dependencies(H, Closure(H, root))
  BY <1>1, <1>4, SameDependencies
<1>6. CyclesOf(B, root) = CyclesOf(H, root)
  BY <1>4, <1>5 DEF CyclesOf
<1>7. CycleDependencies(B, root) = CycleDependencies(H, root)
  BY <1>5, <1>6 DEF CycleDependencies
<1> QED
  BY <1>1, <1>4, <1>6, <1>7

\* That no declaration read is changed is said of both directions at once.
LEMMA UnchangedIsMutual ==
    ASSUME NEW B, NEW H, NEW v, ReadsUnchanged(B, H, v)
    PROVE  ReadsUnchanged(H, B, v)
<1>1. {B, H} = {H, B}
  OBVIOUS
<1> QED
  BY <1>1, ChangedIsMutual DEF ReadsUnchanged

\* A proof that rests on the absence of a deleter reads what would be one.
LEMMA AbsenceIsRead ==
    ASSUME NEW M, NEW N, Comparable(M, N), NEW root,
           SerializabilityGrounds(M, root).proven, ~AllDeclared(M, root),
           NEW d \in CycleDependencies(M, root), NEW g \in EvidenceOf(M, d),
           NEW o, NoDeleters(o) \in g.present, ~Deleter(M, o), Deleter(N, o),
           ReadsUnchanged(M, N, SerializabilityGrounds(M, root))
    PROVE  FALSE
<1> DEFINE V == SerializabilityGrounds(M, root)
           G == {ClosureFact(root, Closure(M, root)), ComponentsFact(root, Closure(M, root), CyclesOf(M, root))}
                    \cup UNION {EvidenceOf(M, x) : x \in CycleDependencies(M, root)}
<1>1. V.grounds = Joined(G)
  BY VerdictIs
<1>2. g \in G
  OBVIOUS
<1> HIDE DEF V, G
<1>3. NoDeleters(o) \in V.grounds.present
  BY <1>1, <1>2, JoinedHolds
<1>4. PICK k \in ChangedDeclarations(M, N) : k \in AbsenceMembers(NoDeleters(o), N)
  BY DeleterIsChanged
<1>5. k \in ReadFrom(V, {M, N})
  BY <1>3, <1>4, ReadFromHolds
<1> QED
  BY <1>4, <1>5 DEF ReadsUnchanged, V

\* Between two specifications of which both verdicts read nothing changed,
\* what is proven of one is proven of the other, of the same facts.
LEMMA SerializabilityHolds ==
    ASSUME NEW B, NEW H, Comparable(B, H), NEW root \in Templates(B), root \in Templates(H),
           ReadsUnchanged(B, H, SerializabilityGrounds(B, root)),
           ReadsUnchanged(B, H, SerializabilityGrounds(H, root)),
           SerializabilityGrounds(B, root).proven
    PROVE  /\ SerializabilityGrounds(H, root).proven
           /\ SerializabilityGrounds(B, root).grounds.present = SerializabilityGrounds(H, root).grounds.present
<1> DEFINE V == SerializabilityGrounds(B, root)
           W == SerializabilityGrounds(H, root)
           C == Closure(B, root)
           D == CycleDependencies(B, root)
<1>1. /\ C = Closure(H, root) /\ \A t \in C : Alike(B, H, t)
      /\ CyclesOf(B, root) = CyclesOf(H, root) /\ D = CycleDependencies(H, root)
  BY ClosureUnchanged
<1>2. AllDeclared(B, root) <=> AllDeclared(H, root)
  BY <1>1 DEF AllDeclared, Alike
<1>3. CASE AllDeclared(B, root)
  <2>1. W.proven
    BY <1>2, <1>3, VerdictIs
  <2>2. {IsolationFact(B, t) : t \in C} = {IsolationFact(H, t) : t \in C}
    BY <1>1, SameTransaction
  <2>3. /\ V.grounds = Joined({ClosureFact(root, C)} \cup {IsolationFact(B, t) : t \in C})
        /\ W.grounds = Joined({ClosureFact(root, C)} \cup {IsolationFact(H, t) : t \in C})
    BY <1>1, <1>2, <1>3, VerdictIs
  <2> QED
    BY <2>1, <2>2, <2>3
<1>4. CASE ~AllDeclared(B, root)
  <2>1. ASSUME NEW d \in D
        PROVE  /\ d[1] \in {"wr", "rw", "ww"}
               /\ Alike(B, H, d[2].tx) /\ Alike(B, H, d[3].tx)
    <3>1. d \in Dependencies(B, C)
      BY DEF CycleDependencies
    <3>2. C \subseteq Templates(B) /\ WellFormed(B)
      BY ClosureIs DEF Comparable
    <3>3. d[1] \in {"wr", "rw", "ww"} /\ d[2].tx \in C /\ d[3].tx \in C
      BY <3>1, <3>2, DependencyIs
    <3> QED
      BY <1>1, <3>3
  <2>2. ASSUME NEW d \in D, EvidenceOf(B, d) # EvidenceOf(H, d)
        PROVE  /\ W.proven => FALSE
               /\ EvidenceOf(H, d) = {} => FALSE
    <3> HIDE DEF V, W, C, D
    <3>1. PICK o :
            \/ /\ ~Deleter(B, o) /\ Deleter(H, o)
               /\ \E g \in EvidenceOf(B, d) : NoDeleters(o) \in g.present
            \/ /\ ~Deleter(H, o) /\ Deleter(B, o)
               /\ \E g \in EvidenceOf(H, d) : NoDeleters(o) \in g.present
      BY <2>1, <2>2, EvidenceMoves DEF EvidenceOf
    <3>2. ~(/\ ~Deleter(B, o) /\ Deleter(H, o)
            /\ \E g \in EvidenceOf(B, d) : NoDeleters(o) \in g.present)
      BY <1>4, AbsenceIsRead DEF D
    <3>3. W.proven => ~(/\ ~Deleter(H, o) /\ Deleter(B, o)
                        /\ \E g \in EvidenceOf(H, d) : NoDeleters(o) \in g.present)
      <4>1. Comparable(H, B) /\ ReadsUnchanged(H, B, W) /\ d \in CycleDependencies(H, root)
        BY <1>1, UnchangedIsMutual DEF Comparable, W
      <4> QED
        BY <1>2, <1>4, <4>1, AbsenceIsRead DEF W
    <3> QED
      BY <3>1, <3>2, <3>3
  <2>3. W.proven
    <3> SUFFICES ASSUME ~W.proven PROVE FALSE
      OBVIOUS
    <3>1. OpenDependencies(H, root) # {} /\ OpenDependencies(B, root) = {}
      BY <1>4, VerdictIs
    <3>2. PICK d \in D : EvidenceOf(H, d) = {}
      BY <1>1, <3>1 DEF OpenDependencies
    <3>3. EvidenceOf(B, d) # {}
      BY <3>1 DEF OpenDependencies
    <3> QED
      BY <2>2, <3>2, <3>3
  <2>4. {EvidenceOf(B, d) : d \in D} = {EvidenceOf(H, d) : d \in D}
    BY <2>2, <2>3
  <2>5. /\ V.grounds = Joined({ClosureFact(root, C), ComponentsFact(root, C, CyclesOf(B, root))}
                                \cup UNION {EvidenceOf(B, d) : d \in D})
        /\ W.grounds = Joined({ClosureFact(root, C), ComponentsFact(root, C, CyclesOf(B, root))}
                                \cup UNION {EvidenceOf(H, d) : d \in D})
    BY <1>1, <1>2, <1>4, <2>3, VerdictIs
  <2> QED
    BY <2>3, <2>4, <2>5
<1> QED
  BY <1>3, <1>4

-----------------------------------------------------------------------------
(* A verdict on an ordering that reads nothing changed *)

\* A writer that a route cannot stand is one on both sides if it is the same.
LEMMA SameWriter ==
    ASSUME NEW M, NEW N, Comparable(M, N), NEW u, Alike(M, N, u), NEW s, u \in UncontrolledWriters(N, s)
    PROVE  u \in UncontrolledWriters(M, s)
<1> DEFINE Alone(X) == [X EXCEPT !.templates = <<X.templates[u]>>]
           m == Alone(M)
           n == Alone(N)
<1>1. ASSUME NEW X, WellFormed(X)
      PROVE  Alone(X).schema = X.schema /\ Alone(X).templates = <<X.templates[u]>>
  BY <1>1 DEF WellFormed
<1>2. /\ m.schema = M.schema /\ m.templates = <<M.templates[u]>>
      /\ n.schema = N.schema /\ n.templates = <<N.templates[u]>>
  BY <1>1 DEF Comparable
<1>3. UncontrolledWriter(n, s.sel.object, s.field, s.rule)
  BY DEF UncontrolledWriters
<1> HIDE DEF m, n
<1>4. Templates(m) = {1} /\ Templates(n) = {1}
  <2>1. Len(m.templates) = 1 /\ Len(n.templates) = 1
    BY <1>2
  <2> QED
    BY <2>1 DEF Templates
<1>5. m.templates[1] = M.templates[u] /\ n.templates[1] = N.templates[u]
  BY <1>2
<1>6. Alike(m, n, 1)
  BY <1>2, <1>4, <1>5 DEF Alike
<1>7. Accesses(m, 1) = Accesses(n, 1) /\ m.templates[1].steps = n.templates[1].steps
  BY <1>6, SameAccesses DEF Alike
<1>8. UncontrolledWriter(m, s.sel.object, s.field, s.rule)
  BY <1>3, <1>4, <1>7 DEF UncontrolledWriter
<1> QED
  BY <1>8 DEF UncontrolledWriters, m, Alike

\* The route of a requirement is a matter of its transaction and its terms.
LEMMA SameRoute ==
    ASSUME NEW M, NEW N, NEW t, Alike(M, N, t), NEW r, NEW q, r.key = q.key, r.position = q.position
    PROVE  /\ OrderingRoute(M, t, r) = OrderingRoute(N, t, q)
           /\ \A sel : KeyIdentifiesDomain(M, sel, r.key) <=> KeyIdentifiesDomain(N, sel, q.key)
<1>1. M.templates[t].steps = N.templates[t].steps /\ M.schema = N.schema
  BY DEF Alike
<1>2. OrderingRoute(M, t, r) = OrderingRoute(N, t, q)
  BY <1>1 DEF OrderingRoute
<1>3. \A sel : KeyIdentifiesDomain(M, sel, r.key) <=> KeyIdentifiesDomain(N, sel, q.key)
  BY <1>1 DEF KeyIdentifiesDomain, IdentifiesInstance
<1> QED
  BY <1>2, <1>3

\* What a part of a verdict reads the verdict reads.
LEMMA PartIsRead ==
    ASSUME NEW V, NEW v, NEW G, V.grounds = Joined(G), v.grounds \in G, NEW sides
    PROVE  ReadFrom(v, sides) \subseteq ReadFrom(V, sides)
<1>1. /\ v.grounds.read \subseteq V.grounds.read
      /\ v.grounds.present \subseteq V.grounds.present
      /\ v.grounds.missing \subseteq V.grounds.missing
  BY DEF Joined
<1>2. Facts(v) \subseteq Facts(V)
  BY <1>1 DEF Facts
<1> QED
  BY <1>1, <1>2 DEF ReadFrom

RouteOf(M, t, r) == M.templates[t].steps[LeastOf(OrderingRoute(M, t, r))]

ObstaclesOf(M, t, r) == OrderingObstacles(M, t, r, OrderingRoute(M, t, r))

\* An ordering is proven with no obstacle on its route and a serializable
\* transaction, and what each of its two verdicts rests on.
LEMMA OrderingIs ==
    ASSUME NEW M, NEW t, NEW r
    PROVE  LET V == OrderingGrounds(M, t, r)
               v == SerializabilityGrounds(M, t)
               s == RouteOf(M, t, r)
           IN  /\ V.proven <=> ObstaclesOf(M, t, r) = {} /\ v.proven
               /\ V.proven =>
                    V.grounds = Joined({ManagedFact(M, s, {TransactionKey(u) :
                                            u \in ManagedFieldWriters(M, s.sel.object, s.field)}),
                                        v.grounds})
               /\ ~V.proven =>
                    V.grounds = Joined(ObstaclesOf(M, t, r) \cup (IF v.proven THEN {} ELSE {v.grounds}))
<1> DEFINE V == OrderingGrounds(M, t, r)
           v == SerializabilityGrounds(M, t)
           s == RouteOf(M, t, r)
           obstacles == ObstaclesOf(M, t, r)
           managed == ManagedFact(M, s, {TransactionKey(u) : u \in ManagedFieldWriters(M, s.sel.object, s.field)})
<1>1. V = OrderingVerdict(M, t, OrderingRoute(M, t, r), obstacles, v)
  BY DEF OrderingGrounds, ObstaclesOf
<1>2. s = M.templates[t].steps[LeastOf(OrderingRoute(M, t, r))]
  BY DEF RouteOf
<1> HIDE DEF V, v, s, obstacles
<1>3. V = IF obstacles = {} /\ v.proven
          THEN [proven |-> TRUE, grounds |-> Joined({managed, v.grounds})]
          ELSE [proven |-> FALSE,
                grounds |-> Joined(obstacles \cup (IF v.proven THEN {} ELSE {v.grounds}))]
  BY <1>1, <1>2 DEF OrderingVerdict
<1> HIDE DEF managed
<1>4. /\ V.proven <=> obstacles = {} /\ v.proven
      /\ V.proven => V.grounds = Joined({managed, v.grounds})
      /\ ~V.proven => V.grounds = Joined(obstacles \cup (IF v.proven THEN {} ELSE {v.grounds}))
  BY <1>3
<1> QED
  BY <1>4 DEF V, v, s, obstacles, managed

\* The facts that an ordering's verdict joins.
LEMMA OrderingJoins ==
    ASSUME NEW M, NEW t, NEW r
    PROVE  \E G : /\ OrderingGrounds(M, t, r).grounds = Joined(G)
                  /\ (OrderingGrounds(M, t, r).proven \/ ~SerializabilityGrounds(M, t).proven)
                        => SerializabilityGrounds(M, t).grounds \in G
                  /\ ~OrderingGrounds(M, t, r).proven => ObstaclesOf(M, t, r) \subseteq G
<1> DEFINE V == OrderingGrounds(M, t, r)
           v == SerializabilityGrounds(M, t)
<1>1. CASE V.proven
  <2>1. PICK managed : V.grounds = Joined({managed, v.grounds})
    BY <1>1, OrderingIs
  <2> HIDE DEF V, v
  <2>2. v.grounds \in {managed, v.grounds}
    OBVIOUS
  <2> QED
    BY <1>1, <2>1, <2>2 DEF V, v
<1>2. CASE ~V.proven
  <2> DEFINE G == ObstaclesOf(M, t, r) \cup (IF v.proven THEN {} ELSE {v.grounds})
  <2>1. V.grounds = Joined(G)
    BY <1>2, OrderingIs
  <2>2. ObstaclesOf(M, t, r) \subseteq G /\ (~v.proven => v.grounds \in G)
    OBVIOUS
  <2> HIDE DEF V, v, G
  <2> QED
    BY <1>2, <2>1, <2>2 DEF V, v
<1> QED
  BY <1>1, <1>2

\* The fact of a managed field is its step's, whatever it is anchored to.
LEMMA ManagedFactIs ==
    ASSUME NEW M, NEW N, NEW s, NEW x, NEW y
    PROVE  ManagedFact(M, s, x).present = ManagedFact(N, s, y).present
<1> DEFINE advanced == [kind |-> "cursor", object |-> s.sel.object, field |-> s.field, rule |-> s.rule]
           fenced == [kind |-> "fence", object |-> s.sel.object, field |-> s.field]
           Fact(anchors) == PresentFact(IF s.kind = "advance_cursor" THEN advanced ELSE fenced,
                                        {ObjectKey(s.sel.object)} \cup anchors)
<1>1. \A K, anchors : ManagedFact(K, s, anchors) = Fact(anchors)
  BY DEF ManagedFact, CursorFact
<1>2. \A anchors : Fact(anchors).present = {IF s.kind = "advance_cursor" THEN advanced ELSE fenced}
  BY GroundsAre
<1> HIDE DEF Fact
<1> QED
  BY <1>1, <1>2

\* What SerializabilityHolds says, of an ordering: its transaction is read and so
\* the same, its route with it; a writer the route cannot stand would be read too.
LEMMA OrderingHolds ==
    ASSUME NEW B, NEW H, Comparable(B, H), NEW t \in Templates(B), t \in Templates(H),
           NEW r, NEW q, r.key = q.key, r.position = q.position,
           ReadsUnchanged(B, H, OrderingGrounds(B, t, r)),
           ReadsUnchanged(B, H, OrderingGrounds(H, t, q)),
           OrderingGrounds(B, t, r).proven
    PROVE  /\ OrderingGrounds(H, t, q).proven
           /\ OrderingGrounds(B, t, r).grounds.present = OrderingGrounds(H, t, q).grounds.present
<1> DEFINE V == OrderingGrounds(B, t, r)
           W == OrderingGrounds(H, t, q)
           v == SerializabilityGrounds(B, t)
           w == SerializabilityGrounds(H, t)
           route == OrderingRoute(B, t, r)
           s == RouteOf(B, t, r)
           requiring == AnchorOnly({TransactionKey(t)})
           uncontrolled(M) == {Joined({requiring, AnchorOnly({TransactionKey(u), ObjectKey(s.sel.object)})})
                                 : u \in UncontrolledWriters(M, s)}
<1>1. v.proven /\ ObstaclesOf(B, t, r) = {}
  BY OrderingIs
<1>2. ReadsUnchanged(B, H, v)
  <2>1. PICK G : V.grounds = Joined(G) /\ v.grounds \in G
    BY OrderingJoins
  <2> HIDE DEF V, v
  <2>2. ReadFrom(v, {B, H}) \subseteq ReadFrom(V, {B, H})
    BY <2>1, PartIsRead
  <2> QED
    BY <2>2 DEF ReadsUnchanged, V
<1>3. Alike(B, H, t)
  <2>1. t \in Closure(B, t) /\ B.schema = H.schema
    BY ClosureIs DEF Comparable
  <2>2. TransactionKey(t) \in ReadFrom(v, {B, H})
    BY <2>1, ReadsItsClosure, ReadFromHolds DEF Comparable
  <2> QED
    BY <1>2, <2>1, <2>2, UnchangedIsAlike DEF ReadsUnchanged
<1>4. /\ OrderingRoute(H, t, q) = route
      /\ \A sel : KeyIdentifiesDomain(B, sel, r.key) <=> KeyIdentifiesDomain(H, sel, q.key)
  BY <1>3, SameRoute
<1>5. RouteOf(H, t, q) = s
  BY <1>3, <1>4 DEF RouteOf, Alike
<1>6. route # {} /\ KeyIdentifiesDomain(B, s.sel, r.key) /\ uncontrolled(B) = {}
  <2> DEFINE steps == B.templates[t].steps
             misplaced(i) == Joined({requiring, ManagedFact(B, steps[i], {TransactionKey(t)})})
             carriers == {i \in DOMAIN steps : steps[i].kind \in {"advance_cursor", "fence"}}
  <2>1. ObstaclesOf(B, t, r) =
          IF route = {}
          THEN IF carriers = {} THEN {requiring} ELSE {misplaced(i) : i \in carriers}
          ELSE (IF KeyIdentifiesDomain(B, s.sel, r.key) THEN {} ELSE {misplaced(LeastOf(route))})
               \cup uncontrolled(B)
    BY DEF ObstaclesOf, OrderingObstacles, RouteOf
  <2> HIDE DEF misplaced, carriers, uncontrolled, s, route
  <2> QED
    BY <1>1, <2>1
<1>7. ObstaclesOf(H, t, q) = uncontrolled(H)
  <2> DEFINE steps == H.templates[t].steps
             misplaced(i) == Joined({requiring, ManagedFact(H, steps[i], {TransactionKey(t)})})
             carriers == {i \in DOMAIN steps : steps[i].kind \in {"advance_cursor", "fence"}}
  <2> HIDE DEF s
  <2>1. steps[LeastOf(route)] = s
    BY <1>4, <1>5 DEF RouteOf
  <2> HIDE DEF route
  <2>2. ObstaclesOf(H, t, q) =
          IF route = {}
          THEN IF carriers = {} THEN {requiring} ELSE {misplaced(i) : i \in carriers}
          ELSE (IF KeyIdentifiesDomain(H, s.sel, q.key) THEN {} ELSE {misplaced(LeastOf(route))})
               \cup uncontrolled(H)
    BY <1>4, <2>1 DEF ObstaclesOf, OrderingObstacles
  <2> HIDE DEF misplaced, carriers, uncontrolled
  <2> QED
    BY <1>4, <1>6, <2>2
<1>8. ObstaclesOf(H, t, q) = {}
  <2> SUFFICES ASSUME NEW u \in UncontrolledWriters(H, s) PROVE FALSE
    BY <1>7
  <2> DEFINE found == AnchorOnly({TransactionKey(u), ObjectKey(s.sel.object)})
             obstacle == Joined({requiring, found})
  <2>1. obstacle \in ObstaclesOf(H, t, q)
    BY <1>7
  <2>2. TransactionKey(u) \in obstacle.read
    <3>1. TransactionKey(u) \in found.read
      BY GroundsAre
    <3> HIDE DEF found
    <3>2. found \in {requiring, found}
      OBVIOUS
    <3> QED
      BY <3>1, <3>2, JoinedHolds
  <2>3. ~W.proven
    BY <2>1, OrderingIs
  <2> HIDE DEF obstacle
  <2>4. PICK G : W.grounds = Joined(G) /\ obstacle \in G
    BY <2>1, <2>3, OrderingJoins
  <2> HIDE DEF W
  <2>5. TransactionKey(u) \in ReadFrom(W, {B, H})
    BY <2>2, <2>4, JoinedHolds, ReadFromHolds
  <2>6. TransactionKey(u) \notin ChangedDeclarations(B, H)
    BY <2>5 DEF ReadsUnchanged, W
  <2>7. u \in Templates(H) /\ B.schema = H.schema
    BY DEF UncontrolledWriters, Comparable
  <2>8. Alike(B, H, u)
    BY <2>6, <2>7, UnchangedIsAlike
  <2>9. u \in UncontrolledWriters(B, s)
    BY <2>8, SameWriter
  <2> QED
    BY <1>6, <2>9
<1>9. ReadsUnchanged(B, H, w)
  <2>1. W.proven \/ ~w.proven
    BY <1>8, OrderingIs
  <2>3. PICK G : W.grounds = Joined(G) /\ w.grounds \in G
    BY <2>1, OrderingJoins
  <2> HIDE DEF W, w
  <2>2. ReadFrom(w, {B, H}) \subseteq ReadFrom(W, {B, H})
    BY <2>3, PartIsRead
  <2> QED
    BY <2>2 DEF ReadsUnchanged, W
<1>10. w.proven /\ v.grounds.present = w.grounds.present
  BY <1>1, <1>2, <1>9, SerializabilityHolds
<1>11. W.proven
  BY <1>8, <1>10, OrderingIs
<1>12. V.grounds.present = W.grounds.present
  <2> DEFINE x == {TransactionKey(u) : u \in ManagedFieldWriters(B, s.sel.object, s.field)}
             y == {TransactionKey(u) : u \in ManagedFieldWriters(H, s.sel.object, s.field)}
  <2> HIDE DEF s
  <2>1. V.grounds = Joined({ManagedFact(B, s, x), v.grounds})
    BY OrderingIs DEF s
  <2>2. W.grounds = Joined({ManagedFact(H, s, y), w.grounds})
    BY <1>5, <1>11, OrderingIs
  <2> HIDE DEF x, y, V, W, v, w
  <2>3. ManagedFact(B, s, x).present = ManagedFact(H, s, y).present
    BY ManagedFactIs
  <2> DEFINE m == ManagedFact(B, s, x)
             n == ManagedFact(H, s, y)
             e == v.grounds
             f == w.grounds
  <2>4. Joined({m, e}).present = m.present \cup e.present
    <3> HIDE DEF m, e
    <3> QED  BY JoinedAre
  <2>5. Joined({n, f}).present = n.present \cup f.present
    <3> HIDE DEF n, f
    <3> QED  BY JoinedAre
  <2>6. v.grounds.present = w.grounds.present
    BY <1>10 DEF v, w
  <2> QED
    BY <2>1, <2>2, <2>3, <2>4, <2>5, <2>6
<1> QED
  BY <1>11, <1>12

-----------------------------------------------------------------------------
(* The difference *)

\* Comparable specifications are so in either order.
LEMMA ComparableIsMutual ==
    ASSUME NEW B, NEW H, Comparable(B, H)
    PROVE  Comparable(H, B)
  BY DEF Comparable

\* An obligation is a transaction's serializability or one of its orderings, with
\* the verdict on it.
LEMMA ObligationsAre ==
    ASSUME NEW M, NEW k \in DOMAIN Obligations(M)
    PROVE  \/ \E t \in Templates(M) :
                 k = <<"serializable", t>> /\ Obligations(M)[k] = SerializabilityGrounds(M, t)
           \/ \E t \in Templates(M) : \E r \in M.templates[t].ordering :
                 /\ k = <<"ordered", t, r.key>> /\ PositionOf(M, k) = r.position
                 /\ Obligations(M)[k] = OrderingGrounds(M, t, r)
<1> DEFINE serial == {<<"serializable", t>> : t \in {u \in Templates(M) : M.templates[u].serial}}
           ordered == UNION {{<<"ordered", t, r.key>> : r \in M.templates[t].ordering} : t \in Templates(M)}
           stated(t, key) == CHOOSE r \in M.templates[t].ordering : r.key = key
<1>1. /\ k \in serial \cup ordered
      /\ Obligations(M)[k] = IF k[1] = "serializable" THEN SerializabilityGrounds(M, k[2])
                             ELSE OrderingGrounds(M, k[2], stated(k[2], k[3]))
  BY DEF Obligations
<1>2. ASSUME k \in serial
      PROVE  \E t \in Templates(M) :
                 k = <<"serializable", t>> /\ Obligations(M)[k] = SerializabilityGrounds(M, t)
  <2>1. PICK t \in Templates(M) : k = <<"serializable", t>>
    BY <1>2
  <2>2. k[1] = "serializable" /\ k[2] = t
    BY <2>1
  <2> QED
    BY <1>1, <2>1, <2>2
<1>3. ASSUME k \in ordered
      PROVE  \E t \in Templates(M) : \E r \in M.templates[t].ordering :
                 /\ k = <<"ordered", t, r.key>> /\ PositionOf(M, k) = r.position
                 /\ Obligations(M)[k] = OrderingGrounds(M, t, r)
  <2>1. PICK t \in Templates(M) : \E r \in M.templates[t].ordering : k = <<"ordered", t, r.key>>
    BY <1>3
  <2>2. PICK r \in M.templates[t].ordering : k = <<"ordered", t, r.key>>
    BY <2>1
  <2>3. k[1] = "ordered" /\ k[2] = t /\ k[3] = r.key
    BY <2>2
  <2> DEFINE q == stated(t, r.key)
  <2>4. q \in M.templates[t].ordering /\ q.key = r.key
    OBVIOUS
  <2>5. PositionOf(M, k) = q.position
    BY <2>3 DEF PositionOf
  <2>6. Obligations(M)[k] = OrderingGrounds(M, t, q)
    BY <1>1, <2>3
  <2>7. k = <<"ordered", t, q.key>>
    BY <2>2, <2>4
  <2> HIDE DEF q
  <2> QED
    BY <2>4, <2>5, <2>6, <2>7
<1> QED
  BY <1>1, <1>2, <1>3

\* Whatever the obligation: when no verdict on it reads a changed declaration, what
\* is proven of the base is proven of the head, of the same facts.
LEMMA VerdictFollows ==
    ASSUME NEW B, NEW H, Comparable(B, H),
           NEW k \in DOMAIN Obligations(B), k \in DOMAIN Obligations(H),
           ~(k[1] = "ordered" /\ PositionOf(B, k) # PositionOf(H, k)),
           ReadsUnchanged(B, H, Obligations(B)[k]), ReadsUnchanged(B, H, Obligations(H)[k]),
           Obligations(B)[k].proven
    PROVE  /\ Obligations(H)[k].proven
           /\ Obligations(B)[k].grounds.present = Obligations(H)[k].grounds.present
<1>1. ASSUME NEW t \in Templates(B), k = <<"serializable", t>>,
             Obligations(B)[k] = SerializabilityGrounds(B, t)
      PROVE  /\ Obligations(H)[k].proven
             /\ Obligations(B)[k].grounds.present = Obligations(H)[k].grounds.present
  <2>1. k[1] = "serializable" /\ k[2] = t
    BY <1>1
  <2>2. t \in Templates(H) /\ Obligations(H)[k] = SerializabilityGrounds(H, t)
    <3>1. CASE \E u \in Templates(H) :
                 k = <<"serializable", u>> /\ Obligations(H)[k] = SerializabilityGrounds(H, u)
      <4>1. PICK u \in Templates(H) :
                 k = <<"serializable", u>> /\ Obligations(H)[k] = SerializabilityGrounds(H, u)
        BY <3>1
      <4>2. u = t
        BY <1>1, <4>1
      <4> QED
        BY <4>1, <4>2
    <3>2. CASE \E u \in Templates(H) : \E r \in H.templates[u].ordering : k = <<"ordered", u, r.key>>
      BY <2>1, <3>2
    <3> QED
      BY <3>1, <3>2, ObligationsAre
  <2> QED
    BY <1>1, <2>2, SerializabilityHolds
<1>2. ASSUME NEW t \in Templates(B), NEW r \in B.templates[t].ordering,
             k = <<"ordered", t, r.key>>, PositionOf(B, k) = r.position,
             Obligations(B)[k] = OrderingGrounds(B, t, r)
      PROVE  /\ Obligations(H)[k].proven
             /\ Obligations(B)[k].grounds.present = Obligations(H)[k].grounds.present
  <2>1. k[1] = "ordered" /\ k[2] = t /\ k[3] = r.key
    BY <1>2
  <2>2. PICK u \in Templates(H) : \E q \in H.templates[u].ordering :
                 /\ k = <<"ordered", u, q.key>> /\ PositionOf(H, k) = q.position
                 /\ Obligations(H)[k] = OrderingGrounds(H, u, q)
    <3>1. ASSUME NEW u \in Templates(H), k = <<"serializable", u>> PROVE FALSE
      BY <2>1, <3>1
    <3> QED
      BY <3>1, ObligationsAre
  <2>3. PICK q \in H.templates[u].ordering :
                 /\ k = <<"ordered", u, q.key>> /\ PositionOf(H, k) = q.position
                 /\ Obligations(H)[k] = OrderingGrounds(H, u, q)
    BY <2>2
  <2>4. u = t /\ q.key = r.key
    BY <2>1, <2>3
  <2>5. r.position = q.position
    BY <1>2, <2>1, <2>3
  <2> QED
    BY <1>2, <2>3, <2>4, <2>5, OrderingHolds
<1> QED
  BY <1>1, <1>2, ObligationsAre

\* diff.rs:18-23, of any two specifications with the same objects, however far
\* apart: an entry of the diff whose class says that a proof was lost, won or moved
\* names a changed declaration that a verdict read.
THEOREM DiffIsExplained ==
    ASSUME NEW B, NEW H, Comparable(B, H),
           NEW k \in DOMAIN Obligations(B) \cup DOMAIN Obligations(H)
    PROVE  LET entry == ObligationDiff(B, H, Obligations(B), Obligations(H))[k]
           IN  entry.class \in {"regressed", "improved", "rebased"} /\ ~entry.restated
                   => entry.explained_by # {}
<1> DEFINE ours == Obligations(B)
           theirs == Obligations(H)
           changed == ChangedDeclarations(B, H)
           gone == DOMAIN Members(B) \ DOMAIN Members(H)
           come == DOMAIN Members(H) \ DOMAIN Members(B)
           v == ours[k]
           w == theirs[k]
           entry == ObligationDiff(B, H, ours, theirs)[k]
<1>1. entry = IF k \notin DOMAIN theirs THEN Unmatched("removed", gone, changed, k)
              ELSE IF k \notin DOMAIN ours THEN Unmatched("added", come, changed, k)
              ELSE Matched(B, H, changed, k, v, w)
  BY DEF ObligationDiff
<1>2. \A class, with : Unmatched(class, with, changed, k).class = class
  BY DEF Unmatched, Entry
<1> HIDE DEF entry, changed
<1> SUFFICES ASSUME entry.class \in {"regressed", "improved", "rebased"}, ~entry.restated,
                    entry.explained_by = {}
             PROVE  FALSE
  BY DEF entry
<1>3. k \in DOMAIN ours /\ k \in DOMAIN theirs /\ entry = Matched(B, H, changed, k, v, w)
  BY <1>1, <1>2
<1>4. /\ entry.class = MatchedClass(v, w)
      /\ entry.restated = (k[1] = "ordered" /\ PositionOf(B, k) # PositionOf(H, k))
      /\ entry.explained_by = (ReadFrom(v, {B, H}) \cup ReadFrom(w, {B, H})) \cap changed
  BY <1>3 DEF Matched, Entry
<1>5. ReadsUnchanged(B, H, v) /\ ReadsUnchanged(B, H, w)
  <2> HIDE DEF v, w
  <2> QED
    BY <1>4 DEF ReadsUnchanged, changed
<1>6. ~(k[1] = "ordered" /\ PositionOf(B, k) # PositionOf(H, k))
  BY <1>4
<1>7. v.proven => w.proven /\ v.grounds.present = w.grounds.present
  BY <1>3, <1>5, <1>6, VerdictFollows
<1>8. w.proven => v.proven
  <2>1. ReadsUnchanged(H, B, v) /\ ReadsUnchanged(H, B, w)
    BY <1>5, UnchangedIsMutual
  <2> QED
    BY <1>3, <1>6, <2>1, ComparableIsMutual, VerdictFollows
<1>9. MatchedClass(v, w) \in {"held", "unproven"}
  <2> HIDE DEF v, w
  <2> QED
    BY <1>7, <1>8 DEF MatchedClass
<1> QED
  BY <1>4, <1>9

\* The diff is that of the two specifications' own obligations.
Analysed ==
    /\ analyses = [side \in {"base", "head"} |->
                      IF side = "base" THEN Obligations(base) ELSE Obligations(head)]
    /\ diff # <<>> => diff = ObligationDiff(base, head, Obligations(base), Obligations(head))

\* The same of every specification that any number of catalogue mutations makes of
\* any base, and of the difference taken the other way: no entry of a class that
\* must be explained is left `unexplained` as an extraction defect.
THEOREM DifferencesAreExplained == ChangeSpec => [](Comparable(base, head) => VerdictsAreExplained)
<1>1. ChangeInit => Analysed
  BY DEF ChangeInit, Analysed
<1>2. Analysed /\ [ChangeNext]_changeVars => Analysed'
  <2> SUFFICES ASSUME Analysed, [ChangeNext]_changeVars PROVE Analysed'
    OBVIOUS
  <2>0. analyses.base = Obligations(base) /\ analyses.head = Obligations(head)
    BY DEF Analysed
  <2>1. CASE Edit
    <3>1. /\ base' = base
          /\ analyses' = [analyses EXCEPT !.head = Obligations(head')]
          /\ diff' = ObligationDiff(base, head', analyses.base, analyses'.head)
      BY <2>1 DEF Edit
    <3> QED
      BY <2>0, <3>1 DEF Analysed
  <2>2. CASE TurnRound
    <3>1. /\ base' = head /\ head' = base
          /\ analyses' = [base |-> analyses.head, head |-> analyses.base]
          /\ diff' = ObligationDiff(head, base, analyses.head, analyses.base)
      BY <2>2 DEF TurnRound
    <3> QED
      BY <2>0, <3>1 DEF Analysed
  <2>3. CASE UNCHANGED changeVars
    BY <2>3 DEF Analysed, changeVars
  <2> QED
    BY <2>1, <2>2, <2>3 DEF ChangeNext
<1>3. Analysed => (Comparable(base, head) => VerdictsAreExplained)
  <2> SUFFICES ASSUME Analysed, Comparable(base, head), NEW k \in DOMAIN diff,
                      diff[k].class \in {"regressed", "improved", "rebased"}, ~diff[k].restated
               PROVE  diff[k].explained_by # {}
    BY DEF VerdictsAreExplained
  <2>1. diff # <<>>
    OBVIOUS
  <2>2. diff = ObligationDiff(base, head, Obligations(base), Obligations(head))
    BY <2>1 DEF Analysed
  <2>3. k \in DOMAIN Obligations(base) \cup DOMAIN Obligations(head)
    BY <2>2 DEF ObligationDiff
  <2> QED
    BY <2>2, <2>3, DiffIsExplained
<1> QED
  BY <1>1, <1>2, <1>3, PTL DEF ChangeSpec

-----------------------------------------------------------------------------
(* What the index holds of an accepted ordering route (transaction_ordering.rs,
   transaction_conflicts.rs), and what it leaves to the other transactions *)

\* A route that the ordering prover accepts, of an instance that is kept.
Kept(m, t, r, i) ==
    /\ t \in Templates(m) /\ r \in m.templates[t].ordering
    /\ OrderingProven(m, t, r) /\ i \in OrderingRoute(m, t, r)
    /\ KeepsRoute(m, t, r)

\* What the index says of a step, as far as its selector goes.
Place(m, t, i) == [tx |-> t, step |-> i, sel |-> m.templates[t].steps[i].sel]

\* Where one access meets another, in a closure proven serializable, both
\* transactions are isolated or every dependency is constrained, either way.
LEMMA ConstrainedBothWays ==
    ASSUME NEW m, WellFormed(m), NEW t \in Templates(m), SerializabilityProven(m, t),
           NEW u \in Templates(m), NEW a \in Accesses(m, t), NEW b \in Accesses(m, u), Conflict(a, b)
    PROVE  \/ Isolated(m, t) /\ Isolated(m, u)
           \/ ~Unconstrained(m, a, b) /\ ~Unconstrained(m, b, a)
<1> DEFINE C == Closure(m, t)
           edges == ConflictGraph(m) \cap (C \X C)
           index == [w \in C |-> Accesses(m, w)]
<1>1. <<t, u>> \in ConflictGraph(m) /\ <<u, t>> \in ConflictGraph(m)
  BY ConflictGraphIs
<1>2. t \in C /\ u \in C
  <2>1. /\ t \in Closure(m, t)
        /\ \A e \in ConflictGraph(m) : e[1] \in Closure(m, t) => e[2] \in Closure(m, t)
    BY ClosureIs
  <2> QED
    BY <1>1, <2>1
<1>3. CASE \A w \in C : m.templates[w].iso = "serializable"
  BY <1>2, <1>3 DEF Isolated
<1>4. CASE ~UnconstrainedCycle(m, C)
  <2>1. <<t, u>> \in edges /\ <<u, t>> \in edges
    BY <1>1, <1>2
  <2>2. IsFiniteSet(edges)
    <3>1. IsFiniteSet(ConflictGraph(m)) /\ edges \subseteq ConflictGraph(m)
      BY ConflictGraphIs
    <3> QED
      BY <3>1, FS_Subset
  <2> HIDE DEF edges
  <2>3. t \in Reachable({u}, edges) /\ u \in Reachable({t}, edges)
    <3>1. ASSUME NEW n, NEW w, <<n, w>> \in edges
          PROVE  w \in Reachable({n}, edges)
      <4>1. IsFiniteSet({n})
        BY FS_Singleton
      <4>2. /\ {n} \subseteq Reachable({n}, edges)
            /\ \A e \in edges : e[1] \in Reachable({n}, edges) => e[2] \in Reachable({n}, edges)
        BY <2>2, <4>1, ReachableIsLeast
      <4> QED
        BY <3>1, <4>2
    <3> QED
      BY <2>1, <3>1
  <2>4. \A e \in edges :
            ~(/\ \E x \in index[e[1]], y \in index[e[2]] : Conflict(x, y) /\ Unconstrained(m, x, y)
              /\ e[1] \in Reachable({e[2]}, edges))
    BY <1>4 DEF UnconstrainedCycle, edges
  <2>5. a \in index[t] /\ b \in index[u]
    BY <1>2
  <2>6. Conflict(b, a)
    BY AccessTyped, ConflictsAreMutual
  <2> HIDE DEF index
  <2>7. ~Unconstrained(m, a, b)
    BY <2>1, <2>3, <2>4, <2>5
  <2>8. ~Unconstrained(m, b, a)
    BY <2>1, <2>3, <2>4, <2>5, <2>6
  <2> QED
    BY <2>7, <2>8
<1> QED
  BY <1>3, <1>4 DEF SerializabilityProven

\* The access that the index holds of a step that writes what it selects.
WritesAs(m, t, i, mode, fields) ==
    LET s == m.templates[t].steps[i]
    IN  /\ i \in DOMAIN m.templates[t].steps
        /\ \/ s.kind = "update" /\ mode = "Update" /\ fields = Declared(s.fields.of)
           \/ s.kind = "compare_and_set" /\ mode = "CompareWrite" /\ fields = Declared(s.fields.of)
           \/ s.kind = "upsert" /\ mode = "UpsertReadWrite" /\ fields = AllFields
           \/ s.kind = "delete" /\ mode = "Delete" /\ fields = AllFields
           \/ s.kind = "advance_cursor" /\ mode = "CursorReadWrite" /\ fields = Only({s.field})
           \/ s.kind = "fence" /\ mode = "FenceReadWrite" /\ fields = Only({s.field})

\* The index holds of such a step the access with its selector, its rule and
\* the fields and mode it writes in.
LEMMA WriteAccess ==
    ASSUME NEW m, NEW t, NEW i, NEW mode, NEW fields, WritesAs(m, t, i, mode, fields)
    PROVE  LET s == m.templates[t].steps[i]
           IN  \E a \in Accesses(m, t) :
                  /\ a.tx = t /\ a.step = i /\ a.sel = s.sel /\ a.fields = fields /\ a.mode = mode
                  /\ a.field = s.field /\ a.rule = s.rule
<1> DEFINE s == m.templates[t].steps[i]
           version == m.schema[s.sel.object].version
           at(mo, fi) ==
              [tx |-> t, step |-> i, sel |-> s.sel, fields |-> fi, mode |-> mo,
               field |-> s.field, rule |-> s.rule]
           everywhere(mo) ==
              [at(mo, AllFields) EXCEPT !.sel.pins = {}]
           published == IF version = NoField THEN {}
                     ELSE {[at("VersionPublish", Only({version})) EXCEPT !.field = version]}
           compared  == IF s.compare = {} THEN {}
                     ELSE {at("CompareRead", Only({c.field : c \in s.compare}))}
<1>1. StepAccesses(m, t, i) =
        CASE s.kind = "read"   -> {at("Read", s.fields)}
          [] s.kind = "update" -> {at("Update", Declared(s.fields.of))} \cup published
          [] s.kind = "compare_and_set" ->
                {at("CompareWrite", Declared(s.fields.of))} \cup compared \cup published
          [] s.kind = "insert" -> {everywhere("Insert")}
          [] s.kind = "upsert" -> {at("UpsertReadWrite", AllFields)}
          [] s.kind = "delete" -> {at("Delete", AllFields)}
          [] s.kind = "lock"   -> {}
          [] s.kind \in {"transition", "advance_cursor", "fence"} ->
                {at(mo, Only({s.field})) : mo \in ProtocolModes(s)} \cup compared \cup published
  BY DEF StepAccesses
<1>2. StepAccesses(m, t, i) \subseteq Accesses(m, t)
  <2>1. i \in DOMAIN m.templates[t].steps
    BY DEF WritesAs
  <2> QED
    BY <2>1 DEF Accesses
<1>3. LET a == at(mode, fields)
      IN  /\ a.tx = t /\ a.step = i /\ a.sel = s.sel /\ a.fields = fields /\ a.mode = mode
          /\ a.field = s.field /\ a.rule = s.rule
  OBVIOUS
<1> HIDE DEF at, everywhere, published, compared
<1>4. at(mode, fields) \in StepAccesses(m, t, i)
  <2>1. CASE s.kind \in {"update", "compare_and_set"}
    BY Zenon, <1>1, <2>1 DEF WritesAs
  <2>2. CASE s.kind \in {"upsert", "delete"}
    BY Zenon, <1>1, <2>2 DEF WritesAs
  <2>3. CASE s.kind \in {"advance_cursor", "fence"}
    <3>1. mode \in ProtocolModes(s) /\ fields = Only({s.field})
      BY <2>3 DEF ProtocolModes, WritesAs
    <3> QED
      BY Zenon, <1>1, <2>3, <3>1
  <2> QED
    BY Zenon, <2>1, <2>2, <2>3 DEF WritesAs
<1> QED
  BY <1>2, <1>3, <1>4

\* An insertion's is of every instance.
LEMMA InsertAccess ==
    ASSUME NEW m, NEW t, NEW i \in DOMAIN m.templates[t].steps, NEW s, s = m.templates[t].steps[i],
           "object" \in DOMAIN s.sel, "pins" \in DOMAIN s.sel, s.kind = "insert"
    PROVE  \E a \in Accesses(m, t) :
              /\ a.tx = t /\ a.step = i /\ a.sel.object = s.sel.object /\ a.sel.pins = {}
              /\ a.fields = AllFields /\ a.mode = "Insert"
<1> DEFINE version == m.schema[s.sel.object].version
           at(mo, fi) ==
              [tx |-> t, step |-> i, sel |-> s.sel, fields |-> fi, mode |-> mo,
               field |-> s.field, rule |-> s.rule]
           everywhere(mo) ==
              [at(mo, AllFields) EXCEPT !.sel.pins = {}]
           published == IF version = NoField THEN {}
                     ELSE {[at("VersionPublish", Only({version})) EXCEPT !.field = version]}
           compared  == IF s.compare = {} THEN {}
                     ELSE {at("CompareRead", Only({c.field : c \in s.compare}))}
<1>1. StepAccesses(m, t, i) =
        CASE s.kind = "read"   -> {at("Read", s.fields)}
          [] s.kind = "update" -> {at("Update", Declared(s.fields.of))} \cup published
          [] s.kind = "compare_and_set" ->
                {at("CompareWrite", Declared(s.fields.of))} \cup compared \cup published
          [] s.kind = "insert" -> {everywhere("Insert")}
          [] s.kind = "upsert" -> {at("UpsertReadWrite", AllFields)}
          [] s.kind = "delete" -> {at("Delete", AllFields)}
          [] s.kind = "lock"   -> {}
          [] s.kind \in {"transition", "advance_cursor", "fence"} ->
                {at(mo, Only({s.field})) : mo \in ProtocolModes(s)} \cup compared \cup published
  BY DEF StepAccesses
<1>2. StepAccesses(m, t, i) \subseteq Accesses(m, t)
  BY DEF Accesses
<1>3. LET a == everywhere("Insert")
      IN  /\ a.tx = t /\ a.step = i /\ a.sel.object = s.sel.object /\ a.sel.pins = {}
          /\ a.fields = AllFields /\ a.mode = "Insert"
  OBVIOUS
<1> HIDE DEF at, everywhere, published, compared
<1>4. everywhere("Insert") \in StepAccesses(m, t, i)
  BY <1>1
<1> QED
  BY <1>2, <1>3, <1>4

\* A protocol step's, whichever of the two it is.
LEMMA ProtocolAccess ==
    ASSUME NEW m, NEW t, NEW i \in DOMAIN m.templates[t].steps, NEW s, s = m.templates[t].steps[i],
           s.kind \in {"advance_cursor", "fence"}
    PROVE  \E a \in Accesses(m, t) :
              /\ a.tx = t /\ a.step = i /\ a.sel = s.sel /\ a.fields = Only({s.field})
              /\ a.mode \in {"FenceReadWrite", "CursorReadWrite"}
              /\ s.kind = "fence" => a.mode = "FenceReadWrite"
              /\ a.field = s.field /\ a.rule = s.rule
<1> DEFINE mode == IF s.kind = "fence" THEN "FenceReadWrite" ELSE "CursorReadWrite"
<1>1. /\ WritesAs(m, t, i, mode, Only({s.field}))
      /\ mode \in {"FenceReadWrite", "CursorReadWrite"}
      /\ s.kind = "fence" => mode = "FenceReadWrite"
  BY DEF WritesAs
<1> HIDE DEF mode
<1>2. \E a \in Accesses(m, t) :
              /\ a.tx = t /\ a.step = i /\ a.sel = s.sel /\ a.fields = Only({s.field}) /\ a.mode = mode
              /\ a.field = s.field /\ a.rule = s.rule
  BY <1>1, WriteAccess
<1> QED
  BY <1>1, <1>2

\* What an accepted route is: one cursor advance or fence, of the instance its
\* key names, that carries the position.
LEMMA RouteIs ==
    ASSUME NEW m, Valid(m), NEW t, NEW r, NEW i, Kept(m, t, r, i), NEW s, s = m.templates[t].steps[i]
    PROVE  /\ WellFormed(m) /\ t \in Templates(m) /\ i \in DOMAIN m.templates[t].steps /\ i \in Nat
           /\ ValidStep(m, s) /\ ValidObject(m.schema[s.sel.object])
           /\ s.kind \in {"advance_cursor", "fence"} /\ s.incoming = r.position
           /\ SerializabilityProven(m, t)
           /\ KeyIdentifiesDomain(m, s.sel, r.key)
           /\ ~UncontrolledWriter(m, s.sel.object, s.field, s.rule)
           /\ ~Deleter(m, s.sel.object)
           /\ \A j \in OrderingRoute(m, t, r) : j = i
           /\ s.kind = "fence" =>
                /\ PinnedFields(s.sel) \subseteq m.schema[s.sel.object].identity
                /\ Protected(m, Place(m, t, i)) \/ CoveringLock(m, Place(m, t, i), {"exclusive"})
<1> DEFINE carries == {j \in DOMAIN m.templates[t].steps :
                          /\ m.templates[t].steps[j].kind \in {"advance_cursor", "fence"}
                          /\ m.templates[t].steps[j].incoming = r.position}
<1>1. OrderingRoute(m, t, r) = {j \in carries : \A k \in carries : j <= k}
  BY DEF OrderingRoute
<1>2. carries \subseteq DOMAIN m.templates[t].steps
  OBVIOUS
<1>3. WellFormed(m) /\ t \in Templates(m) /\ DOMAIN m.templates[t].steps \subseteq Nat
  BY DEF Kept, Valid, WellFormed
<1>4. i \in carries
  BY <1>1 DEF Kept
<1>5. \A j \in OrderingRoute(m, t, r) : j = i
  <2>1. \A j, k \in carries : j <= k /\ k <= j => j = k
    BY <1>2, <1>3
  <2> HIDE DEF carries
  <2> QED
    BY <1>1, <2>1 DEF Kept
<1>6. s.kind \in {"advance_cursor", "fence"} /\ s.incoming = r.position
  BY <1>4
<1>7. i \in DOMAIN m.templates[t].steps /\ i \in Nat
  BY <1>2, <1>3, <1>4
<1> HIDE DEF carries
<1>8. ValidStep(m, s) /\ ValidObject(m.schema[s.sel.object])
  <2>1. ValidStep(m, s)
    BY <1>3, <1>7 DEF Valid
  <2>2. s.sel.object \in DOMAIN m.schema
    BY <2>1 DEF ValidStep
  <2> QED
    BY <2>1, <2>2 DEF Valid
<1>9. /\ SerializabilityProven(m, t)
      /\ KeyIdentifiesDomain(m, s.sel, r.key)
      /\ ~UncontrolledWriter(m, s.sel.object, s.field, s.rule)
  <2>1. OrderingProven(m, t, r)
    BY DEF Kept
  <2>2. SerializabilityProven(m, t)
    BY <2>1 DEF OrderingProven
  <2>3. PICK j \in OrderingRoute(m, t, r) :
            /\ KeyIdentifiesDomain(m, m.templates[t].steps[j].sel, r.key)
            /\ ~UncontrolledWriter(m, m.templates[t].steps[j].sel.object,
                                   m.templates[t].steps[j].field, m.templates[t].steps[j].rule)
    BY <2>1 DEF OrderingProven
  <2> QED
    BY <1>5, <2>2, <2>3
<1>10. /\ ~Deleter(m, s.sel.object)
       /\ s.kind = "fence" =>
            /\ PinnedFields(s.sel) \subseteq m.schema[s.sel.object].identity
            /\ Protected(m, Place(m, t, i)) \/ CoveringLock(m, Place(m, t, i), {"exclusive"})
  BY DEF Kept, KeepsRoute, Place
<1> QED
  BY Zenon, <1>3, <1>5, <1>6, <1>7, <1>8, <1>9, <1>10

\* A cursor advance holds its instance from the step itself.
LEMMA CursorIsProtected ==
    ASSUME NEW m, Valid(m), NEW t, NEW r, NEW i, Kept(m, t, r, i),
           m.templates[t].steps[i].kind = "advance_cursor"
    PROVE  i \in Guards(m, t) /\ Protected(m, Place(m, t, i))
<1> DEFINE s == m.templates[t].steps[i]
<1>1. i \in DOMAIN m.templates[t].steps /\ i \in Nat /\ IdentifiesInstance(m, s.sel)
  BY RouteIs DEF KeyIdentifiesDomain
<1>2. i \in Guards(m, t)
  BY <1>1 DEF Guards, GuardKinds, HoldsProtection
<1>3. Place(m, t, i).tx = t /\ Place(m, t, i).step = i /\ Place(m, t, i).sel = m.templates[t].steps[i].sel
  BY DEF Place
<1> HIDE DEF s
<1> QED
  BY <1>1, <1>2, <1>3 DEF Protected

\* An insertion, which selects nothing, conflicts with the route and is of an
\* isolated transaction: nothing else would fix the order of the two writes.
LEMMA InsertersAreIsolated ==
    ASSUME NEW m, Valid(m), NEW t, NEW r, NEW i, Kept(m, t, r, i),
           NEW u \in Templates(m), NEW j \in DOMAIN m.templates[u].steps,
           m.templates[u].steps[j].kind = "insert",
           m.templates[u].steps[j].sel.object = m.templates[t].steps[i].sel.object
    PROVE  Isolated(m, u)
<1> DEFINE s == m.templates[t].steps[i]
           e == m.templates[u].steps[j]
<1>1. /\ WellFormed(m) /\ t \in Templates(m) /\ i \in DOMAIN m.templates[t].steps
      /\ ValidStep(m, s) /\ ValidObject(m.schema[s.sel.object])
      /\ s.kind \in {"advance_cursor", "fence"} /\ SerializabilityProven(m, t)
  BY RouteIs
<1>2. ValidStep(m, e)
  BY DEF Valid
<1>3. PICK a \in Accesses(m, t) :
          /\ a.sel = s.sel /\ a.mode \in {"CursorReadWrite", "FenceReadWrite"} /\ a.tx = t
          /\ a.fields = Only({s.field})
  <2>1. i \in DOMAIN m.templates[t].steps /\ s.kind \in {"advance_cursor", "fence"}
    BY <1>1
  <2>2. s = m.templates[t].steps[i]
    OBVIOUS
  <2> HIDE DEF s
  <2> QED
    BY <2>1, <2>2, ProtocolAccess
<1>4. PICK b \in Accesses(m, u) :
          /\ b.tx = u /\ b.sel.object = e.sel.object /\ b.sel.pins = {}
          /\ b.fields = AllFields /\ b.mode = "Insert"
  <2>1. "object" \in DOMAIN e.sel /\ "pins" \in DOMAIN e.sel
    BY <1>2 DEF ValidStep
  <2>2. e = m.templates[u].steps[j] /\ e.kind = m.templates[u].steps[j].kind
    OBVIOUS
  <2> HIDE DEF e
  <2> QED
    BY SMTT(30), <2>1, <2>2, InsertAccess
<1>5. Conflict(a, b)
  <2>1. b.mode \in Writing
    BY Zenon, <1>4 DEF Writing
  <2>2. ~SelectorsDisjoint(a, b)
    <3>1. a.sel.object = b.sel.object
      BY Zenon, <1>3, <1>4
    <3> QED
      BY Zenon, <1>4, <3>1 DEF SelectorsDisjoint
  <2>3. ~FieldsDisjoint(a.fields, b.fields)
    <3>1. AllFields.kind # "only"
      BY DEF AllFields
    <3> QED
      BY Zenon, <1>4, <3>1 DEF FieldsDisjoint
  <2> QED
    BY Zenon, <2>1, <2>2, <2>3 DEF Conflict
<1>6. \/ Isolated(m, t) /\ Isolated(m, u)
      \/ ~Unconstrained(m, b, a)
  BY <1>1, <1>5, ConstrainedBothWays
<1>7. CASE ~Unconstrained(m, b, a)
  <2>1. ~OrderedCursor(b, a)
    BY <1>4 DEF OrderedCursor
  <2>2. a.mode \in Writing /\ b.mode \in Writing
    BY <1>3, <1>4 DEF Writing
  <2>3. WriteWriteConstrained(m, b, a)
    BY Zenon, <1>7, <2>1, <2>2 DEF Unconstrained
  <2>4. ~Protected(m, b)
    <3> SUFFICES ASSUME NEW k \in Guards(m, u), m.templates[u].steps[k].sel = b.sel
                 PROVE  FALSE
      BY <1>4 DEF Protected
    <3>1. IdentifiesInstance(m, b.sel)
      BY DEF Guards
    <3> QED
      BY Zenon, <1>4, <3>1 DEF IdentifiesInstance, PinnedFields
  <2> QED
    BY <1>4, <2>3, <2>4 DEF WriteWriteConstrained
<1> QED
  BY <1>6, <1>7

\* A fence of the same field whose selector may meet the route's belongs to an
\* isolated transaction, or to one that holds the instance already.
LEMMA FencesAreHeld ==
    ASSUME NEW m, Valid(m), NEW t, NEW r, NEW i, Kept(m, t, r, i),
           NEW u \in Templates(m), NEW j \in DOMAIN m.templates[u].steps,
           m.templates[u].steps[j].kind = "fence",
           m.templates[u].steps[j].sel.object = m.templates[t].steps[i].sel.object,
           m.templates[u].steps[j].field = m.templates[t].steps[i].field
    PROVE  /\ m.templates[t].steps[i].kind = "fence"
           /\ ~SelectorsDisjoint(Place(m, t, i), Place(m, u, j)) =>
                 Isolated(m, u) \/ Protected(m, Place(m, u, j))
<1> DEFINE s == m.templates[t].steps[i]
           e == m.templates[u].steps[j]
<1>1. /\ WellFormed(m) /\ t \in Templates(m) /\ i \in DOMAIN m.templates[t].steps
      /\ ValidStep(m, s) /\ ValidObject(m.schema[s.sel.object])
      /\ s.kind \in {"advance_cursor", "fence"} /\ SerializabilityProven(m, t)
      /\ ~UncontrolledWriter(m, s.sel.object, s.field, s.rule)
  BY RouteIs
<1>2. ValidStep(m, e)
  BY DEF Valid
<1>3. PICK a \in Accesses(m, t) :
          /\ a.sel = s.sel /\ a.mode \in {"CursorReadWrite", "FenceReadWrite"} /\ a.tx = t
          /\ a.fields = Only({s.field})
  <2>1. i \in DOMAIN m.templates[t].steps /\ s.kind \in {"advance_cursor", "fence"}
    BY <1>1
  <2>2. s = m.templates[t].steps[i]
    OBVIOUS
  <2> HIDE DEF s
  <2> QED
    BY <2>1, <2>2, ProtocolAccess
<1>4. PICK b \in Accesses(m, u) :
          /\ b.tx = u /\ b.step = j /\ b.sel = e.sel /\ b.fields = Only({e.field})
          /\ b.mode = "FenceReadWrite" /\ b.field = e.field
  <2>1. e = m.templates[u].steps[j] /\ j \in DOMAIN m.templates[u].steps
    OBVIOUS
  <2>2. e.kind = "fence" /\ e.kind \in {"advance_cursor", "fence"}
    OBVIOUS
  <2> HIDE DEF e
  <2> QED
    BY <2>1, <2>2, ProtocolAccess
<1>5. s.kind = "fence"
  <2>1. ~(b.mode = "FenceReadWrite" /\ b.field = s.field /\ s.rule # "none")
    BY Zenon, <1>1, <1>4 DEF UncontrolledWriter
  <2>2. s.rule = "none"
    BY Zenon, <1>4, <2>1
  <2> QED
    BY Zenon, <1>1, <2>2 DEF ValidStep
<1>6. ASSUME ~SelectorsDisjoint(Place(m, t, i), Place(m, u, j))
      PROVE  Isolated(m, u) \/ Protected(m, Place(m, u, j))
  <2>1. ~SelectorsDisjoint(a, b)
    <3>1. Place(m, t, i).sel = s.sel /\ Place(m, u, j).sel = e.sel
      BY Zenon DEF Place
    <3>2. a.sel = Place(m, t, i).sel /\ b.sel = Place(m, u, j).sel
      BY Zenon, <1>3, <1>4, <3>1
    <3> QED
      BY Zenon, <1>6, <3>2 DEF SelectorsDisjoint
  <2>2. Related(s.field, s.field)
    <3>1. s.field \in m.schema[s.sel.object].fields
      BY Zenon, <1>1 DEF ValidStep
    <3>2. Len(s.field) \in Nat
      BY Zenon, <1>1, <3>1 DEF ValidObject
    <3>3. Len(s.field) <= Len(s.field)
      BY <3>2
    <3> QED
      BY Zenon, <3>3 DEF Related, Nested, IsPrefix
  <2>3. ~FieldsDisjoint(a.fields, b.fields)
    <3>1. \A f : f \in Only({f}).of
      BY DEF Only
    <3>2. s.field \in a.fields.of /\ s.field \in b.fields.of
      BY Zenon, <1>3, <1>4, <3>1
    <3> QED
      BY Zenon, <2>2, <3>2 DEF FieldsDisjoint
  <2>4. Conflict(a, b)
    BY <1>4, <2>1, <2>3 DEF Conflict, Writing
  <2>5. CASE ~Unconstrained(m, a, b)
    <3>1. ~OrderedCursor(a, b)
      BY <1>4 DEF OrderedCursor
    <3>2. a.mode \in Writing /\ b.mode \in Reading
      BY <1>3, <1>4 DEF Writing, Reading
    <3>3. WriteReadConstrained(m, a, b)
      BY <2>5, <3>1, <3>2 DEF Unconstrained
    <3>4. Protected(m, b) => Protected(m, Place(m, u, j))
      BY Zenon, <1>4 DEF Protected, Place
    <3> QED
      BY <1>4, <3>3, <3>4 DEF WriteReadConstrained
  <2> QED
    BY Zenon, <1>1, <2>4, <2>5, ConstrainedBothWays
<1> QED
  BY <1>5, <1>6

\* What a step e is beside one that orders by a field, where the prover
\* accepts it: no other step sets that field, and none removes the instance.
Beside(m, s, e) ==
    LET object == m.schema[s.sel.object]
    IN  /\ s.field \in object.fields /\ s.field # Live /\ s.field # object.version
        /\ Live \notin object.fields /\ Live # object.version
        /\ e.kind \in StepKinds
        /\ e.sel.object = s.sel.object =>
              /\ e.kind # "delete"
              /\ e.kind \in {"update", "compare_and_set", "upsert"} =>
                    e.fields.kind = "only" /\ \A g \in e.fields.of : ~Nested(s.field, g)
              /\ e.kind = "transition" => e.field # s.field
              /\ e.kind \in {"transition", "advance_cursor", "fence"} => e.field # Live

\* So it is of every step of every transaction: another writer of the field, or a
\* deleter, would be uncontrolled, or leave the instance unkept.
LEMMA BesideRoute ==
    ASSUME NEW m, Valid(m), NEW t, NEW r, NEW i, Kept(m, t, r, i), NEW s, s = m.templates[t].steps[i],
           NEW u \in Templates(m), NEW j \in DOMAIN m.templates[u].steps, NEW e, e = m.templates[u].steps[j]
    PROVE  Beside(m, s, e)
<1> DEFINE object == m.schema[s.sel.object]
<1>1. /\ WellFormed(m) /\ t \in Templates(m) /\ i \in DOMAIN m.templates[t].steps
      /\ s.kind \in {"advance_cursor", "fence"}
      /\ ~UncontrolledWriter(m, s.sel.object, s.field, s.rule)
      /\ ~Deleter(m, s.sel.object)
      /\ ValidStep(m, s) /\ ValidObject(object)
  BY RouteIs
<1>2. ValidStep(m, e)
  BY DEF Valid
<1>3. e.kind \in StepKinds
  BY Zenon, <1>1 DEF WellFormed
<1>4. /\ s.field \in object.fields /\ s.field # Live /\ s.field # object.version
      /\ Live \notin object.fields /\ Live # object.version
  <2>1. s.field \in object.fields /\ s.field # object.version
    BY Zenon, <1>1 DEF ValidStep
  <2>2. Live \notin object.fields \cup {object.version}
    BY Zenon, <1>1 DEF ValidObject
  <2> QED
    BY Zenon, <2>1, <2>2
<1> HIDE DEF object
<1>5. ASSUME e.sel.object = s.sel.object
      PROVE  /\ e.kind # "delete"
             /\ e.kind \in {"update", "compare_and_set", "upsert"} =>
                   e.fields.kind = "only" /\ \A g \in e.fields.of : ~Nested(s.field, g)
             /\ e.kind = "transition" => e.field # s.field
             /\ e.kind \in {"transition", "advance_cursor", "fence"} => e.field # Live
  <2>4. e.kind # "delete"
    <3> SUFFICES ASSUME e.kind = "delete" PROVE FALSE
      OBVIOUS
    <3>1. WritesAs(m, u, j, "Delete", AllFields)
      BY DEF WritesAs
    <3>2. \E a \in Accesses(m, u) :
              /\ a.tx = u /\ a.step = j /\ a.sel = e.sel /\ a.fields = AllFields /\ a.mode = "Delete"
              /\ a.field = e.field /\ a.rule = e.rule
      BY <3>1, WriteAccess
    <3> QED
      BY <1>1, <1>5, <3>2 DEF Deleter
  <2>5. ASSUME NEW mode \in {"Update", "CompareWrite"}, NEW F, F = Declared(e.fields.of), WritesAs(m, u, j, mode, F)
        PROVE  e.fields.kind = "only" /\ \A g \in e.fields.of : ~Nested(s.field, g)
    <3>1. WritesAs(m, u, j, mode, F)
      BY <2>5
    <3>2. PICK a \in Accesses(m, u) :
              /\ a.tx = u /\ a.step = j /\ a.sel = e.sel /\ a.fields = F /\ a.mode = mode
              /\ a.field = e.field /\ a.rule = e.rule
      BY <3>1, WriteAccess
    <3>3. FieldsDisjoint(F, Only({s.field}))
      BY Zenon, <1>1, <1>5, <2>5, <3>2 DEF UncontrolledWriter
    <3>4. e.fields.of # {} /\ F = Only(e.fields.of)
      BY Zenon, <2>5, <3>3 DEF FieldsDisjoint, Declared, UnknownFields
    <3>5. \A g \in e.fields.of : ~Related(g, s.field)
      BY <3>3, <3>4 DEF FieldsDisjoint, Only
    <3> QED
      BY Zenon, <1>2, <3>4, <3>5 DEF ValidStep, Related
  <2>6. ASSUME e.kind = "upsert"
        PROVE  e.fields.kind = "only" /\ \A g \in e.fields.of : ~Nested(s.field, g)
    <3>1. WritesAs(m, u, j, "UpsertReadWrite", AllFields)
      BY <2>6 DEF WritesAs
    <3>2. PICK a \in Accesses(m, u) :
              /\ a.tx = u /\ a.step = j /\ a.sel = e.sel /\ a.fields = AllFields /\ a.mode = "UpsertReadWrite"
              /\ a.field = e.field /\ a.rule = e.rule
      BY <3>1, WriteAccess
    <3>3. FieldsDisjoint(m.templates[u].steps[a.step].fields, Only({s.field}))
      <4>1. a.sel.object = s.sel.object
        BY Zenon, <1>5, <3>2
      <4>2. ASSUME ~FieldsDisjoint(m.templates[u].steps[a.step].fields, Only({s.field}))
            PROVE  UncontrolledWriter(m, s.sel.object, s.field, s.rule)
        BY Zenon, <3>2, <4>1, <4>2 DEF UncontrolledWriter
      <4> QED
        BY Zenon, <1>1, <4>2
    <3>4. FieldsDisjoint(e.fields, Only({s.field}))
      BY <3>2, <3>3
    <3> QED
      BY <3>4 DEF FieldsDisjoint, Only, Related
  <2>7. e.kind = "transition" => e.field # s.field
    BY Zenon, <1>1, <1>5 DEF Valid
  <2>8. e.kind \in {"transition", "advance_cursor", "fence"} => e.field # Live
    <3>1. Live \notin m.schema[s.sel.object].fields
      BY <1>4 DEF object
    <3> QED
      BY Zenon, <1>2, <1>5, <3>1 DEF ValidStep
  <2>9. /\ e.kind = "update" => WritesAs(m, u, j, "Update", Declared(e.fields.of))
        /\ e.kind = "compare_and_set" => WritesAs(m, u, j, "CompareWrite", Declared(e.fields.of))
    BY DEF WritesAs
  <2>10. e.kind \in {"update", "compare_and_set"} =>
            e.fields.kind = "only" /\ \A g \in e.fields.of : ~Nested(s.field, g)
    BY <2>5, <2>9
  <2> QED
    BY <1>3, <2>4, <2>6, <2>7, <2>8, <2>10
<1> QED
  BY Zenon, <1>3, <1>4, <1>5 DEF Beside, object

-----------------------------------------------------------------------------
(* What a step writes, and what of it reaches the register of a route *)

\* A set of instances, each with its key.
Located(S) == \A i \in S : i = <<i[1], i[2]>>

\* So are the instances of one object.
LEMMA InstancesAreLocated ==
    ASSUME NEW object, NEW S, S \subseteq Instances(object)
    PROVE  Located(S)
  BY DEF Located, Instances

\* What a mutation of some instances of an object writes.
LEMMA MutationIs ==
    ASSUME NEW S, Located(S), NEW set, NEW view,
           NEW o, NEW k, NEW g, NEW l, l = <<o, k, g>>
    PROVE  /\ l \in DOMAIN Mutation(S, set, view) <=>
                /\ <<o, k>> \in S
                /\ g \in DOMAIN set \/ (g = model.schema[o].version /\ model.schema[o].version # NoField)
           /\ l \in DOMAIN Mutation(S, set, view) =>
                Mutation(S, set, view)[l] = IF g \in DOMAIN set THEN set[g] ELSE view[l] + 1
<1> DEFINE changed(i) == {Loc(i, f) : f \in DOMAIN set}
           version(i) == IF model.schema[i[1]].version = NoField THEN {}
                         ELSE {Loc(i, model.schema[i[1]].version)}
           D == UNION {changed(i) \cup version(i) : i \in S}
<1>1. Mutation(S, set, view) = [m \in D |-> IF m[3] \in DOMAIN set THEN set[m[3]] ELSE view[m] + 1]
  BY DEF Mutation
<1>2. \A i \in S : i = <<i[1], i[2]>>
  BY DEF Located
<1>3. l \in D <=> \E i \in S : l \in changed(i) \/ l \in version(i)
  <2> HIDE DEF changed, version
  <2>1. D = UNION {changed(i) \cup version(i) : i \in S}
    OBVIOUS
  <2> HIDE DEF D
  <2>2. ASSUME l \in D PROVE \E i \in S : l \in changed(i) \/ l \in version(i)
    BY <2>1, <2>2
  <2>3. ASSUME NEW i \in S, l \in changed(i) \/ l \in version(i) PROVE l \in D
    <3>1. changed(i) \cup version(i) \in {changed(n) \cup version(n) : n \in S}
      OBVIOUS
    <3> QED
      BY <2>1, <2>3, <3>1
  <2> QED
    BY <2>2, <2>3
<1>4. ASSUME NEW i \in S
      PROVE  /\ l \in changed(i) <=> i = <<o, k>> /\ g \in DOMAIN set
             /\ l \in version(i) <=> /\ i = <<o, k>> /\ g = model.schema[o].version
                                     /\ model.schema[o].version # NoField
  <2>1. i = <<i[1], i[2]>>
    BY <1>2
  <2>2. \A f : Loc(i, f) = <<i[1], i[2], f>>
    BY DEF Loc
  <2>3. \A f : l = Loc(i, f) <=> i = <<o, k>> /\ g = f
    BY <2>1, <2>2
  <2>4. i = <<o, k>> => i[1] = o
    OBVIOUS
  <2> QED
    BY <2>3, <2>4
<1> HIDE DEF changed, version
<1>5. l \in D <=> /\ <<o, k>> \in S
                  /\ g \in DOMAIN set \/ (g = model.schema[o].version /\ model.schema[o].version # NoField)
  BY <1>3, <1>4
<1>6. l[3] = g
  OBVIOUS
<1> HIDE DEF D
<1> QED
  BY <1>1, <1>5, <1>6

\* What the insertion of some instances of an object writes.
LEMMA InsertionIs ==
    ASSUME NEW S, Located(S), NEW set,
           NEW o, NEW k, NEW g, NEW l, l = <<o, k, g>>
    PROVE  /\ l \in DOMAIN Insertion(S, set) <=> <<o, k>> \in S /\ g \in FieldsOf(o) \cup {Live}
           /\ l \in DOMAIN Insertion(S, set) =>
                Insertion(S, set)[l] = IF g \in {Live, model.schema[o].version} THEN 1
                                       ELSE IF g \in DOMAIN set THEN set[g] ELSE 0
<1> DEFINE whole(i) == {Loc(i, f) : f \in FieldsOf(i[1]) \cup {Live}}
           D == UNION {whole(i) : i \in S}
<1>1. Insertion(S, set) = [m \in D |-> IF m[3] \in {Live, model.schema[m[1]].version} THEN 1
                                       ELSE IF m[3] \in DOMAIN set THEN set[m[3]] ELSE 0]
  BY DEF Insertion
<1>2. \A i \in S : i = <<i[1], i[2]>>
  BY DEF Located
<1>3. l \in D <=> \E i \in S : l \in whole(i)
  OBVIOUS
<1>4. ASSUME NEW i \in S
      PROVE  l \in whole(i) <=> i = <<o, k>> /\ g \in FieldsOf(o) \cup {Live}
  <2>1. i = <<i[1], i[2]>>
    BY <1>2
  <2>2. \A f : Loc(i, f) = <<i[1], i[2], f>>
    BY DEF Loc
  <2>3. \A f : l = Loc(i, f) <=> i = <<o, k>> /\ g = f
    BY <2>1, <2>2
  <2>4. i = <<o, k>> => i[1] = o
    OBVIOUS
  <2> QED
    BY <2>3, <2>4
<1> HIDE DEF whole
<1>5. l \in D <=> <<o, k>> \in S /\ g \in FieldsOf(o) \cup {Live}
  BY <1>3, <1>4
<1>6. l[3] = g /\ l[1] = o
  OBVIOUS
<1> HIDE DEF D
<1> QED
  BY <1>1, <1>5, <1>6

\* The same of every field of an instance.
LEMMA MutationReaches ==
    ASSUME NEW S, Located(S), NEW set, NEW view, NEW o, NEW k
    PROVE  \A g : <<o, k, g>> \in DOMAIN Mutation(S, set, view) <=>
                /\ <<o, k>> \in S
                /\ g \in DOMAIN set \/ (g = model.schema[o].version /\ model.schema[o].version # NoField)
<1> TAKE g
<1> DEFINE l == <<o, k, g>>
<1>1. l = <<o, k, g>>
  OBVIOUS
<1> HIDE DEF l
<1> QED
  BY <1>1, MutationIs

\* The same of an insertion.
LEMMA InsertionReaches ==
    ASSUME NEW S, Located(S), NEW set, NEW o, NEW k
    PROVE  \A g : <<o, k, g>> \in DOMAIN Insertion(S, set) <=> <<o, k>> \in S /\ g \in FieldsOf(o) \cup {Live}
<1> TAKE g
<1> DEFINE l == <<o, k, g>>
<1>1. l = <<o, k, g>>
  OBVIOUS
<1> HIDE DEF l
<1> QED
  BY <1>1, InsertionIs

\* A step's instances are of its selector's object, each with one of the keys.
LEMMA SelectedIn ==
    ASSUME NEW x, NEW sel, NEW view
    PROVE  /\ Selected(x, sel, view) \subseteq Domain(x, sel)
           /\ Domain(x, sel) \subseteq Instances(sel.object)
           /\ Located(Domain(x, sel))
           /\ \A k : <<sel.object, k>> \in Selected(x, sel, view) => view[<<sel.object, k, Live>>] = 1
           /\ \A o, k : <<o, k>> \in Domain(x, sel) => o = sel.object /\ k \in Keys
<1>1. Domain(x, sel) \subseteq Instances(sel.object)
  BY DEF Domain
<1>2. Located(Domain(x, sel))
  BY <1>1, InstancesAreLocated
<1> QED
  BY <1>1, <1>2 DEF Selected, Domain, Instances, Loc

\* The register of instance k that the step s orders by, and its instance's
\* being there.
Reg(s, k)        == <<s.sel.object, k, s.field>>
Alive(s, k)      == <<s.sel.object, k, Live>>
Reaches(s, k, w) == Reg(s, k) \in DOMAIN w \/ Alive(s, k) \in DOMAIN w

\* The writes of a step, by its kind.
Setting(x, e) ==
    [f \in Named(e.sel.object, e.fields) \ {model.schema[e.sel.object].version} |->
        IF e.val = "restore" THEN 0 ELSE x.id]

Passing(x, e, view) ==
    {i \in Selected(x, e.sel, view) :
        e.kind = "advance_cursor" \/ Eval(x, e.incoming) > view[Loc(i, e.field)]}

Written(x, e, view) ==
    LET S == Selected(x, e.sel, view)
        D == Domain(x, e.sel)
        value == IF e.val = "restore" THEN 0 ELSE x.id
        only(new) == [f \in {e.field} |-> new]
    IN  CASE e.kind \in {"read", "lock"} -> Nothing
          [] e.kind \in {"update", "compare_and_set"} -> Mutation(S, Setting(x, e), view)
          [] e.kind = "insert" -> Insertion(D, Setting(x, e))
          [] e.kind = "upsert" -> Over(Mutation(S, Setting(x, e), view), Insertion(D \ S, Setting(x, e)))
          [] e.kind = "delete" -> Deletion(S)
          [] e.kind = "transition" -> Mutation(S, only(value), view)
          [] e.kind \in {"advance_cursor", "fence"} ->
                Mutation(Passing(x, e, view), only(Eval(x, e.incoming)), view)

\* They are what Outcome computes.
LEMMA OutcomeWrites ==
    ASSUME NEW x, NEW e, e.kind \in StepKinds, NEW view, NEW out, out = Outcome(x, e, view)
    PROVE  out.w = Written(x, e, view)
<1> DEFINE S == Selected(x, e.sel, view)
           D == Domain(x, e.sel)
           value == IF e.val = "restore" THEN 0 ELSE x.id
           fields == Named(e.sel.object, e.fields)
           set == [f \in fields \ {model.schema[e.sel.object].version} |-> value]
           incoming == Eval(x, e.incoming)
<1>1. Setting(x, e) = set
  BY DEF Setting
<1>2. CASE e.kind = "read"
  BY <1>2 DEF Outcome, Written
<1>3. CASE e.kind = "lock"
  BY <1>3 DEF Outcome, Written
<1>4. CASE e.kind = "update"
  BY <1>1, <1>4 DEF Outcome, Written
<1>5. CASE e.kind = "compare_and_set"
  BY <1>1, <1>5 DEF Outcome, Written
<1>6. CASE e.kind = "insert"
  BY <1>1, <1>6 DEF Outcome, Written
<1>7. CASE e.kind = "upsert"
  BY <1>1, <1>7 DEF Outcome, Written
<1>8. CASE e.kind = "delete"
  BY <1>8 DEF Outcome, Written
<1>9. CASE e.kind = "transition"
  BY <1>9 DEF Outcome, Written
<1>10. CASE e.kind = "advance_cursor"
  <2>1. Passing(x, e, view) = S
    BY <1>10 DEF Passing
  <2> QED
    BY <1>10, <2>1 DEF Outcome, Written
<1>11. CASE e.kind = "fence"
  <2>1. Passing(x, e, view) = {i \in S : incoming > view[Loc(i, e.field)]}
    BY <1>11 DEF Passing
  <2> QED
    BY <1>11, <2>1 DEF Outcome, Written
<1> QED
  BY <1>2, <1>3, <1>4, <1>5, <1>6, <1>7, <1>8, <1>9, <1>10, <1>11 DEF StepKinds

\* What a step that applies has found.
LEMMA OutcomeFinds ==
    ASSUME NEW x, NEW e, NEW view, NEW out, out = Outcome(x, e, view), out.ok
    PROVE  /\ e.kind = "insert" => \A i \in Domain(x, e.sel) : view[Loc(i, Live)] = 0
           /\ e.kind = "upsert" =>
                 \A i \in Domain(x, e.sel) \ Selected(x, e.sel, view) : view[Loc(i, Live)] = 0
           /\ e.kind \in {"advance_cursor", "fence"} => Selected(x, e.sel, view) # {}
           /\ e.kind = "advance_cursor" =>
                 \A i \in Selected(x, e.sel, view) :
                    IF e.rule = "successor" THEN Eval(x, e.incoming) = view[Loc(i, e.field)] + 1
                    ELSE Eval(x, e.incoming) > view[Loc(i, e.field)]
           /\ e.kind = "fence" =>
                 \A i \in Selected(x, e.sel, view) : Eval(x, e.incoming) >= view[Loc(i, e.field)]
<1>1. CASE e.kind = "insert"
  BY <1>1 DEF Outcome
<1>2. CASE e.kind = "upsert"
  BY <1>2 DEF Outcome
<1>3. CASE e.kind = "advance_cursor"
  BY <1>3 DEF Outcome, Holds
<1>4. CASE e.kind = "fence"
  BY <1>4 DEF Outcome, Holds
<1> QED
  BY <1>1, <1>2, <1>3, <1>4

\* Only insertions and the protocol's own steps reach the register or the
\* liveness of an instance, each of an instance it may address.
ReachesAs(x, e, s, view, k) ==
    /\ e.sel.object = s.sel.object /\ <<s.sel.object, k>> \in Domain(x, e.sel)
    /\ \/ e.kind = "insert" /\ Written(x, e, view) = Insertion(Domain(x, e.sel), Setting(x, e))
       \/ /\ e.kind = "upsert"
          /\ <<s.sel.object, k>> \in Domain(x, e.sel) \ Selected(x, e.sel, view)
       \/ /\ e.kind \in {"advance_cursor", "fence"} /\ e.field = s.field
          /\ <<s.sel.object, k>> \in Passing(x, e, view)

\* The rest writes other fields of the instance, or other objects.
LEMMA WhatReaches ==
    ASSUME NEW x, NEW e, NEW s, Beside(model, s, e), NEW view, NEW k, Reaches(s, k, Written(x, e, view))
    PROVE  ReachesAs(x, e, s, view, k)
<1> DEFINE S == Selected(x, e.sel, view)
           D == Domain(x, e.sel)
           o == s.sel.object
           value == IF e.val = "restore" THEN 0 ELSE x.id
           only(new) == [f \in {e.field} |-> new]
<1>1. S \subseteq D /\ D \subseteq Instances(e.sel.object) /\ Located(D)
  BY SelectedIn
<1>2. <<o, k>> \in D => o = e.sel.object
  BY SelectedIn
<1>3. /\ s.field # Live /\ s.field # model.schema[o].version /\ Live # model.schema[o].version
      /\ s.field \in FieldsOf(o) /\ Live \notin FieldsOf(o)
  BY DEF Beside, FieldsOf
<1>4. ASSUME e.kind \in {"update", "compare_and_set", "upsert"}, e.sel.object = o
      PROVE  s.field \notin DOMAIN Setting(x, e) /\ Live \notin DOMAIN Setting(x, e)
  <2>1. e.fields.kind = "only" /\ \A g \in e.fields.of : ~Nested(s.field, g)
    BY <1>4 DEF Beside
  <2>2. s.field \notin Named(o, e.fields) /\ Live \notin Named(o, e.fields)
    BY <1>3, <2>1 DEF Named
  <2> QED
    BY <1>4, <2>2 DEF Setting
<1>5. ASSUME NEW P, P \subseteq S, NEW set, Reaches(s, k, Mutation(P, set, view))
      PROVE  e.sel.object = o /\ <<o, k>> \in P /\ (s.field \in DOMAIN set \/ Live \in DOMAIN set)
  <2>1. Located(P)
    BY <1>1, <1>5 DEF Located, Instances
  <2>2. \A g : <<o, k, g>> \in DOMAIN Mutation(P, set, view) <=>
                /\ <<o, k>> \in P
                /\ g \in DOMAIN set \/ (g = model.schema[o].version /\ model.schema[o].version # NoField)
    BY <2>1, MutationReaches
  <2> QED
    BY <1>1, <1>2, <1>3, <1>5, <2>2 DEF Reaches, Reg, Alive
<1>6. e.kind \in StepKinds
  BY DEF Beside
<1>7. e.kind \notin {"read", "lock"}
  BY DEF Written, Nothing, Reaches
<1>8. e.kind \notin {"update", "compare_and_set"}
  <2> SUFFICES ASSUME e.kind \in {"update", "compare_and_set"} PROVE FALSE
    OBVIOUS
  <2>1. Reaches(s, k, Mutation(S, Setting(x, e), view))
    BY DEF Written
  <2> QED
    BY <1>4, <1>5, <2>1
<1>9. e.kind # "delete"
  <2> SUFFICES ASSUME e.kind = "delete" PROVE FALSE
    OBVIOUS
  <2>1. Reaches(s, k, Deletion(S))
    BY DEF Written
  <2>2. \E i \in S : Reg(s, k) \in {Loc(i, f) : f \in FieldsOf(i[1]) \cup {Live}}
                     \/ Alive(s, k) \in {Loc(i, f) : f \in FieldsOf(i[1]) \cup {Live}}
    BY <2>1 DEF Deletion, Reaches
  <2>3. \E i \in S : i[1] = o
    BY <2>2 DEF Loc, Reg, Alive
  <2>4. e.sel.object = o
    BY <1>1, <2>3 DEF Instances
  <2> QED
    BY <2>4 DEF Beside
<1>10. e.kind # "transition"
  <2> SUFFICES ASSUME e.kind = "transition" PROVE FALSE
    OBVIOUS
  <2>1. Reaches(s, k, Mutation(S, only(value), view))
    BY DEF Written
  <2>2. DOMAIN only(value) = {e.field}
    OBVIOUS
  <2> QED
    BY <1>5, <2>1, <2>2 DEF Beside
<1>11. CASE e.kind \in {"advance_cursor", "fence"}
  <2> DEFINE P == Passing(x, e, view)
  <2>1. P \subseteq S
    BY DEF Passing
  <2>2. Reaches(s, k, Mutation(P, only(Eval(x, e.incoming)), view))
    BY <1>11 DEF Written
  <2>3. DOMAIN only(Eval(x, e.incoming)) = {e.field}
    OBVIOUS
  <2> HIDE DEF P
  <2>4. e.sel.object = o /\ <<o, k>> \in P /\ (e.field = s.field \/ e.field = Live)
    BY <1>5, <2>1, <2>2, <2>3
  <2>5. e.field # Live
    BY <1>11, <2>4 DEF Beside
  <2> QED
    BY <1>1, <1>11, <2>1, <2>4, <2>5 DEF P, ReachesAs
<1>12. CASE e.kind = "insert"
  <2>1. Written(x, e, view) = Insertion(D, Setting(x, e))
    BY <1>12 DEF Written
  <2>2. \A g : <<o, k, g>> \in DOMAIN Insertion(D, Setting(x, e)) => <<o, k>> \in D
    BY <1>1, InsertionReaches
  <2>3. <<o, k>> \in D
    BY <2>1, <2>2 DEF Reaches, Reg, Alive
  <2> QED
    BY <1>2, <1>12, <2>1, <2>3 DEF ReachesAs
<1>13. CASE e.kind = "upsert"
  <2>1. Written(x, e, view) = Over(Mutation(S, Setting(x, e), view), Insertion(D \ S, Setting(x, e)))
    BY <1>13 DEF Written
  <2>2. DOMAIN Written(x, e, view) = DOMAIN Mutation(S, Setting(x, e), view)
                                     \cup DOMAIN Insertion(D \ S, Setting(x, e))
    BY <2>1 DEF Over
  <2>3. ~Reaches(s, k, Mutation(S, Setting(x, e), view))
    BY <1>4, <1>5, <1>13
  <2>4. Reaches(s, k, Insertion(D \ S, Setting(x, e)))
    BY <2>2, <2>3 DEF Reaches
  <2>5. Located(D \ S)
    BY <1>1 DEF Located
  <2>6. \A g : <<o, k, g>> \in DOMAIN Insertion(D \ S, Setting(x, e)) => <<o, k>> \in D \ S
    BY <2>5, InsertionReaches
  <2>7. <<o, k>> \in D \ S
    BY <2>4, <2>6 DEF Reaches, Reg, Alive
  <2> QED
    BY <1>2, <1>13, <2>7 DEF ReachesAs
<1> QED
  BY <1>6, <1>7, <1>8, <1>9, <1>10, <1>11, <1>12, <1>13 DEF StepKinds

\* What the writes w of a step that saw `view` make of register k: they bring
\* the instance into being, or they raise it.
Creates(s, k, w, view) ==
    /\ Reg(s, k) \in DOMAIN w /\ Alive(s, k) \in DOMAIN w
    /\ view[Alive(s, k)] = 0 /\ w[Alive(s, k)] = 1 /\ w[Reg(s, k)] \in Nat

Raises(s, k, w, view) ==
    /\ Reg(s, k) \in DOMAIN w /\ Alive(s, k) \notin DOMAIN w
    /\ view[Alive(s, k)] = 1 /\ w[Reg(s, k)] \in Nat
    /\ view[Reg(s, k)] \in Nat => w[Reg(s, k)] > view[Reg(s, k)]

\* An insertion where nothing was brings the instance into being.
LEMMA InsertionCreates ==
    ASSUME NEW x, x.id \in Nat, NEW e, NEW s, Beside(model, s, e), NEW view, NEW k,
           NEW D, Located(D), <<s.sel.object, k>> \in D,
           view[Alive(s, k)] = 0, NEW w, w = Insertion(D, Setting(x, e))
    PROVE  Creates(s, k, w, view)
<1> DEFINE o == s.sel.object
           l == Reg(s, k)
           v == Alive(s, k)
           set == Setting(x, e)
           f == s.field
<1>1. /\ f # Live /\ f # model.schema[o].version
      /\ f \in FieldsOf(o) /\ Live \notin FieldsOf(o)
  BY DEF Beside, FieldsOf
<1>2. \A g \in DOMAIN set : set[g] \in Nat
  BY DEF Setting
<1>3. Located(D) /\ <<o, k>> \in D /\ w = Insertion(D, set)
  OBVIOUS
<1>4. l = <<o, k, f>> /\ v = <<o, k, Live>>
  BY DEF Reg, Alive
<1> HIDE DEF l, v, set, o, f
<1>5. /\ l \in DOMAIN w <=> <<o, k>> \in D /\ f \in FieldsOf(o) \cup {Live}
      /\ l \in DOMAIN w => w[l] = IF f \in {Live, model.schema[o].version} THEN 1
                                  ELSE IF f \in DOMAIN set THEN set[f] ELSE 0
  BY <1>3, <1>4, InsertionIs
<1>6. /\ v \in DOMAIN w <=> <<o, k>> \in D /\ Live \in FieldsOf(o) \cup {Live}
      /\ v \in DOMAIN w => w[v] = IF Live \in {Live, model.schema[o].version} THEN 1
                                  ELSE IF Live \in DOMAIN set THEN set[Live] ELSE 0
  BY <1>3, <1>4, InsertionIs
<1>7. l \in DOMAIN w /\ w[l] \in Nat /\ v \in DOMAIN w /\ w[v] = 1
  BY <1>1, <1>2, <1>3, <1>5, <1>6
<1> QED
  BY <1>7 DEF Creates, l, v

\* What an applied step does to a register is one of the two: an insertion finds
\* no instance, a cursor advance a lower position, a fence raises it or leaves it.
LEMMA RegisterMoves ==
    ASSUME NEW x, x.id \in Nat, NEW e, NEW s, Beside(model, s, e), NEW view, NEW k,
           e.kind \in {"advance_cursor", "fence"} => Eval(x, e.incoming) \in Nat,
           NEW out, out = Outcome(x, e, view), out.ok, Reaches(s, k, out.w)
    PROVE  Creates(s, k, out.w, view) \/ Raises(s, k, out.w, view)
<1> DEFINE S == Selected(x, e.sel, view)
           D == Domain(x, e.sel)
           o == s.sel.object
           i == <<o, k>>
           incoming == Eval(x, e.incoming)
<1>1. S \subseteq D /\ D \subseteq Instances(e.sel.object) /\ Located(D)
  BY SelectedIn
<1>2. e.kind \in StepKinds
  BY DEF Beside
<1>3. out.w = Written(x, e, view)
  BY <1>2, OutcomeWrites
<1>4. Loc(i, Live) = Alive(s, k) /\ Loc(i, s.field) = Reg(s, k)
  BY DEF Loc, Alive, Reg
<1>5. /\ e.kind = "insert" => \A n \in D : view[Loc(n, Live)] = 0
      /\ e.kind = "upsert" => \A n \in D \ S : view[Loc(n, Live)] = 0
      /\ e.kind = "advance_cursor" =>
            \A n \in S : IF e.rule = "successor" THEN incoming = view[Loc(n, e.field)] + 1
                         ELSE incoming > view[Loc(n, e.field)]
  BY OutcomeFinds
<1>6. /\ e.sel.object = o /\ i \in D
      /\ \/ e.kind = "insert" /\ Written(x, e, view) = Insertion(D, Setting(x, e))
         \/ e.kind = "upsert" /\ i \in D \ S
         \/ e.kind \in {"advance_cursor", "fence"} /\ e.field = s.field /\ i \in Passing(x, e, view)
  <2>1. ReachesAs(x, e, s, view, k)
    BY <1>3, WhatReaches
  <2> QED
    BY <2>1 DEF ReachesAs
<1>7. CASE e.kind = "insert"
  <2>1. view[Alive(s, k)] = 0
    BY <1>4, <1>5, <1>6, <1>7
  <2>2. out.w = Insertion(D, Setting(x, e))
    BY <1>3, <1>6, <1>7
  <2> QED
    BY <1>1, <1>6, <2>1, <2>2, InsertionCreates
<1>8. CASE e.kind = "upsert"
  <2> DEFINE M == Mutation(S, Setting(x, e), view)
             N == Insertion(D \ S, Setting(x, e))
  <2>1. view[Alive(s, k)] = 0 /\ i \in D \ S
    BY <1>4, <1>5, <1>6, <1>8
  <2>2. out.w = Over(M, N)
    BY <1>3, <1>8 DEF Written
  <2>3. Creates(s, k, N, view)
    <3>1. Located(D \ S)
      BY <1>1 DEF Located
    <3> QED
      BY <2>1, <3>1, InsertionCreates
  <2>4. Reg(s, k) \notin DOMAIN M /\ Alive(s, k) \notin DOMAIN M
    <3>1. Located(S)
      BY <1>1 DEF Located
    <3>2. \A g : <<o, k, g>> \in DOMAIN M <=>
                /\ <<o, k>> \in S
                /\ g \in DOMAIN Setting(x, e)
                   \/ (g = model.schema[o].version /\ model.schema[o].version # NoField)
      BY <3>1, MutationReaches
    <3> QED
      BY <2>1, <3>2 DEF Reg, Alive
  <2> HIDE DEF M, N
  <2> QED
    BY <2>2, <2>3, <2>4 DEF Creates, Over
<1>9. CASE e.kind \in {"advance_cursor", "fence"}
  <2> DEFINE only == [f \in {e.field} |-> incoming]
             P == Passing(x, e, view)
             f == s.field
  <2>1. out.w = Mutation(P, only, view)
    BY <1>3, <1>9 DEF Written
  <2>2. P \subseteq S /\ i \in P /\ e.field = s.field
    BY <1>6, <1>9 DEF Passing
  <2>3. view[Alive(s, k)] = 1
    BY <1>1, <1>4, <2>2 DEF Selected
  <2>4. incoming \in Nat
    BY <1>9
  <2>5. view[Reg(s, k)] \in Nat => incoming > view[Reg(s, k)]
    <3>1. CASE e.kind = "advance_cursor"
      BY <1>4, <1>5, <2>2, <2>4, <3>1
    <3>2. CASE e.kind = "fence"
      BY <1>4, <2>2, <3>2 DEF Passing
    <3> QED
      BY <1>9, <3>1, <3>2
  <2>6. Located(P)
    BY <1>1, <2>2 DEF Located
  <2>7. Reg(s, k) = <<o, k, f>> /\ Alive(s, k) = <<o, k, Live>>
    BY DEF Reg, Alive
  <2>8. DOMAIN only = {f} /\ only[f] = incoming
    BY <2>2
  <2>9. f # Live /\ Live # model.schema[o].version
    BY DEF Beside
  <2> HIDE DEF only, P, o, f
  <2>10. /\ Reg(s, k) \in DOMAIN out.w <=>
                /\ <<o, k>> \in P
                /\ f \in DOMAIN only \/ (f = model.schema[o].version /\ model.schema[o].version # NoField)
         /\ Reg(s, k) \in DOMAIN out.w =>
                out.w[Reg(s, k)] = IF f \in DOMAIN only THEN only[f] ELSE view[Reg(s, k)] + 1
    BY <2>1, <2>6, <2>7, MutationIs
  <2>11. /\ Alive(s, k) \in DOMAIN out.w <=>
                /\ <<o, k>> \in P
                /\ Live \in DOMAIN only \/ (Live = model.schema[o].version /\ model.schema[o].version # NoField)
         /\ Alive(s, k) \in DOMAIN out.w =>
                out.w[Alive(s, k)] = IF Live \in DOMAIN only THEN only[Live] ELSE view[Alive(s, k)] + 1
    BY <2>1, <2>6, <2>7, MutationIs
  <2>12. <<o, k>> \in P
    BY <2>2
  <2> HIDE DEF incoming, i
  <2> QED
    BY <2>3, <2>4, <2>5, <2>8, <2>9, <2>10, <2>11, <2>12 DEF Raises
<1> QED
  BY <1>6, <1>7, <1>8, <1>9

-----------------------------------------------------------------------------
(* What the route's own step does *)

\* The one field of an object's identity is the one its selectors go by.
LEMMA IdentityIs ==
    ASSUME NEW o, \E f \in model.schema[o].identity : model.schema[o].identity = {f}
    PROVE  model.schema[o].identity = {IdField(o)}
  BY DEF IdField

\* An accepted route is of one instance, the one its key names.
LEMMA RouteDomain ==
    ASSUME Valid(model), NEW t, NEW r, NEW i, Kept(model, t, r, i), NEW s, s = model.templates[t].steps[i],
           NEW x, NEW n \in Domain(x, s.sel)
    PROVE  n = <<s.sel.object, Eval(x, r.key)>>
<1>1. KeyIdentifiesDomain(model, s.sel, r.key)
  BY RouteIs
<1>2. model.schema[s.sel.object].identity = {IdField(s.sel.object)}
  <2> DEFINE o == s.sel.object
  <2>1. \E f \in model.schema[o].identity : model.schema[o].identity = {f}
    <3>1. ValidObject(model.schema[o])
      BY Zenon, RouteIs
    <3> QED
      BY Zenon, <3>1 DEF ValidObject
  <2> HIDE DEF o
  <2>2. model.schema[o].identity = {IdField(o)}
    BY <2>1, IdentityIs
  <2> QED
    BY Zenon, <2>2 DEF o
<1>3. PICK p \in s.sel.pins : p[1] \in model.schema[s.sel.object].identity /\ p[2] = r.key
  BY Zenon, <1>1 DEF KeyIdentifiesDomain
<1>4. n \in Instances(s.sel.object) /\ n[2] = Eval(x, r.key)
  BY <1>2, <1>3 DEF Domain
<1> QED
  BY <1>4 DEF Instances

\* What is at least nought is at least what nought is.
LEMMA FromZero ==
    ASSUME NEW a \in Nat, NEW b \in Nat, 0 >= b PROVE a >= 0 /\ a >= b
  OBVIOUS

\* What is above one of two is above both.
LEMMA AboveBoth ==
    ASSUME NEW a \in Nat, NEW b \in Nat, NEW c \in Nat, a > b, b >= c PROVE a >= b /\ a >= c
  OBVIOUS

\* A register that stays at least as high keeps what it was above.
LEMMA NoMore ==
    ASSUME NEW a \in Nat, NEW b \in Nat, NEW c \in Nat, a <= b \/ ~(a > b), c >= b PROVE a <= c
  OBVIOUS

\* What rises past a bound leaves what the bound covered behind.
LEMMA Less ==
    ASSUME NEW a \in Nat, NEW b \in Nat, NEW c \in Nat, a <= b, c > b PROVE a < c
  OBVIOUS

\* What the route's own step does: it finds the instance, and its register at
\* most at the position, which it leaves there.
Passes(s, K, pos, view, w) ==
    /\ view[Alive(s, K)] = 1 /\ Alive(s, K) \notin DOMAIN w
    /\ Reg(s, K) \in DOMAIN w => w[Reg(s, K)] = pos
    /\ Reg(s, K) \notin DOMAIN w => s.kind = "fence" /\ ~(pos > view[Reg(s, K)])
    /\ view[Reg(s, K)] \in Nat =>
          IF s.kind = "advance_cursor" THEN pos > view[Reg(s, K)] ELSE pos >= view[Reg(s, K)]

\* What a cursor advance and a fence that apply have found.
LEMMA AdvanceFinds ==
    ASSUME NEW x, NEW e, NEW view, Outcome(x, e, view).ok, e.kind \in {"advance_cursor", "fence"}
    PROVE  /\ Selected(x, e.sel, view) # {}
           /\ e.kind = "advance_cursor" =>
                 \A i \in Selected(x, e.sel, view) :
                    IF e.rule = "successor" THEN Eval(x, e.incoming) = view[Loc(i, e.field)] + 1
                    ELSE Eval(x, e.incoming) > view[Loc(i, e.field)]
           /\ e.kind = "fence" =>
                 \A i \in Selected(x, e.sel, view) : Eval(x, e.incoming) >= view[Loc(i, e.field)]
  BY OutcomeFinds

\* So it does: the guards of a cursor advance and of a fence say no less.
LEMMA RoutePasses ==
    ASSUME Valid(model), NEW t, NEW r, NEW i, Kept(model, t, r, i), NEW s, s = model.templates[t].steps[i],
           NEW x, NEW view, NEW out, out = Outcome(x, s, view), out.ok,
           NEW K, K = Eval(x, r.key), NEW pos, pos = Eval(x, r.position), pos \in Nat
    PROVE  <<s.sel.object, K>> \in Domain(x, s.sel) /\ Passes(s, K, pos, view, out.w)
<1> DEFINE S == Selected(x, s.sel, view)
           D == Domain(x, s.sel)
           o == s.sel.object
           n == <<o, K>>
           f == s.field
           only == [g \in {f} |-> pos]
           P == Passing(x, s, view)
<1>1. /\ t \in Templates(model) /\ i \in DOMAIN model.templates[t].steps
      /\ s.kind \in {"advance_cursor", "fence"} /\ s.incoming = r.position
  BY RouteIs
<1>2. Beside(model, s, s)
  BY <1>1, BesideRoute
<1>3. S \subseteq D /\ D \subseteq Instances(o)
  BY SelectedIn
<1>4. /\ S # {}
      /\ s.kind = "advance_cursor" =>
            \A m \in S : IF s.rule = "successor" THEN pos = view[Loc(m, f)] + 1 ELSE pos > view[Loc(m, f)]
      /\ s.kind = "fence" => \A m \in S : pos >= view[Loc(m, f)]
  <2>1. Eval(x, s.incoming) = pos
    BY Zenon, <1>1
  <2>2. Outcome(x, s, view).ok
    BY Zenon
  <2> QED
    BY Zenon, <1>1, <2>1, <2>2, AdvanceFinds
<1>5. n \in S
  <2>1. PICK m \in S : TRUE
    BY <1>4
  <2>2. m \in Domain(x, s.sel)
    BY <1>3
  <2>3. m = <<s.sel.object, Eval(x, r.key)>>
    BY <2>2, RouteDomain
  <2> QED
    BY <2>1, <2>3
<1>6. Loc(n, Live) = Alive(s, K) /\ Loc(n, f) = Reg(s, K)
  BY DEF Loc, Alive, Reg
<1>7. view[Alive(s, K)] = 1
  BY <1>5, <1>6 DEF Selected
<1>8. view[Reg(s, K)] \in Nat =>
         IF s.kind = "advance_cursor" THEN pos > view[Reg(s, K)] ELSE pos >= view[Reg(s, K)]
  <2>0. PICK at : at = view[Reg(s, K)] /\ at = view[Loc(n, f)]
    BY Zenon, <1>6
  <2>1. CASE s.kind = "advance_cursor"
    <3>1. pos = at + 1 \/ pos > at
      BY Zenon, <1>4, <1>5, <2>0, <2>1
    <3>2. at \in Nat => pos > at
      BY <3>1
    <3> QED
      BY Zenon, <2>0, <2>1, <3>2
  <2>2. CASE s.kind = "fence"
    <3>1. pos >= at
      BY Zenon, <1>4, <1>5, <2>0, <2>2
    <3>2. s.kind # "advance_cursor"
      BY <2>2
    <3> QED
      BY Zenon, <2>0, <3>1, <3>2
  <2> QED
    BY <1>1, <2>1, <2>2
<1>9. out.w = Mutation(P, only, view)
  <2>1. out.w = Written(x, s, view)
    BY Zenon, <1>2, OutcomeWrites DEF Beside
  <2> QED
    BY Zenon, <1>1, <2>1 DEF Written
<1>10. Located(P)
  <2>1. P \subseteq S
    BY Zenon DEF Passing
  <2> QED
    BY Zenon, <1>3, <2>1, InstancesAreLocated DEF Located
<1>11. Reg(s, K) = <<o, K, f>> /\ Alive(s, K) = <<o, K, Live>>
  BY DEF Reg, Alive
<1>12. n \in P \/ (s.kind = "fence" /\ ~(pos > view[Reg(s, K)]))
  BY <1>1, <1>5, <1>6 DEF Passing
<1>13. DOMAIN only = {f} /\ only[f] = pos
  OBVIOUS
<1>14. f # Live /\ Live # model.schema[o].version
  BY Zenon, <1>2 DEF Beside
<1> HIDE DEF only, P, o, f
<1>15. /\ Reg(s, K) \in DOMAIN out.w <=>
            /\ <<o, K>> \in P
            /\ f \in DOMAIN only \/ (f = model.schema[o].version /\ model.schema[o].version # NoField)
       /\ Reg(s, K) \in DOMAIN out.w =>
            out.w[Reg(s, K)] = IF f \in DOMAIN only THEN only[f] ELSE view[Reg(s, K)] + 1
  BY <1>9, <1>10, <1>11, MutationIs
<1>16. /\ Alive(s, K) \in DOMAIN out.w <=>
            /\ <<o, K>> \in P
            /\ Live \in DOMAIN only \/ (Live = model.schema[o].version /\ model.schema[o].version # NoField)
       /\ Alive(s, K) \in DOMAIN out.w =>
            out.w[Alive(s, K)] = IF Live \in DOMAIN only THEN only[Live] ELSE view[Alive(s, K)] + 1
  BY <1>9, <1>10, <1>11, MutationIs
<1>17. <<s.sel.object, K>> \in Domain(x, s.sel)
  BY <1>3, <1>5 DEF o
<1> QED
  BY <1>7, <1>8, <1>12, <1>13, <1>14, <1>15, <1>16, <1>17 DEF Passes

-----------------------------------------------------------------------------
(* Executions, their writes and their locks *)

Statuses == {"active", "rejected", "aborted", "committed"}

\* What every state has: the shape of the executions; writes, their order and
\* locks only of the executions that run; locks that exclude each other held
\* by no two executions; and what a step acquires held to the end.
ExecsAre ==
    /\ model \in Models
    /\ \A t \in Templates(model) : \A r \in verdicts[t].ordered :
          r \in model.templates[t].ordering /\ OrderingProven(model, t, r)
    /\ DOMAIN exec = Procs
    /\ \A p \in Procs :
          /\ DOMAIN exec[p] = {"tx", "env", "pc", "status", "seen", "snap"}
          /\ exec[p].tx \in Templates(model) /\ exec[p].env.pos \in Positions
          /\ exec[p].pc \in Nat \ {0} /\ exec[p].status \in Statuses

WritesAreOfTheRunning ==
    /\ DOMAIN pending = Procs
    /\ \A p \in Procs : exec[p].status # "active" => DOMAIN pending[p] = {}
    /\ \A p, q \in Procs : \A l : <<p, q, l>> \in later =>
          p # q /\ l \in DOMAIN pending[p] /\ l \in DOMAIN pending[q]

LocksExclude ==
    /\ \A p \in Procs : \A n, m : <<p, n, m>> \in locks => exec[p].status = "active" /\ m # "U"
    /\ \A p, q \in Procs : \A n, m, k :
          p # q /\ <<p, n, m>> \in locks /\ <<q, n, k>> \in locks => <<m, k>> \notin Excludes

Acquired(p, j) ==
    LET e == model.templates[exec[p].tx].steps[j]
    IN  /\ e.kind = "lock" =>
              \A n \in Domain(exec[p], e.sel) : <<p, n, IF e.lock = "shared" THEN "S" ELSE "X">> \in locks
        /\ HoldsProtection(e.kind) => \A n \in Domain(exec[p], e.sel) : <<p, n, "W">> \in locks

LocksAreHeld ==
    \A p \in Procs : \A j \in DOMAIN model.templates[exec[p].tx].steps :
        exec[p].status = "active" /\ j < exec[p].pc => Acquired(p, j)

Running == ExecsAre /\ WritesAreOfTheRunning /\ LocksExclude /\ LocksAreHeld

\* A step that applies, and an execution that leaves without committing.
Applies(p, e, view, o) ==
    /\ exec[p].status = "active" /\ exec[p].pc \in DOMAIN model.templates[exec[p].tx].steps
    /\ e = model.templates[exec[p].tx].steps[exec[p].pc]
    /\ view \in Views(p, e) /\ o = Outcome(Ident(p), e, view) /\ o.ok
    /\ Available(p, Acquires(p, e, o.w))
    /\ exec' = [exec EXCEPT ![p].pc = @ + 1, ![p].seen = Append(@, o.seen)]
    /\ Write(p, o.w)
    /\ locks' = locks \cup {n \in Acquires(p, e, o.w) : n[3] # "U"}
    /\ UNCHANGED <<model, db, order, verdicts>>

Drops(p) ==
    /\ exec[p].status = "active"
    /\ \E status \in {"rejected", "aborted"} : exec' = [exec EXCEPT ![p].status = status]
    /\ Leave(p)
    /\ UNCHANGED <<model, db, order, verdicts>>

\* The specification is one that validation lets through.
LEMMA ModelIsValid ==
    ASSUME ExecsAre
    PROVE  Valid(model)
  BY HistoryConstants DEF ExecsAre

\* An execution's next step applies, or a guard that fails rejects the execution.
LEMMA StepCases ==
    ASSUME ExecsAre, NEW p \in Procs, Step(p)
    PROVE  (\E e, view, o : Applies(p, e, view, o)) \/ Drops(p)
<1> DEFINE x == exec[p]
           s == model.templates[x.tx].steps[x.pc]
<1>1. Valid(model)
  BY ModelIsValid
<1>2. x.tx \in Templates(model) /\ x.pc \in Nat \ {0}
  BY Zenon DEF ExecsAre
<1>3. x.pc <= Len(model.templates[x.tx].steps) /\ x.status = "active"
  BY Zenon DEF Step
<1>4. x.pc \in DOMAIN model.templates[x.tx].steps
  <2>1. /\ Len(model.templates[x.tx].steps) \in Nat
        /\ DOMAIN model.templates[x.tx].steps = 1..Len(model.templates[x.tx].steps)
    BY Zenon, <1>1, <1>2 DEF Valid
  <2> QED
    BY <1>2, <1>3, <2>1
<1>5. PICK view \in Views(p, s) :
          LET o == Outcome(Ident(p), s, view)
              wanted == Acquires(p, s, o.w)
          IN  /\ Available(p, wanted)
              /\ IF o.ok
                 THEN /\ exec' = [exec EXCEPT ![p].pc = @ + 1, ![p].seen = Append(@, o.seen)]
                      /\ Write(p, o.w)
                      /\ locks' = locks \cup {n \in wanted : n[3] # "U"}
                 ELSE /\ exec' = [exec EXCEPT ![p].status = "rejected"]
                      /\ Leave(p)
  BY Zenon DEF Step
<1>6. UNCHANGED <<model, db, order, verdicts>>
  BY Zenon DEF Step
<1> DEFINE o == Outcome(Ident(p), s, view)
<1>7. CASE o.ok
  <2>1. Applies(p, s, view, o)
    BY Zenon, <1>3, <1>4, <1>5, <1>6, <1>7 DEF Applies
  <2> QED
    BY Zenon, <2>1
<1>8. CASE ~o.ok
  BY Zenon, <1>3, <1>5, <1>6, <1>8 DEF Drops
<1> QED
  BY <1>7, <1>8

\* An execution keeps its transaction and what it carries; a step moves only
\* its own execution.
Steady(p) ==
    \A q \in Procs :
        /\ exec'[q].tx = exec[q].tx /\ exec'[q].env = exec[q].env
        /\ q # p => exec'[q] = exec[q]

\* Each action keeps the executions' shape and moves one of them, as its name says.
LEMMA ExecMoves ==
    ASSUME ExecsAre, NEW p \in Procs
    PROVE  /\ Begin(p) => /\ ExecsAre' /\ Steady(p)
                          /\ exec'[p].pc = exec[p].pc /\ exec'[p].status = exec[p].status
           /\ \A e, view, o : Applies(p, e, view, o) =>
                 /\ ExecsAre' /\ Steady(p)
                 /\ exec'[p].pc = exec[p].pc + 1 /\ exec'[p].status = "active"
           /\ Drops(p) => ExecsAre' /\ Steady(p) /\ exec'[p].status \in {"rejected", "aborted"}
           /\ Commit(p) => ExecsAre' /\ Steady(p) /\ exec'[p].status = "committed"
<1>1. /\ DOMAIN exec = Procs /\ DOMAIN exec[p] = {"tx", "env", "pc", "status", "seen", "snap"}
      /\ exec[p].pc \in Nat \ {0}
  BY DEF ExecsAre
<1>2. ASSUME NEW status \in Statuses, NEW pc \in Nat \ {0}, Steady(p), model' = model, verdicts' = verdicts,
             DOMAIN exec' = Procs, DOMAIN exec'[p] = DOMAIN exec[p],
             exec'[p].pc = pc, exec'[p].status = status
      PROVE  ExecsAre'
  BY <1>2 DEF ExecsAre, Steady
<1>3. ASSUME Begin(p)
      PROVE  /\ ExecsAre' /\ Steady(p)
             /\ exec'[p].pc = exec[p].pc /\ exec'[p].status = exec[p].status
  <2>1. exec' = [exec EXCEPT ![p].snap = {db}] /\ model' = model /\ verdicts' = verdicts
    BY <1>3 DEF Begin
  <2>2. /\ Steady(p) /\ DOMAIN exec' = Procs /\ DOMAIN exec'[p] = DOMAIN exec[p]
        /\ exec'[p].pc = exec[p].pc /\ exec'[p].status = exec[p].status
    BY <1>1, <2>1 DEF Steady
  <2>3. exec[p].status \in Statuses
    BY DEF ExecsAre
  <2> QED
    BY <1>1, <1>2, <2>1, <2>2, <2>3
<1>4. ASSUME NEW e, NEW view, NEW o, Applies(p, e, view, o)
      PROVE  /\ ExecsAre' /\ Steady(p)
             /\ exec'[p].pc = exec[p].pc + 1 /\ exec'[p].status = "active"
  <2>1. /\ exec' = [exec EXCEPT ![p].pc = @ + 1, ![p].seen = Append(@, o.seen)]
        /\ model' = model /\ verdicts' = verdicts /\ exec[p].status = "active"
    BY Zenon, <1>4 DEF Applies
  <2>2. /\ Steady(p) /\ DOMAIN exec' = Procs /\ DOMAIN exec'[p] = DOMAIN exec[p]
        /\ exec'[p].pc = exec[p].pc + 1 /\ exec'[p].status = "active"
    BY <1>1, <2>1 DEF Steady
  <2>3. exec[p].pc + 1 \in Nat \ {0} /\ "active" \in Statuses
    BY <1>1 DEF Statuses
  <2> QED
    BY Zenon, <1>2, <2>1, <2>2, <2>3
<1>5. ASSUME Drops(p)
      PROVE  ExecsAre' /\ Steady(p) /\ exec'[p].status \in {"rejected", "aborted"}
  <2>1. PICK status \in {"rejected", "aborted"} : exec' = [exec EXCEPT ![p].status = status]
    BY <1>5 DEF Drops
  <2>2. model' = model /\ verdicts' = verdicts
    BY <1>5 DEF Drops
  <2>3. /\ Steady(p) /\ DOMAIN exec' = Procs /\ DOMAIN exec'[p] = DOMAIN exec[p]
        /\ exec'[p].pc = exec[p].pc /\ exec'[p].status = status
    BY <1>1, <2>1 DEF Steady
  <2>4. status \in Statuses
    BY DEF Statuses
  <2> QED
    BY <1>1, <1>2, <2>2, <2>3, <2>4
<1>6. ASSUME Commit(p)
      PROVE  ExecsAre' /\ Steady(p) /\ exec'[p].status = "committed"
  <2>1. /\ exec' = [exec EXCEPT ![p].status = "committed", ![p].snap = {}]
        /\ model' = model /\ verdicts' = verdicts
    BY <1>6 DEF Commit
  <2>2. /\ Steady(p) /\ DOMAIN exec' = Procs /\ DOMAIN exec'[p] = DOMAIN exec[p]
        /\ exec'[p].pc = exec[p].pc /\ exec'[p].status = "committed"
    BY <1>1, <2>1 DEF Steady
  <2>3. "committed" \in Statuses
    BY DEF Statuses
  <2> QED
    BY <1>1, <1>2, <2>1, <2>2, <2>3
<1> QED
  BY <1>3, <1>4, <1>5, <1>6

\* What an execution addresses is settled by what it carries.
LEMMA IdentIs ==
    ASSUME NEW p
    PROVE  /\ Ident(p).id = p /\ Ident(p).env = exec[p].env /\ Ident(p).tx = exec[p].tx
           /\ \A value : Eval(Ident(p), value) = Eval(exec[p], value)
           /\ \A sel : Domain(Ident(p), sel) = Domain(exec[p], sel)
<1>1. Ident(p).id = p /\ Ident(p).env = exec[p].env /\ Ident(p).tx = exec[p].tx
  BY DEF Ident
<1> HIDE DEF Ident
<1>2. \A value : Eval(Ident(p), value) = Eval(exec[p], value)
  BY <1>1 DEF Eval
<1> QED
  BY <1>1, <1>2 DEF Domain

\* A step leaves what an execution addresses as it is: the arguments are fixed.
LEMMA DomainsStay ==
    ASSUME NEW p \in Procs, model' = model, exec'[p].tx = exec[p].tx, exec'[p].env = exec[p].env
    PROVE  /\ \A value : Eval(exec[p], value)' = Eval(exec[p], value)
           /\ \A sel : Domain(exec[p], sel)' = Domain(exec[p], sel)
<1>1. \A value : Eval(exec[p], value)' = Eval(exec[p], value)
  BY DEF Eval
<1>2. \A o : IdField(o)' = IdField(o)
  BY DEF IdField
<1> QED
  BY <1>1, <1>2 DEF Domain, Instances

\* The locks a step acquires, and what they exclude.
LEMMA AcquiresIs ==
    ASSUME NEW p, NEW e, NEW w
    PROVE  /\ \A h \in Acquires(p, e, w) : h[1] = p /\ h = <<h[1], h[2], h[3]>>
           /\ e.kind = "lock" => \A n \in Domain(exec[p], e.sel) :
                 <<p, n, IF e.lock = "shared" THEN "S" ELSE "X">> \in Acquires(p, e, w)
           /\ HoldsProtection(e.kind) => \A n \in Domain(exec[p], e.sel) : <<p, n, "W">> \in Acquires(p, e, w)
           /\ e.kind # "lock" /\ ~HoldsProtection(e.kind) /\ Isolated(model, exec[p].tx) =>
                 \A o, k, f : <<o, k, f>> \in DOMAIN w => <<p, <<o, k>>, "H">> \in Acquires(p, e, w)
<1>1. HoldsProtection("lock") = FALSE
  BY DEF HoldsProtection, GuardKinds
<1>2. CASE e.kind = "lock"
  BY <1>1, <1>2 DEF Acquires
<1>3. CASE e.kind # "lock" /\ HoldsProtection(e.kind)
  BY <1>3 DEF Acquires
<1>4. CASE e.kind # "lock" /\ ~HoldsProtection(e.kind)
  <2> DEFINE plain == IF Isolated(model, exec[p].tx) THEN "H" ELSE "U"
             written == {<<l[1], l[2]>> : l \in DOMAIN w}
  <2>1. Acquires(p, e, w) = {<<p, n, plain>> : n \in written}
    BY <1>4 DEF Acquires
  <2>2. \A o, k, f : <<o, k, f>> \in DOMAIN w => <<o, k>> \in written
    OBVIOUS
  <2> HIDE DEF written
  <2>4. \A h \in Acquires(p, e, w) : h[1] = p /\ h = <<h[1], h[2], h[3]>>
    BY <2>1
  <2>5. \A n \in written : <<p, n, plain>> \in Acquires(p, e, w)
    BY <2>1
  <2>3. Isolated(model, exec[p].tx) => plain = "H"
    OBVIOUS
  <2> HIDE DEF plain
  <2> QED
    BY <1>4, <2>2, <2>3, <2>4, <2>5
<1> QED
  BY <1>2, <1>3, <1>4

\* Write protections and held writes exclude each other, as exclusive locks and
\* write protections do.
LEMMA Excluded ==
    /\ \A a, b \in {"W", "H"} : <<a, b>> \in Excludes
    /\ \A a, b \in {"X", "W"} : <<a, b>> \in Excludes
  BY DEF Excludes

\* What is held excludes as it is excluded.
LEMMA ExclusionIsMutual ==
    ASSUME NEW m, NEW k, <<m, k>> \in Excludes, m # "U"
    PROVE  <<k, m>> \in Excludes
  BY DEF Excludes

\* Writes and locks, step by step.
LEMMA LocksExcludeStep ==
    ASSUME Running, NEW p \in Procs, Steady(p), exec'[p].status \in Statuses,
           \/ /\ exec'[p].status = "active" /\ exec[p].status = "active"
              /\ \E e, w : /\ Available(p, Acquires(p, e, w))
                           /\ locks' = locks \cup {n \in Acquires(p, e, w) : n[3] # "U"}
           \/ locks' = {h \in locks : h[1] # p}
           \/ locks' = locks /\ exec'[p].status = exec[p].status
    PROVE  LocksExclude'
<1>0. LocksExclude
  BY DEF Running
<1>1. CASE locks' = {h \in locks : h[1] # p}
  BY <1>0, <1>1 DEF LocksExclude, Steady
<1>2. CASE locks' = locks /\ exec'[p].status = exec[p].status
  BY <1>0, <1>2 DEF LocksExclude, Steady
<1>3. CASE /\ exec'[p].status = "active" /\ exec[p].status = "active"
           /\ \E e, w : /\ Available(p, Acquires(p, e, w))
                        /\ locks' = locks \cup {n \in Acquires(p, e, w) : n[3] # "U"}
  <2>1. PICK e, w : /\ Available(p, Acquires(p, e, w))
                    /\ locks' = locks \cup {n \in Acquires(p, e, w) : n[3] # "U"}
    BY <1>3
  <2> DEFINE A == Acquires(p, e, w)
  <2>2. \A h \in A : h[1] = p
    BY AcquiresIs
  <2>3. \A h \in locks, n \in A : h[1] = p \/ h[2] # n[2] \/ <<n[3], h[3]>> \notin Excludes
    BY <2>1 DEF Available
  <2>4. locks' = locks \cup {n \in A : n[3] # "U"}
    BY <2>1
  <2> HIDE DEF A
  <2>5. ASSUME NEW q \in Procs, NEW n, NEW m, <<q, n, m>> \in locks'
        PROVE  exec'[q].status = "active" /\ m # "U"
    <3>1. CASE q = p
      BY <1>0, <1>3, <2>4, <2>5, <3>1 DEF LocksExclude
    <3>2. CASE q # p
      <4>1. <<q, n, m>> \in locks
        BY <2>2, <2>4, <2>5, <3>2
      <4> QED
        BY <1>0, <3>2, <4>1 DEF LocksExclude, Steady
    <3> QED
      BY <3>1, <3>2
  <2>6. ASSUME NEW q \in Procs, q # p, NEW n, NEW m, NEW k, <<p, n, m>> \in locks', <<q, n, k>> \in locks'
        PROVE  <<m, k>> \notin Excludes /\ <<k, m>> \notin Excludes
    <3>1. <<q, n, k>> \in locks
      BY <2>2, <2>4, <2>6
    <3>2. CASE <<p, n, m>> \in locks
      BY <1>0, <2>6, <3>1, <3>2 DEF LocksExclude
    <3>3. CASE <<p, n, m>> \in A /\ m # "U"
      <4>1. <<m, k>> \notin Excludes
        BY <2>3, <2>6, <3>1, <3>3
      <4>2. k # "U"
        BY <1>0, <2>6, <3>1 DEF LocksExclude
      <4> QED
        BY <4>1, <4>2, ExclusionIsMutual
    <3> QED
      BY <2>4, <2>6, <3>2, <3>3
  <2>7. ASSUME NEW q \in Procs, NEW u \in Procs, q # u, NEW n, NEW m, NEW k,
               <<q, n, m>> \in locks', <<u, n, k>> \in locks'
        PROVE  <<m, k>> \notin Excludes
    <3>1. CASE q = p
      BY <2>6, <2>7, <3>1
    <3>2. CASE u = p
      BY <2>6, <2>7, <3>2
    <3>3. CASE q # p /\ u # p
      <4>1. <<q, n, m>> \in locks /\ <<u, n, k>> \in locks
        BY <2>2, <2>4, <2>7, <3>3
      <4> QED
        BY <1>0, <2>7, <4>1 DEF LocksExclude
    <3> QED
      BY <3>1, <3>2, <3>3
  <2> QED
    BY <2>5, <2>7 DEF LocksExclude
<1> QED
  BY <1>1, <1>2, <1>3

\* What an earlier step acquired is still held while no lock of its execution goes.
LEMMA AcquiredStays ==
    ASSUME NEW p \in Procs, model' = model, exec'[p].tx = exec[p].tx, exec'[p].env = exec[p].env,
           NEW j, Acquired(p, j), \A n, m : <<p, n, m>> \in locks => <<p, n, m>> \in locks'
    PROVE  Acquired(p, j)'
<1> DEFINE e == model.templates[exec[p].tx].steps[j]
<1>1. e' = e
  OBVIOUS
<1>2. Domain(exec[p], e.sel)' = Domain(exec[p], e.sel)
  <2>1. \A sel : Domain(exec[p], sel)' = Domain(exec[p], sel)
    BY DomainsStay
  <2> HIDE DEF e
  <2> QED
    BY Zenon, <1>1, <2>1
<1>3. /\ e.kind = "lock" =>
            \A n \in Domain(exec[p], e.sel) : <<p, n, IF e.lock = "shared" THEN "S" ELSE "X">> \in locks
      /\ HoldsProtection(e.kind) => \A n \in Domain(exec[p], e.sel) : <<p, n, "W">> \in locks
  BY DEF Acquired
<1>4. /\ (e.kind = "lock" =>
            \A n \in Domain(exec[p], e.sel) : <<p, n, IF e.lock = "shared" THEN "S" ELSE "X">> \in locks)'
      /\ (HoldsProtection(e.kind) => \A n \in Domain(exec[p], e.sel) : <<p, n, "W">> \in locks)'
  <2> HIDE DEF e
  <2> QED
    BY <1>1, <1>2, <1>3
<1> QED
  BY <1>4 DEF Acquired

\* A write, an end or a commitment leaves writes and their order to the executions
\* that run: what a commitment overwrites is withdrawn with its order.
LEMMA WritesStep ==
    ASSUME Running, NEW p \in Procs, Steady(p),
           \/ /\ exec'[p].status = "active"
              /\ \E w : Write(p, w)
           \/ Leave(p)
           \/ Commit(p)
           \/ pending' = pending /\ later' = later /\ exec'[p].status = exec[p].status
    PROVE  WritesAreOfTheRunning'
<1>1. /\ DOMAIN pending = Procs
      /\ \A q \in Procs : exec[q].status # "active" => DOMAIN pending[q] = {}
      /\ \A q, u \in Procs : \A l : <<q, u, l>> \in later =>
            q # u /\ l \in DOMAIN pending[q] /\ l \in DOMAIN pending[u]
  BY DEF Running, WritesAreOfTheRunning
<1>2. \A q \in Procs : q # p => exec'[q].status = exec[q].status
  BY DEF Steady
<1>3. CASE exec'[p].status = "active" /\ \E w : Write(p, w)
  <2>1. PICK w : Write(p, w)
    BY <1>3
  <2>2. /\ DOMAIN pending' = Procs
        /\ \A q \in Procs : q # p => pending'[q] = pending[q]
        /\ DOMAIN pending'[p] = DOMAIN w \cup DOMAIN pending[p]
    BY <1>1, <2>1 DEF Write, Over
  <2>3. ASSUME NEW q \in Procs, NEW u \in Procs, NEW l, <<q, u, l>> \in later'
        PROVE  q # u /\ l \in DOMAIN pending'[q] /\ l \in DOMAIN pending'[u]
    <3>1. \/ <<q, u, l>> \in later
          \/ \E n \in Procs \ {p} : \E m \in DOMAIN w \cap DOMAIN pending[n] : <<q, u, l>> = <<p, n, m>>
      BY <2>1, <2>3 DEF Write
    <3>2. CASE <<q, u, l>> \in later
      BY <1>1, <2>2, <3>2
    <3>3. CASE \E n \in Procs \ {p} : \E m \in DOMAIN w \cap DOMAIN pending[n] : <<q, u, l>> = <<p, n, m>>
      BY <2>2, <3>3
    <3> QED
      BY <3>1, <3>2, <3>3
  <2> QED
    BY <1>1, <1>2, <1>3, <2>2, <2>3 DEF WritesAreOfTheRunning
<1>4. CASE Leave(p)
  <2>1. /\ DOMAIN pending' = Procs
        /\ \A q \in Procs : q # p => pending'[q] = pending[q]
        /\ DOMAIN pending'[p] = {}
    BY <1>1, <1>4 DEF Leave, Nothing
  <2>2. \A q, u \in Procs : \A l : <<q, u, l>> \in later' => <<q, u, l>> \in later /\ q # p /\ u # p
    BY <1>4 DEF Leave
  <2> QED
    BY <1>1, <1>2, <2>1, <2>2 DEF WritesAreOfTheRunning
<1>5. CASE Commit(p)
  <2>1. /\ pending' = [q \in Procs |->
                         IF q = p THEN Nothing
                         ELSE Restrict(pending[q], {l \in DOMAIN pending[q] : <<p, q, l>> \notin later})]
        /\ later' = {e \in later : /\ p \notin {e[1], e[2]}
                                   /\ <<p, e[1], e[3]>> \notin later /\ <<p, e[2], e[3]>> \notin later}
    BY <1>5 DEF Commit
  <2>2. /\ DOMAIN pending' = Procs /\ DOMAIN pending'[p] = {}
        /\ \A q \in Procs : q # p => DOMAIN pending'[q] = {l \in DOMAIN pending[q] : <<p, q, l>> \notin later}
    BY <2>1 DEF Restrict, Nothing
  <2>3. \A q, u \in Procs : \A l : <<q, u, l>> \in later' =>
            <<q, u, l>> \in later /\ q # p /\ u # p /\ <<p, q, l>> \notin later /\ <<p, u, l>> \notin later
    BY <2>1
  <2>4. ASSUME NEW q \in Procs, exec'[q].status # "active"
        PROVE  DOMAIN pending'[q] = {}
    BY <1>1, <1>2, <2>2, <2>4
  <2>5. ASSUME NEW q \in Procs, NEW u \in Procs, NEW l, <<q, u, l>> \in later'
        PROVE  q # u /\ l \in DOMAIN pending'[q] /\ l \in DOMAIN pending'[u]
    <3>1. <<q, u, l>> \in later /\ q # p /\ u # p /\ <<p, q, l>> \notin later /\ <<p, u, l>> \notin later
      BY <2>3, <2>5
    <3>2. q # u /\ l \in DOMAIN pending[q] /\ l \in DOMAIN pending[u]
      BY <1>1, <3>1
    <3> QED
      BY <2>2, <3>1, <3>2
  <2> QED
    BY <2>2, <2>4, <2>5 DEF WritesAreOfTheRunning
<1>6. CASE pending' = pending /\ later' = later /\ exec'[p].status = exec[p].status
  BY <1>1, <1>2, <1>6 DEF WritesAreOfTheRunning
<1> QED
  BY <1>3, <1>4, <1>5, <1>6

\* Every step keeps all four.
LEMMA RunningStep ==
    ASSUME Running, NEW p \in Procs,
           Begin(p) \/ (\E e, view, o : Applies(p, e, view, o)) \/ Drops(p) \/ Commit(p)
    PROVE  Running'
<1>1. ExecsAre
  BY DEF Running
<1>2. Valid(model) /\ exec[p].tx \in Templates(model) /\ exec[p].pc \in Nat \ {0}
  BY <1>1, ModelIsValid DEF ExecsAre
<1>3. ASSUME NEW q \in Procs, q # p, Steady(p), model' = model,
             \A n, m : <<q, n, m>> \in locks => <<q, n, m>> \in locks'
      PROVE  \A j \in DOMAIN model.templates[exec[q].tx].steps :
                 exec'[q].status = "active" /\ j < exec'[q].pc => Acquired(q, j)'
  <2> TAKE j \in DOMAIN model.templates[exec[q].tx].steps
  <2> HAVE exec'[q].status = "active" /\ j < exec'[q].pc
  <2>1. exec'[q] = exec[q]
    BY <1>3 DEF Steady
  <2>2. Acquired(q, j)
    BY <2>1 DEF Running, LocksAreHeld
  <2> QED
    BY <1>3, <2>1, <2>2, AcquiredStays
<1>4. ASSUME Steady(p), model' = model, NEW j \in DOMAIN model.templates[exec[p].tx].steps,
             exec[p].status = "active", j < exec[p].pc, \A n, m : <<p, n, m>> \in locks => <<p, n, m>> \in locks'
      PROVE  Acquired(p, j)'
  <2>1. Acquired(p, j)
    BY <1>4 DEF Running, LocksAreHeld
  <2> QED
    BY <1>4, <2>1, AcquiredStays DEF Steady
<1>5. CASE Begin(p)
  <2>1. /\ ExecsAre' /\ Steady(p)
        /\ exec'[p].pc = exec[p].pc /\ exec'[p].status = exec[p].status
    BY <1>1, <1>5, ExecMoves
  <2>2. pending' = pending /\ later' = later /\ locks' = locks /\ model' = model
    BY <1>5 DEF Begin
  <2>3. WritesAreOfTheRunning'
    BY <2>1, <2>2, WritesStep
  <2>4. exec'[p].status \in Statuses
    BY <2>1 DEF ExecsAre
  <2>5. LocksExclude'
    BY <2>1, <2>2, <2>4, LocksExcludeStep
  <2>6. LocksAreHeld'
    BY <1>3, <1>4, <2>1, <2>2 DEF LocksAreHeld, Steady
  <2> QED
    BY <2>1, <2>3, <2>5, <2>6 DEF Running
<1>6. CASE \E e, view, o : Applies(p, e, view, o)
  <2>1. PICK e, view, o : Applies(p, e, view, o)
    BY <1>6
  <2>2. ExecsAre' /\ Steady(p) /\ exec'[p].pc = exec[p].pc + 1 /\ exec'[p].status = "active"
    BY Zenon, <1>1, <2>1, ExecMoves
  <2>3. /\ exec[p].status = "active" /\ model' = model /\ Write(p, o.w)
        /\ e = model.templates[exec[p].tx].steps[exec[p].pc]
        /\ Available(p, Acquires(p, e, o.w))
        /\ locks' = locks \cup {n \in Acquires(p, e, o.w) : n[3] # "U"}
    BY Zenon, <2>1 DEF Applies
  <2>4. WritesAreOfTheRunning'
    BY Zenon, <2>2, <2>3, WritesStep
  <2>5. LocksExclude'
    <3>1. exec'[p].status \in Statuses
      BY <2>2 DEF Statuses
    <3> QED
      BY <2>2, <2>3, <3>1, LocksExcludeStep
  <2>6. ASSUME NEW j, j = exec[p].pc
        PROVE  Acquired(p, j)'
    <3> DEFINE A == Acquires(p, e, o.w)
    <3>1. /\ e.kind = "lock" => \A n \in Domain(exec[p], e.sel) :
                <<p, n, IF e.lock = "shared" THEN "S" ELSE "X">> \in A
          /\ HoldsProtection(e.kind) => \A n \in Domain(exec[p], e.sel) : <<p, n, "W">> \in A
      BY AcquiresIs
    <3>2. \A h \in A : h[3] # "U" => h \in locks'
      BY <2>3
    <3> HIDE DEF A
    <3>3. /\ e.kind = "lock" => \A n \in Domain(exec[p], e.sel) :
                <<p, n, IF e.lock = "shared" THEN "S" ELSE "X">> \in locks'
          /\ HoldsProtection(e.kind) => \A n \in Domain(exec[p], e.sel) : <<p, n, "W">> \in locks'
      BY <3>1, <3>2
    <3>4. \A sel : Domain(exec[p], sel)' = Domain(exec[p], sel)
      BY <2>2, <2>3, DomainsStay DEF Steady
    <3>5. exec'[p].tx = exec[p].tx
      BY <2>2 DEF Steady
    <3>6. model'.templates[exec'[p].tx].steps[j] = e
      BY <2>3, <2>6, <3>5
    <3> QED
      BY <3>3, <3>4, <3>6 DEF Acquired
  <2>7. LocksAreHeld'
    <3>1. \A q \in Procs : \A n, m : <<q, n, m>> \in locks => <<q, n, m>> \in locks'
      BY <2>3
    <3>2. ASSUME NEW q \in Procs, NEW j \in DOMAIN model.templates[exec[q].tx].steps,
                 exec'[q].status = "active", j < exec'[q].pc
          PROVE  Acquired(q, j)'
      <4>1. CASE q # p
        BY Zenon, <1>3, <2>2, <2>3, <3>1, <3>2, <4>1
      <4>2. CASE q = p /\ j < exec[p].pc
        BY <1>4, <2>2, <2>3, <3>1, <3>2, <4>2
      <4>3. CASE q = p /\ ~(j < exec[p].pc)
        <5>1. j \in Nat
          BY <1>2, <4>3 DEF Valid, WellFormed
        <5>2. j = exec[p].pc
          BY <1>2, <2>2, <3>2, <4>3, <5>1
        <5> QED
          BY <2>6, <4>3, <5>2
      <4> QED
        BY Zenon, <4>1, <4>2, <4>3
    <3> QED
      BY <2>2, <2>3, <3>2 DEF LocksAreHeld, Steady
  <2> QED
    BY <2>2, <2>4, <2>5, <2>7 DEF Running
<1>7. CASE Drops(p) \/ Commit(p)
  <2>1. ExecsAre' /\ Steady(p) /\ exec'[p].status \in Statuses \ {"active"}
    BY <1>1, <1>7, ExecMoves DEF Statuses
  <2>2. locks' = {h \in locks : h[1] # p} /\ model' = model
    BY <1>7 DEF Drops, Leave, Commit
  <2>3. WritesAreOfTheRunning'
    <3>1. Leave(p) \/ Commit(p)
      BY <1>7 DEF Drops
    <3> QED
      BY <2>1, <3>1, WritesStep
  <2>4. LocksExclude'
    BY <2>1, <2>2, LocksExcludeStep
  <2>5. \A q \in Procs : q # p => \A n, m : <<q, n, m>> \in locks => <<q, n, m>> \in locks'
    BY <2>2
  <2>6. LocksAreHeld'
    BY <1>3, <2>1, <2>2, <2>5 DEF LocksAreHeld, Steady
  <2> QED
    BY <2>1, <2>3, <2>4, <2>6 DEF Running
<1> QED
  BY <1>5, <1>6, <1>7

\* They are so at first, when nothing runs yet.
LEMMA RunningInit ==
    ASSUME Init
    PROVE  Running
<1>1. model \in Models /\ locks = {} /\ later = {} /\ pending = [p \in Procs |-> Nothing]
  BY DEF Init
<1>2. PICK tx \in [Procs -> Templates(model)], key \in [Procs -> Keys], pos \in [Procs -> Positions] :
          exec = [p \in Procs |-> [tx |-> tx[p], env |-> [key |-> key[p], pos |-> pos[p]],
                                   pc |-> 1, status |-> "active", seen |-> <<>>, snap |-> {}]]
  <2> DEFINE Starts(tx, key, pos) ==
                exec = [p \in Procs |-> [tx |-> tx[p], env |-> [key |-> key[p], pos |-> pos[p]],
                                         pc |-> 1, status |-> "active", seen |-> <<>>, snap |-> {}]]
  <2>1. \E tx \in [Procs -> Templates(model)] :
          /\ \A p, q \in Procs : p < q => tx[p] <= tx[q]
          /\ \E key \in [Procs -> Keys], pos \in [Procs -> Positions] :
                /\ \A p \in Procs :
                      /\ "key" \in model.templates[tx[p]].refs \/ key[p] = CHOOSE k \in Keys : TRUE
                      /\ "pos" \in model.templates[tx[p]].refs \/ pos[p] = CHOOSE n \in Positions : TRUE
                /\ Starts(tx, key, pos)
    BY Zenon DEF Init
  <2> HIDE DEF Starts
  <2>2. PICK tx \in [Procs -> Templates(model)], key \in [Procs -> Keys], pos \in [Procs -> Positions] :
          Starts(tx, key, pos)
    BY Zenon, <2>1
  <2> QED
    BY Zenon, <2>2 DEF Starts
<1>3. \A t \in Templates(model) :
          verdicts[t].ordered = {r \in model.templates[t].ordering : OrderingProven(model, t, r)}
  BY DEF Init
<1>4. ExecsAre
  BY <1>1, <1>2, <1>3 DEF ExecsAre, Statuses
<1>5. WritesAreOfTheRunning
  BY <1>1, <1>2 DEF WritesAreOfTheRunning, Nothing
<1>6. LocksExclude
  BY <1>1 DEF LocksExclude
<1>7. LocksAreHeld
  <2>1. Valid(model)
    BY <1>4, ModelIsValid
  <2>2. ASSUME NEW p \in Procs, NEW j \in DOMAIN model.templates[exec[p].tx].steps
        PROVE  ~(j < exec[p].pc)
    <3>1. exec[p].pc = 1 /\ exec[p].tx \in Templates(model)
      BY <1>2
    <3>2. j \in 1..Len(model.templates[exec[p].tx].steps) /\ Len(model.templates[exec[p].tx].steps) \in Nat
      BY <2>1, <3>1 DEF Valid
    <3> QED
      BY <3>1, <3>2
  <2> QED
    BY <2>2 DEF LocksAreHeld
<1> QED
  BY <1>4, <1>5, <1>6, <1>7 DEF Running

-----------------------------------------------------------------------------
(* The register of a route: it only grows, and one at a time writes it *)

\* The keys an accepted route may be of, whatever carries it.
RouteKeys(s) ==
    {k \in Keys : \A n \in s.sel.pins : n[1] = IdField(s.sel.object) /\ n[2][1] = "lit" => n[2][2] = k}

HoldsAny(p, n, modes) == \E m \in modes : <<p, n, m>> \in locks

\* The register of an instance: it is 0 until the instance is there; one
\* execution at most has written it and not committed, never less than what is
\* committed, and it holds the instance.
RegisterIs(s, k) ==
    LET l == Reg(s, k)
        v == Alive(s, k)
    IN  /\ l \in DOMAIN db /\ v \in DOMAIN db
        /\ db[l] \in Nat /\ db[v] \in {0, 1} /\ (db[v] = 0 => db[l] = 0)
        /\ \A p \in Procs : Reaches(s, k, pending[p]) =>
              /\ HoldsAny(p, <<s.sel.object, k>>, {"H", "W"})
              /\ l \in DOMAIN pending[p] /\ pending[p][l] \in Nat /\ pending[p][l] >= db[l]
              /\ Committed(p)[v] = 1

\* What an execution sees of a register once its own writes are counted.
LEMMA RegisterSeen ==
    ASSUME NEW s, NEW k, RegisterIs(s, k), NEW p \in Procs
    PROVE  /\ Committed(p)[Reg(s, k)] \in Nat /\ Committed(p)[Reg(s, k)] >= db[Reg(s, k)]
           /\ Committed(p)[Alive(s, k)] \in {0, 1}
           /\ Committed(p)[Alive(s, k)] = 0 => ~Reaches(s, k, pending[p]) /\ db[Alive(s, k)] = 0
           /\ db[Alive(s, k)] = 1 => Committed(p)[Alive(s, k)] = 1
           /\ ~Reaches(s, k, pending[p]) => /\ Committed(p)[Reg(s, k)] = db[Reg(s, k)]
                                            /\ Committed(p)[Alive(s, k)] = db[Alive(s, k)]
           /\ Reaches(s, k, pending[p]) => Committed(p)[Reg(s, k)] = pending[p][Reg(s, k)]
<1> DEFINE l == Reg(s, k)
           v == Alive(s, k)
<1>1. /\ l \in DOMAIN db /\ v \in DOMAIN db
      /\ db[l] \in Nat /\ db[v] \in {0, 1} /\ (db[v] = 0 => db[l] = 0)
      /\ Reaches(s, k, pending[p]) =>
            /\ l \in DOMAIN pending[p] /\ pending[p][l] \in Nat /\ pending[p][l] >= db[l]
            /\ Committed(p)[v] = 1
  BY DEF RegisterIs
<1>2. /\ Committed(p)[l] = IF l \in DOMAIN pending[p] THEN pending[p][l] ELSE db[l]
      /\ Committed(p)[v] = IF v \in DOMAIN pending[p] THEN pending[p][v] ELSE db[v]
  BY <1>1 DEF Committed, Over
<1>3. CASE Reaches(s, k, pending[p])
  BY <1>1, <1>2, <1>3
<1>4. CASE ~Reaches(s, k, pending[p])
  BY <1>1, <1>2, <1>4 DEF Reaches
<1> QED
  BY <1>3, <1>4

\* While one execution holds an instance for writing, no other has written its register.
LEMMA OneAtATime ==
    ASSUME Running, NEW s, NEW k, RegisterIs(s, k), NEW p \in Procs, NEW q \in Procs, p # q,
           HoldsAny(p, <<s.sel.object, k>>, {"H", "W"})
    PROVE  ~Reaches(s, k, pending[q])
<1> SUFFICES ASSUME Reaches(s, k, pending[q]) PROVE FALSE
  OBVIOUS
<1> DEFINE n == <<s.sel.object, k>>
<1>1. HoldsAny(q, n, {"H", "W"})
  BY DEF RegisterIs
<1>2. PICK a \in {"H", "W"}, b \in {"H", "W"} : <<p, n, a>> \in locks /\ <<q, n, b>> \in locks
  BY <1>1 DEF HoldsAny
<1>3. <<a, b>> \notin Excludes
  BY <1>2 DEF Running, LocksExclude
<1> QED
  BY <1>3, Excluded

\* The latest of all writes at a location that no other execution writes.
LEMMA DirtyAgrees ==
    ASSUME WritesAreOfTheRunning, NEW p \in Procs, NEW l \in DOMAIN db,
           \A q \in Procs : q # p => l \notin DOMAIN pending[q]
    PROVE  Dirty[l] = Committed(p)[l]
<1> DEFINE writers == {q \in Procs : l \in DOMAIN pending[q]}
           latest == {q \in writers : \A u \in writers : <<u, q, l>> \notin later}
<1>1. Dirty[l] = IF latest = {} THEN db[l] ELSE pending[CHOOSE q \in latest : TRUE][l]
  BY DEF Dirty
<1>2. Committed(p)[l] = IF l \in DOMAIN pending[p] THEN pending[p][l] ELSE db[l]
  BY DEF Committed, Over
<1>3. CASE l \in DOMAIN pending[p]
  <2>1. writers = {p}
    BY <1>3
  <2>2. <<p, p, l>> \notin later
    BY DEF WritesAreOfTheRunning
  <2>3. latest = {p}
    BY <2>1, <2>2
  <2> HIDE DEF latest
  <2>4. (CHOOSE q \in latest : TRUE) = p
    BY <2>3
  <2> QED
    BY <1>1, <1>2, <1>3, <2>3, <2>4
<1>4. CASE l \notin DOMAIN pending[p]
  <2>1. latest = {}
    BY <1>4
  <2> HIDE DEF latest
  <2> QED
    BY <1>1, <1>2, <1>4, <2>1
<1> QED
  BY <1>3, <1>4

\* Two selectors that one instance satisfies are not disjoint, where one of
\* them names it by its identity alone.
LEMMA NotDisjoint ==
    ASSUME Valid(model), NEW t, NEW r, NEW i, Kept(model, t, r, i), NEW s, s = model.templates[t].steps[i],
           s.kind = "fence", NEW k \in RouteKeys(s),
           NEW u \in Templates(model), NEW j \in DOMAIN model.templates[u].steps,
           NEW e, e = model.templates[u].steps[j],
           NEW p, <<s.sel.object, k>> \in Domain(exec[p], e.sel)
    PROVE  ~SelectorsDisjoint(Place(model, t, i), Place(model, u, j))
<1> DEFINE o == s.sel.object
<1>1. /\ PinnedFields(s.sel) \subseteq model.schema[o].identity /\ ValidObject(model.schema[o])
      /\ ValidStep(model, s)
  BY RouteIs
<1>2. ValidStep(model, e)
  BY DEF Valid
<1>3. model.schema[o].identity = {IdField(o)}
  <2>1. \E f \in model.schema[o].identity : model.schema[o].identity = {f}
    BY Zenon, <1>1 DEF ValidObject
  <2> HIDE DEF o
  <2> QED
    BY Zenon, <2>1, IdentityIs
<1>4. e.sel.object = o
  BY DEF Domain, Instances
<1> SUFFICES ASSUME NEW a \in s.sel.pins, NEW b \in e.sel.pins,
                    a[1] = b[1], a[2][1] = "lit", b[2][1] = "lit", a[2] # b[2]
             PROVE  FALSE
  BY Zenon, <1>4 DEF SelectorsDisjoint, Place
<1>5. a[1] = IdField(o)
  BY Zenon, <1>1, <1>3 DEF PinnedFields
<1>6. a[2][2] = k
  BY <1>5 DEF RouteKeys
<1>7. Eval(exec[p], b[2]) = k
  BY Zenon, <1>4, <1>5 DEF Domain
<1>8. b[2][2] = k
  BY <1>7 DEF Eval
<1>9. a[2] = <<a[2][1], a[2][2]>> /\ b[2] = <<b[2][1], b[2][2]>>
  BY Zenon, <1>1, <1>2 DEF ValidStep
<1> QED
  BY Zenon, <1>6, <1>8, <1>9

\* The writes that reach a register act on its present value.
LEMMA ViewAgrees ==
    ASSUME Running, NEW t, NEW r, NEW i, Kept(model, t, r, i), NEW s, s = model.templates[t].steps[i],
           NEW k \in RouteKeys(s), RegisterIs(s, k),
           NEW p \in Procs, NEW e, NEW view, NEW o, Applies(p, e, view, o),
           <<s.sel.object, k>> \in Domain(exec[p], e.sel),
           e.kind \in {"insert", "upsert"} \/ (e.kind \in {"advance_cursor", "fence"} /\ e.field = s.field)
    PROVE  /\ view[Reg(s, k)] = Committed(p)[Reg(s, k)] /\ view[Alive(s, k)] = Committed(p)[Alive(s, k)]
           /\ \/ Isolated(model, exec[p].tx)
              \/ <<p, <<s.sel.object, k>>, "W">> \in locks \cup Acquires(p, e, o.w)
<1> DEFINE u == exec[p].tx
           j == exec[p].pc
           n == <<s.sel.object, k>>
<1>1. ExecsAre /\ Valid(model) /\ u \in Templates(model)
  BY Zenon, ModelIsValid DEF Running, ExecsAre
<1>2. /\ j \in DOMAIN model.templates[u].steps /\ e = model.templates[u].steps[j]
      /\ view \in Views(p, e) /\ Available(p, Acquires(p, e, o.w)) /\ exec[p].status = "active"
  BY Zenon DEF Applies
<1>3. e.sel.object = s.sel.object
  BY DEF Domain, Instances
<1>4. CASE Isolated(model, u)
  <2>1. model.templates[u].iso # "unspecified" /\ e.kind # "read"
    BY Zenon, <1>4 DEF Isolated
  <2>2. view = Committed(p)
    BY Zenon, <1>2, <2>1 DEF Views
  <2> QED
    BY <1>4, <2>2
<1>5. CASE ~Isolated(model, u)
  <2>1. <<p, n, "W">> \in locks \cup Acquires(p, e, o.w)
    <3>1. CASE e.kind = "insert"
      <4>1. Isolated(model, u)
        BY Zenon, <1>1, <1>2, <1>3, <3>1, InsertersAreIsolated
      <4> QED
        BY Zenon, <1>5, <4>1
    <3>2. CASE e.kind \in {"upsert", "advance_cursor"}
      <4>1. HoldsProtection(e.kind)
        BY <3>2 DEF HoldsProtection, GuardKinds
      <4> QED
        BY <4>1, AcquiresIs
    <3>3. CASE e.kind = "fence"
      <4>1. /\ model.templates[t].steps[i].kind = "fence"
            /\ ~SelectorsDisjoint(Place(model, t, i), Place(model, u, j)) =>
                  Isolated(model, u) \/ Protected(model, Place(model, u, j))
        BY Zenon, <1>1, <1>2, <1>3, <3>3, FencesAreHeld
      <4>2. ~SelectorsDisjoint(Place(model, t, i), Place(model, u, j))
        BY Zenon, <1>1, <1>2, <4>1, NotDisjoint
      <4>3. Protected(model, Place(model, u, j))
        BY Zenon, <1>5, <4>1, <4>2
      <4>4. PICK g \in Guards(model, u) : g <= j /\ model.templates[u].steps[g].sel = e.sel
        BY Zenon, <1>2, <4>3 DEF Protected, Place
      <4>5. /\ g \in DOMAIN model.templates[u].steps /\ HoldsProtection(model.templates[u].steps[g].kind)
            /\ g # j
        BY Zenon, <1>2, <3>3 DEF Guards, HoldsProtection
      <4>6. g < j
        <5>1. g \in Nat /\ j \in Nat
          BY Zenon, <1>1, <1>2, <4>5 DEF Valid, WellFormed
        <5>2. g <= j /\ g # j
          BY Zenon, <4>4, <4>5
        <5> QED
          BY <5>1, <5>2
      <4>7. Acquired(p, g)
        BY Zenon, <1>2, <4>5, <4>6 DEF Running, LocksAreHeld
      <4> QED
        BY Zenon, <4>4, <4>5, <4>7 DEF Acquired
    <3> QED
      BY <3>1, <3>2, <3>3
  <2>2. ASSUME NEW q \in Procs, q # p
        PROVE  ~Reaches(s, k, pending[q])
    <3> SUFFICES ASSUME Reaches(s, k, pending[q]) PROVE FALSE
      OBVIOUS
    <3>1. PICK b \in {"H", "W"} : <<q, n, b>> \in locks
      BY DEF RegisterIs, HoldsAny
    <3>2. <<"W", b>> \in Excludes
      BY Excluded
    <3>3. CASE <<p, n, "W">> \in locks
      BY Zenon, <2>2, <3>1, <3>2, <3>3 DEF Running, LocksExclude
    <3>4. CASE <<p, n, "W">> \in Acquires(p, e, o.w)
      BY Zenon, <1>2, <2>2, <3>1, <3>2, <3>4 DEF Available
    <3> QED
      BY <2>1, <3>3, <3>4
  <2>3. Reg(s, k) \in DOMAIN db /\ Alive(s, k) \in DOMAIN db /\ WritesAreOfTheRunning
    BY DEF RegisterIs, Running
  <2>4. /\ Dirty[Reg(s, k)] = Committed(p)[Reg(s, k)]
        /\ Dirty[Alive(s, k)] = Committed(p)[Alive(s, k)]
    BY Zenon, <2>2, <2>3, DirtyAgrees DEF Reaches
  <2>5. view \in {Committed(p), Dirty}
    BY Zenon, <1>2, <1>5 DEF Views, Isolated
  <2> QED
    BY <2>1, <2>4, <2>5
<1> QED
  BY <1>4, <1>5

\* What a step that applies does to a register: nothing, or it leaves the
\* instance there and the register no lower than it found it, and holds it.
Moves(p, s, k, w) ==
    LET l == Reg(s, k)
        v == Alive(s, k)
    IN  /\ l \in DOMAIN w /\ w[l] \in Nat /\ w[l] >= Committed(p)[l] /\ w[l] >= db[l]
        /\ IF v \in DOMAIN w THEN w[v] = 1 ELSE Committed(p)[v] = 1

\* So it is of any applied step that reaches the register.
LEMMA AppliedMoves ==
    ASSUME Running, NEW t, NEW r, NEW i, Kept(model, t, r, i), NEW s, s = model.templates[t].steps[i],
           NEW k \in RouteKeys(s), RegisterIs(s, k),
           NEW p \in Procs, NEW e, NEW view, NEW o, Applies(p, e, view, o), Reaches(s, k, o.w)
    PROVE  Moves(p, s, k, o.w) /\ HoldsAny(p, <<s.sel.object, k>>, {"H", "W"})'
<1> DEFINE u == exec[p].tx
           j == exec[p].pc
           n == <<s.sel.object, k>>
           l == Reg(s, k)
           v == Alive(s, k)
           x == Ident(p)
           A == Acquires(p, e, o.w)
<1>1. /\ Valid(model) /\ u \in Templates(model) /\ exec[p].env.pos \in Positions
      /\ Positions \subseteq Nat /\ p \in Nat
  BY Zenon, HistoryConstants, ModelIsValid DEF Running, ExecsAre
<1>2. /\ j \in DOMAIN model.templates[u].steps /\ e = model.templates[u].steps[j]
      /\ o = Outcome(x, e, view) /\ o.ok
      /\ locks' = locks \cup {m \in A : m[3] # "U"}
  BY Zenon DEF Applies
<1>3. Beside(model, s, e) /\ ValidStep(model, e)
  <2>1. Beside(model, s, e)
    BY Zenon, <1>1, <1>2, BesideRoute
  <2>2. ValidStep(model, e)
    BY Zenon, <1>1, <1>2 DEF Valid
  <2> QED
    BY Zenon, <2>1, <2>2
<1>4. x.id \in Nat /\ Eval(x, e.incoming) = Eval(exec[p], e.incoming) /\ Domain(x, e.sel) = Domain(exec[p], e.sel)
  BY <1>1, IdentIs
<1>5. e.kind \in {"advance_cursor", "fence"} => Eval(x, e.incoming) \in Nat
  <2>1. e.kind \in {"advance_cursor", "fence"} =>
           e.incoming = <<"ref", "pos">> \/ (e.incoming[1] = "lit" /\ e.incoming[2] \in Nat)
    BY <1>3 DEF ValidStep
  <2>2. exec[p].env["pos"] \in Nat
    BY Zenon, <1>1
  <2>3. \A value : value = <<"ref", "pos">> => Eval(exec[p], value) = exec[p].env["pos"]
    BY DEF Eval
  <2>4. \A value : value[1] = "lit" => Eval(exec[p], value) = value[2]
    BY DEF Eval
  <2> QED
    BY <1>4, <2>1, <2>2, <2>3, <2>4
<1>6. Creates(s, k, o.w, view) \/ Raises(s, k, o.w, view)
  BY Zenon, <1>2, <1>3, <1>4, <1>5, RegisterMoves
<1>7. /\ n \in Domain(exec[p], e.sel)
      /\ e.kind \in {"insert", "upsert"} \/ (e.kind \in {"advance_cursor", "fence"} /\ e.field = s.field)
  <2>1. o.w = Written(x, e, view)
    BY Zenon, <1>2, <1>3, OutcomeWrites DEF Beside
  <2>2. Reaches(s, k, Written(x, e, view))
    BY <2>1
  <2>4. ReachesAs(x, e, s, view, k)
    BY <1>3, <2>2, WhatReaches
  <2> QED
    BY Zenon, <1>4, <2>4 DEF ReachesAs
<1>8. /\ view[l] = Committed(p)[l] /\ view[v] = Committed(p)[v]
      /\ Isolated(model, u) \/ <<p, n, "W">> \in locks \cup A
  BY <1>7, ViewAgrees
<1>9. /\ Committed(p)[l] \in Nat /\ Committed(p)[l] >= db[l] /\ db[l] \in Nat
      /\ Committed(p)[v] = 0 => Committed(p)[l] = 0
  <2>1. /\ db[l] \in Nat /\ db[v] \in {0, 1} /\ (db[v] = 0 => db[l] = 0)
    BY Zenon DEF RegisterIs
  <2>2. /\ Committed(p)[l] \in Nat /\ Committed(p)[l] >= db[l]
        /\ Committed(p)[v] = 0 => ~Reaches(s, k, pending[p]) /\ db[v] = 0
        /\ ~Reaches(s, k, pending[p]) => Committed(p)[l] = db[l]
    BY Zenon, RegisterSeen
  <2> QED
    BY Zenon, <2>1, <2>2
<1>10. Moves(p, s, k, o.w)
  <2>1. CASE Creates(s, k, o.w, view)
    <3>1. /\ l \in DOMAIN o.w /\ v \in DOMAIN o.w
          /\ view[v] = 0 /\ o.w[v] = 1 /\ o.w[l] \in Nat
      BY Zenon, <2>1 DEF Creates
    <3>2. Committed(p)[l] = 0
      BY Zenon, <1>8, <1>9, <3>1
    <3>3. PICK new, was : new = o.w[l] /\ was = db[l] /\ new \in Nat /\ was \in Nat /\ 0 >= was
      BY Zenon, <1>9, <3>1, <3>2
    <3>4. new >= 0 /\ new >= was
      BY Zenon, <3>3, FromZero
    <3> QED
      BY Zenon, <3>1, <3>2, <3>3, <3>4 DEF Moves
  <2>2. CASE Raises(s, k, o.w, view)
    <3>1. /\ l \in DOMAIN o.w /\ v \notin DOMAIN o.w /\ view[v] = 1 /\ o.w[l] \in Nat
          /\ view[l] \in Nat => o.w[l] > view[l]
      BY Zenon, <2>2 DEF Raises
    <3>2. PICK new, old, was : /\ new = o.w[l] /\ old = Committed(p)[l] /\ was = db[l]
                               /\ new \in Nat /\ old \in Nat /\ was \in Nat
                               /\ old >= was /\ new > old
      BY Zenon, <1>8, <1>9, <3>1
    <3>3. new >= old /\ new >= was
      BY Zenon, <3>2, AboveBoth
    <3> QED
      BY Zenon, <1>8, <3>1, <3>2, <3>3 DEF Moves
  <2> QED
    BY <1>6, <2>1, <2>2
<1>11. HoldsAny(p, n, {"H", "W"})'
  <2>1. CASE HoldsProtection(e.kind)
    <3>1. <<p, n, "W">> \in A
      BY Zenon, <1>7, <2>1, AcquiresIs
    <3>2. <<p, n, "W">> \in locks'
      BY Zenon, <1>2, <3>1
    <3> QED
      BY <3>2 DEF HoldsAny
  <2>2. CASE ~HoldsProtection(e.kind) /\ Isolated(model, u)
    <3>1. l \in DOMAIN o.w /\ l = <<s.sel.object, k, s.field>> /\ e.kind # "lock"
      BY <1>7, <1>10 DEF Moves, Reg
    <3>2. <<p, n, "H">> \in A
      BY <2>2, <3>1, AcquiresIs
    <3>3. <<p, n, "H">> \in locks'
      BY Zenon, <1>2, <3>2
    <3> QED
      BY <3>3 DEF HoldsAny
  <2>3. CASE ~Isolated(model, u)
    <3>1. <<p, n, "W">> \in locks'
      BY Zenon, <1>2, <1>8, <2>3
    <3> QED
      BY <3>1 DEF HoldsAny
  <2> QED
    BY <2>1, <2>2, <2>3
<1> QED
  BY <1>10, <1>11

\* An execution's register grows, and so does the committed one.
Grows(s, k, q) ==
    /\ Committed(q)'[Reg(s, k)] \in Nat /\ Committed(q)'[Reg(s, k)] >= Committed(q)[Reg(s, k)]
    /\ Committed(q)[Alive(s, k)] = 1 => Committed(q)'[Alive(s, k)] = 1

CommittedGrows(s, k) ==
    /\ db'[Reg(s, k)] \in Nat /\ db'[Reg(s, k)] >= db[Reg(s, k)]
    /\ db[Alive(s, k)] = 1 => db'[Alive(s, k)] = 1

\* What RegisterIs asks of the writes of one execution.
WriterIs(s, k, p) ==
    Reaches(s, k, pending[p]) =>
        /\ HoldsAny(p, <<s.sel.object, k>>, {"H", "W"})
        /\ Reg(s, k) \in DOMAIN pending[p] /\ pending[p][Reg(s, k)] \in Nat
        /\ pending[p][Reg(s, k)] >= db[Reg(s, k)]
        /\ Committed(p)[Alive(s, k)] = 1

\* An execution whose register and locks a step leaves alone.
LEMMA WriterStays ==
    ASSUME NEW s, NEW k, RegisterIs(s, k), NEW q \in Procs,
           NEW l, l = Reg(s, k), NEW v, v = Alive(s, k),
           l \in DOMAIN pending'[q] <=> l \in DOMAIN pending[q],
           v \in DOMAIN pending'[q] <=> v \in DOMAIN pending[q],
           l \in DOMAIN pending[q] => pending'[q][l] = pending[q][l],
           v \in DOMAIN pending[q] => pending'[q][v] = pending[q][v],
           l \in DOMAIN db', v \in DOMAIN db', db'[l] = db[l], db'[v] = db[v],
           \A n, m : <<q, n, m>> \in locks => <<q, n, m>> \in locks'
    PROVE  WriterIs(s, k, q)' /\ Grows(s, k, q)
<1>1. /\ l \in DOMAIN db /\ v \in DOMAIN db
      /\ Reaches(s, k, pending[q]) =>
            /\ HoldsAny(q, <<s.sel.object, k>>, {"H", "W"})
            /\ l \in DOMAIN pending[q] /\ pending[q][l] \in Nat /\ pending[q][l] >= db[l]
            /\ Committed(q)[v] = 1
  BY DEF RegisterIs
<1>2. /\ Committed(q)[l] = IF l \in DOMAIN pending[q] THEN pending[q][l] ELSE db[l]
      /\ Committed(q)[v] = IF v \in DOMAIN pending[q] THEN pending[q][v] ELSE db[v]
      /\ Committed(q)'[l] = IF l \in DOMAIN pending'[q] THEN pending'[q][l] ELSE db'[l]
      /\ Committed(q)'[v] = IF v \in DOMAIN pending'[q] THEN pending'[q][v] ELSE db'[v]
  BY <1>1 DEF Committed, Over
<1>3. Committed(q)'[l] = Committed(q)[l] /\ Committed(q)'[v] = Committed(q)[v]
  BY <1>2
<1>4. Committed(q)[l] \in Nat
  BY RegisterSeen
<1>5. Grows(s, k, q)
  BY <1>3, <1>4 DEF Grows
<1>6. ASSUME Reaches(s, k, pending'[q])
      PROVE  /\ HoldsAny(q, <<s.sel.object, k>>, {"H", "W"})'
             /\ l \in DOMAIN pending'[q] /\ pending'[q][l] \in Nat /\ pending'[q][l] >= db'[l]
             /\ Committed(q)'[v] = 1
  <2>1. Reaches(s, k, pending[q])
    BY <1>6 DEF Reaches
  <2>2. HoldsAny(q, <<s.sel.object, k>>, {"H", "W"})'
    BY <1>1, <2>1 DEF HoldsAny
  <2> QED
    BY <1>1, <1>3, <2>1, <2>2
<1>7. WriterIs(s, k, q)'
  BY <1>6 DEF WriterIs
<1> QED
  BY <1>5, <1>7

\* RegisterIs, execution by execution.
LEMMA RegisterFrom ==
    ASSUME NEW s, NEW k, NEW l, l = Reg(s, k), NEW v, v = Alive(s, k),
           l \in DOMAIN db', v \in DOMAIN db',
           db'[l] \in Nat, db'[v] \in {0, 1}, (db'[v] = 0 => db'[l] = 0),
           \A p \in Procs : WriterIs(s, k, p)'
    PROVE  RegisterIs(s, k)'
  BY DEF RegisterIs, WriterIs

\* An applied step, whoever's, keeps the register and lets it only grow.
LEMMA AppliedRegister ==
    ASSUME Running, NEW t, NEW r, NEW i, Kept(model, t, r, i), NEW s, s = model.templates[t].steps[i],
           NEW k \in RouteKeys(s), RegisterIs(s, k),
           NEW p \in Procs, NEW e, NEW view, NEW o, Applies(p, e, view, o)
    PROVE  RegisterIs(s, k)' /\ (\A q \in Procs : Grows(s, k, q)) /\ CommittedGrows(s, k)
<1> DEFINE l == Reg(s, k)
           v == Alive(s, k)
           w == o.w
<1>1. /\ l \in DOMAIN db /\ v \in DOMAIN db
      /\ db[l] \in Nat /\ db[v] \in {0, 1} /\ (db[v] = 0 => db[l] = 0)
  BY Zenon DEF RegisterIs
<1>2. db' = db /\ Write(p, w) /\ \A h \in locks : h \in locks'
  BY Zenon DEF Applies
<1>3. /\ \A q \in Procs : q # p => pending'[q] = pending[q]
      /\ pending'[p] = Over(w, pending[p])
  BY <1>2 DEF Write, Running, WritesAreOfTheRunning
<1>4. CommittedGrows(s, k)
  BY <1>1, <1>2 DEF CommittedGrows
<1>5. ASSUME NEW q \in Procs, q # p
      PROVE  WriterIs(s, k, q)' /\ Grows(s, k, q)
  <2>1. pending'[q] = pending[q]
    BY <1>3, <1>5
  <2> QED
    BY <1>1, <1>2, <2>1, WriterStays
<1>6. WriterIs(s, k, p)' /\ Grows(s, k, p)
  <2>1. CASE ~Reaches(s, k, w)
    <3>1. /\ l \in DOMAIN pending'[p] <=> l \in DOMAIN pending[p]
          /\ v \in DOMAIN pending'[p] <=> v \in DOMAIN pending[p]
          /\ l \in DOMAIN pending[p] => pending'[p][l] = pending[p][l]
          /\ v \in DOMAIN pending[p] => pending'[p][v] = pending[p][v]
      BY <1>3, <2>1 DEF Reaches, Over
    <3> QED
      BY <1>1, <1>2, <3>1, WriterStays
  <2>2. CASE Reaches(s, k, w)
    <3>1. /\ l \in DOMAIN w /\ w[l] \in Nat /\ w[l] >= Committed(p)[l] /\ w[l] >= db[l]
          /\ IF v \in DOMAIN w THEN w[v] = 1 ELSE Committed(p)[v] = 1
          /\ HoldsAny(p, <<s.sel.object, k>>, {"H", "W"})'
      <4>1. Moves(p, s, k, w) /\ HoldsAny(p, <<s.sel.object, k>>, {"H", "W"})'
        BY Zenon, <2>2, AppliedMoves
      <4> QED
        BY Zenon, <4>1 DEF Moves
    <3>2. l \in DOMAIN pending'[p] /\ pending'[p][l] = w[l]
      BY <1>3, <3>1 DEF Over
    <3>3. Committed(p)'[l] = w[l]
      BY <1>1, <1>2, <3>2 DEF Committed, Over
    <3>4. Committed(p)'[v] = 1
      <4> HIDE DEF w, l, v
      <4>1. v \in DOMAIN pending'[p] <=> v \in DOMAIN w \/ v \in DOMAIN pending[p]
        BY <1>3 DEF Over
      <4>2. v \in DOMAIN pending'[p] =>
                pending'[p][v] = IF v \in DOMAIN w THEN w[v] ELSE pending[p][v]
        BY <1>3 DEF Over
      <4>3. Committed(p)'[v] = IF v \in DOMAIN pending'[p] THEN pending'[p][v] ELSE db[v]
        BY <1>1, <1>2 DEF Committed, Over
      <4>4. Committed(p)[v] = IF v \in DOMAIN pending[p] THEN pending[p][v] ELSE db[v]
        BY <1>1 DEF Committed, Over
      <4> QED
        BY <3>1, <4>1, <4>2, <4>3, <4>4
    <3>5. Grows(s, k, p)
      BY <3>1, <3>3, <3>4 DEF Grows
    <3>6. WriterIs(s, k, p)'
      BY <1>2, <3>1, <3>2, <3>4 DEF WriterIs
    <3> QED
      BY <3>5, <3>6
  <2> QED
    BY <2>1, <2>2
<1>7. RegisterIs(s, k)'
  BY <1>1, <1>2, <1>5, <1>6, RegisterFrom
<1> QED
  BY <1>4, <1>5, <1>6, <1>7

\* So does the begin of a snapshot,
LEMMA BegunRegister ==
    ASSUME Running, NEW s, NEW k, RegisterIs(s, k), NEW p \in Procs, Begin(p)
    PROVE  RegisterIs(s, k)' /\ (\A q \in Procs : Grows(s, k, q)) /\ CommittedGrows(s, k)
<1> DEFINE l == Reg(s, k)
           v == Alive(s, k)
<1>1. db' = db /\ pending' = pending /\ locks' = locks
  BY DEF Begin
<1>2. /\ l \in DOMAIN db /\ v \in DOMAIN db
      /\ db[l] \in Nat /\ db[v] \in {0, 1} /\ (db[v] = 0 => db[l] = 0)
  BY DEF RegisterIs
<1>3. \A q \in Procs : WriterIs(s, k, q)' /\ Grows(s, k, q)
  BY <1>1, <1>2, WriterStays
<1>4. CommittedGrows(s, k)
  BY <1>1, <1>2 DEF CommittedGrows
<1>5. RegisterIs(s, k)'
  BY <1>1, <1>2, <1>3, RegisterFrom
<1> QED
  BY <1>3, <1>4, <1>5

\* an execution that ends without committing, for all others,
LEMMA DroppedRegister ==
    ASSUME Running, NEW s, NEW k, RegisterIs(s, k), NEW p \in Procs, Drops(p)
    PROVE  RegisterIs(s, k)' /\ (\A q \in Procs : q # p => Grows(s, k, q)) /\ CommittedGrows(s, k)
<1> DEFINE l == Reg(s, k)
           v == Alive(s, k)
<1>1. /\ db' = db
      /\ \A q \in Procs : q # p => pending'[q] = pending[q]
      /\ DOMAIN pending'[p] = {}
      /\ \A q \in Procs : q # p => \A n, m : <<q, n, m>> \in locks => <<q, n, m>> \in locks'
  BY DEF Drops, Leave, Nothing, Running, WritesAreOfTheRunning
<1>2. /\ l \in DOMAIN db /\ v \in DOMAIN db
      /\ db[l] \in Nat /\ db[v] \in {0, 1} /\ (db[v] = 0 => db[l] = 0)
  BY DEF RegisterIs
<1>3. ASSUME NEW q \in Procs, q # p
      PROVE  WriterIs(s, k, q)' /\ Grows(s, k, q)
  <2>1. /\ pending'[q] = pending[q]
        /\ \A n, m : <<q, n, m>> \in locks => <<q, n, m>> \in locks'
    BY <1>1, <1>3
  <2> QED
    BY <1>1, <1>2, <2>1, WriterStays
<1>4. WriterIs(s, k, p)'
  BY <1>1 DEF WriterIs, Reaches
<1>5. CommittedGrows(s, k)
  BY <1>1, <1>2 DEF CommittedGrows
<1>6. RegisterIs(s, k)'
  BY <1>1, <1>2, <1>3, <1>4, RegisterFrom
<1> QED
  BY <1>3, <1>5, <1>6

\* and a commitment, which publishes what its execution has seen of the register.
LEMMA CommittedRegister ==
    ASSUME Running, NEW s, NEW k, RegisterIs(s, k), NEW p \in Procs, Commit(p)
    PROVE  /\ RegisterIs(s, k)' /\ (\A q \in Procs : Grows(s, k, q)) /\ CommittedGrows(s, k)
           /\ db'[Reg(s, k)] = Committed(p)[Reg(s, k)] /\ db'[Alive(s, k)] = Committed(p)[Alive(s, k)]
<1> DEFINE l == Reg(s, k)
           v == Alive(s, k)
<1>1. db' = Committed(p) /\ locks' = {h \in locks : h[1] # p}
  BY DEF Commit
<1>2. /\ l \in DOMAIN db /\ v \in DOMAIN db
      /\ db[l] \in Nat /\ db[v] \in {0, 1} /\ (db[v] = 0 => db[l] = 0)
  BY DEF RegisterIs
<1>3. /\ Committed(p)[l] \in Nat /\ Committed(p)[l] >= db[l]
      /\ Committed(p)[v] \in {0, 1}
      /\ Committed(p)[v] = 0 => ~Reaches(s, k, pending[p]) /\ db[v] = 0
      /\ db[v] = 1 => Committed(p)[v] = 1
      /\ ~Reaches(s, k, pending[p]) => Committed(p)[l] = db[l] /\ Committed(p)[v] = db[v]
  BY RegisterSeen
<1>4. l \in DOMAIN db' /\ v \in DOMAIN db'
  BY <1>1, <1>2 DEF Committed, Over
<1>5. db'[l] \in Nat /\ db'[v] \in {0, 1} /\ (db'[v] = 0 => db'[l] = 0)
  BY <1>1, <1>2, <1>3
<1>6. CommittedGrows(s, k)
  BY <1>1, <1>3 DEF CommittedGrows
<1>7. /\ DOMAIN pending'[p] = {}
      /\ \A q \in Procs : q # p => DOMAIN pending'[q] = {m \in DOMAIN pending[q] : <<p, q, m>> \notin later}
      /\ \A q \in Procs : q # p => \A m \in DOMAIN pending'[q] : pending'[q][m] = pending[q][m]
  BY DEF Commit, Restrict, Nothing
<1>8. ASSUME NEW q \in Procs, q # p
      PROVE  WriterIs(s, k, q)' /\ Grows(s, k, q)
  <2>0. \A n, m : <<q, n, m>> \in locks => <<q, n, m>> \in locks'
    BY <1>1, <1>8
  <2>1. CASE ~Reaches(s, k, pending[p])
    <3>1. <<p, q, l>> \notin later /\ <<p, q, v>> \notin later
      BY <2>1 DEF Reaches, Running, WritesAreOfTheRunning
    <3>2. /\ l \in DOMAIN pending'[q] <=> l \in DOMAIN pending[q]
          /\ v \in DOMAIN pending'[q] <=> v \in DOMAIN pending[q]
          /\ l \in DOMAIN pending[q] => pending'[q][l] = pending[q][l]
          /\ v \in DOMAIN pending[q] => pending'[q][v] = pending[q][v]
      BY <1>7, <1>8, <3>1
    <3>3. db'[l] = db[l] /\ db'[v] = db[v]
      BY <1>1, <1>3, <2>1
    <3> QED
      BY <1>4, <2>0, <3>2, <3>3, WriterStays
  <2>2. CASE Reaches(s, k, pending[p])
    <3>1. HoldsAny(p, <<s.sel.object, k>>, {"H", "W"})
      BY <2>2 DEF RegisterIs
    <3>2. ~Reaches(s, k, pending[q])
      BY <1>8, <3>1, OneAtATime
    <3>3. ~Reaches(s, k, pending'[q])
      BY <1>7, <1>8, <3>2 DEF Reaches
    <3>4. Committed(q)[l] = db[l] /\ Committed(q)[v] = db[v]
      BY <3>2, RegisterSeen
    <3>5. Committed(q)'[l] = db'[l] /\ Committed(q)'[v] = db'[v]
      BY <1>4, <3>3 DEF Committed, Over, Reaches
    <3>6. Committed(p)[v] = 1
      BY <1>3, <2>2
    <3>7. Grows(s, k, q)
      BY <1>1, <1>3, <1>5, <3>4, <3>5, <3>6 DEF Grows
    <3>8. WriterIs(s, k, q)'
      BY <3>3 DEF WriterIs
    <3> QED
      BY <3>7, <3>8
  <2> QED
    BY <2>1, <2>2
<1>9. WriterIs(s, k, p)'
  BY <1>7 DEF WriterIs, Reaches
<1>10. Grows(s, k, p)
  <2>1. Committed(p)'[l] = db'[l] /\ Committed(p)'[v] = db'[v]
    BY <1>4, <1>7 DEF Committed, Over
  <2> QED
    BY <1>1, <1>3, <2>1 DEF Grows
<1>11. RegisterIs(s, k)'
  BY <1>4, <1>5, <1>8, <1>9, RegisterFrom
<1> QED
  BY <1>1, <1>6, <1>8, <1>10, <1>11

-----------------------------------------------------------------------------
(* Executions past the route *)

KeyOf(q, r) == Eval(exec[q], r.key)
PosOf(q, r) == Eval(exec[q], r.position)

\* Executions of t past the route, and committed ones.
Past(q, t, i) == exec[q].tx = t /\ exec[q].status = "active" /\ exec[q].pc > i
Done(q, t)    == exec[q].tx = t /\ exec[q].status = "committed"

Before(s, a, b) == IF s.kind = "advance_cursor" THEN a < b ELSE a <= b

\* What has passed the route left its position in the register, and after all
\* that has committed of its key.
PastIs(q, t, r, s) ==
    /\ <<s.sel.object, KeyOf(q, r)>> \in Domain(exec[q], s.sel)
    /\ Committed(q)[Alive(s, KeyOf(q, r))] = 1
    /\ PosOf(q, r) <= Committed(q)[Reg(s, KeyOf(q, r))]
    /\ \A c \in Procs : Done(c, t) /\ KeyOf(c, r) = KeyOf(q, r) => Before(s, PosOf(c, r), PosOf(q, r))

DoneIs(q, r, s) ==
    /\ <<s.sel.object, KeyOf(q, r)>> \in Domain(exec[q], s.sel)
    /\ db[Alive(s, KeyOf(q, r))] = 1
    /\ PosOf(q, r) <= db[Reg(s, KeyOf(q, r))]

Passed(t, r, i, s) ==
    \A q \in Procs : /\ Past(q, t, i) => PastIs(q, t, r, s)
                     /\ Done(q, t) => DoneIs(q, r, s)

\* Whoever addresses the route's instance does so by one of its keys.
LEMMA KeyIsOfRoute ==
    ASSUME NEW s, NEW q, NEW k, <<s.sel.object, k>> \in Domain(exec[q], s.sel)
    PROVE  k \in RouteKeys(s)
<1>1. k \in Keys /\ \A n \in s.sel.pins : n[1] = IdField(s.sel.object) => k = Eval(exec[q], n[2])
  BY DEF Domain, Instances
<1>2. \A value : value[1] = "lit" => Eval(exec[q], value) = value[2]
  BY DEF Eval
<1> QED
  BY <1>1, <1>2 DEF RouteKeys

\* A position is a number, carried or literal.
LEMMA PositionIsNat ==
    ASSUME ExecsAre, NEW t, NEW r, NEW i, Kept(model, t, r, i), NEW q \in Procs
    PROVE  PosOf(q, r) \in Nat
<1> DEFINE s == model.templates[t].steps[i]
<1>1. Valid(model) /\ exec[q].env.pos \in Nat
  BY HistoryConstants, ModelIsValid DEF ExecsAre
<1>2. s = model.templates[t].steps[i]
  OBVIOUS
<1> HIDE DEF s
<1>3. ValidStep(model, s) /\ s.kind \in {"advance_cursor", "fence"} /\ s.incoming = r.position
  BY <1>1, <1>2, RouteIs
<1>4. r.position = <<"ref", "pos">> \/ (r.position[1] = "lit" /\ r.position[2] \in Nat)
  BY <1>3 DEF ValidStep
<1>5. exec[q].env["pos"] \in Nat
  BY <1>1
<1>6. \A value : value = <<"ref", "pos">> => Eval(exec[q], value) = exec[q].env["pos"]
  BY DEF Eval
<1>7. \A value : value[1] = "lit" => Eval(exec[q], value) = value[2]
  BY DEF Eval
<1> QED
  BY <1>4, <1>5, <1>6, <1>7 DEF PosOf

\* What has passed the route holds its instance against all others that do.
LEMMA PastHolds ==
    ASSUME Running, NEW t, NEW r, NEW i, Kept(model, t, r, i), NEW s, s = model.templates[t].steps[i],
           NEW q \in Procs, Past(q, t, i), NEW n \in Domain(exec[q], s.sel)
    PROVE  HoldsAny(q, n, {"X", "W"})
<1>1. ExecsAre /\ Valid(model) /\ exec[q].tx = t /\ exec[q].status = "active" /\ exec[q].pc \in Nat
  BY ModelIsValid DEF Running, ExecsAre, Past
<1>2. /\ t \in Templates(model) /\ i \in DOMAIN model.templates[t].steps /\ i \in Nat
      /\ s.kind \in {"advance_cursor", "fence"}
      /\ s.kind = "fence" => \/ Protected(model, Place(model, t, i))
                             \/ CoveringLock(model, Place(model, t, i), {"exclusive"})
  BY <1>1, RouteIs
<1>3. ASSUME NEW j \in DOMAIN model.templates[t].steps, j <= i, j \in Nat
      PROVE  Acquired(q, j)
  <2>1. j < exec[q].pc
    BY <1>1, <1>2, <1>3 DEF Past
  <2> QED
    BY <1>1, <1>3, <2>1 DEF Running, LocksAreHeld
<1>4. ASSUME Protected(model, Place(model, t, i))
      PROVE  HoldsAny(q, n, {"X", "W"})
  <2>1. PICK g \in Guards(model, t) : g <= i /\ model.templates[t].steps[g].sel = s.sel
    BY <1>4 DEF Protected, Place
  <2>2. g \in DOMAIN model.templates[t].steps /\ HoldsProtection(model.templates[t].steps[g].kind)
    BY DEF Guards
  <2>3. g \in Nat
    BY <1>1, <1>2, <2>2 DEF Valid, WellFormed
  <2>4. Acquired(q, g)
    BY <1>3, <2>1, <2>2, <2>3
  <2>5. <<q, n, "W">> \in locks
    BY <1>1, <2>1, <2>2, <2>4 DEF Acquired
  <2> QED
    BY <2>5 DEF HoldsAny
<1>5. ASSUME CoveringLock(model, Place(model, t, i), {"exclusive"})
      PROVE  HoldsAny(q, n, {"X", "W"})
  <2>1. PICK g \in 1..(i - 1) :
            LET e == model.templates[t].steps[g]
            IN  /\ e.kind = "lock" /\ e.lock \in {"exclusive"}
                /\ e.sel.object = s.sel.object
                /\ e.sel.pins \subseteq s.sel.pins
    BY <1>5 DEF CoveringLock, Place
  <2> DEFINE e == model.templates[t].steps[g]
  <2>2. g \in DOMAIN model.templates[t].steps /\ g <= i /\ g \in Nat
    <3>1. DOMAIN model.templates[t].steps = 1..Len(model.templates[t].steps) /\ Len(model.templates[t].steps) \in Nat
      BY <1>1, <1>2 DEF Valid
    <3> QED
      BY <1>2, <3>1
  <2>3. Acquired(q, g)
    BY <1>3, <2>2
  <2>4. n \in Domain(exec[q], e.sel)
    BY <2>1 DEF Domain
  <2>5. <<q, n, "X">> \in locks
    BY <1>1, <2>1, <2>3, <2>4 DEF Acquired
  <2> QED
    BY <2>5 DEF HoldsAny
<1>6. s.kind = "advance_cursor" => Protected(model, Place(model, t, i))
  BY <1>1, CursorIsProtected
<1> QED
  BY <1>2, <1>4, <1>5, <1>6

\* Key, position and instances are what the execution carries, fixed from the start.
LEMMA CarriesStay ==
    ASSUME NEW p, Steady(p), model' = model, NEW q \in Procs, NEW r, NEW sel
    PROVE  /\ KeyOf(q, r)' = KeyOf(q, r) /\ PosOf(q, r)' = PosOf(q, r)
           /\ Domain(exec[q], sel)' = Domain(exec[q], sel)
<1>1. exec'[q].tx = exec[q].tx /\ exec'[q].env = exec[q].env
  BY DEF Steady
<1>2. \A value : Eval(exec[q], value)' = Eval(exec[q], value)
  BY <1>1, DomainsStay
<1>3. \A n : Domain(exec[q], n)' = Domain(exec[q], n)
  BY <1>1, DomainsStay
<1> QED
  BY <1>2, <1>3 DEF KeyOf, PosOf

\* What has passed stays passed while its own register only grows, if whatever
\* commits beside it is no later of its key.
LEMMA PastStays ==
    ASSUME NEW p, Steady(p), model' = model, NEW t, NEW r, NEW s, NEW q \in Procs,
           PastIs(q, t, r, s), Grows(s, KeyOf(q, r), q), RegisterIs(s, KeyOf(q, r)), PosOf(q, r) \in Nat,
           \A c \in Procs : Done(c, t)' /\ KeyOf(c, r) = KeyOf(q, r) => Done(c, t)
    PROVE  PastIs(q, t, r, s)'
<1> DEFINE k == KeyOf(q, r)
<1>1. /\ k' = k /\ PosOf(q, r)' = PosOf(q, r) /\ Domain(exec[q], s.sel)' = Domain(exec[q], s.sel)
  BY CarriesStay
<1>2. \A c \in Procs : KeyOf(c, r)' = KeyOf(c, r) /\ PosOf(c, r)' = PosOf(c, r)
  BY CarriesStay
<1>3. /\ <<s.sel.object, k>> \in Domain(exec[q], s.sel)
      /\ Committed(q)[Alive(s, k)] = 1 /\ PosOf(q, r) <= Committed(q)[Reg(s, k)]
      /\ \A c \in Procs : Done(c, t) /\ KeyOf(c, r) = k => Before(s, PosOf(c, r), PosOf(q, r))
  BY DEF PastIs
<1>4. Committed(q)[Reg(s, k)] \in Nat
  BY RegisterSeen
<1>5. /\ Committed(q)'[Reg(s, k)] \in Nat
      /\ Committed(q)'[Reg(s, k)] >= Committed(q)[Reg(s, k)]
      /\ Committed(q)'[Alive(s, k)] = 1
  BY <1>3 DEF Grows
<1>6. ASSUME NEW a, a = KeyOf(q, r), NEW b, b = PosOf(q, r)
      PROVE  PastIs(q, t, r, s)'
  <2>1. KeyOf(q, r)' = a /\ PosOf(q, r)' = b /\ Domain(exec[q], s.sel)' = Domain(exec[q], s.sel)
    BY <1>1, <1>6
  <2>2. <<s.sel.object, a>> \in Domain(exec[q], s.sel)'
    BY <1>3, <1>6, <2>1
  <2>3. Committed(q)'[Alive(s, a)] = 1 /\ b <= Committed(q)'[Reg(s, a)]
    <3> DEFINE x == Committed(q)[Reg(s, a)]
               y == Committed(q)'[Reg(s, a)]
    <3>1. Committed(q)'[Alive(s, a)] = 1 /\ y >= x /\ b <= x /\ x \in Nat /\ y \in Nat /\ b \in Nat
      BY <1>3, <1>4, <1>5, <1>6
    <3> HIDE DEF x, y
    <3> QED
      BY <3>1 DEF y
  <2>4. \A c \in Procs : Done(c, t)' /\ KeyOf(c, r)' = a => Before(s, PosOf(c, r)', b)
    BY <1>2, <1>3, <1>6
  <2> QED
    BY <2>1, <2>2, <2>3, <2>4 DEF PastIs
<1> QED
  BY <1>6

\* What has committed stays behind the register, which only grows.
LEMMA DoneStays ==
    ASSUME NEW p, Steady(p), model' = model, NEW r, NEW s, NEW q \in Procs,
           DoneIs(q, r, s), CommittedGrows(s, KeyOf(q, r)), db[Reg(s, KeyOf(q, r))] \in Nat, PosOf(q, r) \in Nat
    PROVE  DoneIs(q, r, s)'
<1> SUFFICES ASSUME NEW a, a = KeyOf(q, r), NEW b, b = PosOf(q, r)
             PROVE  DoneIs(q, r, s)'
  OBVIOUS
<1>1. KeyOf(q, r)' = a /\ PosOf(q, r)' = b /\ Domain(exec[q], s.sel)' = Domain(exec[q], s.sel)
  BY CarriesStay
<1>2. <<s.sel.object, a>> \in Domain(exec[q], s.sel) /\ db[Alive(s, a)] = 1 /\ b <= db[Reg(s, a)]
  BY DEF DoneIs
<1>3. db'[Reg(s, a)] \in Nat /\ db'[Reg(s, a)] >= db[Reg(s, a)] /\ db'[Alive(s, a)] = 1
  BY <1>2 DEF CommittedGrows
<1>4. b <= db'[Reg(s, a)]
  BY <1>2, <1>3
<1> QED
  BY <1>1, <1>2, <1>3, <1>4 DEF DoneIs

\* An execution that commits past the route has left its position.
LEMMA CommitIsDone ==
    ASSUME NEW p \in Procs, Steady(p), model' = model, NEW t, NEW r, NEW s, PastIs(p, t, r, s),
           db'[Reg(s, KeyOf(p, r))] = Committed(p)[Reg(s, KeyOf(p, r))],
           db'[Alive(s, KeyOf(p, r))] = Committed(p)[Alive(s, KeyOf(p, r))]
    PROVE  DoneIs(p, r, s)'
<1> SUFFICES ASSUME NEW a, a = KeyOf(p, r), NEW b, b = PosOf(p, r)
             PROVE  DoneIs(p, r, s)'
  OBVIOUS
<1>1. KeyOf(p, r)' = a /\ PosOf(p, r)' = b /\ Domain(exec[p], s.sel)' = Domain(exec[p], s.sel)
  BY CarriesStay
<1>2. /\ <<s.sel.object, a>> \in Domain(exec[p], s.sel)
      /\ Committed(p)[Alive(s, a)] = 1 /\ b <= Committed(p)[Reg(s, a)]
  BY DEF PastIs
<1> QED
  BY <1>1, <1>2 DEF DoneIs

\* The route's own step.
LEMMA PassingRoute ==
    ASSUME Running, NEW t, NEW r, NEW i, Kept(model, t, r, i), NEW s, s = model.templates[t].steps[i],
           \A k \in RouteKeys(s) : RegisterIs(s, k), Passed(t, r, i, s),
           NEW p \in Procs, NEW view, NEW o, Applies(p, s, view, o), exec[p].tx = t
    PROVE  PastIs(p, t, r, s)'
<1> SUFFICES ASSUME NEW a, a = KeyOf(p, r), NEW b, b = PosOf(p, r)
             PROVE  PastIs(p, t, r, s)'
  OBVIOUS
<1> DEFINE x == Ident(p)
           l == Reg(s, a)
           v == Alive(s, a)
<1>1. ExecsAre /\ Valid(model) /\ Steady(p) /\ exec'[p].status = "active"
  BY Zenon, ModelIsValid, ExecMoves DEF Running
<1>2. o = Outcome(x, s, view) /\ o.ok /\ model' = model /\ db' = db /\ Write(p, o.w)
  BY Zenon DEF Applies
<1>3. a = Eval(x, r.key) /\ b = Eval(x, r.position) /\ Domain(x, s.sel) = Domain(exec[p], s.sel)
  BY IdentIs DEF KeyOf, PosOf
<1>4. b \in Nat
  BY <1>1, PositionIsNat
<1>5. <<s.sel.object, a>> \in Domain(exec[p], s.sel) /\ Passes(s, a, b, view, o.w)
  <2> HIDE DEF x
  <2> QED
    BY <1>1, <1>2, <1>3, <1>4, RoutePasses
<1>6. a \in RouteKeys(s)
  BY <1>5, KeyIsOfRoute
<1>7. RegisterIs(s, a)
  BY <1>6
<1>8. s.kind \in {"advance_cursor", "fence"}
  BY <1>1, RouteIs
<1>9. view[l] = Committed(p)[l] /\ view[v] = Committed(p)[v]
  <2> HIDE DEF x, l, v
  <2>1. s.kind \in {"insert", "upsert"} \/ (s.kind \in {"advance_cursor", "fence"} /\ s.field = s.field)
    BY <1>8
  <2>3. <<s.sel.object, a>> \in Domain(exec[p], s.sel)
    BY <1>5
  <2>2. ASSUME NEW e, Applies(p, e, view, o), <<s.sel.object, a>> \in Domain(exec[p], e.sel),
               e.kind \in {"insert", "upsert"} \/ (e.kind \in {"advance_cursor", "fence"} /\ e.field = s.field)
        PROVE  /\ view[Reg(s, a)] = Committed(p)[Reg(s, a)] /\ view[Alive(s, a)] = Committed(p)[Alive(s, a)]
               /\ \/ Isolated(model, exec[p].tx)
                  \/ <<p, <<s.sel.object, a>>, "W">> \in locks \cup Acquires(p, e, o.w)
    BY <1>6, <1>7, <2>2, ViewAgrees
  <2>4. view[Reg(s, a)] = Committed(p)[Reg(s, a)] /\ view[Alive(s, a)] = Committed(p)[Alive(s, a)]
    BY <2>1, <2>2, <2>3
  <2> QED
    BY <2>4 DEF l, v
<1>10. Grows(s, a, p)
  BY Zenon, <1>6, <1>7, AppliedRegister
<1>11. /\ Committed(p)[l] \in Nat /\ Committed(p)[l] >= db[l] /\ db[l] \in Nat /\ l \in DOMAIN db
  BY <1>7, RegisterSeen DEF RegisterIs
<1>12. /\ view[v] = 1 /\ v \notin DOMAIN o.w
       /\ l \in DOMAIN o.w => o.w[l] = b
       /\ l \notin DOMAIN o.w => ~(b > view[l])
       /\ IF s.kind = "advance_cursor" THEN b > view[l] ELSE b >= view[l]
  BY <1>5, <1>9, <1>11 DEF Passes
<1>13. Committed(p)'[v] = 1 /\ Committed(p)'[l] \in Nat /\ Committed(p)'[l] >= Committed(p)[l]
  BY <1>9, <1>10, <1>12 DEF Grows
<1>14. b <= Committed(p)'[l]
  <2>1. CASE l \in DOMAIN o.w
    <3>1. Committed(p)'[l] = o.w[l]
      <4>1. pending'[p] = Over(o.w, pending[p])
        BY <1>2 DEF Write, Running, WritesAreOfTheRunning
      <4>2. l \in DOMAIN pending'[p] /\ pending'[p][l] = o.w[l]
        BY <2>1, <4>1 DEF Over
      <4> QED
        BY <1>2, <1>11, <4>2 DEF Committed, Over
    <3>2. b <= b
      BY <1>4
    <3> QED
      BY Zenon, <1>12, <2>1, <3>1, <3>2
  <2>2. CASE l \notin DOMAIN o.w
    <3>1. PICK now, was : /\ now = Committed(p)'[l] /\ was = Committed(p)[l] /\ now \in Nat /\ was \in Nat
                          /\ ~(b > was) /\ now >= was
      BY Zenon, <1>9, <1>11, <1>12, <1>13, <2>2
    <3> QED
      BY Zenon, <1>4, <3>1, NoMore
  <2> QED
    BY <2>1, <2>2
<1>15. ASSUME NEW c \in Procs, Done(c, t)', KeyOf(c, r) = a
       PROVE  Before(s, PosOf(c, r), b)
  <2>1. Done(c, t)
    BY <1>1, <1>15 DEF Done, Steady
  <2>2. PosOf(c, r) <= db[l] /\ PosOf(c, r) \in Nat
    BY <1>1, <1>15, <2>1, PositionIsNat DEF Passed, DoneIs
  <2>3. PosOf(c, r) <= view[l] /\ view[l] \in Nat
    BY Zenon, <1>9, <1>11, <2>2, NoMore
  <2>4. PICK c0, at : /\ c0 = PosOf(c, r) /\ at = view[l] /\ c0 \in Nat /\ at \in Nat /\ c0 <= at
                      /\ IF s.kind = "advance_cursor" THEN b > at ELSE b >= at
    BY Zenon, <1>12, <2>2, <2>3
  <2>5. IF s.kind = "advance_cursor" THEN c0 < b ELSE c0 <= b
    BY Zenon, <1>4, <2>4, Less, NoMore
  <2> QED
    BY Zenon, <2>4, <2>5 DEF Before
<1>16. /\ KeyOf(p, r)' = a /\ PosOf(p, r)' = b /\ Domain(exec[p], s.sel)' = Domain(exec[p], s.sel)
       /\ \A c \in Procs : KeyOf(c, r)' = KeyOf(c, r) /\ PosOf(c, r)' = PosOf(c, r)
  BY <1>1, <1>2, CarriesStay
<1> QED
  BY <1>5, <1>13, <1>14, <1>15, <1>16 DEF PastIs

\* Two that are past the route of one key are one.
LEMMA OnePast ==
    ASSUME Running, NEW t, NEW r, NEW i, Kept(model, t, r, i), NEW s, s = model.templates[t].steps[i],
           NEW p \in Procs, NEW q \in Procs, Past(p, t, i), Past(q, t, i),
           PastIs(p, t, r, s), PastIs(q, t, r, s), KeyOf(p, r) = KeyOf(q, r)
    PROVE  p = q
<1> DEFINE n == <<s.sel.object, KeyOf(p, r)>>
<1>1. HoldsAny(p, n, {"X", "W"}) /\ HoldsAny(q, n, {"X", "W"})
  BY PastHolds DEF PastIs
<1>2. PICK a \in {"X", "W"}, b \in {"X", "W"} : <<p, n, a>> \in locks /\ <<q, n, b>> \in locks
  BY <1>1 DEF HoldsAny
<1>3. <<a, b>> \in Excludes
  BY Excluded
<1> QED
  BY <1>2, <1>3 DEF Running, LocksExclude

\* What every register of an accepted route's keeps, and those past the route.
RouteHolds(t, r, i, s) == (\A k \in RouteKeys(s) : RegisterIs(s, k)) /\ Passed(t, r, i, s)

\* The keys are fixed with the specification.
LEMMA RouteKeysStay ==
    ASSUME model' = model, NEW s
    PROVE  RouteKeys(s)' = RouteKeys(s)
<1>1. \A o : IdField(o)' = IdField(o)
  BY DEF IdField
<1> QED
  BY <1>1 DEF RouteKeys

\* Whoever a step leaves past the route, or committed, stays so.
LEMMA PassedStays ==
    ASSUME Running, NEW t, NEW r, NEW i, Kept(model, t, r, i), NEW s, s = model.templates[t].steps[i],
           RouteHolds(t, r, i, s), NEW p, Steady(p), model' = model, NEW q \in Procs,
           \A k \in RouteKeys(s) : Grows(s, k, q) /\ CommittedGrows(s, k)
    PROVE  /\ Past(q, t, i) /\ (\A c \in Procs : Done(c, t)' /\ KeyOf(c, r) = KeyOf(q, r) => Done(c, t))
                 => PastIs(q, t, r, s)'
           /\ Done(q, t) => DoneIs(q, r, s)'
<1>1. PosOf(q, r) \in Nat
  BY PositionIsNat DEF Running
<1>2. ASSUME Past(q, t, i), \A c \in Procs : Done(c, t)' /\ KeyOf(c, r) = KeyOf(q, r) => Done(c, t)
      PROVE  PastIs(q, t, r, s)'
  <2>1. PastIs(q, t, r, s)
    BY <1>2 DEF RouteHolds, Passed
  <2>2. KeyOf(q, r) \in RouteKeys(s)
    BY <2>1, KeyIsOfRoute DEF PastIs
  <2>3. RegisterIs(s, KeyOf(q, r)) /\ Grows(s, KeyOf(q, r), q)
    BY <2>2 DEF RouteHolds
  <2> QED
    BY <1>1, <1>2, <2>1, <2>3, PastStays
<1>3. ASSUME Done(q, t)
      PROVE  DoneIs(q, r, s)'
  <2>1. DoneIs(q, r, s)
    BY <1>3 DEF RouteHolds, Passed
  <2>2. KeyOf(q, r) \in RouteKeys(s)
    BY <2>1, KeyIsOfRoute DEF DoneIs
  <2>3. RegisterIs(s, KeyOf(q, r)) /\ CommittedGrows(s, KeyOf(q, r))
    BY <2>2 DEF RouteHolds
  <2>4. db[Reg(s, KeyOf(q, r))] \in Nat
    BY <2>3 DEF RegisterIs
  <2> QED
    BY <1>1, <2>1, <2>3, <2>4, DoneStays
<1> QED
  BY <1>2, <1>3

\* A snapshot begins.
LEMMA BegunRoute ==
    ASSUME Running, NEW t, NEW r, NEW i, Kept(model, t, r, i), NEW s, s = model.templates[t].steps[i],
           RouteHolds(t, r, i, s), NEW p \in Procs, Begin(p)
    PROVE  RouteHolds(t, r, i, s)'
<1>1. model' = model /\ Steady(p) /\ exec'[p].pc = exec[p].pc /\ exec'[p].status = exec[p].status
  BY ExecMoves DEF Begin, Running
<1>2. RouteKeys(s)' = RouteKeys(s)
  BY <1>1, RouteKeysStay
<1>3. ASSUME NEW k \in RouteKeys(s)
      PROVE  RegisterIs(s, k)' /\ (\A q \in Procs : Grows(s, k, q)) /\ CommittedGrows(s, k)
  BY BegunRegister DEF RouteHolds
<1>4. ASSUME NEW q \in Procs
      PROVE  (Past(q, t, i)' => Past(q, t, i)) /\ (Done(q, t)' => Done(q, t))
  BY <1>1 DEF Past, Done, Steady
<1>5. ASSUME NEW q \in Procs
      PROVE  (Past(q, t, i)' => PastIs(q, t, r, s)') /\ (Done(q, t)' => DoneIs(q, r, s)')
  BY <1>1, <1>3, <1>4, PassedStays
<1> QED
  BY <1>2, <1>3, <1>5 DEF RouteHolds, Passed

\* A step applies: another's, or one that passes the route itself.
LEMMA AppliedRoute ==
    ASSUME Running, NEW t, NEW r, NEW i, Kept(model, t, r, i), NEW s, s = model.templates[t].steps[i],
           RouteHolds(t, r, i, s), NEW p \in Procs, NEW e, NEW view, NEW o, Applies(p, e, view, o)
    PROVE  RouteHolds(t, r, i, s)'
<1>1. model' = model /\ Steady(p) /\ exec'[p].pc = exec[p].pc + 1 /\ exec'[p].status = "active"
  BY Zenon, ExecMoves DEF Applies, Running
<1>2. RouteKeys(s)' = RouteKeys(s)
  BY <1>1, RouteKeysStay
<1>3. ASSUME NEW k \in RouteKeys(s)
      PROVE  RegisterIs(s, k)' /\ (\A q \in Procs : Grows(s, k, q)) /\ CommittedGrows(s, k)
  BY AppliedRegister DEF RouteHolds
<1>4. ASSUME NEW q \in Procs
      PROVE  (Done(q, t)' => Done(q, t)) /\ (q # p /\ Past(q, t, i)' => Past(q, t, i))
  BY <1>1 DEF Past, Done, Steady
<1>5. ASSUME NEW q \in Procs, Past(q, t, i) \/ q # p
      PROVE  Past(q, t, i)' => PastIs(q, t, r, s)'
  BY <1>1, <1>3, <1>4, <1>5, PassedStays
<1>6. ASSUME Past(p, t, i)', ~Past(p, t, i)
      PROVE  PastIs(p, t, r, s)'
  <2>1. exec[p].tx = t /\ exec[p].status = "active" /\ exec[p].pc \in Nat /\ i \in Nat
    BY Zenon, <1>1, <1>6, ModelIsValid, RouteIs DEF Past, Applies, Running, ExecsAre, Steady
  <2>2. exec[p].pc = i
    BY <1>1, <1>6, <2>1 DEF Past
  <2>3. e = s
    BY <2>1, <2>2 DEF Applies
  <2>4. (\A k \in RouteKeys(s) : RegisterIs(s, k)) /\ Passed(t, r, i, s) /\ Applies(p, s, view, o)
    BY <2>3 DEF RouteHolds
  <2> QED
    BY Zenon, <2>1, <2>4, PassingRoute
<1>7. ASSUME NEW q \in Procs
      PROVE  Done(q, t)' => DoneIs(q, r, s)'
  BY <1>1, <1>3, <1>4, PassedStays
<1> QED
  BY Zenon, <1>2, <1>3, <1>5, <1>6, <1>7 DEF RouteHolds, Passed

\* An execution leaves without committing.
LEMMA DroppedRoute ==
    ASSUME Running, NEW t, NEW r, NEW i, Kept(model, t, r, i), NEW s, s = model.templates[t].steps[i],
           RouteHolds(t, r, i, s), NEW p \in Procs, Drops(p)
    PROVE  RouteHolds(t, r, i, s)'
<1>1. model' = model /\ Steady(p) /\ exec'[p].status \in {"rejected", "aborted"}
  BY ExecMoves DEF Drops, Running
<1>2. RouteKeys(s)' = RouteKeys(s)
  BY <1>1, RouteKeysStay
<1>3. ASSUME NEW k \in RouteKeys(s)
      PROVE  RegisterIs(s, k)' /\ (\A q \in Procs : q # p => Grows(s, k, q)) /\ CommittedGrows(s, k)
  BY DroppedRegister DEF RouteHolds
<1>4. ASSUME NEW q \in Procs
      PROVE  /\ Past(q, t, i)' => q # p /\ Past(q, t, i)
             /\ Done(q, t)' => q # p /\ Done(q, t)
  BY <1>1 DEF Past, Done, Steady
<1>5. ASSUME NEW q \in Procs, q # p
      PROVE  (Past(q, t, i)' => PastIs(q, t, r, s)') /\ (Done(q, t)' => DoneIs(q, r, s)')
  BY <1>1, <1>3, <1>4, <1>5, PassedStays
<1> QED
  BY <1>2, <1>3, <1>4, <1>5 DEF RouteHolds, Passed

\* An execution past its last step is past the route, if it is of the transaction.
LEMMA CommitsPast ==
    ASSUME Running, NEW t, NEW r, NEW i, Kept(model, t, r, i), NEW p \in Procs, Commit(p), exec[p].tx = t
    PROVE  Past(p, t, i)
<1>1. exec[p].status = "active" /\ exec[p].pc > Len(model.templates[t].steps)
  BY DEF Commit
<1>2. ExecsAre /\ Valid(model) /\ t \in Templates(model) /\ exec[p].pc \in Nat
  BY ModelIsValid DEF Running, ExecsAre
<1>3. i \in DOMAIN model.templates[t].steps
  BY <1>2, RouteIs
<1>4. i \in 1..Len(model.templates[t].steps) /\ Len(model.templates[t].steps) \in Nat
  BY <1>2, <1>3 DEF Valid
<1>5. exec[p].pc > i
  BY <1>1, <1>2, <1>4
<1> QED
  BY <1>1, <1>5 DEF Past

\* An execution commits.
LEMMA CommittedRoute ==
    ASSUME Running, NEW t, NEW r, NEW i, Kept(model, t, r, i), NEW s, s = model.templates[t].steps[i],
           RouteHolds(t, r, i, s), NEW p \in Procs, Commit(p)
    PROVE  RouteHolds(t, r, i, s)'
<1>1. model' = model /\ Steady(p) /\ exec'[p].status = "committed"
  BY ExecMoves DEF Commit, Running
<1>2. RouteKeys(s)' = RouteKeys(s)
  BY <1>1, RouteKeysStay
<1>3. ASSUME NEW k \in RouteKeys(s)
      PROVE  /\ RegisterIs(s, k)' /\ (\A q \in Procs : Grows(s, k, q)) /\ CommittedGrows(s, k)
             /\ db'[Reg(s, k)] = Committed(p)[Reg(s, k)] /\ db'[Alive(s, k)] = Committed(p)[Alive(s, k)]
  BY CommittedRegister DEF RouteHolds
<1>4. ASSUME NEW q \in Procs
      PROVE  /\ Past(q, t, i)' => q # p /\ Past(q, t, i)
             /\ Done(q, t)' => Done(q, t) \/ (q = p /\ exec[p].tx = t)
  BY <1>1 DEF Past, Done, Steady
<1>5. ASSUME exec[p].tx = t
      PROVE  Past(p, t, i) /\ PastIs(p, t, r, s)
  BY <1>5, CommitsPast DEF RouteHolds, Passed
<1>6. ASSUME NEW q \in Procs, Past(q, t, i)'
      PROVE  PastIs(q, t, r, s)'
  <2>1. q # p /\ Past(q, t, i) /\ PastIs(q, t, r, s)
    BY <1>4, <1>6 DEF RouteHolds, Passed
  <2>2. ASSUME NEW c \in Procs, Done(c, t)', KeyOf(c, r) = KeyOf(q, r)
        PROVE  Done(c, t)
    <3> SUFFICES ASSUME c = p, exec[p].tx = t PROVE FALSE
      BY <1>4, <2>2
    <3>1. KeyOf(p, r) = KeyOf(q, r)
      BY <2>2
    <3> QED
      BY <1>5, <2>1, <3>1, OnePast
  <2> QED
    BY <1>1, <1>3, <2>1, <2>2, PassedStays
<1>7. ASSUME NEW q \in Procs, Done(q, t)'
      PROVE  DoneIs(q, r, s)'
  <2>1. CASE Done(q, t)
    BY <1>1, <1>3, <2>1, PassedStays
  <2>2. CASE q = p /\ exec[p].tx = t
    <3>1. PastIs(p, t, r, s)
      BY <1>5, <2>2
    <3>2. KeyOf(p, r) \in RouteKeys(s)
      BY <3>1, KeyIsOfRoute DEF PastIs
    <3>3. /\ db'[Reg(s, KeyOf(p, r))] = Committed(p)[Reg(s, KeyOf(p, r))]
          /\ db'[Alive(s, KeyOf(p, r))] = Committed(p)[Alive(s, KeyOf(p, r))]
      BY <1>3, <3>2
    <3>4. DoneIs(p, r, s)'
      BY <1>1, <3>1, <3>3, CommitIsDone
    <3> QED
      BY <2>2, <3>4
  <2> QED
    BY <1>4, <1>7, <2>1, <2>2
<1> QED
  BY <1>2, <1>3, <1>6, <1>7 DEF RouteHolds, Passed

\* Every location of the initial state: 0 but for what says that an instance is
\* there and for its version.
LEMMA InitialDbIs ==
    ASSUME NEW m, NEW o \in DOMAIN m.schema, NEW k \in Keys, NEW f \in m.schema[o].fields \cup {Live}
    PROVE  /\ <<o, k, f>> \in DOMAIN InitialDb(m)
           /\ InitialDb(m)[<<o, k, f>>] =
                IF k \in m.absent THEN 0 ELSE IF f \in {Live, m.schema[o].version} THEN 1 ELSE 0
<1> DEFINE n == <<o, k, f>>
           D == UNION {{<<u, a, b>> : a \in Keys, b \in m.schema[u].fields \cup {Live}} : u \in DOMAIN m.schema}
           X(l) == IF l[2] \in m.absent THEN 0
                   ELSE IF l[3] \in {Live, m.schema[l[1]].version} THEN 1 ELSE 0
<1>1. n \in D
  OBVIOUS
<1>2. n[1] = o /\ n[2] = k /\ n[3] = f
  OBVIOUS
<1>3. DOMAIN InitialDb(m) = D /\ (n \in D => InitialDb(m)[n] = X(n))
  <2> HIDE DEF n
  <2> QED
    BY DEF InitialDb
<1> HIDE DEF n, D
<1>4. n \in DOMAIN InitialDb(m) /\ InitialDb(m)[n] = X(n)
  BY <1>1, <1>3
<1> QED
  BY <1>2, <1>4 DEF n

\* At first every register is 0 and no execution is past a step.
LEMMA RouteInit ==
    ASSUME Init, NEW t, NEW r, NEW i, Kept(model, t, r, i), NEW s, s = model.templates[t].steps[i]
    PROVE  RouteHolds(t, r, i, s)
<1>1. Running
  BY RunningInit
<1>2. /\ Valid(model) /\ t \in Templates(model) /\ i \in DOMAIN model.templates[t].steps
      /\ ValidStep(model, s) /\ s.kind \in {"advance_cursor", "fence"}
  BY Zenon, <1>1, ModelIsValid, RouteIs DEF Running
<1>3. /\ s.sel.object \in DOMAIN model.schema /\ s.field \in model.schema[s.sel.object].fields
      /\ s.field # model.schema[s.sel.object].version /\ ValidObject(model.schema[s.sel.object])
  BY Zenon, <1>2 DEF ValidStep, Valid
<1>4. s.field # Live /\ model.schema[s.sel.object].version # Live
  BY Zenon, <1>3 DEF ValidObject
<1>5. db = InitialDb(model) /\ (\A p \in Procs : DOMAIN pending[p] = {})
  BY DEF Init, Nothing
<1>6. ASSUME NEW k \in RouteKeys(s)
      PROVE  RegisterIs(s, k)
  <2>1. k \in Keys
    BY DEF RouteKeys
  <2> DEFINE u == s.sel.object
  <2>2. \A f \in model.schema[u].fields \cup {Live} :
           /\ <<u, k, f>> \in DOMAIN db
           /\ db[<<u, k, f>>] = IF k \in model.absent THEN 0
                                ELSE IF f \in {Live, model.schema[u].version} THEN 1 ELSE 0
    <3> HIDE DEF u
    <3>1. u \in DOMAIN model.schema
      BY Zenon, <1>3 DEF u
    <3> QED
      BY Zenon, <1>5, <2>1, <3>1, InitialDbIs
  <2>3. Reg(s, k) = <<u, k, s.field>> /\ Alive(s, k) = <<u, k, Live>>
    BY Zenon DEF Reg, Alive
  <2> HIDE DEF u
  <2>4. Reg(s, k) \in DOMAIN db /\ db[Reg(s, k)] = 0
    BY Zenon, <1>3, <1>4, <2>2, <2>3 DEF u
  <2>5. Alive(s, k) \in DOMAIN db /\ db[Alive(s, k)] \in {0, 1}
    BY <2>2, <2>3
  <2> QED
    <3>1. \A p \in Procs : ~Reaches(s, k, pending[p])
      BY Zenon, <1>5 DEF Reaches
    <3>2. 0 \in Nat
      OBVIOUS
    <3> QED
      BY Zenon, <2>4, <2>5, <3>1, <3>2 DEF RegisterIs
<1>7. ASSUME NEW q \in Procs
      PROVE  ~Past(q, t, i) /\ ~Done(q, t)
  <2>1. exec[q].pc = 1 /\ exec[q].status = "active"
    BY DEF Init
  <2>2. i \in Nat /\ i >= 1
    <3>1. i \in 1..Len(model.templates[t].steps) /\ Len(model.templates[t].steps) \in Nat
      BY <1>2 DEF Valid
    <3> QED
      BY <3>1
  <2> QED
    BY <2>1, <2>2 DEF Past, Done
<1> QED
  BY <1>6, <1>7 DEF RouteHolds, Passed

-----------------------------------------------------------------------------
(* The order of commitment *)

\* The commit order lists committed executions, and those of one transaction
\* and one key in the order of their positions.
OrderIs == order \in Seq(Procs) /\ \A n \in DOMAIN order : exec[order[n]].status = "committed"

Ordered(t, r, s) ==
    \A n, m \in DOMAIN order : \A a, b \in Procs :
        n < m /\ a = order[n] /\ b = order[m] /\ Done(a, t) /\ Done(b, t) /\ KeyOf(a, r) = KeyOf(b, r)
            => Before(s, PosOf(a, r), PosOf(b, r))

RouteInv(t, r, i, s) == RouteHolds(t, r, i, s) /\ Ordered(t, r, s)

\* The inductive invariant: the locks, and of each accepted route that is kept
\* its registers, those past it and those that have committed.
Orders ==
    /\ Running /\ OrderIs
    /\ \A t, r, i : Kept(model, t, r, i) => RouteInv(t, r, i, model.templates[t].steps[i])

\* The commit order holds executions that have committed, and no others.
LEMMA OrderIsStep ==
    ASSUME Running, OrderIs, NEW p \in Procs,
           Begin(p) \/ (\E e, view, o : Applies(p, e, view, o)) \/ Drops(p) \/ Commit(p)
    PROVE  OrderIs'
<1>1. CASE Commit(p)
  <2>1. order' = Append(order, p) /\ Steady(p) /\ exec'[p].status = "committed"
    BY <1>1, ExecMoves DEF Commit, Running
  <2>2. \A n \in DOMAIN order' : (n \in DOMAIN order /\ order'[n] = order[n]) \/ order'[n] = p
    BY <2>1 DEF OrderIs
  <2> QED
    BY <2>1, <2>2 DEF OrderIs, Steady
<1>2. CASE ~Commit(p)
  <2>1. Steady(p) /\ exec[p].status = "active" /\ order' = order
    BY <1>2, ExecMoves DEF Running, Begin, Applies, Drops
  <2> QED
    BY <2>1 DEF OrderIs, Steady
<1> QED
  BY <1>1, <1>2

\* Nothing but a commitment changes the order.
LEMMA OrderStays ==
    ASSUME Running, OrderIs, NEW t, NEW r, NEW s, Ordered(t, r, s), NEW p, Steady(p),
           model' = model, order' = order, exec[p].status = "active", exec'[p].status # "committed"
    PROVE  Ordered(t, r, s)'
<1>1. \A c \in Procs : (exec'[c].status = "committed") <=> (exec[c].status = "committed")
  BY DEF Steady
<1>2. \A c \in Procs : (Done(c, t)' <=> Done(c, t)) /\ KeyOf(c, r)' = KeyOf(c, r) /\ PosOf(c, r)' = PosOf(c, r)
  BY <1>1, CarriesStay DEF Done, Steady
<1> QED
  BY <1>2 DEF Ordered

\* One that commits past the route is after those that have committed.
LEMMA OrderGrows ==
    ASSUME Running, OrderIs, NEW t, NEW r, NEW i, Kept(model, t, r, i),
           NEW s, s = model.templates[t].steps[i], RouteInv(t, r, i, s), NEW p \in Procs, Commit(p)
    PROVE  Ordered(t, r, s)'
<1>1. model' = model /\ Steady(p) /\ exec'[p].status = "committed" /\ exec[p].status = "active"
  BY ExecMoves DEF Commit, Running
<1> DEFINE N == Len(order)
<1>2. /\ N \in Nat /\ DOMAIN order = 1..N /\ Len(order') = N + 1 /\ DOMAIN order' = 1..(N + 1)
      /\ order'[N + 1] = p /\ \A n \in 1..N : order'[n] = order[n]
  <2>1. order' = Append(order, p)
    BY DEF Commit
  <2>2. order \in Seq(Procs)
    BY DEF OrderIs
  <2> QED
    BY <2>1, <2>2
<1>3. \A c \in Procs : KeyOf(c, r)' = KeyOf(c, r) /\ PosOf(c, r)' = PosOf(c, r)
  BY <1>1, CarriesStay
<1>4. \A n \in 1..N : /\ order[n] \in Procs /\ order[n] # p /\ exec[order[n]].status = "committed"
                      /\ exec'[order[n]] = exec[order[n]]
  BY <1>1, <1>2 DEF OrderIs, Steady
<1>5. ASSUME NEW n \in 1..(N + 1), NEW m \in 1..(N + 1), n < m,
             NEW a \in Procs, a = order'[n], NEW b \in Procs, b = order'[m],
             Done(a, t)', Done(b, t)', KeyOf(a, r) = KeyOf(b, r)
      PROVE  Before(s, PosOf(a, r), PosOf(b, r))
  <2>1. n \in 1..N /\ (m \in 1..N \/ m = N + 1)
    BY <1>2, <1>5
  <2>2. a = order[n] /\ a \in Procs /\ Done(a, t)
    BY <1>2, <1>4, <1>5, <2>1 DEF Done
  <2>3. CASE m \in 1..N
    <3>1. b = order[m] /\ Done(b, t)
      BY <1>2, <1>4, <1>5, <2>3 DEF Done
    <3> QED
      BY <1>2, <1>5, <2>1, <2>2, <2>3, <3>1 DEF RouteInv, Ordered
  <2>4. CASE m = N + 1
    <3>1. b = p
      BY <1>2, <1>5, <2>4
    <3>2. exec[p].tx = t
      BY <1>1, <1>5, <3>1 DEF Done, Steady
    <3>3. PastIs(p, t, r, s)
      BY <3>2, CommitsPast DEF RouteInv, RouteHolds, Passed
    <3> QED
      BY <1>5, <2>2, <3>1, <3>3 DEF PastIs
  <2> QED
    BY <2>1, <2>3, <2>4
<1> QED
  BY <1>2, <1>3, <1>5 DEF Ordered

\* All of it holds at first,
THEOREM OrdersInit == Init => Orders
<1> SUFFICES ASSUME Init PROVE Orders
  OBVIOUS
<1>1. order = <<>>
  BY DEF Init
<1>2. OrderIs
  BY <1>1 DEF OrderIs
<1>3. ASSUME NEW t, NEW r, NEW i, Kept(model, t, r, i)
      PROVE  RouteInv(t, r, i, model.templates[t].steps[i])
  <2>1. RouteHolds(t, r, i, model.templates[t].steps[i])
    BY <1>3, RouteInit
  <2> QED
    BY <1>1, <2>1 DEF RouteInv, Ordered
<1> QED
  BY <1>2, <1>3, RunningInit DEF Orders

\* and every step keeps it.
THEOREM OrdersStep == Orders /\ [Next]_vars => Orders'
<1> SUFFICES ASSUME Orders, [Next]_vars PROVE Orders'
  OBVIOUS
<1>1. Running /\ OrderIs
  BY DEF Orders
<1>2. ASSUME NEW p \in Procs, Begin(p) \/ (\E e, view, o : Applies(p, e, view, o)) \/ Drops(p) \/ Commit(p)
      PROVE  Orders'
  <2>1. Running'
    BY <1>1, <1>2, RunningStep
  <2>2. model' = model
    BY <1>2 DEF Begin, Applies, Drops, Commit
  <2>3. ASSUME NEW t, NEW r, NEW i, Kept(model, t, r, i)
        PROVE  RouteInv(t, r, i, model.templates[t].steps[i])'
    <3>1. PICK s : s = model.templates[t].steps[i]
      OBVIOUS
    <3>2. RouteInv(t, r, i, s)
      BY <2>3, <3>1 DEF Orders
    <3>3. RouteHolds(t, r, i, s)'
      BY <1>1, <1>2, <2>3, <3>1, <3>2, BegunRoute, AppliedRoute, DroppedRoute, CommittedRoute DEF RouteInv
    <3>4. Ordered(t, r, s)'
      <4>1. CASE Commit(p)
        BY <1>1, <2>3, <3>1, <3>2, <4>1, OrderGrows
      <4>2. CASE ~Commit(p)
        <5>1. /\ Steady(p) /\ exec[p].status = "active" /\ exec'[p].status # "committed" /\ order' = order
          BY <1>1, <1>2, <4>2, ExecMoves DEF Running, Begin, Applies, Drops
        <5> QED
          BY Zenon, <1>1, <2>2, <3>2, <5>1, OrderStays DEF RouteInv
      <4> QED
        BY <4>1, <4>2
    <3> QED
      BY <2>2, <3>1, <3>3, <3>4 DEF RouteInv
  <2>4. OrderIs'
    BY <1>1, <1>2, OrderIsStep
  <2>5. \A t, r, i : Kept(model, t, r, i)' <=> Kept(model, t, r, i)
    BY <2>2
  <2> QED
    BY <2>1, <2>3, <2>4, <2>5 DEF Orders
<1>3. CASE Next
  <2>1. PICK p \in Procs : Begin(p) \/ Step(p) \/ Commit(p) \/ Abort(p)
    BY <1>3 DEF Next
  <2>2. Step(p) => (\E e, view, o : Applies(p, e, view, o)) \/ Drops(p)
    BY <1>1, StepCases DEF Running
  <2>3. Abort(p) => Drops(p)
    BY DEF Abort, Drops
  <2> QED
    BY <1>2, <2>1, <2>2, <2>3
<1>4. CASE UNCHANGED vars
  <2>1. UNCHANGED <<model, exec, db, pending, later, locks, order, verdicts>>
    BY <1>4 DEF vars
  <2>2. Running' /\ OrderIs'
    <3>1. ExecsAre' /\ OrderIs'
      BY <1>1, <2>1 DEF Running, ExecsAre, OrderIs
    <3>2. WritesAreOfTheRunning' /\ LocksExclude'
      BY <1>1, <2>1 DEF Running, WritesAreOfTheRunning, LocksExclude
    <3>3. \A x, sel : Domain(x, sel)' = Domain(x, sel)
      BY <2>1 DEF Domain, Instances, IdField, Eval
    <3>4. \A q, j : Acquired(q, j)' <=> Acquired(q, j)
      <4> SUFFICES ASSUME NEW q, NEW j PROVE Acquired(q, j)' <=> Acquired(q, j)
        OBVIOUS
      <4>1. PICK e : e = model.templates[exec[q].tx].steps[j]
        OBVIOUS
      <4>2. PICK D : D = Domain(exec[q], e.sel)
        OBVIOUS
      <4>3. model'.templates[exec'[q].tx].steps[j] = e /\ Domain(exec[q], e.sel)' = D
        BY Zenon, <2>1, <3>3, <4>1, <4>2
      <4> QED
        BY Zenon, <2>1, <4>1, <4>2, <4>3 DEF Acquired
    <3>5. LocksAreHeld'
      BY <1>1, <2>1, <3>4 DEF Running, LocksAreHeld
    <3> QED
      BY <3>1, <3>2, <3>5 DEF Running
  <2>3. ASSUME NEW t, NEW r, NEW i, NEW s, RouteInv(t, r, i, s)
        PROVE  RouteInv(t, r, i, s)'
    <3>1. \A q : KeyOf(q, r)' = KeyOf(q, r) /\ PosOf(q, r)' = PosOf(q, r)
      BY <2>1 DEF KeyOf, PosOf, Eval
    <3>2. \A q : Domain(exec[q], s.sel)' = Domain(exec[q], s.sel) /\ Committed(q)' = Committed(q)
      BY <2>1 DEF Domain, Instances, IdField, Eval, Committed
    <3>3. \A q : (Past(q, t, i)' <=> Past(q, t, i)) /\ (Done(q, t)' <=> Done(q, t))
      BY <2>1 DEF Past, Done
    <3>4. Ordered(t, r, s)'
      BY <2>1, <2>3, <3>1, <3>3 DEF RouteInv, Ordered
    <3>5. \A k \in RouteKeys(s)' : RegisterIs(s, k)'
      <4>1. RouteKeys(s)' = RouteKeys(s)
        BY <2>1, RouteKeysStay
      <4> QED
        BY <2>1, <2>3, <3>2, <4>1 DEF RouteInv, RouteHolds, RegisterIs, HoldsAny
    <3>6. Passed(t, r, i, s)'
      BY <2>1, <2>3, <3>1, <3>2, <3>3 DEF RouteInv, RouteHolds, Passed, PastIs, DoneIs
    <3> QED
      BY <3>4, <3>5, <3>6 DEF RouteInv, RouteHolds
  <2> QED
    BY <2>1, <2>2, <2>3 DEF Orders
<1> QED
  BY <1>3, <1>4

\* Whatever is held is held by a running execution, two that exclude each other
\* by no two of them, and what a step acquired to the end of its execution: the
\* lock table on which every proof of the provers rests.
THEOREM LocksAreExclusive == Spec => []Running
<1>1. Orders => Running
  BY DEF Orders
<1> QED
  BY <1>1, OrdersInit, OrdersStep, PTL DEF Spec

\* TransactionOrderingVerdict::Proven holds, route by route: where nothing deletes
\* the instance and a fence has taken it before, the executions of the transaction
\* commit, of each key, in the order of their positions, whatever transactions of
\* whatever isolation run beside them, crash or are rejected.
THEOREM RoutesKeepTheirOrder ==
    Spec => [](\A t \in Templates(model) : \A r \in verdicts[t].ordered :
                  KeepsRoute(model, t, r) => InOrder(t, r))
<1>1. Orders => \A t \in Templates(model) : \A r \in verdicts[t].ordered :
                   KeepsRoute(model, t, r) => InOrder(t, r)
  <2> SUFFICES ASSUME Orders, NEW t \in Templates(model), NEW r \in verdicts[t].ordered,
                      KeepsRoute(model, t, r)
               PROVE  InOrder(t, r)
    OBVIOUS
  <2>1. r \in model.templates[t].ordering /\ OrderingProven(model, t, r) /\ Valid(model)
    BY ModelIsValid DEF Orders, Running, ExecsAre
  <2>2. PICK i : i \in OrderingRoute(model, t, r)
    BY <2>1 DEF OrderingProven
  <2>3. Kept(model, t, r, i)
    BY <2>1, <2>2 DEF Kept
  <2>4. PICK s : s = model.templates[t].steps[i]
    OBVIOUS
  <2>5. OrderingRoute(model, t, r) = {i}
    BY <2>1, <2>2, <2>3, RouteIs
  <2>6. (\A k \in OrderingRoute(model, t, r) : model.templates[t].steps[k].kind = "advance_cursor")
          <=> s.kind = "advance_cursor"
    BY <2>4, <2>5
  <2>7. OrderIs /\ Ordered(t, r, s)
    BY <2>3, <2>4 DEF Orders, RouteInv
  <2>8. ASSUME NEW n \in DOMAIN order, NEW m \in DOMAIN order, n < m,
               exec[order[n]].tx = t, exec[order[m]].tx = t,
               KeyOf(order[n], r) = KeyOf(order[m], r)
        PROVE  Before(s, PosOf(order[n], r), PosOf(order[m], r))
    <3>1. /\ order[n] \in Procs /\ order[m] \in Procs
          /\ Done(order[n], t) /\ Done(order[m], t)
      BY <2>7, <2>8 DEF OrderIs, Done
    <3> QED
      BY <2>7, <2>8, <3>1 DEF Ordered
  <2> QED
    BY <2>6, <2>8 DEF InOrder, Before, KeyOf, PosOf
<1> QED
  BY <1>1, OrdersInit, OrdersStep, PTL DEF Spec

\* And so OrderedAsProven, of every specification whose proven routes are such.
THEOREM OrderIsAsProven ==
    Spec => []((\A t \in Templates(model) : \A r \in verdicts[t].ordered : KeepsRoute(model, t, r))
                  => OrderedAsProven)
<1>1. (\A t \in Templates(model) : \A r \in verdicts[t].ordered : KeepsRoute(model, t, r) => InOrder(t, r))
        => ((\A t \in Templates(model) : \A r \in verdicts[t].ordered : KeepsRoute(model, t, r))
              => OrderedAsProven)
  BY DEF OrderedAsProven
<1> QED
  BY <1>1, RoutesKeepTheirOrder, PTL
=================================================================================
