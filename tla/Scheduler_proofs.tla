--------------------------- MODULE Scheduler_proofs ---------------------------
(****************************************************************************)
(* What the scheduler promises of a batch, for every batch, call graph,     *)
(* number of slots and number of attempts: a sound plan, a batch that       *)
(* comes to its end, runs that say what happened, and attempts whose        *)
(* scheduled context nobody changes.                                        *)
(****************************************************************************)
EXTENDS Scheduler, SequenceTheorems, FiniteSetTheorems, TLAPS

\* Conflict is the same seen from either task.
LEMMA ConflictsEitherWay ==
    ASSUME NEW s, NEW t
    PROVE  Conflicts(s, t) <=> Conflicts(t, s)
  BY DEF Conflicts

\* What a task conflicts with includes all it could disturb.
LEMMA ConflictFreeIsApart ==
    ASSUME NEW s, NEW t, ~Conflicts(s, t)
    PROVE  /\ ~Global(s)
           /\ Writes(s) \cap (Writes(t) \cup Reads(t, deep)) = {}
  BY DEF Conflicts

\* The plan as it is built.
Apart ==
    /\ DOMAIN wave = Indices
    /\ \A i, j \in Indices :
          i # j /\ wave[i] = wave[j] /\ wave[i] # 0 => ~Conflicts(batch[i], batch[j])

LEMMA ApartInitially == PlanInit => Apart
  BY DEF PlanInit, Apart

\* What is a conflict stays one: the batch, the calls and the depth are fixed.
LEMMA ConflictsFixed ==
    ASSUME UNCHANGED <<batch, calls, deep>>
    PROVE  \A s, t : Conflicts(s, t)' <=> Conflicts(s, t)
<1> SUFFICES ASSUME NEW CONSTANT s, NEW CONSTANT t
             PROVE  Conflicts(s, t)' <=> Conflicts(s, t)
  OBVIOUS
<1>1. Global(s)' = Global(s) /\ Global(t)' = Global(t)
  BY DEF Global
<1>2. Writes(s)' = Writes(s) /\ Writes(t)' = Writes(t)
  BY DEF Writes
<1>3. Focus(s)' = Focus(s) /\ Focus(t)' = Focus(t)
  BY DEF Focus
<1>4. Reads(s, deep)' = Reads(s, deep) /\ Reads(t, deep)' = Reads(t, deep)
  BY <1>3 DEF Reads
<1> QED
  BY <1>1, <1>2, <1>4 DEF Conflicts

LEMMA ApartKept == Apart /\ [PlanNext]_planVars => Apart'
<1> SUFFICES ASSUME Apart, [PlanNext]_planVars
             PROVE  Apart'
  OBVIOUS
<1>1. CASE UNCHANGED <<batch, calls, deep, wave>>
  <2>1. Indices' = Indices
    BY <1>1 DEF Indices
  <2> QED
    BY <1>1, <2>1, ConflictsFixed DEF Apart
<1>2. ASSUME TakeReady \/ AppendCycles \/ UNCHANGED planVars
      PROVE  UNCHANGED <<batch, calls, deep, wave>>
  BY <1>2 DEF TakeReady, AppendCycles, planVars
<1>4. CASE Place
  <2>1. PICK k \in Fitting(order[placed + 1]) :
            wave' = [wave EXCEPT ![order[placed + 1]] = k]
    BY <1>4 DEF Place
  <2> DEFINE n == order[placed + 1]
  <2>2. /\ UNCHANGED <<batch, calls, deep>>
        /\ Indices' = Indices
    BY <1>4 DEF Place, Indices
  <2>3. \A s, t : Conflicts(s, t)' <=> Conflicts(s, t)
    BY <2>2, ConflictsFixed
  <2>4. \A j \in Indices : wave[j] = k => ~Conflicts(batch[n], batch[j])
    BY <2>1 DEF Fitting, Fits, InWave
  <2>5. ASSUME NEW i \in Indices, NEW j \in Indices,
               i # j, wave'[i] = wave'[j], wave'[i] # 0
        PROVE  ~Conflicts(batch[i], batch[j])
    <3>1. CASE i = n
      <4>1. wave'[i] = k /\ wave'[j] = wave[j]
        BY <2>1, <2>5, <3>1 DEF Apart
      <4> QED
        BY <2>4, <2>5, <3>1, <4>1
    <3>2. CASE j = n
      <4>1. wave'[j] = k /\ wave'[i] = wave[i]
        BY <2>1, <2>5, <3>2 DEF Apart
      <4> QED
        BY <2>4, <2>5, <3>2, <4>1, ConflictsEitherWay
    <3>3. CASE i # n /\ j # n
      BY <2>1, <2>5, <3>3 DEF Apart
    <3> QED
      BY <3>1, <3>2, <3>3
  <2> QED
    BY <2>1, <2>2, <2>3, <2>5 DEF Apart
<1> QED
  BY <1>1, <1>2, <1>4 DEF PlanNext

\* Planning is all the scheduler does to its plan.
LEMMA PlanAlone == [Next]_vars => [PlanNext]_planVars
  BY DEF Next, vars, planVars, Plan, StartWave, Sequencer, Harness, Agent, Rest, TakePatch,
         Commit, RefuseStale, RefuseFixable, FetchNothing, FetchJob, CreateTask,
         ContextBundle, LaunchFails, ReadMore, SubmitPatch, NoticeInvalidation, Exit, FirstLook, FailTask, Replace, FinishJob, planVars

\* In every plan of every batch, the tasks of one wave write nothing that
\* another of the wave writes or will be handed to read (plan_waves).
THEOREM WavesKeepApart == Spec => []WavesConflictFree
<1>1. Init => Apart
  BY ApartInitially DEF Init
<1>2. Apart /\ [Next]_vars => Apart'
  BY ApartKept, PlanAlone
<1>3. Apart => WavesConflictFree
  BY ConflictFreeIsApart DEF Apart, WavesConflictFree
<1> QED
  BY <1>1, <1>2, <1>3, PTL DEF Spec

-----------------------------------------------------------------------------
(* Lists and least numbers *)

\* What SubmissionOrder and the callee-first order list, they list once.
LEMMA ListedOnce ==
    ASSUME NEW tasks, NEW place, \A i \in tasks : place[i] \in Int, Len(batch) \in Nat,
           NEW list \in Listed(tasks, place)
    PROVE  /\ list \in Seq(tasks)
           /\ \A k, l \in DOMAIN list : list[k] = list[l] => k = l
           /\ \A i \in tasks : \E k \in DOMAIN list : list[k] = i
<1>1. PICK n \in Nat : list \in [1 .. n -> tasks]
  BY DEF Listed
<1>2. list \in Seq(tasks)
  BY <1>1, SeqDef
<1>3. \A k, l \in DOMAIN list : k < l => place[list[k]] < place[list[l]]
  BY DEF Listed
<1>4. ASSUME NEW k \in DOMAIN list, NEW l \in DOMAIN list, list[k] = list[l]
      PROVE  k = l
  <2>1. k \in Int /\ l \in Int /\ list[k] \in tasks
    BY <1>1
  <2>2. place[list[k]] \in Int
    BY <2>1
  <2>3. ~(k < l) /\ ~(l < k)
    BY <1>3, <1>4, <2>2
  <2> QED
    BY <2>1, <2>3
<1> QED
  BY <1>2, <1>4 DEF Listed

\* The least-number principle, for a set.
LEMMA LeastNumber ==
    ASSUME NEW S, S \subseteq Nat, S # {}
    PROVE  \E m \in S : \A n \in S : m <= n
<1>1. PICK below : /\ IsWellFoundedOn(below, Nat)
                   /\ \A m, n \in Nat : n < m => <<n, m>> \in below
  <2>1. IsWellFoundedOn(OpToRel(<, Nat), Nat)
    BY NatLessThanWellFounded
  <2>2. \A m, n \in Nat : n < m => <<n, m>> \in OpToRel(<, Nat)
    BY DEF OpToRel
  <2> QED
    BY <2>1, <2>2, Zenon
<1>2. PICK m \in S : \A n \in S : ~(<<n, m>> \in below)
  BY <1>1, WFMin
<1>3. ASSUME NEW n \in S
      PROVE  m <= n
  <2>1. m \in Nat /\ n \in Nat /\ ~(n < m)
    BY <1>1, <1>2
  <2> QED
    BY <2>1
<1> QED
  BY <1>2, <1>3

-----------------------------------------------------------------------------
(* Call cycles *)

LEMMA LaterStarts ==
    ASSUME NEW i \in Indices, NEW c \in Indices, Precedes(i, c)
    PROVE  c \in Later(i)
  BY DEF Later

LEMMA LaterGoesOn ==
    ASSUME NEW i \in Indices, NEW j \in Later(i), NEW c \in Later(j)
    PROVE  c \in Later(i)
<1>1. j \in Indices /\ c \in Indices
  BY DEF Later
<1>2. ASSUME NEW waiting \in SUBSET Indices,
             \A k \in waiting \cup {i} : \A d \in Indices : Precedes(k, d) => d \in waiting
      PROVE  c \in waiting
  <2>1. j \in waiting
    BY <1>2 DEF Later
  <2>2. \A k \in waiting \cup {j} : \A d \in Indices : Precedes(k, d) => d \in waiting
    BY <1>2, <2>1
  <2> QED
    BY <2>2 DEF Later
<1> QED
  BY <1>1, <1>2 DEF Later

\* On a call cycle, or behind one.
Cyclic(c) == \E i \in Indices : i \in Later(i) /\ c \in Later(i)

\* Tasks that all wait for one of their own wait for a call cycle.
LEMMA WaitingIsCyclic ==
    ASSUME NEW stuck \in SUBSET Indices, Len(batch) \in Nat,
           \A c \in stuck : \E i \in stuck : Precedes(i, c),
           NEW c \in stuck
    PROVE  Cyclic(c)
<1> DEFINE Ahead(j) == {i \in stuck : j \in Later(i)}
           Origins == {j \in stuck : j = c \/ c \in Later(j)}
           Sizes == {Cardinality(Ahead(j)) : j \in Origins}
<1>1. \A T \in SUBSET stuck : IsFiniteSet(T) /\ Cardinality(T) \in Nat
  <2>1. IsFiniteSet(Indices)
    BY FS_Interval DEF Indices
  <2> QED
    BY <2>1, FS_Subset, FS_CardinalityType
<1>2. \A j : Ahead(j) \in SUBSET stuck
  OBVIOUS
<1>3. Sizes \subseteq Nat /\ Sizes # {}
  BY <1>1, <1>2
<1>4. PICK m \in Sizes : \A n \in Sizes : m <= n
  <2> HIDE DEF Sizes
  <2> QED
    BY <1>3, LeastNumber
<1>5. PICK j \in Origins : m = Cardinality(Ahead(j))
  BY <1>4
<1>6. PICK i \in stuck : Precedes(i, j)
  BY <1>5
<1>7. j \in Later(i) /\ i \in Ahead(j)
  BY <1>5, <1>6, LaterStarts
<1>8. i \in Origins /\ c \in Later(i)
  BY <1>5, <1>7, LaterGoesOn
<1>9. Ahead(i) \subseteq Ahead(j)
  BY <1>7, LaterGoesOn
<1>10. Cardinality(Ahead(j)) <= Cardinality(Ahead(i))
  BY <1>4, <1>5, <1>8
<1>11. Ahead(i) = Ahead(j)
  <2>1. /\ IsFiniteSet(Ahead(j))
        /\ Cardinality(Ahead(i)) \in Nat
        /\ Cardinality(Ahead(j)) \in Nat
    BY <1>1, <1>2
  <2>2. Cardinality(Ahead(i)) <= Cardinality(Ahead(j))
    BY <1>9, <2>1, FS_Subset
  <2>3. Cardinality(Ahead(i)) = Cardinality(Ahead(j))
    BY <1>10, <2>1, <2>2
  <2> QED
    BY <1>9, <2>1, <2>3, FS_Subset
<1>12. i \in Later(i)
  BY <1>7, <1>11
<1> QED
  BY <1>8, <1>12 DEF Cyclic

-----------------------------------------------------------------------------
(* The plan *)

\* The tasks ordered and the tasks ready are each listed once, and apart.
Listing ==
    /\ \A k, l \in DOMAIN order : order[k] = order[l] => k = l
    /\ \A k, l \in DOMAIN ready : ready[k] = ready[l] => k = l
    /\ \A k \in DOMAIN ready : ready[k] \notin Ordered

\* A task goes after its callees, unless it is behind a call cycle.
CalleesGone ==
    /\ \A c \in Indices : \A k \in DOMAIN ready :
          ready[k] = c => Before(c) \subseteq Ordered
    /\ \A c \in Indices : \A k \in DOMAIN order :
          order[k] = c =>
              \/ \A i \in Before(c) : \E m \in 1 .. k - 1 : order[m] = i
              \/ ready = <<>> /\ Cyclic(c)

\* A task that is neither ordered nor ready has a callee that is not ordered.
OthersWait ==
    \A c \in Indices :
        c \in Ordered \/ (\E k \in DOMAIN ready : ready[k] = c) \/ \E i \in Before(c) : i \notin Ordered

PlacedSoFar ==
    /\ placed <= Len(order)
    /\ placed > 0 => ready = <<>> /\ Ordered = Indices
    /\ \A i \in Indices : wave[i] # 0 <=> \E k \in 1 .. placed : order[k] = i

PlanBase == /\ batch \in Batches
            /\ PlanTypeOK

OrderInv == PlanBase /\ Listing /\ CalleesGone /\ OthersWait

PlanInv == OrderInv /\ PlacedSoFar /\ HeldBackForCause

\* Planning changes no batch, so what its tasks wait for stays.
LEMMA SameCalls ==
    ASSUME UNCHANGED <<batch, calls>>
    PROVE  /\ Indices' = Indices
           /\ \A i, c : Precedes(i, c)' <=> Precedes(i, c)
           /\ \A c : Before(c)' = Before(c)
           /\ \A i : Later(i)' = Later(i)
           /\ \A c : Cyclic(c)' <=> Cyclic(c)
<1>1. Indices' = Indices
  BY DEF Indices
<1>2. ASSUME NEW CONSTANT i, NEW CONSTANT c
      PROVE  Precedes(i, c)' <=> Precedes(i, c)
  BY <1>1 DEF Precedes, Owns
<1>3. ASSUME NEW CONSTANT c
      PROVE  Before(c)' = Before(c)
  BY <1>1, <1>2 DEF Before
<1>4. ASSUME NEW CONSTANT i
      PROVE  Later(i)' = Later(i)
  BY <1>1, <1>2 DEF Later
<1>5. ASSUME NEW CONSTANT c
      PROVE  Cyclic(c)' <=> Cyclic(c)
  BY <1>1, <1>4 DEF Cyclic
<1> QED
  BY <1>1, <1>2, <1>3, <1>4, <1>5

LEMMA BatchLength ==
    ASSUME batch \in Batches
    PROVE  Len(batch) \in Nat /\ Indices = DOMAIN batch /\ Indices \subseteq Nat \ {0}
  BY PlannerConstants DEF Indices

LEMMA SubmissionPlaces == \A i \in Indices : Submission[i] = i /\ Submission[i] \in Int
  BY DEF Submission, Indices

LEMMA OrderInitially == PlanInit => OrderInv
<1> SUFFICES ASSUME PlanInit
             PROVE  OrderInv
  OBVIOUS
<1>1. PlanBase
  <2>1. Len(batch) \in Nat
    BY BatchLength DEF PlanInit
  <2>2. WithoutCallees \subseteq Indices
    BY DEF WithoutCallees
  <2>3. ready \in Seq(WithoutCallees)
    BY <2>1, <2>2, SubmissionPlaces, ListedOnce DEF PlanInit
  <2>4. ready \in Seq(Indices)
    BY <2>2, <2>3, SeqMonotonic
  <2> QED
    BY <2>1, <2>4 DEF PlanInit, PlanBase, PlanTypeOK
<1>2. /\ \A k, l \in DOMAIN ready : ready[k] = ready[l] => k = l
      /\ \A i \in WithoutCallees : \E k \in DOMAIN ready : ready[k] = i
      /\ ready \in Seq(WithoutCallees)
  <2>1. WithoutCallees \subseteq Indices
    BY DEF WithoutCallees
  <2> QED
    BY <2>1, BatchLength, SubmissionPlaces, ListedOnce DEF PlanInit
<1>3. order = <<>> /\ Ordered = {} /\ DOMAIN order = {}
  BY DEF PlanInit, Ordered
<1>4. Listing
  BY <1>2, <1>3 DEF Listing
<1>5. \A k \in DOMAIN ready : ready[k] \in WithoutCallees
  BY <1>2
<1>6. CalleesGone
  BY <1>3, <1>5 DEF CalleesGone, WithoutCallees
<1>7. OthersWait
  BY <1>2, <1>3 DEF OthersWait, WithoutCallees, Before
<1> QED
  BY <1>1, <1>4, <1>6, <1>7 DEF OrderInv

LEMMA TakeReadyKeeps ==
    ASSUME OrderInv, TakeReady
    PROVE  OrderInv'
<1> DEFINE i == Head(ready)
<1>1. /\ Len(batch) \in Nat
      /\ order \in Seq(Indices) /\ ready \in Seq(Indices) /\ ready # <<>>
      /\ DOMAIN order = 1 .. Len(order) /\ DOMAIN ready = 1 .. Len(ready)
      /\ Len(order) \in Nat /\ Len(ready) \in Nat \ {0}
      /\ i = ready[1] /\ i \in Indices
  <2>1. Len(batch) \in Nat
    BY BatchLength DEF OrderInv, PlanBase
  <2>2. order \in Seq(Indices) /\ ready \in Seq(Indices) /\ ready # <<>>
    BY DEF OrderInv, PlanBase, PlanTypeOK, TakeReady
  <2>3. Len(ready) \in Nat \ {0} /\ DOMAIN ready = 1 .. Len(ready)
    BY <2>2, EmptySeq, LenProperties
  <2> QED
    BY <2>1, <2>2, <2>3, LenProperties
<1>2. PICK released \in Listed(Released(i), Submission) : ready' = Tail(ready) \o released
  BY DEF TakeReady
<1>3. /\ released \in Seq(Released(i))
      /\ \A k, l \in DOMAIN released : released[k] = released[l] => k = l
      /\ \A c \in Released(i) : \E k \in DOMAIN released : released[k] = c
  <2>1. Released(i) \subseteq Indices
    BY DEF Released
  <2> QED
    BY <1>1, <2>1, SubmissionPlaces, ListedOnce
<1>4. /\ UNCHANGED <<batch, calls, deep, placed, wave>>
      /\ order' = Append(order, i)
  BY DEF TakeReady
<1>5. /\ Indices' = Indices
      /\ \A c : Before(c)' = Before(c)
      /\ \A c : Cyclic(c)' <=> Cyclic(c)
  BY <1>4, SameCalls
<1>6. /\ order' \in Seq(Indices)
      /\ DOMAIN order' = 1 .. Len(order) + 1
      /\ \A k \in 1 .. Len(order) : order'[k] = order[k]
      /\ order'[Len(order) + 1] = i
  BY <1>1, <1>4, AppendProperties
<1>7. Ordered' = Ordered \cup {i}
  BY <1>1, <1>6 DEF Ordered
<1>8. released \in Seq(Indices) /\ Len(released) \in Nat /\ DOMAIN released = 1 .. Len(released)
  <2>1. Released(i) \subseteq Indices
    BY DEF Released
  <2> QED
    BY <1>3, <2>1, SeqMonotonic
<1>9. /\ ready' \in Seq(Indices)
      /\ DOMAIN ready' = 1 .. (Len(ready) - 1 + Len(released))
      /\ \A k \in 1 .. Len(ready) - 1 : ready'[k] = ready[k + 1]
      /\ \A k \in 1 .. Len(released) : ready'[Len(ready) - 1 + k] = released[k]
  <2>1. /\ Tail(ready) \in Seq(Indices)
        /\ Len(Tail(ready)) = Len(ready) - 1
        /\ \A k \in 1 .. Len(ready) - 1 : Tail(ready)[k] = ready[k + 1]
    BY <1>1, HeadTailProperties
  <2>2. /\ ready' \in Seq(Indices)
        /\ Len(ready') = Len(ready) - 1 + Len(released)
        /\ \A k \in 1 .. Len(ready) - 1 + Len(released) :
              ready'[k] = IF k <= Len(ready) - 1 THEN Tail(ready)[k] ELSE released[k - (Len(ready) - 1)]
    BY <1>2, <1>8, <2>1, ConcatProperties
  <2>3. DOMAIN ready' = 1 .. (Len(ready) - 1 + Len(released))
    BY <2>2, LenProperties
  <2>4. \A k \in 1 .. Len(ready) - 1 : ready'[k] = ready[k + 1]
    BY <1>1, <1>8, <2>1, <2>2
  <2>5. ASSUME NEW k \in 1 .. Len(released)
        PROVE  ready'[Len(ready) - 1 + k] = released[k]
    <3> DEFINE m == Len(ready) - 1 + k
    <3>1. m \in 1 .. Len(ready) - 1 + Len(released) /\ ~(m <= Len(ready) - 1)
      BY <1>1, <1>8
    <3>2. m - (Len(ready) - 1) = k
      BY <1>1
    <3> QED
      BY <2>2, <3>1, <3>2
  <2> QED
    BY <2>2, <2>3, <2>4, <2>5
<1> HIDE DEF i
\* What is ready then was ready, or has just been released.
<1>10. ASSUME NEW k \in DOMAIN ready'
       PROVE  \/ k <= Len(ready) - 1 /\ k + 1 \in DOMAIN ready /\ ready'[k] = ready[k + 1]
              \/ /\ k > Len(ready) - 1
                 /\ k - (Len(ready) - 1) \in DOMAIN released
                 /\ ready'[k] = released[k - (Len(ready) - 1)]
  <2>1. k \in Int
    BY <1>9
  <2>2. CASE k <= Len(ready) - 1
    <3>1. k \in 1 .. Len(ready) - 1
      BY <1>9, <2>2
    <3> QED
      BY <1>1, <1>9, <2>2, <3>1
  <2>3. CASE k > Len(ready) - 1
    <3> DEFINE m == k - (Len(ready) - 1)
    <3>1. m \in 1 .. Len(released)
      BY <1>1, <1>8, <1>9, <2>1, <2>3
    <3>2. Len(ready) - 1 + m = k
      BY <1>1, <2>1
    <3> QED
      BY <1>8, <1>9, <2>3, <3>1, <3>2
  <2> QED
    BY <1>1, <2>1, <2>2, <2>3
<1>11. \A k \in DOMAIN released : released[k] \in Released(i)
  BY <1>3
\* A released task was neither ordered nor ready.
<1>12. ASSUME NEW c \in Released(i)
       PROVE  /\ c \notin Ordered
              /\ c # i
              /\ \A k \in DOMAIN ready : ready[k] # c
  <2>1. i \in Before(c) /\ i \notin Ordered /\ c \in Indices
    BY <1>1 DEF Released, OrderInv, Listing
  <2>2. c # i
    BY <2>1 DEF Before, Precedes
  <2>3. \A k \in DOMAIN ready : ready[k] # c
    BY <2>1 DEF OrderInv, CalleesGone
  <2>4. c \notin Ordered
    <3>1. SUFFICES ASSUME c \in Ordered PROVE FALSE
      OBVIOUS
    <3>2. PICK k \in DOMAIN order : order[k] = c
      BY <3>1 DEF Ordered
    <3>3. CASE \A j \in Before(c) : \E m \in 1 .. k - 1 : order[m] = j
      <4>1. PICK m \in 1 .. k - 1 : order[m] = i
        BY <2>1, <3>3
      <4>2. m \in DOMAIN order
        BY <1>1, <3>2, <4>1
      <4> QED
        BY <2>1, <4>1, <4>2 DEF Ordered
    <3> QED
      BY <1>1, <2>1, <3>2, <3>3 DEF OrderInv, CalleesGone
  <2> QED
    BY <2>2, <2>3, <2>4
<1>13. PlanBase'
  BY <1>4, <1>5, <1>6, <1>9 DEF OrderInv, PlanBase, PlanTypeOK
<1>14. Listing'
  <2>1. \A k, l \in DOMAIN order' : order'[k] = order'[l] => k = l
    <3>1. \A k \in 1 .. Len(order) : order'[k] # i
      BY <1>1, <1>6 DEF OrderInv, Listing, Ordered
    <3> QED
      BY <1>1, <1>6, <3>1 DEF OrderInv, Listing
  <2>2. ASSUME NEW k \in DOMAIN ready', NEW l \in DOMAIN ready', ready'[k] = ready'[l]
        PROVE  k = l
    <3>1. k \in Int /\ l \in Int
      BY <1>9
    <3>2. \A m, n \in DOMAIN ready : ready[m] = ready[n] => m = n
      BY DEF OrderInv, Listing
    <3> QED
      BY <1>1, <1>3, <1>10, <1>11, <1>12, <2>2, <3>1, <3>2
  <2>3. ASSUME NEW k \in DOMAIN ready'
        PROVE  ready'[k] \notin Ordered'
    <3>1. CASE k <= Len(ready) - 1 /\ k + 1 \in DOMAIN ready /\ ready'[k] = ready[k + 1]
      <4>1. k \in Int /\ k + 1 # 1
        BY <1>9
      <4>2. ready[k + 1] # i
        BY <1>1, <3>1, <4>1 DEF OrderInv, Listing
      <4> QED
        BY <1>7, <3>1, <4>2 DEF OrderInv, Listing
    <3>2. CASE \E m \in DOMAIN released : ready'[k] = released[m]
      BY <1>7, <1>11, <1>12, <3>2
    <3> QED
      BY <1>10, <3>1, <3>2
  <2> QED
    BY <2>1, <2>2, <2>3 DEF Listing
<1>15. CalleesGone'
  <2>1. ASSUME NEW c \in Indices, NEW k \in DOMAIN ready', ready'[k] = c
        PROVE  Before(c) \subseteq Ordered \cup {i}
    BY <1>10, <1>11, <2>1 DEF OrderInv, CalleesGone, Released
  <2>2. ASSUME NEW c \in Indices, NEW k \in DOMAIN order', order'[k] = c
        PROVE  \A j \in Before(c) : \E m \in 1 .. k - 1 : order'[m] = j
    <3>1. CASE k = Len(order) + 1
      <4>1. Before(i) \subseteq Ordered
        BY <1>1 DEF OrderInv, CalleesGone
      <4> QED
        BY <1>1, <1>6, <2>2, <3>1, <4>1 DEF Ordered
    <3>2. CASE k \in 1 .. Len(order)
      <4>1. \A j \in Before(c) : \E m \in 1 .. k - 1 : order[m] = j
        BY <1>1, <1>6, <2>2, <3>2 DEF OrderInv, CalleesGone
      <4>2. \A m \in 1 .. k - 1 : order'[m] = order[m]
        BY <1>1, <1>6, <3>2
      <4> QED
        BY <4>1, <4>2
    <3> QED
      BY <1>1, <1>6, <3>1, <3>2
  <2> QED
    BY <1>5, <1>7, <2>1, <2>2 DEF CalleesGone
<1>16. OthersWait'
  <2>1. ASSUME NEW c \in Indices, c \notin Ordered', \A k \in DOMAIN ready' : ready'[k] # c
        PROVE  \E j \in Before(c) : j \notin Ordered'
    <3>1. c \notin Ordered /\ c # i
      BY <1>7, <2>1
    <3>2. \A k \in DOMAIN ready : ready[k] # c
      <4>1. SUFFICES ASSUME NEW k \in DOMAIN ready, ready[k] = c PROVE FALSE
        OBVIOUS
      <4>2. k \in 2 .. Len(ready)
        BY <1>1, <3>1, <4>1
      <4>3. k - 1 \in 1 .. Len(ready) - 1 /\ (k - 1) + 1 = k
        BY <1>1, <4>2
      <4>4. k - 1 \in DOMAIN ready' /\ ready'[k - 1] = ready[k]
        BY <1>1, <1>8, <1>9, <4>3
      <4> QED
        BY <2>1, <4>1, <4>4
    <3>3. PICK j \in Before(c) : j \notin Ordered
      BY <3>1, <3>2 DEF OrderInv, OthersWait
    <3>4. c \notin Released(i)
      <4>1. SUFFICES ASSUME c \in Released(i) PROVE FALSE
        OBVIOUS
      <4>2. PICK k \in DOMAIN released : released[k] = c
        BY <1>3, <4>1
      <4>3. Len(ready) - 1 + k \in DOMAIN ready' /\ ready'[Len(ready) - 1 + k] = c
        BY <1>1, <1>8, <1>9, <4>2
      <4> QED
        BY <2>1, <4>3
    <3> QED
      BY <1>7, <3>3, <3>4 DEF Released
  <2> QED
    BY <1>5, <2>1 DEF OthersWait
<1> QED
  BY <1>13, <1>14, <1>15, <1>16 DEF OrderInv

LEMMA AppendCyclesKeeps ==
    ASSUME OrderInv, AppendCycles
    PROVE  OrderInv'
<1>1. /\ Len(batch) \in Nat
      /\ order \in Seq(Indices) /\ ready = <<>> /\ DOMAIN ready = {}
      /\ DOMAIN order = 1 .. Len(order) /\ Len(order) \in Nat
      /\ UNCHANGED <<batch, calls, deep, ready, placed, wave>>
  BY BatchLength, EmptySeq, LenProperties DEF OrderInv, PlanBase, PlanTypeOK, AppendCycles
<1>2. PICK rest \in Listed(Leftover, Submission) : order' = order \o rest
  BY DEF AppendCycles
<1>3. /\ rest \in Seq(Leftover)
      /\ \A k, l \in DOMAIN rest : rest[k] = rest[l] => k = l
      /\ \A c \in Leftover : \E k \in DOMAIN rest : rest[k] = c
  <2>1. Leftover \subseteq Indices
    BY DEF Leftover
  <2> QED
    BY <1>1, <2>1, SubmissionPlaces, ListedOnce
<1>4. rest \in Seq(Indices) /\ Len(rest) \in Nat /\ DOMAIN rest = 1 .. Len(rest)
  <2>1. Leftover \subseteq Indices
    BY DEF Leftover
  <2> QED
    BY <1>3, <2>1, SeqMonotonic, LenProperties
<1>5. /\ Indices' = Indices
      /\ \A c : Before(c)' = Before(c)
      /\ \A c : Cyclic(c)' <=> Cyclic(c)
  BY <1>1, SameCalls
<1>6. /\ order' \in Seq(Indices)
      /\ DOMAIN order' = 1 .. Len(order) + Len(rest)
      /\ \A k \in 1 .. Len(order) + Len(rest) :
            order'[k] = IF k <= Len(order) THEN order[k] ELSE rest[k - Len(order)]
  <2>1. order' \in Seq(Indices) /\ Len(order') = Len(order) + Len(rest)
    BY <1>1, <1>2, <1>4, ConcatProperties
  <2> QED
    BY <1>1, <1>2, <1>4, <2>1, ConcatProperties, LenProperties
<1>7. ASSUME NEW k \in DOMAIN order'
      PROVE  \/ k \in DOMAIN order /\ order'[k] = order[k] /\ order[k] \in Ordered
             \/ /\ k > Len(order)
                /\ k - Len(order) \in DOMAIN rest
                /\ order'[k] = rest[k - Len(order)]
                /\ order'[k] \in Leftover
  <2>1. k \in Int
    BY <1>6
  <2>2. CASE k <= Len(order)
    BY <1>1, <1>6, <2>1, <2>2 DEF Ordered
  <2>3. CASE k > Len(order)
    <3>1. k - Len(order) \in 1 .. Len(rest)
      BY <1>1, <1>4, <1>6, <2>1, <2>3
    <3>2. order'[k] = rest[k - Len(order)]
      BY <1>1, <1>6, <2>1, <2>3
    <3> QED
      BY <1>3, <1>4, <2>3, <3>1, <3>2
  <2> QED
    BY <1>1, <2>1, <2>2, <2>3
\* All tasks left wait for one of them.
<1>8. \A c \in Leftover : Cyclic(c)
  <2>1. \A c \in Leftover : \E i \in Leftover : Precedes(i, c)
    BY <1>1 DEF OrderInv, OthersWait, Leftover, Before
  <2>2. Leftover \in SUBSET Indices
    BY DEF Leftover
  <2> QED
    BY <1>1, <2>1, <2>2, WaitingIsCyclic
<1>9. \A i \in Indices : i \in Ordered'
  <2>1. ASSUME NEW i \in Ordered
        PROVE  i \in Ordered'
    <3>1. PICK k \in 1 .. Len(order) : order[k] = i
      BY <1>1 DEF Ordered
    <3>2. k \in DOMAIN order' /\ order'[k] = i
      BY <1>1, <1>4, <1>6, <3>1
    <3> QED
      BY <3>2 DEF Ordered
  <2>2. ASSUME NEW i \in Leftover
        PROVE  i \in Ordered'
    <3>1. PICK k \in 1 .. Len(rest) : rest[k] = i
      BY <1>3, <1>4
    <3>2. /\ Len(order) + k \in 1 .. Len(order) + Len(rest)
          /\ ~(Len(order) + k <= Len(order))
          /\ (Len(order) + k) - Len(order) = k
      BY <1>1, <1>4
    <3>3. Len(order) + k \in DOMAIN order' /\ order'[Len(order) + k] = i
      BY <1>6, <3>1, <3>2
    <3> QED
      BY <3>3 DEF Ordered
  <2> QED
    BY <2>1, <2>2 DEF Leftover
<1>10. PlanBase'
  BY <1>1, <1>5, <1>6 DEF OrderInv, PlanBase, PlanTypeOK
<1>11. Listing'
  <2>1. ASSUME NEW k \in DOMAIN order', NEW l \in DOMAIN order', order'[k] = order'[l]
        PROVE  k = l
    <3>1. k \in Int /\ l \in Int
      BY <1>6
    <3>2. \A m, n \in DOMAIN order : order[m] = order[n] => m = n
      BY DEF OrderInv, Listing
    <3> QED
      BY <1>1, <1>3, <1>7, <2>1, <3>1, <3>2 DEF Leftover
  <2> QED
    BY <1>1, <2>1 DEF Listing
<1>12. CalleesGone'
  <2>1. ASSUME NEW c \in Indices, NEW k \in DOMAIN order', order'[k] = c
        PROVE  \/ \A i \in Before(c) : \E m \in 1 .. k - 1 : order'[m] = i
               \/ Cyclic(c)
    <3>1. CASE c \in Leftover
      BY <1>8, <3>1
    <3>2. CASE k \in DOMAIN order /\ order[k] = c
      <4>1. \A m \in 1 .. k - 1 : order'[m] = order[m]
        BY <1>1, <1>4, <1>6, <3>2
      <4> QED
        BY <3>2, <4>1 DEF OrderInv, CalleesGone
    <3> QED
      BY <1>7, <2>1, <3>1, <3>2
  <2> QED
    BY <1>1, <1>5, <2>1 DEF CalleesGone
<1>13. OthersWait'
  BY <1>5, <1>9 DEF OthersWait
<1> QED
  BY <1>10, <1>11, <1>12, <1>13 DEF OrderInv

\* The tasks are as many as the places of the order, once all are in it.
LEMMA OrderIsWhole ==
    ASSUME OrderInv, Ordered = Indices
    PROVE  Len(order) = Len(batch)
<1>1. /\ Len(batch) \in Nat /\ Len(order) \in Nat
      /\ order \in Seq(Indices) /\ DOMAIN order = 1 .. Len(order)
  BY BatchLength, LenProperties DEF OrderInv, PlanBase, PlanTypeOK
<1>2. /\ IsFiniteSet(Indices) /\ Cardinality(Indices) = Len(batch)
      /\ IsFiniteSet(1 .. Len(order)) /\ Cardinality(1 .. Len(order)) = Len(order)
  <2>1. \A n \in Nat : IsFiniteSet(1 .. n) /\ Cardinality(1 .. n) = n
    <3> SUFFICES ASSUME NEW n \in Nat
                 PROVE  IsFiniteSet(1 .. n) /\ Cardinality(1 .. n) = n
      OBVIOUS
    <3>1. IsFiniteSet(1 .. n) /\ Cardinality(1 .. n) = IF 1 > n THEN 0 ELSE n - 1 + 1
      BY FS_Interval
    <3> QED
      BY <3>1
  <2> QED
    BY <1>1, <2>1 DEF Indices
<1>3. order \in [1 .. Len(order) -> Indices]
  BY <1>1, LenProperties
<1>4. order \in Injection(1 .. Len(order), Indices)
  BY <1>1, <1>3 DEF OrderInv, Listing, Injection, IsInjective
<1>5. order \in Surjection(1 .. Len(order), Indices)
  BY <1>1, <1>3 DEF Ordered, Surjection
<1> QED
  BY <1>2, <1>4, <1>5, FS_Injection

LEMMA PlaceKeeps ==
    ASSUME PlanInv, Place
    PROVE  PlanInv'
<1> DEFINE i == order[placed + 1]
<1>1. /\ ready = <<>> /\ Ordered = Indices /\ placed < Len(batch)
      /\ UNCHANGED <<batch, calls, deep, ready, order>>
      /\ placed' = placed + 1
  BY DEF Place
<1>2. /\ Len(batch) \in Nat /\ placed \in Nat
      /\ Len(order) = Len(batch)
      /\ DOMAIN order = 1 .. Len(order)
      /\ order \in Seq(Indices)
      /\ wave \in [Indices -> 0 .. Len(batch)]
  BY <1>1, BatchLength, OrderIsWhole, LenProperties DEF PlanInv, OrderInv, PlanBase, PlanTypeOK
<1>3. placed + 1 \in DOMAIN order /\ i \in Indices
  BY <1>1, <1>2
<1>4. PICK k \in 1 .. Len(batch) :
          /\ Fits(i, k)
          /\ \A l \in Fitting(i) : k <= l
          /\ wave' = [wave EXCEPT ![i] = k]
  BY DEF Place, Fitting
<1>5. wave[i] = 0
  <2>1. \A m \in 1 .. placed : m \in DOMAIN order /\ m # placed + 1
    BY <1>2, <1>3
  <2>2. ~ \E m \in 1 .. placed : order[m] = i
    BY <1>3, <2>1 DEF PlanInv, OrderInv, Listing
  <2> QED
    BY <1>3, <2>2 DEF PlanInv, PlacedSoFar
<1>6. /\ Indices' = Indices /\ Ordered' = Ordered
      /\ \A c : Before(c)' = Before(c)
      /\ \A c : Cyclic(c)' <=> Cyclic(c)
      /\ \A s, t : Conflicts(s, t)' <=> Conflicts(s, t)
  BY <1>1, SameCalls, ConflictsFixed DEF Ordered
<1> HIDE DEF i
<1>7. OrderInv'
  <2>1. PlanBase'
    BY <1>1, <1>2, <1>3, <1>4, <1>6 DEF PlanInv, OrderInv, PlanBase, PlanTypeOK
  <2> QED
    BY <1>1, <1>6, <2>1 DEF PlanInv, OrderInv, Listing, CalleesGone, OthersWait
<1>8. PlacedSoFar'
  <2>1. ASSUME NEW j \in Indices
        PROVE  wave'[j] # 0 <=> \E m \in 1 .. placed + 1 : order[m] = j
    <3>1. \A m : m \in 1 .. placed + 1 <=> m \in 1 .. placed \/ m = placed + 1
      BY <1>2
    <3>2. CASE j = i
      BY <1>2, <1>3, <1>4, <3>1, <3>2 DEF i
    <3>3. CASE j # i
      <4>1. wave'[j] = wave[j]
        BY <1>2, <1>4, <3>3
      <4>2. wave[j] # 0 <=> \E m \in 1 .. placed : order[m] = j
        BY DEF PlanInv, PlacedSoFar
      <4> QED
        BY <3>1, <3>3, <4>1, <4>2 DEF i
    <3> QED
      BY <3>2, <3>3
  <2> QED
    BY <1>1, <1>2, <1>6, <2>1 DEF PlacedSoFar
<1>9. HeldBackForCause'
  <2>1. ASSUME NEW j \in Indices, NEW l \in 1 .. wave'[j] - 1
        PROVE  \E h \in Indices : wave'[h] = l /\ Conflicts(batch[j], batch[h])
    <3>1. l \in Nat \ {0}
      BY <1>2, <1>3, <1>4
    <3>2. PICK h \in Indices : wave[h] = l /\ Conflicts(batch[j], batch[h])
      <4>1. CASE j = i
        <5>1. l < k /\ l \in 1 .. Len(batch)
          BY <1>2, <1>3, <1>4, <2>1, <4>1
        <5>2. l \notin Fitting(i)
          BY <1>4, <5>1
        <5> QED
          BY <4>1, <5>1, <5>2 DEF Fitting, Fits, InWave
      <4>2. CASE j # i
        <5>1. wave'[j] = wave[j]
          BY <1>2, <1>4, <4>2
        <5> QED
          BY <2>1, <5>1 DEF PlanInv, HeldBackForCause, InWave
      <4> QED
        BY <4>1, <4>2
    <3>3. wave'[h] = wave[h]
      BY <1>2, <1>4, <1>5, <3>1, <3>2
    <3> QED
      BY <3>2, <3>3
  <2> QED
    BY <1>1, <1>6, <2>1 DEF HeldBackForCause, InWave
<1> QED
  BY <1>7, <1>8, <1>9 DEF PlanInv

\* The plan stays sound while it is built, and keeps.
LEMMA PlanInvKept == PlanInv /\ [PlanNext]_planVars => PlanInv'
<1> SUFFICES ASSUME PlanInv, [PlanNext]_planVars
             PROVE  PlanInv'
  OBVIOUS
<1>1. ASSUME UNCHANGED <<batch, calls, deep, placed, wave>>, OrderInv',
             placed > 0 => UNCHANGED planVars
      PROVE  PlanInv'
  <2>1. /\ Indices' = Indices
        /\ \A s, t : Conflicts(s, t)' <=> Conflicts(s, t)
    BY <1>1, SameCalls, ConflictsFixed
  <2>2. HeldBackForCause'
    BY <1>1, <2>1 DEF PlanInv, HeldBackForCause, InWave
  <2>3. CASE placed > 0
    BY <1>1, <2>1, <2>2, <2>3 DEF PlanInv, PlacedSoFar, planVars, Ordered
  <2>4. CASE placed = 0
    <3>1. Len(order') \in Nat
      BY <1>1, LenProperties DEF OrderInv, PlanBase, PlanTypeOK
    <3>2. \A i \in Indices : wave[i] = 0
      BY <2>4 DEF PlanInv, PlacedSoFar
    <3>3. placed' = 0 /\ Indices' = Indices /\ wave' = wave
      BY <1>1, <2>1, <2>4
    <3>4. PlacedSoFar'
      <4>1. \A i \in Indices' : wave'[i] # 0 <=> \E k \in 1 .. placed' : order'[k] = i
        BY <3>2, <3>3
      <4>2. placed' <= Len(order') /\ ~(placed' > 0)
        BY <3>1, <3>3
      <4> QED
        BY <4>1, <4>2 DEF PlacedSoFar
    <3> QED
      BY <1>1, <2>2, <3>4 DEF PlanInv
  <2>5. placed \in Nat
    BY BatchLength DEF PlanInv, OrderInv, PlanBase, PlanTypeOK
  <2> QED
    BY <2>3, <2>4, <2>5
<1>2. CASE TakeReady
  <2>1. placed = 0
    BY <1>2, BatchLength DEF PlanInv, PlacedSoFar, TakeReady, OrderInv, PlanBase, PlanTypeOK
  <2>2. OrderInv'
    BY <1>2, TakeReadyKeeps DEF PlanInv
  <2>3. UNCHANGED <<batch, calls, deep, placed, wave>>
    BY <1>2 DEF TakeReady
  <2> QED
    BY <1>1, <2>1, <2>2, <2>3
<1>3. CASE AppendCycles
  <2>1. placed = 0
    BY <1>3, BatchLength DEF PlanInv, PlacedSoFar, AppendCycles, OrderInv, PlanBase, PlanTypeOK
  <2>2. OrderInv'
    BY <1>3, AppendCyclesKeeps DEF PlanInv
  <2>3. UNCHANGED <<batch, calls, deep, placed, wave>>
    BY <1>3 DEF AppendCycles
  <2> QED
    BY <1>1, <2>1, <2>2, <2>3
<1>4. CASE UNCHANGED planVars
  <2>1. /\ Indices' = Indices /\ Ordered' = Ordered
        /\ \A c : Before(c)' = Before(c)
        /\ \A c : Cyclic(c)' <=> Cyclic(c)
    BY <1>4, SameCalls DEF planVars, Ordered
  <2>2. OrderInv'
    BY <1>4, <2>1
    DEF PlanInv, OrderInv, PlanBase, PlanTypeOK, Listing, CalleesGone, OthersWait, planVars
  <2> QED
    BY <1>1, <1>4, <2>2 DEF planVars
<1> QED
  BY <1>2, <1>3, <1>4, PlaceKeeps DEF PlanNext

LEMMA PlanInvInitially == PlanInit => PlanInv
<1> SUFFICES ASSUME PlanInit
             PROVE  PlanInv
  OBVIOUS
<1>1. OrderInv
  BY OrderInitially
<1>2. placed = 0 /\ order = <<>> /\ \A i \in Indices : wave[i] = 0
  BY DEF PlanInit
<1>3. PlacedSoFar
  BY <1>2 DEF PlacedSoFar
<1>4. HeldBackForCause
  BY <1>2 DEF HeldBackForCause
<1> QED
  BY <1>1, <1>3, <1>4 DEF PlanInv

LEMMA PlansAreSound == PlanInv => PlanSound
<1> SUFFICES ASSUME PlanInv
             PROVE  PlanSound
  OBVIOUS
<1>1. /\ order \in Seq(Indices) /\ DOMAIN order = 1 .. Len(order) /\ Len(order) \in Nat
      /\ \A k, l \in DOMAIN order : order[k] = order[l] => k = l
  BY LenProperties DEF PlanInv, OrderInv, PlanBase, PlanTypeOK, Listing
<1>2. ASSUME Planned, NEW i \in Indices
      PROVE  wave[i] # 0
  <2>1. PICK k \in 1 .. Len(order) : order[k] = i
    BY <1>1, <1>2 DEF Planned, Ordered
  <2>2. placed = Len(order)
    BY <1>2, OrderIsWhole DEF PlanInv, Planned
  <2> QED
    BY <2>1, <2>2 DEF PlanInv, PlacedSoFar
<1>3. ASSUME NEW k \in DOMAIN order, NEW l \in DOMAIN order, k < l, Precedes(order[l], order[k])
      PROVE  Cyclic(order[k])
  <2>1. /\ order[k] \in Indices /\ order[l] \in Before(order[k])
        /\ k \in Int /\ l \in Int
    BY <1>1, <1>3 DEF Before
  <2>2. ~ \E m \in 1 .. k - 1 : order[m] = order[l]
    <3> SUFFICES ASSUME NEW m \in 1 .. k - 1, order[m] = order[l]
                 PROVE  FALSE
      OBVIOUS
    <3>1. m \in DOMAIN order /\ m < l
      BY <1>1, <1>3, <2>1
    <3> QED
      BY <1>1, <2>1, <3>1
  <2> QED
    BY <2>1, <2>2 DEF PlanInv, OrderInv, CalleesGone
<1>4. CalleesFirst
  BY <1>3 DEF CalleesFirst, Cyclic
<1>5. EveryTaskPlanned
  BY <1>1, <1>2 DEF EveryTaskPlanned
<1> QED
  BY <1>4, <1>5 DEF PlanSound, PlanInv

\* For any batch and any calls, cyclic ones too: the plan orders each task once
\* and gives each a wave, callees go before their callers as far as cycles of
\* calls let them, and no task waits for a wave it need not (callee_first_order
\* and plan_waves).
THEOREM PlansHold == Spec => []PlanSound
<1>1. Init => PlanInv
  BY PlanInvInitially DEF Init
<1>2. PlanInv /\ [Next]_vars => PlanInv'
  BY PlanInvKept, PlanAlone
<1> QED
  BY <1>1, <1>2, PlansAreSound, PTL DEF Spec

-----------------------------------------------------------------------------
(* The state of a batch *)

Holding == {"bundle", "session", "exited", "failing", "settle"}
Working == {"create"} \cup Holding

Footprint(job) ==
    Writes(TaskOf(job)) \cup Reads(TaskOf(job), TRUE) \cup Reads(TaskOf(job), FALSE)

Symbols == SharedSymbols \cup Voluntary \cup UNION {Footprint(job) : job \in Jobs}

AttemptRecord == [state : AttemptStates, reads : SUBSET Symbols, moved : SUBSET Symbols,
                  sent : SUBSET Symbols, landed : BOOLEAN, shifted : SUBSET Symbols]

SlotRecord == [pc : SlotStates, job : Jobs \cup {None}, claimed : SUBSET Operations,
               status : {None, "Completed", "Failed", "Cancelled"}, noticed : BOOLEAN]

SchedulerTypes ==
    /\ batch \in Batches
    /\ deep \in BOOLEAN
    /\ current \in Nat
    /\ queue \in Seq(Jobs)
    /\ slot \in [Slots -> SlotRecord]
    /\ attempts \in [Jobs -> Seq(AttemptRecord)]
    /\ \A job \in Jobs : Len(attempts[job]) <= MaxAttempts
    /\ judging \in AttemptIds \cup {None}
    /\ writers \subseteq Operations
    /\ discovered \subseteq Operations
    /\ results \in [Indices -> AttemptStates \cup {None}]
    /\ broken \in BOOLEAN
    /\ \A s \in Slots :
          /\ slot[s].pc \in Working => slot[s].job \in Jobs
          /\ slot[s].pc = "create" => Len(attempts[slot[s].job]) < MaxAttempts
          /\ slot[s].pc \in Holding => Len(attempts[slot[s].job]) > 0

\* Only plans change the plan, and none of its steps the batch.
LEMMA SameBatch ==
    ASSUME [Next]_vars
    PROVE  /\ UNCHANGED <<batch, calls, deep>>
           /\ Indices' = Indices /\ Jobs' = Jobs
           /\ \A job : TaskOf(job)' = TaskOf(job)
           /\ Symbols' = Symbols /\ AttemptRecord' = AttemptRecord /\ SlotRecord' = SlotRecord
<1>1. UNCHANGED <<batch, calls, deep>>
  BY PlanAlone DEF PlanNext, TakeReady, AppendCycles, Place, planVars
<1>2. Indices' = Indices /\ Jobs' = Jobs
  BY <1>1 DEF Indices, Jobs
<1>3. \A job : TaskOf(job)' = TaskOf(job)
  BY <1>1 DEF TaskOf, Discovery
<1>4. \A job : Footprint(job)' = Footprint(job)
  BY <1>1 DEF Footprint, Writes, Reads, Focus, TaskOf, Discovery
<1>5. Symbols' = Symbols
  BY <1>2, <1>4 DEF Symbols
<1> QED
  BY <1>1, <1>2, <1>3, <1>5 DEF AttemptRecord, SlotRecord

\* Attempt a becomes r, and the rest stay.
Becomes(a, r) ==
    /\ attempts' \in [Jobs -> Seq(AttemptRecord)]
    /\ \A job \in Jobs : Len(attempts'[job]) = Len(attempts[job])
    /\ attempts'[a[1]][a[2]] = r
    /\ \A job \in Jobs : \A n \in 1 .. Len(attempts[job]) :
          <<job, n>> # a => attempts'[job][n] = attempts[job][n]

LEMMA OneAttempt ==
    ASSUME attempts \in [Jobs -> Seq(AttemptRecord)],
           NEW job \in Jobs, NEW n \in 1 .. Len(attempts[job]), NEW r \in AttemptRecord,
           attempts' = [attempts EXCEPT ![job][n] = r]
    PROVE  Becomes(<<job, n>>, r)
<1>1. /\ [attempts[job] EXCEPT ![n] = r] \in Seq(AttemptRecord)
      /\ Len([attempts[job] EXCEPT ![n] = r]) = Len(attempts[job])
      /\ \A m \in 1 .. Len(attempts[job]) :
            [attempts[job] EXCEPT ![n] = r][m] = IF m = n THEN r ELSE attempts[job][m]
  BY ExceptSeq
<1>2. attempts' = [attempts EXCEPT ![job] = [attempts[job] EXCEPT ![n] = r]]
  OBVIOUS
<1> HIDE DEF AttemptRecord
<1> QED
  BY <1>1, <1>2 DEF Becomes

LEMMA AttemptsTyped ==
    ASSUME SchedulerTypes
    PROVE  /\ \A job \in Jobs : /\ Len(attempts[job]) \in Nat
                                /\ DOMAIN attempts[job] = 1 .. Len(attempts[job])
           /\ \A job \in Jobs : \A n \in 1 .. Len(attempts[job]) :
                 <<job, n>> \in AttemptIds /\ attempts[job][n] \in AttemptRecord
           /\ \A a \in AttemptIds :
                 /\ a = <<a[1], a[2]>> /\ a # None
                 /\ a[1] \in Jobs /\ a[2] \in 1 .. Len(attempts[a[1]])
                 /\ Attempt(a) \in AttemptRecord
           /\ \A s \in Slots : slot[s].pc \in Holding =>
                 /\ Mine(s) \in AttemptIds
                 /\ slot[s].job \in Jobs
                 /\ Mine(s)[1] = slot[s].job /\ Mine(s)[2] = Len(attempts[slot[s].job])
<1>1. \A job \in Jobs : attempts[job] \in Seq(AttemptRecord)
  BY DEF SchedulerTypes
<1>2. \A job \in Jobs : /\ Len(attempts[job]) \in Nat
                        /\ DOMAIN attempts[job] = 1 .. Len(attempts[job])
                        /\ \A n \in 1 .. Len(attempts[job]) : attempts[job][n] \in AttemptRecord
  BY <1>1, LenProperties, ElementOfSeq
<1>3. MaxAttempts \in Nat /\ \A job \in Jobs : Len(attempts[job]) <= MaxAttempts
  BY SchedulerConstants DEF SchedulerTypes
<1>4. \A job \in Jobs : \A n \in 1 .. Len(attempts[job]) : <<job, n>> \in AttemptIds
  BY <1>2, <1>3 DEF AttemptIds
<1>5. ASSUME NEW a \in AttemptIds
      PROVE  /\ a = <<a[1], a[2]>> /\ a # None
             /\ a[1] \in Jobs /\ a[2] \in 1 .. Len(attempts[a[1]])
             /\ Attempt(a) \in AttemptRecord
  <2>1. a = <<a[1], a[2]>> /\ a[1] \in Jobs /\ a[2] \in 1 .. Len(attempts[a[1]])
    BY <1>2 DEF AttemptIds
  <2>2. a \in ({"primary", "followUp"} \X Nat) \X Nat
    BY <2>1, BatchLength DEF Jobs, SchedulerTypes
  <2> QED
    BY <1>2, <2>1, <2>2, SchedulerConstants DEF Attempt
<1>6. ASSUME NEW s \in Slots, slot[s].pc \in Holding
      PROVE  /\ Mine(s) \in AttemptIds
             /\ slot[s].job \in Jobs
             /\ Mine(s)[1] = slot[s].job /\ Mine(s)[2] = Len(attempts[slot[s].job])
  <2>1. slot[s].job \in Jobs /\ Len(attempts[slot[s].job]) > 0
    BY <1>6 DEF SchedulerTypes, Working
  <2>2. Len(attempts[slot[s].job]) \in 1 .. Len(attempts[slot[s].job])
    BY <1>2, <2>1
  <2> QED
    BY <1>4, <2>1, <2>2 DEF Mine
<1> QED
  BY <1>2, <1>4, <1>5, <1>6

LEMMA JobSymbols ==
    ASSUME NEW job \in Jobs, NEW deeply \in BOOLEAN
    PROVE  /\ Writes(TaskOf(job)) \subseteq Symbols
           /\ Reads(TaskOf(job), deeply) \subseteq Symbols
           /\ Voluntary \subseteq Symbols /\ SharedSymbols \subseteq Symbols
<1>1. Footprint(job) \subseteq Symbols
  BY DEF Symbols
<1>2. deeply = TRUE \/ deeply = FALSE
  OBVIOUS
<1> QED
  BY <1>1, <1>2 DEF Footprint, Symbols

-----------------------------------------------------------------------------
(* What each step does to the attempts *)

\* The attempt of slot s.
LEMMA MineBecomes ==
    ASSUME SchedulerTypes, NEW s \in Slots, slot[s].pc \in Holding,
           NEW r \in AttemptRecord,
           attempts' = [attempts EXCEPT ![slot[s].job][Len(attempts[slot[s].job])] = r]
    PROVE  Becomes(Mine(s), r)
<1>1. /\ slot[s].job \in Jobs
      /\ Len(attempts[slot[s].job]) \in 1 .. Len(attempts[slot[s].job])
      /\ attempts \in [Jobs -> Seq(AttemptRecord)]
  BY AttemptsTyped DEF SchedulerTypes, Mine
<1> QED
  BY <1>1, OneAttempt DEF Mine

LEMMA ContextBundleDoes ==
    ASSUME SchedulerTypes, NEW s \in Slots, ContextBundle(s)
    PROVE  \E reads \in SUBSET Symbols :
              Becomes(Mine(s), [Attempt(Mine(s)) EXCEPT !.reads = reads])
<1>1. slot[s].pc \in Holding /\ Mine(s) \in AttemptIds /\ slot[s].job \in Jobs
  BY AttemptsTyped DEF ContextBundle, Holding
<1>2. PICK deeply \in BOOLEAN, references \in SUBSET Voluntary :
          SetAttempt(Mine(s), "reads", Reads(TaskOf(slot[s].job), deeply) \cup references)
  BY DEF ContextBundle
<1>3. Reads(TaskOf(slot[s].job), deeply) \cup references \in SUBSET Symbols
  <2>1. PICK job \in Jobs : job = slot[s].job
    BY <1>1
  <2>2. Reads(TaskOf(job), deeply) \cup references \in SUBSET Symbols
    BY JobSymbols
  <2> QED
    BY <2>1, <2>2
<1> DEFINE reads == Reads(TaskOf(slot[s].job), deeply) \cup references
           r == [Attempt(Mine(s)) EXCEPT !.reads = reads]
<1>4. attempts' = [attempts EXCEPT ![slot[s].job][Len(attempts[slot[s].job])] = r]
  BY <1>2 DEF SetAttempt, Attempt, Mine
<1>5. r \in AttemptRecord
  BY <1>1, <1>3, AttemptsTyped DEF AttemptRecord
<1> QED
  BY <1>1, <1>3, <1>4, <1>5, MineBecomes

LEMMA ReadMoreDoes ==
    ASSUME SchedulerTypes, NEW s \in Slots, ReadMore(s)
    PROVE  \E reads \in SUBSET Symbols :
              Becomes(Mine(s), [Attempt(Mine(s)) EXCEPT !.reads = reads])
<1>1. slot[s].pc \in Holding /\ Mine(s) \in AttemptIds /\ slot[s].job \in Jobs
  BY AttemptsTyped DEF ReadMore, Holding
<1>2. PICK symbol \in Voluntary :
          SetAttempt(Mine(s), "reads", Attempt(Mine(s)).reads \cup {symbol})
  BY DEF ReadMore
<1> DEFINE reads == Attempt(Mine(s)).reads \cup {symbol}
           r == [Attempt(Mine(s)) EXCEPT !.reads = reads]
<1>3. reads \in SUBSET Symbols
  BY <1>1, AttemptsTyped DEF AttemptRecord, Symbols
<1>4. attempts' = [attempts EXCEPT ![slot[s].job][Len(attempts[slot[s].job])] = r]
  BY <1>2 DEF SetAttempt, Attempt, Mine
<1>5. r \in AttemptRecord
  BY <1>1, <1>3, AttemptsTyped DEF AttemptRecord
<1> QED
  BY <1>1, <1>3, <1>4, <1>5, MineBecomes

\* What attempt a may send.
MaySend(a) == IF Global(TaskOf(a[1])) THEN SharedSymbols ELSE Writes(TaskOf(a[1]))

LEMMA SubmitPatchDoes ==
    ASSUME SchedulerTypes, NEW s \in Slots, SubmitPatch(s)
    PROVE  /\ slot[s].pc = "session" /\ Attempt(Mine(s)).state = "Running"
           /\ \E sent \in SUBSET (Symbols \cap MaySend(Mine(s))) :
                  Becomes(Mine(s), [Attempt(Mine(s)) EXCEPT !.sent = sent])
<1>1. slot[s].pc \in Holding /\ Mine(s) \in AttemptIds /\ slot[s].job \in Jobs
  BY AttemptsTyped DEF SubmitPatch, Holding
<1>2. PICK patch \in Patches(TaskOf(slot[s].job)) : SetAttempt(Mine(s), "sent", patch)
  BY DEF SubmitPatch
<1>3. patch \in SUBSET (Symbols \cap MaySend(Mine(s)))
  <2>1. PICK job \in Jobs : job = slot[s].job
    BY <1>1
  <2>2. /\ Writes(TaskOf(job)) \subseteq Symbols
        /\ SharedSymbols \subseteq Symbols
    BY JobSymbols
  <2> QED
    BY <1>2, <2>1, <2>2 DEF Patches, MaySend, Mine
<1> DEFINE r == [Attempt(Mine(s)) EXCEPT !.sent = patch]
<1>4. attempts' = [attempts EXCEPT ![slot[s].job][Len(attempts[slot[s].job])] = r]
  BY <1>2 DEF SetAttempt, Attempt, Mine
<1>5. r \in AttemptRecord
  BY <1>1, <1>3, AttemptsTyped DEF AttemptRecord
<1>6. Becomes(Mine(s), r)
  BY <1>1, <1>4, <1>5, MineBecomes
<1> QED
  BY <1>3, <1>6 DEF SubmitPatch

LEMMA TakePatchDoes ==
    ASSUME SchedulerTypes, NEW a \in AttemptIds, TakePatch(a)
    PROVE  /\ judging = None /\ Attempt(a).sent # {}
           /\ \/ /\ Attempt(a).state = "Running"
                 /\ judging' = a
                 /\ Becomes(a, [Attempt(a) EXCEPT !.state = "Committing"])
              \/ /\ Attempt(a).state # "Running"
                 /\ judging' = judging
                 /\ Becomes(a, [Attempt(a) EXCEPT !.sent = {}])
<1>1. /\ a = <<a[1], a[2]>> /\ a[1] \in Jobs /\ a[2] \in 1 .. Len(attempts[a[1]])
      /\ Attempt(a) \in AttemptRecord
      /\ attempts \in [Jobs -> Seq(AttemptRecord)]
  BY AttemptsTyped DEF SchedulerTypes
<1>2. CASE Attempt(a).state = "Running"
  <2> DEFINE r == [Attempt(a) EXCEPT !.state = "Committing"]
  <2>1. r \in AttemptRecord
    BY <1>1 DEF AttemptRecord, AttemptStates, Active
  <2>2. attempts' = [attempts EXCEPT ![a[1]][a[2]] = r] /\ judging' = a
    BY <1>2 DEF TakePatch, SetAttempt, Attempt
  <2>3. Becomes(<<a[1], a[2]>>, r)
    BY <1>1, <2>1, <2>2, OneAttempt
  <2> QED
    BY <1>1, <1>2, <2>2, <2>3 DEF TakePatch
<1>3. CASE Attempt(a).state # "Running"
  <2> DEFINE r == [Attempt(a) EXCEPT !.sent = {}]
  <2>1. r \in AttemptRecord
    BY <1>1 DEF AttemptRecord
  <2>2. attempts' = [attempts EXCEPT ![a[1]][a[2]] = r] /\ judging' = judging
    BY <1>3 DEF TakePatch, SetAttempt, Attempt
  <2>3. Becomes(<<a[1], a[2]>>, r)
    BY <1>1, <2>1, <2>2, OneAttempt
  <2> QED
    BY <1>1, <1>3, <2>2, <2>3 DEF TakePatch
<1> QED
  BY <1>2, <1>3

\* The sequencer turns the patch it judges down.
LEMMA RefusalDoes ==
    ASSUME SchedulerTypes, RefuseStale \/ RefuseFixable
    PROVE  /\ judging \in AttemptIds /\ judging' = None
           /\ \/ RefuseStale /\ Becomes(judging, Ended(Attempt(judging), "Invalidated"))
              \/ RefuseFixable
                 /\ Becomes(judging, [Attempt(judging) EXCEPT !.state = "Running", !.sent = {}])
<1>1. judging \in AttemptIds /\ judging' = None
  BY DEF SchedulerTypes, RefuseStale, RefuseFixable
<1>2. PICK a \in AttemptIds : a = judging
  BY <1>1
<1>3. /\ a = <<a[1], a[2]>> /\ a[1] \in Jobs /\ a[2] \in 1 .. Len(attempts[a[1]])
      /\ Attempt(a) \in AttemptRecord
      /\ attempts \in [Jobs -> Seq(AttemptRecord)]
  BY AttemptsTyped DEF SchedulerTypes
<1>4. CASE RefuseStale
  <2> DEFINE r == Ended(Attempt(a), "Invalidated")
  <2>1. r \in AttemptRecord
    BY <1>3 DEF AttemptRecord, AttemptStates, Ended
  <2>2. attempts' = [attempts EXCEPT ![a[1]][a[2]] = r]
    BY <1>2, <1>4 DEF RefuseStale, Attempt, Ended
  <2>3. Becomes(<<a[1], a[2]>>, r)
    BY <1>3, <2>1, <2>2, OneAttempt
  <2> QED
    BY <1>1, <1>2, <1>3, <1>4, <2>3
<1>5. CASE RefuseFixable
  <2> DEFINE r == [Attempt(a) EXCEPT !.state = "Running", !.sent = {}]
  <2>1. r \in AttemptRecord
    BY <1>3 DEF AttemptRecord, AttemptStates, Active
  <2>2. attempts' = [attempts EXCEPT ![a[1]][a[2]] = r]
    BY <1>2, <1>5 DEF RefuseFixable, Attempt
  <2>3. Becomes(<<a[1], a[2]>>, r)
    BY <1>3, <2>1, <2>2, OneAttempt
  <2> QED
    BY <1>1, <1>2, <1>3, <1>5, <2>3
<1> QED
  BY <1>4, <1>5

LEMMA FailTaskDoes ==
    ASSUME SchedulerTypes, NEW s \in Slots, FailTask(s)
    PROVE  \/ UNCHANGED attempts
           \/ Becomes(Mine(s), Left([Attempt(Mine(s)) EXCEPT !.state = "Failed"]))
<1>1. slot[s].pc \in Holding /\ Attempt(Mine(s)) \in AttemptRecord
  BY AttemptsTyped DEF FailTask, Holding
<1> DEFINE r == Left([Attempt(Mine(s)) EXCEPT !.state = "Failed"])
<1>2. r \in AttemptRecord
  BY <1>1 DEF AttemptRecord, AttemptStates, Left, Ended
<1>3. \/ UNCHANGED attempts
      \/ attempts' = [attempts EXCEPT ![slot[s].job][Len(attempts[slot[s].job])] = r]
  BY DEF FailTask, Attempt, Mine
<1> HIDE DEF r
<1>4. \/ UNCHANGED attempts
      \/ Becomes(Mine(s), r)
  BY <1>1, <1>2, <1>3, MineBecomes
<1> QED
  BY <1>4 DEF r

LEMMA FinishJobDoes ==
    ASSUME SchedulerTypes, NEW s \in Slots, FinishJob(s)
    PROVE  Becomes(Mine(s), Left(Attempt(Mine(s))))
<1>1. slot[s].pc \in Holding /\ Attempt(Mine(s)) \in AttemptRecord
  BY AttemptsTyped DEF FinishJob, Holding
<1> DEFINE r == Left(Attempt(Mine(s)))
<1>2. r \in AttemptRecord
  BY <1>1 DEF AttemptRecord, AttemptStates, Left, Ended
<1>3. attempts' = [attempts EXCEPT ![slot[s].job][Len(attempts[slot[s].job])] = r]
  BY DEF FinishJob, Attempt, Mine
<1> HIDE DEF r
<1>4. Becomes(Mine(s), r)
  BY <1>1, <1>2, <1>3, MineBecomes
<1> QED
  BY <1>4 DEF r

LEMMA CreateTaskDoes ==
    ASSUME SchedulerTypes, NEW s \in Slots, CreateTask(s)
    PROVE  LET job == slot[s].job IN
           /\ job \in Jobs
           /\ attempts' \in [Jobs -> Seq(AttemptRecord)]
           /\ \A j \in Jobs : j # job => attempts'[j] = attempts[j]
           /\ Len(attempts'[job]) = Len(attempts[job]) + 1
           /\ attempts'[job][Len(attempts[job]) + 1] = Fresh
           /\ \A n \in 1 .. Len(attempts[job]) : attempts'[job][n] = attempts[job][n]
<1> DEFINE job == slot[s].job
<1>1. job \in Jobs /\ attempts \in [Jobs -> Seq(AttemptRecord)]
  BY DEF SchedulerTypes, CreateTask, Working
<1>2. Fresh \in AttemptRecord
  BY DEF Fresh, AttemptRecord, AttemptStates, Active
<1>3. attempts' = [attempts EXCEPT ![job] = Append(attempts[job], Fresh)]
  BY DEF CreateTask
<1>4. /\ Append(attempts[job], Fresh) \in Seq(AttemptRecord)
      /\ Len(Append(attempts[job], Fresh)) = Len(attempts[job]) + 1
      /\ Append(attempts[job], Fresh)[Len(attempts[job]) + 1] = Fresh
      /\ \A n \in 1 .. Len(attempts[job]) : Append(attempts[job], Fresh)[n] = attempts[job][n]
  <2>1. attempts[job] \in Seq(AttemptRecord)
    BY <1>1
  <2> QED
    BY <1>2, <2>1, AppendProperties
<1> HIDE DEF job, AttemptRecord
<1>5. /\ job \in Jobs
      /\ attempts' \in [Jobs -> Seq(AttemptRecord)]
      /\ \A j \in Jobs : j # job => attempts'[j] = attempts[j]
      /\ attempts'[job] = Append(attempts[job], Fresh)
  BY <1>1, <1>3, <1>4
<1> QED
  BY <1>4, <1>5 DEF job

\* A commit ends its attempt, and sweeps the others.
LEMMA CommitDoes ==
    ASSUME SchedulerTypes, Commit
    PROVE  /\ judging \in AttemptIds /\ judging' = None
           /\ attempts' \in [Jobs -> Seq(AttemptRecord)]
           /\ \A job \in Jobs : Len(attempts'[job]) = Len(attempts[job])
           /\ \A job \in Jobs : \A n \in 1 .. Len(attempts[job]) :
                 attempts'[job][n] =
                     IF <<job, n>> = judging
                     THEN [Ended(attempts[job][n], "Committed") EXCEPT !.landed = TRUE]
                     ELSE Swept(attempts[job][n], Attempt(judging).sent, judging \notin cut)
<1> DEFINE After(job, n) == IF <<job, n>> = judging
                            THEN [Ended(attempts[job][n], "Committed") EXCEPT !.landed = TRUE]
                            ELSE Swept(attempts[job][n], Attempt(judging).sent, judging \notin cut)
<1>1. judging \in AttemptIds /\ judging' = None
  BY DEF Commit, SchedulerTypes
<1>2. Attempt(judging).sent \in SUBSET Symbols
  <2>1. Attempt(judging) \in AttemptRecord
    BY <1>1, AttemptsTyped
  <2> QED
    BY <2>1 DEF AttemptRecord
<1>3. ASSUME NEW job \in Jobs, NEW n \in 1 .. Len(attempts[job])
      PROVE  After(job, n) \in AttemptRecord
  <2>1. attempts[job][n] \in AttemptRecord
    BY AttemptsTyped
  <2>2. [Ended(attempts[job][n], "Committed") EXCEPT !.landed = TRUE] \in AttemptRecord
    BY <2>1 DEF AttemptRecord, AttemptStates, Ended
  <2>3. Swept(attempts[job][n], Attempt(judging).sent, judging \notin cut) \in AttemptRecord
    BY <1>2, <2>1 DEF AttemptRecord, AttemptStates, Ended, Swept
  <2> QED
    BY <2>2, <2>3
<1>4. attempts' = [job \in Jobs |-> [n \in 1 .. Len(attempts[job]) |-> After(job, n)]]
  BY AttemptsTyped DEF Commit
<1> HIDE DEF After
<1>5. ASSUME NEW job \in Jobs
      PROVE  /\ attempts'[job] \in Seq(AttemptRecord)
             /\ Len(attempts'[job]) = Len(attempts[job])
  <2>1. Len(attempts[job]) \in Nat
    BY AttemptsTyped
  <2>2. attempts'[job] \in [1 .. Len(attempts[job]) -> AttemptRecord]
    BY <1>3, <1>4
  <2>3. attempts'[job] \in Seq(AttemptRecord)
    BY <2>1, <2>2, SeqDef
  <2>4. DOMAIN attempts'[job] = 1 .. Len(attempts'[job]) /\ Len(attempts'[job]) \in Nat
    BY <2>3, LenProperties
  <2> QED
    BY <2>1, <2>2, <2>3, <2>4
<1>6. attempts' \in [Jobs -> Seq(AttemptRecord)]
  BY <1>4, <1>5
<1>7. \A job \in Jobs : \A n \in 1 .. Len(attempts[job]) : attempts'[job][n] = After(job, n)
  BY <1>4
<1> QED
  BY <1>1, <1>5, <1>6, <1>7 DEF After

\* The steps that leave every attempt alone.
LEMMA Others ==
    ASSUME [Next]_vars
    PROVE  \/ UNCHANGED <<attempts, judging>>
           \/ \E s \in Slots : CreateTask(s) \/ ContextBundle(s) \/ ReadMore(s) \/ SubmitPatch(s)
                                 \/ FailTask(s) \/ FinishJob(s)
           \/ \E a \in AttemptIds : TakePatch(a)
           \/ Commit \/ RefuseStale \/ RefuseFixable
  BY DEF Next, vars, runVars, Plan, StartWave, Sequencer, Harness, Agent, Rest, FetchNothing, FetchJob,
         LaunchFails, NoticeInvalidation, Exit, FirstLook, Replace

LEMMA TargetsAreOperations ==
    ASSUME SchedulerTypes, NEW job \in Jobs
    PROVE  ProgramTargets(TaskOf(job)) \subseteq Operations
<1>1. job[2] \in DOMAIN batch /\ batch \in Batches
  BY BatchLength DEF SchedulerTypes, Jobs
<1>2. CASE job[1] = "primary"
  BY <1>1, <1>2, PlannerConstants DEF ProgramTargets, TaskOf
<1>3. CASE job[1] # "primary"
  BY <1>3 DEF ProgramTargets, TaskOf, Discovery
<1> QED
  BY <1>2, <1>3

\* The attempts keep their types, whatever step it is.
LEMMA AttemptTypesKept ==
    ASSUME SchedulerTypes, [Next]_vars
    PROVE  /\ attempts' \in [Jobs -> Seq(AttemptRecord)]
           /\ \/ /\ \A job \in Jobs : Len(attempts'[job]) = Len(attempts[job])
                 /\ AttemptIds' = AttemptIds
              \/ /\ \E s \in Slots : CreateTask(s)
                 /\ \A job \in Jobs : Len(attempts'[job]) \in {Len(attempts[job]), Len(attempts[job]) + 1}
                 /\ AttemptIds \subseteq AttemptIds'
<1>1. attempts \in [Jobs -> Seq(AttemptRecord)] /\ Jobs' = Jobs
  BY SameBatch DEF SchedulerTypes
<1>2. ASSUME \A job \in Jobs : Len(attempts'[job]) = Len(attempts[job])
      PROVE  AttemptIds' = AttemptIds
  BY <1>1, <1>2 DEF AttemptIds
<1>3. ASSUME NEW a, NEW r, Becomes(a, r)
      PROVE  /\ attempts' \in [Jobs -> Seq(AttemptRecord)]
             /\ \A job \in Jobs : Len(attempts'[job]) = Len(attempts[job])
             /\ AttemptIds' = AttemptIds
  BY <1>2, <1>3 DEF Becomes
<1>4. CASE UNCHANGED <<attempts, judging>>
  BY <1>1, <1>2, <1>4
<1>5. ASSUME NEW s \in Slots, CreateTask(s)
      PROVE  /\ attempts' \in [Jobs -> Seq(AttemptRecord)]
             /\ \A job \in Jobs : Len(attempts'[job]) \in {Len(attempts[job]), Len(attempts[job]) + 1}
             /\ AttemptIds \subseteq AttemptIds'
  <2>1. /\ attempts' \in [Jobs -> Seq(AttemptRecord)]
        /\ \A job \in Jobs : Len(attempts'[job]) \in {Len(attempts[job]), Len(attempts[job]) + 1}
    BY <1>5, CreateTaskDoes
  <2>2. \A job \in Jobs : Len(attempts[job]) \in Nat
    BY AttemptsTyped
  <2>3. AttemptIds \subseteq AttemptIds'
    BY <1>1, <2>1, <2>2 DEF AttemptIds
  <2> QED
    BY <2>1, <2>3
<1>6. ASSUME NEW s \in Slots,
             ContextBundle(s) \/ ReadMore(s) \/ SubmitPatch(s) \/ FailTask(s) \/ FinishJob(s)
      PROVE  UNCHANGED attempts \/ \E a, r : Becomes(a, r)
  BY <1>6, ContextBundleDoes, ReadMoreDoes, SubmitPatchDoes, FailTaskDoes, FinishJobDoes, Zenon
<1>7. ASSUME NEW a \in AttemptIds, TakePatch(a)
      PROVE  \E b, r : Becomes(b, r)
  BY <1>7, TakePatchDoes, Zenon
<1>8. CASE RefuseStale \/ RefuseFixable
  <2>1. \E b, r : Becomes(b, r)
    BY <1>8, RefusalDoes, Zenon
  <2> QED
    BY <1>3, <2>1
<1>9. CASE Commit
  BY <1>2, <1>9, CommitDoes
<1>10. CASE UNCHANGED attempts
  BY <1>1, <1>2, <1>10
<1> QED
  BY <1>3, <1>4, <1>5, <1>6, <1>7, <1>8, <1>9, <1>10, Others

LEMMA JudgingTyped ==
    ASSUME SchedulerTypes, [Next]_vars
    PROVE  judging' \in AttemptIds' \cup {None}
<1>1. judging \in AttemptIds' \cup {None} /\ AttemptIds \subseteq AttemptIds'
  BY AttemptTypesKept DEF SchedulerTypes
<1>2. judging' = judging \/ judging' = None \/ judging' \in AttemptIds
  <2>1. ASSUME NEW s \in Slots, CreateTask(s) \/ ContextBundle(s) \/ ReadMore(s) \/ SubmitPatch(s)
                                 \/ FailTask(s) \/ FinishJob(s)
        PROVE  judging' = judging
    BY <2>1 DEF CreateTask, ContextBundle, ReadMore, SubmitPatch, FailTask, FinishJob
  <2>2. ASSUME NEW a \in AttemptIds, TakePatch(a)
        PROVE  judging' = judging \/ judging' \in AttemptIds
    BY <2>2 DEF TakePatch
  <2> QED
    BY <2>1, <2>2, Others DEF Commit, RefuseStale, RefuseFixable
<1> QED
  BY <1>1, <1>2

\* What a slot may do in a step, as far as its job goes.
LEMMA SlotSteps ==
    ASSUME SchedulerTypes, [Next]_vars, NEW u \in Slots
    PROVE  /\ slot'[u] \in SlotRecord
           /\ \/ slot'[u] = slot[u]
              \/ slot'[u] \in {Free, [Free EXCEPT !.pc = "returned"]}
              \/ /\ slot'[u].job = slot[u].job /\ slot'[u].claimed = slot[u].claimed
                 /\ \/ /\ slot[u].pc \in Holding /\ slot'[u].pc \in Holding
                       /\ ~CreateTask(u)
                    \/ CreateTask(u) /\ slot'[u].pc = "bundle"
                    \/ Replace(u) /\ slot'[u].pc = "create"
                    \/ slot[u].pc = "fetch" /\ slot'[u].pc = "returned"
              \/ /\ FetchJob(u)
                 /\ slot'[u] = [Free EXCEPT !.pc = "create", !.job = Head(queue),
                                          !.claimed = ProgramTargets(TaskOf(Head(queue))) \ writers]
<1> DEFINE Goal ==
           /\ slot'[u] \in SlotRecord
           /\ \/ slot'[u] = slot[u]
              \/ slot'[u] \in {Free, [Free EXCEPT !.pc = "returned"]}
              \/ /\ slot'[u].job = slot[u].job /\ slot'[u].claimed = slot[u].claimed
                 /\ \/ /\ slot[u].pc \in Holding /\ slot'[u].pc \in Holding
                       /\ ~CreateTask(u)
                    \/ CreateTask(u) /\ slot'[u].pc = "bundle"
                    \/ Replace(u) /\ slot'[u].pc = "create"
                    \/ slot[u].pc = "fetch" /\ slot'[u].pc = "returned"
              \/ /\ FetchJob(u)
                 /\ slot'[u] = [Free EXCEPT !.pc = "create", !.job = Head(queue),
                                          !.claimed = ProgramTargets(TaskOf(Head(queue))) \ writers]
<1>1. /\ slot \in [Slots -> SlotRecord] /\ slot[u] \in SlotRecord
      /\ Free \in SlotRecord /\ [Free EXCEPT !.pc = "returned"] \in SlotRecord
  BY DEF SchedulerTypes, SlotRecord, SlotStates, Free
<1>2. CASE slot'[u] = slot[u]
  BY <1>1, <1>2
<1>3. CASE StartWave
  BY <1>1, <1>3 DEF StartWave
<1>4. CASE FetchNothing(u)
  BY <1>1, <1>4 DEF FetchNothing, Goto, SlotRecord, SlotStates
<1>5. CASE FetchJob(u)
  <2>1. Head(queue) \in Jobs
    BY <1>5, HeadTailProperties DEF FetchJob, SchedulerTypes
  <2>2. ProgramTargets(TaskOf(Head(queue))) \ writers \in SUBSET Operations
    <3>1. PICK job \in Jobs : job = Head(queue)
      BY <2>1
    <3>2. ProgramTargets(TaskOf(job)) \subseteq Operations
      BY TargetsAreOperations
    <3> QED
      BY <3>1, <3>2
  <2>3. slot'[u] = [Free EXCEPT !.pc = "create", !.job = Head(queue),
                                !.claimed = ProgramTargets(TaskOf(Head(queue))) \ writers]
    BY <1>1, <1>5 DEF FetchJob
  <2>4. slot'[u] \in SlotRecord
    BY <2>1, <2>2, <2>3 DEF Free, SlotRecord, SlotStates
  <2> QED
    BY <1>5, <2>3, <2>4
<1>6. CASE CreateTask(u)
  BY <1>1, <1>6 DEF CreateTask, Goto, SlotRecord, SlotStates
<1>7. CASE LaunchFails(u)
  BY <1>1, <1>7 DEF LaunchFails
<1>8. CASE Replace(u)
  BY <1>1, <1>8 DEF Replace, Goto, SlotRecord, SlotStates
<1>9. CASE FinishJob(u)
  BY <1>1, <1>9 DEF FinishJob, BackToQueue
<1>10. CASE ContextBundle(u) \/ FailTask(u) \/ FirstLook(u) \/ NoticeInvalidation(u) \/ Exit(u)
  <2>1. ~CreateTask(u)
    BY <1>10 DEF ContextBundle, FailTask, FirstLook, NoticeInvalidation, Exit, CreateTask
  <2>2. slot[u].pc \in Holding
    BY <1>10 DEF ContextBundle, FailTask, FirstLook, NoticeInvalidation, Exit, Holding
  <2>3. CASE ContextBundle(u)
    <3>1. slot' = [slot EXCEPT ![u].pc = "session", ![u].status = None, ![u].noticed = FALSE]
      BY <2>3 DEF ContextBundle
    <3>2. slot'[u] = [slot[u] EXCEPT !.pc = "session", !.status = None, !.noticed = FALSE]
      BY <1>1, <3>1
    <3>3. /\ slot'[u] \in SlotRecord /\ slot'[u].pc = "session"
          /\ slot'[u].job = slot[u].job /\ slot'[u].claimed = slot[u].claimed
      BY <1>1, <3>2 DEF SlotRecord, SlotStates
    <3> QED
      BY <2>1, <2>2, <3>3 DEF Holding
  <2>6. CASE NoticeInvalidation(u)
    <3>1. slot'[u] = [slot[u] EXCEPT !.noticed = TRUE]
      BY <1>1, <2>6 DEF NoticeInvalidation
    <3>2. /\ slot'[u] \in SlotRecord /\ slot'[u].pc = slot[u].pc
          /\ slot'[u].job = slot[u].job /\ slot'[u].claimed = slot[u].claimed
      BY <1>1, <3>1 DEF SlotRecord
    <3> QED
      BY <2>1, <2>2, <3>2
  <2>4. CASE FailTask(u) \/ FirstLook(u)
    BY <1>1, <2>1, <2>2, <2>4 DEF FailTask, FirstLook, Goto, Holding, SlotRecord, SlotStates
  <2>5. CASE Exit(u)
    <3>1. PICK status \in {"Completed", "Failed", "Cancelled"} :
              slot' = [slot EXCEPT ![u].pc = "exited", ![u].status = status]
      BY <2>5 DEF Exit
    <3> QED
      BY <1>1, <2>1, <2>2, <3>1 DEF Holding, SlotRecord, SlotStates
  <2> QED
    BY <1>10, <2>3, <2>4, <2>5, <2>6
<1>11. ASSUME NEW s \in Slots, s # u,
              \/ FetchNothing(s) \/ FetchJob(s) \/ CreateTask(s) \/ LaunchFails(s) \/ Replace(s)
              \/ FinishJob(s) \/ ContextBundle(s) \/ FailTask(s) \/ FirstLook(s)
              \/ NoticeInvalidation(s) \/ Exit(s)
       PROVE  slot'[u] = slot[u]
  BY <1>1, <1>11 DEF FetchNothing, FetchJob, CreateTask, LaunchFails, Replace, FinishJob, ContextBundle,
         FailTask, FirstLook, NoticeInvalidation, Exit, Goto
<1>12. ASSUME NEW s \in Slots, ReadMore(s) \/ SubmitPatch(s)
       PROVE  slot'[u] = slot[u]
  BY <1>12 DEF ReadMore, SubmitPatch
<1>13. ASSUME Plan \/ Sequencer \/ Rest \/ UNCHANGED vars
       PROVE  slot'[u] = slot[u]
  BY <1>13 DEF Plan, Sequencer, TakePatch, Commit, RefuseStale, RefuseFixable, Rest, vars, runVars
<1>14. ASSUME NEW s \in Slots, Harness(s) \/ Agent(s)
       PROVE  Goal
  <2>1. CASE s = u
    BY <1>2, <1>4, <1>5, <1>6, <1>7, <1>8, <1>9, <1>10, <1>12, <1>14, <2>1
    DEF Harness, Agent
  <2>2. CASE s # u
    BY <1>2, <1>11, <1>12, <1>14, <2>2 DEF Harness, Agent
  <2> QED
    BY <2>1, <2>2
<1> HIDE DEF Goal
<1>15. Goal
  BY <1>2, <1>3, <1>13, <1>14 DEF Next, Goal
<1> QED
  BY <1>15 DEF Goal

-----------------------------------------------------------------------------
(* Jobs on the queue and in hand *)

Queues(job) == \E k \in 1 .. Len(queue) : queue[k] = job
Taken(job) == \E s \in Slots : slot[s].job = job
Live(job) == Queues(job) \/ Taken(job)

\* Every slot at work has a job of its own, and what it claims is its own too.
Slotted ==
    /\ \A s \in Slots : slot[s].pc \notin Working => slot[s].job = None /\ slot[s].claimed = {}
    /\ \A s, u \in Slots : s # u => /\ slot[s].job # None => slot[s].job # slot[u].job
                                    /\ slot[s].claimed \cap slot[u].claimed = {}
    /\ \A s \in Slots : slot[s].claimed \subseteq writers
    /\ \A o \in writers : \E s \in Slots : o \in slot[s].claimed

\* A queued job is queued once, and has not been begun.
Lined ==
    /\ \A k \in 1 .. Len(queue) : \A s \in Slots : slot[s].job # queue[k]
    /\ \A k, l \in 1 .. Len(queue) : queue[k] = queue[l] => k = l
    /\ \A k \in 1 .. Len(queue) : Len(attempts[queue[k]]) = 0
    /\ queue # <<>> => ~WaveOver
    /\ Planned \/ (WaveOver /\ current = 0 /\ queue = <<>>)

\* A step that takes no job, gives none back and starts no wave.
Quiet ==
    /\ UNCHANGED <<planVars, current, queue, writers, discovered, results, broken>>
    /\ \A u \in Slots : \/ slot'[u] = slot[u]
                        \/ /\ slot[u].pc \in Working /\ slot'[u].pc \in Working
                           /\ slot'[u].job = slot[u].job /\ slot'[u].claimed = slot[u].claimed

LEMMA StepKinds ==
    ASSUME SchedulerTypes, [Next]_vars
    PROVE  \/ Plan \/ StartWave \/ Quiet
           \/ \E s \in Slots : FetchNothing(s) \/ FetchJob(s) \/ LaunchFails(s) \/ FinishJob(s)
<1>1. slot \in [Slots -> SlotRecord]
  BY DEF SchedulerTypes
<1>2. CASE UNCHANGED vars \/ Rest
  BY <1>2 DEF vars, runVars, Rest, Quiet
<1>3. CASE Sequencer
  BY <1>3 DEF Sequencer, TakePatch, Commit, RefuseStale, RefuseFixable, Quiet
<1>4. ASSUME NEW s \in Slots, ReadMore(s) \/ SubmitPatch(s)
      PROVE  Quiet
  BY <1>4 DEF ReadMore, SubmitPatch, Quiet
<1>5. ASSUME NEW s \in Slots, CreateTask(s)
      PROVE  Quiet
  BY <1>1, <1>5 DEF CreateTask, Goto, Quiet, SlotRecord, Working, Holding
<1>6. ASSUME NEW s \in Slots, ContextBundle(s)
      PROVE  Quiet
  <2>1. slot' = [slot EXCEPT ![s].pc = "session", ![s].status = None, ![s].noticed = FALSE]
    BY <1>6 DEF ContextBundle
  <2>2. slot'[s] = [slot[s] EXCEPT !.pc = "session", !.status = None, !.noticed = FALSE]
    BY <1>1, <2>1
  <2>3. \A u \in Slots : u # s => slot'[u] = slot[u]
    BY <1>1, <2>1
  <2>4. slot[s].pc = "bundle" /\ slot'[s].pc = "session"
        /\ slot'[s].job = slot[s].job /\ slot'[s].claimed = slot[s].claimed
    BY <1>1, <1>6, <2>2 DEF ContextBundle, SlotRecord
  <2> QED
    BY <1>6, <2>3, <2>4 DEF ContextBundle, Quiet, Working, Holding
<1>7. ASSUME NEW s \in Slots, FailTask(s)
      PROVE  Quiet
  BY <1>1, <1>7 DEF FailTask, Goto, Quiet, SlotRecord, Working, Holding
<1>8. ASSUME NEW s \in Slots, FirstLook(s)
      PROVE  Quiet
  BY <1>1, <1>8 DEF FirstLook, Goto, Quiet, SlotRecord, Working, Holding
<1>9. ASSUME NEW s \in Slots, NoticeInvalidation(s)
      PROVE  Quiet
  BY <1>1, <1>9 DEF NoticeInvalidation, Quiet, SlotRecord, Working, Holding
<1>10. ASSUME NEW s \in Slots, Replace(s)
      PROVE  Quiet
  BY <1>1, <1>10 DEF Replace, Goto, Quiet, SlotRecord, Working, Holding
<1>11. ASSUME NEW s \in Slots, Exit(s)
      PROVE  Quiet
  <2>1. PICK status \in {"Completed", "Failed", "Cancelled"} :
            slot' = [slot EXCEPT ![s].pc = "exited", ![s].status = status]
    BY <1>11 DEF Exit
  <2>2. slot'[s] = [slot[s] EXCEPT !.pc = "exited", !.status = status]
    BY <1>1, <2>1
  <2>3. \A u \in Slots : u # s => slot'[u] = slot[u]
    BY <1>1, <2>1
  <2>4. slot[s].pc = "session" /\ slot'[s].pc = "exited"
        /\ slot'[s].job = slot[s].job /\ slot'[s].claimed = slot[s].claimed
    BY <1>1, <1>11, <2>2 DEF Exit, SlotRecord
  <2> QED
    BY <1>11, <2>3, <2>4 DEF Exit, Quiet, Working, Holding
<1> QED
  BY <1>2, <1>3, <1>4, <1>5, <1>6, <1>7, <1>8, <1>9, <1>10, <1>11
  DEF Next, Harness, Agent

\* A plan that is made stays.
LEMMA PlanStays ==
    ASSUME Planned, [Next]_vars
    PROVE  UNCHANGED planVars
<1>1. CASE Plan
  <2>1. ~TakeReady /\ ~AppendCycles /\ ~Place
    BY DEF Planned, TakeReady, AppendCycles, Place
  <2> QED
    BY <1>1, <2>1 DEF Plan, PlanNext
<1>2. (PlanNext /\ UNCHANGED runVars) \/ UNCHANGED planVars
  BY DEF Next, vars, runVars, Plan, StartWave, Sequencer, TakePatch, Commit, RefuseStale,
         RefuseFixable, Harness, Agent, Rest, FetchNothing, FetchJob, CreateTask, ContextBundle,
         LaunchFails, FirstLook, FailTask, Replace, FinishJob, ReadMore, SubmitPatch,
         NoticeInvalidation, Exit
<1> QED
  BY <1>1, <1>2 DEF Plan

LEMMA JobsAreNotNone ==
    ASSUME SchedulerTypes
    PROVE  None \notin Jobs
<1>1. Indices \subseteq Nat
  BY BatchLength DEF SchedulerTypes
<1> QED
  BY <1>1, SchedulerConstants DEF Jobs

\* Nobody works when the wave is over.
LEMMA OverIsIdle ==
    ASSUME Slotted, WaveOver
    PROVE  \A s \in Slots : slot[s].job = None /\ slot[s].claimed = {}
  BY DEF Slotted, WaveOver, Working, Holding

LEMMA QueueFacts ==
    ASSUME SchedulerTypes
    PROVE  /\ Len(queue) \in Nat /\ (queue # <<>> => Len(queue) \in Nat \ {0})
           /\ \A k \in 1 .. Len(queue) : queue[k] \in Jobs
           /\ queue = <<>> => Len(queue) = 0
<1>1. queue \in Seq(Jobs)
  BY DEF SchedulerTypes
<1> QED
  BY <1>1, EmptySeq, LenProperties, ElementOfSeq

LEMMA FetchJobDoes ==
    ASSUME SchedulerTypes, NEW s \in Slots, FetchJob(s)
    PROVE  /\ Len(queue) \in Nat \ {0} /\ Head(queue) = queue[1] /\ queue[1] \in Jobs
           /\ queue' \in Seq(Jobs) /\ Len(queue') = Len(queue) - 1
           /\ \A k \in 1 .. Len(queue') : queue'[k] = queue[k + 1]
           /\ \A u \in Slots : u # s => slot'[u] = slot[u]
           /\ slot[s].pc = "fetch" /\ slot'[s].pc = "create" /\ slot'[s].job = queue[1]
           /\ \E claimed \in SUBSET Operations :
                 /\ claimed \cap writers = {}
                 /\ slot'[s].claimed = claimed
                 /\ writers' = writers \cup claimed
           /\ UNCHANGED <<planVars, current, attempts, judging, discovered, results, broken>>
<1>1. queue \in Seq(Jobs) /\ queue # <<>> /\ slot \in [Slots -> SlotRecord]
  BY DEF SchedulerTypes, FetchJob
<1>2. /\ Head(queue) \in Jobs /\ Tail(queue) \in Seq(Jobs)
      /\ Len(Tail(queue)) = Len(queue) - 1
      /\ \A k \in 1 .. Len(Tail(queue)) : Tail(queue)[k] = queue[k + 1]
  BY <1>1, HeadTailProperties
<1>3. Len(queue) \in Nat \ {0} /\ Head(queue) = queue[1]
  BY <1>1, QueueFacts
<1>4. PICK job \in Jobs : job = Head(queue)
  BY <1>2
<1> DEFINE claimed == ProgramTargets(TaskOf(job)) \ writers
<1>5. claimed \in SUBSET Operations /\ claimed \cap writers = {}
  BY TargetsAreOperations
<1>6. /\ slot' = [slot EXCEPT ![s] = [Free EXCEPT !.pc = "create", !.job = job, !.claimed = claimed]]
      /\ writers' = writers \cup claimed
      /\ queue' = Tail(queue)
      /\ UNCHANGED <<planVars, current, attempts, judging, discovered, results, broken>>
      /\ slot[s].pc = "fetch"
  BY <1>4 DEF FetchJob
<1> HIDE DEF claimed
<1>7. /\ \A u \in Slots : u # s => slot'[u] = slot[u]
      /\ slot'[s].pc = "create" /\ slot'[s].job = job /\ slot'[s].claimed = claimed
  BY <1>1, <1>6 DEF Free
<1> QED
  BY <1>2, <1>3, <1>4, <1>5, <1>6, <1>7

\* The slot that ends its job is free again, and gives up its claim.
LEMMA ReleaseDoes ==
    ASSUME SchedulerTypes, NEW s \in Slots, LaunchFails(s) \/ FinishJob(s)
    PROVE  /\ slot[s].pc \in Working /\ slot[s].job \in Jobs
           /\ slot'[s] = Free
           /\ \A u \in Slots : u # s => slot'[u] = slot[u]
           /\ writers' = writers \ slot[s].claimed
           /\ UNCHANGED <<planVars, current>>
           /\ LaunchFails(s) => broken' = TRUE /\ UNCHANGED <<queue, discovered, results, attempts>>
           /\ FinishJob(s) => UNCHANGED broken
<1>1. slot \in [Slots -> SlotRecord]
  BY DEF SchedulerTypes
<1>2. slot[s].pc \in Working
  BY DEF LaunchFails, FinishJob, Working, Holding
<1>3. slot' = [slot EXCEPT ![s] = Free]
  BY DEF LaunchFails, FinishJob, BackToQueue
<1> QED
  BY <1>1, <1>2, <1>3 DEF SchedulerTypes, LaunchFails, FinishJob

\* A finished job may put the discovery it chains on the queue.
LEMMA FinishJobQueues ==
    ASSUME SchedulerTypes, NEW s \in Slots, FinishJob(s)
    PROVE  LET job == slot[s].job IN
           \/ UNCHANGED <<queue, discovered>>
           \/ /\ MayChain(job)
              /\ job = <<"primary", job[2]>> /\ job[2] \in Indices
              /\ queue' \in Seq(Jobs) /\ Len(queue') = Len(queue) + 1
              /\ \A k \in 1 .. Len(queue) : queue'[k] = queue[k]
              /\ queue'[Len(queue) + 1] = <<"followUp", job[2]>>
              /\ batch[job[2]].operation \in Operations
              /\ discovered' = discovered \cup {batch[job[2]].operation}
<1> DEFINE job == slot[s].job
<1>1. job \in Jobs /\ queue \in Seq(Jobs)
  BY ReleaseDoes DEF SchedulerTypes
<1>2. /\ job[2] \in Indices /\ <<"followUp", job[2]>> \in Jobs
      /\ job[1] = "primary" => job = <<"primary", job[2]>>
  BY <1>1 DEF Jobs
<1>3. CASE /\ MayChain(job)
           /\ queue' = Append(queue, <<"followUp", job[2]>>)
           /\ discovered' = discovered \cup {batch[job[2]].operation}
  <2>1. batch[job[2]].operation \in Operations
    <3>1. batch \in Batches /\ job[2] \in DOMAIN batch
      BY <1>2, BatchLength DEF SchedulerTypes
    <3> QED
      BY <1>3, <3>1, SchedulerConstants DEF MayChain
  <2> HIDE DEF job
  <2>2. /\ queue' \in Seq(Jobs) /\ Len(queue') = Len(queue) + 1
        /\ \A k \in 1 .. Len(queue) : queue'[k] = queue[k]
        /\ queue'[Len(queue) + 1] = <<"followUp", job[2]>>
    BY <1>1, <1>2, <1>3, AppendProperties
  <2>3. job[1] = "primary"
    BY <1>3 DEF MayChain
  <2> QED
    BY <1>2, <1>3, <2>1, <2>2, <2>3 DEF job
<1> QED
  BY <1>3 DEF FinishJob

\* A new wave queues its tasks, each once, for slots that are all free.
LEMMA StartWaveDoes ==
    ASSUME SchedulerTypes, PlanInv, StartWave
    PROVE  /\ queue' \in Seq(Jobs) /\ Len(queue') \in Nat
           /\ \A k \in 1 .. Len(queue') :
                 queue'[k][1] = "primary" /\ queue'[k][2] \in InWave(current + 1)
           /\ \A k, l \in 1 .. Len(queue') : queue'[k] = queue'[l] => k = l
           /\ \A i \in InWave(current + 1) : \E k \in 1 .. Len(queue') : queue'[k] = <<"primary", i>>
           /\ \A s \in Slots : slot'[s] = Free
           /\ Planned /\ WaveOver /\ ~broken /\ current' = current + 1
           /\ UNCHANGED <<planVars, attempts, judging, writers, discovered, results, broken>>
<1>1. PICK list \in Listed(InWave(current + 1), PlanOrder) :
          queue' = [k \in DOMAIN list |-> <<"primary", list[k]>>]
  BY DEF StartWave
<1>2. \A i \in InWave(current + 1) : PlanOrder[i] \in Int
  <2> SUFFICES ASSUME NEW i \in InWave(current + 1)
               PROVE  PlanOrder[i] \in Int
    OBVIOUS
  <2>1. i \in Indices /\ Ordered = Indices /\ order \in Seq(Indices)
    BY DEF InWave, StartWave, Planned, PlanInv, OrderInv, PlanBase, PlanTypeOK
  <2>2. DOMAIN order \subseteq Int
    BY <2>1, LenProperties
  <2>3. \E k \in DOMAIN order : order[k] = i
    BY <2>1 DEF Ordered
  <2> QED
    BY <2>1, <2>2, <2>3 DEF PlanOrder
<1>3. Len(batch) \in Nat
  BY BatchLength DEF SchedulerTypes
<1>4. /\ list \in Seq(InWave(current + 1))
      /\ \A k, l \in DOMAIN list : list[k] = list[l] => k = l
      /\ \A i \in InWave(current + 1) : \E k \in DOMAIN list : list[k] = i
  BY <1>1, <1>2, <1>3, ListedOnce
<1>5. DOMAIN list = 1 .. Len(list) /\ Len(list) \in Nat
      /\ \A k \in 1 .. Len(list) : list[k] \in InWave(current + 1)
  BY <1>4, LenProperties, ElementOfSeq
<1>6. \A i \in InWave(current + 1) : <<"primary", i>> \in Jobs
  BY DEF InWave, Jobs
<1>7. queue' \in [1 .. Len(list) -> Jobs]
  BY <1>1, <1>5, <1>6
<1>8. queue' \in Seq(Jobs)
  BY <1>5, <1>7, SeqDef
<1>9. Len(queue') = Len(list)
  <2>1. DOMAIN queue' = 1 .. Len(queue') /\ Len(queue') \in Nat
    BY <1>8, LenProperties
  <2> QED
    BY <1>5, <1>7, <2>1
<1>10. slot \in [Slots -> SlotRecord]
  BY DEF SchedulerTypes
<1>11. \A k \in 1 .. Len(queue') : queue'[k] = <<"primary", list[k]>>
  BY <1>1, <1>5, <1>9
<1>12. /\ \A k \in 1 .. Len(queue') :
             queue'[k][1] = "primary" /\ queue'[k][2] \in InWave(current + 1)
       /\ \A k, l \in 1 .. Len(queue') : queue'[k] = queue'[l] => k = l
       /\ \A i \in InWave(current + 1) : \E k \in 1 .. Len(queue') : queue'[k] = <<"primary", i>>
  <2>1. ASSUME NEW k \in 1 .. Len(queue')
        PROVE  /\ k \in DOMAIN list /\ list[k] \in InWave(current + 1)
               /\ queue'[k][1] = "primary" /\ queue'[k][2] = list[k]
    BY <1>5, <1>9, <1>11, <2>1
  <2>2. ASSUME NEW k \in 1 .. Len(queue'), NEW l \in 1 .. Len(queue'), queue'[k] = queue'[l]
        PROVE  k = l
    BY <1>4, <2>1, <2>2
  <2>3. ASSUME NEW i \in InWave(current + 1)
        PROVE  \E k \in 1 .. Len(queue') : queue'[k] = <<"primary", i>>
    <3>1. PICK k \in DOMAIN list : list[k] = i
      BY <1>4
    <3>2. k \in 1 .. Len(queue')
      BY <1>5, <1>9
    <3> QED
      BY <1>11, <3>1, <3>2
  <2> QED
    BY <2>1, <2>2, <2>3
<1>13. \A s \in Slots : slot'[s] = Free
  BY <1>10 DEF StartWave
<1> QED
  BY <1>5, <1>8, <1>9, <1>12, <1>13 DEF StartWave

LEMMA FreeIs == Free.pc = "fetch" /\ Free.job = None /\ Free.claimed = {}
  BY DEF Free

LEMMA SlottedKept ==
    ASSUME SchedulerTypes, PlanInv, Slotted, Lined, [Next]_vars
    PROVE  Slotted'
<1>1. CASE Plan
  BY <1>1 DEF Plan, runVars, Slotted, Working, Holding
<1>2. CASE StartWave
  <2>1. (\A s \in Slots : slot'[s] = Free) /\ writers' = writers
    BY <1>2, StartWaveDoes
  <2>2. writers = {}
    BY <1>2, OverIsIdle DEF Slotted, StartWave
  <2> QED
    BY <2>1, <2>2, FreeIs DEF Slotted
<1>3. CASE Quiet
  BY <1>3 DEF Quiet, Slotted
<1>4. ASSUME NEW s \in Slots, FetchNothing(s)
      PROVE  Slotted'
  <2>1. slot \in [Slots -> SlotRecord] /\ slot' = [slot EXCEPT ![s].pc = "returned"]
    BY <1>4 DEF SchedulerTypes, FetchNothing, Goto
  <2>2. /\ slot'[s].job = slot[s].job /\ slot'[s].claimed = slot[s].claimed
        /\ slot[s].pc = "fetch" /\ slot'[s].pc = "returned"
        /\ \A u \in Slots : u # s => slot'[u] = slot[u]
        /\ writers' = writers
    BY <1>4, <2>1 DEF FetchNothing, SlotRecord
  <2> QED
    BY <2>2 DEF Slotted, Working, Holding
<1>5. ASSUME NEW s \in Slots, FetchJob(s)
      PROVE  Slotted'
  <2>1. PICK claimed \in SUBSET Operations :
            /\ claimed \cap writers = {}
            /\ slot'[s].claimed = claimed
            /\ writers' = writers \cup claimed
    BY <1>5, FetchJobDoes
  <2>2. /\ \A u \in Slots : u # s => slot'[u] = slot[u]
        /\ slot[s].pc = "fetch" /\ slot'[s].pc = "create" /\ slot'[s].job = queue[1]
        /\ 1 \in 1 .. Len(queue)
    BY <1>5, FetchJobDoes
  <2>3. slot[s].claimed = {}
    BY <2>2 DEF Slotted, Working, Holding
  <2>4. \A u \in Slots : slot[u].job # queue[1]
    BY <2>2 DEF Lined
  <2>5. \A u \in Slots : u # s => slot[u].claimed \cap claimed = {}
    BY <2>1 DEF Slotted
  <2>6. \A u \in Slots : slot'[u].pc \notin Working => slot'[u].job = None /\ slot'[u].claimed = {}
    BY <2>2 DEF Slotted, Working
  <2>7. \A u, v \in Slots : u # v => /\ slot'[u].job # None => slot'[u].job # slot'[v].job
                                     /\ slot'[u].claimed \cap slot'[v].claimed = {}
    BY <2>1, <2>2, <2>4, <2>5 DEF Slotted
  <2>8. /\ \A u \in Slots : slot'[u].claimed \subseteq writers'
        /\ \A o \in writers' : \E u \in Slots : o \in slot'[u].claimed
    BY <2>1, <2>2, <2>3 DEF Slotted
  <2> QED
    BY <2>6, <2>7, <2>8 DEF Slotted
<1>6. ASSUME NEW s \in Slots, LaunchFails(s) \/ FinishJob(s)
      PROVE  Slotted'
  <2>1. /\ slot'[s].job = None /\ slot'[s].claimed = {}
        /\ \A u \in Slots : u # s => slot'[u] = slot[u]
        /\ writers' = writers \ slot[s].claimed
    <3>1. /\ slot'[s] = Free /\ writers' = writers \ slot[s].claimed
          /\ \A u \in Slots : u # s => slot'[u] = slot[u]
      BY <1>6, ReleaseDoes
    <3> QED
      BY <3>1, FreeIs
  <2> QED
    BY <2>1 DEF Slotted
<1> QED
  BY <1>1, <1>2, <1>3, <1>4, <1>5, <1>6, StepKinds

\* The work of a step on the queue and the hands, job by job.
LEMMA LiveSteps ==
    ASSUME SchedulerTypes, PlanInv, Slotted, Lined, [Next]_vars, NEW job \in Jobs
    PROVE  \/ Live(job)' <=> Live(job)
           \/ /\ StartWave /\ ~Live(job)
              /\ Live(job)' <=> job[1] = "primary" /\ job[2] \in InWave(current + 1)
           \/ \E s \in Slots : LaunchFails(s) /\ slot[s].job = job /\ Live(job) /\ ~Live(job)'
           \/ \E s \in Slots : FinishJob(s) /\ slot[s].job = job /\ Live(job) /\ ~Live(job)'
           \/ \E s \in Slots : /\ FinishJob(s) /\ slot[s].job # job /\ Live(job)'
                               /\ MayChain(slot[s].job) /\ job = <<"followUp", slot[s].job[2]>>
                               /\ discovered' = discovered \cup {batch[job[2]].operation}
<1>0. job # None
  BY JobsAreNotNone
<1>1. CASE Plan
  BY <1>1 DEF Plan, runVars, Live, Queues, Taken
<1>2. CASE StartWave
  <2>1. ~Live(job)
    <3>1. queue = <<>>
      BY <1>2 DEF StartWave, Lined
    <3>2. ~Queues(job)
      BY <3>1, QueueFacts DEF Queues
    <3>3. ~Taken(job)
      BY <1>0, <1>2, OverIsIdle DEF Taken, StartWave
    <3> QED
      BY <3>2, <3>3 DEF Live
  <2>2. ~Taken(job)'
    BY <1>0, <1>2, StartWaveDoes, FreeIs DEF Taken
  <2>3. Queues(job)' => job[1] = "primary" /\ job[2] \in InWave(current + 1)
    BY <1>2, StartWaveDoes DEF Queues
  <2>4. job[1] = "primary" /\ job[2] \in InWave(current + 1) => Queues(job)'
    <3> SUFFICES ASSUME job[1] = "primary", job[2] \in InWave(current + 1)
                 PROVE  Queues(job)'
      OBVIOUS
    <3>1. job = <<"primary", job[2]>>
      BY DEF Jobs
    <3>2. \A i \in InWave(current + 1) :
             \E k \in 1 .. Len(queue') : queue'[k] = <<"primary", i>>
      BY <1>2, StartWaveDoes
    <3>3. PICK i \in InWave(current + 1) : i = job[2]
      OBVIOUS
    <3> QED
      BY <3>1, <3>2, <3>3 DEF Queues
  <2> QED
    BY <1>2, <2>1, <2>2, <2>3, <2>4 DEF Live
<1>3. CASE Quiet
  BY <1>3 DEF Quiet, Live, Queues, Taken
<1>4. ASSUME NEW s \in Slots, FetchNothing(s)
      PROVE  Live(job)' <=> Live(job)
  <2>1. slot \in [Slots -> SlotRecord] /\ slot' = [slot EXCEPT ![s].pc = "returned"]
    BY <1>4 DEF SchedulerTypes, FetchNothing, Goto
  <2>2. \A u \in Slots : slot'[u].job = slot[u].job
    BY <2>1 DEF SlotRecord
  <2> QED
    BY <1>4, <2>2 DEF Live, Queues, Taken, FetchNothing
<1>5. ASSUME NEW s \in Slots, FetchJob(s)
      PROVE  Live(job)' <=> Live(job)
  <2>1. /\ Len(queue) \in Nat \ {0} /\ Len(queue') = Len(queue) - 1
        /\ \A k \in 1 .. Len(queue') : queue'[k] = queue[k + 1]
        /\ \A u \in Slots : u # s => slot'[u] = slot[u]
        /\ slot[s].pc = "fetch" /\ slot'[s].job = queue[1]
    BY <1>5, FetchJobDoes
  <2>2. slot[s].job = None
    BY <2>1 DEF Slotted, Working, Holding
  <2>3. Taken(job)' <=> Taken(job) \/ job = queue[1]
    BY <1>0, <2>1, <2>2 DEF Taken
  <2>4. Queues(job) <=> Queues(job)' \/ job = queue[1]
    <3>1. ASSUME NEW k \in 1 .. Len(queue), queue[k] = job, k # 1
          PROVE  Queues(job)'
      <4>1. k - 1 \in 1 .. Len(queue') /\ queue'[k - 1] = queue[k]
        BY <2>1, <3>1
      <4> QED
        BY <3>1, <4>1 DEF Queues
    <3>2. Queues(job)' => Queues(job)
      <4>1. \A k \in 1 .. Len(queue') : k + 1 \in 1 .. Len(queue) /\ queue'[k] = queue[k + 1]
        BY <2>1
      <4> QED
        BY <4>1 DEF Queues
    <3>3. 1 \in 1 .. Len(queue)
      BY <2>1
    <3> QED
      BY <3>1, <3>2, <3>3 DEF Queues
  <2> QED
    BY <2>3, <2>4 DEF Live
<1>6. ASSUME NEW s \in Slots, LaunchFails(s) \/ FinishJob(s)
      PROVE  /\ slot[s].job = job => Taken(job) /\ ~Queues(job) /\ ~Taken(job)'
             /\ slot[s].job # job => (Taken(job)' <=> Taken(job))
  <2>1. /\ slot'[s].job = None
        /\ \A u \in Slots : u # s => slot'[u] = slot[u]
    <3>1. slot'[s] = Free /\ \A u \in Slots : u # s => slot'[u] = slot[u]
      BY <1>6, ReleaseDoes
    <3> QED
      BY <3>1, FreeIs
  <2>2. \A u \in Slots : slot[u].job = job /\ slot[s].job = job => u = s
    BY <1>0 DEF Slotted
  <2> QED
    BY <1>0, <2>1, <2>2 DEF Lined, Taken, Queues
<1>7. ASSUME NEW s \in Slots, LaunchFails(s)
      PROVE  \/ Live(job)' <=> Live(job)
             \/ slot[s].job = job /\ Live(job) /\ ~Live(job)'
  <2>1. queue' = queue
    BY <1>7, ReleaseDoes
  <2> QED
    BY <1>6, <1>7, <2>1 DEF Live, Queues
<1>8. ASSUME NEW s \in Slots, FinishJob(s)
      PROVE  \/ Live(job)' <=> Live(job)
             \/ slot[s].job = job /\ Live(job) /\ ~Live(job)'
             \/ /\ slot[s].job # job /\ Live(job)'
                /\ MayChain(slot[s].job) /\ job = <<"followUp", slot[s].job[2]>>
                /\ discovered' = discovered \cup {batch[job[2]].operation}
  <2>1. CASE queue' = queue
    BY <1>6, <1>8, <2>1 DEF Live, Queues
  <2>2. PICK mine \in Jobs : mine = slot[s].job
    BY <1>8, ReleaseDoes
  <2>3. CASE queue' # queue
    <3>1. /\ MayChain(mine) /\ mine = <<"primary", mine[2]>>
          /\ Len(queue') = Len(queue) + 1
          /\ \A k \in 1 .. Len(queue) : queue'[k] = queue[k]
          /\ queue'[Len(queue) + 1] = <<"followUp", mine[2]>>
          /\ discovered' = discovered \cup {batch[mine[2]].operation}
      BY <1>8, <2>2, <2>3, FinishJobQueues
    <3>2. Len(queue) \in Nat
      BY QueueFacts
    <3>3. Queues(job)' <=> Queues(job) \/ job = <<"followUp", mine[2]>>
      <4>1. 1 .. Len(queue') = 1 .. Len(queue) \cup {Len(queue) + 1}
        BY <3>1, <3>2
      <4> QED
        BY <3>1, <4>1 DEF Queues
    <3>4. CASE job = <<"followUp", mine[2]>>
      <4>1. slot[s].job # job /\ job[2] = mine[2]
        BY <2>2, <3>1, <3>4
      <4> QED
        BY <2>2, <3>1, <3>3, <3>4, <4>1 DEF Live
    <3>5. CASE job # <<"followUp", mine[2]>>
      BY <1>6, <1>8, <3>3, <3>5 DEF Live
    <3> QED
      BY <3>4, <3>5
  <2> QED
    BY <2>1, <2>3
<1> QED
  BY <1>1, <1>2, <1>3, <1>4, <1>5, <1>7, <1>8, StepKinds

Primary(i) == <<"primary", i>>
FollowUp(i) == <<"followUp", i>>

\* A job that is on the queue or in hand, or was.
Started(job) == Live(job) \/ Len(attempts[job]) > 0

\* What the batch owes its tasks, wave by wave.
Due ==
    /\ \A job \in Jobs : Live(job) => wave[job[2]] = current
    /\ \A job \in Jobs : Len(attempts[job]) > 0 => wave[job[2]] \in 1 .. current
    /\ \A i \in Indices : results[i] # None => ~Live(Primary(i)) /\ Len(attempts[Primary(i)]) > 0
    /\ broken \/ \A i \in Indices :
                    wave[i] \in 1 .. current => results[i] # None \/ Live(Primary(i))
    /\ \A i \in Indices : Started(FollowUp(i)) =>
          batch[i].chains /\ results[i] # None /\ batch[i].operation \in discovered
    /\ \A o \in discovered :
          broken \/ \E i \in Indices : batch[i].operation = o /\ Started(FollowUp(i))

BatchInv == SchedulerTypes /\ PlanInv /\ Slotted /\ Lined /\ Due

LEMMA JobsOf ==
    /\ \A i \in Indices : /\ Primary(i) \in Jobs /\ FollowUp(i) \in Jobs
                          /\ Primary(i)[2] = i /\ FollowUp(i)[2] = i
                          /\ Primary(i)[1] = "primary" /\ FollowUp(i)[1] = "followUp"
    /\ \A job \in Jobs : /\ job[2] \in Indices
                         /\ job = Primary(job[2]) \/ job = FollowUp(job[2])
    /\ \A i, j : Primary(i) # FollowUp(j)
  BY DEF Primary, FollowUp, Jobs

LEMMA LengthSteps ==
    ASSUME SchedulerTypes, [Next]_vars, NEW job \in Jobs
    PROVE  /\ Len(attempts[job]) \in Nat
           /\ \/ Len(attempts'[job]) = Len(attempts[job])
              \/ \E s \in Slots : /\ CreateTask(s) /\ slot[s].job = job
                                  /\ Len(attempts'[job]) = Len(attempts[job]) + 1
<1>1. Len(attempts[job]) \in Nat
  BY AttemptsTyped
<1>2. ASSUME NEW s \in Slots, CreateTask(s)
      PROVE  \/ Len(attempts'[job]) = Len(attempts[job])
             \/ slot[s].job = job /\ Len(attempts'[job]) = Len(attempts[job]) + 1
  <2>1. PICK mine \in Jobs : mine = slot[s].job
    BY <1>2, CreateTaskDoes
  <2>2. /\ \A j \in Jobs : j # mine => attempts'[j] = attempts[j]
        /\ Len(attempts'[mine]) = Len(attempts[mine]) + 1
    BY <1>2, <2>1, CreateTaskDoes
  <2> QED
    BY <2>1, <2>2
<1> QED
  BY <1>1, <1>2, AttemptTypesKept

LEMMA Bookkeeping ==
    ASSUME SchedulerTypes, [Next]_vars
    PROVE  /\ current' = current \/ (StartWave /\ current' = current + 1)
           /\ broken' = broken \/ broken' = TRUE
           /\ \/ results' = results
              \/ \E s \in Slots : FinishJob(s)
           /\ \/ discovered' = discovered
              \/ \E s \in Slots : FinishJob(s)
<1>1. CASE Plan
  BY <1>1 DEF Plan, runVars
<1>2. CASE StartWave
  BY <1>2 DEF StartWave
<1>3. CASE Quiet
  BY <1>3 DEF Quiet
<1>4. ASSUME NEW s \in Slots, FetchNothing(s) \/ FetchJob(s)
      PROVE  UNCHANGED <<current, broken, results, discovered>>
  BY <1>4 DEF FetchNothing, FetchJob
<1>5. ASSUME NEW s \in Slots, LaunchFails(s)
      PROVE  UNCHANGED <<current, results, discovered>> /\ broken' = TRUE
  BY <1>5 DEF LaunchFails
<1>6. ASSUME NEW s \in Slots, FinishJob(s)
      PROVE  UNCHANGED <<current, broken>>
  BY <1>6 DEF FinishJob
<1> QED
  BY <1>1, <1>2, <1>3, <1>4, <1>5, <1>6, StepKinds

LEMMA FinishJobRecords ==
    ASSUME SchedulerTypes, NEW s \in Slots, FinishJob(s)
    PROVE  LET job == slot[s].job IN
           /\ job \in Jobs /\ Len(attempts[job]) > 0
           /\ \A i \in Indices : /\ job = Primary(i) => results'[i] # None
                                 /\ job # Primary(i) => results'[i] = results[i]
           /\ job[1] = "primary" => results'[job[2]] = Attempt(Mine(s)).state
           /\ results' \in [Indices -> AttemptStates \cup {None}]
<1>1. slot[s].pc \in Holding
  BY DEF FinishJob, Holding
<1>2. slot[s].job \in Jobs /\ Len(attempts[slot[s].job]) > 0
  BY <1>1 DEF SchedulerTypes, Working
<1>3. Attempt(Mine(s)).state \in AttemptStates
  <2>1. Attempt(Mine(s)) \in AttemptRecord
    BY <1>1, AttemptsTyped
  <2> QED
    BY <2>1 DEF AttemptRecord
<1>4. Attempt(Mine(s)).state # None
  BY <1>3, SchedulerConstants DEF AttemptStates, Active
<1>5. PICK job \in Jobs : job = slot[s].job
  BY <1>2
<1>6. PICK state : state = Attempt(Mine(s)).state
  OBVIOUS
<1>7. IF job[1] = "primary" THEN results' = [results EXCEPT ![job[2]] = state]
      ELSE results' = results
  BY <1>5, <1>6 DEF FinishJob
<1>8. results \in [Indices -> AttemptStates \cup {None}]
  BY DEF SchedulerTypes
<1>9. CASE job[1] = "primary"
  <2>1. job = Primary(job[2]) /\ job[2] \in Indices
    BY <1>9, JobsOf
  <2>2. results' = [results EXCEPT ![job[2]] = state]
    BY <1>7, <1>9
  <2>3. \A i \in Indices : job = Primary(i) <=> i = job[2]
    BY <2>1, JobsOf
  <2>4. /\ results' \in [Indices -> AttemptStates \cup {None}]
        /\ results'[job[2]] = state
        /\ \A i \in Indices : i # job[2] => results'[i] = results[i]
    BY <1>3, <1>6, <1>8, <2>1, <2>2
  <2> QED
    BY <1>2, <1>4, <1>5, <1>6, <2>3, <2>4
<1>10. CASE job[1] # "primary"
  <2>1. \A i \in Indices : job # Primary(i)
    BY <1>10, JobsOf
  <2> QED
    BY <1>2, <1>5, <1>7, <1>8, <1>10, <2>1
<1> QED
  BY <1>9, <1>10

\* A job given up is nobody's.
LEMMA ReleaseEnds ==
    ASSUME SchedulerTypes, Slotted, Lined, NEW s \in Slots, LaunchFails(s) \/ FinishJob(s),
           NEW job, job = slot[s].job
    PROVE  ~Live(job)'
<1>1. job \in Jobs /\ job = slot[s].job
  BY ReleaseDoes
<1>2. job # None
  BY <1>1, JobsAreNotNone
<1>3. slot'[s] = Free /\ \A u \in Slots : u # s => slot'[u] = slot[u]
  BY ReleaseDoes
<1>4. \A u \in Slots : slot'[u].job # job
  BY <1>1, <1>2, <1>3, FreeIs DEF Slotted
<1>5. \A k \in 1 .. Len(queue) : queue[k] # job
  BY <1>1 DEF Lined
<1>6. ASSUME NEW k \in 1 .. Len(queue')
      PROVE  queue'[k] # job
  <2>1. CASE queue' = queue
    BY <1>5, <2>1
  <2>2. CASE queue' # queue
    <3>1. FinishJob(s)
      BY <2>2, ReleaseDoes
    <3>2. /\ job = <<"primary", job[2]>>
          /\ Len(queue') = Len(queue) + 1
          /\ \A j \in 1 .. Len(queue) : queue'[j] = queue[j]
          /\ queue'[Len(queue) + 1] = <<"followUp", job[2]>>
      BY <1>1, <2>2, <3>1, FinishJobQueues
    <3>3. k \in 1 .. Len(queue) \/ k = Len(queue) + 1
      BY <3>2, QueueFacts
    <3> QED
      BY <1>5, <3>2, <3>3
  <2> QED
    BY <2>1, <2>2
<1> QED
  BY <1>1, <1>4, <1>6 DEF Live, Queues, Taken

LEMMA StartIsFresh ==
    ASSUME SchedulerTypes, Slotted, Lined, StartWave, NEW job \in Jobs
    PROVE  ~Live(job)
<1>1. queue = <<>>
  BY DEF StartWave, Lined
<1>2. ~Queues(job)
  BY <1>1, QueueFacts DEF Queues
<1>3. ~Taken(job)
  BY OverIsIdle, JobsAreNotNone DEF Taken, StartWave
<1> QED
  BY <1>2, <1>3 DEF Live

\* Before the plan is made, nothing has started.
LEMMA LiveIsPlanned ==
    ASSUME BatchInv, NEW job \in Jobs, Started(job)
    PROVE  Planned /\ wave[job[2]] \in 1 .. current
<1>1. Planned
  <2>1. SUFFICES ASSUME ~Planned PROVE FALSE
    OBVIOUS
  <2>2. WaveOver /\ current = 0 /\ queue = <<>>
    BY <2>1 DEF BatchInv, Lined
  <2>3. ~Queues(job)
    BY <2>2, QueueFacts DEF Queues, BatchInv
  <2>4. ~Taken(job)
    BY <2>2, OverIsIdle, JobsAreNotNone DEF Taken, BatchInv
  <2>5. ~(Len(attempts[job]) > 0)
    BY <2>2 DEF BatchInv, Due
  <2> QED
    BY <2>3, <2>4, <2>5 DEF Started, Live
<1>2. wave[job[2]] # 0
  <2>1. PlanSound
    BY PlansAreSound DEF BatchInv
  <2> QED
    BY <1>1, <2>1, JobsOf DEF PlanSound, EveryTaskPlanned
<1>3. CASE Len(attempts[job]) > 0
  BY <1>1, <1>3 DEF BatchInv, Due
<1>4. CASE Live(job)
  <2>1. wave[job[2]] = current /\ current \in Nat
    BY <1>4 DEF BatchInv, Due, SchedulerTypes
  <2> QED
    BY <1>1, <1>2, <2>1
<1> QED
  BY <1>3, <1>4 DEF Started

\* The queue after a step, in which every job was there before or is fresh.
LEMMA QueueSteps ==
    ASSUME BatchInv, [Next]_vars
    PROVE  /\ queue' \in Seq(Jobs)
           /\ \A k, l \in 1 .. Len(queue') : queue'[k] = queue'[l] => k = l
           /\ \A k \in 1 .. Len(queue') : Queues(queue'[k]) \/ ~Started(queue'[k])
           /\ \A k \in 1 .. Len(queue') : \A s \in Slots : slot'[s].job # queue'[k]
<1>0. SchedulerTypes /\ PlanInv /\ Slotted /\ Lined /\ Due
  BY DEF BatchInv
<1>1. /\ queue \in Seq(Jobs) /\ Len(queue) \in Nat
      /\ \A k, l \in 1 .. Len(queue) : queue[k] = queue[l] => k = l
      /\ \A k \in 1 .. Len(queue) : Queues(queue[k]) /\ queue[k] \in Jobs
      /\ \A k \in 1 .. Len(queue) : \A s \in Slots : slot[s].job # queue[k]
  BY <1>0, QueueFacts DEF SchedulerTypes, Lined, Queues
<1>2. ASSUME queue' = queue, \A s \in Slots : slot'[s].job \in {slot[s].job, None}
      PROVE  /\ queue' \in Seq(Jobs)
             /\ \A k, l \in 1 .. Len(queue') : queue'[k] = queue'[l] => k = l
             /\ \A k \in 1 .. Len(queue') : Queues(queue'[k])
             /\ \A k \in 1 .. Len(queue') : \A s \in Slots : slot'[s].job # queue'[k]
  BY <1>0, <1>1, <1>2, JobsAreNotNone
<1>3. CASE Plan \/ Quiet
  BY <1>2, <1>3 DEF Plan, runVars, Quiet
<1>4. ASSUME NEW s \in Slots, FetchNothing(s)
      PROVE  queue' = queue /\ \A u \in Slots : slot'[u].job \in {slot[u].job, None}
  <2>1. slot \in [Slots -> SlotRecord] /\ slot' = [slot EXCEPT ![s].pc = "returned"]
    BY <1>0, <1>4 DEF SchedulerTypes, FetchNothing, Goto
  <2> QED
    BY <1>4, <2>1 DEF FetchNothing, SlotRecord
<1>5. ASSUME NEW s \in Slots, LaunchFails(s)
      PROVE  queue' = queue /\ \A u \in Slots : slot'[u].job \in {slot[u].job, None}
  <2>1. slot'[s] = Free /\ queue' = queue /\ \A u \in Slots : u # s => slot'[u] = slot[u]
    BY <1>0, <1>5, ReleaseDoes
  <2> QED
    BY <2>1, FreeIs
<1>6. ASSUME NEW s \in Slots, FetchJob(s)
      PROVE  /\ queue' \in Seq(Jobs)
             /\ \A k, l \in 1 .. Len(queue') : queue'[k] = queue'[l] => k = l
             /\ \A k \in 1 .. Len(queue') : Queues(queue'[k])
             /\ \A k \in 1 .. Len(queue') : \A u \in Slots : slot'[u].job # queue'[k]
  <2>1. /\ Len(queue) \in Nat \ {0} /\ Len(queue') = Len(queue) - 1
        /\ queue' \in Seq(Jobs)
        /\ \A k \in 1 .. Len(queue') : queue'[k] = queue[k + 1]
        /\ \A u \in Slots : u # s => slot'[u] = slot[u]
        /\ slot'[s].job = queue[1]
    BY <1>0, <1>6, FetchJobDoes
  <2>2. \A k \in 1 .. Len(queue') : k + 1 \in 1 .. Len(queue) /\ k + 1 # 1 /\ 1 \in 1 .. Len(queue)
    BY <2>1
  <2>3. \A k \in 1 .. Len(queue') : \A u \in Slots : slot'[u].job # queue'[k]
    BY <1>1, <2>1, <2>2
  <2>4. \A k, l \in 1 .. Len(queue') : queue'[k] = queue'[l] => k = l
    <3> SUFFICES ASSUME NEW k \in 1 .. Len(queue'), NEW l \in 1 .. Len(queue'),
                        queue'[k] = queue'[l]
                 PROVE  k = l
      OBVIOUS
    <3>1. k + 1 = l + 1
      BY <1>1, <2>1, <2>2
    <3> QED
      BY <2>1, <3>1
  <2> QED
    BY <1>1, <2>1, <2>2, <2>3, <2>4
<1>7. ASSUME NEW s \in Slots, FinishJob(s)
      PROVE  /\ queue' \in Seq(Jobs)
             /\ \A k, l \in 1 .. Len(queue') : queue'[k] = queue'[l] => k = l
             /\ \A k \in 1 .. Len(queue') : Queues(queue'[k]) \/ ~Started(queue'[k])
             /\ \A k \in 1 .. Len(queue') : \A u \in Slots : slot'[u].job # queue'[k]
  <2>1. \A u \in Slots : slot'[u].job \in {slot[u].job, None}
    <3>1. slot'[s] = Free /\ \A u \in Slots : u # s => slot'[u] = slot[u]
      BY <1>0, <1>7, ReleaseDoes
    <3> QED
      BY <3>1, FreeIs
  <2>2. CASE queue' = queue
    BY <1>2, <2>1, <2>2
  <2>3. CASE queue' # queue
    <3>1. PICK mine \in Jobs : mine = slot[s].job
      BY <1>0, <1>7, ReleaseDoes
    <3> DEFINE next == FollowUp(mine[2])
    <3>2. /\ MayChain(mine) /\ mine[2] \in Indices /\ queue' \in Seq(Jobs)
          /\ Len(queue') = Len(queue) + 1
          /\ \A k \in 1 .. Len(queue) : queue'[k] = queue[k]
          /\ queue'[Len(queue) + 1] = next
      BY <1>0, <1>7, <2>3, <3>1, FinishJobQueues DEF FollowUp
    <3>3. ~Started(next)
      BY <1>0, <3>2 DEF MayChain, Due
    <3>4. ~Live(next) /\ next \in Jobs
      BY <3>2, <3>3, JobsOf DEF Started
    <3> HIDE DEF next
    <3>5. \A k \in 1 .. Len(queue') : k \in 1 .. Len(queue) \/ k = Len(queue) + 1
      BY <1>1, <3>2
    <3>6. \A k \in 1 .. Len(queue) : queue[k] # next
      BY <3>4 DEF Live, Queues
    <3>7. \A u \in Slots : slot[u].job # next
      BY <3>4 DEF Live, Taken
    <3>8. next # None
      BY <1>0, <3>4, JobsAreNotNone
    <3>9. \A k, l \in 1 .. Len(queue') : queue'[k] = queue'[l] => k = l
      BY <1>1, <3>2, <3>5, <3>6
    <3>10. \A k \in 1 .. Len(queue') : Queues(queue'[k]) \/ ~Started(queue'[k])
      <4> SUFFICES ASSUME NEW k \in 1 .. Len(queue')
                   PROVE  Queues(queue'[k]) \/ ~Started(queue'[k])
        OBVIOUS
      <4>1. CASE k \in 1 .. Len(queue)
        BY <1>1, <3>2, <4>1
      <4>2. CASE k = Len(queue) + 1
        BY <3>2, <3>3, <4>2
      <4> QED
        BY <3>5, <4>1, <4>2
    <3>11. ASSUME NEW k \in 1 .. Len(queue'), NEW u \in Slots
           PROVE  slot'[u].job # queue'[k]
      <4>1. queue'[k] # None /\ slot[u].job # queue'[k]
        <5>1. CASE k \in 1 .. Len(queue)
          BY <1>0, <1>1, <3>2, <5>1, JobsAreNotNone
        <5>2. CASE k = Len(queue) + 1
          BY <3>2, <3>7, <3>8, <5>2
        <5> QED
          BY <3>5, <5>1, <5>2
      <4> QED
        BY <2>1, <4>1
    <3> QED
      BY <3>2, <3>9, <3>10, <3>11
  <2> QED
    BY <2>2, <2>3
<1>8. CASE StartWave
  <2>1. /\ queue' \in Seq(Jobs)
        /\ \A k \in 1 .. Len(queue') :
              queue'[k][1] = "primary" /\ queue'[k][2] \in InWave(current + 1)
        /\ \A k, l \in 1 .. Len(queue') : queue'[k] = queue'[l] => k = l
        /\ \A s \in Slots : slot'[s] = Free
    BY <1>0, <1>8, StartWaveDoes
  <2>2. \A k \in 1 .. Len(queue') : queue'[k] \in Jobs
    BY <2>1, ElementOfSeq
  <2>3. ASSUME NEW k \in 1 .. Len(queue')
        PROVE  ~Started(queue'[k]) /\ \A s \in Slots : slot'[s].job # queue'[k]
    <3>1. PICK job \in Jobs : job = queue'[k]
      BY <2>2
    <3>2. job[2] \in InWave(current + 1)
      BY <2>1, <3>1
    <3>3. ~(wave[job[2]] \in 1 .. current)
      BY <1>0, <3>2 DEF InWave, SchedulerTypes
    <3>4. ~(Len(attempts[job]) > 0)
      BY <1>0, <3>3 DEF Due
    <3>5. ~Live(job)
      BY <1>0, <1>8, StartIsFresh
    <3> QED
      BY <1>0, <2>1, <3>1, <3>4, <3>5, FreeIs, JobsAreNotNone DEF Started
  <2> QED
    BY <2>1, <2>3
<1> QED
  BY <1>2, <1>3, <1>4, <1>5, <1>6, <1>7, <1>8, <1>0, StepKinds

LEMMA LinedKept ==
    ASSUME BatchInv, [Next]_vars
    PROVE  Lined'
<1>0. SchedulerTypes /\ PlanInv /\ Slotted /\ Lined /\ Due
  BY DEF BatchInv
<1>1. \A k \in 1 .. Len(queue') : Len(attempts'[queue'[k]]) = 0
  <2> SUFFICES ASSUME NEW k \in 1 .. Len(queue')
               PROVE  Len(attempts'[queue'[k]]) = 0
    OBVIOUS
  <2>1. PICK job : job = queue'[k]
    OBVIOUS
  <2>2. job \in Jobs /\ (Queues(job) \/ ~Started(job))
    BY <2>1, QueueSteps, ElementOfSeq
  <2>3. Len(attempts[job]) = 0
    <3>1. Len(attempts[job]) \in Nat
      BY <1>0, <2>2, AttemptsTyped
    <3> QED
      BY <1>0, <2>2, <3>1 DEF Queues, Started, Lined
  <2>4. \A s \in Slots : slot[s].job = job => ~CreateTask(s)
    <3> SUFFICES ASSUME NEW s \in Slots, slot[s].job = job, CreateTask(s)
                 PROVE  FALSE
      OBVIOUS
    <3>1. slot'[s].job = job
      BY <1>0 DEF CreateTask, Goto, SchedulerTypes, SlotRecord
    <3> QED
      BY <2>1, <3>1, QueueSteps
  <2> QED
    BY <1>0, <2>1, <2>2, <2>3, <2>4, LengthSteps
<1>2. queue' # <<>> => ~WaveOver'
  <2>1. CASE Plan
    BY <1>0, <2>1 DEF Plan, runVars, Lined, WaveOver
  <2>2. CASE StartWave
    BY <1>0, <2>2, StartWaveDoes, FreeIs, SchedulerConstants DEF WaveOver
  <2>3. CASE Quiet
    BY <1>0, <2>3 DEF Quiet, Lined, WaveOver, Working, Holding
  <2>4. ASSUME NEW s \in Slots, FetchNothing(s)
        PROVE  queue' = <<>>
    BY <2>4 DEF FetchNothing
  <2>5. ASSUME NEW s \in Slots, FetchJob(s)
        PROVE  ~WaveOver'
    <3>1. slot'[s].pc = "create"
      BY <1>0, <2>5, FetchJobDoes
    <3> QED
      BY <3>1 DEF WaveOver
  <2>6. ASSUME NEW s \in Slots, LaunchFails(s) \/ FinishJob(s)
        PROVE  ~WaveOver'
    <3>1. slot'[s] = Free
      BY <1>0, <2>6, ReleaseDoes
    <3> QED
      BY <3>1, FreeIs DEF WaveOver
  <2> QED
    BY <1>0, <2>1, <2>2, <2>3, <2>4, <2>5, <2>6, StepKinds
<1>3. Planned' \/ (WaveOver' /\ current' = 0 /\ queue' = <<>>)
  <2>1. CASE Planned
    BY <2>1, PlanStays DEF Planned, planVars, Ordered, Indices
  <2>2. CASE ~Planned
    <3>1. WaveOver /\ current = 0 /\ queue = <<>>
      BY <1>0, <2>2 DEF Lined
    <3>2. Plan \/ Quiet
      <4>1. ~StartWave
        BY <2>2 DEF StartWave
      <4>2. ASSUME NEW s \in Slots,
                   FetchNothing(s) \/ FetchJob(s) \/ LaunchFails(s) \/ FinishJob(s)
            PROVE  FALSE
        BY <3>1, <4>2 DEF WaveOver, FetchNothing, FetchJob, LaunchFails, FinishJob
      <4> QED
        BY <1>0, <4>1, <4>2, StepKinds
    <3>3. \A s \in Slots : slot'[s].pc = "returned"
      BY <3>1, <3>2 DEF Plan, Quiet, runVars, WaveOver, Working, Holding
    <3> QED
      BY <3>1, <3>2, <3>3 DEF Plan, Quiet, runVars, WaveOver
  <2> QED
    BY <2>1, <2>2
<1> QED
  BY <1>1, <1>2, <1>3, QueueSteps DEF Lined

LEMMA SlotsAreFunctions ==
    ASSUME SchedulerTypes, [Next]_vars
    PROVE  slot' \in [Slots -> SlotRecord]
<1>1. slot \in [Slots -> SlotRecord]
  BY DEF SchedulerTypes
<1>2. \A u \in Slots : slot'[u] \in SlotRecord
  BY SlotSteps
<1>3. slot' = [u \in Slots |-> slot'[u]]
  <2>1. CASE UNCHANGED slot
    BY <1>1, <2>1
  <2>2. CASE StartWave
    BY <2>2 DEF StartWave
  <2>3. ASSUME NEW s \in Slots, Harness(s) \/ Agent(s)
        PROVE  UNCHANGED slot \/ slot' = [u \in Slots |-> slot'[u]]
    <3>1. CASE FetchNothing(s) \/ FetchJob(s) \/ CreateTask(s) \/ LaunchFails(s) \/ FirstLook(s)
               \/ FailTask(s) \/ Replace(s)
      BY <1>1, <3>1 DEF FetchNothing, FetchJob, CreateTask, LaunchFails, FirstLook, FailTask,
             Replace, Goto
    <3>2. CASE FinishJob(s)
      BY <1>1, <3>2 DEF FinishJob, BackToQueue
    <3>3. CASE ContextBundle(s) \/ NoticeInvalidation(s)
      BY <1>1, <3>3 DEF ContextBundle, NoticeInvalidation
    <3>4. CASE Exit(s)
      <4>1. PICK status : slot' = [slot EXCEPT ![s].pc = "exited", ![s].status = status]
        BY <3>4 DEF Exit
      <4> QED
        BY <1>1, <4>1
    <3>5. CASE ReadMore(s) \/ SubmitPatch(s)
      BY <3>5 DEF ReadMore, SubmitPatch
    <3> QED
      BY <2>3, <3>1, <3>2, <3>3, <3>4, <3>5 DEF Harness, Agent
  <2>4. CASE Plan \/ Sequencer \/ Rest \/ UNCHANGED vars
    BY <1>1, <2>4 DEF Plan, Sequencer, TakePatch, Commit, RefuseStale, RefuseFixable, Rest, vars,
           runVars
  <2> QED
    BY <1>1, <2>1, <2>2, <2>3, <2>4 DEF Next
<1> QED
  BY <1>2, <1>3

\* A slot about to create an attempt has one left.
LEMMA AttemptsStayFew ==
    ASSUME BatchInv, [Next]_vars
    PROVE  /\ \A job \in Jobs : Len(attempts'[job]) <= MaxAttempts
           /\ \A s \in Slots :
                 /\ slot'[s].pc \in Working => slot'[s].job \in Jobs
                 /\ slot'[s].pc = "create" => Len(attempts'[slot'[s].job]) < MaxAttempts
                 /\ slot'[s].pc \in Holding => Len(attempts'[slot'[s].job]) > 0
<1>0. SchedulerTypes /\ PlanInv /\ Slotted /\ Lined /\ Due /\ MaxAttempts \in Nat \ {0}
  BY SchedulerConstants DEF BatchInv
<1>1. ASSUME NEW job \in Jobs
      PROVE  /\ Len(attempts'[job]) <= MaxAttempts
             /\ Len(attempts[job]) \in Nat
             /\ Len(attempts[job]) > 0 => Len(attempts'[job]) > 0
  <2>1. Len(attempts[job]) \in Nat /\ Len(attempts[job]) <= MaxAttempts
    BY <1>0, AttemptsTyped DEF SchedulerTypes
  <2>2. ASSUME NEW s \in Slots, CreateTask(s), slot[s].job = job
        PROVE  Len(attempts[job]) < MaxAttempts
    BY <1>0, <2>2 DEF SchedulerTypes, CreateTask
  <2> QED
    BY <1>0, <2>1, <2>2, LengthSteps
<1>2. ASSUME NEW s \in Slots
      PROVE  /\ slot'[s].pc \in Working => slot'[s].job \in Jobs
             /\ slot'[s].pc = "create" => Len(attempts'[slot'[s].job]) < MaxAttempts
             /\ slot'[s].pc \in Holding => Len(attempts'[slot'[s].job]) > 0
  <2>1. CASE slot'[s] = slot[s]
    <3>1. /\ slot[s].pc \in Working => slot[s].job \in Jobs
          /\ slot[s].pc = "create" => slot[s].pc \in Working
          /\ slot[s].pc \in Holding => slot[s].pc \in Working
      BY <1>0 DEF SchedulerTypes, Working
    <3>2. slot'[s].pc \in Holding => Len(attempts'[slot'[s].job]) > 0
      BY <1>0, <1>1, <2>1, <3>1 DEF SchedulerTypes
    <3>3. ASSUME slot[s].pc = "create"
          PROVE  Len(attempts'[slot[s].job]) < MaxAttempts
      <4>1. PICK job \in Jobs : job = slot[s].job
        BY <3>1, <3>3
      <4>2. Len(attempts[job]) < MaxAttempts
        BY <1>0, <3>3, <4>1 DEF SchedulerTypes
      <4>3. ASSUME NEW u \in Slots, CreateTask(u), slot[u].job = job
            PROVE  FALSE
        <5>1. u = s
          BY <1>0, <4>1, <4>3, JobsAreNotNone DEF Slotted
        <5>2. slot'[s].pc = "bundle"
          BY <1>0, <4>3, <5>1 DEF CreateTask, Goto, SchedulerTypes, SlotRecord
        <5> QED
          BY <2>1, <3>3, <5>2
      <4> QED
        BY <1>0, <4>1, <4>2, <4>3, LengthSteps
    <3> QED
      BY <2>1, <3>1, <3>2, <3>3
  <2>2. CASE slot'[s] \in {Free, [Free EXCEPT !.pc = "returned"]}
    BY <2>2 DEF Free, Working, Holding
  <2>3. CASE slot'[s].job = slot[s].job /\ slot[s].pc \in Holding /\ slot'[s].pc \in Holding
    <3>1. slot[s].job \in Jobs /\ Len(attempts[slot[s].job]) > 0 /\ slot'[s].pc # "create"
      BY <1>0, <2>3 DEF SchedulerTypes, Working, Holding
    <3> QED
      BY <1>1, <2>3, <3>1
  <2>4. CASE slot'[s].job = slot[s].job /\ CreateTask(s) /\ slot'[s].pc = "bundle"
    <3>1. PICK job \in Jobs : job = slot[s].job
      BY <1>0, <2>4, CreateTaskDoes
    <3>2. Len(attempts'[job]) = Len(attempts[job]) + 1
      BY <1>0, <2>4, <3>1, CreateTaskDoes
    <3> QED
      BY <1>1, <2>4, <3>1, <3>2
  <2>5. CASE slot'[s].job = slot[s].job /\ Replace(s) /\ slot'[s].pc = "create"
    <3>1. PICK job \in Jobs : job = slot[s].job
      BY <1>0, <2>5 DEF Replace, SchedulerTypes, Working, Holding
    <3>2. Len(attempts[job]) < MaxAttempts /\ attempts' = attempts
      BY <2>5, <3>1 DEF Replace, AttemptsLeft
    <3> QED
      BY <2>5, <3>1, <3>2 DEF Holding
  <2>6. CASE slot[s].pc = "fetch" /\ slot'[s].pc = "returned"
    BY <2>6 DEF Working, Holding
  <2>7. CASE FetchJob(s)
    <3>1. PICK job \in Jobs : job = queue[1]
      BY <1>0, <2>7, FetchJobDoes
    <3>2. slot'[s].job = job /\ slot'[s].pc = "create" /\ attempts' = attempts /\ 1 \in 1 .. Len(queue)
      BY <1>0, <2>7, <3>1, FetchJobDoes
    <3>3. Len(attempts[job]) = 0
      BY <1>0, <3>1, <3>2 DEF Lined
    <3> QED
      BY <1>0, <3>1, <3>2, <3>3 DEF Holding
  <2> QED
    BY <1>0, <2>1, <2>2, <2>3, <2>4, <2>5, <2>6, <2>7, SlotSteps
<1> QED
  BY <1>1, <1>2

LEMMA ListsTyped ==
    ASSUME BatchInv, [Next]_vars
    PROVE  /\ current' \in Nat /\ writers' \subseteq Operations /\ discovered' \subseteq Operations
           /\ results' \in [Indices -> AttemptStates \cup {None}] /\ broken' \in BOOLEAN
<1>0. SchedulerTypes
  BY DEF BatchInv
<1>1. current' \in Nat
  <2>1. current \in Nat
    BY <1>0 DEF SchedulerTypes
  <2>2. current' = current \/ current' = current + 1
    BY <1>0, Bookkeeping
  <2> QED
    BY <2>1, <2>2
<1>5. broken' \in BOOLEAN
  <2>1. broken \in BOOLEAN
    BY <1>0 DEF SchedulerTypes
  <2>2. broken' = broken \/ broken' = TRUE
    BY <1>0, Bookkeeping, Zenon
  <2> QED
    BY <2>1, <2>2, Zenon
<1>2. results' \in [Indices -> AttemptStates \cup {None}]
  <2>1. ASSUME NEW s \in Slots, FinishJob(s)
        PROVE  results' \in [Indices -> AttemptStates \cup {None}]
    BY <1>0, <2>1, FinishJobRecords
  <2> QED
    BY <1>0, <2>1, Bookkeeping DEF SchedulerTypes
<1>3. discovered' \subseteq Operations
  <2>1. ASSUME NEW s \in Slots, FinishJob(s)
        PROVE  discovered' \subseteq Operations
    BY <1>0, <2>1, FinishJobQueues DEF SchedulerTypes
  <2> QED
    BY <1>0, <2>1, Bookkeeping DEF SchedulerTypes
<1>4. writers' \subseteq Operations
  <2>1. ASSUME NEW s \in Slots, FetchNothing(s) \/ FetchJob(s) \/ LaunchFails(s) \/ FinishJob(s)
        PROVE  writers' \subseteq Operations
    <3>1. CASE FetchNothing(s)
      BY <1>0, <3>1 DEF FetchNothing, SchedulerTypes
    <3>2. CASE FetchJob(s)
      BY <1>0, <3>2, FetchJobDoes DEF SchedulerTypes
    <3>3. CASE LaunchFails(s) \/ FinishJob(s)
      BY <1>0, <3>3, ReleaseDoes DEF SchedulerTypes
    <3> QED
      BY <2>1, <3>1, <3>2, <3>3
  <2>2. CASE Plan \/ StartWave \/ Quiet
    BY <1>0, <2>2 DEF Plan, runVars, StartWave, Quiet, SchedulerTypes
  <2> QED
    BY <1>0, <2>1, <2>2, StepKinds
<1> QED
  BY <1>1, <1>2, <1>3, <1>4, <1>5, Zenon

LEMMA TypesKept ==
    ASSUME BatchInv, [Next]_vars
    PROVE  SchedulerTypes'
<1>0. SchedulerTypes
  BY DEF BatchInv
<1>1. /\ batch' = batch /\ deep' = deep /\ Indices' = Indices /\ Jobs' = Jobs
      /\ AttemptRecord' = AttemptRecord /\ SlotRecord' = SlotRecord
  BY SameBatch
<1>2. batch' \in Batches /\ deep' \in BOOLEAN
  BY <1>0, <1>1 DEF SchedulerTypes
<1>3. queue' \in Seq(Jobs')
  BY <1>1, QueueSteps
<1>4. slot' \in [Slots -> SlotRecord']
  BY <1>0, <1>1, SlotsAreFunctions
<1>5. attempts' \in [Jobs' -> Seq(AttemptRecord')]
  BY <1>0, <1>1, AttemptTypesKept
<1>6. judging' \in AttemptIds' \cup {None}
  BY <1>0, JudgingTyped
<1>7. results' \in [Indices' -> AttemptStates \cup {None}]
  BY <1>1, ListsTyped
<1> QED
  BY <1>1, <1>2, <1>3, <1>4, <1>5, <1>6, <1>7, ListsTyped, AttemptsStayFew DEF SchedulerTypes

\* What has started or is recorded stays so.
LEMMA Lasting ==
    ASSUME BatchInv, [Next]_vars
    PROVE  /\ \A job \in Jobs : Len(attempts[job]) > 0 => Len(attempts'[job]) > 0
           /\ \A i \in Indices : results[i] # None => results'[i] # None
           /\ discovered \subseteq discovered'
           /\ broken => broken'
<1>0. SchedulerTypes
  BY DEF BatchInv
<1>1. \A job \in Jobs : Len(attempts[job]) > 0 => Len(attempts'[job]) > 0
  BY <1>0, LengthSteps
<1>2. \A i \in Indices : results[i] # None => results'[i] # None
  <2>1. ASSUME NEW s \in Slots, FinishJob(s), NEW i \in Indices
        PROVE  results'[i] = results[i] \/ results'[i] # None
    BY <1>0, <2>1, FinishJobRecords
  <2> QED
    BY <1>0, <2>1, Bookkeeping
<1>3. discovered \subseteq discovered'
  <2>1. ASSUME NEW s \in Slots, FinishJob(s)
        PROVE  discovered \subseteq discovered'
    BY <1>0, <2>1, FinishJobQueues
  <2> QED
    BY <1>0, <2>1, Bookkeeping
<1>4. broken => broken'
  <2>1. broken' = broken \/ broken' = TRUE
    BY <1>0, Bookkeeping, Zenon
  <2> QED
    BY <2>1, Zenon
<1> QED
  BY <1>1, <1>2, <1>3, <1>4, Zenon

LEMMA StartedSteps ==
    ASSUME BatchInv, [Next]_vars, NEW job \in Jobs
    PROVE  \/ Started(job)' => Started(job)
           \/ StartWave /\ job[1] = "primary" /\ wave[job[2]] = current + 1
           \/ \E s \in Slots : /\ FinishJob(s) /\ MayChain(slot[s].job)
                               /\ job = FollowUp(slot[s].job[2])
<1>0. SchedulerTypes /\ PlanInv /\ Slotted /\ Lined
  BY DEF BatchInv
<1>1. ASSUME NEW s \in Slots, CreateTask(s), slot[s].job = job
      PROVE  Started(job)
  BY <1>1 DEF Started, Live, Taken
<1>2. Len(attempts'[job]) > 0 => Started(job)
  BY <1>0, <1>1, LengthSteps DEF Started
<1>3. \/ Live(job)' => Live(job)
      \/ StartWave /\ job[1] = "primary" /\ wave[job[2]] = current + 1
      \/ \E s \in Slots : FinishJob(s) /\ MayChain(slot[s].job) /\ job = FollowUp(slot[s].job[2])
  BY <1>0, LiveSteps DEF InWave, FollowUp
<1> QED
  BY <1>2, <1>3 DEF Started

LEMMA DueWaves ==
    ASSUME BatchInv, [Next]_vars, NEW job \in Jobs
    PROVE  /\ Live(job)' => wave'[job[2]] = current'
           /\ Len(attempts'[job]) > 0 => wave'[job[2]] \in 1 .. current'
<1>0. SchedulerTypes /\ PlanInv /\ Slotted /\ Lined /\ Due
  BY DEF BatchInv
<1>1. /\ \A k \in Jobs : Live(k) => wave[k[2]] = current
      /\ \A k \in Jobs : Started(k) => Planned /\ wave[k[2]] \in 1 .. current /\ wave' = wave
      /\ current \in Nat /\ current' \in Nat /\ current <= current'
  <2>1. \A k \in Jobs : Started(k) => Planned /\ wave[k[2]] \in 1 .. current
    BY LiveIsPlanned
  <2>2. Planned => wave' = wave
    BY PlanStays DEF planVars
  <2>3. current \in Nat /\ current' \in Nat /\ current <= current'
    <3>1. current \in Nat
      BY <1>0 DEF SchedulerTypes
    <3>2. current' = current \/ current' = current + 1
      BY <1>0, Bookkeeping
    <3> QED
      BY <3>1, <3>2
  <2> QED
    BY <1>0, <2>1, <2>2, <2>3 DEF Due
<1>2. StartWave => Planned /\ wave' = wave /\ current' = current + 1
  BY PlanStays DEF StartWave, planVars
<1>3. CASE StartWave
  <2>1. ~Live(job)
    BY <1>0, <1>3, StartIsFresh
  <2>2. Live(job)' => job[2] \in InWave(current + 1)
    <3>1. ASSUME Live(job)', NEW s \in Slots, FinishJob(s) \/ LaunchFails(s)
          PROVE  FALSE
      BY <1>3, <3>1, SchedulerConstants DEF StartWave, WaveOver, FinishJob, LaunchFails
    <3> QED
      BY <1>0, <2>1, <3>1, LiveSteps
  <2>3. Live(job)' => wave'[job[2]] = current'
    BY <1>2, <1>3, <2>2 DEF InWave
  <2>4. ASSUME Len(attempts'[job]) > 0
        PROVE  wave'[job[2]] \in 1 .. current'
    <3>1. attempts' = attempts
      BY <1>3 DEF StartWave
    <3>2. Started(job)
      BY <2>4, <3>1 DEF Started
    <3> QED
      BY <1>1, <3>2
  <2> QED
    BY <2>3, <2>4
<1>4. CASE ~StartWave
  <2>1. current' = current
    BY <1>0, <1>4, Bookkeeping
  <2>2. ASSUME NEW s \in Slots, FinishJob(s), MayChain(slot[s].job), job = FollowUp(slot[s].job[2])
        PROVE  wave[job[2]] = current /\ wave' = wave /\ current > 0
    <3>1. PICK mine \in Jobs : mine = slot[s].job
      BY <1>0, <2>2, ReleaseDoes
    <3>2. Live(mine) /\ Started(mine)
      BY <3>1 DEF Live, Taken, Started
    <3>3. job[2] = mine[2]
      BY <2>2, <3>1 DEF FollowUp
    <3> QED
      BY <1>1, <3>2, <3>3
  <2>3. Live(job)' => wave'[job[2]] = current'
    <3> SUFFICES ASSUME Live(job)'
                 PROVE  wave'[job[2]] = current'
      OBVIOUS
    <3>1. CASE Live(job)
      BY <1>1, <2>1, <3>1 DEF Started
    <3>2. CASE ~Live(job)
      <4>1. \E s \in Slots : FinishJob(s) /\ MayChain(slot[s].job) /\ job = FollowUp(slot[s].job[2])
        BY <1>0, <1>4, <3>2, LiveSteps DEF FollowUp
      <4> QED
        BY <2>1, <2>2, <4>1
    <3> QED
      BY <3>1, <3>2
  <2>4. ASSUME Len(attempts'[job]) > 0
        PROVE  wave'[job[2]] \in 1 .. current'
    <3>1. Started(job)
      <4>1. ASSUME NEW s \in Slots, CreateTask(s), slot[s].job = job
            PROVE  Started(job)
        BY <4>1 DEF Started, Live, Taken
      <4> QED
        BY <1>0, <2>4, <4>1, LengthSteps DEF Started
    <3> QED
      BY <1>1, <2>1, <3>1
  <2> QED
    BY <2>3, <2>4
<1> QED
  BY <1>3, <1>4

LEMMA DueResults ==
    ASSUME BatchInv, [Next]_vars, NEW i \in Indices, results'[i] # None
    PROVE  ~Live(Primary(i))' /\ Len(attempts'[Primary(i)]) > 0
<1>0. SchedulerTypes /\ PlanInv /\ Slotted /\ Lined /\ Due
  BY DEF BatchInv
<1>1. Primary(i) \in Jobs /\ Primary(i)[1] = "primary" /\ Primary(i)[2] = i
  BY JobsOf
<1>2. PICK job \in Jobs : job = Primary(i)
  BY <1>1
<1>3. CASE \E s \in Slots : FinishJob(s) /\ slot[s].job = job
  <2>1. PICK s \in Slots : FinishJob(s) /\ slot[s].job = job
    BY <1>3
  <2>2. ~Live(job)'
    BY <1>0, <2>1, ReleaseEnds
  <2>3. Len(attempts[job]) > 0
    BY <1>0, <2>1, FinishJobRecords
  <2>4. Len(attempts'[job]) > 0
    BY <2>3, Lasting
  <2> QED
    BY <1>2, <2>2, <2>4 DEF Primary
<1>4. CASE ~\E s \in Slots : FinishJob(s) /\ slot[s].job = job
  <2>1. results[i] # None
    <3>1. ASSUME NEW s \in Slots, FinishJob(s)
          PROVE  results'[i] = results[i]
      BY <1>0, <1>2, <1>4, <3>1, FinishJobRecords
    <3> QED
      BY <1>0, <3>1, Bookkeeping
  <2>2. ~Live(job) /\ Len(attempts[job]) > 0
    BY <1>0, <1>2, <2>1 DEF Due
  <2>3. Len(attempts'[job]) > 0
    BY <2>2, Lasting
  <2>4. ~(job[2] \in InWave(current + 1))
    <3>1. wave[job[2]] \in 1 .. current /\ current \in Nat
      BY <1>0, <2>2 DEF Due, SchedulerTypes
    <3> QED
      BY <3>1 DEF InWave
  <2>5. \A k : job # <<"followUp", k>>
    BY <1>2 DEF Primary
  <2>6. ~Live(job)'
    BY <1>0, <2>2, <2>4, <2>5, LiveSteps
  <2> QED
    BY <1>2, <2>3, <2>6 DEF Primary
<1> QED
  BY <1>3, <1>4

LEMMA DueTasks ==
    ASSUME BatchInv, [Next]_vars
    PROVE  broken' \/ \A i \in Indices :
              wave'[i] \in 1 .. current' => results'[i] # None \/ Live(Primary(i))'
<1>0. SchedulerTypes /\ PlanInv /\ Slotted /\ Lined /\ Due
  BY DEF BatchInv
<1> SUFFICES ASSUME ~broken', NEW i \in Indices, wave'[i] \in 1 .. current'
             PROVE  results'[i] # None \/ Live(Primary(i))'
  OBVIOUS
<1>1. ~broken
  BY Lasting
<1>2. PICK job \in Jobs : job = Primary(i) /\ job[1] = "primary" /\ job[2] = i
  BY JobsOf
<1>3. CASE StartWave
  <2>1. wave' = wave /\ current' = current + 1
    BY <1>3, PlanStays DEF StartWave, planVars
  <2>2. CASE wave[i] = current + 1
    <3>1. i \in InWave(current + 1)
      BY <2>2 DEF InWave
    <3>2. \E k \in 1 .. Len(queue') : queue'[k] = job
      BY <1>0, <1>2, <1>3, <3>1, StartWaveDoes DEF Primary
    <3>3. Live(job)'
      BY <3>2 DEF Live, Queues
    <3> QED
      BY <1>2, <3>3 DEF Primary
  <2>3. CASE wave[i] \in 1 .. current
    <3>1. results[i] # None \/ Live(job)
      BY <1>0, <1>1, <1>2, <2>3 DEF Due
    <3>2. ~Live(job)
      BY <1>0, <1>3, StartIsFresh
    <3> QED
      BY <3>1, <3>2, Lasting
  <2>4. current \in Nat
    BY <1>0 DEF SchedulerTypes
  <2> QED
    BY <2>1, <2>2, <2>3, <2>4
<1>4. CASE ~StartWave
  <2>1. current' = current
    BY <1>0, <1>4, Bookkeeping
  <2>2. wave' = wave
    <3>1. CASE Planned
      BY <3>1, PlanStays DEF planVars
    <3>2. CASE ~Planned
      BY <1>0, <2>1, <3>2 DEF Lined
    <3> QED
      BY <3>1, <3>2
  <2>3. results[i] # None \/ Live(job)
    BY <1>0, <1>1, <1>2, <2>1, <2>2 DEF Due
  <2>4. CASE results[i] # None
    BY <2>4, Lasting
  <2>5. CASE Live(job) /\ ~Live(job)'
    <3>1. ASSUME NEW s \in Slots, LaunchFails(s)
          PROVE  FALSE
      BY <3>1 DEF LaunchFails
    <3>2. PICK s \in Slots : FinishJob(s) /\ slot[s].job = job
      BY <1>0, <1>4, <2>5, <3>1, LiveSteps
    <3>3. results'[i] # None
      BY <1>0, <1>2, <3>2, FinishJobRecords
    <3> QED
      BY <3>3
  <2>6. CASE Live(job)'
    BY <1>2, <2>6 DEF Primary
  <2> QED
    BY <2>3, <2>4, <2>5, <2>6
<1> QED
  BY <1>3, <1>4

LEMMA DueFollowUps ==
    ASSUME BatchInv, [Next]_vars, NEW i \in Indices, Started(FollowUp(i))'
    PROVE  batch'[i].chains /\ results'[i] # None /\ batch'[i].operation \in discovered'
<1>0. SchedulerTypes /\ PlanInv /\ Slotted /\ Lined /\ Due /\ batch' = batch
  BY SameBatch DEF BatchInv
<1>1. PICK job \in Jobs : job = FollowUp(i)
  BY JobsOf
<1>2. CASE Started(job)
  BY <1>0, <1>1, <1>2, Lasting DEF Due
<1>3. CASE ~Started(job)
  <2>1. Started(job)'
    BY <1>1 DEF FollowUp
  <2>2. job[1] = "followUp" /\ job[2] = i
    BY <1>1 DEF FollowUp
  <2>3. PICK s \in Slots : FinishJob(s) /\ MayChain(slot[s].job) /\ job = FollowUp(slot[s].job[2])
    BY <1>3, <2>1, <2>2, StartedSteps
  <2>4. PICK mine \in Jobs : mine = slot[s].job
    BY <1>0, <2>3, ReleaseDoes
  <2>5. mine = Primary(i) /\ batch[i].chains
    BY <2>2, <2>3, <2>4, JobsOf DEF MayChain, FollowUp
  <2>6. results'[i] # None
    BY <1>0, <2>3, <2>4, <2>5, FinishJobRecords
  <2>7. Live(job)'
    <3>1. Len(attempts'[job]) = Len(attempts[job])
      <4>1. ASSUME NEW u \in Slots, CreateTask(u), slot[u].job = job
            PROVE  FALSE
        BY <1>3, <4>1 DEF Started, Live, Taken
      <4> QED
        BY <1>0, <4>1, LengthSteps
    <3> QED
      BY <1>3, <2>1, <3>1 DEF Started
  <2>8. discovered' = discovered \cup {batch[i].operation}
    <3>1. ~Live(job)
      BY <1>3 DEF Started
    <3>2. ~StartWave
      BY <2>3 DEF StartWave, WaveOver, FinishJob
    <3> QED
      BY <1>0, <2>2, <2>7, <3>1, <3>2, LiveSteps
  <2> QED
    BY <1>0, <2>5, <2>6, <2>8
<1> QED
  BY <1>2, <1>3

LEMMA DueDiscoveries ==
    ASSUME BatchInv, [Next]_vars, NEW o \in discovered', ~broken'
    PROVE  \E i \in Indices : batch'[i].operation = o /\ Started(FollowUp(i))'
<1>0. SchedulerTypes /\ PlanInv /\ Slotted /\ Lined /\ Due /\ batch' = batch /\ ~broken
  BY SameBatch, Lasting DEF BatchInv
<1>1. CASE o \in discovered
  <2>1. PICK i \in Indices : batch[i].operation = o /\ Started(FollowUp(i))
    BY <1>0, <1>1 DEF Due
  <2>2. PICK job \in Jobs : job = FollowUp(i)
    BY JobsOf
  <2>3. CASE Len(attempts[job]) > 0
    <3>1. Len(attempts'[job]) > 0
      BY <2>3, Lasting
    <3> QED
      BY <1>0, <2>1, <2>2, <3>1 DEF Started, FollowUp
  <2>4. CASE Live(job) /\ Live(job)'
    BY <1>0, <2>1, <2>2, <2>4 DEF Started, FollowUp
  <2>5. CASE Live(job) /\ ~Live(job)'
    <3>1. job[1] # "primary"
      BY <2>2 DEF FollowUp
    <3>2. ASSUME NEW s \in Slots, LaunchFails(s)
          PROVE  FALSE
      BY <3>2 DEF LaunchFails
    <3>3. ASSUME StartWave
          PROVE  FALSE
      BY <1>0, <2>5, <3>3, StartIsFresh
    <3>4. PICK s \in Slots : FinishJob(s) /\ slot[s].job = job
      BY <1>0, <2>5, <3>2, <3>3, LiveSteps
    <3>5. Len(attempts[job]) > 0
      BY <1>0, <3>4, FinishJobRecords
    <3> QED
      BY <2>3, <3>5
  <2> QED
    BY <2>1, <2>2, <2>3, <2>4, <2>5 DEF Started
<1>2. CASE o \notin discovered
  <2>1. PICK s \in Slots : FinishJob(s)
    BY <1>0, <1>2, Bookkeeping
  <2>2. PICK mine \in Jobs : mine = slot[s].job
    BY <1>0, <2>1, ReleaseDoes
  <2>3. /\ mine[2] \in Indices /\ o = batch[mine[2]].operation
        /\ Len(queue') = Len(queue) + 1 /\ queue'[Len(queue) + 1] = FollowUp(mine[2])
    <3>1. discovered' # discovered
      BY <1>2
    <3>2. /\ mine[2] \in Indices /\ discovered' = discovered \cup {batch[mine[2]].operation}
          /\ Len(queue') = Len(queue) + 1 /\ queue'[Len(queue) + 1] = <<"followUp", mine[2]>>
      BY <1>0, <2>1, <2>2, <3>1, FinishJobQueues
    <3> QED
      BY <1>2, <3>2 DEF FollowUp
  <2>4. PICK i \in Indices : i = mine[2]
    BY <2>3
  <2>5. Len(queue) + 1 \in 1 .. Len(queue')
    BY <1>0, <2>3, QueueFacts
  <2>6. Started(FollowUp(i))'
    BY <2>3, <2>4, <2>5 DEF Started, Live, Queues, FollowUp
  <2> QED
    BY <1>0, <2>3, <2>4, <2>6
<1> QED
  BY <1>1, <1>2

LEMMA DueKept ==
    ASSUME BatchInv, [Next]_vars
    PROVE  Due'
<1>1. Indices' = Indices /\ Jobs' = Jobs
  BY SameBatch
<1>2. \A i : Primary(i)' = Primary(i) /\ FollowUp(i)' = FollowUp(i)
  BY DEF Primary, FollowUp
<1>3. \A job \in Jobs' : /\ Live(job)' => wave'[job[2]] = current'
                         /\ Len(attempts'[job]) > 0 => wave'[job[2]] \in 1 .. current'
  BY <1>1, DueWaves
<1>4. \A i \in Indices' : results'[i] # None =>
         ~Live(Primary(i))' /\ Len(attempts'[Primary(i)]) > 0
  BY <1>1, DueResults
<1>5. broken' \/ \A i \in Indices' :
         wave'[i] \in 1 .. current' => results'[i] # None \/ Live(Primary(i))'
  BY <1>1, DueTasks
<1>6. \A i \in Indices' : Started(FollowUp(i))' =>
         batch'[i].chains /\ results'[i] # None /\ batch'[i].operation \in discovered'
  BY <1>1, DueFollowUps
<1>7. \A o \in discovered' :
         broken' \/ \E i \in Indices' : batch'[i].operation = o /\ Started(FollowUp(i))'
  BY <1>1, DueDiscoveries
<1> QED
  BY <1>2, <1>3, <1>4, <1>5, <1>6, <1>7 DEF Due

LEMMA BatchInitially == Init => BatchInv
<1> SUFFICES ASSUME Init
             PROVE  BatchInv
  OBVIOUS
<1>1. /\ PlanInit /\ batch \in Batches /\ deep \in BOOLEAN
      /\ current = 0 /\ queue = <<>> /\ judging = None /\ writers = {} /\ discovered = {}
      /\ slot = [s \in Slots |-> [Free EXCEPT !.pc = "returned"]]
      /\ attempts = [job \in Jobs |-> <<>>]
      /\ results = [i \in Indices |-> None]
      /\ broken = FALSE
  BY DEF Init, PlanInit
<1>2. PlanInv
  BY <1>1, PlanInvInitially
<1>3. \A s \in Slots : /\ slot[s].pc = "returned" /\ slot[s].job = None /\ slot[s].claimed = {}
                       /\ slot[s].status = None /\ slot[s].noticed = FALSE
                       /\ slot[s] \in SlotRecord
  BY <1>1 DEF Free, SlotRecord, SlotStates
<1>4. Len(queue) = 0 /\ queue \in Seq(Jobs) /\ <<>> \in Seq(AttemptRecord)
      /\ \A job \in Jobs : Len(attempts[job]) = 0
  BY <1>1, EmptySeq
<1>5. MaxAttempts \in Nat \ {0}
  BY SchedulerConstants
<1>6. SchedulerTypes
  <2>1. slot \in [Slots -> SlotRecord]
    BY <1>1, <1>3
  <2>2. attempts \in [Jobs -> Seq(AttemptRecord)]
    BY <1>1, <1>4
  <2>3. results \in [Indices -> AttemptStates \cup {None}]
    BY <1>1
  <2>4. \A s \in Slots : slot[s].pc \notin Working /\ slot[s].pc # "create" /\ slot[s].pc \notin Holding
    BY <1>3 DEF Working, Holding
  <2>5. \A job \in Jobs : Len(attempts[job]) <= MaxAttempts
    BY <1>4, <1>5
  <2>6. /\ current \in Nat /\ judging \in AttemptIds \cup {None} /\ broken \in BOOLEAN
        /\ writers \subseteq Operations /\ discovered \subseteq Operations
    BY <1>1
  <2> QED
    BY <1>1, <1>4, <2>1, <2>2, <2>3, <2>4, <2>5, <2>6 DEF SchedulerTypes
<1>7. Slotted
  BY <1>1, <1>3 DEF Slotted
<1>8. Lined
  BY <1>1, <1>3, <1>4 DEF Lined, WaveOver
<1>9. Due
  <2>1. \A job \in Jobs : ~Queues(job) /\ ~Taken(job)
    BY <1>3, <1>4, <1>6, JobsAreNotNone DEF Queues, Taken
  <2>2. \A job \in Jobs : ~Started(job) /\ ~Live(job)
    BY <1>4, <2>1 DEF Started, Live
  <2>3. \A i \in Indices : FollowUp(i) \in Jobs
    BY JobsOf
  <2>4. \A i \in Indices : results[i] = None /\ ~(wave[i] \in 1 .. current)
    BY <1>1
  <2> QED
    BY <1>1, <1>4, <2>2, <2>3, <2>4 DEF Due
<1> QED
  BY <1>2, <1>6, <1>7, <1>8, <1>9 DEF BatchInv

LEMMA PlanStepKept ==
    ASSUME BatchInv, [Next]_vars
    PROVE  PlanInv'
<1>1. PlanInv
  BY DEF BatchInv
<1>2. [PlanNext]_planVars
  BY PlanAlone
<1> QED
  BY <1>1, <1>2, PlanInvKept

LEMMA BatchKept == BatchInv /\ [Next]_vars => BatchInv'
<1> SUFFICES ASSUME BatchInv, [Next]_vars
             PROVE  BatchInv'
  OBVIOUS
<1>1. SchedulerTypes'
  BY TypesKept
<1>2. PlanInv'
  BY PlanStepKept
<1>3. Slotted'
  BY SlottedKept DEF BatchInv
<1>4. Lined'
  BY LinedKept
<1>5. Due'
  BY DueKept
<1> QED
  BY <1>1, <1>2, <1>3, <1>4, <1>5 DEF BatchInv

LEMMA BatchHolds == Spec => []BatchInv
  BY BatchInitially, BatchKept, PTL DEF Spec

\* Waves follow one another without a gap: past the last one there is no task.
LEMMA WavesRunOut ==
    ASSUME BatchInv, Planned, current + 1 \notin Waves
    PROVE  \A i \in Indices : wave[i] \in 1 .. current
<1> SUFFICES ASSUME NEW i \in Indices
             PROVE  wave[i] \in 1 .. current
  OBVIOUS
<1>1. PlanSound
  BY PlansAreSound DEF BatchInv
<1>2. current \in Nat /\ wave[i] \in Nat
  BY DEF BatchInv, SchedulerTypes, PlanInv, OrderInv, PlanBase, PlanTypeOK
<1>3. wave[i] # 0 /\ wave[i] # current + 1
  BY <1>1 DEF PlanSound, EveryTaskPlanned, Waves
<1>4. ~(wave[i] > current + 1)
  <2> SUFFICES ASSUME wave[i] > current + 1
               PROVE  FALSE
    OBVIOUS
  <2>1. current + 1 \in 1 .. wave[i] - 1
    BY <1>2
  <2>2. \E j \in Indices : wave[j] = current + 1
    BY <1>1, <2>1 DEF PlanSound, HeldBackForCause, InWave
  <2> QED
    BY <2>2 DEF Waves
<1> QED
  BY <1>2, <1>3, <1>4

LEMMA NothingIsStranded == BatchInv => NothingStranded
<1> SUFFICES ASSUME BatchInv, Returned
             PROVE  /\ queue = <<>>
                    /\ writers = {}
                    /\ broken \/ \A i \in Indices :
                          /\ results[i] # None
                          /\ batch[i].chains /\ batch[i].operation \in discovered =>
                                \E k \in Indices : /\ batch[k].operation = batch[i].operation
                                                   /\ attempts[<<"followUp", k>>] # <<>>
  BY DEF NothingStranded
<1>0. SchedulerTypes /\ PlanInv /\ Slotted /\ Lined /\ Due
  BY DEF BatchInv
<1>1. WaveOver /\ Planned
  BY DEF Returned
<1>2. queue = <<>>
  BY <1>0, <1>1 DEF Lined
<1>3. \A s \in Slots : slot[s].job = None /\ slot[s].claimed = {}
  BY <1>0, <1>1, OverIsIdle
<1>4. writers = {}
  BY <1>0, <1>3 DEF Slotted
<1>5. \A job \in Jobs : ~Live(job)
  BY <1>0, <1>2, <1>3, QueueFacts, JobsAreNotNone DEF Live, Queues, Taken
<1>6. ASSUME ~broken, NEW i \in Indices
      PROVE  /\ results[i] # None
             /\ batch[i].operation \in discovered =>
                   \E k \in Indices : /\ batch[k].operation = batch[i].operation
                                      /\ attempts[<<"followUp", k>>] # <<>>
  <2>1. wave[i] \in 1 .. current
    BY <1>6, WavesRunOut DEF Returned
  <2>2. results[i] # None
    BY <1>0, <1>5, <1>6, <2>1, JobsOf DEF Due
  <2>3. ASSUME batch[i].operation \in discovered
        PROVE  \E k \in Indices : /\ batch[k].operation = batch[i].operation
                                  /\ attempts[<<"followUp", k>>] # <<>>
    <3>1. PICK k \in Indices : batch[k].operation = batch[i].operation /\ Started(FollowUp(k))
      BY <1>0, <1>6, <2>3 DEF Due
    <3>2. Len(attempts[FollowUp(k)]) > 0
      BY <1>5, <3>1, JobsOf DEF Started
    <3>3. attempts[FollowUp(k)] # <<>>
      BY <3>2, EmptySeq
    <3> QED
      BY <3>1, <3>3 DEF FollowUp
  <2> QED
    BY <2>2, <2>3
<1> QED
  BY <1>2, <1>4, <1>6

\* When run_many_then returns, the queue is empty and no claim is held; unless an
\* engine error came up, every task has its run, and every discovery that was
\* chained has been attempted, by slots that come back for it.
THEOREM NoneIsStranded == Spec => []NothingStranded
  BY BatchHolds, NothingIsStranded, PTL

-----------------------------------------------------------------------------
(* Attempts and the sessions that run them *)

InSession(job) == \E s \in Slots : slot[s].pc = "session" /\ slot[s].job = job

Watched == {"session", "exited", "failing", "settle"}

\* An attempt that says Committed has landed, whatever was made of it before.
CommitsLand ==
    \A job \in Jobs : \A n \in 1 .. Len(attempts[job]) :
        attempts[job][n].state = "Committed" => attempts[job][n].landed

\* Of the attempts whose session was not cut off: a patch is on its way only from
\* the latest, while its session runs; the attempt judged is the one that is
\* committing; and what has landed is the latest attempt, committed.
RecordsSound ==
    \A job \in Jobs : \A n \in 1 .. Len(attempts[job]) : <<job, n>> \notin cut =>
        /\ attempts[job][n].sent # {} => n = Len(attempts[job]) /\ InSession(job)
        /\ judging = <<job, n>> <=> attempts[job][n].state = "Committing"
        /\ attempts[job][n].state = "Committing" => attempts[job][n].sent # {}
        /\ attempts[job][n].landed => attempts[job][n].state = "Committed"
        /\ attempts[job][n].landed => n = Len(attempts[job])

\* Only unfinished work is tried again, noticed invalidations are true, and no
\* committed task is failed, as long as the session was not cut off.
WatchSound ==
    \A s \in Slots : \A job \in Jobs : slot[s].job = job =>
        /\ slot[s].pc = "create" =>
              \A n \in 1 .. Len(attempts[job]) : attempts[job][n].landed => <<job, n>> \in cut
        /\ slot[s].pc \in Watched /\ slot[s].noticed /\ <<job, Len(attempts[job])>> \notin cut =>
              attempts[job][Len(attempts[job])].state = "Invalidated"
        /\ slot[s].pc = "failing" /\ <<job, Len(attempts[job])>> \notin cut =>
              attempts[job][Len(attempts[job])].state # "Committed"

RunsSound ==
    \A i \in Indices : results[i] # None =>
        /\ results[i] = "Committed" =>
              \E n \in 1 .. Len(attempts[Primary(i)]) : attempts[Primary(i)][n].landed
        /\ \A n \in 1 .. Len(attempts[Primary(i)]) :
              attempts[Primary(i)][n].landed /\ <<Primary(i), n>> \notin cut =>
                  results[i] = "Committed"

SessionInv == BatchInv /\ CommitsLand /\ RecordsSound /\ WatchSound /\ RunsSound

\* What has been cut off stays so.
LEMMA CutGrows ==
    ASSUME [Next]_vars
    PROVE  cut \subseteq cut'
<1>1. CASE Plan \/ StartWave \/ Sequencer \/ Rest \/ UNCHANGED vars
  BY <1>1 DEF Plan, StartWave, Sequencer, TakePatch, Commit, RefuseStale, RefuseFixable, Rest,
         vars, runVars
<1>2. ASSUME NEW s \in Slots, Harness(s)
      PROVE  cut \subseteq cut'
  BY <1>2 DEF Harness, FetchNothing, FetchJob, CreateTask, ContextBundle, LaunchFails, FirstLook,
         FailTask, Replace, FinishJob
<1>3. ASSUME NEW s \in Slots, Agent(s)
      PROVE  cut \subseteq cut'
  BY <1>3 DEF Agent, ReadMore, SubmitPatch, NoticeInvalidation, Exit
<1> QED
  BY <1>1, <1>2, <1>3 DEF Next

LEMMA OneChanges ==
    ASSUME SchedulerTypes, RecordsSound, Jobs' = Jobs, cut \subseteq cut',
           NEW a \in AttemptIds, NEW r, Becomes(a, r),
           \A job \in Jobs : \A n \in 1 .. Len(attempts[job]) :
               attempts[job][n].sent # {} /\ <<job, n>> \notin cut' => InSession(job)',
           \A job \in Jobs : \A n \in 1 .. Len(attempts[job]) :
               <<job, n>> # a => (judging' = <<job, n>> <=> judging = <<job, n>>),
           a \notin cut' =>
               /\ r.sent # {} => /\ a[2] = Len(attempts[a[1]])
                                 /\ \E job \in Jobs : job = a[1] /\ InSession(job)'
               /\ judging' = a <=> r.state = "Committing"
               /\ r.state = "Committing" => r.sent # {}
               /\ r.landed => r.state = "Committed"
               /\ r.landed => a[2] = Len(attempts[a[1]])
    PROVE  RecordsSound'
<1> SUFFICES ASSUME NEW job \in Jobs, NEW n \in 1 .. Len(attempts'[job]), <<job, n>> \notin cut'
             PROVE  /\ attempts'[job][n].sent # {} => n = Len(attempts'[job]) /\ InSession(job)'
                    /\ judging' = <<job, n>> <=> attempts'[job][n].state = "Committing"
                    /\ attempts'[job][n].state = "Committing" => attempts'[job][n].sent # {}
                    /\ attempts'[job][n].landed => attempts'[job][n].state = "Committed"
                    /\ attempts'[job][n].landed => n = Len(attempts'[job])
  BY DEF RecordsSound, InSession
<1>1. Len(attempts'[job]) = Len(attempts[job]) /\ n \in 1 .. Len(attempts[job])
  BY DEF Becomes
<1>2. a = <<a[1], a[2]>> /\ a[1] \in Jobs
  BY AttemptsTyped
<1>3. CASE <<job, n>> = a
  <2>1. attempts'[job][n] = r /\ job = a[1] /\ n = a[2]
    BY <1>2, <1>3 DEF Becomes
  <2> QED
    BY <1>1, <1>3, <2>1
<1>4. CASE <<job, n>> # a
  <2>1. attempts'[job][n] = attempts[job][n]
    BY <1>1, <1>4 DEF Becomes
  <2> QED
    BY <1>1, <1>4, <2>1 DEF RecordsSound
<1> QED
  BY <1>3, <1>4

\* The slot of a job is the only one.
LEMMA OneSlot ==
    ASSUME SchedulerTypes, Slotted, NEW s \in Slots, NEW u \in Slots, NEW job \in Jobs,
           slot[s].job = job, slot[u].job = job
    PROVE  s = u
  BY JobsAreNotNone DEF Slotted

LEMMA SessionsGoOn ==
    ASSUME SchedulerTypes, Slotted, [Next]_vars, NEW job \in Jobs, InSession(job),
           \A s \in Slots : slot[s].job = job => ~Exit(s)
    PROVE  InSession(job)'
<1>1. PICK s \in Slots : slot[s].pc = "session" /\ slot[s].job = job
  BY DEF InSession
<1>2. slot \in [Slots -> SlotRecord]
  BY DEF SchedulerTypes
<1>3. slot'[s].pc = "session" /\ slot'[s].job = job
  <2>1. CASE UNCHANGED slot
    BY <1>1, <2>1
  <2>2. CASE StartWave
    BY <1>1, <2>2 DEF StartWave, WaveOver
  <2>3. ASSUME NEW u \in Slots, Harness(u) \/ Agent(u)
        PROVE  slot'[s] = slot[s] \/ NoticeInvalidation(s)
    <3>1. CASE FetchNothing(u) \/ FetchJob(u) \/ CreateTask(u) \/ LaunchFails(u) \/ FirstLook(u)
               \/ FailTask(u) \/ Replace(u) \/ FinishJob(u) \/ ContextBundle(u)
      <4>1. u # s
        BY <1>1, <3>1 DEF FetchNothing, FetchJob, CreateTask, LaunchFails, FirstLook, FailTask,
               Replace, FinishJob, ContextBundle
      <4>2. slot'[s] = slot[s]
        BY <1>2, <3>1, <4>1 DEF FetchNothing, FetchJob, CreateTask, LaunchFails, FirstLook, FailTask,
               Replace, FinishJob, BackToQueue, ContextBundle, Goto
      <4> QED
        BY <4>2
    <3>2. CASE NoticeInvalidation(u)
      BY <1>2, <3>2 DEF NoticeInvalidation
    <3>3. CASE Exit(u)
      <4>1. u # s
        BY <1>1, <3>3
      <4>2. PICK status : slot' = [slot EXCEPT ![u].pc = "exited", ![u].status = status]
        BY <3>3 DEF Exit
      <4> QED
        BY <1>2, <4>1, <4>2
    <3>4. CASE ReadMore(u) \/ SubmitPatch(u)
      BY <3>4 DEF ReadMore, SubmitPatch
    <3> QED
      BY <2>3, <3>1, <3>2, <3>3, <3>4 DEF Harness, Agent
  <2>4. CASE NoticeInvalidation(s)
    BY <1>1, <1>2, <2>4 DEF NoticeInvalidation, SlotRecord
  <2>5. CASE Plan \/ Sequencer \/ Rest \/ UNCHANGED vars
    BY <1>1, <2>5 DEF Plan, Sequencer, TakePatch, Commit, RefuseStale, RefuseFixable, Rest, vars,
           runVars
  <2> QED
    BY <1>1, <2>1, <2>2, <2>3, <2>4, <2>5 DEF Next
<1> QED
  BY <1>3 DEF InSession

\* What a step may make of the attempts there are.
LEMMA StateSteps ==
    ASSUME SchedulerTypes, [Next]_vars, NEW job \in Jobs, NEW n \in 1 .. Len(attempts[job])
    PROVE  /\ attempts'[job][n].state = "Committed" =>
                 attempts[job][n].state = "Committed" \/ (Commit /\ judging = <<job, n>>)
           /\ attempts'[job][n].landed =>
                 attempts[job][n].landed \/ (Commit /\ judging = <<job, n>>)
           /\ attempts[job][n].landed => attempts'[job][n].landed
           /\ (attempts[job][n].state = "Committed" => attempts[job][n].landed) =>
                 (attempts'[job][n].state = "Committed" => attempts'[job][n].landed)
           /\ attempts[job][n].state = "Invalidated" =>
                 attempts'[job][n].state = "Invalidated" \/ judging = <<job, n>>
           /\ attempts'[job][n].state = "Invalidated" =>
                 \/ attempts[job][n].state = "Invalidated"
                 \/ judging = <<job, n>>
                 \/ Commit
           /\ attempts'[job][n].sent \subseteq attempts[job][n].sent \cup MaySend(<<job, n>>)
           /\ \/ attempts'[job][n].shifted \subseteq attempts[job][n].shifted
              \/ /\ Commit /\ judging # <<job, n>> /\ judging \notin cut
                 /\ attempts'[job][n].shifted \subseteq
                        attempts[job][n].shifted \cup Attempt(judging).sent
<1> DEFINE r == attempts[job][n]
           Goal(q) ==
               /\ q.state = "Committed" => r.state = "Committed" \/ (Commit /\ judging = <<job, n>>)
               /\ q.landed => r.landed \/ (Commit /\ judging = <<job, n>>)
               /\ r.landed => q.landed
               /\ (r.state = "Committed" => r.landed) => (q.state = "Committed" => q.landed)
               /\ r.state = "Invalidated" => q.state = "Invalidated" \/ judging = <<job, n>>
               /\ q.state = "Invalidated" =>
                     r.state = "Invalidated" \/ judging = <<job, n>> \/ Commit
               /\ q.sent \subseteq r.sent \cup MaySend(<<job, n>>)
               /\ \/ q.shifted \subseteq r.shifted
                  \/ /\ Commit /\ judging # <<job, n>> /\ judging \notin cut
                     /\ q.shifted \subseteq r.shifted \cup Attempt(judging).sent
<1>0. r \in AttemptRecord
  BY AttemptsTyped
<1>1. ASSUME NEW a \in AttemptIds, NEW q, Becomes(a, q), <<job, n>> = a => Goal(q)
      PROVE  Goal(attempts'[job][n])
  <2>1. a = <<a[1], a[2]>>
    BY AttemptsTyped
  <2>2. CASE <<job, n>> = a
    <3>1. attempts'[job][n] = q
      BY <1>1, <2>1, <2>2 DEF Becomes
    <3> QED
      BY <1>1, <2>2, <3>1
  <2>3. CASE <<job, n>> # a
    <3>1. attempts'[job][n] = r
      BY <1>1, <2>3 DEF Becomes
    <3> QED
      BY <3>1
  <2> QED
    BY <2>2, <2>3
<1>2. ASSUME NEW a \in AttemptIds, <<job, n>> = a
      PROVE  Attempt(a) = r
  BY <1>2 DEF Attempt
<1>3. ASSUME NEW s \in Slots, ContextBundle(s) \/ ReadMore(s)
      PROVE  Goal(attempts'[job][n])
  <2>1. Mine(s) \in AttemptIds
    BY <1>3, AttemptsTyped DEF ContextBundle, ReadMore, Holding
  <2>2. PICK reads : Becomes(Mine(s), [Attempt(Mine(s)) EXCEPT !.reads = reads])
    BY <1>3, ContextBundleDoes, ReadMoreDoes
  <2>3. PICK a \in AttemptIds : a = Mine(s)
    BY <2>1
  <2>4. <<job, n>> = a => Goal([Attempt(a) EXCEPT !.reads = reads])
    BY <1>0, <1>2 DEF AttemptRecord
  <2> HIDE DEF Goal
  <2> QED
    BY <1>1, <2>2, <2>3, <2>4
<1>4. ASSUME NEW s \in Slots, SubmitPatch(s)
      PROVE  Goal(attempts'[job][n])
  <2>1. Mine(s) \in AttemptIds
    BY <1>4, AttemptsTyped DEF SubmitPatch, Holding
  <2>2. PICK sent \in SUBSET MaySend(Mine(s)) :
            Becomes(Mine(s), [Attempt(Mine(s)) EXCEPT !.sent = sent])
    BY <1>4, SubmitPatchDoes
  <2>3. PICK a \in AttemptIds : a = Mine(s)
    BY <2>1
  <2>5. sent \subseteq MaySend(a)
    BY <2>2, <2>3
  <2>4. <<job, n>> = a => Goal([Attempt(a) EXCEPT !.sent = sent])
    BY <1>0, <1>2, <2>5 DEF AttemptRecord
  <2> HIDE DEF Goal
  <2> QED
    BY <1>1, <2>2, <2>3, <2>4
<1>5. ASSUME NEW a \in AttemptIds, TakePatch(a)
      PROVE  Goal(attempts'[job][n])
  <2>1. PICK q : /\ Becomes(a, q)
                 /\ \/ Attempt(a).state = "Running" /\ q = [Attempt(a) EXCEPT !.state = "Committing"]
                    \/ q = [Attempt(a) EXCEPT !.sent = {}]
    BY <1>5, TakePatchDoes
  <2>2. <<job, n>> = a => Goal(q)
    BY <1>0, <1>2, <2>1 DEF AttemptRecord
  <2> HIDE DEF Goal
  <2> QED
    BY <1>1, <2>1, <2>2
<1>6. ASSUME RefuseStale \/ RefuseFixable
      PROVE  Goal(attempts'[job][n])
  <2>1. PICK q : /\ judging \in AttemptIds /\ Becomes(judging, q)
                 /\ \/ q = Ended(Attempt(judging), "Invalidated")
                    \/ q = [Attempt(judging) EXCEPT !.state = "Running", !.sent = {}]
    BY <1>6, RefusalDoes
  <2>2. PICK a \in AttemptIds : a = judging
    BY <2>1
  <2>3. <<job, n>> = a => Goal(q)
    BY <1>0, <1>2, <2>1, <2>2 DEF AttemptRecord, Ended
  <2>4. Becomes(a, q)
    BY <2>1, <2>2
  <2> HIDE DEF Goal
  <2> QED
    BY <1>1, <2>3, <2>4
<1>7. ASSUME NEW s \in Slots, FailTask(s)
      PROVE  Goal(attempts'[job][n])
  <2>1. Mine(s) \in AttemptIds
    BY <1>7, AttemptsTyped DEF FailTask, Holding
  <2>2. PICK a \in AttemptIds : a = Mine(s)
    BY <2>1
  <2>3. CASE UNCHANGED attempts
    BY <2>3
  <2>4. CASE attempts' # attempts
    <3>1. Becomes(a, Left([Attempt(a) EXCEPT !.state = "Failed"]))
      BY <1>7, <2>2, <2>4, FailTaskDoes
    <3>2. Attempt(a).state # "Invalidated"
      BY <1>7, <2>2, <2>4 DEF FailTask, Active
    <3>3. <<job, n>> = a => Goal(Left([Attempt(a) EXCEPT !.state = "Failed"]))
      BY <1>0, <1>2, <3>2 DEF AttemptRecord, Left, Ended
    <3> HIDE DEF Goal
    <3> QED
      BY <1>1, <3>1, <3>3
  <2> QED
    BY <2>3, <2>4
<1>8. ASSUME NEW s \in Slots, FinishJob(s)
      PROVE  Goal(attempts'[job][n])
  <2>1. Mine(s) \in AttemptIds
    BY <1>8, AttemptsTyped DEF FinishJob, Holding
  <2>2. PICK a \in AttemptIds : a = Mine(s)
    BY <2>1
  <2>3. Becomes(a, Left(Attempt(a)))
    BY <1>8, <2>2, FinishJobDoes
  <2>4. <<job, n>> = a => Goal(Left(Attempt(a)))
    BY <1>0, <1>2 DEF AttemptRecord, Left, Ended
  <2> HIDE DEF Goal
  <2> QED
    BY <1>1, <2>3, <2>4
<1>9. ASSUME Commit
      PROVE  Goal(attempts'[job][n])
  <2>1. attempts'[job][n] = IF <<job, n>> = judging
                            THEN [Ended(r, "Committed") EXCEPT !.landed = TRUE]
                            ELSE Swept(r, Attempt(judging).sent, judging \notin cut)
    BY <1>9, CommitDoes
  <2>2. CASE <<job, n>> = judging
    BY <1>0, <1>9, <2>1, <2>2 DEF AttemptRecord, Ended
  <2>3. CASE <<job, n>> # judging
    <3>1. PICK patch : patch = Attempt(judging).sent
      OBVIOUS
    <3>2. \/ attempts'[job][n] = r
          \/ attempts'[job][n] = Ended(r, "Invalidated")
          \/ /\ judging \notin cut
             /\ attempts'[job][n] = [r EXCEPT !.moved = @ \cup patch, !.shifted = @ \cup patch]
          \/ attempts'[job][n] = [r EXCEPT !.moved = @ \cup patch, !.shifted = @]
      BY <2>1, <2>3, <3>1 DEF Swept
    <3>3. Ended(r, "Invalidated").shifted = {} /\ Ended(r, "Invalidated").sent = {}
          /\ Ended(r, "Invalidated").state = "Invalidated"
          /\ Ended(r, "Invalidated").landed = r.landed
      BY <1>0 DEF AttemptRecord, Ended
    <3>4. CASE attempts'[job][n] = r
      BY <3>4
    <3>5. CASE attempts'[job][n] = Ended(r, "Invalidated")
      BY <1>9, <3>3, <3>5
    <3>6. CASE /\ judging \notin cut
               /\ attempts'[job][n] = [r EXCEPT !.moved = @ \cup patch, !.shifted = @ \cup patch]
      BY <1>0, <1>9, <2>3, <3>1, <3>6 DEF AttemptRecord
    <3>7. CASE attempts'[job][n] = [r EXCEPT !.moved = @ \cup patch, !.shifted = @]
      BY <1>0, <3>7 DEF AttemptRecord
    <3> QED
      BY <3>2, <3>4, <3>5, <3>6, <3>7
  <2> QED
    BY <2>2, <2>3
<1>10. ASSUME NEW s \in Slots, CreateTask(s)
       PROVE  Goal(attempts'[job][n])
  <2>1. PICK mine \in Jobs : mine = slot[s].job
    BY <1>10, CreateTaskDoes
  <2>2. attempts'[job][n] = r
    BY <1>10, <2>1, CreateTaskDoes
  <2> QED
    BY <2>2
<1>11. ASSUME UNCHANGED attempts
      PROVE  Goal(attempts'[job][n])
  BY <1>11
<1> HIDE DEF Goal
<1>12. Goal(attempts'[job][n])
  <2>1. ASSUME NEW s \in Slots, CreateTask(s) \/ ContextBundle(s) \/ ReadMore(s) \/ SubmitPatch(s)
                                 \/ FailTask(s) \/ FinishJob(s)
        PROVE  Goal(attempts'[job][n])
    BY <1>3, <1>4, <1>7, <1>8, <1>10, <2>1
  <2>2. CASE UNCHANGED <<attempts, judging>>
    BY <1>11, <2>2
  <2> QED
    BY <1>5, <1>6, <1>9, <2>1, <2>2, Others
<1> QED
  BY <1>12 DEF Goal

\* A session whose patch is on the way goes on, or is cut off.
LEMMA SendersStay ==
    ASSUME SessionInv, [Next]_vars, NEW job \in Jobs, NEW n \in 1 .. Len(attempts[job]),
           attempts[job][n].sent # {}, <<job, n>> \notin cut'
    PROVE  InSession(job)'
<1>0. SchedulerTypes /\ Slotted /\ RecordsSound
  BY DEF SessionInv, BatchInv
<1>1. n = Len(attempts[job]) /\ InSession(job)
  BY <1>0, CutGrows DEF RecordsSound
<1>2. ASSUME NEW s \in Slots, slot[s].job = job, Exit(s)
      PROVE  FALSE
  BY <1>1, <1>2 DEF Exit, Attempt, Mine
<1> QED
  BY <1>0, <1>1, <1>2, SessionsGoOn

\* What slot s works on, attempt by attempt.
LEMMA AtWork ==
    ASSUME SessionInv, NEW s \in Slots, slot[s].pc \in Holding
    PROVE  \E job \in Jobs :
              LET n == Len(attempts[job])
                  r == attempts[job][n] IN
              /\ slot[s].job = job
              /\ n \in 1 .. Len(attempts[job])
              /\ Mine(s) = <<job, n>> /\ <<job, n>> \in AttemptIds
              /\ r \in AttemptRecord /\ Attempt(<<job, n>>) = r
              /\ <<job, n>> \notin cut =>
                    /\ r.sent # {} => slot[s].pc = "session"
                    /\ judging = <<job, n>> <=> r.state = "Committing"
                    /\ r.state = "Committing" => r.sent # {}
                    /\ r.landed => r.state = "Committed"
<1>0. SchedulerTypes /\ Slotted /\ RecordsSound
  BY DEF SessionInv, BatchInv
<1>1. PICK job \in Jobs : slot[s].job = job
  BY <1>0, AttemptsTyped
<1>2. /\ Len(attempts[job]) \in 1 .. Len(attempts[job])
      /\ Mine(s) = <<job, Len(attempts[job])>>
  <2>1. Len(attempts[job]) > 0 /\ Len(attempts[job]) \in Nat
    BY <1>0, <1>1, AttemptsTyped DEF SchedulerTypes
  <2> QED
    BY <1>1, <2>1 DEF Mine
<1>3. <<job, Len(attempts[job])>> \notin cut /\ attempts[job][Len(attempts[job])].sent # {} =>
          slot[s].pc = "session"
  BY <1>0, <1>1, <1>2, OneSlot DEF RecordsSound, InSession
<1> QED
  BY <1>0, <1>1, <1>2, <1>3, AttemptsTyped DEF RecordsSound, Attempt

\* An attempt comes to be Committed by landing.
LEMMA LandingsKept ==
    ASSUME SessionInv, [Next]_vars
    PROVE  CommitsLand'
<1>0. SchedulerTypes /\ CommitsLand /\ Jobs' = Jobs
  BY SameBatch DEF SessionInv, BatchInv
<1> SUFFICES ASSUME NEW job \in Jobs, NEW n \in 1 .. Len(attempts'[job])
             PROVE  attempts'[job][n].state = "Committed" => attempts'[job][n].landed
  BY <1>0 DEF CommitsLand
<1>1. CASE n \in 1 .. Len(attempts[job])
  BY <1>0, <1>1, StateSteps DEF CommitsLand
<1>2. CASE n \notin 1 .. Len(attempts[job])
  <2>1. PICK s \in Slots : /\ CreateTask(s) /\ slot[s].job = job
                           /\ Len(attempts'[job]) = Len(attempts[job]) + 1
    BY <1>0, <1>2, LengthSteps
  <2>2. n = Len(attempts[job]) + 1
    BY <1>0, <1>2, <2>1, LengthSteps
  <2>3. attempts'[job][n] = Fresh
    BY <1>0, <2>1, <2>2, CreateTaskDoes
  <2> QED
    BY <2>3 DEF Fresh
<1> QED
  BY <1>1, <1>2

LEMMA RecordsKept ==
    ASSUME SessionInv, [Next]_vars
    PROVE  RecordsSound'
<1>0. /\ SchedulerTypes /\ Slotted /\ RecordsSound /\ WatchSound /\ Jobs' = Jobs
      /\ cut \subseteq cut'
  BY SameBatch, CutGrows DEF SessionInv, BatchInv
<1>1. \A job \in Jobs : \A n \in 1 .. Len(attempts[job]) :
         attempts[job][n].sent # {} /\ <<job, n>> \notin cut' => InSession(job)'
  BY SendersStay
<1>2. CASE UNCHANGED <<attempts, judging>>
  <2> SUFFICES ASSUME NEW job \in Jobs, NEW n \in 1 .. Len(attempts[job]), <<job, n>> \notin cut'
               PROVE  attempts[job][n].sent # {} => InSession(job)'
    BY <1>0, <1>2 DEF RecordsSound, InSession
  <2> QED
    BY <1>1
<1>3. ASSUME NEW s \in Slots, ContextBundle(s) \/ ReadMore(s)
      PROVE  RecordsSound'
  <2>1. slot[s].pc \in Holding
    BY <1>3 DEF ContextBundle, ReadMore, Holding
  <2>2. PICK job \in Jobs :
            LET n == Len(attempts[job])
                r == attempts[job][n] IN
            /\ slot[s].job = job
            /\ n \in 1 .. Len(attempts[job])
            /\ Mine(s) = <<job, n>> /\ <<job, n>> \in AttemptIds
            /\ r \in AttemptRecord /\ Attempt(<<job, n>>) = r
    BY <2>1, AtWork
  <2> DEFINE n == Len(attempts[job])
             r == attempts[job][n]
  <2>3. PICK reads : Becomes(<<job, n>>, [r EXCEPT !.reads = reads])
    BY <1>0, <1>3, <2>2, ContextBundleDoes, ReadMoreDoes
  <2>4. PICK q : q = [r EXCEPT !.reads = reads]
    OBVIOUS
  <2>5. q.sent = r.sent /\ q.state = r.state /\ q.landed = r.landed
    BY <2>2, <2>4 DEF AttemptRecord
  <2>6. judging' = judging
    BY <1>3 DEF ContextBundle, ReadMore
  <2>7. q.sent # {} /\ <<job, n>> \notin cut' => InSession(job)'
    BY <1>1, <2>2, <2>5
  <2>8. <<job, n>> \notin cut' =>
            /\ judging = <<job, n>> <=> q.state = "Committing"
            /\ q.state = "Committing" => q.sent # {}
            /\ q.landed => q.state = "Committed"
    BY <1>0, <2>2, <2>5 DEF RecordsSound
  <2> QED
    BY <1>0, <1>1, <2>2, <2>3, <2>4, <2>6, <2>7, <2>8, OneChanges
<1>4. ASSUME NEW s \in Slots, SubmitPatch(s)
      PROVE  RecordsSound'
  <2>1. slot[s].pc \in Holding
    BY <1>4 DEF SubmitPatch, Holding
  <2>2. PICK job \in Jobs :
            LET n == Len(attempts[job])
                r == attempts[job][n] IN
            /\ slot[s].job = job
            /\ n \in 1 .. Len(attempts[job])
            /\ Mine(s) = <<job, n>> /\ <<job, n>> \in AttemptIds
            /\ r \in AttemptRecord /\ Attempt(<<job, n>>) = r
    BY <2>1, AtWork
  <2> DEFINE n == Len(attempts[job])
             r == attempts[job][n]
  <2>3. PICK sent : Becomes(<<job, n>>, [r EXCEPT !.sent = sent])
    BY <1>0, <1>4, <2>2, SubmitPatchDoes
  <2>4. PICK q : q = [r EXCEPT !.sent = sent]
    OBVIOUS
  <2>5. q.state = "Running" /\ r.state = "Running" /\ q.landed = r.landed
    <3>1. Attempt(<<job, n>>).state = "Running"
      BY <1>4, <2>2 DEF SubmitPatch
    <3> QED
      BY <2>2, <2>4, <3>1 DEF AttemptRecord
  <2>6. judging' = judging /\ slot' = slot
    BY <1>4 DEF SubmitPatch
  <2>7. InSession(job)'
    BY <1>4, <2>2, <2>6 DEF SubmitPatch, InSession
  <2>8. <<job, n>> \notin cut' => judging # <<job, n>> /\ ~q.landed
    BY <1>0, <2>2, <2>5 DEF RecordsSound
  <2> QED
    BY <1>0, <1>1, <2>2, <2>3, <2>4, <2>5, <2>6, <2>7, <2>8, OneChanges
<1>5. ASSUME NEW a \in AttemptIds, TakePatch(a)
      PROVE  RecordsSound'
  <2>1. PICK job \in Jobs : a[1] = job
    BY <1>0, AttemptsTyped
  <2>2. PICK n \in 1 .. Len(attempts[job]) : a = <<job, n>>
    BY <1>0, <2>1, AttemptsTyped
  <2> DEFINE r == attempts[job][n]
  <2>3. Attempt(a) = r /\ r \in AttemptRecord /\ a # None
    BY <1>0, <2>2, AttemptsTyped DEF Attempt
  <2>4. judging = None /\ r.sent # {}
    BY <1>0, <1>5, <2>3, TakePatchDoes
  <2>5. a \notin cut' =>
            /\ n = Len(attempts[job]) /\ InSession(job)' /\ r.state # "Committing"
            /\ r.landed => r.state = "Committed"
    BY <1>0, <1>1, <2>2, <2>3, <2>4 DEF RecordsSound
  <2>6. CASE r.state = "Running"
    <3>1. PICK q : Becomes(a, q) /\ q = [r EXCEPT !.state = "Committing"]
      BY <1>0, <1>5, <2>3, <2>6, TakePatchDoes
    <3>2. judging' = a
      BY <1>0, <1>5, <2>3, <2>6, TakePatchDoes
    <3>3. q.state = "Committing" /\ q.sent = r.sent /\ (a \notin cut' => ~q.landed)
      BY <2>3, <2>5, <2>6, <3>1 DEF AttemptRecord
    <3>4. \A j \in Jobs : \A m \in 1 .. Len(attempts[j]) : judging # <<j, m>>
      BY <1>0, <2>4, AttemptsTyped
    <3>5. a[1] = job /\ (a \notin cut' => a[2] = Len(attempts[a[1]]))
      BY <2>2, <2>5
    <3> QED
      BY <1>0, <1>1, <2>4, <2>5, <3>1, <3>2, <3>3, <3>4, <3>5, OneChanges
  <2>7. CASE r.state # "Running"
    <3>1. PICK q : Becomes(a, q) /\ q = [r EXCEPT !.sent = {}]
      BY <1>0, <1>5, <2>3, <2>7, TakePatchDoes
    <3>2. judging' = judging
      BY <1>0, <1>5, <2>3, <2>7, TakePatchDoes
    <3>3. q.state = r.state /\ q.sent = {} /\ q.landed = r.landed
      BY <2>3, <3>1 DEF AttemptRecord
    <3>5. a[1] = job /\ (a \notin cut' => a[2] = Len(attempts[a[1]]))
      BY <2>2, <2>5
    <3> QED
      BY <1>0, <1>1, <2>3, <2>4, <2>5, <3>1, <3>2, <3>3, <3>5, OneChanges
  <2> QED
    BY <2>6, <2>7
<1>6. ASSUME RefuseStale \/ RefuseFixable
      PROVE  RecordsSound'
  <2>1. PICK q : /\ judging \in AttemptIds /\ judging' = None /\ Becomes(judging, q)
                 /\ \/ q = Ended(Attempt(judging), "Invalidated")
                    \/ q = [Attempt(judging) EXCEPT !.state = "Running", !.sent = {}]
    BY <1>0, <1>6, RefusalDoes
  <2>2. PICK a \in AttemptIds : a = judging
    BY <2>1
  <2>3. PICK job \in Jobs : a[1] = job
    BY <1>0, AttemptsTyped
  <2>4. PICK n \in 1 .. Len(attempts[job]) : a = <<job, n>>
    BY <1>0, <2>3, AttemptsTyped
  <2>5. Attempt(a) = attempts[job][n] /\ Attempt(a) \in AttemptRecord /\ a # None
    BY <1>0, <2>4, AttemptsTyped DEF Attempt
  <2>6. a \notin cut' => ~Attempt(a).landed
    BY <1>0, <2>2, <2>4, <2>5 DEF RecordsSound
  <2>7. q.sent = {} /\ q.state \in {"Invalidated", "Running"} /\ (a \notin cut' => ~q.landed)
    BY <2>1, <2>2, <2>5, <2>6 DEF AttemptRecord, Ended
  <2>8. Becomes(a, q)
    BY <2>1, <2>2
  <2>9. \A j \in Jobs : \A m \in 1 .. Len(attempts[j]) : judging' # <<j, m>>
    BY <1>0, <2>1, AttemptsTyped
  <2>10. \A j \in Jobs : \A m \in 1 .. Len(attempts[j]) : <<j, m>> # a => judging # <<j, m>>
    BY <2>2
  <2> QED
    BY <1>0, <1>1, <2>1, <2>5, <2>7, <2>8, <2>9, <2>10, OneChanges
<1>7. ASSUME NEW s \in Slots, FailTask(s)
      PROVE  RecordsSound'
  <2>0. judging' = judging /\ slot[s].pc = "failing"
    BY <1>7 DEF FailTask
  <2>1. PICK job \in Jobs :
            LET n == Len(attempts[job])
                r == attempts[job][n] IN
            /\ slot[s].job = job
            /\ n \in 1 .. Len(attempts[job])
            /\ Mine(s) = <<job, n>> /\ <<job, n>> \in AttemptIds
            /\ r \in AttemptRecord /\ Attempt(<<job, n>>) = r
            /\ <<job, n>> \notin cut =>
                  /\ r.sent # {} => slot[s].pc = "session"
                  /\ judging = <<job, n>> <=> r.state = "Committing"
                  /\ r.state = "Committing" => r.sent # {}
                  /\ r.landed => r.state = "Committed"
    BY <2>0, AtWork DEF Holding
  <2> DEFINE n == Len(attempts[job])
             r == attempts[job][n]
  <2>2. <<job, n>> \notin cut' =>
            r.sent = {} /\ r.state # "Committing" /\ ~r.landed /\ judging # <<job, n>>
    <3>1. <<job, n>> \notin cut => r.state # "Committed"
      BY <1>0, <2>0, <2>1 DEF WatchSound
    <3> QED
      BY <1>0, <2>0, <2>1, <3>1
  <2>3. CASE UNCHANGED attempts
    BY <1>2, <2>0, <2>3
  <2>4. CASE attempts' # attempts
    <3>1. PICK q : Becomes(<<job, n>>, q) /\ q = Left([r EXCEPT !.state = "Failed"])
      BY <1>0, <1>7, <2>1, <2>4, FailTaskDoes
    <3>2. <<job, n>> \notin cut' => q.state = "Failed" /\ q.sent = {} /\ ~q.landed
      BY <2>1, <2>2, <3>1 DEF AttemptRecord, Left, Ended
    <3> QED
      BY <1>0, <1>1, <2>0, <2>1, <2>2, <3>1, <3>2, OneChanges
  <2> QED
    BY <2>3, <2>4
<1>8. ASSUME NEW s \in Slots, FinishJob(s)
      PROVE  RecordsSound'
  <2>0. judging' = judging /\ slot[s].pc = "settle"
    BY <1>8 DEF FinishJob
  <2>1. PICK job \in Jobs :
            LET n == Len(attempts[job])
                r == attempts[job][n] IN
            /\ slot[s].job = job
            /\ n \in 1 .. Len(attempts[job])
            /\ Mine(s) = <<job, n>> /\ <<job, n>> \in AttemptIds
            /\ r \in AttemptRecord /\ Attempt(<<job, n>>) = r
            /\ <<job, n>> \notin cut =>
                  /\ r.sent # {} => slot[s].pc = "session"
                  /\ judging = <<job, n>> <=> r.state = "Committing"
                  /\ r.state = "Committing" => r.sent # {}
                  /\ r.landed => r.state = "Committed"
    BY <2>0, AtWork DEF Holding
  <2> DEFINE n == Len(attempts[job])
             r == attempts[job][n]
  <2>2. PICK q : Becomes(<<job, n>>, q) /\ q = Left(r)
    BY <1>0, <1>8, <2>1, FinishJobDoes
  <2>3. <<job, n>> \notin cut' => q.state = r.state /\ q.sent = {} /\ q.landed = r.landed
    BY <1>0, <2>0, <2>1, <2>2 DEF AttemptRecord, Left, Ended
  <2> QED
    BY <1>0, <1>1, <2>0, <2>1, <2>2, <2>3, OneChanges
<1>9. ASSUME Commit
      PROVE  RecordsSound'
  <2>1. judging \in AttemptIds /\ judging' = None
    BY <1>0, <1>9, CommitDoes
  <2>2. ASSUME NEW job \in Jobs, NEW n \in 1 .. Len(attempts'[job]), <<job, n>> \notin cut'
        PROVE  /\ attempts'[job][n].sent # {} => n = Len(attempts'[job]) /\ InSession(job)'
               /\ judging' = <<job, n>> <=> attempts'[job][n].state = "Committing"
               /\ attempts'[job][n].state = "Committing" => attempts'[job][n].sent # {}
               /\ attempts'[job][n].landed => attempts'[job][n].state = "Committed"
               /\ attempts'[job][n].landed => n = Len(attempts'[job])
    <3> DEFINE r == attempts[job][n]
               q == attempts'[job][n]
    <3>1. Len(attempts'[job]) = Len(attempts[job]) /\ n \in 1 .. Len(attempts[job])
      BY <1>0, <1>9, <2>2, CommitDoes
    <3>2. q = IF <<job, n>> = judging
              THEN [Ended(r, "Committed") EXCEPT !.landed = TRUE]
              ELSE Swept(r, Attempt(judging).sent, judging \notin cut)
      BY <1>0, <1>9, <3>1, CommitDoes
    <3>3. r \in AttemptRecord /\ judging' # <<job, n>>
      BY <1>0, <2>1, <3>1, AttemptsTyped
    <3>4. /\ r.sent # {} => n = Len(attempts[job]) /\ InSession(job)'
          /\ judging = <<job, n>> <=> r.state = "Committing"
          /\ r.state = "Committing" => r.sent # {}
          /\ r.landed => r.state = "Committed"
          /\ r.landed => n = Len(attempts[job])
      BY <1>0, <1>1, <2>2, <3>1 DEF RecordsSound
    <3> HIDE DEF r
    <3>5. CASE <<job, n>> = judging
      <4>1. q.sent = {} /\ q.state = "Committed" /\ q.landed
        BY <3>2, <3>3, <3>5 DEF AttemptRecord, Ended
      <4> QED
        BY <3>1, <3>3, <3>4, <3>5, <4>1
    <3>6. CASE <<job, n>> # judging
      <4>1. /\ q.sent \in {r.sent, {}} /\ q.state \in {r.state, "Invalidated"}
            /\ q.landed = r.landed /\ (q.state # r.state => r.state = "Running")
            /\ r.state # "Committing"
        BY <3>2, <3>3, <3>4, <3>6 DEF AttemptRecord, Ended, Swept, Active
      <4> QED
        BY <3>1, <3>3, <3>4, <4>1
    <3> QED
      BY <3>5, <3>6
  <2> QED
    BY <1>0, <2>2 DEF RecordsSound, InSession
<1>10. ASSUME NEW s \in Slots, CreateTask(s)
       PROVE  RecordsSound'
  <2>1. PICK mine \in Jobs : mine = slot[s].job
    BY <1>0, <1>10, CreateTaskDoes
  <2>2. /\ \A j \in Jobs : j # mine => attempts'[j] = attempts[j]
        /\ Len(attempts'[mine]) = Len(attempts[mine]) + 1
        /\ attempts'[mine][Len(attempts[mine]) + 1] = Fresh
        /\ \A n \in 1 .. Len(attempts[mine]) : attempts'[mine][n] = attempts[mine][n]
    BY <1>0, <1>10, <2>1, CreateTaskDoes
  <2>3. judging' = judging /\ slot[s].pc = "create"
    BY <1>10 DEF CreateTask
  <2>4. ~InSession(mine)
    BY <1>0, <2>1, <2>3, OneSlot DEF InSession
  <2>5. ASSUME NEW job \in Jobs, NEW n \in 1 .. Len(attempts'[job]), <<job, n>> \notin cut'
        PROVE  /\ attempts'[job][n].sent # {} => n = Len(attempts'[job]) /\ InSession(job)'
               /\ judging' = <<job, n>> <=> attempts'[job][n].state = "Committing"
               /\ attempts'[job][n].state = "Committing" => attempts'[job][n].sent # {}
               /\ attempts'[job][n].landed => attempts'[job][n].state = "Committed"
               /\ attempts'[job][n].landed => n = Len(attempts'[job])
    <3>1. CASE job # mine
      BY <1>0, <1>1, <2>2, <2>3, <3>1, <2>5 DEF RecordsSound
    <3>2. CASE job = mine /\ n \in 1 .. Len(attempts[mine])
      <4>1. attempts'[job][n] = attempts[job][n]
        BY <2>2, <3>2
      <4>2. attempts[job][n].sent = {} /\ ~attempts[job][n].landed
        BY <1>0, <2>1, <2>3, <2>4, <2>5, <3>2 DEF RecordsSound, WatchSound
      <4> QED
        BY <1>0, <2>3, <2>5, <3>2, <4>1, <4>2 DEF RecordsSound
    <3>3. CASE job = mine /\ n \notin 1 .. Len(attempts[mine])
      <4>1. Len(attempts[mine]) \in Nat
        BY <1>0, AttemptsTyped
      <4>2. n = Len(attempts[mine]) + 1
        BY <2>2, <2>5, <3>3, <4>1
      <4>3. judging # <<job, n>>
        <5>1. <<job, n>> \notin AttemptIds
          BY <3>3, <4>1, <4>2 DEF AttemptIds
        <5>2. <<job, n>> # None
          <6>1. <<job, n>> \in ({"primary", "followUp"} \X Nat) \X Nat
            BY <4>1, <4>2, BatchLength, <1>0 DEF Jobs, SchedulerTypes
          <6> QED
            BY <6>1, SchedulerConstants
        <5> QED
          BY <1>0, <5>1, <5>2 DEF SchedulerTypes
      <4>4. attempts'[job][n] = Fresh
        BY <2>2, <3>3, <4>2
      <4>5. Fresh.sent = {} /\ Fresh.state = "Running" /\ ~Fresh.landed
        BY DEF Fresh
      <4> QED
        BY <2>3, <4>3, <4>4, <4>5
    <3> QED
      BY <3>1, <3>2, <3>3
  <2> QED
    BY <1>0, <2>5 DEF RecordsSound, InSession
<1>11. ASSUME NEW s \in Slots, CreateTask(s) \/ ContextBundle(s) \/ ReadMore(s) \/ SubmitPatch(s)
                                 \/ FailTask(s) \/ FinishJob(s)
       PROVE  RecordsSound'
  BY <1>3, <1>4, <1>7, <1>8, <1>10, <1>11
<1> QED
  BY <1>2, <1>5, <1>6, <1>9, <1>11, Others

\* A slot that watches did so before, of the same job, unless it has just
\* looked or been told.
LEMMA WatchSteps ==
    ASSUME SchedulerTypes, [Next]_vars, NEW s \in Slots
    PROVE  /\ slot'[s].pc \in Watched /\ slot'[s].noticed =>
                 /\ slot'[s].job = slot[s].job
                 /\ \/ slot[s].pc \in Watched /\ slot[s].noticed
                    \/ NoticeInvalidation(s)
           /\ slot'[s].pc = "failing" =>
                 /\ slot'[s].job = slot[s].job
                 /\ slot[s].pc = "failing" \/ FirstLook(s)
<1> DEFINE Goal ==
           /\ slot'[s].pc \in Watched /\ slot'[s].noticed =>
                 /\ slot'[s].job = slot[s].job
                 /\ \/ slot[s].pc \in Watched /\ slot[s].noticed
                    \/ NoticeInvalidation(s)
           /\ slot'[s].pc = "failing" =>
                 /\ slot'[s].job = slot[s].job
                 /\ slot[s].pc = "failing" \/ FirstLook(s)
<1>1. slot \in [Slots -> SlotRecord]
  BY DEF SchedulerTypes
<1>2. ASSUME slot'[s] = slot[s]
      PROVE  Goal
  BY <1>2
<1>3. ASSUME StartWave
      PROVE  Goal
  <2>1. slot'[s].pc = "fetch"
    BY <1>3, FreeIs DEF StartWave
  <2> QED
    BY <2>1 DEF Watched
<1>4. ASSUME NEW u \in Slots, Harness(u) \/ Agent(u), u # s
      PROVE  slot'[s] = slot[s]
  <2>1. CASE FetchNothing(u) \/ FetchJob(u) \/ CreateTask(u) \/ LaunchFails(u) \/ FirstLook(u)
             \/ FailTask(u) \/ Replace(u) \/ FinishJob(u) \/ ContextBundle(u) \/ NoticeInvalidation(u)
    BY <1>1, <1>4, <2>1 DEF FetchNothing, FetchJob, CreateTask, LaunchFails, FirstLook, FailTask,
           Replace, FinishJob, BackToQueue, ContextBundle, NoticeInvalidation, Goto
  <2>2. CASE Exit(u)
    <3>1. PICK status : slot' = [slot EXCEPT ![u].pc = "exited", ![u].status = status]
      BY <2>2 DEF Exit
    <3> QED
      BY <1>1, <1>4, <3>1
  <2>3. CASE ReadMore(u) \/ SubmitPatch(u)
    BY <2>3 DEF ReadMore, SubmitPatch
  <2> QED
    BY <1>4, <2>1, <2>2, <2>3 DEF Harness, Agent
<1>5. ASSUME FetchNothing(s) \/ FetchJob(s) \/ CreateTask(s) \/ LaunchFails(s) \/ Replace(s)
             \/ FinishJob(s)
      PROVE  Goal
  <2>1. slot'[s].pc \in {"returned", "create", "bundle", "fetch"}
    <3>1. CASE FetchNothing(s) \/ CreateTask(s) \/ Replace(s)
      BY <1>1, <3>1 DEF FetchNothing, CreateTask, Replace, Goto, SlotRecord
    <3>2. CASE FetchJob(s)
      BY <3>2, FetchJobDoes
    <3>3. CASE LaunchFails(s) \/ FinishJob(s)
      BY <3>3, ReleaseDoes, FreeIs
    <3> QED
      BY <1>5, <3>1, <3>2, <3>3
  <2> QED
    BY <2>1 DEF Watched
<1>6. ASSUME ContextBundle(s)
      PROVE  Goal
  <2>1. slot'[s] = [slot[s] EXCEPT !.pc = "session", !.status = None, !.noticed = FALSE]
    BY <1>1, <1>6 DEF ContextBundle
  <2>2. slot'[s].pc = "session" /\ ~slot'[s].noticed
    BY <1>1, <2>1 DEF SlotRecord
  <2> QED
    BY <2>2
<1>7. ASSUME NoticeInvalidation(s)
      PROVE  Goal
  <2>1. slot'[s] = [slot[s] EXCEPT !.noticed = TRUE] /\ slot[s].pc = "session"
    BY <1>1, <1>7 DEF NoticeInvalidation
  <2>2. slot'[s].job = slot[s].job /\ slot'[s].pc = "session"
    BY <1>1, <2>1 DEF SlotRecord
  <2> QED
    BY <1>7, <2>2
<1>8. ASSUME FirstLook(s) \/ FailTask(s)
      PROVE  Goal
  <2>1. /\ slot'[s].job = slot[s].job /\ slot'[s].noticed = slot[s].noticed
        /\ slot[s].pc \in Watched
        /\ slot'[s].pc = "failing" => FirstLook(s)
    <3>1. CASE FirstLook(s)
      BY <1>1, <3>1 DEF FirstLook, Goto, SlotRecord, Watched
    <3>2. CASE FailTask(s)
      BY <1>1, <3>2 DEF FailTask, Goto, SlotRecord, Watched
    <3> QED
      BY <1>8, <3>1, <3>2
  <2> QED
    BY <2>1
<1>9. ASSUME Exit(s)
      PROVE  Goal
  <2>1. PICK status : slot' = [slot EXCEPT ![s].pc = "exited", ![s].status = status]
    BY <1>9 DEF Exit
  <2>2. slot'[s] = [slot[s] EXCEPT !.pc = "exited", !.status = status] /\ slot[s].pc = "session"
    BY <1>1, <1>9, <2>1 DEF Exit
  <2>3. slot'[s].job = slot[s].job /\ slot'[s].noticed = slot[s].noticed /\ slot'[s].pc = "exited"
    BY <1>1, <2>2 DEF SlotRecord
  <2> QED
    BY <2>2, <2>3 DEF Watched
<1>10. ASSUME ReadMore(s) \/ SubmitPatch(s) \/ Plan \/ Sequencer \/ Rest \/ UNCHANGED vars
       PROVE  slot'[s] = slot[s]
  BY <1>10 DEF ReadMore, SubmitPatch, Plan, Sequencer, TakePatch, Commit, RefuseStale, RefuseFixable,
         Rest, vars, runVars
<1> HIDE DEF Goal
<1>11. ASSUME NEW u \in Slots, Harness(u) \/ Agent(u)
       PROVE  Goal
  <2>1. CASE u = s
    BY <1>2, <1>5, <1>6, <1>7, <1>8, <1>9, <1>10, <1>11, <2>1 DEF Harness, Agent
  <2>2. CASE u # s
    BY <1>2, <1>4, <1>11, <2>2
  <2> QED
    BY <2>1, <2>2
<1>12. Goal
  BY <1>2, <1>3, <1>10, <1>11 DEF Next
<1> QED
  BY <1>12 DEF Goal

\* Only the slot of a job adds to its attempts, or has one land that was not cut off.
LEMMA OthersKeepOff ==
    ASSUME SessionInv, [Next]_vars, NEW job \in Jobs, NEW s \in Slots, slot[s].job = job,
           slot[s].pc # "create"
    PROVE  /\ Len(attempts'[job]) = Len(attempts[job])
           /\ slot[s].pc # "session" =>
                 \A n \in 1 .. Len(attempts[job]) : <<job, n>> \notin cut =>
                     /\ judging # <<job, n>>
                     /\ attempts'[job][n].landed <=> attempts[job][n].landed
<1>0. SchedulerTypes /\ Slotted /\ RecordsSound
  BY DEF SessionInv, BatchInv
<1>1. Len(attempts'[job]) = Len(attempts[job])
  <2>1. ASSUME NEW u \in Slots, CreateTask(u), slot[u].job = job
        PROVE  FALSE
    BY <1>0, <2>1, OneSlot DEF CreateTask
  <2> QED
    BY <1>0, <2>1, LengthSteps
<1>2. ASSUME slot[s].pc # "session", NEW n \in 1 .. Len(attempts[job]), <<job, n>> \notin cut
      PROVE  judging # <<job, n>>
  BY <1>0, <1>2, OneSlot DEF RecordsSound, InSession
<1> QED
  BY <1>0, <1>1, <1>2, StateSteps

LEMMA WatchKept ==
    ASSUME SessionInv, [Next]_vars
    PROVE  WatchSound'
<1>0. /\ SchedulerTypes /\ Slotted /\ Lined /\ RecordsSound /\ WatchSound /\ Jobs' = Jobs
      /\ cut \subseteq cut'
  BY SameBatch, CutGrows DEF SessionInv, BatchInv
<1> SUFFICES ASSUME NEW s \in Slots, NEW job \in Jobs, slot'[s].job = job
             PROVE  /\ slot'[s].pc = "create" =>
                          \A n \in 1 .. Len(attempts'[job]) :
                              attempts'[job][n].landed => <<job, n>> \in cut'
                    /\ (slot'[s].pc \in Watched /\ slot'[s].noticed
                            /\ <<job, Len(attempts'[job])>> \notin cut') =>
                          attempts'[job][Len(attempts'[job])].state = "Invalidated"
                    /\ slot'[s].pc = "failing" /\ <<job, Len(attempts'[job])>> \notin cut' =>
                          attempts'[job][Len(attempts'[job])].state # "Committed"
  BY <1>0 DEF WatchSound
<1>1. ASSUME slot'[s].pc = "create", NEW n \in 1 .. Len(attempts'[job]), <<job, n>> \notin cut'
      PROVE  ~attempts'[job][n].landed
  <2>0. job # None
    BY <1>0, JobsAreNotNone
  <2>1. CASE slot'[s] = slot[s]
    <3>1. slot[s].pc = "create" /\ slot[s].job = job
      BY <1>1, <2>1
    <3>2. Len(attempts'[job]) = Len(attempts[job])
      <4>1. ASSUME NEW u \in Slots, CreateTask(u), slot[u].job = job
            PROVE  FALSE
        <5>1. u = s
          BY <1>0, <3>1, <4>1, OneSlot
        <5>2. slot'[s].pc = "bundle"
          BY <1>0, <4>1, <5>1 DEF CreateTask, Goto, SchedulerTypes, SlotRecord
        <5> QED
          BY <1>1, <5>2
      <4> QED
        BY <1>0, <4>1, LengthSteps
    <3>3. ~attempts[job][n].landed
      BY <1>0, <1>1, <3>1, <3>2 DEF WatchSound
    <3>4. judging # <<job, n>>
      BY <1>0, <1>1, <3>1, <3>2, OneSlot DEF RecordsSound, InSession
    <3> QED
      BY <1>0, <1>1, <3>2, <3>3, <3>4, StateSteps
  <2>2. CASE Replace(s)
    <3>1. slot[s].pc = "settle" /\ attempts' = attempts /\ NeedsReplacement(s)
      BY <2>2 DEF Replace
    <3>2. slot[s].job = job
      BY <1>0, <2>2 DEF Replace, Goto, SchedulerTypes, SlotRecord
    <3>3. /\ Mine(s) = <<job, Len(attempts[job])>>
          /\ Attempt(Mine(s)) = attempts[job][Len(attempts[job])]
      BY <3>2 DEF Mine, Attempt
    <3>4. <<job, Len(attempts[job])>> \notin cut =>
              attempts[job][Len(attempts[job])].state # "Committed"
      <4> SUFFICES ASSUME <<job, Len(attempts[job])>> \notin cut
                   PROVE  attempts[job][Len(attempts[job])].state # "Committed"
        OBVIOUS
      <4>1. slot[s].noticed => attempts[job][Len(attempts[job])].state = "Invalidated"
        BY <1>0, <3>1, <3>2 DEF WatchSound, Watched
      <4> QED
        BY <3>1, <3>3, <4>1 DEF NeedsReplacement, Active
    <3> QED
      BY <1>0, <1>1, <3>1, <3>4 DEF RecordsSound
  <2>3. CASE FetchJob(s)
    <3>1. job = queue[1] /\ 1 \in 1 .. Len(queue) /\ attempts' = attempts
      BY <1>0, <2>3, FetchJobDoes
    <3>2. Len(attempts[job]) = 0
      BY <1>0, <3>1 DEF Lined
    <3> QED
      BY <1>1, <3>1, <3>2
  <2>4. slot'[s] \notin {Free, [Free EXCEPT !.pc = "returned"]}
    BY <1>1 DEF Free
  <2> QED
    BY <1>0, <1>1, <2>1, <2>2, <2>3, <2>4, SlotSteps DEF Holding
<1>2. ASSUME slot'[s].pc \in Watched, slot'[s].noticed, <<job, Len(attempts'[job])>> \notin cut'
      PROVE  attempts'[job][Len(attempts'[job])].state = "Invalidated"
  <2>1. slot[s].job = job
    BY <1>0, <1>2, WatchSteps
  <2>2. CASE NoticeInvalidation(s)
    BY <2>1, <2>2 DEF NoticeInvalidation, Attempt, Mine
  <2>3. CASE slot[s].pc \in Watched /\ slot[s].noticed
    <3>2. Len(attempts'[job]) = Len(attempts[job]) /\ Len(attempts[job]) \in 1 .. Len(attempts[job])
      <4>1. slot[s].pc \in Holding /\ slot[s].pc # "create"
        BY <2>3 DEF Watched, Holding
      <4>2. Len(attempts[job]) > 0 /\ Len(attempts[job]) \in Nat
        BY <1>0, <2>1, <4>1, AttemptsTyped DEF SchedulerTypes
      <4> QED
        BY <2>1, <4>1, <4>2, OthersKeepOff
    <3>1. attempts[job][Len(attempts[job])].state = "Invalidated"
      BY <1>0, <1>2, <2>1, <2>3, <3>2 DEF WatchSound
    <3>3. judging # <<job, Len(attempts[job])>>
      BY <1>0, <1>2, <3>1, <3>2 DEF RecordsSound
    <3> QED
      BY <1>0, <3>1, <3>2, <3>3, StateSteps
  <2> QED
    BY <1>0, <1>2, <2>2, <2>3, WatchSteps
<1>3. ASSUME slot'[s].pc = "failing", <<job, Len(attempts'[job])>> \notin cut'
      PROVE  attempts'[job][Len(attempts'[job])].state # "Committed"
  <2>1. slot[s].job = job /\ (slot[s].pc = "failing" \/ FirstLook(s))
    BY <1>0, <1>3, WatchSteps
  <2>2. slot[s].pc \in {"failing", "exited"}
    BY <2>1 DEF FirstLook
  <2>3. /\ Len(attempts'[job]) = Len(attempts[job])
        /\ Len(attempts[job]) \in 1 .. Len(attempts[job])
        /\ judging # <<job, Len(attempts[job])>>
    <3>1. slot[s].pc \in Holding /\ slot[s].pc # "create" /\ slot[s].pc # "session"
      BY <2>2 DEF Holding
    <3>2. Len(attempts[job]) > 0 /\ Len(attempts[job]) \in Nat
      BY <1>0, <2>1, <3>1, AttemptsTyped DEF SchedulerTypes
    <3> QED
      BY <1>0, <1>3, <2>1, <3>1, <3>2, OthersKeepOff
  <2>4. attempts[job][Len(attempts[job])].state # "Committed"
    <3>1. CASE slot[s].pc = "failing"
      BY <1>0, <1>3, <2>1, <2>3, <3>1 DEF WatchSound
    <3>2. CASE FirstLook(s)
      <4>1. slot'[s].pc = IF /\ Attempt(Mine(s)).state \in Active
                             /\ ~slot[s].noticed
                             /\ slot[s].status = "Failed"
                          THEN "failing"
                          ELSE "settle"
        BY <1>0, <3>2 DEF FirstLook, Goto, SchedulerTypes, SlotRecord
      <4> QED
        BY <1>3, <2>1, <4>1 DEF Attempt, Mine, Active
    <3> QED
      BY <2>1, <3>1, <3>2
  <2> QED
    BY <1>0, <2>3, <2>4, StateSteps
<1> QED
  BY <1>1, <1>2, <1>3

LEMMA RunsKept ==
    ASSUME SessionInv, [Next]_vars
    PROVE  RunsSound'
<1>0. /\ SchedulerTypes /\ Slotted /\ CommitsLand /\ RecordsSound /\ RunsSound /\ BatchInv /\ Due
      /\ Indices' = Indices /\ Jobs' = Jobs /\ cut \subseteq cut'
  BY SameBatch, CutGrows DEF SessionInv, BatchInv
<1> SUFFICES ASSUME NEW i \in Indices, results'[i] # None
             PROVE  /\ results'[i] = "Committed" =>
                          \E n \in 1 .. Len(attempts'[Primary(i)]) : attempts'[Primary(i)][n].landed
                    /\ \A n \in 1 .. Len(attempts'[Primary(i)]) :
                          attempts'[Primary(i)][n].landed /\ <<Primary(i), n>> \notin cut' =>
                              results'[i] = "Committed"
  BY <1>0 DEF RunsSound, Primary
<1>1. PICK job \in Jobs : job = Primary(i) /\ job[1] = "primary" /\ job[2] = i
  BY JobsOf
<1>2. CASE \E s \in Slots : FinishJob(s) /\ slot[s].job = job
  <2>1. PICK s \in Slots : FinishJob(s) /\ slot[s].job = job
    BY <1>2
  <2>2. slot[s].pc = "settle"
    BY <2>1 DEF FinishJob
  <2>3. /\ Len(attempts'[job]) = Len(attempts[job])
        /\ \A n \in 1 .. Len(attempts[job]) : <<job, n>> \notin cut' =>
              (attempts'[job][n].landed <=> attempts[job][n].landed)
    BY <1>0, <2>1, <2>2, OthersKeepOff
  <2>4. results'[i] = attempts[job][Len(attempts[job])].state
    BY <1>0, <1>1, <2>1, FinishJobRecords DEF Attempt, Mine
  <2>5. Len(attempts[job]) \in 1 .. Len(attempts[job])
    <3>1. Len(attempts[job]) > 0 /\ Len(attempts[job]) \in Nat
      BY <1>0, <2>1, FinishJobRecords, AttemptsTyped
    <3> QED
      BY <3>1
  <2>6. results'[i] = "Committed" => attempts'[job][Len(attempts[job])].landed
    <3>1. results'[i] = "Committed" => attempts[job][Len(attempts[job])].landed
      BY <1>0, <2>4, <2>5 DEF CommitsLand
    <3> QED
      BY <1>0, <2>5, <3>1, StateSteps
  <2>7. ASSUME NEW n \in 1 .. Len(attempts[job]), <<job, n>> \notin cut', attempts'[job][n].landed
        PROVE  results'[i] = "Committed"
    <3>1. attempts[job][n].landed /\ <<job, n>> \notin cut
      BY <1>0, <2>3, <2>7
    <3> QED
      BY <1>0, <2>4, <3>1 DEF RecordsSound
  <2> QED
    BY <1>1, <2>3, <2>5, <2>6, <2>7
<1>3. CASE ~\E s \in Slots : FinishJob(s) /\ slot[s].job = job
  <2>1. results'[i] = results[i]
    <3>1. ASSUME NEW s \in Slots, FinishJob(s)
          PROVE  results'[i] = results[i]
      BY <1>0, <1>1, <1>3, <3>1, FinishJobRecords
    <3> QED
      BY <1>0, <3>1, Bookkeeping
  <2>2. ~Live(job)
    BY <1>0, <1>1, <2>1 DEF Due
  <2>3. Len(attempts'[job]) = Len(attempts[job])
    BY <1>0, <2>2, LengthSteps DEF Live, Taken
  <2>4. \A n \in 1 .. Len(attempts[job]) : <<job, n>> \notin cut => judging # <<job, n>>
    BY <1>0, <2>2 DEF RecordsSound, InSession, Live, Taken
  <2>5. \A n \in 1 .. Len(attempts[job]) :
            /\ attempts[job][n].landed => attempts'[job][n].landed
            /\ <<job, n>> \notin cut => (attempts'[job][n].landed => attempts[job][n].landed)
    BY <1>0, <2>4, StateSteps
  <2> QED
    BY <1>0, <1>1, <2>1, <2>3, <2>5 DEF RunsSound
<1> QED
  BY <1>2, <1>3

LEMMA SessionsInitially == Init => SessionInv
<1> SUFFICES ASSUME Init
             PROVE  SessionInv
  OBVIOUS
<1>1. BatchInv
  BY BatchInitially
<1>2. /\ \A job \in Jobs : attempts[job] = <<>>
      /\ \A s \in Slots : slot[s].job = None
      /\ \A i \in Indices : results[i] = None
  BY DEF Init, Free
<1>3. \A job \in Jobs : Len(attempts[job]) = 0 /\ job # None
  BY <1>1, <1>2, EmptySeq, JobsAreNotNone DEF BatchInv
<1> QED
  BY <1>1, <1>2, <1>3 DEF SessionInv, CommitsLand, RecordsSound, WatchSound, RunsSound,
         Primary

LEMMA SessionsKept == SessionInv /\ [Next]_vars => SessionInv'
  BY BatchKept, LandingsKept, RecordsKept, WatchKept, RunsKept DEF SessionInv

LEMMA SessionsHold == Spec => []SessionInv
  BY SessionsInitially, SessionsKept, PTL DEF Spec

LEMMA RunsAreTrue == SessionInv => RunsTellTheTruth
<1> SUFFICES ASSUME SessionInv, NEW job \in Jobs
             PROVE  LET landed == {n \in DOMAIN attempts[job] : attempts[job][n].landed}
                        told == {n \in landed : <<job, n>> \notin cut} IN
                    /\ \A n \in told : n = Len(attempts[job])
                    /\ job[1] = "primary" /\ results[job[2]] # None =>
                          /\ results[job[2]] = "Committed" => landed # {}
                          /\ told # {} => results[job[2]] = "Committed"
  BY DEF RunsTellTheTruth
<1> DEFINE landed == {n \in DOMAIN attempts[job] : attempts[job][n].landed}
           told == {n \in landed : <<job, n>> \notin cut}
<1>0. SchedulerTypes /\ RecordsSound /\ RunsSound
  BY DEF SessionInv, BatchInv
<1>1. DOMAIN attempts[job] = 1 .. Len(attempts[job])
  BY <1>0, AttemptsTyped
<1>2. \A n \in told : n = Len(attempts[job])
  BY <1>0, <1>1 DEF RecordsSound
<1>3. ASSUME job[1] = "primary", results[job[2]] # None
      PROVE  /\ results[job[2]] = "Committed" => landed # {}
             /\ told # {} => results[job[2]] = "Committed"
  <2>1. job = Primary(job[2]) /\ job[2] \in Indices
    BY <1>3, JobsOf
  <2>2. /\ results[job[2]] = "Committed" => \E n \in 1 .. Len(attempts[job]) : attempts[job][n].landed
        /\ \A n \in 1 .. Len(attempts[job]) :
              attempts[job][n].landed /\ <<job, n>> \notin cut => results[job[2]] = "Committed"
    BY <1>0, <1>3, <2>1 DEF RunsSound
  <2> QED
    BY <1>1, <2>2
<1> QED
  BY <1>2, <1>3

\* A commit that its session was told of ends its logical task, and the TaskRun
\* says Committed, whatever the process does then and whatever became of the
\* attempts before; it says so of no task of which nothing landed (run_task and
\* its loop of attempts). A session cut off before its answer is told of none.
THEOREM RunsAreTruthful == Spec => []RunsTellTheTruth
  BY SessionsHold, RunsAreTrue, PTL

-----------------------------------------------------------------------------
(* What an attempt was promised stays as it was *)

\* A discovery touches nothing its task did not, but the requirements that
\* task was handed to read: what keeps off the task keeps off its discovery.
LEMMA DiscoveryApart ==
    ASSUME batch \in Batches, deep \in BOOLEAN, NEW i \in Indices, batch[i].chains, NEW t,
           ~Conflicts(batch[i], t), Requirements(batch[i].operation) \notin t.include
    PROVE  ~Conflicts(Discovery(batch[i].operation), t)
<1>1. PICK o : o = batch[i].operation
  OBVIOUS
<1>2. PICK b : b = batch[i]
  OBVIOUS
<1>3. i \in DOMAIN batch
  BY PlannerConstants DEF Indices
<1>4. /\ o \in Operations /\ o # None
      /\ [kind |-> "OperationProgram", target |-> o] \in b.grants
  BY <1>1, <1>2, <1>3, SchedulerConstants, PlannerConstants
<1>5. Program(o) \in Writes(b)
  <2>1. Granted([kind |-> "OperationProgram", target |-> o]) = {Program(o)}
    BY DEF Granted
  <2> QED
    BY <1>4, <2>1 DEF Writes
<1>6. o \in Focus(b)
  BY <1>1, <1>2, <1>4 DEF Focus
<1>7. Writes(Discovery(o)) = {Requirements(o), Program(o)} /\ ~Global(Discovery(o))
  <2>1. Granted([kind |-> "OperationRequirements", target |-> o]) = {Requirements(o), Program(o)}
    BY DEF Granted
  <2>2. Discovery(o).grants = {[kind |-> "OperationRequirements", target |-> o]}
    BY DEF Discovery
  <2> QED
    BY <2>1, <2>2 DEF Writes, Global, GlobalGrants
<1>8. Reads(Discovery(o), deep) \subseteq Reads(b, deep)
  <2>1. Focus(Discovery(o)) = {o} /\ Discovery(o).include = {}
    BY <1>4 DEF Focus, Discovery
  <2>2. Focus(Discovery(o)) \subseteq Focus(b)
    BY <1>6, <2>1
  <2> HIDE DEF Discovery
  <2> QED
    BY <2>1, <2>2 DEF Reads
<1>9. Requirements(o) \in Reads(b, deep)
  BY <1>6 DEF Reads, Whole
<1>10. Requirements(o) \in Reads(t, deep) => Program(o) \in Reads(t, deep)
  <2>1. SUFFICES ASSUME Requirements(o) \in Reads(t, deep) PROVE Program(o) \in Reads(t, deep)
    OBVIOUS
  <2>2. \A p : /\ Requirements(o) \in Whole(p) => Program(o) \in Whole(p)
               /\ Requirements(o) # Interface(p)
    BY DEF Whole, Requirements, Program, Interface
  <2>3. Requirements(o) \notin t.include
    BY <1>1
  <2> HIDE DEF Whole, Requirements, Program, Interface
  <2> QED
    BY <2>1, <2>2, <2>3 DEF Reads
<1>11. /\ ~Global(b) /\ ~Global(t) /\ Writes(b) \cap Writes(t) = {}
       /\ Reads(b, deep) \cap Writes(t) = {} /\ Reads(t, deep) \cap Writes(b) = {}
  BY <1>2 DEF Conflicts
<1>12. ~Conflicts(Discovery(o), t)
  <2> SUFFICES /\ Writes(Discovery(o)) \cap Writes(t) = {}
               /\ Reads(Discovery(o), deep) \cap Writes(t) = {}
               /\ Reads(t, deep) \cap Writes(Discovery(o)) = {}
    BY <1>7, <1>11 DEF Conflicts
  <2>1. Writes(Discovery(o)) \cap Writes(t) = {}
    BY <1>5, <1>7, <1>9, <1>11
  <2>2. Reads(Discovery(o), deep) \cap Writes(t) = {}
    BY <1>8, <1>11
  <2>3. Reads(t, deep) \cap Writes(Discovery(o)) = {}
    BY <1>5, <1>7, <1>10, <1>11
  <2> QED
    BY <2>1, <2>2, <2>3
<1> QED
  BY <1>1, <1>12

ContextBase == SessionInv /\ Apart

\* Jobs that are queued or in hand at the same time keep off each other: the
\* tasks of a wave, and the discoveries they chain.
LEMMA LiveJobsApart ==
    ASSUME ContextBase, NEW job \in Jobs, NEW other \in Jobs, job # other,
           Live(job), Live(other)
    PROVE  ~Conflicts(TaskOf(job), TaskOf(other))
<1>0. /\ SchedulerTypes /\ BatchInv /\ Due /\ batch \in Batches /\ deep \in BOOLEAN
      /\ Apart
  BY DEF ContextBase, SessionInv, BatchInv, SchedulerTypes
<1>1. ASSUME NEW one \in Jobs, Live(one)
      PROVE  /\ one[2] \in Indices /\ wave[one[2]] = current /\ current # 0
             /\ \/ one = Primary(one[2]) /\ TaskOf(one) = batch[one[2]]
                \/ /\ one = FollowUp(one[2]) /\ ~Live(Primary(one[2]))
                   /\ TaskOf(one) = Discovery(batch[one[2]].operation)
                   /\ batch[one[2]].chains
  <2>1. one[2] \in Indices /\ (one = Primary(one[2]) \/ one = FollowUp(one[2]))
    BY JobsOf
  <2>2. wave[one[2]] = current /\ current # 0
    <3>1. wave[one[2]] \in 1 .. current
      BY <1>0, <1>1, LiveIsPlanned DEF Started
    <3> QED
      BY <1>0, <1>1, <3>1 DEF Due, SchedulerTypes
  <2>3. CASE one = Primary(one[2])
    BY <2>1, <2>2, <2>3 DEF TaskOf, Primary
  <2>4. CASE one = FollowUp(one[2])
    <3>1. TaskOf(one) = Discovery(batch[one[2]].operation)
      BY <2>4 DEF TaskOf, FollowUp
    <3>2. Started(FollowUp(one[2]))
      BY <1>1, <2>4 DEF Started
    <3>3. batch[one[2]].chains /\ results[one[2]] # None
      BY <1>0, <2>1, <3>2 DEF Due
    <3> QED
      BY <1>0, <2>1, <2>2, <2>4, <3>1, <3>3 DEF Due
  <2> QED
    BY <2>1, <2>3, <2>4
<1>2. PICK i \in Indices : i = job[2]
  BY <1>1
<1>3. PICK j \in Indices : j = other[2]
  BY <1>1
<1>4. i # j
  <2> SUFFICES ASSUME i = j PROVE FALSE
    OBVIOUS
  <2> QED
    BY <1>1, <1>2, <1>3
<1>5. ~Conflicts(batch[i], batch[j])
  BY <1>0, <1>1, <1>2, <1>3, <1>4 DEF Apart
<1>6. ASSUME NEW k \in Indices, batch[k].chains
      PROVE  /\ Requirements(batch[k].operation) \notin batch[i].include
             /\ Requirements(batch[k].operation) \notin batch[j].include
             /\ \A o : Requirements(batch[k].operation) \notin Discovery(o).include
  <2>1. i \in DOMAIN batch /\ j \in DOMAIN batch /\ k \in DOMAIN batch
    BY <1>0, PlannerConstants DEF Indices
  <2> QED
    BY <1>0, <1>6, <2>1, SchedulerConstants DEF Discovery
<1>7. CASE TaskOf(job) = batch[i] /\ TaskOf(other) = batch[j]
  BY <1>5, <1>7
<1>8. CASE /\ TaskOf(job) = batch[i]
           /\ TaskOf(other) = Discovery(batch[j].operation) /\ batch[j].chains
  <2>1. ~Conflicts(batch[j], batch[i])
    BY <1>5, ConflictsEitherWay
  <2>2. ~Conflicts(Discovery(batch[j].operation), batch[i])
    BY <1>0, <1>6, <1>8, <2>1, DiscoveryApart
  <2> QED
    BY <1>8, <2>2, ConflictsEitherWay
<1>9. CASE /\ TaskOf(job) = Discovery(batch[i].operation) /\ batch[i].chains
           /\ TaskOf(other) = batch[j]
  BY <1>0, <1>5, <1>6, <1>9, DiscoveryApart
<1>10. CASE /\ TaskOf(job) = Discovery(batch[i].operation) /\ batch[i].chains
            /\ TaskOf(other) = Discovery(batch[j].operation) /\ batch[j].chains
  <2>1. ~Conflicts(Discovery(batch[i].operation), batch[j])
    BY <1>0, <1>5, <1>6, <1>10, DiscoveryApart
  <2>2. ~Conflicts(batch[j], Discovery(batch[i].operation))
    BY <2>1, ConflictsEitherWay
  <2>3. ~Conflicts(Discovery(batch[j].operation), Discovery(batch[i].operation))
    BY <1>0, <1>6, <1>10, <2>2, DiscoveryApart
  <2> QED
    BY <1>10, <2>3, ConflictsEitherWay
<1> QED
  BY <1>1, <1>2, <1>3, <1>7, <1>8, <1>9, <1>10

\* No patch of a session that was not cut off has moved, under the latest attempt
\* of a job in hand, what the plan counted in its footprint.
ContextSound ==
    \A s \in Slots : \A job \in Jobs :
        slot[s].job = job /\ Len(attempts[job]) > 0 =>
            attempts[job][Len(attempts[job])].shifted \cap Scheduled(job) = {}

\* A patch stays within what its task was granted.
SentSound ==
    \A job \in Jobs : \A n \in 1 .. Len(attempts[job]) :
        attempts[job][n].sent \subseteq MaySend(<<job, n>>)

ContextInv == ContextBase /\ ContextSound /\ SentSound

\* A commit under a job in hand is another job's, and keeps off its footprint, if
\* its session is there to be told.
LEMMA CommitKeepsOff ==
    ASSUME ContextInv, Commit, NEW s \in Slots, NEW job \in Jobs, slot[s].job = job,
           judging # <<job, Len(attempts[job])>>, judging \notin cut
    PROVE  Attempt(judging).sent \cap Scheduled(job) = {}
<1>0. SchedulerTypes /\ Slotted /\ RecordsSound
  BY DEF ContextInv, ContextBase, SessionInv, BatchInv
<1>1. judging \in AttemptIds
  BY <1>0, CommitDoes
<1>2. PICK other \in Jobs : other = judging[1]
  BY <1>0, <1>1, AttemptsTyped
<1>3. PICK n \in 1 .. Len(attempts[other]) : judging = <<other, n>>
  BY <1>0, <1>1, <1>2, AttemptsTyped
<1>4. Attempt(judging) = attempts[other][n]
  BY <1>3 DEF Attempt
<1>5. attempts[other][n].sent # {} /\ n = Len(attempts[other]) /\ InSession(other)
  BY <1>0, <1>3 DEF RecordsSound
<1>6. other # job
  BY <1>3, <1>5
<1>7. Live(other) /\ Live(job)
  BY <1>5 DEF Live, Taken, InSession
<1>8. PICK mine : mine = TaskOf(job)
  OBVIOUS
<1>9. PICK its : its = TaskOf(other)
  OBVIOUS
<1>10. ~Conflicts(its, mine)
  BY <1>6, <1>7, <1>8, <1>9, LiveJobsApart DEF ContextInv
<1>11. attempts[other][n].sent \subseteq Writes(its)
  BY <1>3, <1>9, <1>10 DEF ContextInv, SentSound, MaySend, Conflicts
<1> QED
  BY <1>4, <1>8, <1>10, <1>11 DEF Scheduled, Conflicts

LEMMA ScheduledStays ==
    ASSUME [Next]_vars
    PROVE  /\ \A job : Scheduled(job)' = Scheduled(job)
           /\ \A job, n : MaySend(<<job, n>>)' = MaySend(<<job, n>>)
<1>1. UNCHANGED <<batch, calls, deep>> /\ \A job : TaskOf(job)' = TaskOf(job)
  BY SameBatch
<1>2. ASSUME NEW CONSTANT t
      PROVE  Reads(t, deep)' = Reads(t, deep)
  BY <1>1 DEF Reads
<1>3. ASSUME NEW CONSTANT job
      PROVE  Scheduled(job)' = Scheduled(job)
  <2>1. PICK t : t = TaskOf(job)
    OBVIOUS
  <2>2. TaskOf(job)' = t
    BY <1>1, <2>1
  <2> QED
    BY <1>1, <2>1, <2>2 DEF Scheduled, Reads, Writes
<1>4. ASSUME NEW CONSTANT job, NEW CONSTANT n
      PROVE  MaySend(<<job, n>>)' = MaySend(<<job, n>>)
  BY <1>1 DEF MaySend, Writes, Global
<1> QED
  BY <1>3, <1>4

LEMMA SentKept ==
    ASSUME ContextInv, [Next]_vars
    PROVE  SentSound'
<1>0. SchedulerTypes /\ SentSound /\ Jobs' = Jobs
  BY SameBatch DEF ContextInv, ContextBase, SessionInv, BatchInv
<1> SUFFICES ASSUME NEW job \in Jobs, NEW n \in 1 .. Len(attempts'[job])
             PROVE  attempts'[job][n].sent \subseteq MaySend(<<job, n>>)
  <2>1. \A job, n : MaySend(<<job, n>>)' = MaySend(<<job, n>>)
    BY ScheduledStays
  <2>2. SentSound' <=> \A job \in Jobs : \A n \in 1 .. Len(attempts'[job]) :
                          attempts'[job][n].sent \subseteq MaySend(<<job, n>>)'
    BY Zenon, <1>0 DEF SentSound
  <2> QED
    BY Zenon, <2>1, <2>2
<1>1. CASE n \in 1 .. Len(attempts[job])
  BY <1>0, <1>1, StateSteps DEF SentSound
<1>2. CASE n \notin 1 .. Len(attempts[job])
  <2>1. PICK s \in Slots : /\ CreateTask(s) /\ slot[s].job = job
                           /\ Len(attempts'[job]) = Len(attempts[job]) + 1
    BY <1>0, <1>2, LengthSteps
  <2>2. n = Len(attempts[job]) + 1
    BY <1>0, <1>2, <2>1, LengthSteps
  <2>3. attempts'[job][n] = Fresh
    BY <1>0, <2>1, <2>2, CreateTaskDoes
  <2> QED
    BY <2>3 DEF Fresh
<1> QED
  BY <1>1, <1>2

LEMMA ContextKept ==
    ASSUME ContextInv, [Next]_vars
    PROVE  ContextSound'
<1>0. SchedulerTypes /\ Slotted /\ Lined /\ ContextSound /\ Jobs' = Jobs
  BY SameBatch DEF ContextInv, ContextBase, SessionInv, BatchInv
<1> SUFFICES ASSUME NEW s \in Slots, NEW job \in Jobs, slot'[s].job = job, Len(attempts'[job]) > 0
             PROVE  attempts'[job][Len(attempts'[job])].shifted \cap Scheduled(job) = {}
  BY <1>0, ScheduledStays DEF ContextSound
<1>1. CASE slot[s].job = job
  <2>1. CASE Len(attempts'[job]) = Len(attempts[job])
    <3>1. PICK n : n = Len(attempts[job])
      OBVIOUS
    <3>2. n \in 1 .. Len(attempts[job]) /\ attempts[job][n].shifted \cap Scheduled(job) = {}
      BY <1>0, <1>1, <2>1, <3>1, LengthSteps DEF ContextSound
    <3>3. CASE attempts'[job][n].shifted \subseteq attempts[job][n].shifted
      BY <2>1, <3>1, <3>2, <3>3
    <3>4. CASE /\ Commit /\ judging # <<job, n>> /\ judging \notin cut
               /\ attempts'[job][n].shifted \subseteq attempts[job][n].shifted \cup Attempt(judging).sent
      <4>1. Attempt(judging).sent \cap Scheduled(job) = {}
        BY <1>1, <3>1, <3>4, CommitKeepsOff
      <4> QED
        BY <2>1, <3>1, <3>2, <3>4, <4>1
    <3> QED
      BY <1>0, <3>2, <3>3, <3>4, StateSteps
  <2>2. ASSUME NEW u \in Slots, CreateTask(u), slot[u].job = job
        PROVE  attempts'[job][Len(attempts'[job])].shifted = {}
    BY <1>0, <2>2, CreateTaskDoes DEF Fresh
  <2> QED
    BY <1>0, <2>1, <2>2, LengthSteps
<1>2. CASE slot[s].job # job
  <2>1. FetchJob(s) /\ slot'[s] # slot[s]
    <3>1. job # None /\ Free.job = None /\ [Free EXCEPT !.pc = "returned"].job = None
      BY <1>0, JobsAreNotNone DEF Free
    <3> QED
      BY <1>0, <1>2, <3>1, SlotSteps
  <2>2. job = queue[1] /\ 1 \in 1 .. Len(queue) /\ attempts' = attempts
    BY <1>0, <2>1, FetchJobDoes
  <2>3. Len(attempts[job]) = 0
    BY <1>0, <2>2 DEF Lined
  <2> QED
    BY <2>2, <2>3
<1> QED
  BY <1>1, <1>2

LEMMA ContextHolds == Spec => []ContextInv
<1>1. Init => ContextInv
  <2> SUFFICES ASSUME Init
               PROVE  ContextInv
    OBVIOUS
  <2>1. SessionInv
    BY SessionsInitially
  <2>2. Apart
    BY ApartInitially DEF Init
  <2>3. \A job \in Jobs : Len(attempts[job]) = 0
    BY EmptySeq DEF Init
  <2> QED
    BY <2>1, <2>2, <2>3 DEF ContextInv, ContextBase, ContextSound, SentSound
<1>2. ContextInv /\ [Next]_vars => ContextInv'
  <2> SUFFICES ASSUME ContextInv, [Next]_vars
               PROVE  ContextInv'
    OBVIOUS
  <2>1. SessionInv'
    BY SessionsKept DEF ContextInv, ContextBase
  <2>2. Apart'
    BY ApartKept, PlanAlone DEF ContextInv, ContextBase
  <2> QED
    BY <2>1, <2>2, ContextKept, SentKept DEF ContextInv, ContextBase
<1> QED
  BY <1>1, <1>2, PTL DEF Spec

LEMMA ContextStep ==
    ASSUME ContextInv, [Next]_vars, NEW a \in AttemptIds, NEW s \in Slots,
           slot[s].job = a[1], Mine(s) = a,
           Attempt(a).state # "Invalidated", Attempt(a)'.state = "Invalidated"
    PROVE  LET patch == IF judging = a \/ judging \in cut THEN {} ELSE Attempt(judging).sent IN
           (Attempt(a).shifted \cup patch) \cap (Attempt(a).reads \cup Attempt(a).sent)
               \cap Scheduled(a[1]) = {}
<1>0. SchedulerTypes /\ ContextSound
  BY DEF ContextInv, ContextBase, SessionInv, BatchInv
<1>1. PICK job \in Jobs : job = a[1]
  BY <1>0, AttemptsTyped
<1>2. PICK n \in 1 .. Len(attempts[job]) : a = <<job, n>>
  BY <1>0, <1>1, AttemptsTyped
<1>3. n = Len(attempts[job]) /\ slot[s].job = job
  BY <1>1, <1>2 DEF Mine
<1>4. Attempt(a) = attempts[job][n] /\ Attempt(a)' = attempts'[job][n]
  BY <1>2 DEF Attempt
<1>5. Attempt(a).shifted \cap Scheduled(job) = {}
  <2>1. Len(attempts[job]) \in Nat
    BY <1>0, AttemptsTyped
  <2>2. Len(attempts[job]) > 0
    BY <1>2, <2>1
  <2> QED
    BY <1>0, <1>3, <1>4, <2>2 DEF ContextSound
<1>6. CASE judging = a \/ judging \in cut
  BY <1>1, <1>5, <1>6
<1>7. CASE judging # a /\ judging \notin cut
  <2>1. Commit
    BY <1>0, <1>2, <1>4, <1>7, StateSteps
  <2>2. Attempt(judging).sent \cap Scheduled(job) = {}
    BY <1>2, <1>3, <1>7, <2>1, CommitKeepsOff
  <2> QED
    BY <1>1, <1>5, <1>7, <2>2
<1> QED
  BY <1>6, <1>7

\* No attempt is invalidated by a change of what its plan counted in its
\* footprint: neither a task of the wave nor a discovery chained in it commits
\* a patch there (plan_waves, WriteScope::requirement_discovery), as long as its
\* session is there to be told.
THEOREM ContextIsKept == Spec => PlannedContextHolds
<1>1. ContextInv /\ [Next]_vars =>
          \A a \in AttemptIds :
              (\E s \in Slots : slot[s].job = a[1] /\ Mine(s) = a) /\
              Attempt(a).state # "Invalidated" /\ Attempt(a)'.state = "Invalidated" =>
                  LET patch == IF judging = a \/ judging \in cut THEN {} ELSE Attempt(judging).sent IN
                  (Attempt(a).shifted \cup patch) \cap (Attempt(a).reads \cup Attempt(a).sent)
                      \cap Scheduled(a[1]) = {}
  BY ContextStep
<1> QED
  BY <1>1, ContextHolds, PTL DEF Spec, PlannedContextHolds

LEMMA WritersAlone ==
    ASSUME ContextInv
    PROVE  OneProgramWriter
<1>0. SchedulerTypes /\ Slotted
  BY DEF ContextInv, ContextBase, SessionInv, BatchInv
<1>1. ASSUME NEW t, NEW o \in MayChangeProgram(t)
      PROVE  Program(o) \in Writes(t)
  <2>1. PICK g \in t.grants : /\ g.kind \in {"Operation", "OperationProgram", "OperationRequirements"}
                              /\ g.target = o
    BY DEF MayChangeProgram
  <2>2. Program(o) \in Granted(g)
    BY <2>1 DEF Granted, Whole
  <2> QED
    BY <2>2 DEF Writes
<1>2. ASSUME NEW s \in Slots, NEW u \in Slots, s # u, slot[s].job # None, slot[u].job # None,
             NEW o \in MayChangeProgram(TaskOf(slot[s].job)),
             o \in MayChangeProgram(TaskOf(slot[u].job))
      PROVE  FALSE
  <2>1. PICK job \in Jobs : job = slot[s].job
    BY <1>0, <1>2 DEF SchedulerTypes, SlotRecord
  <2>2. PICK other \in Jobs : other = slot[u].job
    BY <1>0, <1>2 DEF SchedulerTypes, SlotRecord
  <2>3. job # other /\ Live(job) /\ Live(other)
    BY <1>0, <1>2, <2>1, <2>2 DEF Slotted, Live, Taken
  <2>4. ~Conflicts(TaskOf(job), TaskOf(other))
    BY <2>3, LiveJobsApart DEF ContextInv
  <2>5. Program(o) \in Writes(TaskOf(job)) /\ Program(o) \in Writes(TaskOf(other))
    BY <1>1, <1>2, <2>1, <2>2
  <2> QED
    BY <2>4, <2>5 DEF Conflicts
<1> QED
  BY <1>2 DEF OneProgramWriter

\* Two slots never hold tasks that may both change one operation's program: the
\* advisory claims of ActiveWriters guard what the plan has settled already.
THEOREM ProgramsHaveOneWriter == Spec => []OneProgramWriter
  BY ContextHolds, WritersAlone, PTL

===============================================================================
