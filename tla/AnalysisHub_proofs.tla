------------------------- MODULE AnalysisHub_proofs -------------------------
(***************************************************************************)
(* The safety of AnalysisHub for any number of waiters and revisions. A    *)
(* pin holds because a waiter counted as kept pinned a revision that was   *)
(* already marked, and every later Pending goes to a revision that is not  *)
(* (Unmarked); the queue stays short because only a push lengthens it, and *)
(* leaves one revision per waiter beside its own.                          *)
(***************************************************************************)
EXTENDS AnalysisHub, FiniteSetTheorems, TLAPS

\* A revision is marked once, by the enqueue that queued it.
Unmarked ==
    /\ \A r \in marked : r <= head
    /\ publisher \in {"push", "mark"} => head \notin marked

\* Those kept wait for a revision whose enqueue is over.
Waited == \A w \in kept : awaited[w] \in marked

IInv == TypeOK /\ Unmarked /\ Waited /\ PinHolds /\ Coalesced

\* Coalescing leaves no more revisions than there are waiters.
LEMMA Retained ==
    ASSUME TypeOK
    PROVE  /\ IsFiniteSet(Pushed)
           /\ Cardinality(Pushed) <= Cardinality(Waiters) + 1
<1> DEFINE T == {r \in queue : Pinned(r)}
           W == {w \in Waiters : awaited[w] \in T}
           f == [w \in W |-> awaited[w]]
<1>1. IsFiniteSet(W) /\ Cardinality(W) <= Cardinality(Waiters)
  BY HubConstants, FS_Subset
<1>2. f \in Surjection(W, T)
  BY DEF Surjection, Pinned
<1> HIDE DEF W, f
<1>3. IsFiniteSet(T) /\ Cardinality(T) <= Cardinality(W)
  BY <1>1, <1>2, FS_Surjection
<1>4. Cardinality(T) \in Nat /\ Cardinality(W) \in Nat /\ Cardinality(Waiters) \in Nat
  BY <1>1, <1>3, HubConstants, FS_CardinalityType
<1>5. Pushed = T \cup {head}
  BY DEF Pushed
<1> HIDE DEF T
<1>6. /\ IsFiniteSet(T \cup {head})
      /\ Cardinality(T \cup {head}) <= Cardinality(T) + 1
  BY <1>3, <1>4, FS_AddElement
<1> QED
  BY <1>1, <1>3, <1>4, <1>5, <1>6, FS_CardinalityType

\* A queue that loses revisions stays as short.
LEMMA Shorter ==
    ASSUME TypeOK, Coalesced, NEW S \in SUBSET queue
    PROVE  Cardinality(S) <= Cardinality(Waiters) + 1
<1>1. IsFiniteSet(queue)
  <2>1. IsFiniteSet(1..MaxRevision)
    BY HubConstants, FS_Interval
  <2> QED
    BY <2>1, FS_Subset DEF TypeOK, Revisions
<1>2. IsFiniteSet(S) /\ Cardinality(S) <= Cardinality(queue)
  BY <1>1, FS_Subset
<1> QED
  BY <1>1, <1>2, HubConstants, FS_CardinalityType DEF Coalesced

LEMMA InitInv == Init => IInv
<1> SUFFICES ASSUME Init PROVE IInv
  OBVIOUS
<1>1. TypeOK
  <2>1. 1 \in Revisions
    BY HubConstants DEF Revisions
  <2> QED
    BY <2>1, HubConstants DEF Init, TypeOK, AnalysisStates
<1>2. Unmarked /\ Waited /\ PinHolds
  BY DEF Init, Unmarked, Waited, PinHolds
<1>3. Coalesced
  BY HubConstants, FS_EmptySet, FS_CardinalityType DEF Init, Coalesced
<1> QED
  BY <1>1, <1>2, <1>3 DEF IInv

\* Steps that touch neither the queue nor what was asked of it.
LEMMA KeepsLength ==
    ASSUME IInv, UNCHANGED queue
    PROVE  Coalesced'
  BY DEF IInv, Coalesced

LEMMA StepInv == IInv /\ [Next]_vars => IInv'
<1> SUFFICES ASSUME IInv, [Next]_vars PROVE IInv'
  OBVIOUS
<1> USE HubConstants DEF IInv, Revisions, AnalysisStates, TerminalStates, Terminal
<1>1. CASE PublishNext
  BY <1>1, KeepsLength
     DEF PublishNext, TypeOK, Unmarked, Waited, PinHolds, hubVars, workerVars, waiterVars
<1>2. CASE Push
  <2>1. TypeOK' /\ Unmarked' /\ Waited'
    BY <1>2 DEF Push, Pushed, TypeOK, Unmarked, Waited, workerVars, waiterVars
  <2>2. PinHolds'
    BY <1>2 DEF Push, Pushed, Pinned, PinHolds, TypeOK, workerVars, waiterVars
  <2>3. Coalesced'
    BY <1>2, Retained DEF Push, Coalesced
  <2> QED
    BY <2>1, <2>2, <2>3
<1>3. CASE MarkPending
  BY <1>3, KeepsLength
     DEF MarkPending, TypeOK, Unmarked, Waited, PinHolds, workerVars, waiterVars
<1>4. CASE Notify
  BY <1>4, KeepsLength
     DEF Notify, Woken, TypeOK, Unmarked, Waited, PinHolds, hubVars, waiterVars
<1>5. CASE Close
  BY <1>5, KeepsLength
     DEF Close, TypeOK, Unmarked, Waited, PinHolds, workerVars, waiterVars
<1>6. CASE StopWorking \/ Sleep
  BY <1>6, KeepsLength
     DEF StopWorking, Sleep, TypeOK, Unmarked, Waited, PinHolds, hubVars, waiterVars
<1>7. CASE Pop
  <2>1. TypeOK' /\ Unmarked' /\ Waited' /\ PinHolds'
    BY <1>7 DEF Pop, TypeOK, Unmarked, Waited, PinHolds, waiterVars
  <2>2. Coalesced'
    BY <1>7, Shorter DEF Pop, Coalesced
  <2> QED
    BY <2>1, <2>2
<1>8. CASE Assemble \/ Validate \/ Verify
  <2>1. PICK s \in AnalysisStates, next \in {"awake", "validating", "verifying"} :
           SetState(s, next) /\ (next = "awake" => s \in TerminalStates)
    BY <1>8 DEF Assemble, Validate, Verify, ReportErrors
  <2>2. analysed \in Revisions
    BY <1>8 DEF Assemble, Validate, Verify, TypeOK
  <2>3. TypeOK' /\ Unmarked' /\ Waited'
    BY <2>1, <2>2 DEF SetState, Goes, TypeOK, Unmarked, Waited, waiterVars
  <2>4. PinHolds'
    BY <2>1, <2>2 DEF SetState, Goes, TypeOK, PinHolds, waiterVars
  <2> QED
    BY <2>1, <2>3, <2>4, KeepsLength DEF SetState
<1>9. ASSUME NEW w \in Waiters, NEW r \in Revisions, Wait(w, r) PROVE IInv'
  <2>1. TypeOK' /\ Unmarked' /\ Coalesced'
    BY <1>9, KeepsLength DEF Wait, TypeOK, Unmarked, hubVars, workerVars
  <2>2. ASSUME NEW u \in kept'
        PROVE  /\ awaited'[u] \in marked
               /\ awaited'[u] \in queue \/ analysed = awaited'[u] \/ Terminal(awaited'[u])
    <3>1. CASE u = w
      <4>1. u \notin kept
        <5>1. marked \subseteq Nat
          BY DEF TypeOK
        <5>2. awaited[w] \notin marked
          BY <1>9, <5>1 DEF Wait
        <5> QED
          BY <3>1, <5>2 DEF Waited
      <4> QED
        <5>1. awaited'[u] = r
          BY <1>9, <3>1 DEF Wait, TypeOK
        <5>2. InHand(r)
          BY <1>9, <2>2, <3>1, <4>1 DEF Wait
        <5>3. UNCHANGED <<hubVars, workerVars, marked>>
          BY <1>9 DEF Wait
        <5> QED
          BY <5>1, <5>2, <5>3 DEF InHand, hubVars, workerVars
    <3>2. CASE u # w
      BY <1>9, <2>2, <3>2 DEF Wait, Waited, PinHolds, TypeOK
    <3> QED
      BY <3>1, <3>2
  <2> QED
    BY <1>9, <2>1, <2>2 DEF Wait, Waited, PinHolds, hubVars, workerVars
<1>10. ASSUME NEW w \in Waiters, Leave(w) PROVE IInv'
  BY <1>10, KeepsLength
     DEF Leave, TypeOK, Unmarked, Waited, PinHolds, hubVars, workerVars
<1>11. CASE UNCHANGED vars
  BY <1>11, KeepsLength
     DEF vars, hubVars, workerVars, waiterVars, TypeOK, Unmarked, Waited, PinHolds
<1> QED
  BY <1>1, <1>2, <1>3, <1>4, <1>5, <1>6, <1>7, <1>8, <1>9, <1>10, <1>11
     DEF Next, Enqueue, Work, Answer, TimeOut

LEMMA Invariance == Spec => []IInv
<1>1. QED
  BY InitInv, StepInv, PTL DEF Spec

\* The hub's state is of its type, and the worker is at a revision exactly while
\* it analyses one.
THEOREM HubTypeCorrect == Spec => []TypeOK
<1>1. IInv => TypeOK
  BY DEF IInv
<1> QED
  BY <1>1, Invariance, PTL

\* No coalescing, however revisions are published and waits begun and given up,
\* drops a revision pinned while its result was still to come (enqueue, pin).
THEOREM PinsHold == Spec => []PinHolds
<1>1. IInv => PinHolds
  BY DEF IInv
<1> QED
  BY <1>1, Invariance, PTL

\* The queue never holds more revisions than there are waiters, and one (enqueue).
THEOREM QueueIsShort == Spec => []Coalesced
<1>1. IInv => Coalesced
  BY DEF IInv
<1> QED
  BY <1>1, Invariance, PTL

=============================================================================
