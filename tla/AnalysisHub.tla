----------------------------- MODULE AnalysisHub -----------------------------
(***************************************************************************)
(* The analysis hub of conseqa (src/src/design/analysis.rs): revisions are *)
(* published without waiting for their analysis; one worker thread checks  *)
(* them in turn, and whoever needs a revision's result waits for it.       *)
(*                                                                         *)
(* The publisher is the holder of the engine's writer lock (engine.rs), so *)
(* there is one. What the checker finds is left open. The reference count  *)
(* of a pin is kept as the guards that are alive: a revision is pinned as  *)
(* long as somebody waits for it. Revisions are queued as they are         *)
(* published, so the queue is a set, and its front the least of it.        *)
(***************************************************************************)
EXTENDS Naturals, FiniteSets

CONSTANTS
    Waiters,        \* callers of ready
    None,           \* nothing awaited, nothing analysed
    MaxRevision     \* bound on revisions published

Revisions == 1..MaxRevision

ASSUME HubConstants ==
    /\ MaxRevision \in Nat \ {0}
    /\ None \notin Nat
    /\ IsFiniteSet(Waiters)

VARIABLES
    head,       \* the revision last published
    publisher,  \* where the publisher is in enqueue, or in the hub's drop
    queue,      \* revisions waiting to be analysed
    shutdown,   \* whether the hub was dropped
    states,     \* each revision's analysis state
    worker,     \* what the worker does
    analysed,   \* the revision it is at
    awaited,    \* the revision each waiter waits for, pinned while it does
    marked,     \* history: revisions whose enqueue has marked them Pending
    kept        \* history: waiters that pinned a revision still to be answered

hubVars == <<queue, shutdown, states>>
workerVars == <<worker, analysed>>
waiterVars == <<awaited, kept>>
vars == <<head, publisher, hubVars, workerVars, waiterVars, marked>>

-----------------------------------------------------------------------------
(* Vocabulary *)

TerminalStates == {"NotAssemblable", "ValidationFailed", "Ready"}
AnalysisStates == {"Pending", "Validating", "Verifying"} \cup TerminalStates

Terminal(r) == states[r] \in TerminalStates

\* Mutant: pins are not looked at.
NeverPinned(r) == FALSE

Pinned(r) == \E w \in Waiters : awaited[w] = r

\* Mutant: the new revision is queued before the others make way.
PushedFirst == {r \in queue \cup {head} : Pinned(r)}

Pushed == {r \in queue : Pinned(r)} \cup {head}

-----------------------------------------------------------------------------
(* enqueue, after a revision was published, and the hub's drop *)

PublishNext ==
    /\ publisher = "idle"
    /\ ~shutdown
    /\ head < MaxRevision
    /\ head' = head + 1
    /\ publisher' = "push"
    /\ UNCHANGED <<hubVars, workerVars, waiterVars, marked>>

\* Under the queue's lock: what is queued and not pinned makes way. Pins have a
\* lock of their own, but one only matters to the revision it is for, so a pin
\* made while others are looked at comes before this step, or after it.
Push ==
    /\ publisher = "push"
    /\ queue' = Pushed
    /\ publisher' = "mark"
    /\ UNCHANGED <<head, shutdown, states, workerVars, waiterVars, marked>>

\* The queue is unlocked by now, and the worker may have been faster.
MarkPending ==
    /\ publisher = "mark"
    /\ states' = [states EXCEPT ![head] = "Pending"]
    /\ marked' = marked \cup {head}
    /\ publisher' = "notify"
    /\ UNCHANGED <<head, queue, shutdown, workerVars, waiterVars>>

\* Mutant: nobody is woken.
NobodyWoken == worker

Woken == IF worker = "asleep" THEN "awake" ELSE worker

Notify ==
    /\ publisher = "notify"
    /\ worker' = Woken
    /\ publisher' = "idle"
    /\ UNCHANGED <<head, hubVars, analysed, waiterVars, marked>>

\* Whoever publishes or waits holds the engine, and with it the hub.
Close ==
    /\ publisher = "idle"
    /\ ~shutdown
    /\ \A w \in Waiters : awaited[w] = None
    /\ shutdown' = TRUE
    /\ publisher' = "notify"
    /\ UNCHANGED <<head, queue, states, workerVars, waiterVars, marked>>

-----------------------------------------------------------------------------
(* analysis_worker and analyze *)

StopWorking ==
    /\ worker = "awake"
    /\ shutdown
    /\ worker' = "stopped"
    /\ UNCHANGED <<head, publisher, hubVars, analysed, waiterVars, marked>>

Pop ==
    /\ worker = "awake"
    /\ ~shutdown
    /\ \E r \in queue :
          /\ \A other \in queue : r <= other
          /\ analysed' = r
          /\ queue' = queue \ {r}
    /\ worker' = "assembling"
    /\ UNCHANGED <<head, publisher, shutdown, states, waiterVars, marked>>

\* The condition is awaited with the lock the queue was found empty under.
Sleep ==
    /\ worker = "awake"
    /\ ~shutdown
    /\ queue = {}
    /\ worker' = "asleep"
    /\ UNCHANGED <<head, publisher, hubVars, analysed, waiterVars, marked>>

Goes(next) == IF next = "awake" THEN None ELSE analysed

SetState(s, next) ==
    /\ states' = [states EXCEPT ![analysed] = s]
    /\ worker' = next
    /\ analysed' = Goes(next)
    /\ UNCHANGED <<head, publisher, queue, shutdown, waiterVars, marked>>

Assemble ==
    /\ worker = "assembling"
    /\ SetState("NotAssemblable", "awake") \/ SetState("Validating", "validating")

\* Mutant: errors end the analysis without being reported.
ErrorsUnreported == SetState("Validating", "awake")

ReportErrors == SetState("ValidationFailed", "awake")

Validate ==
    /\ worker = "validating"
    /\ ReportErrors \/ SetState("Verifying", "verifying")

Verify ==
    /\ worker = "verifying"
    /\ SetState("Ready", "awake")

-----------------------------------------------------------------------------
(* ready: pin, then wait for the state to be terminal *)

\* A result is still to come, or there, when the revision was pinned.
InHand(r) == r \in marked /\ (r \in queue \/ analysed = r \/ Terminal(r))

Wait(w, r) ==
    /\ awaited[w] = None
    /\ ~shutdown
    /\ r <= head
    /\ awaited' = [awaited EXCEPT ![w] = r]
    /\ kept' = IF InHand(r) THEN kept \cup {w} ELSE kept
    /\ UNCHANGED <<head, publisher, hubVars, workerVars, marked>>

Leave(w) ==
    /\ awaited' = [awaited EXCEPT ![w] = None]
    /\ kept' = kept \ {w}
    /\ UNCHANGED <<head, publisher, hubVars, workerVars, marked>>

Answer(w) ==
    /\ awaited[w] # None
    /\ Terminal(awaited[w])
    /\ Leave(w)

\* The caller's timeout drops the wait, and with it the pin.
TimeOut(w) ==
    /\ awaited[w] # None
    /\ Leave(w)

-----------------------------------------------------------------------------
(* The specification: the engine starts with its head to be queued *)

Init ==
    /\ head = 1
    /\ publisher = "push"
    /\ queue = {}
    /\ shutdown = FALSE
    /\ states = [r \in Revisions |-> "Pending"]
    /\ worker = "awake"
    /\ analysed = None
    /\ awaited = [w \in Waiters |-> None]
    /\ marked = {}
    /\ kept = {}

Enqueue == Push \/ MarkPending \/ Notify

Work == StopWorking \/ Pop \/ Sleep \/ Assemble \/ Validate \/ Verify

Next ==
    \/ PublishNext \/ Enqueue \/ Close
    \/ Work
    \/ \E w \in Waiters :
          \/ \E r \in Revisions : Wait(w, r)
          \/ Answer(w)
          \/ TimeOut(w)

Spec == Init /\ [][Next]_vars

(***************************************************************************)
(* Threads that can go on do: enqueue and the worker are plain code, and a *)
(* waiter is woken by every change of the state it watches. Nobody has to  *)
(* publish, to wait, or to time out.                                       *)
(***************************************************************************)
FairSpec ==
    /\ Spec
    /\ WF_vars(Enqueue)
    /\ WF_vars(Work)
    /\ \A w \in Waiters : WF_vars(Answer(w))

-----------------------------------------------------------------------------
(* Properties *)

\* The type invariant.
TypeOK ==
    /\ head \in Revisions
    /\ publisher \in {"idle", "push", "mark", "notify"}
    /\ queue \in SUBSET Revisions
    /\ shutdown \in BOOLEAN
    /\ states \in [Revisions -> AnalysisStates]
    /\ worker \in {"awake", "asleep", "assembling", "validating", "verifying", "stopped"}
    /\ analysed \in Revisions \cup {None}
    /\ worker \in {"assembling", "validating", "verifying"} <=> analysed # None
    /\ awaited \in [Waiters -> Revisions \cup {None}]
    /\ marked \in SUBSET Revisions
    /\ kept \in SUBSET Waiters

\* "The revision is pinned while awaited, so coalescing cannot drop it" (ready):
\* whatever is published meanwhile, a revision pinned while its result was still
\* to come is queued, being analysed, or answered, for as long as it is awaited.
PinHolds ==
    \A w \in kept :
       awaited[w] \in queue \/ analysed = awaited[w] \/ Terminal(awaited[w])

\* However fast revisions are published, no more are queued than are awaited,
\* and the newest (enqueue: "rapid revisions coalesce").
Coalesced == Cardinality(queue) <= Cardinality(Waiters) + 1

\* The newest revision is never lost between the queue and a worker about to
\* sleep: it is analysed unless another is published, though nobody waits for it.
HeadIsAnalysed ==
    \A r \in Revisions :
       (head = r /\ publisher = "push") ~> (Terminal(r) \/ head # r \/ shutdown)

\* Whoever pinned a revision while its result was still to come gets an answer.
PinnedWaitEnds == \A w \in Waiters : (w \in kept) ~> (awaited[w] = None)

\* "Its drop shuts the worker down" (AnalysisHub), wherever it is.
ShutsDown == shutdown ~> (worker = "stopped")

(***************************************************************************)
(* What the documents say of the hub and the code does not keep.  No run   *)
(* checks it.                                                              *)
(***************************************************************************)

\* A state is "Terminal." (AnalysisState, is_terminal): what a revision was found
\* to be it stays, so whoever waits for it, however late, is answered.
TerminalIsFinal ==
    [][\A r \in Revisions : Terminal(r) => states'[r] = states[r]]_vars

=============================================================================
