------------------------ MODULE DesignEngine_proofs ------------------------
(***************************************************************************)
(* The safety of DesignEngine for any number of tasks, tokens, symbols,    *)
(* patches and revisions. IInv is the inductive invariant: next to the     *)
(* type invariant it says where the head stands while a commit is under    *)
(* way, what each step of the gate has established for the next, and why   *)
(* a task with a commit in the log is never admitted again. OneHolder,     *)
(* ExposedStale and GateKnows, further down, strengthen it for the tokens, *)
(* the sweep and the refinement of SerialDesign.                           *)
(***************************************************************************)
EXTENDS DesignEngine, TLAPS

\* The head is the last revision, except between persisting and publishing.
Located ==
    /\ head \in 1..Len(log)
    /\ \A t \in Tasks : pinned[t] \in 1..Len(log)
    /\ pc = "publish" => Len(log) = head + 1
    /\ pc # "publish" => Len(log) = head

\* A commit has been persisted and is not yet settled.
Pending ==
    \/ pc = "publish"
    \/ pc = "sweep" /\ log[Len(log)].task # None
    \/ pc = "settle" /\ verdict = "committed"

Mine ==
    Pending =>
       /\ req # None
       /\ Len(log) \in 2..Len(log)
       /\ log[Len(log)].task = req.task
       /\ log[Len(log)].nonce = req.nonce
       /\ pc # "publish" => verdict = "committed"

\* Who has ever been named by a submission has been created, and logged.
Fresh == {"Unborn", "Installing", "Running"}

Born ==
    /\ \A i \in 1..Len(queue) : state[queue[i].task] # "Unborn"
    /\ req # None => state[req.task] # "Unborn"
    /\ pc \in {"reads", "refs", "persist", "publish", "settle"} => state[req.task] \notin Fresh
    /\ Pending => state[req.task] \notin Fresh
    /\ \A t \in Tasks : state[t] # "Unborn" => logged[t] # "Unborn"
    /\ \A t \in Tasks : logged[t] # "Installing"

\* What the gate has established by the time it goes on.
SeenHolds ==
    pc \in {"refs", "persist"} => StillTrue(seen.symbols, seen.queries, Workspace(head))

TargetsHold ==
    pc = "persist" =>
       \A s \in Targets(req.patch) : Workspace(pinned[req.task])[s] = Workspace(head)[s]

\* A task that made a revision is past running, and was not the one being judged.
Based == \A r \in Commits : log[r].base \in 1..(r - 1)

CommittedDone == \A r \in Commits : state[log[r].task] \notin Fresh

Judging ==
    \/ pc \in {"reads", "refs", "persist"}
    \/ pc = "settle" /\ verdict # "committed"

FirstCommit == Judging => \A r \in Commits : log[r].task # req.task

NoncesTrue ==
    \A t \in Tasks, n \in Nonces : nonces[t][n] # 0 =>
       /\ nonces[t][n] \in Commits
       /\ log[nonces[t][n]].task = t
       /\ log[nonces[t][n]].nonce = n

IInv ==
    /\ TypeOK
    /\ Located
    /\ Mine
    /\ Born
    /\ SeenHolds
    /\ TargetsHold
    /\ Based
    /\ CommittedDone
    /\ FirstCommit
    /\ NoncesTrue
    /\ CommittedOnWhatWasSeen
    /\ NoLostUpdate
    /\ OneCommitPerTask
    /\ ReceiptsHonoured

-----------------------------------------------------------------------------
(* Lemmas about the data *)

\* Appending a revision leaves the ones before it as they are.
LEMMA LogGrows ==
    ASSUME NEW l \in Seq(Entries), NEW e \in Entries
    PROVE  /\ Append(l, e) \in Seq(Entries)
           /\ Len(Append(l, e)) = Len(l) + 1
           /\ \A r \in 1..Len(l) : Append(l, e)[r] = l[r]
           /\ Append(l, e)[Len(l) + 1] = e
    OBVIOUS

\* Applying a patch to a workspace yields a workspace.
LEMMA ApplyType ==
    ASSUME NEW p \in Patches, NEW ws \in Workspaces
    PROVE  Apply(p, ws) \in Workspaces
  <1>1. p \in PatchType
    BY DataConstants
  <1>2. PICK S \in SUBSET Symbols : p.writes \in [S -> Contents \cup {Absent}]
    BY <1>1 DEF PatchType
  <1> QED
    BY <1>2 DEF Apply, Targets, Workspaces

\* The empty read set is a read set.
LEMMA NothingRead ==
    /\ NoSymbols \in Observed
    /\ NoQueries \in Asked
    BY DEF NoSymbols, NoQueries, Observed, Asked

\* What a revision holds is a workspace.
LEMMA RevisionType ==
    ASSUME log \in Seq(Entries), NEW r \in 1..Len(log)
    PROVE  Workspace(r) \in Workspaces
  <1>1. log[r] \in Entries
    OBVIOUS
  <1> QED
    BY <1>1 DEF Workspace, Entries

-----------------------------------------------------------------------------
(* The type invariant *)

LEMMA TypeInit == Init => TypeOK /\ Located /\ Mine
  <1> SUFFICES ASSUME Init PROVE TypeOK /\ Located /\ Mine
    OBVIOUS
  <1>1. log \in Seq(Entries) /\ Len(log) = 1 /\ log[1].task = None
    BY NothingRead, EngineConstants DEF Init, Entries
  <1>2. TypeOK
    BY <1>1, NothingRead, NoneIsNothing
    DEF Init, TypeOK, TaskStates, Unmapped, Steps, CommitSteps, NoSeen
  <1>3. Located /\ Mine
    BY <1>1 DEF Init, Located, Mine, Pending
  <1> QED
    BY <1>2, <1>3

\* Every step keeps the types; one lemma for each group of actions.
LEMMA TypeSessions == TypeOK /\ Located /\ Sessions => TypeOK'
  <1> SUFFICES ASSUME TypeOK, Located, Sessions PROVE TypeOK'
    OBVIOUS
  <1> USE DEF TypeOK, taskVars, specVars, readVars, writerVars, historyVars
  <1>1. ASSUME NEW t \in Tasks, NEW s \in Symbols, ReadSymbol(t, s) PROVE TypeOK'
    <2>1. Workspace(pinned[t]) \in Workspaces
      BY RevisionType DEF Located
    <2>2. symbols' \in [Tasks -> Observed]
      BY <1>1, <2>1 DEF ReadSymbol, Observed, Workspaces
    <2> QED
      BY <1>1, <2>2 DEF ReadSymbol
  <1>2. ASSUME NEW t \in Tasks, NEW q \in Queries, GraphQuery(t, q) PROVE TypeOK'
    <2>1. queries' \in [Tasks -> Asked]
      BY <1>2 DEF GraphQuery, Asked, Answer
    <2> QED
      BY <1>2, <2>1 DEF GraphQuery
  <1>3. ASSUME NEW tk \in Tokens, NEW n \in Nonces, NEW b \in 1..MaxRevision, NEW p \in Patches,
               Submit(tk, n, b, p)
        PROVE  TypeOK'
    <2>1. [task |-> tokens[tk], nonce |-> n, base |-> b, patch |-> p] \in Requests
      BY <1>3, EngineConstants DEF Submit, Requests
    <2> QED
      BY <1>3, <2>1 DEF Submit
  <1> QED
    BY <1>1, <1>2, <1>3 DEF Sessions

LEMMA TypeSupervision == TypeOK /\ Located /\ Supervision => TypeOK'
  <1> SUFFICES ASSUME TypeOK, Located, Supervision PROVE TypeOK'
    OBVIOUS
  <1> USE DEF TypeOK, taskVars, specVars, readVars, writerVars, historyVars, TaskStates, Unmapped, Active, EndStates
  <1>1. ASSUME NEW t \in Tasks, NEW g \in Gates, NEW sc \in Scopes, NEW tk \in Tokens,
               PinTask(t, g, sc, tk)
        PROVE  TypeOK'
    BY <1>1, EngineConstants DEF PinTask
  <1>2. ASSUME NEW t \in Tasks, InstallTask(t) PROVE TypeOK'
    BY <1>2 DEF InstallTask
  <1>3. ASSUME NEW t \in Tasks, NEW o \in Outcomes, FinishTask(t, o) PROVE TypeOK'
    BY <1>3, EngineConstants DEF FinishTask
  <1> QED
    BY <1>1, <1>2, <1>3 DEF Supervision

LEMMA TypeAdoption == TypeOK /\ Located /\ Adoption => TypeOK'
  <1> SUFFICES ASSUME TypeOK, Located, Adoption PROVE TypeOK'
    OBVIOUS
  <1> USE DEF TypeOK, taskVars, specVars, readVars, writerVars, historyVars, Steps, CommitSteps, AfterAdoption
  <1>1. CASE AdoptNothing
    BY <1>1 DEF AdoptNothing
  <1>2. ASSUME NEW ws \in Edits, AdoptEdit(ws) PROVE TypeOK'
    <2>1. [ws |-> ws, task |-> None, nonce |-> None, token |-> None, patch |-> None,
           base |-> head, symbols |-> NoSymbols, queries |-> NoQueries] \in Entries
      BY NothingRead, EngineConstants DEF Entries
    <2>2. log' \in Seq(Entries) /\ head' \in Nat
      BY <1>2, <2>1, LogGrows DEF AdoptEdit
    <2> QED
      BY <1>2, <2>2 DEF AdoptEdit, LeftStale
  <1>3. CASE AdoptFails
    BY <1>3 DEF AdoptFails
  <1> QED
    BY <1>1, <1>2, <1>3 DEF Adoption

\* A successor is a task like any other.
LEMMA SuccessorType ==
    ASSUME TypeOK, Located, NEW t \in Tasks, NEW n \in Tasks,
           NEW left \in {"Invalidated", "Committed"}, Succeed(t, n, left)
    PROVE  /\ state' \in [Tasks -> TaskStates]
           /\ gate' \in [Tasks -> {"SinglePatch", "Interactive", "Session"}]
           /\ scope' \in [Tasks -> SUBSET Symbols]
           /\ pinned' \in [Tasks -> Nat]
           /\ tokenOf' \in [Tasks -> Tokens \cup {None}]
           /\ tokens' \in [Tokens -> Tasks \cup {None}]
  BY DEF TypeOK, Succeed, TaskStates, Active, Unmapped

LEMMA TypePublication == TypeOK /\ Located /\ Mine /\ Publication => TypeOK'
  <1> SUFFICES ASSUME TypeOK, Located, Mine, Publication PROVE TypeOK'
    OBVIOUS
  <1> USE DEF TypeOK, taskVars, specVars, readVars, writerVars, historyVars, Steps, CommitSteps, TaskStates, Active, AfterAdoption
  <1>1. ASSUME NEW t \in Tasks, SweepTask(t) PROVE TypeOK'
    BY <1>1 DEF SweepTask
  <1>2. CASE SweepDone
    BY <1>2 DEF SweepDone, FollowsCommit, Mine, Pending, Located
  <1>3. ASSUME NEW t \in Tasks, MoveSession(t) PROVE TypeOK'
    <2>1. ASSUME NEW n \in Tasks, Succeed(t, n, "Invalidated"),
                 logged' = [logged EXCEPT ![t] = "Invalidated", ![n] = "Running"]
          PROVE  TypeOK'
      BY <1>3, <2>1, SuccessorType DEF MoveSession
    <2>2. CASE Strand(t, "Invalidated") /\ logged' = [logged EXCEPT ![t] = "Invalidated"]
      BY <1>3, <2>2 DEF MoveSession, Strand
    <2> QED
      BY <1>3, <2>1, <2>2 DEF MoveSession
  <1>4. CASE MoveDone
    BY <1>4 DEF MoveDone
  <1> QED
    BY <1>1, <1>2, <1>3, <1>4 DEF Publication

LEMMA TypeCommitProtocol == TypeOK /\ Located /\ CommitProtocol => TypeOK'
  <1> SUFFICES ASSUME TypeOK, Located, CommitProtocol PROVE TypeOK'
    OBVIOUS
  <1> USE DEF TypeOK, taskVars, specVars, readVars, writerVars, historyVars, Steps, CommitSteps,
              TaskStates, Active, Settled, Judge
  <1>1. CASE Gate
    <2>1. req \in Requests /\ Replay \in Nat
      BY <1>1 DEF Gate, Replay, Requests
    <2>2. state' \in [Tasks -> TaskStates] /\ note' \in [Tasks -> {"None", "Causes", "Patch"}]
      BY <1>1, <2>1 DEF Gate, KeepPatch
    <2>3. /\ receipts' \in SUBSET [task : Tasks, nonce : Nonces, revision : Nat]
          /\ refused' \in SUBSET Tasks
      BY <1>1, <2>1 DEF Gate, Requests
    <2>4. pc' \in Steps /\ req' \in Requests \cup {None} /\ (pc' \in CommitSteps => req' # None)
      BY <1>1, <2>1 DEF Gate
    <2> QED
      BY <1>1, <2>2, <2>3, <2>4 DEF Gate
  <1>2. CASE CheckReads
    <2>1. \E v \in {"none", "stale", "fixable"} : Judge(v, "refs")
      BY <1>2 DEF CheckReads
    <2>2. verdict' \in {"none", "stale", "fixable"} /\ pc' \in {"refs", "settle"}
      BY <2>1
    <2>3. seen' \in [symbols : Observed, queries : Asked]
      BY <1>2 DEF CheckReads, Requests
    <2> QED
      BY <1>2, <2>2, <2>3 DEF CheckReads
  <1>3. CASE CheckRefs
    <2>1. \E v \in {"none", "stale", "fixable"} : Judge(v, "persist")
      BY <1>3 DEF CheckRefs
    <2>2. verdict' \in {"none", "stale", "fixable"} /\ pc' \in {"persist", "settle"}
      BY <2>1
    <2> QED
      BY <1>3, <2>2 DEF CheckRefs
  <1>4. CASE Persist
    <2>1. Workspace(head) \in Workspaces
      BY RevisionType DEF Located
    <2>2. req \in Requests
      BY <1>4 DEF Persist
    <2>3. Apply(req.patch, Workspace(head)) \in Workspaces
      BY <2>1, <2>2, ApplyType DEF Requests
    <2>4. [ws |-> Apply(req.patch, Workspace(head)), task |-> req.task, nonce |-> req.nonce,
           token |-> tokenOf[req.task], patch |-> req.patch, base |-> pinned[req.task],
           symbols |-> seen.symbols, queries |-> seen.queries] \in Entries
      BY <2>2, <2>3 DEF Entries, Requests
    <2>5. log' \in Seq(Entries)
      BY <1>4, <2>4, LogGrows DEF Persist
    <2>6. nonces' \in [Tasks -> [Nonces -> Nat]]
      BY <1>4, <2>2 DEF Persist, Remember, Requests
    <2> QED
      BY <1>4, <2>5, <2>6 DEF Persist
  <1>5. CASE PersistFails
    BY <1>5 DEF PersistFails
  <1>6. CASE Publish
    BY <1>6 DEF Publish, LeftStale, Requests
  <1> USE NothingRead DEF NoSeen, Requests
  <1>7. CASE SettleCommitted
    <2>1. seen' \in [symbols : Observed, queries : Asked]
      BY <1>7 DEF SettleCommitted
    <2>2. receipts' \in SUBSET [task : Tasks, nonce : Nonces, revision : Nat]
      BY <1>7 DEF SettleCommitted
    <2>3. /\ pc' = "idle" /\ req' = None /\ verdict' = "none"
          /\ UNCHANGED <<log, head, readVars, nonces, queue, todo, exposed, note, refused>>
      BY <1>7 DEF SettleCommitted
    <2>4. ASSUME NEW n \in Tasks, Succeed(req.task, n, "Committed"),
                 logged' = [logged EXCEPT ![n] = "Running"]
          PROVE  TypeOK'
      <3>1. req.task \in Tasks
        BY <1>7 DEF SettleCommitted
      <3>2. /\ state' \in [Tasks -> TaskStates]
            /\ gate' \in [Tasks -> {"SinglePatch", "Interactive", "Session"}]
            /\ scope' \in [Tasks -> SUBSET Symbols]
            /\ pinned' \in [Tasks -> Nat]
            /\ tokenOf' \in [Tasks -> Tokens \cup {None}]
            /\ tokens' \in [Tokens -> Tasks \cup {None}]
        BY <2>4, <3>1, SuccessorType
      <3>3. logged' \in [Tasks -> TaskStates]
        BY <2>4
      <3> QED
        BY <2>1, <2>2, <2>3, <3>2, <3>3
    <2>5. CASE Strand(req.task, "Committed") /\ UNCHANGED logged
      <3>1. state' \in [Tasks -> TaskStates] /\ UNCHANGED <<specVars, tokens>>
        BY <2>5 DEF Strand
      <3> QED
        BY <2>1, <2>2, <2>3, <2>5, <3>1
    <2> QED
      BY <1>7, <2>4, <2>5 DEF SettleCommitted
  <1>8. CASE SettleStale
    BY <1>8 DEF SettleStale, KeepPatch
  <1>9. CASE SettleFixable
    BY <1>9 DEF SettleFixable
  <1> QED
    BY <1>1, <1>2, <1>3, <1>4, <1>5, <1>6, <1>7, <1>8, <1>9 DEF CommitProtocol

LEMMA TypeNext == TypeOK /\ Located /\ Mine /\ [Next]_vars => TypeOK'
  <1> SUFFICES ASSUME TypeOK, Located, Mine, [Next]_vars PROVE TypeOK'
    OBVIOUS
  <1> USE DEF taskVars, specVars, readVars, writerVars, historyVars
  <1>1. CASE Sessions \/ Supervision \/ LockHolder
    BY <1>1, TypeSessions, TypeSupervision, TypeAdoption, TypePublication, TypeCommitProtocol
    DEF LockHolder
  <1>2. CASE TakeSubmission
    BY <1>2 DEF TakeSubmission, TypeOK, Steps, CommitSteps
  <1>3. CASE SyncWithDisk
    BY <1>3 DEF SyncWithDisk, TypeOK, Steps, CommitSteps
  <1>4. ASSUME NEW t \in Tasks, RefreshSession(t) PROVE TypeOK'
    BY <1>4 DEF RefreshSession, TypeOK, Steps, CommitSteps
  <1>5. CASE Restart
    <2>1. \A s \in TaskStates : Recovered(s) \in TaskStates
      BY DEF Recovered, TaskStates
    <2> QED
      BY <1>5, <2>1, NothingRead DEF Restart, TypeOK, NoSeen, Steps, CommitSteps
  <1>6. CASE UNCHANGED vars
    BY <1>6 DEF vars, TypeOK
  <1> QED
    BY <1>1, <1>2, <1>3, <1>4, <1>5, <1>6 DEF Next

-----------------------------------------------------------------------------
(* Where the head stands, and whose commit is pending *)

\* Sessions, the supervision and the turns of sweeps and moves leave the writer
\* and the log alone.
LEMMA Bystanders ==
    ASSUME \/ Sessions
           \/ Supervision
           \/ \E t \in Tasks : SweepTask(t) \/ MoveSession(t)
           \/ UNCHANGED vars
    PROVE  UNCHANGED <<log, head, nonces, pc, req, verdict, seen>>
  <1> USE DEF taskVars, specVars, readVars, writerVars, historyVars
  <1>1. CASE Sessions
    BY <1>1 DEF Sessions, ReadSymbol, GraphQuery, Submit
  <1>2. CASE Supervision
    BY <1>2 DEF Supervision, PinTask, InstallTask, FinishTask
  <1>3. CASE \E t \in Tasks : SweepTask(t) \/ MoveSession(t)
    BY <1>3 DEF SweepTask, MoveSession
  <1>4. CASE UNCHANGED vars
    BY <1>4 DEF vars
  <1> QED
    BY <1>1, <1>2, <1>3, <1>4

\* A task is pinned once, when it is created, and to the head.
LEMMA PinnedToHead ==
    ASSUME TypeOK, [Next]_vars
    PROVE  \A t \in Tasks : /\ pinned'[t] \in {pinned[t], head}
                            /\ state[t] # "Unborn" => pinned'[t] = pinned[t]
  <1> USE DEF TypeOK, taskVars, specVars, readVars, writerVars, historyVars
  <1>1. CASE Sessions
    BY <1>1 DEF Sessions, ReadSymbol, GraphQuery, Submit
  <1>2. CASE Supervision
    BY <1>2 DEF Supervision, PinTask, InstallTask, FinishTask
  <1>3. CASE Adoption
    BY <1>3 DEF Adoption, AdoptNothing, AdoptEdit, AdoptFails
  <1>4. CASE Publication
    BY <1>4 DEF Publication, SweepTask, SweepDone, MoveSession, MoveDone, Succeed, Strand
  <1>5. CASE CommitProtocol
    BY <1>5 DEF CommitProtocol, Gate, CheckReads, CheckRefs, Persist, PersistFails, Publish,
                SettleCommitted, SettleStale, SettleFixable, Succeed, Strand
  <1>6. CASE \/ TakeSubmission
             \/ SyncWithDisk
             \/ \E t \in Tasks : RefreshSession(t)
             \/ Restart
             \/ UNCHANGED vars
    BY <1>6 DEF TakeSubmission, SyncWithDisk, RefreshSession, Restart, vars
  <1> QED
    BY <1>1, <1>2, <1>3, <1>4, <1>5, <1>6 DEF Next, LockHolder

LEMMA LocatedNext == TypeOK /\ Located /\ Mine /\ [Next]_vars => Located'
  <1> SUFFICES ASSUME TypeOK, Located, Mine, [Next]_vars PROVE Located'
    OBVIOUS
  <1>1. \A t \in Tasks : pinned'[t] \in 1..Len(log)
    BY PinnedToHead DEF Located
  <1> USE DEF TypeOK, taskVars, specVars, readVars, writerVars, historyVars
  <1>2. CASE UNCHANGED <<log, head, pc>>
    BY <1>1, <1>2 DEF Located
  <1>3. CASE Adoption
    <2>1. ASSUME NEW ws \in Edits, AdoptEdit(ws) PROVE Located'
      BY <1>1, <2>1 DEF AdoptEdit, Located
    <2>2. CASE AdoptNothing \/ AdoptFails
      BY <1>1, <2>2 DEF AdoptNothing, AdoptFails, AfterAdoption, Located
    <2> QED
      BY <1>3, <2>1, <2>2 DEF Adoption
  <1>4. CASE Publication
    <2>1. CASE SweepDone \/ MoveDone
      BY <1>1, <2>1 DEF SweepDone, MoveDone, AfterAdoption, Located
    <2> QED
      BY <1>2, <1>4, <2>1, Bystanders DEF Publication
  <1>5. CASE CommitProtocol
    <2>1. CASE Gate \/ CheckReads \/ CheckRefs \/ PersistFails
      BY <1>1, <2>1 DEF Gate, CheckReads, CheckRefs, PersistFails, Judge, Located
    <2>2. CASE Persist
      BY <1>1, <2>2 DEF Persist, Located
    <2>3. CASE Publish
      BY <1>1, <2>3 DEF Publish, Located
    <2>4. CASE SettleCommitted \/ SettleStale \/ SettleFixable
      BY <1>1, <2>4 DEF SettleCommitted, SettleStale, SettleFixable, Settled, Located
    <2> QED
      BY <1>5, <2>1, <2>2, <2>3, <2>4 DEF CommitProtocol
  <1>6. CASE TakeSubmission \/ SyncWithDisk \/ \E t \in Tasks : RefreshSession(t)
    BY <1>1, <1>6 DEF TakeSubmission, SyncWithDisk, RefreshSession, Located
  <1>7. CASE Restart
    BY <1>1, <1>7 DEF Restart, Located
  <1> QED
    BY <1>2, <1>3, <1>4, <1>5, <1>6, <1>7, Bystanders DEF Next, LockHolder

LEMMA MineNext == TypeOK /\ Located /\ Mine /\ [Next]_vars => Mine'
  <1> SUFFICES ASSUME TypeOK, Located, Mine, [Next]_vars PROVE Mine'
    OBVIOUS
  <1> USE DEF TypeOK, taskVars, specVars, readVars, writerVars, historyVars, Mine, Pending
  <1>1. CASE UNCHANGED <<log, pc, req, verdict>>
    BY <1>1
  <1>2. CASE Adoption
    <2>1. ASSUME NEW ws \in Edits, AdoptEdit(ws) PROVE Mine'
      <3>1. Len(log') = Len(log) + 1 /\ log'[Len(log')].task = None /\ pc' = "sweep"
        BY <2>1 DEF AdoptEdit
      <3> QED
        BY <3>1
    <2>2. CASE AdoptNothing \/ AdoptFails
      BY <2>2 DEF AdoptNothing, AdoptFails, AfterAdoption
    <2> QED
      BY <1>2, <2>1, <2>2 DEF Adoption
  <1>3. CASE Publication
    <2>1. CASE SweepDone
      BY <2>1 DEF SweepDone, FollowsCommit, Located
    <2>2. CASE MoveDone
      BY <2>2 DEF MoveDone, AfterAdoption
    <2> QED
      BY <1>1, <1>3, <2>1, <2>2, Bystanders DEF Publication
  <1>4. CASE CommitProtocol
    <2>1. CASE Gate
      BY <2>1 DEF Gate
    <2>2. CASE CheckReads
      <3>1. \E v \in {"none", "stale", "fixable"} : Judge(v, "refs")
        BY <2>2 DEF CheckReads
      <3> QED
        BY <3>1 DEF Judge
    <2>3. CASE CheckRefs
      <3>1. \E v \in {"none", "stale", "fixable"} : Judge(v, "persist")
        BY <2>3 DEF CheckRefs
      <3> QED
        BY <3>1 DEF Judge
    <2>4. CASE Persist
      <3>1. req' = req /\ req # None /\ pc' = "publish"
        BY <2>4 DEF Persist, CommitSteps
      <3>2. /\ Len(log') = Len(log) + 1
            /\ log'[Len(log')].task = req.task
            /\ log'[Len(log')].nonce = req.nonce
        BY <2>4 DEF Persist
      <3> QED
        BY <3>1, <3>2 DEF Located
    <2>5. CASE PersistFails
      BY <2>5 DEF PersistFails, Judge
    <2>6. CASE Publish
      BY <2>6 DEF Publish
    <2>7. CASE SettleCommitted \/ SettleStale \/ SettleFixable
      BY <2>7 DEF SettleCommitted, SettleStale, SettleFixable, Settled
    <2> QED
      BY <1>4, <2>1, <2>2, <2>3, <2>4, <2>5, <2>6, <2>7 DEF CommitProtocol
  <1>5. CASE TakeSubmission \/ SyncWithDisk \/ (\E t \in Tasks : RefreshSession(t)) \/ Restart
    BY <1>5 DEF TakeSubmission, SyncWithDisk, RefreshSession, Restart
  <1> QED
    BY <1>1, <1>2, <1>3, <1>4, <1>5, Bystanders DEF Next, LockHolder

\* Type correctness: what the engine keeps of its tasks, log and sequencer is
\* always of its type, and the sequencer never judges without a submission.
THEOREM TypeCorrect == Spec => []TypeOK
  <1>1. Init => TypeOK /\ Located /\ Mine
    BY TypeInit
  <1>2. TypeOK /\ Located /\ Mine /\ [Next]_vars => (TypeOK /\ Located /\ Mine)'
    BY TypeNext, LocatedNext, MineNext
  <1> QED
    BY <1>1, <1>2, PTL DEF Spec

-----------------------------------------------------------------------------
(* Who is judged, and who has committed *)

Base == TypeOK /\ Located /\ Mine

\* How lifecycles move, short of a restart: nothing is unborn, nothing that has
\* run is fresh again but a task put back to running by its refusal, and what is
\* born is in the task log.
Moves ==
    /\ \A t \in Tasks : state[t] # "Unborn" => state'[t] # "Unborn"
    /\ \A t \in Tasks : state'[t] \in Fresh => state[t] \in Fresh \/ (SettleFixable /\ t = req.task)
    /\ \A t \in Tasks : logged'[t] = "Unborn" => logged[t] = "Unborn" /\ state'[t] = state[t]
    /\ \A t \in Tasks : logged'[t] = "Installing" => logged[t] = "Installing"

Logged ==
    /\ \A t \in Tasks : state[t] # "Unborn" => logged[t] # "Unborn"
    /\ \A t \in Tasks : logged[t] # "Installing"

LEMMA LifecycleMoves ==
    ASSUME TypeOK, Logged, req # None => state[req.task] # "Unborn", [Next]_vars, ~Restart
    PROVE  Moves
  <1> USE DEF TypeOK, Moves, Logged, Fresh, taskVars, specVars, readVars, writerVars, historyVars
  <1>1. CASE UNCHANGED <<state, logged>>
    BY <1>1
  <1>2. CASE Sessions
    BY <1>1, <1>2 DEF Sessions, ReadSymbol, GraphQuery, Submit
  <1>3. CASE Supervision
    <2>1. ASSUME NEW t \in Tasks, NEW g \in Gates, NEW sc \in Scopes, NEW tk \in Tokens,
                 PinTask(t, g, sc, tk)
          PROVE  Moves
      BY <2>1 DEF PinTask
    <2>2. ASSUME NEW t \in Tasks, InstallTask(t) PROVE Moves
      BY <2>2 DEF InstallTask
    <2>3. ASSUME NEW t \in Tasks, NEW o \in Outcomes, FinishTask(t, o) PROVE Moves
      <3>1. o \in EndStates
        BY EngineConstants
      <3> QED
        BY <2>3, <3>1 DEF FinishTask, EndStates
    <2> QED
      BY <1>3, <2>1, <2>2, <2>3 DEF Supervision
  <1>4. CASE Adoption
    BY <1>1, <1>4 DEF Adoption, AdoptNothing, AdoptEdit, AdoptFails
  <1>5. CASE Publication
    <2>1. ASSUME NEW t \in Tasks, SweepTask(t) PROVE Moves
      BY <2>1 DEF SweepTask
    <2>2. ASSUME NEW t \in Tasks, MoveSession(t) PROVE Moves
      <3>1. ASSUME NEW n \in Tasks, Succeed(t, n, "Invalidated"),
                   logged' = [logged EXCEPT ![t] = "Invalidated", ![n] = "Running"]
            PROVE  Moves
        BY <2>2, <3>1 DEF MoveSession, Succeed
      <3>2. CASE Strand(t, "Invalidated") /\ logged' = [logged EXCEPT ![t] = "Invalidated"]
        BY <2>2, <3>2 DEF MoveSession, Strand
      <3> QED
        BY <2>2, <3>1, <3>2 DEF MoveSession
    <2>3. CASE SweepDone \/ MoveDone
      BY <1>1, <2>3 DEF SweepDone, MoveDone
    <2> QED
      BY <1>5, <2>1, <2>2, <2>3 DEF Publication
  <1>6. CASE CommitProtocol
    <2>1. CASE Gate
      <3>1. req \in Requests /\ req.task \in Tasks /\ logged' = logged
        BY <2>1 DEF Gate, CommitSteps, Requests
      <3>2. state' \in {state, [state EXCEPT ![req.task] = "Committing"]}
        BY <2>1 DEF Gate
      <3>3. state' # state => state[req.task] = "Running"
        BY <2>1 DEF Gate, Admitted
      <3> QED
        BY <3>1, <3>2, <3>3
    <2>2. CASE CheckReads \/ CheckRefs \/ Persist \/ PersistFails
      BY <1>1, <2>2 DEF CheckReads, CheckRefs, Persist, PersistFails
    <2>3. CASE Publish
      BY <2>3 DEF Publish
    <2>4. CASE SettleCommitted
      <3>1. req \in Requests /\ req.task \in Tasks /\ state[req.task] # "Unborn"
        BY <2>4 DEF SettleCommitted, CommitSteps, Requests
      <3>2. ASSUME NEW n \in Tasks, Succeed(req.task, n, "Committed"),
                   logged' = [logged EXCEPT ![n] = "Running"]
            PROVE  Moves
        BY <3>1, <3>2 DEF Succeed
      <3>3. CASE Strand(req.task, "Committed") /\ UNCHANGED logged
        BY <3>1, <3>3 DEF Strand
      <3> QED
        BY <2>4, <3>2, <3>3 DEF SettleCommitted
    <2>5. CASE SettleStale
      BY <2>5 DEF SettleStale
    <2>6. CASE SettleFixable
      <3>1. pc = "settle" /\ state' = [state EXCEPT ![req.task] = "Running"] /\ logged' = logged
        BY <2>6 DEF SettleFixable
      <3>2. req \in Requests /\ state[req.task] # "Unborn"
        BY <3>1 DEF CommitSteps
      <3> QED
        BY <2>6, <3>1, <3>2 DEF Requests
    <2> QED
      BY <1>6, <2>1, <2>2, <2>3, <2>4, <2>5, <2>6 DEF CommitProtocol
  <1>7. CASE TakeSubmission \/ SyncWithDisk \/ (\E t \in Tasks : RefreshSession(t)) \/ UNCHANGED vars
    BY <1>1, <1>7 DEF TakeSubmission, SyncWithDisk, RefreshSession, vars
  <1> QED
    BY <1>2, <1>3, <1>4, <1>5, <1>6, <1>7 DEF Next, LockHolder

\* Where submissions come from: a session appends one, the sequencer takes the
\* first, and drops it when it is answered.
LEMMA SubmissionsMove ==
    ASSUME TypeOK, [Next]_vars, ~Restart
    PROVE  /\ \/ queue' = queue
              \/ queue # <<>> /\ queue' = Tail(queue)
              \/ \E r \in Requests : state[r.task] # "Unborn" /\ queue' = Append(queue, r)
           /\ \/ req' \in {req, None}
              \/ queue # <<>> /\ req' = Head(queue) /\ pc' = "adopt"
  <1> USE DEF TypeOK, taskVars, specVars, readVars, writerVars, historyVars
  <1>1. CASE Sessions
    <2>1. req' = req
      BY <1>1, Bystanders
    <2>2. CASE UNCHANGED queue
      BY <2>1, <2>2
    <2>3. ASSUME NEW tk \in Tokens, NEW n \in Nonces, NEW b \in 1..MaxRevision,
                 NEW p \in Patches, Submit(tk, n, b, p)
          PROVE  \E r \in Requests : state[r.task] # "Unborn" /\ queue' = Append(queue, r)
      <3>1. [task |-> tokens[tk], nonce |-> n, base |-> b, patch |-> p] \in Requests
        BY <2>3, EngineConstants DEF Submit, Requests
      <3> QED
        BY <2>3, <3>1 DEF Submit, Unmapped
    <2> QED
      BY <1>1, <2>1, <2>2, <2>3 DEF Sessions, ReadSymbol, GraphQuery
  <1>2. CASE Supervision
    BY <1>2 DEF Supervision, PinTask, InstallTask, FinishTask
  <1>3. CASE Adoption
    BY <1>3 DEF Adoption, AdoptNothing, AdoptEdit, AdoptFails
  <1>4. CASE Publication
    BY <1>4 DEF Publication, SweepTask, SweepDone, MoveSession, MoveDone
  <1>5. CASE CommitProtocol
    BY <1>5 DEF CommitProtocol, Gate, CheckReads, CheckRefs, Persist, PersistFails, Publish,
                SettleCommitted, SettleStale, SettleFixable, Settled
  <1>6. CASE TakeSubmission
    BY <1>6 DEF TakeSubmission
  <1>7. CASE SyncWithDisk \/ (\E t \in Tasks : RefreshSession(t)) \/ UNCHANGED vars
    BY <1>7 DEF SyncWithDisk, RefreshSession, vars
  <1> QED
    BY <1>1, <1>2, <1>3, <1>4, <1>5, <1>6, <1>7 DEF Next, LockHolder

\* The sequencer is past the gate with the submission it holds.
Judged == pc \in {"reads", "refs", "persist", "publish", "settle"} \/ Pending

\* A submission gets past the gate in one way: its task was running.
LEMMA PastTheGate ==
    ASSUME Base, [Next]_vars, Judged'
    PROVE  /\ Judged \/ (Gate /\ pc' = "reads")
           /\ req' = req
           /\ ~Restart
           /\ ~SettleFixable
  <1> USE DEF Base, TypeOK, Judged, Pending, taskVars, specVars, readVars, writerVars, historyVars
  <1>1. CASE UNCHANGED <<log, pc, req, verdict>>
    <2>1. ~Restart /\ ~SettleFixable
      BY <1>1 DEF Restart, SettleFixable, Settled
    <2> QED
      BY <1>1, <2>1
  <1>2. CASE Adoption
    <2>1. ASSUME NEW ws \in Edits, AdoptEdit(ws) PROVE FALSE
      <3>1. Len(log') = Len(log) + 1 /\ log'[Len(log')].task = None /\ pc' = "sweep"
        BY <2>1 DEF AdoptEdit
      <3> QED
        BY <3>1
    <2> QED
      BY <1>2, <2>1 DEF Adoption, AdoptNothing, AdoptFails, AfterAdoption
  <1>3. CASE Publication
    <2>1. CASE SweepDone
      BY <2>1 DEF SweepDone, FollowsCommit, Located, Restart, SettleFixable
    <2>2. CASE MoveDone
      BY <2>2 DEF MoveDone, AfterAdoption
    <2> QED
      BY <1>1, <1>3, <2>1, <2>2, Bystanders DEF Publication
  <1>4. CASE Gate
    BY <1>4 DEF Gate, Restart, SettleFixable
  <1>5. CASE CheckReads \/ CheckRefs \/ Persist \/ PersistFails \/ Publish
    BY <1>5 DEF CheckReads, CheckRefs, Persist, PersistFails, Publish, Judge, Restart, SettleFixable,
                Settled
  <1>6. CASE SettleCommitted \/ SettleStale \/ SettleFixable
    BY <1>6 DEF SettleCommitted, SettleStale, SettleFixable, Settled
  <1>7. CASE TakeSubmission \/ SyncWithDisk \/ (\E t \in Tasks : RefreshSession(t)) \/ Restart
    BY <1>7 DEF TakeSubmission, SyncWithDisk, RefreshSession, Restart
  <1> QED
    BY <1>1, <1>2, <1>3, <1>4, <1>5, <1>6, <1>7, Bystanders DEF Next, LockHolder, CommitProtocol

LEMMA BornNext == Base /\ Born /\ [Next]_vars => Born'
  <1> SUFFICES ASSUME Base, Born, [Next]_vars PROVE Born'
    OBVIOUS
  <1> USE DEF Base
  <1>1. CASE Restart
    <2>1. \A t \in Tasks : Recovered(logged[t]) # "Unborn" => logged[t] # "Unborn"
      BY DEF Recovered
    <2>2. \A t \in Tasks : Recovered(logged[t]) # "Installing"
      BY DEF Recovered, Born
    <2> QED
      BY <1>1, <2>1, <2>2 DEF Restart, Born, Pending
  <1>2. CASE ~Restart
    <2>1. Moves
      BY <1>2, LifecycleMoves DEF Logged, Born
    <2>2. Logged'
      <3>1. \A t \in Tasks : state'[t] # "Unborn" => logged'[t] # "Unborn"
        BY <2>1 DEF Moves, Born
      <3> QED
        BY <2>1, <3>1 DEF Moves, Logged, Born
    <2>3. queue \in Seq(Requests) /\ \A i \in 1..Len(queue) : queue[i].task \in Tasks
      <3>1. queue \in Seq(Requests)
        BY DEF TypeOK
      <3>2. \A i \in 1..Len(queue) : queue[i] \in Requests
        BY <3>1
      <3> QED
        BY <3>1, <3>2 DEF Requests
    <2>4. \A i \in 1..Len(queue') : state'[queue'[i].task] # "Unborn"
      <3>1. CASE queue' = queue
        BY <2>1, <2>3, <3>1 DEF Moves, Born
      <3>2. CASE queue # <<>> /\ queue' = Tail(queue)
        BY <2>1, <2>3, <3>2 DEF Moves, Born
      <3>3. ASSUME NEW r \in Requests, state[r.task] # "Unborn", queue' = Append(queue, r)
            PROVE  \A i \in 1..Len(queue') : state'[queue'[i].task] # "Unborn"
        <4>1. r.task \in Tasks
          BY DEF Requests
        <4>2. \A i \in 1..Len(queue') : queue'[i] = r \/ (i \in 1..Len(queue) /\ queue'[i] = queue[i])
          BY <2>3, <3>3
        <4> QED
          BY <2>1, <2>3, <3>3, <4>1, <4>2 DEF Moves, Born
      <3> QED
        BY <1>2, <3>1, <3>2, <3>3, SubmissionsMove
    <2>5. req' # None => state'[req'.task] # "Unborn"
      <3>1. CASE req' \in {req, None}
        BY <2>1, <3>1 DEF Moves, Born, TypeOK, Requests
      <3>2. CASE queue # <<>> /\ req' = Head(queue)
        <4>1. 1 \in 1..Len(queue) /\ req' = queue[1]
          BY <2>3, <3>2
        <4> QED
          BY <2>1, <2>3, <4>1 DEF Moves, Born
      <3> QED
        BY <1>2, <3>1, <3>2, SubmissionsMove
    <2>6. Judged' => state'[req'.task] \notin Fresh
      <3> SUFFICES ASSUME Judged' PROVE state'[req'.task] \notin Fresh
        OBVIOUS
      <3>1. req' = req /\ ~SettleFixable /\ (Judged \/ (Gate /\ pc' = "reads"))
        BY PastTheGate
      <3>2. req # None
        BY <3>1 DEF Judged, TypeOK, CommitSteps, Mine, Gate
      <3>3. req.task \in Tasks
        BY <3>2 DEF TypeOK, Requests
      <3>4. CASE Judged
        BY <2>1, <3>1, <3>3, <3>4 DEF Moves, Born, Judged
      <3>5. CASE Gate /\ pc' = "reads"
        <4>1. state' = [state EXCEPT ![req.task] = "Committing"]
          BY <3>5 DEF Gate
        <4> QED
          BY <3>1, <3>3, <4>1 DEF TypeOK, Fresh
      <3> QED
        BY <3>1, <3>4, <3>5
    <2> QED
      BY <2>2, <2>4, <2>5, <2>6 DEF Born, Logged, Judged
  <1> QED
    BY <1>1, <1>2

\* Once born, a task's log entry outlives restarts.
LEMMA RestartEnds ==
    ASSUME TypeOK, Born, Restart
    PROVE  \A t \in Tasks : state[t] # "Unborn" => state'[t] \notin Fresh
  <1>1. \A t \in Tasks : state'[t] = Recovered(logged[t])
    BY DEF Restart
  <1> QED
    BY <1>1 DEF Born, Recovered, Fresh

-----------------------------------------------------------------------------
(* What the log is made of *)

\* The log only grows, by edits that no task made and by the one commit persisted.
LEMMA LogMoves ==
    ASSUME TypeOK, [Next]_vars
    PROVE  \/ log' = log
           \/ \E e \in Entries : e.task = None /\ log' = Append(log, e)
           \/ Persist
  <1> USE DEF taskVars, specVars, readVars, writerVars, historyVars
  <1>1. CASE Adoption
    <2>1. ASSUME NEW ws \in Edits, AdoptEdit(ws)
          PROVE  \E e \in Entries : e.task = None /\ log' = Append(log, e)
      <3>1. [ws |-> ws, task |-> None, nonce |-> None, token |-> None, patch |-> None,
             base |-> head, symbols |-> NoSymbols, queries |-> NoQueries] \in Entries
        BY NothingRead, EngineConstants DEF Entries, TypeOK
      <3> QED
        BY <2>1, <3>1 DEF AdoptEdit
    <2> QED
      BY <1>1, <2>1 DEF Adoption, AdoptNothing, AdoptFails
  <1>2. CASE Publication
    BY <1>2 DEF Publication, SweepTask, SweepDone, MoveSession, MoveDone
  <1>3. CASE CommitProtocol
    BY <1>3 DEF CommitProtocol, Gate, CheckReads, CheckRefs, PersistFails, Publish,
                SettleCommitted, SettleStale, SettleFixable, Settled
  <1>4. CASE TakeSubmission \/ SyncWithDisk \/ (\E t \in Tasks : RefreshSession(t)) \/ Restart
    BY <1>4 DEF TakeSubmission, SyncWithDisk, RefreshSession, Restart
  <1> QED
    BY <1>1, <1>2, <1>3, <1>4, Bystanders DEF Next, LockHolder

\* What persisting adds: the commit of the submission judged.
LEMMA PersistAdds ==
    ASSUME TypeOK, Located, Persist
    PROVE  /\ log' \in Seq(Entries)
           /\ Len(log') = Len(log) + 1
           /\ \A r \in 1..Len(log) : log'[r] = log[r]
           /\ log'[Len(log) + 1].task = req.task
           /\ log'[Len(log) + 1].nonce = req.nonce
           /\ log'[Len(log) + 1].patch = req.patch
           /\ log'[Len(log) + 1].base = pinned[req.task]
           /\ log'[Len(log) + 1].symbols = seen.symbols
           /\ log'[Len(log) + 1].queries = seen.queries
           /\ req \in Requests
           /\ head = Len(log)
           /\ Commits' = Commits \cup {Len(log) + 1}
  <1>1. req \in Requests /\ req.task # None
    BY NoneIsNothing DEF TypeOK, Persist, CommitSteps, Requests
  <1>2. log' \in Seq(Entries)
    BY TypeCommitProtocol DEF TypeOK, CommitProtocol
  <1>3. /\ Len(log') = Len(log) + 1
        /\ \A r \in 1..Len(log) : log'[r] = log[r]
        /\ log'[Len(log) + 1].task = req.task
    BY DEF Persist, TypeOK
  <1>4. Commits' = Commits \cup {Len(log) + 1}
    BY <1>1, <1>3 DEF Commits, TypeOK, Located
  <1> QED
    BY <1>1, <1>2, <1>3, <1>4 DEF Persist, TypeOK, Located

\* Every revision stays what it was, and so does who made it.
LEMMA LogKept ==
    ASSUME TypeOK, Located, [Next]_vars
    PROVE  /\ \A r \in 1..Len(log) : log'[r] = log[r]
           /\ Commits \subseteq Commits'
           /\ ~Persist => Commits' = Commits
           /\ Len(log) \in Nat
           /\ Len(log) <= Len(log')
  <1>1. CASE log' = log
    BY <1>1 DEF Commits, TypeOK
  <1>2. CASE \E e \in Entries : e.task = None /\ log' = Append(log, e)
    <2>1. PICK e \in Entries : e.task = None /\ log' = Append(log, e)
      BY <1>2
    <2>2. /\ \A r \in 1..Len(log) : log'[r] = log[r]
          /\ Len(log') = Len(log) + 1
          /\ log'[Len(log) + 1].task = None
      BY <2>1 DEF TypeOK
    <2>3. Len(log) \in Nat
      BY DEF TypeOK
    <2>4. Commits' = Commits
      BY <2>2, <2>3 DEF Commits
    <2> QED
      BY <2>2, <2>3, <2>4
  <1>3. CASE Persist
    BY <1>3, PersistAdds DEF TypeOK
  <1> QED
    BY <1>1, <1>2, <1>3, LogMoves

-----------------------------------------------------------------------------
(* What the gate establishes *)

LEMMA SeenNext == Base /\ SeenHolds /\ [Next]_vars => SeenHolds'
  <1> SUFFICES ASSUME Base, SeenHolds, [Next]_vars, pc' \in {"refs", "persist"}
               PROVE  StillTrue(seen.symbols, seen.queries, Workspace(head))'
    BY DEF SeenHolds
  <1> USE DEF Base, TypeOK, taskVars, specVars, readVars, writerVars, historyVars
  <1>1. CASE UNCHANGED <<log, head, pc, seen>>
    BY <1>1 DEF SeenHolds, Workspace, StillTrue
  <1>2. CASE CheckReads
    <2> DEFINE t == req.task
    <2>1. /\ pc' = "refs"
          /\ UNCHANGED <<log, head>>
          /\ seen' = [symbols |-> symbols[t], queries |-> queries[t]]
      BY <1>2 DEF CheckReads, Judge
    <2>2. StaleSymbols(t, Workspace(head)) = {} /\ StaleQueries(t, Workspace(head)) = {}
      BY <1>2, <2>1 DEF CheckReads, Judge
    <2>3. StillTrue(symbols[t], queries[t], Workspace(head))
      BY <2>2 DEF StaleSymbols, StaleQueries, StillTrue
    <2>4. Workspace(head)' = Workspace(head)
      BY <2>1 DEF Workspace
    <2> QED
      BY <2>1, <2>3, <2>4 DEF StillTrue
  <1>3. CASE CheckRefs
    BY <1>3 DEF CheckRefs, Judge, SeenHolds, Workspace, StillTrue
  <1>4. CASE Adoption
    BY <1>4 DEF Adoption, AdoptNothing, AdoptEdit, AdoptFails, AfterAdoption
  <1>5. CASE SweepDone \/ MoveDone
    BY <1>5 DEF SweepDone, MoveDone, AfterAdoption
  <1>6. CASE Gate \/ Persist \/ PersistFails \/ Publish \/ SettleCommitted \/ SettleStale \/ SettleFixable
    BY <1>6 DEF Gate, Persist, PersistFails, Judge, Publish, SettleCommitted, SettleStale, SettleFixable,
                Settled
  <1>7. CASE TakeSubmission \/ SyncWithDisk \/ (\E t \in Tasks : RefreshSession(t)) \/ Restart
    BY <1>7 DEF TakeSubmission, SyncWithDisk, RefreshSession, Restart
  <1> QED
    BY <1>1, <1>2, <1>3, <1>4, <1>5, <1>6, <1>7, Bystanders
    DEF Next, LockHolder, Publication, CommitProtocol

LEMMA TargetsNext == Base /\ Born /\ TargetsHold /\ [Next]_vars => TargetsHold'
  <1> SUFFICES ASSUME Base, Born, TargetsHold, [Next]_vars, pc' = "persist"
               PROVE  \A s \in Targets(req'.patch) :
                         Workspace(pinned[req.task])'[s] = Workspace(head)'[s]
    BY DEF TargetsHold
  <1> USE DEF Base, TypeOK, taskVars, specVars, readVars, writerVars, historyVars
  <1>1. CASE UNCHANGED <<log, head, pc, req>>
    <2>1. req.task \in Tasks /\ state[req.task] # "Unborn"
      BY <1>1 DEF CommitSteps, Born, Requests
    <2>2. pinned'[req.task] = pinned[req.task]
      BY <2>1, PinnedToHead
    <2> QED
      BY <1>1, <2>2 DEF TargetsHold, Workspace
  <1>2. CASE CheckRefs
    <2>1. UNCHANGED <<log, head, req, pinned>>
      BY <1>2 DEF CheckRefs
    <2>2. MovedTargets(req.task, req.patch, Workspace(head)) = {}
      BY <1>2 DEF CheckRefs, Judge
    <2> QED
      BY <2>1, <2>2 DEF MovedTargets, Workspace
  <1>3. CASE Adoption
    BY <1>3 DEF Adoption, AdoptNothing, AdoptEdit, AdoptFails, AfterAdoption
  <1>4. CASE SweepDone \/ MoveDone
    BY <1>4 DEF SweepDone, MoveDone, AfterAdoption
  <1>5. CASE CheckReads
    BY <1>5 DEF CheckReads, Judge
  <1>6. CASE Gate \/ Persist \/ PersistFails \/ Publish \/ SettleCommitted \/ SettleStale \/ SettleFixable
    BY <1>6 DEF Gate, Persist, PersistFails, Judge, Publish, SettleCommitted, SettleStale, SettleFixable,
                Settled
  <1>7. CASE TakeSubmission \/ SyncWithDisk \/ (\E t \in Tasks : RefreshSession(t)) \/ Restart
    BY <1>7 DEF TakeSubmission, SyncWithDisk, RefreshSession, Restart
  <1> QED
    BY <1>1, <1>2, <1>3, <1>4, <1>5, <1>6, <1>7, Bystanders
    DEF Next, LockHolder, Publication, CommitProtocol

\* A submission is judged against a log that does not change under it.
LEMMA JudgingSteps ==
    ASSUME Base, [Next]_vars, Judging'
    PROVE  /\ req' = req
           /\ log' = log
           /\ ~Restart
           /\ Judging \/ (Gate /\ state[req.task] = "Running")
  <1>1. Judged'
    BY DEF Judging, Judged
  <1>2. req' = req /\ ~Restart
    BY <1>1, PastTheGate
  <1> USE DEF taskVars, specVars, readVars, writerVars, historyVars, Judging
  <1>3. CASE UNCHANGED <<log, pc, verdict>>
    BY <1>2, <1>3
  <1>4. CASE Adoption
    BY <1>2, <1>4 DEF Adoption, AdoptNothing, AdoptEdit, AdoptFails, AfterAdoption
  <1>5. CASE SweepDone \/ MoveDone
    <2>1. CASE SweepDone
      <3>1. pc = "sweep" /\ pc' = "settle" /\ verdict' = verdict /\ log[Len(log)].task # None
        BY <2>1 DEF SweepDone, FollowsCommit, Located, Base
      <3>2. verdict = "committed"
        BY <3>1 DEF Mine, Pending, Base
      <3> QED
        BY <3>1, <3>2
    <2>2. CASE MoveDone
      BY <2>2 DEF MoveDone, AfterAdoption
    <2> QED
      BY <1>5, <2>1, <2>2
  <1>6. CASE Gate
    BY <1>2, <1>6 DEF Gate, Admitted, CommitSteps, Base, TypeOK
  <1>7. CASE CheckReads \/ CheckRefs \/ PersistFails
    <2>1. pc \in {"reads", "refs", "persist"}
      BY <1>7 DEF CheckReads, CheckRefs, PersistFails
    <2>2. log' = log
      BY <1>7 DEF CheckReads, CheckRefs, PersistFails
    <2> QED
      BY <1>2, <2>1, <2>2
  <1>8. CASE Persist \/ Publish \/ SettleCommitted \/ SettleStale \/ SettleFixable
    BY <1>8 DEF Persist, Publish, SettleCommitted, SettleStale, SettleFixable, Settled
  <1>9. CASE TakeSubmission \/ SyncWithDisk \/ (\E t \in Tasks : RefreshSession(t)) \/ Restart
    BY <1>2, <1>9 DEF TakeSubmission, SyncWithDisk, RefreshSession
  <1> QED
    BY <1>3, <1>4, <1>5, <1>6, <1>7, <1>8, <1>9, Bystanders
    DEF Next, LockHolder, Publication, CommitProtocol

LEMMA FirstCommitNext == Base /\ CommittedDone /\ FirstCommit /\ [Next]_vars => FirstCommit'
  <1> SUFFICES ASSUME Base, CommittedDone, FirstCommit, [Next]_vars, Judging'
               PROVE  \A r \in Commits' : log'[r].task # req'.task
    BY DEF FirstCommit
  <1>1. req' = req /\ log' = log /\ Commits' = Commits
    BY JudgingSteps DEF Commits
  <1>2. CASE Judging
    BY <1>1, <1>2 DEF FirstCommit
  <1>3. CASE Gate /\ state[req.task] = "Running"
    BY <1>1, <1>3 DEF CommittedDone, Fresh
  <1> QED
    BY <1>2, <1>3, JudgingSteps

LEMMA CommittedDoneNext ==
    Base /\ Born /\ CommittedDone /\ FirstCommit /\ [Next]_vars => CommittedDone'
  <1> SUFFICES ASSUME Base, Born, CommittedDone, FirstCommit, [Next]_vars, NEW r \in Commits'
               PROVE  state'[log'[r].task] \notin Fresh
    BY DEF CommittedDone
  <1> USE DEF Base
  <1>1. ASSUME NEW q \in Commits PROVE log[q] \in Entries /\ log[q].task \in Tasks /\ log'[q] = log[q]
    <2>1. q \in 1..Len(log) /\ log[q].task # None
      BY DEF Commits
    <2>2. log[q] \in Entries
      BY <2>1 DEF TypeOK
    <2> QED
      BY <2>1, <2>2, LogKept DEF Entries
  <1>2. CASE Persist
    <2>1. CASE r \in Commits
      BY <1>1, <1>2, <2>1 DEF Persist, CommittedDone, taskVars
    <2>2. CASE r = Len(log) + 1
      BY <1>2, <2>2, PersistAdds DEF Persist, Born, taskVars
    <2> QED
      BY <1>2, <2>1, <2>2, PersistAdds
  <1>3. CASE ~Persist
    <2>1. r \in Commits /\ log'[r] = log[r] /\ log[r].task \in Tasks
      BY <1>1, <1>3, LogKept
    <2>2. state[log[r].task] \notin Fresh
      BY <2>1 DEF CommittedDone
    <2>3. CASE Restart
      BY <2>1, <2>2, <2>3, RestartEnds DEF Fresh
    <2>4. CASE ~Restart
      <3>1. Moves
        BY <2>4, LifecycleMoves DEF Logged, Born
      <3>2. SettleFixable => log[r].task # req.task
        BY <2>1 DEF SettleFixable, FirstCommit, Judging
      <3> QED
        BY <2>1, <2>2, <3>1, <3>2 DEF Moves
    <2> QED
      BY <2>3, <2>4
  <1> QED
    BY <1>2, <1>3

LEMMA NoncesNext == Base /\ NoncesTrue /\ [Next]_vars => NoncesTrue'
  <1> SUFFICES ASSUME Base, NoncesTrue, [Next]_vars,
                      NEW t \in Tasks, NEW n \in Nonces, nonces'[t][n] # 0
               PROVE  /\ nonces'[t][n] \in Commits'
                      /\ log'[nonces'[t][n]].task = t
                      /\ log'[nonces'[t][n]].nonce = n
    BY DEF NoncesTrue
  <1> USE DEF Base, taskVars, specVars, readVars, writerVars, historyVars
  <1>1. CASE nonces'[t][n] = nonces[t][n]
    <2>1. /\ nonces[t][n] \in Commits
          /\ log[nonces[t][n]].task = t
          /\ log[nonces[t][n]].nonce = n
      BY <1>1 DEF NoncesTrue
    <2>2. nonces[t][n] \in 1..Len(log)
      BY <2>1 DEF Commits
    <2> QED
      BY <1>1, <2>1, <2>2, LogKept
  <1>2. CASE Persist
    <2>1. CASE t = req.task /\ n = req.nonce
      <3>1. nonces'[t][n] = Len(log) + 1
        BY <1>2, <2>1 DEF Persist, Remember, TypeOK
      <3> QED
        BY <1>2, <2>1, <3>1, PersistAdds
    <2>2. CASE ~(t = req.task /\ n = req.nonce)
      <3>1. nonces'[t][n] = nonces[t][n]
        BY <1>2, <2>2 DEF Persist, Remember, TypeOK
      <3> QED
        BY <1>1, <3>1
    <2> QED
      BY <2>1, <2>2
  <1>3. CASE UNCHANGED nonces
    BY <1>1, <1>3
  <1>4. CASE Restart
    BY <1>4 DEF Restart
  <1>5. CASE Adoption \/ Publication
    BY <1>3, <1>5 DEF Adoption, AdoptNothing, AdoptEdit, AdoptFails,
                      Publication, SweepTask, SweepDone, MoveSession, MoveDone
  <1>6. CASE CommitProtocol
    BY <1>2, <1>3, <1>6 DEF CommitProtocol, Gate, CheckReads, CheckRefs, PersistFails, Publish,
                            SettleCommitted, SettleStale, SettleFixable, Settled
  <1>7. CASE TakeSubmission \/ SyncWithDisk \/ \E u \in Tasks : RefreshSession(u)
    BY <1>3, <1>7 DEF TakeSubmission, SyncWithDisk, RefreshSession
  <1> QED
    BY <1>3, <1>4, <1>5, <1>6, <1>7, Bystanders DEF Next, LockHolder

-----------------------------------------------------------------------------
(* What the engine promises *)

LEMMA PromisesNext ==
    /\ Base /\ Born /\ SeenHolds /\ TargetsHold /\ Based /\ FirstCommit
    /\ CommittedOnWhatWasSeen /\ NoLostUpdate /\ OneCommitPerTask
    /\ [Next]_vars
    => Based' /\ CommittedOnWhatWasSeen' /\ NoLostUpdate' /\ OneCommitPerTask'
  <1> SUFFICES ASSUME Base, Born, SeenHolds, TargetsHold, Based, FirstCommit,
                      CommittedOnWhatWasSeen, NoLostUpdate, OneCommitPerTask, [Next]_vars
               PROVE  Based' /\ CommittedOnWhatWasSeen' /\ NoLostUpdate' /\ OneCommitPerTask'
    OBVIOUS
  <1> USE DEF Base
  <1>1. \A r \in Commits : /\ r \in 2..Len(log)
                           /\ r - 1 \in 1..Len(log)
                           /\ log'[r] = log[r]
                           /\ log'[r - 1] = log[r - 1]
                           /\ log[r].base \in 1..(r - 1)
                           /\ log'[log[r].base] = log[log[r].base]
    BY LogKept DEF Commits, Based
  <1>2. ASSUME NEW r \in Commits
        PROVE  /\ log'[r].base \in 1..(r - 1)
               /\ StillTrue(log'[r].symbols, log'[r].queries, Workspace(r - 1)')
               /\ \A s \in Targets(log'[r].patch) : Workspace(log[r].base)'[s] = Workspace(r - 1)'[s]
    BY <1>1 DEF CommittedOnWhatWasSeen, NoLostUpdate, Workspace
  <1>3. CASE ~Persist
    <2>1. Commits' = Commits
      BY <1>3, LogKept
    <2> QED
      BY <1>1, <1>2, <2>1
      DEF Based, CommittedOnWhatWasSeen, NoLostUpdate, OneCommitPerTask, Workspace
  <1>4. CASE Persist
    <2> DEFINE new == Len(log) + 1
    <2>1. /\ Commits' = Commits \cup {new}
          /\ log'[new].task = req.task
          /\ log'[new].patch = req.patch
          /\ log'[new].base = pinned[req.task]
          /\ log'[new].symbols = seen.symbols
          /\ log'[new].queries = seen.queries
          /\ req.task \in Tasks
          /\ head = Len(log)
          /\ pc = "persist"
      BY <1>4, PersistAdds DEF Persist, Requests
    <2>2. /\ Len(log) \in Nat
          /\ Len(log) \in 1..Len(log)
          /\ pinned[req.task] \in 1..Len(log)
      BY <2>1 DEF Located, TypeOK
    <2>3. /\ log'[Len(log)] = log[head]
          /\ log'[pinned[req.task]] = log[pinned[req.task]]
          /\ new - 1 = Len(log)
      BY <2>1, <2>2, LogKept
    <2>4. Based'
      BY <1>1, <2>1, <2>2, <2>3 DEF Based
    <2>5. StillTrue(log'[new].symbols, log'[new].queries, log'[new - 1].ws)
      BY <2>1, <2>3 DEF SeenHolds, Workspace
    <2>6. CommittedOnWhatWasSeen'
      <3> SUFFICES ASSUME NEW r \in Commits'
                   PROVE  StillTrue(log'[r].symbols, log'[r].queries, log'[r - 1].ws)
        BY DEF CommittedOnWhatWasSeen, Workspace
      <3>1. r \in Commits \/ r = new
        BY <2>1
      <3> QED
        BY <1>2, <2>5, <3>1 DEF Workspace
    <2>7. \A s \in Targets(log'[new].patch) : log'[log'[new].base].ws[s] = log'[new - 1].ws[s]
      <3>1. \A s \in Targets(req.patch) : Workspace(pinned[req.task])[s] = Workspace(head)[s]
        BY <2>1 DEF TargetsHold
      <3> QED
        BY <2>1, <2>3, <3>1 DEF Workspace
    <2>8. NoLostUpdate'
      <3> SUFFICES ASSUME NEW r \in Commits'
                   PROVE  \A s \in Targets(log'[r].patch) :
                             log'[log'[r].base].ws[s] = log'[r - 1].ws[s]
        BY DEF NoLostUpdate, Workspace
      <3>1. r \in Commits \/ r = new
        BY <2>1
      <3> QED
        BY <1>1, <1>2, <2>7, <3>1 DEF Workspace
    <2>9. OneCommitPerTask'
      BY <1>1, <2>1 DEF OneCommitPerTask, FirstCommit, Judging
    <2> QED
      BY <2>4, <2>6, <2>8, <2>9
  <1> QED
    BY <1>3, <1>4

LEMMA ReceiptsNext == Base /\ NoncesTrue /\ ReceiptsHonoured /\ [Next]_vars => ReceiptsHonoured'
  <1> DEFINE Good(x) == /\ x.revision \in Commits
                        /\ log[x.revision].task = x.task
                        /\ log[x.revision].nonce = x.nonce
  <1> SUFFICES ASSUME Base, NoncesTrue, ReceiptsHonoured, [Next]_vars, NEW x \in receipts'
               PROVE  /\ x.revision \in Commits'
                      /\ log'[x.revision].task = x.task
                      /\ log'[x.revision].nonce = x.nonce
    BY DEF ReceiptsHonoured
  <1> USE DEF Base, taskVars, specVars, readVars, writerVars, historyVars
  <1>1. Good(x) => /\ x.revision \in Commits'
                   /\ log'[x.revision].task = x.task
                   /\ log'[x.revision].nonce = x.nonce
    BY LogKept DEF Commits
  <1>2. x \in receipts => Good(x)
    BY DEF ReceiptsHonoured
  <1> HIDE DEF Good
  <1>3. CASE Gate
    <2>1. req.task \in Tasks /\ req.nonce \in Nonces
      BY <1>3 DEF Gate, TypeOK, CommitSteps, Requests
    <2>2. Replay # 0 => Good([task |-> req.task, nonce |-> req.nonce, revision |-> Replay])
      BY <2>1 DEF Replay, NoncesTrue, Good
    <2>3. \/ x \in receipts
          \/ Replay # 0 /\ x = [task |-> req.task, nonce |-> req.nonce, revision |-> Replay]
      BY <1>3 DEF Gate
    <2> QED
      BY <1>1, <1>2, <2>2, <2>3
  <1>4. CASE SettleCommitted
    <2>1. Pending
      BY <1>4 DEF SettleCommitted, Pending
    <2>2. req.task # None
      BY <2>1, NoneIsNothing DEF Mine, TypeOK, Requests
    <2>3. Good([task |-> req.task, nonce |-> req.nonce, revision |-> Len(log)])
      BY <2>1, <2>2 DEF Mine, Good, Commits
    <2>4. x \in receipts \/ x = [task |-> req.task, nonce |-> req.nonce, revision |-> Len(log)]
      BY <1>4 DEF SettleCommitted
    <2> QED
      BY <1>1, <1>2, <2>3, <2>4
  <1>5. CASE UNCHANGED receipts
    BY <1>1, <1>2, <1>5
  <1>6. CASE Sessions \/ Supervision
    BY <1>5, <1>6 DEF Sessions, ReadSymbol, GraphQuery, Submit,
                      Supervision, PinTask, InstallTask, FinishTask
  <1>7. CASE Adoption \/ Publication
    BY <1>5, <1>7 DEF Adoption, AdoptNothing, AdoptEdit, AdoptFails,
                      Publication, SweepTask, SweepDone, MoveSession, MoveDone
  <1>8. CASE CommitProtocol
    BY <1>3, <1>4, <1>5, <1>8 DEF CommitProtocol, CheckReads, CheckRefs, Persist, PersistFails,
                                  Publish, SettleStale, SettleFixable
  <1>9. CASE TakeSubmission \/ SyncWithDisk \/ (\E t \in Tasks : RefreshSession(t)) \/ Restart
             \/ UNCHANGED vars
    BY <1>5, <1>9 DEF TakeSubmission, SyncWithDisk, RefreshSession, Restart, vars
  <1> QED
    BY <1>6, <1>7, <1>8, <1>9 DEF Next, LockHolder

-----------------------------------------------------------------------------
(* The theorems *)

LEMMA InvInit == Init => IInv
  <1> SUFFICES ASSUME Init PROVE IInv
    OBVIOUS
  <1>1. TypeOK /\ Located /\ Mine
    BY TypeInit
  <1>2. Len(log) = 1 /\ Commits = {}
    BY DEF Init, Commits
  <1>3. Born
    BY DEF Init, Born, Pending
  <1>4. SeenHolds /\ TargetsHold /\ NoncesTrue
    BY DEF Init, SeenHolds, TargetsHold, NoncesTrue
  <1>5. Based /\ CommittedDone /\ FirstCommit
    BY <1>2 DEF Based, CommittedDone, FirstCommit
  <1>6. CommittedOnWhatWasSeen /\ NoLostUpdate /\ OneCommitPerTask
    BY <1>2 DEF CommittedOnWhatWasSeen, NoLostUpdate, OneCommitPerTask
  <1>7. ReceiptsHonoured
    BY DEF Init, ReceiptsHonoured
  <1> QED
    BY <1>1, <1>3, <1>4, <1>5, <1>6, <1>7 DEF IInv

LEMMA InvNext == IInv /\ [Next]_vars => IInv'
  <1> SUFFICES ASSUME IInv, [Next]_vars PROVE IInv'
    OBVIOUS
  <1>1. Base
    BY DEF IInv, Base
  <1>2. TypeOK' /\ Located' /\ Mine'
    BY <1>1, TypeNext, LocatedNext, MineNext DEF Base
  <1>3. Born' /\ SeenHolds' /\ TargetsHold'
    BY <1>1, BornNext, SeenNext, TargetsNext DEF IInv
  <1>4. CommittedDone' /\ FirstCommit'
    BY <1>1, CommittedDoneNext, FirstCommitNext DEF IInv
  <1>5. NoncesTrue' /\ ReceiptsHonoured'
    BY <1>1, NoncesNext, ReceiptsNext DEF IInv
  <1>6. Based' /\ CommittedOnWhatWasSeen' /\ NoLostUpdate' /\ OneCommitPerTask'
    BY <1>1, PromisesNext DEF IInv
  <1> QED
    BY <1>2, <1>3, <1>4, <1>5, <1>6 DEF IInv

LEMMA Inductive == Spec => []IInv
  <1>1. Init => IInv
    BY InvInit
  <1>2. IInv /\ [Next]_vars => IInv'
    BY InvNext
  <1> QED
    BY <1>1, <1>2, PTL DEF Spec

\* The commit gate is sound: whatever the interleaving of reads, submissions,
\* sweeps, edits and restarts, a commit is laid over a head at which everything the
\* gate validated of its task's read set is still true.
THEOREM GateIsSound == Spec => []CommittedOnWhatWasSeen
  <1>1. IInv => CommittedOnWhatWasSeen
    BY DEF IInv
  <1> QED
    BY <1>1, Inductive, PTL

\* The write-conflict check prevents lost updates, for targets never read too.
THEOREM NoUpdateIsLost == Spec => []NoLostUpdate
  <1>1. IInv => NoLostUpdate
    BY DEF IInv
  <1> QED
    BY <1>1, Inductive, PTL

\* A task makes one revision at most, under any nonces, retries and restarts.
THEOREM CommitsOnce == Spec => []OneCommitPerTask
  <1>1. IInv => OneCommitPerTask
    BY DEF IInv
  <1> QED
    BY <1>1, Inductive, PTL

\* Receipts are true, and stay so across restarts.
THEOREM ReceiptsAreTrue == Spec => []ReceiptsHonoured
  <1>1. IInv => ReceiptsHonoured
    BY DEF IInv
  <1> QED
    BY <1>1, Inductive, PTL

-----------------------------------------------------------------------------
(* Invalidation *)

\* What is invalidated is in the log as such, and is never the task being judged.
Terminal ==
    /\ \A t \in Tasks : state[t] = "Invalidated" => logged[t] = "Invalidated"
    /\ Judged => state[req.task] # "Invalidated"

\* A step that invalidates a task says so in the log, takes it from no one the
\* sequencer is past the gate with, and no step takes it back.
LEMMA InvalidationStep ==
    ASSUME IInv, Terminal, [Next]_vars
    PROVE  \A t \in Tasks :
              /\ state[t] = "Invalidated" => state'[t] = "Invalidated"
              /\ state'[t] = "Invalidated" => logged'[t] = "Invalidated"
              /\ state'[t] = "Invalidated" /\ state[t] # "Invalidated" =>
                    \/ state[t] = "Running"
                    \/ ~Judged
                    \/ SettleStale
                    \/ Restart
  <1>1. /\ state \in [Tasks -> TaskStates]
        /\ logged \in [Tasks -> TaskStates]
        /\ pc \in CommitSteps => req \in Requests
    BY DEF IInv, TypeOK
  <1> USE <1>1 DEF Terminal, Judged, taskVars, specVars, readVars, writerVars, historyVars
  <1>2. CASE UNCHANGED <<state, logged>>
    BY <1>2
  <1>3. CASE Sessions
    BY <1>2, <1>3 DEF Sessions, ReadSymbol, GraphQuery, Submit
  <1>4. CASE Supervision
    <2>1. \A o \in Outcomes : o # "Invalidated"
      BY EngineConstants DEF EndStates
    <2> QED
      BY <1>4, <2>1 DEF Supervision, PinTask, InstallTask, FinishTask, Active
  <1>5. CASE Adoption
    BY <1>2, <1>5 DEF Adoption, AdoptNothing, AdoptEdit, AdoptFails
  <1>6. CASE Publication
    <2>1. ASSUME NEW t \in Tasks, SweepTask(t)
          PROVE  \/ UNCHANGED <<state, logged>>
                 \/ /\ state[t] = "Running"
                    /\ state' = [state EXCEPT ![t] = "Invalidated"]
                    /\ logged' = [logged EXCEPT ![t] = "Invalidated"]
      BY <2>1 DEF SweepTask
    <2>2. ASSUME NEW t \in Tasks, MoveSession(t)
          PROVE  \/ \E n \in Tasks :
                       /\ state[n] = "Unborn"
                       /\ state' = [state EXCEPT ![t] = "Invalidated", ![n] = "Running"]
                       /\ logged' = [logged EXCEPT ![t] = "Invalidated", ![n] = "Running"]
                 \/ /\ state' = [state EXCEPT ![t] = "Invalidated"]
                    /\ logged' = [logged EXCEPT ![t] = "Invalidated"]
      BY <2>2 DEF MoveSession, Succeed, Strand
    <2>3. ASSUME NEW t \in Tasks, MoveSession(t) PROVE ~Judged
      BY <2>3 DEF MoveSession, Pending
    <2>4. CASE SweepDone \/ MoveDone
      BY <1>2, <2>4 DEF SweepDone, MoveDone
    <2>5. CASE \E t \in Tasks : SweepTask(t)
      <3>1. PICK t \in Tasks : SweepTask(t)
        BY <2>5
      <3> QED
        BY <1>2, <2>1, <3>1
    <2>6. CASE \E t \in Tasks : MoveSession(t)
      <3>1. PICK t \in Tasks : MoveSession(t)
        BY <2>6
      <3>2. ~Judged
        BY <2>3, <3>1
      <3> HIDE DEF Judged
      <3> QED
        BY <2>2, <3>1, <3>2
    <2> QED
      BY <1>6, <2>4, <2>5, <2>6 DEF Publication
  <1>7. CASE CommitProtocol
    <2>1. pc \in {"publish", "settle"} => req.task \in Tasks /\ state[req.task] # "Invalidated"
      BY DEF CommitSteps, Requests
    <2>2. CASE Gate
      <3>1. logged' = logged
        BY <2>2 DEF Gate
      <3>2. \/ state' = state
            \/ /\ state[req.task] = "Running"
               /\ state' = [state EXCEPT ![req.task] = "Committing"]
        BY <2>2 DEF Gate, Admitted
      <3> QED
        BY <3>1, <3>2
    <2>3. CASE CheckReads \/ CheckRefs \/ Persist \/ PersistFails
      BY <1>2, <2>3 DEF CheckReads, CheckRefs, Persist, PersistFails
    <2>4. CASE Publish
      BY <2>1, <2>4 DEF Publish
    <2>5. CASE SettleCommitted
      <3>1. ASSUME NEW n \in Tasks, Succeed(req.task, n, "Committed"),
                   logged' = [logged EXCEPT ![n] = "Running"]
            PROVE  /\ state[n] = "Unborn"
                   /\ state' = [state EXCEPT ![req.task] = "Committed", ![n] = "Running"]
        BY <3>1 DEF Succeed
      <3>2. CASE Strand(req.task, "Committed") /\ UNCHANGED logged
        BY <2>1, <2>5, <3>2 DEF SettleCommitted, Strand
      <3>3. CASE \E n \in Tasks : /\ Succeed(req.task, n, "Committed")
                                  /\ logged' = [logged EXCEPT ![n] = "Running"]
        <4>1. PICK n \in Tasks : /\ Succeed(req.task, n, "Committed")
                                 /\ logged' = [logged EXCEPT ![n] = "Running"]
          BY <3>3
        <4>2. /\ state[n] = "Unborn"
              /\ state' = [state EXCEPT ![req.task] = "Committed", ![n] = "Running"]
          BY <3>1, <4>1
        <4>3. req.task \in Tasks /\ state[req.task] # "Invalidated"
          BY <2>1, <2>5 DEF SettleCommitted
        <4> QED
          BY <4>1, <4>2, <4>3
      <3> QED
        BY <2>5, <3>2, <3>3 DEF SettleCommitted
    <2>6. CASE SettleStale
      BY <2>1, <2>6 DEF SettleStale
    <2>7. CASE SettleFixable
      BY <2>1, <2>7 DEF SettleFixable
    <2> QED
      BY <1>7, <2>2, <2>3, <2>4, <2>5, <2>6, <2>7 DEF CommitProtocol
  <1>8. CASE TakeSubmission \/ SyncWithDisk \/ (\E t \in Tasks : RefreshSession(t)) \/ UNCHANGED vars
    BY <1>2, <1>8 DEF TakeSubmission, SyncWithDisk, RefreshSession, vars
  <1>9. CASE Restart
    BY <1>9 DEF Restart, Recovered
  <1> QED
    BY <1>3, <1>4, <1>5, <1>6, <1>7, <1>8, <1>9 DEF Next, LockHolder

LEMMA TerminalNext == IInv /\ Terminal /\ [Next]_vars => Terminal'
  <1> SUFFICES ASSUME IInv, Terminal, [Next]_vars PROVE Terminal'
    OBVIOUS
  <1>1. \A t \in Tasks : state'[t] = "Invalidated" => logged'[t] = "Invalidated"
    BY InvalidationStep
  <1>2. Judged' => state'[req'.task] # "Invalidated"
    <2> SUFFICES ASSUME Judged' PROVE state'[req'.task] # "Invalidated"
      OBVIOUS
    <2>1. /\ req' = req
          /\ ~Restart
          /\ Judged \/ (Gate /\ pc' = "reads")
      BY PastTheGate DEF IInv, Base
    <2>2. ~SettleStale
      BY DEF SettleStale, Settled, Judged, Pending
    <2>3. req.task \in Tasks /\ state \in [Tasks -> TaskStates]
      BY <2>1 DEF IInv, TypeOK, Mine, Judged, CommitSteps, Requests, Gate
    <2>4. CASE Judged
      BY <2>1, <2>2, <2>3, <2>4, InvalidationStep DEF Terminal, IInv, Born, Judged, Fresh
    <2>5. CASE Gate /\ pc' = "reads"
      BY <2>1, <2>3, <2>5 DEF Gate
    <2> QED
      BY <2>1, <2>4, <2>5
  <1> QED
    BY <1>1, <1>2 DEF Terminal

\* An invalidated task is never running, committing or committed again, neither by
\* the sequencer nor by the recovery of the project.
THEOREM InvalidationIsFinal == Spec => InvalidatedIsTerminal
  <1>1. Init => Terminal
    BY DEF Init, Terminal, Judged, Pending
  <1>2. IInv /\ Terminal /\ [Next]_vars => Terminal'
    BY TerminalNext
  <1>3. IInv /\ Terminal /\ [Next]_vars =>
           [\A t \in Tasks : state[t] = "Invalidated" => state'[t] = "Invalidated"]_vars
    BY InvalidationStep
  <1> QED
    BY <1>1, <1>2, <1>3, Inductive, PTL DEF Spec, InvalidatedIsTerminal

-----------------------------------------------------------------------------
(* One authority per token *)

\* Who may still commit, or hand its token on: the living, the task whose commit
\* is under way, though it may have been ended since, and the sessions listed to
\* be moved, though they may have been ended since too.
Living == Active \cup {"Installing"}

Holder(t) ==
    \/ state[t] \in Living
    \/ Judged /\ t = req.task
    \/ pc = "move" /\ t \in todo

OneHolder == \A t, u \in Tasks : t # u /\ Holder(t) /\ Holder(u) => tokenOf[t] # tokenOf[u]

\* What a restart reads of the task log is settled.
LoggedSettled == \A t \in Tasks : logged[t] \notin {"Installing", "Committing"}

LEMMA LoggedSettledNext == TypeOK /\ LoggedSettled /\ [Next]_vars => LoggedSettled'
  <1> SUFFICES ASSUME TypeOK, LoggedSettled, [Next]_vars PROVE LoggedSettled'
    OBVIOUS
  <1> USE DEF TypeOK, LoggedSettled, taskVars, specVars, readVars, writerVars, historyVars
  <1>1. CASE UNCHANGED logged
    BY <1>1
  <1>2. CASE Supervision
    <2>1. \A o \in Outcomes : o \notin {"Installing", "Committing"}
      BY EngineConstants DEF EndStates
    <2> QED
      BY <1>2, <2>1 DEF Supervision, PinTask, InstallTask, FinishTask
  <1>3. CASE Sessions
    BY <1>1, <1>3 DEF Sessions, ReadSymbol, GraphQuery, Submit
  <1>4. CASE Adoption
    BY <1>1, <1>4 DEF Adoption, AdoptNothing, AdoptEdit, AdoptFails
  <1>5. CASE Publication
    <2>1. ASSUME NEW t \in Tasks, SweepTask(t) PROVE LoggedSettled'
      BY <2>1 DEF SweepTask
    <2>2. ASSUME NEW t \in Tasks, MoveSession(t) PROVE LoggedSettled'
      BY <2>2 DEF MoveSession
    <2>3. CASE SweepDone \/ MoveDone
      BY <2>3 DEF SweepDone, MoveDone
    <2> QED
      BY <1>5, <2>1, <2>2, <2>3 DEF Publication
  <1>6. CASE CommitProtocol
    BY <1>6 DEF CommitProtocol, Gate, CheckReads, CheckRefs, Persist, PersistFails, Publish,
                SettleCommitted, SettleStale, SettleFixable
  <1>7. CASE TakeSubmission \/ SyncWithDisk \/ (\E t \in Tasks : RefreshSession(t)) \/ UNCHANGED vars
    BY <1>1, <1>7 DEF TakeSubmission, SyncWithDisk, RefreshSession, vars
  <1>8. CASE Restart
    BY <1>8 DEF Restart, Recovered
  <1> QED
    BY <1>2, <1>3, <1>4, <1>5, <1>6, <1>7, <1>8 DEF Next, LockHolder

\* A step gives a token to none but a new task, whose token is new, or to the
\* successor of a holder that stops being one.
KeepsTokens == UNCHANGED tokenOf /\ \A t \in Tasks : Holder(t)' => Holder(t)

IssuesToken ==
    \E t \in Tasks, tk \in Tokens :
       /\ tk \notin {tokenOf[u] : u \in Tasks}
       /\ tokenOf' = [tokenOf EXCEPT ![t] = tk]
       /\ \A u \in Tasks : Holder(u)' => Holder(u) \/ u = t

PassesToken ==
    \E t, n \in Tasks :
       /\ Holder(t)
       /\ Holder(t)' => t = n
       /\ tokenOf' = [tokenOf EXCEPT ![n] = tokenOf[t]]
       /\ \A u \in Tasks : Holder(u)' => Holder(u) \/ u = n

LEMMA TokenSteps ==
    ASSUME Base, Born, [Next]_vars, ~Restart
    PROVE  KeepsTokens \/ IssuesToken \/ PassesToken
  <1>1. /\ state \in [Tasks -> TaskStates]
        /\ tokenOf \in [Tasks -> Tokens \cup {None}]
        /\ req \in Requests \cup {None}
        /\ pc \in CommitSteps => req \in Requests /\ req.task \in Tasks
        /\ Living = {"Installing", "Running", "Committing"}
    BY DEF Base, TypeOK, Requests, Living, Active
  <1>2. Judged' => (Judged \/ (Gate /\ pc' = "reads")) /\ req' = req
    BY PastTheGate
  \* What keeps every token where it is.
  <1>3. ASSUME UNCHANGED tokenOf,
               \A t \in Tasks : state'[t] \in Living => Holder(t),
               Gate /\ pc' = "reads" => Holder(req.task),
               pc' = "move" => \A t \in todo' : Holder(t)
        PROVE  KeepsTokens
    BY <1>2, <1>3 DEF KeepsTokens, Holder
  <1> USE DEF taskVars, specVars, readVars, writerVars, historyVars
  <1>4. ASSUME UNCHANGED <<state, pc, todo, tokenOf>> PROVE KeepsTokens
    <2>1. ~Gate \/ pc' # "reads"
      BY <1>4 DEF Gate
    <2> QED
      BY <1>3, <1>4, <2>1 DEF Holder
  <1>5. CASE Sessions
    BY <1>4, <1>5 DEF Sessions, ReadSymbol, GraphQuery, Submit
  <1>6. CASE Supervision
    <2>1. UNCHANGED <<log, pc, req, verdict, todo>>
      BY <1>6 DEF Supervision, PinTask, InstallTask, FinishTask
    <2>2. ~Gate \/ pc' # "reads"
      BY <2>1 DEF Gate
    <2>3. ASSUME NEW t \in Tasks, NEW g \in Gates, NEW sc \in Scopes, NEW tk \in Tokens,
                 PinTask(t, g, sc, tk)
          PROVE  IssuesToken
      <3>1. /\ tk \notin {tokenOf[u] : u \in Tasks}
            /\ tokenOf' = [tokenOf EXCEPT ![t] = tk]
            /\ state' = [state EXCEPT ![t] = "Installing"]
        BY <2>3 DEF PinTask
      <3>2. \A u \in Tasks : Holder(u)' => Holder(u) \/ u = t
        BY <1>1, <1>2, <2>1, <2>2, <3>1 DEF Holder
      <3> QED
        BY <3>1, <3>2 DEF IssuesToken
    <2>4. ASSUME NEW t \in Tasks, InstallTask(t) PROVE KeepsTokens
      <3>1. \A u \in Tasks : state'[u] \in Living => Holder(u)
        BY <1>1, <2>4 DEF InstallTask, Holder
      <3>2. UNCHANGED tokenOf
        BY <2>4 DEF InstallTask
      <3> QED
        BY <1>3, <2>1, <2>2, <3>1, <3>2 DEF Holder
    <2>5. ASSUME NEW t \in Tasks, NEW o \in Outcomes, FinishTask(t, o) PROVE KeepsTokens
      <3>1. o \notin Living
        BY <1>1, EngineConstants DEF EndStates
      <3>2. \A u \in Tasks : state'[u] \in Living => Holder(u)
        BY <1>1, <2>5, <3>1 DEF FinishTask, Holder
      <3>3. UNCHANGED tokenOf
        BY <2>5 DEF FinishTask
      <3> QED
        BY <1>3, <2>1, <2>2, <3>2, <3>3 DEF Holder
    <2> QED
      BY <1>6, <2>3, <2>4, <2>5 DEF Supervision
  <1>7. CASE Adoption
    <2>1. /\ UNCHANGED <<state, tokenOf>>
          /\ pc = "adopt"
          /\ pc' \in {"idle", "gate", "sweep"}
      BY <1>7 DEF Adoption, AdoptNothing, AdoptEdit, AdoptFails, AfterAdoption
    <2> QED
      BY <1>3, <2>1 DEF Holder
  <1>8. CASE SweepDone \/ MoveDone
    <2>1. /\ UNCHANGED <<state, tokenOf>>
          /\ pc' # "reads"
          /\ pc' = "move" => todo' \subseteq {t \in Tasks : state[t] = "Running"}
      BY <1>8 DEF SweepDone, MoveDone, AfterAdoption
    <2> QED
      BY <1>1, <1>3, <2>1 DEF Holder
  <1>9. ASSUME NEW t \in Tasks, SweepTask(t) PROVE KeepsTokens
    <2>1. UNCHANGED tokenOf /\ pc = "sweep" /\ pc' = "sweep"
      BY <1>9 DEF SweepTask
    <2>2. state' \in {state, [state EXCEPT ![t] = "Invalidated"]}
      BY <1>9 DEF SweepTask
    <2>3. \A u \in Tasks : state'[u] \in Living => Holder(u)
      BY <1>1, <2>2 DEF Holder
    <2> QED
      BY <1>3, <2>1, <2>3
  <1>10. ASSUME NEW t \in Tasks, MoveSession(t) PROVE KeepsTokens \/ PassesToken
    <2>1. /\ pc = "move" /\ pc' = "move" /\ t \in todo /\ todo' = todo \ {t}
          /\ ~Judged'
          /\ Holder(t)
      BY <1>2, <1>10 DEF MoveSession, Judged, Pending, Gate, Holder
    <2>2. ASSUME NEW n \in Tasks, Succeed(t, n, "Invalidated") PROVE PassesToken
      <3>1. /\ state' = [state EXCEPT ![t] = "Invalidated", ![n] = "Running"]
            /\ tokenOf' = [tokenOf EXCEPT ![n] = tokenOf[t]]
        BY <2>2 DEF Succeed
      <3>2. \A u \in Tasks : Holder(u)' => Holder(u) \/ u = n
        BY <1>1, <2>1, <3>1 DEF Holder
      <3>3. Holder(t)' => t = n
        BY <1>1, <2>1, <3>1 DEF Holder
      <3> QED
        BY <2>1, <3>1, <3>2, <3>3 DEF PassesToken
    <2>3. ASSUME Strand(t, "Invalidated") PROVE KeepsTokens
      <3>1. state' = [state EXCEPT ![t] = "Invalidated"] /\ UNCHANGED tokenOf
        BY <2>3 DEF Strand
      <3>2. \A u \in Tasks : state'[u] \in Living => Holder(u)
        BY <1>1, <3>1 DEF Holder
      <3> QED
        BY <1>3, <2>1, <3>1, <3>2 DEF Holder
    <2> QED
      BY <1>10, <2>2, <2>3 DEF MoveSession
  <1>11. CASE Gate
    <2>1. UNCHANGED tokenOf /\ pc = "gate" /\ pc' \in {"idle", "reads"}
      BY <1>11 DEF Gate
    <2>2. \/ UNCHANGED state /\ pc' = "idle"
          \/ state[req.task] = "Running" /\ state' = [state EXCEPT ![req.task] = "Committing"]
      BY <1>11 DEF Gate, Admitted
    <2>3. \A u \in Tasks : state'[u] \in Living => Holder(u)
      BY <1>1, <2>1, <2>2 DEF Holder, CommitSteps
    <2>4. pc' = "reads" => Holder(req.task)
      BY <1>1, <2>1, <2>2 DEF Holder
    <2> QED
      BY <1>3, <2>1, <2>3, <2>4
  <1>12. CASE CheckReads \/ CheckRefs \/ Persist \/ PersistFails \/ Publish
    <2>1. UNCHANGED <<state, tokenOf>> /\ pc # "gate" /\ pc' # "move"
      BY <1>12 DEF CheckReads, CheckRefs, Persist, PersistFails, Publish, Judge
    <2> QED
      BY <1>3, <2>1 DEF Holder, Gate
  <1>13. CASE SettleCommitted \/ SettleStale \/ SettleFixable
    <2>1. /\ pc = "settle" /\ pc' = "idle"
          /\ Judged /\ ~Judged'
          /\ req.task \in Tasks
          /\ Holder(req.task)
      BY <1>1, <1>13 DEF SettleCommitted, SettleStale, SettleFixable, Settled, Judged, Pending,
                         Holder, CommitSteps
    <2>2. ASSUME NEW t \in Tasks, t = req.task, NEW n \in Tasks, Succeed(t, n, "Committed")
          PROVE  PassesToken
      <3>1. /\ state' = [state EXCEPT ![t] = "Committed", ![n] = "Running"]
            /\ tokenOf' = [tokenOf EXCEPT ![n] = tokenOf[t]]
        BY <2>2 DEF Succeed
      <3>2. \A u \in Tasks : Holder(u)' => Holder(u) \/ u = n
        BY <1>1, <2>1, <2>2, <3>1 DEF Holder
      <3>3. Holder(t)' => t = n
        BY <1>1, <2>1, <2>2, <3>1 DEF Holder
      <3> QED
        BY <2>1, <2>2, <3>1, <3>2, <3>3 DEF PassesToken
    <2>3. ASSUME NEW s \in {"Committed", "Invalidated", "Running"},
                 state' = [state EXCEPT ![req.task] = s], UNCHANGED tokenOf
          PROVE  KeepsTokens
      <3>1. \A u \in Tasks : state'[u] \in Living => Holder(u)
        BY <1>1, <2>1, <2>3 DEF Holder
      <3> QED
        BY <1>3, <2>1, <2>3, <3>1
    <2> QED
      BY <1>13, <2>1, <2>2, <2>3 DEF SettleCommitted, SettleStale, SettleFixable, Strand
  <1>14. CASE TakeSubmission \/ SyncWithDisk \/ \E t \in Tasks : RefreshSession(t)
    <2>1. /\ UNCHANGED <<state, tokenOf>>
          /\ pc' # "reads"
          /\ pc' = "move" => \A t \in todo' : t \in Tasks /\ state[t] = "Running"
      BY <1>14 DEF TakeSubmission, SyncWithDisk, RefreshSession
    <2> QED
      BY <1>1, <1>3, <2>1 DEF Holder
  <1>15. CASE UNCHANGED vars
    BY <1>4, <1>15 DEF vars
  <1> QED
    BY <1>5, <1>6, <1>7, <1>8, <1>9, <1>10, <1>11, <1>12, <1>13, <1>14, <1>15
    DEF Next, LockHolder, Publication, CommitProtocol

LEMMA OneHolderNext ==
    Base /\ Born /\ LoggedSettled /\ OneHolder /\ [Next]_vars => OneHolder'
  <1> SUFFICES ASSUME Base, Born, LoggedSettled, OneHolder, [Next]_vars,
                      NEW t \in Tasks, NEW u \in Tasks, t # u, Holder(t)', Holder(u)'
               PROVE  tokenOf'[t] # tokenOf'[u]
    BY DEF OneHolder
  <1>1. tokenOf \in [Tasks -> Tokens \cup {None}]
    BY DEF Base, TypeOK
  <1>2. CASE Restart
    <2>1. \A x \in Tasks : state'[x] \notin Living
      BY <1>2 DEF Restart, Recovered, Living, Active, LoggedSettled
    <2>2. ~Judged' /\ pc' # "move"
      BY <1>2 DEF Restart, Judged, Pending
    <2> QED
      BY <2>1, <2>2 DEF Holder
  <1>3. CASE KeepsTokens
    BY <1>3 DEF KeepsTokens, OneHolder
  <1>4. CASE IssuesToken
    BY <1>1, <1>4 DEF IssuesToken, OneHolder
  <1>5. CASE PassesToken
    BY <1>1, <1>5 DEF PassesToken, OneHolder
  <1> QED
    BY <1>2, <1>3, <1>4, <1>5, TokenSteps

\* However sessions are rolled on, moved and ended, no two tasks able to commit
\* share a token, a task being created and a session about to be moved included.
THEOREM TokensAreExclusive == Spec => []OneAuthorityPerToken
  <1>1. Init => LoggedSettled /\ OneHolder
    BY DEF Init, LoggedSettled, OneHolder, Holder, Living, Active, Judged, Pending
  <1>2. IInv /\ LoggedSettled /\ OneHolder /\ [Next]_vars => LoggedSettled' /\ OneHolder'
    BY LoggedSettledNext, OneHolderNext DEF IInv, Base
  <1>3. OneHolder => OneAuthorityPerToken
    BY DEF OneHolder, OneAuthorityPerToken, Holder, Living
  <1> QED
    BY <1>1, <1>2, <1>3, Inductive, PTL DEF Spec

-----------------------------------------------------------------------------
(* The sweep *)

\* A read set holds what the pinned revision says: reading again changes nothing.
ReadsOfPin ==
    \A t \in Tasks :
       /\ \A s \in Symbols : symbols[t][s] \in {None, Workspace(pinned[t])[s]}
       /\ \A q \in Queries : queries[t][q] \in {None, Answer(q, Workspace(pinned[t]))}
       /\ state[t] = "Unborn" => symbols[t] = NoSymbols /\ queries[t] = NoQueries

\* Only sessions read, and only a restart forgets.
LEMMA ReadersMove ==
    ASSUME [Next]_vars
    PROVE  \/ UNCHANGED <<symbols, queries>>
           \/ \E t \in Tasks, s \in Symbols : ReadSymbol(t, s)
           \/ \E t \in Tasks, q \in Queries : GraphQuery(t, q)
           \/ Restart
  <1> USE DEF taskVars, specVars, readVars, writerVars, historyVars
  <1>1. CASE Sessions
    BY <1>1 DEF Sessions, Submit
  <1>2. CASE Supervision
    BY <1>2 DEF Supervision, PinTask, InstallTask, FinishTask
  <1>3. CASE Adoption
    BY <1>3 DEF Adoption, AdoptNothing, AdoptEdit, AdoptFails
  <1>4. CASE Publication
    BY <1>4 DEF Publication, SweepTask, SweepDone, MoveSession, MoveDone
  <1>5. CASE CommitProtocol
    BY <1>5 DEF CommitProtocol, Gate, CheckReads, CheckRefs, Persist, PersistFails, Publish,
                SettleCommitted, SettleStale, SettleFixable, Settled
  <1>6. CASE TakeSubmission \/ SyncWithDisk \/ (\E t \in Tasks : RefreshSession(t)) \/ UNCHANGED vars
    BY <1>6 DEF TakeSubmission, SyncWithDisk, RefreshSession, vars
  <1> QED
    BY <1>1, <1>2, <1>3, <1>4, <1>5, <1>6 DEF Next, LockHolder

\* What a task has read it does not unread, nor read otherwise.
LEMMA ReadsKept ==
    ASSUME TypeOK, ReadsOfPin, [Next]_vars, ~Restart, NEW t \in Tasks
    PROVE  /\ \A s \in Symbols : symbols[t][s] # None => symbols'[t][s] = symbols[t][s]
           /\ \A q \in Queries : queries[t][q] # None => queries'[t][q] = queries[t][q]
  <1> USE DEF TypeOK, Observed, Asked, readVars
  <1>1. ASSUME NEW u \in Tasks, NEW s \in Symbols, ReadSymbol(u, s)
        PROVE  \A r \in Symbols : symbols[t][r] # None => symbols'[t][r] = symbols[t][r]
    BY <1>1 DEF ReadSymbol, ReadsOfPin
  <1>2. ASSUME NEW u \in Tasks, NEW q \in Queries, GraphQuery(u, q)
        PROVE  \A r \in Queries : queries[t][r] # None => queries'[t][r] = queries[t][r]
    BY <1>2 DEF GraphQuery, ReadsOfPin
  <1> QED
    BY <1>1, <1>2, ReadersMove DEF ReadSymbol, GraphQuery

LEMMA ReadsOfPinNext == Base /\ Born /\ ReadsOfPin /\ [Next]_vars => ReadsOfPin'
  <1> SUFFICES ASSUME Base, Born, ReadsOfPin, [Next]_vars, NEW t \in Tasks
               PROVE  /\ \A s \in Symbols : symbols'[t][s] \in {None, Workspace(pinned[t])'[s]}
                      /\ \A q \in Queries : queries'[t][q] \in {None, Answer(q, Workspace(pinned[t]))'}
                      /\ state'[t] = "Unborn" => symbols'[t] = NoSymbols /\ queries'[t] = NoQueries
    BY DEF ReadsOfPin
  <1>1. /\ symbols \in [Tasks -> Observed]
        /\ queries \in [Tasks -> Asked]
        /\ pinned[t] \in 1..Len(log)
    BY DEF Base, TypeOK, Located
  <1>2. CASE Restart
    BY <1>2 DEF Restart, NoSymbols, NoQueries
  <1> SUFFICES ASSUME ~Restart
               PROVE  /\ \A s \in Symbols : symbols'[t][s] \in {None, Workspace(pinned[t])'[s]}
                      /\ \A q \in Queries : queries'[t][q] \in {None, Answer(q, Workspace(pinned[t]))'}
                      /\ state'[t] = "Unborn" => symbols'[t] = NoSymbols /\ queries'[t] = NoQueries
    BY <1>2
  <1>3. state'[t] = "Unborn" => state[t] = "Unborn"
    BY LifecycleMoves DEF Moves, Logged, Base, Born
  <1>4. state[t] # "Unborn" => Workspace(pinned[t])' = Workspace(pinned[t])
    BY <1>1, PinnedToHead, LogKept DEF Base, Workspace
  <1>5. CASE UNCHANGED <<symbols, queries>>
    BY <1>3, <1>4, <1>5 DEF ReadsOfPin, NoSymbols, NoQueries, Answer
  <1>6. ASSUME NEW u \in Tasks, NEW r \in Symbols, ReadSymbol(u, r)
        PROVE  /\ \A s \in Symbols : symbols'[t][s] \in {None, Workspace(pinned[t])[s]}
               /\ UNCHANGED <<queries, pinned, log, state>>
               /\ state[t] = "Unborn" => symbols'[t] = symbols[t]
    BY <1>1, <1>6 DEF ReadSymbol, ReadsOfPin, Observed, MayUseTools, Active, taskVars, specVars
  <1>7. ASSUME NEW u \in Tasks, NEW r \in Queries, GraphQuery(u, r)
        PROVE  /\ \A q \in Queries : queries'[t][q] \in {None, Answer(q, Workspace(pinned[t]))}
               /\ UNCHANGED <<symbols, pinned, log, state>>
               /\ state[t] = "Unborn" => queries'[t] = queries[t]
    BY <1>1, <1>7 DEF GraphQuery, ReadsOfPin, Asked, MayUseTools, Active, taskVars, specVars
  <1>8. CASE \E u \in Tasks, r \in Symbols : ReadSymbol(u, r)
    BY <1>6, <1>8 DEF ReadsOfPin, Workspace, Answer
  <1>9. CASE \E u \in Tasks, r \in Queries : GraphQuery(u, r)
    BY <1>7, <1>9 DEF ReadsOfPin, Workspace, Answer
  <1> QED
    BY <1>5, <1>8, <1>9, ReadersMove

\* A worker left stale by a publication has a cause the sweep looks at.
LEMMA LeftStaleHasCause ==
    ASSUME NEW old, NEW new, NEW t \in LeftStale(old, new)
    PROVE  /\ t \in Tasks /\ state[t] = "Running" /\ ~Interactive(t)
           /\ StaleCauses(t, old, new)
  BY DEF LeftStale, StillTrue, StaleCauses, StaleSymbols, StaleQueries, Changed

\* The workers a publication left stale, for as long as its sweep lasts.
ExposedStale ==
    /\ exposed # {} => pc = "sweep"
    /\ \A t \in exposed :
          /\ state[t] \notin Unmapped
          /\ ~Interactive(t)
          /\ StaleCauses(t, Workspace(head - 1), Workspace(head))

LEMMA ExposedNext ==
    /\ Base /\ Born /\ ReadsOfPin /\ ExposedStale /\ SweepLeavesNoneBehind /\ [Next]_vars
    => ExposedStale' /\ SweepLeavesNoneBehind'
  <1> SUFFICES ASSUME Base, Born, ReadsOfPin, ExposedStale, SweepLeavesNoneBehind, [Next]_vars
               PROVE  ExposedStale' /\ SweepLeavesNoneBehind'
    OBVIOUS
  <1>1. /\ TypeOK
        /\ state \in [Tasks -> TaskStates]
        /\ exposed \subseteq Tasks
        /\ head \in 1..Len(log) /\ Len(log) \in Nat
        /\ head \in Nat
    BY DEF Base, TypeOK, Located
  <1> USE DEF taskVars, specVars, readVars, writerVars, historyVars
  <1>2. CASE exposed' = {}
    BY <1>2 DEF ExposedStale, SweepLeavesNoneBehind
  <1> SUFFICES ASSUME ~Restart PROVE ExposedStale' /\ SweepLeavesNoneBehind'
    BY <1>2 DEF Restart
  \* A cause stays one while nothing is published.
  <1>3. ASSUME UNCHANGED <<log, head, exposed, pc>>,
               \A t \in exposed : gate'[t] = gate[t] /\ state'[t] \notin Unmapped
        PROVE  ExposedStale'
    <2> SUFFICES ASSUME NEW t \in exposed
                 PROVE  /\ ~Interactive(t)'
                        /\ StaleCauses(t, Workspace(head - 1), Workspace(head))'
      BY <1>3 DEF ExposedStale
    <2>1. ~Interactive(t)'
      BY <1>3 DEF Interactive, ExposedStale
    <2>2. /\ \A s \in Symbols : symbols[t][s] # None => symbols'[t][s] = symbols[t][s]
          /\ \A q \in Queries : queries[t][q] # None => queries'[t][q] = queries[t][q]
      BY <1>1, <1>3, ReadsKept
    <2>3. StaleCauses(t, Workspace(head - 1), Workspace(head))
      BY DEF ExposedStale
    <2> QED
      BY <1>3, <2>1, <2>2, <2>3 DEF StaleCauses, StaleSymbols, StaleQueries, Workspace, Answer, Changed
  <1>4. CASE Sessions
    <2>1. UNCHANGED <<log, head, exposed, pc, gate, state, todo>>
      BY <1>4 DEF Sessions, ReadSymbol, GraphQuery, Submit
    <2> QED
      BY <1>3, <2>1 DEF ExposedStale, SweepLeavesNoneBehind
  <1>5. CASE Supervision
    <2>1. UNCHANGED <<log, head, exposed, pc, todo>>
      BY <1>5 DEF Supervision, PinTask, InstallTask, FinishTask
    <2>2. \A t \in exposed : gate'[t] = gate[t] /\ state'[t] \in {state[t]} \cup EndStates
      BY <1>1, <1>5, EngineConstants DEF Supervision, PinTask, InstallTask, FinishTask, ExposedStale,
                                         Unmapped, TypeOK
    <2> QED
      BY <1>3, <2>1, <2>2 DEF ExposedStale, SweepLeavesNoneBehind, EndStates, Unmapped
  <1>6. CASE exposed = {} /\ UNCHANGED exposed
    BY <1>2, <1>6
  <1>7. ASSUME NEW ws \in Edits, AdoptEdit(ws) PROVE ExposedStale' /\ SweepLeavesNoneBehind'
    <2>1. /\ pc' = "sweep"
          /\ head' - 1 = head
          /\ log'[head'].ws = ws
          /\ log'[head' - 1].ws = Workspace(head)
          /\ UNCHANGED <<state, gate, symbols, queries>>
          /\ exposed' = LeftStale(Workspace(head), ws)
          /\ todo' = {t \in Tasks : state[t] # "Unborn"}
      BY <1>1, <1>7 DEF AdoptEdit, Base, Located, Workspace, TypeOK
    <2> QED
      BY <2>1, LeftStaleHasCause
      DEF ExposedStale, SweepLeavesNoneBehind, StaleCauses, StaleSymbols, StaleQueries, Changed, Answer, Interactive, Workspace, Unmapped
  <1>8. CASE Publish
    <2>1. /\ pc' = "sweep"
          /\ head' - 1 = head
          /\ log'[head'].ws = Workspace(Len(log))
          /\ log'[head' - 1].ws = Workspace(head)
          /\ UNCHANGED <<state, gate, symbols, queries, req>>
          /\ exposed' = LeftStale(Workspace(head), Workspace(Len(log))) \ {req.task}
          /\ todo' = {t \in Tasks : state[t] # "Unborn"} \ {req.task}
      BY <1>1, <1>8 DEF Publish, Base, Located, Workspace
    <2> QED
      BY <2>1, LeftStaleHasCause
      DEF ExposedStale, SweepLeavesNoneBehind, StaleCauses, StaleSymbols, StaleQueries, Changed, Answer, Interactive, Workspace, Unmapped
  <1>9. ASSUME NEW u \in Tasks, SweepTask(u) PROVE ExposedStale' /\ SweepLeavesNoneBehind'
    <2>1. /\ UNCHANGED <<log, head, exposed, pc, gate>>
          /\ todo' = todo \ {u}
          /\ state' \in {state, [state EXCEPT ![u] = "Invalidated"]}
      BY <1>9 DEF SweepTask
    <2>2. ExposedStale'
      BY <1>1, <1>3, <2>1 DEF ExposedStale, Unmapped
    <2>3. u \in exposed => state'[u] # "Running"
      BY <1>1, <1>9 DEF SweepTask, ExposedStale
    <2> QED
      BY <1>1, <2>1, <2>2, <2>3 DEF SweepLeavesNoneBehind
  <1>10. CASE SweepDone
    BY <1>2, <1>10 DEF SweepDone
  <1>11. CASE AdoptNothing \/ AdoptFails \/ MoveDone \/ (\E t \in Tasks : MoveSession(t))
    <2>1. exposed = {} /\ UNCHANGED exposed
      BY <1>11 DEF AdoptNothing, AdoptFails, MoveDone, MoveSession, ExposedStale
    <2> QED
      BY <1>6, <2>1
  <1>12. CASE \/ Gate \/ CheckReads \/ CheckRefs \/ Persist \/ PersistFails
              \/ SettleCommitted \/ SettleStale \/ SettleFixable
    <2>1. exposed = {} /\ UNCHANGED exposed
      BY <1>12 DEF Gate, CheckReads, CheckRefs, Persist, PersistFails, SettleCommitted, SettleStale,
                   SettleFixable, Settled, ExposedStale
    <2> QED
      BY <1>6, <2>1
  <1>13. CASE TakeSubmission \/ SyncWithDisk \/ \E t \in Tasks : RefreshSession(t)
    <2>1. exposed = {} /\ UNCHANGED exposed
      BY <1>13 DEF TakeSubmission, SyncWithDisk, RefreshSession, ExposedStale
    <2> QED
      BY <1>6, <2>1
  <1>14. CASE UNCHANGED vars
    <2>1. UNCHANGED <<log, head, exposed, pc, gate, state, todo>>
      BY <1>14 DEF vars
    <2> QED
      BY <1>3, <2>1 DEF ExposedStale, SweepLeavesNoneBehind
  <1> QED
    BY <1>4, <1>5, <1>7, <1>8, <1>9, <1>10, <1>11, <1>12, <1>13, <1>14
    DEF Next, LockHolder, Adoption, Publication, CommitProtocol

\* When the sweep has taken its turn with a worker that the publication left with a
\* stale context, that worker no longer runs: reads that go on meanwhile, ends
\* and installations do not hide one from it.
THEOREM SweepIsComplete == Spec => []SweepLeavesNoneBehind
  <1>1. Init => ReadsOfPin /\ ExposedStale /\ SweepLeavesNoneBehind
    BY DEF Init, ReadsOfPin, ExposedStale, SweepLeavesNoneBehind, NoSymbols, NoQueries
  <1>2. IInv /\ ReadsOfPin /\ ExposedStale /\ SweepLeavesNoneBehind /\ [Next]_vars
        => ReadsOfPin' /\ ExposedStale' /\ SweepLeavesNoneBehind'
    BY ReadsOfPinNext, ExposedNext DEF IInv, Base
  <1> QED
    BY <1>1, <1>2, Inductive, PTL DEF Spec

-----------------------------------------------------------------------------
(* The serial design *)

\* What the gate has checked still describes the task's read set when it persists,
\* where sessions wait for a submission before they call another tool.
GateKnows ==
    /\ pc \in {"refs", "persist"} =>
          /\ seen.symbols = symbols[req.task]
          /\ seen.queries = queries[req.task]
    /\ pc = "persist" =>
          /\ \A s \in req.patch.refs : symbols[req.task][s] # None
          /\ DraftOK(req.patch, Workspace(head))

LEMMA GateKnowsNext ==
    ASSUME ~Pipelined, Base, Born, GateKnows, [Next]_vars
    PROVE  GateKnows'
  <1> SUFFICES ASSUME pc' \in {"refs", "persist"} PROVE GateKnows'
    BY DEF GateKnows
  <1>1. req' = req /\ ~Restart
    BY PastTheGate DEF Judged
  <1>2. /\ symbols \in [Tasks -> Observed]
        /\ queries \in [Tasks -> Asked]
        /\ pc \in {"reads", "refs", "persist"} => req \in Requests /\ req.task \in Tasks
    BY DEF Base, TypeOK, CommitSteps, Requests
  <1> USE DEF taskVars, specVars, readVars, writerVars, historyVars
  <1>3. CASE UNCHANGED <<log, head, pc, seen, symbols, queries>>
    BY <1>1, <1>3 DEF GateKnows, Workspace
  <1>4. CASE Sessions
    <2>1. UNCHANGED <<log, head, pc, seen>>
      BY <1>4, Bystanders
    <2>2. state[req.task] # "Running"
      BY <2>1 DEF Born, Fresh
    <2>3. symbols'[req.task] = symbols[req.task] /\ queries'[req.task] = queries[req.task]
      BY <1>2, <1>4, <2>1, <2>2 DEF Sessions, ReadSymbol, GraphQuery, Submit, MayUseTools
    <2> QED
      BY <1>1, <2>1, <2>3 DEF GateKnows, Workspace
  <1>5. CASE CheckReads
    <2>1. /\ seen'.symbols = symbols[req.task]
          /\ seen'.queries = queries[req.task]
          /\ UNCHANGED <<symbols, queries>>
          /\ pc' # "persist"
      BY <1>5 DEF CheckReads, Judge
    <2> QED
      BY <1>1, <2>1 DEF GateKnows
  <1>6. CASE CheckRefs
    <2>1. /\ \A s \in req.patch.refs : symbols[req.task][s] # None
          /\ DraftOK(req.patch, Workspace(head))
          /\ UNCHANGED <<log, head, seen, symbols, queries>>
          /\ pc = "refs"
      BY <1>6 DEF CheckRefs, Judge
    <2> QED
      BY <1>1, <2>1 DEF GateKnows, Workspace
  <1>7. CASE Supervision
    BY <1>3, <1>7 DEF Supervision, PinTask, InstallTask, FinishTask
  <1>8. CASE Adoption \/ Publication
    BY <1>3, <1>8 DEF Adoption, AdoptNothing, AdoptEdit, AdoptFails, AfterAdoption,
                      Publication, SweepTask, SweepDone, MoveSession, MoveDone
  <1>9. CASE \/ Gate \/ Persist \/ PersistFails \/ Publish
             \/ SettleCommitted \/ SettleStale \/ SettleFixable
    BY <1>9 DEF Gate, Persist, PersistFails, Publish, Judge,
                SettleCommitted, SettleStale, SettleFixable, Settled
  <1>10. CASE TakeSubmission \/ SyncWithDisk \/ (\E t \in Tasks : RefreshSession(t)) \/ UNCHANGED vars
    BY <1>3, <1>10 DEF TakeSubmission, SyncWithDisk, RefreshSession, vars
  <1> QED
    BY <1>1, <1>4, <1>5, <1>6, <1>7, <1>8, <1>9, <1>10 DEF Next, LockHolder, CommitProtocol

LEMMA SerialStart == Init => Serial!SerialInit
  <1> SUFFICES ASSUME Init PROVE Serial!SerialInit
    OBVIOUS
  <1>1. Len(log) = 1 /\ log[1].ws = Initial /\ Commits = {}
    BY DEF Init, Commits
  <1>2. Initial \in Workspaces
    BY EngineConstants
  <1> QED
    BY <1>1, <1>2 DEF Init, Serial!SerialInit, Serial!Workspaces, Workspaces,
       Serial!NoSymbols, NoSymbols, Serial!NoQueries, NoQueries

\* Every step of the engine is a step of the serial design, or none of it: what a
\* session reads it is told, persisting commits, adopting edits and restarting
\* forgets.
LEMMA SerialStep ==
    ASSUME IInv, GateKnows, [Next]_vars
    PROVE  [Serial!SerialNext]_(Serial!serialVars)
  <1>1. /\ Base
        /\ log \in Seq(Entries)
        /\ Len(log) \in Nat /\ Len(log) \in 1..Len(log)
        /\ symbols \in [Tasks -> Observed]
        /\ queries \in [Tasks -> Asked]
    BY DEF IInv, Base, TypeOK, Located
  <1> USE DEF taskVars, specVars, readVars, writerVars, historyVars
  <1>2. CASE UNCHANGED <<log, symbols, queries>>
    BY <1>2 DEF Serial!serialVars, Commits
  <1>3. ASSUME NEW t \in Tasks, NEW s \in Symbols, ReadSymbol(t, s)
        PROVE  Serial!SerialNext
    <2>1. Workspace(pinned[t])[s] \in Contents
      BY <1>1, <1>3, RevisionType DEF ReadSymbol, Workspaces, Base, Located
    <2>2. Serial!Tell(t, s, Workspace(pinned[t])[s])
      BY <1>3 DEF ReadSymbol, Serial!Tell, Commits
    <2> QED
      BY <2>1, <2>2 DEF Serial!SerialNext
  <1>4. ASSUME NEW t \in Tasks, NEW q \in Queries, GraphQuery(t, q)
        PROVE  Serial!SerialNext
    <2>1. Answer(q, Workspace(pinned[t])) \in SUBSET Symbols
      BY DEF Answer
    <2>2. Serial!Inform(t, q, Answer(q, Workspace(pinned[t])))
      BY <1>4 DEF GraphQuery, Serial!Inform, Commits
    <2> QED
      BY <2>1, <2>2 DEF Serial!SerialNext
  <1>5. ASSUME NEW ws \in Edits, AdoptEdit(ws)
        PROVE  Serial!SerialNext
    <2>1. Commits' = Commits /\ \A r \in Commits : log'[r].task = log[r].task
      BY <1>1, <1>5, LogKept DEF AdoptEdit, Base, Persist, Commits
    <2>2. log'[Len(log')].ws = ws
      BY <1>1, <1>5 DEF AdoptEdit
    <2>3. Serial!Edit(ws)
      BY <1>5, <2>1, <2>2 DEF AdoptEdit, Serial!Edit
    <2>4. ws \in Workspaces
      BY EngineConstants
    <2> QED
      BY <2>3, <2>4 DEF Serial!SerialNext, Serial!Workspaces, Workspaces
  <1>6. CASE Persist
    <2>1. /\ Len(log') = Len(log) + 1
          /\ \A r \in 1..Len(log) : log'[r] = log[r]
          /\ log'[Len(log) + 1].task = req.task
          /\ req \in Requests /\ req.task \in Tasks /\ req.patch \in Patches
          /\ head = Len(log)
          /\ pc = "persist"
          /\ Commits' = Commits \cup {Len(log) + 1}
      BY <1>1, <1>6, PersistAdds DEF Base, Requests, Persist
    <2>2. log'[Len(log')].ws = Apply(req.patch, log[Len(log)].ws)
      BY <1>1, <1>6, <2>1 DEF Persist, Workspace
    <2>3. \A r \in Commits : r \in 1..Len(log) /\ log'[r].task = log[r].task
      BY <1>1, <2>1 DEF Commits
    <2>4. {log'[r].task : r \in Commits'} = {log[r].task : r \in Commits} \cup {req.task}
      BY <2>1, <2>3
    <2>5. req.task \notin {log[r].task : r \in Commits}
      BY <2>1 DEF IInv, FirstCommit, Judging
    <2>6. StillTrue(symbols[req.task], queries[req.task], log[Len(log)].ws)
      BY <2>1 DEF IInv, SeenHolds, GateKnows, Workspace
    <2>7. /\ \A s \in req.patch.refs : symbols[req.task][s] # None
          /\ DraftOK(req.patch, log[Len(log)].ws)
      BY <2>1 DEF GateKnows, Workspace
    <2>8. UNCHANGED <<symbols, queries>>
      BY <1>6 DEF Persist
    <2>9. PICK t \in Tasks, p \in Patches : t = req.task /\ p = req.patch
      BY <2>1
    <2>10. Serial!Commit(t, p)
      BY <2>2, <2>4, <2>5, <2>6, <2>7, <2>8, <2>9
      DEF Serial!Commit, Serial!StillTrue, StillTrue, Serial!DraftOK, DraftOK, Serial!Apply, Apply,
          Serial!Targets, Targets, Serial!Answer, Answer
    <2> QED
      BY <2>10 DEF Serial!SerialNext
  <1>7. CASE Restart
    <2>1. Serial!Forget
      BY <1>7 DEF Restart, Serial!Forget, Commits, Serial!NoSymbols, NoSymbols, Serial!NoQueries, NoQueries
    <2> QED
      BY <2>1 DEF Serial!SerialNext
  <1>8. CASE Sessions
    BY <1>2, <1>3, <1>4, <1>8 DEF Sessions, Submit
  <1>9. CASE Supervision
    BY <1>2, <1>9 DEF Supervision, PinTask, InstallTask, FinishTask
  <1>10. CASE Adoption
    BY <1>2, <1>5, <1>10 DEF Adoption, AdoptNothing, AdoptFails
  <1>11. CASE Publication
    BY <1>2, <1>11 DEF Publication, SweepTask, SweepDone, MoveSession, MoveDone
  <1>12. CASE CommitProtocol
    BY <1>2, <1>6, <1>12 DEF CommitProtocol, Gate, CheckReads, CheckRefs, PersistFails, Publish,
                         SettleCommitted, SettleStale, SettleFixable, Settled
  <1>13. CASE TakeSubmission \/ SyncWithDisk \/ (\E t \in Tasks : RefreshSession(t)) \/ UNCHANGED vars
    BY <1>2, <1>13 DEF TakeSubmission, SyncWithDisk, RefreshSession, vars
  <1> QED
    BY <1>7, <1>8, <1>9, <1>10, <1>11, <1>12, <1>13 DEF Next, LockHolder

\* The engine implements the serial design, where sessions do not read beside
\* their own submissions: a commit takes effect at one instant, at which all its
\* task has been told is true.
THEOREM EngineIsSerial ==
    ASSUME ~Pipelined
    PROVE  Spec => ImplementsSerialDesign
  <1>1. Init => GateKnows
    BY DEF Init, GateKnows
  <1>2. IInv /\ GateKnows /\ [Next]_vars => GateKnows'
    BY GateKnowsNext DEF IInv, Base
  <1>3. Init => Serial!SerialInit
    BY SerialStart
  <1>4. IInv /\ GateKnows /\ [Next]_vars => [Serial!SerialNext]_(Serial!serialVars)
    BY SerialStep
  <1> QED
    BY <1>1, <1>2, <1>3, <1>4, Inductive, PTL DEF Spec, ImplementsSerialDesign, Serial!SerialSpec

=============================================================================
