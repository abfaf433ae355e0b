---------------------------- MODULE DesignEngine ----------------------------
(***************************************************************************)
(* The design engine of conseqa (src/src/design/engine.rs): agent tasks    *)
(* reason against a pinned revision of the design, every fact served to    *)
(* them is recorded in a server-owned read set, and one commit sequencer   *)
(* decides which patches become the next revision.                         *)
(*                                                                         *)
(* Processes: the sessions (reads, queries, submissions), whoever creates  *)
(* and ends tasks (scheduler, supervisor, operator), the commit sequencer  *)
(* and the other holders of the writer lock, and the machine that crashes. *)
(* The holder of the writer lock is the only writer of the head, so it is  *)
(* one process here, cut into steps where other threads can get between:   *)
(* it holds no task's state lock while it validates, persists and sweeps.  *)
(***************************************************************************)
EXTENDS DesignData, Sequences, FiniteSets

CONSTANTS
    Tasks,          \* task identities that may be minted
    Tokens,         \* capability tokens that may be issued
    Scopes,         \* write scopes a task may be given
    Nonces,         \* client nonces
    Gates,          \* completion gates tasks are created with
    Outcomes,       \* terminal states a task may be ended in
    Edits,          \* workspaces an edit outside the engine may leave on disk
    Initial,        \* the workspace the project is created with
    MayCrash,       \* whether the process may stop and start again
    Pipelined,      \* whether a session calls tools while it submits
    MaxRevision,    \* bound on revisions persisted
    MaxQueue        \* bound on queued submissions

EndStates == {"Cancelled", "Failed", "Completed", "DependencyRequested", "Unresolved"}

Requests == [task : Tasks, nonce : Nonces, base : Nat, patch : Patches]

ASSUME EngineConstants ==
    /\ Scopes \subseteq SUBSET Symbols
    /\ Gates \subseteq {"SinglePatch", "Interactive", "Session"}
    /\ Outcomes \subseteq EndStates
    /\ Edits \subseteq Workspaces
    /\ Initial \in Workspaces
    /\ MayCrash \in BOOLEAN
    /\ Pipelined \in BOOLEAN
    /\ MaxRevision \in Nat \ {0}
    /\ MaxQueue \in Nat

ASSUME NoneIsNothing ==
    /\ None \notin Tasks \cup Tokens \cup Nonces
    /\ None \notin Requests

VARIABLES
    log,        \* the revisions persisted, each with the commit that made it
    head,       \* the revision published as the head
    state,      \* each task's lifecycle state, in memory
    logged,     \* each task's state in the task log, on disk
    gate, scope, pinned, tokenOf,   \* each task's spec, fixed when it is created
    symbols,    \* each task's observed symbols
    queries,    \* each task's observed queries
    note,       \* what each task's invalidation note holds
    tokens,     \* the token map
    nonces,     \* the revision committed under each task and nonce, 0 for none
    queue,      \* submissions waiting for the sequencer
    pc,         \* what the holder of the writer lock does next
    req,        \* the submission it judges
    verdict,    \* what the gate has decided of it
    todo,       \* tasks still to be swept, or moved to the head
    seen,       \* history: the read set the gate validated
    exposed,    \* history: workers the last publication left with stale context
    receipts,   \* history: receipts handed out
    refused     \* history: workers whose patch was refused as stale

specVars == <<gate, scope, pinned, tokenOf>>
readVars == <<symbols, queries>>
taskVars == <<state, logged, note>>
writerVars == <<pc, req, verdict, todo, seen>>
historyVars == <<exposed, receipts, refused>>
vars == <<log, head, taskVars, specVars, readVars, tokens, nonces, queue,
          writerVars, historyVars>>

-----------------------------------------------------------------------------
(* Vocabulary *)

Active == {"Running", "Committing"}
Unmapped == {"Unborn", "Installing"}     \* not in the task map yet
TaskStates == Unmapped \cup Active \cup {"Invalidated", "Committed"} \cup EndStates

Interactive(t) == gate[t] \in {"Interactive", "Session"}

Workspace(r) == log[r].ws

NoSeen == [symbols |-> NoSymbols, queries |-> NoQueries]

\* Mutant: the gate trusts what was read of symbols.
ReadsTrusted(t, ws) == {}

StaleSymbols(t, ws) == {s \in Symbols : symbols[t][s] \notin {None, ws[s]}}

\* Mutant: queries are not run again.
QueriesTrusted(t, ws) == {}

StaleQueries(t, ws) == {q \in Queries : queries[t][q] \notin {None, Answer(q, ws)}}

\* Mutant: the sweep looks at changed symbols only.
SymbolCauses(t, old, new) == StaleSymbols(t, new) \cap Changed(old, new) # {}

\* Symbols are looked up among the changed ones; queries are always rerun.
StaleCauses(t, old, new) ==
    \/ StaleSymbols(t, new) \cap Changed(old, new) # {}
    \/ StaleQueries(t, new) # {}

\* Running workers that the move from old to new leaves with something untrue.
LeftStale(old, new) ==
    {t \in Tasks :
        /\ state[t] = "Running"
        /\ ~Interactive(t)
        /\ StillTrue(symbols[t], queries[t], old)
        /\ ~StillTrue(symbols[t], queries[t], new)}

-----------------------------------------------------------------------------
(* Creation of tasks *)

\* create_task_with_gate and create_session, to the load of the head: the
\* token is issued before the task is in the map.
PinTask(t, g, sc, tk) ==
    /\ state[t] = "Unborn"
    /\ tk \notin {tokenOf[u] : u \in Tasks}
    /\ state' = [state EXCEPT ![t] = "Installing"]
    /\ logged' = [logged EXCEPT ![t] = "Running"]
    /\ gate' = [gate EXCEPT ![t] = g]
    /\ scope' = [scope EXCEPT ![t] = sc]
    /\ pinned' = [pinned EXCEPT ![t] = head]
    /\ tokenOf' = [tokenOf EXCEPT ![t] = tk]
    /\ tokens' = [tokens EXCEPT ![tk] = t]
    /\ UNCHANGED <<log, head, note, readVars, nonces, queue, writerVars, historyVars>>

InstallTask(t) ==
    /\ state[t] = "Installing"
    /\ state' = [state EXCEPT ![t] = "Running"]
    /\ UNCHANGED <<log, head, logged, note, specVars, readVars, tokens, nonces, queue,
                   writerVars, historyVars>>

-----------------------------------------------------------------------------
(* Sessions *)

MayUseTools(t) ==
    /\ state[t] \in Active
    /\ Pipelined \/ state[t] = "Running"

ReadSymbol(t, s) ==
    /\ MayUseTools(t)
    /\ Workspace(pinned[t])[s] # Absent
    /\ symbols' = [symbols EXCEPT ![t][s] = Workspace(pinned[t])[s]]
    /\ UNCHANGED <<log, head, taskVars, specVars, queries, tokens, nonces, queue,
                   writerVars, historyVars>>

GraphQuery(t, q) ==
    /\ MayUseTools(t)
    /\ queries' = [queries EXCEPT ![t][q] = Answer(q, Workspace(pinned[t]))]
    /\ UNCHANGED <<log, head, taskVars, specVars, symbols, tokens, nonces, queue,
                   writerVars, historyVars>>

\* A submission is addressed by token; its base defaults to the pinned revision
\* of the task the token resolves to, and may be stated otherwise.
Submit(tk, n, b, p) ==
    /\ Len(queue) < MaxQueue
    /\ tokens[tk] # None
    /\ state[tokens[tk]] \notin Unmapped
    /\ b \in {pinned[tokens[tk]], head}
    /\ queue' = Append(queue, [task |-> tokens[tk], nonce |-> n, base |-> b, patch |-> p])
    /\ UNCHANGED <<log, head, taskVars, specVars, readVars, tokens, nonces, writerVars,
                   historyVars>>

\* cancel_task, fail_task and conclude_task.
FinishTask(t, outcome) ==
    /\ state[t] \in Active \cup {"Committed"}
    /\ state' = [state EXCEPT ![t] = outcome]
    /\ logged' = [logged EXCEPT ![t] = outcome]
    /\ tokens' = [tk \in Tokens |-> IF tokens[tk] = t THEN None ELSE tokens[tk]]
    /\ UNCHANGED <<log, head, note, specVars, readVars, nonces, queue, writerVars,
                   historyVars>>

-----------------------------------------------------------------------------
(* The holder of the writer lock: adopting outside edits *)

TakeSubmission ==
    /\ pc = "idle"
    /\ queue # <<>>
    /\ req' = Head(queue)
    /\ queue' = Tail(queue)
    /\ pc' = "adopt"
    /\ UNCHANGED <<log, head, taskVars, specVars, readVars, tokens, nonces, verdict, todo,
                   seen, historyVars>>

\* sync_with_disk takes the lock for the adoption alone.
SyncWithDisk ==
    /\ pc = "idle"
    /\ pc' = "adopt"
    /\ UNCHANGED <<log, head, taskVars, specVars, readVars, tokens, nonces, queue, req,
                   verdict, todo, seen, historyVars>>

\* Mutant: the caller's business is forgotten.
NothingAfterAdoption == "idle"

AfterAdoption == IF req = None THEN "idle" ELSE "gate"

\* The files still hold the head.
AdoptNothing ==
    /\ pc = "adopt"
    /\ pc' = AfterAdoption
    /\ UNCHANGED <<log, head, taskVars, specVars, readVars, tokens, nonces, queue, req,
                   verdict, todo, seen, historyVars>>

\* The files hold something else: it becomes the next revision, committed by none.
AdoptEdit(ws) ==
    /\ pc = "adopt"
    /\ Len(log) < MaxRevision
    /\ ws # Workspace(head)
    /\ log' = Append(log, [ws |-> ws, task |-> None, nonce |-> None, token |-> None,
                           patch |-> None, base |-> head,
                           symbols |-> NoSymbols, queries |-> NoQueries])
    /\ head' = Len(log) + 1
    /\ todo' = {t \in Tasks : state[t] # "Unborn"}
    /\ pc' = "sweep"
    /\ exposed' = LeftStale(Workspace(head), ws)
    /\ UNCHANGED <<taskVars, specVars, readVars, tokens, nonces, queue, req, verdict, seen,
                   receipts, refused>>

\* The files no longer load: the submission is refused, its task left as it is.
AdoptFails ==
    /\ pc = "adopt"
    /\ pc' = "idle"
    /\ req' = None
    /\ UNCHANGED <<log, head, taskVars, specVars, readVars, tokens, nonces, queue, verdict,
                   todo, seen, historyVars>>

-----------------------------------------------------------------------------
(* The holder of the writer lock: after a publication *)

FollowsCommit == log[head].task # None

\* One turn of invalidate_stale_tasks, the task that commits left out. A task
\* being installed as the head moved may or may not have been listed: its turn
\* does nothing until it is in the map.
SweepTask(t) ==
    /\ pc = "sweep"
    /\ t \in todo
    /\ todo' = todo \ {t}
    /\ IF ~Interactive(t) /\ state[t] = "Running" /\ StaleCauses(t, Workspace(head - 1), Workspace(head))
       THEN /\ state' = [state EXCEPT ![t] = "Invalidated"]
            /\ logged' = [logged EXCEPT ![t] = "Invalidated"]
            /\ note' = [note EXCEPT ![t] = "Causes"]
       ELSE UNCHANGED taskVars
    /\ UNCHANGED <<log, head, specVars, readVars, tokens, nonces, queue, pc, req, verdict,
                   seen, historyVars>>

SweepDone ==
    /\ pc = "sweep"
    /\ todo = {}
    /\ exposed' = {}
    /\ IF FollowsCommit
       THEN /\ pc' = "settle"
            /\ UNCHANGED todo
       ELSE /\ pc' = "move"
            /\ todo' = {t \in Tasks : Interactive(t) /\ state[t] = "Running"}
    /\ UNCHANGED <<log, head, taskVars, specVars, readVars, tokens, nonces, queue, req,
                   verdict, seen, receipts, refused>>

\* Mutant: the predecessor keeps its authority.
SucceedBeside(t, n, left) ==
    /\ state[n] = "Unborn"
    /\ state' = [state EXCEPT ![n] = "Running"]
    /\ gate' = [gate EXCEPT ![n] = gate[t]]
    /\ scope' = [scope EXCEPT ![n] = scope[t]]
    /\ pinned' = [pinned EXCEPT ![n] = head]
    /\ tokenOf' = [tokenOf EXCEPT ![n] = tokenOf[t]]
    /\ tokens' = [tokens EXCEPT ![tokenOf[t]] = n]

\* install_task and repoint: n, pinned to the head, takes over t's token.
Succeed(t, n, left) ==
    /\ state[n] = "Unborn"
    /\ state' = [state EXCEPT ![t] = left, ![n] = "Running"]
    /\ gate' = [gate EXCEPT ![n] = gate[t]]
    /\ scope' = [scope EXCEPT ![n] = scope[t]]
    /\ pinned' = [pinned EXCEPT ![n] = head]
    /\ tokenOf' = [tokenOf EXCEPT ![n] = tokenOf[t]]
    /\ tokens' = [tokens EXCEPT ![tokenOf[t]] = n]

\* The successor could not be recorded: the session is left on a terminal task.
Strand(t, left) ==
    /\ state' = [state EXCEPT ![t] = left]
    /\ UNCHANGED <<specVars, tokens>>

\* One turn of move_interactive_sessions, over the sessions it listed.
MoveSession(t) ==
    /\ pc = "move"
    /\ t \in todo
    /\ todo' = todo \ {t}
    /\ \/ \E n \in Tasks :
             /\ Succeed(t, n, "Invalidated")
             /\ logged' = [logged EXCEPT ![t] = "Invalidated", ![n] = "Running"]
       \/ /\ Strand(t, "Invalidated")
          /\ logged' = [logged EXCEPT ![t] = "Invalidated"]
    /\ UNCHANGED <<log, head, note, readVars, nonces, queue, pc, req, verdict, seen,
                   historyVars>>

MoveDone ==
    /\ pc = "move"
    /\ todo = {}
    /\ pc' = AfterAdoption
    /\ UNCHANGED <<log, head, taskVars, specVars, readVars, tokens, nonces, queue, req,
                   verdict, todo, seen, historyVars>>

\* refresh_session looks at the session, then moves it as an adoption would.
RefreshSession(t) ==
    /\ pc = "idle"
    /\ Interactive(t)
    /\ state[t] = "Running"
    /\ pinned[t] # head
    /\ todo' = {t}
    /\ pc' = "move"
    /\ UNCHANGED <<log, head, taskVars, specVars, readVars, tokens, nonces, queue, req,
                   verdict, seen, historyVars>>

-----------------------------------------------------------------------------
(* The commit protocol *)

Replay == nonces[req.task][req.nonce]

\* Mutant: a task that has committed is let through again.
AdmitsCommitted == {"Running", "Committed"}

Admitted == {"Running"}

\* The refused patch is attached to the task's invalidation note.
KeepPatch(t) == note' = [note EXCEPT ![t] = "Patch"]

\* process_commit up to the state gate.
Gate ==
    /\ pc = "gate"
    /\ \/ /\ Replay # 0
          /\ receipts' = receipts \cup
                {[task |-> req.task, nonce |-> req.nonce, revision |-> Replay]}
          /\ pc' = "idle"
          /\ req' = None
          /\ UNCHANGED <<state, note, refused>>
       \/ /\ Replay = 0
          /\ state[req.task] \in Admitted
          /\ state' = [state EXCEPT ![req.task] = "Committing"]
          /\ pc' = "reads"
          /\ UNCHANGED <<note, req, receipts, refused>>
       \/ /\ Replay = 0
          /\ state[req.task] = "Invalidated"
          /\ KeepPatch(req.task)
          /\ refused' = refused \cup {req.task}
          /\ pc' = "idle"
          /\ req' = None
          /\ UNCHANGED <<state, receipts>>
       \/ /\ Replay = 0
          /\ state[req.task] \notin Admitted \cup {"Invalidated"}
          /\ pc' = "idle"
          /\ req' = None
          /\ UNCHANGED <<state, note, receipts, refused>>
    /\ UNCHANGED <<log, head, logged, specVars, readVars, tokens, nonces, queue, verdict,
                   todo, seen, exposed>>

Judge(v, next) ==
    /\ verdict' = v
    /\ pc' = IF v = "none" THEN next ELSE "settle"

\* Steps 3 to 6: pinned base, write scope, observed symbols, observed queries.
CheckReads ==
    /\ pc = "reads"
    /\ LET t == req.task  ws == Workspace(head) IN
       /\ Judge(IF req.base # pinned[t] THEN "stale"
                ELSE IF ~(req.patch.addresses \subseteq scope[t]) THEN "fixable"
                ELSE IF StaleSymbols(t, ws) # {} \/ StaleQueries(t, ws) # {} THEN "stale"
                ELSE "none", "refs")
       /\ seen' = [symbols |-> symbols[t], queries |-> queries[t]]
    /\ UNCHANGED <<log, head, taskVars, specVars, readVars, tokens, nonces, queue, req,
                   todo, historyVars>>

\* Mutant: a target nobody read is taken to be unchanged.
MovedReadTargets(t, p, ws) ==
    {s \in Targets(p) : symbols[t][s] # None /\ Workspace(pinned[t])[s] # ws[s]}

MovedTargets(t, p, ws) == {s \in Targets(p) : Workspace(pinned[t])[s] # ws[s]}

\* Steps 7 to 11: write targets, read before reference, draft checks. The read
\* set is locked anew, and holds what was read since the last step.
CheckRefs ==
    /\ pc = "refs"
    /\ LET t == req.task  p == req.patch  ws == Workspace(head) IN
       Judge(IF MovedTargets(t, p, ws) # {} THEN "stale"
             ELSE IF \E s \in p.refs : symbols[t][s] = None THEN "fixable"
             ELSE IF ~DraftOK(p, ws) THEN "fixable"
             ELSE "none", "persist")
    /\ UNCHANGED <<log, head, taskVars, specVars, readVars, tokens, nonces, queue, req,
                   todo, seen, historyVars>>

\* Mutant: nonces are remembered whoever used them.
RememberForAll(t, n, r) == [u \in Tasks |-> [nonces[u] EXCEPT ![n] = r]]

Remember(t, n, r) == [nonces EXCEPT ![t][n] = r]

\* Step 14, and the nonce map.
Persist ==
    /\ pc = "persist"
    /\ Len(log) < MaxRevision
    /\ log' = Append(log, [ws |-> Apply(req.patch, Workspace(head)),
                           task |-> req.task, nonce |-> req.nonce,
                           token |-> tokenOf[req.task], patch |-> req.patch,
                           base |-> pinned[req.task],
                           symbols |-> seen.symbols, queries |-> seen.queries])
    /\ nonces' = Remember(req.task, req.nonce, Len(log) + 1)
    /\ pc' = "publish"
    /\ UNCHANGED <<head, taskVars, specVars, readVars, tokens, queue, req, verdict, todo,
                   seen, historyVars>>

PersistFails ==
    /\ pc = "persist"
    /\ Judge("fixable", "settle")
    /\ UNCHANGED <<log, head, taskVars, specVars, readVars, tokens, nonces, queue, req, todo,
                   seen, historyVars>>

\* The task log, then the head; the sweep is about to begin.
Publish ==
    /\ pc = "publish"
    /\ logged' = [logged EXCEPT ![req.task] = "Committed"]
    /\ head' = Len(log)
    /\ todo' = {t \in Tasks : state[t] # "Unborn"} \ {req.task}
    /\ verdict' = "committed"
    /\ pc' = "sweep"
    /\ exposed' = LeftStale(Workspace(head), Workspace(Len(log))) \ {req.task}
    /\ UNCHANGED <<log, state, note, specVars, readVars, tokens, nonces, queue, req, seen,
                   receipts, refused>>

Settled ==
    /\ pc' = "idle"
    /\ req' = None
    /\ verdict' = "none"
    /\ seen' = NoSeen
    /\ UNCHANGED <<log, head, readVars, nonces, queue, todo, exposed>>

\* The end of process_commit for an accepted patch: an interactive session rolls on.
SettleCommitted ==
    /\ pc = "settle"
    /\ verdict = "committed"
    /\ \/ /\ Interactive(req.task)
          /\ \E n \in Tasks :
                /\ Succeed(req.task, n, "Committed")
                /\ logged' = [logged EXCEPT ![n] = "Running"]
       \/ /\ Strand(req.task, "Committed")
          /\ UNCHANGED logged
    /\ receipts' = receipts \cup
          {[task |-> req.task, nonce |-> req.nonce, revision |-> Len(log)]}
    /\ UNCHANGED <<note, refused>>
    /\ Settled

\* A worker refused as stale is terminal, and its patch is kept for the replacement.
SettleStale ==
    /\ pc = "settle"
    /\ verdict = "stale"
    /\ ~Interactive(req.task)
    /\ state' = [state EXCEPT ![req.task] = "Invalidated"]
    /\ logged' = [logged EXCEPT ![req.task] = "Invalidated"]
    /\ KeepPatch(req.task)
    /\ refused' = refused \cup {req.task}
    /\ UNCHANGED <<specVars, tokens, receipts>>
    /\ Settled

\* Anything else can be put right in the session, which runs on.
SettleFixable ==
    /\ pc = "settle"
    /\ \/ verdict = "fixable"
       \/ verdict = "stale" /\ Interactive(req.task)
    /\ state' = [state EXCEPT ![req.task] = "Running"]
    /\ UNCHANGED <<logged, note, specVars, tokens, receipts, refused>>
    /\ Settled

-----------------------------------------------------------------------------
(* The process stops and the project is opened again *)

Recovered(s) == IF s = "Running" THEN "Invalidated" ELSE s

\* recover_tasks: the log decides, and what was active is invalidated. The head
\* is what was persisted, whether or not it had been published.
Restart ==
    /\ MayCrash
    /\ head' = Len(log)
    /\ state' = [t \in Tasks |-> Recovered(logged[t])]
    /\ logged' = [t \in Tasks |-> Recovered(logged[t])]
    /\ tokenOf' = [t \in Tasks |-> None]
    /\ tokens' = [tk \in Tokens |-> None]
    /\ symbols' = [t \in Tasks |-> NoSymbols]
    /\ queries' = [t \in Tasks |-> NoQueries]
    /\ note' = [t \in Tasks |-> "None"]
    /\ nonces' = [t \in Tasks |-> [n \in Nonces |-> 0]]
    /\ queue' = <<>>
    /\ pc' = "idle"
    /\ req' = None
    /\ verdict' = "none"
    /\ todo' = {}
    /\ seen' = NoSeen
    /\ exposed' = {}
    /\ refused' = {}
    /\ UNCHANGED <<log, gate, scope, pinned, receipts>>

-----------------------------------------------------------------------------
(* The specification *)

Init ==
    /\ log = <<[ws |-> Initial, task |-> None, nonce |-> None, token |-> None,
                patch |-> None, base |-> 0, symbols |-> NoSymbols, queries |-> NoQueries]>>
    /\ head = 1
    /\ state = [t \in Tasks |-> "Unborn"]
    /\ logged = [t \in Tasks |-> "Unborn"]
    /\ gate = [t \in Tasks |-> "SinglePatch"]
    /\ scope = [t \in Tasks |-> {}]
    /\ pinned = [t \in Tasks |-> 1]
    /\ tokenOf = [t \in Tasks |-> None]
    /\ symbols = [t \in Tasks |-> NoSymbols]
    /\ queries = [t \in Tasks |-> NoQueries]
    /\ note = [t \in Tasks |-> "None"]
    /\ tokens = [tk \in Tokens |-> None]
    /\ nonces = [t \in Tasks |-> [n \in Nonces |-> 0]]
    /\ queue = <<>>
    /\ pc = "idle"
    /\ req = None
    /\ verdict = "none"
    /\ todo = {}
    /\ seen = NoSeen
    /\ exposed = {}
    /\ receipts = {}
    /\ refused = {}

Sessions ==
    \/ \E t \in Tasks : \/ \E s \in Symbols : ReadSymbol(t, s)
                        \/ \E q \in Queries : GraphQuery(t, q)
    \/ \E tk \in Tokens, n \in Nonces, b \in 1..MaxRevision, p \in Patches :
          Submit(tk, n, b, p)

Supervision ==
    \E t \in Tasks :
       \/ \E g \in Gates, sc \in Scopes, tk \in Tokens : PinTask(t, g, sc, tk)
       \/ InstallTask(t)
       \/ \E o \in Outcomes : FinishTask(t, o)

\* What the thread that holds the writer lock goes on to do.
Adoption ==
    \/ AdoptNothing
    \/ \E ws \in Edits : AdoptEdit(ws)
    \/ AdoptFails

Publication ==
    \/ \E t \in Tasks : SweepTask(t)
    \/ SweepDone
    \/ \E t \in Tasks : MoveSession(t)
    \/ MoveDone

CommitProtocol ==
    \/ Gate \/ CheckReads \/ CheckRefs
    \/ Persist \/ PersistFails \/ Publish
    \/ SettleCommitted \/ SettleStale \/ SettleFixable

LockHolder == Adoption \/ Publication \/ CommitProtocol

Next ==
    \/ Sessions
    \/ Supervision
    \/ TakeSubmission
    \/ SyncWithDisk
    \/ \E t \in Tasks : RefreshSession(t)
    \/ LockHolder
    \/ Restart

Spec == Init /\ [][Next]_vars

(***************************************************************************)
(* The holder of the writer lock never waits with it, and the lock does    *)
(* not starve the sequencer (parking_lot hands it over fairly in the end). *)
(***************************************************************************)
FairSpec == Spec /\ WF_vars(LockHolder) /\ SF_vars(TakeSubmission)

-----------------------------------------------------------------------------
(* Properties *)

Entries == [ws : Workspaces, task : Tasks \cup {None}, nonce : Nonces \cup {None},
            token : Tokens \cup {None}, patch : Patches \cup {None}, base : Nat,
            symbols : Observed, queries : Asked]

CommitSteps == {"gate", "reads", "refs", "persist", "publish", "settle"}
Steps == CommitSteps \cup {"idle", "adopt", "sweep", "move"}

\* The type invariant.
TypeOK ==
    /\ log \in Seq(Entries)
    /\ head \in Nat
    /\ state \in [Tasks -> TaskStates]
    /\ logged \in [Tasks -> TaskStates]
    /\ gate \in [Tasks -> {"SinglePatch", "Interactive", "Session"}]
    /\ scope \in [Tasks -> SUBSET Symbols]
    /\ pinned \in [Tasks -> Nat]
    /\ tokenOf \in [Tasks -> Tokens \cup {None}]
    /\ symbols \in [Tasks -> Observed]
    /\ queries \in [Tasks -> Asked]
    /\ note \in [Tasks -> {"None", "Causes", "Patch"}]
    /\ tokens \in [Tokens -> Tasks \cup {None}]
    /\ nonces \in [Tasks -> [Nonces -> Nat]]
    /\ queue \in Seq(Requests)
    /\ pc \in Steps
    /\ req \in Requests \cup {None}
    /\ pc \in CommitSteps => req # None
    /\ verdict \in {"none", "committed", "stale", "fixable"}
    /\ todo \in SUBSET Tasks
    /\ seen \in [symbols : Observed, queries : Asked]
    /\ exposed \in SUBSET Tasks
    /\ receipts \in SUBSET [task : Tasks, nonce : Nonces, revision : Nat]
    /\ refused \in SUBSET Tasks

Commits == {r \in 2..Len(log) : log[r].task # None}

\* Every accepted patch was laid over a head at which all the gate validated of
\* its task's read set held, symbols and query answers alike (engine.rs steps 5
\* and 6): the commits are a serial execution of what the tasks saw.
CommittedOnWhatWasSeen ==
    \A r \in Commits :
       StillTrue(log[r].symbols, log[r].queries, Workspace(r - 1))

\* No accepted patch overwrote a symbol that another commit, or an edit of the
\* files, had changed since the snapshot its task reasoned from (step 7).
NoLostUpdate ==
    \A r \in Commits : \A s \in Targets(log[r].patch) :
       Workspace(log[r].base)[s] = Workspace(r - 1)[s]

\* A task makes at most one revision however often, and under whatever nonces,
\* its patch is submitted, resubmitted, or ended under the sequencer.
OneCommitPerTask ==
    \A r1, r2 \in Commits : log[r1].task = log[r2].task => r1 = r2

\* A receipt, first or replayed, names the revision its task and nonce made, and
\* that revision outlives any restart.
ReceiptsHonoured ==
    \A x \in receipts :
       /\ x.revision \in Commits
       /\ log[x.revision].task = x.task
       /\ log[x.revision].nonce = x.nonce

\* However sessions are rolled, by their own commits, by edits of the files and
\* by refreshes, no two tasks able to commit share a token.
OneAuthorityPerToken ==
    \A t, u \in Tasks :
       /\ t # u
       /\ state[t] \in Active
       /\ state[u] \in Active
       => tokenOf[t] # tokenOf[u]

\* Once the sweep has ended no running worker is left whose context was already
\* stale when the head it follows was published.
SweepLeavesNoneBehind ==
    \A t \in exposed : t \notin todo => state[t] # "Running"

\* A worker refused as stale leaves its patch to its replacement.
RefusedPatchKept == \A t \in refused : note[t] = "Patch"

\* Invalidation ends a task's authority for good, across restarts too.
InvalidatedIsTerminal ==
    [][\A t \in Tasks : state[t] = "Invalidated" => state'[t] = "Invalidated"]_vars

\* The engine implements the serial design: its log ends in the design, its read
\* sets are what tasks have been told, and persisting is committing. True of
\* sessions that wait for a submission before they call another tool.
Serial == INSTANCE SerialDesign WITH
             design <- log[Len(log)].ws,
             known <- symbols,
             asked <- queries,
             done <- {log[r].task : r \in Commits}

ImplementsSerialDesign == Serial!SerialSpec

(***************************************************************************)
(* What the documents say of the engine and the code does not keep.  No    *)
(* run checks these.                                                       *)
(***************************************************************************)

\* "Cancels a task: its authority ends" (engine.rs, cancel_task), as it does for
\* a failed or concluded one: an ended task stays ended.
EndedStaysEnded ==
    [][\A t \in Tasks : state[t] \in EndStates => state'[t] \in EndStates]_vars

\* "Reuse the same nonce when retrying a submission whose response was lost"
\* (mcp.rs): what one client submits under one nonce is committed once.
NonceOncePerToken ==
    \A r1, r2 \in Commits :
       /\ log[r1].token = log[r2].token
       /\ log[r1].nonce = log[r2].nonce
       => r1 = r2

\* Every submission queued is taken up, and every one taken up is answered.
SubmissionsAnswered ==
    /\ \A r \in [task : Tasks, nonce : Nonces, base : 1..MaxRevision, patch : Patches] :
          (\E i \in 1..Len(queue) : queue[i] = r) ~> (req = r)
    /\ (req # None) ~> (req = None)

=============================================================================
