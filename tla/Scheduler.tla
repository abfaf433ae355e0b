------------------------------ MODULE Scheduler ------------------------------
(****************************************************************************)
(* One batch of logical tasks, from its plan to its runs: slots that take   *)
(* jobs off a wave's queue, follow-ups that finished tasks chain on,        *)
(* attempts and their replacements, and the supervisor's watch over each    *)
(* session (harness/scheduler.rs, harness/supervisor.rs).                   *)
(*                                                                          *)
(* The engine is taken down to what the scheduler sees of it: an attempt    *)
(* has a state, what it observed, and what has moved since its snapshot; a  *)
(* patch is judged against the three in one step (module DesignEngine has   *)
(* the steps). Agents are external.                                         *)
(****************************************************************************)
EXTENDS WavePlanner, FiniteSets

CONSTANTS
    Slots,          \* max_concurrent_agents of them
    MaxAttempts,
    MaxCutOff,      \* bound on sessions that end before their patch is answered
    SharedSymbols,  \* what a global grant may write
    Voluntary       \* symbols an agent may read of its own accord

\* Only the synthesis of an operation chains its discovery, and no task beside
\* one is handed that operation's requirements by themselves (workflow.rs:428).
ASSUME SchedulerConstants ==
    /\ MaxAttempts \in Nat \ {0}
    /\ MaxCutOff \in Nat
    /\ Slots # {}
    /\ None \notin {"primary", "followUp"} \X Nat
    /\ None \notin ({"primary", "followUp"} \X Nat) \X Nat
    /\ None \notin {"Running", "Committing", "Committed", "Invalidated", "Failed"}
    /\ \A b \in Batches : \A i \in DOMAIN b : b[i].chains =>
          /\ b[i].operation \in Operations
          /\ [kind |-> "OperationProgram", target |-> b[i].operation] \in b[i].grants
          /\ \A j \in DOMAIN b : Requirements(b[i].operation) \notin b[j].include

VARIABLES
    current,        \* the wave being run, 0 before the first
    queue,          \* its jobs no slot has taken
    slot,           \* what each slot does
    attempts,       \* the attempts of each job
    judging,        \* the attempt whose patch the sequencer judges
    writers,        \* operations with an active primary program writer
    discovered,     \* operations whose discovery has been chained
    results,        \* the run of each task of the batch
    broken,         \* an engine error ended some job
    cut             \* history: attempts whose session ended before its patch was answered

runVars == <<current, queue, slot, attempts, judging, writers, discovered, results, broken, cut>>
vars == <<planVars, runVars>>

-----------------------------------------------------------------------------
(* Vocabulary *)

Jobs == {"primary", "followUp"} \X Indices

\* WriteScope::requirement_discovery.
Discovery(o) ==
    [operation |-> o, peers |-> {}, include |-> {}, chains |-> FALSE,
     grants |-> {[kind |-> "OperationRequirements", target |-> o]}]

TaskOf(job) ==
    IF job[1] = "primary" THEN batch[job[2]] ELSE Discovery(batch[job[2]].operation)

ProgramTargets(task) ==
    {g.target : g \in {h \in task.grants : h.kind \in {"OperationProgram", "Operation"}}}

Patches(task) ==
    SUBSET (IF Global(task) THEN SharedSymbols ELSE Writes(task)) \ {{}}

Active == {"Running", "Committing"}
AttemptStates == Active \cup {"Committed", "Invalidated", "Failed"}

\* History: landed, whether it committed; shifted, what of moved the patches of
\* sessions moved that were not cut off.
Fresh == [state |-> "Running", reads |-> {}, moved |-> {}, sent |-> {}, landed |-> FALSE,
          shifted |-> {}]

AttemptIds == {id \in Jobs \X (1 .. MaxAttempts) : id[2] <= Len(attempts[id[1]])}

Attempt(a) == attempts[a[1]][a[2]]

\* The attempt slot s runs.
Mine(s) == <<slot[s].job, Len(attempts[slot[s].job])>>

Free == [pc |-> "fetch", job |-> None, claimed |-> {}, status |-> None, noticed |-> FALSE]

\* A task's place in the callee-first order.
PlanOrder == [i \in Indices |-> CHOOSE k \in DOMAIN order : order[k] = i]

Waves == {wave[i] : i \in Indices}

WaveOver == \A s \in Slots : slot[s].pc = "returned"

\* run_many_then has returned, with the runs or with an error.
Returned == Planned /\ WaveOver /\ (broken \/ current + 1 \notin Waves)

Init ==
    /\ PlanInit
    /\ current = 0
    /\ queue = <<>>
    /\ slot = [s \in Slots |-> [Free EXCEPT !.pc = "returned"]]
    /\ attempts = [job \in Jobs |-> <<>>]
    /\ judging = None
    /\ writers = {}
    /\ discovered = {}
    /\ results = [i \in Indices |-> None]
    /\ broken = FALSE
    /\ cut = {}

Goto(s, pc) == slot' = [slot EXCEPT ![s].pc = pc]

SetAttempt(a, field, value) ==
    attempts' = [attempts EXCEPT ![a[1]][a[2]][field] = value]

-----------------------------------------------------------------------------
(* Waves and slots *)

Plan == PlanNext /\ UNCHANGED runVars

StartWave ==
    /\ Planned
    /\ WaveOver
    /\ ~broken
    /\ current + 1 \in Waves
    /\ current' = current + 1
    /\ \E members \in Listed(InWave(current + 1), PlanOrder) :
          queue' = [k \in DOMAIN members |-> <<"primary", members[k]>>]
    /\ slot' = [s \in Slots |-> Free]
    /\ UNCHANGED <<planVars, attempts, judging, writers, discovered, results, broken,
                   cut>>

\* A slot that finds the queue empty is done with the wave.
FetchNothing(s) ==
    /\ slot[s].pc = "fetch"
    /\ queue = <<>>
    /\ Goto(s, "returned")
    /\ UNCHANGED <<planVars, current, queue, attempts, judging, writers, discovered,
                   results, broken, cut>>

\* The claim is advisory: what another task holds is left with it.
FetchJob(s) ==
    /\ slot[s].pc = "fetch"
    /\ queue # <<>>
    /\ LET job == Head(queue)
           claimed == ProgramTargets(TaskOf(job)) \ writers IN
       /\ slot' = [slot EXCEPT ![s] =
              [Free EXCEPT !.pc = "create", !.job = job, !.claimed = claimed]]
       /\ writers' = writers \cup claimed
    /\ queue' = Tail(queue)
    /\ UNCHANGED <<planVars, current, attempts, judging, discovered, results, broken,
                   cut>>

-----------------------------------------------------------------------------
(* One attempt: run_inner and run_task *)

CreateTask(s) ==
    /\ slot[s].pc = "create"
    /\ attempts' = [attempts EXCEPT ![slot[s].job] = Append(@, Fresh)]
    /\ Goto(s, "bundle")
    /\ UNCHANGED <<planVars, current, queue, judging, writers, discovered, results,
                   broken, cut>>

\* The bundle is as deep as the analysis of the pinned revision is ready by
\* now, whatever it was as the batch was planned; a warm restart adds what the
\* refused patch refers to.
ContextBundle(s) ==
    /\ slot[s].pc = "bundle"
    /\ \E deeply \in BOOLEAN, references \in SUBSET Voluntary :
          /\ references # {} => Len(attempts[slot[s].job]) > 1
          /\ SetAttempt(Mine(s), "reads", Reads(TaskOf(slot[s].job), deeply) \cup references)
    /\ slot' = [slot EXCEPT ![s].pc = "session", ![s].status = None, ![s].noticed = FALSE]
    /\ UNCHANGED <<planVars, current, queue, judging, writers, discovered, results,
                   broken, cut>>

\* The engine refuses the task or its bundle: the job ends in an error, and
\* the batch with it once the wave is over.
LaunchFails(s) ==
    /\ slot[s].pc \in {"create", "bundle"}
    /\ slot' = [slot EXCEPT ![s] = Free]
    /\ writers' = writers \ slot[s].claimed
    /\ broken' = TRUE
    /\ UNCHANGED <<planVars, current, queue, attempts, judging, discovered, results, cut>>

ReadMore(s) ==
    /\ slot[s].pc = "session"
    /\ Attempt(Mine(s)).state = "Running"
    /\ \E symbol \in Voluntary \ Attempt(Mine(s)).reads :
          SetAttempt(Mine(s), "reads", Attempt(Mine(s)).reads \cup {symbol})
    /\ UNCHANGED <<planVars, current, queue, slot, judging, writers, discovered, results,
                   broken, cut>>

SubmitPatch(s) ==
    /\ slot[s].pc = "session"
    /\ Attempt(Mine(s)).state = "Running"
    /\ Attempt(Mine(s)).sent = {}
    /\ \E patch \in Patches(TaskOf(slot[s].job)) : SetAttempt(Mine(s), "sent", patch)
    /\ UNCHANGED <<planVars, current, queue, slot, judging, writers, discovered, results,
                   broken, cut>>

-----------------------------------------------------------------------------
(* The engine: the gate, and what a commit does to the others *)

\* A task that is not running is refused by the gate.
TakePatch(a) ==
    /\ judging = None
    /\ Attempt(a).sent # {}
    /\ \/ /\ Attempt(a).state = "Running"
          /\ SetAttempt(a, "state", "Committing")
          /\ judging' = a
       \/ /\ Attempt(a).state # "Running"
          /\ SetAttempt(a, "sent", {})
          /\ UNCHANGED judging
    /\ UNCHANGED <<planVars, current, queue, slot, writers, discovered, results, broken,
                   cut>>

\* An ended attempt is judged no more: what it observed is dropped.
Ended(attempt, state) ==
    [attempt EXCEPT !.state = state, !.reads = {}, !.moved = {}, !.sent = {}, !.shifted = {}]

\* What keeps an attempt from standing: what it observed or wants to write moved.
Reasons(attempt) == attempt.moved \cap (attempt.reads \cup attempt.sent)

\* What a commit of patch does to another attempt: it moves under a live one,
\* and the sweep invalidates one that runs and has observed any of it.
Swept(attempt, patch, told) ==
    IF attempt.state \notin Active THEN attempt
    ELSE IF attempt.state = "Running" /\ attempt.reads \cap patch # {}
         THEN Ended(attempt, "Invalidated")
         ELSE [attempt EXCEPT !.moved = @ \cup patch,
                              !.shifted = IF told THEN @ \cup patch ELSE @]

Commit ==
    /\ judging # None
    /\ Reasons(Attempt(judging)) = {}
    /\ attempts' = [job \in Jobs |->
           [n \in DOMAIN attempts[job] |->
               IF <<job, n>> = judging
               THEN [Ended(attempts[job][n], "Committed") EXCEPT !.landed = TRUE]
               ELSE Swept(attempts[job][n], Attempt(judging).sent, judging \notin cut)]]
    /\ judging' = None
    /\ UNCHANGED <<planVars, current, queue, slot, writers, discovered, results, broken,
                   cut>>

RefuseStale ==
    /\ judging # None
    /\ Reasons(Attempt(judging)) # {}
    /\ attempts' = [attempts EXCEPT ![judging[1]][judging[2]] = Ended(@, "Invalidated")]
    /\ judging' = None
    /\ UNCHANGED <<planVars, current, queue, slot, writers, discovered, results, broken,
                   cut>>

\* Out of scope, incomplete or invalid: the session may try again.
RefuseFixable ==
    /\ judging # None
    /\ attempts' = [attempts EXCEPT
           ![judging[1]][judging[2]] = [@ EXCEPT !.state = "Running", !.sent = {}]]
    /\ judging' = None
    /\ UNCHANGED <<planVars, current, queue, slot, writers, discovered, results, broken,
                   cut>>

-----------------------------------------------------------------------------
(* The supervisor *)

\* The event may come at any time, or be missed.
NoticeInvalidation(s) ==
    /\ slot[s].pc = "session"
    /\ Attempt(Mine(s)).state = "Invalidated"
    /\ ~slot[s].noticed
    /\ slot' = [slot EXCEPT ![s].noticed = TRUE]
    /\ UNCHANGED <<planVars, current, queue, attempts, judging, writers, discovered,
                   results, broken, cut>>

\* The process ends, answered or not. "Failed" is any end of it that is not a
\* success: an exit code, a launch or stream error, a deadline. Only a session
\* whose invalidation was noticed is cancelled.
Exit(s) ==
    /\ slot[s].pc = "session"
    /\ \/ Attempt(Mine(s)).sent = {} /\ UNCHANGED cut
       \/ /\ Attempt(Mine(s)).sent # {}
          /\ Cardinality(cut) < MaxCutOff
          /\ cut' = cut \cup {Mine(s)}
    /\ \E status \in {"Completed", "Failed"} \cup (IF slot[s].noticed THEN {"Cancelled"} ELSE {}) :
          slot' = [slot EXCEPT ![s].pc = "exited", ![s].status = status]
    /\ UNCHANGED <<planVars, current, queue, attempts, judging, writers, discovered, results,
                   broken>>

\* A session that has ended reads and sends no more: unless a patch of its is
\* on the way, nothing can be learnt of what it observed.
Left(attempt) == IF attempt.sent = {} THEN Ended(attempt, attempt.state) ELSE attempt

\* run_task's first look at the task.
FirstLook(s) ==
    /\ slot[s].pc = "exited"
    /\ Goto(s, IF /\ Attempt(Mine(s)).state \in Active
                  /\ ~slot[s].noticed
                  /\ slot[s].status = "Failed"
               THEN "failing"
               ELSE "settle")
    /\ UNCHANGED <<planVars, current, queue, attempts, judging, writers, discovered,
                   results, broken, cut>>

\* fail_task takes a committed task as well as an active one; its error is dropped.
FailTask(s) ==
    /\ slot[s].pc = "failing"
    /\ IF Attempt(Mine(s)).state \in Active \cup {"Committed"}
       THEN attempts' = [attempts EXCEPT ![slot[s].job][Len(attempts[slot[s].job])] =
                             Left([@ EXCEPT !.state = "Failed"])]
       ELSE UNCHANGED attempts
    /\ Goto(s, "settle")
    /\ UNCHANGED <<planVars, current, queue, judging, writers, discovered, results,
                   broken, cut>>

\* Mutant: a failed process is replaced whatever its task has come to.
ReplacesFailures(s) ==
    \/ slot[s].noticed
    \/ Attempt(Mine(s)).state = "Invalidated"
    \/ slot[s].status = "Failed"

NeedsReplacement(s) ==
    \/ slot[s].noticed
    \/ Attempt(Mine(s)).state = "Invalidated"
    \/ slot[s].status = "Failed" /\ Attempt(Mine(s)).state \in Active \cup {"Failed"}

AttemptsLeft(job) == Len(attempts[job]) < MaxAttempts

Replace(s) ==
    /\ slot[s].pc = "settle"
    /\ NeedsReplacement(s)
    /\ AttemptsLeft(slot[s].job)
    /\ Goto(s, "create")
    /\ UNCHANGED <<planVars, current, queue, attempts, judging, writers, discovered,
                   results, broken, cut>>

\* The discovery of an operation whose program is at the head, unless chained
\* before or not wanted.
MayChain(job) ==
    /\ job[1] = "primary"
    /\ batch[job[2]].chains
    /\ \E n \in DOMAIN attempts[job] : attempts[job][n].landed
    /\ batch[job[2]].operation \notin discovered

\* Mutant: the slot that chains a follow-up is done with the wave.
ReturnAfterChaining(s, chained) == IF chained THEN [Free EXCEPT !.pc = "returned"] ELSE Free

BackToQueue(s, chained) == Free

\* The run is over, committed or not, or its attempts are exhausted.
FinishJob(s) ==
    LET job == slot[s].job IN
    /\ slot[s].pc = "settle"
    /\ ~NeedsReplacement(s) \/ ~AttemptsLeft(job)
    /\ writers' = writers \ slot[s].claimed
    /\ IF job[1] = "primary"
       THEN results' = [results EXCEPT ![job[2]] = Attempt(Mine(s)).state]
       ELSE UNCHANGED results
    /\ \/ /\ MayChain(job)
          /\ queue' = Append(queue, <<"followUp", job[2]>>)
          /\ discovered' = discovered \cup {batch[job[2]].operation}
          /\ slot' = [slot EXCEPT ![s] = BackToQueue(s, TRUE)]
       \/ /\ UNCHANGED <<queue, discovered>>
          /\ slot' = [slot EXCEPT ![s] = BackToQueue(s, FALSE)]
    /\ attempts' = [attempts EXCEPT ![job][Len(attempts[job])] = Left(@)]
    /\ UNCHANGED <<planVars, current, judging, broken, cut>>

-----------------------------------------------------------------------------
(* Specifications *)

Sequencer ==
    \/ \E a \in AttemptIds : TakePatch(a)
    \/ Commit
    \/ RefuseStale
    \/ RefuseFixable

Harness(s) ==
    \/ FetchNothing(s)
    \/ FetchJob(s)
    \/ CreateTask(s)
    \/ ContextBundle(s)
    \/ LaunchFails(s)
    \/ FirstLook(s)
    \/ FailTask(s)
    \/ Replace(s)
    \/ FinishJob(s)

Agent(s) == ReadMore(s) \/ SubmitPatch(s) \/ NoticeInvalidation(s) \/ Exit(s)

Stopped == Returned /\ judging = None /\ \A a \in AttemptIds : Attempt(a).sent = {}

Rest == Stopped /\ UNCHANGED vars

Next ==
    \/ Plan
    \/ StartWave
    \/ Sequencer
    \/ \E s \in Slots : Harness(s) \/ Agent(s)
    \/ Rest

Spec == Init /\ [][Next]_vars

-----------------------------------------------------------------------------
(* Properties *)

SlotStates == {"returned", "fetch", "create", "bundle", "session", "exited", "failing", "settle"}

TypeOK ==
    /\ PlanTypeOK
    /\ current \in 0 .. Len(batch)
    /\ queue \in Seq(Jobs)
    /\ \A s \in Slots : /\ slot[s].pc \in SlotStates
                        /\ slot[s].job \in Jobs \cup {None}
                        /\ slot[s].pc \in {"bundle", "session", "exited", "failing", "settle"}
                              => Mine(s) \in AttemptIds
    /\ \A a \in AttemptIds : Attempt(a).state \in AttemptStates
    /\ judging \in AttemptIds \cup {None}
    /\ writers \subseteq Operations
    /\ discovered \subseteq Operations
    /\ results \in [Indices -> AttemptStates \cup {None}]
    /\ broken \in BOOLEAN
    /\ cut \subseteq AttemptIds

\* What an attempt was promised: its declared writes, and the bundle as planned.
Scheduled(job) == Writes(TaskOf(job)) \cup Reads(TaskOf(job), deep)

\* No attempt is invalidated by a change of what the plan counted in its
\* footprint: siblings and their follow-ups keep off it, and what remains to
\* the gate is what the agent read beyond it, a bundle deeper than planned, or
\* the patch of a session that was over before it was answered.
PlannedContextHolds ==
    [][\A a \in AttemptIds :
          (\E s \in Slots : slot[s].job = a[1] /\ Mine(s) = a) /\
          Attempt(a).state # "Invalidated" /\ Attempt(a)'.state = "Invalidated" =>
              LET patch == IF judging = a \/ judging \in cut THEN {}
                           ELSE Attempt(judging).sent IN
              (Attempt(a).shifted \cup patch) \cap (Attempt(a).reads \cup Attempt(a).sent)
                  \cap Scheduled(a[1]) = {}]_vars

MayChangeProgram(task) ==
    {g.target : g \in {h \in task.grants :
        h.kind \in {"Operation", "OperationProgram", "OperationRequirements"}}}

\* One task at a time runs that may change an operation's program, discovery
\* with its transaction requirements included.
OneProgramWriter ==
    \A s, u \in Slots :
        s # u /\ slot[s].job # None /\ slot[u].job # None =>
            MayChangeProgram(TaskOf(slot[s].job)) \cap MayChangeProgram(TaskOf(slot[u].job)) = {}

\* A commit that its session was told of ends a logical task, whatever the process
\* does then and whatever became of the attempts before: no attempt follows, and
\* the run says Committed. It says so of no task of which nothing landed.
RunsTellTheTruth ==
    \A job \in Jobs :
        LET landed == {n \in DOMAIN attempts[job] : attempts[job][n].landed}
            told == {n \in landed : <<job, n>> \notin cut} IN
        /\ \A n \in told : n = Len(attempts[job])
        /\ job[1] = "primary" /\ results[job[2]] # None =>
              /\ results[job[2]] = "Committed" => landed # {}
              /\ told # {} => results[job[2]] = "Committed"

\* When the batch has returned, no claim is held; every task has its run and
\* every follow-up chained has been attempted, unless an engine error came up.
NothingStranded ==
    Returned =>
        /\ queue = <<>>
        /\ writers = {}
        /\ broken \/ \A i \in Indices :
              /\ results[i] # None
              /\ batch[i].chains /\ batch[i].operation \in discovered =>
                    \E k \in Indices : /\ batch[k].operation = batch[i].operation
                                       /\ attempts[<<"followUp", k>>] # <<>>

\* supervisor.rs:50 a fresh replacement task is created when "the task was
\* invalidated, or the agent process failed without reaching a terminal
\* architectural outcome": not after a commit.
ReplacedOnlyUnfinished ==
    [][\A s \in Slots : slot[s].pc = "settle" /\ slot'[s].pc = "create" =>
          ~Attempt(Mine(s)).landed]_vars

=============================================================================
