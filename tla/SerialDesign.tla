---------------------------- MODULE SerialDesign ----------------------------
(***************************************************************************)
(* What the design engine promises its tasks, without revisions, queues,   *)
(* locks or sweeps: a shared design, tasks that are told facts about some  *)
(* state of it, and commits that take effect in one step, at a moment when *)
(* every fact the committing task has been told is true, and refer only to *)
(* what it has been told of. A task commits once.                          *)
(***************************************************************************)
EXTENDS DesignData

CONSTANT Tasks

VARIABLES
    design,     \* the shared design
    known,      \* what each task has been told of symbols
    asked,      \* what each task has been answered
    done        \* the tasks that have committed

serialVars == <<design, known, asked, done>>

SerialInit ==
    /\ design \in Workspaces
    /\ known = [t \in Tasks |-> NoSymbols]
    /\ asked = [t \in Tasks |-> NoQueries]
    /\ done = {}

Tell(t, s, content) ==
    /\ known' = [known EXCEPT ![t][s] = content]
    /\ UNCHANGED <<design, asked, done>>

Inform(t, q, answer) ==
    /\ asked' = [asked EXCEPT ![t][q] = answer]
    /\ UNCHANGED <<design, known, done>>

Commit(t, p) ==
    /\ t \notin done
    /\ StillTrue(known[t], asked[t], design)
    /\ \A s \in p.refs : known[t][s] # None
    /\ DraftOK(p, design)
    /\ design' = Apply(p, design)
    /\ done' = done \cup {t}
    /\ UNCHANGED <<known, asked>>

\* The files are edited by hand, and become the design.
Edit(ws) ==
    /\ design' = ws
    /\ UNCHANGED <<known, asked, done>>

\* The process restarts; every running task's context is gone with it.
Forget ==
    /\ known' = [t \in Tasks |-> NoSymbols]
    /\ asked' = [t \in Tasks |-> NoQueries]
    /\ UNCHANGED <<design, done>>

SerialNext ==
    \/ \E t \in Tasks, s \in Symbols, c \in Contents : Tell(t, s, c)
    \/ \E t \in Tasks, q \in Queries, S \in SUBSET Symbols : Inform(t, q, S)
    \/ \E t \in Tasks, p \in Patches : Commit(t, p)
    \/ \E ws \in Workspaces : Edit(ws)
    \/ Forget

SerialSpec == SerialInit /\ [][SerialNext]_serialVars

=============================================================================
