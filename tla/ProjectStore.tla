----------------------------- MODULE ProjectStore -----------------------------
(***************************************************************************)
(* The project store of conseqa (src/src/design/store.rs): the design kept *)
(* as files beside the code, written by one engine through a write-ahead   *)
(* journal and edited by anyone.                                           *)
(*                                                                         *)
(* A file is what it says once it is rendered canonically, so a reformat   *)
(* leaves it as it was but for its metadata. The metadata hash the engine  *)
(* compares (scan) is kept as what the comparison tells: whether any file  *)
(* was written since the hash the engine holds was taken.                  *)
(***************************************************************************)
EXTENDS Naturals

CONSTANTS
    Paths,          \* files a project may consist of
    Texts,          \* what a file may say
    Missing,        \* a file that is not there
    Broken,         \* a file that does not load
    None,           \* no journal, no local state, no commit in flight
    Initial,        \* the design the project is found with
    Patches,        \* changes commits make to the head's files
    Edits,          \* what editors put into files
    MaxRevision     \* bound on revision numbers

Contents == Texts \cup {Missing, Broken}
Designs == [Paths -> Texts \cup {Missing}]

ASSUME StoreConstants ==
    /\ Missing \notin Texts
    /\ Broken \notin Texts \cup {Missing}
    /\ None \notin [Paths -> Contents] \cup [revision : Nat, design : Designs]
    /\ None \notin [revision : Nat, design : Designs, changes : SUBSET Paths]
    /\ Initial \in Designs
    /\ Patches \subseteq UNION {[S -> Texts \cup {Missing}] : S \in SUBSET Paths}
    /\ Edits \subseteq Paths \X Contents
    /\ MaxRevision \in Nat

VARIABLES
    files,      \* the committed files
    journal,    \* local/pending.json
    stateFile,  \* local/state.json: a revision and the design it names
    pc,         \* what the engine does next, "closed" when none runs
    business,   \* what it looks at the files for: "open", "commit" or "sync"
    head,       \* the head it last published
    disk,       \* what it believes the files hold
    touched,    \* whether a file was written since it last took the hash
    moved,      \* whether one was since the look under way took it
    read,       \* what the load under way has read
    toRead,     \* files it has still to read
    goal,       \* the design a commit is to leave in the files
    left,       \* files still to be written
    kept,       \* history: what the files should hold without the commit in flight
    coming,     \* history: and with it
    unread,     \* history: files whose last edit the engine has not taken in
    late,       \* history: and those of them edited after the look a commit relies on
    published   \* history: every head published

diskVars == <<files, journal, stateFile>>
lookVars == <<moved, read, toRead>>
historyVars == <<kept, coming, unread, late, published>>
vars == <<diskVars, pc, business, head, disk, touched, lookVars, goal, left, historyVars>>

-----------------------------------------------------------------------------
(* Vocabulary *)

Nothing == [p \in Paths |-> Missing]

Overlay(patch, design) ==
    [p \in Paths |-> IF p \in DOMAIN patch THEN patch[p] ELSE design[p]]

\* The writes and deletes that take the files from what they are believed to hold.
Changes(design) == {p \in Paths : design[p] # disk[p]}

\* Files are written before any is deleted.
InTurn(p, design) ==
    /\ p \in left
    /\ design[p] = Missing => \A q \in left : design[q] = Missing

\* Mutant: an edit of a closed project goes uncounted.
Uncounted(design) ==
    IF stateFile = None THEN 0 ELSE stateFile.revision

\* continued_revision
Continued(design) ==
    IF stateFile = None THEN 0
    ELSE IF stateFile.design = design THEN stateFile.revision
    ELSE stateFile.revision + 1

PublishHead(revision, design) ==
    /\ head' = [revision |-> revision, design |-> design]
    /\ published' = published \cup {head'}

-----------------------------------------------------------------------------
(* Anyone who edits the files *)

\* An engine is on a commit from the look that precedes it to its answer.
Committing == pc \notin {"closed", "idle"} /\ business = "commit"

\* A journal is left and no engine has completed it.
Interrupted == journal # None /\ (pc = "closed" \/ business = "open")

Edit(p, text) ==
    /\ files' = [files EXCEPT ![p] = text]
    /\ touched' = TRUE
    /\ moved' = TRUE
    /\ unread' = IF files[p] = text THEN unread ELSE unread \cup {p}
    /\ kept' = [kept EXCEPT ![p] = text]
    /\ coming' = IF coming = None THEN None ELSE [coming EXCEPT ![p] = text]
    /\ late' = IF Committing \/ Interrupted THEN late \cup {p} ELSE late \ {p}
    /\ UNCHANGED <<journal, stateFile, pc, business, head, disk, read, toRead, goal, left,
                   published>>

\* "All of it can be deleted while no engine has the project open."
WipeLocal ==
    /\ pc = "closed"
    /\ journal' = None
    /\ stateFile' = None
    /\ UNCHANGED <<files, pc, business, head, disk, touched, lookVars, goal, left, historyVars>>

-----------------------------------------------------------------------------
(* Loading: the hash is taken first, then file after file is read *)

StartLoad ==
    /\ moved' = FALSE
    /\ toRead' = Paths
    /\ read' = Nothing
    /\ pc' = "load"

ReadFile(p) ==
    /\ pc = "load"
    /\ p \in toRead
    /\ read' = [read EXCEPT ![p] = files[p]]
    /\ toRead' = toRead \ {p}
    /\ UNCHANGED <<diskVars, pc, business, head, disk, touched, moved, goal, left, historyVars>>

Loads == \A p \in Paths : read[p] # Broken

Read == pc = "load" /\ toRead = {}

\* Mutant: the hash is taken after the files were read.
HashAfter == FALSE

HashBefore == moved

\* The engine holds what it read, under the hash taken before it.
TakeIn ==
    /\ disk' = read
    /\ touched' = HashBefore
    /\ unread' = {p \in unread : files[p] # read[p]}
    /\ late' = {p \in late : files[p] # read[p]}

\* What becomes of a file edited late is taken as it is found.
AsFound(design) == [p \in Paths |-> IF p \in late THEN files[p] ELSE design[p]]

LoadFails ==
    /\ Read
    /\ ~Loads
    /\ pc' = IF business = "open" THEN "closed" ELSE "idle"
    /\ UNCHANGED <<diskVars, business, head, disk, touched, lookVars, goal, left, historyVars>>

-----------------------------------------------------------------------------
(* ProjectStore::open *)

Open ==
    /\ pc = "closed"
    /\ business' = "open"
    /\ IF journal = None
       THEN StartLoad /\ UNCHANGED left
       ELSE /\ pc' = "recover"
            /\ left' = journal.changes
            /\ UNCHANGED lookVars
    /\ UNCHANGED <<diskVars, head, disk, touched, goal, historyVars>>

\* complete_pending, file by file, then the head pointer, then the journal.
RecoverFile(p) ==
    /\ pc = "recover"
    /\ InTurn(p, journal.design)
    /\ files' = [files EXCEPT ![p] = journal.design[p]]
    /\ left' = left \ {p}
    /\ unread' = unread \ {p}
    /\ UNCHANGED <<journal, stateFile, pc, business, head, disk, touched, lookVars, goal, kept,
                   coming, late, published>>

RecoverState ==
    /\ pc = "recover"
    /\ left = {}
    /\ stateFile' = [revision |-> journal.revision, design |-> journal.design]
    /\ pc' = "recovered"
    /\ UNCHANGED <<files, journal, business, head, disk, touched, lookVars, goal, left,
                   historyVars>>

RecoverClear ==
    /\ pc = "recovered"
    /\ journal' = None
    /\ StartLoad
    /\ UNCHANGED <<files, stateFile, business, head, disk, touched, goal, left, historyVars>>

Opened ==
    /\ Read
    /\ Loads
    /\ business = "open"
    /\ Continued(read) <= MaxRevision
    /\ stateFile' = [revision |-> Continued(read), design |-> read]
    /\ PublishHead(Continued(read), read)
    /\ TakeIn
    /\ pc' = "idle"
    /\ kept' = AsFound(IF coming # None /\ files = AsFound(coming) THEN coming ELSE kept)
    /\ coming' = None
    /\ UNCHANGED <<files, journal, business, lookVars, goal, left>>

-----------------------------------------------------------------------------
(* The look for outside changes, before a commit or a call (adopt_disk_change) *)

AfterLook == IF business = "commit" THEN "gate" ELSE "idle"

\* Mutant: the files are taken to be as they were left.
TakenAsLeft == TRUE

Unmoved == ~touched

\* disk_change: the metadata say nothing was written.
LookSeesNothing(purpose) ==
    /\ pc = "idle"
    /\ Unmoved
    /\ business' = purpose
    /\ pc' = IF purpose = "commit" THEN "gate" ELSE "idle"
    /\ UNCHANGED <<diskVars, head, disk, touched, lookVars, goal, left, historyVars>>

LookReads(purpose) ==
    /\ pc = "idle"
    /\ ~Unmoved
    /\ business' = purpose
    /\ StartLoad
    /\ UNCHANGED <<diskVars, head, disk, touched, goal, left, historyVars>>

\* Reformatted at most: the hash is brought up to date.
LookReadsTheHead ==
    /\ Read
    /\ Loads
    /\ business # "open"
    /\ read = disk
    /\ TakeIn
    /\ kept' = AsFound(kept)
    /\ pc' = AfterLook
    /\ UNCHANGED <<diskVars, business, head, lookVars, goal, left, coming, published>>

\* record_disk_change
RecordChange ==
    /\ Read
    /\ Loads
    /\ business # "open"
    /\ read # disk
    /\ head.revision < MaxRevision
    /\ stateFile' = [revision |-> head.revision + 1, design |-> read]
    /\ TakeIn
    /\ kept' = AsFound(kept)
    /\ pc' = "adopt"
    /\ UNCHANGED <<files, journal, business, head, lookVars, goal, left, coming, published>>

RecordFails ==
    /\ Read
    /\ Loads
    /\ business # "open"
    /\ read # disk
    /\ pc' = "idle"
    /\ UNCHANGED <<diskVars, business, head, disk, touched, lookVars, goal, left, historyVars>>

Adopt ==
    /\ pc = "adopt"
    /\ PublishHead(head.revision + 1, disk)
    /\ pc' = AfterLook
    /\ UNCHANGED <<diskVars, business, disk, touched, lookVars, goal, left, kept, coming, unread,
                   late>>

-----------------------------------------------------------------------------
(* ProjectStore::persist_commit *)

\* The gate accepts a patch of the head, to be rendered as goal.
Accept(patch) ==
    /\ pc = "gate"
    /\ head.revision < MaxRevision
    /\ goal' = Overlay(patch, head.design)
    /\ coming' = Overlay([p \in Changes(goal') |-> goal'[p]], kept)
    /\ pc' = IF Changes(goal') = {} THEN "state" ELSE "journal"
    /\ UNCHANGED <<diskVars, business, head, disk, touched, lookVars, left, kept, unread,
                   late, published>>

\* The commit is answered with an error, by the gate or by the store.
Refused ==
    /\ pc' = "idle"
    /\ coming' = None
    /\ UNCHANGED <<business, head, lookVars, goal, left, kept, unread, late, published>>

Reject ==
    /\ pc = "gate"
    /\ Refused
    /\ UNCHANGED <<diskVars, disk, touched>>

WriteJournal ==
    /\ pc = "journal"
    /\ journal' = [revision |-> head.revision + 1, design |-> goal, changes |-> Changes(goal)]
    /\ left' = Changes(goal)
    /\ pc' = "apply"
    /\ UNCHANGED <<files, stateFile, business, head, disk, touched, lookVars, goal, historyVars>>

JournalFails ==
    /\ pc = "journal"
    /\ Refused
    /\ UNCHANGED <<diskVars, disk, touched>>

\* Each file through a temporary sibling and a rename.
ApplyFile(p) ==
    /\ pc = "apply"
    /\ InTurn(p, goal)
    /\ files' = [files EXCEPT ![p] = goal[p]]
    /\ touched' = TRUE
    /\ left' = left \ {p}
    /\ unread' = unread \ {p}
    /\ UNCHANGED <<journal, stateFile, pc, business, head, disk, lookVars, goal, kept, coming,
                   late, published>>

Applied ==
    /\ pc = "apply"
    /\ left = {}
    /\ pc' = "state"
    /\ UNCHANGED <<diskVars, business, head, disk, touched, lookVars, goal, left, historyVars>>

\* Mutant: a commit that changes no file is not recorded.
RecordIfChanged ==
    stateFile' = IF Changes(goal) = {} THEN stateFile
                 ELSE [revision |-> head.revision + 1, design |-> goal]

RecordHead == stateFile' = [revision |-> head.revision + 1, design |-> goal]

WriteState ==
    /\ pc = "state"
    /\ RecordHead
    /\ pc' = IF Changes(goal) = {} THEN "rescan" ELSE "clear"
    /\ UNCHANGED <<files, journal, business, head, disk, touched, lookVars, goal, left,
                   historyVars>>

StateFails ==
    /\ pc = "state"
    /\ Refused
    /\ UNCHANGED <<diskVars, disk, touched>>

ClearJournal ==
    /\ pc = "clear"
    /\ journal' = None
    /\ pc' = "rescan"
    /\ UNCHANGED <<files, stateFile, business, head, disk, touched, lookVars, goal, left,
                   historyVars>>

ClearFails ==
    /\ pc = "clear"
    /\ Refused
    /\ UNCHANGED <<diskVars, disk, touched>>

\* The hash is taken of whatever the files are by now.
Rescan ==
    /\ pc = "rescan"
    /\ disk' = goal
    /\ touched' = FALSE
    /\ pc' = "publish"
    /\ UNCHANGED <<diskVars, business, head, lookVars, goal, left, historyVars>>

RescanFails ==
    /\ pc = "rescan"
    /\ disk' = goal
    /\ Refused
    /\ UNCHANGED <<diskVars, touched>>

\* The engine publishes what was persisted, and answers.
Publish ==
    /\ pc = "publish"
    /\ PublishHead(head.revision + 1, goal)
    /\ kept' = coming
    /\ coming' = None
    /\ pc' = "idle"
    /\ UNCHANGED <<diskVars, business, disk, touched, lookVars, goal, left, unread, late>>

-----------------------------------------------------------------------------
(* roll_back, after a file could not be written *)

ApplyFails ==
    /\ pc = "apply"
    /\ left # {}
    /\ left' = Changes(goal)
    /\ pc' = "restore"
    /\ UNCHANGED <<diskVars, business, head, disk, touched, lookVars, goal, historyVars>>

\* Mutant: what the commit created is left in place.
RestorableOnly == {p \in left : disk[p] # Missing}

ToRestore == left

RestoreFile(p) ==
    /\ pc = "restore"
    /\ p \in ToRestore
    /\ InTurn(p, disk)
    /\ files' = [files EXCEPT ![p] = disk[p]]
    /\ touched' = TRUE
    /\ left' = left \ {p}
    /\ unread' = unread \ {p}
    /\ UNCHANGED <<journal, stateFile, pc, business, head, disk, lookVars, goal, kept, coming,
                   late, published>>

Restored ==
    /\ pc = "restore"
    /\ ToRestore = {}
    /\ journal' = None
    /\ Refused
    /\ UNCHANGED <<files, stateFile, disk, touched>>

\* The journal stays, "and the next open completes the commit instead".
RestoreFails ==
    /\ pc = "restore"
    /\ ToRestore # {}
    /\ Refused
    /\ UNCHANGED <<diskVars, disk, touched>>

-----------------------------------------------------------------------------
(* The engine stops, at any step; what is on disk stays *)

Stop ==
    /\ pc # "closed"
    /\ pc' = "closed"
    /\ disk' = Nothing
    /\ goal' = Nothing
    /\ read' = Nothing
    /\ left' = {}
    /\ toRead' = {}
    /\ touched' = FALSE
    /\ moved' = FALSE
    /\ UNCHANGED <<diskVars, business, head, historyVars>>

-----------------------------------------------------------------------------
(* The specification: a project found closed, on a machine that last left it *)
(* so, or that never opened it                                               *)

Init ==
    /\ files = Initial
    /\ journal = None
    /\ stateFile \in {None, [revision |-> 0, design |-> Initial]}
    /\ pc = "closed"
    /\ business = "open"
    /\ head = [revision |-> 0, design |-> Initial]
    /\ disk = Nothing
    /\ touched = FALSE
    /\ moved = FALSE
    /\ read = Nothing
    /\ toRead = {}
    /\ goal = Nothing
    /\ left = {}
    /\ kept = Initial
    /\ coming = None
    /\ unread = {}
    /\ late = {}
    /\ published = {}

Opening == Open \/ RecoverState \/ RecoverClear \/ Opened

Looking ==
    \/ \E purpose \in {"commit", "sync"} : LookSeesNothing(purpose) \/ LookReads(purpose)
    \/ LoadFails \/ LookReadsTheHead \/ RecordChange \/ RecordFails \/ Adopt

Persisting ==
    \/ \E patch \in Patches : Accept(patch)
    \/ Reject
    \/ WriteJournal \/ Applied \/ WriteState \/ ClearJournal \/ Rescan \/ Publish
    \/ JournalFails \/ ApplyFails \/ Restored

OneFile ==
    \E p \in Paths : RecoverFile(p) \/ ReadFile(p) \/ ApplyFile(p) \/ RestoreFile(p)

Next ==
    \/ Opening \/ Looking \/ Persisting \/ OneFile
    \/ \E e \in Edits : Edit(e[1], e[2])
    \/ Stop

Spec == Init /\ [][Next]_vars

\* What a commit does not survive: see the README for each.
Harm == StateFails \/ ClearFails \/ RescanFails \/ RestoreFails \/ WipeLocal

HarmedSpec == Init /\ [][Next \/ Harm]_vars

-----------------------------------------------------------------------------
(* Properties *)

Steps == {"closed", "recover", "recovered", "load", "idle", "adopt", "gate", "journal",
          "apply", "state", "clear", "rescan", "publish", "restore"}

Named == [revision : Nat, design : Designs]

\* The type invariant.
TypeOK ==
    /\ files \in [Paths -> Contents]
    /\ journal \in {None} \cup [revision : Nat, design : Designs, changes : SUBSET Paths]
    /\ stateFile \in {None} \cup Named
    /\ pc \in Steps
    /\ business \in {"open", "commit", "sync"}
    /\ head \in Named
    /\ disk \in Designs
    /\ touched \in BOOLEAN
    /\ moved \in BOOLEAN
    /\ read \in [Paths -> Contents]
    /\ toRead \in SUBSET Paths
    /\ goal \in Designs
    /\ left \in SUBSET Paths
    /\ kept \in [Paths -> Contents]
    /\ coming \in {None} \cup [Paths -> Contents]
    /\ unread \in SUBSET Paths
    /\ late \in SUBSET Paths
    /\ published \in SUBSET Named
    /\ pc \in {"recover", "recovered"} => journal # None

\* An engine between calls finds in the files every edit where it was put, and
\* of every commit all or nothing: all if it was answered with a receipt,
\* nothing if with an error, either if the engine stopped before it answered.
\* Only of a file edited while the commit was under way is nothing said.
AllOrNothing == pc = "idle" => \A p \in Paths \ late : files[p] = kept[p]

\* "adopted as a revision of their own: before every commit, and before every MCP
\* tool call" (PROJECT_STATE.md): while the hash the engine holds still matches,
\* the head is what the files hold.
EveryEditIsFound == pc = "idle" /\ ~touched => files = head.design

\* So it is but for what was edited after the look a commit relied on: an edit
\* landing in the middle of a look, or before it, is seen at the next one.
NothingMissed == pc = "idle" /\ ~touched => \A p \in Paths \ late : files[p] = head.design[p]

\* However often the engine is stopped, and the files edited meanwhile, no two
\* designs are published under one revision (continued_revision, record_disk_change).
RevisionNamesOneDesign ==
    \A x, y \in published : x.revision = y.revision => x.design = y.design

\* A head is published, to agents and in receipts, only once the local state
\* names it, so no stop can take a published number back: whatever fails.
PublishedIsRecorded == [][head' # head => stateFile' = head']_vars

\* A project opened again never counts on from before a head it has published.
HeadNeverGoesBack == [][head'.revision >= head.revision]_vars

\* "The engine never writes over an edit in progress" (PROJECT_STATE.md, "How the
\* engine uses the files"): what it writes over, it has taken in before.
NeverWritesOverAnEdit ==
    [][\A p \in unread : files'[p] # files[p] => p \in unread']_vars

\* So it is of every edit made before the look a commit relies on, however the
\* commit goes, is taken back, or is completed by a later engine.
EarlierEditsAreKept ==
    [][\A p \in unread \ late : files'[p] # files[p] => p \in unread']_vars

=============================================================================
