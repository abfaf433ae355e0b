------------------------ MODULE ProjectStore_proofs ------------------------
(***************************************************************************)
(* What holds of ProjectStore for any files, texts, patches and edits.     *)
(* The first part holds whatever goes wrong (HarmedSpec): Recorded says    *)
(* that the local state names the next head before it is published. The    *)
(* second part, Counted, needs local/ to be left alone: across stops the   *)
(* local state stays at or beyond the head, and the journal beyond it.     *)
(***************************************************************************)
EXTENDS ProjectStore, TLAPS

NextHead(design) == [revision |-> head.revision + 1, design |-> design]

\* The head about to be published is in the local state already.
Recorded ==
    /\ pc = "adopt" => stateFile = NextHead(disk)
    /\ pc \in {"clear", "rescan", "publish"} => stateFile = NextHead(goal)

\* A commit under way knows what the files should hold with it.
Underway ==
    pc \in {"journal", "apply", "state", "clear", "rescan", "publish", "restore"} =>
       coming \in [Paths -> Contents]

RInv == TypeOK /\ Recorded /\ Underway

LEMMA OverlayType ==
    ASSUME NEW patch \in Patches, NEW design \in Designs
    PROVE  Overlay(patch, design) \in Designs
<1>1. PICK S \in SUBSET Paths : patch \in [S -> Texts \cup {Missing}]
  BY StoreConstants
<1> QED
  BY <1>1 DEF Overlay, Designs

LEMMA NothingType == Nothing \in Designs /\ Nothing \in [Paths -> Contents]
BY DEF Nothing, Designs, Contents

LEMMA DesignsLoad == Designs \subseteq [Paths -> Contents]
BY DEF Designs, Contents

LEMMA LoadsType ==
    ASSUME read \in [Paths -> Contents], Loads
    PROVE  read \in Designs
BY DEF Loads, Designs, Contents

LEMMA ContinuedType ==
    ASSUME TypeOK, NEW design \in Designs
    PROVE  Continued(design) \in Nat
BY DEF TypeOK, Continued, Named

\* What is taken as it is found is a state of the files.
LEMMA AsFoundType ==
    ASSUME TypeOK, NEW design \in [Paths -> Contents]
    PROVE  AsFound(design) \in [Paths -> Contents]
BY DEF AsFound, TypeOK

LEMMA InitRInv == Init => RInv
<1> SUFFICES ASSUME Init PROVE RInv
  OBVIOUS
<1>1. TypeOK
  <2>1. Initial \in Designs /\ Initial \in [Paths -> Contents]
    BY StoreConstants, DesignsLoad
  <2>2. stateFile \in {None} \cup Named /\ head \in Named
    BY <2>1 DEF Init, Named
  <2> QED
    BY <2>1, <2>2, NothingType DEF Init, TypeOK, Steps
<1>2. Recorded /\ Underway
  BY DEF Init, Recorded, Underway
<1> QED
  BY <1>1, <1>2 DEF RInv

\* One turn of a step that writes a file, or takes one in.
LEMMA Rewritten ==
    ASSUME NEW S, NEW f \in [Paths -> S], NEW p, NEW x \in S
    PROVE  [f EXCEPT ![p] = x] \in [Paths -> S]
OBVIOUS

LEMMA OpeningRInv == RInv /\ Opening => RInv'
<1> SUFFICES ASSUME RInv, Opening PROVE RInv'
  OBVIOUS
<1> USE DEF RInv, Steps
<1>1. CASE Open
  BY <1>1, NothingType
     DEF Open, StartLoad, TypeOK, Recorded, Underway, Named, diskVars, lookVars, historyVars
<1>2. CASE RecoverState
  BY <1>2 DEF RecoverState, TypeOK, Recorded, Underway, Named, lookVars, historyVars
<1>3. CASE RecoverClear
  BY <1>3, NothingType DEF RecoverClear, StartLoad, TypeOK, Recorded, Underway, Named, historyVars
<1>4. CASE Opened
  <2>1. read \in Designs
    BY <1>4, LoadsType DEF Opened, TypeOK
  <2>2. Continued(read) \in Nat
    BY <2>1, ContinuedType
  <2>3. head' \in Named /\ stateFile' \in Named /\ published' \in SUBSET Named
    BY <1>4, <2>1, <2>2 DEF Opened, PublishHead, TypeOK, Named
  <2>4. disk' \in Designs /\ touched' \in BOOLEAN /\ unread' \in SUBSET Paths
        /\ late' \in SUBSET Paths
    BY <1>4, <2>1 DEF Opened, TakeIn, HashBefore, TypeOK
  <2>5. kept' \in [Paths -> Contents] /\ coming' = None /\ pc' = "idle"
    <3>1. (IF coming # None /\ files = AsFound(coming) THEN coming ELSE kept) \in [Paths -> Contents]
      BY DEF TypeOK
    <3> QED
      BY <1>4, <3>1, AsFoundType DEF Opened
  <2>6. UNCHANGED <<files, journal, business, lookVars, goal, left>>
    BY <1>4 DEF Opened
  <2> QED
    BY <2>3, <2>4, <2>5, <2>6 DEF TypeOK, Recorded, Underway, lookVars
<1> QED
  BY <1>1, <1>2, <1>3, <1>4 DEF Opening

LEMMA LookingRInv == RInv /\ Looking => RInv'
<1> SUFFICES ASSUME RInv, Looking PROVE RInv'
  OBVIOUS
<1> USE DEF RInv, Steps
<1>1. ASSUME NEW purpose \in {"commit", "sync"},
             LookSeesNothing(purpose) \/ LookReads(purpose)
      PROVE  RInv'
  BY <1>1, NothingType
     DEF LookSeesNothing, LookReads, StartLoad, TypeOK, Recorded, Underway, Named, diskVars, lookVars,
         historyVars
<1>2. CASE LoadFails \/ RecordFails
  BY <1>2 DEF LoadFails, RecordFails, TypeOK, Recorded, Underway, Named, diskVars, lookVars, historyVars
<1>3. CASE LookReadsTheHead
  <2>1. read \in Designs
    BY <1>3, LoadsType DEF LookReadsTheHead, TypeOK
  <2>2. AsFound(kept) \in [Paths -> Contents]
    BY AsFoundType DEF TypeOK
  <2> QED
    BY <1>3, <2>1, <2>2
       DEF LookReadsTheHead, AfterLook, TakeIn, HashBefore, TypeOK, Recorded, Underway, Named, diskVars,
           lookVars
<1>4. CASE RecordChange
  <2>1. read \in Designs
    BY <1>4, LoadsType DEF RecordChange, TypeOK
  <2>2. AsFound(kept) \in [Paths -> Contents]
    BY AsFoundType DEF TypeOK
  <2> QED
    BY <1>4, <2>1, <2>2
       DEF RecordChange, TakeIn, HashBefore, TypeOK, Recorded, Underway, NextHead, Named, lookVars
<1>5. CASE Adopt
  BY <1>5 DEF Adopt, AfterLook, PublishHead, TypeOK, Recorded, Underway, Named, diskVars, lookVars
<1> QED
  BY <1>1, <1>2, <1>3, <1>4, <1>5 DEF Looking

LEMMA PersistingRInv == RInv /\ Persisting => RInv'
<1> SUFFICES ASSUME RInv, Persisting PROVE RInv'
  OBVIOUS
<1> USE DEF RInv, Steps
<1>1. ASSUME NEW patch \in Patches, Accept(patch) PROVE RInv'
  <2>1. goal' \in Designs
    BY <1>1, OverlayType DEF Accept, TypeOK, Named
  <2>2. coming' \in [Paths -> Contents]
    BY <1>1, <2>1, DesignsLoad DEF Accept, Overlay, Changes, TypeOK
  <2> QED
    BY <1>1, <2>1, <2>2 DEF Accept, TypeOK, Recorded, Underway, Named, diskVars, lookVars
<1>2. CASE Reject \/ JournalFails
  BY <1>2 DEF Reject, JournalFails, Refused, TypeOK, Recorded, Underway, Named, diskVars, lookVars
<1>3. CASE WriteJournal
  <2>1. journal' \in [revision : Nat, design : Designs, changes : SUBSET Paths]
    BY <1>3 DEF WriteJournal, Changes, TypeOK, Named
  <2> QED
    BY <1>3, <2>1 DEF WriteJournal, Changes, TypeOK, Recorded, Underway, lookVars, historyVars
<1>4. CASE Applied \/ ClearJournal
  BY <1>4
     DEF Applied, ClearJournal, TypeOK, Recorded, Underway, NextHead, Named, diskVars, lookVars, historyVars
<1>5. CASE WriteState
  BY <1>5
     DEF WriteState, RecordHead, TypeOK, Recorded, Underway, NextHead, Named, lookVars, historyVars
<1>6. CASE Rescan
  BY <1>6 DEF Rescan, TypeOK, Recorded, Underway, NextHead, Named, diskVars, lookVars, historyVars
<1>7. CASE Publish
  BY <1>7 DEF Publish, PublishHead, TypeOK, Recorded, Underway, Named, diskVars, lookVars
<1>8. CASE ApplyFails
  BY <1>8 DEF ApplyFails, Changes, TypeOK, Recorded, Underway, Named, diskVars, lookVars, historyVars
<1>9. CASE Restored
  BY <1>9 DEF Restored, Refused, TypeOK, Recorded, Underway, Named, lookVars
<1> QED
  BY <1>1, <1>2, <1>3, <1>4, <1>5, <1>6, <1>7, <1>8, <1>9 DEF Persisting

LEMMA OneFileRInv == RInv /\ OneFile => RInv'
<1> SUFFICES ASSUME RInv, NEW p \in Paths,
                    RecoverFile(p) \/ ReadFile(p) \/ ApplyFile(p) \/ RestoreFile(p)
             PROVE  RInv'
  BY DEF OneFile
<1> USE DEF RInv, Steps
<1>1. CASE RecoverFile(p)
  <2>1. journal.design[p] \in Contents
    BY <1>1 DEF RecoverFile, TypeOK, Designs, Contents
  <2> QED
    BY <1>1, <2>1 DEF RecoverFile, TypeOK, Recorded, Underway, lookVars
<1>2. CASE ReadFile(p)
  BY <1>2 DEF ReadFile, TypeOK, Recorded, Underway, diskVars, historyVars
<1>3. CASE ApplyFile(p)
  <2>1. goal[p] \in Contents
    BY DEF TypeOK, Designs, Contents
  <2> QED
    BY <1>3, <2>1 DEF ApplyFile, TypeOK, Recorded, Underway, lookVars
<1>4. CASE RestoreFile(p)
  <2>1. disk[p] \in Contents
    BY DEF TypeOK, Designs, Contents
  <2> QED
    BY <1>4, <2>1 DEF RestoreFile, TypeOK, Recorded, Underway, lookVars
<1> QED
  BY <1>1, <1>2, <1>3, <1>4

\* An editor's turn.
AnyEdit == \E e \in Edits : Edit(e[1], e[2])

LEMMA HarmRInv == RInv /\ (Harm \/ AnyEdit \/ Stop \/ UNCHANGED vars) => RInv'
<1> SUFFICES ASSUME RInv, Harm \/ AnyEdit \/ Stop \/ UNCHANGED vars PROVE RInv'
  OBVIOUS
<1> USE DEF RInv, Steps
<1>1. ASSUME NEW e \in Edits, Edit(e[1], e[2]) PROVE RInv'
  <2>1. e[1] \in Paths /\ e[2] \in Contents
    BY StoreConstants
  <2>2. coming' \in {None} \cup [Paths -> Contents]
    BY <1>1, <2>1 DEF Edit, TypeOK
  <2> QED
    BY <1>1, <2>1, <2>2 DEF Edit, TypeOK, Recorded, Underway, NextHead, Named
<1>2. CASE StateFails \/ ClearFails \/ RestoreFails
  BY <1>2
     DEF StateFails, ClearFails, RestoreFails, Refused, TypeOK, Recorded, Underway, Named, diskVars,
         lookVars
<1>3. CASE RescanFails
  BY <1>3 DEF RescanFails, Refused, TypeOK, Recorded, Underway, Named, diskVars, lookVars
<1>4. CASE WipeLocal
  BY <1>4 DEF WipeLocal, TypeOK, Recorded, Underway, Named, lookVars, historyVars
<1>5. CASE Stop
  BY <1>5, NothingType DEF Stop, TypeOK, Recorded, Underway, Named, diskVars, historyVars
<1>6. CASE UNCHANGED vars
  BY <1>6 DEF vars, TypeOK, Recorded, Underway, NextHead, Named, diskVars, lookVars, historyVars
<1> QED
  BY <1>1, <1>2, <1>3, <1>4, <1>5, <1>6 DEF Harm, AnyEdit

LEMMA StepRInv == RInv /\ [Next \/ Harm]_vars => RInv'
BY OpeningRInv, LookingRInv, PersistingRInv, OneFileRInv, HarmRInv
   DEF Next, AnyEdit

\* The store's state is of its type, and a journal is there while it is recovered,
\* whatever is edited, fails, or is deleted (open, persist_commit, roll_back).
THEOREM StoreTypeCorrect == HarmedSpec => []TypeOK
<1>1. RInv => TypeOK
  BY DEF RInv
<1> QED
  BY <1>1, InitRInv, StepRInv, PTL DEF HarmedSpec

\* Whatever is edited, fails, or is deleted, the local state names a head before
\* it is published (open, record_disk_change, DirectoryStore::write).
THEOREM HeadsAreRecorded == HarmedSpec => PublishedIsRecorded
<1>1. RInv /\ [Next \/ Harm]_vars => [head' # head => stateFile' = head']_vars
  <2> SUFFICES ASSUME RInv, Next \/ Harm, head' # head PROVE stateFile' = head'
    OBVIOUS
  <2>1. Opened \/ Adopt \/ Publish
    BY DEF Next, Harm, Opening, Looking, Persisting, OneFile, Open, RecoverState,
           RecoverClear, LookSeesNothing, LookReads, LoadFails, LookReadsTheHead,
           RecordChange, RecordFails, Accept, Reject, Refused, WriteJournal, JournalFails,
           Applied, WriteState, ClearJournal, Rescan, ApplyFails, Restored, RecoverFile,
           ReadFile, ApplyFile, RestoreFile, Edit, StateFails, ClearFails, RescanFails,
           RestoreFails, WipeLocal, Stop
  <2>2. CASE Opened
    BY <2>2 DEF Opened, PublishHead
  <2>3. CASE Adopt
    BY <2>3 DEF Adopt, PublishHead, RInv, Recorded, NextHead, diskVars
  <2>4. CASE Publish
    BY <2>4 DEF Publish, PublishHead, RInv, Recorded, NextHead, diskVars
  <2> QED
    BY <2>1, <2>2, <2>3, <2>4
<1> QED
  BY <1>1, InitRInv, StepRInv, PTL DEF HarmedSpec, PublishedIsRecorded

-----------------------------------------------------------------------------
(* Counting revisions *)

\* An engine has the project open, whatever it is at.
Running == pc = "idle" \/ (pc # "closed" /\ business # "open")

\* What the steps of opening and of committing are about.
Placed ==
    /\ pc \in {"recover", "recovered"} => business = "open"
    /\ pc \in Steps \ {"closed", "recover", "recovered", "load", "idle"} => business # "open"

\* The head is the last of what was published.
Latest ==
    /\ \A x \in published :
          x.revision <= head.revision /\ (x.revision = head.revision => x = head)
    /\ \A x, y \in published : x.revision = y.revision => x = y
    /\ head \in published \/ (published = {} /\ head.revision = 0)

\* A journal is beyond the head, and none is left when a head is published.
Ahead ==
    /\ journal # None =>
          /\ journal.revision > head.revision
          /\ pc \in {"closed", "recover", "recovered", "apply", "state", "clear", "restore"}
    /\ pc \in {"journal", "apply"} => Changes(goal) # {}
    /\ pc = "state" /\ journal # None => Changes(goal) # {}

\* The local state is the head's, or beyond it.
Kept ==
    /\ Running =>
          /\ head \in published
          /\ pc \notin {"adopt", "clear", "rescan", "publish"} => stateFile = head
    /\ ~Running /\ head \in published =>
          /\ stateFile \in Named
          /\ stateFile = head \/ stateFile.revision > head.revision

CInv == RInv /\ Placed /\ Latest /\ Ahead /\ Kept

LEMMA InitCInv == Init => CInv
<1> SUFFICES ASSUME Init PROVE CInv
  OBVIOUS
<1> QED
  BY InitRInv DEF Init, CInv, Placed, Latest, Ahead, Kept, Running, Steps

\* A step that publishes nothing leaves the head the latest.
LEMMA SameLatest ==
    ASSUME Latest, UNCHANGED <<head, published>>
    PROVE  Latest'
BY DEF Latest

\* A head beyond the last is the latest.
LEMMA NewLatest ==
    ASSUME TypeOK, Latest, NEW design \in Designs,
           PublishHead(head.revision + 1, design)
    PROVE  Latest' /\ head' \in published' /\ head'.revision > head.revision
BY DEF TypeOK, Latest, PublishHead, Named

\* A project opened again counts on from its local state.
LEMMA OpenedLatest ==
    ASSUME CInv, Opened
    PROVE  Latest' /\ head' \in published' /\ head'.revision >= head.revision
<1> USE DEF CInv, RInv
<1>1. read \in Designs
  BY LoadsType DEF Opened, TypeOK
<1>2. ~Running
  BY DEF Opened, Read, Running
<1>3. Continued(read) \in Nat
  BY <1>1, ContinuedType
<1>4. head' = [revision |-> Continued(read), design |-> read] /\ published' = published \cup {head'}
  BY DEF Opened, PublishHead
<1>5. CASE head \in published
  <2>1. stateFile \in Named /\ stateFile # None
    BY <1>2, <1>5, StoreConstants DEF Kept, Named
  <2>2. CASE stateFile.design = read
    <3>1. Continued(read) = stateFile.revision
      BY <2>1, <2>2 DEF Continued
    <3>2. head' = stateFile
      BY <1>4, <2>1, <2>2, <3>1 DEF Named
    <3> QED
      BY <1>2, <1>4, <1>5, <2>1, <3>2 DEF Kept, Latest, TypeOK, Named
  <2>3. CASE stateFile.design # read
    <3>1. Continued(read) = stateFile.revision + 1
      BY <2>1, <2>3 DEF Continued
    <3> QED
      BY <1>2, <1>4, <1>5, <2>1, <3>1 DEF Kept, Latest, TypeOK, Named
  <2> QED
    BY <2>2, <2>3
<1>6. CASE published = {} /\ head.revision = 0
  BY <1>3, <1>4, <1>6 DEF Latest
<1> QED
  BY <1>5, <1>6 DEF Latest

LEMMA OpeningCInv == CInv /\ Opening => CInv'
<1> SUFFICES ASSUME CInv, Opening PROVE CInv'
  OBVIOUS
<1>1. RInv'
  BY OpeningRInv DEF CInv
<1> USE DEF CInv, RInv, Steps
<1>2. CASE Open
  BY <1>1, <1>2, SameLatest
     DEF Open, StartLoad, Placed, Ahead, Kept, Running, diskVars, historyVars
<1>3. CASE RecoverState
  <2>1. ~Running /\ ~Running'
    BY <1>3 DEF RecoverState, Placed, Running
  <2>2. stateFile' \in Named /\ stateFile'.revision > head.revision
    BY <1>3 DEF RecoverState, Ahead, TypeOK, Named
  <2> QED
    BY <1>1, <1>3, <2>1, <2>2, SameLatest DEF RecoverState, Placed, Ahead, Kept, historyVars
<1>4. CASE RecoverClear
  BY <1>1, <1>4, SameLatest
     DEF RecoverClear, StartLoad, Placed, Ahead, Kept, Running, historyVars
<1>5. CASE Opened
  <2>1. journal = None
    BY <1>5 DEF Opened, Read, Ahead
  <2>2. stateFile' = head'
    BY <1>5 DEF Opened, PublishHead
  <2> QED
    BY <1>1, <1>5, <2>1, <2>2, OpenedLatest DEF Opened, Placed, Ahead, Kept, Running
<1> QED
  BY <1>2, <1>3, <1>4, <1>5 DEF Opening

LEMMA LookingCInv == CInv /\ Looking => CInv'
<1> SUFFICES ASSUME CInv, Looking PROVE CInv'
  OBVIOUS
<1>1. RInv'
  BY LookingRInv DEF CInv
<1> USE DEF CInv, RInv, Steps
<1>2. ASSUME NEW purpose \in {"commit", "sync"},
             LookSeesNothing(purpose) \/ LookReads(purpose)
      PROVE  CInv'
  BY <1>1, <1>2, SameLatest
     DEF LookSeesNothing, LookReads, StartLoad, Placed, Ahead, Kept, Running, diskVars,
         historyVars
<1>3. CASE LoadFails \/ RecordFails
  BY <1>1, <1>3, SameLatest
     DEF LoadFails, RecordFails, Read, Placed, Ahead, Kept, Running, diskVars, historyVars
<1>4. CASE LookReadsTheHead
  BY <1>1, <1>4, SameLatest
     DEF LookReadsTheHead, AfterLook, Read, Placed, Ahead, Kept, Running, diskVars
<1>5. CASE RecordChange
  BY <1>1, <1>5, SameLatest DEF RecordChange, Read, Placed, Ahead, Kept, Running
<1>6. CASE Adopt
  <2>1. Latest' /\ head' \in published'
    BY <1>6, NewLatest DEF Adopt, TypeOK
  <2>2. stateFile' = head' /\ journal' = None
    BY <1>6 DEF Adopt, PublishHead, Recorded, NextHead, Ahead, diskVars
  <2> QED
    BY <1>1, <1>6, <2>1, <2>2 DEF Adopt, AfterLook, Placed, Ahead, Kept, Running
<1> QED
  BY <1>2, <1>3, <1>4, <1>5, <1>6 DEF Looking

LEMMA PersistingCInv == CInv /\ Persisting => CInv'
<1> SUFFICES ASSUME CInv, Persisting PROVE CInv'
  OBVIOUS
<1>1. RInv'
  BY PersistingRInv DEF CInv
<1> USE DEF CInv, RInv, Steps
<1>2. ASSUME NEW patch \in Patches, Accept(patch) PROVE CInv'
  BY <1>1, <1>2, SameLatest DEF Accept, Placed, Ahead, Kept, Running, Changes, diskVars
<1>3. CASE Reject \/ JournalFails
  BY <1>1, <1>3, SameLatest
     DEF Reject, JournalFails, Refused, Placed, Ahead, Kept, Running, diskVars
<1>4. CASE WriteJournal
  BY <1>1, <1>4, SameLatest
     DEF WriteJournal, Placed, Ahead, Kept, Running, Changes, TypeOK, Named, historyVars
<1>5. CASE Applied \/ ClearJournal
  BY <1>1, <1>5, SameLatest
     DEF Applied, ClearJournal, Placed, Ahead, Kept, Running, Changes, diskVars, historyVars
<1>6. CASE WriteState
  BY <1>1, <1>6, SameLatest
     DEF WriteState, Placed, Ahead, Kept, Running, Changes, historyVars
<1>7. CASE Rescan
  BY <1>1, <1>7, SameLatest DEF Rescan, Placed, Ahead, Kept, Running, diskVars, historyVars
<1>8. CASE Publish
  <2>1. Latest' /\ head' \in published'
    BY <1>8, NewLatest DEF Publish, TypeOK
  <2>2. stateFile' = head' /\ journal' = None
    BY <1>8 DEF Publish, PublishHead, Recorded, NextHead, Ahead, diskVars
  <2> QED
    BY <1>1, <1>8, <2>1, <2>2 DEF Publish, Placed, Ahead, Kept, Running
<1>9. CASE ApplyFails
  BY <1>1, <1>9, SameLatest
     DEF ApplyFails, Placed, Ahead, Kept, Running, diskVars, historyVars
<1>10. CASE Restored
  BY <1>1, <1>10, SameLatest DEF Restored, Refused, Placed, Ahead, Kept, Running
<1> QED
  BY <1>2, <1>3, <1>4, <1>5, <1>6, <1>7, <1>8, <1>9, <1>10 DEF Persisting

LEMMA OneFileCInv == CInv /\ OneFile => CInv'
<1> SUFFICES ASSUME CInv, OneFile PROVE CInv'
  OBVIOUS
<1>1. RInv'
  BY OneFileRInv DEF CInv
<1>2. UNCHANGED <<journal, stateFile, pc, business, head, disk, goal, published>>
  BY DEF OneFile, RecoverFile, ReadFile, ApplyFile, RestoreFile, diskVars, historyVars
<1> QED
  BY <1>1, <1>2, SameLatest DEF CInv, Placed, Ahead, Kept, Running, Changes

\* Edits, stops, and steps that change nothing.
LEMMA OtherCInv ==
    ASSUME CInv, AnyEdit \/ Stop \/ UNCHANGED vars
    PROVE  CInv'
<1>1. RInv'
  BY HarmRInv DEF CInv
<1>2. CASE AnyEdit
  <2>1. UNCHANGED <<journal, stateFile, pc, business, head, disk, goal, published>>
    BY <1>2 DEF AnyEdit, Edit
  <2> QED
    BY <1>1, <2>1, SameLatest DEF CInv, Placed, Ahead, Kept, Running, Changes
<1>3. CASE Stop
  <2>1. head \in published => stateFile' \in Named
                             /\ (stateFile' = head \/ stateFile'.revision > head.revision)
    <3>1. CASE Running
      BY <1>3, <3>1
         DEF Stop, CInv, RInv, Recorded, NextHead, Kept, TypeOK, Named, diskVars
    <3>2. CASE ~Running
      BY <1>3, <3>2 DEF Stop, CInv, Kept, diskVars
    <3> QED
      BY <3>1, <3>2
  <2> QED
    BY <1>1, <1>3, <2>1, SameLatest
       DEF Stop, CInv, Placed, Ahead, Kept, Running, Steps, diskVars, historyVars
<1>4. CASE UNCHANGED vars
  BY <1>1, <1>4, SameLatest
     DEF vars, CInv, Placed, Ahead, Kept, Running, Changes, diskVars, lookVars, historyVars
<1> QED
  BY <1>2, <1>3, <1>4

LEMMA StepCInv == CInv /\ [Next]_vars => CInv'
BY OpeningCInv, LookingCInv, PersistingCInv, OneFileCInv, OtherCInv DEF Next, AnyEdit

\* However a project is stopped, edited and opened again, two designs are never
\* published under one revision (continued_revision, record_disk_change).
THEOREM RevisionsNameOneDesign == Spec => []RevisionNamesOneDesign
<1>1. CInv => RevisionNamesOneDesign
  <2> SUFFICES ASSUME CInv, NEW x \in published, NEW y \in published,
                      x.revision = y.revision
               PROVE  x.design = y.design
    BY DEF RevisionNamesOneDesign
  <2> QED
    BY DEF CInv, Latest
<1> QED
  BY <1>1, InitCInv, StepCInv, PTL DEF Spec

\* Nor does a head ever stand behind one published before it (open).
THEOREM HeadsNeverGoBack == Spec => HeadNeverGoesBack
<1>1. CInv /\ [Next]_vars => [head'.revision >= head.revision]_vars
  <2> SUFFICES ASSUME CInv, Next PROVE head'.revision >= head.revision
    BY DEF CInv, RInv, TypeOK, Named
  <2>1. CASE Opened
    BY <2>1, OpenedLatest
  <2>2. CASE Adopt \/ Publish
    <3>1. PICK design \in Designs : PublishHead(head.revision + 1, design)
      BY <2>2 DEF Adopt, Publish, CInv, RInv, TypeOK
    <3>2. head.revision \in Nat
      BY DEF CInv, RInv, TypeOK, Named
    <3> QED
      BY <3>1, <3>2 DEF PublishHead
  <2>3. CASE UNCHANGED head
    BY <2>3 DEF CInv, RInv, TypeOK, Named
  <2> QED
    BY <2>1, <2>2, <2>3
       DEF Next, Opening, Looking, Persisting, OneFile, Open, RecoverState, RecoverClear,
           LookSeesNothing, LookReads, LoadFails, LookReadsTheHead, RecordChange,
           RecordFails, Accept, Reject, Refused, WriteJournal, JournalFails, Applied,
           WriteState, ClearJournal, Rescan, ApplyFails, Restored, RecoverFile, ReadFile,
           ApplyFile, RestoreFile, Edit, Stop
<1> QED
  BY <1>1, InitCInv, StepCInv, PTL DEF Spec, HeadNeverGoesBack

-----------------------------------------------------------------------------
(* What the files hold *)

\* The engine is between calls, or looks at the files for one.
AtRest == pc \in {"idle", "adopt", "gate"} \/ (pc = "load" /\ business # "open")

CommitSteps == {"journal", "apply", "state", "clear", "rescan", "publish", "restore"}

\* Nothing is known of a file edited after the look a commit relies on.
Sure == Paths \ late

\* Edits are told from a load under way, or come too late for it.
Loaded ==
    pc = "load" =>
       \A p \in Paths \ toRead :
          read[p] = files[p] \/ (moved /\ (business = "commit" => p \in late))

\* What the engine believes the files hold, they hold.
Right == unread \subseteq late /\ \A p \in Sure : files[p] = disk[p]

\* The engine believes the head to be in the files, and knows when it need not be.
Believed ==
    /\ pc # "adopt" /\ (AtRest \/ pc \in CommitSteps \ {"publish"}) => disk = head.design
    /\ pc \in {"idle", "adopt", "gate"} /\ ~touched => Right
    /\ pc \in {"adopt", "gate"} /\ business = "commit" => Right
    /\ pc = "load" /\ business # "open" => touched
    /\ pc \in CommitSteps \cup {"gate"} => business = "commit"

\* An edit while a commit is under way or waits to be completed is a late one.
Undisturbed ==
    /\ pc \in CommitSteps \/ journal # None => unread \subseteq late
    /\ pc \in {"apply", "restore"} => journal # None
    /\ pc \in CommitSteps => \A p \in Sure : coming[p] = goal[p]
    /\ pc \in CommitSteps \ {"publish"} => \A p \in Sure : kept[p] = disk[p]

\* How far a commit, its roll-back or its recovery has come.
Written ==
    /\ AtRest => coming = None /\ \A p \in Sure : files[p] = kept[p]
    /\ pc = "journal" => \A p \in Sure : files[p] = disk[p]
    /\ pc = "apply" =>
          /\ left \subseteq Changes(goal)
          /\ \A p \in Sure :
                files[p] = IF p \in Changes(goal) \ left THEN goal[p] ELSE disk[p]
    /\ pc = "restore" => \A p \in Sure \ left : files[p] = disk[p]
    /\ pc \in {"state", "clear", "rescan", "publish"} => \A p \in Sure : files[p] = goal[p]
    /\ pc = "publish" => disk = goal
    /\ pc = "recover" => \A p \in Sure \ left : files[p] = journal.design[p]
    /\ pc = "recovered" => \A p \in Sure : files[p] = journal.design[p]

\* What a stop leaves behind.
Resumable ==
    /\ journal # None =>
          /\ coming # None
          /\ \A p \in Sure : coming[p] = journal.design[p]
          /\ \A p \in Sure \ journal.changes : files[p] = journal.design[p]
    /\ journal # None /\ pc \in {"apply", "state", "clear", "restore"} =>
          journal.changes = Changes(goal)
    /\ journal = None /\ (pc = "closed" \/ (pc = "load" /\ business = "open")) =>
          \/ \A p \in Sure : files[p] = kept[p]
          \/ coming # None /\ \A p \in Sure : files[p] = coming[p]

FInv == CInv /\ Loaded /\ Believed /\ Undisturbed /\ Written /\ Resumable

LEMMA InitFInv == Init => FInv
<1> SUFFICES ASSUME Init PROVE FInv
  OBVIOUS
<1> QED
  BY InitCInv
     DEF Init, FInv, Loaded, Believed, Undisturbed, Written, Resumable, AtRest, CommitSteps, Sure

\* What a look takes in is what the files hold, unless they were edited late.
LEMMA TakenIn ==
    ASSUME TypeOK, Loaded, Read, TakeIn, files' = files, ~moved \/ business = "commit"
    PROVE  Right'
<1>1. \A p \in Paths : read[p] = files[p] \/ p \in late
  BY DEF Read, Loaded
<1>2. disk' = read /\ unread' = {p \in unread : files[p] # read[p]}
      /\ late' = {p \in late : files[p] # read[p]}
  BY DEF TakeIn
<1> QED
  BY <1>1, <1>2 DEF Right, Sure, TypeOK

\* A file edited late is on the books as it was found.
LEMMA FoundOnTheBooks ==
    ASSUME NEW design, \A p \in Sure : files[p] = design[p], NEW p \in Paths
    PROVE  AsFound(design)[p] = files[p]
BY DEF AsFound, Sure

LEMMA OpeningFInv == FInv /\ Opening => FInv'
<1> SUFFICES ASSUME FInv, Opening PROVE FInv'
  OBVIOUS
<1>1. CInv'
  BY OpeningCInv DEF FInv
<1> USE DEF FInv, AtRest, CommitSteps, Sure
<1>2. CASE Open
  <2>1. Loaded' /\ Believed' /\ Undisturbed'
    BY <1>2
       DEF Open, StartLoad, Loaded, Believed, Right, Undisturbed, Changes, diskVars, historyVars
  <2>2. Written' /\ Resumable'
    BY <1>2
       DEF Open, StartLoad, Written, Resumable, Changes, diskVars, historyVars
  <2> QED
    BY <1>1, <2>1, <2>2
<1>3. CASE RecoverState
  <2>1. \A p \in Sure : files[p] = journal.design[p]
    BY <1>3 DEF RecoverState, Written
  <2> QED
    BY <1>1, <1>3, <2>1
       DEF RecoverState, Loaded, Believed, Undisturbed, Written, Resumable, lookVars, historyVars
<1>4. CASE RecoverClear
  <2>1. coming # None /\ \A p \in Sure : files[p] = coming[p]
    BY <1>4 DEF RecoverClear, Written, Resumable, CInv, RInv, TypeOK
  <2>2. business = "open"
    BY <1>4 DEF RecoverClear, CInv, Placed
  <2> QED
    BY <1>1, <1>4, <2>1, <2>2
       DEF RecoverClear, StartLoad, Loaded, Believed, Undisturbed, Written, Resumable, historyVars
<1>5. CASE Opened
  <2>1. journal = None
    BY <1>5 DEF Opened, Read, CInv, Ahead
  <2>2. pc' = "idle" /\ disk' = read /\ touched' = moved /\ head'.design = read
        /\ business' = "open"
    BY <1>5 DEF Opened, TakeIn, HashBefore, PublishHead
  <2>3. ~moved => Right'
    BY <1>5, TakenIn DEF Opened, CInv, RInv
  <2>4. \A p \in Paths : kept'[p] = files[p]
    <3> DEFINE became == IF coming # None /\ files = AsFound(coming) THEN coming ELSE kept
    <3>1. \A p \in Sure : files[p] = became[p]
      <4>1. CASE coming # None /\ files = AsFound(coming)
        BY <4>1 DEF AsFound
      <4>2. CASE ~(coming # None /\ files = AsFound(coming))
        <5>1. CASE coming # None /\ \A p \in Sure : files[p] = coming[p]
          <6>1. files = AsFound(coming)
            BY <5>1 DEF AsFound, CInv, RInv, TypeOK
          <6> QED
            BY <4>2, <5>1, <6>1
        <5>2. CASE \A p \in Sure : files[p] = kept[p]
          BY <4>2, <5>2
        <5> QED
          BY <1>5, <2>1, <5>1, <5>2 DEF Opened, Read, Resumable
      <4> QED
        BY <4>1, <4>2
    <3>2. kept' = AsFound(became)
      BY <1>5 DEF Opened
    <3> HIDE DEF became
    <3> QED
      BY <3>1, <3>2, FoundOnTheBooks
  <2>5. coming' = None /\ files' = files /\ journal' = None
    BY <1>5, <2>1 DEF Opened
  <2> QED
    BY <1>1, <2>2, <2>3, <2>4, <2>5 DEF Loaded, Believed, Undisturbed, Written, Resumable
<1> QED
  BY <1>2, <1>3, <1>4, <1>5 DEF Opening

LEMMA LookingFInv == FInv /\ Looking => FInv'
<1> SUFFICES ASSUME FInv, Looking PROVE FInv'
  OBVIOUS
<1>1. CInv'
  BY LookingCInv DEF FInv
<1> USE DEF FInv, AtRest, CommitSteps, Sure
<1>2. ASSUME NEW purpose \in {"commit", "sync"},
             LookSeesNothing(purpose) \/ LookReads(purpose)
      PROVE  FInv'
  BY <1>1, <1>2
     DEF LookSeesNothing, LookReads, Unmoved, StartLoad, Loaded, Believed, Right, Undisturbed,
         Written, Resumable, Changes, CInv, Ahead, diskVars, lookVars, historyVars
<1>3. CASE LoadFails \/ RecordFails
  BY <1>1, <1>3
     DEF LoadFails, RecordFails, Read, Loaded, Believed, Undisturbed, Written, Resumable,
         Changes, CInv, RInv, TypeOK, Placed, Ahead, diskVars, lookVars, historyVars
<1>4. ASSUME LookReadsTheHead \/ RecordChange PROVE FInv'
  <2>1. journal = None /\ business # "open"
    BY <1>4 DEF LookReadsTheHead, RecordChange, Read, CInv, Ahead
  <2>2. disk' = read /\ touched' = moved /\ files' = files
    BY <1>4 DEF LookReadsTheHead, RecordChange, TakeIn, HashBefore, diskVars
  <2>3. ~moved \/ business = "commit" => Right'
    BY <1>4, <2>2, TakenIn DEF LookReadsTheHead, RecordChange, CInv, RInv
  <2>4. coming = None /\ \A p \in Sure : files[p] = kept[p]
    BY <1>4, <2>1 DEF LookReadsTheHead, RecordChange, Read, Written
  <2>5. \A p \in Paths : kept'[p] = files[p]
    BY <1>4, <2>4, FoundOnTheBooks DEF LookReadsTheHead, RecordChange
  <2>6. UNCHANGED <<journal, business, head, lookVars, goal, left, coming>>
    BY <1>4 DEF LookReadsTheHead, RecordChange, diskVars
  <2>7. pc' \in {"idle", "gate", "adopt"} /\ (pc' = "gate" => business = "commit")
    BY <1>4 DEF LookReadsTheHead, RecordChange, AfterLook
  <2>8. pc' # "adopt" => disk' = head.design
    BY <1>4, <2>1, <2>2 DEF LookReadsTheHead, RecordChange, Read, Believed
  <2> QED
    BY <1>1, <2>1, <2>2, <2>3, <2>4, <2>5, <2>6, <2>7, <2>8
       DEF Loaded, Believed, Undisturbed, Written, Resumable
<1>5. CASE Adopt
  BY <1>1, <1>5
     DEF Adopt, AfterLook, PublishHead, Loaded, Believed, Right, Undisturbed, Written, Resumable,
         CInv, Ahead, diskVars, lookVars
<1> QED
  BY <1>2, <1>3, <1>4, <1>5 DEF Looking

LEMMA PersistingFInv == FInv /\ Persisting => FInv'
<1> SUFFICES ASSUME FInv, Persisting PROVE FInv'
  OBVIOUS
<1>1. CInv'
  BY PersistingCInv DEF FInv
<1> USE DEF FInv, AtRest, CommitSteps, Sure
<1>2. ASSUME NEW patch \in Patches, Accept(patch) PROVE FInv'
  <2>1. journal = None /\ journal' = None
    BY <1>2 DEF Accept, CInv, Ahead, diskVars
  <2>2. unread \subseteq late /\ disk = head.design
        /\ \A p \in Sure : files[p] = disk[p] /\ files[p] = kept[p]
    BY <1>2 DEF Accept, Believed, Right, Written
  <2>3. goal' \in Designs
    BY <1>2, OverlayType DEF Accept, CInv, RInv, TypeOK, Named
  <2>4. \A p \in Sure : coming'[p] = goal'[p]
    <3>1. coming' = [p \in Paths |-> IF goal'[p] # disk[p] THEN goal'[p] ELSE kept[p]]
      BY <1>2 DEF Accept, Overlay, Changes
    <3> QED
      BY <2>2, <3>1
  <2>5. pc' = "state" => \A p \in Sure : files[p] = goal'[p]
    BY <1>2, <2>2 DEF Accept, Changes
  <2>6. pc' \in {"state", "journal"} /\ business = "commit"
    BY <1>2 DEF Accept, Believed
  <2> QED
    BY <1>1, <1>2, <2>1, <2>2, <2>4, <2>5, <2>6
       DEF Accept, Loaded, Believed, Right, Undisturbed, Written, Resumable, diskVars, lookVars
<1>3. CASE Reject \/ JournalFails
  BY <1>1, <1>3
     DEF Reject, JournalFails, Refused, Loaded, Believed, Right, Undisturbed, Written, Resumable,
         CInv, Ahead, diskVars, lookVars
<1>4. CASE WriteJournal
  <2>1. journal' # None
    <3>1. journal' \in [revision : Nat, design : Designs, changes : SUBSET Paths]
      BY <1>4 DEF WriteJournal, Changes, CInv, RInv, TypeOK, Named
    <3> QED
      BY <3>1, StoreConstants
  <2>2. \A p \in Sure \ Changes(goal) : files[p] = goal[p]
    BY <1>4 DEF WriteJournal, Changes, Written
  <2>3. \A p \in Sure : files[p] = disk[p]
    BY <1>4 DEF WriteJournal, Written
  <2>4. /\ journal'.design = goal /\ journal'.changes = Changes(goal) /\ pc' = "apply"
        /\ left' = Changes(goal) /\ Changes(goal)' = Changes(goal)
    BY <1>4 DEF WriteJournal, Changes
  <2>5. UNCHANGED <<files, business, head, disk, touched, lookVars, goal, historyVars>>
    BY <1>4 DEF WriteJournal
  <2>6. /\ unread \subseteq late /\ disk = head.design /\ business = "commit"
        /\ \A p \in Sure : coming[p] = goal[p] /\ kept[p] = disk[p]
    BY <1>4 DEF WriteJournal, Undisturbed, Believed
  <2>7. coming # None
    BY <1>4, StoreConstants DEF WriteJournal, CInv, RInv, Underway
  <2> QED
    BY <1>1, <2>1, <2>2, <2>3, <2>4, <2>5, <2>6, <2>7
       DEF Loaded, Believed, Undisturbed, Written, Resumable, historyVars
<1>5. CASE Applied
  <2>1. \A p \in Sure : files[p] = goal[p]
    BY <1>5 DEF Applied, Written, Changes
  <2> QED
    BY <1>1, <1>5, <2>1
       DEF Applied, Loaded, Believed, Undisturbed, Written, Resumable, Changes, diskVars,
           lookVars, historyVars
<1>6. CASE WriteState \/ ClearJournal
  BY <1>1, <1>6
     DEF WriteState, ClearJournal, Loaded, Believed, Undisturbed, Written, Resumable, Changes,
         CInv, Ahead, diskVars, lookVars, historyVars
<1>7. CASE Rescan
  BY <1>1, <1>7
     DEF Rescan, Loaded, Believed, Undisturbed, Written, Resumable, CInv, Ahead, diskVars,
         lookVars, historyVars
<1>8. CASE Publish
  BY <1>1, <1>8
     DEF Publish, PublishHead, Loaded, Believed, Right, Undisturbed, Written, Resumable, CInv,
         Ahead, diskVars, lookVars
<1>9. CASE ApplyFails
  <2>1. \A p \in Sure \ Changes(goal) : files[p] = disk[p]
    BY <1>9 DEF ApplyFails, Written
  <2> QED
    BY <1>1, <1>9, <2>1
       DEF ApplyFails, Loaded, Believed, Undisturbed, Written, Resumable, Changes, diskVars,
           lookVars, historyVars
<1>10. CASE Restored
  <2>1. \A p \in Sure : files[p] = disk[p]
    BY <1>10 DEF Restored, ToRestore, Written
  <2> QED
    BY <1>1, <1>10, <2>1
       DEF Restored, Refused, Loaded, Believed, Right, Undisturbed, Written, Resumable, CInv, RInv,
           TypeOK, lookVars
<1> QED
  BY <1>2, <1>3, <1>4, <1>5, <1>6, <1>7, <1>8, <1>9, <1>10 DEF Persisting

LEMMA OneFileFInv == FInv /\ OneFile => FInv'
<1> SUFFICES ASSUME FInv, NEW p \in Paths,
                    RecoverFile(p) \/ ReadFile(p) \/ ApplyFile(p) \/ RestoreFile(p)
             PROVE  FInv'
  BY DEF OneFile
<1>1. CInv'
  BY OneFileCInv DEF FInv, OneFile
<1> USE DEF FInv, AtRest, CommitSteps, Sure
<1>2. \A q \in Paths : p # q =>
         files'[q] = files[q]
  BY DEF RecoverFile, ReadFile, ApplyFile, RestoreFile, diskVars, CInv, RInv, TypeOK
<1>3. CASE RecoverFile(p)
  <2>1. files'[p] = journal.design[p]
    BY <1>3 DEF RecoverFile, CInv, RInv, TypeOK
  <2> QED
    BY <1>1, <1>2, <1>3, <2>1
       DEF RecoverFile, Loaded, Believed, Undisturbed, Written, Resumable, Changes, CInv,
           RInv, TypeOK, lookVars
<1>4. CASE ReadFile(p)
  <2>1. Loaded'
    BY <1>4 DEF ReadFile, Loaded, CInv, RInv, TypeOK, diskVars, historyVars
  <2> QED
    BY <1>1, <1>4, <2>1
       DEF ReadFile, Believed, Undisturbed, Written, Resumable, Changes, diskVars, historyVars
<1>5. CASE ApplyFile(p)
  <2>1. files'[p] = goal[p] /\ p \in Changes(goal)
    BY <1>5 DEF ApplyFile, InTurn, Written, CInv, RInv, TypeOK
  <2>2. \A q \in Sure :
           files'[q] = IF q \in Changes(goal) \ (left \ {p}) THEN goal[q] ELSE disk[q]
    BY <1>2, <1>5, <2>1 DEF ApplyFile, Written
  <2>3. \A q \in Paths \ Changes(goal) : files'[q] = files[q]
    BY <1>2, <2>1
  <2>4. Changes(goal)' = Changes(goal)
    BY <1>5 DEF ApplyFile, Changes
  <2> QED
    BY <1>1, <1>5, <2>2, <2>3, <2>4
       DEF ApplyFile, Loaded, Believed, Undisturbed, Written, Resumable, lookVars
<1>6. CASE RestoreFile(p)
  <2>1. files'[p] = disk[p]
    BY <1>6 DEF RestoreFile, CInv, RInv, TypeOK
  <2>2. \A q \in Sure \ (left \ {p}) : files'[q] = disk[q]
    BY <1>2, <1>6, <2>1 DEF RestoreFile, Written
  <2>3. \A q \in Paths \ Changes(goal) : goal[q] = disk[q]
    BY DEF Changes
  <2>4. \A q \in Sure \ journal.changes : files'[q] = journal.design[q]
    BY <1>2, <1>6, <2>1, <2>3 DEF RestoreFile, Undisturbed, Resumable
  <2> QED
    BY <1>1, <1>6, <2>2, <2>4
       DEF RestoreFile, Loaded, Believed, Undisturbed, Written, Resumable, Changes, lookVars
<1> QED
  BY <1>3, <1>4, <1>5, <1>6

LEMMA EditFInv == FInv /\ AnyEdit => FInv'
<1> SUFFICES ASSUME FInv, NEW e \in Edits, Edit(e[1], e[2])
             PROVE  FInv'
  BY DEF AnyEdit
<1>1. CInv'
  BY OtherCInv DEF FInv, AnyEdit
<1>2. PICK p \in Paths, text \in Contents : Edit(p, text)
  BY StoreConstants
<1> USE DEF FInv, AtRest, CommitSteps, Sure
<1>3. \A q \in Paths : q # p => /\ files'[q] = files[q]
                                /\ kept'[q] = kept[q]
                                /\ coming # None => coming'[q] = coming[q]
  BY <1>2 DEF Edit, CInv, RInv, TypeOK
<1>4. /\ files'[p] = text /\ kept'[p] = text
      /\ coming # None => coming'[p] = text
  BY <1>2 DEF Edit, CInv, RInv, TypeOK
<1>5. coming' = None <=> coming = None
  BY <1>2, StoreConstants DEF Edit, CInv, RInv, TypeOK
<1>6. touched' = TRUE /\ moved' = TRUE /\ unread' \subseteq unread \cup {p}
      /\ UNCHANGED <<journal, pc, business, head, disk, read, toRead, goal, left>>
  BY <1>2 DEF Edit
<1>7. CASE Committing \/ Interrupted
  <2>1. late' = late \cup {p}
    BY <1>2, <1>7 DEF Edit
  <2>2. Loaded' /\ Believed'
    BY <1>3, <1>6, <2>1 DEF Loaded, Believed, Right
  <2>3. Undisturbed' /\ Resumable'
    BY <1>3, <1>5, <1>6, <2>1 DEF Undisturbed, Resumable, Changes, CInv, RInv, Underway
  <2>4. Written'
    BY <1>3, <1>5, <1>6, <2>1 DEF Written, Changes
  <2> QED
    BY <1>1, <2>2, <2>3, <2>4
<1>8. CASE ~Committing /\ ~Interrupted
  <2>1. late' = late \ {p}
    BY <1>2, <1>8 DEF Edit
  <2>2. journal = None
    BY <1>8 DEF Interrupted, Committing, CInv, Placed, Ahead, Believed
  <2>3. pc \in {"closed", "idle", "load", "adopt"}
        /\ (pc \in {"load", "adopt"} => business # "commit")
    BY <1>8, <2>2 DEF Committing, Believed, CInv, RInv, TypeOK, Steps
  <2>4. Loaded' /\ Believed' /\ Undisturbed'
    BY <1>3, <1>6, <2>1, <2>2, <2>3 DEF Loaded, Believed, Right, Undisturbed
  <2>5. Written' /\ Resumable'
    BY <1>3, <1>4, <1>5, <1>6, <2>1, <2>2, <2>3 DEF Written, Resumable
  <2> QED
    BY <1>1, <2>4, <2>5
<1> QED
  BY <1>7, <1>8

LEMMA StopFInv == FInv /\ Stop => FInv'
<1> SUFFICES ASSUME FInv, Stop PROVE FInv'
  OBVIOUS
<1>1. CInv'
  BY OtherCInv DEF FInv
<1> USE DEF FInv, AtRest, CommitSteps, Sure
<1>2. Loaded' /\ Believed' /\ Undisturbed' /\ Written'
  BY DEF Stop, Loaded, Believed, Undisturbed, Written, diskVars, historyVars
<1>3. ASSUME journal = None
      PROVE  \/ \A p \in Sure : files[p] = kept[p]
             \/ coming # None /\ \A p \in Sure : files[p] = coming[p]
  <2>1. CASE pc \in CommitSteps
    <3>1. coming # None
      BY <2>1, StoreConstants DEF CInv, RInv, Underway
    <3> QED
      BY <1>3, <2>1, <3>1 DEF Undisturbed, Written
  <2>2. CASE pc \notin CommitSteps
    BY <1>3, <2>2 DEF Stop, Written, Resumable, CInv, RInv, TypeOK, Steps, Placed
  <2> QED
    BY <2>1, <2>2
<1> QED
  BY <1>1, <1>2, <1>3 DEF Stop, Resumable, diskVars, historyVars

LEMMA StepFInv == FInv /\ [Next]_vars => FInv'
<1> SUFFICES ASSUME FInv, [Next]_vars PROVE FInv'
  OBVIOUS
<1>1. CASE UNCHANGED vars
  <2>1. CInv'
    BY <1>1, OtherCInv DEF FInv
  <2> QED
    BY <1>1, <2>1
       DEF vars, FInv, Loaded, Believed, Right, Undisturbed, Written, Resumable, AtRest,
           CommitSteps, Sure, Changes, diskVars, lookVars, historyVars
<1> QED
  BY <1>1, OpeningFInv, LookingFInv, PersistingFInv, OneFileFInv, EditFInv, StopFInv
     DEF Next, AnyEdit

LEMMA FilesInvariant == Spec => []FInv
BY InitFInv, StepFInv, PTL DEF Spec

\* Of every commit the files hold all or nothing whenever the engine is between
\* calls, wherever it was stopped or failed before, but for what was edited while
\* a commit was under way (persist_commit, roll_back, complete_pending).
THEOREM CommitsAreAtomic == Spec => []AllOrNothing
<1>1. FInv => AllOrNothing
  BY DEF FInv, Written, AtRest, Sure, AllOrNothing
<1> QED
  BY <1>1, FilesInvariant, PTL

\* No edit is taken for the head's own text, unless it was made after the look a
\* commit relies on (disk_change, scan).
THEOREM NoEditIsMissed == Spec => []NothingMissed
<1>1. FInv => NothingMissed
  BY DEF FInv, Believed, Right, AtRest, Sure, NothingMissed
<1> QED
  BY <1>1, FilesInvariant, PTL

\* Nor is one written over, by a commit, its roll-back or its recovery, if it was
\* made before the look the commit relies on (adopt_disk_change, complete_pending).
THEOREM EarlierEditsAreNotWrittenOver == Spec => EarlierEditsAreKept
<1>1. FInv /\ [Next]_vars =>
         [\A p \in unread \ late : files'[p] # files[p] => p \in unread']_vars
  <2> SUFFICES ASSUME FInv, Next, NEW p \in unread \ late, files'[p] # files[p]
               PROVE  p \in unread'
    OBVIOUS
  <2>1. CASE AnyEdit
    BY <2>1 DEF AnyEdit, Edit
  <2>2. CASE OneFile
    BY <2>2
       DEF OneFile, RecoverFile, ReadFile, ApplyFile, RestoreFile, FInv, Undisturbed,
           CommitSteps, CInv, RInv, TypeOK, diskVars
  <2>3. CASE UNCHANGED files
    BY <2>3
  <2> QED
    BY <2>1, <2>2, <2>3
       DEF Next, AnyEdit, Opening, Looking, Persisting, Open, RecoverState, RecoverClear,
           Opened, LookSeesNothing, LookReads, LoadFails, LookReadsTheHead, RecordChange,
           RecordFails, Adopt, Accept, Reject, Refused, WriteJournal, JournalFails, Applied,
           WriteState, ClearJournal, Rescan, Publish, ApplyFails, Restored, Stop, diskVars
<1> QED
  BY <1>1, FilesInvariant, PTL DEF Spec, EarlierEditsAreKept

=============================================================================
