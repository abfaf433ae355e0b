----------------------------- MODULE DesignData -----------------------------
(***************************************************************************)
(* What the engine decides over: workspaces, the facts a task observes of  *)
(* one, and patches. A workspace gives every semantic symbol its content,  *)
(* that is the fingerprint of its canonical form (src/src/design/          *)
(* fingerprint.rs); equal content is equal meaning.                        *)
(***************************************************************************)
EXTENDS Naturals

CONSTANTS
    Symbols,        \* semantic symbols of the workspace
    Contents,       \* what a present symbol's fingerprint can be
    Queries,        \* set-valued queries, each named by the content it selects
    Patches,        \* patches a session may submit
    Absent,         \* the content of a symbol that does not exist
    None            \* no task, token, patch, request or observation

Workspaces == [Symbols -> Contents \cup {Absent}]

(***************************************************************************)
(* A patch changes the symbols in the domain of `writes` (its conflict     *)
(* footprint), is authorised by the symbols it addresses, and refers to    *)
(* the symbols of `refs`, none of which it writes itself.                  *)
(***************************************************************************)
PatchType ==
    {p \in [writes : UNION {[S -> Contents \cup {Absent}] : S \in SUBSET Symbols},
            addresses : SUBSET Symbols,
            refs : SUBSET Symbols] : p.refs \cap DOMAIN p.writes = {}}

ASSUME DataConstants ==
    /\ Queries \subseteq Contents
    /\ Patches \subseteq PatchType
    /\ Absent \notin Contents
    /\ None \notin Contents \cup {Absent}
    /\ None \notin Patches
    /\ \A S \in SUBSET Symbols : S # None

\* A query answers with the symbols related to its subject; what relates them
\* is part of their content.
Answer(q, ws) == {s \in Symbols : ws[s] = q}

\* A read set: what was observed of each symbol and query, None if nothing was.
Observed == [Symbols -> Contents \cup {Absent, None}]
Asked == [Queries -> {None} \cup SUBSET Symbols]

NoSymbols == [s \in Symbols |-> None]
NoQueries == [q \in Queries |-> None]

StillTrue(known, asked, ws) ==
    /\ \A s \in Symbols : known[s] \in {None, ws[s]}
    /\ \A q \in Queries : asked[q] \in {None, Answer(q, ws)}

Changed(old, new) == {s \in Symbols : old[s] # new[s]}

Targets(p) == DOMAIN p.writes

Apply(p, ws) == [s \in Symbols |-> IF s \in Targets(p) THEN p.writes[s] ELSE ws[s]]

\* Draft-local checks: what the patch refers to exists, what it deletes did.
DraftOK(p, ws) ==
    /\ \A s \in p.refs : Apply(p, ws)[s] # Absent
    /\ \A s \in Targets(p) : p.writes[s] = Absent => ws[s] # Absent

=============================================================================
