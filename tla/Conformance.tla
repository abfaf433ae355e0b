----------------------------- MODULE Conformance -----------------------------
(****************************************************************************)
(* The conformance records of a project: what parties attest of the code of *)
(* a declaration, what others review of it, and what is derived from both   *)
(* whenever it is asked for (conformance/state.rs, attest.rs, review.rs,    *)
(* record.rs, completeness.rs).                                             *)
(*                                                                          *)
(* The spec, the code and the records move under everyone's hands.  A call  *)
(* is two steps, as its lock makes it: it derives from all three as they    *)
(* are at one moment, and it writes under the record lock.  Digests are     *)
(* identities: a record is named by its value, a region by its content.     *)
(* Callers send the read set of their packet, and name the record they      *)
(* reviewed.  Realizations and their checkers are left out.                 *)
(****************************************************************************)
EXTENDS Naturals, FiniteSets

CONSTANTS
    Decls,          \* bindable declarations
    Carrier,        \* the one of them that carries the `writers` claim
    Facts,          \* attestable facts, in canonical order
    Obligations,
    Specs,          \* what the spec may be: see SpecType
    Texts,          \* the regions a declaration may have, by digest
    Written,        \* the code there may be to begin with
    Clients,
    Who,            \* Who[c]: the party of a client's credential
    Judgements,     \* what an attester may claim
    Opinions,       \* what a reviewer may say
    MaxMoves,       \* bound: edits of the code and the spec
    MaxCalls        \* bound: packets read and calls made again

Gone == 0           \* the residual of what the spec does not declare
NoRecord == [none |-> TRUE]
Verdicts == {"confirmed", "disputed"}

\* A spec, as derivations read it: residuals, which obligations are proven,
\* the basis of each, and the declared writers of the carrier's object.
SpecType ==
    [residual : [Decls -> Nat],
     implementers : [Facts -> SUBSET Decls],
     proven : SUBSET Obligations,
     basis : [Obligations -> SUBSET Facts],
     anchors : [Obligations -> SUBSET Decls],
     relies : [Obligations -> SUBSET Obligations],
     closed : SUBSET Obligations,
     writers : SUBSET Decls]

ASSUME ConformanceConstants ==
    /\ Carrier \in Decls
    /\ Facts \subseteq Nat
    /\ Specs \subseteq SpecType
    /\ Written \subseteq [Decls -> Texts] /\ {} \in Texts
    /\ 0 \notin Facts
    /\ IsFiniteSet(Obligations)
    /\ Who \in [Clients -> [name : STRING, job : Nat]]
    /\ \A j \in Judgements : j.facts \subseteq Facts /\ j.structural \in BOOLEAN /\ j.claim \in BOOLEAN
    /\ MaxMoves \in Nat /\ MaxCalls \in Nat

VARIABLES
    spec,
    code,       \* code[d]: the digests of the regions bound to d
    matches,    \* where the claim's pattern matches: regions of these, or "stray"
    records,
    calls,      \* what each client is at
    looked,     \* history: what each reviewer last confirmed of a record it read
    crossed,    \* history: a write replaced another record than it derived from
    moves,      \* edits so far
    made        \* packets read and calls made again so far

vars == <<spec, code, matches, records, calls, looked, crossed, moves, made>>

Idle == [at |-> "idle"]

-----------------------------------------------------------------------------
(* What is required, of a spec *)

Declared(s) == {d \in Decls : s.residual[d] # Gone}

ReliedOn(s) == UNION {s.basis[o] : o \in s.proven}

RequiredFacts(s, d) == {f \in ReliedOn(s) : d \in s.implementers[f]}

RequiresStructure(s, d) == \E o \in s.proven : d \in s.anchors[o]

RequiresClaim(s, d) == d = Carrier /\ s.proven \cap s.closed # {}

-----------------------------------------------------------------------------
(* Records.  What one attests is everything but who and the reviews. *)

Content(r) == [residual |-> r.residual, regions |-> r.regions,
               structural |-> r.structural, facts |-> r.facts, claim |-> r.claim]

Recorded(d) == records[d] # NoRecord

\* (Mutant of SameParty: an agent's second job is somebody else.)
SameJob(p, q) == p = q

\* Party::same_as: whatever jobs they acted in.
SameParty(p, q) == p.name = q.name

\* What a review says something of: 0 for the claim, or a fact, which an item
\* names by its place in the record.
Targets(r) == r.facts \cup (IF r.claim THEN {0} ELSE {})
Place(r, target) == Cardinality({g \in r.facts : g <= target})
Places(r) == {Place(r, target) : target \in Targets(r)}

\* An item's verdict overrides the one on the record as a whole.
SaysOf(review, place) ==
    IF place \in DOMAIN review.items THEN review.items[place] ELSE review.verdict

Confirms(review, r, target) ==
    /\ ~SameParty(review.by, r.by)
    /\ SaysOf(review, Place(r, target)) = "confirmed"

-----------------------------------------------------------------------------
(* The state derived of a declaration: its conditions *)

Unbound(d) == code[d] = {}
Unattested(d) == code[d] # {} /\ ~Recorded(d)
Stale(d) == Recorded(d) /\ records[d].residual # spec.residual[d]
Drifted(d) == Recorded(d) /\ records[d].regions # code[d]

Attested(d) == IF Recorded(d) THEN records[d].facts ELSE {}
Structural(d) == Recorded(d) /\ records[d].structural

MissingFacts(d) ==
    \/ ~RequiredFacts(spec, d) \subseteq Attested(d)
    \/ RequiresStructure(spec, d) /\ ~Structural(d)

\* The claim holds where every match lies in a region of a declared writer;
\* a match whose region lost its markers lies in none.
ClaimHolds == \A p \in matches : p \in spec.writers /\ code[p] # {}

Incomplete(d) ==
    RequiresClaim(spec, d) /\ ~(Recorded(d) /\ records[d].claim /\ ClaimHolds)

Surplus(d) == ~Attested(d) \subseteq RequiredFacts(spec, d)

\* By the default policy every attested fact a proof relies on is to be
\* reviewed, and every claim one requires.
NeedsReview(d) ==
    {target \in Targets(records[d]) :
        IF target = 0 THEN RequiresClaim(spec, d) ELSE target \in RequiredFacts(spec, d)}

Unreviewed(d) ==
    /\ Recorded(d)
    /\ \E target \in NeedsReview(d) :
           ~\E review \in records[d].reviews :
               review.regions = code[d] /\ Confirms(review, records[d], target)

Disputed(d) ==
    /\ Recorded(d)
    /\ \E review \in records[d].reviews :
           /\ review.regions = code[d]
           /\ \/ review.verdict = "disputed"
              \/ \E i \in DOMAIN review.items : review.items[i] = "disputed"

\* What code owes, leaving reviews aside.
Owes(d) == Unbound(d) \/ Unattested(d) \/ Stale(d) \/ Drifted(d) \/ MissingFacts(d)
           \/ Incomplete(d)

-----------------------------------------------------------------------------
(* The conformance derived of an obligation *)

FactBlocked(o) ==
    \E f \in spec.basis[o] : \E d \in spec.implementers[f] :
        f \notin Attested(d) \/ d \notin Declared(spec) \/ Drifted(d)

StructureBlocked(o) ==
    \E d \in spec.anchors[o] :
        ~Structural(d) \/ d \notin Declared(spec) \/ Stale(d) \/ Drifted(d)

ClaimBlocked(o) == o \in spec.closed /\ Incomplete(Carrier)

Blocked == {o \in spec.proven : FactBlocked(o) \/ StructureBlocked(o) \/ ClaimBlocked(o)}

\* Failure spreads to what relies on the failing, or on what is not proven;
\* what it never reaches conforms, in a cycle or not.
Spread[n \in Nat] ==
    IF n = 0 THEN Blocked
    ELSE Spread[n - 1] \cup
         {o \in spec.proven : ~spec.relies[o] \subseteq spec.proven \ Spread[n - 1]}

\* (Mutant of Conformant: built up from what relies on nothing.)
BuiltUp ==
    LET Up[n \in Nat] ==
            IF n = 0 THEN {} ELSE {o \in spec.proven \ Blocked : spec.relies[o] \subseteq Up[n - 1]}
    IN  Up[Cardinality(Obligations)]

Conformant == spec.proven \ Spread[Cardinality(Obligations)]

-----------------------------------------------------------------------------
(* The world *)

Init ==
    /\ spec \in Specs
    /\ code \in Written
    /\ matches = {}
    /\ records = [d \in Decls |-> NoRecord]
    /\ calls = [c \in Clients |-> Idle]
    /\ looked = {}
    /\ crossed = FALSE
    /\ moves = 0
    /\ made = 0

EditCode ==
    /\ moves < MaxMoves
    /\ moves' = moves + 1
    /\ \E d \in Decls, regions \in Texts :
        /\ code[d] # regions
        /\ code' = [code EXCEPT ![d] = regions]
    /\ UNCHANGED <<spec, matches, records, calls, looked, crossed, made>>

\* Code that does what the claim's pattern looks for comes and goes, in a
\* region or outside all of them.
EditMatches ==
    /\ moves < MaxMoves
    /\ moves' = moves + 1
    /\ \E p \in Decls \cup {"stray"} :
        matches' = IF p \in matches THEN matches \ {p} ELSE matches \cup {p}
    /\ UNCHANGED <<spec, code, records, calls, looked, crossed, made>>

EditSpec ==
    /\ moves < MaxMoves
    /\ moves' = moves + 1
    /\ spec' \in Specs \ {spec}
    /\ UNCHANGED <<code, matches, records, calls, looked, crossed, made>>

\* A version-control operation takes one record away.
RemoveRecord ==
    /\ moves < MaxMoves
    /\ moves' = moves + 1
    /\ \E d \in Decls :
        /\ Recorded(d)
        /\ records' = [records EXCEPT ![d] = NoRecord]
    /\ UNCHANGED <<spec, code, matches, calls, looked, crossed, made>>

-----------------------------------------------------------------------------
(* Calls *)

Moves(c, call) == calls' = [calls EXCEPT ![c] = call]

\* A party reads a declaration's packet and its record.  Its read set holds
\* the residual, the query naming the declared writers, and the record.
ReadPacket(c, d) ==
    /\ calls[c] = Idle /\ made < MaxCalls
    /\ d \in Declared(spec)
    /\ Moves(c, [at |-> "read", decl |-> d, residual |-> spec.residual[d],
                 writers |-> spec.writers, record |-> records[d]])
    /\ made' = made + 1
    /\ UNCHANGED <<spec, code, matches, records, looked, crossed, moves>>

\* A claim that does not hold, or a read set the spec has left behind.
Overtaken(d, j, packet) ==
    \/ j.claim /\ (d # Carrier \/ ~ClaimHolds)
    \/ packet.residual # spec.residual[d]
    \/ d = Carrier /\ packet.writers # spec.writers

\* Attest refuses what is not declared, bound and required, or is overtaken.
AttestRefused(d, j, packet) ==
    \/ d \notin Declared(spec)
    \/ code[d] = {}
    \/ ~j.facts \subseteq RequiredFacts(spec, d)
    \/ Overtaken(d, j, packet)

\* The record an attest would write: a review survives only a record that
\* attests exactly what its own did.
AttestsTheSame(previous, content) == previous # NoRecord /\ Content(previous) = content

\* (Mutant of NewRecord: an attest always starts a record without reviews.)
FreshRecord(d, j, by) ==
    [residual |-> spec.residual[d], regions |-> code[d], structural |-> j.structural,
     facts |-> j.facts, claim |-> j.claim, by |-> by, reviews |-> {}]

NewRecord(d, j, by) ==
    LET content == [residual |-> spec.residual[d], regions |-> code[d],
                    structural |-> j.structural, facts |-> j.facts, claim |-> j.claim]
        kept == IF AttestsTheSame(records[d], content) THEN records[d].reviews ELSE {}
    IN  [residual |-> content.residual, regions |-> content.regions,
         structural |-> content.structural, facts |-> content.facts,
         claim |-> content.claim, by |-> by, reviews |-> kept]

\* Nothing to write: the record already holds this attest.
Replays(d, new) == records[d] = new

Attest(c, packet, j) ==
    LET d == packet.decl
        new == NewRecord(d, j, Who[c])
    IN  \/ AttestRefused(d, j, packet) /\ Moves(c, Idle)
        \/ ~AttestRefused(d, j, packet) /\ Replays(d, new) /\ Moves(c, Idle)
        \/ /\ ~AttestRefused(d, j, packet) /\ ~Replays(d, new)
           /\ Moves(c, [at |-> "write", call |-> "attest", decl |-> d, new |-> new,
                        derived |-> records[d], replaces |-> packet.record,
                        packet |-> packet, judgement |-> j])

AttestFromPacket(c) ==
    /\ calls[c].at = "read"
    /\ \E j \in Judgements : Attest(c, calls[c], j)
    /\ UNCHANGED <<spec, code, matches, records, looked, crossed, moves, made>>

\* The answer was lost: the party makes the same call again.
RetryAttest(c) ==
    /\ calls[c].at = "unanswered" /\ made < MaxCalls
    /\ made' = made + 1
    /\ Attest(c, calls[c].packet, calls[c].judgement)
    /\ UNCHANGED <<spec, code, matches, records, looked, crossed, moves>>

\* The record as a review leaves it: lapsed reviews go, and the party's
\* earlier one at these digests is replaced.
Reviewed(r, review) ==
    LET current == {earlier \in r.reviews : earlier.regions = r.regions}
    IN  [r EXCEPT !.reviews =
            {earlier \in current : ~SameParty(earlier.by, review.by)} \cup {review}]

\* The reviewer names the record it read; the record on disk must be that
\* one when the review is written.
RecordReview(c) ==
    /\ calls[c].at = "read" /\ calls[c].record # NoRecord
    /\ LET d == calls[c].decl
           old == records[d]
           refused == d \notin Declared(spec) \/ ~Recorded(d) \/ Drifted(d) \/ Stale(d)
       IN  \E opinion \in Opinions :
            LET new == Reviewed(old, [by |-> Who[c], regions |-> old.regions,
                                      verdict |-> opinion.verdict, items |-> opinion.items])
            IN  \/ refused /\ Moves(c, Idle)
                \/ /\ ~refused
                   \* Record::check: an item names something the record has.
                   /\ IF ~DOMAIN opinion.items \subseteq Places(old) \/ new = old
                      THEN Moves(c, Idle)
                      ELSE Moves(c, [at |-> "write", call |-> "review", decl |-> d,
                                     new |-> new, derived |-> old,
                                     replaces |-> calls[c].record, opinion |-> opinion])
    /\ UNCHANGED <<spec, code, matches, records, looked, crossed, moves, made>>

\* Records::write, under the record lock.
\* (Mutant of Replaceable: the lock without the comparison.)
Unchecked(call) == TRUE

Replaceable(call) == records[call.decl] = call.replaces

Answered(c, call) ==
    \/ Moves(c, Idle)
    \/ /\ call.call = "attest"
       /\ Moves(c, [at |-> "unanswered", packet |-> call.packet,
                    judgement |-> call.judgement, wrote |-> call.new])

\* What the reviewer confirmed of the record it read, which stands for what
\* it said of it before.
Looked(c, call) ==
    LET said == [name |-> Who[c].name, decl |-> call.decl, of |-> Content(call.replaces),
                 confirmed |-> {target \in Targets(call.replaces) :
                     SaysOf(call.opinion, Place(call.replaces, target)) = "confirmed"}]
    IN  {l \in looked : l.name # said.name \/ l.decl # said.decl \/ l.of # said.of} \cup {said}

WriteRecord(c) ==
    /\ calls[c].at = "write"
    /\ LET call == calls[c]
       IN  \/ /\ ~Replaceable(call)
              /\ Moves(c, Idle)
              /\ UNCHANGED <<records, looked, crossed>>
           \/ /\ Replaceable(call)
              /\ records' = [records EXCEPT ![call.decl] = call.new]
              /\ looked' = IF call.call = "review" THEN Looked(c, call) ELSE looked
              /\ crossed' = (crossed \/ call.derived # call.replaces)
              /\ Answered(c, call)
    /\ UNCHANGED <<spec, code, matches, moves, made>>

\* A call stops between its derivation and its write.
GiveUp(c) ==
    /\ calls[c].at = "write"
    /\ Moves(c, Idle)
    /\ UNCHANGED <<spec, code, matches, records, looked, crossed, moves, made>>

Next ==
    \/ EditCode \/ EditMatches \/ EditSpec \/ RemoveRecord
    \/ \E c \in Clients :
        \/ \E d \in Decls : ReadPacket(c, d)
        \/ AttestFromPacket(c) \/ RetryAttest(c) \/ RecordReview(c) \/ WriteRecord(c)
        \/ GiveUp(c)

Spec == Init /\ [][Next]_vars

-----------------------------------------------------------------------------
(* Properties *)

\* Where a declaration is derived as reviewed, somebody other than the attester
\* read the very record it holds and confirmed each fact and claim that needs
\* it, last they spoke of it: through attests that replace it, reviews at the
\* same digests, second jobs of one agent, edits and lost answers.
\* (state.rs `confirms`, attest.rs `attests_the_same`, review.rs.)
ConfirmedByAReader ==
    \A d \in Decls :
        Recorded(d) /\ ~Drifted(d) /\ ~Unreviewed(d) =>
            \A target \in NeedsReview(d) : \E l \in looked :
                /\ l.decl = d /\ l.name # records[d].by.name
                /\ l.of = Content(records[d]) /\ target \in l.confirmed

\* The same, leaving out the runs in which a record came back byte for byte
\* between a call's derivation and its write.
IndependentlyConfirmed == crossed \/ ConfirmedByAReader

\* A record that goes on attesting the same loses no party's review but to a
\* later one of that party, whoever writes it (Records::write, Record::rebind).
NoReviewLost ==
    [][\A d \in Decls :
        Recorded(d) /\ records'[d] # NoRecord /\ ~crossed'
          /\ Content(records'[d]) = Content(records[d])
        => \A review \in records[d].reviews : \E kept \in records'[d].reviews :
               /\ SameParty(kept.by, review.by)
               /\ review.regions = kept.regions]_vars

\* A party that never had its answer, and whose record stands, replays: the
\* same attest has nothing to write, whatever was reviewed since (attest.rs,
\* "a retry after a crash replays as a success").
RetryReplays ==
    \A c \in Clients : calls[c].at = "unanswered" =>
        LET d == calls[c].packet.decl
            again == NewRecord(d, calls[c].judgement, Who[c])
        IN  Recorded(d) /\ records[d].by = Who[c]
              /\ Content(records[d]) = Content(calls[c].wrote)
              /\ Content(again) = Content(calls[c].wrote)
            => Replays(d, again)

\* What is derived of obligations and what is derived of declarations agree.
\* An obligation conforms exactly when all it comes to rely on, in cycles too,
\* is proven and has nothing of its own in the way (state.rs `conformance`), and
\* what is in the way of one is a condition some declaration's own state
\* reports, or a declaration the spec does not have.
RestsOn(o) ==
    LET Grow[n \in Nat] ==
            IF n = 0 THEN {o}
            ELSE Grow[n - 1] \cup UNION {spec.relies[r] : r \in Grow[n - 1] \cap spec.proven}
    IN  Grow[Cardinality(Obligations)]

Reported(o) ==
    \/ \E f \in spec.basis[o] : \E d \in spec.implementers[f] :
           d \notin Declared(spec) \/ MissingFacts(d) \/ Drifted(d)
    \/ \E d \in spec.anchors[o] :
           d \notin Declared(spec) \/ MissingFacts(d) \/ Stale(d) \/ Drifted(d)
    \/ o \in spec.closed /\ Incomplete(Carrier)

DerivationsAgree ==
    /\ Conformant = {o \in spec.proven : RestsOn(o) \subseteq spec.proven \ Blocked}
    /\ \A o \in Blocked : Reported(o)

=============================================================================
