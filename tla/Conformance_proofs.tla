-------------------------- MODULE Conformance_proofs --------------------------
(****************************************************************************)
(* What the records of conformance promise, for every spec, every number of *)
(* declarations, facts and parties, and every number of edits and calls.    *)
(****************************************************************************)
EXTENDS Conformance, Fixpoints, TLAPS

-----------------------------------------------------------------------------
(* Types *)

Parties == [name : STRING, job : Nat]

Reviews == [by : Parties, regions : Texts,
            verdict : {o.verdict : o \in Opinions}, items : {o.items : o \in Opinions}]

RecordType ==
    [residual : Nat, regions : Texts, structural : BOOLEAN, facts : SUBSET Facts,
     claim : BOOLEAN, by : Parties, reviews : SUBSET Reviews]

MaybeRecord == RecordType \cup {NoRecord}

\* A call that is about to write carries what it would write, made of the record
\* as it was when the call derived from it.
AttestDerived(c, call) ==
    /\ call.call = "attest"
    /\ call.new.reviews =
           IF AttestsTheSame(call.derived, Content(call.new)) THEN call.derived.reviews ELSE {}

ReviewDerived(c, call) ==
    /\ call.call = "review"
    /\ call.derived # NoRecord
    /\ call.opinion \in Opinions
    /\ call.new = Reviewed(call.derived,
                           [by |-> Who[c], regions |-> call.derived.regions,
                            verdict |-> call.opinion.verdict, items |-> call.opinion.items])

CallSound(c) ==
    /\ calls[c].at \in {"idle", "read", "write", "unanswered"}
    /\ calls[c].at = "read" => calls[c].decl \in Decls /\ calls[c].record \in MaybeRecord
    /\ calls[c].at = "write" =>
          /\ calls[c].decl \in Decls
          /\ calls[c].new \in RecordType /\ calls[c].derived \in MaybeRecord
          /\ calls[c].replaces \in MaybeRecord /\ calls[c].new # calls[c].derived
          /\ AttestDerived(c, calls[c]) \/ ReviewDerived(c, calls[c])
          /\ calls[c].call = "attest" =>
                calls[c].judgement \in Judgements /\ calls[c].packet.decl \in Decls
                /\ calls[c].packet.record \in MaybeRecord
    /\ calls[c].at = "unanswered" =>
          /\ calls[c].packet.decl \in Decls /\ calls[c].packet.record \in MaybeRecord
          /\ calls[c].judgement \in Judgements

ConformanceTypes ==
    /\ spec \in Specs
    /\ code \in [Decls -> Texts]
    /\ records \in [Decls -> MaybeRecord]
    /\ DOMAIN calls = Clients
    /\ crossed \in BOOLEAN
    /\ \A c \in Clients : CallSound(c)

\* No record with fields is the absence of one.
LEMMA RecordsAreRecorded == NoRecord \notin RecordType
<1> SUFFICES ASSUME NoRecord \in RecordType PROVE FALSE
  OBVIOUS
<1>1. "by" \in DOMAIN NoRecord
  BY DEF RecordType
<1>2. "by" \notin DOMAIN NoRecord
  BY DEF NoRecord
<1> QED
  BY <1>1, <1>2

\* A record is its content, its author and its reviews.
LEMMA RecordIs ==
    ASSUME NEW r \in RecordType, NEW q \in RecordType,
           Content(r) = Content(q), r.by = q.by, r.reviews = q.reviews
    PROVE  r = q
<1>1. /\ r.residual = q.residual /\ r.regions = q.regions /\ r.structural = q.structural
      /\ r.facts = q.facts /\ r.claim = q.claim
  BY DEF Content
<1> QED
  BY <1>1 DEF RecordType

LEMMA NewRecordTyped ==
    ASSUME ConformanceTypes, NEW d \in Decls, NEW j \in Judgements, NEW c \in Clients
    PROVE  LET new == NewRecord(d, j, Who[c]) IN
           /\ new \in RecordType
           /\ new.by = Who[c]
           /\ new.reviews =
                  IF AttestsTheSame(records[d], Content(new)) THEN records[d].reviews ELSE {}
<1>1. spec.residual[d] \in Nat /\ code[d] \in Texts /\ records[d] \in MaybeRecord
  BY ConformanceConstants DEF ConformanceTypes, SpecType
<1>2. j.facts \in SUBSET Facts /\ j.structural \in BOOLEAN /\ j.claim \in BOOLEAN
  BY ConformanceConstants
<1>3. Who[c] \in Parties
  BY ConformanceConstants DEF Parties
<1> DEFINE content == [residual |-> spec.residual[d], regions |-> code[d],
                       structural |-> j.structural, facts |-> j.facts, claim |-> j.claim]
           kept == IF AttestsTheSame(records[d], content) THEN records[d].reviews ELSE {}
           new == [residual |-> content.residual, regions |-> content.regions,
                   structural |-> content.structural, facts |-> content.facts,
                   claim |-> content.claim, by |-> Who[c], reviews |-> kept]
<1>4. kept \in SUBSET Reviews
  BY <1>1 DEF AttestsTheSame, MaybeRecord, RecordType
<1>5. new = NewRecord(d, j, Who[c])
  BY DEF NewRecord
<1> HIDE DEF kept
<1>6. new \in RecordType /\ Content(new) = content /\ new.by = Who[c] /\ new.reviews = kept
  BY <1>1, <1>2, <1>3, <1>4 DEF RecordType, Content
<1> QED
  BY <1>5, <1>6 DEF kept

LEMMA ReviewedTyped ==
    ASSUME NEW r \in RecordType, NEW review \in Reviews
    PROVE  LET new == Reviewed(r, review) IN
           /\ new \in RecordType
           /\ Content(new) = Content(r) /\ new.by = r.by
           /\ new.reviews =
                  {e \in r.reviews : e.regions = r.regions /\ ~SameParty(e.by, review.by)}
                      \cup {review}
<1> DEFINE left == {e \in r.reviews : e.regions = r.regions /\ ~SameParty(e.by, review.by)}
                       \cup {review}
<1>1. Reviewed(r, review) = [r EXCEPT !.reviews = left]
  <2>1. {e \in {f \in r.reviews : f.regions = r.regions} : ~SameParty(e.by, review.by)}
            \cup {review} = left
    OBVIOUS
  <2> QED
    BY <2>1 DEF Reviewed
<1>2. left \in SUBSET Reviews
  BY DEF RecordType
<1> HIDE DEF left
<1>3. LET new == [r EXCEPT !.reviews = left] IN
      /\ new \in RecordType /\ new.reviews = left /\ new.by = r.by
      /\ Content(new) = Content(r)
  BY <1>2 DEF RecordType, Content
<1> QED
  BY <1>1, <1>3 DEF left

LEMMA ReviewTyped ==
    ASSUME NEW c \in Clients, NEW opinion \in Opinions, NEW regions \in Texts
    PROVE  [by |-> Who[c], regions |-> regions,
            verdict |-> opinion.verdict, items |-> opinion.items] \in Reviews
  BY ConformanceConstants DEF Reviews, Parties

\* What one client's move does to the calls.
LEMMA OneCallMoves ==
    ASSUME ConformanceTypes, NEW c \in Clients, NEW call, Moves(c, call)
    PROVE  /\ DOMAIN calls' = Clients /\ calls'[c] = call
           /\ \A e \in Clients : e # c => calls'[e] = calls[e]
  BY DEF ConformanceTypes, Moves

\* A client is on its way somewhere sound: the others stay where they were.
LEMMA CallsStaySound ==
    ASSUME ConformanceTypes, NEW c \in Clients, NEW call, Moves(c, call), CallSound(c)'
    PROVE  DOMAIN calls' = Clients /\ \A e \in Clients : CallSound(e)'
<1>1. ASSUME NEW e \in Clients, e # c
      PROVE  CallSound(e)'
  <2>1. calls'[e] = calls[e]
    BY <1>1, OneCallMoves
  <2> QED
    BY <1>1, <2>1 DEF CallSound, ConformanceTypes, AttestDerived, ReviewDerived
<1> QED
  BY <1>1, OneCallMoves

LEMMA IdleIsSound ==
    ASSUME ConformanceTypes, NEW c \in Clients, Moves(c, Idle)
    PROVE  DOMAIN calls' = Clients /\ \A e \in Clients : CallSound(e)'
<1>1. calls'[c] = Idle
  BY OneCallMoves
<1>2. CallSound(c)'
  BY <1>1 DEF CallSound, Idle
<1> QED
  BY <1>2, CallsStaySound

\* Attesting, as far as it goes: refused, nothing to write, or a write to come.
LEMMA AttestDoes ==
    ASSUME ConformanceTypes, NEW c \in Clients, NEW packet, NEW j \in Judgements,
           packet.decl \in Decls, packet.record \in MaybeRecord, Attest(c, packet, j)
    PROVE  DOMAIN calls' = Clients /\ \A e \in Clients : CallSound(e)'
<1> DEFINE d == packet.decl
           new == NewRecord(d, j, Who[c])
           call == [at |-> "write", call |-> "attest", decl |-> d, new |-> new,
                    derived |-> records[d], replaces |-> packet.record,
                    packet |-> packet, judgement |-> j]
<1>1. CASE Moves(c, Idle)
  BY <1>1, IdleIsSound
<1>2. CASE Moves(c, call) /\ ~Replays(d, new)
  <2>1. /\ new \in RecordType
        /\ new.reviews =
               IF AttestsTheSame(records[d], Content(new)) THEN records[d].reviews ELSE {}
    BY NewRecordTyped
  <2>2. records[d] \in MaybeRecord /\ new # records[d]
    BY <1>2 DEF ConformanceTypes, Replays
  <2> HIDE DEF new
  <2>3. AttestDerived(c, call)
    BY <2>1 DEF AttestDerived
  <2>4. calls'[c] = call
    BY <1>2, OneCallMoves
  <2>5. AttestDerived(c, calls'[c])
    BY <2>3, <2>4
  <2>6. CallSound(c)'
    <3> HIDE DEF d
    <3>1. /\ calls'[c].at = "write" /\ calls'[c].decl = d /\ calls'[c].new = new
          /\ calls'[c].derived = records[d] /\ calls'[c].replaces = packet.record
          /\ calls'[c].packet = packet /\ calls'[c].judgement = j
      BY <2>4
    <3>2. d \in Decls
      BY DEF d
    <3>3. packet.decl = d
      BY DEF d
    <3> QED
      BY <2>1, <2>2, <2>5, <3>1, <3>2, <3>3 DEF CallSound, AttestDerived
  <2> HIDE DEF call
  <2> QED
    BY <1>2, <2>6, CallsStaySound
<1> QED
  BY <1>1, <1>2 DEF Attest

LEMMA TypesInitially == Init => ConformanceTypes
<1> SUFFICES ASSUME Init PROVE ConformanceTypes
  OBVIOUS
<1>1. code \in [Decls -> Texts] /\ spec \in Specs
  BY ConformanceConstants DEF Init
<1>2. records \in [Decls -> MaybeRecord]
  BY DEF Init, MaybeRecord
<1>3. \A c \in Clients : CallSound(c)
  BY DEF Init, CallSound, Idle
<1> QED
  BY <1>1, <1>2, <1>3 DEF Init, ConformanceTypes

LEMMA TypesKept == ConformanceTypes /\ [Next]_vars => ConformanceTypes'
<1> SUFFICES ASSUME ConformanceTypes, [Next]_vars PROVE ConformanceTypes'
  OBVIOUS
<1> DEFINE CallsSound == DOMAIN calls' = Clients /\ \A e \in Clients : CallSound(e)'
<1>1. ASSUME UNCHANGED calls
      PROVE  CallsSound
  BY <1>1 DEF ConformanceTypes, CallSound, AttestDerived, ReviewDerived
<1>2. ASSUME UNCHANGED vars
      PROVE  ConformanceTypes'
  BY <1>1, <1>2 DEF ConformanceTypes, vars
<1>3. ASSUME EditCode \/ EditMatches \/ EditSpec
      PROVE  ConformanceTypes'
  <2>1. spec' \in Specs /\ code' \in [Decls -> Texts]
    BY <1>3 DEF ConformanceTypes, EditCode, EditMatches, EditSpec
  <2>2. UNCHANGED <<records, calls, crossed>>
    BY <1>3 DEF EditCode, EditMatches, EditSpec
  <2> QED
    BY <1>1, <2>1, <2>2 DEF ConformanceTypes
<1>4. ASSUME RemoveRecord
      PROVE  ConformanceTypes'
  <2>1. records' \in [Decls -> MaybeRecord]
    BY <1>4 DEF ConformanceTypes, RemoveRecord, MaybeRecord
  <2>2. UNCHANGED <<spec, code, calls, crossed>>
    BY <1>4 DEF RemoveRecord
  <2> QED
    BY <1>1, <2>1, <2>2 DEF ConformanceTypes
<1>5. ASSUME NEW c \in Clients, NEW d \in Decls, ReadPacket(c, d)
      PROVE  ConformanceTypes'
  <2> DEFINE call == [at |-> "read", decl |-> d, residual |-> spec.residual[d],
                      writers |-> spec.writers, record |-> records[d]]
  <2>1. Moves(c, call)
    BY <1>5 DEF ReadPacket
  <2>2. calls'[c] = call
    BY <2>1, OneCallMoves
  <2>3. CallSound(c)'
    BY <2>2 DEF CallSound, ConformanceTypes
  <2> HIDE DEF call
  <2>4. CallsSound
    BY <2>1, <2>3, CallsStaySound
  <2> QED
    BY <1>5, <2>4 DEF ConformanceTypes, ReadPacket
<1>6. ASSUME NEW c \in Clients, AttestFromPacket(c)
      PROVE  ConformanceTypes'
  <2>1. calls[c].decl \in Decls /\ calls[c].record \in MaybeRecord
    BY <1>6 DEF AttestFromPacket, ConformanceTypes, CallSound
  <2>2. CallsSound
    BY <1>6, <2>1, AttestDoes DEF AttestFromPacket
  <2> QED
    BY <1>6, <2>2 DEF ConformanceTypes, AttestFromPacket
<1>7. ASSUME NEW c \in Clients, RetryAttest(c)
      PROVE  ConformanceTypes'
  <2>1. /\ calls[c].packet.decl \in Decls /\ calls[c].packet.record \in MaybeRecord
        /\ calls[c].judgement \in Judgements
    BY <1>7 DEF RetryAttest, ConformanceTypes, CallSound
  <2>2. CallsSound
    BY <1>7, <2>1, AttestDoes DEF RetryAttest
  <2> QED
    BY <1>7, <2>2 DEF ConformanceTypes, RetryAttest
<1>8. ASSUME NEW c \in Clients, RecordReview(c)
      PROVE  ConformanceTypes'
  <2>1. calls[c].decl \in Decls /\ calls[c].record \in MaybeRecord
    BY <1>8 DEF RecordReview, ConformanceTypes, CallSound
  <2>2. PICK d \in Decls : d = calls[c].decl
    BY <2>1
  <2>3. PICK mine \in MaybeRecord : mine = calls[c].record
    BY <2>1
  <2>4. PICK opinion \in Opinions :
            LET new == Reviewed(records[d], [by |-> Who[c], regions |-> records[d].regions,
                                      verdict |-> opinion.verdict, items |-> opinion.items]) IN
            \/ Moves(c, Idle)
            \/ /\ Recorded(d) /\ new # records[d]
               /\ Moves(c, [at |-> "write", call |-> "review", decl |-> d, new |-> new,
                            derived |-> records[d], replaces |-> mine, opinion |-> opinion])
    BY <1>8, <2>2, <2>3 DEF RecordReview
  <2>5. CASE Moves(c, Idle)
    BY <1>8, <2>5, IdleIsSound DEF ConformanceTypes, RecordReview
  <2>6. CASE Recorded(d) /\ ~Moves(c, Idle)
    <3>1. PICK old \in RecordType : old = records[d] /\ old # NoRecord
      BY <2>6 DEF Recorded, ConformanceTypes, MaybeRecord
    <3> DEFINE review == [by |-> Who[c], regions |-> old.regions,
                          verdict |-> opinion.verdict, items |-> opinion.items]
    <3>2. PICK new \in RecordType : new = Reviewed(old, review)
      <4>1. old.regions \in Texts
        BY DEF RecordType
      <4>2. review \in Reviews
        BY <4>1, ReviewTyped
      <4> QED
        BY <4>2, ReviewedTyped
    <3>3. Moves(c, [at |-> "write", call |-> "review", decl |-> d, new |-> new,
                    derived |-> old, replaces |-> mine, opinion |-> opinion])
          /\ new # old
      BY <2>4, <2>6, <3>1, <3>2
    <3>4. calls'[c] = [at |-> "write", call |-> "review", decl |-> d, new |-> new,
                       derived |-> old, replaces |-> mine, opinion |-> opinion]
      BY <3>3, OneCallMoves
    <3>5. ReviewDerived(c, calls'[c])
      BY <3>1, <3>2, <3>4 DEF ReviewDerived
    <3>6. CallSound(c)'
      BY <3>3, <3>4, <3>5 DEF CallSound, MaybeRecord, ReviewDerived
    <3>7. CallsSound
      BY <3>3, <3>6, CallsStaySound
    <3> QED
      BY <1>8, <3>7 DEF ConformanceTypes, RecordReview
  <2> QED
    BY <2>4, <2>5, <2>6
<1>9. ASSUME NEW c \in Clients, WriteRecord(c)
      PROVE  ConformanceTypes'
  <2>1. calls[c].decl \in Decls /\ calls[c].new \in RecordType
    BY <1>9 DEF WriteRecord, ConformanceTypes, CallSound
  <2>2. records' \in [Decls -> MaybeRecord] /\ crossed' \in BOOLEAN
    BY <1>9, <2>1 DEF WriteRecord, ConformanceTypes, MaybeRecord
  <2>3. CASE Moves(c, Idle)
    BY <1>9, <2>2, <2>3, IdleIsSound DEF ConformanceTypes, WriteRecord
  <2>4. CASE /\ calls[c].call = "attest"
             /\ Moves(c, [at |-> "unanswered", packet |-> calls[c].packet,
                          judgement |-> calls[c].judgement, wrote |-> calls[c].new])
    <3>1. calls'[c] = [at |-> "unanswered", packet |-> calls[c].packet,
                       judgement |-> calls[c].judgement, wrote |-> calls[c].new]
      BY <2>4, OneCallMoves
    <3>2. /\ calls[c].judgement \in Judgements /\ calls[c].packet.decl \in Decls
          /\ calls[c].packet.record \in MaybeRecord
      BY <1>9, <2>4 DEF WriteRecord, ConformanceTypes, CallSound
    <3>3. CallSound(c)'
      BY <3>1, <3>2 DEF CallSound
    <3>4. CallsSound
      BY <2>4, <3>3, CallsStaySound
    <3> QED
      BY <1>9, <2>2, <3>4 DEF ConformanceTypes, WriteRecord
  <2> QED
    BY <1>9, <2>3, <2>4 DEF WriteRecord, Answered
<1>10. ASSUME NEW c \in Clients, GiveUp(c)
       PROVE  ConformanceTypes'
  BY <1>10, IdleIsSound DEF ConformanceTypes, GiveUp
<1> QED
  BY <1>2, <1>3, <1>4, <1>5, <1>6, <1>7, <1>8, <1>9, <1>10 DEF Next

LEMMA TypesHold == Spec => []ConformanceTypes
  BY TypesInitially, TypesKept, PTL DEF Spec

-----------------------------------------------------------------------------
(* A retried attest *)

\* A party that never had its answer and whose record stands has nothing to
\* write when it asks again, whatever was reviewed in between (attest.rs: "a
\* retry after a crash replays as a success").
THEOREM RetriesReplay == Spec => []RetryReplays
<1>1. ConformanceTypes => RetryReplays
  <2> SUFFICES ASSUME ConformanceTypes, NEW c \in Clients, calls[c].at = "unanswered",
                      NEW d, d = calls[c].packet.decl,
                      NEW again, again = NewRecord(d, calls[c].judgement, Who[c]),
                      Recorded(d), records[d].by = Who[c],
                      Content(records[d]) = Content(calls[c].wrote),
                      Content(again) = Content(calls[c].wrote)
               PROVE  Replays(d, again)
    BY DEF RetryReplays
  <2>1. d \in Decls /\ calls[c].judgement \in Judgements
    BY DEF ConformanceTypes, CallSound
  <2>2. records[d] \in RecordType
    BY <2>1 DEF ConformanceTypes, Recorded, MaybeRecord
  <2>3. /\ again \in RecordType /\ again.by = Who[c]
        /\ again.reviews =
               IF AttestsTheSame(records[d], Content(again)) THEN records[d].reviews ELSE {}
    BY <2>1, NewRecordTyped
  <2>4. AttestsTheSame(records[d], Content(again))
    BY DEF AttestsTheSame, Recorded
  <2>5. records[d] = again
    BY <2>2, <2>3, <2>4, RecordIs
  <2> QED
    BY <2>5 DEF Replays
<1> QED
  BY <1>1, TypesHold, PTL

-----------------------------------------------------------------------------
(* Reviews *)

\* What l says its party confirmed is what the review says.
Attests(l, d, r, review) ==
    /\ l.decl = d /\ l.name = review.by.name /\ l.of = Content(r)
    /\ l.confirmed = {target \in Targets(r) : SaysOf(review, Place(r, target)) = "confirmed"}

\* Each review on a record is of its regions, and its party read what it attests.
ReviewsRead ==
    crossed \/ \A d \in Decls : Recorded(d) =>
                  \A review \in records[d].reviews :
                      /\ review.regions = records[d].regions
                      /\ \E l \in looked : Attests(l, d, records[d], review)

ReviewInv == ConformanceTypes /\ ReviewsRead

\* What a write of one record on another keeps of the reviews, when what it
\* replaces is what it was derived from.
LEMMA WriteDoes ==
    ASSUME ConformanceTypes, NEW c \in Clients, WriteRecord(c), ~crossed',
           ~UNCHANGED <<records, looked>>
    PROVE  \E d \in Decls : \E old \in MaybeRecord : \E new \in RecordType :
              /\ ~crossed
              /\ old = records[d] /\ records'[d] = new
              /\ \A e \in Decls : e # d => records'[e] = records[e]
              /\ \/ /\ looked' = looked
                    /\ new.reviews = IF AttestsTheSame(old, Content(new))
                                     THEN old.reviews ELSE {}
                 \/ \E review \in Reviews :
                       /\ old \in RecordType /\ Recorded(d)
                       /\ review.regions = old.regions
                       /\ Content(new) = Content(old) /\ new.by = old.by
                       /\ new.reviews = {e \in old.reviews :
                              e.regions = old.regions /\ ~SameParty(e.by, review.by)}
                                  \cup {review}
                       /\ \E said : /\ Attests(said, d, old, review)
                                    /\ looked' = {l \in looked :
                                           \/ l.name # said.name \/ l.decl # said.decl
                                           \/ l.of # said.of} \cup {said}
<1>1. PICK d \in Decls : d = calls[c].decl
  BY DEF WriteRecord, ConformanceTypes, CallSound
<1>2. PICK new \in RecordType : new = calls[c].new
  BY DEF WriteRecord, ConformanceTypes, CallSound
<1>3. PICK old \in MaybeRecord : old = calls[c].derived
  BY DEF WriteRecord, ConformanceTypes, CallSound
<1>4. /\ ~crossed /\ records[d] = old /\ calls[c].replaces = old
      /\ records' = [records EXCEPT ![d] = new]
      /\ looked' = IF calls[c].call = "review" THEN Looked(c, calls[c]) ELSE looked
  BY <1>1, <1>2, <1>3 DEF WriteRecord, Replaceable
<1>5. records'[d] = new /\ \A e \in Decls : e # d => records'[e] = records[e]
  BY <1>4 DEF ConformanceTypes
<1>6. AttestDerived(c, calls[c]) \/ ReviewDerived(c, calls[c])
  BY DEF WriteRecord, ConformanceTypes, CallSound
<1>7. CASE AttestDerived(c, calls[c])
  BY <1>2, <1>3, <1>4, <1>5, <1>7 DEF AttestDerived
<1>8. CASE ReviewDerived(c, calls[c])
  <2>1. PICK opinion \in Opinions : opinion = calls[c].opinion
    BY <1>8 DEF ReviewDerived
  <2>2. old \in RecordType /\ old # NoRecord
    BY <1>3, <1>8 DEF ReviewDerived, MaybeRecord
  <2>3. PICK review \in Reviews :
            review = [by |-> Who[c], regions |-> old.regions,
                      verdict |-> opinion.verdict, items |-> opinion.items]
    <3>1. old.regions \in Texts
      BY <2>2 DEF RecordType
    <3> QED
      BY <3>1, ReviewTyped
  <2>4. new = Reviewed(old, review)
    BY <1>2, <1>3, <1>8, <2>1, <2>3 DEF ReviewDerived
  <2>5. /\ Content(new) = Content(old) /\ new.by = old.by
        /\ new.reviews = {e \in old.reviews :
               e.regions = old.regions /\ ~SameParty(e.by, review.by)} \cup {review}
    BY <2>2, <2>4, ReviewedTyped
  <2>6. review.regions = old.regions /\ review.by = Who[c]
        /\ review.verdict = opinion.verdict /\ review.items = opinion.items
    BY <2>3
  <2>7. Recorded(d)
    BY <1>4, <2>2 DEF Recorded
  <2>8. \A place : SaysOf(review, place) = SaysOf(opinion, place)
    BY <2>6 DEF SaysOf
  <2> DEFINE said == [name |-> Who[c].name, decl |-> d, of |-> Content(old),
                      confirmed |-> {target \in Targets(old) :
                          SaysOf(opinion, Place(old, target)) = "confirmed"}]
  <2>9. Attests(said, d, old, review)
    BY <2>6, <2>8 DEF Attests
  <2>10. looked' = {l \in looked : l.name # said.name \/ l.decl # said.decl \/ l.of # said.of}
                       \cup {said}
    BY <1>1, <1>4, <1>8, <2>1 DEF ReviewDerived, Looked
  <2> HIDE DEF said
  <2> QED
    BY <1>4, <1>5, <2>2, <2>5, <2>6, <2>7, <2>9, <2>10
<1> QED
  BY <1>6, <1>7, <1>8

\* All but a write leave the reviews as they are, or take a record away.
LEMMA OthersKeepReviews ==
    ASSUME ConformanceTypes, [Next]_vars
    PROVE  \/ /\ UNCHANGED <<looked, crossed>>
              /\ \A d \in Decls : records'[d] \in {records[d], NoRecord}
           \/ \E c \in Clients : WriteRecord(c)
<1>1. CASE RemoveRecord
  BY <1>1 DEF RemoveRecord, ConformanceTypes
<1>2. CASE UNCHANGED <<records, looked, crossed>>
  BY <1>2
<1> QED
  BY <1>1, <1>2 DEF Next, vars, EditCode, EditMatches, EditSpec, ReadPacket, AttestFromPacket,
                    RetryAttest, RecordReview, GiveUp

\* Contents alike, so the places of facts, and what a review says of them.
LEMMA SameContent ==
    ASSUME NEW r, NEW q, Content(r) = Content(q)
    PROVE  /\ r.regions = q.regions /\ r.facts = q.facts /\ r.claim = q.claim
           /\ \A l, d, review : Attests(l, d, r, review) <=> Attests(l, d, q, review)
<1>1. r.regions = q.regions /\ r.facts = q.facts /\ r.claim = q.claim
  BY DEF Content
<1>2. Targets(r) = Targets(q) /\ \A target : Place(r, target) = Place(q, target)
  BY <1>1 DEF Targets, Place
<1> QED
  BY <1>1, <1>2 DEF Attests

LEMMA ReviewsKept == ReviewInv /\ [Next]_vars => ReviewsRead'
<1> SUFFICES ASSUME ReviewInv, [Next]_vars, ~crossed', NEW d \in Decls, Recorded(d)',
                    NEW review \in records'[d].reviews
             PROVE  /\ review.regions = records'[d].regions
                    /\ \E l \in looked' : Attests(l, d, records'[d], review)
  BY DEF ReviewsRead, Recorded, Attests, Content, Targets, Place, SaysOf
<1>0. ConformanceTypes /\ ReviewsRead /\ records'[d] # NoRecord
  BY DEF ReviewInv, Recorded
<1>1. CASE /\ UNCHANGED <<looked, crossed>>
           /\ \A e \in Decls : records'[e] \in {records[e], NoRecord}
  BY <1>0, <1>1 DEF ReviewsRead, Recorded
<1>2. CASE UNCHANGED <<records, looked>>
  <2>1. ~crossed
    BY <1>0, OthersKeepReviews DEF WriteRecord
  <2> QED
    BY <1>0, <1>2, <2>1 DEF ReviewsRead, Recorded
<1>3. ASSUME NEW c \in Clients, WriteRecord(c), ~UNCHANGED <<records, looked>>
      PROVE  /\ review.regions = records'[d].regions
             /\ \E l \in looked' : Attests(l, d, records'[d], review)
  <2>1. PICK place \in Decls, old \in MaybeRecord, new \in RecordType :
              /\ ~crossed
              /\ old = records[place] /\ records'[place] = new
              /\ \A e \in Decls : e # place => records'[e] = records[e]
              /\ \/ /\ looked' = looked
                    /\ new.reviews = IF AttestsTheSame(old, Content(new))
                                     THEN old.reviews ELSE {}
                 \/ \E latest \in Reviews :
                       /\ old \in RecordType /\ Recorded(place)
                       /\ latest.regions = old.regions
                       /\ Content(new) = Content(old) /\ new.by = old.by
                       /\ new.reviews = {e \in old.reviews :
                              e.regions = old.regions /\ ~SameParty(e.by, latest.by)}
                                  \cup {latest}
                       /\ \E said : /\ Attests(said, place, old, latest)
                                    /\ looked' = {l \in looked :
                                           \/ l.name # said.name \/ l.decl # said.decl
                                           \/ l.of # said.of} \cup {said}
    BY <1>0, <1>3, WriteDoes
  <2>2. CASE /\ looked' = looked
             /\ new.reviews = IF AttestsTheSame(old, Content(new)) THEN old.reviews ELSE {}
    <3>1. CASE d # place
      BY <1>0, <2>1, <2>2, <3>1 DEF ReviewsRead, Recorded
    <3>2. CASE d = place
      <4>1. AttestsTheSame(old, Content(new)) /\ review \in old.reviews
        BY <2>1, <2>2, <3>2
      <4>2. Recorded(d) /\ Content(old) = Content(new) /\ review \in records[d].reviews
        BY <2>1, <3>2, <4>1 DEF AttestsTheSame, Recorded
      <4>3. /\ review.regions = old.regions
            /\ \E l \in looked : Attests(l, d, old, review)
        BY <1>0, <2>1, <3>2, <4>2 DEF ReviewsRead
      <4> QED
        BY <2>1, <2>2, <3>2, <4>2, <4>3, SameContent
    <3> QED
      BY <3>1, <3>2
  <2>3. ASSUME NEW latest \in Reviews,
               old \in RecordType, Recorded(place),
               latest.regions = old.regions,
               Content(new) = Content(old), new.by = old.by,
               new.reviews = {e \in old.reviews :
                   e.regions = old.regions /\ ~SameParty(e.by, latest.by)} \cup {latest},
               NEW said, Attests(said, place, old, latest),
               looked' = {l \in looked : \/ l.name # said.name \/ l.decl # said.decl
                                         \/ l.of # said.of} \cup {said}
        PROVE  /\ review.regions = records'[d].regions
               /\ \E l \in looked' : Attests(l, d, records'[d], review)
    <3>0. said.decl = place /\ said.name = latest.by.name
      BY <2>3 DEF Attests
    <3>1. CASE d # place
      <4>1. records'[d] = records[d] /\ Recorded(d)
        BY <1>0, <2>1, <3>1 DEF Recorded
      <4>2. PICK l \in looked : Attests(l, d, records[d], review)
        BY <1>0, <2>1, <4>1 DEF ReviewsRead
      <4>3. l \in looked'
        BY <2>3, <3>0, <3>1, <4>2 DEF Attests
      <4> QED
        BY <1>0, <2>1, <4>1, <4>2, <4>3 DEF ReviewsRead
    <3>2. CASE d = place /\ review = latest
      <4>1. Attests(said, d, new, review) /\ said \in looked'
        BY <2>3, <3>2, SameContent
      <4> QED
        BY <2>1, <2>3, <3>2, <4>1, SameContent
    <3>3. CASE d = place /\ review # latest
      <4>1. review \in old.reviews /\ ~SameParty(review.by, latest.by)
        BY <2>1, <2>3, <3>3
      <4>2. PICK l \in looked : Attests(l, d, old, review) /\ review.regions = old.regions
        BY <1>0, <2>1, <2>3, <3>3, <4>1 DEF ReviewsRead
      <4>3. l \in looked'
        BY <2>3, <3>0, <4>1, <4>2 DEF Attests, SameParty
      <4> QED
        BY <2>1, <2>3, <3>3, <4>2, <4>3, SameContent
    <3> QED
      BY <3>1, <3>2, <3>3
  <2> QED
    BY <2>1, <2>2, <2>3
<1> QED
  BY <1>0, <1>1, <1>2, <1>3, OthersKeepReviews

LEMMA ReviewsHold == Spec => []ReviewInv
<1>1. Init => ReviewInv
  BY TypesInitially DEF Init, ReviewInv, ReviewsRead, Recorded
<1>2. ReviewInv /\ [Next]_vars => ReviewInv'
  BY TypesKept, ReviewsKept DEF ReviewInv
<1> QED
  BY <1>1, <1>2, PTL DEF Spec

\* Where a declaration is derived as reviewed, another party than the attester
\* read what its record attests and confirmed each fact and claim that needs
\* it, unless a record came back byte for byte between a call's derivation and
\* its write (state.rs `confirms`, attest.rs `attests_the_same`, review.rs).
THEOREM ReviewsAreIndependent == Spec => []IndependentlyConfirmed
<1>1. ReviewInv => IndependentlyConfirmed
  <2> SUFFICES ASSUME ReviewInv, ~crossed, NEW d \in Decls, Recorded(d), ~Drifted(d),
                      ~Unreviewed(d), NEW target \in NeedsReview(d)
               PROVE  \E l \in looked :
                         /\ l.decl = d /\ l.name # records[d].by.name
                         /\ l.of = Content(records[d]) /\ target \in l.confirmed
    BY DEF IndependentlyConfirmed, ConfirmedByAReader
  <2>1. PICK review \in records[d].reviews : Confirms(review, records[d], target)
    BY DEF Unreviewed
  <2>2. PICK l \in looked : Attests(l, d, records[d], review)
    BY <2>1 DEF ReviewInv, ReviewsRead
  <2>3. target \in Targets(records[d])
    BY DEF NeedsReview
  <2> QED
    BY <2>1, <2>2, <2>3 DEF Confirms, SameParty, Attests
<1> QED
  BY <1>1, ReviewsHold, PTL

\* A record that goes on attesting the same loses no party's review but to a
\* later one of that party, whoever writes it (Records::write, Record::rebind).
THEOREM ReviewsAreKept == Spec => NoReviewLost
<1>1. ASSUME ReviewInv, [Next]_vars, NEW d \in Decls, Recorded(d), records'[d] # NoRecord,
             ~crossed', Content(records'[d]) = Content(records[d]),
             NEW review \in records[d].reviews
      PROVE  \E kept \in records'[d].reviews : /\ SameParty(kept.by, review.by)
                                               /\ review.regions = kept.regions
  <2>0. ConformanceTypes /\ ReviewsRead
    BY <1>1 DEF ReviewInv
  <2>1. CASE records'[d] = records[d]
    BY <2>1 DEF SameParty
  <2>2. ASSUME NEW c \in Clients, WriteRecord(c), records'[d] # records[d]
        PROVE  \E kept \in records'[d].reviews : /\ SameParty(kept.by, review.by)
                                                 /\ review.regions = kept.regions
    <3>1. PICK place \in Decls, old \in MaybeRecord, new \in RecordType :
              /\ ~crossed
              /\ old = records[place] /\ records'[place] = new
              /\ \A e \in Decls : e # place => records'[e] = records[e]
              /\ \/ new.reviews = IF AttestsTheSame(old, Content(new)) THEN old.reviews ELSE {}
                 \/ \E latest \in Reviews :
                       /\ latest.regions = old.regions
                       /\ new.reviews = {e \in old.reviews :
                              e.regions = old.regions /\ ~SameParty(e.by, latest.by)}
                                  \cup {latest}
      BY <1>1, <2>0, <2>2, WriteDoes
    <3>2. d = place
      BY <2>2, <3>1
    <3>3. review.regions = old.regions
      BY <1>1, <2>0, <3>1, <3>2 DEF ReviewsRead
    <3>4. CASE new.reviews = IF AttestsTheSame(old, Content(new)) THEN old.reviews ELSE {}
      <4>1. AttestsTheSame(old, Content(new))
        BY <1>1, <3>1, <3>2 DEF AttestsTheSame, Recorded
      <4> QED
        BY <1>1, <3>1, <3>2, <3>4, <4>1 DEF SameParty
    <3>5. ASSUME NEW latest \in Reviews, latest.regions = old.regions,
                 new.reviews = {e \in old.reviews :
                     e.regions = old.regions /\ ~SameParty(e.by, latest.by)} \cup {latest}
          PROVE  \E kept \in new.reviews : /\ SameParty(kept.by, review.by)
                                           /\ review.regions = kept.regions
      <4>1. CASE SameParty(review.by, latest.by)
        BY <3>3, <3>5, <4>1 DEF SameParty
      <4>2. CASE ~SameParty(review.by, latest.by)
        BY <1>1, <3>1, <3>2, <3>3, <3>5, <4>2 DEF SameParty
      <4> QED
        BY <4>1, <4>2
    <3> QED
      BY <3>1, <3>2, <3>4, <3>5
  <2> QED
    BY <1>1, <2>0, <2>1, <2>2, OthersKeepReviews
<1>2. ReviewInv /\ [Next]_vars =>
          \A d \in Decls :
              Recorded(d) /\ records'[d] # NoRecord /\ ~crossed'
                /\ Content(records'[d]) = Content(records[d])
              => \A review \in records[d].reviews : \E kept \in records'[d].reviews :
                     /\ SameParty(kept.by, review.by)
                     /\ review.regions = kept.regions
  BY <1>1
<1> QED
  BY <1>2, ReviewsHold, PTL DEF Spec, NoReviewLost

-----------------------------------------------------------------------------
(* What is derived of obligations *)

AllRounds == Cardinality(Obligations)

\* One round of either derivation, over sets of obligations.
SpreadRound ==
    [Z \in SUBSET Obligations |->
        Z \cup {o \in spec.proven : ~spec.relies[o] \subseteq spec.proven \ Z}]

RestsRound ==
    [R \in SUBSET Obligations |-> R \cup UNION {spec.relies[r] : r \in R \cap spec.proven}]

SpecTyped ==
    /\ spec.proven \in SUBSET Obligations
    /\ spec.relies \in [Obligations -> SUBSET Obligations]

LEMMA RoundsGrow ==
    ASSUME SpecTyped
    PROVE  Growing(SpreadRound, Obligations) /\ Growing(RestsRound, Obligations)
<1>1. \A Z \in SUBSET Obligations :
          Z \cup {o \in spec.proven : ~spec.relies[o] \subseteq spec.proven \ Z}
              \in SUBSET Obligations
  BY DEF SpecTyped
<1>2. \A R \in SUBSET Obligations :
          R \cup UNION {spec.relies[r] : r \in R \cap spec.proven} \in SUBSET Obligations
  BY DEF SpecTyped
<1>3. Growing(SpreadRound, Obligations)
  BY <1>1 DEF Growing, SpreadRound
<1>4. Growing(RestsRound, Obligations)
  BY <1>2 DEF Growing, RestsRound
<1> QED
  BY <1>3, <1>4

LEMMA SpreadComputes ==
    ASSUME SpecTyped, IsFiniteSet(Obligations)
    PROVE  Computes(Spread, AllRounds, SpreadRound, Blocked)
<1> DEFINE Step(X) == X \cup {o \in spec.proven : ~spec.relies[o] \subseteq spec.proven \ X}
<1>1. Spread = CHOOSE g : g = [n \in Nat |-> IF n = 0 THEN Blocked ELSE Step(g[n - 1])]
  BY DEF Spread
<1>2. PICK g : Rounds(g, Nat, SpreadRound, Blocked)
  BY RoundsExist
<1>3. /\ AllRounds \in Nat /\ Blocked \in SUBSET Obligations
      /\ Growing(SpreadRound, Obligations)
  BY FS_CardinalityType, RoundsGrow DEF AllRounds, Blocked, SpecTyped
<1>4. \A k \in Nat : Computes(g, k, SpreadRound, Blocked)
  BY <1>2, RoundsCompute
<1>5. ASSUME NEW n \in Nat PROVE g[n] \in SUBSET Obligations
  <2>1. n \in 0..n
    OBVIOUS
  <2> QED
    BY <1>3, <1>4, <2>1, RoundsTyped
<1>6. \A X \in SUBSET Obligations : SpreadRound[X] = Step(X)
  BY DEF SpreadRound
<1> HIDE DEF Step
<1>7. ASSUME NEW n \in Nat
      PROVE  g[n] = IF n = 0 THEN Blocked ELSE Step(g[n - 1])
  <2>1. g[n] = IF n = 0 THEN Blocked ELSE SpreadRound[g[n - 1]]
    BY <1>2 DEF Rounds
  <2>2. n # 0 => n - 1 \in Nat
    OBVIOUS
  <2> QED
    BY <1>5, <1>6, <2>1, <2>2
<1>8. g = [n \in Nat |-> g[n]]
  BY <1>2 DEF Rounds
<1>9. g = [n \in Nat |-> IF n = 0 THEN Blocked ELSE Step(g[n - 1])]
  BY <1>7, <1>8
<1>10. Spread = [n \in Nat |-> IF n = 0 THEN Blocked ELSE Step(Spread[n - 1])]
  BY <1>1, <1>9, Zenon
<1>11. ASSUME NEW n \in Nat
       PROVE  Spread[n] = IF n = 0 THEN Blocked ELSE Step(Spread[n - 1])
  BY <1>10
<1> DEFINE Good == {n \in Nat : Spread[n] = g[n]}
<1>12. 0 \in Good
  BY <1>7, <1>11
<1>13. ASSUME NEW n \in Nat, n \in Good PROVE n + 1 \in Good
  <2>1. n + 1 \in Nat /\ n + 1 # 0 /\ (n + 1) - 1 = n
    OBVIOUS
  <2>2. Spread[n + 1] = Step(Spread[n]) /\ g[n + 1] = Step(g[n])
    BY <1>7, <1>11, <2>1
  <2> QED
    BY <1>13, <2>1, <2>2
<1>14. \A n \in Nat : Spread[n] = g[n]
  <2> HIDE DEF Good
  <2>1. \A n \in Nat : n \in Good
    BY <1>12, <1>13, EveryNumber
  <2> QED
    BY <2>1 DEF Good
<1>15. Computes(Spread, AllRounds, SpreadRound, Blocked)
  <2>1. \A n \in 1..AllRounds : n \in Nat /\ n - 1 \in Nat
    BY <1>3
  <2> QED
    BY <1>3, <1>4, <1>14, <2>1 DEF Computes
<1> QED
  BY <1>15

LEMMA RestsComputes ==
    ASSUME SpecTyped, IsFiniteSet(Obligations), NEW o \in Obligations
    PROVE  \E g : RestsOn(o) = g[AllRounds] /\ Computes(g, AllRounds, RestsRound, {o})
<1> DEFINE Step(X) == X \cup UNION {spec.relies[r] : r \in X \cap spec.proven}
           G == CHOOSE g : g = [n \in Nat |-> IF n = 0 THEN {o} ELSE Step(g[n - 1])]
<1>1. RestsOn(o) = G[AllRounds]
  BY DEF RestsOn, AllRounds
<1>2. PICK g : Rounds(g, Nat, RestsRound, {o})
  BY RoundsExist
<1>3. AllRounds \in Nat /\ Growing(RestsRound, Obligations)
  BY FS_CardinalityType, RoundsGrow DEF AllRounds
<1>4. \A k \in Nat : Computes(g, k, RestsRound, {o})
  BY <1>2, RoundsCompute
<1>5. ASSUME NEW n \in Nat PROVE g[n] \in SUBSET Obligations
  <2>1. n \in 0..n
    OBVIOUS
  <2> QED
    BY <1>3, <1>4, <2>1, RoundsTyped
<1>6. \A X \in SUBSET Obligations : RestsRound[X] = Step(X)
  BY DEF RestsRound
<1> HIDE DEF Step
<1>7. ASSUME NEW n \in Nat
      PROVE  g[n] = IF n = 0 THEN {o} ELSE Step(g[n - 1])
  <2>1. g[n] = IF n = 0 THEN {o} ELSE RestsRound[g[n - 1]]
    BY <1>2 DEF Rounds
  <2>2. n # 0 => n - 1 \in Nat
    OBVIOUS
  <2> QED
    BY <1>5, <1>6, <2>1, <2>2
<1>8. g = [n \in Nat |-> g[n]]
  BY <1>2 DEF Rounds
<1>9. g = [n \in Nat |-> IF n = 0 THEN {o} ELSE Step(g[n - 1])]
  BY <1>7, <1>8
<1>10. G = [n \in Nat |-> IF n = 0 THEN {o} ELSE Step(G[n - 1])]
  BY <1>9, Zenon
<1> HIDE DEF G
<1>11. \A n \in Nat : G[n] = IF n = 0 THEN {o} ELSE Step(G[n - 1])
  BY <1>10
<1> DEFINE Good == {n \in Nat : G[n] = g[n]}
<1>12. 0 \in Good
  BY <1>7, <1>11
<1>13. ASSUME NEW n \in Nat, n \in Good PROVE n + 1 \in Good
  <2>1. n + 1 \in Nat /\ n + 1 # 0 /\ (n + 1) - 1 = n
    OBVIOUS
  <2>2. G[n + 1] = Step(G[n]) /\ g[n + 1] = Step(g[n])
    BY <1>7, <1>11, <2>1
  <2> QED
    BY <1>13, <2>1, <2>2
<1>14. \A n \in Nat : G[n] = g[n]
  <2> HIDE DEF Good
  <2>1. \A n \in Nat : n \in Good
    BY <1>12, <1>13, EveryNumber
  <2> QED
    BY <2>1 DEF Good
<1> QED
  BY <1>1, <1>3, <1>4, <1>14

\* What fails, and what relies on it or on something unproven, is out; what is
\* left relies on nothing that is out.
LEMMA ConformantIsClosed ==
    ASSUME SpecTyped, IsFiniteSet(Obligations)
    PROVE  /\ Conformant \subseteq spec.proven \ Blocked
           /\ \A o \in Conformant : spec.relies[o] \subseteq Conformant
<1> DEFINE Z == Spread[AllRounds]
<1>1. Computes(Spread, AllRounds, SpreadRound, Blocked)
  BY SpreadComputes
<1>2. Blocked \in SUBSET Obligations /\ AllRounds \in Nat /\ AllRounds \in 0..AllRounds
  BY FS_CardinalityType DEF Blocked, SpecTyped, AllRounds
<1>3. SpreadRound[Z] = Z /\ Z \in SUBSET Obligations
  <2>1. Growing(SpreadRound, Obligations)
    BY RoundsGrow
  <2>2. SpreadRound[Z] = Z
    BY <1>1, <1>2, <2>1, RoundsSettle DEF AllRounds
  <2>3. Z \in SUBSET Obligations
    BY <1>1, <1>2, <2>1, RoundsTyped
  <2> QED
    BY <2>2, <2>3
<1>4. \A o \in spec.proven : ~(spec.relies[o] \subseteq spec.proven \ Z) => o \in Z
  <2>1. SpreadRound[Z] = Z \cup {o \in spec.proven : ~spec.relies[o] \subseteq spec.proven \ Z}
    BY <1>3 DEF SpreadRound
  <2> HIDE DEF Z
  <2> QED
    BY <1>3, <2>1
<1>5. Blocked \subseteq Z
  BY <1>1, <1>2, RoundsHold, RoundsGrow
<1>6. Conformant = spec.proven \ Z
  BY DEF Conformant, AllRounds
<1> QED
  BY <1>4, <1>5, <1>6

LEMMA RestsIsClosed ==
    ASSUME SpecTyped, IsFiniteSet(Obligations), NEW o \in Obligations
    PROVE  /\ o \in RestsOn(o)
           /\ \A r \in RestsOn(o) \cap spec.proven : spec.relies[r] \subseteq RestsOn(o)
<1>1. PICK g : RestsOn(o) = g[AllRounds] /\ Computes(g, AllRounds, RestsRound, {o})
  BY RestsComputes
<1>2. AllRounds \in Nat /\ AllRounds \in 0..AllRounds /\ {o} \in SUBSET Obligations
  BY FS_CardinalityType DEF AllRounds
<1>3. Growing(RestsRound, Obligations)
  BY RoundsGrow
<1>4. g[AllRounds] \in SUBSET Obligations /\ {o} \subseteq g[AllRounds]
  BY <1>1, <1>2, <1>3, RoundsTyped, RoundsHold
<1>5. RestsRound[g[AllRounds]] = g[AllRounds]
  BY <1>1, <1>2, <1>3, RoundsSettle DEF AllRounds
<1>6. RestsRound[g[AllRounds]] =
          g[AllRounds] \cup UNION {spec.relies[r] : r \in g[AllRounds] \cap spec.proven}
  BY <1>4 DEF RestsRound
<1> QED
  BY <1>1, <1>4, <1>5, <1>6

\* What an obligation rests on lies in every set that has it and what its
\* proven members rely on.
LEMMA RestsIsLeast ==
    ASSUME SpecTyped, IsFiniteSet(Obligations), NEW o \in Obligations, NEW X, o \in X,
           \A r \in X \cap spec.proven : spec.relies[r] \subseteq X
    PROVE  RestsOn(o) \subseteq X
<1>1. PICK g : RestsOn(o) = g[AllRounds] /\ Computes(g, AllRounds, RestsRound, {o})
  BY RestsComputes
<1>2. AllRounds \in Nat /\ AllRounds \in 0..AllRounds /\ {o} \in SUBSET Obligations
  BY FS_CardinalityType DEF AllRounds
<1>3. Growing(RestsRound, Obligations)
  BY RoundsGrow
<1>4. \A Y \in SUBSET Obligations : Y \subseteq X => RestsRound[Y] \subseteq X
  BY DEF RestsRound
<1> QED
  BY <1>1, <1>2, <1>3, <1>4, RoundsStayWithin

\* What spreads lies in every set that has what is blocked, and what relies on
\* it or on what is not proven.
LEMMA ConformantIsGreatest ==
    ASSUME SpecTyped, IsFiniteSet(Obligations), NEW X, Blocked \subseteq X,
           \A Y \in SUBSET Obligations : Y \subseteq X =>
               \A o \in spec.proven : ~(spec.relies[o] \subseteq spec.proven \ Y) => o \in X
    PROVE  spec.proven \ X \subseteq Conformant
<1>1. Computes(Spread, AllRounds, SpreadRound, Blocked)
  BY SpreadComputes
<1>2. Blocked \in SUBSET Obligations /\ AllRounds \in Nat /\ AllRounds \in 0..AllRounds
  BY FS_CardinalityType DEF Blocked, SpecTyped, AllRounds
<1>3. Growing(SpreadRound, Obligations)
  BY RoundsGrow
<1>4. ASSUME NEW Y \in SUBSET Obligations, Y \subseteq X PROVE SpreadRound[Y] \subseteq X
  <2>1. SpreadRound[Y] = Y \cup {o \in spec.proven : ~spec.relies[o] \subseteq spec.proven \ Y}
    BY DEF SpreadRound
  <2> QED
    BY <1>4, <2>1
<1>5. Spread[AllRounds] \subseteq X
  BY <1>1, <1>2, <1>3, <1>4, RoundsStayWithin
<1> QED
  BY <1>5 DEF Conformant, AllRounds

\* What blocks an obligation is a condition of a declaration.
LEMMA BlockedIsReported ==
    ASSUME NEW o \in Blocked, spec \in SpecType
    PROVE  Reported(o)
<1>0. o \in spec.proven /\ o \in Obligations
  BY DEF Blocked, SpecType
<1>1. CASE FactBlocked(o)
  <2>1. PICK f \in spec.basis[o] : \E d \in spec.implementers[f] :
            f \notin Attested(d) \/ d \notin Declared(spec) \/ Drifted(d)
    BY <1>1 DEF FactBlocked
  <2>2. PICK d \in spec.implementers[f] :
            f \notin Attested(d) \/ d \notin Declared(spec) \/ Drifted(d)
    BY <2>1
  <2>3. f \in RequiredFacts(spec, d)
    BY <1>0, <2>1, <2>2 DEF RequiredFacts, ReliedOn
  <2> QED
    BY <2>1, <2>2, <2>3 DEF Reported, MissingFacts
<1>2. CASE StructureBlocked(o)
  <2>1. PICK d \in spec.anchors[o] :
            ~Structural(d) \/ d \notin Declared(spec) \/ Stale(d) \/ Drifted(d)
    BY <1>2 DEF StructureBlocked
  <2>2. RequiresStructure(spec, d)
    BY <1>0, <2>1 DEF RequiresStructure
  <2> QED
    BY <2>1, <2>2 DEF Reported, MissingFacts
<1>3. CASE ClaimBlocked(o)
  BY <1>3 DEF ClaimBlocked, Reported
<1> QED
  BY <1>1, <1>2, <1>3 DEF Blocked

LEMMA DerivationsMeet ==
    ASSUME spec \in SpecType, IsFiniteSet(Obligations)
    PROVE  DerivationsAgree
<1>0. SpecTyped
  BY DEF SpecTyped, SpecType
<1>1. ASSUME NEW o \in Conformant
      PROVE  o \in spec.proven /\ RestsOn(o) \subseteq spec.proven \ Blocked
  <2>1. Conformant \subseteq spec.proven \ Blocked
        /\ \A p \in Conformant : spec.relies[p] \subseteq Conformant
    BY <1>0, ConformantIsClosed
  <2>2. o \in Obligations
    BY <1>0, <2>1 DEF SpecTyped
  <2>3. RestsOn(o) \subseteq Conformant
    BY <1>0, <2>1, <2>2, RestsIsLeast
  <2> QED
    BY <2>1, <2>3
<1>2. ASSUME NEW o \in spec.proven, RestsOn(o) \subseteq spec.proven \ Blocked
      PROVE  o \in Conformant
  <2> DEFINE X == Obligations \ RestsOn(o)
  <2>1. o \in Obligations
    BY <1>0 DEF SpecTyped
  <2>2. o \in RestsOn(o)
        /\ \A r \in RestsOn(o) \cap spec.proven : spec.relies[r] \subseteq RestsOn(o)
    BY <1>0, <2>1, RestsIsClosed
  <2>3. Blocked \subseteq X
    BY <1>0, <1>2 DEF SpecTyped, Blocked
  <2>4. ASSUME NEW Y \in SUBSET Obligations, Y \subseteq X, NEW p \in spec.proven,
               p \notin X
        PROVE  spec.relies[p] \subseteq spec.proven \ Y
    <3>1. p \in RestsOn(o)
      BY <1>0, <2>4 DEF SpecTyped
    <3>2. spec.relies[p] \subseteq RestsOn(o)
      BY <2>2, <3>1
    <3> QED
      BY <1>2, <2>4, <3>2
  <2> HIDE DEF X
  <2>5. spec.proven \ X \subseteq Conformant
    BY <1>0, <2>3, <2>4, ConformantIsGreatest
  <2> QED
    BY <2>1, <2>2, <2>5 DEF X
<1>3. Conformant \subseteq spec.proven
  BY DEF Conformant
<1>4. \A o \in Blocked : Reported(o)
  BY BlockedIsReported
<1> QED
  BY <1>1, <1>2, <1>3, <1>4 DEF DerivationsAgree

\* An obligation conforms exactly when all it comes to rely on, through proven
\* obligations and in cycles too, is proven and has nothing in its way; and what
\* is in the way of one is a condition some declaration's own state reports
\* (state.rs `conformance`).
THEOREM DerivationsCoincide == Spec => []DerivationsAgree
<1>1. ReviewInv => DerivationsAgree
  BY DerivationsMeet, ConformanceConstants DEF ReviewInv, ConformanceTypes
<1> QED
  BY <1>1, ReviewsHold, PTL

===============================================================================
