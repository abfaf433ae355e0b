------------------------------ MODULE SpecChange ------------------------------
(***************************************************************************)
(* The difference of two specifications: src/design/change/ (partition.rs, *)
(* diff.rs, mutation.rs) over the bases of VerdictBasis.                   *)
(*                                                                         *)
(* A specification is partitioned into declarations, each with what it     *)
(* declares; a change is read off them alone.  Every obligation of either  *)
(* side is in one class, and an obligation whose verdict moved is          *)
(* explained by the changed declarations its verdicts read.  The           *)
(* catalogue's mutations are the edits: each is one step of a head that    *)
(* starts as the base, and the difference is taken after each.             *)
(***************************************************************************)
EXTENDS VerdictBasis

CONSTANTS Baselines,  \* the specifications a base may be
          MaxEdits    \* how many edits a head is away from its base

ASSUME MaxEditsAssumption == MaxEdits \in Nat

VARIABLES base,       \* the base specification; no template: none yet
          head,       \* the edited one
          edits,      \* how many edits made it
          last,       \* the last of them
          analyses,   \* both sides' obligations, with their grounds
          diff        \* the obligations' entries in the diff document

changeVars == <<base, head, edits, last, analyses, diff>>

(***************************************************************************)
(* The partition.                                                          *)
(***************************************************************************)

Requirement(k) == <<"requirement", k>>

RequirementKeys(M) ==
    {<<"serializable", t>> : t \in {u \in Templates(M) : M.templates[u].serial}}
    \cup UNION {{<<"ordered", t, r.key>> : r \in M.templates[t].ordering} : t \in Templates(M)}

PositionOf(M, k) == (CHOOSE r \in M.templates[k[2]].ordering : r.key = k[3]).position

(* What each declaration declares: a transaction's requirements are        *)
(* declarations of their own, and no part of the transaction's residual.   *)
Members(M) ==
    [k \in {TransactionKey(t) : t \in Templates(M)} \cup {ObjectKey(o) : o \in DOMAIN M.schema}
           \cup {Requirement(r) : r \in RequirementKeys(M)} |->
        CASE k[1] = "transaction" -> [iso |-> M.templates[k[2]].iso, steps |-> M.templates[k[2]].steps]
          [] k[1] = "object"      -> M.schema[k[2]]
          [] k[1] = "requirement" -> IF k[2][1] = "ordered" THEN PositionOf(M, k[2]) ELSE <<>>]

ChangedDeclarations(B, H) ==
    LET b == Members(B)
        h == Members(H)
    IN  {k \in DOMAIN b \cup DOMAIN h :
            ~(k \in DOMAIN b /\ k \in DOMAIN h) \/ b[k] # h[k]}

(***************************************************************************)
(* The obligation diff.                                                    *)
(***************************************************************************)

Facts(v) == v.grounds.present \cup v.grounds.missing

(* What a query's result names, beside the anchors of the fact. *)
QueryMembers(fact) ==
    {TransactionKey(t) : t \in
        CASE fact.kind = "conflict_closure"  -> {fact.root} \cup fact.members
          [] fact.kind = "cyclic_components" -> {fact.root} \cup UNION fact.components
          [] OTHER -> {}}

(* What falsifies an absence on a side: the transactions with a deletion. *)
AbsenceMembers(fact, M) ==
    {TransactionKey(t) : t \in {u \in Templates(M) :
        /\ fact.kind = "no_deleters"
        /\ \E i \in DOMAIN M.templates[u].steps :
              LET s == M.templates[u].steps[i]
              IN  s.kind = "delete" /\ s.sel.object = fact.object}}

ReadFrom(v, sides) ==
    v.grounds.read
    \cup (UNION {QueryMembers(fact) : fact \in Facts(v)})
    \cup (UNION {AbsenceMembers(fact, M) : fact \in Facts(v), M \in sides})

SameBlockedOn(v, w) ==
    /\ v.grounds.present = w.grounds.present
    /\ v.grounds.missing = w.grounds.missing
    /\ v.grounds.anchors = w.grounds.anchors

(* Mutant: two proofs are compared by how many facts they rest on. *)
ClassBySize(v, w) ==
    CASE v.proven /\ ~w.proven -> "regressed"
      [] ~v.proven /\ w.proven -> "improved"
      [] v.proven /\ w.proven  ->
            IF Cardinality(v.grounds.present) = Cardinality(w.grounds.present)
            THEN "held" ELSE "rebased"
      [] ~v.proven /\ ~w.proven -> "unproven"

(* The class of an obligation both sides have. *)
MatchedClass(v, w) ==
    CASE v.proven /\ ~w.proven -> "regressed"
      [] ~v.proven /\ w.proven -> "improved"
      [] v.proven /\ w.proven  ->
            IF v.grounds.present = w.grounds.present THEN "held" ELSE "rebased"
      [] ~v.proven /\ ~w.proven -> "unproven"

Entry(class, blocked, restated, explained) ==
    [class |-> class, blocked_on_changed |-> blocked, restated |-> restated, explained_by |-> explained]

(* What both verdicts read and the edit changed. *)
Matched(B, H, changed, k, v, w) ==
    LET class == MatchedClass(v, w)
    IN  Entry(class, class = "unproven" /\ ~SameBlockedOn(v, w),
              k[1] = "ordered" /\ PositionOf(B, k) # PositionOf(H, k),
              (ReadFrom(v, {B, H}) \cup ReadFrom(w, {B, H})) \cap changed)

SubjectDeclarations(k) == {TransactionKey(k[2])}

(* On one side only: explained by its requirement, and by its transaction   *)
(* if that came or went with it.                                           *)
Unmatched(class, with, changed, k) ==
    Entry(class, FALSE, FALSE, ({Requirement(k)} \cap changed) \cup (SubjectDeclarations(k) \cap with))

ObligationDiff(B, H, ours, theirs) ==
    LET changed == ChangedDeclarations(B, H)
        gone == DOMAIN Members(B) \ DOMAIN Members(H)
        come == DOMAIN Members(H) \ DOMAIN Members(B)
    IN  [k \in DOMAIN ours \cup DOMAIN theirs |->
            IF k \notin DOMAIN theirs THEN Unmatched("removed", gone, changed, k)
            ELSE IF k \notin DOMAIN ours THEN Unmatched("added", come, changed, k)
            ELSE Matched(B, H, changed, k, ours[k], theirs[k])]

MustExplain(entry) ==
    \/ entry.class \in {"regressed", "improved", "rebased"}
    \/ entry.class = "unproven" /\ entry.blocked_on_changed

Unexplained(entries) ==
    {k \in DOMAIN entries : MustExplain(entries[k]) /\ entries[k].explained_by = {}}

(* The entries a document leaves out. *)
Quiet(entry) ==
    /\ entry.class = "held" \/ (entry.class = "unproven" /\ ~entry.blocked_on_changed)
    /\ ~entry.restated /\ entry.explained_by = {}

(***************************************************************************)
(* The catalogue of mutations.                                             *)
(***************************************************************************)

NoMutation == [kind |-> "", tx |-> 0, sel |-> [object |-> "", pins |-> {}], arg |-> "", step |-> 0, key |-> <<>>]

Weaker(iso) ==
    CASE iso = "serializable"   -> {"unspecified", "snapshot"}
      [] iso = "snapshot"       -> {"unspecified", "read_committed"}
      [] iso = "read_committed" -> {"unspecified"}
      [] iso = "unspecified"    -> {}

(* The first step that selects the object by values in scope after a commit. *)
SelectedInScope(M, t, o) ==
    LET found == {i \in DOMAIN M.templates[t].steps :
                    LET s == M.templates[t].steps[i]
                    IN  s.kind # "insert" /\ s.sel.object = o /\ \A p \in s.sel.pins : p[2][1] # "read"}
    IN  {i \in found : i = LeastOf(found)}

StepsAt(M, t, kinds) == {i \in DOMAIN M.templates[t].steps : M.templates[t].steps[i].kind \in kinds}

RemovableLocks(M, t) ==
    {[NoMutation EXCEPT !.kind = "remove_lock", !.tx = t,
                        !.sel = M.templates[t].steps[i].sel, !.arg = M.templates[t].steps[i].lock]
        : i \in StepsAt(M, t, {"lock"})}

Weakenings(M, t) ==
    {[NoMutation EXCEPT !.kind = "set_isolation", !.tx = t, !.arg = iso] : iso \in Weaker(M.templates[t].iso)}

Unguardings(M, t) ==
    {[NoMutation EXCEPT !.kind = "compare_and_set_to_update", !.tx = t, !.sel.object = M.templates[t].steps[i].sel.object]
        : i \in StepsAt(M, t, {"compare_and_set"})}

Deleters(M, t) ==
    {[NoMutation EXCEPT !.kind = "add_deleter", !.tx = t, !.sel = M.templates[t].steps[i].sel]
        : i \in UNION {SelectedInScope(M, t, o) : o \in {x \in DOMAIN M.schema : M.schema[x].version # NoField}}}

(* The steps whose selector may widen: the others pin their target.        *)
Widenable == {"read", "update", "delete", "lock"}

Widenings(M, t) ==
    {[NoMutation EXCEPT !.kind = "widen_selector", !.tx = t, !.step = i]
        : i \in {j \in StepsAt(M, t, Widenable) : M.templates[t].steps[j].sel.pins # {}}}

Removals(M) ==
    {[NoMutation EXCEPT !.kind = "remove_requirement", !.tx = k[2], !.key = k] : k \in RequirementKeys(M)}

Catalogue(M) ==
    Removals(M) \cup UNION {RemovableLocks(M, t) \cup Weakenings(M, t) \cup Unguardings(M, t)
                             \cup Deleters(M, t) \cup Widenings(M, t) : t \in Templates(M)}

(* A deleter goes right after the transaction that selected its target.    *)
WithDeleter(M, m) ==
    [M EXCEPT !.templates = Append(@,
        [M.templates[m.tx] EXCEPT !.iso = "unspecified", !.serial = FALSE, !.ordering = {},
            !.steps = <<[M.templates[m.tx].steps[1] EXCEPT !.kind = "delete", !.sel = m.sel, !.compare = {}]>>])]

WithoutRequirement(M, m) ==
    IF m.key[1] = "serializable" THEN [M EXCEPT !.templates[m.tx].serial = FALSE]
    ELSE [M EXCEPT !.templates[m.tx].ordering = {r \in @ : r.key # m.key[3]}]

Apply(M, m) ==
    LET steps(S) == [M EXCEPT !.templates[m.tx].steps = S]
        of == M.templates[m.tx].steps
    IN  CASE m.kind = "remove_lock" ->
                steps(SelectSeq(of, LAMBDA s : ~(s.kind = "lock" /\ s.sel = m.sel /\ s.lock = m.arg)))
          [] m.kind = "set_isolation" -> [M EXCEPT !.templates[m.tx].iso = m.arg]
          [] m.kind = "compare_and_set_to_update" ->
                steps([i \in DOMAIN of |->
                    IF of[i].kind = "compare_and_set" /\ of[i].sel.object = m.sel.object
                    THEN [of[i] EXCEPT !.kind = "update", !.compare = {}] ELSE of[i]])
          [] m.kind = "add_deleter" -> WithDeleter(M, m)
          [] m.kind = "widen_selector" -> steps([of EXCEPT ![m.step].sel.pins = {}])
          [] m.kind = "remove_requirement" -> WithoutRequirement(M, m)

(* Whether the fact names exactly what the mutation takes away. *)
Falsifies(m, fact) ==
    \/ m.kind = "remove_lock" /\ fact = LockStated(m.tx, m.sel, m.arg)
    \/ m.kind = "set_isolation" /\ fact.kind = "isolation" /\ fact.tx = m.tx /\ fact.level # m.arg
    \/ /\ m.kind = "compare_and_set_to_update" /\ fact.kind = "guarded_mutation"
       /\ fact.mechanism = "compare_and_set" /\ fact.tx = m.tx /\ fact.object = m.sel.object
    \/ m.kind = "add_deleter" /\ fact = NoDeleters(m.sel.object)

(***************************************************************************)
(* The edits.                                                              *)
(***************************************************************************)

ChangeInit ==
    /\ base \in Baselines /\ head = base
    /\ edits = 0 /\ last = NoMutation
    /\ analyses = [side \in {"base", "head"} |-> Obligations(base)]
    /\ diff = <<>>

Edit ==
    /\ edits < MaxEdits
    /\ \E m \in Catalogue(head) :
          /\ head' = Apply(head, m)
          /\ last' = m
          /\ edits' = edits + 1
          /\ analyses' = [analyses EXCEPT !.head = Obligations(head')]
          /\ diff' = ObligationDiff(base, head', analyses.base, analyses'.head)
    /\ UNCHANGED base

(* The difference the other way: the edited side is the base.              *)
TurnRound ==
    /\ edits > 0 /\ last # NoMutation
    /\ base' = head /\ head' = base
    /\ last' = NoMutation
    /\ analyses' = [base |-> analyses.head, head |-> analyses.base]
    /\ diff' = ObligationDiff(head, base, analyses.head, analyses.base)
    /\ UNCHANGED edits

ChangeNext == Edit \/ TurnRound

ChangeSpec == ChangeInit /\ [][ChangeNext]_changeVars

(***************************************************************************)
(* What a difference promises.                                             *)
(***************************************************************************)

(* obligation_diff.rs:173-199: a proof that relied on a fact the mutation  *)
(* falsifies is neither held nor left out of the listing.                  *)
NoneHeldOnFalsified ==
    edits = 1 =>
        \A k \in DOMAIN analyses.base :
            LET before == analyses.base[k]
            IN  before.proven /\ (\E fact \in before.grounds.present : Falsifies(last, fact))
                => diff[k].class # "held" /\ ~Quiet(diff[k])

(* Two specifications whose objects are the same. *)
Comparable(B, H) == WellFormed(B) /\ WellFormed(H) /\ B.schema = H.schema

(* diff.rs:18-23, "a verdict that changed while nothing it read from       *)
(* changed is an extraction defect": whatever mutations made the head, a   *)
(* verdict or a basis that moved names a changed declaration, and none     *)
(* that a mutation took a fact from is reported as before.  The two sides  *)
(* are still well formed, and have the same objects.                       *)
ChangesAreExplained ==
    /\ Comparable(base, head)
    /\ Unexplained(diff) = {}
    /\ NoneHeldOnFalsified

(* SPEC_CHANGE_ANALYSIS.md:142, "every regressed, improved, or rebased      *)
(* entry ... must be explained", and diff.rs:18-23: a verdict proven on a   *)
(* side and moved, or whose basis moved, read a declaration the edit        *)
(* changed.  It is not so of a requirement restated, which no ordering      *)
(* verdict anchors (extract.rs:839-952), nor of what an unproven verdict    *)
(* lacks, which is not all read.                                            *)
VerdictsAreExplained ==
    \A k \in DOMAIN diff :
        diff[k].class \in {"regressed", "improved", "rebased"} /\ ~diff[k].restated
            => diff[k].explained_by # {}

(* The specification without what the facts do not name: the isolation,    *)
(* locks and comparisons of the transactions.                              *)
Stripped(M, facts) ==
    [M EXCEPT !.templates = [t \in Templates(M) |->
        [M.templates[t] EXCEPT
            !.iso = IF \E x \in facts : x.kind = "isolation" /\ x.tx = t THEN @ ELSE "unspecified",
            !.steps = LET kept == SelectSeq(@, LAMBDA s :
                              s.kind = "lock" => LockStated(t, s.sel, s.lock) \in facts)
                      IN  [i \in DOMAIN kept |->
                            IF kept[i].kind = "compare_and_set"
                               /\ ~\E x \in facts : x.kind = "guarded_mutation" /\ x.tx = t
                                        /\ x.mechanism = "compare_and_set"
                                        /\ x.object = kept[i].sel.object
                            THEN [kept[i] EXCEPT !.kind = "update", !.compare = {}] ELSE kept[i]]]]]

(* A basis is every fact the proof consumed: what it does not name can all *)
(* be withdrawn at once, and the verdict stays.                            *)
BasisSuffices ==
    LET reports == analyses.head
    IN  \A k \in DOMAIN reports :
            k[1] = "serializable" /\ reports[k].proven =>
                SerializabilityProven(Stripped(head, reports[k].grounds.present), k[2])
=============================================================================
