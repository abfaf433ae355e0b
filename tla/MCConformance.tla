--------------------------- MODULE MCConformance ---------------------------
(* Two declarations, two facts and three obligations, of which two rely on *)
(* each other; an agent with two jobs and a person.                        *)
EXTENDS Conformance

\* The transaction t provides the facts; the object o carries the claim and
\* provides the second fact too.
Sound ==
    [residual |-> [d \in Decls |-> 1],
     implementers |-> [f \in Facts |-> IF f = 1 THEN {"t"} ELSE {"t", "o"}],
     proven |-> {"held", "ordered", "replayed"},
     basis |-> [p \in Obligations |-> IF p = "held" THEN {1} ELSE IF p = "ordered" THEN {2} ELSE {}],
     anchors |-> [p \in Obligations |-> IF p = "replayed" THEN {"t"} ELSE {}],
     relies |-> [p \in Obligations |-> CASE p = "held" -> {}
                                         [] p = "ordered" -> {"replayed"}
                                         [] OTHER -> {"ordered"}],
     closed |-> {"held"},
     writers |-> {"t"}]

\* The transaction is rewritten, and one proof is lost.
Rewritten == [Sound EXCEPT !.residual = [@ EXCEPT !["t"] = 2], !.proven = @ \ {"replayed"}]

\* The object is gone from the spec, and nothing is required of it.
Dropped == [Sound EXCEPT !.residual = [@ EXCEPT !["o"] = Gone],
                         !.implementers = [f \in Facts |-> {"t"}],
                         !.closed = {}, !.writers = {}]

MCSpecs == {Sound, Rewritten, Dropped}

Party(name, job) == [name |-> name, job |-> job]
MCWho == [c \in Clients |-> CASE c = "ann1" -> Party("ann", 1)
                              [] c = "ann2" -> Party("ann", 2)
                              [] OTHER -> Party("bob", 0)]

MCWritten == {[d \in Decls |-> {1}]}

Judge(facts, structural, claim) == [facts |-> facts, structural |-> structural, claim |-> claim]
MCJudgements == {Judge({1, 2}, TRUE, FALSE), Judge({2}, FALSE, TRUE), Judge({1}, FALSE, FALSE)}

Says(verdict, items) == [verdict |-> verdict, items |-> items]
MCOpinions == {Says("confirmed", <<>>), Says("disputed", [i \in {1} |-> "confirmed"])}

=============================================================================
