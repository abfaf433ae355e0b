SPECIFICATION Spec
CONSTANTS
    Decls = {"t", "o"}
    Carrier = "o"
    Facts = {1, 2}
    Obligations = {"held", "ordered", "replayed"}
    Specs <- MCSpecs
    Texts = {{}, {1}, {1, 2}}
    Written <- MCWritten
    Clients = {"ann1", "ann2", "bob"}
    Who <- MCWho
    Judgements <- MCJudgements
    Opinions <- MCOpinions
    MaxMoves = 1
    MaxCalls = 3
INVARIANTS IndependentlyConfirmed RetryReplays DerivationsAgree
PROPERTIES NoReviewLost
CHECK_DEADLOCK FALSE
