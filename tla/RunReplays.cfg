SPECIFICATION Spec
CONSTANTS
  Process = {p1, p2}
  Gene = {g1, g2}
  GeneBudget = 2
  MaxReviews = 2
INVARIANTS OneInvocation FeedbackFollowsRecord UsesMatchFeedback
SYMMETRY Symmetric
