SPECIFICATION FairSpec
CONSTANTS
  Rids = {r1, r2}
  Pks = {p1, p2}
  Queries = {q1, q2}
  Ctxs = {x1}
  NoEntry = NoEntry
  NoCtx = NoCtx
  Exts = {"schema"}
  NoSub = NoSub
  Faults = {"kill", "race", "lose"}
INVARIANTS RouterInv AnswerTellsTheTruth RespondersReleased
PROPERTIES AnswersFindTheirResponder EveryRequestAnswered 
CHECK_DEADLOCK FALSE
