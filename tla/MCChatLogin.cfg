SPECIFICATION FairSpec
CONSTANTS
  Gate = {g1}
  Agent = {a1, a2}
  Ticket = {t1, t2}
  Token = {k1, k2}
  None = None
  MaxTokens = 2
  MaxDeaths = 1
INVARIANTS OneAgentPerTicket VerifiedHoldCurrentToken
PROPERTIES RequestsAnswered
CHECK_DEADLOCK FALSE
