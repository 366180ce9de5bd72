SPECIFICATION LiveSpec
CONSTANTS
  c3 = c3
  Calls = {c1, c2}
  Signatures = {"s", "other"}
  Sig <- MCSame
  Resolvers = {w1}
  None = None
INVARIANTS ActionJustified OpenTicketAttended WaiterReachable
PROPERTIES KeepsConsent CallEnds
