SPECIFICATION SignUpSpec
CONSTANTS
  Emails = {e1, e2}
  Cards = {k1}
  Marked = {k1}
  NoCard = NoCard
  MaxCalls = 4
  MaxEvents = 2
SYMMETRY EmailSymmetry
INVARIANTS
  AccountsApart
  SignInWorks
  VerifiedByLink
CHECK_DEADLOCK FALSE
