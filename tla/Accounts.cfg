SPECIFICATION Spec

CONSTANTS
  Goroutines = {g1, g2}
  Passwords = {p1, p2}
  Credentials <- Rivals
  Names = {n1, n2}
  AccessTTL = 1
  RefreshTTL = 0
  MaxTime = 1
  MaxSessions = 3
  MaxProjects = 1
  MaxDocuments = 5

SYMMETRY Symmetric

INVARIANT AccountsTypeOK
INVARIANT OneAccountPerEmail
INVARIANT WelcomeHolds
INVARIANT ExchangedIsGone
INVARIANT ExpiredIsUseless
PROPERTY OnlyOwnerRenames
