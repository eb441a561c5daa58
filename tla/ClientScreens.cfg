\* Two users, two sign-ins and two connects, with relaunches.
CONSTANTS
    alice = alice bob = bob l1 = l1 l2 = l2 x1 = x1 x2 = x2 None = None
    Tokens <- BothUsers
    Logins <- TwoLogins
    Attempts <- TwoAttempts
SPECIFICATION FairSpec
INVARIANTS ScreensConsistent MachinesAreTheTokens SessionsAreOwned LogoutHolds
PROPERTIES ConnectingEnds GivenUpAttemptEnds
