\* The screen of a session whose connection has failed.
CONSTANTS
    alice = alice bob = bob l1 = l1 l2 = l2 x1 = x1 x2 = x2 None = None
    Tokens <- BothUsers
    Logins <- TwoLogins
    Attempts <- TwoAttempts
SPECIFICATION FairSpec
PROPERTY ConnectionErrorReturns
