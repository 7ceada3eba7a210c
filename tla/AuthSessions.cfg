SPECIFICATION FairSpec
CONSTANTS
    s1 = s1  t1 = t1  t2 = t2  t3 = t3  r1 = r1  c1 = c1  w1 = w1  w2 = w2
    None = None
    Account = Account
    Sessions <- OneSession
    Tokens <- ThreeTokens
    Resets <- OneReset
    Challenges <- OneChallenge
    Handlers <- TwoHandlers
    MaxAttempts = 2
    MaxSent = 1
INVARIANTS AuthTypeOK OneLiveToken UsedOnce GuessesBounded
PROPERTIES ChainKept ChangeEndsSessions RequestsEnd
CHECK_DEADLOCK FALSE
