CONSTANTS
    Accounts <- MCAccounts
    Requests = {r1}
    Exchanging = {"c"}
    OAuth = {"c"}
    Ciphered = {r1}
    Streaming = {r1}
    Answers <- MCAnswers
    MaxAttempts = 3
SPECIFICATION FairFailoverSpec
CHECK_DEADLOCK FALSE
INVARIANTS
    SendsBounded
    RenewedBeforeRefusal

    
