CONSTANTS
    Readers = {r1, r2}
    Claimers = {t1}
    MaxSeq = 4
    Callers = {p1, p2}
    Styles = {"rotates"}
    MaxGrants = 3
    MaxCrashes = 1
    SignIns = {s1, s2}
    Finishers = {h1, h2}
    Providers = {"codex", "antigravity", "github", "declared"}
SPECIFICATION MCAccountSpec
CHECK_DEADLOCK FALSE
INVARIANTS
    FreshAfterClaim
    RotatedTokenKept
    PresentsLive
    SignInsEndWhole
PROPERTIES
    ReadersReturn
    NoSecondRotation
    CallersReturn
