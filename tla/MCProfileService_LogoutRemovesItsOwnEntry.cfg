CONSTANTS
    p1 = p1
    p2 = p2
    r1 = r1
    r2 = r2
    agency = agency
    client = client
    ta = ta
    tb = tb
    NoRef = NoRef
    NoToken = NoToken
    NoProcess = NoProcess
    NoProfile = NoProfile
    Company = {agency, client}
    Token = {ta, tb}
    TokenCompany <- TokensOfTwoCompanies
    Process = {p1, p2}
    Ref = {r1}
    Isolated = FALSE

SPECIFICATION FairSpec
PROPERTY LogoutRemovesItsOwnEntry
