SPECIFICATION Spec
CONSTANTS
    s1 = s1
    s2 = s2
    c1 = c1
    c2 = c2
    here = here
    there = there
    Before <- MCBefore
    MessageTypes = {"action", "response"}
    Identifiers = {"action", "response", "again"}
    Members <- MCMembers
    Nothing = Nothing
    Again <- MCAgain
    Servers = {s1, s2}
    Clients = {c1, c2}
    Addresses = {here, there}
    Reporting = {s1}
    Nobody = Nobody
    MaxCrashes = 1
\* It may stop: every endpoint is destroyed in the end.
CHECK_DEADLOCK FALSE
SYMMETRY MCSymmetry
INVARIANTS
    TypeOK
    SlotsGetTheirType
    NameIsTheServers
    SlotsAreReady
