SPECIFICATION Spec
CONSTANTS
    s1 = s1
    s2 = s2
    Servers <- MCServers
    Calls = {c1, c2, c3}
    Bob = Bob
    bob = bob
    boss = boss
    Emails <- MCEmails
    LowerCase <- MCLowerCase
    Reserved = {boss}
    SuperAdminEmail <- MCSuperAdminEmail
    Failures = {"lost"}
SYMMETRY Symmetry
INVARIANTS TypeOK AcknowledgedAccountIsMine SessionIsMyOwn OneAccountPerOrganization SecondSuperAdminWasOverlooked SpentInvitationMadeAccount
CHECK_DEADLOCK FALSE
