CONSTANTS
    root = root
    dev = dev
    NoUser = NoUser
    Users <- MCUsers
    RightsOf <- MCRightsOf
    Forced <- MCForced
    Tabs <- MCTabs
    Needs <- MCNeeds
    NoRight = "none"
    Elsewhere = Elsewhere
    MaxLogins = 2
    MaxFlights = 2
SPECIFICATION Spec
INVARIANTS SessTypeOK StoredSessionIsTheShownOne LogoutNamesADroppedSession
PROPERTIES EndedSessionIsNoticed
