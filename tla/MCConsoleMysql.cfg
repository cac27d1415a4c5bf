CONSTANTS
    Focusable = {"service"}

    s1 = s1
    s2 = s2
    t1 = t1
    t2 = t2
    TokenIds = {t1, t2}
    NoId = NoId
    Scopes = {s1, s2}
    FirstGrants <- MCFirstGrants
    MaxTokenCalls = 2
    MaxTokenChanges = 1

    r1 = r1
    r2 = r2
    pa = pa
    pb = pb
    pc = pc
    Roles = {r1, r2}
    NewRole = NewRole
    Perms = {pa, pb, pc}
    Builtin = {pa, pb}
    FirstKnown = {pa, pb, pc}
    FirstRoles <- MCFirstRoles
    Implied <- MCImplied
    Groups <- MCGroups
    MaxRoleCalls = 2
    MaxRoleChanges = 1

    root = root
    ann = ann
    bob = bob
    Accounts = {root, ann, bob}
    NewUser = NewUser
    Self = root
    SelfIsRoot = TRUE
    RoleNames = {"dev", "ops"}
    NoRole = "-"
    DefaultRole = "dev"
    TopRole = "dev"
    FirstAccounts <- MCFirstAccounts
    FirstNames = {"dev"}
    MaxUserCalls = 2
    MaxUserChanges = 1

    Others = {"u", "v"}
    Nobody = "-"
    MaxPwdActs = 6

    pA = pA
    pB = pB
    Projects = {pA, pB}
    NoProject = NoProject
    Gitlab = {pA}
    ReadsIid = {pA}
    IdOf <- MCIdOf
    FirstBuilds <- MCFirstBuilds
    MaxRuns = 2
    PageSize = 1
    PullFailLimit = 2
    MaxLoads = 2
    MaxClicks = 3

    Filters = {"all", "one"}
    NoFilter = "all"
    HasNotice = TRUE
    MaxLogPages = 3
    MaxLogLoads = 2
    MaxLogClicks = 4

    Texts = {"", "x"}
    NoText = ""
    FirstHits <- MCFirstHits
    PerPage = 2
    MaxHits = 3
    MaxSearchLoads = 2
    MaxSearchClicks = 4

    MaxWaiting = 2
    MaxFlips = 3

    Driver = "mysql"
    ServiceTokens = {k1, k2}
    NoToken = NoToken
    MaxOrders = 2
    MaxServiceActs = 3

    Platforms = {"a", "b"}
    Settings = {"", "x"}
    Blank = ""
    MaxPosts = 2
    MaxEdits = 4
SPECIFICATION ConsoleSpec
CHECK_DEADLOCK FALSE
INVARIANT FrozenTokenIsDead
