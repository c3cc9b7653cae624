SPECIFICATION FairSpec
CONSTANTS
    t1 = t1
    t2 = t2
    Tabs = {t1, t2}
    Routes = {"units", "rules", "audit"}
    MaxLogins = 2
    None = None
INVARIANTS
    TypeOK
    OneLogin
    FreshAfterLogout
    ShellReturns
PROPERTY NavigationSettles
