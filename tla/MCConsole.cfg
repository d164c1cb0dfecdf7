CONSTANTS
    Call = {1, 2}
    t1 = t1
    Tab = {t1}
    TabOf <- Tabs
    Called = {"ListDevices", "DeleteRole"}
    Granted = {"ListDevices"}
    AccessTTL = 1
    RefreshTTL = 2
    StateTTL = 1
    Margin = 0
    MaxTime = 2
    MaxLogins = 2
    MaxVersion = 3
    MaxLost = 1
    MaxId = 3
    Time = {1, 2}
    Names = {1, 2}
    PageSizes = {0, 1}
    MaxEvents = 2
SPECIFICATION MCSpec
INVARIANTS RefreshedOnce OneSessionPerLogin ListingIsComplete
PROPERTIES LoginsStayApart RequestsSettle
CHECK_DEADLOCK FALSE
