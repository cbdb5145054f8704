CONSTANTS
    Servers = {primary, companion}
    Primary = primary
    Texts = {t1, t2}
    NoText = NoText
    Budgets <- Mixed
SPECIFICATION FairSpec
INVARIANTS
    TypeOK
    BaselineIsServerText
    ServersAreSound
    RequestsSeeCurrentText
PROPERTIES
    EventuallySynced
CHECK_DEADLOCK FALSE
