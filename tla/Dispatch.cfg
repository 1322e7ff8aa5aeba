\* One service launches and kills another and is told of every exit; threads run.
CONSTANTS
    a = a  b = b  w1 = w1  w2 = w2  t1 = t1
    None = None
    Worker = {w1, w2}
    Poster = {t1}
    Handle = {a, b}
    Boot <- BootOne
    MonitorExit = a
    Weight <- WeightsOneAll
    MaxSend = 2
SPECIFICATION FairSpec
INVARIANTS TypeOK NoStrandedMail OneOwner NoUseAfterFree ReleaseOnce InitBeforeDispatch QuitOnlyWhenEmpty
PROPERTIES ImplementsActors MailDelivered ServicesReclaimed
CHECK_DEADLOCK FALSE
