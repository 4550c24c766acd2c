\* The situations of MCS3AuthRefresh.
SPECIFICATION Spec
CONSTANTS
    t1 = t1  t2 = t2  t3 = t3  h1 = h1  h2 = h2  in1 = in1  ls = ls
    Home = home  elsewhere = elsewhere
    Threads = {t1, t2, t3}
    Situations <- Regular
    RefreshEnabled = TRUE
INVARIANTS
    SingleFlight
    NoSpuriousFailure
    ClientsOfCurrentHost
    RequestsEnd
CHECK_DEADLOCK FALSE
