\* A request made before a redirect, and checked out after it, stores its client.
SPECIFICATION Spec
CONSTANTS
    t1 = t1  t2 = t2  t3 = t3  h1 = h1  h2 = h2  in1 = in1  ls = ls
    Home = home  elsewhere = elsewhere
    Threads = {t1, t2, t3}
    Situations <- SharedHandle
    RefreshEnabled = TRUE
INVARIANTS
    EveryFailureExcused
CHECK_DEADLOCK FALSE
