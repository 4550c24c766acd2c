\* Two workers with two calls each, three with one; shutdown at any moment.
SPECIFICATION FairSpec
CONSTANTS
    w1 = w1
    w2 = w2
    w3 = w3
    Workers = {w1, w2, w3}
    Situations <- Regular
INVARIANTS
    FramesAlive
    DetachedOnReturn
    ResultIsOwn
    NoWorkerForgottenInMemory
PROPERTIES
    EverybodyReturns
