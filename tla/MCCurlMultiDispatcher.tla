----------------------- MODULE MCCurlMultiDispatcher -----------------------
(* CurlMultiDispatcher for TLC.                                            *)
EXTENDS CurlMultiDispatcher

CONSTANTS w1, w2, w3

Situation(callers, fails, n) ==
    [callers |-> callers, can_alloc_fail |-> fails, max_calls |-> n]

\* Two workers that call again and again, with and without allocations that
\* fail, and three that call once.
Regular ==
    [two   |-> Situation({w1, w2}, FALSE, 2),
     fails |-> Situation({w1, w2}, TRUE, 2),
     three |-> Situation({w1, w2, w3}, FALSE, 1)]

\* One worker; two whose allocations fail.
One == [one |-> Situation({w1}, FALSE, 1)]
Fails == [fails |-> Situation({w1, w2}, TRUE, 1)]
=============================================================================
