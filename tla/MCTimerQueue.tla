---------------------------- MODULE MCTimerQueue ----------------------------
\* Small instances of TimerQueue.
EXTENDS TimerQueue

\* With Ids = Timers: a timer's identifier decides its address.
OneAddressEach == \A t \in Live' \ Live : timer'[t].id = t

\* The application does not terminate timers, it removes them.
NoTerminate == \A u \in Users : call'[u].op # "terminate"

OneAddressSpec == Init /\ [][Next /\ OneAddressEach /\ NoTerminate]_vars /\ Fairness
=============================================================================
