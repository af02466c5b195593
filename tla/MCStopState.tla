---------------------------- MODULE MCStopState ----------------------------
(* Callbacks are interchangeable but for the order in which they are        *)
(* constructed: in this instance they are constructed in one order.         *)
EXTENDS StopState

InOrder == \A c \in Callbacks : life'[c] # "new" => \A d \in Callbacks : d < c => life'[d] # "new"
OrderedSpec == Init /\ [][Next /\ InOrder]_vars /\ \A t \in Threads : WF_vars(Proceed(t))
=============================================================================
