----------------------------- MODULE MCAsyncPool -----------------------------
(* The pool on a small instance.  Tasks are interchangeable: naming them    *)
(* 1..n and letting n be the n-th one pushed leaves one behaviour of every  *)
(* symmetric family, also where liveness is checked.                        *)
EXTENDS AsyncPool

InPushOrder == \A t \in Tasks : stamp'[t] \in {0, t}
OrderedSpec == Init /\ [][Next /\ InPushOrder]_vars /\ Fairness
=============================================================================
