------------------------------ MODULE MCTreePage ------------------------------
(***************************************************************************)
(* TreePage with what the canvas shows, and a query only a dialog shows.   *)
(***************************************************************************)
EXTENDS TreePage, FiniteSets

Log == [tree |-> "live", of |-> "audit"]
MCKey == {Graph("live"), Log}

\* Bound of the instance: two dialogs are at work together only while the
\* activity log was not opened, or has been forgotten again.
Busy == {j \in Job : jobs[j].phase # "unused"}
LogUnused == ~page.activity /\ cache[Log].data = "none" /\ ~Loading(Log, cache)

MCNext ==
  \/ \E k \in Key : Settle(k) \/ Forget(k)
  \/ \E t \in Tree : Go(t)
  \/ Cardinality(Busy) <= 1 /\ ToggleActivity
  \/ \E j \in Job : \/ (Busy = {} \/ LogUnused) /\ Submit(j)
                    \/ Serve(j) \/ Fail(j) \/ After(j)

MCSpec == Init /\ [][MCNext]_vars /\ Fairness
===============================================================================
