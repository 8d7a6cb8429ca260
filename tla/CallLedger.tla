------------------------------ MODULE CallLedger ------------------------------
(***************************************************************************)
(* What api/client.ts promises the code that calls get, post, patch, put   *)
(* or del: a call is sent, it may be sent once more after a silent         *)
(* refresh, and it ends, answered or rejected, unless the page is left.    *)
(* No call stays pending for ever.                                         *)
(***************************************************************************)
CONSTANT Call

VARIABLE call

Open == {"sent", "resent"}

TypeOK == call \in [Call -> Open \cup {"unsent", "ok", "rejected", "gone"}]

Init == call = [c \in Call |-> "unsent"]

Send(c) == call[c] = "unsent" /\ call' = [call EXCEPT ![c] = "sent"]

End(c) ==
  /\ call[c] \in Open
  /\ \E s \in {"ok", "rejected"} : call' = [call EXCEPT ![c] = s]

\* One refresh lets every call that waited for it go again.
Resend == \E S \in SUBSET {c \in Call : call[c] = "sent"} :
  /\ S # {}
  /\ call' = [c \in Call |-> IF c \in S THEN "resent" ELSE call[c]]

LeavePage == call' = [c \in Call |-> IF call[c] \in Open THEN "gone" ELSE call[c]]

Next == Resend \/ LeavePage \/ \E c \in Call : Send(c) \/ End(c)

NothingPendsForEver == \A c \in Call : (call[c] \in Open) ~> (call[c] \notin Open)

Spec == Init /\ [][Next]_call /\ NothingPendsForEver
===============================================================================
