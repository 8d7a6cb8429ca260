---------------------------- MODULE RevertLedger ----------------------------
(***************************************************************************)
(* What the audit log promises about reverts, whatever is being reverted:  *)
(* the log only grows, an entry is undone at most once, and each undo      *)
(* leaves an entry of its own that names the entry it undid.               *)
(***************************************************************************)
EXTENDS Naturals, Sequences

VARIABLE log

\* revertible: the entry carries a snapshot; reverted: reverted_at is set;
\* undoes: the index of the entry a REVERT entry names, 0 for other entries.
LogEntry == [revertible : BOOLEAN, reverted : BOOLEAN, undoes : Nat]

LedgerInit == log = << >>

Record == \E r \in BOOLEAN :
  log' = Append(log, [revertible |-> r, reverted |-> FALSE, undoes |-> 0])

Undo(i) ==
  /\ log[i].revertible
  /\ ~log[i].reverted
  /\ log' = Append([log EXCEPT ![i].reverted = TRUE],
                   [revertible |-> FALSE, reverted |-> FALSE, undoes |-> i])

LedgerNext == Record \/ \E i \in DOMAIN log : Undo(i)

LedgerSpec == LedgerInit /\ [][LedgerNext]_log

----------------------------------------------------------------------------
\* An entry is undone exactly when one later entry says so, and by only one.
UndoneOnce ==
  /\ \A i \in DOMAIN log : log[i].reverted => \E j \in DOMAIN log : log[j].undoes = i
  /\ \A j \in DOMAIN log : log[j].undoes # 0 =>
       /\ log[j].undoes \in 1 .. (j - 1)
       /\ log[log[j].undoes].reverted
       /\ log[log[j].undoes].revertible
  /\ \A j, k \in DOMAIN log : log[j].undoes = log[k].undoes /\ log[j].undoes # 0 => j = k

LedgerTypeOK == log \in Seq(LogEntry)
=============================================================================
