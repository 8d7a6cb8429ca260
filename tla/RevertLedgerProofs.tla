------------------------- MODULE RevertLedgerProofs -------------------------
(***************************************************************************)
(* The ledger of undos keeps its promise: whatever entries are recorded,   *)
(* and in whatever order they are undone, an entry is undone at most once. *)
(***************************************************************************)
EXTENDS RevertLedger, SequenceTheorems, TLAPS

\* An append keeps the entries of a log and puts the new one behind them.
LEMMA Appended ==
  ASSUME NEW S, NEW s \in Seq(S), NEW e \in S
  PROVE  /\ Append(s, e) \in Seq(S)
         /\ DOMAIN s = 1 .. Len(s) /\ Len(s) \in Nat
         /\ Len(Append(s, e)) = Len(s) + 1
         /\ DOMAIN Append(s, e) = 1 .. (Len(s) + 1)
         /\ \A k \in 1 .. Len(s) : Append(s, e)[k] = s[k] /\ s[k] \in S
         /\ Append(s, e)[Len(s) + 1] = e
  <1>1. Append(s, e) \in Seq(S) /\ Len(Append(s, e)) = Len(s) + 1 /\ Len(s) \in Nat
    BY LenProperties
  <1>2. DOMAIN s = 1 .. Len(s) /\ DOMAIN Append(s, e) = 1 .. (Len(s) + 1)
    BY <1>1, LenProperties
  <1>3. \A k \in 1 .. Len(s) : s[k] \in S
    BY ElementOfSeq
  <1>4. \A k \in 1 .. Len(s) : Append(s, e)[k] = s[k]
    OBVIOUS
  <1>5. Append(s, e)[Len(s) + 1] = e
    OBVIOUS
  <1> QED
    BY <1>1, <1>2, <1>3, <1>4, <1>5

\* A mark replaces one entry and an append puts a new one behind them all.
LEMMA MarkedAndAppended ==
  ASSUME NEW S, NEW s \in Seq(S), NEW i \in 1 .. Len(s), NEW m \in S, NEW e \in S
  PROVE  LET r == Append([s EXCEPT ![i] = m], e)
         IN  /\ r \in Seq(S)
             /\ DOMAIN s = 1 .. Len(s) /\ Len(s) \in Nat
             /\ Len(r) = Len(s) + 1
             /\ DOMAIN r = 1 .. (Len(s) + 1)
             /\ \A k \in 1 .. Len(s) : r[k] = IF k = i THEN m ELSE s[k]
             /\ \A k \in 1 .. Len(s) : s[k] \in S
             /\ r[Len(s) + 1] = e
  <1> DEFINE t == [s EXCEPT ![i] = m]
  <1>1. /\ t \in Seq(S) /\ Len(t) = Len(s)
        /\ \A k \in 1 .. Len(s) : t[k] = IF k = i THEN m ELSE s[k]
    BY ExceptSeq
  <1> HIDE DEF t
  <1>2. DOMAIN s = 1 .. Len(s) /\ Len(s) \in Nat /\ \A k \in 1 .. Len(s) : s[k] \in S
    BY LenProperties, ElementOfSeq
  <1>3. /\ Append(t, e) \in Seq(S)
        /\ Len(Append(t, e)) = Len(t) + 1
        /\ DOMAIN Append(t, e) = 1 .. (Len(t) + 1)
        /\ \A k \in 1 .. Len(t) : Append(t, e)[k] = t[k]
        /\ Append(t, e)[Len(t) + 1] = e
    BY <1>1, Appended
  <1>4. /\ Append(t, e) \in Seq(S)
        /\ Len(Append(t, e)) = Len(s) + 1
        /\ DOMAIN Append(t, e) = 1 .. (Len(s) + 1)
        /\ \A k \in 1 .. Len(s) : Append(t, e)[k] = IF k = i THEN m ELSE s[k]
        /\ Append(t, e)[Len(s) + 1] = e
    BY <1>1, <1>3
  <1> QED
    BY <1>2, <1>4 DEF t

\* A log seen through a function of its entries.
Mapped(F, s) == [k \in DOMAIN s |-> F[s[k]]]

LEMMA MappedSeq ==
  ASSUME NEW S, NEW F \in [S -> LogEntry], NEW s \in Seq(S)
  PROVE  /\ Mapped(F, s) \in Seq(LogEntry)
         /\ Len(Mapped(F, s)) = Len(s) /\ DOMAIN Mapped(F, s) = 1 .. Len(s)
         /\ DOMAIN s = 1 .. Len(s) /\ Len(s) \in Nat
         /\ \A k \in 1 .. Len(s) : s[k] \in S /\ Mapped(F, s)[k] = F[s[k]] /\ F[s[k]] \in LogEntry
  <1>1. DOMAIN s = 1 .. Len(s) /\ Len(s) \in Nat /\ \A k \in 1 .. Len(s) : s[k] \in S
    BY LenProperties, ElementOfSeq
  <1>2. Mapped(F, s) \in [1 .. Len(s) -> LogEntry]
    BY <1>1 DEF Mapped
  <1> QED
    BY <1>1, <1>2, SeqDef DEF Mapped

\* An appended entry is appended to what is seen of the log.
LEMMA MappedAppend ==
  ASSUME NEW S, NEW F \in [S -> LogEntry], NEW s \in Seq(S), NEW e \in S
  PROVE  Mapped(F, Append(s, e)) = Append(Mapped(F, s), F[e])
  <1> DEFINE r == Append(s, e)
             m == Mapped(F, r)
             n == Append(Mapped(F, s), F[e])
  <1>1. /\ r \in Seq(S) /\ Len(s) \in Nat /\ Len(r) = Len(s) + 1
        /\ \A k \in 1 .. Len(s) : r[k] = s[k]
        /\ r[Len(s) + 1] = e
    BY Appended
  <1> HIDE DEF r
  <1>2. /\ Mapped(F, s) \in Seq(LogEntry) /\ Len(Mapped(F, s)) = Len(s)
        /\ \A k \in 1 .. Len(s) : Mapped(F, s)[k] = F[s[k]]
    BY MappedSeq
  <1>3. /\ m \in Seq(LogEntry) /\ Len(m) = Len(s) + 1
        /\ \A k \in 1 .. (Len(s) + 1) : m[k] = F[r[k]]
    BY <1>1, MappedSeq
  <1>4. /\ n \in Seq(LogEntry) /\ Len(n) = Len(s) + 1
        /\ \A k \in 1 .. Len(s) : n[k] = Mapped(F, s)[k]
        /\ n[Len(s) + 1] = F[e]
    BY <1>2, Appended
  <1> HIDE DEF m, n
  <1>5. ASSUME NEW k \in 1 .. (Len(s) + 1) PROVE m[k] = n[k]
    <2>1. CASE k = Len(s) + 1
      BY <2>1, <1>1, <1>3, <1>4
    <2>2. CASE k # Len(s) + 1
      <3>1. k \in 1 .. Len(s)
        BY <2>2, <1>1
      <3> QED BY <3>1, <1>1, <1>2, <1>3, <1>4
    <2> QED BY <2>1, <2>2
  <1>6. m = n
    BY <1>3, <1>4, <1>5, SeqEqual
  <1> QED BY <1>6 DEF m, n, r

\* A log with entry i replaced, and one with entry i marked.
Replaced(s, i, m) == [s EXCEPT ![i] = m]

Marked(l, i) == [l EXCEPT ![i].reverted = TRUE]

\* A revert, which marks an entry and appends its own, is seen as just that.
LEMMA MappedUndo ==
  ASSUME NEW S, NEW F \in [S -> LogEntry], NEW s \in Seq(S), NEW i \in DOMAIN s,
         NEW m \in S, NEW e \in S,
         F[m].reverted, F[m].revertible = F[s[i]].revertible, F[m].undoes = F[s[i]].undoes
  PROVE  Mapped(F, Append(Replaced(s, i, m), e)) = Append(Marked(Mapped(F, s), i), F[e])
  <1> DEFINE t == Replaced(s, i, m)
  <1>1. DOMAIN s = 1 .. Len(s) /\ Len(s) \in Nat /\ \A k \in 1 .. Len(s) : s[k] \in S
    BY LenProperties, ElementOfSeq
  <1>0. t = [s EXCEPT ![i] = m]
    BY DEF Replaced
  <1> HIDE DEF t
  <1>2. t \in Seq(S)
    BY <1>0, <1>1, ExceptSeq
  <1>3. Mapped(F, t) = [Mapped(F, s) EXCEPT ![i] = F[m]]
    BY <1>0, <1>1 DEF Mapped
  <1>4. F[m] = [F[s[i]] EXCEPT !.reverted = TRUE]
    <2>1. F[m] \in LogEntry /\ F[s[i]] \in LogEntry
      BY <1>1
    <2>2. \A l, n \in LogEntry :
            n.reverted /\ n.revertible = l.revertible /\ n.undoes = l.undoes
            => n = [l EXCEPT !.reverted = TRUE]
      BY DEF LogEntry
    <2> QED BY <2>1, <2>2
  <1>5. Mapped(F, t) = Marked(Mapped(F, s), i)
    BY <1>3, <1>4 DEF Mapped, Marked
  <1>6. ASSUME NEW q \in Seq(S) PROVE Mapped(F, Append(q, e)) = Append(Mapped(F, q), F[e])
    BY MappedAppend
  <1> QED BY <1>2, <1>5, <1>6 DEF t

----------------------------------------------------------------------------

\* What UndoneOnce says, as named conjuncts the proof can take one by one.
UndoneIsNamed(l) == \A i \in DOMAIN l : l[i].reverted => \E j \in DOMAIN l : l[j].undoes = i

NamedIsUndone(l) == \A j \in DOMAIN l : l[j].undoes # 0 =>
  l[j].undoes \in 1 .. (j - 1) /\ l[l[j].undoes].reverted /\ l[l[j].undoes].revertible

NamedByOne(l) == \A j, k \in DOMAIN l : l[j].undoes = l[k].undoes /\ l[j].undoes # 0 => j = k

\* UndoneOnce is the conjunction of the three parts.
LEMMA UndoneOnceParts == UndoneOnce <=> UndoneIsNamed(log) /\ NamedIsUndone(log) /\ NamedByOne(log)
  BY DEF UndoneOnce, UndoneIsNamed, NamedIsUndone, NamedByOne

\* What Record leaves of a log: its entries, and a last one that names none.
LEMMA RecordedLog ==
  ASSUME LedgerTypeOK, Record
  PROVE  /\ log' \in Seq(LogEntry)
         /\ DOMAIN log = 1 .. Len(log) /\ DOMAIN log' = 1 .. (Len(log) + 1)
         /\ \A i \in DOMAIN log : log'[i] = log[i]
         /\ log'[Len(log) + 1].undoes = 0 /\ ~log'[Len(log) + 1].reverted
  <1>1. PICK r \in BOOLEAN :
          log' = Append(log, [revertible |-> r, reverted |-> FALSE, undoes |-> 0])
    BY DEF Record
  <1>2. [revertible |-> r, reverted |-> FALSE, undoes |-> 0] \in LogEntry
    BY DEF LogEntry
  <1>3. log \in Seq(LogEntry)
    BY DEF LedgerTypeOK
  <1> QED
    BY <1>1, <1>2, <1>3, Appended

\* What Undo(i) leaves of a log: entry i marked, the others as they were, and
\* a last entry that names i.
LEMMA UndoneLog ==
  ASSUME LedgerTypeOK, NEW i \in DOMAIN log, Undo(i)
  PROVE  /\ log' \in Seq(LogEntry)
         /\ DOMAIN log = 1 .. Len(log) /\ DOMAIN log' = 1 .. (Len(log) + 1)
         /\ \A k \in DOMAIN log :
              /\ log'[k].undoes = log[k].undoes
              /\ log'[k].revertible = log[k].revertible
              /\ log'[k].reverted <=> (log[k].reverted \/ k = i)
         /\ log'[Len(log) + 1].undoes = i /\ ~log'[Len(log) + 1].reverted
  <1> DEFINE mark == [log[i] EXCEPT !.reverted = TRUE]
             undo == [revertible |-> FALSE, reverted |-> FALSE, undoes |-> i]
  <1>1. log \in Seq(LogEntry) /\ i \in 1 .. Len(log) /\ log[i] \in LogEntry
    BY LenProperties, ElementOfSeq DEF LedgerTypeOK
  <1>2. log' = Append([log EXCEPT ![i] = mark], undo)
    BY DEF Undo
  <1>0. \A e \in LogEntry :
          LET f == [e EXCEPT !.reverted = TRUE]
          IN  f \in LogEntry /\ f.undoes = e.undoes /\ f.revertible = e.revertible /\ f.reverted
    BY DEF LogEntry
  <1>3. mark \in LogEntry /\ undo \in LogEntry
    BY <1>0, <1>1 DEF LogEntry
  <1>4. /\ mark.undoes = log[i].undoes /\ mark.revertible = log[i].revertible
        /\ mark.reverted /\ undo.undoes = i /\ ~undo.reverted
    BY <1>0, <1>1
  <1> HIDE DEF mark, undo
  <1>5. /\ log' \in Seq(LogEntry)
        /\ DOMAIN log = 1 .. Len(log) /\ DOMAIN log' = 1 .. (Len(log) + 1)
        /\ \A k \in 1 .. Len(log) : log'[k] = IF k = i THEN mark ELSE log[k]
        /\ \A k \in 1 .. Len(log) : log[k] \in LogEntry
        /\ log'[Len(log) + 1] = undo
    BY <1>1, <1>2, <1>3, MarkedAndAppended
  <1>6. \A k \in 1 .. Len(log) : log[k].reverted \in BOOLEAN
    BY <1>5 DEF LogEntry
  <1>7. ASSUME NEW k \in 1 .. Len(log)
        PROVE  /\ log'[k].undoes = log[k].undoes
               /\ log'[k].revertible = log[k].revertible
               /\ log'[k].reverted <=> (log[k].reverted \/ k = i)
    <2>1. CASE k = i
      BY <2>1, <1>4, <1>5
    <2>2. CASE k # i
      BY <2>2, <1>5, <1>6
    <2> QED BY <2>1, <2>2
  <1> QED
    BY <1>4, <1>5, <1>7

\* Every log the ledger can reach is a sequence of entries.
THEOREM LedgerTypeCorrect == LedgerSpec => []LedgerTypeOK
  <1>1. LedgerInit => LedgerTypeOK
    BY DEF LedgerInit, LedgerTypeOK
  <1>2. LedgerTypeOK /\ [LedgerNext]_log => LedgerTypeOK'
    <2> SUFFICES ASSUME LedgerTypeOK, [LedgerNext]_log PROVE log' \in Seq(LogEntry)
      BY DEF LedgerTypeOK
    <2>1. CASE Record
      BY <2>1, RecordedLog
    <2>2. CASE \E i \in DOMAIN log : Undo(i)
      BY <2>2, UndoneLog
    <2>3. CASE UNCHANGED log
      BY <2>3 DEF LedgerTypeOK
    <2> QED
      BY <2>1, <2>2, <2>3 DEF LedgerNext
  <1> QED
    BY <1>1, <1>2, PTL DEF LedgerSpec

\* An entry is marked reverted when, and only when, one later entry names it.
THEOREM LedgerUndoneOnce == LedgerSpec => []UndoneOnce
  <1>1. LedgerInit => UndoneOnce
    BY DEF LedgerInit, UndoneOnce
  <1>2. LedgerTypeOK /\ UndoneOnce /\ [LedgerNext]_log => UndoneOnce'
    <2> SUFFICES ASSUME LedgerTypeOK, UndoneOnce, [LedgerNext]_log
                 PROVE  UndoneIsNamed(log') /\ NamedIsUndone(log') /\ NamedByOne(log')
      BY DEF UndoneOnce, UndoneIsNamed, NamedIsUndone, NamedByOne
    <2>0. UndoneIsNamed(log) /\ NamedIsUndone(log) /\ NamedByOne(log)
      BY UndoneOnceParts
    <2>1. CASE Record
      <3> USE <2>1, RecordedLog
      <3>0. Len(log) \in Nat
        BY DEF LedgerTypeOK
      <3>1. UndoneIsNamed(log')
        BY <2>0, <3>0 DEF UndoneIsNamed
      <3>2. NamedIsUndone(log')
        BY <2>0, <3>0 DEF NamedIsUndone
      <3>3. NamedByOne(log')
        BY <2>0, <3>0 DEF NamedByOne
      <3> QED BY <3>1, <3>2, <3>3
    <2>2. CASE \E i \in DOMAIN log : Undo(i)
      <3> PICK i \in DOMAIN log : Undo(i)
        BY <2>2
      <3>0. /\ Len(log) \in Nat
            /\ DOMAIN log = 1 .. Len(log) /\ DOMAIN log' = 1 .. (Len(log) + 1)
            /\ \A k \in DOMAIN log :
                 /\ log'[k].undoes = log[k].undoes
                 /\ log'[k].revertible = log[k].revertible
                 /\ log'[k].reverted <=> (log[k].reverted \/ k = i)
            /\ log'[Len(log) + 1].undoes = i /\ ~log'[Len(log) + 1].reverted
        BY UndoneLog DEF LedgerTypeOK
      <3>1. log[i].revertible /\ ~log[i].reverted
        BY DEF Undo
      <3>2. UndoneIsNamed(log')
        <4> SUFFICES ASSUME NEW k \in DOMAIN log', log'[k].reverted
                     PROVE  \E j \in DOMAIN log' : log'[j].undoes = k
          BY DEF UndoneIsNamed
        <4>1. CASE k = i
          BY <3>0, <4>1
        <4>2. CASE k # i
          <5>1. k \in DOMAIN log /\ log[k].reverted
            BY <3>0, <4>2
          <5>2. PICK j \in DOMAIN log : log[j].undoes = k
            BY <2>0, <5>1 DEF UndoneIsNamed
          <5>3. j \in DOMAIN log' /\ log'[j].undoes = k
            BY <3>0, <5>2
          <5> QED BY <5>3
        <4> QED BY <4>1, <4>2
      <3>3. NamedIsUndone(log')
        <4> SUFFICES ASSUME NEW j \in DOMAIN log', log'[j].undoes # 0
                     PROVE  /\ log'[j].undoes \in 1 .. (j - 1)
                            /\ log'[log'[j].undoes].reverted
                            /\ log'[log'[j].undoes].revertible
          BY DEF NamedIsUndone
        <4>1. CASE j = Len(log) + 1
          BY <3>0, <3>1, <4>1
        <4>2. CASE j # Len(log) + 1
          <5>1. j \in DOMAIN log /\ log'[j].undoes = log[j].undoes
            BY <3>0, <4>2
          <5>2. /\ log[j].undoes \in 1 .. (j - 1)
                /\ log[log[j].undoes].reverted /\ log[log[j].undoes].revertible
            BY <2>0, <5>1 DEF NamedIsUndone
          <5>3. log[j].undoes \in DOMAIN log
            BY <3>0, <5>1, <5>2
          <5> QED BY <3>0, <5>1, <5>2, <5>3
        <4> QED BY <4>1, <4>2
      <3>4. \A j \in DOMAIN log : log[j].undoes # i
        BY <2>0, <3>0, <3>1 DEF NamedIsUndone
      <3>5. NamedByOne(log')
        BY <2>0, <3>0, <3>4 DEF NamedByOne
      <3> QED BY <3>2, <3>3, <3>5
    <2>3. CASE UNCHANGED log
      BY <2>0, <2>3
    <2> QED
      BY <2>1, <2>2, <2>3 DEF LedgerNext
  <1> QED
    BY <1>1, <1>2, LedgerTypeCorrect, PTL DEF LedgerSpec
=============================================================================
