--------------------------- MODULE AuditLog_proofs ---------------------------
(***************************************************************************)
(* What holds of the audit chain for any threads, any events, any length   *)
(* and any sequence of faults.                                             *)
(***************************************************************************)
EXTENDS AuditLog, FiniteSetTheorems, TLAPS

LEMMA NewRowTyped ==
  ASSUME NEW rs \in Seq(Entry), NEW e \in AllEvents
  PROVE  /\ NewRow(rs, e) \in Entry
         /\ NewRow(rs, e).prev = HeadHash(rs)
         /\ NewRow(rs, e).hash = EventHash(NewRow(rs, e).prev, NewRow(rs, e).ev)
<1>1. HeadHash(rs) \in Seq(AllEvents)
  <2>1. CASE rs = <<>>
    BY <2>1 DEF HeadHash, ZeroHash
  <2>2. CASE rs # <<>>
    <3>1. rs[Len(rs)] \in Entry
      BY <2>2
    <3> QED BY <2>2, <3>1 DEF HeadHash, Entry
  <2> QED BY <2>1, <2>2
<1>2. Append(HeadHash(rs), e) \in Seq(AllEvents)
  BY <1>1
<1> QED
  BY <1>1, <1>2 DEF NewRow, EventHash, Entry

LEMMA ObjectEvent ==
  ASSUME NEW line \in Line, Len(line) = 1
  PROVE  line[1].ev \in AllEvents
<1> DEFINE Object == Entry \cup {Legacy(e) : e \in LegacyEvents}
<1>1. line \in Seq(Object)
  BY DEF Line
<1>2. line[1] \in Object
  <2> HIDE DEF Object
  <2> QED BY <1>1
<1> QED BY <1>2 DEF Entry, Legacy, AllEvents

LEMMA LegacyLogTyped ==
  ASSUME NEW k \in Nat, NEW es \in [1..k -> LegacyEvents]
  PROVE  LegacyLog(es) \in Seq(Line) /\ LegacyLog(es) # <<>>
<1> DEFINE ls == [i \in DOMAIN es |-> <<Legacy(es[i])>>]
<1>1. DOMAIN es = 1..k
  OBVIOUS
<1>2. ASSUME NEW i \in 1..k PROVE <<Legacy(es[i])>> \in Line
  <2>1. Legacy(es[i]) \in Entry \cup {Legacy(e) : e \in LegacyEvents}
    OBVIOUS
  <2> HIDE DEF ls
  <2> QED BY <2>1 DEF Line
<1>3. ls \in [1..k -> Line]
  BY <1>1, <1>2
<1>4. ls \in Seq(Line)
  <2> HIDE DEF ls
  <2> QED BY <1>3
<1>5. << <<>> >> \in Seq(Line)
  BY DEF Line
<1> HIDE DEF ls
<1>6. ls \o << <<>> >> \in Seq(Line) /\ ls \o << <<>> >> # <<>>
  BY <1>4, <1>5
<1> QED BY <1>6 DEF LegacyLog, ls

LEMMA LegacyLogObjects ==
  ASSUME NEW k \in Nat, NEW es \in [1..k -> LegacyEvents],
         NEW l \in DOMAIN LegacyLog(es), NEW j \in DOMAIN LegacyLog(es)[l]
  PROVE  l \in 1..k /\ j = 1 /\ LegacyLog(es)[l][j] = Legacy(es[l])
<1> DEFINE ls == [i \in DOMAIN es |-> <<Legacy(es[i])>>]
<1>1. DOMAIN es = 1..k
  OBVIOUS
<1>2. ls \in Seq({<<Legacy(es[i])>> : i \in 1..k}) /\ Len(ls) = k
  BY <1>1
<1>3. \A i \in 1..k : ls[i] = <<Legacy(es[i])>>
  BY <1>1
<1>4. LegacyLog(es) = ls \o << <<>> >>
  BY DEF LegacyLog
<1> HIDE DEF ls
<1>5. CASE l \in 1..k
  <2>1. LegacyLog(es)[l] = <<Legacy(es[l])>>
    BY <1>2, <1>3, <1>4, <1>5
  <2> QED BY <1>5, <2>1
<1>6. CASE l \notin 1..k
  <2>1. l = k + 1 /\ LegacyLog(es)[l] = <<>>
    BY <1>2, <1>4, <1>6
  <2> QED BY <2>1
<1> QED BY <1>5, <1>6

LEMMA TypeStep == AuditTypeOK /\ [AuditNext]_avars => AuditTypeOK'
<1> SUFFICES ASSUME AuditTypeOK, [AuditNext]_avars PROVE AuditTypeOK'
  OBVIOUS
<1> USE DEF AuditTypeOK
<1>1. CASE Start
  BY <1>1 DEF Start
<1>2. CASE ImportLine
  <2>1. NextLine \in Line
    BY <1>2 DEF ImportLine, NextLine
  <2>2. CASE Len(NextLine) = 1 /\ rows' = Append(rows, NewRow(rows, NextLine[1].ev))
    <3>1. NextLine[1].ev \in AllEvents
      BY <2>1, <2>2, ObjectEvent
    <3>2. rows' \in Seq(Entry)
      BY <2>2, <3>1, NewRowTyped
    <3> QED BY <1>2, <3>2 DEF ImportLine
  <2> QED BY <1>2, <2>2 DEF ImportLine
<1>3. CASE ImportEnds
  BY <1>3 DEF ImportEnds
<1>4. ASSUME NEW w \in Writers, NEW e \in Events, AppendRow(w, e) PROVE AuditTypeOK'
  <2>1. NewRow(rows, e) \in Entry
    BY NewRowTyped DEF AllEvents
  <2> QED BY <1>4, <2>1 DEF AppendRow, Crowded
<1>5. ASSUME NEW w \in Writers, JournalObject(w) PROVE AuditTypeOK'
  <2>1. pending[w] \in Entry
    BY <1>5 DEF JournalObject, Idle
  <2>2. Len(journal) \in DOMAIN journal /\ journal[Len(journal)] \in Line
    OBVIOUS
  <2>3. Append(journal[Len(journal)], pending[w]) \in Line
    BY <2>1, <2>2 DEF Line
  <2>4. journal' \in Seq(Line) /\ journal' # <<>>
    BY <1>5, <2>3 DEF JournalObject
  <2> QED BY <1>5, <2>4 DEF JournalObject
<1>6. ASSUME NEW w \in Writers, JournalNewline(w) PROVE AuditTypeOK'
  <2>1. <<>> \in Line
    BY DEF Line
  <2>2. journal' \in Seq(Line) /\ journal' # <<>>
    BY <1>6, <2>1 DEF JournalNewline
  <2> QED BY <1>6, <2>2 DEF JournalNewline
<1>7. ASSUME NEW w \in Writers, JournalMiss(w) PROVE AuditTypeOK'
  BY <1>7 DEF JournalMiss, Rougher
<1>8. CASE Crash
  BY <1>8 DEF Crash, Down, Rougher
<1>9. CASE PowerLoss
  <2>1. PICK k \in 0..Len(rows) : rows' = SubSeq(rows, 1, k)
    BY <1>9 DEF PowerLoss
  <2>2. rows' \in Seq(Entry)
    BY <2>1
  <2> QED BY <1>9, <2>2 DEF PowerLoss, Down
<1>10. CASE UNCHANGED avars
  BY <1>10 DEF avars
<1> QED
  BY <1>1, <1>2, <1>3, <1>4, <1>5, <1>6, <1>7, <1>8, <1>9, <1>10 DEF AuditNext

\* Nothing a thread, a restart or a fault does leaves an ill-formed row, line
\* or phase behind.
THEOREM AuditTypeCorrect == AuditSpec => []AuditTypeOK
<1>1. AuditInit => AuditTypeOK
  <2> SUFFICES ASSUME AuditInit PROVE AuditTypeOK
    OBVIOUS
  <2>1. PICK k \in 0..Cardinality(LegacyEvents) :
          \E es \in [1..k -> LegacyEvents] : journal = LegacyLog(es)
    BY DEF AuditInit
  <2>2. k \in Nat
    BY <2>1
  <2>3. journal \in Seq(Line) /\ journal # <<>>
    BY <2>1, <2>2, LegacyLogTyped
  <2> QED
    BY <2>3 DEF AuditInit, AuditTypeOK
<1> QED
  BY <1>1, TypeStep, PTL DEF AuditSpec

-----------------------------------------------------------------------------

\* A row built from the head extends a chain that verifies.
LEMMA AppendVerifies ==
  ASSUME NEW rs \in Seq(Entry), NEW e \in AllEvents, VerifyRows(rs)
  PROVE  VerifyRows(Append(rs, NewRow(rs, e)))
<1> DEFINE row == NewRow(rs, e)
           new == Append(rs, row)
<1>1. /\ row \in Entry /\ row.prev = HeadHash(rs)
      /\ row.hash = EventHash(row.prev, row.ev)
  BY NewRowTyped
<1>2. /\ DOMAIN new = 1..Len(rs) + 1
      /\ \A i \in 1..Len(rs) : new[i] = rs[i]
      /\ new[Len(rs) + 1] = row
  <2> HIDE DEF row
  <2> QED BY <1>1
<1> HIDE DEF row, new
<1>3. ASSUME NEW i \in DOMAIN new
      PROVE  /\ new[i].prev = IF i = 1 THEN ZeroHash ELSE new[i - 1].hash
             /\ new[i].hash = EventHash(new[i].prev, new[i].ev)
  <2>1. CASE i \in 1..Len(rs)
    <3>1. new[i] = rs[i] /\ i \in DOMAIN rs
      BY <1>2, <2>1
    <3>2. i # 1 => new[i - 1] = rs[i - 1]
      BY <1>2, <2>1
    <3> QED BY <3>1, <3>2 DEF VerifyRows
  <2>2. CASE i = Len(rs) + 1
    <3>1. new[i] = row
      BY <1>2, <2>2
    <3>2. CASE rs = <<>>
      BY <1>1, <2>2, <3>1, <3>2 DEF HeadHash
    <3>3. CASE rs # <<>>
      <4>1. i # 1 /\ i - 1 = Len(rs) /\ new[i - 1] = rs[Len(rs)]
        BY <1>2, <2>2, <3>3
      <4> QED BY <1>1, <3>1, <3>3, <4>1 DEF HeadHash
    <3> QED BY <3>2, <3>3
  <2> QED BY <1>2, <2>1, <2>2
<1>4. VerifyRows(new)
  BY <1>3 DEF VerifyRows
<1> QED BY <1>4 DEF new, row

\* A chain cut short still verifies.
LEMMA PrefixVerifies ==
  ASSUME NEW rs \in Seq(Entry), NEW k \in 0..Len(rs), VerifyRows(rs)
  PROVE  VerifyRows(SubSeq(rs, 1, k))
<1> DEFINE cut == SubSeq(rs, 1, k)
<1>1. DOMAIN cut = 1..k /\ \A i \in 1..k : cut[i] = rs[i]
  OBVIOUS
<1> HIDE DEF cut
<1>2. ASSUME NEW i \in DOMAIN cut
      PROVE  /\ cut[i].prev = IF i = 1 THEN ZeroHash ELSE cut[i - 1].hash
             /\ cut[i].hash = EventHash(cut[i].prev, cut[i].ev)
  <2>1. i \in DOMAIN rs /\ cut[i] = rs[i] /\ (i # 1 => cut[i - 1] = rs[i - 1])
    BY <1>1
  <2> QED BY <2>1 DEF VerifyRows
<1>3. VerifyRows(cut)
  BY <1>2 DEF VerifyRows
<1> QED BY <1>3 DEF cut

\* verify_rows accepts the table after any interleaving of requests, any
\* failed journal write, crash, import or power cut.
THEOREM ChainAlwaysVerifies == AuditSpec => []ChainVerifies
<1>1. AuditInit => ChainVerifies
  BY DEF AuditInit, ChainVerifies, VerifyRows
<1>2. AuditTypeOK /\ ChainVerifies /\ [AuditNext]_avars => ChainVerifies'
  <2> SUFFICES ASSUME AuditTypeOK, ChainVerifies, [AuditNext]_avars PROVE ChainVerifies'
    OBVIOUS
  <2> USE DEF ChainVerifies
  <2>1. rows \in Seq(Entry)
    BY DEF AuditTypeOK
  <2>2. CASE UNCHANGED rows
    BY <2>2
  <2>3. CASE ImportLine
    <3>1. NextLine \in Line
      BY <2>3 DEF ImportLine, NextLine, AuditTypeOK
    <3>2. CASE Len(NextLine) = 1 /\ rows' = Append(rows, NewRow(rows, NextLine[1].ev))
      <4>1. NextLine[1].ev \in AllEvents
        BY <3>1, <3>2, ObjectEvent
      <4>2. VerifyRows(Append(rows, NewRow(rows, NextLine[1].ev)))
        BY <2>1, <4>1, AppendVerifies
      <4> QED BY <3>2, <4>2
    <3> QED BY <2>2, <2>3, <3>2 DEF ImportLine
  <2>4. ASSUME NEW w \in Writers, NEW e \in Events, AppendRow(w, e) PROVE ChainVerifies'
    <3>1. VerifyRows(Append(rows, NewRow(rows, e)))
      BY <2>1, AppendVerifies DEF AllEvents
    <3> QED BY <2>4, <3>1 DEF AppendRow
  <2>5. CASE PowerLoss
    <3>1. PICK k \in 0..Len(rows) : rows' = SubSeq(rows, 1, k)
      BY <2>5 DEF PowerLoss
    <3>2. VerifyRows(SubSeq(rows, 1, k))
      BY <2>1, <3>1, PrefixVerifies
    <3> QED BY <3>1, <3>2
  <2> QED
    BY <2>2, <2>3, <2>4, <2>5
    DEF AuditNext, Start, ImportEnds, JournalObject, JournalNewline, JournalMiss, Crash, avars
<1> QED
  BY <1>1, <1>2, AuditTypeCorrect, PTL DEF AuditSpec

-----------------------------------------------------------------------------

LEMMA RowsStep == AuditTypeOK /\ [AuditNext]_avars => RowsPersist
<1> SUFFICES ASSUME AuditTypeOK, [AuditNext]_avars, past' # "cut"
             PROVE  Len(rows) <= Len(rows') /\ \A i \in DOMAIN rows : rows'[i] = rows[i]
  BY DEF RowsPersist
<1>1. rows \in Seq(Entry)
  BY DEF AuditTypeOK
<1>2. CASE UNCHANGED rows
  BY <1>1, <1>2
<1>3. ASSUME NEW row, rows' = Append(rows, row)
      PROVE  Len(rows) <= Len(rows') /\ \A i \in DOMAIN rows : rows'[i] = rows[i]
  BY <1>1, <1>3
<1>4. CASE ImportLine
  BY <1>2, <1>3, <1>4 DEF ImportLine
<1>5. CASE \E w \in Writers, e \in Events : AppendRow(w, e)
  BY <1>3, <1>5 DEF AppendRow
<1> QED
  BY <1>2, <1>4, <1>5
  DEF AuditNext, Start, ImportEnds, JournalObject, JournalNewline, JournalMiss, Crash,
      PowerLoss, avars

\* With the process dying and journal writes failing at any point, no
\* committed audit row is ever changed or dropped.
THEOREM ChainIsPersistent == AuditSpec => ChainOnlyGrows
<1>1. AuditTypeOK /\ [AuditNext]_avars => [RowsPersist]_avars
  BY RowsStep
<1> QED
  BY <1>1, AuditTypeCorrect, PTL DEF AuditSpec, ChainOnlyGrows

-----------------------------------------------------------------------------

LEMMA CutStays == [AuditNext]_avars /\ past' # "cut" => past # "cut"
BY DEF AuditNext, Start, ImportLine, ImportEnds, AppendRow, JournalObject, JournalNewline,
       JournalMiss, Crash, PowerLoss, Rougher, Crowded, avars

\* What a thread has still to journal was committed before.
PendingIsCommitted ==
  past # "cut" => \A w \in Writers : pending[w] # NoRow => Committed(rows, pending[w])

LEMMA StaysCommitted ==
  ASSUME AuditTypeOK, AuditTypeOK', RowsPersist, past' # "cut", NEW row, Committed(rows, row)
  PROVE  Committed(rows', row)
<1>1. PICK i \in DOMAIN rows : rows[i] = row
  BY DEF Committed
<1>2. i \in DOMAIN rows' /\ rows'[i] = rows[i]
  BY DEF AuditTypeOK, RowsPersist
<1> QED BY <1>1, <1>2 DEF Committed

\* Every hashed object in audit.jsonl is a committed row: what the replica
\* reports did happen.
THEOREM ReplicaIsCommitted == AuditSpec => []JournalIsCommitted
<1>1. AuditInit => JournalIsCommitted /\ PendingIsCommitted
  <2> SUFFICES ASSUME AuditInit PROVE JournalIsCommitted /\ PendingIsCommitted
    OBVIOUS
  <2>1. PICK k \in 0..Cardinality(LegacyEvents) :
          \E es \in [1..k -> LegacyEvents] : journal = LegacyLog(es)
    BY DEF AuditInit
  <2>2. PICK es \in [1..k -> LegacyEvents] : journal = LegacyLog(es)
    BY <2>1
  <2>3. ASSUME NEW l \in DOMAIN journal, NEW j \in DOMAIN journal[l]
        PROVE  journal[l][j].hash = NoHash
    <3>1. k \in Nat /\ l \in DOMAIN LegacyLog(es) /\ j \in DOMAIN LegacyLog(es)[l]
      BY <2>1, <2>2
    <3>2. l \in 1..k /\ journal[l][j] = Legacy(es[l])
      BY <2>2, <3>1, LegacyLogObjects
    <3> QED BY <3>2 DEF Legacy
  <2> QED BY <2>3 DEF AuditInit, JournalIsCommitted, PendingIsCommitted
<1>2. AuditTypeOK /\ AuditTypeOK' /\ JournalIsCommitted /\ PendingIsCommitted /\ [AuditNext]_avars
        => JournalIsCommitted' /\ PendingIsCommitted'
  <2> SUFFICES ASSUME AuditTypeOK, AuditTypeOK', JournalIsCommitted, PendingIsCommitted,
                      [AuditNext]_avars, past' # "cut"
               PROVE  JournalIsCommitted' /\ PendingIsCommitted'
    BY DEF JournalIsCommitted, PendingIsCommitted
  <2>0. past # "cut"
    BY CutStays
  <2>1. \A row : Committed(rows, row) => Committed(rows', row)
    BY RowsStep, StaysCommitted
  <2>2. CASE UNCHANGED journal /\ \A w \in Writers : pending'[w] \in {pending[w], NoRow}
    BY <2>0, <2>1, <2>2 DEF JournalIsCommitted, PendingIsCommitted
  <2>3. ASSUME NEW w \in Writers, NEW e \in Events, AppendRow(w, e)
        PROVE  JournalIsCommitted' /\ PendingIsCommitted'
    <3> DEFINE row == NewRow(rows, e)
    <3>1. row \in Entry
      BY NewRowTyped DEF AllEvents, AuditTypeOK
    <3>2. Committed(rows', row)
      <4>1. rows' = Append(rows, row) /\ rows \in Seq(Entry)
        BY <2>3 DEF AppendRow, AuditTypeOK
      <4>2. Len(rows) + 1 \in DOMAIN rows' /\ rows'[Len(rows) + 1] = row
        <5> HIDE DEF row
        <5> QED BY <3>1, <4>1
      <4> QED BY <4>2 DEF Committed
    <3>3. pending' = [pending EXCEPT ![w] = row] /\ UNCHANGED journal
      BY <2>3 DEF AppendRow
    <3> HIDE DEF row
    <3> QED BY <2>0, <2>1, <3>2, <3>3 DEF JournalIsCommitted, PendingIsCommitted, AuditTypeOK
  <2>4. ASSUME NEW w \in Writers, JournalObject(w)
        PROVE  JournalIsCommitted' /\ PendingIsCommitted'
    <3>1. Committed(rows, pending[w])
      BY <2>4 DEF JournalObject, Idle, PendingIsCommitted
    <3>2. /\ journal' = [journal EXCEPT ![Len(journal)] = Append(@, pending[w])]
          /\ UNCHANGED <<rows, pending>>
      BY <2>4 DEF JournalObject
    <3>3. journal \in Seq(Line) /\ journal # <<>>
      BY DEF AuditTypeOK
    <3>4. ASSUME NEW l \in DOMAIN journal', NEW j \in DOMAIN journal'[l],
                 journal'[l][j].hash # NoHash
          PROVE  Committed(rows', journal'[l][j])
      <4>1. l \in DOMAIN journal
        BY <3>2, <3>3
      <4>2. CASE l = Len(journal)
        <5> DEFINE line == journal[l]
        <5>1. line \in Seq(Entry \cup {Legacy(e) : e \in LegacyEvents})
          BY <3>3, <4>1 DEF Line
        <5>2. journal'[l] = Append(line, pending[w])
          BY <3>2, <3>3, <4>1, <4>2
        <5> HIDE DEF line
        <5>3. CASE j \in DOMAIN line
          <6>1. journal'[l][j] = line[j]
            BY <5>1, <5>2, <5>3
          <6> QED BY <2>0, <2>1, <3>4, <4>1, <5>3, <6>1 DEF JournalIsCommitted, line
        <5>4. CASE j = Len(line) + 1
          <6>1. journal'[l][j] = pending[w]
            BY <5>1, <5>2, <5>4
          <6> QED BY <2>1, <3>1, <6>1
        <5> QED BY <5>1, <5>2, <5>3, <5>4
      <4>3. CASE l # Len(journal)
        <5>1. journal'[l] = journal[l]
          BY <3>2, <3>3, <4>1, <4>3
        <5> QED BY <2>0, <2>1, <3>4, <4>1, <5>1 DEF JournalIsCommitted
      <4> QED BY <4>2, <4>3
    <3>5. JournalIsCommitted'
      BY <3>4 DEF JournalIsCommitted
    <3> QED BY <2>0, <2>1, <3>2, <3>5 DEF PendingIsCommitted
  <2>5. ASSUME NEW w \in Writers, JournalNewline(w)
        PROVE  JournalIsCommitted' /\ PendingIsCommitted'
    <3>1. journal' = Append(journal, <<>>) /\ journal \in Seq(Line)
      BY <2>5 DEF JournalNewline, AuditTypeOK
    <3>2. ASSUME NEW l \in DOMAIN journal', NEW j \in DOMAIN journal'[l]
          PROVE  l \in DOMAIN journal /\ journal'[l] = journal[l]
      <4>1. l # Len(journal) + 1
        BY <3>1
      <4> QED BY <3>1, <4>1
    <3>3. JournalIsCommitted'
      BY <2>0, <2>1, <3>2 DEF JournalIsCommitted
    <3>4. PendingIsCommitted'
      BY <2>0, <2>1, <2>5 DEF JournalNewline, PendingIsCommitted, AuditTypeOK
    <3> QED BY <3>3, <3>4
  <2>6. ASSUME NEW w \in Writers, JournalMiss(w)
        PROVE  JournalIsCommitted' /\ PendingIsCommitted'
    BY <2>2, <2>6 DEF JournalMiss, AuditTypeOK
  <2>7. CASE Crash
    BY <2>2, <2>7 DEF Crash, Down
  <2> QED
    BY <2>2, <2>3, <2>4, <2>5, <2>6, <2>7
    DEF AuditNext, Start, ImportLine, ImportEnds, PowerLoss, avars
<1>3. AuditSpec => [](JournalIsCommitted /\ PendingIsCommitted)
  BY <1>1, <1>2, AuditTypeCorrect, PTL DEF AuditSpec
<1> QED
  BY <1>3, PTL

-----------------------------------------------------------------------------

\* A legacy event is on one line only; nobody will journal one again; and an
\* import under way has put in the chain only what it has read so far.
LegacyOnOneLine ==
  \A l, m \in DOMAIN journal : \A j \in DOMAIN journal[l], k \in DOMAIN journal[m] :
    (journal[l][j].ev = journal[m][k].ev /\ journal[l][j].ev \in LegacyEvents)
      => l = m /\ j = k

PendingIsNew == \A w \in Writers : pending[w] # NoRow => pending[w].ev \in Events

ImportedSoFar ==
  phase = "importing" =>
    \A i \in DOMAIN rows : rows[i].ev \in LegacyEvents =>
      \E l \in DOMAIN journal :
        /\ l <= importedTo
        /\ \E j \in DOMAIN journal[l] : journal[l][j].ev = rows[i].ev

ImportInv == ImportedOnce /\ LegacyOnOneLine /\ PendingIsNew /\ ImportedSoFar

LEMMA AppendOnce ==
  ASSUME AuditTypeOK, ImportedOnce, NEW row, rows' = Append(rows, row),
         row.ev \in LegacyEvents => \A i \in DOMAIN rows : rows[i].ev # row.ev
  PROVE  ImportedOnce'
<1>1. rows \in Seq(Entry)
  BY DEF AuditTypeOK
<1>2. /\ DOMAIN rows' = 1..Len(rows) + 1
      /\ \A i \in 1..Len(rows) : rows'[i] = rows[i]
      /\ rows'[Len(rows) + 1] = row
  BY <1>1
<1>3. ASSUME NEW i \in DOMAIN rows', NEW j \in DOMAIN rows',
             rows'[i].ev = rows'[j].ev, rows'[i].ev \in LegacyEvents
      PROVE  i = j
  <2>1. CASE i \in 1..Len(rows) /\ j \in 1..Len(rows)
    BY <1>1, <1>2, <1>3, <2>1 DEF ImportedOnce
  <2>2. CASE i = Len(rows) + 1 \/ j = Len(rows) + 1
    BY <1>1, <1>2, <1>3, <2>2
  <2> QED BY <1>1, <1>2, <2>1, <2>2
<1> QED BY <1>3 DEF ImportedOnce

\* Whatever the crashes and restarts during and after the import of a log
\* from before the table, no event of it is in the chain twice.
THEOREM LegacyImportedOnce == AuditSpec => []ImportedOnce
<1>1. AuditInit => ImportInv
  <2> SUFFICES ASSUME AuditInit PROVE ImportInv
    OBVIOUS
  <2>1. PICK k \in 0..Cardinality(LegacyEvents) :
          \E es \in [1..k -> LegacyEvents] :
            /\ \A i, j \in DOMAIN es : es[i] = es[j] => i = j
            /\ journal = LegacyLog(es)
    BY DEF AuditInit
  <2>2. PICK es \in [1..k -> LegacyEvents] :
            /\ \A i, j \in DOMAIN es : es[i] = es[j] => i = j
            /\ journal = LegacyLog(es)
    BY <2>1
  <2>3. ASSUME NEW l \in DOMAIN journal, NEW j \in DOMAIN journal[l]
        PROVE  l \in 1..k /\ j = 1 /\ journal[l][j].ev = es[l]
    <3>1. k \in Nat /\ l \in DOMAIN LegacyLog(es) /\ j \in DOMAIN LegacyLog(es)[l]
      BY <2>1, <2>2
    <3>2. l \in 1..k /\ j = 1 /\ journal[l][j] = Legacy(es[l])
      BY <2>2, <3>1, LegacyLogObjects
    <3> QED BY <3>2 DEF Legacy
  <2>4. LegacyOnOneLine
    BY <2>2, <2>3 DEF LegacyOnOneLine
  <2> QED BY <2>4 DEF AuditInit, ImportInv, ImportedOnce, PendingIsNew, ImportedSoFar
<1>2. AuditTypeOK /\ ImportInv /\ [AuditNext]_avars => ImportInv'
  <2> SUFFICES ASSUME AuditTypeOK, ImportInv, [AuditNext]_avars PROVE ImportInv'
    OBVIOUS
  <2> USE DEF ImportInv
  <2>1. CASE Start
    BY <2>1 DEF Start, ImportedOnce, LegacyOnOneLine, PendingIsNew, ImportedSoFar
  <2>2. CASE ImportLine
    <3> DEFINE n == importedTo + 1
    <3>1. /\ n \in DOMAIN journal /\ importedTo' = n /\ NextLine = journal[n]
          /\ UNCHANGED <<journal, pending, phase>> /\ phase = "importing"
      BY <2>2 DEF ImportLine, NextLine, AuditTypeOK
    <3>2. CASE rows' = rows
      BY <3>1, <3>2
      DEF ImportedOnce, LegacyOnOneLine, PendingIsNew, ImportedSoFar, AuditTypeOK
    <3>3. CASE Len(NextLine) = 1 /\ rows' = Append(rows, NewRow(rows, NextLine[1].ev))
      <4> DEFINE row == NewRow(rows, NextLine[1].ev)
      <4>1. 1 \in DOMAIN journal[n] /\ row.ev = journal[n][1].ev
        BY <3>1, <3>3 DEF NewRow
      <4>2. ASSUME NEW i \in DOMAIN rows, rows[i].ev = row.ev, row.ev \in LegacyEvents
            PROVE  FALSE
        <5>1. PICK l \in DOMAIN journal :
                /\ l <= importedTo
                /\ \E j \in DOMAIN journal[l] : journal[l][j].ev = rows[i].ev
          BY <3>1, <4>2 DEF ImportedSoFar
        <5>2. l = n
          BY <3>1, <4>1, <4>2, <5>1 DEF LegacyOnOneLine
        <5> QED BY <5>1, <5>2 DEF AuditTypeOK
      <4>3. ImportedOnce'
        <5> HIDE DEF row
        <5>1. rows' = Append(rows, row)
          BY <3>3 DEF row
        <5> QED BY <4>2, <5>1, AppendOnce
      <4>4. ImportedSoFar'
        <5>1. ASSUME NEW i \in DOMAIN rows', rows'[i].ev \in LegacyEvents
              PROVE  \E l \in DOMAIN journal :
                       /\ l <= n
                       /\ \E j \in DOMAIN journal[l] : journal[l][j].ev = rows'[i].ev
          <6>1. CASE i \in DOMAIN rows
            <7>1. rows'[i] = rows[i]
              <8> HIDE DEF row
              <8> QED BY <3>3, <6>1 DEF AuditTypeOK, row
            <7>2. PICK l \in DOMAIN journal :
                    /\ l <= importedTo
                    /\ \E j \in DOMAIN journal[l] : journal[l][j].ev = rows[i].ev
              BY <3>1, <5>1, <6>1, <7>1 DEF ImportedSoFar
            <7>3. l <= n
              BY <7>2 DEF AuditTypeOK
            <7> QED BY <7>1, <7>2, <7>3
          <6>2. CASE i = Len(rows) + 1
            <7>1. rows'[i] = row
              <8> HIDE DEF row
              <8> QED BY <3>3, <6>2 DEF AuditTypeOK, row
            <7> QED BY <3>1, <4>1, <7>1 DEF AuditTypeOK
          <6> QED BY <3>3, <6>1, <6>2 DEF AuditTypeOK
        <5> QED BY <3>1, <5>1 DEF ImportedSoFar
      <4> QED BY <3>1, <4>3, <4>4 DEF LegacyOnOneLine, PendingIsNew
    <3> QED BY <2>2, <3>2, <3>3 DEF ImportLine
  <2>3. CASE ImportEnds
    BY <2>3 DEF ImportEnds, ImportedOnce, LegacyOnOneLine, PendingIsNew, ImportedSoFar
  <2>4. ASSUME NEW w \in Writers, NEW e \in Events, AppendRow(w, e) PROVE ImportInv'
    <3> DEFINE row == NewRow(rows, e)
    <3>1. row.ev \in Events /\ row.ev \notin LegacyEvents
      BY AuditConstants DEF NewRow
    <3>2. /\ rows' = Append(rows, row) /\ pending' = [pending EXCEPT ![w] = row]
          /\ phase' = "up" /\ UNCHANGED journal
      BY <2>4 DEF AppendRow
    <3> HIDE DEF row
    <3>3. ImportedOnce'
      BY <3>1, <3>2, AppendOnce
    <3>4. PendingIsNew'
      BY <3>1, <3>2 DEF PendingIsNew, AuditTypeOK
    <3> QED BY <3>2, <3>3, <3>4 DEF LegacyOnOneLine, ImportedSoFar
  <2>5. ASSUME NEW w \in Writers, JournalObject(w) PROVE ImportInv'
    <3>1. pending[w].ev \notin LegacyEvents
      BY <2>5, AuditConstants DEF JournalObject, Idle, PendingIsNew
    <3>2. /\ journal' = [journal EXCEPT ![Len(journal)] = Append(@, pending[w])]
          /\ phase' = "up" /\ UNCHANGED <<rows, pending>>
      BY <2>5 DEF JournalObject
    <3>3. journal \in Seq(Line)
      BY DEF AuditTypeOK
    <3>4. ASSUME NEW l \in DOMAIN journal', NEW j \in DOMAIN journal'[l],
                 journal'[l][j].ev \in LegacyEvents
          PROVE  /\ l \in DOMAIN journal /\ j \in DOMAIN journal[l]
                 /\ journal'[l][j] = journal[l][j]
      <4>1. l \in DOMAIN journal
        BY <3>2, <3>3
      <4>2. CASE l = Len(journal)
        <5> DEFINE line == journal[l]
        <5>1. line \in Seq(Entry \cup {Legacy(e) : e \in LegacyEvents})
          BY <3>3, <4>1 DEF Line
        <5>2. journal'[l] = Append(line, pending[w])
          BY <3>2, <3>3, <4>1, <4>2
        <5> HIDE DEF line
        <5>3. CASE j = Len(line) + 1
          BY <3>1, <3>4, <5>1, <5>2, <5>3
        <5>4. CASE j \in DOMAIN line
          <6>1. journal'[l][j] = line[j]
            BY <5>1, <5>2, <5>4
          <6> QED BY <4>1, <5>4, <6>1 DEF line
        <5> QED BY <5>1, <5>2, <5>3, <5>4
      <4>3. CASE l # Len(journal)
        BY <3>2, <3>3, <4>1, <4>3
      <4> QED BY <4>2, <4>3
    <3>5. LegacyOnOneLine'
      BY <3>4 DEF LegacyOnOneLine
    <3> QED BY <3>2, <3>5 DEF ImportedOnce, PendingIsNew, ImportedSoFar
  <2>6. ASSUME NEW w \in Writers, JournalNewline(w) PROVE ImportInv'
    <3>1. /\ journal' = Append(journal, <<>>) /\ journal \in Seq(Line)
          /\ phase' = "up" /\ UNCHANGED rows
          /\ pending' = [pending EXCEPT ![w] = NoRow]
      BY <2>6 DEF JournalNewline, AuditTypeOK
    <3>2. ASSUME NEW l \in DOMAIN journal', NEW j \in DOMAIN journal'[l]
          PROVE  l \in DOMAIN journal /\ journal'[l] = journal[l]
      <4>1. l # Len(journal) + 1
        BY <3>1
      <4> QED BY <3>1, <4>1
    <3>3. LegacyOnOneLine'
      BY <3>2 DEF LegacyOnOneLine
    <3> QED BY <3>1, <3>3 DEF ImportedOnce, PendingIsNew, ImportedSoFar, AuditTypeOK
  <2>7. ASSUME NEW w \in Writers, JournalMiss(w) PROVE ImportInv'
    BY <2>7
    DEF JournalMiss, ImportedOnce, LegacyOnOneLine, PendingIsNew, ImportedSoFar, AuditTypeOK
  <2>8. CASE Crash
    BY <2>8
    DEF Crash, Down, ImportedOnce, LegacyOnOneLine, PendingIsNew, ImportedSoFar
  <2>9. CASE PowerLoss
    <3>1. PICK k \in 0..Len(rows) : rows' = SubSeq(rows, 1, k)
      BY <2>9 DEF PowerLoss
    <3>2. \A i \in DOMAIN rows' : i \in DOMAIN rows /\ rows'[i] = rows[i]
      BY <3>1 DEF AuditTypeOK
    <3>3. ImportedOnce'
      BY <3>2 DEF ImportedOnce
    <3> QED
      BY <2>9, <3>3 DEF PowerLoss, Down, LegacyOnOneLine, PendingIsNew, ImportedSoFar
  <2>10. CASE UNCHANGED avars
    BY <2>10 DEF avars, ImportedOnce, LegacyOnOneLine, PendingIsNew, ImportedSoFar
  <2> QED
    BY <2>1, <2>2, <2>3, <2>4, <2>5, <2>6, <2>7, <2>8, <2>9, <2>10 DEF AuditNext
<1>3. AuditSpec => []ImportInv
  BY <1>1, <1>2, AuditTypeCorrect, PTL DEF AuditSpec
<1> QED
  BY <1>3, PTL DEF ImportInv

-----------------------------------------------------------------------------

LEMMA CountTo ==
  ASSUME NEW n \in Nat PROVE Cardinality(1..n) = n
<1>1. Cardinality(1..n) = IF 1 > n THEN 0 ELSE n - 1 + 1
  BY FS_Interval
<1> QED
  BY <1>1

\* Of a file whose last line alone is blank, the others are what is written.
LEMMA WrittenLines ==
  ASSUME NEW n \in Nat, NEW lines, DOMAIN lines = 1..n + 1,
         \A i \in 1..n : lines[i] # <<>>, lines[n + 1] = <<>>
  PROVE  Written(lines) = [i \in 1..n |-> lines[i]]
<1> DEFINE full    == {i \in DOMAIN lines : lines[i] # <<>>}
           upTo(i) == {j \in full : j <= i}
           nth(k)  == CHOOSE i \in full : Cardinality(upTo(i)) = k
<1>1. full = 1..n
  OBVIOUS
<1>2. Cardinality(full) = n
  BY <1>1, CountTo
<1>3. ASSUME NEW i \in 1..n PROVE Cardinality(upTo(i)) = i
  <2>1. upTo(i) = 1..i
    BY <1>1
  <2>2. Cardinality(1..i) = i
    BY CountTo
  <2> QED
    BY <2>1, <2>2
<1>4. ASSUME NEW k \in 1..n PROVE nth(k) = k
  <2>1. k \in full /\ Cardinality(upTo(k)) = k
    BY <1>1, <1>3
  <2>2. nth(k) \in full /\ Cardinality(upTo(nth(k))) = k
    BY <2>1
  <2> HIDE DEF nth
  <2> QED
    BY <1>1, <1>3, <2>2
<1>5. Written(lines) = [k \in 1..Cardinality(full) |-> lines[nth(k)]]
  BY DEF Written
<1> HIDE DEF full, nth
<1> QED
  BY <1>2, <1>4, <1>5

\* The first n lines of the file are the first n rows, and one line follows.
Mirrored(n) == Len(journal) = n + 1 /\ \A i \in 1..n : journal[i] = <<rows[i]>>
LastLine == journal[Len(journal)]

\* While nothing overlaps or fails, the file is the table; between its COMMIT and
\* its newline the newest row is the pending one of the only busy thread.
AllWritten == (\A w \in Writers : Idle(w)) /\ Mirrored(Len(rows)) /\ LastLine = <<>>
OneUnderWay ==
  /\ phase = "up" /\ Len(rows) > 0 /\ Mirrored(Len(rows) - 1)
  /\ \E w \in Writers :
       /\ ~Idle(w) /\ \A v \in Writers : ~Idle(v) => v = w
       /\ pending[w] = rows[Len(rows)]
       /\ LastLine = IF half[w] THEN <<pending[w]>> ELSE <<>>
Smooth ==
  past = "smooth" =>
    /\ phase # "importing"
    /\ \A w \in Writers : half[w] => ~Idle(w)
    /\ AllWritten \/ OneUnderWay

LEMMA SmoothInit == AuditInit => Smooth
<1> SUFFICES ASSUME AuditInit, past = "smooth" PROVE Smooth
  BY DEF Smooth
<1>1. journal = LegacyLog(<<>>)
  BY DEF AuditInit
<1>2. LegacyLog(<<>>) = << <<>> >>
  BY DEF LegacyLog
<1>3. journal = << <<>> >> /\ rows = <<>>
  BY <1>1, <1>2 DEF AuditInit
<1>4. Len(journal) = 1 /\ journal[1] = <<>> /\ Len(rows) = 0
  BY <1>3
<1>5. Mirrored(Len(rows)) /\ LastLine = <<>>
  BY <1>4 DEF Mirrored, LastLine
<1> QED
  BY <1>5 DEF AuditInit, Smooth, AllWritten, Idle

LEMMA SmoothStep == AuditTypeOK /\ Smooth /\ [AuditNext]_avars => Smooth'
<1> SUFFICES ASSUME AuditTypeOK, Smooth, [AuditNext]_avars, past' = "smooth" PROVE Smooth'
  BY DEF Smooth
<1>1. past = "smooth"
  BY DEF AuditNext, Start, ImportLine, ImportEnds, AppendRow, JournalObject, JournalNewline,
         JournalMiss, Crash, PowerLoss, Rougher, Crowded, avars
<1>2. /\ phase # "importing" /\ \A w \in Writers : half[w] => ~Idle(w)
      /\ AllWritten \/ OneUnderWay
  BY <1>1 DEF Smooth
<1>3. rows \in Seq(Entry) /\ journal \in Seq(Line) /\ Len(journal) \in DOMAIN journal
  BY DEF AuditTypeOK
<1>4. CASE Start
  <2>1. AllWritten
    BY <1>2, <1>4 DEF Start, OneUnderWay
  <2>2. phase' = "up"
    <3>1. CASE rows = <<>>
      <4>1. Len(journal) = 1 /\ journal[1] = <<>>
        BY <2>1, <3>1 DEF AllWritten, Mirrored, LastLine
      <4>2. journal = << <<>> >>
        BY <1>3, <4>1
      <4> QED
        BY <1>4, <4>2 DEF Start
    <3>2. CASE rows # <<>>
      BY <1>4, <3>2 DEF Start
    <3> QED
      BY <3>1, <3>2
  <2> QED
    BY <1>2, <1>4, <2>1, <2>2 DEF Start, Smooth, AllWritten, Mirrored, LastLine, Idle
<1>5. ASSUME NEW w \in Writers, NEW e \in Events, AppendRow(w, e) PROVE Smooth'
  <2> DEFINE row == NewRow(rows, e)
             n == Len(rows)
  <2>1. \A v \in Writers : Idle(v)
    BY <1>5 DEF AppendRow, Crowded
  <2>2. Mirrored(n) /\ LastLine = <<>> /\ ~half[w]
    BY <1>2, <1>5, <2>1 DEF OneUnderWay, AllWritten
  <2>3. /\ rows' = Append(rows, row) /\ pending' = [pending EXCEPT ![w] = row]
        /\ phase' = "up" /\ UNCHANGED <<journal, half>>
    BY <1>5 DEF AppendRow
  <2>4. row \in Entry
    BY <1>3, NewRowTyped DEF AllEvents
  <2>5. row # NoRow
    BY <2>4, AuditConstants DEF Entry, AllEvents
  <2> HIDE DEF row
  <2>6. Len(rows') = n + 1 /\ rows'[n + 1] = row /\ \A i \in 1..n : rows'[i] = rows[i]
    BY <1>3, <2>3, <2>4
  <2>7. pending'[w] = row /\ ~Idle(w)' /\ \A v \in Writers : ~Idle(v)' => v = w
    BY <2>1, <2>3, <2>5 DEF AuditTypeOK, Idle
  <2>8. Mirrored(Len(rows) - 1)'
    BY <1>3, <2>2, <2>3, <2>6 DEF Mirrored
  <2>9. LastLine' = <<>> /\ ~half'[w]
    BY <2>2, <2>3 DEF LastLine
  <2>10. OneUnderWay'
    BY <1>3, <2>3, <2>6, <2>7, <2>8, <2>9 DEF OneUnderWay
  <2>11. \A v \in Writers : half'[v] => ~Idle(v)'
    BY <1>2, <2>1, <2>3
  <2> QED
    BY <2>3, <2>10, <2>11 DEF Smooth
<1>6. ASSUME NEW w \in Writers, JournalObject(w) PROVE Smooth'
  <2> DEFINE n == Len(rows) - 1
             row == pending[w]
  <2>1. OneUnderWay /\ ~Idle(w) /\ ~half[w]
    BY <1>2, <1>6 DEF AllWritten, JournalObject
  <2>2. /\ n \in Nat /\ Mirrored(n) /\ LastLine = <<>> /\ row = rows[n + 1]
        /\ \A v \in Writers : ~Idle(v) => v = w
    BY <1>3, <2>1 DEF OneUnderWay
  <2>3. /\ journal' = [journal EXCEPT ![Len(journal)] = Append(@, row)]
        /\ half' = [half EXCEPT ![w] = TRUE]
        /\ phase' = "up" /\ UNCHANGED <<rows, pending>>
    BY <1>6 DEF JournalObject
  <2>4. /\ Len(journal) = n + 1 /\ DOMAIN journal = 1..n + 1
        /\ \A i \in 1..n : journal[i] = <<rows[i]>>
    BY <1>3, <2>2 DEF Mirrored
  <2> HIDE DEF n, row
  <2>5. /\ Len(journal') = n + 1 /\ \A i \in 1..n : journal'[i] = journal[i]
        /\ journal'[n + 1] = <<row>>
    BY <1>3, <2>2, <2>3, <2>4 DEF LastLine
  <2>6. Mirrored(n)'
    BY <2>2, <2>3, <2>4, <2>5 DEF Mirrored, n
  <2>7. LastLine' = <<row>>
    BY <2>5 DEF LastLine
  <2>8. half'[w] /\ \A v \in Writers : half'[v] => half[v] \/ v = w
    BY <2>3 DEF AuditTypeOK
  <2>9. OneUnderWay'
    <3>1. Len(rows') > 0 /\ Mirrored(Len(rows) - 1)' /\ pending'[w] = rows'[Len(rows')]
      BY <1>3, <2>2, <2>3, <2>6 DEF n, row
    <3>2. LastLine' = IF half'[w] THEN <<pending'[w]>> ELSE <<>>
      BY <2>3, <2>7, <2>8 DEF row
    <3> QED
      BY <2>1, <2>2, <2>3, <3>1, <3>2 DEF OneUnderWay, Idle
  <2>10. \A v \in Writers : half'[v] => ~Idle(v)'
    BY <1>2, <2>1, <2>3, <2>8 DEF Idle
  <2> QED
    BY <2>3, <2>9, <2>10 DEF Smooth
<1>7. ASSUME NEW w \in Writers, JournalNewline(w) PROVE Smooth'
  <2> DEFINE n == Len(rows) - 1
  <2>1. OneUnderWay /\ ~Idle(w) /\ half[w]
    BY <1>2, <1>7 DEF AllWritten, JournalNewline
  <2>2. /\ n \in Nat /\ Mirrored(n) /\ LastLine = <<rows[n + 1]>>
        /\ \A v \in Writers : ~Idle(v) => v = w
    BY <1>3, <2>1 DEF OneUnderWay
  <2>3. /\ journal' = Append(journal, <<>>) /\ UNCHANGED rows /\ phase' = "up"
        /\ half' = [half EXCEPT ![w] = FALSE] /\ pending' = [pending EXCEPT ![w] = NoRow]
    BY <1>7 DEF JournalNewline
  <2>4. /\ Len(journal) = n + 1 /\ \A i \in 1..n : journal[i] = <<rows[i]>>
        /\ journal[n + 1] = <<rows[n + 1]>>
    BY <2>2 DEF Mirrored, LastLine
  <2> HIDE DEF n
  <2>5. /\ Len(journal') = n + 2 /\ journal'[n + 2] = <<>>
        /\ \A i \in 1..n + 1 : journal'[i] = journal[i]
    BY <1>3, <2>2, <2>3, <2>4
  <2>6. Len(rows') = n + 1
    BY <1>3, <2>3 DEF n
  <2>7. Mirrored(Len(rows))' /\ LastLine' = <<>>
    <3>1. \A i \in 1..n + 1 : journal'[i] = <<rows'[i]>>
      BY <2>2, <2>3, <2>4, <2>5
    <3> QED
      BY <2>2, <2>5, <2>6, <3>1 DEF Mirrored, LastLine
  <2>8. \A v \in Writers : Idle(v)' /\ (half'[v] => half[v] /\ v # w)
    BY <2>2, <2>3 DEF AuditTypeOK, Idle
  <2>9. \A v \in Writers : ~half'[v]
    BY <1>2, <2>2, <2>8
  <2> QED
    BY <2>3, <2>7, <2>8, <2>9 DEF Smooth, AllWritten
<1>8. CASE UNCHANGED avars
  BY <1>2, <1>8 DEF avars, Smooth, AllWritten, OneUnderWay, Mirrored, LastLine, Idle
<1> QED
  BY <1>1, <1>2, <1>4, <1>5, <1>6, <1>7, <1>8
  DEF AuditNext, ImportLine, ImportEnds, JournalMiss, Crash, PowerLoss, Rougher

-----------------------------------------------------------------------------

LEMMA ObjectAt ==
  ASSUME NEW lines
  PROVE  /\ \A l, k : <<l, k>> \in Objects(lines) <=> l \in DOMAIN lines /\ k \in DOMAIN lines[l]
         /\ \A p \in Objects(lines) : p = <<p[1], p[2]>>
BY DEF Objects

\* An object more, at the end of the last line.
LEMMA ObjectAdded ==
  ASSUME NEW lines \in Seq(Line), lines # <<>>, NEW x \in Entry, NEW new, NEW at,
         DOMAIN new = DOMAIN lines, new[Len(lines)] = Append(lines[Len(lines)], x),
         \A l \in DOMAIN lines : l # Len(lines) => new[l] = lines[l],
         at = <<Len(lines), Len(lines[Len(lines)]) + 1>>
  PROVE  /\ at \notin Objects(lines) /\ Objects(new) = Objects(lines) \cup {at}
         /\ new[at[1]][at[2]] = x
         /\ \A p \in Objects(lines) : new[p[1]][p[2]] = lines[p[1]][p[2]]
<1> DEFINE n == Len(lines)
           last == lines[n]
           Object == Entry \cup {Legacy(e) : e \in LegacyEvents}
<1>1. n \in DOMAIN lines /\ last \in Seq(Object) /\ x \in Object
  BY DEF Line
<1>2. DOMAIN new = DOMAIN lines /\ new[n] = Append(last, x)
  OBVIOUS
<1>3. \A l \in DOMAIN lines : l # n => new[l] = lines[l]
  OBVIOUS
<1> HIDE DEF Object
<1>4. /\ DOMAIN new[n] = DOMAIN last \cup {Len(last) + 1} /\ Len(last) + 1 \notin DOMAIN last
      /\ new[n][Len(last) + 1] = x /\ \A k \in DOMAIN last : new[n][k] = last[k]
  BY <1>1, <1>2
<1>5. at = <<n, Len(last) + 1>> /\ at[1] = n /\ at[2] = Len(last) + 1
  OBVIOUS
<1> HIDE DEF n, last
<1>6. \A l, k : <<l, k>> \in Objects(new) <=> <<l, k>> \in Objects(lines) \/ <<l, k>> = at
  <2> TAKE l, k
  <2>1. <<l, k>> \in Objects(new) <=> l \in DOMAIN new /\ k \in DOMAIN new[l]
    BY ObjectAt
  <2>2. <<l, k>> \in Objects(lines) <=> l \in DOMAIN lines /\ k \in DOMAIN lines[l]
    BY ObjectAt
  <2>3. <<l, k>> = at <=> l = n /\ k = Len(last) + 1
    BY <1>5
  <2> QED
    BY <1>1, <1>2, <1>3, <1>4, <2>1, <2>2, <2>3 DEF last
<1>7. at \notin Objects(lines)
  BY <1>4, <1>5, ObjectAt DEF last
<1>8. Objects(new) = Objects(lines) \cup {at}
  <2>1. ASSUME NEW p \in Objects(new) PROVE p \in Objects(lines) \/ p = at
    <3>1. p = <<p[1], p[2]>>
      BY ObjectAt
    <3> QED
      BY <1>6, <3>1
  <2>2. ASSUME NEW p \in Objects(lines) PROVE p \in Objects(new)
    <3>1. p = <<p[1], p[2]>>
      BY ObjectAt
    <3> QED
      BY <1>6, <3>1
  <2>3. at \in Objects(new)
    BY <1>5, <1>6
  <2> QED
    BY <2>1, <2>2, <2>3
<1>9. ASSUME NEW p \in Objects(lines) PROVE new[p[1]][p[2]] = lines[p[1]][p[2]]
  <2>1. p = <<p[1], p[2]>> /\ p[1] \in DOMAIN lines /\ p[2] \in DOMAIN lines[p[1]]
    BY ObjectAt
  <2> QED
    BY <1>3, <1>4, <2>1 DEF last
<1> QED
  BY <1>4, <1>5, <1>7, <1>8, <1>9

\* A line more, with nothing on it yet.
LEMMA LineAdded ==
  ASSUME NEW lines \in Seq(Line), NEW new, new = Append(lines, <<>>)
  PROVE  /\ Objects(new) = Objects(lines)
         /\ \A p \in Objects(lines) : new[p[1]][p[2]] = lines[p[1]][p[2]]
<1>1. <<>> \in Line
  BY DEF Line
<1>2. /\ DOMAIN new = DOMAIN lines \cup {Len(lines) + 1} /\ Len(lines) + 1 \notin DOMAIN lines
      /\ new[Len(lines) + 1] = <<>> /\ \A l \in DOMAIN lines : new[l] = lines[l]
  BY <1>1
<1>3. ASSUME NEW p PROVE p \in Objects(new) <=> p \in Objects(lines)
  <2>1. p \in Objects(new) \/ p \in Objects(lines) => p = <<p[1], p[2]>>
    BY ObjectAt
  <2>2. <<p[1], p[2]>> \in Objects(new) <=> p[1] \in DOMAIN new /\ p[2] \in DOMAIN new[p[1]]
    BY ObjectAt
  <2>3. <<p[1], p[2]>> \in Objects(lines) <=> p[1] \in DOMAIN lines /\ p[2] \in DOMAIN lines[p[1]]
    BY ObjectAt
  <2>4. DOMAIN <<>> = {}
    OBVIOUS
  <2> QED
    BY <1>2, <2>1, <2>2, <2>3, <2>4
<1>4. Objects(new) = Objects(lines)
  BY <1>3
<1> QED
  BY <1>2, <1>4, ObjectAt

\* A row is as long as its place in the chain, so no two rows are equal.  A thread has
\* a row of its own, and the rows without an object in the file are those whose
\* thread has yet to write it.
Numbered == \A i \in DOMAIN rows : Len(rows[i].hash) = i
UnderWay ==
  /\ \A w \in Writers : half[w] => ~Idle(w)
  /\ \A w \in Writers : ~Idle(w) => Committed(rows, pending[w])
  /\ \A v, w \in Writers : ~Idle(v) /\ pending[v] = pending[w] => v = w
Unwritten(row) == \E w \in Writers : pending[w] = row /\ ~half[w]
InFile ==
  /\ \A p \in Objects(journal) : Committed(rows, journal[p[1]][p[2]])
  /\ \A i \in DOMAIN rows :
       IF Unwritten(rows[i]) THEN Places(journal, rows[i]) = {}
       ELSE \E p \in Objects(journal) : Places(journal, rows[i]) = {p}
Whole ==
  Untouched =>
    /\ phase # "importing"
    /\ phase = "down" => rows = <<>> /\ journal = << <<>> >>
    /\ Numbered /\ UnderWay /\ InFile

LEMMA WholeInit == AuditInit => Whole
<1> SUFFICES ASSUME AuditInit, Untouched PROVE Whole
  BY DEF Whole
<1>1. journal = LegacyLog(<<>>)
  BY DEF AuditInit, Untouched
<1>2. LegacyLog(<<>>) = << <<>> >>
  BY DEF LegacyLog
<1>3. journal = << <<>> >> /\ rows = <<>>
  BY <1>1, <1>2 DEF AuditInit
<1>4. Objects(journal) = {}
  BY <1>3 DEF Objects
<1>5. Numbered /\ InFile
  BY <1>3, <1>4 DEF Numbered, InFile
<1>6. UnderWay
  BY DEF AuditInit, UnderWay, Idle
<1> QED
  BY <1>3, <1>5, <1>6 DEF AuditInit, Whole

LEMMA WholeStep == AuditTypeOK /\ Whole /\ [AuditNext]_avars => Whole'
<1> SUFFICES ASSUME AuditTypeOK, Whole, [AuditNext]_avars, Untouched' PROVE Whole'
  BY DEF Whole
<1>1. Untouched
  BY DEF AuditNext, Start, ImportLine, ImportEnds, AppendRow, JournalObject, JournalNewline,
         JournalMiss, Crash, PowerLoss, Rougher, Crowded, Untouched, avars
<1>2. /\ phase # "importing" /\ Numbered /\ UnderWay /\ InFile
      /\ phase = "down" => rows = <<>> /\ journal = << <<>> >>
  BY <1>1 DEF Whole
<1>3. /\ rows \in Seq(Entry) /\ journal \in Seq(Line) /\ journal # <<>>
      /\ pending \in [Writers -> Entry \cup {NoRow}] /\ half \in [Writers -> BOOLEAN]
  BY DEF AuditTypeOK
<1>4. NoRow \notin Entry
  BY AuditConstants DEF Entry, AllEvents
<1>5. ASSUME NEW i \in DOMAIN rows, NEW j \in DOMAIN rows, rows[i] = rows[j] PROVE i = j
  BY <1>2, <1>5 DEF Numbered
<1>6. CASE Start
  <2>1. phase' = "up" /\ UNCHANGED <<rows, journal, pending, half>>
    BY <1>2, <1>6 DEF Start
  <2> QED
    BY <1>2, <2>1 DEF Whole, Numbered, UnderWay, InFile, Unwritten, Committed, Idle
<1>7. ASSUME NEW w \in Writers, NEW e \in Events, AppendRow(w, e) PROVE Whole'
  <2> DEFINE n == Len(rows)
  <2>0. PICK row : row = NewRow(rows, e)
    OBVIOUS
  <2>1. row \in Entry
    BY <1>3, <2>0, NewRowTyped DEF AllEvents
  <2>2. Len(row.hash) = n + 1
    <3>1. row.hash = Append(HeadHash(rows), e)
      BY <2>0 DEF NewRow, EventHash
    <3>2. HeadHash(rows) \in Seq(AllEvents) /\ Len(HeadHash(rows)) = n
      <4>1. CASE rows = <<>>
        BY <4>1 DEF HeadHash, ZeroHash
      <4>2. CASE rows # <<>>
        <5>1. n \in DOMAIN rows /\ rows[n] \in Entry
          BY <1>3, <4>2
        <5> QED
          BY <1>2, <4>2, <5>1 DEF HeadHash, Numbered, Entry
      <4> QED BY <4>1, <4>2
    <3> QED
      BY <3>1, <3>2 DEF AllEvents
  <2>3. /\ Idle(w) /\ phase' = "up" /\ UNCHANGED <<journal, half>>
        /\ rows' = Append(rows, row) /\ pending' = [pending EXCEPT ![w] = row]
    BY <1>7, <2>0 DEF AppendRow
  <2>4. /\ DOMAIN rows' = DOMAIN rows \cup {n + 1} /\ n + 1 \notin DOMAIN rows
        /\ rows'[n + 1] = row /\ \A i \in DOMAIN rows : rows'[i] = rows[i]
    BY <1>3, <2>1, <2>3
  <2>5. \A i \in DOMAIN rows : rows[i] # row
    BY <1>2, <1>3, <2>2, <2>4 DEF Numbered
  <2>6. Numbered'
    BY <1>2, <2>2, <2>4 DEF Numbered
  <2>7. /\ \A x : Committed(rows, x) => Committed(rows, x)'
        /\ Committed(rows, row)' /\ ~Committed(rows, row)
    BY <2>4, <2>5 DEF Committed
  <2>8. /\ pending'[w] = row /\ ~Idle(w)' /\ ~half[w]
        /\ \A v \in Writers : v # w => pending'[v] = pending[v] /\ (Idle(v)' <=> Idle(v))
    BY <1>2, <1>3, <1>4, <2>1, <2>3 DEF Idle, UnderWay
  <2>9. UnderWay'
    <3>1. \A v \in Writers : half'[v] => ~Idle(v)'
      BY <1>2, <2>3, <2>8 DEF UnderWay
    <3>2. \A v \in Writers : ~Idle(v)' => Committed(rows, pending[v])'
      BY <1>2, <2>7, <2>8 DEF UnderWay
    <3>3. ASSUME NEW u \in Writers, NEW v \in Writers, ~Idle(u)', pending'[u] = pending'[v]
          PROVE  u = v
      <4>1. CASE u # w /\ v # w
        BY <1>2, <2>8, <3>3, <4>1 DEF UnderWay
      <4>2. \A x \in Writers : x # w => pending[x] # row
        BY <1>2, <1>4, <2>1, <2>7 DEF UnderWay, Idle
      <4> QED BY <2>8, <3>3, <4>1, <4>2
    <3> QED
      BY <3>1, <3>2, <3>3 DEF UnderWay
  <2>10. InFile'
    <3>1. \A p \in Objects(journal') : Committed(rows, journal[p[1]][p[2]])'
      BY <1>2, <2>3, <2>7 DEF InFile
    <3>2. Places(journal', row) = {}
      BY <1>2, <2>3, <2>7 DEF InFile, Places
    <3>3. Unwritten(row)'
      BY <2>3, <2>8 DEF Unwritten
    <3>4. ASSUME NEW i \in DOMAIN rows PROVE Unwritten(rows[i])' <=> Unwritten(rows[i])
      <4>1. rows'[i] = rows[i] /\ rows[i] # row /\ rows[i] # NoRow
        BY <1>3, <1>4, <2>4, <2>5
      <4> QED
        BY <2>3, <2>8, <4>1 DEF Unwritten, Idle
    <3>5. ASSUME NEW i \in DOMAIN rows'
          PROVE  IF Unwritten(rows[i])' THEN Places(journal', rows'[i]) = {}
                 ELSE \E p \in Objects(journal') : Places(journal', rows'[i]) = {p}
      <4>1. CASE i = n + 1
        BY <2>4, <3>2, <3>3, <4>1
      <4>2. CASE i \in DOMAIN rows
        BY <1>2, <2>3, <2>4, <3>4, <4>2 DEF InFile
      <4> QED
        BY <2>4, <4>1, <4>2
    <3> QED
      BY <3>1, <3>5 DEF InFile
  <2> QED
    BY <2>3, <2>6, <2>9, <2>10 DEF Whole
<1>8. ASSUME NEW w \in Writers, JournalObject(w) PROVE Whole'
  <2> DEFINE at == <<Len(journal), Len(journal[Len(journal)]) + 1>>
  <2>0. PICK row : row = pending[w]
    OBVIOUS
  <2>1. /\ ~Idle(w) /\ ~half[w] /\ phase' = "up" /\ UNCHANGED <<rows, pending>>
        /\ journal' = [journal EXCEPT ![Len(journal)] = Append(@, row)]
        /\ half' = [half EXCEPT ![w] = TRUE]
    BY <1>8, <2>0 DEF JournalObject
  <2>2. row \in Entry /\ Committed(rows, row)
    BY <1>2, <1>3, <2>0, <2>1 DEF Idle, UnderWay
  <2>3. PICK new : new = journal'
    OBVIOUS
  <2>4. /\ at \notin Objects(journal) /\ Objects(new) = Objects(journal) \cup {at}
        /\ new[at[1]][at[2]] = row
        /\ \A p \in Objects(journal) : new[p[1]][p[2]] = journal[p[1]][p[2]]
    <3>1. new = [journal EXCEPT ![Len(journal)] = Append(@, row)]
      BY <2>1, <2>3
    <3>2. PICK old : old = journal
      OBVIOUS
    <3>3. PICK place : place = at
      OBVIOUS
    <3>4. /\ old \in Seq(Line) /\ old # <<>> /\ DOMAIN new = DOMAIN old
          /\ new[Len(old)] = Append(old[Len(old)], row)
          /\ \A l \in DOMAIN old : l # Len(old) => new[l] = old[l]
          /\ place = <<Len(old), Len(old[Len(old)]) + 1>>
      BY <1>3, <3>1, <3>2, <3>3
    <3>5. /\ place \notin Objects(old) /\ Objects(new) = Objects(old) \cup {place}
          /\ new[place[1]][place[2]] = row
          /\ \A p \in Objects(old) : new[p[1]][p[2]] = old[p[1]][p[2]]
      BY <2>2, <3>4, ObjectAdded, SMTT(90)
    <3> HIDE DEF at
    <3> QED
      BY <3>2, <3>3, <3>5
  <2> HIDE DEF at
  <2>5. Numbered' /\ UnderWay'
    <3>1. \A v \in Writers : half'[v] => half[v] \/ v = w
      BY <1>3, <2>1
    <3> QED
      BY <1>2, <2>1, <3>1 DEF Numbered, UnderWay, Idle, Committed
  <2>6. ASSUME NEW p \in Objects(new) PROVE Committed(rows, new[p[1]][p[2]])
    BY <1>2, <2>2, <2>4 DEF InFile
  <2>7. ASSUME NEW i \in DOMAIN rows
        PROVE  IF Unwritten(rows[i])' THEN Places(new, rows[i]) = {}
               ELSE \E p \in Objects(new) : Places(new, rows[i]) = {p}
    <3>1. CASE rows[i] = row
      <4>1. Unwritten(row) /\ ~Unwritten(row)'
        BY <1>2, <1>3, <2>0, <2>1 DEF Unwritten, UnderWay, Idle
      <4>2. Places(journal, row) = {}
        BY <1>2, <3>1, <4>1 DEF InFile
      <4>3. Places(new, row) = {at}
        BY <2>4, <4>2 DEF Places
      <4> QED
        <5>1. ~Unwritten(rows[i])' /\ at \in Objects(new)
          BY <2>1, <2>4, <3>1, <4>1 DEF Unwritten
        <5> QED
          BY <3>1, <4>3, <5>1
    <3>2. CASE rows[i] # row
      <4>1. Unwritten(rows[i])' <=> Unwritten(rows[i])
        BY <1>3, <2>0, <2>1, <3>2 DEF Unwritten
      <4>2. Places(new, rows[i]) = Places(journal, rows[i])
        BY <2>4, <3>2 DEF Places
      <4> QED
        BY <1>2, <2>4, <4>1, <4>2 DEF InFile
    <3> QED BY <3>1, <3>2
  <2>8. InFile'
    BY <2>1, <2>3, <2>6, <2>7 DEF InFile, Committed, Unwritten
  <2> QED
    BY <2>1, <2>5, <2>8 DEF Whole
<1>9. ASSUME NEW w \in Writers, JournalNewline(w) PROVE Whole'
  <2>1. /\ half[w] /\ phase' = "up" /\ UNCHANGED rows /\ journal' = Append(journal, <<>>)
        /\ half' = [half EXCEPT ![w] = FALSE] /\ pending' = [pending EXCEPT ![w] = NoRow]
    BY <1>9 DEF JournalNewline
  <2>2. PICK new : new = journal'
    OBVIOUS
  <2>3. /\ Objects(new) = Objects(journal)
        /\ \A p \in Objects(journal) : new[p[1]][p[2]] = journal[p[1]][p[2]]
    BY <1>3, <2>1, <2>2, LineAdded
  <2>4. \A v \in Writers : /\ half'[v] <=> half[v] /\ v # w
                           /\ ~Idle(v)' <=> ~Idle(v) /\ v # w
                           /\ v # w => pending'[v] = pending[v]
    BY <1>3, <2>1 DEF Idle
  <2>5. Numbered'
    BY <1>2, <2>1 DEF Numbered
  <2>6. UnderWay'
    BY <1>2, <2>1, <2>4 DEF UnderWay, Idle, Committed
  <2>7. ASSUME NEW i \in DOMAIN rows PROVE Unwritten(rows[i])' <=> Unwritten(rows[i])
    <3>1. rows[i] # NoRow
      BY <1>3, <1>4
    <3> QED
      BY <1>3, <2>1, <2>4, <3>1 DEF Unwritten
  <2>8. \A i \in DOMAIN rows : Places(new, rows[i]) = Places(journal, rows[i])
    BY <2>3 DEF Places
  <2>9. InFile'
    <3>1. \A p \in Objects(new) : Committed(rows, new[p[1]][p[2]])
      BY <1>2, <2>3 DEF InFile
    <3>2. \A i \in DOMAIN rows :
            IF Unwritten(rows[i])' THEN Places(new, rows[i]) = {}
            ELSE \E p \in Objects(new) : Places(new, rows[i]) = {p}
      BY <1>2, <2>3, <2>7, <2>8 DEF InFile
    <3> QED
      BY <2>1, <2>2, <3>1, <3>2 DEF InFile, Committed, Unwritten
  <2> QED
    BY <2>1, <2>5, <2>6, <2>9 DEF Whole
<1>10. CASE UNCHANGED avars
  BY <1>2, <1>10 DEF avars, Whole, Numbered, UnderWay, InFile, Unwritten, Committed, Idle
<1> QED
  BY <1>2, <1>6, <1>7, <1>8, <1>9, <1>10
  DEF AuditNext, ImportLine, ImportEnds, JournalMiss, Crash, PowerLoss, Rougher, Untouched

\* While nothing has failed, the file between requests has every row exactly once,
\* however many of them overlapped; while they come one at a time it is the chain,
\* one row on a line, and verify() accepts it.
THEOREM ReplicaIsWhole == AuditSpec => []FileIsReplica
<1>1. AuditTypeOK /\ ChainVerifies /\ Smooth /\ past = "smooth" /\ Quiet =>
        Verify /\ Written(journal) = [i \in DOMAIN rows |-> <<rows[i]>>]
  <2> SUFFICES ASSUME AuditTypeOK, ChainVerifies, Smooth, past = "smooth", Quiet
               PROVE  Verify /\ Written(journal) = [i \in DOMAIN rows |-> <<rows[i]>>]
    OBVIOUS
  <2> DEFINE n == Len(rows)
             ls == Written(journal)
  <2>0. \A x : Len(<<x>>) = 1 /\ <<x>>[1] = x /\ <<x>> # <<>>
    OBVIOUS
  <2>1. n \in Nat /\ DOMAIN rows = 1..n /\ rows \in Seq(Entry) /\ journal \in Seq(Line)
    BY DEF AuditTypeOK
  <2>2. Mirrored(n) /\ LastLine = <<>>
    BY DEF Smooth, Quiet, AllWritten, OneUnderWay
  <2>3. /\ DOMAIN journal = 1..n + 1
        /\ journal[n + 1] = <<>>
        /\ \A i \in 1..n : (journal[i] = <<rows[i]>> /\ journal[i] # <<>>)
    <3> HIDE DEF n
    <3>1. Len(journal) = n + 1 /\ \A i \in 1..n : journal[i] = <<rows[i]>>
      BY <2>2 DEF Mirrored
    <3>2. DOMAIN journal = 1..n + 1
      BY <2>1, <3>1
    <3>3. journal[n + 1] = <<>>
      BY <2>2, <3>1 DEF LastLine
    <3>4. \A i \in 1..n : journal[i] # <<>>
      BY <2>0, <3>1
    <3> QED
      BY <3>1, <3>2, <3>3, <3>4
  <2>4. ls = [i \in 1..n |-> journal[i]]
    BY <2>1, <2>3, WrittenLines
  <2> HIDE DEF ls
  <2>5. DOMAIN ls = 1..n /\ \A i \in 1..n : ls[i] = <<rows[i]>>
    BY <2>3, <2>4
  <2>6. Len(ls) = n
    BY <2>1, <2>4
  <2>7. \A i \in 1..n : Len(ls[i]) = 1 /\ ls[i][1] = rows[i]
    BY <2>0, <2>5
  <2>8. [i \in DOMAIN ls |-> ls[i][1]] = rows
    BY <2>1, <2>5, <2>7
  <2>10. ls = [i \in DOMAIN rows |-> <<rows[i]>>]
    BY <2>1, <2>3, <2>4
  <2>9. VerifyJsonl(journal)
    BY <2>5, <2>7, <2>8 DEF VerifyJsonl, ChainVerifies, ls
  <2> QED
    BY <2>9, <2>10 DEF Verify, ChainVerifies, ls
<1>2. AuditTypeOK /\ Whole /\ Quiet /\ Untouched =>
        \A i \in DOMAIN rows : \E p \in Objects(journal) : Places(journal, rows[i]) = {p}
  <2> SUFFICES ASSUME AuditTypeOK, Whole, Quiet, Untouched, NEW i \in DOMAIN rows
               PROVE  \E p \in Objects(journal) : Places(journal, rows[i]) = {p}
    OBVIOUS
  <2>1. rows[i] \in Entry
    BY DEF AuditTypeOK
  <2>2. NoRow \notin Entry
    BY AuditConstants DEF Entry, AllEvents
  <2> QED
    BY <2>1, <2>2 DEF Whole, InFile, Unwritten, Quiet, Idle
<1>3. AuditSpec => []Smooth /\ []Whole
  BY SmoothInit, SmoothStep, WholeInit, WholeStep, AuditTypeCorrect, PTL DEF AuditSpec
<1>4. AuditTypeOK /\ ChainVerifies /\ Smooth /\ Whole => FileIsReplica
  BY <1>1, <1>2 DEF FileIsReplica
<1> QED
  BY <1>3, <1>4, AuditTypeCorrect, ChainAlwaysVerifies, PTL
=============================================================================
