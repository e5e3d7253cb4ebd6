--------------------------- MODULE VaultStore_proofs ---------------------------
(***************************************************************************)
(* Theorems of VaultHistory, and that the handlers of VaultStore implement *)
(* it, for every set of names, ciphertexts, sessions and providers, bodies *)
(* of any length and every number of changes.                              *)
(***************************************************************************)
EXTENDS VaultStore, FiniteSetTheorems, TLAPS

\* Every request leaves well-typed tables.
THEOREM VaultTypeCorrect == Spec => []TypeOK
<1>1. Init => TypeOK
  BY DEF Init, TypeOK, Snapshot
<1>2. TypeOK /\ [Next]_tables => TypeOK'
  <2> SUFFICES ASSUME TypeOK, [Next]_tables PROVE TypeOK'
    OBVIOUS
  <2> USE DEF TypeOK
  <2>0. ASSUME NEW a \in {"vault.put", "vault.rollback", "provider.put", "provider.delete"},
               NEW s \in SessionIds \cup {NoSession}, NEW ns \in SUBSET (Names \cup Providers),
               Record(a, s, ns)
        PROVE  audit' \in Seq(AuditRow)
    BY <2>0 DEF Record, AuditRow
  <2>1. ASSUME NEW snap \in Snapshot, NEW s \in SessionIds, Put(snap, s) PROVE TypeOK'
    <3>1. Present(snap) \in SUBSET (Names \cup Providers)
      BY DEF Present, Snapshot
    <3>2. audit' \in Seq(AuditRow)
      BY <2>0, <2>1, <3>1 DEF Put
    <3>3. \A n \in Names : Changed(entries, snap, n) => snap[n] \in Row
      BY DEF Changed, Snapshot
    <3>4. versions' \in [Names -> Seq(Row)]
      BY <2>1, <3>3 DEF Put
    <3> QED
      BY <2>1, <3>2, <3>4 DEF Put
  <2>2. ASSUME NEW n \in Names, NEW s \in SessionIds, NEW seq \in DOMAIN versions[n],
               Rollback(n, seq, s)
        PROVE  TypeOK'
    <3>1. versions[n][seq] \in Row
      OBVIOUS
    <3>2. audit' \in Seq(AuditRow)
      BY <2>0, <2>2 DEF Rollback
    <3> QED
      BY <2>2, <3>1, <3>2 DEF Rollback, Snapshot
  <2>3. ASSUME NEW n \in Names, NEW seq \in 1..(MaxAudit + 1), RollbackMiss(n, seq)
        PROVE  TypeOK'
    BY <2>3 DEF RollbackMiss, tables
  <2>4. ASSUME NEW p \in Providers, NEW d \in Defs, PutProvider(p, d) PROVE TypeOK'
    <3>1. audit' \in Seq(AuditRow)
      BY <2>0, <2>4 DEF PutProvider
    <3> QED
      BY <2>4, <3>1 DEF PutProvider
  <2>5. ASSUME NEW p \in Providers, DeleteProvider(p) PROVE TypeOK'
    <3>1. audit' \in Seq(AuditRow)
      BY <2>0, <2>5 DEF DeleteProvider
    <3> QED
      BY <2>5, <3>1 DEF DeleteProvider
  <2>6. CASE UNCHANGED tables
    BY <2>6 DEF tables
  <2> QED
    BY <2>1, <2>2, <2>3, <2>4, <2>5, <2>6 DEF Next
<1> QED
  BY <1>1, <1>2, PTL DEF Spec

\* The current ciphertext of a name with a history is its newest version.
THEOREM EntryMatchesHistory == Spec => []EntryIsNewestVersion
<1>1. Init => EntryIsNewestVersion
  BY DEF Init, EntryIsNewestVersion
<1>2. TypeOK /\ EntryIsNewestVersion /\ [Next]_tables => EntryIsNewestVersion'
  <2> SUFFICES ASSUME TypeOK, EntryIsNewestVersion, [Next]_tables,
                      NEW m \in Names, entries'[m] # NoEntry, versions'[m] # <<>>
               PROVE  entries'[m].ct = versions'[m][Len(versions'[m])].ct
    BY DEF EntryIsNewestVersion
  <2>0. versions[m] \in Seq(Row)
    BY DEF TypeOK
  <2>1. ASSUME NEW snap \in Snapshot, NEW s \in SessionIds, Put(snap, s)
        PROVE  entries'[m].ct = versions'[m][Len(versions'[m])].ct
    <3>1. snap[m] # NoEntry /\ entries'[m] = snap[m]
      BY <2>1 DEF Put
    <3>2. CASE Changed(entries, snap, m)
      <4>1. versions'[m] = Append(versions[m], snap[m])
        BY <2>1, <3>2 DEF Put
      <4> QED
        BY <2>0, <3>1, <4>1 DEF Snapshot
    <3>3. CASE ~Changed(entries, snap, m)
      <4>1. versions'[m] = versions[m]
        BY <2>1, <3>3 DEF Put
      <4>2. entries[m] # NoEntry /\ entries[m].ct = snap[m].ct
        BY <3>1, <3>3 DEF Changed
      <4> QED
        BY <3>1, <4>1, <4>2 DEF EntryIsNewestVersion
    <3> QED
      BY <3>2, <3>3
  <2>2. ASSUME NEW n \in Names, NEW s \in SessionIds, NEW seq \in DOMAIN versions[n],
               Rollback(n, seq, s)
        PROVE  entries'[m].ct = versions'[m][Len(versions'[m])].ct
    <3>1. CASE m = n
      <4>1. /\ entries'[m] = versions[n][seq]
            /\ versions'[m] = Append(versions[n], versions[n][seq])
        BY <2>2, <3>1 DEF Rollback, TypeOK, Snapshot
      <4> QED
        BY <2>0, <3>1, <4>1
    <3>2. CASE m # n
      <4>1. entries'[m] = entries[m] /\ versions'[m] = versions[m]
        BY <2>2, <3>2 DEF Rollback, TypeOK, Snapshot
      <4> QED
        BY <4>1 DEF EntryIsNewestVersion
    <3> QED
      BY <3>1, <3>2
  <2>3. CASE UNCHANGED <<entries, versions>>
    BY <2>3 DEF EntryIsNewestVersion
  <2> QED
    BY <2>1, <2>2, <2>3 DEF Next, RollbackMiss, PutProvider, DeleteProvider, tables
<1> QED
  BY <1>1, <1>2, VaultTypeCorrect, PTL DEF Spec

\* One request adds at most one row to a name's history, and the request that
\* adds it names it in the audit row it appends.
LEMMA HistoryStep ==
  ASSUME TypeOK, [Next]_tables, NEW m \in Names
  PROVE  \/ /\ versions'[m] = versions[m]
            /\ \/ audit' = audit
               \/ \E e \in AuditRow : audit' = Append(audit, e)
         \/ /\ \E row \in Row : versions'[m] = Append(versions[m], row)
            /\ \E e \in AuditRow : m \in e.names /\ audit' = Append(audit, e)
<1> DEFINE Kept  == /\ versions'[m] = versions[m]
                    /\ \/ audit' = audit
                       \/ \E e \in AuditRow : audit' = Append(audit, e)
           Grown == /\ \E row \in Row : versions'[m] = Append(versions[m], row)
                    /\ \E e \in AuditRow : m \in e.names /\ audit' = Append(audit, e)
<1>0. ASSUME NEW a \in {"vault.put", "vault.rollback", "provider.put", "provider.delete"},
             NEW s \in SessionIds \cup {NoSession}, NEW ns \in SUBSET (Names \cup Providers),
             Record(a, s, ns)
      PROVE  \E e \in AuditRow : e.names = ns /\ audit' = Append(audit, e)
  <2>1. [action |-> a, session |-> s, names |-> ns] \in AuditRow
    BY DEF AuditRow
  <2> QED
    BY <1>0, <2>1 DEF Record
<1>1. ASSUME NEW snap \in Snapshot, NEW s \in SessionIds, Put(snap, s) PROVE Kept \/ Grown
  <2>1. Present(snap) \in SUBSET (Names \cup Providers)
    BY DEF Present, Snapshot
  <2>2. PICK e \in AuditRow : e.names = Present(snap) /\ audit' = Append(audit, e)
    BY <1>0, <1>1, <2>1 DEF Put
  <2>3. CASE Changed(entries, snap, m)
    <3>1. snap[m] \in Row /\ versions'[m] = Append(versions[m], snap[m]) /\ m \in Present(snap)
      BY <1>1, <2>3 DEF Put, Changed, Snapshot, Present
    <3> QED
      BY <2>2, <3>1
  <2>4. CASE ~Changed(entries, snap, m)
    BY <1>1, <2>2, <2>4 DEF Put
  <2> QED
    BY <2>3, <2>4
<1>2. ASSUME NEW n \in Names, NEW s \in SessionIds, NEW seq \in DOMAIN versions[n],
             Rollback(n, seq, s)
      PROVE  Kept \/ Grown
  <2>1. PICK e \in AuditRow : e.names = {n} /\ audit' = Append(audit, e)
    BY <1>0, <1>2 DEF Rollback
  <2>2. versions[n][seq] \in Row
    BY DEF TypeOK
  <2>3. CASE m = n
    BY <1>2, <2>1, <2>2, <2>3 DEF Rollback, TypeOK
  <2>4. CASE m # n
    BY <1>2, <2>1, <2>4 DEF Rollback, TypeOK
  <2> QED
    BY <2>3, <2>4
<1>3. ASSUME NEW p \in Providers, NEW d \in Defs, PutProvider(p, d) PROVE Kept
  <2>1. \E e \in AuditRow : e.names = {p} /\ audit' = Append(audit, e)
    BY <1>0, <1>3 DEF PutProvider
  <2> QED
    BY <1>3, <2>1 DEF PutProvider
<1>4. ASSUME NEW p \in Providers, DeleteProvider(p) PROVE Kept
  <2>1. \E e \in AuditRow : e.names = {p} /\ audit' = Append(audit, e)
    BY <1>0, <1>4 DEF DeleteProvider
  <2> QED
    BY <1>4, <2>1 DEF DeleteProvider
<1>5. CASE UNCHANGED tables
  BY <1>5 DEF tables
<1> QED
  BY <1>1, <1>2, <1>3, <1>4, <1>5 DEF Next, RollbackMiss

\* The box-action body of HistoryOnlyGrows, for one step.
LEMMA GrowsStep ==
  ASSUME TypeOK, [Next]_tables, NEW m \in Names
  PROVE  /\ Len(versions[m]) <= Len(versions'[m])
         /\ \A i \in DOMAIN versions[m] : versions'[m][i] = versions[m][i]
<1>1. versions[m] \in Seq(Row)
  BY DEF TypeOK
<1>2. versions'[m] = versions[m] \/ \E row \in Row : versions'[m] = Append(versions[m], row)
  BY HistoryStep
<1> QED
  BY <1>1, <1>2

\* No request rewrites, renumbers or drops a version row.
THEOREM HistoryIsAppendOnly == Spec => HistoryOnlyGrows
<1>1. TypeOK /\ [Next]_tables => [KeepsHistory]_tables
  BY GrowsStep DEF KeepsHistory
<1> QED
  BY <1>1, VaultTypeCorrect, PTL DEF Spec, HistoryOnlyGrows

\* A ciphertext with a history that is overwritten or deleted stays a version.
THEOREM NothingReplacedIsLost == Spec => ReplacedStaysRestorable
<1>1. TypeOK /\ EntryIsNewestVersion /\ [Next]_tables => [KeepsReplaced]_tables
  <2> SUFFICES ASSUME TypeOK, EntryIsNewestVersion, [Next]_tables,
                      NEW m \in Names, entries[m] # NoEntry, versions[m] # <<>>
               PROVE  \E i \in DOMAIN versions'[m] : versions'[m][i].ct = entries[m].ct
    BY DEF KeepsReplaced
  <2> DEFINE last == Len(versions[m])
  <2>1. versions[m] \in Seq(Row) /\ last \in DOMAIN versions[m]
    BY DEF TypeOK
  <2>2. entries[m].ct = versions[m][last].ct
    BY DEF EntryIsNewestVersion
  <2>3. versions'[m] = versions[m] \/ \E row \in Row : versions'[m] = Append(versions[m], row)
    BY HistoryStep
  <2>4. last \in DOMAIN versions'[m] /\ versions'[m][last] = versions[m][last]
    BY <2>1, <2>3
  <2> QED
    BY <2>2, <2>4
<1> QED
  BY <1>1, VaultTypeCorrect, EntryMatchesHistory, PTL DEF Spec, ReplacedStaysRestorable

\* Each version row of a name has its own audit row naming it.
THEOREM EveryVersionIsAudited == Spec => []HistoryIsAudited
<1>1. Init => HistoryIsAudited
  <2> SUFFICES ASSUME Init, NEW m \in Names PROVE Len(versions[m]) <= Cardinality(NamedIn(m))
    BY DEF HistoryIsAudited
  <2>1. NamedIn(m) = {}
    BY DEF Init, NamedIn
  <2> QED
    BY <2>1, FS_EmptySet DEF Init
<1>2. TypeOK /\ HistoryIsAudited /\ [Next]_tables => HistoryIsAudited'
  <2> SUFFICES ASSUME TypeOK, HistoryIsAudited, [Next]_tables, NEW m \in Names
               PROVE  Len(versions'[m]) <= Cardinality(NamedIn(m)')
    BY DEF HistoryIsAudited
  <2> DEFINE next == Len(audit) + 1
  <2>1. /\ versions[m] \in Seq(Row) /\ audit \in Seq(AuditRow)
        /\ Len(versions[m]) <= Cardinality(NamedIn(m))
    BY DEF TypeOK, HistoryIsAudited
  <2>2. IsFiniteSet(NamedIn(m)) /\ next \notin NamedIn(m)
    <3>1. NamedIn(m) \subseteq 1..Len(audit)
      BY <2>1 DEF NamedIn
    <3>2. IsFiniteSet(1..Len(audit))
      BY <2>1, FS_Interval
    <3> QED
      BY <2>1, <3>1, <3>2, FS_Subset
  <2>3. Cardinality(NamedIn(m)) \in Nat
    BY <2>2, FS_CardinalityType
  <2>4. Cardinality(NamedIn(m) \cup {next}) = Cardinality(NamedIn(m)) + 1
    BY <2>2, FS_AddElement
  <2>5. ASSUME NEW e \in AuditRow, audit' = Append(audit, e)
        PROVE  NamedIn(m)' = IF m \in e.names THEN NamedIn(m) \cup {next} ELSE NamedIn(m)
    BY <2>1, <2>5 DEF NamedIn
  <2>6. CASE versions'[m] = versions[m] /\ audit' = audit
    BY <2>1, <2>6 DEF NamedIn
  <2>7. CASE versions'[m] = versions[m] /\ \E e \in AuditRow : audit' = Append(audit, e)
    <3>1. Len(versions'[m]) = Len(versions[m]) /\ Len(versions[m]) \in Nat
      BY <2>1, <2>7
    <3>2. CASE NamedIn(m)' = NamedIn(m)
      BY <2>1, <3>1, <3>2
    <3>3. CASE NamedIn(m)' = NamedIn(m) \cup {next}
      <4>1. Cardinality(NamedIn(m)') = Cardinality(NamedIn(m)) + 1
        BY <2>4, <3>3
      <4> QED
        BY <2>1, <2>3, <3>1, <4>1
    <3> QED
      BY <2>5, <2>7, <3>2, <3>3
  <2>8. CASE /\ \E row \in Row : versions'[m] = Append(versions[m], row)
             /\ \E e \in AuditRow : m \in e.names /\ audit' = Append(audit, e)
    <3>1. Len(versions'[m]) = Len(versions[m]) + 1
      BY <2>1, <2>8
    <3>2. NamedIn(m)' = NamedIn(m) \cup {next}
      BY <2>5, <2>8
    <3> QED
      BY <2>1, <2>3, <2>4, <3>1, <3>2
  <2> QED
    BY <2>6, <2>7, <2>8, HistoryStep
<1> QED
  BY <1>1, <1>2, VaultTypeCorrect, PTL DEF Spec

(***************************************************************************)
(* The handlers, statement by statement                                    *)
(***************************************************************************)

\* A body is a sequence of rows.
LEMMA BodyIsSeq ==
  ASSUME NEW items \in Body
  PROVE  /\ Len(items) \in Nat /\ DOMAIN items = 1..Len(items)
         /\ \A i \in 1..Len(items) : items[i] \in Item
<1>1. PICK k \in 0..MaxItems : items \in [1..k -> Item]
  BY DEF Body
<1>2. k \in Nat
  OBVIOUS
<1> QED
  BY <1>1, <1>2

Request == PutRequest \cup RollbackRequest \cup ProviderPut \cup ProviderDelete
Tx == [req : Request, done : Nat, logged : BOOLEAN,
       entries : Snapshot, versions : [Names -> Seq(Row)],
       custom : [Providers -> Defs \cup {NoEntry}], audit : Seq(AuditRow)]

\* The audit rows a transaction sees: its own row once it is inserted.
Logs(action, session, names) ==
  tx.audit = IF tx.logged THEN Append(audit, [action |-> action, session |-> session, names |-> names])
                          ELSE audit

\* The names of a body, and of its first rows.
Named(items) == {items[i].name : i \in DOMAIN items}
FirstNames(items, k) == {items[i].name : i \in 1..k}

\* Before its COMMIT a transaction sees what the statements run so far make of the
\* committed tables.
PutSoFar ==
  /\ tx.req \in PutRequest /\ tx.done \in 0..Len(tx.req.items)
  /\ tx.logged => tx.done = Len(tx.req.items)
  /\ Present(tx.entries) = FirstNames(tx.req.items, tx.done)
  /\ \A n \in Names : tx.versions[n] = IF Changed(entries, tx.entries, n)
                                       THEN Append(versions[n], tx.entries[n]) ELSE versions[n]
  /\ tx.custom = custom
  /\ Logs("vault.put", tx.req.session, Named(tx.req.items))

Restored == versions[tx.req.name][tx.req.seq]
RollbackSoFar ==
  /\ tx.req \in RollbackRequest /\ tx.req.seq \in DOMAIN versions[tx.req.name]
  /\ tx.done \in 0..2 /\ (tx.logged => tx.done = 2)
  /\ tx.entries = IF tx.done = 0 THEN entries ELSE [entries EXCEPT ![tx.req.name] = Restored]
  /\ tx.versions = IF tx.done < 2 THEN versions
                   ELSE [versions EXCEPT ![tx.req.name] = Append(@, Restored)]
  /\ tx.custom = custom
  /\ Logs("vault.rollback", tx.req.session, {tx.req.name})

ProviderSoFar ==
  /\ \/ tx.req \in ProviderPut /\ tx.custom = [custom EXCEPT ![tx.req.provider] = tx.req.def]
     \/ /\ tx.req \in ProviderDelete /\ custom[tx.req.provider] # NoEntry
        /\ tx.custom = [custom EXCEPT ![tx.req.provider] = NoEntry]
  /\ tx.entries = entries /\ tx.versions = versions
  /\ Logs(tx.req.kind, NoSession, {tx.req.provider})

SoFar == tx # NoTx => tx \in Tx /\ (PutSoFar \/ RollbackSoFar \/ ProviderSoFar)
StoreInv == TypeOK /\ SoFar

LEMMA Kinds ==
  /\ \A r \in PutRequest : r.kind = "put" /\ r.items \in Body /\ r.session \in SessionIds
  /\ \A r \in RollbackRequest : r.kind = "rollback" /\ r.name \in Names /\ r.session \in SessionIds
  /\ \A r \in ProviderPut : r.kind = "provider.put" /\ r.provider \in Providers /\ r.def \in Defs
  /\ \A r \in ProviderDelete : r.kind = "provider.delete" /\ r.provider \in Providers
BY DEF PutRequest, RollbackRequest, ProviderPut, ProviderDelete

LEMMA OpenedTyped == ASSUME TypeOK, NEW req \in Request PROVE Opened(req) \in Tx
BY DEF TypeOK, Opened, Tx

LEMMA InitStore == StoreInit => StoreInv
BY DEF StoreInit, Init, StoreInv, TypeOK, Snapshot, SoFar

\* A COMMIT is a request of VaultHistory.
LEMMA CommitIsRequest == StoreInv /\ Commit => Next
<1> SUFFICES ASSUME StoreInv, Commit PROVE Next
  OBVIOUS
<1>0. tx \in Tx /\ tx.logged /\ Len(audit) < MaxAudit
      /\ entries' = tx.entries /\ versions' = tx.versions /\ custom' = tx.custom /\ audit' = tx.audit
  BY DEF StoreInv, SoFar, Commit
<1>1. CASE PutSoFar
  <2>1. tx.req.items \in Body /\ tx.req.session \in SessionIds
    BY <1>1, Kinds DEF PutSoFar
  <2>2. Present(tx.entries) = Named(tx.req.items)
    BY <1>0, <1>1, <2>1, BodyIsSeq DEF PutSoFar, Named, FirstNames
  <2>3. Record("vault.put", tx.req.session, Present(tx.entries))
    BY <1>0, <1>1, <2>2 DEF PutSoFar, Logs, Record
  <2>4. versions' = [n \in Names |-> IF Changed(entries, tx.entries, n)
                                     THEN Append(versions[n], tx.entries[n]) ELSE versions[n]]
    BY <1>0, <1>1 DEF PutSoFar, Tx
  <2>5. Put(tx.entries, tx.req.session) /\ tx.entries \in Snapshot
    BY <1>0, <1>1, <2>3, <2>4 DEF Put, PutSoFar, Tx
  <2> QED
    BY <2>1, <2>5 DEF Next
<1>2. CASE RollbackSoFar
  <2>1. tx.req.name \in Names /\ tx.req.session \in SessionIds /\ tx.req.seq \in DOMAIN versions[tx.req.name]
    BY <1>2, Kinds DEF RollbackSoFar
  <2>2. Record("vault.rollback", tx.req.session, {tx.req.name})
    BY <1>0, <1>2 DEF RollbackSoFar, Logs, Record
  <2>3. Rollback(tx.req.name, tx.req.seq, tx.req.session)
    BY <1>0, <1>2, <2>1, <2>2 DEF Rollback, RollbackSoFar, Restored
  <2> QED
    BY <2>1, <2>3 DEF Next
<1>3. CASE ProviderSoFar
  <2>1. CASE tx.req \in ProviderPut /\ tx.custom = [custom EXCEPT ![tx.req.provider] = tx.req.def]
    <3>1. PutProvider(tx.req.provider, tx.req.def)
      BY <1>0, <1>3, <2>1, Kinds DEF PutProvider, ProviderSoFar, Logs, Record
    <3> QED
      BY <2>1, <3>1, Kinds DEF Next
  <2>2. CASE /\ tx.req \in ProviderDelete /\ custom[tx.req.provider] # NoEntry
             /\ tx.custom = [custom EXCEPT ![tx.req.provider] = NoEntry]
    <3>1. DeleteProvider(tx.req.provider)
      BY <1>0, <1>3, <2>2, Kinds DEF DeleteProvider, ProviderSoFar, Logs, Record
    <3> QED
      BY <2>2, <3>1, Kinds DEF Next
  <2> QED
    BY <1>3, <2>1, <2>2 DEF ProviderSoFar
<1> QED
  BY <1>1, <1>2, <1>3 DEF StoreInv, SoFar, Commit

\* Any other step leaves the tables alone.
LEMMA StepMaps == StoreInv /\ [StoreNext]_vars => [Next]_tables
<1> SUFFICES ASSUME StoreInv, [StoreNext]_vars PROVE [Next]_tables
  OBVIOUS
<1>1. CASE Commit
  BY <1>1, CommitIsRequest
<1>2. CASE UNCHANGED tables
  BY <1>2
<1>3. UNCHANGED tables \/ Commit
  BY DEF StoreNext, vars, tables, BeginPut, BeginRollback, BeginRollbackMiss, RollbackMiss, BeginProviderPut,
         BeginProviderDelete, InsertItem, LogPut, RestoreEntry, RestoreVersion, LogRollback, LogProvider, Abort
<1> QED
  BY <1>1, <1>2, <1>3

\* The request of a transaction tells what it has done.
LEMMA WhoseTx ==
  ASSUME StoreInv, tx # NoTx
  PROVE  /\ tx \in Tx
         /\ tx.req.kind = "put" => PutSoFar
         /\ tx.req.kind = "rollback" => RollbackSoFar
         /\ tx.req.kind \in {"provider.put", "provider.delete"} => ProviderSoFar
<1>1. PutSoFar => tx.req.kind = "put"
  BY Kinds DEF PutSoFar
<1>2. RollbackSoFar => tx.req.kind = "rollback"
  BY Kinds DEF RollbackSoFar
<1>3. ProviderSoFar => tx.req.kind \in {"provider.put", "provider.delete"}
  BY Kinds DEF ProviderSoFar
<1> QED
  BY <1>1, <1>2, <1>3 DEF StoreInv, SoFar

LEMMA StepTyped == ASSUME StoreInv, [StoreNext]_vars PROVE TypeOK'
<1>1. CASE UNCHANGED tables
  BY <1>1 DEF StoreInv, TypeOK, tables
<1>2. CASE Commit
  BY <1>2 DEF StoreInv, SoFar, Commit, Tx, TypeOK
<1>3. UNCHANGED tables \/ Commit
  BY DEF StoreNext, vars, tables, BeginPut, BeginRollback, BeginRollbackMiss, RollbackMiss, BeginProviderPut,
         BeginProviderDelete, InsertItem, LogPut, RestoreEntry, RestoreVersion, LogRollback, LogProvider, Abort
<1> QED
  BY <1>1, <1>2, <1>3

LEMMA LogTyped ==
  ASSUME NEW t \in Tx, NEW r \in AuditRow
  PROVE  [t EXCEPT !.audit = Append(t.audit, r), !.logged = TRUE] \in Tx
<1>1. Append(t.audit, r) \in Seq(AuditRow)
  BY DEF Tx
<1> QED
  BY <1>1 DEF Tx

\* A row more in the body is a name more in the entries.
LEMMA InsertSoFar == ASSUME StoreInv, InsertItem PROVE StoreInv'
<1>0. tx \in Tx /\ PutSoFar /\ tx # NoTx /\ tx.req.kind = "put" /\ tx.done < Len(tx.req.items)
  BY WhoseTx DEF InsertItem
<1>1. tx.req.items \in Body
  BY <1>0, Kinds DEF PutSoFar
<1> DEFINE items == tx.req.items
           item == items[tx.done + 1]
           row == [ct |-> item.ct, meta |-> item.meta]
           now == [tx.entries EXCEPT ![item.name] = row]
           then == [tx.versions EXCEPT ![item.name] = IF Changed(entries, now, item.name) THEN Append(@, row) ELSE @]
<1>2. tx.done \in Nat /\ tx.done + 1 \in 1..Len(items) /\ item \in Item
  BY <1>0, <1>1, BodyIsSeq DEF Tx
<1>3. item.name \in Names /\ row \in Row /\ row # NoEntry
  BY <1>2, VaultConstants DEF Item, Row
<1>4. tx.entries[item.name] = NoEntry /\ tx' = [tx EXCEPT !.entries = now, !.versions = then, !.done = @ + 1]
      /\ UNCHANGED tables
  BY DEF InsertItem
<1>5. tx.entries \in Snapshot /\ tx.versions \in [Names -> Seq(Row)]
  BY <1>0 DEF Tx
<1>6. now \in Snapshot
  BY <1>3, <1>5 DEF Snapshot
<1>7. then \in [Names -> Seq(Row)]
  BY <1>3, <1>5
<1>8. Present(now) = FirstNames(items, tx.done + 1)
  <2>1. Present(now) = Present(tx.entries) \cup {item.name}
    BY <1>3, <1>5, <1>6 DEF Present, Snapshot
  <2>2. 1..(tx.done + 1) = 1..tx.done \cup {tx.done + 1}
    BY <1>2
  <2>3. Present(tx.entries) = FirstNames(items, tx.done)
    BY <1>0 DEF PutSoFar
  <2> QED
    BY <2>1, <2>2, <2>3 DEF FirstNames
<1>9. \A n \in Names : then[n] = IF Changed(entries, now, n) THEN Append(versions[n], now[n]) ELSE versions[n]
  <2> TAKE n \in Names
  <2>1. tx.versions[n] = IF Changed(entries, tx.entries, n) THEN Append(versions[n], tx.entries[n]) ELSE versions[n]
    BY <1>0 DEF PutSoFar
  <2>2. CASE n = item.name
    <3>1. ~Changed(entries, tx.entries, n) /\ now[n] = row
      BY <1>3, <1>4, <1>5, <2>2 DEF Changed, Snapshot
    <3> QED
      BY <1>5, <2>1, <2>2, <3>1
  <2>3. CASE n # item.name
    <3>1. now[n] = tx.entries[n] /\ then[n] = tx.versions[n]
      BY <1>5, <2>3 DEF Snapshot
    <3>2. Changed(entries, now, n) <=> Changed(entries, tx.entries, n)
      BY <3>1 DEF Changed
    <3> QED
      BY <2>1, <3>1, <3>2
  <2> QED
    BY <2>2, <2>3
<1> HIDE DEF now, then
<1> HIDE DEF item
<1>10. tx' \in Tx /\ tx'.req = tx.req /\ tx'.done = tx.done + 1 /\ tx'.logged = tx.logged
       /\ tx'.entries = now /\ tx'.versions = then /\ tx'.custom = tx.custom /\ tx'.audit = tx.audit
  <2>1. tx' = [tx EXCEPT !.entries = now, !.versions = then, !.done = tx.done + 1]
    BY <1>4
  <2>2. now \in Snapshot /\ then \in [Names -> Seq(Row)] /\ tx.done + 1 \in Nat
    BY <1>2, <1>6, <1>7
  <2> QED
    BY <1>0, <2>1, <2>2 DEF Tx
<1>11. PutSoFar'
  <2>1. ~tx.logged
    BY <1>0, <1>2 DEF PutSoFar
  <2>2. Logs("vault.put", tx.req.session, Named(items))'
    BY <1>0, <1>4, <1>10 DEF PutSoFar, Logs, tables
  <2>3. tx.done + 1 \in 0..Len(items)
    BY <1>2
  <2> QED
    BY <1>0, <1>4, <1>8, <1>9, <1>10, <2>1, <2>2, <2>3 DEF PutSoFar, tables
<1> QED
  BY <1>4, <1>10, <1>11 DEF StoreInv, TypeOK, SoFar, tables

\* Between BEGIN and COMMIT, what a transaction sees is its request so far.
LEMMA StepStore == StoreInv /\ [StoreNext]_vars => StoreInv'
<1> SUFFICES ASSUME StoreInv, [StoreNext]_vars PROVE StoreInv'
  OBVIOUS
<1>0. TypeOK /\ TypeOK'
  BY StepTyped DEF StoreInv
<1>1. ASSUME NEW req \in PutRequest, BeginPut(req) PROVE SoFar'
  <2>1. Opened(req) \in Tx /\ req.items \in Body
    BY <1>0, Kinds, OpenedTyped DEF Request
  <2>2. [n \in Names |-> NoEntry] \in Snapshot
    BY DEF Snapshot
  <2>3. tx' \in Tx
    BY <1>1, <2>1, <2>2 DEF BeginPut, Tx
  <2>4. tx'.req = req /\ tx'.done = 0 /\ tx'.logged = FALSE /\ tx'.entries = [n \in Names |-> NoEntry]
        /\ tx'.versions = versions /\ tx'.custom = custom /\ tx'.audit = audit /\ UNCHANGED tables
    BY <1>1 DEF BeginPut, Opened
  <2>5. 0 \in 0..Len(req.items)
    BY <2>1, BodyIsSeq
  <2>6. Present(tx'.entries) = {}
    BY <2>4 DEF Present
  <2>7. \A n \in Names : ~Changed(entries, tx'.entries, n)
    BY <2>4 DEF Changed
  <2>8. FirstNames(req.items, 0) = {}
    BY DEF FirstNames
  <2>9. PutSoFar'
    BY <2>4, <2>5, <2>6, <2>7, <2>8 DEF PutSoFar, Logs, tables
  <2> QED
    BY <2>3, <2>9 DEF SoFar
<1>2. ASSUME NEW req \in RollbackRequest, BeginRollback(req) PROVE SoFar'
  <2>1. tx' \in Tx
    BY <1>0, <1>2, OpenedTyped DEF Request, BeginRollback
  <2>2. RollbackSoFar'
    BY <1>2 DEF BeginRollback, Opened, RollbackSoFar, Logs, tables
  <2> QED
    BY <2>1, <2>2 DEF SoFar
<1>3. ASSUME NEW req \in RollbackRequest, BeginRollbackMiss(req) PROVE SoFar'
  BY <1>3 DEF BeginRollbackMiss, SoFar
<1>4. ASSUME NEW req \in ProviderPut, BeginProviderPut(req) PROVE SoFar'
  <2>1. Opened(req) \in Tx /\ [custom EXCEPT ![req.provider] = req.def] \in [Providers -> Defs \cup {NoEntry}]
    BY <1>0, Kinds, OpenedTyped DEF Request, TypeOK
  <2>2. tx' = [Opened(req) EXCEPT !.custom = [custom EXCEPT ![req.provider] = req.def]] /\ UNCHANGED tables
    BY <1>4 DEF BeginProviderPut, Opened
  <2>3. tx' \in Tx
    BY <2>1, <2>2 DEF Tx
  <2>4. ProviderSoFar'
    BY <2>2 DEF Opened, ProviderSoFar, Logs, tables
  <2> QED
    BY <2>3, <2>4 DEF SoFar
<1>5. ASSUME NEW req \in ProviderDelete, BeginProviderDelete(req) PROVE SoFar'
  <2>1. Opened(req) \in Tx /\ [custom EXCEPT ![req.provider] = NoEntry] \in [Providers -> Defs \cup {NoEntry}]
    BY <1>0, Kinds, OpenedTyped DEF Request, TypeOK
  <2>2. tx' = [Opened(req) EXCEPT !.custom = [custom EXCEPT ![req.provider] = NoEntry]] /\ UNCHANGED tables
        /\ custom[req.provider] # NoEntry
    BY <1>5 DEF BeginProviderDelete, Opened
  <2>3. tx' \in Tx
    BY <2>1, <2>2 DEF Tx
  <2>4. ProviderSoFar'
    BY <2>2 DEF Opened, ProviderSoFar, Logs, tables
  <2> QED
    BY <2>3, <2>4 DEF SoFar
<1>6. ASSUME InsertItem PROVE SoFar'
  BY <1>6, InsertSoFar DEF StoreInv
<1>7. ASSUME LogPut PROVE SoFar'
  <2>0. tx \in Tx /\ PutSoFar
    BY <1>7, WhoseTx DEF LogPut
  <2> DEFINE r == [action |-> "vault.put", session |-> tx.req.session,
                   names |-> Named(tx.req.items)]
  <2>1. tx.req.items \in Body /\ tx.req.session \in SessionIds
    BY <2>0, Kinds DEF PutSoFar
  <2>2. \A i \in DOMAIN tx.req.items : tx.req.items[i].name \in Names
    BY <2>1, BodyIsSeq DEF Item
  <2>3. r \in AuditRow
    BY <2>1, <2>2 DEF AuditRow, Named
  <2> HIDE DEF r
  <2>4. tx' = [tx EXCEPT !.audit = Append(tx.audit, r), !.logged = TRUE] /\ UNCHANGED tables /\ tx.logged = FALSE
        /\ tx.done = Len(tx.req.items)
    BY <1>7, <2>0 DEF LogPut, r, Named, Tx
  <2>5. tx' \in Tx
    BY <2>0, <2>3, <2>4, LogTyped
  <2>6. tx'.req = tx.req /\ tx'.done = tx.done /\ tx'.logged = TRUE /\ tx'.entries = tx.entries
        /\ tx'.versions = tx.versions /\ tx'.custom = tx.custom /\ tx'.audit = Append(tx.audit, r)
    BY <2>0, <2>4 DEF Tx
  <2>7. PutSoFar'
    BY <2>0, <2>4, <2>6 DEF PutSoFar, Logs, tables, r
  <2> QED
    BY <2>5, <2>7 DEF SoFar
<1>8. ASSUME RestoreEntry \/ RestoreVersion PROVE SoFar'
  <2>0. tx \in Tx /\ RollbackSoFar /\ tx.req.name \in Names
    BY <1>8, WhoseTx, Kinds DEF RestoreEntry, RestoreVersion, RollbackSoFar
  <2>1. Restored \in Row
    BY <1>0, <2>0 DEF Restored, RollbackSoFar, TypeOK
  <2>2. CASE RestoreEntry
    <3>1. tx' = [tx EXCEPT !.entries = [tx.entries EXCEPT ![tx.req.name] = Restored], !.done = 1]
          /\ UNCHANGED tables /\ tx.done = 0
      BY <2>2 DEF RestoreEntry, Restored
    <3>2. tx' \in Tx
      BY <2>0, <2>1, <3>1 DEF Tx, Snapshot
    <3>3. tx'.req = tx.req /\ tx'.done = 1 /\ tx'.logged = FALSE /\ tx.logged = FALSE /\ tx'.versions = tx.versions
          /\ tx'.custom = tx.custom /\ tx'.audit = tx.audit
          /\ tx'.entries = [tx.entries EXCEPT ![tx.req.name] = Restored]
      BY <2>0, <3>1 DEF Tx, RollbackSoFar
    <3>4. RollbackSoFar'
      BY <2>0, <3>1, <3>3 DEF RollbackSoFar, Restored, Logs, tables
    <3> QED
      BY <3>2, <3>4 DEF SoFar
  <2>3. CASE RestoreVersion
    <3> DEFINE more == [tx.versions EXCEPT ![tx.req.name] = Append(@, Restored)]
    <3>0. more \in [Names -> Seq(Row)]
      BY <2>0, <2>1 DEF Tx
    <3>1. tx' = [tx EXCEPT !.versions = more, !.done = 2] /\ UNCHANGED tables /\ tx.done = 1
      BY <2>3 DEF RestoreVersion, Restored
    <3>2. tx' \in Tx
      <4> HIDE DEF more
      <4> QED
        BY <2>0, <3>0, <3>1 DEF Tx
    <3>3. tx'.req = tx.req /\ tx'.done = 2 /\ tx'.logged = FALSE /\ tx.logged = FALSE /\ tx'.entries = tx.entries
          /\ tx'.custom = tx.custom /\ tx'.audit = tx.audit
          /\ tx'.versions = [tx.versions EXCEPT ![tx.req.name] = Append(@, Restored)]
      BY <2>0, <3>1 DEF Tx, RollbackSoFar
    <3>4. RollbackSoFar'
      BY <2>0, <3>1, <3>3 DEF RollbackSoFar, Restored, Logs, tables
    <3> QED
      BY <3>2, <3>4 DEF SoFar
  <2> QED
    BY <1>8, <2>2, <2>3
<1>9. ASSUME LogRollback PROVE SoFar'
  <2>0. tx \in Tx /\ RollbackSoFar /\ tx.req.name \in Names /\ tx.req.session \in SessionIds
    BY <1>9, WhoseTx, Kinds DEF LogRollback, RollbackSoFar
  <2> DEFINE r == [action |-> "vault.rollback", session |-> tx.req.session, names |-> {tx.req.name}]
  <2>1. r \in AuditRow
    BY <2>0 DEF AuditRow
  <2> HIDE DEF r
  <2>2. tx' = [tx EXCEPT !.audit = Append(tx.audit, r), !.logged = TRUE] /\ UNCHANGED tables /\ tx.logged = FALSE /\ tx.done = 2
    BY <1>9, <2>0 DEF LogRollback, r, Tx
  <2>3. tx' \in Tx
    BY <2>0, <2>1, <2>2, LogTyped
  <2>4. tx'.req = tx.req /\ tx'.done = tx.done /\ tx'.logged = TRUE /\ tx'.entries = tx.entries
        /\ tx'.versions = tx.versions /\ tx'.custom = tx.custom /\ tx'.audit = Append(tx.audit, r)
    BY <2>0, <2>2 DEF Tx
  <2>5. RollbackSoFar'
    BY <2>0, <2>2, <2>4 DEF RollbackSoFar, Restored, Logs, tables, r
  <2> QED
    BY <2>3, <2>5 DEF SoFar
<1>10. ASSUME LogProvider PROVE SoFar'
  <2>0. tx \in Tx /\ ProviderSoFar /\ tx.req.provider \in Providers
    BY <1>10, WhoseTx, Kinds DEF LogProvider, ProviderSoFar
  <2> DEFINE r == [action |-> tx.req.kind, session |-> NoSession, names |-> {tx.req.provider}]
  <2>1. r \in AuditRow
    BY <1>10, <2>0 DEF LogProvider, AuditRow
  <2> HIDE DEF r
  <2>2. tx' = [tx EXCEPT !.audit = Append(tx.audit, r), !.logged = TRUE] /\ UNCHANGED tables /\ tx.logged = FALSE
    BY <1>10, <2>0 DEF LogProvider, r, Tx
  <2>3. tx' \in Tx
    BY <2>0, <2>1, <2>2, LogTyped
  <2>4. tx'.req = tx.req /\ tx'.logged = TRUE /\ tx'.entries = tx.entries
        /\ tx'.versions = tx.versions /\ tx'.custom = tx.custom /\ tx'.audit = Append(tx.audit, r)
    BY <2>0, <2>2 DEF Tx
  <2>5. ProviderSoFar'
    BY <2>0, <2>2, <2>4 DEF ProviderSoFar, Logs, tables, r
  <2> QED
    BY <2>3, <2>5 DEF SoFar
<1>11. ASSUME Commit \/ Abort PROVE SoFar'
  <2>1. tx' = NoTx
    BY <1>11 DEF Commit, Abort
  <2> QED
    BY <2>1 DEF SoFar
<1>12. ASSUME UNCHANGED vars PROVE SoFar'
  BY <1>12 DEF StoreInv, vars, SoFar, PutSoFar, RollbackSoFar, ProviderSoFar, Restored, Logs, Changed
<1> QED
  BY <1>0, <1>1, <1>2, <1>3, <1>4, <1>5, <1>6, <1>7, <1>8, <1>9, <1>10, <1>11, <1>12
  DEF StoreNext, StoreInv

\* The handlers, statement by statement, implement the requests of VaultHistory, for
\* bodies of any length and whichever statement fails.
THEOREM StoreImplementsHistory == StoreSpec => HistorySpec
<1>1. StoreInit => Init
  BY DEF StoreInit
<1> QED
  BY <1>1, InitStore, StepStore, StepMaps, PTL DEF StoreSpec, HistorySpec

\* So what VaultHistory promises holds of the tables the handlers leave, whichever
\* statement fails and wherever the process dies.
THEOREM StoreKeepsPromises ==
  StoreSpec => /\ []EntryIsNewestVersion /\ []HistoryIsAudited
               /\ HistoryOnlyGrows /\ ReplacedStaysRestorable
<1>1. HistorySpec <=> Spec
  BY PTL DEF HistorySpec, Spec
<1> QED
  BY <1>1, StoreImplementsHistory, EntryMatchesHistory, EveryVersionIsAudited, HistoryIsAppendOnly,
     NothingReplacedIsLost, PTL
================================================================================
