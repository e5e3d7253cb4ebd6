---------------------------- MODULE VaultHistory ----------------------------
(***************************************************************************)
(* What the vault tables of crates/secd-web promise, one step per request: *)
(* the current entries, the history of every name, the custom providers    *)
(* and the audit rows that account for them change together or not at all. *)
(* VaultStore.tla shows how the code gets there statement by statement.    *)
(***************************************************************************)
EXTENDS Integers, Sequences, FiniteSets

CONSTANTS
  Names,        \* secret names
  Ciphertexts,  \* sealed values
  Metas,        \* clear metadata objects kept beside a ciphertext
  SessionIds,   \* ids of the sessions that write
  Providers,    \* names of custom providers
  Defs,         \* title and fields of a custom provider
  NoEntry,      \* no row under this name
  NoSession,    \* the NULL session_id of provider audit rows
  MaxAudit      \* bound: audit rows, hence committed changes

ASSUME VaultConstants ==
  /\ IsFiniteSet(Names)
  /\ MaxAudit \in Nat
  /\ NoEntry \notin [ct : Ciphertexts, meta : Metas]
  /\ NoEntry \notin Defs
  /\ NoSession \notin SessionIds

VARIABLES
  entries,   \* table entries: name -> row
  versions,  \* table versions: name -> rows in seq order, seq = position
  custom,    \* table custom_providers: name -> definition
  audit      \* table audit in seq order (hashes are AuditLog.tla's concern)

tables == <<entries, versions, custom, audit>>

Row      == [ct : Ciphertexts, meta : Metas]
Snapshot == [Names -> Row \cup {NoEntry}]
AuditRow == [action : {"vault.put", "vault.rollback", "provider.put", "provider.delete"},
             session : SessionIds \cup {NoSession},
             names : SUBSET (Names \cup Providers)]

Present(snap) == {n \in DOMAIN snap : snap[n] # NoEntry}

\* A name gets a version row when its ciphertext is new or differs; a change
\* of metadata alone does not make one.
Changed(old, new, n) ==
  /\ new[n] # NoEntry
  /\ old[n] = NoEntry \/ old[n].ct # new[n].ct

TypeOK ==
  /\ entries \in Snapshot
  /\ versions \in [Names -> Seq(Row)]
  /\ custom \in [Providers -> Defs \cup {NoEntry}]
  /\ audit \in Seq(AuditRow)

\* A store may hold entries that predate the versions table.
Init ==
  /\ entries \in Snapshot
  /\ versions = [n \in Names |-> <<>>]
  /\ custom = [p \in Providers |-> NoEntry]
  /\ audit = <<>>

Record(action, session, names) ==
  /\ Len(audit) < MaxAudit
  /\ audit' = Append(audit, [action |-> action, session |-> session, names |-> names])

\* PUT /api/v1/vault replaces the whole snapshot.
Put(snap, s) ==
  /\ entries' = snap
  /\ versions' = [n \in Names |->
                    IF Changed(entries, snap, n) THEN Append(versions[n], snap[n])
                                                 ELSE versions[n]]
  /\ Record("vault.put", s, Present(snap))
  /\ UNCHANGED custom

\* POST /api/v1/vault/rollback makes an old version current, as a new version.
Rollback(n, seq, s) ==
  /\ seq \in DOMAIN versions[n]
  /\ entries' = [entries EXCEPT ![n] = versions[n][seq]]
  /\ versions' = [versions EXCEPT ![n] = Append(@, versions[n][seq])]
  /\ Record("vault.rollback", s, {n})
  /\ UNCHANGED custom

\* A version nobody stored: 404, nothing written.
RollbackMiss(n, seq) ==
  /\ seq \notin DOMAIN versions[n]
  /\ UNCHANGED tables

PutProvider(p, d) ==
  /\ custom' = [custom EXCEPT ![p] = d]
  /\ Record("provider.put", NoSession, {p})
  /\ UNCHANGED <<entries, versions>>

DeleteProvider(p) ==
  /\ custom[p] # NoEntry
  /\ custom' = [custom EXCEPT ![p] = NoEntry]
  /\ Record("provider.delete", NoSession, {p})
  /\ UNCHANGED <<entries, versions>>

Next ==
  \/ \E snap \in Snapshot, s \in SessionIds : Put(snap, s)
  \/ \E n \in Names, s \in SessionIds : \E seq \in DOMAIN versions[n] : Rollback(n, seq, s)
  \/ \E n \in Names, seq \in 1..(MaxAudit + 1) : RollbackMiss(n, seq)
  \/ \E p \in Providers, d \in Defs : PutProvider(p, d)
  \/ \E p \in Providers : DeleteProvider(p)

Spec == Init /\ [][Next]_tables

-----------------------------------------------------------------------------

\* The current ciphertext of a name that has a history is the newest version:
\* what get_vault reports as version MAX(seq) is what it reports as ciphertext.
EntryIsNewestVersion ==
  \A n \in Names :
    entries[n] # NoEntry /\ versions[n] # <<>>
      => entries[n].ct = versions[n][Len(versions[n])].ct

NamedIn(n) == {i \in DOMAIN audit : n \in audit[i].names}

\* Nothing enters a history unrecorded: every version row of a name has an
\* audit row of its own that names it.
HistoryIsAudited ==
  \A n \in Names : Len(versions[n]) <= Cardinality(NamedIn(n))

KeepsHistory ==
  \A n \in Names : /\ Len(versions[n]) <= Len(versions'[n])
                   /\ \A i \in DOMAIN versions[n] : versions'[n][i] = versions[n][i]

\* Version rows are never rewritten, renumbered or dropped, not even when the
\* entry is deleted.
HistoryOnlyGrows == [][KeepsHistory]_tables

KeepsReplaced ==
  \A n \in Names :
    (entries[n] # NoEntry /\ versions[n] # <<>> /\ entries'[n] # entries[n])
      => \E i \in DOMAIN versions'[n] : versions'[n][i].ct = entries[n].ct

\* A ciphertext that stops being current can still be rolled back to, whether
\* it was overwritten or deleted (entries older than the versions table
\* excepted; tests/vault_crypto.rs: "A deleted entry can be restored").
ReplacedStaysRestorable == [][KeepsReplaced]_tables
=============================================================================
