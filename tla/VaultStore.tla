----------------------------- MODULE VaultStore -----------------------------
(***************************************************************************)
(* The vault handlers of crates/secd-web/src/vault.rs, statement by        *)
(* statement, inside RawConn::immediate (db.rs): BEGIN IMMEDIATE, the      *)
(* statements, the audit INSERT, COMMIT, and ROLLBACK when any of them     *)
(* fails or panics or the process dies. The mutex of Db::with admits one   *)
(* transaction at a time, so one variable holds the open one.              *)
(***************************************************************************)
EXTENDS VaultHistory

CONSTANTS
  MaxItems,  \* bound: rows in one PUT body
  NoTx       \* no transaction is open

VARIABLE tx  \* the open transaction: its request and the tables it sees

vars == <<entries, versions, custom, audit, tx>>

Item == [name : Names, ct : Ciphertexts, meta : Metas]

\* Bodies of at most MaxItems rows.
Body == UNION {[1..k -> Item] : k \in 0..MaxItems}

\* The requests that pass put_vault's, post_rollback's and the provider
\* handlers' validation. A body may repeat a name; a version is at least 1.
PutRequest      == [kind : {"put"}, session : SessionIds, items : Body]
RollbackRequest == [kind : {"rollback"}, session : SessionIds, name : Names, seq : 1..(MaxAudit + 1)]
ProviderPut     == [kind : {"provider.put"}, provider : Providers, def : Defs]
ProviderDelete  == [kind : {"provider.delete"}, provider : Providers]

StoreInit == Init /\ tx = NoTx

\* BEGIN IMMEDIATE; "done" counts the rows of a PUT body inserted so far.
Opened(req) ==
  [req |-> req, done |-> 0, logged |-> FALSE,
   entries |-> entries, versions |-> versions, custom |-> custom, audit |-> audit]

\* Faulty variant: the history of a name the body leaves out goes with it.
BeginPutDropsHistory(req) ==
  /\ tx = NoTx
  /\ tx' = [Opened(req) EXCEPT
       !.entries = [n \in Names |-> NoEntry],
       !.versions = [n \in Names |->
          IF \E i \in DOMAIN req.items : req.items[i].name = n THEN versions[n] ELSE <<>>]]
  /\ UNCHANGED tables

BeginPut(req) ==
  /\ tx = NoTx
  /\ tx' = [Opened(req) EXCEPT !.entries = [n \in Names |-> NoEntry]]
  /\ UNCHANGED tables

\* Faulty variant: a changed ciphertext replaces the newest version.
InsertItemOverwrites ==
  /\ tx # NoTx /\ tx.req.kind = "put" /\ tx.done < Len(tx.req.items)
  /\ LET item == tx.req.items[tx.done + 1]
         row  == [ct |-> item.ct, meta |-> item.meta]
         old  == versions[item.name]
     IN /\ tx.entries[item.name] = NoEntry
        /\ tx' = [tx EXCEPT
                    !.entries[item.name] = row,
                    !.versions[item.name] =
                      IF old = <<>> THEN <<row>> ELSE [old EXCEPT ![Len(old)] = row],
                    !.done = @ + 1]
  /\ UNCHANGED tables

\* INSERT INTO entries fails on a repeated name: only Abort is left then. The
\* ciphertexts read before the DELETE are the committed ones.
InsertItem ==
  /\ tx # NoTx /\ tx.req.kind = "put" /\ tx.done < Len(tx.req.items)
  /\ LET item == tx.req.items[tx.done + 1]
         row  == [ct |-> item.ct, meta |-> item.meta]
         now  == [tx.entries EXCEPT ![item.name] = row]
     IN /\ tx.entries[item.name] = NoEntry
        /\ tx' = [tx EXCEPT
                    !.entries = now,
                    !.versions[item.name] =
                      IF Changed(entries, now, item.name) THEN Append(@, row) ELSE @,
                    !.done = @ + 1]
  /\ UNCHANGED tables

\* Faulty variant: the names come from the entries the store had.
LogPutOldNames ==
  /\ tx # NoTx /\ tx.req.kind = "put" /\ tx.done = Len(tx.req.items) /\ ~tx.logged
  /\ tx' = [tx EXCEPT
              !.audit = Append(@, [action |-> "vault.put", session |-> tx.req.session,
                                   names |-> Present(entries)]),
              !.logged = TRUE]
  /\ UNCHANGED tables

LogPut ==
  /\ tx # NoTx /\ tx.req.kind = "put" /\ tx.done = Len(tx.req.items) /\ ~tx.logged
  /\ tx' = [tx EXCEPT
              !.audit = Append(@, [action |-> "vault.put", session |-> tx.req.session,
                                   names |-> {tx.req.items[i].name : i \in DOMAIN tx.req.items}]),
              !.logged = TRUE]
  /\ UNCHANGED tables

\* The SELECT of the version comes first; a miss commits an empty transaction
\* and answers 404.
BeginRollback(req) ==
  /\ tx = NoTx
  /\ req.seq \in DOMAIN versions[req.name]
  /\ tx' = Opened(req)
  /\ UNCHANGED tables

BeginRollbackMiss(req) == tx = NoTx /\ RollbackMiss(req.name, req.seq) /\ tx' = tx

RestoreEntry ==
  /\ tx # NoTx /\ tx.req.kind = "rollback" /\ tx.done = 0
  /\ tx' = [tx EXCEPT !.entries[tx.req.name] = versions[tx.req.name][tx.req.seq], !.done = 1]
  /\ UNCHANGED tables

\* Faulty variant: the restored ciphertext gets no version of its own.
RestoreNoVersion ==
  /\ tx # NoTx /\ tx.req.kind = "rollback" /\ tx.done = 1
  /\ tx' = [tx EXCEPT !.done = 2]
  /\ UNCHANGED tables

RestoreVersion ==
  /\ tx # NoTx /\ tx.req.kind = "rollback" /\ tx.done = 1
  /\ tx' = [tx EXCEPT !.versions[tx.req.name] = Append(@, versions[tx.req.name][tx.req.seq]),
                      !.done = 2]
  /\ UNCHANGED tables

LogRollback ==
  /\ tx # NoTx /\ tx.req.kind = "rollback" /\ tx.done = 2 /\ ~tx.logged
  /\ tx' = [tx EXCEPT
              !.audit = Append(@, [action |-> "vault.rollback", session |-> tx.req.session,
                                   names |-> {tx.req.name}]),
              !.logged = TRUE]
  /\ UNCHANGED tables

BeginProviderPut(req) ==
  /\ tx = NoTx
  /\ tx' = [Opened(req) EXCEPT !.custom[req.provider] = req.def]
  /\ UNCHANGED tables

\* A DELETE that changes no row commits an empty transaction and answers 404.
BeginProviderDelete(req) ==
  /\ tx = NoTx
  /\ custom[req.provider] # NoEntry
  /\ tx' = [Opened(req) EXCEPT !.custom[req.provider] = NoEntry]
  /\ UNCHANGED tables

LogProvider ==
  /\ tx # NoTx /\ tx.req.kind \in {"provider.put", "provider.delete"} /\ ~tx.logged
  /\ tx' = [tx EXCEPT
              !.audit = Append(@, [action |-> tx.req.kind, session |-> NoSession,
                                   names |-> {tx.req.provider}]),
              !.logged = TRUE]
  /\ UNCHANGED tables

Commit ==
  /\ tx # NoTx /\ tx.logged
  /\ Len(audit) < MaxAudit
  /\ entries' = tx.entries
  /\ versions' = tx.versions
  /\ custom' = tx.custom
  /\ audit' = tx.audit
  /\ tx' = NoTx

\* Faulty variant: no ROLLBACK, so what ran so far is left in the tables.
AbortKeepsStatements ==
  /\ tx # NoTx
  /\ entries' = tx.entries
  /\ versions' = tx.versions
  /\ custom' = tx.custom
  /\ audit' = tx.audit
  /\ tx' = NoTx

\* A statement or the COMMIT fails, the closure panics, or the process dies
\* and sqlite recovers: none of the transaction's statements took effect.
Abort ==
  /\ tx # NoTx
  /\ tx' = NoTx
  /\ UNCHANGED tables

StoreNext ==
  \/ \E req \in PutRequest : BeginPut(req)
  \/ \E req \in RollbackRequest : BeginRollback(req)
  \/ \E req \in RollbackRequest : BeginRollbackMiss(req)
  \/ \E req \in ProviderPut : BeginProviderPut(req)
  \/ \E req \in ProviderDelete : BeginProviderDelete(req)
  \/ InsertItem
  \/ LogPut
  \/ RestoreEntry
  \/ RestoreVersion
  \/ LogRollback
  \/ LogProvider
  \/ Commit
  \/ Abort

StoreSpec == StoreInit /\ [][StoreNext]_vars

-----------------------------------------------------------------------------

\* Whatever statement fails and wherever the process dies, the tables only
\* move by whole requests (db.rs, RawConn::immediate: "so the next with()
\* caller cannot see a half-done mutation").
HistorySpec == Init /\ [][Next]_tables
=============================================================================
