# secd: a verification project

secd keeps a person's secrets in a vault that the server cannot read. A data key
(the DEK) lives in the browser and in the keyring of each machine; the server
stores ciphertexts, wraps of the DEK per login factor, sessions and a hash-chained
audit log. The program is a Rust server (`crates/secd-web`), a Rust command line
and terminal UI (`src/`), a shared crypto and vault library (`crates/secd-core`)
and a TypeScript console (`ui/`).

This directory holds TLA+ models of its state machines, the TLC configurations
that check them, and TLAPS proofs. `PROJECT.json` maps every definition to the
lines it models and lists runs, mutants, hazards, findings and theorems. Paths
below are relative to the repository.

## 1. Inventory

### Server (`crates/secd-web/src`)

| Component | State | Operations | What is hard |
|---|---|---|---|
| vault (`vault.rs`) | tables `entries`, `versions`, `custom_providers`, `wraps` | whole-vault PUT, rollback to a version, provider PUT and DELETE | one request is many statements; any may fail (a name repeated in one body); the audit row must commit with the change |
| database (`db.rs`) | one SQLite connection behind a mutex, WAL, `synchronous=NORMAL` | `with`, `immediate` | ROLLBACK on drop after an error or panic; a power cut may lose the newest commits |
| audit log (`audit.rs`) | table `audit`, file `audit.jsonl` | `append`, `journal`, import of an old JSONL log, `verify` | the row commits under the mutex, the file is written after it, in two writes; crash between; import is a series of transactions |
| sessions (`sessions.rs`) | table `sessions` | login, lookup with sweep, device session, revoke by id, own revoke, logout | lookup and action are two transactions |
| device requests (`device.rs`) | map user code -> request, in memory | start, poll, pending, approve, deny, sweep | two consoles, retries, restarts, expiry in the poll interval; codes are drawn again |
| accounts (`auth.rs`, `auth_routes.rs`) | account map in memory, `users.json`, WebAuthn handles, rate windows | register and log in with passkey or password, add and delete factors | copy, decide (perhaps through Argon2), put the whole copy back; the file write may fail after memory changed |
| provider API (`providers_api.rs`) | (vault tables) | PUT, DELETE, list | validation |
| server shell (`lib.rs`, `main.rs`, `state.rs`, `headers.rs`, `tls.rs`, `static_ui.rs`) | none | routing, header checks, TLS, static files | I/O |

### Command line and terminal UI (`src`)

| Component | State | Operations | What is hard |
|---|---|---|---|
| save protocol (`policy.rs`, `gen.rs`, `tui/model.rs`) | the register the terminal edits, the ciphertexts it loaded | load, check, PUT of everything, read-back | no lock and no version on the server: the check and the PUT are two requests; late PUTs |
| sign-in (`login.rs`, `tui/signin.rs`) | key pair and code of the flow, session file | start, poll, store key, save session, resume | the answer races expiry, restarts and other machines |
| logout (`logout.rs`) | | revoke, remove file, delete key | three steps beside a sign-in; a lost revoke is ignored |
| keyring (`keyring.rs`) | the DEK: in the user's kernel keyring, the login session's, a process's own, or a file on tmpfs | store, load, delete | the kernel may take a key it will not find again; three places to forget; programs interleave |
| self update (`update.rs`) | `secd.new`, the binary | fetch, stage, verify, flush, rename, flush the directory | updaters share the staging file; a failure, kill or power cut between any two calls |
| terminal UI (`tui/`) | the register, the rows made of it, selection, open bundle, filter, detail pane, form | key events, saves, reloads | long sequences of legal keys; a reload under an open form; three ways to store one credential |
| git credential, env mapping, redaction, names, groups (`git_credential.rs`, `secd-core`) | none | pure functions | boundary inputs |

### Console (`ui/src`)

| Component | State | Operations | What is hard |
|---|---|---|---|
| key holder (`lib/keyholder.ts`, `keyholder.worker.ts`, `lib/keyops.ts`) | the DEK in a SharedWorker, its deadline; `unlocked` in each tab | create, unlock, lock, seal, open, wrap | tabs act through one worker without knowing of each other |
| gate and shell (`screens/gate.ts`, `main.ts`) | method, session, pending flag, generation | register, log in, load the session, sign out | every `await` lets another tab, the clock or a sign-out in |
| vault screen (`screens/vault.ts`) | opened entries | open all, save wizard, restore | seal, await, PUT: the account may have changed |
| approve screen (`screens/approve.ts`) | the card shown | seal to the request's key, approve, deny | the card changes during the seal |
| access, devices, activity, provider screens | lists | single requests | |

### Around it

Pull deployment (`deploy/agent/secd-agent.sh`, `scripts/k3s-apply.sh`), release
scripts, an importer for an older store, tests and manifests.

### Interaction

Terminal and console talk HTTP to the server and share nothing else. A request
passes a session lookup, then a handler. Handlers share the database mutex, the
account lock, and the lock of the device requests. A handler's lookup, its
decision and its write are separate critical sections; only `approve` keeps the
lock of the device requests while it inserts the session row. Tabs of a browser
share the cookie, `localStorage` and one SharedWorker reached by a message port
each. The programs a user runs on one machine share the session file, the keyring
and the installed binary, without a lock on any of them.

### What makes each component correct

* vault: current ciphertext = newest version; histories only grow; every change
  is audited in its own transaction; nothing replaced is lost.
* audit log: the table is one unbroken chain, only grows, imports an old log
  once; the file reports committed rows only, each exactly once.
* sessions: one console per account; revoked or logged out is final; a device
  session ends by its deadline, an audited revoke or a logout that presents its own
  token; nothing starts on an expired session.
* device sign-in: at most one session per request, none after a denial, the key
  only to the machine it was sealed to; approvals arrive and waits end.
* accounts: never without a factor; acknowledged changes are kept.
* saves: a save edits its own names; entries that do not open survive; a clobber
  is noticed.
* terminal: what is drawn is what is held; a reveal is for one row; an edit touches
  one credential; text typed is saved or still there.
* self update: the program is whole and signed, and what was reported lasts.
* keyring: what was stored last is what loads; what was deleted does not.
* console: every tab learns whether the key is held and drops its plaintext;
  nothing stays pending; the vault has one key.

## 2. Modules

| Module | Models | State ↔ code | Actions ↔ code |
|---|---|---|---|
| `VaultHistory` | abstract: what vault tables promise, one step per request | `entries`, `versions`, `custom`, `audit` = the tables | `Put`, `Rollback`, `RollbackMiss`, `PutProvider`, `DeleteProvider` |
| `VaultStore` (extends it) | `vault.rs`, `db.rs` statement by statement | `tx` = the open transaction and the tables it sees | begin, delete and insert rows, version rows, audit row, commit, rollback at any point, including one by a crash |
| `AuditLog` | `audit.rs` | `rows` = table; `journal` = file as lines, each a sequence of objects; `pending`, `half` = threads between COMMIT and their newline; `phase`, `importedTo` = start-up | `Start`, `ImportLine`, `ImportEnds`, `AppendRow`, `JournalObject`, `JournalNewline`, `JournalMiss`, `Crash`, `PowerLoss` |
| `Sessions` | `sessions.rs` and the handlers that act on a session | `sessions` = table; `request` = what a worker will do after its lookup; `audited` = ids revoked in the chain | `Lookup`, `LoginReuse`, `LoginNew`, `RevokeId`, `CreateDevice`, `RevokeOwn`, `Logout`, `Tick`, `Restart` |
| `SaveProtocol` | `policy.rs`, `gen.rs`, `tui/model.rs`, the console's save | `vault` = server; `before`, `save`, `pc` = client; `late` = abandoned PUTs | `Load`, `Begin`, `Wizard`, `Put`, `GiveUp`, `LatePut`, `LoseAnswer`, `ReadBack`, `ReadBackEntry` |
| `DeviceFlow` | `login.rs`, `tui/signin.rs`, `logout.rs`, `device.rs`, `approve.ts` | `pending`, `minted`, `live` = server; `pc`, `flow`, `got`, `file`, `ring`, `leaving` = machine; `screen`, `sealed` = console | one per request or step, on all three sides |
| `Accounts` | `auth.rs`, `auth_routes.rs` | `mem`, `disk` = `UserStore` and `users.json`; `handles`, `login` = `Pending`; `change` = a request between its read and its put | `RegStart`, `RegFinish`, `RegLapses`, `PwRegister`, `DeletePasskey`, `Put`, `PutFails`, `PwLogin`, `PkLoginStart`, `PkLoginFinish`, `PkLoginFails`, `Logout`, `Restart` |
| `Console` | `keyholder.ts`, `keyholder.worker.ts`, `keyops.ts`, `gate.ts`, `main.ts`, `vault.ts` | worker, ports, server, tabs, `op` = async functions at their `await` | worker steps, one action per stretch between two `await`s, one per server answer |
| `Terminal` | `tui/model.rs`, `tree.rs`, `form.rs`, the grouping of `policy.rs`, the schemas of `secd-core` | `held` = `Model.names`, `values`, `meta`; `index` = `tree::Index`; `screen` = rows, selection, filter, open bundle, `detail`, `reveal_all`; `mode` = the modal; `vault`, `foreign`, `stale` = the server as this register knows it | one per key event that does something; a save and its failure; `Elsewhere` = another client |
| `UpdateApply` | `update.rs` | `data`, `disk` = inodes, in memory and after a power cut; `name`, `entry` = directory, likewise; `stage`, `release`, `fd`, `seen` = an updater | one per system call: `Fetch`, `RemoveStale`, `Open`, `Write`, `Sync`, `ReadBack`, `Verify`, `Flush`, `Rename`, `FlushDir`; `Fail`, `Kill`, `PowerLoss` |
| `KeySlot` | abstract: what a key store promises, one slot | | `Appear`, `Vanish`, `Stay` |
| `KeyStore` | `keyring.rs` | `user`, `login`, `own`, `file` = the four places; `may` = what the kernel permits; `at`, `want` = a program | one per system call: `Forget`, `ForgetFile`, `Deleted`, `Add`, `Check`, `Undo`, `ToFile`, `Load`; `End`, `EndLogin` |
| `MCServer` | the tables of the server beside each other | `focus` = the one that moves | the next-state relations of `VaultStore`, `AuditLog` and `Sessions` |
| `MCMachine` | the three programs of a machine beside each other | `focus` = the one that moves | the next-state relations of `Terminal`, `UpdateApply` and `KeyStore` |
| other `MC*` | symmetry sets and instances for TLC | | |
| `*_proofs` | theorems (section 5) | | |

`Terminal`, `UpdateApply` and `KeyStore` share no state, so `MCMachine` explores
each with the other two at rest: an interleaving would multiply the states and
show nothing that the parts do not. So does `MCServer`. There the code does share
one thing, the database and its transactions: `VaultStore` and `Sessions` keep the
audit rows they write as a variable of their own (`audit`, `audited`), and that such
a row is there exactly when its transaction commits is part of each of their actions.

History variables record what a property has to tell apart and drive nothing:
`past` (AuditLog), `loggedOut` (Sessions), `landed`, `overlap` (SaveProtocol),
`minted`, `refused` (DeviceFlow), `added`, `asked`, `deleted`, `stale`, `gone` of a
ceremony (Accounts; they also keep a passkey from being made twice), `raced`,
`missed` (Console), `alone`, `tainted`, `began`, `sure` (UpdateApply), `calm`,
`rough`, `kept`, `emptied` (KeyStore).

Definitions called *Faulty variant* are bugs the code might plausibly have had.
No specification uses them: they show that each property can be broken (section 6).

### Abstractions

* Cryptography is ideal: a hash is the sequence of events it covers, a ciphertext
  is the value, the key and the seal it came from, a blob opens only under the
  key it was sealed to, a digest identifies its content, a signature is the
  content it is good for.
* Ids, tokens and key pairs are numbers drawn once. User codes of a device
  request are not: they come from a small set and return after their request is
  gone, as the code's short codes may.
* AuditLog: an old log that was imported has other objects on its lines than the
  table has rows, so what the file has to be is stated for a server that imported
  nothing.
* Sessions: `last_seen` and labels are left out. Lookups of requests that change
  nothing are left out; the sweep is part of every lookup modelled.
* DeviceFlow: the server's mint of a session and its mark on the request are one
  step, made under the lock of the requests; a crash between them is the
  `Restart` after it. The rate limit of `start` is left out. A keyring that refuses
  the key ends a sign-in as a quit or an end of the process does.
* SaveProtocol: the tables of the server are one variable (VaultStore shows that
  a PUT is one step). Names that do not open are `Foreign`.
* Accounts: signatures and wraps are taken as good; a refused ceremony takes its
  handle and changes nothing else. A ceremony may end at any time, which includes
  its five minutes. The rate window is left out.
* Console: one account. The answer to `auth/start` is used at once. "Use a
  different account", navigation, adding factors from the access screen, the
  in-page fallback without SharedWorker and the handshake timeout are left out.
  The worker outlives a reload (another tab keeps it alive); a request in flight
  at a reload lands before it or not at all. A port delivers in order.
* Terminal: typing is the text a field ends up with; a PUT is one step that
  succeeds or fails (SaveProtocol opens it up); a ciphertext is whether the vault
  is still what the register loaded. Focus and masks inside a form, the clipboard,
  the help overlay and the activity list are left out, and so is the edit of JSON
  that no schema holds, which the form shows as the text it is. A map is walked in
  the order of `Order`: the n-th name is the one that n names are up to.
* UpdateApply: what a fetch returns is any content and any signature, which covers
  host names, redirects and TLS. What is not flushed may be on disk after a power
  cut or not, each inode and each name by itself. An update that fails removes its
  staging file as a part of failing; that the removal itself may fail (its result is
  ignored) is left out, except for files of killed runs, which may be there.
* KeyStore: what the kernel permits is the same for all programs of a behaviour,
  and any of the 64 combinations. The length of a stored key is left out.

## 3. Runs

`tlc -config <cfg> <module>` from this directory. Bounds are constants, each
named in its module; one instance is enough where a second one only repeats the
first (one account of the console, one provider).

| Run | Asks | Bounds, and why they reach the hard cases |
|---|---|---|
| `server` | do the tables move only by audited requests of `VaultHistory`, whatever statement fails? is the chain unbroken and the file honest under faults? do lookups that race with logins, revokes, logouts and the clock keep the rules? | vault: 2 names, 2 ciphertexts, 2 metas, bodies of 2 rows, 3 commits: a repeated name, a meta-only change, overwrite-delete-restore. Audit: 2 threads, 3 rows, 2 legacy lines: a crash between the lines, and 2 threads in every order of their writes. Sessions: 2 accounts, 2 workers, 3 sessions (a console, its device and the console of the next login), clock to 2, console deadline 1, device deadline 2 |
| `audit_verdict` | *finding*: does the log verify as long as nobody touches it? | 2 threads, 2 rows, no fault, nothing imported |
| `save_protocol` | are saves edits, and is a replaced one reported? | 2 terminals, 1 browser, 2 names, 3 saves, abandoned PUTs: two saves race and a third lands late |
| `device_flow` | one session per request, none denied, each to its machine? | 2 machines, 2 consoles, 1 code (so that it must be drawn again), lifetime of 1 poll, 1 fault |
| `device_delivery` | do approvals arrive, and do waits end? | 1 machine, lifetime of 2 polls, 2 sign-ins, 2 faults |
| `accounts` | does a factor remain, are acknowledged changes kept, is a deleted passkey refused? | 2 emails, 2 passkeys, 2 overlapping requests, 1 browser in a login ceremony, 2 failed writes: two first registrations at once, a deletion beside an addition, a ceremony around both |
| `accounts_deleted` | *finding*: does a deleted passkey stay deleted? | 1 email, 2 passkeys, no fault |
| `console` | do tabs settle, drop plaintext, stop pending, keep one key? | 2 tabs, 2 async functions at once, 2 messages under way per port, 1 deadline |
| `console_keys` | *finding*: is a key created only for a vault that has none? | the same, no deadline |
| `machine` | is the register on screen the register held, and are its saves edits? is the program installed a verified one? does the key store act as one slot? | terminal: 4 paths, 2 of them children of a third; the bundle they make stored as siblings or as JSON; 2 providers that share its keys; 2 changes of the vault, and another client that takes a sibling away or adds an entry. Update: 2 updaters, 3 updates, one genuine release, junk. Keys: 2 programs, 3 stores, all permissions |
| `update_failure` | *finding*: does a failed update leave the program as it was? | 1 updater, 1 update, one genuine release |
| `terminal_edit` | *finding*: does an edit keep the provider of a bundle? | the terminal of `machine` |

Deadlock is checked except where the system stops by its bounds or may rest:
SaveProtocol (saves used up), DeviceFlow (everyone signed in or failed with no
start left), Console (no async function left), the machine (an updater with no
update left). The server and Accounts can always take a step (a restart, a lookup).

### Safety properties

* `VaultStore`: `HistorySpec` — the code implements the abstract specification;
  the refinement mapping is the identity on the four tables, a statement inside
  a transaction is a stutter, the COMMIT is the request. `EntryIsNewestVersion`,
  `HistoryIsAudited`, `HistoryOnlyGrows`, `ReplacedStaysRestorable`.
* `AuditLog`: `ChainVerifies`, `ImportedOnce`, `JournalIsCommitted` (except after
  a power cut, which really can lose rows the file has), `ChainOnlyGrows` (same),
  `FileIsReplica`: while nothing has failed, every row is in the file exactly once
  whenever no request is under way, however requests overlapped; while they came
  one at a time the file is the chain line by line and `verify()` accepts it.
* `Sessions`: `OneConsolePerAccount`, `RevokedStaysRevoked` (after a logout too),
  `DeviceOutlivesLogins`, `NoExpiredLookup`. A logout ends the session its cookie
  names, whatever its kind, and writes no audit row.
* `SaveProtocol`: `SavesAreEdits` and `ForeignIsKept` for saves whose windows do
  not overlap, `SuccessWasUndisturbed` for all.
* `DeviceFlow`: `OneSessionPerRequest`, `DenialIsFinal`, `SealedForMachine`.
* `Accounts`: `AlwaysAFactor` without condition; `AcknowledgedIsKept` for
  changes that do not overlap; `DeletedIsRefused` for ceremonies begun after the
  deletion (one begun before still signs in: the handler checks the credentials
  of the start).
* `Console`: `ViewsSettle`, `PendingIsBusy`, `PlaintextIsDropped`, and
  `OneVaultKey` unless a key was created beside an account or another
  registration.
* `Terminal`: `ScreenIsRegister` (rows, selection, pane and open bundle after every
  event), `RevealIsOfOneRow`, `OnlyWhatWasEdited`, `TypedIsKept`,
  `ForeignEntriesStay`.
* `UpdateApply`: `InstalledIsVerified`, `ReportedSurvives` (through power cuts),
  and `FailsClosed` (a failure before the rename leaves program and staging as it
  should; one after it is the finding `update_failure`), for updates that do not
  overlap and from the next one on that runs alone. Overlapping ones can truncate a
  file another one has verified.
* `KeyStore`: `StoredIsLoaded`, `DeletedIsGone`, and `ImplementsSlot` — the four
  places implement the slot of `KeySlot`; the mapping takes what a program started
  now would load.

### Liveness and fairness

Only DeviceFlow has liveness properties. `ApprovalArrives`: an approval that
still leaves its terminal a poll signs it in, unless a restart, a lost answer, a
quit or a reboot comes in between. `SignInSettles`: no sign-in waits for ever,
even when the server forgot it. Fairness: weak fairness of `Poll`, `Store` and
`SaveSession` of each machine, because the terminal's event loop runs `SignIn::tick`
on every turn and polls whenever the interval is over, and then runs `finish` to
its end; and of `Tick`, because time passes. A tick is one poll interval, and
`Tick` waits for the poll of every sign-in on screen: the loop turns every 250 ms
(`tui/mod.rs`), the interval is 5 s. The interval counts from the last poll, so
polls drift by a turn and an answer; a lifetime holds a few polls less for that,
and TTL, the number of them, is a parameter no property depends on. No fairness of users, of the
network or of faults is assumed. The counter `faults` bounds interruptions; the
property for every value of it says that a delivery with no *further* fault
succeeds, so no fault-free future is assumed either.

## 4. Findings

Shown by a run:

* `accounts_deleted` (`auth_routes.rs:508`): an addition that read the account
  before a deletion puts the deleted passkey back after the deletion was
  answered 200.
* `console_keys` (`gate.ts:713`): the register form of a second tab, or of the same
  tab after a lost answer, creates another key for a vault that exists by then
  and the server adds a wrap of it: the wraps of one account open to two keys.
* `audit_verdict` (`audit.rs:90`): lines are written after COMMIT outside the mutex,
  each in two writes, so two requests that overlap leave them in the other order or
  on one line. `verify()` also demands that the file chains (`audit.rs:117`): from
  then on it is false, and the console shows "Hash chain broken", with nothing
  tampered and nothing failed.
* `update_failure` (`update.rs:253`): the directory is flushed after the rename, and
  the error of that flush is returned with the new program in place, against "Fail
  closed: dest bytes unchanged, staging gone" (`update.rs:4`).
* `terminal_edit` (`model.rs:876`): the form writes a bundle stored as siblings back
  with empty metas; when its keys fit several providers it belongs to none from
  then on, the form does not open it again and git gets no credential from it.

Met while modelling, and held out of the properties by a stated condition:

* "The read-back turns a clobber from silent into an error" (`policy.rs:571`). It
  does for the client whose write was replaced before its read-back; a client B
  that checks, writes and reads back between the check and the PUT of A is
  replaced silently. (`SuccessWasUndisturbed` is about the moment of success.)
* Two updaters share `secd.new`: one truncates what the other has verified and is
  about to rename. No comment speaks of two updates at once; the properties are about
  updates that run alone.
* A key that only a ring of its own would take ends with the program, where
  `keyring.rs:8` says "until logout or reboot"; a store that ends in the file does
  not read back, so a key another store left shadows it.

Seen in code the models leave out: the clipboard of an idle terminal is not
cleared at its deadline, because the main loop (`tui/mod.rs:103`) delivers no tick
when a poll times out, as the sign-in loop (:76) does, against the comment on
`expire_clipboard`; an edit drops fields of a JSON entry that its schema does not
name; a click on the action bar while a filter is typed types the letter.

## 5. Proofs

TLC checks small instances; the theorems hold for all values of the constants
that satisfy the module's named ASSUME (constants finite where a cardinality is
taken, sentinels outside the sets they are added to). `tlapm <module>` checks them.

| Module | Theorem | Argument |
|---|---|---|
| `VaultStore_proofs` | `VaultTypeCorrect`, `EntryMatchesHistory`, `EveryVersionIsAudited` (invariants); `HistoryIsAppendOnly`, `NothingReplacedIsLost` (action properties) | `EntryIsNewestVersion` is inductive with the types. For the audit count, an append adds one index to the audit rows naming each name whose history grows, so the count keeps up; `NothingReplacedIsLost` uses that the replaced ciphertext is the newest version, and that histories only grow |
| | `StoreImplementsHistory`, `StoreKeepsPromises` | the refinement. `StoreInv`: between BEGIN and COMMIT the tables a transaction sees are what the statements run so far make of the committed ones (`PutSoFar`, `RollbackSoFar`, `ProviderSoFar`): after k rows of a body the entries are those of its first k names, and a name has a version more exactly when its ciphertext is new or differs from the committed one. A COMMIT is then a request of `VaultHistory`, any other step a stutter, and the theorems above hold of the handlers |
| `AuditLog_proofs` | `AuditTypeCorrect`, `ChainAlwaysVerifies`, `ChainIsPersistent`, `ReplicaIsCommitted`, `ReplicaIsWhole`, `LegacyImportedOnce` | a prefix of a chain and a chain with one linked row more are chains. `JournalIsCommitted` needs the rows threads have *pending* to be committed too. `ImportedOnce` needs that, while importing, the events in the table are those of the lines already consumed and lines of the old log are distinct; once there are rows, no import starts |
| `Sessions_proofs` | `SessionTypeCorrect`, `OneConsole`, `RevocationIsFinal`, `DevicesOutlive`, `LookupsAreLive` | each step either keeps rows, drops rows, or writes one row under an id just drawn or the presented console's id while dropping the account's other consoles. An audited or logged-out id was issued and has no row, and only live or fresh ids get rows. The last two are action properties and need the types only: a login drops console rows only, a sweep rows past their deadline, a revoke and a logout the one row they record, and every lookup sweeps first |
| `Accounts_proofs` | `AccountTypeCorrect`, `AFactorRemains` | `AlwaysAFactor` alone is not inductive: a put writes a copy made earlier. The invariant `Factors` adds that every change *decided* has a factor. `delete_passkey` refuses the last factor on the copy, and as the put replaces the whole account by that copy the check cannot be outrun. (It is the same whole-copy put that loses concurrent changes, section 4.) |
| | `ChangesAreKept`, `DeletedCannotSignIn` | the invariant `Acks`: unless a put was stale, memory and file each hold every acknowledged credential nobody asked to delete, none that was deleted, no credential twice, and none that is still being registered; a change adds its handle's credential and drops what was asked for, no more (`Shapes`); a ceremony offers nothing deleted at its start (`Offered`) |
| `SaveProtocol_proofs` | `SaveTypeCorrect`, `SavesEdit`, `TerminalsKeep`, `SuccessIsSeen` | `SaveInv`: unless PUTs overlapped, every body that has yet to run, in time or late, edits the vault *as it is* (`Aligned`), and that of a terminal comes from a register in which everything opened (`Readable`). For the read-back: a seal belongs to one save that began (`Seals`), so after a write of `t` either `t` landed last or the vault has an entry with a seal that is not of its save, or is empty (`Foreigners`) |
| `DeviceFlow_proofs` | `DeviceTypeCorrect`, `OneSession`, `DenialStands`, `KeptForMachine` | `DeviceInv`: a key pair is on at most one request; a request without token has no session among all ever minted, one with a token names its session and the blob's key; a denial in the past is on the request as long as it exists; a machine past its answer holds a session whose blob opened with the key of its flow. The code alone identifies nothing, as codes come again |
| `Console_proofs` | `ConsoleTypeCorrect`, `TabsSafe`, `ViewsAlwaysSettle`, `PlaintextAlwaysDropped`, `PendingAlwaysBusy` | none of the three is inductive. `TabsInv`: the last message on its way to a tab carries the worker's state, so what the tab *will* believe (`Heard`) is right while messages are under way (`AllHear`); an opened entry came with a key (`OpenedByKey`); a pending flag stands for a sign-in of the tab's present generation or a sign-out that awaits its answer (`PendingHasCause`), because a sign-out clears the flag in the step that makes older sign-ins out of date |
| | `KeysSafe`, `OneKeyForVault` | `KeysInv`: a request or reply that names a function is its only one and is for the place where it awaits the worker (`ByFunction`, `InPlace`), so a key in an answer is the key that function asked for; what follows a created account has an account (`AfterAccount`); and (`OneKey`) the registration that has created a key is the only one, until its account exists the worker holds its key or none, and from then on the worker, the saves under way and the server know the one key of the wraps. Without the first two a late reply could carry another function's key |
| `Machine_proofs`, update | `UpdateTypeCorrect`, `OnlyVerifiedIsInstalled`, `ReportsAreDurable`, `UpdatesFailClosed` | `UpdatesFailClosed` is about failures before the rename. `UpdateInv`: an update nothing has overlapped is the only one and owns what it staged (`Solitude`, `AloneOwns`): the bytes it read back are those of the staging file until the rename, on disk too once flushed. While nothing is tainted, program and disk, before and after a power cut, are what they may be, and nobody has them open or staged (`Clean`) |
| `Machine_proofs`, keys | `KeyStoreTypeCorrect`, `StoresAreLoaded`, `DeletesAreComplete`, `KeyStoreIsASlot` | `KeyStoreInv`: while stores do not overlap, at most one key is in sight of a program started now, none where a store looks for a place, only its own where it checks (`OneInSight`, `Step`); a store is remembered as long as nobody stores or deletes. The refinement has one case per action: the slot stays, empties, or shows a key that is being stored |
| `Machine_proofs`, terminal | `ScreenSafe`, `TheScreenIsTheRegister`, `RevealsAreOfOneRow` | `ScreenInv`: the index is that of what is held, the rows are what index, open bundle and filter give, the selection is a row of them, the pane shows it, and after `Quit` nothing is held or drawn. It is shown per handler by two shapes of step: it redraws and masks (`Redraws`), or changes nothing but a flag (`Flips`). A reload under an open form is the hard case, as it may take the open bundle and the selected row away |
| | `WalkIsInOrder` | a lemma about the walk of a map: each name once, in byte order. By well-founded induction on the least place, since nothing recursive is allowed here |
| | `RegisterSafe`, `SavesEditOne`, `TypedTextIsKept`, `ForeignIsKept` | action properties that need to know what a form and the register are: the fields of an open form are those of its schema (`FormInv`), names are paths (`NamesInv`), and while saves are not refused and nobody else saved, what is held *is* the vault and the vault has nothing foreign (`HeldInv`). A save passes the check only then, so the difference between vault and body is the difference between the register and the form |

`ReplicaIsWhole` (`AuditLog_proofs`): `FileIsReplica` speaks of moments where nobody
is writing, so two invariants follow the writers. `Whole`: rows have hashes of
different lengths and are different (`Numbered`); a row pending with a thread is a row
of the table, belongs to that thread only and is in no line yet, or is there and waits
for its newline (`UnderWay`); every other row is at exactly one place of the file
(`InFile`). `Smooth`: between the COMMIT of the only busy thread and its newline the
file is all rows but the last one, a line each, and on the last line nothing or the
pending row. What is left of a file without its blank lines is counted, not recursed
over (`WrittenLines`).

Assumptions on constants, beyond bounds that are naturals: `None` of Console is no
key, slot, answer or function (`NoneIsNothing`; the code's `undefined`). `Order` of
Terminal lists its paths; a path below another has a sibling for each key of each
schema, so a form can name its entries (`TerminalAssumption`; the code joins strings).

Model-checked only: liveness (`ApprovalArrives`, `SignInSettles` of DeviceFlow),
which needs fairness and ENABLED. Every safety property a passing run checks is
stated by a theorem. The five findings are about behaviours TLC shows; there is
nothing to prove.

Out of the prover's reach: liveness under fairness, ENABLED, induction over data
and RECURSIVE operators.

## 6. Mutants

Every property of every passing run is paired with a faulty variant of a
modelled definition under which the same run finds it violated: an early sweep,
a poll that answers approved too soon, a rollback without its version row, a
head hash read outside the transaction, a put of the difference in place of the
copy, a lookup that does not sweep, a save that drops what it could not open, a
reload that does not regroup the rows, a signature that is not looked at, a store
that does not read back, a credential looked up among all that ever were.
So no property holds because the model never gets near it.

## 7. Not modelled, and why

Cryptography and encodings (used ideally); TLS, routing, static files, argument
parsing and release scripts (I/O without state); painting and layout. Not yet
modelled, and planned below: the deploy agent, rate limits, group expansion,
redaction, environment mappings, the git credential protocol, the importer of an
older store, the console's access screen and its restore.
`PROJECT.json` lists every component with its status.

Hazards no property covers, with the reason, are in `PROJECT.json` as well. Some
are behaviours a model has but no document decides, or that a property leaves out by
a stated condition: a login that presents an expired cookie nothing has swept revives
its row; two updaters share a staging file; a console logged out between
its lookup and its approval still creates a device session; two first
registrations at once are both accepted; a sign-in that ends after a sign-out in
its tab leaves the key held; a power cut may undo what SQLite answered with
`synchronous=NORMAL`. Others not listed there are of the same kind: a logout whose
revoke is lost leaves a live session; a logout beside a sign-in can leave key and
token apart.

In KeyStore, permissions that differ between programs of one user are left out (a
logout that may not search a ring where another program stored a key reports
success and leaves it there).

## 8. Plan

Done, in this order: VaultHistory, VaultStore, AuditLog, Sessions, because
everything else stores or depends on them; SaveProtocol, DeviceFlow, Accounts,
Console, what people do with them; then Terminal, UpdateApply, KeyStore, the
programs of a machine, and the login ceremonies. Still to come:

1. Proofs: the safety properties of the runs are proved; next, that the actions of
   Terminal implement a register of one credential at a time, as KeyStore does a slot.
2. `DeployAgent` — `secd-agent.sh`, `k3s-apply.sh`: digest, version and tag in
   three requests with a release in between, the rollout and its undo, the next
   timer run. Properties: what runs is what the tag names; a failed rollout is
   undone or retried.
3. The rate window (`auth.rs:255-267`): at most 10 hits in any window of 60 s.
4. Pure functions — groups, redaction, the git credential protocol: operators
   checked against reference definitions over bounded inputs.
5. Console: the access screen's addFactor and the vault screen's restore.
