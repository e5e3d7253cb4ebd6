------------------------------ MODULE Accounts ------------------------------
(***************************************************************************)
(* crates/secd-web/src/auth.rs, auth_routes.rs: the account file and the   *)
(* requests that register, sign in, add and delete factors. A handler copies *)
(* the account out of the store, decides on the copy (which may take an    *)
(* Argon2 run), and puts the whole copy back: other handlers come between. *)
(* A put changes memory, then replaces users.json, which may fail. WebAuthn*)
(* and the wraps are taken as good; requests they refuse change nothing    *)
(* but the handle.                                                         *)
(***************************************************************************)
EXTENDS Integers, FiniteSets

CONSTANTS
  Emails,    \* emails a registration may name
  Creds,     \* passkeys; an authenticator makes each of them once
  Threads,   \* requests past their read
  Browsers,  \* that sign in with a passkey, one ceremony each at a time
  None,
  MaxFails   \* bound: writes of users.json that fail

User == [password : BOOLEAN, passkeys : SUBSET Creds]

ASSUME AccountConstants == MaxFails \in Nat /\ IsFiniteSet(Creds) /\ None \notin User

VARIABLES
  mem,       \* the accounts as every handler sees them
  disk,      \* users.json
  consoles,  \* emails with a console session
  handles,   \* passkey registrations begun: credential, email, add
  login,     \* browser: its passkey login begun, and what was deleted by then
  change,    \* thread: the account it read, and the one it will put
  added,     \* credentials whose registration was acknowledged
  asked,     \* credentials whose deletion was asked for
  deleted,   \* credentials whose deletion was acknowledged
  stale,     \* some put replaced an account its thread had not read
  fails

vars == <<mem, disk, consoles, handles, login, change, added, asked, deleted, stale, fails>>

Handle == [cred : Creds, email : Emails, add : BOOLEAN]
Ceremony == [email : Emails \cup {None}, creds : SUBSET Creds, gone : SUBSET Creds]
Change == [email : Emails, read : User \cup {None}, write : User,
           add : SUBSET Creds, drop : SUBSET Creds]

IsEmpty == \A e \in Emails : mem[e] = None
FactorCount(u) == Cardinality(u.passkeys) + IF u.password THEN 1 ELSE 0

Init ==
  /\ mem = [e \in Emails |-> None] /\ disk = mem
  /\ consoles = {} /\ handles = {} /\ login = [b \in Browsers |-> None]
  /\ change = [t \in Threads |-> None]
  /\ added = {} /\ asked = {} /\ deleted = {}
  /\ stale = FALSE /\ fails = 0

Decide(t, c) ==
  /\ change[t] = None /\ change' = [change EXCEPT ![t] = c]
  /\ UNCHANGED <<mem, disk, consoles, login, added, deleted, stale, fails>>

-----------------------------------------------------------------------------

\* The credentials some registration, finished or not, has already.
Used ==
  added \cup asked \cup {h.cred : h \in handles}
  \cup {c \in Creds : \E t \in Threads : change[t] # None /\ c \in change[t].add}
  \cup {c \in Creds : \E e \in Emails, users \in {mem, disk} :
                       users[e] # None /\ c \in users[e].passkeys}

\* pk_reg_start: the first account for anyone, a factor more for the account
\* of the console.
RegStart(e, c) ==
  /\ c \notin Used
  /\ IsEmpty \/ e \in consoles
  /\ handles' = handles \cup {[cred |-> c, email |-> e, add |-> ~IsEmpty]}
  /\ UNCHANGED <<mem, disk, consoles, login, change, added, asked, deleted, stale, fails>>

\* pk_reg_finish up to the put: the handle is taken whatever comes of it.
RegFinish(t, h) ==
  /\ h \in handles /\ handles' = handles \ {h}
  /\ UNCHANGED asked
  /\ IF h.add
     THEN /\ mem[h.email] # None
          /\ Decide(t, [email |-> h.email, read |-> mem[h.email], add |-> {h.cred}, drop |-> {},
                        write |-> [mem[h.email] EXCEPT !.passkeys = @ \cup {h.cred}]])
     ELSE /\ IsEmpty
          /\ Decide(t, [email |-> h.email, read |-> None, add |-> {h.cred}, drop |-> {},
                        write |-> [password |-> FALSE, passkeys |-> {h.cred}]])

\* A registration that fails, or that is not finished within its five minutes.
RegLapses(h) ==
  /\ h \in handles /\ handles' = handles \ {h}
  /\ UNCHANGED <<mem, disk, consoles, login, change, added, asked, deleted, stale, fails>>

\* pw_register up to the put: the first account, or a password for the account
\* of the console when it has none.
PwRegister(t, e) ==
  /\ UNCHANGED <<handles, asked>>
  /\ IF IsEmpty
     THEN Decide(t, [email |-> e, read |-> None, add |-> {}, drop |-> {},
                     write |-> [password |-> TRUE, passkeys |-> {}]])
     ELSE /\ e \in consoles /\ mem[e] # None /\ ~mem[e].password
          /\ Decide(t, [email |-> e, read |-> mem[e], add |-> {}, drop |-> {},
                        write |-> [mem[e] EXCEPT !.password = TRUE]])

\* delete_passkey up to the put.
DeletePasskey(t, e, c) ==
  /\ e \in consoles /\ mem[e] # None /\ c \in mem[e].passkeys
  /\ FactorCount(mem[e]) > 1
  /\ asked' = asked \cup {c} /\ UNCHANGED handles
  /\ Decide(t, [email |-> e, read |-> mem[e], add |-> {}, drop |-> {c},
                write |-> [mem[e] EXCEPT !.passkeys = @ \ {c}]])

-----------------------------------------------------------------------------

\* Faulty variant: a put applies the change to the account as it is now.
WrittenDelta(c) ==
  IF mem[c.email] = None THEN c.write
  ELSE [password |-> mem[c.email].password \/ c.write.password,
        passkeys |-> (mem[c.email].passkeys \cup c.add) \ c.drop]

\* UserStore::put inserts the copy: what was put since the read is gone.
Written(c) == c.write

\* Faulty variant: users.json is written before the account is inserted.
SavedBefore(c) == mem

\* persist: all accounts as they are after the insert.
Saved(c) == [mem EXCEPT ![c.email] = Written(c)]

Insert(t) ==
  /\ change[t] # None
  /\ mem' = [mem EXCEPT ![change[t].email] = Written(change[t])]
  /\ stale' = (stale \/ mem[change[t].email] # change[t].read
                     \/ (change[t].read = None /\ ~IsEmpty))
  /\ change' = [change EXCEPT ![t] = None]
  /\ UNCHANGED <<handles, login, asked>>

\* UserStore::put, and the answer. Who registered first gets a console.
Put(t) ==
  /\ Insert(t)
  /\ disk' = Saved(change[t])
  /\ added' = added \cup change[t].add
  /\ deleted' = deleted \cup change[t].drop
  /\ consoles' = IF change[t].read = None THEN consoles \cup {change[t].email} ELSE consoles
  /\ UNCHANGED fails

\* The write of users.json fails: the answer is 500 and memory keeps the change.
PutFails(t) ==
  /\ fails < MaxFails /\ fails' = fails + 1
  /\ Insert(t)
  /\ UNCHANGED <<disk, added, deleted, consoles>>

-----------------------------------------------------------------------------

SignedIn(e) ==
  /\ consoles' = consoles \cup {e}
  /\ UNCHANGED <<mem, disk, handles, change, added, asked, deleted, stale, fails>>

\* pw_login: nothing takes a password away while Argon2 runs.
PwLogin(e) ==
  /\ mem[e] # None /\ mem[e].password
  /\ SignedIn(e) /\ UNCHANGED login

\* pk_login_start: the passkeys the account has now, or a ceremony for whichever
\* passkey comes when no email is given or its account has none.
PkLoginStart(b, e) ==
  /\ login' = [login EXCEPT ![b] =
       IF e # None /\ mem[e] # None /\ mem[e].passkeys # {}
       THEN [email |-> e, creds |-> mem[e].passkeys, gone |-> deleted \cap mem[e].passkeys]
       ELSE [email |-> None, creds |-> {}, gone |-> deleted]]
  /\ UNCHANGED <<mem, disk, consoles, handles, change, added, asked, deleted, stale, fails>>

\* Faulty variant: the credential is looked up among all that were ever registered.
PkLoginFinishAdded(b, c) ==
  /\ login[b] # None /\ login' = [login EXCEPT ![b] = None]
  /\ IF login[b].email # None
     THEN c \in login[b].creds /\ mem[login[b].email] # None /\ SignedIn(login[b].email)
     ELSE c \in added /\ \E e \in Emails : mem[e] # None /\ SignedIn(e)

\* pk_login_finish with a passkey that verifies: against those of the start, or in
\* the account that has it now.
PkLoginFinish(b, c) ==
  /\ login[b] # None /\ login' = [login EXCEPT ![b] = None]
  /\ IF login[b].email # None
     THEN c \in login[b].creds /\ mem[login[b].email] # None /\ SignedIn(login[b].email)
     ELSE \E e \in Emails : mem[e] # None /\ c \in mem[e].passkeys /\ SignedIn(e)

\* One that does not verify, or comes after five minutes, or never.
PkLoginFails(b) ==
  /\ login[b] # None /\ login' = [login EXCEPT ![b] = None]
  /\ UNCHANGED <<mem, disk, consoles, handles, change, added, asked, deleted, stale, fails>>

Logout(e) ==
  /\ e \in consoles /\ consoles' = consoles \ {e}
  /\ UNCHANGED <<mem, disk, handles, login, change, added, asked, deleted, stale, fails>>

\* users.json and the session rows outlive the process, the rest does not.
Restart ==
  /\ mem' = disk /\ handles' = {} /\ login' = [b \in Browsers |-> None]
  /\ change' = [t \in Threads |-> None]
  /\ UNCHANGED <<disk, consoles, added, asked, deleted, stale, fails>>

Next ==
  \/ \E e \in Emails, c \in Creds : RegStart(e, c)
  \/ \E t \in Threads, h \in handles : RegFinish(t, h)
  \/ \E h \in handles : RegLapses(h)
  \/ \E t \in Threads, e \in Emails : PwRegister(t, e)
  \/ \E t \in Threads, e \in Emails, c \in Creds : DeletePasskey(t, e, c)
  \/ \E t \in Threads : Put(t) \/ PutFails(t)
  \/ \E e \in Emails : PwLogin(e)
  \/ \E b \in Browsers, e \in Emails \cup {None} : PkLoginStart(b, e)
  \/ \E b \in Browsers, c \in Creds : PkLoginFinish(b, c)
  \/ \E b \in Browsers : PkLoginFails(b)
  \/ \E e \in Emails : Logout(e)
  \/ Restart

Spec == Init /\ [][Next]_vars

-----------------------------------------------------------------------------

TypeOK ==
  /\ mem \in [Emails -> User \cup {None}] /\ disk \in [Emails -> User \cup {None}]
  /\ consoles \subseteq Emails
  /\ handles \subseteq Handle
  /\ login \in [Browsers -> Ceremony \cup {None}]
  /\ change \in [Threads -> Change \cup {None}]
  /\ added \subseteq Creds /\ asked \subseteq Creds /\ deleted \subseteq asked
  /\ stale \in BOOLEAN /\ fails \in 0..MaxFails

\* "cannot remove the last factor": an account always has one, in memory and
\* in the file, although the check and the write are not one step and deletes
\* may overlap.
AlwaysAFactor ==
  \A e \in Emails, users \in {mem, disk} : users[e] # None => FactorCount(users[e]) > 0

\* Changes that do not overlap are kept as acknowledged, across failed writes
\* and restarts: a registered passkey nobody asked to delete is in the file,
\* a deleted one is in neither the file nor memory.
AcknowledgedIsKept ==
  ~stale =>
    /\ \A c \in added \ asked : \E e \in Emails : disk[e] # None /\ c \in disk[e].passkeys
    /\ \A c \in deleted, e \in Emails, users \in {mem, disk} :
         users[e] # None => c \notin users[e].passkeys

GoneIsRefused ==
  \A b \in Browsers, c \in Creds : PkLoginFinish(b, c) => stale \/ c \notin login[b].gone

\* A deleted passkey is "refused at login": no ceremony begun after its deletion was
\* acknowledged signs in with it, across failed writes and restarts. One begun
\* before still may.
DeletedIsRefused == [][GoneIsRefused]_vars

\* A passkey whose deletion was acknowledged does not come back.
DeletedStaysDeleted ==
  \A c \in deleted, e \in Emails : mem[e] # None => c \notin mem[e].passkeys
=============================================================================
