------------------------------ MODULE Sessions ------------------------------
(***************************************************************************)
(* crates/secd-web/src/sessions.rs: table sessions and the requests that   *)
(* create, use and end console and device sessions. A handler first looks  *)
(* its token up and acts in a later transaction; other handlers, the clock *)
(* and a restart come between. An id stands for a session's id and token,  *)
(* both random and drawn once; last_seen and labels are left out.          *)
(***************************************************************************)
EXTENDS Integers, FiniteSets

CONSTANTS
  Emails,       \* accounts
  Workers,      \* threads with a request past its lookup
  Vacant,       \* an id without a row
  NoRequest,    \* an idle worker
  ConsoleTTL,   \* 12 hours
  DeviceTTL,    \* 30 days
  MaxIds,       \* bound: sessions issued
  MaxTime       \* bound: the clock

ASSUME SessionConstants ==
  /\ ConsoleTTL \in Nat \ {0} /\ DeviceTTL \in Nat \ {0}
  /\ MaxIds \in Nat /\ MaxTime \in Nat
  /\ Vacant \notin [email : Emails, kind : {"console", "device"}, expires : Nat]
  /\ NoRequest \notin [op : {"revoke", "approve", "leave"}, id : Nat, email : Emails, target : Nat]

VARIABLES
  sessions,   \* the row of each id, Vacant when there is none
  issued,     \* ids drawn so far: 1..issued
  audited,    \* ids named by session.revoke rows of the audit table
  now,        \* unix_now()
  request,    \* per worker: what it will do and for whom, after its lookup
  loggedOut   \* history: ids whose own token a logout presented

svars == <<sessions, issued, audited, now, request, loggedOut>>

Ids == Nat \ {0}
Kinds == {"console", "device"}
SessionRow == [email : Emails, kind : Kinds, expires : Nat]
Request == [op : {"revoke", "approve", "leave"}, id : Ids, email : Emails, target : Ids]

NoCookie == 0
Issued == 1..issued
Fresh  == issued + 1
HasRow(id) == id \in Issued /\ sessions[id] # Vacant
IsConsoleOf(id, e) ==
  HasRow(id) /\ sessions[id].kind = "console" /\ sessions[id].email = e

SessionInit ==
  /\ sessions = [id \in 1..MaxIds |-> Vacant]
  /\ issued = 0
  /\ audited = {}
  /\ now = 0
  /\ request = [w \in Workers |-> NoRequest]
  /\ loggedOut = {}

-----------------------------------------------------------------------------

\* DELETE FROM sessions WHERE expires <= now.
Swept ==
  [id \in DOMAIN sessions |->
     IF HasRow(id) /\ sessions[id].expires <= now THEN Vacant ELSE sessions[id]]

\* Faulty variant: the lookup does not sweep.
LookupUnswept(w, id, op, target) ==
  /\ request[w] = NoRequest
  /\ sessions' = sessions
  /\ IF HasRow(id) /\ sessions[id].kind = (IF op = "leave" THEN "device" ELSE "console")
     THEN request' = [request EXCEPT ![w] =
            [op |-> op, id |-> id, email |-> sessions[id].email, target |-> target]]
     ELSE request' = request
  /\ UNCHANGED <<issued, audited, now, loggedOut>>

\* console_from_headers before DELETE /sessions/{id} and before an approval,
\* device_from_headers before a device's own revoke: sweep, then the row. A
\* request that finds none ends here, with only the sweep done.
Lookup(w, id, op, target) ==
  /\ request[w] = NoRequest
  /\ sessions' = Swept
  /\ IF /\ Swept[id] # Vacant
        /\ Swept[id].kind = IF op = "leave" THEN "device" ELSE "console"
     THEN request' = [request EXCEPT ![w] =
            [op |-> op, id |-> id, email |-> Swept[id].email, target |-> target]]
     ELSE request' = request
  /\ UNCHANGED <<issued, audited, now, loggedOut>>

Console(e) == [email |-> e, kind |-> "console", expires |-> now + ConsoleTTL]
Device(e)  == [email |-> e, kind |-> "device", expires |-> now + DeviceTTL]

\* Row id is set to r; drop_other_console_on removes e's other console rows.
Replaced(id, e, r) ==
  [i \in DOMAIN sessions |->
     IF i = id THEN r ELSE IF IsConsoleOf(i, e) THEN Vacant ELSE sessions[i]]

\* ensure_console with the cookie of a console row of e: the row's deadline
\* moves. Whether that deadline has passed is not looked at.
LoginReuse(e, cookie) ==
  /\ IsConsoleOf(cookie, e)
  /\ sessions' = Replaced(cookie, e, Console(e))
  /\ UNCHANGED <<issued, audited, now, request, loggedOut>>

\* Faulty variant: the other console rows stay.
LoginKeepsOthers(e, cookie) ==
  /\ ~IsConsoleOf(cookie, e) /\ issued < MaxIds
  /\ sessions' = [sessions EXCEPT ![Fresh] = Console(e)]
  /\ issued' = Fresh
  /\ UNCHANGED <<audited, now, request, loggedOut>>

\* Faulty variant: every other row of e goes, its devices too.
LoginDropsDevices(e, cookie) ==
  /\ ~IsConsoleOf(cookie, e) /\ issued < MaxIds
  /\ sessions' = [i \in DOMAIN sessions |->
       IF i = Fresh THEN Console(e)
       ELSE IF HasRow(i) /\ sessions[i].email = e THEN Vacant ELSE sessions[i]]
  /\ issued' = Fresh
  /\ UNCHANGED <<audited, now, request, loggedOut>>

\* Faulty variant: a presented cookie is kept as the new session's token.
LoginAdoptsCookie(e, cookie) ==
  LET adopted == cookie # NoCookie /\ ~HasRow(cookie)
  IN /\ ~IsConsoleOf(cookie, e) /\ issued < MaxIds
     /\ sessions' = Replaced(IF adopted THEN cookie ELSE Fresh, e, Console(e))
     /\ issued' = IF adopted THEN issued ELSE Fresh
     /\ UNCHANGED <<audited, now, request, loggedOut>>

\* ensure_console with no cookie, or one that is no console row of e.
LoginNew(e, cookie) ==
  /\ ~IsConsoleOf(cookie, e) /\ issued < MaxIds
  /\ sessions' = Replaced(Fresh, e, Console(e))
  /\ issued' = Fresh
  /\ UNCHANGED <<audited, now, request, loggedOut>>

Done(w) == request' = [request EXCEPT ![w] = NoRequest]

\* revoke_id: the target's row, read in the transaction, decides.
RevokeId(w) ==
  LET r == request[w]
      found == HasRow(r.target) /\ sessions[r.target].email = r.email
  IN /\ r # NoRequest /\ r.op = "revoke"
     /\ sessions' = IF found THEN [sessions EXCEPT ![r.target] = Vacant] ELSE sessions
     /\ audited' = IF found THEN audited \cup {r.target} ELSE audited
     /\ Done(w)
     /\ UNCHANGED <<issued, now, loggedOut>>

\* create_device at the end of an approval, for the account of the console
\* that was looked up, whatever became of that console since.
CreateDevice(w) ==
  /\ request[w] # NoRequest /\ request[w].op = "approve" /\ issued < MaxIds
  /\ sessions' = [sessions EXCEPT ![Fresh] = Device(request[w].email)]
  /\ issued' = Fresh
  /\ Done(w)
  /\ UNCHANGED <<audited, now, loggedOut>>

\* revoke_token_with_audit: deletes what there is, records the id regardless.
RevokeOwn(w) ==
  LET r == request[w]
  IN /\ r # NoRequest /\ r.op = "leave"
     /\ sessions' = [sessions EXCEPT ![r.id] = Vacant]
     /\ audited' = audited \cup {r.id}
     /\ Done(w)
     /\ UNCHANGED <<issued, now, loggedOut>>

\* logout: revoke_token deletes the row the cookie's token names, a console's or
\* a device's, without lookup, sweep or audit row.
Logout(id) ==
  /\ HasRow(id)
  /\ sessions' = [sessions EXCEPT ![id] = Vacant]
  /\ loggedOut' = loggedOut \cup {id}
  /\ UNCHANGED <<issued, audited, now, request>>

Tick ==
  /\ now < MaxTime
  /\ now' = now + 1
  /\ UNCHANGED <<sessions, issued, audited, request, loggedOut>>

\* The process restarts: the table is on disk, the requests are gone.
Restart ==
  /\ request' = [w \in Workers |-> NoRequest]
  /\ UNCHANGED <<sessions, issued, audited, now, loggedOut>>

SessionNext ==
  \/ \E w \in Workers, id, target \in Issued :
       \/ Lookup(w, id, "revoke", target)
       \/ Lookup(w, id, "approve", target) /\ target = id
       \/ Lookup(w, id, "leave", target) /\ target = id
  \/ \E e \in Emails, cookie \in Issued : LoginReuse(e, cookie)
  \/ \E e \in Emails, cookie \in Issued \cup {NoCookie} : LoginNew(e, cookie)
  \/ \E w \in Workers : RevokeId(w)
  \/ \E w \in Workers : CreateDevice(w)
  \/ \E w \in Workers : RevokeOwn(w)
  \/ \E id \in Issued : Logout(id)
  \/ Tick
  \/ Restart

SessionSpec == SessionInit /\ [][SessionNext]_svars

-----------------------------------------------------------------------------

SessionTypeOK ==
  /\ issued \in 0..MaxIds
  /\ sessions \in [1..MaxIds -> SessionRow \cup {Vacant}]
  /\ \A id \in 1..MaxIds : id > issued => sessions[id] = Vacant
  /\ audited \subseteq Issued /\ loggedOut \subseteq Issued
  /\ now \in Nat
  /\ request \in [Workers -> Request \cup {NoRequest}]
  /\ \A w \in Workers : request[w] # NoRequest =>
       request[w].id \in Issued /\ request[w].target \in Issued

\* "One live console session per account", under concurrent logins with any
\* cookies.
OneConsolePerAccount ==
  \A e \in Emails : \A i, j \in Issued :
    IsConsoleOf(i, e) /\ IsConsoleOf(j, e) => i = j

\* "A revocation stays revoked": a session that was logged out, or that the audit
\* chain reports revoked, has no row, whichever logins, requests and restarts follow.
RevokedStaysRevoked == \A id \in audited \cup loggedOut : ~HasRow(id)

DeviceEnds ==
  \A id \in Issued :
    (HasRow(id) /\ sessions[id].kind = "device" /\ ~HasRow(id)')
      => sessions[id].expires <= now \/ id \in audited' \cup loggedOut'

\* "Device sessions stay": a device session ends past its deadline, with an audited
\* revoke, or by a logout that presents its own token; no login, no logout of
\* another session and no sweep before the deadline ends one.
DeviceOutlivesLogins == [][DeviceEnds]_svars

LookedUpLive ==
  \A w \in Workers : request[w] = NoRequest /\ request'[w] # NoRequest =>
    HasRow(request'[w].id) /\ now < sessions[request'[w].id].expires

\* No request starts on a session past its deadline, although rows outlive
\* their deadline until some lookup sweeps them.
NoExpiredLookup == [][LookedUpLive]_svars
=============================================================================
