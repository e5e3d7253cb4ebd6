--------------------------- MODULE Sessions_proofs ---------------------------
(***************************************************************************)
(* The session table for any accounts, any number of threads and sessions, *)
(* any lifetimes and an unbounded clock.                                   *)
(***************************************************************************)
EXTENDS Sessions, TLAPS

LEMMA RowsTyped ==
  ASSUME now \in Nat, NEW e \in Emails
  PROVE  Console(e) \in SessionRow /\ Device(e) \in SessionRow
BY SessionConstants DEF Console, Device, SessionRow, Kinds

LEMMA VacantIsNoRow == Vacant \notin SessionRow
BY SessionConstants DEF SessionRow, Kinds

\* What ensure_console leaves: the given row, no other console row of e.
LEMMA ReplacedRows ==
  ASSUME SessionTypeOK, NEW e \in Emails, NEW id \in 1..MaxIds
  PROVE  /\ Replaced(id, e, Console(e)) \in [1..MaxIds -> SessionRow \cup {Vacant}]
         /\ Replaced(id, e, Console(e))[id] = Console(e)
         /\ \A i \in 1..MaxIds : i # id =>
              Replaced(id, e, Console(e))[i]
                = IF IsConsoleOf(i, e) THEN Vacant ELSE sessions[i]
<1>1. DOMAIN sessions = 1..MaxIds
  BY DEF SessionTypeOK
<1>2. Console(e) \in SessionRow
  BY RowsTyped DEF SessionTypeOK
<1>3. \A i \in 1..MaxIds : sessions[i] \in SessionRow \cup {Vacant}
  BY DEF SessionTypeOK
<1> QED BY <1>1, <1>2, <1>3 DEF Replaced

LEMMA SweptTyped ==
  ASSUME SessionTypeOK
  PROVE  /\ Swept \in [1..MaxIds -> SessionRow \cup {Vacant}]
         /\ \A i \in 1..MaxIds : Swept[i] \in {sessions[i], Vacant}
<1>1. DOMAIN sessions = 1..MaxIds
  BY DEF SessionTypeOK
<1>2. \A i \in 1..MaxIds : sessions[i] \in SessionRow \cup {Vacant}
  BY DEF SessionTypeOK
<1> QED BY <1>1, <1>2 DEF Swept

LEMMA TypeStep == SessionTypeOK /\ [SessionNext]_svars => SessionTypeOK'
<1> SUFFICES ASSUME SessionTypeOK, [SessionNext]_svars PROVE SessionTypeOK'
  OBVIOUS
<1> USE SessionConstants DEF SessionTypeOK, Issued, Fresh, HasRow
<1>1. ASSUME NEW w \in Workers, NEW id \in Issued, NEW target \in Issued,
             NEW op \in {"revoke", "approve", "leave"}, Lookup(w, id, op, target)
      PROVE  SessionTypeOK'
  <2>1. sessions' \in [1..MaxIds -> SessionRow \cup {Vacant}]
    BY <1>1, SweptTyped DEF Lookup
  <2>2. \A i \in 1..MaxIds : i > issued' => sessions'[i] = Vacant
    BY <1>1, SweptTyped DEF Lookup
  <2>3. /\ request' \in [Workers -> Request \cup {NoRequest}]
        /\ \A v \in Workers : request'[v] # NoRequest =>
             request'[v].id \in Issued' /\ request'[v].target \in Issued'
    <3>1. id \in 1..MaxIds /\ id \in Ids /\ target \in Ids
      BY DEF Ids
    <3>2. CASE Swept[id] # Vacant
      <4> DEFINE r == [op |-> op, id |-> id, email |-> Swept[id].email, target |-> target]
      <4>1. Swept[id] \in SessionRow
        BY <3>1, <3>2, SweptTyped
      <4>2. Swept[id].email \in Emails
        BY <4>1 DEF SessionRow
      <4>3. r \in Request /\ r.id = id /\ r.target = target
        BY <3>1, <4>2 DEF Request
      <4>4. request' = request \/ request' = [request EXCEPT ![w] = r]
        BY <1>1 DEF Lookup
      <4> HIDE DEF r
      <4> QED BY <1>1, <4>3, <4>4 DEF Lookup
    <3>3. CASE Swept[id] = Vacant
      BY <1>1, <3>3 DEF Lookup
    <3> QED BY <3>2, <3>3
  <2> QED BY <1>1, <2>1, <2>2, <2>3 DEF Lookup
<1>2. ASSUME NEW e \in Emails, NEW cookie \in Issued, LoginReuse(e, cookie)
      PROVE  SessionTypeOK'
  <2>1. cookie \in 1..MaxIds
    OBVIOUS
  <2>2. sessions' = Replaced(cookie, e, Console(e))
    BY <1>2 DEF LoginReuse
  <2> QED BY <1>2, <2>1, <2>2, ReplacedRows DEF LoginReuse, IsConsoleOf
<1>3. ASSUME NEW e \in Emails, NEW cookie, LoginNew(e, cookie)
      PROVE  SessionTypeOK'
  <2>1. Fresh \in 1..MaxIds /\ issued' = Fresh
    BY <1>3 DEF LoginNew
  <2>2. sessions' = Replaced(Fresh, e, Console(e))
    BY <1>3 DEF LoginNew
  <2>3. \A i \in 1..MaxIds : i > issued' => sessions'[i] = Vacant
    BY <2>1, <2>2, ReplacedRows DEF IsConsoleOf
  <2>4. sessions' \in [1..MaxIds -> SessionRow \cup {Vacant}]
    BY <2>1, <2>2, ReplacedRows
  <2> QED BY <1>3, <2>1, <2>3, <2>4 DEF LoginNew
<1>4. ASSUME NEW w \in Workers, RevokeId(w) PROVE SessionTypeOK'
  BY <1>4 DEF RevokeId, Done
<1>5. ASSUME NEW w \in Workers, CreateDevice(w) PROVE SessionTypeOK'
  <2>1. Device(request[w].email) \in SessionRow
    <3>1. request[w] \in Request
      BY <1>5 DEF CreateDevice
    <3>2. request[w].email \in Emails
      BY <3>1 DEF Request
    <3> QED BY <3>2, RowsTyped
  <2> HIDE DEF Fresh
  <2>2. Fresh \in 1..MaxIds /\ Fresh = issued + 1 /\ issued' = Fresh
    BY <1>5 DEF CreateDevice, Fresh
  <2> QED BY <1>5, <2>1, <2>2 DEF CreateDevice, Done
<1>6. ASSUME NEW w \in Workers, RevokeOwn(w) PROVE SessionTypeOK'
  BY <1>6 DEF RevokeOwn, Done
<1>7. ASSUME NEW id \in Issued, Logout(id) PROVE SessionTypeOK'
  BY <1>7 DEF Logout
<1>8. CASE Tick
  BY <1>8 DEF Tick
<1>9. CASE Restart
  BY <1>9 DEF Restart
<1>10. CASE UNCHANGED svars
  BY <1>10 DEF svars
<1> QED
  BY <1>1, <1>2, <1>3, <1>4, <1>5, <1>6, <1>7, <1>8, <1>9, <1>10 DEF SessionNext

\* Rows, requests and audited ids stay well formed, and no row is stored under
\* an id that was not drawn.
THEOREM SessionTypeCorrect == SessionSpec => []SessionTypeOK
<1>1. SessionInit => SessionTypeOK
  BY SessionConstants DEF SessionInit, SessionTypeOK, Issued, HasRow
<1> QED
  BY <1>1, TypeStep, PTL DEF SessionSpec

-----------------------------------------------------------------------------

\* The steps that only remove rows, or leave them alone.
LEMMA RemovingSteps ==
  ASSUME SessionTypeOK, [SessionNext]_svars,
         ~ \E e \in Emails, cookie \in Issued \cup {NoCookie} :
             LoginReuse(e, cookie) \/ LoginNew(e, cookie),
         ~ \E w \in Workers : CreateDevice(w)
  PROVE  /\ UNCHANGED issued
         /\ \A i \in 1..MaxIds : sessions'[i] \in {sessions[i], Vacant}
<1> USE DEF SessionTypeOK
<1>1. CASE \E w \in Workers, id, target \in Issued, op \in {"revoke", "approve", "leave"} :
             Lookup(w, id, op, target)
  BY <1>1, SweptTyped DEF Lookup
<1>2. CASE \E w \in Workers : RevokeId(w)
  BY <1>2 DEF RevokeId
<1>3. CASE \E w \in Workers : RevokeOwn(w)
  BY <1>3 DEF RevokeOwn
<1>4. CASE \E id \in Issued : Logout(id)
  BY <1>4 DEF Logout
<1>5. CASE Tick \/ Restart \/ UNCHANGED svars
  BY <1>5 DEF Tick, Restart, svars
<1> QED
  BY <1>1, <1>2, <1>3, <1>4, <1>5 DEF SessionNext

\* An account never has two console sessions, however many logins run at once
\* and whatever cookies they present.
THEOREM OneConsole == SessionSpec => []OneConsolePerAccount
<1>1. SessionInit => OneConsolePerAccount
  BY DEF SessionInit, OneConsolePerAccount, Issued
<1>2. SessionTypeOK /\ OneConsolePerAccount /\ [SessionNext]_svars => OneConsolePerAccount'
  <2> SUFFICES ASSUME SessionTypeOK, OneConsolePerAccount, [SessionNext]_svars
               PROVE  OneConsolePerAccount'
    OBVIOUS
  <2>1. ASSUME NEW e \in Emails, NEW id \in 1..MaxIds, issued' \in 0..MaxIds,
               Issued \subseteq Issued',
               \A i \in Issued' : i \in Issued \/ i = id,
               sessions' = Replaced(id, e, Console(e))
        PROVE  OneConsolePerAccount'
    <3>1. ASSUME NEW f \in Emails, NEW i \in Issued', IsConsoleOf(i, f)', i # id
          PROVE  f # e /\ IsConsoleOf(i, f) /\ i \in Issued
      <4>1. i \in Issued /\ i \in 1..MaxIds
        BY <2>1, <3>1, SessionConstants DEF Issued
      <4>2. sessions'[i] = IF IsConsoleOf(i, e) THEN Vacant ELSE sessions[i]
        BY <2>1, <3>1, <4>1, ReplacedRows
      <4>3. sessions'[i] # Vacant
        BY <3>1 DEF IsConsoleOf, HasRow
      <4>4. ~IsConsoleOf(i, e) /\ sessions'[i] = sessions[i]
        BY <4>2, <4>3
      <4>5. IsConsoleOf(i, f)
        BY <3>1, <4>1, <4>4 DEF IsConsoleOf, HasRow
      <4> QED BY <4>1, <4>4, <4>5
    <3>2. ASSUME NEW f \in Emails, IsConsoleOf(id, f)' PROVE f = e
      <4>1. sessions'[id] = Console(e)
        BY <2>1, ReplacedRows
      <4> QED BY <3>2, <4>1 DEF IsConsoleOf, Console
    <3> QED BY <3>1, <3>2 DEF OneConsolePerAccount
  <2>2. ASSUME NEW e \in Emails, NEW cookie \in Issued, LoginReuse(e, cookie)
        PROVE  OneConsolePerAccount'
    <3>1. /\ cookie \in 1..MaxIds /\ issued' = issued /\ issued \in 0..MaxIds
          /\ sessions' = Replaced(cookie, e, Console(e))
      BY <2>2, SessionConstants DEF LoginReuse, Issued, SessionTypeOK
    <3> QED BY <2>1, <3>1 DEF Issued
  <2>3. ASSUME NEW e \in Emails, NEW cookie, LoginNew(e, cookie)
        PROVE  OneConsolePerAccount'
    <3>1. /\ Fresh \in 1..MaxIds /\ issued' = Fresh /\ issued \in 0..MaxIds
          /\ sessions' = Replaced(Fresh, e, Console(e))
      BY <2>3, SessionConstants DEF LoginNew, Fresh, SessionTypeOK
    <3>2. Issued \subseteq Issued' /\ \A i \in Issued' : i \in Issued \/ i = Fresh
      BY <3>1 DEF Issued, Fresh
    <3> QED BY <2>1, <3>1, <3>2
  <2>4. ASSUME NEW w \in Workers, CreateDevice(w) PROVE OneConsolePerAccount'
    <3>1. /\ sessions' = [sessions EXCEPT ![Fresh] = Device(request[w].email)]
          /\ issued' = Fresh /\ Fresh \in 1..MaxIds /\ Fresh = issued + 1
          /\ sessions \in [1..MaxIds -> SessionRow \cup {Vacant}] /\ issued \in Nat
      BY <2>4, SessionConstants DEF CreateDevice, Fresh, SessionTypeOK
    <3>2. ASSUME NEW f \in Emails, NEW i \in Issued', IsConsoleOf(i, f)'
          PROVE  i \in Issued /\ IsConsoleOf(i, f)
      <4>1. sessions'[Fresh] = Device(request[w].email)
        BY <3>1
      <4>2. i # Fresh
        BY <3>2, <4>1 DEF IsConsoleOf, Device
      <4>3. i \in Issued /\ i \in 1..MaxIds
        BY <3>1, <4>2, SessionConstants DEF Issued
      <4>4. sessions'[i] = sessions[i]
        BY <3>1, <4>2, <4>3
      <4> QED BY <3>2, <4>3, <4>4 DEF IsConsoleOf, HasRow
    <3> QED BY <3>2 DEF OneConsolePerAccount
  <2>5. CASE /\ UNCHANGED issued
             /\ \A i \in 1..MaxIds : sessions'[i] \in {sessions[i], Vacant}
    <3>1. Issued' = Issued /\ Issued \subseteq 1..MaxIds
      BY <2>5, SessionConstants DEF Issued, SessionTypeOK
    <3>2. \A f \in Emails, i \in Issued : IsConsoleOf(i, f)' => IsConsoleOf(i, f)
      BY <2>5, <3>1 DEF IsConsoleOf, HasRow
    <3> QED BY <3>1, <3>2 DEF OneConsolePerAccount
  <2>6. \A e \in Emails : ~LoginReuse(e, NoCookie)
    BY DEF LoginReuse, IsConsoleOf, HasRow, Issued, NoCookie, SessionTypeOK
  <2> QED
    BY <2>2, <2>3, <2>4, <2>5, <2>6, RemovingSteps
<1> QED
  BY <1>1, <1>2, SessionTypeCorrect, PTL DEF SessionSpec

-----------------------------------------------------------------------------

\* A session revoked or logged out never has a row again: fresh ids are never old ones, a
\* login reuses only a row that is still there, and a revoke that finds no row
\* leaves none.
THEOREM RevocationIsFinal == SessionSpec => []RevokedStaysRevoked
<1>1. SessionInit => RevokedStaysRevoked
  BY DEF SessionInit, RevokedStaysRevoked
<1>2. SessionTypeOK /\ RevokedStaysRevoked /\ [SessionNext]_svars => RevokedStaysRevoked'
  <2> SUFFICES ASSUME SessionTypeOK, RevokedStaysRevoked, [SessionNext]_svars
               PROVE  RevokedStaysRevoked'
    OBVIOUS
  <2> DEFINE over == audited \cup loggedOut
  <2>1. /\ over \subseteq 1..MaxIds /\ issued \in 0..MaxIds
        /\ \A i \in over : i <= issued /\ sessions[i] = Vacant
        /\ sessions \in [1..MaxIds -> SessionRow \cup {Vacant}]
    BY SessionConstants DEF SessionTypeOK, RevokedStaysRevoked, HasRow, Issued
  <2>2. ASSUME \A i \in over' : sessions'[i] = Vacant
        PROVE  RevokedStaysRevoked'
    BY <2>2 DEF RevokedStaysRevoked, HasRow
  <2>3. ASSUME NEW e \in Emails, NEW cookie \in Issued, LoginReuse(e, cookie)
        PROVE  RevokedStaysRevoked'
    <3>1. /\ cookie \in 1..MaxIds /\ cookie \notin over /\ over' = over
          /\ sessions' = Replaced(cookie, e, Console(e))
      BY <2>1, <2>3, SessionConstants DEF LoginReuse, IsConsoleOf, HasRow, Issued
    <3>2. \A i \in over : sessions'[i] = Vacant
      BY <2>1, <3>1, ReplacedRows DEF IsConsoleOf
    <3> QED BY <2>2, <3>1, <3>2
  <2>4. ASSUME NEW e \in Emails, NEW cookie, LoginNew(e, cookie)
        PROVE  RevokedStaysRevoked'
    <3>1. /\ Fresh \in 1..MaxIds /\ Fresh \notin over /\ over' = over
          /\ sessions' = Replaced(Fresh, e, Console(e))
      BY <2>1, <2>4, SessionConstants DEF LoginNew, Fresh
    <3>2. \A i \in over : sessions'[i] = Vacant
      BY <2>1, <3>1, ReplacedRows DEF IsConsoleOf
    <3> QED BY <2>2, <3>1, <3>2
  <2>5. ASSUME NEW w \in Workers, CreateDevice(w) PROVE RevokedStaysRevoked'
    <3>1. Fresh \in 1..MaxIds /\ Fresh \notin over
      BY <2>1, <2>5, SessionConstants DEF CreateDevice, Fresh
    <3>2. \A i \in over : sessions'[i] = Vacant
      BY <2>1, <2>5, <3>1 DEF CreateDevice
    <3> QED BY <2>2, <2>5, <3>2 DEF CreateDevice
  <2>6. CASE \A i \in 1..MaxIds : sessions'[i] \in {sessions[i], Vacant}
    <3>1. \A i \in over : sessions'[i] = Vacant
      BY <2>1, <2>6
    <3>2. ASSUME NEW w \in Workers, RevokeId(w) PROVE RevokedStaysRevoked'
      <4>1. request[w].target \in 1..MaxIds
        BY <3>2, SessionConstants DEF RevokeId, SessionTypeOK, Issued
      <4>2. CASE over' = over
        BY <2>2, <3>1, <4>2
      <4>3. CASE /\ sessions' = [sessions EXCEPT ![request[w].target] = Vacant]
                 /\ over' = over \cup {request[w].target}
        BY <2>1, <2>2, <3>1, <4>1, <4>3
      <4> QED BY <3>2, <4>2, <4>3 DEF RevokeId
    <3>3. ASSUME NEW w \in Workers, RevokeOwn(w) PROVE RevokedStaysRevoked'
      <4>1. request[w].id \in 1..MaxIds
        BY <3>3, SessionConstants DEF RevokeOwn, SessionTypeOK, Issued
      <4> QED BY <2>1, <2>2, <3>1, <3>3, <4>1 DEF RevokeOwn
    <3>4. CASE over' = over
      BY <2>2, <3>1, <3>4
    <3>5. ASSUME NEW w \in Workers, NEW id \in Issued, NEW target \in Issued,
                 NEW op \in {"revoke", "approve", "leave"}, Lookup(w, id, op, target)
          PROVE  RevokedStaysRevoked'
      BY <3>4, <3>5 DEF Lookup
    <3>6. ASSUME NEW id \in Issued, Logout(id) PROVE RevokedStaysRevoked'
      <4>1. id \in 1..MaxIds /\ over' = over \cup {id}
        BY <2>1, <3>6, SessionConstants DEF Logout, Issued
      <4> QED BY <2>1, <2>2, <3>1, <3>6, <4>1 DEF Logout
    <3>7. CASE Tick \/ Restart \/ UNCHANGED svars
      BY <3>4, <3>7 DEF Tick, Restart, svars
    <3> QED
      BY <2>3, <2>4, <2>5, <3>2, <3>3, <3>5, <3>6, <3>7 DEF SessionNext
  <2>7. \A e \in Emails : ~LoginReuse(e, NoCookie)
    BY DEF LoginReuse, IsConsoleOf, HasRow, Issued, NoCookie, SessionTypeOK
  <2> QED
    BY <2>3, <2>4, <2>5, <2>6, <2>7, RemovingSteps
<1> QED
  BY <1>1, <1>2, SessionTypeCorrect, PTL DEF SessionSpec

-----------------------------------------------------------------------------

\* A device session ends past its deadline, by an audited revoke or by a logout with
\* its own token: a login drops console rows only, a sweep rows past their deadline
\* only, and a logout the one row its token names.
THEOREM DevicesOutlive == SessionSpec => DeviceOutlivesLogins
<1>1. SessionTypeOK /\ [SessionNext]_svars => DeviceEnds
  <2> SUFFICES ASSUME SessionTypeOK, [SessionNext]_svars, NEW id \in Issued,
                      HasRow(id), sessions[id].kind = "device", ~HasRow(id)'
               PROVE  sessions[id].expires <= now \/ id \in audited' \cup loggedOut'
    BY DEF DeviceEnds
  <2>1. /\ id \in 1..MaxIds /\ sessions[id] # Vacant /\ issued \in 0..MaxIds
        /\ sessions \in [1..MaxIds -> SessionRow \cup {Vacant}]
    BY SessionConstants DEF SessionTypeOK, Issued, HasRow
  <2>2. issued' = issued \/ issued' = issued + 1 => sessions'[id] = Vacant
    BY <2>1 DEF HasRow, Issued
  <2>3. \A e \in Emails : ~IsConsoleOf(id, e) /\ Console(e) # Vacant
    BY RowsTyped, VacantIsNoRow DEF IsConsoleOf, SessionTypeOK
  <2>4. ASSUME NEW w \in Workers, NEW x \in Issued, NEW target \in Issued,
               NEW op \in {"revoke", "approve", "leave"}, Lookup(w, x, op, target)
        PROVE  sessions[id].expires <= now
    BY <2>1, <2>2, <2>4 DEF Lookup, Swept
  <2>5. ASSUME NEW e \in Emails, NEW cookie \in Issued, LoginReuse(e, cookie) PROVE FALSE
    <3>1. cookie \in 1..MaxIds /\ sessions' = Replaced(cookie, e, Console(e)) /\ issued' = issued
      BY <2>1, <2>5, SessionConstants DEF LoginReuse, Issued
    <3>2. sessions'[id] # Vacant
      BY <2>1, <2>3, <3>1, ReplacedRows
    <3> QED
      BY <2>1, <2>2, <3>1, <3>2
  <2>6. ASSUME NEW e \in Emails, NEW cookie, LoginNew(e, cookie) PROVE FALSE
    <3>1. Fresh \in 1..MaxIds /\ sessions' = Replaced(Fresh, e, Console(e)) /\ issued' = issued + 1
      BY <2>1, <2>6, SessionConstants DEF LoginNew, Fresh
    <3>2. sessions'[id] # Vacant
      BY <2>1, <2>3, <3>1, ReplacedRows
    <3> QED
      BY <2>1, <2>2, <3>1, <3>2
  <2>7. ASSUME NEW w \in Workers, RevokeId(w) PROVE id \in audited'
    BY <2>1, <2>2, <2>7 DEF RevokeId
  <2>8. ASSUME NEW w \in Workers, CreateDevice(w) PROVE FALSE
    <3>1. id # Fresh /\ issued' = issued + 1 /\ sessions'[id] = sessions[id]
      BY <2>1, <2>8 DEF CreateDevice, Fresh, Issued
    <3> QED
      BY <2>1, <2>2, <3>1
  <2>9. ASSUME NEW w \in Workers, RevokeOwn(w) PROVE id \in audited'
    BY <2>1, <2>2, <2>9 DEF RevokeOwn
  <2>10. ASSUME NEW x \in Issued, Logout(x) PROVE id \in loggedOut'
    BY <2>1, <2>2, <2>10 DEF Logout
  <2>11. CASE Tick \/ Restart \/ UNCHANGED svars
    BY <2>1, <2>2, <2>11 DEF Tick, Restart, svars
  <2>12. \A e \in Emails : ~LoginReuse(e, NoCookie)
    BY DEF LoginReuse, IsConsoleOf, HasRow, Issued, NoCookie, SessionTypeOK
  <2> QED
    BY <2>4, <2>5, <2>6, <2>7, <2>8, <2>9, <2>10, <2>11, <2>12 DEF SessionNext
<1> QED
  BY SessionTypeCorrect, <1>1, PTL DEF SessionSpec, DeviceOutlivesLogins

\* A request starts only on a session within its deadline.
THEOREM LookupsAreLive == SessionSpec => NoExpiredLookup
<1>1. SessionTypeOK /\ [SessionNext]_svars => LookedUpLive
  <2> SUFFICES ASSUME SessionTypeOK, [SessionNext]_svars, NEW v \in Workers, request[v] = NoRequest, request'[v] # NoRequest
               PROVE  HasRow(request'[v].id) /\ now < sessions[request'[v].id].expires
    BY DEF LookedUpLive
  <2>1. request \in [Workers -> Request \cup {NoRequest}] /\ now \in Nat
    BY DEF SessionTypeOK
  <2>2. ASSUME NEW w \in Workers, NEW id \in Issued, NEW target \in Issued,
               NEW op \in {"revoke", "approve", "leave"}, Lookup(w, id, op, target)
        PROVE  HasRow(request'[v].id) /\ now < sessions[request'[v].id].expires
    <3> DEFINE r == [op |-> op, id |-> id, email |-> Swept[id].email, target |-> target]
    <3>1. Swept[id] # Vacant /\ request' = [request EXCEPT ![w] = r]
      BY <2>2 DEF Lookup
    <3>2. r.id = id
      OBVIOUS
    <3> HIDE DEF r
    <3>3. request'[v].id = id
      BY <2>1, <3>1, <3>2
    <3>4. id \in 1..MaxIds /\ sessions[id] \in SessionRow \cup {Vacant}
      BY SessionConstants DEF SessionTypeOK, Issued
    <3>5. sessions[id] # Vacant /\ ~(sessions[id].expires <= now)
      BY <3>1, <3>4 DEF Swept, SessionTypeOK, HasRow
    <3>6. sessions[id].expires \in Nat
      BY <3>4, <3>5 DEF SessionRow
    <3> QED
      BY <2>1, <3>3, <3>5, <3>6 DEF HasRow
  <2>3. ASSUME NEW w \in Workers, RevokeId(w) \/ CreateDevice(w) \/ RevokeOwn(w) PROVE FALSE
    BY <2>1, <2>3 DEF RevokeId, CreateDevice, RevokeOwn, Done
  <2>4. ASSUME NEW e \in Emails, NEW cookie, LoginReuse(e, cookie) \/ LoginNew(e, cookie) PROVE FALSE
    BY <2>4 DEF LoginReuse, LoginNew
  <2>5. ASSUME NEW id \in Issued, Logout(id) PROVE FALSE
    BY <2>5 DEF Logout
  <2>6. CASE Tick \/ Restart \/ UNCHANGED svars
    BY <2>6 DEF Tick, Restart, svars
  <2> QED
    BY <2>2, <2>3, <2>4, <2>5, <2>6 DEF SessionNext
<1> QED
  BY SessionTypeCorrect, <1>1, PTL DEF SessionSpec, NoExpiredLookup
=============================================================================
