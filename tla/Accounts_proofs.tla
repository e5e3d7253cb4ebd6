--------------------------- MODULE Accounts_proofs ---------------------------
(***************************************************************************)
(* For any emails, credentials and number of overlapping requests, no      *)
(* account loses its last factor: the change a request will put has one,   *)
(* whatever other requests put since it read the account. And changes that *)
(* do not overlap are kept: what was added stays, what was deleted is gone *)
(* and does not sign in.                                                   *)
(***************************************************************************)
EXTENDS Accounts, FiniteSetTheorems, TLAPS

HasFactor(u) == u.password \/ u.passkeys # {}

\* What a request has decided to put leaves its account a factor.
ChangesKeepAFactor ==
  \A t \in Threads : change[t] # None => HasFactor(change[t].write)

UsersHaveAFactor ==
  \A e \in Emails : /\ mem[e] # None => HasFactor(mem[e])
                    /\ disk[e] # None => HasFactor(disk[e])

\* A passkey a request will drop is one whose deletion was asked for.
DropsAreAsked ==
  \A t \in Threads : change[t] # None => change[t].drop \subseteq asked

Factors == TypeOK /\ ChangesKeepAFactor /\ UsersHaveAFactor /\ DropsAreAsked

-----------------------------------------------------------------------------

\* factor_count is positive for an account with a password or a passkey.
LEMMA CountIsPositive ==
  ASSUME NEW u \in User
  PROVE  /\ IsFiniteSet(u.passkeys)
         /\ FactorCount(u) > 0 <=> HasFactor(u)
  <1>1. IsFiniteSet(u.passkeys)
    BY FS_Subset, AccountConstants DEF User
  <1>2. Cardinality(u.passkeys) \in Nat /\ (Cardinality(u.passkeys) = 0 <=> u.passkeys = {})
    BY <1>1, FS_CardinalityType, FS_EmptySet
  <1>. QED BY <1>1, <1>2 DEF FactorCount, HasFactor, User

\* An account with two factors has one left when a passkey goes.
LEMMA OneIsLeft ==
  ASSUME NEW u \in User, NEW c \in u.passkeys, FactorCount(u) > 1
  PROVE  HasFactor([u EXCEPT !.passkeys = @ \ {c}])
  <1>1. IsFiniteSet(u.passkeys)
    BY CountIsPositive
  <1>2. IsFiniteSet(u.passkeys \ {c}) /\ Cardinality(u.passkeys \ {c}) = Cardinality(u.passkeys) - 1
    BY <1>1, FS_RemoveElement
  <1>3. Cardinality(u.passkeys) \in Nat
    BY <1>1, FS_CardinalityType
  <1>4. u.passkeys \ {c} = {} => Cardinality(u.passkeys \ {c}) = 0
    BY FS_EmptySet
  <1>5. u.password \/ u.passkeys \ {c} # {}
    BY <1>2, <1>3, <1>4 DEF FactorCount, User
  <1>. QED BY <1>5 DEF HasFactor, User

-----------------------------------------------------------------------------

LEMMA InitFactors == Init => Factors
  <1>. SUFFICES ASSUME Init PROVE Factors
    OBVIOUS
  <1>1. mem \in [Emails -> User \cup {None}] /\ disk \in [Emails -> User \cup {None}]
    BY DEF Init
  <1>2. change \in [Threads -> Change \cup {None}]
    BY DEF Init
  <1>3. TypeOK
    <2>1. fails \in 0..MaxFails
      BY AccountConstants DEF Init
    <2>2. /\ consoles \subseteq Emails /\ handles \subseteq Handle
          /\ added \subseteq Creds /\ asked \subseteq Creds /\ deleted \subseteq asked
          /\ stale \in BOOLEAN /\ login \in [Browsers -> Ceremony \cup {None}]
      BY DEF Init
    <2>. QED BY <1>1, <1>2, <2>1, <2>2 DEF TypeOK
  <1>4. ChangesKeepAFactor /\ UsersHaveAFactor /\ DropsAreAsked
    BY DEF Init, ChangesKeepAFactor, UsersHaveAFactor, DropsAreAsked
  <1>. QED BY <1>3, <1>4 DEF Factors

\* The four ways to decide on a change.
LEMMA DecideKeepsFactors ==
  ASSUME Factors, NEW t \in Threads, NEW c \in Change, HasFactor(c.write), Decide(t, c),
         handles' \subseteq Handle, asked' \subseteq Creds, asked \subseteq asked',
         c.drop \subseteq asked'
  PROVE  Factors'
  <1>1. TypeOK'
    BY DEF Factors, TypeOK, Decide
  <1>2. ChangesKeepAFactor'
    BY DEF Factors, TypeOK, Decide, ChangesKeepAFactor, HasFactor
  <1>3. UsersHaveAFactor'
    BY DEF Factors, Decide, UsersHaveAFactor, HasFactor
  <1>4. DropsAreAsked'
    BY DEF Factors, TypeOK, Decide, DropsAreAsked
  <1>. QED BY <1>1, <1>2, <1>3, <1>4 DEF Factors

LEMMA FinishKeepsFactors ==
  ASSUME Factors, NEW t \in Threads, NEW h \in handles, RegFinish(t, h)
  PROVE  Factors'
  <1>1. h \in Handle /\ handles' \subseteq Handle /\ asked' = asked /\ asked \subseteq Creds
    BY DEF Factors, TypeOK, RegFinish
  <1>2. CASE h.add
    <2>. DEFINE c == [email |-> h.email, read |-> mem[h.email], add |-> {h.cred}, drop |-> {},
                      write |-> [mem[h.email] EXCEPT !.passkeys = @ \cup {h.cred}]]
    <2>1. mem[h.email] # None /\ Decide(t, c)
      BY <1>2 DEF RegFinish
    <2>2. mem[h.email] \in User
      BY <1>1, <2>1 DEF Factors, TypeOK, Handle
    <2>3. c \in Change /\ HasFactor(c.write) /\ c.drop = {}
      BY <1>1, <2>2 DEF Change, User, Handle, HasFactor
    <2>. HIDE DEF c
    <2>. QED BY <1>1, <2>1, <2>3, DecideKeepsFactors
  <1>3. CASE ~h.add
    <2>. DEFINE c == [email |-> h.email, read |-> None, add |-> {h.cred}, drop |-> {},
                      write |-> [password |-> FALSE, passkeys |-> {h.cred}]]
    <2>1. Decide(t, c)
      BY <1>3 DEF RegFinish
    <2>2. c \in Change /\ HasFactor(c.write) /\ c.drop = {}
      BY <1>1 DEF Change, User, Handle, HasFactor
    <2>. HIDE DEF c
    <2>. QED BY <1>1, <2>1, <2>2, DecideKeepsFactors
  <1>. QED BY <1>2, <1>3

LEMMA PasswordKeepsFactors ==
  ASSUME Factors, NEW t \in Threads, NEW e \in Emails, PwRegister(t, e)
  PROVE  Factors'
  <1>1. handles' \subseteq Handle /\ asked' = asked /\ asked \subseteq Creds
    BY DEF Factors, TypeOK, PwRegister
  <1>2. CASE IsEmpty
    <2>. DEFINE c == [email |-> e, read |-> None, add |-> {}, drop |-> {},
                      write |-> [password |-> TRUE, passkeys |-> {}]]
    <2>1. Decide(t, c)
      BY <1>2 DEF PwRegister
    <2>2. c \in Change /\ HasFactor(c.write) /\ c.drop = {}
      BY DEF Change, User, HasFactor
    <2>. HIDE DEF c
    <2>. QED BY <1>1, <2>1, <2>2, DecideKeepsFactors
  <1>3. CASE ~IsEmpty
    <2>. DEFINE c == [email |-> e, read |-> mem[e], add |-> {}, drop |-> {},
                      write |-> [mem[e] EXCEPT !.password = TRUE]]
    <2>1. mem[e] # None /\ Decide(t, c)
      BY <1>3 DEF PwRegister
    <2>2. mem[e] \in User
      BY <2>1 DEF Factors, TypeOK
    <2>3. c \in Change /\ HasFactor(c.write) /\ c.drop = {}
      BY <2>2 DEF Change, User, HasFactor
    <2>. HIDE DEF c
    <2>. QED BY <1>1, <2>1, <2>3, DecideKeepsFactors
  <1>. QED BY <1>2, <1>3

LEMMA DeleteKeepsFactors ==
  ASSUME Factors, NEW t \in Threads, NEW e \in Emails, NEW k \in Creds, DeletePasskey(t, e, k)
  PROVE  Factors'
  <1>. DEFINE c == [email |-> e, read |-> mem[e], add |-> {}, drop |-> {k},
                    write |-> [mem[e] EXCEPT !.passkeys = @ \ {k}]]
  <1>1. handles' \subseteq Handle /\ asked' \subseteq Creds /\ asked \subseteq asked'
    BY DEF Factors, TypeOK, DeletePasskey
  <1>2. mem[e] # None /\ k \in mem[e].passkeys /\ FactorCount(mem[e]) > 1 /\ Decide(t, c)
    BY DEF DeletePasskey
  <1>3. mem[e] \in User
    BY <1>2 DEF Factors, TypeOK
  <1>4. c \in Change
    BY <1>3 DEF Change, User
  <1>5. HasFactor(c.write)
    BY <1>2, <1>3, OneIsLeft
  <1>6. c.drop \subseteq asked'
    BY DEF DeletePasskey
  <1>. HIDE DEF c
  <1>. QED BY <1>1, <1>2, <1>4, <1>5, <1>6, DecideKeepsFactors

\* A put writes an account that has a factor, to memory and perhaps to disk.
LEMMA InsertKeepsFactors ==
  ASSUME Factors, NEW t \in Threads, Insert(t),
         disk' = Saved(change[t]) \/ disk' = disk,
         added' \subseteq Creds, deleted' \subseteq asked, consoles' \subseteq Emails,
         fails' \in 0..MaxFails
  PROVE  Factors'
  <1>. DEFINE c == change[t]
  <1>1. c # None /\ c \in Change /\ HasFactor(c.write)
    BY DEF Insert, Factors, TypeOK, ChangesKeepAFactor
  <1>2. c.write \in User /\ c.email \in Emails
    BY <1>1 DEF Change
  <1>3. mem' = [mem EXCEPT ![c.email] = c.write] /\ Saved(c) = mem'
    BY DEF Insert, Written, Saved
  <1>4. TypeOK'
    <2>1. mem' \in [Emails -> User \cup {None}] /\ disk' \in [Emails -> User \cup {None}]
      BY <1>2, <1>3 DEF Factors, TypeOK
    <2>2. change' \in [Threads -> Change \cup {None}] /\ stale' \in BOOLEAN
      BY DEF Factors, TypeOK, Insert
    <2>3. /\ handles' \subseteq Handle /\ asked' = asked /\ asked \subseteq Creds
          /\ login' \in [Browsers -> Ceremony \cup {None}]
      BY DEF Factors, TypeOK, Insert
    <2>. QED BY <2>1, <2>2, <2>3 DEF TypeOK
  <1>5. ChangesKeepAFactor'
    BY DEF Factors, TypeOK, Insert, ChangesKeepAFactor, HasFactor
  <1>6. ASSUME NEW e \in Emails PROVE mem'[e] # None => HasFactor(mem'[e])
    <2>1. CASE e = c.email
      BY <1>1, <1>3, <2>1 DEF Factors, TypeOK, HasFactor
    <2>2. CASE e # c.email
      <3>1. mem'[e] = mem[e]
        BY <1>3, <2>2 DEF Factors, TypeOK
      <3>. QED BY <3>1 DEF Factors, UsersHaveAFactor
    <2>. QED BY <2>1, <2>2
  <1>7. ASSUME NEW e \in Emails PROVE disk'[e] # None => HasFactor(disk'[e])
    <2>1. CASE disk' = mem'
      BY <1>6, <2>1 DEF HasFactor
    <2>2. CASE disk' = disk
      BY <2>2 DEF Factors, UsersHaveAFactor, HasFactor
    <2>. QED BY <1>3, <2>1, <2>2
  <1>8. UsersHaveAFactor'
    BY <1>6, <1>7 DEF UsersHaveAFactor, HasFactor
  <1>9. DropsAreAsked'
    BY DEF Factors, TypeOK, Insert, DropsAreAsked
  <1>. QED BY <1>4, <1>5, <1>8, <1>9 DEF Factors

\* Steps that touch no account and decide on none.
LEMMA QuietKeepsFactors ==
  ASSUME Factors, UNCHANGED <<mem, disk, change, added, asked, deleted, stale, fails>>,
         handles' \subseteq Handle, consoles' \subseteq Emails,
         login' \in [Browsers -> Ceremony \cup {None}]
  PROVE  Factors'
  BY DEF Factors, TypeOK, ChangesKeepAFactor, UsersHaveAFactor, DropsAreAsked, HasFactor

LEMMA StepKeepsFactors == Factors /\ [Next]_vars => Factors'
  <1>. SUFFICES ASSUME Factors, [Next]_vars PROVE Factors'
    OBVIOUS
  <1>0. /\ handles \subseteq Handle /\ consoles \subseteq Emails
        /\ login \in [Browsers -> Ceremony \cup {None}]
    BY DEF Factors, TypeOK
  <1>1. ASSUME NEW e \in Emails, NEW k \in Creds, RegStart(e, k) PROVE Factors'
    <2>1. handles' \subseteq Handle
      <3>. DEFINE h == [cred |-> k, email |-> e, add |-> ~IsEmpty]
      <3>1. (~IsEmpty) \in BOOLEAN
        BY Zenon DEF IsEmpty
      <3>2. h \in Handle
        BY <3>1 DEF Handle
      <3>3. handles' = handles \cup {h}
        BY <1>1 DEF RegStart
      <3>. HIDE DEF h
      <3>. QED BY <1>0, <3>2, <3>3
    <2>. QED BY <1>0, <1>1, <2>1, QuietKeepsFactors DEF RegStart
  <1>2. ASSUME NEW t \in Threads, NEW h \in handles, RegFinish(t, h) PROVE Factors'
    BY <1>2, FinishKeepsFactors
  <1>3. ASSUME NEW h \in handles, RegLapses(h) PROVE Factors'
    BY <1>0, <1>3, QuietKeepsFactors DEF RegLapses
  <1>4. ASSUME NEW t \in Threads, NEW e \in Emails, PwRegister(t, e) PROVE Factors'
    BY <1>4, PasswordKeepsFactors
  <1>5. ASSUME NEW t \in Threads, NEW e \in Emails, NEW k \in Creds, DeletePasskey(t, e, k)
        PROVE Factors'
    BY <1>5, DeleteKeepsFactors
  <1>6. ASSUME NEW t \in Threads, Put(t) PROVE Factors'
    <2>1. Insert(t) /\ disk' = Saved(change[t])
      BY <1>6 DEF Put
    <2>2. change[t] \in Change
      BY <2>1 DEF Insert, Factors, TypeOK
    <2>3. added' \subseteq Creds
      BY <1>6, <2>2 DEF Put, Factors, TypeOK, Change
    <2>4. deleted' \subseteq asked
      BY <1>6, <2>1 DEF Put, Insert, Factors, TypeOK, DropsAreAsked
    <2>5. consoles' \subseteq Emails /\ fails' \in 0..MaxFails
      BY <1>6, <2>2 DEF Put, Factors, TypeOK, Change
    <2>. QED BY <2>1, <2>3, <2>4, <2>5, InsertKeepsFactors
  <1>7. ASSUME NEW t \in Threads, PutFails(t) PROVE Factors'
    <2>1. fails' \in 0..MaxFails
      BY <1>7, AccountConstants DEF PutFails, Factors, TypeOK
    <2>2. /\ Insert(t) /\ disk' = disk /\ added' \subseteq Creds /\ deleted' \subseteq asked
          /\ consoles' \subseteq Emails
      BY <1>7 DEF PutFails, Factors, TypeOK
    <2>. QED BY <2>1, <2>2, InsertKeepsFactors
  <1>8. ASSUME NEW e \in Emails, PwLogin(e) \/ Logout(e) PROVE Factors'
    BY <1>0, <1>8, QuietKeepsFactors DEF PwLogin, SignedIn, Logout
  <1>11. ASSUME NEW b \in Browsers, NEW e \in Emails \cup {None}, PkLoginStart(b, e) PROVE Factors'
    <2>1. PICK l : login' = [login EXCEPT ![b] = l] /\ l \in Ceremony
      <3>1. CASE e # None /\ mem[e] # None /\ mem[e].passkeys # {}
        <4>1. [email |-> e, creds |-> mem[e].passkeys, gone |-> deleted \cap mem[e].passkeys] \in Ceremony
          BY <3>1 DEF Ceremony, User, Factors, TypeOK
        <4>. QED BY <1>11, <3>1, <4>1 DEF PkLoginStart
      <3>2. CASE ~(e # None /\ mem[e] # None /\ mem[e].passkeys # {})
        <4>1. [email |-> None, creds |-> {}, gone |-> deleted] \in Ceremony
          BY DEF Ceremony, Factors, TypeOK
        <4>. QED BY <1>11, <3>2, <4>1 DEF PkLoginStart
      <3>. QED BY <3>1, <3>2
    <2>2. login' \in [Browsers -> Ceremony \cup {None}]
      BY <1>0, <2>1
    <2>. QED BY <1>0, <1>11, <2>2, QuietKeepsFactors DEF PkLoginStart
  <1>12. ASSUME NEW b \in Browsers, NEW c \in Creds, PkLoginFinish(b, c) PROVE Factors'
    <2>1. /\ consoles' \subseteq Emails /\ login' \in [Browsers -> Ceremony \cup {None}]
          /\ UNCHANGED <<mem, disk, handles, change, added, asked, deleted, stale, fails>>
      <3>1. CASE login[b].email # None
        BY <1>0, <1>12, <3>1 DEF PkLoginFinish, SignedIn, Ceremony
      <3>2. CASE login[b].email = None
        BY <1>0, <1>12, <3>2 DEF PkLoginFinish, SignedIn
      <3>. QED BY <3>1, <3>2
    <2>. QED BY <1>0, <2>1, QuietKeepsFactors
  <1>13. ASSUME NEW b \in Browsers, PkLoginFails(b) PROVE Factors'
    <2>1. login' \in [Browsers -> Ceremony \cup {None}]
      BY <1>0, <1>13 DEF PkLoginFails
    <2>. QED BY <1>0, <1>13, <2>1, QuietKeepsFactors DEF PkLoginFails
  <1>9. CASE Restart
    BY <1>9 DEF Restart, Factors, TypeOK, ChangesKeepAFactor, UsersHaveAFactor, DropsAreAsked,
                HasFactor
  <1>10. CASE UNCHANGED vars
    BY <1>0, <1>10, QuietKeepsFactors DEF vars
  <1>. QED BY <1>1, <1>2, <1>3, <1>4, <1>5, <1>6, <1>7, <1>8, <1>9, <1>10, <1>11, <1>12, <1>13 DEF Next

-----------------------------------------------------------------------------

\* Accounts, handles and changes stay well formed; only passkeys whose deletion
\* was asked for are acknowledged as deleted.
THEOREM AccountTypeCorrect == Spec => []TypeOK
  <1>1. Factors => TypeOK
    BY DEF Factors
  <1>. QED BY <1>1, InitFactors, StepKeepsFactors, PTL DEF Spec

\* delete_passkey refuses the last factor on the copy it read, and the put of
\* that copy replaces whatever is there: so no interleaving of additions,
\* deletions, failed writes and restarts leaves an account without a factor.
THEOREM AFactorRemains == Spec => []AlwaysAFactor
  <1>1. Factors => AlwaysAFactor
    <2>. SUFFICES ASSUME Factors, NEW e \in Emails, NEW users \in {mem, disk}, users[e] # None
                  PROVE FactorCount(users[e]) > 0
      BY DEF AlwaysAFactor
    <2>1. users[e] \in User /\ HasFactor(users[e])
      BY DEF Factors, TypeOK, UsersHaveAFactor
    <2>. QED BY <2>1, CountIsPositive
  <1>. QED BY <1>1, InitFactors, StepKeepsFactors, PTL DEF Spec

(***************************************************************************)
(* Changes that do not overlap are kept                                    *)
(***************************************************************************)

Has(u, k) == u # None /\ k \in u.passkeys

\* What a change writes is what it read, with what it adds and without what it drops.
Shape(c) ==
  /\ c.add \cap c.drop = {}
  /\ c.read = None => c.drop = {} /\ c.write.passkeys = c.add
  /\ c.read # None => /\ c.drop \subseteq c.read.passkeys
                      /\ c.write.passkeys = (c.read.passkeys \cup c.add) \ c.drop
Shapes == \A t \in Threads : change[t] # None => Shape(change[t])

\* A credential in registration is in no other registration, and nobody asked to
\* delete it.
Adds(t, k) == change[t] # None /\ k \in change[t].add
Registering ==
  /\ \A h \in handles : h.cred \notin asked /\ \A t \in Threads : ~Adds(t, h.cred)
  /\ \A h, i \in handles : h.cred = i.cred => h = i
  /\ \A t \in Threads, k \in asked : ~Adds(t, k)
  /\ \A t, u \in Threads, k \in Creds : Adds(t, k) /\ Adds(u, k) => t = u

\* Of memory and of the file: what was acknowledged is so, accounts share no passkey,
\* and a credential in registration has none.
Acknowledged(users) ==
  /\ \A k \in added \ asked : \E e \in Emails : Has(users[e], k)
  /\ \A k \in deleted, e \in Emails : ~Has(users[e], k)
Apart(users) == \A e, f \in Emails, k \in Creds : Has(users[e], k) /\ Has(users[f], k) => e = f
Without(users) ==
  /\ \A e \in Emails, h \in handles : ~Has(users[e], h.cred)
  /\ \A e \in Emails, t \in Threads, k \in Creds : Adds(t, k) => ~Has(users[e], k)
Kept(users) == Acknowledged(users) /\ Apart(users) /\ Without(users)

\* A ceremony under way offers nothing that was deleted when it began.
Offered == \A b \in Browsers : login[b] # None =>
  /\ login[b].gone \subseteq deleted
  /\ ~stale => login[b].creds \cap login[b].gone = {}

Smooth == Registering /\ Kept(mem) /\ Kept(disk)
Acks == Factors /\ Shapes /\ Offered /\ (~stale => Smooth)

LEMMA InitAcks == Init => Acks
<1> SUFFICES ASSUME Init PROVE Acks
  OBVIOUS
<1>1. Factors
  BY InitFactors
<1>2. Shapes /\ Offered /\ Registering
  BY DEF Init, Shapes, Offered, Registering, Adds
<1>3. Kept(mem) /\ Kept(disk)
  BY DEF Init, Kept, Acknowledged, Apart, Without, Has, Adds
<1> QED
  BY <1>1, <1>2, <1>3 DEF Acks, Smooth

\* A request that decides takes over at most the credential of a handle, and asks to
\* delete at most one that an account has.
LEMMA DecideAcks ==
  ASSUME Acks, Factors', NEW t \in Threads, NEW c \in Change, Shape(c), Decide(t, c),
         \/ handles' = handles /\ c.add = {}
         \/ \E h \in handles : handles' = handles \ {h} /\ c.add = {h.cred},
         \/ asked' = asked
         \/ \E e \in Emails, k \in Creds : Has(mem[e], k) /\ asked' = asked \cup {k} /\ c.add = {}
  PROVE  Acks'
<1>1. /\ change'[t] = c /\ change[t] = None /\ \A u \in Threads \ {t} : change'[u] = change[u]
      /\ UNCHANGED <<mem, disk, added, deleted, stale, login>>
  BY DEF Decide, Acks, Factors, TypeOK
<1>2. Shapes' /\ Offered'
  BY <1>1 DEF Acks, Shapes, Shape, Offered
<1>3. ASSUME NEW u \in Threads, NEW k, Adds(u, k)'
      PROVE  Adds(u, k) \/ (u = t /\ \E h \in handles : handles' = handles \ {h} /\ k = h.cred /\ asked' = asked)
  BY <1>1, <1>3 DEF Adds
<1>4. handles' \subseteq handles /\ asked \subseteq asked'
  OBVIOUS
<1>5. ASSUME ~stale PROVE Registering'
  <2>0. Registering /\ Kept(mem) /\ handles \subseteq Handle
    BY <1>5 DEF Acks, Smooth, Factors, TypeOK
  <2>1. ASSUME NEW h \in handles' PROVE h.cred \notin asked' /\ \A u \in Threads : ~Adds(u, h.cred)'
    <3>1. h.cred \notin asked'
      BY <1>4, <2>0, <2>1 DEF Registering, Kept, Without
    <3>2. ASSUME NEW u \in Threads PROVE ~Adds(u, h.cred)'
      BY <1>3, <1>4, <2>0, <2>1 DEF Registering
    <3> QED
      BY <3>1, <3>2
  <2>2. \A h, i \in handles' : h.cred = i.cred => h = i
    BY <1>4, <2>0 DEF Registering
  <2>3. ASSUME NEW u \in Threads, NEW k \in asked' PROVE ~Adds(u, k)'
    <3>1. k \in Creds
      BY <2>3 DEF Factors, TypeOK
    <3>2. CASE k \in asked
      BY <1>3, <2>0, <3>2 DEF Registering
    <3>3. CASE k \notin asked
      BY <1>3, <2>0, <2>3, <3>1, <3>3 DEF Kept, Without
    <3> QED
      BY <3>2, <3>3
  <2>4. ASSUME NEW u \in Threads, NEW v \in Threads, NEW k \in Creds, Adds(u, k)', Adds(v, k)' PROVE u = v
    BY <1>3, <2>0, <2>4 DEF Registering
  <2> QED
    BY <2>1, <2>2, <2>3, <2>4 DEF Registering
<1>6. ASSUME ~stale, NEW users, Kept(users), users' = users PROVE Kept(users)'
  <2>1. Acknowledged(users)' /\ Apart(users)'
    BY <1>1, <1>4, <1>6 DEF Kept, Acknowledged, Apart, Has
  <2>2. Without(users)'
    <3>1. ASSUME NEW e \in Emails, NEW u \in Threads, NEW k \in Creds, Adds(u, k)' PROVE ~Has(users[e], k)
      BY <1>3, <1>6, <3>1 DEF Kept, Without
    <3> QED
      BY <1>4, <1>6, <3>1 DEF Kept, Without, Has
  <2> QED
    BY <2>1, <2>2 DEF Kept
<1> QED
  BY <1>1, <1>2, <1>5, <1>6 DEF Acks, Smooth

\* A put that replaces what its request read, or the first account of an empty store.
LEMMA InsertAcks ==
  ASSUME Acks, Factors', NEW t \in Threads, Insert(t), login' = login,
         \/ disk' = Saved(change[t]) /\ added' = added \cup change[t].add /\ deleted' = deleted \cup change[t].drop
         \/ UNCHANGED <<disk, added, deleted>>
  PROVE  Acks'
<1> PICK c : c = change[t]
  OBVIOUS
<1>1. /\ c # None /\ c \in Change /\ Shape(c) /\ c.write \in User /\ c.write # None /\ c.email \in Emails
  BY AccountConstants DEF Insert, Acks, Factors, TypeOK, Shapes, Change
<1>2. /\ mem' = [mem EXCEPT ![c.email] = c.write] /\ Saved(c) = mem'
      /\ UNCHANGED <<handles, asked>>
      /\ change'[t] = None /\ \A u \in Threads \ {t} : change'[u] = change[u]
  BY DEF Insert, Written, Saved, Acks, Factors, TypeOK
<1>3. mem'[c.email] = c.write /\ \A e \in Emails \ {c.email} : mem'[e] = mem[e]
  BY <1>1, <1>2 DEF Acks, Factors, TypeOK
<1>4. ~stale' => ~stale /\ mem[c.email] = c.read /\ (c.read = None => IsEmpty)
  BY DEF Insert
<1>5. deleted \subseteq deleted' /\ c.drop \subseteq asked
  BY <1>1 DEF Acks, Factors, DropsAreAsked
<1>6. Shapes' /\ Offered'
  BY <1>2, <1>4, <1>5 DEF Acks, Shapes, Shape, Offered
<1>7. \A u \in Threads : \A k : Adds(u, k)' => Adds(u, k) /\ u # t
  BY <1>2 DEF Adds
<1>8. ASSUME ~stale' PROVE Smooth'
  <2>1. Registering /\ Kept(mem) /\ Kept(disk)
    BY <1>4, <1>8 DEF Acks, Smooth
  <2>2. Registering'
    BY <1>2, <1>7, <2>1 DEF Registering
  <2>3. \A k \in c.add : Adds(t, k)
    BY <1>1 DEF Adds
  <2>4. \A e \in Emails, k \in Creds : Has(mem'[e], k) => Has(mem[e], k) \/ (e = c.email /\ k \in c.add)
    BY <1>1, <1>3, <1>4, <1>8 DEF Has, Shape
  <2>5. \A e \in Emails, k \in Creds : Has(mem[e], k) => Has(mem'[e], k) \/ (e = c.email /\ k \in c.drop)
    <3> SUFFICES ASSUME NEW e \in Emails, NEW k \in Creds, Has(mem[e], k), e = c.email, k \notin c.drop
                 PROVE  Has(mem'[e], k)
      BY <1>3 DEF Has
    <3> QED
      BY <1>1, <1>3, <1>4, <1>8 DEF Has, Shape
  <2>6. \A k \in c.add : Has(mem'[c.email], k)
    BY <1>1, <1>3 DEF Has, Shape
  <2>7. \A k \in c.drop : Has(mem[c.email], k) /\ ~Has(mem'[c.email], k)
    BY <1>1, <1>3, <1>4, <1>8 DEF Has, Shape
  <2>8. Apart(mem)'
    <3> SUFFICES ASSUME NEW e \in Emails, NEW f \in Emails, NEW k \in Creds, Has(mem'[e], k), Has(mem'[f], k)
                 PROVE  e = f
      BY DEF Apart, Has
    <3> QED
      BY <2>1, <2>3, <2>4 DEF Kept, Apart, Without
  <2>9. ASSUME NEW k \in Creds, \A e \in Emails : ~Has(mem[e], k), k \notin c.add
        PROVE  \A e \in Emails : ~Has(mem'[e], k)
    BY <2>4, <2>9
  <2>10. Without(mem)'
    <3>1. ASSUME NEW e \in Emails, NEW h \in handles PROVE ~Has(mem'[e], h.cred)
      <4>1. h.cred \in Creds
        BY DEF Acks, Factors, TypeOK, Handle
      <4>2. h.cred \notin c.add
        BY <2>1, <2>3 DEF Registering
      <4> QED
        BY <2>1, <2>9, <4>1, <4>2 DEF Kept, Without
    <3>2. ASSUME NEW e \in Emails, NEW u \in Threads, NEW k \in Creds, Adds(u, k)' PROVE ~Has(mem'[e], k)
      <4>1. Adds(u, k) /\ u # t
        BY <1>7, <3>2
      <4>2. k \notin c.add
        BY <2>1, <2>3, <4>1 DEF Registering
      <4> QED
        BY <2>1, <2>9, <4>1, <4>2 DEF Kept, Without
    <3> QED
      BY <1>2, <3>1, <3>2 DEF Without, Has
  <2>11. Without(disk)' \/ disk' = mem'
    BY <1>2, <1>7, <2>1 DEF Kept, Without, Has
  <2>12. CASE disk' = Saved(c) /\ added' = added \cup c.add /\ deleted' = deleted \cup c.drop
    <3>1. ASSUME NEW k \in added' \ asked' PROVE \E e \in Emails : Has(mem'[e], k)
      <4>1. CASE k \in c.add
        BY <1>1, <2>6, <4>1
      <4>2. CASE k \notin c.add
        <5>1. k \in added \ asked /\ k \in Creds
          BY <1>2, <2>12, <3>1, <4>2 DEF Acks, Factors, TypeOK
        <5>2. PICK e \in Emails : Has(mem[e], k)
          BY <2>1, <5>1 DEF Kept, Acknowledged
        <5> QED
          BY <1>5, <2>5, <5>1, <5>2
      <4> QED
        BY <4>1, <4>2
    <3>2. ASSUME NEW k \in deleted', NEW e \in Emails PROVE ~Has(mem'[e], k)
      <4>1. CASE k \in c.drop
        <5>1. k \in Creds
          BY <1>1, <4>1 DEF Change
        <5>2. Has(mem[e], k) => e = c.email
          BY <1>1, <2>1, <2>7, <4>1, <5>1 DEF Kept, Apart
        <5> QED
          BY <1>1, <2>4, <2>7, <4>1, <5>1, <5>2 DEF Shape
      <4>2. CASE k \in deleted
        <5>1. k \in Creds /\ k \in asked
          BY <4>2 DEF Acks, Factors, TypeOK
        <5>2. k \notin c.add
          BY <2>1, <2>3, <5>1 DEF Registering
        <5> QED
          BY <2>1, <2>9, <4>2, <5>1, <5>2 DEF Kept, Acknowledged
      <4> QED
        BY <2>12, <3>2, <4>1, <4>2
    <3>3. Acknowledged(mem)'
      BY <3>1, <3>2 DEF Acknowledged, Has
    <3>4. Kept(mem)' /\ disk' = mem'
      BY <1>2, <2>8, <2>10, <2>12, <3>3 DEF Kept
    <3>5. Kept(disk)'
      BY <3>4 DEF Kept, Acknowledged, Apart, Without
    <3> QED
      BY <2>2, <3>4, <3>5 DEF Smooth
  <2>13. CASE UNCHANGED <<disk, added, deleted>>
    <3>1. ASSUME NEW k \in added \ asked PROVE \E e \in Emails : Has(mem'[e], k)
      <4>1. k \in Creds
        BY <3>1 DEF Acks, Factors, TypeOK
      <4>2. PICK e \in Emails : Has(mem[e], k)
        BY <2>1, <3>1 DEF Kept, Acknowledged
      <4> QED
        BY <1>5, <2>5, <3>1, <4>1, <4>2
    <3>2. ASSUME NEW k \in deleted, NEW e \in Emails PROVE ~Has(mem'[e], k)
      <4>1. k \in Creds /\ k \in asked
        BY <3>2 DEF Acks, Factors, TypeOK
      <4>2. k \notin c.add
        BY <2>1, <2>3, <4>1 DEF Registering
      <4> QED
        BY <2>1, <2>9, <3>2, <4>1, <4>2 DEF Kept, Acknowledged
    <3>3. Acknowledged(mem)'
      BY <1>2, <2>13, <3>1, <3>2 DEF Acknowledged, Has
    <3>4. Kept(mem)'
      BY <2>8, <2>10, <3>3 DEF Kept
    <3>5. Without(disk)'
      BY <2>10, <2>11 DEF Without
    <3>6. Kept(disk)'
      BY <1>2, <2>1, <2>13, <3>5 DEF Kept, Acknowledged, Apart, Has
    <3> QED
      BY <2>2, <3>4, <3>6 DEF Smooth
  <2> QED
    BY <2>12, <2>13
<1> QED
  BY <1>6, <1>8 DEF Acks

\* Steps that only sign in, sign out, or let a registration go.
LEMMA QuietAcks ==
  ASSUME Acks, Factors', UNCHANGED <<mem, disk, change, added, asked, deleted, stale>>,
         handles' \subseteq handles, Offered'
  PROVE  Acks'
<1>1. Shapes' /\ (Registering => Registering')
  BY DEF Acks, Shapes, Shape, Registering, Adds
<1>2. (Kept(mem) => Kept(mem)') /\ (Kept(disk) => Kept(disk)')
  BY DEF Kept, Acknowledged, Apart, Without, Has, Adds
<1> QED
  BY <1>1, <1>2 DEF Acks, Smooth

LEMMA StepAcks == Acks /\ [Next]_vars => Acks'
<1> SUFFICES ASSUME Acks, [Next]_vars PROVE Acks'
  OBVIOUS
<1>0. Factors /\ Factors'
  BY StepKeepsFactors DEF Acks
<1>00. login' = login /\ UNCHANGED <<deleted, stale>> => Offered'
  BY DEF Acks, Offered
<1>1. ASSUME NEW e \in Emails, NEW k \in Creds, RegStart(e, k) PROVE Acks'
  <2>1. /\ UNCHANGED <<mem, disk, login, change, added, asked, deleted, stale>>
        /\ k \notin Used
    BY <1>1 DEF RegStart
  <2>2. PICK h : handles' = handles \cup {h} /\ h.cred = k
    <3> DEFINE i == [cred |-> k, email |-> e, add |-> ~IsEmpty]
    <3>1. handles' = handles \cup {i}
      BY <1>1 DEF RegStart
    <3>2. i.cred = k
      BY Zenon
    <3> HIDE DEF i
    <3> QED
      BY <3>1, <3>2
  <2>3. /\ k \notin asked /\ \A i \in handles : i.cred # k
        /\ \A t \in Threads : ~Adds(t, k)
    BY <2>1 DEF Used, Adds
  <2>4. \A f \in Emails : ~Has(mem[f], k) /\ ~Has(disk[f], k)
    BY <2>1 DEF Used, Has
  <2>5. Shapes' /\ Offered'
    BY <1>00, <2>1 DEF Acks, Shapes, Shape
  <2>6. Registering => Registering'
    BY <2>1, <2>2, <2>3 DEF Registering, Adds
  <2>7. (Kept(mem) => Kept(mem)') /\ (Kept(disk) => Kept(disk)')
    BY <2>1, <2>2, <2>4 DEF Kept, Acknowledged, Apart, Without, Has, Adds
  <2> QED
    BY <1>0, <2>1, <2>5, <2>6, <2>7 DEF Acks, Smooth
<1>2. ASSUME NEW t \in Threads, NEW h \in handles, RegFinish(t, h) PROVE Acks'
  <2>1. h \in Handle /\ handles' = handles \ {h} /\ asked' = asked
    BY <1>0, <1>2 DEF Factors, TypeOK, RegFinish
  <2>2. CASE h.add
    <3> DEFINE c == [email |-> h.email, read |-> mem[h.email], add |-> {h.cred}, drop |-> {},
                     write |-> [mem[h.email] EXCEPT !.passkeys = @ \cup {h.cred}]]
    <3>1. mem[h.email] # None /\ Decide(t, c)
      BY <1>2, <2>2 DEF RegFinish
    <3>2. mem[h.email] \in User
      BY <1>0, <2>1, <3>1 DEF Factors, TypeOK, Handle
    <3>3. c \in Change /\ Shape(c) /\ c.add = {h.cred}
      BY <2>1, <3>1, <3>2 DEF Change, User, Handle, Shape
    <3> HIDE DEF c
    <3> QED
      BY <1>0, <2>1, <3>1, <3>3, DecideAcks
  <2>3. CASE ~h.add
    <3> DEFINE c == [email |-> h.email, read |-> None, add |-> {h.cred}, drop |-> {},
                     write |-> [password |-> FALSE, passkeys |-> {h.cred}]]
    <3>1. Decide(t, c)
      BY <1>2, <2>3 DEF RegFinish
    <3>2. c \in Change /\ Shape(c) /\ c.add = {h.cred}
      BY <2>1 DEF Change, User, Handle, Shape
    <3> HIDE DEF c
    <3> QED
      BY <1>0, <2>1, <3>1, <3>2, DecideAcks
  <2> QED
    BY <2>2, <2>3
<1>3. ASSUME NEW h \in handles, RegLapses(h) PROVE Acks'
  BY <1>0, <1>00, <1>3, QuietAcks DEF RegLapses
<1>4. ASSUME NEW t \in Threads, NEW e \in Emails, PwRegister(t, e) PROVE Acks'
  <2>1. handles' = handles /\ asked' = asked
    BY <1>4 DEF PwRegister
  <2>2. CASE IsEmpty
    <3> DEFINE c == [email |-> e, read |-> None, add |-> {}, drop |-> {},
                     write |-> [password |-> TRUE, passkeys |-> {}]]
    <3>1. Decide(t, c)
      BY <1>4, <2>2 DEF PwRegister
    <3>2. c \in Change /\ Shape(c) /\ c.add = {}
      BY DEF Change, User, Shape
    <3> HIDE DEF c
    <3> QED
      BY <1>0, <2>1, <3>1, <3>2, DecideAcks
  <2>3. CASE ~IsEmpty
    <3> DEFINE c == [email |-> e, read |-> mem[e], add |-> {}, drop |-> {},
                     write |-> [mem[e] EXCEPT !.password = TRUE]]
    <3>1. mem[e] # None /\ Decide(t, c)
      BY <1>4, <2>3 DEF PwRegister
    <3>2. mem[e] \in User
      BY <1>0, <3>1 DEF Factors, TypeOK
    <3>3. c \in Change /\ Shape(c) /\ c.add = {}
      BY <3>1, <3>2 DEF Change, User, Shape
    <3> HIDE DEF c
    <3> QED
      BY <1>0, <2>1, <3>1, <3>3, DecideAcks
  <2> QED
    BY <2>2, <2>3
<1>5. ASSUME NEW t \in Threads, NEW e \in Emails, NEW k \in Creds, DeletePasskey(t, e, k) PROVE Acks'
  <2> DEFINE c == [email |-> e, read |-> mem[e], add |-> {}, drop |-> {k},
                   write |-> [mem[e] EXCEPT !.passkeys = @ \ {k}]]
  <2>1. Has(mem[e], k) /\ Decide(t, c) /\ handles' = handles /\ asked' = asked \cup {k}
    BY <1>5 DEF DeletePasskey, Has
  <2>2. mem[e] \in User
    BY <1>0, <2>1 DEF Factors, TypeOK, Has
  <2>3. c \in Change /\ Shape(c) /\ c.add = {}
    BY <2>1, <2>2 DEF Change, User, Shape, Has
  <2> HIDE DEF c
  <2> QED
    BY <1>0, <2>1, <2>3, DecideAcks
<1>6. ASSUME NEW t \in Threads, Put(t) PROVE Acks'
  BY <1>0, <1>6, InsertAcks DEF Put, Insert
<1>7. ASSUME NEW t \in Threads, PutFails(t) PROVE Acks'
  BY <1>0, <1>7, InsertAcks DEF PutFails, Insert
<1>8. ASSUME NEW e \in Emails, PwLogin(e) \/ Logout(e) PROVE Acks'
  BY <1>0, <1>00, <1>8, QuietAcks DEF PwLogin, SignedIn, Logout
<1>9. ASSUME NEW b \in Browsers, NEW e \in Emails \cup {None}, PkLoginStart(b, e) PROVE Acks'
  <2>1. UNCHANGED <<mem, disk, handles, change, added, asked, deleted, stale>>
    BY <1>9 DEF PkLoginStart
  <2>2. PICK l : /\ login' = [login EXCEPT ![b] = l] /\ l.gone \subseteq deleted
                 /\ ~stale => l.creds \cap l.gone = {}
    <3>1. CASE e # None /\ mem[e] # None /\ mem[e].passkeys # {}
      <4> DEFINE l == [email |-> e, creds |-> mem[e].passkeys, gone |-> deleted \cap mem[e].passkeys]
      <4>1. ~stale => deleted \cap mem[e].passkeys = {}
        BY <3>1 DEF Acks, Smooth, Kept, Acknowledged, Has
      <4>2. login' = [login EXCEPT ![b] = l]
        BY <1>9, <3>1 DEF PkLoginStart
      <4>3. l.gone \subseteq deleted /\ (~stale => l.creds \cap l.gone = {})
        BY <4>1
      <4> HIDE DEF l
      <4> QED
        BY <4>2, <4>3
    <3>2. CASE ~(e # None /\ mem[e] # None /\ mem[e].passkeys # {})
      <4> DEFINE l == [email |-> None, creds |-> {}, gone |-> deleted]
      <4>1. login' = [login EXCEPT ![b] = l]
        BY <1>9, <3>2 DEF PkLoginStart
      <4>2. l.gone \subseteq deleted /\ l.creds \cap l.gone = {}
        OBVIOUS
      <4> HIDE DEF l
      <4> QED
        BY <4>1, <4>2
    <3> QED
      BY <3>1, <3>2
  <2>3. Offered'
    BY <1>0, <2>1, <2>2 DEF Acks, Offered, Factors, TypeOK
  <2> QED
    BY <1>0, <2>1, <2>3, QuietAcks
<1>10. ASSUME NEW b \in Browsers, NEW k \in Creds, PkLoginFinish(b, k) \/ PkLoginFails(b) PROVE Acks'
  <2>1. /\ UNCHANGED <<mem, disk, handles, change, added, asked, deleted, stale>>
        /\ login' = [login EXCEPT ![b] = None]
    BY <1>10 DEF PkLoginFinish, PkLoginFails, SignedIn
  <2>2. Offered'
    BY <1>0, <2>1 DEF Acks, Offered, Factors, TypeOK
  <2> QED
    BY <1>0, <2>1, <2>2, QuietAcks
<1>11. ASSUME NEW b \in Browsers, PkLoginFails(b) PROVE Acks'
  <2>1. /\ UNCHANGED <<mem, disk, handles, change, added, asked, deleted, stale>>
        /\ login' = [login EXCEPT ![b] = None]
    BY <1>11 DEF PkLoginFails
  <2>2. Offered'
    BY <1>0, <2>1 DEF Acks, Offered, Factors, TypeOK
  <2> QED
    BY <1>0, <2>1, <2>2, QuietAcks
<1>12. CASE Restart
  <2>1. /\ mem' = disk /\ handles' = {} /\ UNCHANGED <<disk, added, asked, deleted, stale>>
        /\ \A t \in Threads : change'[t] = None
        /\ \A b \in Browsers : login'[b] = None
    BY <1>12 DEF Restart
  <2>2. Shapes' /\ Offered' /\ Registering'
    BY <2>1 DEF Shapes, Offered, Registering, Adds
  <2>3. Kept(disk) => Kept(mem)' /\ Kept(disk)'
    BY <2>1 DEF Kept, Acknowledged, Apart, Without, Has, Adds
  <2> QED
    BY <1>0, <2>1, <2>2, <2>3 DEF Acks, Smooth
<1>13. CASE UNCHANGED vars
  BY <1>0, <1>00, <1>13, QuietAcks DEF vars
<1> QED
  BY <1>1, <1>2, <1>3, <1>4, <1>5, <1>6, <1>7, <1>8, <1>9, <1>10, <1>11, <1>12, <1>13 DEF Next

LEMMA AcksInvariant == Spec => []Acks
  BY InitAcks, StepAcks, PTL DEF Spec

\* Changes that do not overlap are kept as acknowledged, in memory and in the file,
\* through any number of failed writes and restarts.
THEOREM ChangesAreKept == Spec => []AcknowledgedIsKept
<1>1. Acks => AcknowledgedIsKept
  <2> SUFFICES ASSUME Acks, ~stale PROVE Acknowledged(mem) /\ Acknowledged(disk) => AcknowledgedIsKept
    BY DEF Acks, Smooth, Kept, AcknowledgedIsKept
  <2> QED
    BY DEF Acknowledged, AcknowledgedIsKept, Has
<1> QED
  BY AcksInvariant, <1>1, PTL

\* No ceremony begun after the deletion of a passkey was acknowledged signs in with it.
THEOREM DeletedCannotSignIn == Spec => DeletedIsRefused
<1>1. Acks => GoneIsRefused
  <2> SUFFICES ASSUME Acks, NEW b \in Browsers, NEW c \in Creds, PkLoginFinish(b, c), ~stale
               PROVE  c \notin login[b].gone
    BY DEF GoneIsRefused
  <2>1. Offered /\ Acknowledged(mem) /\ login[b] # None
    BY DEF Acks, Smooth, Kept, PkLoginFinish
  <2>2. CASE login[b].email # None
    BY <2>1, <2>2 DEF Offered, PkLoginFinish
  <2>3. CASE login[b].email = None
    BY <2>1, <2>3 DEF Offered, Acknowledged, Has, PkLoginFinish
  <2> QED
    BY <2>2, <2>3
<1> QED
  BY AcksInvariant, <1>1, PTL DEF DeletedIsRefused
=============================================================================
