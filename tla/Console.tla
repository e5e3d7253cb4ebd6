------------------------------- MODULE Console -------------------------------
(***************************************************************************)
(* The tabs of one browser and the shared worker that holds the vault key: *)
(* ui/src/lib/keyholder.ts, keyholder.worker.ts, lib/keyops.ts, main.ts    *)
(* and what gate.ts, access.ts and vault.ts do with the key. Every await   *)
(* of a sign-in, a sign-out or a save is a point where other tabs, the     *)
(* worker, the server and the clock come in. A port delivers in order. The *)
(* tabs share the cookie, and the account remembered in localStorage; they *)
(* do not share the generation counter of sign-outs or the pending flag.   *)
(* There is one account. The in-page fallback without a worker is left out.*)
(***************************************************************************)
EXTENDS Integers, Sequences, FiniteSets

CONSTANTS
  Tabs,
  Ops,        \* slots for async functions under way
  None,
  MaxBegun,   \* bound: async functions begun, reloads included
  MaxLag,     \* bound: messages a tab has not received when the worker sends one more
  MaxExpiries \* bound: times the twelve hours of a key end

ASSUME ConsoleConstants == MaxBegun \in Nat /\ MaxLag \in Nat /\ MaxExpiries \in Nat

VARIABLES
  key,         \* worker: the key it holds
  due,         \* worker: the key's deadline is over, its timer has not run
  minted,      \* worker: keys created so far
  expiries,    \* worker: deadlines passed so far
  toWorker,    \* tab: requests posted and not handled
  fromWorker,  \* tab: replies and state events not received
  sess,        \* the cookie names a live console session
  wraps,       \* server: the keys the account's wraps open to
  hasPassword, \* server: one of them is for a password
  sealed,      \* server: the keys its entries are sealed with
  remember,    \* localStorage: how the last account signs in, or None
  view,        \* tab: keyholder's `unlocked`
  shown,       \* tab: the vault screen holds plaintext
  signedIn,    \* tab: state.session is set
  register,    \* tab: state.method is "register"
  pending,     \* tab: state.pending
  gen,         \* tab: the sign-out generation
  store,       \* tab: the generation of the vault screen
  op,          \* slot: the async function in it: its tab and kind, what it awaits,
               \* the generations and the key it holds, the answer it got
  begun,
  raced,       \* history: a key was created beside an account or a registration
  missed       \* history: tabs that saw the deadline before the worker told them

worker  == <<key, due, minted, expiries>>
ports   == <<toWorker, fromWorker>>
server  == <<sess, wraps, hasPassword, sealed>>
screens == <<shown, signedIn, register, pending, gen, store, remember>>
vars == <<worker, ports, server, screens, view, op, begun, raced, missed>>

Registers == {"pwRegister", "pkRegister"}
SignIns   == Registers \cup {"login"}
Kinds     == SignIns \cup {"save", "load", "signOut"}
\* The places where it awaits the server, and those where it awaits the worker.
Requests  == {"start", "post", "session", "reject", "get", "put", "logout"}
Replies   == {"create", "wrap", "unlock", "lock", "wipe", "seal"}
Answers   == {"yes", "no", "lost"}
UnderWay  == [tab : Tabs, kind : Kinds, at : Requests \cup Replies, gen : Nat, store : Nat,
              key : Nat \cup {None}, answer : Answers \cup {None}, add : BOOLEAN]

ASSUME NoneIsNothing == None \notin Nat \cup Ops \cup Answers \cup UnderWay

Of(t, kinds) == {o \in Ops : op[o] # None /\ op[o].tab = t /\ op[o].kind \in kinds}
Registering  == UNION {Of(t, Registers) : t \in Tabs}

\* render: the gate is on the screen. (isUnlocked reads the clock: see Glance.)
Looked(t) == due => ~view[t]
Gate(t)   == Looked(t) /\ (~signedIn[t] \/ ~view[t])

\* No vault yet, and every gate has asked how to sign in; or a vault with key 1
\* and a password, with nobody or every tab signed in to it and unlocked.
Init ==
  \E vault, in \in BOOLEAN :
    /\ in => vault
    /\ key = (IF in THEN 1 ELSE None) /\ due = FALSE /\ expiries = 0
    /\ minted = (IF vault THEN 1 ELSE 0)
    /\ wraps = (IF vault THEN {1} ELSE {}) /\ sealed = wraps /\ hasPassword = vault
    /\ sess = in /\ remember = (IF in THEN "password" ELSE None)
    /\ view = [t \in Tabs |-> in] /\ shown = view /\ signedIn = view
    /\ register = [t \in Tabs |-> ~vault] /\ pending = [t \in Tabs |-> FALSE]
    /\ toWorker = [t \in Tabs |-> <<>>] /\ fromWorker = toWorker
    /\ gen = [t \in Tabs |-> 0] /\ store = gen
    /\ op = [o \in Ops |-> None] /\ begun = 0
    /\ raced = FALSE /\ missed = {}

-----------------------------------------------------------------------------
(* The worker.                                                             *)

Msg(req, o, k) == [req |-> req, by |-> o, key |-> k]
Lock == Msg("lock", None, None)
State(k) == [by |-> None, key |-> k, opened |-> FALSE]

\* getDek drops a key whose deadline is over.
Held == IF due THEN None ELSE key

Sends == \A t \in Tabs : Len(fromWorker[t]) < MaxLag

\* Faulty variant: sealing or wrapping without a key creates one.
KeyAfterLazy(m) ==
  CASE m.req = "lock"   -> None
    [] m.req = "unlock" -> m.key
    [] m.req = "create" \/ (m.req \in {"seal", "wrap"} /\ Held = None) -> minted + 1
    [] OTHER            -> Held

\* keyops.handle: create and unlock replace the key, whoever holds it.
KeyAfter(m) ==
  CASE m.req = "lock"   -> None
    [] m.req = "create" -> minted + 1
    [] m.req = "unlock" -> m.key
    [] OTHER            -> Held

\* The worker handles a request: the reply to the tab, the state to the others.
\* (A lock also tells the sender its state first; the reply says the same.)
Handle(t) ==
  /\ toWorker[t] # <<>> /\ Sends
  /\ LET m == Head(toWorker[t])
         k == KeyAfter(m)
     IN /\ key' = k /\ due' = FALSE
        /\ minted' = IF m.req = "create" THEN minted + 1 ELSE minted
        /\ raced' = (raced \/ (m.req = "create" /\ (wraps # {} \/ Registering # {m.by})))
        /\ fromWorker' = [u \in Tabs |->
             IF u = t THEN Append(fromWorker[u],
                                  [by |-> m.by, key |-> k, opened |-> m.req = "open" /\ k # None])
             ELSE Append(fromWorker[u], State(k))]
  /\ toWorker' = [toWorker EXCEPT ![t] = Tail(@)]
  /\ UNCHANGED <<expiries, server, screens, view, op, begun, missed>>

Deadline ==
  /\ expiries < MaxExpiries /\ key # None /\ ~due
  /\ due' = TRUE /\ expiries' = expiries + 1
  /\ UNCHANGED <<key, minted, ports, server, screens, view, op, begun, raced, missed>>

\* Faulty variant: the timer drops the key and tells nobody.
ExpireQuietly ==
  /\ due /\ Sends
  /\ key' = None /\ due' = FALSE
  /\ UNCHANGED <<minted, expiries, ports, server, screens, view, op, begun, raced, missed>>

\* The worker's timer runs: onDekClear tells every tab.
Expire ==
  /\ due /\ Sends
  /\ key' = None /\ due' = FALSE
  /\ fromWorker' = [u \in Tabs |-> Append(fromWorker[u], State(None))]
  /\ UNCHANGED <<minted, expiries, toWorker, server, screens, view, op, begun, raced, missed>>

-----------------------------------------------------------------------------
(* What a tab hears.                                                       *)

\* adopt: listeners hear of a change only; the vault screen's drops its
\* plaintext. A reply of openEntries fills the screen when it is still there.
Adopt(t, m) ==
  /\ fromWorker' = [fromWorker EXCEPT ![t] = Tail(@)]
  /\ view' = [view EXCEPT ![t] = m.key # None]
  /\ missed' = IF view[t] /\ m.key = None THEN missed \ {t} ELSE missed

\* Faulty variant: the vault screen hears of keys that appear only.
ShownForever(t, m) == IF m.opened THEN signedIn[t] ELSE shown[t]

Shown(t, m) ==
  IF m.opened THEN signedIn[t] ELSE shown[t] /\ ~(view[t] /\ m.key = None)

\* A state event, or a reply nobody awaits.
Hear(t) ==
  /\ fromWorker[t] # <<>> /\ Head(fromWorker[t]).by = None
  /\ Adopt(t, Head(fromWorker[t]))
  /\ shown' = [shown EXCEPT ![t] = Shown(t, Head(fromWorker[t]))]
  /\ UNCHANGED <<worker, toWorker, server, signedIn, register, pending, gen, store, remember, op, begun, raced>>

\* isUnlocked compares the clock itself and then tells no listener.
Glance(t) ==
  /\ due /\ view[t]
  /\ view' = [view EXCEPT ![t] = FALSE]
  /\ missed' = missed \cup {t}
  /\ UNCHANGED <<worker, ports, server, screens, op, begun, raced>>

\* openAll of the vault screen.
OpenAll(t) ==
  /\ signedIn[t] /\ Looked(t) /\ view[t] /\ ~shown[t]
  /\ begun < MaxBegun /\ begun' = begun + 1
  /\ toWorker' = [toWorker EXCEPT ![t] = Append(@, Msg("open", None, None))]
  /\ UNCHANGED <<worker, fromWorker, server, screens, view, op, raced, missed>>

-----------------------------------------------------------------------------
(* Functions under way.                                                    *)

Begin(o, t, kind, at, g) ==
  /\ op[o] = None /\ begun < MaxBegun /\ begun' = begun + 1
  /\ op' = [op EXCEPT ![o] = [tab |-> t, kind |-> kind, at |-> at, gen |-> g, store |-> store[t],
                             key |-> None, answer |-> None, add |-> FALSE]]

Post(t, m)     == toWorker' = [toWorker EXCEPT ![t] = Append(@, m)]
Go(o, at, k)   == op' = [op EXCEPT ![o].at = at, ![o].key = k, ![o].answer = None]
SignedOut(o)   == op[o].gen # gen[op[o].tab]

\* Faulty variant: a sign-in whose request fails leaves pending set.
FinishStuck(o, flags) ==
  /\ op' = [op EXCEPT ![o] = None]
  /\ pending' = IF op[o].kind \in SignIns /\ ~SignedOut(o) /\ op[o].answer # "lost"
                THEN [flags EXCEPT ![op[o].tab] = FALSE] ELSE flags

\* The end of one; a sign-in clears pending unless the tab signed out.
Finish(o, flags) ==
  /\ op' = [op EXCEPT ![o] = None]
  /\ pending' = IF op[o].kind \in SignIns /\ ~SignedOut(o)
                THEN [flags EXCEPT ![op[o].tab] = FALSE] ELSE flags

\* The server answered what o asked for, or the network failed.
Answered(o, at, answers) == op[o] # None /\ op[o].at = at /\ op[o].answer \in answers

\* The next message to the tab is the reply o awaits at this place.
Replied(o, at) ==
  /\ op[o] # None /\ op[o].at = at
  /\ fromWorker[op[o].tab] # <<>> /\ Head(fromWorker[op[o].tab]).by = o
  /\ LET t == op[o].tab IN
     /\ Adopt(t, Head(fromWorker[t]))
     /\ shown' = [shown EXCEPT ![t] = Shown(t, Head(fromWorker[t]))]
ReplyKey(o) == Head(fromWorker[op[o].tab]).key

-----------------------------------------------------------------------------
(* The gate: gate.ts onContinue and onPasskey.                             *)

\* A cold gate asks how the account signs in, and keeps the answer.
ResolveMethod(t) ==
  /\ Gate(t) /\ ~pending[t] /\ ~signedIn[t] /\ remember = None
  /\ wraps = {} /\ ~register[t]
  /\ register' = [register EXCEPT ![t] = TRUE]
  /\ Post(t, Lock)
  /\ UNCHANGED <<worker, fromWorker, server, shown, signedIn, pending, gen, store, remember,
                 view, op, begun, raced, missed>>

\* A remembered account, or one that is not to register; the key goes first.
BeginLogin(o, t) ==
  /\ wraps # {} /\ (signedIn[t] \/ remember # None \/ ~register[t])
  /\ Begin(o, t, "login", "post", gen[t])

\* The form painted when the method was register: the password needs no
\* account remembered, the passkey only none with a passkey.
BeginRegister(o, t) ==
  /\ ~signedIn[t] /\ register[t]
  /\ \/ remember = None /\ Begin(o, t, "pwRegister", "create", gen[t])
     \/ remember # "passkey" /\ Begin(o, t, "pkRegister", "start", gen[t])

SignIn(o, t) ==
  /\ Gate(t) /\ ~pending[t]
  /\ pending' = [pending EXCEPT ![t] = TRUE]
  /\ BeginLogin(o, t) \/ BeginRegister(o, t)
  /\ toWorker' = [toWorker EXCEPT ![t] =
       @ \o <<Lock>> \o (IF op'[o].at = "create" THEN <<Msg("create", o, None)>> ELSE <<>>)]
  /\ UNCHANGED <<worker, fromWorker, server, shown, signedIn, register, gen, store, remember,
                 view, raced, missed>>

Started(o) ==
  /\ Answered(o, "start", {"yes"})
  /\ Go(o, "create", None)
  /\ Post(op[o].tab, Msg("create", o, None))
  /\ UNCHANGED <<worker, fromWorker, server, screens, view, begun, raced, missed>>

Created(o) ==
  /\ Replied(o, "create")
  /\ Go(o, "wrap", None)
  /\ Post(op[o].tab, Msg("wrap", o, None))
  /\ UNCHANGED <<worker, server, signedIn, register, pending, gen, store, remember, begun, raced>>

\* The key the wrap was made of, or none was held: then the tab locks.
Wrapped(o) ==
  /\ Replied(o, "wrap")
  /\ IF ReplyKey(o) # None
     THEN Go(o, "post", ReplyKey(o)) /\ UNCHANGED toWorker
     ELSE Go(o, "lock", None) /\ Post(op[o].tab, Msg("lock", o, None))
  /\ UNCHANGED <<worker, server, signedIn, register, pending, gen, store, remember, begun, raced>>

Registered(o) ==
  /\ op[o] # None /\ op[o].kind \in Registers /\ Answered(o, "post", {"yes", "no"})
  /\ IF op[o].answer = "no"
     THEN /\ Go(o, "lock", None) /\ Post(op[o].tab, Msg("lock", o, None))
          /\ UNCHANGED pending
     ELSE /\ IF SignedOut(o) THEN Finish(o, pending)
             ELSE Go(o, "session", None) /\ UNCHANGED pending
          /\ UNCHANGED toWorker
  /\ UNCHANGED <<worker, fromWorker, server, shown, signedIn, register, gen, store, remember,
                 view, begun, raced, missed>>

LoggedIn(o) ==
  /\ op[o] # None /\ op[o].kind = "login" /\ Answered(o, "post", {"yes"})
  /\ Go(o, "unlock", None)
  /\ Post(op[o].tab, Msg("unlock", o, op[o].key))
  /\ UNCHANGED <<worker, fromWorker, server, screens, view, begun, raced, missed>>

Unlocked(o) ==
  /\ Replied(o, "unlock")
  /\ IF SignedOut(o) THEN Finish(o, pending)
     ELSE Go(o, "session", None) /\ UNCHANGED pending
  /\ UNCHANGED <<worker, toWorker, server, signedIn, register, gen, store, remember, begun, raced>>

\* A sign-in that is refused, or whose request fails, ends as it is.
GivesUp(o) ==
  /\ op[o] # None
  /\ \/ op[o].kind \in SignIns /\ Answered(o, "start", {"no", "lost"})
     \/ op[o].kind \in Registers /\ Answered(o, "post", {"lost"})
     \/ op[o].kind = "login" /\ Answered(o, "post", {"no", "lost"})
     \/ Answered(o, "session", {"lost"})
     \/ op[o].kind = "save" /\ Answered(o, "get", {"lost"})
     \/ op[o].kind = "save" /\ Answered(o, "put", {"yes", "lost"})
  /\ Finish(o, pending)
  /\ UNCHANGED <<worker, ports, server, shown, signedIn, register, gen, store, remember,
                 view, begun, raced, missed>>

\* loadSession and the rest of finishUnlock.
SessionLoaded(o) ==
  /\ Answered(o, "session", {"yes"})
  /\ LET t == op[o].tab
         s == [signedIn EXCEPT ![t] = @ \/ ~SignedOut(o)]
     IN /\ Looked(t)
        /\ signedIn' = s
        /\ IF op[o].kind \in SignIns /\ ~(s[t] /\ view[t])
           THEN Go(o, "reject", None) /\ UNCHANGED <<pending, remember>>
           ELSE /\ Finish(o, pending)
                /\ IF op[o].kind = "load" THEN UNCHANGED remember
                   ELSE \E f \in {"passkey", "password"} :
                          /\ f = "password" => hasPassword
                          /\ remember' = f
  /\ UNCHANGED <<worker, ports, server, shown, register, gen, store, view, begun, raced, missed>>

\* signOutLocal, which leaves the vault screen; the caller locks.
SignOutLocal(t) ==
  /\ remember' = None
  /\ signedIn' = [signedIn EXCEPT ![t] = FALSE]
  /\ register' = [register EXCEPT ![t] = FALSE]
  /\ shown' = [shown EXCEPT ![t] = FALSE]
  /\ store' = [store EXCEPT ![t] = @ + 1]

\* loadSession on 401: a tab that was signed in is signed out and locked.
SessionGone(o) ==
  /\ Answered(o, "session", {"no"})
  /\ LET t == op[o].tab IN
     IF signedIn[t] /\ ~SignedOut(o)
     THEN /\ SignOutLocal(t) /\ pending' = [pending EXCEPT ![t] = FALSE]
          /\ Go(o, "wipe", None) /\ Post(t, Msg("lock", o, None))
     ELSE /\ IF op[o].kind = "load" THEN Finish(o, pending)
             ELSE Go(o, "reject", None) /\ UNCHANGED pending
          /\ UNCHANGED <<toWorker, remember, signedIn, register, shown, store>>
  /\ UNCHANGED <<worker, fromWorker, server, gen, view, begun, raced, missed>>

Wiped(o) ==
  /\ Replied(o, "wipe")
  /\ IF op[o].kind = "load" THEN Finish(o, pending)
     ELSE Go(o, "reject", None) /\ UNCHANGED pending
  /\ UNCHANGED <<worker, toWorker, server, signedIn, register, gen, store, remember, begun, raced>>

\* rejectUnlockedSession, after its POST to logout.
Rejected(o) ==
  /\ Answered(o, "reject", {"yes", "lost"})
  /\ Post(op[o].tab, Lock)
  /\ signedIn' = [signedIn EXCEPT ![op[o].tab] = FALSE]
  /\ Finish(o, pending)
  /\ UNCHANGED <<worker, fromWorker, server, shown, register, gen, store, remember, view, begun, raced, missed>>

-----------------------------------------------------------------------------
(* Sign-out and save.                                                      *)

BeginSignOut(o, t) ==
  /\ signedIn[t]
  /\ gen' = [gen EXCEPT ![t] = @ + 1]
  /\ pending' = [pending EXCEPT ![t] = TRUE]
  /\ Begin(o, t, "signOut", "logout", gen[t] + 1)
  /\ UNCHANGED <<worker, ports, server, shown, signedIn, register, store, remember, view, raced, missed>>

\* Whatever became of the POST, the tab is signed out and locks.
LoggedOut(o) ==
  /\ Answered(o, "logout", {"yes", "lost"})
  /\ SignOutLocal(op[o].tab)
  /\ pending' = [pending EXCEPT ![op[o].tab] = FALSE]
  /\ Go(o, "lock", None) /\ Post(op[o].tab, Msg("lock", o, None))
  /\ UNCHANGED <<worker, fromWorker, server, gen, view, begun, raced, missed>>

\* The lock of a sign-out or of a failed registration is done.
Locked(o) ==
  /\ Replied(o, "lock")
  /\ Finish(o, pending)
  /\ UNCHANGED <<worker, toWorker, server, signedIn, register, gen, store, remember, begun, raced>>

\* saveWizard seals the entry first.
BeginSave(o, t) ==
  /\ signedIn[t] /\ Looked(t) /\ view[t] /\ Of(t, {"save"}) = {}
  /\ Begin(o, t, "save", "seal", gen[t])
  /\ Post(t, Msg("seal", o, None))
  /\ UNCHANGED <<worker, fromWorker, server, screens, view, raced, missed>>

Sealed(o) ==
  /\ Replied(o, "seal")
  /\ IF ReplyKey(o) = None THEN Finish(o, pending)
     ELSE Go(o, "get", ReplyKey(o)) /\ UNCHANGED pending
  /\ UNCHANGED <<worker, toWorker, server, signedIn, register, gen, store, remember, begun, raced>>

Live(o) == ~SignedOut(o) /\ op[o].store = store[op[o].tab]

\* It puts only where it began, and signs out when it is denied there.
Saves(o) ==
  /\ Answered(o, "get", {"yes", "no"}) \/ Answered(o, "put", {"no"})
  /\ LET t == op[o].tab IN
     CASE ~Live(o) ->
            Finish(o, pending) /\ UNCHANGED gen
       [] Live(o) /\ op[o].answer = "yes" ->
            Go(o, "put", op[o].key) /\ UNCHANGED <<pending, gen>>
       [] OTHER ->
            /\ gen' = [gen EXCEPT ![t] = @ + 1]
            /\ pending' = [pending EXCEPT ![t] = TRUE]
            /\ op' = [op EXCEPT ![o] = [@ EXCEPT !.kind = "signOut", !.at = "logout",
                                       !.gen = gen[t] + 1, !.key = None, !.answer = None]]
  /\ UNCHANGED <<worker, ports, server, shown, signedIn, register, store, remember,
                 view, begun, raced, missed>>

-----------------------------------------------------------------------------
(* A reload: what the page was doing is gone, what it posted is not.       *)

\* Nobody awaits the replies any more.
Orphan(m)  == [m EXCEPT !.by = None, !.req = IF m.req = "open" THEN "seal" ELSE m.req]
Orphans(q) == [i \in DOMAIN q |-> Orphan(q[i])]

\* A tab that loads again hears the state on connecting.
Reload(o, t) ==
  /\ op[o] = None /\ begun < MaxBegun /\ begun' = begun + 1
  /\ fromWorker' = [fromWorker EXCEPT ![t] = <<State(Held)>>]
  /\ toWorker' = [toWorker EXCEPT ![t] = Orphans(@)]
  /\ op' = [p \in Ops |->
       IF p = o THEN [tab |-> t, kind |-> "load", at |-> "session", gen |-> 0, store |-> 0,
                      key |-> None, answer |-> None, add |-> FALSE]
       ELSE IF op[p] # None /\ op[p].tab = t THEN None ELSE op[p]]
  /\ gen' = [gen EXCEPT ![t] = 0] /\ store' = [store EXCEPT ![t] = 0]
  /\ view' = [view EXCEPT ![t] = FALSE] /\ shown' = [shown EXCEPT ![t] = FALSE]
  /\ signedIn' = [signedIn EXCEPT ![t] = FALSE]
  /\ register' = [register EXCEPT ![t] = FALSE]
  /\ pending' = [pending EXCEPT ![t] = FALSE]
  /\ missed' = missed \ {t}
  /\ UNCHANGED <<worker, server, remember, raced>>

-----------------------------------------------------------------------------
(* The server. An answer may be lost with its cookie, or after it; the     *)
(* answers to a logout and a PUT make no difference to what the tab does.  *)

Asked(o, kinds, at) ==
  op[o] # None /\ op[o].kind \in kinds /\ op[o].at = at /\ op[o].answer = None
Says(o, answers) == \E a \in answers : op' = [op EXCEPT ![o].answer = a]
OnlyServer == UNCHANGED <<worker, ports, screens, view, begun, raced, missed>>

\* The request or its answer is lost.
NetworkFails(o) ==
  /\ op[o] # None /\ op[o].at \in Requests /\ op[o].answer = None
  /\ Says(o, {"lost"})
  /\ UNCHANGED server /\ OnlyServer

\* pk_reg_start: for the first account, or one more for the console's.
ServeStart(o) ==
  /\ Asked(o, Registers, "start")
  /\ op' = [op EXCEPT ![o].answer = IF wraps = {} \/ sess THEN "yes" ELSE "no",
                     ![o].add = wraps # {}]
  /\ UNCHANGED server /\ OnlyServer

Granted(o) ==
  IF op[o].kind = "pkRegister" THEN op[o].add \/ wraps = {}
  ELSE wraps = {} \/ (sess /\ ~hasPassword)

\* pk_reg_finish, pw_register.
ServeRegister(o) ==
  /\ Asked(o, Registers, "post")
  /\ IF Granted(o)
     THEN /\ wraps' = wraps \cup {op[o].key}
          /\ hasPassword' = (hasPassword \/ op[o].kind = "pwRegister")
          /\ \/ Says(o, {"yes"})  /\ sess' = (sess \/ wraps = {})
             \/ Says(o, {"lost"}) /\ sess' \in {sess, sess \/ wraps = {}}
     ELSE Says(o, {"no"}) /\ UNCHANGED <<wraps, sess, hasPassword>>
  /\ UNCHANGED sealed /\ OnlyServer

\* pk_login_finish, pw_login: the key is the one the factor's wrap opens to.
ServeLogin(o) ==
  /\ Asked(o, {"login"}, "post")
  /\ \/ Says(o, {"no"}) /\ UNCHANGED sess
     \/ \E k \in wraps, a \in {"yes", "lost"} :
          /\ op' = [op EXCEPT ![o].answer = a, ![o].key = k]
          /\ sess' \in {TRUE} \cup (IF a = "lost" THEN {sess} ELSE {})
  /\ UNCHANGED <<wraps, hasPassword, sealed>> /\ OnlyServer

ServeSession(o) ==
  /\ Asked(o, SignIns \cup {"load"}, "session")
  /\ Says(o, {IF sess THEN "yes" ELSE "no"})
  /\ UNCHANGED server /\ OnlyServer

ServeLogout(o) ==
  /\ Asked(o, SignIns, "reject") \/ Asked(o, {"signOut"}, "logout")
  /\ sess' = FALSE
  /\ Says(o, {"yes"})
  /\ UNCHANGED <<wraps, hasPassword, sealed>> /\ OnlyServer

ServeVault(o) ==
  /\ Asked(o, {"save"}, "get") \/ Asked(o, {"save"}, "put")
  /\ IF sess /\ op[o].at = "put"
     THEN sealed' = sealed \cup {op[o].key} /\ Says(o, {"yes"})
     ELSE Says(o, {IF sess THEN "yes" ELSE "no"}) /\ UNCHANGED sealed
  /\ UNCHANGED <<sess, wraps, hasPassword>> /\ OnlyServer

\* Revoked from another browser, or over its deadline.
SessionEnds ==
  /\ sess /\ sess' = FALSE
  /\ UNCHANGED <<wraps, hasPassword, sealed, op>> /\ OnlyServer

-----------------------------------------------------------------------------

Next ==
  \/ Deadline \/ Expire \/ SessionEnds
  \/ \E t \in Tabs : Handle(t) \/ Hear(t) \/ Glance(t) \/ OpenAll(t) \/ ResolveMethod(t)
  \/ \E o \in Ops, t \in Tabs :
       SignIn(o, t) \/ BeginSignOut(o, t) \/ BeginSave(o, t) \/ Reload(o, t)
  \/ \E o \in Ops :
       \/ Started(o) \/ Created(o) \/ Wrapped(o) \/ Registered(o)
       \/ LoggedIn(o) \/ Unlocked(o) \/ SessionLoaded(o) \/ SessionGone(o) \/ Wiped(o)
       \/ Rejected(o) \/ LoggedOut(o) \/ Locked(o) \/ Sealed(o) \/ Saves(o) \/ GivesUp(o)
       \/ NetworkFails(o) \/ ServeStart(o) \/ ServeRegister(o) \/ ServeLogin(o)
       \/ ServeSession(o) \/ ServeLogout(o) \/ ServeVault(o)

Spec == Init /\ [][Next]_vars

-----------------------------------------------------------------------------

\* A tab that has heard all there is knows whether the key is held: the
\* replies and events carry the state, whoever changed it, the timer included.
ViewsSettle ==
  \A t \in Tabs : fromWorker[t] = <<>> /\ ~due => view[t] = (key # None)

\* pending never outlives what it stands for: no tab waits for ever with its
\* buttons off, whatever signs out, locks or fails meanwhile.
PendingIsBusy ==
  \A t \in Tabs : pending[t] => Of(t, SignIns \cup {"signOut"}) # {}

\* All wraps open to one key and all entries are sealed with it, unless a key
\* was created beside an account or another registration.
OneVaultKey == ~raced => Cardinality(wraps \cup sealed) <= 1

\* What create() says of itself: no key is minted for a vault that has one.
VaultHasOneKey == Cardinality(wraps \cup sealed) <= 1

\* A tab that has heard the key is gone shows no plaintext, unless it saw the
\* deadline pass before the worker told it.
PlaintextIsDropped ==
  \A t \in Tabs : shown[t] /\ ~view[t] => t \in missed
=============================================================================
