---------------------------- MODULE Console_proofs ----------------------------
(***************************************************************************)
(* That the tabs of a browser learn whether the key is held, drop their    *)
(* plaintext with it, wait for nothing that is not under way, and make one *)
(* key, for any number of tabs, of functions under way and of messages.    *)
(***************************************************************************)
EXTENDS Console, SequenceTheorems, FiniteSetTheorems, TLAPS

Keys    == Nat \cup {None}
Message == [req : {"lock", "create", "unlock", "seal", "wrap", "open"}, by : Ops \cup {None}, key : Keys]
Reply   == [by : Ops \cup {None}, key : Keys, opened : BOOLEAN]

ConsoleTypeOK ==
  /\ key \in Keys /\ due \in BOOLEAN /\ minted \in Nat /\ expiries \in Nat
  /\ toWorker \in [Tabs -> Seq(Message)] /\ fromWorker \in [Tabs -> Seq(Reply)]
  /\ sess \in BOOLEAN /\ wraps \subseteq Keys /\ hasPassword \in BOOLEAN /\ sealed \subseteq Keys
  /\ remember \in {None, "passkey", "password"}
  /\ view \in [Tabs -> BOOLEAN] /\ shown \in [Tabs -> BOOLEAN]
  /\ signedIn \in [Tabs -> BOOLEAN] /\ register \in [Tabs -> BOOLEAN]
  /\ pending \in [Tabs -> BOOLEAN]
  /\ gen \in [Tabs -> Nat] /\ store \in [Tabs -> Nat]
  /\ op \in [Ops -> UnderWay \cup {None}]
  /\ begun \in Nat /\ raced \in BOOLEAN /\ missed \subseteq Tabs

(***************************************************************************)
(* What the tabs know                                                      *)
(***************************************************************************)

\* What a tab will believe once it has heard all that is on its way to it.
Heard(t) == IF fromWorker[t] = << >> THEN view[t]
            ELSE fromWorker[t][Len(fromWorker[t])].key # None
AllHear == due \/ \A t \in Tabs : Heard(t) = (key # None)

\* Only a key that is held opens an entry.
OpenedByKey == \A t \in Tabs : \A i \in DOMAIN fromWorker[t] :
  fromWorker[t][i].opened => fromWorker[t][i].key # None

\* What a pending flag stands for: a sign-in of the tab that it has not signed
\* out of since, or its sign-out.
Awaits(t, o) ==
  /\ op[o] # None /\ op[o].tab = t
  /\ \/ op[o].kind \in SignIns /\ op[o].gen = gen[t]
     \/ op[o].kind = "signOut" /\ op[o].at = "logout"
PendingHasCause == \A t \in Tabs : pending[t] => \E o \in Ops : Awaits(t, o)

TabsInv == ConsoleTypeOK /\ AllHear /\ OpenedByKey /\ PlaintextIsDropped /\ PendingHasCause

(***************************************************************************)
(* What the functions under way ask of the worker                          *)
(***************************************************************************)

\* A request or a reply that names a function is for a place where that function
\* awaits the worker, and it is its only one.
Names(q, o)   == \E m \in Range(q) : m.by = o
Once(q, o)    == \A i, j \in DOMAIN q : q[i].by = o /\ q[j].by = o => i = j
Expects(o, t) == op[o] # None /\ op[o].tab = t /\ op[o].at \in Replies
ByFunction ==
  \A t \in Tabs, o \in Ops :
    /\ \A m \in Range(toWorker[t]) : m.by = o =>
         Expects(o, t) /\ (op[o].at = "create" => m.req = "create")
    /\ Names(fromWorker[t], o) => Expects(o, t) /\ ~Names(toWorker[t], o)
    /\ Once(toWorker[t], o) /\ Once(fromWorker[t], o)

\* Where a function of each kind can be.
Placed(o) ==
  op[o] # None =>
    /\ op[o].kind \in Registers =>
         op[o].at \in {"start", "create", "wrap", "post", "lock", "session", "reject", "wipe"}
    /\ op[o].kind = "login"     => op[o].at \in {"post", "unlock", "session", "reject", "wipe"}
    /\ op[o].kind = "save"      => op[o].at \in {"seal", "get", "put"}
    /\ op[o].kind = "load"      => op[o].at \in {"session", "wipe"}
    /\ op[o].kind = "signOut"   => op[o].at \in {"logout", "lock"}
InPlace == \A o \in Ops : Placed(o)

\* A session, a tab signed in, a login, a save and a key to unlock come after the
\* account.
Follows(o) ==
  op[o] # None =>
    /\ op[o].kind \in {"login", "save"} => wraps # {}
    /\ op[o].at = "session" /\ op[o].answer = "yes" => wraps # {}
    /\ op[o].kind = "login" /\ op[o].at = "post" /\ op[o].answer = "yes" => op[o].key \in wraps
AfterAccount ==
  /\ sess => wraps # {}
  /\ \A t \in Tabs : signedIn[t] => wraps # {}
  /\ \A t \in Tabs : \A m \in Range(toWorker[t]) : m.req = "unlock" => m.key \in wraps
  /\ \A o \in Ops : Follows(o)

\* A registration whose key exists, told of it or not.
HasCreated(o) ==
  /\ op[o] # None /\ op[o].kind \in Registers /\ op[o].at # "start"
  /\ op[o].at = "create" => Names(fromWorker[op[o].tab], o)
Unposted(o) == op[o].at \in {"create", "wrap"} \/ (op[o].at = "post" /\ op[o].answer = None)

\* As long as no key was created beside an account or another registration: the
\* registration under way is the only one, what it will wrap is what the worker
\* holds, and once it is wrapped nothing else is held, sealed with or wrapped.
Uses(o) ==
  /\ HasCreated(o) /\ Unposted(o) => wraps = {} /\ (op[o].at = "post" => key \in {op[o].key, None})
  /\ op[o] # None /\ op[o].kind = "save" /\ op[o].at # "seal" => op[o].key \in wraps
Answer(o, m) ==
  /\ op[o].at = "wrap" => key \in {m.key, None}
  /\ op[o].at = "seal" => m.key \in wraps \cup {None}
OneKey ==
  /\ \A k, l \in wraps : k = l
  /\ sealed \subseteq wraps
  /\ wraps # {} => key \in wraps \cup {None}
  /\ \A o, p \in Ops : HasCreated(o) /\ HasCreated(p) => o = p
  /\ \A o \in Ops : Uses(o)
  /\ \A t \in Tabs, o \in Ops : \A m \in Range(fromWorker[t]) : m.by = o => Answer(o, m)

KeysInv == ConsoleTypeOK /\ InPlace /\ ByFunction /\ AfterAccount /\ (~raced => OneKey)

LEMMA TypedInit == Init => ConsoleTypeOK
<1> SUFFICES ASSUME Init PROVE ConsoleTypeOK
  OBVIOUS
<1>1. << >> \in Seq(Message) /\ << >> \in Seq(Reply)
  OBVIOUS
<1>2. PICK vault, in \in BOOLEAN : 
    /\ key = (IF in THEN 1 ELSE None) /\ due = FALSE /\ expiries = 0
    /\ minted = (IF vault THEN 1 ELSE 0)
    /\ wraps = (IF vault THEN {1} ELSE {}) /\ sealed = wraps /\ hasPassword = vault
    /\ sess = in /\ remember = (IF in THEN "password" ELSE None)
    /\ view = [t \in Tabs |-> in] /\ shown = view /\ signedIn = view
    /\ register = [t \in Tabs |-> ~vault]
  BY DEF Init
<1>3. /\ pending = [t \in Tabs |-> FALSE]
      /\ toWorker = [t \in Tabs |-> <<>>] /\ fromWorker = toWorker
      /\ gen = [t \in Tabs |-> 0] /\ store = gen
      /\ op = [o \in Ops |-> None] /\ begun = 0
      /\ raced = FALSE /\ missed = {}
  BY DEF Init
<1>4. vault \in BOOLEAN /\ in \in BOOLEAN
  BY <1>2
<1>5. /\ key \in Keys /\ minted \in Nat /\ wraps \subseteq Keys /\ sealed \subseteq Keys
      /\ remember \in {None, "passkey", "password"}
  BY <1>2, <1>4 DEF Keys
<1>6. /\ view \in [Tabs -> BOOLEAN] /\ shown \in [Tabs -> BOOLEAN]
      /\ signedIn \in [Tabs -> BOOLEAN] /\ register \in [Tabs -> BOOLEAN]
      /\ sess \in BOOLEAN /\ hasPassword \in BOOLEAN /\ due \in BOOLEAN /\ expiries \in Nat
  BY <1>2, <1>4
<1> QED
  BY <1>1, <1>3, <1>5, <1>6 DEF ConsoleTypeOK

(* What the pieces of the actions do to the types *)

LEMMA PostTyped ==
  ASSUME ConsoleTypeOK, NEW t \in Tabs, NEW m \in Message, Post(t, m)
  PROVE  toWorker' \in [Tabs -> Seq(Message)]
<1>1. Append(toWorker[t], m) \in Seq(Message)
  BY DEF ConsoleTypeOK
<1> QED
  BY <1>1 DEF Post, ConsoleTypeOK

LEMMA MsgTyped ==
  /\ Lock \in Message
  /\ \A o \in Ops : \A r \in {"create", "wrap", "lock", "seal"} : Msg(r, o, None) \in Message
  /\ \A o \in Ops, k \in Keys : Msg("unlock", o, k) \in Message
  /\ Msg("open", None, None) \in Message
BY DEF Lock, Msg, Message, Keys

LEMMA Fields ==
  ASSUME ConsoleTypeOK, NEW o \in Ops, op[o] # None
  PROVE  /\ op[o] \in UnderWay
         /\ op[o].tab \in Tabs /\ op[o].kind \in Kinds /\ op[o].at \in Requests \cup Replies
         /\ op[o].gen \in Nat /\ op[o].store \in Nat /\ op[o].key \in Keys
         /\ op[o].answer \in Answers \cup {None} /\ op[o].add \in BOOLEAN
BY DEF ConsoleTypeOK, UnderWay, Keys

LEMMA GoTyped ==
  ASSUME ConsoleTypeOK, NEW o \in Ops, op[o] # None,
         NEW at \in Requests \cup Replies, NEW k \in Keys, Go(o, at, k)
  PROVE  op' \in [Ops -> UnderWay \cup {None}]
<1>1. [op[o] EXCEPT !.at = at, !.key = k, !.answer = None] \in UnderWay
  BY Fields DEF UnderWay, Keys
<1> QED
  BY <1>1 DEF Go, ConsoleTypeOK

LEMMA SaysTyped ==
  ASSUME ConsoleTypeOK, NEW o \in Ops, op[o] # None, NEW as \in SUBSET Answers, Says(o, as)
  PROVE  op' \in [Ops -> UnderWay \cup {None}]
<1>1. PICK a \in as : op' = [op EXCEPT ![o].answer = a]
  BY DEF Says
<1>2. [op[o] EXCEPT !.answer = a] \in UnderWay
  BY Fields DEF UnderWay
<1> QED
  BY <1>1, <1>2 DEF ConsoleTypeOK

LEMMA BeginTyped ==
  ASSUME ConsoleTypeOK, NEW o \in Ops, NEW t \in Tabs, NEW kind \in Kinds,
         NEW at \in Requests \cup Replies, NEW g \in Nat, Begin(o, t, kind, at, g)
  PROVE  op' \in [Ops -> UnderWay \cup {None}] /\ begun' \in Nat
<1>1. [tab |-> t, kind |-> kind, at |-> at, gen |-> g, store |-> store[t],
       key |-> None, answer |-> None, add |-> FALSE] \in UnderWay
  BY DEF UnderWay, ConsoleTypeOK
<1> QED
  BY <1>1 DEF Begin, ConsoleTypeOK

LEMMA FinishTyped ==
  ASSUME ConsoleTypeOK, NEW o \in Ops, op[o] # None, NEW flags \in [Tabs -> BOOLEAN], Finish(o, flags)
  PROVE  op' \in [Ops -> UnderWay \cup {None}] /\ pending' \in [Tabs -> BOOLEAN]
BY Fields DEF Finish, ConsoleTypeOK

LEMMA AdoptTyped ==
  ASSUME ConsoleTypeOK, NEW t \in Tabs, fromWorker[t] # << >>, Adopt(t, Head(fromWorker[t])),
         shown' = [shown EXCEPT ![t] = Shown(t, Head(fromWorker[t]))]
  PROVE  /\ Head(fromWorker[t]) \in Reply
         /\ fromWorker' \in [Tabs -> Seq(Reply)]
         /\ view' \in [Tabs -> BOOLEAN] /\ shown' \in [Tabs -> BOOLEAN]
         /\ missed' \subseteq Tabs
<1>1. Tail(fromWorker[t]) \in Seq(Reply) /\ Head(fromWorker[t]) \in Reply
  BY DEF ConsoleTypeOK
<1>2. Shown(t, Head(fromWorker[t])) \in BOOLEAN
  BY <1>1 DEF Shown, ConsoleTypeOK, Reply
<1> QED
  BY <1>1, <1>2 DEF Adopt, ConsoleTypeOK

LEMMA RepliedTyped ==
  ASSUME ConsoleTypeOK, NEW o \in Ops, NEW at, Replied(o, at)
  PROVE  /\ op[o] # None /\ ReplyKey(o) \in Keys
         /\ fromWorker' \in [Tabs -> Seq(Reply)]
         /\ view' \in [Tabs -> BOOLEAN] /\ shown' \in [Tabs -> BOOLEAN]
         /\ missed' \subseteq Tabs
<1>1. op[o].tab \in Tabs
  BY Fields DEF Replied
<1>2. Head(fromWorker[op[o].tab]) \in Reply
  BY <1>1, AdoptTyped DEF Replied
<1> QED
  BY <1>1, <1>2, AdoptTyped DEF Replied, ReplyKey, Reply

LEMMA TypedStep == ConsoleTypeOK /\ [Next]_vars => ConsoleTypeOK'
<1> SUFFICES ASSUME ConsoleTypeOK, [Next]_vars PROVE ConsoleTypeOK'
  OBVIOUS
<1> USE NoneIsNothing DEF Kinds, SignIns, Registers, Requests, Replies, Answers, Keys, worker, ports, server, screens
<1>1. ASSUME Deadline PROVE ConsoleTypeOK'
  BY <1>1 DEF Deadline, ConsoleTypeOK
<1>2. ASSUME Expire PROVE ConsoleTypeOK'
  <2>1. State(None) \in Reply
    BY DEF State, Reply
  <2>2. \A u \in Tabs : Append(fromWorker[u], State(None)) \in Seq(Reply)
    BY <2>1 DEF ConsoleTypeOK
  <2> QED
    BY <1>2, <2>2 DEF Expire, ConsoleTypeOK
<1>3. ASSUME SessionEnds PROVE ConsoleTypeOK'
  BY <1>3 DEF SessionEnds, OnlyServer, ConsoleTypeOK
<1>4. ASSUME NEW t \in Tabs, Handle(t) PROVE ConsoleTypeOK'
  <2> DEFINE m == Head(toWorker[t])
             k == KeyAfter(m)
             reply == [by |-> m.by, key |-> k, opened |-> m.req = "open" /\ k # None]
  <2>1. m \in Message /\ Tail(toWorker[t]) \in Seq(Message)
    BY <1>4 DEF Handle, ConsoleTypeOK
  <2>2. k \in Keys /\ Held \in Keys
    BY <2>1 DEF KeyAfter, Held, Message, ConsoleTypeOK
  <2>3. reply \in Reply /\ State(k) \in Reply
    BY <2>1, <2>2 DEF State, Reply, Message
  <2>4. \A u \in Tabs : Append(fromWorker[u], reply) \in Seq(Reply) /\ Append(fromWorker[u], State(k)) \in Seq(Reply)
    BY <2>3 DEF ConsoleTypeOK
  <2>5. /\ key' = k /\ due' = FALSE /\ minted' \in Nat /\ raced' \in BOOLEAN
        /\ fromWorker' = [u \in Tabs |-> IF u = t THEN Append(fromWorker[u], reply)
                                          ELSE Append(fromWorker[u], State(k))]
        /\ toWorker' = [toWorker EXCEPT ![t] = Tail(@)]
    BY <1>4 DEF Handle, ConsoleTypeOK
  <2> HIDE DEF m, k, reply
  <2>6. fromWorker' \in [Tabs -> Seq(Reply)] /\ toWorker' \in [Tabs -> Seq(Message)]
    BY <2>1, <2>4, <2>5 DEF ConsoleTypeOK
  <2> QED
    BY <1>4, <2>2, <2>5, <2>6 DEF Handle, ConsoleTypeOK
<1>5. ASSUME NEW t \in Tabs, Hear(t) PROVE ConsoleTypeOK'
  BY <1>5, AdoptTyped DEF Hear, ConsoleTypeOK
<1>6. ASSUME NEW t \in Tabs, Glance(t) PROVE ConsoleTypeOK'
  BY <1>6 DEF Glance, ConsoleTypeOK
<1>7. ASSUME NEW t \in Tabs, OpenAll(t) PROVE ConsoleTypeOK'
  BY <1>7, MsgTyped DEF OpenAll, ConsoleTypeOK
<1>8. ASSUME NEW t \in Tabs, ResolveMethod(t) PROVE ConsoleTypeOK'
  BY <1>8, MsgTyped, PostTyped DEF ResolveMethod, ConsoleTypeOK
<1>9. ASSUME NEW o \in Ops, NEW t \in Tabs, SignIn(o, t) PROVE ConsoleTypeOK'
  <2>1. op' \in [Ops -> UnderWay \cup {None}] /\ begun' \in Nat
    BY <1>9, BeginTyped DEF SignIn, BeginLogin, BeginRegister, ConsoleTypeOK
  <2>2. toWorker[t] \o << Lock >> \o << >> \in Seq(Message)
    BY MsgTyped DEF ConsoleTypeOK
  <2>3. toWorker[t] \o << Lock >> \o << Msg("create", o, None) >> \in Seq(Message)
    BY MsgTyped DEF ConsoleTypeOK
  <2>4. toWorker' \in [Tabs -> Seq(Message)]
    BY <1>9, <2>2, <2>3 DEF SignIn, ConsoleTypeOK
  <2> QED
    BY <1>9, <2>1, <2>4 DEF SignIn, ConsoleTypeOK
<1>10. ASSUME NEW o \in Ops, NEW t \in Tabs, BeginSignOut(o, t) PROVE ConsoleTypeOK'
  BY <1>10, BeginTyped DEF BeginSignOut, ConsoleTypeOK
<1>11. ASSUME NEW o \in Ops, NEW t \in Tabs, BeginSave(o, t) PROVE ConsoleTypeOK'
  BY <1>11, MsgTyped, BeginTyped, PostTyped DEF BeginSave, ConsoleTypeOK
<1>12. ASSUME NEW o \in Ops, NEW t \in Tabs, Reload(o, t) PROVE ConsoleTypeOK'
  <2> DEFINE f == [tab |-> t, kind |-> "load", at |-> "session", gen |-> 0, store |-> 0,
                   key |-> None, answer |-> None, add |-> FALSE]
  <2>2. Orphans(toWorker[t]) \in Seq(Message)
    <3>1. toWorker[t] \in Seq(Message)
      BY DEF ConsoleTypeOK
    <3>2. PICK n \in Nat : toWorker[t] \in [1..n -> Message]
      BY <3>1, SeqDef
    <3>3. \A m \in Message : Orphan(m) \in Message
      BY DEF Orphan, Message
    <3>4. Orphans(toWorker[t]) \in [1..n -> Message]
      BY <3>2, <3>3 DEF Orphans
    <3> QED
      BY <3>4, SeqDef
  <2>3. f \in UnderWay
    BY DEF UnderWay
  <2>4. << State(Held) >> \in Seq(Reply)
    <3>1. State(Held) \in Reply
      BY DEF State, Held, Reply, ConsoleTypeOK
    <3> QED
      BY <3>1
  <2>6. op' = [p \in Ops |-> IF p = o THEN f ELSE IF op[p] # None /\ op[p].tab = t THEN None ELSE op[p]]
    BY <1>12 DEF Reload
  <2> HIDE DEF f
  <2>7. toWorker' \in [Tabs -> Seq(Message)] /\ fromWorker' \in [Tabs -> Seq(Reply)]
    BY <1>12, <2>2, <2>4 DEF Reload, ConsoleTypeOK
  <2>8. op' \in [Ops -> UnderWay \cup {None}]
    BY <2>3, <2>6 DEF ConsoleTypeOK
  <2>9. begun' \in Nat /\ gen' \in [Tabs -> Nat] /\ store' \in [Tabs -> Nat] /\ missed' \subseteq Tabs
    BY <1>12 DEF Reload, ConsoleTypeOK
  <2>10. /\ view' \in [Tabs -> BOOLEAN] /\ shown' \in [Tabs -> BOOLEAN] /\ signedIn' \in [Tabs -> BOOLEAN]
         /\ register' \in [Tabs -> BOOLEAN] /\ pending' \in [Tabs -> BOOLEAN]
    BY <1>12 DEF Reload, ConsoleTypeOK
  <2> QED
    BY <1>12, <2>7, <2>8, <2>9, <2>10 DEF Reload, ConsoleTypeOK
<1>13. ASSUME NEW o \in Ops, Started(o) PROVE ConsoleTypeOK'
  BY <1>13, Fields, MsgTyped, PostTyped, GoTyped, FinishTyped, RepliedTyped DEF Started,
     Answered, ConsoleTypeOK
<1>14. ASSUME NEW o \in Ops, Created(o) PROVE ConsoleTypeOK'
  BY <1>14, Fields, MsgTyped, PostTyped, GoTyped, FinishTyped, RepliedTyped DEF Created,
     Answered, ConsoleTypeOK
<1>15. ASSUME NEW o \in Ops, Wrapped(o) PROVE ConsoleTypeOK'
  BY <1>15, Fields, MsgTyped, PostTyped, GoTyped, FinishTyped, RepliedTyped DEF Wrapped,
     Answered, ConsoleTypeOK
<1>16. ASSUME NEW o \in Ops, Registered(o) PROVE ConsoleTypeOK'
  BY <1>16, Fields, MsgTyped, PostTyped, GoTyped, FinishTyped, RepliedTyped DEF Registered,
     Answered, ConsoleTypeOK
<1>17. ASSUME NEW o \in Ops, LoggedIn(o) PROVE ConsoleTypeOK'
  BY <1>17, Fields, MsgTyped, PostTyped, GoTyped, FinishTyped, RepliedTyped DEF LoggedIn,
     Answered, ConsoleTypeOK
<1>18. ASSUME NEW o \in Ops, Unlocked(o) PROVE ConsoleTypeOK'
  BY <1>18, Fields, MsgTyped, PostTyped, GoTyped, FinishTyped, RepliedTyped DEF Unlocked,
     Answered, ConsoleTypeOK
<1>19. ASSUME NEW o \in Ops, SessionLoaded(o) PROVE ConsoleTypeOK'
  BY <1>19, Fields, MsgTyped, PostTyped, GoTyped, FinishTyped, RepliedTyped DEF SessionLoaded,
     Answered, ConsoleTypeOK
<1>20. ASSUME NEW o \in Ops, SessionGone(o) PROVE ConsoleTypeOK'
  <2>1. op[o] # None /\ op[o].tab \in Tabs /\ op[o].key \in Keys
    BY <1>20, Fields DEF SessionGone, Answered
  <2>2. CASE signedIn[op[o].tab] /\ ~SignedOut(o)
    <3>1. SignOutLocal(op[o].tab) /\ pending' = [pending EXCEPT ![op[o].tab] = FALSE]
          /\ Go(o, "wipe", None) /\ Post(op[o].tab, Msg("lock", o, None))
      BY <1>20, <2>2 DEF SessionGone
    <3>2. op' \in [Ops -> UnderWay \cup {None}] /\ toWorker' \in [Tabs -> Seq(Message)]
      BY <2>1, <3>1, GoTyped, MsgTyped, PostTyped
    <3>3. /\ remember' \in {None, "passkey", "password"} /\ store' \in [Tabs -> Nat]
          /\ signedIn' \in [Tabs -> BOOLEAN] /\ register' \in [Tabs -> BOOLEAN]
          /\ shown' \in [Tabs -> BOOLEAN] /\ pending' \in [Tabs -> BOOLEAN]
      BY <2>1, <3>1 DEF SignOutLocal, ConsoleTypeOK
    <3> QED
      BY <1>20, <3>2, <3>3 DEF SessionGone, ConsoleTypeOK
  <2>3. CASE ~(signedIn[op[o].tab] /\ ~SignedOut(o))
    BY <1>20, <2>1, <2>3, GoTyped, FinishTyped DEF SessionGone, ConsoleTypeOK
  <2> QED
    BY <2>2, <2>3
<1>21. ASSUME NEW o \in Ops, Wiped(o) PROVE ConsoleTypeOK'
  BY <1>21, Fields, MsgTyped, PostTyped, GoTyped, FinishTyped, RepliedTyped DEF Wiped, Answered,
     ConsoleTypeOK
<1>22. ASSUME NEW o \in Ops, Rejected(o) PROVE ConsoleTypeOK'
  BY <1>22, Fields, MsgTyped, PostTyped, GoTyped, FinishTyped, RepliedTyped DEF Rejected,
     Answered, ConsoleTypeOK
<1>23. ASSUME NEW o \in Ops, LoggedOut(o) PROVE ConsoleTypeOK'
  <2>1. op[o] # None /\ op[o].tab \in Tabs
    BY <1>23, Fields DEF LoggedOut, Answered
  <2>2. op' \in [Ops -> UnderWay \cup {None}] /\ toWorker' \in [Tabs -> Seq(Message)]
    BY <1>23, <2>1, GoTyped, MsgTyped, PostTyped DEF LoggedOut
  <2>3. /\ remember' \in {None, "passkey", "password"} /\ store' \in [Tabs -> Nat]
        /\ signedIn' \in [Tabs -> BOOLEAN] /\ register' \in [Tabs -> BOOLEAN]
        /\ shown' \in [Tabs -> BOOLEAN] /\ pending' \in [Tabs -> BOOLEAN]
    BY <1>23, <2>1 DEF LoggedOut, SignOutLocal, ConsoleTypeOK
  <2> QED
    BY <1>23, <2>2, <2>3 DEF LoggedOut, ConsoleTypeOK
<1>24. ASSUME NEW o \in Ops, Locked(o) PROVE ConsoleTypeOK'
  BY <1>24, Fields, MsgTyped, PostTyped, GoTyped, FinishTyped, RepliedTyped DEF Locked,
     Answered, ConsoleTypeOK
<1>25. ASSUME NEW o \in Ops, Sealed(o) PROVE ConsoleTypeOK'
  BY <1>25, Fields, MsgTyped, PostTyped, GoTyped, FinishTyped, RepliedTyped DEF Sealed,
     Answered, ConsoleTypeOK
<1>26. ASSUME NEW o \in Ops, Saves(o) PROVE ConsoleTypeOK'
  <2>1. op[o] # None
    BY <1>26 DEF Saves, Answered
  <2>2. CASE ~Live(o)
    BY <1>26, <2>1, <2>2, FinishTyped DEF Saves, ConsoleTypeOK
  <2>3. CASE Live(o) /\ op[o].answer = "yes"
    <3>1. Go(o, "put", op[o].key) /\ UNCHANGED << pending, gen >>
      BY <1>26, <2>3 DEF Saves
    <3> QED
      BY <1>26, <2>1, <3>1, Fields, GoTyped DEF Saves, ConsoleTypeOK
  <2>4. CASE Live(o) /\ op[o].answer # "yes"
    <3> DEFINE f == [op[o] EXCEPT !.kind = "signOut", !.at = "logout",
                                  !.gen = gen[op[o].tab] + 1, !.key = None, !.answer = None]
    <3>1. f \in UnderWay /\ op[o].tab \in Tabs
      <4>1. op[o].tab \in Tabs /\ gen[op[o].tab] + 1 \in Nat /\ op[o] \in UnderWay
        BY <2>1, Fields DEF ConsoleTypeOK
      <4> QED
        BY <4>1 DEF UnderWay
    <3>2. op' = [op EXCEPT ![o] = f] /\ gen' = [gen EXCEPT ![op[o].tab] = @ + 1]
          /\ pending' = [pending EXCEPT ![op[o].tab] = TRUE]
      BY <1>26, <2>4 DEF Saves
    <3> HIDE DEF f
    <3>3. gen' \in [Tabs -> Nat] /\ pending' \in [Tabs -> BOOLEAN] /\ op' \in [Ops -> UnderWay \cup {None}]
      BY <3>1, <3>2 DEF ConsoleTypeOK
    <3> QED
      BY <1>26, <3>3 DEF Saves, ConsoleTypeOK
  <2> QED
    BY <2>2, <2>3, <2>4
<1>27. ASSUME NEW o \in Ops, GivesUp(o) PROVE ConsoleTypeOK'
  BY <1>27, Fields, MsgTyped, PostTyped, GoTyped, FinishTyped, RepliedTyped DEF GivesUp,
     Answered, ConsoleTypeOK
<1>28. ASSUME NEW o \in Ops, NetworkFails(o) PROVE ConsoleTypeOK'
  BY <1>28, Fields, SaysTyped DEF NetworkFails, Asked, OnlyServer, ConsoleTypeOK
<1>29. ASSUME NEW o \in Ops, ServeStart(o) PROVE ConsoleTypeOK'
  <2>1. [op[o] EXCEPT !.answer = IF wraps = {} \/ sess THEN "yes" ELSE "no", !.add = wraps # {}] \in UnderWay
    <3>1. op[o] \in UnderWay /\ (wraps # {}) \in BOOLEAN
      BY <1>29, Fields DEF ServeStart, Asked
    <3> QED
      BY <3>1 DEF UnderWay
  <2> QED
    BY <1>29, <2>1 DEF ServeStart, OnlyServer, ConsoleTypeOK
<1>30. ASSUME NEW o \in Ops, ServeRegister(o) PROVE ConsoleTypeOK'
  <2>1. op[o] # None /\ op[o].key \in Keys
    BY <1>30, Fields DEF ServeRegister, Asked
  <2>2. op' \in [Ops -> UnderWay \cup {None}]
    BY <1>30, <2>1, SaysTyped DEF ServeRegister
  <2>3. wraps' \subseteq Keys /\ sess' \in BOOLEAN /\ hasPassword' \in BOOLEAN
    BY <1>30, <2>1 DEF ServeRegister, ConsoleTypeOK
  <2> QED
    BY <1>30, <2>2, <2>3 DEF ServeRegister, OnlyServer, ConsoleTypeOK
<1>31. ASSUME NEW o \in Ops, ServeLogin(o) PROVE ConsoleTypeOK'
  <2>1. op[o] # None
    BY <1>31 DEF ServeLogin, Asked
  <2>2. op' \in [Ops -> UnderWay \cup {None}] /\ sess' \in BOOLEAN
    <3>1. CASE Says(o, {"no"}) /\ UNCHANGED sess
      BY <2>1, <3>1, SaysTyped DEF ConsoleTypeOK
    <3>2. ASSUME NEW k \in wraps, NEW a \in {"yes", "lost"},
                 op' = [op EXCEPT ![o].answer = a, ![o].key = k],
                 sess' \in {TRUE} \cup (IF a = "lost" THEN {sess} ELSE {})
          PROVE op' \in [Ops -> UnderWay \cup {None}] /\ sess' \in BOOLEAN
      <4>1. [op[o] EXCEPT !.answer = a, !.key = k] \in UnderWay
        <5>1. op[o] \in UnderWay /\ k \in Nat \cup {None}
          BY <2>1, Fields DEF ConsoleTypeOK
        <5> QED
          BY <5>1 DEF UnderWay
      <4> QED
        BY <3>2, <4>1 DEF ConsoleTypeOK
    <3> QED
      BY <1>31, <3>1, <3>2 DEF ServeLogin
  <2> QED
    BY <1>31, <2>2 DEF ServeLogin, OnlyServer, ConsoleTypeOK
<1>32. ASSUME NEW o \in Ops, ServeSession(o) PROVE ConsoleTypeOK'
  BY <1>32, Fields, SaysTyped DEF ServeSession, Asked, OnlyServer, ConsoleTypeOK
<1>33. ASSUME NEW o \in Ops, ServeLogout(o) PROVE ConsoleTypeOK'
  BY <1>33, Fields, SaysTyped DEF ServeLogout, Asked, OnlyServer, ConsoleTypeOK
<1>34. ASSUME NEW o \in Ops, ServeVault(o) PROVE ConsoleTypeOK'
  <2>1. op[o] # None /\ op[o].key \in Keys
    BY <1>34, Fields DEF ServeVault, Asked
  <2>2. op' \in [Ops -> UnderWay \cup {None}]
    BY <1>34, <2>1, SaysTyped DEF ServeVault
  <2>3. sealed' \subseteq Keys
    BY <1>34, <2>1 DEF ServeVault, ConsoleTypeOK
  <2> QED
    BY <1>34, <2>2, <2>3 DEF ServeVault, OnlyServer, ConsoleTypeOK
<1>35. CASE UNCHANGED vars
  BY <1>35 DEF vars, ConsoleTypeOK
<1> QED
  BY <1>1, <1>2, <1>3, <1>4, <1>5, <1>6, <1>7, <1>8, <1>9, <1>10, <1>11, <1>12, <1>13, <1>14,
     <1>15, <1>16, <1>17, <1>18, <1>19, <1>20, <1>21, <1>22, <1>23, <1>24, <1>25, <1>26, <1>27,
     <1>28, <1>29, <1>30, <1>31, <1>32, <1>33, <1>34, <1>35 DEF Next

-----------------------------------------------------------------------------
(* Every tab that has heard all knows, and shows nothing without the key. *)

LEMMA TabsInit == Init => AllHear /\ OpenedByKey /\ PlaintextIsDropped /\ PendingHasCause
<1> SUFFICES ASSUME Init PROVE AllHear /\ OpenedByKey /\ PlaintextIsDropped /\ PendingHasCause
  OBVIOUS
<1>1. PICK vault, in \in BOOLEAN :
        key = (IF in THEN 1 ELSE None) /\ view = [t \in Tabs |-> in] /\ shown = view
  BY DEF Init
<1>2. in \in BOOLEAN /\ key = (IF in THEN 1 ELSE None) /\ view = [t \in Tabs |-> in] /\ shown = view
  BY <1>1
<1>3. fromWorker = [t \in Tabs |-> << >>] /\ pending = [t \in Tabs |-> FALSE]
  BY DEF Init
<1>4. \A t \in Tabs : Heard(t) = (key # None)
  BY <1>2, <1>3, NoneIsNothing DEF Heard
<1> QED
  BY <1>2, <1>3, <1>4 DEF AllHear, OpenedByKey, PlaintextIsDropped, PendingHasCause

LEMMA Rest ==
  ASSUME NEW S, NEW q \in Seq(S), q # << >>
  PROVE  /\ Head(q) = q[1] /\ 1 \in DOMAIN q
         /\ \A i \in DOMAIN Tail(q) : i + 1 \in DOMAIN q /\ Tail(q)[i] = q[i + 1] /\ i + 1 # 1
         /\ \A i \in DOMAIN q : i = 1 \/ i - 1 \in DOMAIN Tail(q)
         /\ Tail(q) = << >> => Len(q) = 1
         /\ Tail(q) # << >> => Tail(q)[Len(Tail(q))] = q[Len(q)]
<1>1. Len(q) \in Nat /\ Len(q) > 0 /\ DOMAIN q = 1..Len(q)
  OBVIOUS
<1>2. Tail(q) \in Seq(S) /\ Len(Tail(q)) = Len(q) - 1 /\ \A i \in 1..Len(q) - 1 : Tail(q)[i] = q[i + 1]
  BY HeadTailProperties
<1>3. DOMAIN Tail(q) = 1..Len(q) - 1
  BY <1>2
<1>4. Tail(q) # << >> => Len(q) - 1 \in 1..Len(q) - 1
  BY <1>1, <1>2
<1>5. Tail(q) = << >> => Len(q) = 1
  BY <1>1, <1>2
<1>6. Head(q) = q[1]
  OBVIOUS
<1> QED
  BY <1>1, <1>2, <1>3, <1>4, <1>5, <1>6

LEMMA Told ==
  ASSUME ConsoleTypeOK, AllHear, OpenedByKey, PlaintextIsDropped,
         UNCHANGED << key, due, fromWorker, view, missed >>,
         \A t \in Tabs : shown'[t] => shown[t]
  PROVE  AllHear' /\ OpenedByKey' /\ PlaintextIsDropped'
BY DEF AllHear, OpenedByKey, PlaintextIsDropped, Heard

LEMMA Hears ==
  ASSUME ConsoleTypeOK, AllHear, OpenedByKey, PlaintextIsDropped, NEW t \in Tabs,
         fromWorker[t] # << >>, Adopt(t, Head(fromWorker[t])),
         shown' = [shown EXCEPT ![t] = Shown(t, Head(fromWorker[t]))],
         UNCHANGED << key, due >>
  PROVE  AllHear' /\ OpenedByKey' /\ PlaintextIsDropped'
<1> DEFINE q == fromWorker[t]
<1>1. q \in Seq(Reply) /\ q # << >>
  BY DEF ConsoleTypeOK
<1>2. /\ fromWorker' = [fromWorker EXCEPT ![t] = Tail(q)]
      /\ view' = [view EXCEPT ![t] = Head(q).key # None]
      /\ missed' = IF view[t] /\ Head(q).key = None THEN missed \ {t} ELSE missed
  BY DEF Adopt
<1>3. /\ Head(q) = q[1] /\ 1 \in DOMAIN q
      /\ \A i \in DOMAIN Tail(q) : i + 1 \in DOMAIN q /\ Tail(q)[i] = q[i + 1]
      /\ Tail(q) = << >> => Len(q) = 1
      /\ Tail(q) # << >> => Tail(q)[Len(Tail(q))] = q[Len(q)]
  BY <1>1, Rest
<1> HIDE DEF q
<1>4. \A u \in Tabs : fromWorker'[u] = IF u = t THEN Tail(q) ELSE fromWorker[u]
  BY <1>2 DEF ConsoleTypeOK
<1>5. \A u \in Tabs : view'[u] = IF u = t THEN Head(q).key # None ELSE view[u]
  BY <1>2 DEF ConsoleTypeOK
<1>6. \A u \in Tabs : Heard(u)' = Heard(u)
  <2>1. Heard(t) = (q[Len(q)].key # None)
    BY <1>1 DEF Heard, q
  <2>2. Heard(t)' = IF Tail(q) = << >> THEN Head(q).key # None ELSE Tail(q)[Len(Tail(q))].key # None
    BY <1>4, <1>5 DEF Heard
  <2>3. Heard(t)' = Heard(t)
    BY <1>3, <2>1, <2>2
  <2>4. \A u \in Tabs \ {t} : Heard(u)' = Heard(u)
    BY <1>4, <1>5 DEF Heard
  <2> QED
    BY <2>3, <2>4
<1>7. OpenedByKey'
  <2> SUFFICES ASSUME NEW u \in Tabs, NEW i \in DOMAIN fromWorker'[u], fromWorker'[u][i].opened
               PROVE  fromWorker'[u][i].key # None
    BY DEF OpenedByKey
  <2>1. CASE u = t
    <3>1. i \in DOMAIN Tail(q) /\ fromWorker'[u][i] = Tail(q)[i]
      BY <1>4, <2>1
    <3> QED
      BY <1>3, <3>1 DEF OpenedByKey, q
  <2>2. CASE u # t
    BY <1>4, <2>2 DEF OpenedByKey
  <2> QED
    BY <2>1, <2>2
<1>8. PlaintextIsDropped'
  <2>1. Head(q).opened => Head(q).key # None
    BY <1>3 DEF OpenedByKey, q
  <2>2. \A u \in Tabs : shown'[u] = IF u = t THEN Shown(t, Head(q)) ELSE shown[u]
    BY DEF ConsoleTypeOK, q
  <2> QED
    BY <1>2, <1>5, <2>1, <2>2 DEF PlaintextIsDropped, Shown
<1> QED
  BY <1>6, <1>7, <1>8 DEF AllHear

LEMMA HearsReply ==
  ASSUME ConsoleTypeOK, AllHear, OpenedByKey, PlaintextIsDropped, NEW o \in Ops, NEW at,
         Replied(o, at), UNCHANGED << key, due >>
  PROVE  AllHear' /\ OpenedByKey' /\ PlaintextIsDropped'
<1>1. op[o].tab \in Tabs
  BY Fields DEF Replied
<1> QED
  BY <1>1, Hears DEF Replied

LEMMA TabsHearStep ==
  ASSUME ConsoleTypeOK, AllHear, OpenedByKey, PlaintextIsDropped, [Next]_vars
  PROVE  AllHear' /\ OpenedByKey' /\ PlaintextIsDropped'
<1> USE DEF worker, ports, server, screens
<1>1. ASSUME Deadline PROVE AllHear' /\ OpenedByKey' /\ PlaintextIsDropped'
  BY <1>1 DEF Deadline, AllHear, OpenedByKey, PlaintextIsDropped
<1>2. ASSUME Expire PROVE AllHear' /\ OpenedByKey' /\ PlaintextIsDropped'
  <2> DEFINE sent(u) == State(None)
  <2>1. fromWorker' = [u \in Tabs |-> Append(fromWorker[u], sent(u))] /\ due' = FALSE
        /\ UNCHANGED << view, shown, missed >>
    BY <1>2 DEF Expire
  <2>2. \A u \in Tabs : sent(u).key = key' /\ (sent(u).opened => sent(u).key # None)
    BY <1>2 DEF Expire, State
  <2> HIDE DEF sent
  <2>3. \A u \in Tabs : fromWorker[u] \in Seq(Reply)
    BY DEF ConsoleTypeOK
  <2>4. \A u \in Tabs : fromWorker'[u] = Append(fromWorker[u], sent(u))
    BY <2>1
  <2>5. \A u \in Tabs : Heard(u)' = (key' # None)
    BY <2>2, <2>3, <2>4 DEF Heard
  <2>6. OpenedByKey'
    <3> SUFFICES ASSUME NEW u \in Tabs, NEW i \in DOMAIN fromWorker'[u], fromWorker'[u][i].opened
                 PROVE  fromWorker'[u][i].key # None
      BY DEF OpenedByKey
    <3>1. (i \in DOMAIN fromWorker[u] /\ fromWorker'[u][i] = fromWorker[u][i]) \/ fromWorker'[u][i] = sent(u)
      BY <2>3, <2>4
    <3> QED
      BY <2>2, <3>1 DEF OpenedByKey
  <2> QED
    BY <2>1, <2>5, <2>6 DEF AllHear, PlaintextIsDropped
<1>3. ASSUME SessionEnds PROVE AllHear' /\ OpenedByKey' /\ PlaintextIsDropped'
  BY <1>3, Told DEF SessionEnds, OnlyServer
<1>4. ASSUME NEW t \in Tabs, Handle(t) PROVE AllHear' /\ OpenedByKey' /\ PlaintextIsDropped'
  <2> DEFINE sent(u) == IF u = t THEN [by |-> Head(toWorker[t]).by, key |-> KeyAfter(Head(toWorker[t])),
                                        opened |-> Head(toWorker[t]).req = "open" /\ KeyAfter(Head(toWorker[t])) # None]
                         ELSE State(KeyAfter(Head(toWorker[t])))
  <2>1. fromWorker' = [u \in Tabs |-> Append(fromWorker[u], sent(u))] /\ due' = FALSE
        /\ UNCHANGED << view, shown, missed >>
    <3>1. \A u \in Tabs : fromWorker'[u] = Append(fromWorker[u], sent(u))
      BY <1>4 DEF Handle
    <3>2. fromWorker' = [u \in Tabs |-> fromWorker'[u]]
      BY <1>4 DEF Handle
    <3> QED
      BY <1>4, <3>1, <3>2 DEF Handle
  <2>2. \A u \in Tabs : sent(u).key = key' /\ (sent(u).opened => sent(u).key # None)
    BY <1>4 DEF Handle, State
  <2> HIDE DEF sent
  <2>3. \A u \in Tabs : fromWorker[u] \in Seq(Reply)
    BY DEF ConsoleTypeOK
  <2>4. \A u \in Tabs : fromWorker'[u] = Append(fromWorker[u], sent(u))
    BY <2>1
  <2>5. \A u \in Tabs : Heard(u)' = (key' # None)
    BY <2>2, <2>3, <2>4 DEF Heard
  <2>6. OpenedByKey'
    <3> SUFFICES ASSUME NEW u \in Tabs, NEW i \in DOMAIN fromWorker'[u], fromWorker'[u][i].opened
                 PROVE  fromWorker'[u][i].key # None
      BY DEF OpenedByKey
    <3>1. (i \in DOMAIN fromWorker[u] /\ fromWorker'[u][i] = fromWorker[u][i]) \/ fromWorker'[u][i] = sent(u)
      BY <2>3, <2>4
    <3> QED
      BY <2>2, <3>1 DEF OpenedByKey
  <2> QED
    BY <2>1, <2>5, <2>6 DEF AllHear, PlaintextIsDropped
<1>5. ASSUME NEW t \in Tabs, Hear(t) PROVE AllHear' /\ OpenedByKey' /\ PlaintextIsDropped'
  BY <1>5, Hears DEF Hear
<1>6. ASSUME NEW t \in Tabs, Glance(t) PROVE AllHear' /\ OpenedByKey' /\ PlaintextIsDropped'
  BY <1>6 DEF Glance, AllHear, OpenedByKey, PlaintextIsDropped, ConsoleTypeOK
<1>7. ASSUME NEW t \in Tabs, OpenAll(t) PROVE AllHear' /\ OpenedByKey' /\ PlaintextIsDropped'
  BY <1>7, Told DEF OpenAll
<1>8. ASSUME NEW t \in Tabs, ResolveMethod(t) PROVE AllHear' /\ OpenedByKey' /\ PlaintextIsDropped'
  BY <1>8, Told DEF ResolveMethod
<1>9. ASSUME NEW o \in Ops, NEW t \in Tabs, SignIn(o, t)
      PROVE  AllHear' /\ OpenedByKey' /\ PlaintextIsDropped'
  BY <1>9, Told DEF SignIn
<1>10. ASSUME NEW o \in Ops, NEW t \in Tabs, BeginSignOut(o, t)
       PROVE  AllHear' /\ OpenedByKey' /\ PlaintextIsDropped'
  BY <1>10, Told DEF BeginSignOut
<1>11. ASSUME NEW o \in Ops, NEW t \in Tabs, BeginSave(o, t)
       PROVE  AllHear' /\ OpenedByKey' /\ PlaintextIsDropped'
  BY <1>11, Told DEF BeginSave
<1>12. ASSUME NEW o \in Ops, NEW t \in Tabs, Reload(o, t)
       PROVE  AllHear' /\ OpenedByKey' /\ PlaintextIsDropped'
  <2>1. \A u \in Tabs : /\ fromWorker'[u] = IF u = t THEN << State(Held) >> ELSE fromWorker[u]
                        /\ view'[u] = IF u = t THEN FALSE ELSE view[u]
                        /\ shown'[u] = IF u = t THEN FALSE ELSE shown[u]
    BY <1>12 DEF Reload, ConsoleTypeOK
  <2>2. UNCHANGED << key, due >> /\ missed' = missed \ {t}
    BY <1>12 DEF Reload
  <2> DEFINE one == State(Held)
  <2>0. << one >> # << >> /\ Len(<< one >>) = 1 /\ << one >>[1] = one /\ DOMAIN << one >> = 1..1
        /\ one.key = Held /\ one.opened = FALSE
    BY DEF State
  <2> HIDE DEF one
  <2>3. ~due => Heard(t)' = (key # None)
    <3>1. fromWorker'[t] = << one >>
      BY <2>1 DEF one
    <3>2. Heard(t)' = (Held # None)
      BY <2>0, <3>1 DEF Heard
    <3> QED
      BY <3>2 DEF Held
  <2>4. \A u \in Tabs \ {t} : Heard(u)' = Heard(u)
    BY <2>1 DEF Heard
  <2>5. AllHear'
    BY <2>2, <2>3, <2>4 DEF AllHear
  <2>6. OpenedByKey'
    <3> SUFFICES ASSUME NEW u \in Tabs, NEW i \in DOMAIN fromWorker'[u], fromWorker'[u][i].opened
                 PROVE  fromWorker'[u][i].key # None
      BY DEF OpenedByKey
    <3>1. CASE u = t
      <4>1. fromWorker'[u] = << one >>
        BY <2>1, <3>1 DEF one
      <4>2. i = 1
        BY <2>0, <4>1
      <4> QED
        BY <2>0, <4>1, <4>2
    <3>2. CASE u # t
      <4>1. fromWorker'[u] = fromWorker[u]
        BY <2>1, <3>2
      <4> QED
        BY <4>1 DEF OpenedByKey
    <3> QED
      BY <3>1, <3>2
  <2> QED
    BY <2>1, <2>2, <2>5, <2>6 DEF PlaintextIsDropped
<1>13. ASSUME NEW o \in Ops, Started(o) PROVE AllHear' /\ OpenedByKey' /\ PlaintextIsDropped'
  BY <1>13, Told DEF Started
<1>14. ASSUME NEW o \in Ops, Created(o) PROVE AllHear' /\ OpenedByKey' /\ PlaintextIsDropped'
  BY <1>14, HearsReply DEF Created
<1>15. ASSUME NEW o \in Ops, Wrapped(o) PROVE AllHear' /\ OpenedByKey' /\ PlaintextIsDropped'
  BY <1>15, HearsReply DEF Wrapped
<1>16. ASSUME NEW o \in Ops, Registered(o) PROVE AllHear' /\ OpenedByKey' /\ PlaintextIsDropped'
  BY <1>16, Told DEF Registered
<1>17. ASSUME NEW o \in Ops, LoggedIn(o) PROVE AllHear' /\ OpenedByKey' /\ PlaintextIsDropped'
  BY <1>17, Told DEF LoggedIn
<1>18. ASSUME NEW o \in Ops, Unlocked(o) PROVE AllHear' /\ OpenedByKey' /\ PlaintextIsDropped'
  BY <1>18, HearsReply DEF Unlocked
<1>19. ASSUME NEW o \in Ops, SessionLoaded(o) PROVE AllHear' /\ OpenedByKey' /\ PlaintextIsDropped'
  BY <1>19, Told DEF SessionLoaded
<1>20. ASSUME NEW o \in Ops, SessionGone(o) PROVE AllHear' /\ OpenedByKey' /\ PlaintextIsDropped'
  BY <1>20, Told DEF SessionGone, SignOutLocal, ConsoleTypeOK
<1>21. ASSUME NEW o \in Ops, Wiped(o) PROVE AllHear' /\ OpenedByKey' /\ PlaintextIsDropped'
  BY <1>21, HearsReply DEF Wiped
<1>22. ASSUME NEW o \in Ops, Rejected(o) PROVE AllHear' /\ OpenedByKey' /\ PlaintextIsDropped'
  BY <1>22, Told DEF Rejected
<1>23. ASSUME NEW o \in Ops, LoggedOut(o) PROVE AllHear' /\ OpenedByKey' /\ PlaintextIsDropped'
  BY <1>23, Told DEF LoggedOut, SignOutLocal, ConsoleTypeOK
<1>24. ASSUME NEW o \in Ops, Locked(o) PROVE AllHear' /\ OpenedByKey' /\ PlaintextIsDropped'
  BY <1>24, HearsReply DEF Locked
<1>25. ASSUME NEW o \in Ops, Sealed(o) PROVE AllHear' /\ OpenedByKey' /\ PlaintextIsDropped'
  BY <1>25, HearsReply DEF Sealed
<1>26. ASSUME NEW o \in Ops, Saves(o) PROVE AllHear' /\ OpenedByKey' /\ PlaintextIsDropped'
  BY <1>26, Told DEF Saves
<1>27. ASSUME NEW o \in Ops, GivesUp(o) PROVE AllHear' /\ OpenedByKey' /\ PlaintextIsDropped'
  BY <1>27, Told DEF GivesUp
<1>28. ASSUME NEW o \in Ops, NetworkFails(o) PROVE AllHear' /\ OpenedByKey' /\ PlaintextIsDropped'
  BY <1>28, Told DEF NetworkFails, OnlyServer
<1>29. ASSUME NEW o \in Ops, ServeStart(o) PROVE AllHear' /\ OpenedByKey' /\ PlaintextIsDropped'
  BY <1>29, Told DEF ServeStart, OnlyServer
<1>30. ASSUME NEW o \in Ops, ServeRegister(o) PROVE AllHear' /\ OpenedByKey' /\ PlaintextIsDropped'
  BY <1>30, Told DEF ServeRegister, OnlyServer
<1>31. ASSUME NEW o \in Ops, ServeLogin(o) PROVE AllHear' /\ OpenedByKey' /\ PlaintextIsDropped'
  BY <1>31, Told DEF ServeLogin, OnlyServer
<1>32. ASSUME NEW o \in Ops, ServeSession(o) PROVE AllHear' /\ OpenedByKey' /\ PlaintextIsDropped'
  BY <1>32, Told DEF ServeSession, OnlyServer
<1>33. ASSUME NEW o \in Ops, ServeLogout(o) PROVE AllHear' /\ OpenedByKey' /\ PlaintextIsDropped'
  BY <1>33, Told DEF ServeLogout, OnlyServer
<1>34. ASSUME NEW o \in Ops, ServeVault(o) PROVE AllHear' /\ OpenedByKey' /\ PlaintextIsDropped'
  BY <1>34, Told DEF ServeVault, OnlyServer
<1>35. CASE UNCHANGED vars
  BY <1>35, Told DEF vars
<1> QED
  BY <1>1, <1>2, <1>3, <1>4, <1>5, <1>6, <1>7, <1>8, <1>9, <1>10, <1>11, <1>12, <1>13, <1>14,
     <1>15, <1>16, <1>17, <1>18, <1>19, <1>20, <1>21, <1>22, <1>23, <1>24, <1>25, <1>26, <1>27,
     <1>28, <1>29, <1>30, <1>31, <1>32, <1>33, <1>34, <1>35 DEF Next

(* A pending flag stands for a function under way. *)

LEMMA CausesStay ==
  ASSUME PendingHasCause,
         \A t \in Tabs : pending'[t] => pending[t],
         \A t \in Tabs, o \in Ops : pending'[t] /\ Awaits(t, o) => Awaits(t, o)'
  PROVE  PendingHasCause'
BY DEF PendingHasCause

LEMMA CausesUntouched ==
  ASSUME ConsoleTypeOK, PendingHasCause, UNCHANGED << pending, gen, op >>
  PROVE  PendingHasCause'
BY DEF PendingHasCause, Awaits

\* One that goes on, or is answered.
LEMMA CausesGoOn ==
  ASSUME ConsoleTypeOK, PendingHasCause, NEW o \in Ops, op[o] # None, NEW f \in UnderWay,
         op' = [op EXCEPT ![o] = f], UNCHANGED gen, \A t \in Tabs : pending'[t] => pending[t],
         f.tab = op[o].tab, f.kind = op[o].kind, f.gen = op[o].gen,
         op[o].kind = "signOut" /\ op[o].at = "logout" => f.at = "logout" \/ ~pending'[op[o].tab]
  PROVE  PendingHasCause'
<1>1. \A p \in Ops : op'[p] = IF p = o THEN f ELSE op[p]
  BY DEF ConsoleTypeOK
<1>2. f # None
  BY NoneIsNothing
<1> QED
  BY <1>1, <1>2, CausesStay DEF Awaits

LEMMA CausesGo ==
  ASSUME ConsoleTypeOK, PendingHasCause, NEW o \in Ops, op[o] # None,
         NEW at \in Requests \cup Replies, NEW k \in Keys, Go(o, at, k),
         UNCHANGED gen, \A t \in Tabs : pending'[t] => pending[t],
         op[o].kind = "signOut" /\ op[o].at = "logout" => ~pending'[op[o].tab]
  PROVE  PendingHasCause'
<1> DEFINE f == [op[o] EXCEPT !.at = at, !.key = k, !.answer = None]
<1>1. op' = [op EXCEPT ![o] = f]
  BY DEF Go, ConsoleTypeOK
<1>2. op[o] \in UnderWay
  BY Fields
<1>3. f \in UnderWay /\ f.tab = op[o].tab /\ f.kind = op[o].kind /\ f.gen = op[o].gen
  BY <1>2 DEF UnderWay, Keys
<1> HIDE DEF f
<1> QED
  BY <1>1, <1>3, CausesGoOn

LEMMA CausesAnswered ==
  ASSUME ConsoleTypeOK, PendingHasCause, NEW o \in Ops, op[o] # None, NEW as \in SUBSET Answers, Says(o, as),
         UNCHANGED << pending, gen >>
  PROVE  PendingHasCause'
<1>1. PICK a \in as : op' = [op EXCEPT ![o].answer = a]
  BY DEF Says
<1> DEFINE f == [op[o] EXCEPT !.answer = a]
<1>2. op' = [op EXCEPT ![o] = f]
  BY <1>1 DEF ConsoleTypeOK
<1>3. op[o] \in UnderWay
  BY Fields
<1>4. f \in UnderWay /\ f.tab = op[o].tab /\ f.kind = op[o].kind /\ f.gen = op[o].gen /\ f.at = op[o].at
  BY <1>3 DEF UnderWay
<1> HIDE DEF f
<1> QED
  BY <1>2, <1>4, CausesGoOn

\* One that ends takes its flag with it, unless the tab signed out of it.
LEMMA CausesFinish ==
  ASSUME ConsoleTypeOK, PendingHasCause, NEW o \in Ops, op[o] # None, Finish(o, pending),
         UNCHANGED gen, op[o].kind # "signOut" \/ op[o].at # "logout"
  PROVE  PendingHasCause'
<1>1. \A p \in Ops : op'[p] = IF p = o THEN None ELSE op[p]
  BY DEF Finish, ConsoleTypeOK
<1>2. \A t \in Tabs : pending'[t] => pending[t]
  BY DEF Finish, ConsoleTypeOK
<1>3. op[o].kind \in SignIns /\ ~SignedOut(o) => ~pending'[op[o].tab]
  BY Fields DEF Finish, ConsoleTypeOK
<1>4. ASSUME NEW t \in Tabs, pending'[t], Awaits(t, o) PROVE FALSE
  BY <1>3, <1>4 DEF Awaits, SignedOut
<1>5. \A t \in Tabs, p \in Ops : pending'[t] /\ Awaits(t, p) => Awaits(t, p)'
  BY <1>1, <1>4 DEF Awaits
<1> QED
  BY <1>2, <1>5, CausesStay

\* One that begins.
LEMMA CausesBegin ==
  ASSUME ConsoleTypeOK, PendingHasCause, NEW o \in Ops, NEW t \in Tabs, NEW kind \in Kinds,
         NEW at \in Requests \cup Replies, NEW g \in Nat, Begin(o, t, kind, at, g),
         \/ UNCHANGED << pending, gen >>
         \/ /\ pending' = [pending EXCEPT ![t] = TRUE]
            /\ \/ kind \in SignIns /\ g = gen[t] /\ UNCHANGED gen
               \/ kind = "signOut" /\ at = "logout" /\ gen' = [gen EXCEPT ![t] = g]
  PROVE  PendingHasCause'
<1> DEFINE f == [tab |-> t, kind |-> kind, at |-> at, gen |-> g, store |-> store[t],
                 key |-> None, answer |-> None, add |-> FALSE]
<1>1. op' = [op EXCEPT ![o] = f] /\ op[o] = None
  BY DEF Begin
<1>2. f \in UnderWay
  BY DEF UnderWay, ConsoleTypeOK
<1>3. f # None
  BY <1>2, NoneIsNothing
<1>4. f.tab = t /\ f.kind = kind /\ f.at = at /\ f.gen = g
  OBVIOUS
<1> HIDE DEF f
<1>5. \A p \in Ops : op'[p] = IF p = o THEN f ELSE op[p]
  BY <1>1 DEF ConsoleTypeOK
<1>6. CASE UNCHANGED << pending, gen >>
  BY <1>1, <1>5, <1>6, CausesStay DEF Awaits
<1>7. CASE /\ pending' = [pending EXCEPT ![t] = TRUE]
           /\ \/ kind \in SignIns /\ g = gen[t] /\ UNCHANGED gen
              \/ kind = "signOut" /\ at = "logout" /\ gen' = [gen EXCEPT ![t] = g]
  <2>1. \A u \in Tabs \ {t} : pending'[u] = pending[u] /\ gen'[u] = gen[u]
    BY <1>7 DEF ConsoleTypeOK
  <2>2. Awaits(t, o)'
    BY <1>3, <1>4, <1>5, <1>7 DEF Awaits, ConsoleTypeOK
  <2>3. \A u \in Tabs \ {t}, p \in Ops : Awaits(u, p) => Awaits(u, p)'
    BY <1>1, <1>5, <2>1 DEF Awaits
  <2> QED
    BY <2>1, <2>2, <2>3 DEF PendingHasCause
<1> QED
  BY <1>6, <1>7

LEMMA CausesStep ==
  ASSUME ConsoleTypeOK, PendingHasCause, [Next]_vars
  PROVE  PendingHasCause'
<1> USE NoneIsNothing DEF worker, ports, server, screens, Kinds, SignIns, Registers, Requests, Replies, Answers, Keys
<1>1. ASSUME Deadline PROVE PendingHasCause'
  BY <1>1, CausesUntouched DEF Deadline
<1>2. ASSUME Expire PROVE PendingHasCause'
  BY <1>2, CausesUntouched DEF Expire
<1>3. ASSUME SessionEnds PROVE PendingHasCause'
  BY <1>3, CausesUntouched DEF SessionEnds, OnlyServer
<1>4. ASSUME NEW t \in Tabs, Handle(t) PROVE PendingHasCause'
  BY <1>4, CausesUntouched DEF Handle
<1>5. ASSUME NEW t \in Tabs, Hear(t) PROVE PendingHasCause'
  BY <1>5, CausesUntouched DEF Hear
<1>6. ASSUME NEW t \in Tabs, Glance(t) PROVE PendingHasCause'
  BY <1>6, CausesUntouched DEF Glance
<1>7. ASSUME NEW t \in Tabs, OpenAll(t) PROVE PendingHasCause'
  BY <1>7, CausesUntouched DEF OpenAll
<1>8. ASSUME NEW t \in Tabs, ResolveMethod(t) PROVE PendingHasCause'
  BY <1>8, CausesUntouched DEF ResolveMethod
<1>9. ASSUME NEW o \in Ops, NEW t \in Tabs, SignIn(o, t) PROVE PendingHasCause'
  <2>1. UNCHANGED gen /\ pending' = [pending EXCEPT ![t] = TRUE] /\ gen[t] \in Nat
    BY <1>9 DEF SignIn, ConsoleTypeOK
  <2>2. PICK kind \in SignIns, at \in {"start", "create", "post"} : Begin(o, t, kind, at, gen[t])
    BY <1>9 DEF SignIn, BeginLogin, BeginRegister
  <2> QED
    BY <2>1, <2>2, CausesBegin
<1>10. ASSUME NEW o \in Ops, NEW t \in Tabs, BeginSignOut(o, t) PROVE PendingHasCause'
  <2>1. pending' = [pending EXCEPT ![t] = TRUE] /\ gen' = [gen EXCEPT ![t] = gen[t] + 1] /\ gen[t] + 1 \in Nat
    BY <1>10 DEF BeginSignOut, ConsoleTypeOK
  <2>2. Begin(o, t, "signOut", "logout", gen[t] + 1)
    BY <1>10 DEF BeginSignOut
  <2> QED
    BY <2>1, <2>2, CausesBegin
<1>11. ASSUME NEW o \in Ops, NEW t \in Tabs, BeginSave(o, t) PROVE PendingHasCause'
  <2>1. UNCHANGED << pending, gen >> /\ gen[t] \in Nat /\ Begin(o, t, "save", "seal", gen[t])
    BY <1>11 DEF BeginSave, ConsoleTypeOK
  <2> QED
    BY <2>1, CausesBegin
<1>12. ASSUME NEW o \in Ops, NEW t \in Tabs, Reload(o, t) PROVE PendingHasCause'
  <2>1. \A u \in Tabs : /\ pending'[u] = IF u = t THEN FALSE ELSE pending[u]
                        /\ u # t => gen'[u] = gen[u]
    BY <1>12 DEF Reload, ConsoleTypeOK
  <2>2. \A p \in Ops : op[p] # None /\ op[p].tab # t => op'[p] = op[p]
    BY <1>12 DEF Reload
  <2> QED
    BY <2>1, <2>2, CausesStay DEF Awaits
<1>13. ASSUME NEW o \in Ops, Started(o) PROVE PendingHasCause'
  BY <1>13, Fields, CausesGo, CausesFinish DEF Started, Answered
<1>14. ASSUME NEW o \in Ops, Created(o) PROVE PendingHasCause'
  BY <1>14, Fields, RepliedTyped, CausesGo, CausesFinish DEF Created, Replied
<1>15. ASSUME NEW o \in Ops, Wrapped(o) PROVE PendingHasCause'
  BY <1>15, Fields, RepliedTyped, CausesGo, CausesFinish DEF Wrapped, Replied
<1>16. ASSUME NEW o \in Ops, Registered(o) PROVE PendingHasCause'
  BY <1>16, Fields, CausesGo, CausesFinish DEF Registered, Answered
<1>17. ASSUME NEW o \in Ops, LoggedIn(o) PROVE PendingHasCause'
  BY <1>17, Fields, CausesGo, CausesFinish DEF LoggedIn, Answered
<1>18. ASSUME NEW o \in Ops, Unlocked(o) PROVE PendingHasCause'
  <2>1. op[o] # None /\ op[o].at = "unlock" /\ UNCHANGED gen
    BY <1>18 DEF Unlocked, Replied
  <2>2. CASE Finish(o, pending)
    BY <2>1, <2>2, CausesFinish
  <2>3. CASE Go(o, "session", None) /\ UNCHANGED pending
    BY <2>1, <2>3, CausesGo
  <2> QED
    BY <1>18, <2>2, <2>3 DEF Unlocked
<1>19. ASSUME NEW o \in Ops, SessionLoaded(o) PROVE PendingHasCause'
  BY <1>19, Fields, CausesGo, CausesFinish DEF SessionLoaded, Answered
<1>20. ASSUME NEW o \in Ops, SessionGone(o) PROVE PendingHasCause'
  <2>1. op[o] # None /\ op[o].tab \in Tabs /\ op[o].at = "session" /\ UNCHANGED gen
    BY <1>20, Fields DEF SessionGone, Answered
  <2>2. CASE signedIn[op[o].tab] /\ ~SignedOut(o)
    <3>1. pending' = [pending EXCEPT ![op[o].tab] = FALSE] /\ Go(o, "wipe", None)
      BY <1>20, <2>2 DEF SessionGone
    <3>2. \A t \in Tabs : pending'[t] => pending[t]
      BY <3>1 DEF ConsoleTypeOK
    <3> QED
      BY <2>1, <3>1, <3>2, CausesGo
  <2>3. CASE ~(signedIn[op[o].tab] /\ ~SignedOut(o))
    BY <1>20, <2>1, <2>3, CausesGo, CausesFinish DEF SessionGone
  <2> QED
    BY <2>2, <2>3
<1>21. ASSUME NEW o \in Ops, Wiped(o) PROVE PendingHasCause'
  <2>1. op[o] # None /\ op[o].at = "wipe" /\ UNCHANGED gen
    BY <1>21 DEF Wiped, Replied
  <2>2. CASE Finish(o, pending)
    BY <2>1, <2>2, CausesFinish
  <2>3. CASE Go(o, "reject", None) /\ UNCHANGED pending
    BY <2>1, <2>3, CausesGo
  <2> QED
    BY <1>21, <2>2, <2>3 DEF Wiped
<1>22. ASSUME NEW o \in Ops, Rejected(o) PROVE PendingHasCause'
  BY <1>22, Fields, CausesGo, CausesFinish DEF Rejected, Answered
<1>23. ASSUME NEW o \in Ops, LoggedOut(o) PROVE PendingHasCause'
  <2>1. op[o] # None /\ op[o].tab \in Tabs /\ UNCHANGED gen /\ Go(o, "lock", None)
        /\ pending' = [pending EXCEPT ![op[o].tab] = FALSE]
    BY <1>23, Fields DEF LoggedOut, Answered
  <2>2. ~pending'[op[o].tab] /\ \A t \in Tabs : pending'[t] => pending[t]
    BY <2>1 DEF ConsoleTypeOK
  <2> QED
    BY <2>1, <2>2, CausesGo
<1>24. ASSUME NEW o \in Ops, Locked(o) PROVE PendingHasCause'
  BY <1>24, Fields, RepliedTyped, CausesGo, CausesFinish DEF Locked, Replied
<1>25. ASSUME NEW o \in Ops, Sealed(o) PROVE PendingHasCause'
  BY <1>25, Fields, RepliedTyped, CausesGo, CausesFinish DEF Sealed, Replied
<1>26. ASSUME NEW o \in Ops, Saves(o) PROVE PendingHasCause'
  <2>1. op[o] # None /\ op[o].at \in {"get", "put"}
    BY <1>26 DEF Saves, Answered
  <2>2. CASE ~Live(o)
    BY <1>26, <2>1, <2>2, CausesFinish DEF Saves
  <2>3. CASE Live(o) /\ op[o].answer = "yes"
    <3>1. Go(o, "put", op[o].key) /\ UNCHANGED << pending, gen >>
      BY <1>26, <2>3 DEF Saves
    <3> QED
      BY <2>1, <3>1, Fields, CausesGo
  <2>4. CASE Live(o) /\ op[o].answer # "yes"
    <3> DEFINE f == [op[o] EXCEPT !.kind = "signOut", !.at = "logout",
                                  !.gen = gen[op[o].tab] + 1, !.key = None, !.answer = None]
    <3>1. op[o].tab \in Tabs /\ gen[op[o].tab] + 1 \in Nat /\ op[o] \in UnderWay
      BY <2>1, Fields DEF ConsoleTypeOK
    <3>2. op' = [op EXCEPT ![o] = f] /\ gen' = [gen EXCEPT ![op[o].tab] = @ + 1]
          /\ pending' = [pending EXCEPT ![op[o].tab] = TRUE]
      BY <1>26, <2>4 DEF Saves
    <3>3. f \in UnderWay /\ f.tab = op[o].tab /\ f.kind = "signOut" /\ f.at = "logout"
      BY <3>1 DEF UnderWay
    <3>4. f # None
      BY <3>3
    <3> HIDE DEF f
    <3>5. \A p \in Ops : op'[p] = IF p = o THEN f ELSE op[p]
      BY <3>2 DEF ConsoleTypeOK
    <3>6. PICK t \in Tabs : t = op[o].tab
      BY <3>1
    <3>7. Awaits(t, o)'
      BY <3>3, <3>4, <3>5, <3>6 DEF Awaits
    <3>8. \A u \in Tabs \ {t} : pending'[u] = pending[u] /\ gen'[u] = gen[u]
      BY <3>2, <3>6 DEF ConsoleTypeOK
    <3>9. \A u \in Tabs \ {t}, p \in Ops : Awaits(u, p) => Awaits(u, p)'
      BY <3>5, <3>6, <3>8 DEF Awaits
    <3> QED
      BY <3>7, <3>8, <3>9 DEF PendingHasCause
  <2> QED
    BY <2>2, <2>3, <2>4
<1>27. ASSUME NEW o \in Ops, GivesUp(o) PROVE PendingHasCause'
  BY <1>27, Fields, CausesGo, CausesFinish DEF GivesUp, Answered
<1>28. ASSUME NEW o \in Ops, NetworkFails(o) PROVE PendingHasCause'
  BY <1>28, CausesAnswered DEF NetworkFails, Asked, OnlyServer
<1>29. ASSUME NEW o \in Ops, ServeStart(o) PROVE PendingHasCause'
  <2> DEFINE f == [op[o] EXCEPT !.answer = IF wraps = {} \/ sess THEN "yes" ELSE "no", !.add = wraps # {}]
  <2>1. op[o] # None /\ op[o] \in UnderWay /\ (wraps # {}) \in BOOLEAN /\ UNCHANGED << pending, gen >>
    BY <1>29, Fields DEF ServeStart, Asked, OnlyServer
  <2>2. op' = [op EXCEPT ![o] = f]
    BY <1>29 DEF ServeStart, ConsoleTypeOK
  <2>3. f \in UnderWay /\ f.tab = op[o].tab /\ f.kind = op[o].kind /\ f.gen = op[o].gen /\ f.at = op[o].at
    BY <2>1 DEF UnderWay
  <2> HIDE DEF f
  <2> QED
    BY <2>1, <2>2, <2>3, CausesGoOn
<1>30. ASSUME NEW o \in Ops, ServeRegister(o) PROVE PendingHasCause'
  BY <1>30, CausesAnswered DEF ServeRegister, Asked, OnlyServer
<1>31. ASSUME NEW o \in Ops, ServeLogin(o) PROVE PendingHasCause'
  <2>1. op[o] # None /\ op[o] \in UnderWay /\ UNCHANGED << pending, gen >>
    BY <1>31, Fields DEF ServeLogin, Asked, OnlyServer
  <2>2. CASE Says(o, {"no"})
    BY <2>1, <2>2, CausesAnswered
  <2>3. ASSUME NEW k \in wraps, NEW a \in {"yes", "lost"}, op' = [op EXCEPT ![o].answer = a, ![o].key = k]
        PROVE  PendingHasCause'
    <3> DEFINE f == [op[o] EXCEPT !.answer = a, !.key = k]
    <3>0. k \in Nat \cup {None}
      BY DEF ConsoleTypeOK
    <3>1. f \in UnderWay /\ f.tab = op[o].tab /\ f.kind = op[o].kind /\ f.gen = op[o].gen /\ f.at = op[o].at
      BY <2>1, <3>0 DEF UnderWay
    <3>2. op' = [op EXCEPT ![o] = f]
      BY <2>3 DEF ConsoleTypeOK
    <3> HIDE DEF f
    <3> QED
      BY <2>1, <3>1, <3>2, CausesGoOn
  <2> QED
    BY <1>31, <2>2, <2>3 DEF ServeLogin
<1>32. ASSUME NEW o \in Ops, ServeSession(o) PROVE PendingHasCause'
  BY <1>32, CausesAnswered DEF ServeSession, Asked, OnlyServer
<1>33. ASSUME NEW o \in Ops, ServeLogout(o) PROVE PendingHasCause'
  BY <1>33, CausesAnswered DEF ServeLogout, Asked, OnlyServer
<1>34. ASSUME NEW o \in Ops, ServeVault(o) PROVE PendingHasCause'
  BY <1>34, CausesAnswered DEF ServeVault, Asked, OnlyServer
<1>35. CASE UNCHANGED vars
  BY <1>35, CausesUntouched DEF vars
<1> QED
  BY <1>1, <1>2, <1>3, <1>4, <1>5, <1>6, <1>7, <1>8, <1>9, <1>10, <1>11, <1>12, <1>13, <1>14,
     <1>15, <1>16, <1>17, <1>18, <1>19, <1>20, <1>21, <1>22, <1>23, <1>24, <1>25, <1>26, <1>27,
     <1>28, <1>29, <1>30, <1>31, <1>32, <1>33, <1>34, <1>35 DEF Next

-----------------------------------------------------------------------------
(* One key. What the pieces of the actions do to the function they belong to. *)

LEMMA GoIs ==
  ASSUME ConsoleTypeOK, NEW o \in Ops, op[o] # None, NEW at \in Requests \cup Replies, NEW k \in Keys,
         Go(o, at, k)
  PROVE  /\ op'[o] # None /\ op'[o].tab = op[o].tab /\ op'[o].kind = op[o].kind
         /\ op'[o].at = at /\ op'[o].key = k /\ op'[o].answer = None /\ op'[o].add = op[o].add
         /\ \A p \in Ops \ {o} : op'[p] = op[p]
<1> DEFINE f == [op[o] EXCEPT !.at = at, !.key = k, !.answer = None]
<1>1. op[o] \in UnderWay
  BY Fields
<1>2. /\ f \in UnderWay /\ f.tab = op[o].tab /\ f.kind = op[o].kind /\ f.add = op[o].add
      /\ f.at = at /\ f.key = k /\ f.answer = None
  BY <1>1 DEF UnderWay, Keys
<1>3. op'[o] = f /\ \A p \in Ops \ {o} : op'[p] = op[p]
  BY DEF Go, ConsoleTypeOK
<1> HIDE DEF f
<1> QED
  BY <1>2, <1>3, NoneIsNothing

LEMMA SaysIs ==
  ASSUME ConsoleTypeOK, NEW o \in Ops, op[o] # None, NEW as \in SUBSET Answers, Says(o, as)
  PROVE  /\ op'[o] # None /\ op'[o].tab = op[o].tab /\ op'[o].kind = op[o].kind
         /\ op'[o].at = op[o].at /\ op'[o].key = op[o].key /\ op'[o].answer \in as
         /\ op'[o].add = op[o].add
         /\ \A p \in Ops \ {o} : op'[p] = op[p]
<1>1. PICK a \in as : op' = [op EXCEPT ![o].answer = a]
  BY DEF Says
<1> DEFINE f == [op[o] EXCEPT !.answer = a]
<1>2. op[o] \in UnderWay
  BY Fields
<1>3. /\ f \in UnderWay /\ f.tab = op[o].tab /\ f.kind = op[o].kind /\ f.add = op[o].add
      /\ f.at = op[o].at /\ f.key = op[o].key /\ f.answer = a
  BY <1>2 DEF UnderWay
<1>4. op'[o] = f /\ \A p \in Ops \ {o} : op'[p] = op[p]
  BY <1>1 DEF ConsoleTypeOK
<1> HIDE DEF f
<1> QED
  BY <1>3, <1>4, NoneIsNothing

LEMMA BeginIs ==
  ASSUME ConsoleTypeOK, NEW o \in Ops, NEW t \in Tabs, NEW kind \in Kinds,
         NEW at \in Requests \cup Replies, NEW g \in Nat, Begin(o, t, kind, at, g)
  PROVE  /\ op[o] = None
         /\ op'[o] # None /\ op'[o].tab = t /\ op'[o].kind = kind /\ op'[o].at = at
         /\ op'[o].key = None /\ op'[o].answer = None
         /\ \A p \in Ops \ {o} : op'[p] = op[p]
<1> DEFINE f == [tab |-> t, kind |-> kind, at |-> at, gen |-> g, store |-> store[t],
                 key |-> None, answer |-> None, add |-> FALSE]
<1>1. f \in UnderWay
  BY DEF UnderWay, ConsoleTypeOK
<1>2. op[o] = None /\ op'[o] = f /\ \A p \in Ops \ {o} : op'[p] = op[p]
  BY DEF Begin, ConsoleTypeOK
<1>3. f.tab = t /\ f.kind = kind /\ f.at = at /\ f.key = None /\ f.answer = None
  OBVIOUS
<1> HIDE DEF f
<1> QED
  BY <1>1, <1>2, <1>3, NoneIsNothing

LEMMA FinishIs ==
  ASSUME ConsoleTypeOK, NEW o \in Ops, NEW flags, Finish(o, flags)
  PROVE  op'[o] = None /\ \A p \in Ops \ {o} : op'[p] = op[p]
BY DEF Finish, ConsoleTypeOK

(* Queues *)

LEMMA TailQueue ==
  ASSUME NEW S, NEW q \in Seq(S), q # << >>
  PROVE  /\ Head(q) \in Range(q) /\ Range(Tail(q)) \subseteq Range(q)
         /\ \A o : Once(q, o) => Once(Tail(q), o)
         /\ \A o : Once(q, o) /\ Head(q).by = o => ~Names(Tail(q), o)
<1>1. /\ Head(q) = q[1] /\ 1 \in DOMAIN q
      /\ \A i \in DOMAIN Tail(q) : i + 1 \in DOMAIN q /\ Tail(q)[i] = q[i + 1] /\ i + 1 # 1
  BY Rest
<1>2. DOMAIN Tail(q) \subseteq Int
  BY HeadTailProperties
<1>3. Range(Tail(q)) \subseteq Range(q) /\ Head(q) \in Range(q)
  BY <1>1 DEF Range
<1>4. ASSUME NEW o, Once(q, o) PROVE Once(Tail(q), o)
  <2> SUFFICES ASSUME NEW i \in DOMAIN Tail(q), NEW j \in DOMAIN Tail(q),
                      Tail(q)[i].by = o, Tail(q)[j].by = o
               PROVE  i = j
    BY DEF Once
  <2>1. i + 1 = j + 1
    BY <1>1, <1>4 DEF Once
  <2> QED
    BY <1>2, <2>1
<1>5. ASSUME NEW o, Once(q, o), Head(q).by = o, NEW m \in Range(Tail(q)), m.by = o PROVE FALSE
  <2>1. PICK i \in DOMAIN Tail(q) : m = Tail(q)[i]
    BY DEF Range
  <2>2. i + 1 = 1
    BY <1>1, <1>5, <2>1 DEF Once
  <2> QED
    BY <1>1, <2>1, <2>2
<1> QED
  BY <1>3, <1>4, <1>5 DEF Names

LEMMA AppendQueue ==
  ASSUME NEW S, NEW q \in Seq(S), NEW m
  PROVE  /\ Range(Append(q, m)) = Range(q) \cup {m}
         /\ \A o : Once(q, o) /\ (m.by # o \/ ~Names(q, o)) => Once(Append(q, m), o)
<1>1. /\ DOMAIN q = 1..Len(q) /\ DOMAIN Append(q, m) = 1..(Len(q) + 1) /\ Len(q) \in Nat
      /\ \A i \in 1..Len(q) : Append(q, m)[i] = q[i]
      /\ Append(q, m)[Len(q) + 1] = m
  OBVIOUS
<1>2. Range(Append(q, m)) = Range(q) \cup {m}
  <2>1. \A i \in 1..(Len(q) + 1) : i \in 1..Len(q) \/ i = Len(q) + 1
    BY <1>1
  <2>2. Len(q) + 1 \in 1..(Len(q) + 1) /\ 1..Len(q) \subseteq 1..(Len(q) + 1)
    BY <1>1
  <2> QED
    BY <1>1, <2>1, <2>2 DEF Range
<1>3. ASSUME NEW o, Once(q, o), m.by # o \/ ~Names(q, o) PROVE Once(Append(q, m), o)
  <2> SUFFICES ASSUME NEW i \in DOMAIN Append(q, m), NEW j \in DOMAIN Append(q, m),
                      Append(q, m)[i].by = o, Append(q, m)[j].by = o
               PROVE  i = j
    BY DEF Once
  <2>1. (i \in 1..Len(q) \/ i = Len(q) + 1) /\ (j \in 1..Len(q) \/ j = Len(q) + 1)
    BY <1>1
  <2>2. ASSUME NEW n \in 1..Len(q), q[n].by = o PROVE Names(q, o) /\ m.by # o
    BY <1>1, <1>3, <2>2 DEF Names, Range
  <2>3. CASE i \in 1..Len(q) /\ j \in 1..Len(q)
    BY <1>1, <1>3, <2>3 DEF Once
  <2>4. CASE i \in 1..Len(q) /\ j = Len(q) + 1
    BY <1>1, <2>2, <2>4
  <2>5. CASE i = Len(q) + 1 /\ j \in 1..Len(q)
    BY <1>1, <2>2, <2>5
  <2>6. CASE i = Len(q) + 1 /\ j = Len(q) + 1
    BY <2>6
  <2> QED
    BY <2>1, <2>3, <2>4, <2>5, <2>6
<1> QED
  BY <1>2, <1>3

LEMMA ShortQueue ==
  /\ Range(<< >>) = {} /\ \A o : Once(<< >>, o)
  /\ \A m : Range(<< m >>) = {m} /\ \A o : Once(<< m >>, o)
<1>1. DOMAIN << >> = {}
  OBVIOUS
<1>2. ASSUME NEW m PROVE DOMAIN << m >> = {1} /\ << m >>[1] = m
  OBVIOUS
<1> QED
  BY <1>1, <1>2 DEF Range, Once

(* Who a queue names *)

\* One that does not await the worker is named by nothing.
LEMMA Silent ==
  ASSUME ConsoleTypeOK, ByFunction, NEW o \in Ops, op[o] = None \/ op[o].at \in Requests
  PROVE  \A t \in Tabs : ~Names(toWorker[t], o) /\ ~Names(fromWorker[t], o)
BY DEF ByFunction, Expects, Names, Requests, Replies

\* One that gets its reply is named by nothing else.
LEMMA Heeded ==
  ASSUME ConsoleTypeOK, ByFunction, NEW o \in Ops, NEW at, Replied(o, at)
  PROVE  /\ \A t \in Tabs : ~Names(toWorker[t], o) /\ ~Names(fromWorker'[t], o)
         /\ \A t \in Tabs : Range(fromWorker'[t]) \subseteq Range(fromWorker[t])
         /\ \A t \in Tabs, p \in Ops : Once(fromWorker'[t], p)
         /\ op[o] # None /\ op[o].at = at /\ op[o].tab \in Tabs
         /\ \E m \in Range(fromWorker[op[o].tab]) : m.by = o /\ ReplyKey(o) = m.key
<1>1. op[o] # None /\ op[o].tab \in Tabs /\ op[o].at = at
  BY Fields DEF Replied
<1>2. PICK t \in Tabs : t = op[o].tab
  BY <1>1
<1> DEFINE q == fromWorker[t]
<1>3. q \in Seq(Reply) /\ q # << >> /\ Head(q).by = o /\ ReplyKey(o) = Head(q).key
      /\ fromWorker' = [fromWorker EXCEPT ![t] = Tail(q)]
  BY <1>2 DEF ConsoleTypeOK, Replied, ReplyKey, Adopt
<1>4. \A u \in Tabs : fromWorker'[u] = IF u = t THEN Tail(q) ELSE fromWorker[u]
  BY <1>3 DEF ConsoleTypeOK
<1>5. /\ Head(q) \in Range(q) /\ Range(Tail(q)) \subseteq Range(q)
      /\ \A p : Once(q, p) => Once(Tail(q), p)
      /\ Once(q, o) => ~Names(Tail(q), o)
  BY <1>3, TailQueue
<1>6. Names(q, o) /\ Once(q, o)
  BY <1>3, <1>5 DEF Names, ByFunction
<1>7. \A u \in Tabs : ~Names(toWorker[u], o)
  BY <1>2, <1>6 DEF ByFunction, Names, Expects
<1>8. \A u \in Tabs \ {t} : ~Names(fromWorker[u], o)
  BY <1>2 DEF ByFunction, Expects
<1> QED
  BY <1>1, <1>2, <1>3, <1>4, <1>5, <1>6, <1>7, <1>8 DEF ByFunction

LEMMA Posted ==
  ASSUME ConsoleTypeOK, ByFunction, NEW t \in Tabs, NEW m \in Message, Post(t, m),
         \A p \in Ops : m.by = p => ~Names(toWorker[t], p)
 
    PROVE   /\ \A u \in Tabs : Range(toWorker'[u]) \subseteq Range(toWorker[u]) \cup (IF u = t THEN {m} ELSE {})
         /\ \A u \in Tabs, p \in Ops : Once(toWorker'[u], p)
<1>1. \A u \in Tabs : toWorker'[u] = IF u = t THEN Append(toWorker[t], m) ELSE toWorker[u]
  BY DEF Post, ConsoleTypeOK
<1>2. toWorker[t] \in Seq(Message)
  BY DEF ConsoleTypeOK
<1>3. Range(Append(toWorker[t], m)) = Range(toWorker[t]) \cup {m}
      /\ \A p \in Ops : Once(Append(toWorker[t], m), p)
  BY <1>2, AppendQueue DEF ByFunction
<1> QED
  BY <1>1, <1>3 DEF ByFunction

\* A turn of one function: nothing names it, but what it posts now.
LEMMA TurnNamed ==
  ASSUME ConsoleTypeOK, ByFunction, NEW o \in Ops,
         \A p \in Ops \ {o} : op'[p] = op[p],
         \A t \in Tabs : ~Names(toWorker[t], o) /\ ~Names(fromWorker'[t], o),
         \A t \in Tabs : Range(fromWorker'[t]) \subseteq Range(fromWorker[t]),
         \A t \in Tabs, p \in Ops : Once(fromWorker'[t], p) /\ Once(toWorker'[t], p),
         \A t \in Tabs : \A m \in Range(toWorker'[t]) :
           \/ m \in Range(toWorker[t])
           \/ m.by = None
           \/ m.by = o /\ op'[o] # None /\ op'[o].tab = t /\ op'[o].at \in Replies
              /\ (op'[o].at = "create" => m.req = "create")
  PROVE  ByFunction'
<1> SUFFICES ASSUME NEW t \in Tabs, NEW p \in Ops
             PROVE  /\ \A m \in Range(toWorker'[t]) : m.by = p =>
                         Expects(p, t)' /\ (op'[p].at = "create" => m.req = "create")
                    /\ Names(fromWorker'[t], p) => Expects(p, t)' /\ ~Names(toWorker'[t], p)
  BY DEF ByFunction
<1>1. CASE p = o
  BY <1>1, NoneIsNothing DEF Names, Expects
<1>2. CASE p # o
  <2>1. op'[p] = op[p]
    BY <1>2
  <2>2. \A m \in Range(toWorker'[t]) : m.by = p => m \in Range(toWorker[t])
    BY <1>2, NoneIsNothing
  <2>3. Names(fromWorker'[t], p) => Names(fromWorker[t], p)
    BY DEF Names
  <2>4. Names(toWorker'[t], p) => Names(toWorker[t], p)
    BY <2>2 DEF Names
  <2> QED
    BY <2>1, <2>2, <2>3, <2>4 DEF ByFunction, Expects
<1> QED
  BY <1>1, <1>2

LEMMA TurnPlaced ==
  ASSUME InPlace, NEW o \in Ops, \A p \in Ops \ {o} : op'[p] = op[p], Placed(o)'
  PROVE  InPlace'
BY DEF InPlace, Placed

LEMMA TurnAccount ==
  ASSUME AfterAccount, NEW o \in Ops, \A p \in Ops \ {o} : op'[p] = op[p], Follows(o)',
         wraps \subseteq wraps', sess' => sess \/ wraps' # {},
         \A t \in Tabs : signedIn'[t] => signedIn[t] \/ wraps' # {},
         \A t \in Tabs : \A m \in Range(toWorker'[t]) :
           m \in Range(toWorker[t]) \/ m.req # "unlock" \/ m.key \in wraps'
  PROVE  AfterAccount'
<1>1. \A p \in Ops \ {o} : Follows(p)'
  BY DEF AfterAccount, Follows
<1>2. \A t \in Tabs : \A m \in Range(toWorker'[t]) : m.req = "unlock" => m.key \in wraps'
  BY DEF AfterAccount
<1> QED
  BY <1>1, <1>2 DEF AfterAccount

LEMMA TurnKey ==
  ASSUME ConsoleTypeOK, OneKey, NEW o \in Ops, \A p \in Ops \ {o} : op'[p] = op[p],
         \A t \in Tabs : ~Names(fromWorker'[t], o),
         \A t \in Tabs : Range(fromWorker'[t]) \subseteq Range(fromWorker[t]),
         UNCHANGED << key, wraps >>, sealed' \subseteq wraps,
         HasCreated(o)' => HasCreated(o), Uses(o)'
  PROVE  OneKey'
<1>1. \A p \in Ops \ {o} : HasCreated(p)' => HasCreated(p)
  BY Fields DEF HasCreated, Names
<1>2. \A p \in Ops \ {o} : Uses(p)'
  BY <1>1 DEF OneKey, Uses, Unposted
<1>3. ASSUME NEW t \in Tabs, NEW p \in Ops, NEW m \in Range(fromWorker'[t]), m.by = p
      PROVE  Answer(p, m)'
  <2>1. p # o /\ m \in Range(fromWorker[t])
    BY <1>3 DEF Names
  <2>2. Answer(p, m) /\ op'[p] = op[p]
    BY <1>3, <2>1 DEF OneKey
  <2> QED
    BY <2>2 DEF Answer
<1> QED
  BY <1>1, <1>2, <1>3 DEF OneKey

\* A turn of a function: what named it is gone, and only it is named by what is new.
Heeds(o) ==
  /\ \A t \in Tabs : ~Names(toWorker[t], o) /\ ~Names(fromWorker'[t], o)
  /\ \A t \in Tabs : Range(fromWorker'[t]) \subseteq Range(fromWorker[t])
  /\ \A t \in Tabs, p \in Ops : Once(fromWorker'[t], p)
Posts(o) ==
  /\ \A t \in Tabs, p \in Ops : Once(toWorker'[t], p)
  /\ \A t \in Tabs : \A m \in Range(toWorker'[t]) :
       \/ m \in Range(toWorker[t])
       \/ m.by = None /\ m.req # "unlock"
       \/ /\ m.by = o /\ op'[o] # None /\ op'[o].tab = t /\ op'[o].at \in Replies
          /\ op'[o].at = "create" => m.req = "create"
          /\ m.req = "unlock" => m.key \in wraps
Turns(o) ==
  /\ \A p \in Ops \ {o} : op'[p] = op[p]
  /\ Heeds(o) /\ Posts(o)
  /\ UNCHANGED << key, wraps, raced >>
  /\ Placed(o)' /\ Follows(o)'

LEMMA HeedsNothing ==
  ASSUME ConsoleTypeOK, ByFunction, NEW o \in Ops, op[o] = None \/ op[o].at \in Requests,
         UNCHANGED fromWorker
  PROVE  Heeds(o)
BY Silent DEF Heeds, ByFunction

LEMMA HeedsReply ==
  ASSUME ConsoleTypeOK, ByFunction, NEW o \in Ops, NEW at, Replied(o, at)
  PROVE  Heeds(o)
BY Heeded DEF Heeds

LEMMA PostsNothing ==
  ASSUME ByFunction, NEW o \in Ops, UNCHANGED toWorker
  PROVE  Posts(o)
BY DEF Posts, ByFunction

LEMMA PostsLock ==
  ASSUME ConsoleTypeOK, ByFunction, NEW o \in Ops, NEW t \in Tabs, Post(t, Lock)
  PROVE  Posts(o)
<1>1. Lock \in Message /\ Lock.by = None /\ Lock.req = "lock"
  BY MsgTyped DEF Lock, Msg
<1>2. \A p \in Ops : Lock.by # p
  BY <1>1, NoneIsNothing
<1> QED
  BY <1>1, <1>2, Posted DEF Posts

LEMMA PostsOwn ==
  ASSUME ConsoleTypeOK, ByFunction, NEW o \in Ops, NEW t \in Tabs, NEW r, NEW k,
         Msg(r, o, k) \in Message, Post(t, Msg(r, o, k)), Heeds(o),
         op'[o] # None, op'[o].tab = t, op'[o].at \in Replies, op'[o].at = "create" => r = "create",
         r = "unlock" => k \in wraps
  PROVE  Posts(o)
<1> DEFINE m == Msg(r, o, k)
<1>1. m.by = o /\ m.req = r /\ m.key = k
  BY DEF Msg
<1>2. m \in Message /\ Post(t, m)
  OBVIOUS
<1> HIDE DEF m
<1>3. \A p \in Ops : m.by = p => ~Names(toWorker[t], p)
  BY <1>1 DEF Heeds
<1>4. /\ \A u \in Tabs : Range(toWorker'[u]) \subseteq Range(toWorker[u]) \cup (IF u = t THEN {m} ELSE {})
      /\ \A u \in Tabs, p \in Ops : Once(toWorker'[u], p)
  BY <1>2, <1>3, Posted
<1> QED
  BY <1>1, <1>4 DEF Posts

LEMMA TurnStep ==
  ASSUME KeysInv, ConsoleTypeOK', NEW o \in Ops, Turns(o),
         sess' => sess \/ wraps # {},
         \A t \in Tabs : signedIn'[t] => signedIn[t] \/ wraps # {},
         ~raced => sealed' \subseteq wraps /\ (HasCreated(o)' => HasCreated(o)) /\ Uses(o)'
  PROVE  KeysInv'
<1>0. ConsoleTypeOK /\ InPlace /\ ByFunction /\ AfterAccount /\ (~raced => OneKey)
  BY DEF KeysInv
<1>p. Heeds(o) /\ Posts(o) /\ wraps' = wraps
  BY DEF Turns
<1>1. InPlace'
  BY <1>0, TurnPlaced DEF Turns
<1>2. ByFunction'
  <2>1. \A t \in Tabs : \A m \in Range(toWorker'[t]) :
           \/ m \in Range(toWorker[t])
           \/ m.by = None
           \/ m.by = o /\ op'[o] # None /\ op'[o].tab = t /\ op'[o].at \in Replies
              /\ (op'[o].at = "create" => m.req = "create")
    BY <1>p DEF Posts
  <2>2. \A t \in Tabs, p \in Ops : Once(fromWorker'[t], p) /\ Once(toWorker'[t], p)
    BY DEF Turns, Posts, Heeds
  <2>3. /\ \A t \in Tabs : ~Names(toWorker[t], o) /\ ~Names(fromWorker'[t], o)
        /\ \A t \in Tabs : Range(fromWorker'[t]) \subseteq Range(fromWorker[t])
        /\ \A p \in Ops \ {o} : op'[p] = op[p]
    BY DEF Turns, Heeds
  <2> QED
    BY <1>0, <2>1, <2>2, <2>3, TurnNamed
<1>3. AfterAccount'
  <2>1. \A t \in Tabs : \A m \in Range(toWorker'[t]) :
           m \in Range(toWorker[t]) \/ m.req # "unlock" \/ m.key \in wraps'
    <3>2. \A t \in Tabs : \A m \in Range(toWorker'[t]) :
            m \in Range(toWorker[t]) \/ m.req # "unlock" \/ m.key \in wraps
      BY <1>p DEF Posts
    <3> QED
      BY <1>p, <3>2
  <2>2. /\ \A p \in Ops \ {o} : op'[p] = op[p]
        /\ wraps' = wraps /\ Follows(o)'
    BY DEF Turns
  <2> QED
    BY <1>0, <2>1, <2>2, TurnAccount
<1>4. ~raced' => OneKey'
  BY <1>0, TurnKey DEF Turns, Heeds
<1> QED
  BY <1>1, <1>2, <1>3, <1>4 DEF KeysInv

\* A step of no function.
LEMMA AsideStep ==
  ASSUME KeysInv, ConsoleTypeOK', UNCHANGED << op, wraps, sealed, raced, signedIn >>,
         key' \in {key, None}, sess' => sess,
         \A t \in Tabs : \A m \in Range(fromWorker'[t]) : m \in Range(fromWorker[t]) \/ m.by = None,
         \A t \in Tabs : \A m \in Range(toWorker'[t]) :
           m \in Range(toWorker[t]) \/ (m.by = None /\ m.req # "unlock"),
         \A t \in Tabs, p \in Ops : Once(fromWorker'[t], p) /\ Once(toWorker'[t], p)
  PROVE  KeysInv'
<1>0. ConsoleTypeOK /\ InPlace /\ ByFunction /\ AfterAccount /\ (~raced => OneKey)
  BY DEF KeysInv
<1>1. InPlace'
  BY <1>0 DEF InPlace, Placed
<1>2. \A t \in Tabs, p \in Ops : /\ Names(fromWorker'[t], p) => Names(fromWorker[t], p)
                                 /\ Names(toWorker'[t], p) => Names(toWorker[t], p)
  BY NoneIsNothing DEF Names
<1>3. ByFunction'
  <2>1. \A t \in Tabs, p \in Ops : \A m \in Range(toWorker'[t]) : m.by = p => m \in Range(toWorker[t])
    BY NoneIsNothing
  <2> QED
    BY <1>0, <1>2, <2>1 DEF ByFunction, Expects
<1>4. AfterAccount'
  BY <1>0 DEF AfterAccount, Follows
<1>5. ~raced' => OneKey'
  <2> SUFFICES ASSUME ~raced PROVE OneKey'
    OBVIOUS
  <2>1. \A p \in Ops : HasCreated(p)' => HasCreated(p)
    BY <1>0, <1>2, Fields DEF HasCreated
  <2>2. \A p \in Ops : Uses(p)'
    BY <1>0, <2>1 DEF OneKey, Uses, Unposted
  <2>3. ASSUME NEW t \in Tabs, NEW p \in Ops, NEW m \in Range(fromWorker'[t]), m.by = p
        PROVE  Answer(p, m)'
    <3>1. m \in Range(fromWorker[t])
      BY <2>3, NoneIsNothing
    <3>2. Answer(p, m)
      BY <1>0, <2>3, <3>1 DEF OneKey
    <3> QED
      BY <3>2 DEF Answer
  <2> QED
    BY <1>0, <2>1, <2>2, <2>3 DEF OneKey
<1> QED
  BY <1>1, <1>3, <1>4, <1>5 DEF KeysInv

\* A function ends, begins, goes on, or is answered.
LEMMA EndStep ==
  ASSUME KeysInv, ConsoleTypeOK', NEW o \in Ops, Heeds(o), Posts(o),
         op'[o] = None, \A p \in Ops \ {o} : op'[p] = op[p],
         UNCHANGED << key, wraps, sealed, raced, sess >>,
         \A t \in Tabs : signedIn'[t] => signedIn[t] \/ wraps # {}
  PROVE  KeysInv'
<1>1. Placed(o)' /\ Follows(o)' /\ Uses(o)' /\ ~HasCreated(o)'
  BY DEF Placed, Follows, Uses, HasCreated
<1>2. Turns(o)
  BY <1>1 DEF Turns
<1>3. ~raced => sealed' \subseteq wraps
  BY DEF KeysInv, OneKey
<1> QED
  BY <1>1, <1>2, <1>3, TurnStep

LEMMA StartStep ==
  ASSUME KeysInv, ConsoleTypeOK', NEW o \in Ops, Heeds(o), Posts(o),
         op[o] = None, op'[o] # None, op'[o].tab \in Tabs, op'[o].answer = None,
         \A p \in Ops \ {o} : op'[p] = op[p],
         \/ op'[o].kind \in Registers /\ op'[o].at \in {"start", "create"}
         \/ op'[o].kind = "login" /\ op'[o].at = "post" /\ wraps # {}
         \/ op'[o].kind = "save" /\ op'[o].at = "seal" /\ wraps # {}
         \/ op'[o].kind = "signOut" /\ op'[o].at = "logout",
         UNCHANGED << key, wraps, sealed, raced, sess, signedIn >>
  PROVE  KeysInv'
<1>1. Placed(o)'
  BY DEF Placed, Requests, Registers
<1>2. Follows(o)'
  BY NoneIsNothing DEF Follows, Answers, Registers
<1>3. ~HasCreated(o)'
  BY DEF Heeds, HasCreated, Registers
<1>4. Uses(o)'
  BY <1>3 DEF Uses, Registers
<1>5. Turns(o)
  BY <1>1, <1>2 DEF Turns
<1>6. ~raced => sealed' \subseteq wraps
  BY DEF KeysInv, OneKey
<1> QED
  BY <1>3, <1>4, <1>5, <1>6, TurnStep

LEMMA OnStep ==
  ASSUME KeysInv, ConsoleTypeOK', NEW o \in Ops, Heeds(o), Posts(o),
         op[o] # None, op'[o] # None, op'[o].tab = op[o].tab, op'[o].kind = op[o].kind,
         op'[o].answer = None, \A p \in Ops \ {o} : op'[p] = op[p],
         Placed(o)',
         ~raced => (HasCreated(o)' => HasCreated(o)) /\ Uses(o)',
         UNCHANGED << key, wraps, sealed, raced, sess >>,
         \A t \in Tabs : signedIn'[t] => signedIn[t] \/ wraps # {}
  PROVE  KeysInv'
<1>1. Follows(o)
  BY DEF KeysInv, AfterAccount
<1>2. Follows(o)'
  BY <1>1, NoneIsNothing DEF Follows, Answers
<1>3. Turns(o)
  BY <1>2 DEF Turns
<1>4. ~raced => sealed' \subseteq wraps
  BY DEF KeysInv, OneKey
<1> QED
  BY <1>3, <1>4, TurnStep

LEMMA ServedStep ==
  ASSUME KeysInv, ConsoleTypeOK', NEW o \in Ops, op[o] # None, op[o].at \in Requests,
         op'[o] # None, op'[o].tab = op[o].tab, op'[o].kind = op[o].kind, op'[o].at = op[o].at,
         op'[o].key = op[o].key \/ op[o].kind = "login", op'[o].answer # None,
         \A p \in Ops \ {o} : op'[p] = op[p],
         UNCHANGED << ports, key, wraps, raced, signedIn >>, sess' => sess \/ wraps # {},
         op[o].at = "session" /\ op'[o].answer = "yes" => sess,
         op[o].kind = "login" /\ op[o].at = "post" /\ op'[o].answer = "yes" => op'[o].key \in wraps,
         sealed' = sealed \/ (op[o].kind = "save" /\ op[o].at = "put" /\ sealed' = sealed \cup {op[o].key})
  PROVE  KeysInv'
<1>0. ConsoleTypeOK /\ InPlace /\ ByFunction /\ AfterAccount /\ (~raced => OneKey)
  BY DEF KeysInv
<1>1. Heeds(o) /\ Posts(o)
  BY <1>0, HeedsNothing, PostsNothing DEF ports
<1>2. Placed(o)'
  BY <1>0 DEF InPlace, Placed
<1>3. Follows(o)'
  <2>1. Follows(o)
    BY <1>0 DEF AfterAccount
  <2> QED
    BY <1>0, <2>1 DEF AfterAccount, Follows
<1>4. Turns(o)
  BY <1>1, <1>2, <1>3 DEF Turns
<1>5. ASSUME ~raced PROVE sealed' \subseteq wraps /\ (HasCreated(o)' => HasCreated(o)) /\ Uses(o)'
  <2>1. Uses(o) /\ sealed \subseteq wraps
    BY <1>0, <1>5 DEF OneKey
  <2>2. sealed' \subseteq wraps
    BY <2>1 DEF Uses
  <2>3. HasCreated(o)' => HasCreated(o)
    BY DEF HasCreated, ports, Requests
  <2>4. ~Unposted(o)'
    BY DEF Unposted, Requests
  <2>5. op'[o].kind = "save" /\ op'[o].at # "seal" => op'[o].key \in wraps'
    BY <2>1 DEF Uses
  <2> QED
    BY <2>2, <2>3, <2>4, <2>5 DEF Uses
<1> QED
  BY <1>4, <1>5, TurnStep

LEMMA KeysInit == Init => KeysInv
<1> SUFFICES ASSUME Init PROVE KeysInv
  OBVIOUS
<1>1. ConsoleTypeOK
  BY TypedInit
<1>2. PICK vault, in \in BOOLEAN :
    /\ in => vault
    /\ key = (IF in THEN 1 ELSE None) /\ sess = in
    /\ wraps = (IF vault THEN {1} ELSE {}) /\ sealed = wraps
    /\ signedIn = [t \in Tabs |-> in]
  BY DEF Init
<1>3. /\ \A t \in Tabs : toWorker[t] = << >> /\ fromWorker[t] = << >>
      /\ \A o \in Ops : op[o] = None
  BY DEF Init
<1>4. \A t \in Tabs, o \in Ops : /\ ~Names(toWorker[t], o) /\ ~Names(fromWorker[t], o)
                                 /\ Once(toWorker[t], o) /\ Once(fromWorker[t], o)
  BY <1>3, ShortQueue DEF Names
<1>5. \A t \in Tabs : Range(toWorker[t]) = {} /\ Range(fromWorker[t]) = {}
  BY <1>3, ShortQueue
<1>6. InPlace /\ ByFunction
  BY <1>3, <1>4, <1>5 DEF InPlace, Placed, ByFunction
<1>7. (in => vault) /\ in \in BOOLEAN /\ vault \in BOOLEAN
      /\ key = (IF in THEN 1 ELSE None) /\ sess = in
      /\ wraps = (IF vault THEN {1} ELSE {}) /\ sealed = wraps
      /\ signedIn = [t \in Tabs |-> in]
  BY <1>2
<1>8. AfterAccount
  BY <1>3, <1>5, <1>7 DEF AfterAccount, Follows
<1>9. OneKey
  BY <1>3, <1>5, <1>7 DEF OneKey, Uses, HasCreated
<1> QED
  BY <1>1, <1>6, <1>8, <1>9 DEF KeysInv


LEMMA HandleStep ==
  ASSUME KeysInv, ConsoleTypeOK', NEW t \in Tabs, Handle(t)
  PROVE  KeysInv'
<1> USE DEF worker, ports, server, screens
<1>0. ConsoleTypeOK /\ InPlace /\ ByFunction /\ AfterAccount /\ (~raced => OneKey)
  BY DEF KeysInv
<1> DEFINE m == Head(toWorker[t])
           reply == [by |-> m.by, key |-> KeyAfter(m), opened |-> m.req = "open" /\ KeyAfter(m) # None]
<1>1. /\ toWorker[t] \in Seq(Message) /\ toWorker[t] # << >> /\ m \in Range(toWorker[t])
      /\ Range(Tail(toWorker[t])) \subseteq Range(toWorker[t])
      /\ \A p \in Ops : /\ Once(Tail(toWorker[t]), p)
                        /\ m.by = p => ~Names(Tail(toWorker[t]), p) /\ Names(toWorker[t], p)
  <2>1. toWorker[t] \in Seq(Message) /\ toWorker[t] # << >>
    BY <1>0 DEF Handle, ConsoleTypeOK
  <2> QED
    BY <1>0, <2>1, TailQueue DEF ByFunction, Names
<1>2. /\ key' = KeyAfter(m)
      /\ raced' = (raced \/ (m.req = "create" /\ (wraps # {} \/ Registering # {m.by})))
      /\ UNCHANGED << sess, wraps, sealed, signedIn, op >>
      /\ fromWorker' = [u \in Tabs |-> IF u = t THEN Append(fromWorker[u], reply)
                                       ELSE Append(fromWorker[u], State(KeyAfter(m)))]
      /\ toWorker' = [toWorker EXCEPT ![t] = Tail(@)]
  BY DEF Handle
<1>3. /\ reply.by = m.by /\ reply.key = KeyAfter(m)
      /\ State(KeyAfter(m)).by = None
  BY DEF State
<1>4. \A u \in Tabs : toWorker'[u] = IF u = t THEN Tail(toWorker[t]) ELSE toWorker[u]
  BY <1>0, <1>2 DEF ConsoleTypeOK
<1> HIDE DEF m, reply
<1>5. \A u \in Tabs : fromWorker'[u] = Append(fromWorker[u], IF u = t THEN reply ELSE State(KeyAfter(m)))
  BY <1>2
<1>6. ASSUME NEW u \in Tabs
      PROVE  /\ Range(toWorker'[u]) \subseteq Range(toWorker[u])
             /\ \A n \in Range(fromWorker'[u]) :
                  n \in Range(fromWorker[u]) \/ (u = t /\ n = reply) \/ n.by = None
             /\ \A p \in Ops : Once(toWorker'[u], p) /\ Once(fromWorker'[u], p)
  <2> DEFINE s == IF u = t THEN reply ELSE State(KeyAfter(m))
  <2>1. fromWorker[u] \in Seq(Reply) /\ fromWorker'[u] = Append(fromWorker[u], s)
    BY <1>0, <1>5 DEF ConsoleTypeOK
  <2>2. (u = t /\ s = reply) \/ s.by = None
    BY <1>3
  <2>3. \A p \in Ops : s.by = p => u = t /\ m.by = p
    BY <1>3, NoneIsNothing
  <2> HIDE DEF s
  <2>4. \A p \in Ops : s.by # p \/ ~Names(fromWorker[u], p)
    BY <1>0, <1>1, <2>3 DEF ByFunction
  <2>5. Range(fromWorker'[u]) = Range(fromWorker[u]) \cup {s} /\ \A p \in Ops : Once(fromWorker'[u], p)
    BY <1>0, <2>1, <2>4, AppendQueue DEF ByFunction
  <2>6. Range(toWorker'[u]) \subseteq Range(toWorker[u]) /\ \A p \in Ops : Once(toWorker'[u], p)
    BY <1>0, <1>1, <1>4 DEF ByFunction
  <2> QED
    BY <2>2, <2>5, <2>6
<1>7. ASSUME NEW u \in Tabs, NEW p \in Ops
      PROVE  /\ Names(toWorker'[u], p) => Names(toWorker[u], p)
             /\ Names(fromWorker'[u], p) => Names(fromWorker[u], p) \/ (u = t /\ m.by = p)
  BY <1>3, <1>6, NoneIsNothing DEF Names
<1>8. InPlace' /\ AfterAccount'
  BY <1>0, <1>2, <1>6 DEF InPlace, Placed, AfterAccount, Follows
<1>9. ByFunction'
  <2> SUFFICES ASSUME NEW u \in Tabs, NEW p \in Ops
               PROVE  /\ \A n \in Range(toWorker'[u]) : n.by = p =>
                           Expects(p, u)' /\ (op'[p].at = "create" => n.req = "create")
                      /\ Names(fromWorker'[u], p) => Expects(p, u)' /\ ~Names(toWorker'[u], p)
    BY <1>6 DEF ByFunction
  <2>1. Expects(p, u)' = Expects(p, u) /\ op'[p] = op[p]
    BY <1>2 DEF Expects
  <2>2. \A n \in Range(toWorker'[u]) : n.by = p => Expects(p, u) /\ (op[p].at = "create" => n.req = "create")
    BY <1>0, <1>6 DEF ByFunction
  <2>3. CASE Names(fromWorker[u], p)
    BY <1>0, <1>7, <2>1, <2>2, <2>3 DEF ByFunction
  <2>4. CASE u = t /\ m.by = p
    BY <1>0, <1>1, <1>4, <2>1, <2>2, <2>4 DEF ByFunction
  <2> QED
    BY <1>7, <2>1, <2>2, <2>3, <2>4
<1>10. ASSUME ~raced' PROVE OneKey'
  <2>0. /\ ~raced /\ OneKey
        /\ m.req = "create" => wraps = {} /\ Registering = {m.by}
    BY <1>0, <1>2, <1>10 DEF ConsoleTypeOK
  <2>1. \A p \in Ops : m.by = p => Expects(p, t) /\ (op[p].at = "create" => m.req = "create")
    BY <1>0, <1>1 DEF ByFunction
  <2>2. m.req = "create" \/ key' \in {key, None} \/ (key' = m.key /\ m.key \in wraps)
    BY <1>0, <1>1, <1>2 DEF KeyAfter, Held, AfterAccount
  <2>3. \A p \in Ops : op[p] # None /\ op[p].kind \in Registers => p \in Registering
    BY <1>0, Fields DEF Registering, Of
  <2>4. ASSUME NEW p \in Ops, HasCreated(p)' PROVE HasCreated(p) \/ (m.by = p /\ m.req = "create")
    <3>1. HasCreated(p) \/ (Names(fromWorker'[op[p].tab], p) /\ ~Names(fromWorker[op[p].tab], p) /\ op[p].at = "create"
                            /\ op[p] # None)
      BY <1>2, <2>4 DEF HasCreated
    <3> QED
      BY <1>0, <1>7, <2>1, <3>1, Fields
  <2>5. ASSUME NEW p \in Ops, NEW q \in Ops, HasCreated(p)', HasCreated(q)' PROVE p = q
    <3>1. CASE m.req = "create"
      <4>1. p \in Registering /\ q \in Registering
        BY <1>2, <2>3, <2>5 DEF HasCreated
      <4> QED
        BY <2>0, <3>1, <4>1
    <3>2. CASE m.req # "create"
      BY <2>0, <2>4, <2>5, <3>2 DEF OneKey
    <3> QED
      BY <3>1, <3>2
  <2>6. ASSUME NEW p \in Ops PROVE Uses(p)'
    <3>1. op[p] # None /\ op[p].kind = "save" /\ op[p].at # "seal" => op[p].key \in wraps
      BY <2>0 DEF OneKey, Uses
    <3>2. ASSUME HasCreated(p)', Unposted(p)
          PROVE  wraps = {} /\ (op[p].at = "post" => key' \in {op[p].key, None})
      <4>1. CASE m.by = p
        <5>1. op[p].at # "post" /\ (HasCreated(p) \/ m.req = "create")
          BY <2>1, <2>4, <3>2, <4>1 DEF Expects, Replies
        <5> QED
          BY <2>0, <3>2, <5>1 DEF OneKey, Uses
      <4>2. CASE m.by # p
        <5>1. HasCreated(p)
          BY <2>4, <3>2, <4>2
        <5>2. wraps = {} /\ (op[p].at = "post" => key \in {op[p].key, None})
          BY <2>0, <3>2, <5>1 DEF OneKey, Uses
        <5>3. p \in Registering
          BY <2>3, <5>1 DEF HasCreated
        <5>4. m.req # "create"
          BY <2>0, <4>2, <5>3
        <5> QED
          BY <2>2, <5>2, <5>4
      <4> QED
        BY <4>1, <4>2
    <3>3. Unposted(p)' = Unposted(p)
      BY <1>2 DEF Unposted
    <3> QED
      BY <1>2, <3>1, <3>2, <3>3 DEF Uses
  <2>7. wraps # {} => key' \in wraps \cup {None}
    BY <2>0, <2>2 DEF OneKey
  <2>8. ASSUME NEW u \in Tabs, NEW p \in Ops, NEW n \in Range(fromWorker'[u]), n.by = p
        PROVE  Answer(p, n)'
    <3>1. CASE n \in Range(fromWorker[u])
      <4>1. Answer(p, n) /\ Names(fromWorker[u], p)
        BY <2>0, <2>8, <3>1 DEF OneKey, Names
      <4>2. Expects(p, u) /\ m.by # p
        BY <1>0, <1>1, <2>1, <4>1 DEF ByFunction, Expects
      <4>3. ASSUME op[p].at = "wrap" PROVE key' \in {n.key, None}
        <5>1. op[p].kind \in Registers /\ op[p] # None
          BY <1>0, <4>2, <4>3, Fields DEF InPlace, Placed, Expects, Requests, Kinds, SignIns
        <5>2. HasCreated(p) /\ Unposted(p)
          BY <4>3, <5>1 DEF HasCreated, Unposted
        <5>3. wraps = {}
          BY <2>0, <5>2 DEF OneKey, Uses
        <5>4. m.req # "create"
          BY <2>0, <2>3, <4>2, <5>1
        <5> QED
          BY <2>2, <4>1, <4>3, <5>3, <5>4 DEF Answer
      <4> QED
        BY <1>2, <4>1, <4>3 DEF Answer
    <3>2. CASE u = t /\ n = reply
      <4>1. n.key = key' /\ Expects(p, t) /\ m.by = p
        BY <1>2, <1>3, <2>1, <2>8, <3>2
      <4>2. ASSUME op[p].at = "seal" PROVE key' \in wraps \cup {None}
        <5>1. op[p].kind = "save" /\ op[p] # None
          BY <1>0, <4>1, <4>2, Fields DEF InPlace, Placed, Expects, Requests, Kinds, SignIns
        <5>2. wraps # {}
          BY <1>0, <5>1 DEF AfterAccount, Follows
        <5> QED
          BY <2>7, <5>2
      <4> QED
        BY <1>2, <4>1, <4>2 DEF Answer
    <3> QED
      BY <1>6, <2>8, <3>1, <3>2, NoneIsNothing
  <2>9. (\A k, l \in wraps' : k = l) /\ sealed' \subseteq wraps' /\ wraps' = wraps
    BY <1>2, <2>0 DEF OneKey
  <2> QED
    BY <2>5, <2>6, <2>7, <2>8, <2>9 DEF OneKey
<1> QED
  BY <1>8, <1>9, <1>10 DEF KeysInv

LEMMA RegisterStep ==
  ASSUME KeysInv, ConsoleTypeOK', NEW o \in Ops, ServeRegister(o)
  PROVE  KeysInv'
<1> USE DEF worker, ports, server, screens
<1>0. ConsoleTypeOK /\ InPlace /\ ByFunction /\ AfterAccount /\ (~raced => OneKey)
  BY DEF KeysInv
<1>1. /\ op[o] # None /\ op[o].kind \in Registers /\ op[o].at = "post" /\ op[o].answer = None
      /\ op[o].at \in Requests
      /\ UNCHANGED << ports, key, raced, signedIn, sealed >>
  BY DEF ServeRegister, Asked, OnlyServer, Requests
<1>2. PICK as \in { {"yes"}, {"lost"}, {"no"} } : Says(o, as)
  BY DEF ServeRegister
<1>3. /\ op'[o] # None /\ op'[o].tab = op[o].tab /\ op'[o].kind = op[o].kind
      /\ op'[o].at = op[o].at /\ op'[o].key = op[o].key /\ op'[o].answer \in as
      /\ \A p \in Ops \ {o} : op'[p] = op[p]
  BY <1>0, <1>1, <1>2, SaysIs DEF Answers
<1>4. op'[o].answer # None
  BY <1>3, NoneIsNothing DEF Answers
<1>5. CASE ~Granted(o)
  <2>1. UNCHANGED << wraps, sess >>
    BY <1>5 DEF ServeRegister
  <2> QED
    BY <1>0, <1>1, <1>3, <1>4, <2>1, ServedStep DEF Registers
<1>6. CASE Granted(o)
  <2>1. wraps' = wraps \cup {op[o].key}
    BY <1>6 DEF ServeRegister
  <2>2. Heeds(o) /\ Posts(o)
    BY <1>0, <1>1, HeedsNothing, PostsNothing
  <2>3. InPlace'
    <3>1. Placed(o)'
      BY <1>0, <1>1, <1>3 DEF InPlace, Placed, Registers
    <3> QED
      BY <1>0, <1>3, <3>1, TurnPlaced
  <2>4. ByFunction'
    <3>1. \A t \in Tabs, p \in Ops : Expects(p, t)' = Expects(p, t) /\ op'[p].at = op[p].at
      BY <1>1, <1>3 DEF Expects
    <3> QED
      BY <1>0, <1>1, <3>1 DEF ByFunction
  <2>5. AfterAccount'
    <3>1. Follows(o)'
      BY <1>1, <1>3, <2>1 DEF Follows, Registers
    <3> QED
      BY <1>0, <1>1, <1>3, <2>1, <3>1, TurnAccount
  <2>6. ASSUME ~raced' PROVE OneKey'
    <3>1. OneKey /\ HasCreated(o) /\ Unposted(o)
      BY <1>0, <1>1, <2>6 DEF HasCreated, Unposted
    <3>2. wraps = {} /\ key \in {op[o].key, None} /\ sealed = {}
      BY <1>1, <3>1 DEF OneKey, Uses
    <3>3. \A p \in Ops : op'[p] # None => op[p] # None /\ op'[p].tab = op[p].tab
                          /\ op'[p].kind = op[p].kind /\ op'[p].at = op[p].at /\ op'[p].key = op[p].key
      BY <1>1, <1>3
    <3>4. \A p \in Ops : HasCreated(p)' => HasCreated(p)
      BY <1>1, <3>3 DEF HasCreated
    <3>5. ~Unposted(o)'
      BY <1>1, <1>3, <1>4 DEF Unposted
    <3>6. \A p \in Ops : Uses(p)'
      BY <2>1, <3>1, <3>3, <3>4, <3>5 DEF OneKey, Uses
    <3>7. ASSUME NEW t \in Tabs, NEW p \in Ops, NEW m \in Range(fromWorker'[t]), m.by = p
          PROVE  Answer(p, m)'
      <4>1. Answer(p, m) /\ op'[p].at = op[p].at
        BY <1>1, <1>3, <3>1, <3>7 DEF OneKey
      <4> QED
        BY <1>1, <2>1, <4>1 DEF Answer
    <3> QED
      BY <1>1, <2>1, <3>1, <3>2, <3>4, <3>6, <3>7 DEF OneKey
  <2> QED
    BY <2>3, <2>4, <2>5, <2>6 DEF KeysInv
<1> QED
  BY <1>5, <1>6

LEMMA ReloadStep ==
  ASSUME KeysInv, ConsoleTypeOK', NEW o \in Ops, NEW t \in Tabs, Reload(o, t)
  PROVE  KeysInv'
<1> USE DEF worker, ports, server, screens
<1>0. ConsoleTypeOK /\ InPlace /\ ByFunction /\ AfterAccount /\ (~raced => OneKey)
  BY DEF KeysInv
<1> DEFINE f == [tab |-> t, kind |-> "load", at |-> "session", gen |-> 0, store |-> 0,
                 key |-> None, answer |-> None, add |-> FALSE]
<1>1. /\ op[o] = None
      /\ fromWorker' = [fromWorker EXCEPT ![t] = << State(Held) >>]
      /\ toWorker' = [toWorker EXCEPT ![t] = Orphans(@)]
      /\ op' = [p \in Ops |-> IF p = o THEN f ELSE IF op[p] # None /\ op[p].tab = t THEN None ELSE op[p]]
      /\ signedIn' = [signedIn EXCEPT ![t] = FALSE]
      /\ UNCHANGED << key, sess, wraps, sealed, raced >>
  BY DEF Reload
<1>2. f.kind = "load" /\ f.at = "session" /\ f.answer = None
  OBVIOUS
<1> HIDE DEF f
<1>3. /\ op'[o] = f
      /\ \A p \in Ops \ {o} : op'[p] = IF op[p] # None /\ op[p].tab = t THEN None ELSE op[p]
      /\ \A u \in Tabs \ {t} : fromWorker'[u] = fromWorker[u] /\ toWorker'[u] = toWorker[u]
      /\ fromWorker'[t] = << State(Held) >> /\ toWorker'[t] = Orphans(toWorker[t])
      /\ \A u \in Tabs : signedIn'[u] => signedIn[u]
  BY <1>0, <1>1 DEF ConsoleTypeOK
<1>4. \A p \in Ops : op'[p] # None => p = o \/ (op'[p] = op[p] /\ op[p] # None /\ op[p].tab # t)
  BY <1>3
<1>5. \A m \in Range(fromWorker'[t]) : m.by = None
  BY <1>3, ShortQueue DEF State
<1>6. \A m \in Range(toWorker'[t]) :
        m.by = None /\ \E n \in Range(toWorker[t]) : m.key = n.key /\ (m.req = "unlock" => n.req = "unlock")
  <2> SUFFICES ASSUME NEW m \in Range(Orphans(toWorker[t]))
              
    PROVE   m.by = None /\ \E n \in Range(toWorker[t]) : m.key = n.key /\ (m.req = "unlock" => n.req = "unlock")
    BY <1>3
  <2>1. PICK i \in DOMAIN toWorker[t] : m = Orphan(toWorker[t][i])
    BY DEF Orphans, Range
  <2>2. toWorker[t] \in Seq(Message)
    BY <1>0 DEF ConsoleTypeOK
  <2>3. toWorker[t][i] \in Message /\ toWorker[t][i] \in Range(toWorker[t])
    BY <2>1, <2>2, ElementOfSeq DEF Range
  <2>4. \A n \in Message : Orphan(n).by = None /\ Orphan(n).key = n.key /\ (Orphan(n).req = "unlock" => n.req = "unlock")
    BY DEF Orphan, Message
  <2> QED
    BY <2>1, <2>3, <2>4
<1>7. \A p \in Ops : ~Names(fromWorker'[t], p) /\ ~Names(toWorker'[t], p)
  BY <1>5, <1>6, NoneIsNothing DEF Names
<1>8. \A p \in Ops : Once(fromWorker'[t], p) /\ Once(toWorker'[t], p)
  BY <1>7 DEF Names, Once, Range
<1>9. InPlace'
  BY <1>0, <1>2, <1>3, <1>4 DEF InPlace, Placed, Registers
<1>10. ByFunction'
  <2> SUFFICES ASSUME NEW u \in Tabs, NEW p \in Ops
               PROVE  /\ \A m \in Range(toWorker'[u]) : m.by = p =>
                           Expects(p, u)' /\ (op'[p].at = "create" => m.req = "create")
                      /\ Names(fromWorker'[u], p) => Expects(p, u)' /\ ~Names(toWorker'[u], p)
                      /\ Once(toWorker'[u], p) /\ Once(fromWorker'[u], p)
    BY DEF ByFunction
  <2>1. CASE u = t
    BY <1>7, <1>8, <2>1 DEF Names
  <2>2. CASE u # t
    <3>1. Expects(p, u) => Expects(p, u)' /\ op'[p] = op[p]
      BY <1>1, <1>3, <2>2 DEF Expects
    <3> QED
      BY <1>0, <1>3, <2>2, <3>1 DEF ByFunction
  <2> QED
    BY <2>1, <2>2
<1>11. AfterAccount'
  <2>1. \A u \in Tabs : \A m \in Range(toWorker'[u]) : m.req = "unlock" => m.key \in wraps'
    BY <1>0, <1>1, <1>3, <1>6 DEF AfterAccount
  <2>2. \A p \in Ops : Follows(p)'
    BY <1>0, <1>1, <1>2, <1>3, <1>4, NoneIsNothing DEF AfterAccount, Follows, Answers
  <2> QED
    BY <1>0, <1>1, <1>3, <2>1, <2>2 DEF AfterAccount
<1>12. ASSUME ~raced' PROVE OneKey'
  <2>0. OneKey
    BY <1>0, <1>1, <1>12
  <2>1. ASSUME NEW p \in Ops, HasCreated(p)' PROVE HasCreated(p) /\ op'[p] = op[p]
    <3>1. op'[p] # None /\ p # o
      BY <1>2, <1>3, <2>1 DEF HasCreated, Registers
    <3>2. op'[p] = op[p] /\ op[p] # None /\ op[p].tab # t
      BY <1>4, <3>1
    <3>3. op[p].tab \in Tabs \ {t}
      BY <1>0, <3>2, Fields
    <3> QED
      BY <1>3, <2>1, <3>2, <3>3 DEF HasCreated
  <2>2. \A p \in Ops : Uses(p)'
    BY <1>1, <1>2, <1>3, <1>4, <2>0, <2>1 DEF OneKey, Uses, Unposted
  <2>3. ASSUME NEW u \in Tabs, NEW p \in Ops, NEW m \in Range(fromWorker'[u]), m.by = p
        PROVE  Answer(p, m)'
    <3>1. u # t
      BY <1>7, <2>3 DEF Names
    <3>2. Names(fromWorker[u], p) /\ m \in Range(fromWorker[u])
      BY <1>3, <2>3, <3>1 DEF Names
    <3>3. Answer(p, m) /\ Expects(p, u)
      BY <1>0, <2>0, <2>3, <3>2 DEF OneKey, ByFunction
    <3>4. op'[p] = op[p]
      BY <1>1, <1>3, <3>1, <3>3 DEF Expects
    <3> QED
      BY <1>1, <3>3, <3>4 DEF Answer
  <2> QED
    BY <1>1, <2>0, <2>1, <2>2, <2>3 DEF OneKey
<1> QED
  BY <1>9, <1>10, <1>11, <1>12 DEF KeysInv

LEMMA KeysStep == KeysInv /\ [Next]_vars => KeysInv'
<1> SUFFICES ASSUME KeysInv, [Next]_vars PROVE KeysInv'
  OBVIOUS
<1>a. ConsoleTypeOK /\ InPlace /\ ByFunction /\ AfterAccount /\ (~raced => OneKey)
  BY DEF KeysInv
<1>b. ConsoleTypeOK'
  BY <1>a, TypedStep
<1>c. Lock \in Message /\ Msg("open", None, None) \in Message
  BY MsgTyped
<1> USE DEF worker, ports, server, screens
<1>1. ASSUME Deadline PROVE KeysInv'
  <2>1. UNCHANGED << op, wraps, sealed, raced, signedIn, key, sess, toWorker, fromWorker >>
    BY <1>1 DEF Deadline
  <2> QED
    BY <1>a, <1>b, <2>1, AsideStep DEF ByFunction
<1>2. ASSUME Expire PROVE KeysInv'
  <2>1. /\ UNCHANGED << op, wraps, sealed, raced, signedIn, sess, toWorker >> /\ key' = None
        /\ fromWorker' = [u \in Tabs |-> Append(fromWorker[u], State(None))]
    BY <1>2 DEF Expire
  <2>2. State(None).by = None /\ \A p \in Ops : State(None).by # p
    BY NoneIsNothing DEF State
  <2>3. \A u \in Tabs : /\ Range(fromWorker'[u]) = Range(fromWorker[u]) \cup {State(None)}
                        /\ \A p \in Ops : Once(fromWorker'[u], p)
    <3> SUFFICES ASSUME NEW u \in Tabs
                 PROVE  /\ Range(fromWorker'[u]) = Range(fromWorker[u]) \cup {State(None)}
                        /\ \A p \in Ops : Once(fromWorker'[u], p)
      OBVIOUS
    <3>1. fromWorker[u] \in Seq(Reply) /\ fromWorker'[u] = Append(fromWorker[u], State(None))
      BY <1>a, <2>1 DEF ConsoleTypeOK
    <3> QED
      BY <1>a, <2>2, <3>1, AppendQueue DEF ByFunction
  <2> QED
    BY <1>a, <1>b, <2>1, <2>2, <2>3, AsideStep DEF ByFunction
<1>3. ASSUME SessionEnds PROVE KeysInv'
  <2>1. UNCHANGED << op, wraps, sealed, raced, signedIn, key, toWorker, fromWorker >> /\ sess' = FALSE
    BY <1>3 DEF SessionEnds, OnlyServer
  <2> QED
    BY <1>a, <1>b, <2>1, AsideStep DEF ByFunction
<1>4. ASSUME NEW t \in Tabs, Handle(t) PROVE KeysInv'
  BY <1>a, <1>b, <1>4, HandleStep
<1>5. ASSUME NEW t \in Tabs, Hear(t) PROVE KeysInv'
  <2>1. /\ UNCHANGED << op, wraps, sealed, raced, signedIn, sess, toWorker, key >>
        /\ fromWorker' = [fromWorker EXCEPT ![t] = Tail(@)] /\ fromWorker[t] # << >>
    BY <1>5 DEF Hear, Adopt
  <2>2. fromWorker[t] \in Seq(Reply) /\ \A u \in Tabs : fromWorker'[u] = IF u = t THEN Tail(fromWorker[t]) ELSE fromWorker[u]
    BY <1>a, <2>1 DEF ConsoleTypeOK
  <2>3. Range(Tail(fromWorker[t])) \subseteq Range(fromWorker[t]) /\ \A p \in Ops : Once(Tail(fromWorker[t]), p)
    BY <1>a, <2>1, <2>2, TailQueue DEF ByFunction
  <2> QED
    BY <1>a, <1>b, <2>1, <2>2, <2>3, AsideStep DEF ByFunction
<1>6. ASSUME NEW t \in Tabs, Glance(t) PROVE KeysInv'
  <2>1. UNCHANGED << op, wraps, sealed, raced, signedIn, key, sess, toWorker, fromWorker >>
    BY <1>6 DEF Glance
  <2> QED
    BY <1>a, <1>b, <2>1, AsideStep DEF ByFunction
<1>7. ASSUME NEW t \in Tabs, OpenAll(t) PROVE KeysInv'
  <2>1. /\ UNCHANGED << op, wraps, sealed, raced, signedIn, sess, fromWorker, key >>
        /\ Post(t, Msg("open", None, None))
    BY <1>7 DEF OpenAll, Post
  <2>2. Msg("open", None, None).by = None /\ Msg("open", None, None).req = "open"
    BY DEF Msg
  <2>3. \A p \in Ops : Msg("open", None, None).by # p
    BY <2>2, NoneIsNothing
  <2>4. /\ \A u \in Tabs : Range(toWorker'[u]) \subseteq Range(toWorker[u]) \cup {Msg("open", None, None)}
        /\ \A u \in Tabs, p \in Ops : Once(toWorker'[u], p)
    BY <1>a, <1>c, <2>1, <2>3, Posted
  <2> QED
    BY <1>a, <1>b, <2>1, <2>2, <2>4, AsideStep DEF ByFunction
<1>8. ASSUME NEW t \in Tabs, ResolveMethod(t) PROVE KeysInv'
  <2>1. /\ UNCHANGED << op, wraps, sealed, raced, signedIn, sess, fromWorker, key >>
        /\ Post(t, Lock)
    BY <1>8 DEF ResolveMethod
  <2>2. Lock.by = None /\ Lock.req = "lock"
    BY DEF Lock, Msg
  <2>3. \A p \in Ops : Lock.by # p
    BY <2>2, NoneIsNothing
  <2>4. /\ \A u \in Tabs : Range(toWorker'[u]) \subseteq Range(toWorker[u]) \cup {Lock}
        /\ \A u \in Tabs, p \in Ops : Once(toWorker'[u], p)
    BY <1>a, <1>c, <2>1, <2>3, Posted
  <2> QED
    BY <1>a, <1>b, <2>1, <2>2, <2>4, AsideStep DEF ByFunction
<1>9. ASSUME NEW o \in Ops, NEW t \in Tabs, SignIn(o, t) PROVE KeysInv'
  <2>1. /\ UNCHANGED << key, wraps, sealed, raced, sess, signedIn, fromWorker >>
        /\ toWorker' = [toWorker EXCEPT ![t] =
             @ \o << Lock >> \o (IF op'[o].at = "create" THEN << Msg("create", o, None) >> ELSE << >>)]
        /\ \/ wraps # {} /\ Begin(o, t, "login", "post", gen[t])
           \/ Begin(o, t, "pwRegister", "create", gen[t])
           \/ Begin(o, t, "pkRegister", "start", gen[t])
    BY <1>9 DEF SignIn, BeginLogin, BeginRegister
  <2>2. /\ op[o] = None /\ op'[o] # None /\ op'[o].tab = t /\ op'[o].answer = None
        /\ \A p \in Ops \ {o} : op'[p] = op[p]
        /\ \/ op'[o].kind \in Registers /\ op'[o].at \in {"start", "create"}
           \/ op'[o].kind = "login" /\ op'[o].at = "post" /\ wraps # {}
    <3>1. gen[t] \in Nat
      BY <1>a DEF ConsoleTypeOK
    <3> QED
      BY <1>a, <2>1, <3>1, BeginIs DEF Kinds, SignIns, Registers, Requests, Replies
  <2>3. Heeds(o)
    BY <1>a, <2>1, <2>2, HeedsNothing
  <2>4. Posts(o)
    <3> DEFINE q == Append(toWorker[t], Lock)
               m == Msg("create", o, None)
    <3>0. /\ toWorker[t] \in Seq(Message) /\ m \in Message /\ Lock \in Message
          /\ m.by = o /\ m.req = "create" /\ Lock.by = None /\ Lock.req = "lock"
      BY <1>a, MsgTyped DEF ConsoleTypeOK, Msg, Lock
    <3>1. q \in Seq(Message) /\ toWorker[t] \in Seq(Message) /\ m \in Message /\ Lock \in Message
          /\ m.by = o /\ m.req = "create" /\ Lock.by = None /\ Lock.req = "lock"
      BY <3>0
    <3>2. /\ toWorker[t] \o << Lock >> \o << >> = q
          /\ toWorker[t] \o << Lock >> \o << m >> = Append(q, m)
      BY <3>1
    <3>3. \A u \in Tabs : toWorker'[u] = IF u # t THEN toWorker[u]
                                         ELSE IF op'[o].at = "create" THEN Append(q, m) ELSE q
      BY <1>a, <2>1, <3>2 DEF ConsoleTypeOK
    <3>4. Range(q) = Range(toWorker[t]) \cup {Lock} /\ \A p \in Ops : Once(q, p)
      BY <1>a, <3>1, NoneIsNothing, AppendQueue DEF ByFunction
    <3>5. ~Names(q, o)
      BY <2>3, <3>1, <3>4, NoneIsNothing DEF Heeds, Names
    <3> HIDE DEF q, m
    <3>6. Range(Append(q, m)) = Range(q) \cup {m} /\ \A p \in Ops : Once(Append(q, m), p)
      BY <3>1, <3>4, <3>5, AppendQueue
    <3>7. \A u \in Tabs, p \in Ops : Once(toWorker'[u], p)
      BY <1>a, <3>3, <3>4, <3>6 DEF ByFunction
    <3>8. ASSUME NEW u \in Tabs, NEW n \in Range(toWorker'[u])
          PROVE  \/ n \in Range(toWorker[u]) \/ n = Lock
                 \/ n = m /\ u = t /\ op'[o].at = "create"
      BY <3>3, <3>4, <3>6, <3>8
    <3> QED
      BY <2>2, <3>1, <3>7, <3>8 DEF Posts, Replies
  <2> QED
    BY <1>b, <2>1, <2>2, <2>3, <2>4, StartStep
<1>10. ASSUME NEW o \in Ops, NEW t \in Tabs, BeginSignOut(o, t) PROVE KeysInv'
  <2>1. /\ UNCHANGED << key, wraps, sealed, raced, sess, signedIn, fromWorker >>
        /\ Begin(o, t, "signOut", "logout", gen[t] + 1) /\ UNCHANGED toWorker /\ signedIn[t] /\ gen[t] + 1 \in Nat
    BY <1>a, <1>10 DEF BeginSignOut, ConsoleTypeOK
  <2>2. /\ op[o] = None /\ op'[o] # None /\ op'[o].tab = t /\ op'[o].answer = None
        /\ op'[o].kind = "signOut" /\ op'[o].at = "logout"
        /\ \A p \in Ops \ {o} : op'[p] = op[p]
    BY <1>a, <2>1, BeginIs DEF Kinds, SignIns, Registers, Requests, Replies
  <2>3. Heeds(o) /\ wraps # {}
    BY <1>a, <2>1, <2>2, HeedsNothing DEF AfterAccount
  <2>4. Posts(o)
    BY <1>a, <2>1, <2>2, <2>3, PostsNothing DEF Replies
  <2> QED
    BY <1>b, <2>1, <2>2, <2>3, <2>4, StartStep
<1>11. ASSUME NEW o \in Ops, NEW t \in Tabs, BeginSave(o, t) PROVE KeysInv'
  <2>1. /\ UNCHANGED << key, wraps, sealed, raced, sess, signedIn, fromWorker >>
        /\ Begin(o, t, "save", "seal", gen[t]) /\ Post(t, Msg("seal", o, None)) /\ signedIn[t] /\ gen[t] \in Nat
    BY <1>a, <1>11 DEF BeginSave, ConsoleTypeOK
  <2>2. /\ op[o] = None /\ op'[o] # None /\ op'[o].tab = t /\ op'[o].answer = None
        /\ op'[o].kind = "save" /\ op'[o].at = "seal"
        /\ \A p \in Ops \ {o} : op'[p] = op[p]
    BY <1>a, <2>1, BeginIs DEF Kinds, SignIns, Registers, Requests, Replies
  <2>3. Heeds(o) /\ wraps # {}
    BY <1>a, <2>1, <2>2, HeedsNothing DEF AfterAccount
  <2>4. Posts(o)
    BY <1>a, <2>1, <2>2, <2>3, MsgTyped, PostsOwn DEF Replies
  <2> QED
    BY <1>b, <2>1, <2>2, <2>3, <2>4, StartStep
<1>12. ASSUME NEW o \in Ops, NEW t \in Tabs, Reload(o, t) PROVE KeysInv'
  BY <1>a, <1>b, <1>12, ReloadStep
<1>13. ASSUME NEW o \in Ops, Started(o) PROVE KeysInv'
  <2>1. /\ op[o] # None /\ op[o].tab \in Tabs /\ op[o].at \in Requests /\ op[o].key \in Keys
        /\ op[o].kind \in Kinds
        /\ op[o].at = "start"
        /\ UNCHANGED << key, wraps, sealed, raced, sess, signedIn >>
    BY <1>a, <1>13, Fields DEF Started, Answered, Requests
  <2>2. Heeds(o)
    <3>1. UNCHANGED fromWorker
      BY <1>13 DEF Started
    <3> QED
      BY <1>a, <2>1, <3>1, HeedsNothing
  <2>3. KeysInv'
    <3>0. Go(o, "create", None) /\ Post(op[o].tab, Msg("create", o, None))
      BY <1>13, <2>1 DEF Started
    <3>1. /\ op'[o] # None /\ op'[o].tab = op[o].tab /\ op'[o].kind = op[o].kind
          /\ op'[o].at = "create" /\ op'[o].key = None /\ op'[o].answer = None
          /\ \A p \in Ops \ {o} : op'[p] = op[p]
      BY <1>a, <2>1, <2>2, <3>0, GoIs DEF Requests, Replies, Keys
    <3>2. Posts(o)
      BY <1>a, <2>1, <2>2, <3>0, <3>1, MsgTyped, PostsOwn DEF Replies
    <3>k. op[o].kind # "save"
      BY <1>a, <2>1, <2>2, <3>0 DEF InPlace, Placed
    <3>3. Placed(o)'
      BY <1>a, <2>1, <2>2, <3>0, <3>k, <3>1 DEF InPlace, Placed, Requests, Registers, SignIns, Kinds
    <3>4. ~raced => (HasCreated(o)' => HasCreated(o)) /\ Uses(o)'
      BY <1>a, <2>1, <2>2, <3>0, <3>k, <3>1 DEF OneKey, HasCreated, Uses, Unposted, Heeds, Registers
    <3> QED
      BY <1>a, <1>b, <2>1, <2>2, <3>0, <3>k, <3>1, <3>2, <3>3, <3>4, OnStep
  <2> QED
    BY <2>3
<1>14. ASSUME NEW o \in Ops, Created(o) PROVE KeysInv'
  <2>1. /\ op[o] # None /\ op[o].tab \in Tabs /\ op[o].at = "create" /\ op[o].kind \in Kinds
        /\ Replied(o, "create") /\ ReplyKey(o) \in Keys
        /\ UNCHANGED << key, wraps, sealed, raced, sess, signedIn >>
    BY <1>a, <1>14, Fields, RepliedTyped DEF Created, Replied
  <2>2. Heeds(o)
    BY <1>a, <2>1, HeedsReply
  <2>w. HasCreated(o)
    <3>1. op[o].kind \in Registers
      BY <1>a, <2>1 DEF InPlace, Placed, Requests, Kinds, SignIns
    <3>2. Names(fromWorker[op[o].tab], o)
      BY <1>a, <2>1, Heeded DEF Names
    <3> QED
      BY <2>1, <3>1, <3>2 DEF HasCreated
  <2>3. KeysInv'
    <3>0. Go(o, "wrap", None) /\ Post(op[o].tab, Msg("wrap", o, None))
      BY <1>14, <2>1 DEF Created
    <3>1. /\ op'[o] # None /\ op'[o].tab = op[o].tab /\ op'[o].kind = op[o].kind
          /\ op'[o].at = "wrap" /\ op'[o].key = None /\ op'[o].answer = None
          /\ \A p \in Ops \ {o} : op'[p] = op[p]
      BY <1>a, <2>1, <2>2, <3>0, <2>w, GoIs DEF Requests, Replies, Keys
    <3>2. Posts(o)
      BY <1>a, <2>1, <2>2, <3>0, <2>w, <3>1, MsgTyped, PostsOwn DEF Replies
    <3>k. op[o].kind # "save"
      BY <1>a, <2>1, <2>2, <3>0, <2>w DEF InPlace, Placed
    <3>3. Placed(o)'
      BY <1>a, <2>1, <2>2, <3>0, <2>w, <3>k, <3>1 DEF InPlace, Placed, Requests, Registers,
         SignIns, Kinds
    <3>4. ~raced => (HasCreated(o)' => HasCreated(o)) /\ Uses(o)'
      BY <1>a, <2>1, <2>2, <3>0, <2>w, <3>k, <3>1 DEF OneKey, HasCreated, Uses, Unposted,
         Heeds, Registers
    <3> QED
      BY <1>a, <1>b, <2>1, <2>2, <3>0, <2>w, <3>k, <3>1, <3>2, <3>3, <3>4, OnStep
  <2> QED
    BY <2>3
<1>15. ASSUME NEW o \in Ops, Wrapped(o) PROVE KeysInv'
  <2>1. /\ op[o] # None /\ op[o].tab \in Tabs /\ op[o].at = "wrap" /\ op[o].kind \in Kinds
        /\ Replied(o, "wrap") /\ ReplyKey(o) \in Keys
        /\ UNCHANGED << key, wraps, sealed, raced, sess, signedIn >>
    BY <1>a, <1>15, Fields, RepliedTyped DEF Wrapped, Replied
  <2>2. Heeds(o)
    BY <1>a, <2>1, HeedsReply
  <2>w. ~raced => key \in {ReplyKey(o), None}
    <3>1. \E m \in Range(fromWorker[op[o].tab]) : m.by = o /\ ReplyKey(o) = m.key
      BY <1>a, <2>1, Heeded
    <3> QED
      BY <1>a, <2>1, <3>1 DEF OneKey, Answer
  <2>3. CASE ReplyKey(o) # None
    <3>0. Go(o, "post", ReplyKey(o)) /\ UNCHANGED toWorker
      BY <1>15, <2>1, <2>3 DEF Wrapped
    <3>1. /\ op'[o] # None /\ op'[o].tab = op[o].tab /\ op'[o].kind = op[o].kind
          /\ op'[o].at = "post" /\ op'[o].key = ReplyKey(o) /\ op'[o].answer = None
          /\ \A p \in Ops \ {o} : op'[p] = op[p]
      BY <1>a, <2>1, <2>2, <3>0, <2>w, GoIs DEF Requests, Replies, Keys
    <3>2. Posts(o)
      BY <1>a, <2>1, <2>2, <3>0, <2>w, PostsNothing
    <3>k. op[o].kind # "save"
      BY <1>a, <2>1, <2>2, <3>0, <2>w DEF InPlace, Placed
    <3>3. Placed(o)'
      BY <1>a, <2>1, <2>2, <3>0, <2>w, <3>k, <3>1 DEF InPlace, Placed, Requests, Registers,
         SignIns, Kinds
    <3>4. ~raced => (HasCreated(o)' => HasCreated(o)) /\ Uses(o)'
      BY <1>a, <2>1, <2>2, <3>0, <2>w, <3>k, <3>1 DEF OneKey, HasCreated, Uses, Unposted,
         Heeds, Registers
    <3> QED
      BY <1>a, <1>b, <2>1, <2>2, <3>0, <2>w, <3>k, <3>1, <3>2, <3>3, <3>4, OnStep
  <2>4. CASE ReplyKey(o) = None
    <3>0. Go(o, "lock", None) /\ Post(op[o].tab, Msg("lock", o, None))
      BY <1>15, <2>1, <2>4 DEF Wrapped
    <3>1. /\ op'[o] # None /\ op'[o].tab = op[o].tab /\ op'[o].kind = op[o].kind
          /\ op'[o].at = "lock" /\ op'[o].key = None /\ op'[o].answer = None
          /\ \A p \in Ops \ {o} : op'[p] = op[p]
      BY <1>a, <2>1, <2>2, <3>0, GoIs DEF Requests, Replies, Keys
    <3>2. Posts(o)
      BY <1>a, <2>1, <2>2, <3>0, <3>1, MsgTyped, PostsOwn DEF Replies
    <3>k. op[o].kind # "save"
      BY <1>a, <2>1, <2>2, <3>0 DEF InPlace, Placed
    <3>3. Placed(o)'
      BY <1>a, <2>1, <2>2, <3>0, <3>k, <3>1 DEF InPlace, Placed, Requests, Registers, SignIns, Kinds
    <3>4. ~raced => (HasCreated(o)' => HasCreated(o)) /\ Uses(o)'
      BY <1>a, <2>1, <2>2, <3>0, <3>k, <3>1 DEF OneKey, HasCreated, Uses, Unposted, Heeds, Registers
    <3> QED
      BY <1>a, <1>b, <2>1, <2>2, <3>0, <3>k, <3>1, <3>2, <3>3, <3>4, OnStep
  <2> QED
    BY <1>15, <2>1, <2>3, <2>4
<1>16. ASSUME NEW o \in Ops, Registered(o) PROVE KeysInv'
  <2>1. /\ op[o] # None /\ op[o].tab \in Tabs /\ op[o].at \in Requests /\ op[o].key \in Keys
        /\ op[o].kind \in Kinds
        /\ op[o].kind \in Registers /\ op[o].at = "post"
        /\ UNCHANGED << key, wraps, sealed, raced, sess, signedIn >>
    BY <1>a, <1>16, Fields DEF Registered, Answered, Requests
  <2>2. Heeds(o)
    <3>1. UNCHANGED fromWorker
      BY <1>16 DEF Registered
    <3> QED
      BY <1>a, <2>1, <3>1, HeedsNothing
  <2>3. CASE op[o].answer = "no"
    <3>0. Go(o, "lock", None) /\ Post(op[o].tab, Msg("lock", o, None))
      BY <1>16, <2>1, <2>3 DEF Registered
    <3>1. /\ op'[o] # None /\ op'[o].tab = op[o].tab /\ op'[o].kind = op[o].kind
          /\ op'[o].at = "lock" /\ op'[o].key = None /\ op'[o].answer = None
          /\ \A p \in Ops \ {o} : op'[p] = op[p]
      BY <1>a, <2>1, <2>2, <3>0, GoIs DEF Requests, Replies, Keys
    <3>2. Posts(o)
      BY <1>a, <2>1, <2>2, <3>0, <3>1, MsgTyped, PostsOwn DEF Replies
    <3>k. op[o].kind # "save"
      BY <1>a, <2>1, <2>2, <3>0 DEF InPlace, Placed
    <3>3. Placed(o)'
      BY <1>a, <2>1, <2>2, <3>0, <3>k, <3>1 DEF InPlace, Placed, Requests, Registers, SignIns, Kinds
    <3>4. ~raced => (HasCreated(o)' => HasCreated(o)) /\ Uses(o)'
      BY <1>a, <2>1, <2>2, <3>0, <3>k, <3>1 DEF OneKey, HasCreated, Uses, Unposted, Heeds, Registers
    <3> QED
      BY <1>a, <1>b, <2>1, <2>2, <3>0, <3>k, <3>1, <3>2, <3>3, <3>4, OnStep
  <2>4. CASE op[o].answer # "no" /\ SignedOut(o)
    <3>0. Finish(o, pending) /\ UNCHANGED toWorker
      BY <1>16, <2>1, <2>4 DEF Registered
    <3>1. op'[o] = None /\ \A p \in Ops \ {o} : op'[p] = op[p]
      BY <1>a, <2>1, <2>2, <3>0, FinishIs
    <3>5. Posts(o)
      BY <1>a, <2>1, <2>2, <3>0, PostsNothing
    <3> QED
      BY <1>a, <1>b, <2>1, <2>2, <3>0, <3>1, <3>5, EndStep
  <2>5. CASE op[o].answer # "no" /\ ~SignedOut(o)
    <3>0. Go(o, "session", None) /\ UNCHANGED toWorker
      BY <1>16, <2>1, <2>5 DEF Registered
    <3>1. /\ op'[o] # None /\ op'[o].tab = op[o].tab /\ op'[o].kind = op[o].kind
          /\ op'[o].at = "session" /\ op'[o].key = None /\ op'[o].answer = None
          /\ \A p \in Ops \ {o} : op'[p] = op[p]
      BY <1>a, <2>1, <2>2, <3>0, GoIs DEF Requests, Replies, Keys
    <3>2. Posts(o)
      BY <1>a, <2>1, <2>2, <3>0, PostsNothing
    <3>k. op[o].kind # "save"
      BY <1>a, <2>1, <2>2, <3>0 DEF InPlace, Placed
    <3>3. Placed(o)'
      BY <1>a, <2>1, <2>2, <3>0, <3>k, <3>1 DEF InPlace, Placed, Requests, Registers, SignIns, Kinds
    <3>4. ~raced => (HasCreated(o)' => HasCreated(o)) /\ Uses(o)'
      BY <1>a, <2>1, <2>2, <3>0, <3>k, <3>1 DEF OneKey, HasCreated, Uses, Unposted, Heeds, Registers
    <3> QED
      BY <1>a, <1>b, <2>1, <2>2, <3>0, <3>k, <3>1, <3>2, <3>3, <3>4, OnStep
  <2> QED
    BY <1>16, <2>1, <2>3, <2>4, <2>5
<1>17. ASSUME NEW o \in Ops, LoggedIn(o) PROVE KeysInv'
  <2>1. /\ op[o] # None /\ op[o].tab \in Tabs /\ op[o].at \in Requests /\ op[o].key \in Keys
        /\ op[o].kind \in Kinds
        /\ op[o].kind = "login" /\ op[o].at = "post" /\ op[o].answer = "yes"
        /\ UNCHANGED << key, wraps, sealed, raced, sess, signedIn >>
    BY <1>a, <1>17, Fields DEF LoggedIn, Answered, Requests
  <2>2. Heeds(o)
    <3>1. UNCHANGED fromWorker
      BY <1>17 DEF LoggedIn
    <3> QED
      BY <1>a, <2>1, <3>1, HeedsNothing
  <2>w. op[o].key \in wraps
    BY <1>a, <2>1 DEF AfterAccount, Follows
  <2>3. KeysInv'
    <3>0. Go(o, "unlock", None) /\ Post(op[o].tab, Msg("unlock", o, op[o].key))
      BY <1>17, <2>1 DEF LoggedIn
    <3>1. /\ op'[o] # None /\ op'[o].tab = op[o].tab /\ op'[o].kind = op[o].kind
          /\ op'[o].at = "unlock" /\ op'[o].key = None /\ op'[o].answer = None
          /\ \A p \in Ops \ {o} : op'[p] = op[p]
      BY <1>a, <2>1, <2>2, <3>0, <2>w, GoIs DEF Requests, Replies, Keys
    <3>2. Posts(o)
      BY <1>a, <2>1, <2>2, <3>0, <2>w, <3>1, MsgTyped, PostsOwn DEF Replies
    <3>k. op[o].kind # "save"
      BY <1>a, <2>1, <2>2, <3>0, <2>w DEF InPlace, Placed
    <3>3. Placed(o)'
      BY <1>a, <2>1, <2>2, <3>0, <2>w, <3>k, <3>1 DEF InPlace, Placed, Requests, Registers,
         SignIns, Kinds
    <3>4. ~raced => (HasCreated(o)' => HasCreated(o)) /\ Uses(o)'
      BY <1>a, <2>1, <2>2, <3>0, <2>w, <3>k, <3>1 DEF OneKey, HasCreated, Uses, Unposted,
         Heeds, Registers
    <3> QED
      BY <1>a, <1>b, <2>1, <2>2, <3>0, <2>w, <3>k, <3>1, <3>2, <3>3, <3>4, OnStep
  <2> QED
    BY <2>3
<1>18. ASSUME NEW o \in Ops, Unlocked(o) PROVE KeysInv'
  <2>1. /\ op[o] # None /\ op[o].tab \in Tabs /\ op[o].at = "unlock" /\ op[o].kind \in Kinds
        /\ Replied(o, "unlock") /\ ReplyKey(o) \in Keys
        /\ UNCHANGED << key, wraps, sealed, raced, sess, signedIn >>
    BY <1>a, <1>18, Fields, RepliedTyped DEF Unlocked, Replied
  <2>2. Heeds(o)
    BY <1>a, <2>1, HeedsReply
  <2>3. CASE SignedOut(o)
    <3>0. Finish(o, pending) /\ UNCHANGED toWorker
      BY <1>18, <2>1, <2>3 DEF Unlocked
    <3>1. op'[o] = None /\ \A p \in Ops \ {o} : op'[p] = op[p]
      BY <1>a, <2>1, <2>2, <3>0, FinishIs
    <3>5. Posts(o)
      BY <1>a, <2>1, <2>2, <3>0, PostsNothing
    <3> QED
      BY <1>a, <1>b, <2>1, <2>2, <3>0, <3>1, <3>5, EndStep
  <2>4. CASE ~SignedOut(o)
    <3>0. Go(o, "session", None) /\ UNCHANGED toWorker
      BY <1>18, <2>1, <2>4 DEF Unlocked
    <3>1. /\ op'[o] # None /\ op'[o].tab = op[o].tab /\ op'[o].kind = op[o].kind
          /\ op'[o].at = "session" /\ op'[o].key = None /\ op'[o].answer = None
          /\ \A p \in Ops \ {o} : op'[p] = op[p]
      BY <1>a, <2>1, <2>2, <3>0, GoIs DEF Requests, Replies, Keys
    <3>2. Posts(o)
      BY <1>a, <2>1, <2>2, <3>0, PostsNothing
    <3>k. op[o].kind # "save"
      BY <1>a, <2>1, <2>2, <3>0 DEF InPlace, Placed
    <3>3. Placed(o)'
      BY <1>a, <2>1, <2>2, <3>0, <3>k, <3>1 DEF InPlace, Placed, Requests, Registers, SignIns, Kinds
    <3>4. ~raced => (HasCreated(o)' => HasCreated(o)) /\ Uses(o)'
      BY <1>a, <2>1, <2>2, <3>0, <3>k, <3>1 DEF OneKey, HasCreated, Uses, Unposted, Heeds, Registers
    <3> QED
      BY <1>a, <1>b, <2>1, <2>2, <3>0, <3>k, <3>1, <3>2, <3>3, <3>4, OnStep
  <2> QED
    BY <1>18, <2>1, <2>3, <2>4
<1>19. ASSUME NEW o \in Ops, SessionLoaded(o) PROVE KeysInv'
  <2>1. /\ op[o] # None /\ op[o].tab \in Tabs /\ op[o].at \in Requests /\ op[o].key \in Keys
        /\ op[o].kind \in Kinds
        /\ op[o].at = "session" /\ op[o].answer = "yes"
        /\ UNCHANGED << key, wraps, sealed, raced, sess >>
    BY <1>a, <1>19, Fields DEF SessionLoaded, Answered, Requests
  <2>2. Heeds(o)
    <3>1. UNCHANGED fromWorker
      BY <1>19 DEF SessionLoaded
    <3> QED
      BY <1>a, <2>1, <3>1, HeedsNothing
  <2>s. \A t \in Tabs : signedIn'[t] => signedIn[t] \/ wraps # {}
    BY <1>a, <2>1 DEF AfterAccount, Follows
  <2>3. PICK s : s = [signedIn EXCEPT ![op[o].tab] = @ \/ ~SignedOut(o)]
    OBVIOUS
  <2>4. CASE op[o].kind \in SignIns /\ ~(s[op[o].tab] /\ view[op[o].tab])
    <3>0. Go(o, "reject", None) /\ UNCHANGED toWorker
      BY <1>19, <2>1, <2>3, <2>4 DEF SessionLoaded
    <3>1. /\ op'[o] # None /\ op'[o].tab = op[o].tab /\ op'[o].kind = op[o].kind
          /\ op'[o].at = "reject" /\ op'[o].key = None /\ op'[o].answer = None
          /\ \A p \in Ops \ {o} : op'[p] = op[p]
      BY <1>a, <2>1, <2>2, <3>0, <2>s, <2>4, GoIs DEF Requests, Replies, Keys
    <3>2. Posts(o)
      BY <1>a, <2>1, <2>2, <3>0, <2>s, <2>4, PostsNothing
    <3>k. op[o].kind # "save"
      BY <1>a, <2>1, <2>2, <3>0, <2>s, <2>4 DEF InPlace, Placed
    <3>3. Placed(o)'
      BY <1>a, <2>1, <2>2, <3>0, <2>s, <2>4, <3>k, <3>1 DEF InPlace, Placed, Requests,
         Registers, SignIns, Kinds
    <3>4. ~raced => (HasCreated(o)' => HasCreated(o)) /\ Uses(o)'
      BY <1>a, <2>1, <2>2, <3>0, <2>s, <2>4, <3>k, <3>1 DEF OneKey, HasCreated, Uses,
         Unposted, Heeds, Registers
    <3> QED
      BY <1>a, <1>b, <2>1, <2>2, <3>0, <2>s, <2>4, <3>k, <3>1, <3>2, <3>3, <3>4, OnStep
  <2>5. CASE ~(op[o].kind \in SignIns /\ ~(s[op[o].tab] /\ view[op[o].tab]))
    <3>0. Finish(o, pending) /\ UNCHANGED toWorker
      BY <1>19, <2>1, <2>3, <2>5 DEF SessionLoaded
    <3>1. op'[o] = None /\ \A p \in Ops \ {o} : op'[p] = op[p]
      BY <1>a, <2>1, <2>2, <3>0, <2>s, FinishIs
    <3>5. Posts(o)
      BY <1>a, <2>1, <2>2, <3>0, <2>s, PostsNothing
    <3> QED
      BY <1>a, <1>b, <2>1, <2>2, <3>0, <2>s, <3>1, <3>5, EndStep
  <2> QED
    BY <1>19, <2>1, <2>4, <2>5
<1>20. ASSUME NEW o \in Ops, SessionGone(o) PROVE KeysInv'
  <2>1. /\ op[o] # None /\ op[o].tab \in Tabs /\ op[o].at \in Requests /\ op[o].key \in Keys
        /\ op[o].kind \in Kinds
        /\ op[o].at = "session"
        /\ UNCHANGED << key, wraps, sealed, raced, sess >>
    BY <1>a, <1>20, Fields DEF SessionGone, Answered, Requests
  <2>2. Heeds(o)
    <3>1. UNCHANGED fromWorker
      BY <1>20 DEF SessionGone
    <3> QED
      BY <1>a, <2>1, <3>1, HeedsNothing
  <2>s. \A t \in Tabs : signedIn'[t] => signedIn[t]
    BY <1>a, <1>20, <2>1 DEF SessionGone, SignOutLocal, ConsoleTypeOK
  <2>3. CASE signedIn[op[o].tab] /\ ~SignedOut(o)
    <3>0. Go(o, "wipe", None) /\ Post(op[o].tab, Msg("lock", o, None))
      BY <1>20, <2>1, <2>3 DEF SessionGone
    <3>1. /\ op'[o] # None /\ op'[o].tab = op[o].tab /\ op'[o].kind = op[o].kind
          /\ op'[o].at = "wipe" /\ op'[o].key = None /\ op'[o].answer = None
          /\ \A p \in Ops \ {o} : op'[p] = op[p]
      BY <1>a, <2>1, <2>2, <3>0, <2>s, GoIs DEF Requests, Replies, Keys
    <3>2. Posts(o)
      BY <1>a, <2>1, <2>2, <3>0, <2>s, <3>1, MsgTyped, PostsOwn DEF Replies
    <3>k. op[o].kind # "save"
      BY <1>a, <2>1, <2>2, <3>0, <2>s DEF InPlace, Placed
    <3>3. Placed(o)'
      BY <1>a, <2>1, <2>2, <3>0, <2>s, <3>k, <3>1 DEF InPlace, Placed, Requests, Registers,
         SignIns, Kinds
    <3>4. ~raced => (HasCreated(o)' => HasCreated(o)) /\ Uses(o)'
      BY <1>a, <2>1, <2>2, <3>0, <2>s, <3>k, <3>1 DEF OneKey, HasCreated, Uses, Unposted,
         Heeds, Registers
    <3> QED
      BY <1>a, <1>b, <2>1, <2>2, <3>0, <2>s, <3>k, <3>1, <3>2, <3>3, <3>4, OnStep
  <2>4. CASE ~(signedIn[op[o].tab] /\ ~SignedOut(o)) /\ op[o].kind = "load"
    <3>0. Finish(o, pending) /\ UNCHANGED toWorker
      BY <1>20, <2>1, <2>4 DEF SessionGone
    <3>1. op'[o] = None /\ \A p \in Ops \ {o} : op'[p] = op[p]
      BY <1>a, <2>1, <2>2, <3>0, <2>s, FinishIs
    <3>5. Posts(o)
      BY <1>a, <2>1, <2>2, <3>0, <2>s, PostsNothing
    <3> QED
      BY <1>a, <1>b, <2>1, <2>2, <3>0, <2>s, <3>1, <3>5, EndStep
  <2>5. CASE ~(signedIn[op[o].tab] /\ ~SignedOut(o)) /\ op[o].kind # "load"
    <3>0. Go(o, "reject", None) /\ UNCHANGED toWorker
      BY <1>20, <2>1, <2>5 DEF SessionGone
    <3>1. /\ op'[o] # None /\ op'[o].tab = op[o].tab /\ op'[o].kind = op[o].kind
          /\ op'[o].at = "reject" /\ op'[o].key = None /\ op'[o].answer = None
          /\ \A p \in Ops \ {o} : op'[p] = op[p]
      BY <1>a, <2>1, <2>2, <3>0, <2>s, <2>5, GoIs DEF Requests, Replies, Keys
    <3>2. Posts(o)
      BY <1>a, <2>1, <2>2, <3>0, <2>s, <2>5, PostsNothing
    <3>k. op[o].kind # "save"
      BY <1>a, <2>1, <2>2, <3>0, <2>s, <2>5 DEF InPlace, Placed
    <3>3. Placed(o)'
      BY <1>a, <2>1, <2>2, <3>0, <2>s, <2>5, <3>k, <3>1 DEF InPlace, Placed, Requests,
         Registers, SignIns, Kinds
    <3>4. ~raced => (HasCreated(o)' => HasCreated(o)) /\ Uses(o)'
      BY <1>a, <2>1, <2>2, <3>0, <2>s, <2>5, <3>k, <3>1 DEF OneKey, HasCreated, Uses,
         Unposted, Heeds, Registers
    <3> QED
      BY <1>a, <1>b, <2>1, <2>2, <3>0, <2>s, <2>5, <3>k, <3>1, <3>2, <3>3, <3>4, OnStep
  <2> QED
    BY <1>20, <2>1, <2>3, <2>4, <2>5
<1>21. ASSUME NEW o \in Ops, Wiped(o) PROVE KeysInv'
  <2>1. /\ op[o] # None /\ op[o].tab \in Tabs /\ op[o].at = "wipe" /\ op[o].kind \in Kinds
        /\ Replied(o, "wipe") /\ ReplyKey(o) \in Keys
        /\ UNCHANGED << key, wraps, sealed, raced, sess, signedIn >>
    BY <1>a, <1>21, Fields, RepliedTyped DEF Wiped, Replied
  <2>2. Heeds(o)
    BY <1>a, <2>1, HeedsReply
  <2>3. CASE op[o].kind = "load"
    <3>0. Finish(o, pending) /\ UNCHANGED toWorker
      BY <1>21, <2>1, <2>3 DEF Wiped
    <3>1. op'[o] = None /\ \A p \in Ops \ {o} : op'[p] = op[p]
      BY <1>a, <2>1, <2>2, <3>0, FinishIs
    <3>5. Posts(o)
      BY <1>a, <2>1, <2>2, <3>0, PostsNothing
    <3> QED
      BY <1>a, <1>b, <2>1, <2>2, <3>0, <3>1, <3>5, EndStep
  <2>4. CASE op[o].kind # "load"
    <3>0. Go(o, "reject", None) /\ UNCHANGED toWorker
      BY <1>21, <2>1, <2>4 DEF Wiped
    <3>1. /\ op'[o] # None /\ op'[o].tab = op[o].tab /\ op'[o].kind = op[o].kind
          /\ op'[o].at = "reject" /\ op'[o].key = None /\ op'[o].answer = None
          /\ \A p \in Ops \ {o} : op'[p] = op[p]
      BY <1>a, <2>1, <2>2, <3>0, <2>4, GoIs DEF Requests, Replies, Keys
    <3>2. Posts(o)
      BY <1>a, <2>1, <2>2, <3>0, <2>4, PostsNothing
    <3>k. op[o].kind # "save"
      BY <1>a, <2>1, <2>2, <3>0, <2>4 DEF InPlace, Placed
    <3>3. Placed(o)'
      BY <1>a, <2>1, <2>2, <3>0, <2>4, <3>k, <3>1 DEF InPlace, Placed, Requests, Registers,
         SignIns, Kinds
    <3>4. ~raced => (HasCreated(o)' => HasCreated(o)) /\ Uses(o)'
      BY <1>a, <2>1, <2>2, <3>0, <2>4, <3>k, <3>1 DEF OneKey, HasCreated, Uses, Unposted,
         Heeds, Registers
    <3> QED
      BY <1>a, <1>b, <2>1, <2>2, <3>0, <2>4, <3>k, <3>1, <3>2, <3>3, <3>4, OnStep
  <2> QED
    BY <1>21, <2>1, <2>3, <2>4
<1>22. ASSUME NEW o \in Ops, Rejected(o) PROVE KeysInv'
  <2>1. /\ op[o] # None /\ op[o].tab \in Tabs /\ op[o].at \in Requests /\ op[o].key \in Keys
        /\ op[o].kind \in Kinds
        /\ op[o].at = "reject"
        /\ UNCHANGED << key, wraps, sealed, raced, sess >>
    BY <1>a, <1>22, Fields DEF Rejected, Answered, Requests
  <2>2. Heeds(o)
    <3>1. UNCHANGED fromWorker
      BY <1>22 DEF Rejected
    <3> QED
      BY <1>a, <2>1, <3>1, HeedsNothing
  <2>s. \A t \in Tabs : signedIn'[t] => signedIn[t]
    BY <1>a, <1>22, <2>1 DEF Rejected, ConsoleTypeOK
  <2>3. Finish(o, pending) /\ Posts(o)
    BY <1>a, <1>22, <2>1, PostsLock DEF Rejected
  <2>4. op'[o] = None /\ \A p \in Ops \ {o} : op'[p] = op[p]
    BY <1>a, <2>1, <2>3, FinishIs
  <2> QED
    BY <1>a, <1>b, <2>1, <2>2, <2>3, <2>4, <2>s, EndStep
<1>23. ASSUME NEW o \in Ops, LoggedOut(o) PROVE KeysInv'
  <2>1. /\ op[o] # None /\ op[o].tab \in Tabs /\ op[o].at \in Requests /\ op[o].key \in Keys
        /\ op[o].kind \in Kinds
        /\ op[o].at = "logout"
        /\ UNCHANGED << key, wraps, sealed, raced, sess >>
    BY <1>a, <1>23, Fields DEF LoggedOut, Answered, Requests
  <2>2. Heeds(o)
    <3>1. UNCHANGED fromWorker
      BY <1>23 DEF LoggedOut
    <3> QED
      BY <1>a, <2>1, <3>1, HeedsNothing
  <2>s. \A t \in Tabs : signedIn'[t] => signedIn[t]
    BY <1>a, <1>23, <2>1 DEF LoggedOut, SignOutLocal, ConsoleTypeOK
  <2>3. KeysInv'
    <3>0. Go(o, "lock", None) /\ Post(op[o].tab, Msg("lock", o, None))
      BY <1>23, <2>1 DEF LoggedOut
    <3>1. /\ op'[o] # None /\ op'[o].tab = op[o].tab /\ op'[o].kind = op[o].kind
          /\ op'[o].at = "lock" /\ op'[o].key = None /\ op'[o].answer = None
          /\ \A p \in Ops \ {o} : op'[p] = op[p]
      BY <1>a, <2>1, <2>2, <3>0, <2>s, GoIs DEF Requests, Replies, Keys
    <3>2. Posts(o)
      BY <1>a, <2>1, <2>2, <3>0, <2>s, <3>1, MsgTyped, PostsOwn DEF Replies
    <3>k. op[o].kind # "save"
      BY <1>a, <2>1, <2>2, <3>0, <2>s DEF InPlace, Placed
    <3>3. Placed(o)'
      BY <1>a, <2>1, <2>2, <3>0, <2>s, <3>k, <3>1 DEF InPlace, Placed, Requests, Registers,
         SignIns, Kinds
    <3>4. ~raced => (HasCreated(o)' => HasCreated(o)) /\ Uses(o)'
      BY <1>a, <2>1, <2>2, <3>0, <2>s, <3>k, <3>1 DEF OneKey, HasCreated, Uses, Unposted,
         Heeds, Registers
    <3> QED
      BY <1>a, <1>b, <2>1, <2>2, <3>0, <2>s, <3>k, <3>1, <3>2, <3>3, <3>4, OnStep
  <2> QED
    BY <2>3
<1>24. ASSUME NEW o \in Ops, Locked(o) PROVE KeysInv'
  <2>1. /\ op[o] # None /\ op[o].tab \in Tabs /\ op[o].at = "lock" /\ op[o].kind \in Kinds
        /\ Replied(o, "lock") /\ ReplyKey(o) \in Keys
        /\ UNCHANGED << key, wraps, sealed, raced, sess, signedIn >>
    BY <1>a, <1>24, Fields, RepliedTyped DEF Locked, Replied
  <2>2. Heeds(o)
    BY <1>a, <2>1, HeedsReply
  <2>3. KeysInv'
    <3>0. Finish(o, pending) /\ UNCHANGED toWorker
      BY <1>24, <2>1 DEF Locked
    <3>1. op'[o] = None /\ \A p \in Ops \ {o} : op'[p] = op[p]
      BY <1>a, <2>1, <2>2, <3>0, FinishIs
    <3>5. Posts(o)
      BY <1>a, <2>1, <2>2, <3>0, PostsNothing
    <3> QED
      BY <1>a, <1>b, <2>1, <2>2, <3>0, <3>1, <3>5, EndStep
  <2> QED
    BY <2>3
<1>25. ASSUME NEW o \in Ops, Sealed(o) PROVE KeysInv'
  <2>1. /\ op[o] # None /\ op[o].tab \in Tabs /\ op[o].at = "seal" /\ op[o].kind \in Kinds
        /\ Replied(o, "seal") /\ ReplyKey(o) \in Keys
        /\ UNCHANGED << key, wraps, sealed, raced, sess, signedIn >>
    BY <1>a, <1>25, Fields, RepliedTyped DEF Sealed, Replied
  <2>2. Heeds(o)
    BY <1>a, <2>1, HeedsReply
  <2>w. ~raced => ReplyKey(o) \in wraps \cup {None}
    <3>1. \E m \in Range(fromWorker[op[o].tab]) : m.by = o /\ ReplyKey(o) = m.key
      BY <1>a, <2>1, Heeded
    <3> QED
      BY <1>a, <2>1, <3>1 DEF OneKey, Answer
  <2>3. CASE ReplyKey(o) = None
    <3>0. Finish(o, pending) /\ UNCHANGED toWorker
      BY <1>25, <2>1, <2>3 DEF Sealed
    <3>1. op'[o] = None /\ \A p \in Ops \ {o} : op'[p] = op[p]
      BY <1>a, <2>1, <2>2, <3>0, FinishIs
    <3>5. Posts(o)
      BY <1>a, <2>1, <2>2, <3>0, PostsNothing
    <3> QED
      BY <1>a, <1>b, <2>1, <2>2, <3>0, <3>1, <3>5, EndStep
  <2>4. CASE ReplyKey(o) # None
    <3>0. Go(o, "get", ReplyKey(o)) /\ UNCHANGED toWorker
      BY <1>25, <2>1, <2>4 DEF Sealed
    <3>1. /\ op'[o] # None /\ op'[o].tab = op[o].tab /\ op'[o].kind = op[o].kind
          /\ op'[o].at = "get" /\ op'[o].key = ReplyKey(o) /\ op'[o].answer = None
          /\ \A p \in Ops \ {o} : op'[p] = op[p]
      BY <1>a, <2>1, <2>2, <3>0, <2>w, <2>4, GoIs DEF Requests, Replies, Keys
    <3>2. Posts(o)
      BY <1>a, <2>1, <2>2, <3>0, <2>w, <2>4, PostsNothing
    <3>3. Placed(o)'
      BY <1>a, <2>1, <2>2, <3>0, <2>w, <2>4, <3>1 DEF InPlace, Placed, Requests, Registers,
         SignIns, Kinds
    <3>4. ~raced => (HasCreated(o)' => HasCreated(o)) /\ Uses(o)'
      BY <1>a, <2>1, <2>2, <3>0, <2>w, <2>4, <3>1 DEF OneKey, HasCreated, Uses, Unposted,
         Heeds, Registers
    <3> QED
      BY <1>a, <1>b, <2>1, <2>2, <3>0, <2>w, <2>4, <3>1, <3>2, <3>3, <3>4, OnStep
  <2> QED
    BY <1>25, <2>1, <2>3, <2>4
<1>26. ASSUME NEW o \in Ops, Saves(o) PROVE KeysInv'
  <2>1. /\ op[o] # None /\ op[o].tab \in Tabs /\ op[o].at \in Requests /\ op[o].key \in Keys
        /\ op[o].kind \in Kinds
        /\ op[o].at \in {"get", "put"}
        /\ UNCHANGED << key, wraps, sealed, raced, sess, signedIn >>
    BY <1>a, <1>26, Fields DEF Saves, Answered, Requests
  <2>2. Heeds(o)
    <3>1. UNCHANGED fromWorker
      BY <1>26 DEF Saves
    <3> QED
      BY <1>a, <2>1, <3>1, HeedsNothing
  <2>3. CASE ~Live(o)
    <3>0. Finish(o, pending) /\ UNCHANGED toWorker
      BY <1>26, <2>1, <2>3 DEF Saves
    <3>1. op'[o] = None /\ \A p \in Ops \ {o} : op'[p] = op[p]
      BY <1>a, <2>1, <2>2, <3>0, FinishIs
    <3>5. Posts(o)
      BY <1>a, <2>1, <2>2, <3>0, PostsNothing
    <3> QED
      BY <1>a, <1>b, <2>1, <2>2, <3>0, <3>1, <3>5, EndStep
  <2>4. CASE Live(o) /\ op[o].answer = "yes"
    <3>0. Go(o, "put", op[o].key) /\ UNCHANGED toWorker
      BY <1>26, <2>1, <2>4 DEF Saves
    <3>1. /\ op'[o] # None /\ op'[o].tab = op[o].tab /\ op'[o].kind = op[o].kind
          /\ op'[o].at = "put" /\ op'[o].key = op[o].key /\ op'[o].answer = None
          /\ \A p \in Ops \ {o} : op'[p] = op[p]
      BY <1>a, <2>1, <2>2, <3>0, <2>4, GoIs DEF Requests, Replies, Keys
    <3>2. Posts(o)
      BY <1>a, <2>1, <2>2, <3>0, <2>4, PostsNothing
    <3>3. Placed(o)'
      BY <1>a, <2>1, <2>2, <3>0, <2>4, <3>1 DEF InPlace, Placed, Requests, Registers, SignIns, Kinds
    <3>4. ~raced => (HasCreated(o)' => HasCreated(o)) /\ Uses(o)'
      BY <1>a, <2>1, <2>2, <3>0, <2>4, <3>1 DEF OneKey, HasCreated, Uses, Unposted, Heeds, Registers
    <3> QED
      BY <1>a, <1>b, <2>1, <2>2, <3>0, <2>4, <3>1, <3>2, <3>3, <3>4, OnStep
  <2>5. CASE Live(o) /\ op[o].answer # "yes"
    <3> DEFINE f == [op[o] EXCEPT !.kind = "signOut", !.at = "logout",
                                  !.gen = gen[op[o].tab] + 1, !.key = None, !.answer = None]
    <3>1. op' = [op EXCEPT ![o] = f] /\ UNCHANGED toWorker
      BY <1>26, <2>5 DEF Saves
    <3>2. /\ f \in UnderWay /\ f.tab = op[o].tab /\ f.kind = "signOut" /\ f.at = "logout" /\ f.answer = None
      <4>1. gen[op[o].tab] + 1 \in Nat /\ op[o] \in UnderWay
        BY <1>a, <2>1, Fields DEF ConsoleTypeOK
      <4> QED
        BY <4>1 DEF UnderWay, Kinds, Requests
    <3> HIDE DEF f
    <3>3. op'[o] = f /\ \A p \in Ops \ {o} : op'[p] = op[p]
      BY <1>a, <3>1 DEF ConsoleTypeOK
    <3>4. Placed(o)' /\ Follows(o)' /\ Uses(o)' /\ ~HasCreated(o)'
      BY <3>2, <3>3, NoneIsNothing DEF Placed, Follows, Uses, HasCreated, Registers, Answers
    <3>5. Posts(o)
      BY <1>a, <3>1, PostsNothing
    <3>6. Turns(o)
      BY <2>1, <2>2, <3>3, <3>4, <3>5 DEF Turns
    <3>7. ~raced => sealed' \subseteq wraps
      BY <1>a, <2>1 DEF OneKey
    <3> QED
      BY <1>b, <2>1, <3>4, <3>6, <3>7, TurnStep
  <2> QED
    BY <2>3, <2>4, <2>5
<1>27. ASSUME NEW o \in Ops, GivesUp(o) PROVE KeysInv'
  <2>1. /\ op[o] # None /\ op[o].tab \in Tabs /\ op[o].at \in Requests /\ op[o].key \in Keys
        /\ op[o].kind \in Kinds
        /\ Finish(o, pending) /\ UNCHANGED toWorker
        /\ UNCHANGED << key, wraps, sealed, raced, sess, signedIn >>
    BY <1>a, <1>27, Fields DEF GivesUp, Answered, Requests
  <2>2. Heeds(o)
    <3>1. UNCHANGED fromWorker
      BY <1>27 DEF GivesUp
    <3> QED
      BY <1>a, <2>1, <3>1, HeedsNothing
  <2>3. op'[o] = None /\ \A p \in Ops \ {o} : op'[p] = op[p]
    BY <1>a, <2>1, <2>2, FinishIs
  <2>5. Posts(o)
    BY <1>a, <2>1, <2>2, PostsNothing
  <2> QED
    BY <1>a, <1>b, <2>1, <2>2, <2>3, <2>5, EndStep
<1>28. ASSUME NEW o \in Ops, NetworkFails(o) PROVE KeysInv'
  <2>1. /\ op[o] # None /\ op[o].at \in Requests /\ op[o].answer = None
        /\ Says(o, {"lost"})
        /\ UNCHANGED << ports, key, wraps, raced, signedIn, sealed >> /\ UNCHANGED sess
    BY <1>28 DEF NetworkFails, Asked, OnlyServer, Requests, SignIns, Registers
  <2>2. /\ op'[o] # None /\ op'[o].tab = op[o].tab /\ op'[o].kind = op[o].kind
        /\ op'[o].at = op[o].at /\ op'[o].key = op[o].key /\ op'[o].answer \in {"lost"}
        /\ \A p \in Ops \ {o} : op'[p] = op[p]
    BY <1>a, <2>1, SaysIs DEF Answers
  <2>3. op'[o].answer # None
    BY <2>2, NoneIsNothing DEF Answers
  <2> QED
    BY <1>a, <1>b, <2>1, <2>2, <2>3, ServedStep
<1>29. ASSUME NEW o \in Ops, ServeStart(o) PROVE KeysInv'
  <2> DEFINE f == [op[o] EXCEPT !.answer = IF wraps = {} \/ sess THEN "yes" ELSE "no", !.add = wraps # {}]
  <2>1. /\ op[o] # None /\ op[o].kind \in Registers /\ op[o].at = "start" /\ op[o].at \in Requests
        /\ op' = [op EXCEPT ![o] = f]
        /\ UNCHANGED << ports, key, wraps, raced, signedIn, sealed, sess >>
    BY <1>29 DEF ServeStart, Asked, OnlyServer, Requests
  <2>2. op[o] \in UnderWay /\ (wraps # {}) \in BOOLEAN
    BY <1>a, <2>1, Fields
  <2>3. /\ f \in UnderWay /\ f.tab = op[o].tab /\ f.kind = op[o].kind /\ f.at = op[o].at
        /\ f.key = op[o].key /\ f.answer \in {"yes", "no"}
    BY <2>2 DEF UnderWay, Answers
  <2> HIDE DEF f
  <2>4. op'[o] = f /\ \A p \in Ops \ {o} : op'[p] = op[p]
    BY <1>a, <2>1 DEF ConsoleTypeOK
  <2>5. op'[o] # None /\ op'[o].answer # None
    BY <2>3, <2>4, NoneIsNothing DEF Answers
  <2> QED
    BY <1>a, <1>b, <2>1, <2>3, <2>4, <2>5, ServedStep DEF Registers
<1>30. ASSUME NEW o \in Ops, ServeRegister(o) PROVE KeysInv'
  BY <1>a, <1>b, <1>30, RegisterStep
<1>31. ASSUME NEW o \in Ops, ServeLogin(o) PROVE KeysInv'
  <2>1. /\ op[o] # None /\ op[o].kind = "login" /\ op[o].at = "post" /\ op[o].at \in Requests
        /\ UNCHANGED << ports, key, wraps, raced, signedIn, sealed >>
    BY <1>31 DEF ServeLogin, Asked, OnlyServer, Requests
  <2>2. CASE Says(o, {"no"}) /\ UNCHANGED sess
    <3>1. /\ op'[o] # None /\ op'[o].tab = op[o].tab /\ op'[o].kind = op[o].kind
          /\ op'[o].at = op[o].at /\ op'[o].key = op[o].key /\ op'[o].answer \in {"no"}
          /\ \A p \in Ops \ {o} : op'[p] = op[p]
      BY <1>a, <2>1, <2>2, SaysIs DEF Answers
    <3>2. op'[o].answer # None
      BY <3>1, NoneIsNothing DEF Answers
    <3> QED
      BY <1>a, <1>b, <2>1, <2>2, <3>1, <3>2, ServedStep
  <2>3. ASSUME NEW k \in wraps, NEW a \in {"yes", "lost"},
               op' = [op EXCEPT ![o].answer = a, ![o].key = k],
               sess' \in {TRUE} \cup (IF a = "lost" THEN {sess} ELSE {})
        PROVE  KeysInv'
    <3> DEFINE f == [op[o] EXCEPT !.answer = a, !.key = k]
    <3>1. op[o] \in UnderWay /\ k \in Nat \cup {None}
      BY <1>a, <2>1, Fields DEF ConsoleTypeOK, Keys
    <3>2. /\ f \in UnderWay /\ f.tab = op[o].tab /\ f.kind = op[o].kind /\ f.at = op[o].at
          /\ f.key = k /\ f.answer = a
      BY <3>1 DEF UnderWay, Answers
    <3>3. op' = [op EXCEPT ![o] = f]
      BY <2>3
    <3> HIDE DEF f
    <3>4. op'[o] = f /\ \A p \in Ops \ {o} : op'[p] = op[p]
      BY <1>a, <3>3 DEF ConsoleTypeOK
    <3>5. op'[o] # None /\ op'[o].answer # None
      BY <3>2, <3>4, NoneIsNothing DEF Answers
    <3>6. (sess' => sess \/ wraps # {}) /\ op'[o].key \in wraps
      BY <3>2, <3>4
    <3> QED
      BY <1>a, <1>b, <2>1, <3>2, <3>4, <3>5, <3>6, ServedStep
  <2> QED
    BY <1>31, <2>2, <2>3 DEF ServeLogin
<1>32. ASSUME NEW o \in Ops, ServeSession(o) PROVE KeysInv'
  <2>1. /\ op[o] # None /\ op[o].at \in Requests /\ op[o].at = "session"
        /\ Says(o, {IF sess THEN "yes" ELSE "no"})
        /\ UNCHANGED << ports, key, wraps, raced, signedIn, sealed >> /\ UNCHANGED sess
    BY <1>32 DEF ServeSession, Asked, OnlyServer, Requests, SignIns, Registers
  <2>2. /\ op'[o] # None /\ op'[o].tab = op[o].tab /\ op'[o].kind = op[o].kind
        /\ op'[o].at = op[o].at /\ op'[o].key = op[o].key /\ op'[o].answer \in {IF sess THEN "yes" ELSE "no"}
        /\ \A p \in Ops \ {o} : op'[p] = op[p]
    BY <1>a, <2>1, SaysIs DEF Answers
  <2>3. op'[o].answer # None
    BY <2>2, NoneIsNothing DEF Answers
  <2> QED
    BY <1>a, <1>b, <2>1, <2>2, <2>3, ServedStep
<1>33. ASSUME NEW o \in Ops, ServeLogout(o) PROVE KeysInv'
  <2>1. /\ op[o] # None /\ op[o].at \in Requests /\ op[o].at \in {"reject", "logout"}
        /\ Says(o, {"yes"})
        /\ UNCHANGED << ports, key, wraps, raced, signedIn, sealed >> /\ sess' = FALSE
    BY <1>33 DEF ServeLogout, Asked, OnlyServer, Requests, SignIns, Registers
  <2>2. /\ op'[o] # None /\ op'[o].tab = op[o].tab /\ op'[o].kind = op[o].kind
        /\ op'[o].at = op[o].at /\ op'[o].key = op[o].key /\ op'[o].answer \in {"yes"}
        /\ \A p \in Ops \ {o} : op'[p] = op[p]
    BY <1>a, <2>1, SaysIs DEF Answers
  <2>3. op'[o].answer # None
    BY <2>2, NoneIsNothing DEF Answers
  <2> QED
    BY <1>a, <1>b, <2>1, <2>2, <2>3, ServedStep
<1>34. ASSUME NEW o \in Ops, ServeVault(o) PROVE KeysInv'
  <2>1. /\ op[o] # None /\ op[o].kind = "save" /\ op[o].at \in {"get", "put"} /\ op[o].at \in Requests
        /\ (Says(o, {"yes"}) \/ Says(o, {"no"}))
        /\ UNCHANGED << ports, key, wraps, raced, signedIn, sess >>
        /\ sealed' = sealed \/ (op[o].at = "put" /\ sealed' = sealed \cup {op[o].key})
    BY <1>34 DEF ServeVault, Asked, OnlyServer, Requests
  <2>2. PICK as \in { {"yes"}, {"no"} } : Says(o, as)
    BY <2>1
  <2>3. /\ op'[o] # None /\ op'[o].tab = op[o].tab /\ op'[o].kind = op[o].kind
        /\ op'[o].at = op[o].at /\ op'[o].key = op[o].key /\ op'[o].answer \in as
        /\ \A p \in Ops \ {o} : op'[p] = op[p]
    BY <1>a, <2>1, <2>2, SaysIs DEF Answers
  <2>4. op'[o].answer # None
    BY <2>3, NoneIsNothing DEF Answers
  <2> QED
    BY <1>a, <1>b, <2>1, <2>3, <2>4, ServedStep
<1>35. CASE UNCHANGED vars
  <2>1. UNCHANGED << op, wraps, sealed, raced, signedIn, key, sess, toWorker, fromWorker >>
    BY <1>35 DEF vars
  <2> QED
    BY <1>a, <1>b, <2>1, AsideStep DEF ByFunction
<1> QED
  BY <1>1, <1>2, <1>3, <1>4, <1>5, <1>6, <1>7, <1>8, <1>9, <1>10, <1>11, <1>12, <1>13, <1>14,
     <1>15, <1>16, <1>17, <1>18, <1>19, <1>20, <1>21, <1>22, <1>23, <1>24, <1>25, <1>26, <1>27,
     <1>28, <1>29, <1>30, <1>31, <1>32, <1>33, <1>34, <1>35 DEF Next

-----------------------------------------------------------------------------

\* What the tabs, the worker and the functions under way hold is what it should
\* be: the type invariant of the console.
THEOREM ConsoleTypeCorrect == Spec => []ConsoleTypeOK
BY TypedInit, TypedStep, PTL DEF Spec

\* Whatever is on its way to a tab ends with the worker's state; it opens an
\* entry with a key only, leaves no plaintext on a locked tab that was told, and
\* pending stands for a sign-in or a sign-out under way. Inductive with the types.
THEOREM TabsSafe == Spec => []TabsInv
<1>1. Init => TabsInv
  BY TypedInit, TabsInit DEF TabsInv
<1>2. TabsInv /\ [Next]_vars => TabsInv'
  <2> SUFFICES ASSUME TabsInv, [Next]_vars PROVE TabsInv'
    OBVIOUS
  <2>1. ConsoleTypeOK'
    BY TypedStep DEF TabsInv
  <2>2. AllHear' /\ OpenedByKey' /\ PlaintextIsDropped'
    BY TabsHearStep DEF TabsInv
  <2>3. PendingHasCause'
    BY CausesStep DEF TabsInv
  <2> QED
    BY <2>1, <2>2, <2>3 DEF TabsInv
<1> QED
  BY <1>1, <1>2, PTL DEF Spec

\* keyholder.ts: a tab that has heard all there is knows whether the key is held.
THEOREM ViewsAlwaysSettle == Spec => []ViewsSettle
<1>1. TabsInv => ViewsSettle
  BY DEF TabsInv, AllHear, Heard, ViewsSettle
<1> QED
  BY <1>1, TabsSafe, PTL

\* vault.ts: a tab that has heard the key is gone shows no plaintext, unless it
\* saw the deadline pass before the worker told it.
THEOREM PlaintextAlwaysDropped == Spec => []PlaintextIsDropped
<1>1. TabsInv => PlaintextIsDropped
  BY DEF TabsInv
<1> QED
  BY <1>1, TabsSafe, PTL

\* gate.ts, main.ts: pending never outlives the sign-in or the sign-out it
\* stands for.
THEOREM PendingAlwaysBusy == Spec => []PendingIsBusy
<1>1. TabsInv => PendingIsBusy
  BY DEF TabsInv, PendingHasCause, Awaits, PendingIsBusy, Of
<1> QED
  BY <1>1, TabsSafe, PTL

\* As long as no key is created beside an account or another registration, the
\* key that is created, wrapped and sealed with is one. Inductive with where
\* every function is and which request or reply is its own.
THEOREM KeysSafe == Spec => []KeysInv
BY KeysInit, KeysStep, PTL DEF Spec

\* keyholder.worker.ts, gate.ts, vault.ts: all the wraps open to one key and all
\* the entries are sealed with it.
THEOREM OneKeyForVault == Spec => []OneVaultKey
<1>1. ASSUME KeysInv PROVE OneVaultKey
  <2> SUFFICES ASSUME ~raced PROVE Cardinality(wraps \cup sealed) <= 1
    BY DEF OneVaultKey
  <2>1. OneKey
    BY <1>1 DEF KeysInv
  <2>2. wraps \cup sealed = wraps
    BY <2>1 DEF OneKey
  <2>3. CASE wraps = {}
    BY <2>2, <2>3, FS_EmptySet
  <2>4. CASE wraps # {}
    <3>1. PICK k : wraps = {k}
      BY <2>1, <2>4 DEF OneKey
    <3> QED
      BY <2>2, <3>1, FS_Singleton
  <2> QED
    BY <2>3, <2>4
<1> QED
  BY <1>1, KeysSafe, PTL
=============================================================================
