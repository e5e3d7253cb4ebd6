----------------------------- MODULE DeviceFlow -----------------------------
(***************************************************************************)
(* Sign-in of a terminal (src/login.rs, src/tui/signin.rs, src/logout.rs,  *)
(* src/keyring.rs) by a request that a console approves or denies          *)
(* (crates/secd-web/src/device.rs, ui/src/screens/approve.ts). Requests    *)
(* are in the server's memory only; device sessions are rows that outlive  *)
(* it; a machine keeps the token in a file and the data key in a keyring.  *)
(* A tick is one poll interval (5 s).                                      *)
(***************************************************************************)
EXTENDS Integers, Sequences, FiniteSets

CONSTANTS
  Machines, Consoles,
  Codes,        \* user codes: a code may come again once its request is gone
  None,
  TTL,          \* polls in the lifetime of a request
  MaxStarts,    \* bound: sign-ins begun
  MaxFaults     \* bound: restarts, lost answers, quits, reboots

Keys    == 1..MaxStarts
Tokens  == Nat \ {0}
Request == [key : Keys, age : 0..(TTL + 1), token : Tokens \cup {None},
            sealedTo : Keys \cup {None}, denied : BOOLEAN]
Flow    == [code : Codes, key : Keys]
Answer  == [token : Tokens, key : Keys \cup {None}]

ASSUME DeviceConstants ==
  /\ TTL \in Nat \ {0} /\ MaxStarts \in Nat /\ MaxFaults \in Nat
  /\ None \notin Codes \cup Nat
  /\ None \notin Request /\ None \notin Flow /\ None \notin Answer

VARIABLES
  pending,   \* server: code -> request waiting, or None
  minted,    \* server: per device session its request's key, and the blob's
  live,      \* server: tokens that are not revoked
  starts,    \* the machines that began sign-ins; the n-th has key pair n
  pc,        \* machine: "out", "waiting", "expired", "received", "stored",
             \* "in", "failed"
  flow,      \* machine: code and key of its sign-in
  got,       \* machine: the token it works with, and the key its blob opens with
  polled,    \* machines that polled since the last tick
  file,      \* machine: token in login.session, or None
  ring,      \* machine: its keyring holds the data key
  leaving,   \* machine: how far `secd logout` has come
  screen,    \* console: the request its card shows
  sealed,    \* console: the key it seals the data key to, None when it does not
  refused,   \* keys whose denial was acknowledged
  faults

server  == <<pending, minted, live, refused>>
machine == <<pc, flow, got, polled, file, ring, leaving, starts>>
console == <<screen, sealed>>
vars    == <<server, machine, console, faults>>

Init ==
  /\ pending = [c \in Codes |-> None]
  /\ minted = <<>> /\ live = {} /\ refused = {}
  /\ pc = [m \in Machines |-> "out"]
  /\ flow = [m \in Machines |-> None] /\ got = [m \in Machines |-> None]
  /\ polled = {} /\ starts = <<>>
  /\ file = [m \in Machines |-> None] /\ ring = [m \in Machines |-> FALSE]
  /\ leaving = [m \in Machines |-> None]
  /\ screen = [c \in Consoles |-> None] /\ sealed = [c \in Consoles |-> None]
  /\ faults = 0

Fault == faults < MaxFaults /\ faults' = faults + 1

\* Faulty variant: the sweep is one poll early.
SweptEarly ==
  [c \in Codes |-> IF pending[c] # None /\ pending[c].age >= TTL THEN None ELSE pending[c]]

\* DevicePending::sweep, which every handler runs first.
Swept ==
  [c \in Codes |-> IF pending[c] # None /\ pending[c].age > TTL THEN None ELSE pending[c]]

-----------------------------------------------------------------------------
(* The machine.                                                            *)

\* login::resume: the stored session, when it and the key are still there and
\* the server does not answer 401.
Resume(m) ==
  /\ pc[m] = "out" /\ file[m] \in live /\ ring[m]
  /\ pc' = [pc EXCEPT ![m] = "in"]
  /\ got' = [got EXCEPT ![m] = [token |-> file[m], key |-> None]]
  /\ UNCHANGED <<server, console, faults, flow, polled, file, ring, leaving, starts>>

\* login::start and the server's start: a new key pair, a code not in use.
Start(m) ==
  /\ pc[m] = "out" /\ ~(file[m] \in live /\ ring[m]) /\ Len(starts) < MaxStarts
  /\ starts' = Append(starts, m)
  /\ \E c \in {c \in Codes : Swept[c] = None} :
       /\ pending' = [Swept EXCEPT ![c] =
            [key |-> Len(starts) + 1, age |-> 0, token |-> None, sealedTo |-> None, denied |-> FALSE]]
       /\ flow' = [flow EXCEPT ![m] = [code |-> c, key |-> Len(starts) + 1]]
  /\ pc' = [pc EXCEPT ![m] = "waiting"]
  /\ UNCHANGED <<minted, live, refused, console, faults, got, polled, file, ring, leaving>>

Polling(m) == pc[m] \in {"waiting", "expired"}

\* Faulty variant: a code the server does not know is still being waited for.
PollAnswerUnknown(c) ==
  LET r == Swept[c] IN
  IF r # None /\ r.denied THEN [status |-> "expired", left |-> [Swept EXCEPT ![c] = None]]
  ELSE [status |-> IF r = None \/ r.token = None THEN "pending" ELSE "ok", left |-> Swept]

\* What poll answers, and the requests it leaves: a denied one is told once.
PollAnswer(c) ==
  LET r == Swept[c] IN
  IF r = None THEN [status |-> "expired", left |-> Swept]
  ELSE IF r.denied THEN [status |-> "expired", left |-> [Swept EXCEPT ![c] = None]]
  ELSE [status |-> IF r.token = None THEN "pending" ELSE "ok", left |-> Swept]

\* SignIn::tick: one poll. An expired sign-in says so and polls on.
Poll(m) ==
  /\ Polling(m) /\ m \notin polled
  /\ polled' = polled \cup {m}
  /\ LET a == PollAnswer(flow[m].code) IN
       /\ pending' = a.left
       /\ CASE a.status = "pending" -> UNCHANGED <<pc, got>>
            [] a.status = "expired" ->
                 pc' = [pc EXCEPT ![m] = "expired"] /\ UNCHANGED got
            [] a.status = "ok" ->
                 /\ pc' = [pc EXCEPT ![m] = "received"]
                 /\ got' = [got EXCEPT ![m] = [token |-> Swept[flow[m].code].token,
                                               key |-> Swept[flow[m].code].sealedTo]]
  /\ UNCHANGED <<minted, live, refused, console, faults, flow, file, ring, leaving, starts>>

\* The answer of a poll is lost: an error on the screen, and the next poll.
LosePoll(m) ==
  /\ Polling(m) /\ m \notin polled /\ Fault
  /\ polled' = polled \cup {m}
  /\ pending' = PollAnswer(flow[m].code).left
  /\ UNCHANGED <<minted, live, refused, console, pc, flow, got, file, ring, leaving, starts>>

\* Faulty variant: the key is stored whatever the blob opens with.
StoreAny(m) ==
  /\ pc[m] = "received"
  /\ ring' = [ring EXCEPT ![m] = TRUE] /\ pc' = [pc EXCEPT ![m] = "stored"]
  /\ UNCHANGED <<server, console, faults, flow, got, polled, file, leaving, starts>>

\* login::finish up to keyring::store. A blob sealed to another key does not
\* open: the hand-off failed and the sign-in is over.
Store(m) ==
  /\ pc[m] = "received"
  /\ IF got[m].key = flow[m].key
     THEN ring' = [ring EXCEPT ![m] = TRUE] /\ pc' = [pc EXCEPT ![m] = "stored"]
     ELSE pc' = [pc EXCEPT ![m] = "failed"] /\ UNCHANGED ring
  /\ UNCHANGED <<server, console, faults, flow, got, polled, file, leaving, starts>>

\* login::finish, save_session.
SaveSession(m) ==
  /\ pc[m] = "stored"
  /\ file' = [file EXCEPT ![m] = got[m].token]
  /\ pc' = [pc EXCEPT ![m] = "in"]
  /\ UNCHANGED <<server, console, faults, flow, got, polled, ring, leaving, starts>>

\* The user quits, or the process ends half way. keyring::store begins by
\* deleting the key it replaces.
Quit(m) ==
  /\ pc[m] # "out"
  /\ IF pc[m] \in {"in", "failed"} THEN UNCHANGED faults ELSE Fault
  /\ pc' = [pc EXCEPT ![m] = "out"]
  /\ flow' = [flow EXCEPT ![m] = None] /\ got' = [got EXCEPT ![m] = None]
  /\ \E kept \in {ring[m], IF pc[m] = "received" THEN FALSE ELSE ring[m]} :
       ring' = [ring EXCEPT ![m] = kept]
  /\ UNCHANGED <<server, console, polled, file, leaving, starts>>

\* The keyring does not outlive a reboot.
Reboot(m) ==
  /\ Fault
  /\ pc' = [pc EXCEPT ![m] = "out"] /\ ring' = [ring EXCEPT ![m] = FALSE]
  /\ flow' = [flow EXCEPT ![m] = None] /\ got' = [got EXCEPT ![m] = None]
  /\ leaving' = [leaving EXCEPT ![m] = None]
  /\ UNCHANGED <<server, console, polled, file, starts>>

\* logout::run, in three steps beside whatever else runs on the machine. The
\* answer to the revoke, or its absence, is ignored.
LogoutRevoke(m) ==
  /\ leaving[m] = None /\ (file[m] # None \/ ring[m])
  /\ leaving' = [leaving EXCEPT ![m] = "revoked"]
  /\ \/ live' = live \ {file[m]} /\ UNCHANGED faults
     \/ file[m] # None /\ Fault /\ UNCHANGED live
  /\ UNCHANGED <<pending, minted, refused, console, pc, flow, got, polled, file, ring, starts>>

LogoutRemove(m) ==
  /\ leaving[m] = "revoked"
  /\ file' = [file EXCEPT ![m] = None]
  /\ leaving' = [leaving EXCEPT ![m] = "removed"]
  /\ UNCHANGED <<server, console, faults, pc, flow, got, polled, ring, starts>>

LogoutDelete(m) ==
  /\ leaving[m] = "removed"
  /\ ring' = [ring EXCEPT ![m] = FALSE]
  /\ leaving' = [leaving EXCEPT ![m] = None]
  /\ UNCHANGED <<server, console, faults, pc, flow, got, polled, file, starts>>

-----------------------------------------------------------------------------
(* The consoles, and what the server does for them.                        *)

\* The requests a console can put on its card: those /device/pending lists,
\* and the link a waiting terminal shows, which carries code and key.
Shown ==
  {[code |-> c, key |-> Swept[c].key] :
     c \in {d \in Codes : Swept[d] # None /\ Swept[d].token = None /\ ~Swept[d].denied}}
  \cup {flow[m] : m \in {n \in Machines : Polling(n)}}

\* A card can be left and another one picked while a blob is being sealed.
Pick(c) ==
  /\ \E r \in Shown \ {screen[c]} : screen' = [screen EXCEPT ![c] = r]
  /\ UNCHANGED <<server, machine, faults, sealed>>

\* onApprove up to the await of sealToEph.
Seal(c) ==
  /\ screen[c] # None /\ sealed[c] = None
  /\ sealed' = [sealed EXCEPT ![c] = screen[c].key]
  /\ UNCHANGED <<server, machine, faults, screen>>

\* Faulty variants: approve forgets that a request was denied, or approved.
ApprovableDenied(r) == r # None /\ r.token = None
ApprovableAgain(r)  == r # None /\ ~r.denied

\* The requests approve lets through.
Approvable(r) == r # None /\ ~r.denied /\ r.token = None

\* onApprove after the await, and approve: the code is the one on the card now,
\* the blob the one sealed before. Minting and the mark on the request are one
\* step under the lock of the requests; a crash in between is a restart.
Approve(c) ==
  /\ sealed[c] # None
  /\ sealed' = [sealed EXCEPT ![c] = None]
  /\ LET d == screen[c].code IN
       IF Approvable(Swept[d])
       THEN /\ minted' = Append(minted, [key |-> Swept[d].key, sealedTo |-> sealed[c]])
            /\ live' = live \cup {Len(minted) + 1}
            /\ pending' = [Swept EXCEPT ![d].token = Len(minted) + 1, ![d].sealedTo = sealed[c]]
       ELSE pending' = Swept /\ UNCHANGED <<minted, live>>
  /\ UNCHANGED <<refused, machine, faults, screen>>

\* onDeny and deny: not once the request is approved.
Deny(c) ==
  /\ screen[c] # None
  /\ LET d == screen[c].code IN
       IF Swept[d] # None /\ Swept[d].token = None
       THEN /\ pending' = [Swept EXCEPT ![d].denied = TRUE]
            /\ refused' = refused \cup {Swept[d].key}
       ELSE pending' = Swept /\ UNCHANGED refused
  /\ UNCHANGED <<minted, live, machine, console, faults>>

\* A console revokes a device in its list of sessions.
RevokeDevice(t) ==
  /\ live' = live \ {t}
  /\ UNCHANGED <<pending, minted, refused, machine, console, faults>>

\* The requests are lost, the rows are not.
Restart ==
  /\ Fault
  /\ pending' = [c \in Codes |-> None]
  /\ UNCHANGED <<minted, live, refused, machine, console>>

\* A poll interval passes: every sign-in on screen has polled in it.
Tick ==
  /\ {m \in Machines : Polling(m)} \subseteq polled
  /\ polled' = {}
  /\ pending' = [c \in Codes |->
       IF pending[c] # None /\ pending[c].age <= TTL
       THEN [pending[c] EXCEPT !.age = @ + 1] ELSE pending[c]]
  /\ UNCHANGED <<minted, live, refused, console, faults, pc, flow, got, file, ring, leaving, starts>>

Next ==
  \/ \E m \in Machines : Resume(m) \/ Start(m) \/ Poll(m) \/ LosePoll(m) \/ Store(m)
  \/ \E m \in Machines : SaveSession(m) \/ Quit(m) \/ Reboot(m)
  \/ \E m \in Machines : LogoutRevoke(m) \/ LogoutRemove(m) \/ LogoutDelete(m)
  \/ \E c \in Consoles : Pick(c) \/ Seal(c) \/ Approve(c) \/ Deny(c)
  \/ \E t \in live : RevokeDevice(t)
  \/ Restart
  \/ Tick

Spec == Init /\ [][Next]_vars

\* The terminal's loop polls, and finishes what it began, for as long as it
\* runs; time passes. Nothing is assumed of the users, and no fault has to
\* happen or to stay away.
FairSpec ==
  /\ Spec
  /\ \A m \in Machines : WF_vars(Poll(m)) /\ WF_vars(Store(m)) /\ WF_vars(SaveSession(m))
  /\ WF_vars(Tick)

-----------------------------------------------------------------------------

TypeOK ==
  /\ pending \in [Codes -> Request \cup {None}]
  /\ minted \in Seq([key : Keys, sealedTo : Keys]) /\ live \subseteq 1..Len(minted) /\ refused \subseteq Keys
  /\ starts \in Seq(Machines) /\ Len(starts) <= MaxStarts
  /\ pc \in [Machines -> {"out", "waiting", "expired", "received", "stored", "in", "failed"}]
  /\ flow \in [Machines -> Flow \cup {None}]
  /\ got \in [Machines -> Answer \cup {None}]
  /\ polled \subseteq Machines
  /\ file \in [Machines -> Tokens \cup {None}] /\ ring \in [Machines -> BOOLEAN]
  /\ leaving \in [Machines -> {"revoked", "removed", None}]
  /\ screen \in [Consoles -> Flow \cup {None}]
  /\ sealed \in [Consoles -> Keys \cup {None}]
  /\ faults \in 0..MaxFaults

\* Whatever two consoles, their retries, restarts and crashes do, a request
\* yields at most one device session.
OneSessionPerRequest ==
  \A i, j \in 1..Len(minted) : minted[i].key = minted[j].key => i = j

\* A console that was told its denial stands never sees that request become a
\* session, and none had been minted before.
DenialIsFinal == \A i \in 1..Len(minted) : minted[i].key \notin refused

\* A machine keeps a session only when a console sealed the data key to that
\* machine, even if its sign-in polls on under a code another machine has now,
\* or a console changed cards while it sealed.
SealedForMachine ==
  \A m \in Machines : file[m] # None => starts[minted[file[m]].sealedTo] = m

\* An approved sign-in that its request's lifetime still leaves a poll for.
Deliverable(m) ==
  /\ Polling(m)
  /\ LET r == pending[flow[m].code] IN
       /\ r # None /\ r.key = flow[m].key
       /\ r.token # None /\ r.sealedTo = r.key
       /\ r.age < TTL \/ (r.age = TTL /\ m \notin polled)

\* An approval reaches its terminal, and the terminal is signed in, unless a
\* restart, a lost answer, a quit or a reboot comes in between.
ApprovalArrives ==
  \A m \in Machines, f \in 0..MaxFaults :
    (Deliverable(m) /\ faults = f) ~> (pc[m] = "in" \/ faults > f)

\* No sign-in waits for ever: it is approved, or told that it is over, even if
\* the server forgot it.
SignInSettles == \A m \in Machines : (pc[m] = "waiting") ~> (pc[m] # "waiting")
=============================================================================
