-------------------------- MODULE DeviceFlow_proofs --------------------------
(***************************************************************************)
(* That a sign-in request yields one device session at most, that a denial *)
(* stands, and that a machine keeps no session but one sealed for it, for  *)
(* any number of machines, consoles, codes, sign-ins and faults.           *)
(***************************************************************************)
EXTENDS DeviceFlow, SequenceTheorems, TLAPS

(* Types *)

LEMMA SweptTyped ==
  ASSUME pending \in [Codes -> Request \cup {None}]
  PROVE  /\ Swept \in [Codes -> Request \cup {None}]
         /\ \A c \in Codes : Swept[c] = None \/ Swept[c] = pending[c]
BY DEF Swept

LEMMA AnswerTyped ==
  ASSUME pending \in [Codes -> Request \cup {None}], NEW c \in Codes
  PROVE  /\ PollAnswer(c).left \in [Codes -> Request \cup {None}]
         /\ PollAnswer(c).status = "ok" => Swept[c] # None /\ Swept[c].token # None
         /\ \A d \in Codes : PollAnswer(c).left[d] = None \/ PollAnswer(c).left[d] = Swept[d]
BY SweptTyped DEF PollAnswer

\* A sign-in under way has a code and a key, one that was answered an answer; what a
\* console seals is on its card.
Underway == \A m \in Machines :
  /\ pc[m] \in {"waiting", "expired", "received", "stored"} => flow[m] \in Flow
  /\ pc[m] \in {"received", "stored"} => got[m] \in Answer
OnCard == \A c \in Consoles : sealed[c] # None => screen[c] \in Flow
Typed == TypeOK /\ Underway /\ OnCard

LEMMA InitTyped == Init => Typed
<1> SUFFICES ASSUME Init PROVE Typed
  OBVIOUS
<1>1. 0 \in 0..MaxFaults /\ Len(starts) <= MaxStarts /\ Len(minted) = 0
  BY DeviceConstants DEF Init
<1> QED
  BY <1>1 DEF Init, Typed, TypeOK, Underway, OnCard

LEMMA StepTyped == Typed /\ [Next]_vars => Typed'
<1> SUFFICES ASSUME Typed, [Next]_vars PROVE Typed'
  OBVIOUS
<1> USE DEF Typed, TypeOK, Underway, OnCard, server, machine, console
<1>0. ASSUME Fault PROVE faults' \in 0..MaxFaults
  BY <1>0, DeviceConstants DEF Fault
<1>00. Swept \in [Codes -> Request \cup {None}]
  BY SweptTyped
<1>000. \A c \in Codes : Swept[c] = None \/ Swept[c] \in Request
  BY <1>00
<1>1. ASSUME NEW m \in Machines, Resume(m) PROVE Typed'
  <2>1. [token |-> file[m], key |-> None] \in Answer
    <3>1. file[m] \in 1..Len(minted)
      BY <1>1 DEF Resume
    <3>2. file[m] \in Tokens
      BY <3>1, LenProperties DEF Tokens
    <3> QED
      BY <3>2 DEF Answer
  <2> QED
    BY <1>1, <2>1 DEF Resume
<1>2. ASSUME NEW m \in Machines, Start(m) PROVE Typed'
  <2>1. PICK c \in Codes :
          /\ pending' = [Swept EXCEPT ![c] =
               [key |-> Len(starts) + 1, age |-> 0, token |-> None, sealedTo |-> None, denied |-> FALSE]]
          /\ flow' = [flow EXCEPT ![m] = [code |-> c, key |-> Len(starts) + 1]]
    BY <1>2 DEF Start
  <2>2. Len(starts) + 1 \in Keys /\ 0 \in 0..(TTL + 1)
    BY <1>2, DeviceConstants DEF Start, Keys
  <2>3. [key |-> Len(starts) + 1, age |-> 0, token |-> None, sealedTo |-> None, denied |-> FALSE] \in Request
    BY <2>2 DEF Request
  <2>4. [code |-> c, key |-> Len(starts) + 1] \in Flow
    BY <2>2 DEF Flow
  <2>5. starts' \in Seq(Machines) /\ Len(starts') <= MaxStarts
    BY <1>2, DeviceConstants DEF Start
  <2>6. pending' \in [Codes -> Request \cup {None}] /\ flow' \in [Machines -> Flow \cup {None}]
    BY <1>00, <2>1, <2>3, <2>4
  <2>7. Underway'
    BY <1>2, <2>1, <2>4 DEF Start
  <2> QED
    BY <1>2, <2>5, <2>6, <2>7 DEF Start
<1>3. ASSUME NEW m \in Machines, Poll(m) PROVE Typed'
  <2>1. flow[m] \in Flow /\ flow[m].code \in Codes
    BY <1>3 DEF Poll, Polling, Flow
  <2>2. pending' \in [Codes -> Request \cup {None}]
    BY <1>3, <2>1, AnswerTyped DEF Poll
  <2>3. CASE PollAnswer(flow[m].code).status \in {"pending", "expired"}
    BY <1>3, <2>1, <2>2, <2>3 DEF Poll, Polling
  <2>4. CASE PollAnswer(flow[m].code).status = "ok"
    <3>1. Swept[flow[m].code] \in Request /\ Swept[flow[m].code].token # None
      BY <1>000, <2>1, <2>4, AnswerTyped
    <3>2. [token |-> Swept[flow[m].code].token, key |-> Swept[flow[m].code].sealedTo] \in Answer
      BY <3>1 DEF Request, Answer
    <3>3. /\ pc' = [pc EXCEPT ![m] = "received"]
          /\ got' = [got EXCEPT ![m] = [token |-> Swept[flow[m].code].token,
                                        key |-> Swept[flow[m].code].sealedTo]]
      BY <1>3, <2>4 DEF Poll
    <3> QED
      BY <1>3, <2>1, <2>2, <3>2, <3>3 DEF Poll
  <2>5. PollAnswer(flow[m].code).status \in {"pending", "expired", "ok"}
    BY <2>1 DEF PollAnswer
  <2> QED
    BY <2>3, <2>4, <2>5
<1>4. ASSUME NEW m \in Machines, LosePoll(m) PROVE Typed'
  <2>1. flow[m] \in Flow /\ flow[m].code \in Codes
    BY <1>4 DEF LosePoll, Polling, Flow
  <2>2. pending' \in [Codes -> Request \cup {None}]
    BY <1>4, <2>1, AnswerTyped DEF LosePoll
  <2> QED
    BY <1>0, <1>4, <2>2 DEF LosePoll
<1>5. ASSUME NEW m \in Machines, Store(m) PROVE Typed'
  BY <1>5 DEF Store
<1>6. ASSUME NEW m \in Machines, SaveSession(m) PROVE Typed'
  BY <1>6 DEF SaveSession, Answer
<1>7. ASSUME NEW m \in Machines, Quit(m) PROVE Typed'
  BY <1>0, <1>7 DEF Quit
<1>8. ASSUME NEW m \in Machines, Reboot(m) PROVE Typed'
  BY <1>0, <1>8 DEF Reboot
<1>9. ASSUME NEW m \in Machines, LogoutRevoke(m) \/ LogoutRemove(m) \/ LogoutDelete(m) PROVE Typed'
  BY <1>0, <1>9 DEF LogoutRevoke, LogoutRemove, LogoutDelete
<1>10. ASSUME NEW c \in Consoles, Pick(c) PROVE Typed'
  <2>1. Shown \subseteq Flow
    <3>1. \A d \in Codes : Swept[d] # None => [code |-> d, key |-> Swept[d].key] \in Flow
      BY <1>000 DEF Flow, Request
    <3> QED
      BY <3>1 DEF Shown, Polling
  <2> QED
    BY <1>10, <2>1 DEF Pick
<1>11. ASSUME NEW c \in Consoles, Seal(c) PROVE Typed'
  BY <1>11 DEF Seal, Flow
<1>12. ASSUME NEW c \in Consoles, Approve(c) PROVE Typed'
  <2>1. sealed[c] \in Keys /\ screen[c] \in Flow /\ screen[c].code \in Codes
    BY <1>12 DEF Approve, Flow
  <2>2. CASE Approvable(Swept[screen[c].code])
    <3>1. Swept[screen[c].code] \in Request /\ Len(minted) + 1 \in Tokens
      BY <1>000, <2>1, <2>2 DEF Approvable, Tokens
    <3>2. [key |-> Swept[screen[c].code].key, sealedTo |-> sealed[c]] \in [key : Keys, sealedTo : Keys]
      BY <2>1, <3>1 DEF Request
    <3>3. minted' = Append(minted, [key |-> Swept[screen[c].code].key, sealedTo |-> sealed[c]])
      BY <1>12, <2>2 DEF Approve
    <3>4. minted' \in Seq([key : Keys, sealedTo : Keys]) /\ Len(minted') = Len(minted) + 1
      BY <3>2, <3>3
    <3>5. live' \subseteq 1..Len(minted')
      BY <1>12, <2>2, <3>4 DEF Approve
    <3>6. [Swept[screen[c].code] EXCEPT !.token = Len(minted) + 1, !.sealedTo = sealed[c]] \in Request
      BY <2>1, <3>1 DEF Request
    <3>7. pending' = [Swept EXCEPT ![screen[c].code] =
                        [Swept[screen[c].code] EXCEPT !.token = Len(minted) + 1, !.sealedTo = sealed[c]]]
      BY <1>00, <1>12, <2>1, <2>2 DEF Approve
    <3>8. pending' \in [Codes -> Request \cup {None}]
      BY <1>00, <3>6, <3>7
    <3> QED
      BY <1>12, <3>4, <3>5, <3>8 DEF Approve
  <2>3. CASE ~Approvable(Swept[screen[c].code])
    BY <1>00, <1>12, <2>3 DEF Approve
  <2> QED
    BY <2>2, <2>3
<1>13. ASSUME NEW c \in Consoles, Deny(c) PROVE Typed'
  <2>1. screen[c] \in Flow /\ screen[c].code \in Codes
    BY <1>13 DEF Deny, Flow
  <2>2. CASE Swept[screen[c].code] # None /\ Swept[screen[c].code].token = None
    <3>1. Swept[screen[c].code] \in Request
      BY <1>000, <2>1, <2>2
    <3>2. [Swept[screen[c].code] EXCEPT !.denied = TRUE] \in Request /\ Swept[screen[c].code].key \in Keys
      BY <3>1 DEF Request
    <3>3. pending' = [Swept EXCEPT ![screen[c].code] = [Swept[screen[c].code] EXCEPT !.denied = TRUE]]
      BY <1>00, <1>13, <2>1, <2>2 DEF Deny
    <3>4. pending' \in [Codes -> Request \cup {None}]
      BY <1>00, <3>2, <3>3
    <3> QED
      BY <1>13, <2>2, <3>2, <3>4 DEF Deny
  <2>3. CASE ~(Swept[screen[c].code] # None /\ Swept[screen[c].code].token = None)
    BY <1>00, <1>13, <2>3 DEF Deny
  <2> QED
    BY <2>2, <2>3
<1>14. ASSUME NEW t \in live, RevokeDevice(t) PROVE Typed'
  BY <1>14 DEF RevokeDevice
<1>15. CASE Restart
  BY <1>0, <1>15 DEF Restart
<1>16. CASE Tick
  <2>1. ASSUME NEW c \in Codes, pending[c] # None /\ pending[c].age <= TTL
        PROVE  [pending[c] EXCEPT !.age = @ + 1] \in Request
    <3>1. pending[c] \in Request /\ pending[c].age + 1 \in 0..(TTL + 1)
      BY <2>1, DeviceConstants DEF Request
    <3> QED
      BY <3>1 DEF Request
  <2>2. pending' \in [Codes -> Request \cup {None}]
    BY <1>16, <2>1 DEF Tick
  <2> QED
    BY <1>16, <2>2 DEF Tick
<1>17. CASE UNCHANGED vars
  BY <1>17 DEF vars
<1> QED
  BY <1>1, <1>2, <1>3, <1>4, <1>5, <1>6, <1>7, <1>8, <1>9, <1>10, <1>11, <1>12, <1>13, <1>14, <1>15,
     <1>16, <1>17 DEF Next

(***************************************************************************)
(* One session per request, denials that stand, sessions sealed for their  *)
(* machine                                                                 *)
(***************************************************************************)

\* The key and the fate of a request, which is neither its code nor its age.
SameFate(r, s) == r.key = s.key /\ r.token = s.token /\ r.sealedTo = s.sealedTo /\ r.denied = s.denied

\* A request has a key of its own; it has no session until it names one; a refused
\* one is marked.
RequestOK(r) ==
  /\ r.key \in 1..Len(starts)
  /\ r.token = None => \A i \in 1..Len(minted) : minted[i].key # r.key
  /\ r.token # None => r.token \in 1..Len(minted) /\ minted[r.token].sealedTo = r.sealedTo
  /\ r.key \in refused => r.denied
Requests ==
  /\ \A c \in Codes : pending[c] # None => RequestOK(pending[c])
  /\ \A c, d \in Codes : pending[c] # None /\ pending[d] # None /\ pending[c].key = pending[d].key => c = d

\* Sessions and denials are of sign-ins that began.
Past ==
  /\ \A i \in 1..Len(minted) : minted[i].key \in 1..Len(starts) /\ minted[i].sealedTo \in 1..Len(starts)
  /\ refused \subseteq 1..Len(starts)

\* A machine works with its own key, and with the session its answer named.
MachineOK(m) ==
  /\ flow[m] # None => flow[m].key \in 1..Len(starts) /\ starts[flow[m].key] = m
  /\ pc[m] = "received" =>
       got[m].token \in 1..Len(minted) /\ minted[got[m].token].sealedTo = got[m].key
  /\ pc[m] = "stored" =>
       got[m].token \in 1..Len(minted) /\ minted[got[m].token].sealedTo = flow[m].key
  /\ file[m] # None => file[m] \in 1..Len(minted) /\ starts[minted[file[m]].sealedTo] = m
Cards == \A c \in Consoles :
  /\ screen[c] # None => screen[c].key \in 1..Len(starts)
  /\ sealed[c] # None => sealed[c] \in 1..Len(starts)

DeviceInv ==
  /\ Typed /\ Requests /\ Past /\ OneSessionPerRequest /\ DenialIsFinal
  /\ (\A m \in Machines : MachineOK(m)) /\ Cards

LEMMA InitInv == Init => DeviceInv
<1> SUFFICES ASSUME Init PROVE DeviceInv
  OBVIOUS
<1>1. Typed
  BY InitTyped
<1>2. Len(minted) = 0
  BY DEF Init
<1> QED
  BY <1>1, <1>2 DEF Init, DeviceInv, Requests, Past, OneSessionPerRequest, DenialIsFinal, MachineOK, Cards

LEMMA RequestsKept ==
  ASSUME Requests, UNCHANGED <<minted, starts, refused>>,
         \A c \in Codes : pending'[c] # None => pending[c] # None /\ SameFate(pending'[c], pending[c])
  PROVE  Requests'
BY DEF Requests, RequestOK, SameFate

\* The sweep takes requests away and changes none.
LEMMA SweptRequests ==
  ASSUME Typed, Requests
  PROVE  /\ \A c \in Codes : Swept[c] # None =>
              Swept[c] = pending[c] /\ Swept[c] \in Request /\ RequestOK(Swept[c])
         /\ \A c, d \in Codes : Swept[c] # None /\ Swept[d] # None /\ Swept[c].key = Swept[d].key => c = d
BY SweptTyped DEF Typed, TypeOK, Requests

\* What only takes requests away, or changes none, leaves the server as it was.
LEMMA ServerKept ==
  ASSUME DeviceInv, UNCHANGED <<minted, starts, refused>>,
         \A c \in Codes : pending'[c] # None => pending[c] # None /\ SameFate(pending'[c], pending[c])
  PROVE  Requests' /\ Past' /\ OneSessionPerRequest' /\ DenialIsFinal'
BY RequestsKept DEF DeviceInv, Past, OneSessionPerRequest, DenialIsFinal

LEMMA StepInv == DeviceInv /\ [Next]_vars => DeviceInv'
<1> SUFFICES ASSUME DeviceInv, [Next]_vars PROVE DeviceInv'
  OBVIOUS
<1>0. Typed /\ Typed'
  BY StepTyped DEF DeviceInv
<1> USE <1>0 DEF server, machine, console
<1>00. \A c \in Codes : Swept[c] # None =>
          Swept[c] = pending[c] /\ Swept[c] \in Request /\ RequestOK(Swept[c])
  BY SweptRequests DEF DeviceInv
<1>1. ASSUME NEW m \in Machines, Resume(m) PROVE DeviceInv'
  <2>1. Requests' /\ Past' /\ OneSessionPerRequest' /\ DenialIsFinal'
    BY <1>1, ServerKept DEF Resume, SameFate
  <2>2. \A n \in Machines : MachineOK(n)'
    BY <1>1 DEF Resume, DeviceInv, MachineOK, Typed, TypeOK
  <2>3. Cards'
    BY <1>1 DEF Resume, DeviceInv, Cards
  <2> QED
    BY <2>1, <2>2, <2>3 DEF DeviceInv
<1>2. ASSUME NEW m \in Machines, Start(m) PROVE DeviceInv'
  <2>1. PICK c \in Codes :
          /\ Swept[c] = None
          /\ pending' = [Swept EXCEPT ![c] =
               [key |-> Len(starts) + 1, age |-> 0, token |-> None, sealedTo |-> None, denied |-> FALSE]]
          /\ flow' = [flow EXCEPT ![m] = [code |-> c, key |-> Len(starts) + 1]]
    BY <1>2 DEF Start
  <2>2. /\ starts' = Append(starts, m) /\ Len(starts') = Len(starts) + 1 /\ Len(starts) \in Nat
        /\ starts'[Len(starts) + 1] = m
        /\ \A i \in 1..Len(starts) : i \in 1..Len(starts') /\ starts'[i] = starts[i]
    BY <1>2 DEF Start, Typed, TypeOK
  <2>4. UNCHANGED <<minted, refused, got, file, screen, sealed>> /\ pc' = [pc EXCEPT ![m] = "waiting"]
    BY <1>2 DEF Start
  <2>5. \A d \in Codes \ {c} : pending'[d] = Swept[d]
    BY <2>1, SweptTyped DEF Typed, TypeOK
  <2>6. pending'[c].key = Len(starts) + 1 /\ pending'[c].token = None
    BY <2>1, SweptTyped DEF Typed, TypeOK
  <2>7. Past' /\ OneSessionPerRequest' /\ DenialIsFinal'
    BY <2>2, <2>4 DEF DeviceInv, Past, OneSessionPerRequest, DenialIsFinal
  <2>8. Requests'
    <3>1. \A d \in Codes \ {c} : pending'[d] # None => RequestOK(pending[d])' /\ pending'[d].key # Len(starts) + 1
      BY <1>00, <2>2, <2>4, <2>5 DEF RequestOK
    <3>2. RequestOK(pending[c])'
      BY <2>2, <2>4, <2>6 DEF RequestOK, DeviceInv, Past
    <3> QED
      BY <1>00, <2>5, <2>6, <3>1, <3>2 DEF Requests, DeviceInv
  <2>9. \A n \in Machines : MachineOK(n)'
    BY <2>1, <2>2, <2>4 DEF DeviceInv, MachineOK, Past, Typed, TypeOK
  <2>10. Cards'
    BY <2>2, <2>4 DEF DeviceInv, Cards
  <2> QED
    BY <2>7, <2>8, <2>9, <2>10 DEF DeviceInv
<1>3. ASSUME NEW m \in Machines, Poll(m) PROVE DeviceInv'
  <2>1. flow[m] \in Flow /\ flow[m].code \in Codes
    BY <1>3 DEF Poll, Polling, Flow, Typed, Underway
  <2>2. \A c \in Codes : pending'[c] # None => pending[c] # None /\ SameFate(pending'[c], pending[c])
    BY <1>00, <1>3, <2>1, AnswerTyped DEF Poll, SameFate, Typed, TypeOK
  <2>3. Requests' /\ Past' /\ OneSessionPerRequest' /\ DenialIsFinal'
    BY <1>3, <2>2, ServerKept DEF Poll
  <2>4. UNCHANGED <<minted, starts, flow, file, screen, sealed>>
    BY <1>3 DEF Poll
  <2>5. ASSUME PollAnswer(flow[m].code).status = "ok" PROVE \A n \in Machines : MachineOK(n)'
    <3>1. RequestOK(Swept[flow[m].code]) /\ Swept[flow[m].code].token # None
      BY <1>00, <2>1, <2>5, AnswerTyped DEF Typed, TypeOK
    <3>2. /\ pc' = [pc EXCEPT ![m] = "received"]
          /\ got' = [got EXCEPT ![m] = [token |-> Swept[flow[m].code].token,
                                        key |-> Swept[flow[m].code].sealedTo]]
      BY <1>3, <2>5 DEF Poll
    <3> QED
      BY <2>4, <3>1, <3>2 DEF DeviceInv, MachineOK, RequestOK, Typed, TypeOK
  <2>6. ASSUME PollAnswer(flow[m].code).status \in {"pending", "expired"}
        PROVE  \A n \in Machines : MachineOK(n)'
    <3>1. (pc' = pc \/ pc' = [pc EXCEPT ![m] = "expired"]) /\ got' = got
      BY <1>3, <2>6 DEF Poll
    <3> QED
      BY <2>4, <3>1 DEF DeviceInv, MachineOK, Typed, TypeOK
  <2>7. PollAnswer(flow[m].code).status \in {"pending", "expired", "ok"}
    BY <2>1 DEF PollAnswer
  <2>8. \A n \in Machines : MachineOK(n)'
    BY <2>5, <2>6, <2>7
  <2>9. Cards'
    BY <2>4 DEF DeviceInv, Cards
  <2> QED
    BY <2>3, <2>8, <2>9 DEF DeviceInv
<1>4. ASSUME NEW m \in Machines, LosePoll(m) PROVE DeviceInv'
  <2>0. flow[m] \in Flow /\ flow[m].code \in Codes
    BY <1>4 DEF LosePoll, Polling, Flow, Typed, Underway
  <2>00. \A c \in Codes : pending'[c] # None => pending[c] # None /\ SameFate(pending'[c], pending[c])
    BY <1>00, <1>4, <2>0, AnswerTyped DEF LosePoll, SameFate, Typed, TypeOK
  <2>1. Requests' /\ Past' /\ OneSessionPerRequest' /\ DenialIsFinal'
    BY <1>4, <2>00, ServerKept DEF LosePoll
  <2>2. \A n \in Machines : MachineOK(n)'
    BY <1>4 DEF LosePoll, DeviceInv, MachineOK, Typed, TypeOK
  <2>3. Cards'
    BY <1>4 DEF LosePoll, DeviceInv, Cards
  <2> QED
    BY <2>1, <2>2, <2>3 DEF DeviceInv
<1>5. ASSUME NEW m \in Machines, Store(m) PROVE DeviceInv'
  <2>1. Requests' /\ Past' /\ OneSessionPerRequest' /\ DenialIsFinal'
    BY <1>5, ServerKept DEF Store, SameFate
  <2>2. \A n \in Machines : MachineOK(n)'
    BY <1>5 DEF Store, DeviceInv, MachineOK, Typed, TypeOK
  <2>3. Cards'
    BY <1>5 DEF Store, DeviceInv, Cards
  <2> QED
    BY <2>1, <2>2, <2>3 DEF DeviceInv
<1>6. ASSUME NEW m \in Machines, SaveSession(m) PROVE DeviceInv'
  <2>1. Requests' /\ Past' /\ OneSessionPerRequest' /\ DenialIsFinal'
    BY <1>6, ServerKept DEF SaveSession, SameFate
  <2>2. \A n \in Machines : MachineOK(n)'
    BY <1>6, DeviceConstants DEF SaveSession, DeviceInv, MachineOK, Typed, TypeOK, Underway
  <2>3. Cards'
    BY <1>6 DEF SaveSession, DeviceInv, Cards
  <2> QED
    BY <2>1, <2>2, <2>3 DEF DeviceInv
<1>7. ASSUME NEW m \in Machines, Quit(m) PROVE DeviceInv'
  <2>1. Requests' /\ Past' /\ OneSessionPerRequest' /\ DenialIsFinal'
    BY <1>7, ServerKept DEF Quit, SameFate
  <2>2. \A n \in Machines : MachineOK(n)'
    BY <1>7 DEF Quit, DeviceInv, MachineOK, Typed, TypeOK
  <2>3. Cards'
    BY <1>7 DEF Quit, DeviceInv, Cards
  <2> QED
    BY <2>1, <2>2, <2>3 DEF DeviceInv
<1>8. ASSUME NEW m \in Machines, Reboot(m) PROVE DeviceInv'
  <2>1. Requests' /\ Past' /\ OneSessionPerRequest' /\ DenialIsFinal'
    BY <1>8, ServerKept DEF Reboot, SameFate
  <2>2. \A n \in Machines : MachineOK(n)'
    BY <1>8 DEF Reboot, DeviceInv, MachineOK, Typed, TypeOK
  <2>3. Cards'
    BY <1>8 DEF Reboot, DeviceInv, Cards
  <2> QED
    BY <2>1, <2>2, <2>3 DEF DeviceInv
<1>9. ASSUME NEW m \in Machines, LogoutRevoke(m) \/ LogoutRemove(m) \/ LogoutDelete(m) PROVE DeviceInv'
  <2>1. Requests' /\ Past' /\ OneSessionPerRequest' /\ DenialIsFinal'
    BY <1>9, ServerKept DEF LogoutRevoke, LogoutRemove, LogoutDelete, SameFate
  <2>2. \A n \in Machines : MachineOK(n)'
    BY <1>9 DEF LogoutRevoke, LogoutRemove, LogoutDelete, DeviceInv, MachineOK, Typed, TypeOK
  <2>3. Cards'
    BY <1>9 DEF LogoutRevoke, LogoutRemove, LogoutDelete, DeviceInv, Cards
  <2> QED
    BY <2>1, <2>2, <2>3 DEF DeviceInv
<1>10. ASSUME NEW c \in Consoles, Pick(c) PROVE DeviceInv'
  <2>1. Requests' /\ Past' /\ OneSessionPerRequest' /\ DenialIsFinal'
    BY <1>10, ServerKept DEF Pick, SameFate
  <2>2. \A n \in Machines : MachineOK(n)'
    BY <1>10 DEF Pick, DeviceInv, MachineOK
  <2>3. \A r \in Shown : r.key \in 1..Len(starts)
    <3>1. \A d \in Codes : Swept[d] # None => Swept[d].key \in 1..Len(starts)
      BY <1>00 DEF RequestOK
    <3>2. \A m \in Machines : Polling(m) => flow[m].key \in 1..Len(starts)
      BY DeviceConstants DEF DeviceInv, MachineOK, Polling, Typed, Underway
    <3> QED
      BY <3>1, <3>2 DEF Shown
  <2>4. Cards'
    BY <1>10, <2>3 DEF Pick, DeviceInv, Cards, Typed, TypeOK
  <2> QED
    BY <2>1, <2>2, <2>4 DEF DeviceInv
<1>11. ASSUME NEW c \in Consoles, Seal(c) PROVE DeviceInv'
  <2>1. Requests' /\ Past' /\ OneSessionPerRequest' /\ DenialIsFinal'
    BY <1>11, ServerKept DEF Seal, SameFate
  <2>2. \A n \in Machines : MachineOK(n)'
    BY <1>11 DEF Seal, DeviceInv, MachineOK, Typed, TypeOK
  <2>3. Cards'
    BY <1>11 DEF Seal, DeviceInv, Cards, Typed, TypeOK
  <2> QED
    BY <2>1, <2>2, <2>3 DEF DeviceInv
<1>12. ASSUME NEW c \in Consoles, Approve(c) PROVE DeviceInv'
  <2>1. sealed[c] \in Keys /\ sealed[c] \in 1..Len(starts) /\ screen[c] \in Flow /\ screen[c].code \in Codes
    BY <1>12 DEF Approve, Flow, Typed, TypeOK, OnCard, DeviceInv, Cards
  <2>2. UNCHANGED <<refused, starts, pc, flow, got, file, screen>> /\ sealed' = [sealed EXCEPT ![c] = None]
    BY <1>12 DEF Approve
  <2>3. Cards'
    BY <2>2 DEF DeviceInv, Cards, Typed, TypeOK
  <2>4. CASE ~Approvable(Swept[screen[c].code])
    <3>1. pending' = Swept /\ minted' = minted
      BY <1>12, <2>4 DEF Approve
    <3>2. Requests' /\ Past' /\ OneSessionPerRequest' /\ DenialIsFinal'
      BY <1>00, <2>2, <3>1, ServerKept DEF SameFate
    <3>3. \A n \in Machines : MachineOK(n)'
      BY <2>2, <3>1 DEF DeviceInv, MachineOK
    <3> QED
      BY <2>3, <3>2, <3>3 DEF DeviceInv
  <2>5. CASE Approvable(Swept[screen[c].code])
    <3>0. PICK d \in Codes : d = screen[c].code
      BY <2>1
    <3> DEFINE r == Swept[d]
               k == Len(minted) + 1
    <3>1. r \in Request /\ RequestOK(r) /\ r.token = None /\ ~r.denied /\ r = pending[d] /\ pending[d] # None
      BY <1>00, <2>5, <3>0 DEF Approvable
    <3>2. minted' = Append(minted, [key |-> r.key, sealedTo |-> sealed[c]])
      BY <1>12, <2>5, <3>0 DEF Approve
    <3>3. /\ Len(minted) \in Nat /\ Len(minted') = k /\ minted'[k] = [key |-> r.key, sealedTo |-> sealed[c]]
          /\ \A i \in 1..Len(minted) : i \in 1..Len(minted') /\ minted'[i] = minted[i]
      BY <3>2 DEF Typed, TypeOK
    <3>4. pending' = [Swept EXCEPT ![d] = [r EXCEPT !.token = k, !.sealedTo = sealed[c]]]
      BY <1>12, <2>5, <3>0, SweptTyped DEF Approve, Typed, TypeOK
    <3>5. pending'[d] = [r EXCEPT !.token = k, !.sealedTo = sealed[c]] /\ \A e \in Codes \ {d} : pending'[e] = Swept[e]
      BY <3>4, SweptTyped DEF Typed, TypeOK
    <3>6. /\ pending'[d].key = r.key /\ pending'[d].token = k /\ pending'[d].sealedTo = sealed[c]
          /\ pending'[d].denied = r.denied /\ k # None
      BY <3>1, <3>3, <3>5, DeviceConstants DEF Request
    <3>7. \A i \in 1..Len(minted) : minted[i].key # r.key
      BY <3>1 DEF RequestOK
    <3>8. r.key \notin refused /\ r.key \in 1..Len(starts)
      BY <3>1 DEF RequestOK
    <3> HIDE DEF r, k
    <3>9. \A i \in 1..Len(minted') : i \in 1..Len(minted) \/ i = k
      BY <3>3 DEF k
    <3>10. OneSessionPerRequest' /\ DenialIsFinal'
      BY <2>2, <3>3, <3>7, <3>8, <3>9 DEF DeviceInv, OneSessionPerRequest, DenialIsFinal
    <3>11. Past'
      BY <2>1, <2>2, <3>3, <3>8, <3>9 DEF DeviceInv, Past
    <3>12. \A e \in Codes \ {d} : pending'[e] # None =>
             pending'[e] = pending[e] /\ RequestOK(pending[e]) /\ pending[e].key # r.key
      BY <1>00, <3>1, <3>5 DEF DeviceInv, Requests
    <3>13. \A e \in Codes \ {d} : pending'[e] # None => RequestOK(pending[e])'
      BY <2>2, <3>3, <3>9, <3>12 DEF RequestOK
    <3>14. RequestOK(pending[d])'
      BY <2>2, <3>3, <3>6, <3>8, <3>9 DEF RequestOK, k
    <3>15. Requests'
      BY <3>1, <3>6, <3>12, <3>13, <3>14 DEF Requests, DeviceInv
    <3>16. \A n \in Machines : MachineOK(n)'
      BY <2>2, <3>3 DEF DeviceInv, MachineOK
    <3> QED
      BY <2>3, <3>10, <3>11, <3>15, <3>16 DEF DeviceInv
  <2> QED
    BY <2>4, <2>5
<1>13. ASSUME NEW c \in Consoles, Deny(c) PROVE DeviceInv'
  <2>1. screen[c] \in Flow /\ screen[c].code \in Codes
    BY <1>13 DEF Deny, Flow, Typed, TypeOK
  <2>2. UNCHANGED <<minted, starts, pc, flow, got, file, screen, sealed>>
    BY <1>13 DEF Deny
  <2>3. Cards' /\ \A n \in Machines : MachineOK(n)'
    BY <2>2 DEF DeviceInv, Cards, MachineOK
  <2>4. CASE ~(Swept[screen[c].code] # None /\ Swept[screen[c].code].token = None)
    <3>1. pending' = Swept /\ refused' = refused
      BY <1>13, <2>4 DEF Deny
    <3>2. Requests' /\ Past' /\ OneSessionPerRequest' /\ DenialIsFinal'
      BY <1>00, <2>2, <3>1, ServerKept DEF SameFate
    <3> QED
      BY <2>3, <3>2 DEF DeviceInv
  <2>5. CASE Swept[screen[c].code] # None /\ Swept[screen[c].code].token = None
    <3>0. PICK d \in Codes : d = screen[c].code
      BY <2>1
    <3> DEFINE r == Swept[d]
    <3>1. r \in Request /\ RequestOK(r) /\ r.token = None /\ r = pending[d] /\ pending[d] # None
      BY <1>00, <2>5, <3>0
    <3>2. refused' = refused \cup {r.key}
      BY <1>13, <2>5, <3>0 DEF Deny
    <3>3. pending'[d] = [r EXCEPT !.denied = TRUE] /\ \A e \in Codes \ {d} : pending'[e] = Swept[e]
      BY <1>13, <2>5, <3>0, SweptTyped DEF Deny, Typed, TypeOK
    <3>4. /\ pending'[d].key = r.key /\ pending'[d].token = None /\ pending'[d].sealedTo = r.sealedTo
          /\ pending'[d].denied
      BY <3>1, <3>3 DEF Request
    <3>5. r.key \in 1..Len(starts) /\ \A i \in 1..Len(minted) : minted[i].key # r.key
      BY <3>1 DEF RequestOK
    <3> HIDE DEF r
    <3>6. Past' /\ OneSessionPerRequest' /\ DenialIsFinal'
      BY <2>2, <3>2, <3>5 DEF DeviceInv, Past, OneSessionPerRequest, DenialIsFinal
    <3>7. \A e \in Codes \ {d} : pending'[e] # None =>
            pending'[e] = pending[e] /\ RequestOK(pending[e]) /\ pending[e].key # r.key
      BY <1>00, <3>1, <3>3 DEF DeviceInv, Requests
    <3>8. \A e \in Codes \ {d} : pending'[e] # None => RequestOK(pending[e])'
      BY <2>2, <3>2, <3>7 DEF RequestOK
    <3>9. RequestOK(pending[d])'
      BY <2>2, <3>4, <3>5 DEF RequestOK
    <3>10. Requests'
      BY <3>1, <3>4, <3>7, <3>8, <3>9 DEF Requests, DeviceInv
    <3> QED
      BY <2>3, <3>6, <3>10 DEF DeviceInv
  <2> QED
    BY <2>4, <2>5
<1>14. ASSUME NEW t \in live, RevokeDevice(t) PROVE DeviceInv'
  <2>1. Requests' /\ Past' /\ OneSessionPerRequest' /\ DenialIsFinal'
    BY <1>14, ServerKept DEF RevokeDevice, SameFate
  <2>2. \A n \in Machines : MachineOK(n)'
    BY <1>14 DEF RevokeDevice, DeviceInv, MachineOK, Typed, TypeOK
  <2>3. Cards'
    BY <1>14 DEF RevokeDevice, DeviceInv, Cards
  <2> QED
    BY <2>1, <2>2, <2>3 DEF DeviceInv
<1>15. CASE Restart
  <2>1. Requests' /\ Past' /\ OneSessionPerRequest' /\ DenialIsFinal'
    BY <1>15, ServerKept DEF Restart, SameFate
  <2>2. \A n \in Machines : MachineOK(n)'
    BY <1>15 DEF Restart, DeviceInv, MachineOK, Typed, TypeOK
  <2>3. Cards'
    BY <1>15 DEF Restart, DeviceInv, Cards
  <2> QED
    BY <2>1, <2>2, <2>3 DEF DeviceInv
<1>16. CASE Tick
  <2>0. \A c \in Codes : pending'[c] # None => pending[c] # None /\ SameFate(pending'[c], pending[c])
    <3> SUFFICES ASSUME NEW c \in Codes, pending'[c] # None
                 PROVE  pending[c] # None /\ SameFate(pending'[c], pending[c])
      OBVIOUS
    <3>1. pending'[c] = IF pending[c] # None /\ pending[c].age <= TTL
                        THEN [pending[c] EXCEPT !.age = @ + 1] ELSE pending[c]
      BY <1>16 DEF Tick
    <3>2. pending[c] # None
      BY <3>1
    <3>3. pending[c] \in Request
      BY <3>2 DEF Typed, TypeOK
    <3> QED
      BY <3>1, <3>2, <3>3 DEF SameFate, Request
  <2>1. Requests' /\ Past' /\ OneSessionPerRequest' /\ DenialIsFinal'
    BY <1>16, <2>0, ServerKept DEF Tick
  <2>2. \A n \in Machines : MachineOK(n)'
    BY <1>16 DEF Tick, DeviceInv, MachineOK, Typed, TypeOK
  <2>3. Cards'
    BY <1>16 DEF Tick, DeviceInv, Cards
  <2> QED
    BY <2>1, <2>2, <2>3 DEF DeviceInv
<1>17. CASE UNCHANGED vars
  <2>1. Requests' /\ Past' /\ OneSessionPerRequest' /\ DenialIsFinal'
    BY <1>17, ServerKept DEF vars, SameFate
  <2>2. \A n \in Machines : MachineOK(n)'
    BY <1>17 DEF vars, DeviceInv, MachineOK, Typed, TypeOK
  <2>3. Cards'
    BY <1>17 DEF vars, DeviceInv, Cards
  <2> QED
    BY <2>1, <2>2, <2>3 DEF DeviceInv
<1> QED
  BY <1>1, <1>2, <1>3, <1>4, <1>5, <1>6, <1>7, <1>8, <1>9, <1>10, <1>11, <1>12, <1>13, <1>14, <1>15,
     <1>16, <1>17 DEF Next

\* No step has a request, a session, a machine or a card in a state that is none.
THEOREM DeviceTypeCorrect == Spec => []TypeOK
<1>1. Typed => TypeOK
  BY DEF Typed
<1> QED
  BY <1>1, InitTyped, StepTyped, PTL DEF Spec

THEOREM DeviceSafe == Spec => []DeviceInv
BY InitInv, StepInv, PTL DEF Spec

\* Whatever consoles, retries, restarts and crashes do, a request yields one device
\* session at most.
THEOREM OneSession == Spec => []OneSessionPerRequest
<1>1. DeviceInv => OneSessionPerRequest
  BY DEF DeviceInv
<1> QED
  BY <1>1, DeviceSafe, PTL

\* A denial that was acknowledged is never followed by a session.
THEOREM DenialStands == Spec => []DenialIsFinal
<1>1. DeviceInv => DenialIsFinal
  BY DEF DeviceInv
<1> QED
  BY <1>1, DeviceSafe, PTL

\* A machine keeps a session only when the data key was sealed to that machine.
THEOREM KeptForMachine == Spec => []SealedForMachine
<1>1. DeviceInv => SealedForMachine
  BY DEF DeviceInv, MachineOK, SealedForMachine
<1> QED
  BY <1>1, DeviceSafe, PTL
=============================================================================
