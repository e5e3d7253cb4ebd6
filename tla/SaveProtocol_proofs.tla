------------------------- MODULE SaveProtocol_proofs -------------------------
(***************************************************************************)
(* That whole-vault saves are edits, that terminals keep what they cannot  *)
(* open, and that a terminal never reports a save that another one         *)
(* replaced, for any number of clients, names and saves.                   *)
(***************************************************************************)
EXTENDS SaveProtocol, TLAPS

(* Types *)

\* A client between its look and the end of its read-back has a save.
Pending == \A c \in Clients : pc[c] \in {"checked", "written"} => save[c] # NoSave
Typed == TypeOK /\ Pending

LEMMA InitTyped == Init => Typed
<1> SUFFICES ASSUME Init PROVE Typed
  OBVIOUS
<1>1. [val |-> Foreign, seal |-> Foreign] \in Cipher
  BY DEF Cipher, Values
<1>2. vault \in Vaults
  BY <1>1 DEF Init, Vaults
<1>3. 0 \in 0..MaxSaves
  BY SaveConstants
<1> QED
  BY <1>2, <1>3 DEF Init, Typed, TypeOK, Pending

LEMMA ResealedTyped ==
  ASSUME Typed, NEW t \in Terminals, NEW writes \in SUBSET Names, NEW gone \in SUBSET Names, saves < MaxSaves
  PROVE  [names |-> writes \cup gone, body |-> Resealed(t, writes, gone)] \in Save
<1>1. Fresh \in Own
  BY SaveConstants DEF Fresh, Own, Typed, TypeOK
<1>2. ASSUME NEW n \in Names, before[t][n] # Absent PROVE [val |-> before[t][n].val, seal |-> Fresh] \in Cipher
  BY <1>1, <1>2 DEF Typed, TypeOK, Vaults, Cipher, Values
<1>3. [val |-> Fresh, seal |-> Fresh] \in Cipher
  BY <1>1 DEF Cipher, Values
<1>4. Resealed(t, writes, gone) \in Vaults
  BY <1>2, <1>3 DEF Resealed, Vaults, Opens
<1> QED
  BY <1>4 DEF Save

LEMMA StepTyped == Typed /\ [Next]_vars => Typed'
<1> SUFFICES ASSUME Typed, [Next]_vars PROVE Typed'
  OBVIOUS
<1> USE DEF Typed, TypeOK, Pending, Goto, Clients
<1>1. ASSUME NEW t \in Terminals, Load(t) PROVE Typed'
  BY <1>1 DEF Load
<1>2. ASSUME NEW t \in Terminals, NEW writes \in SUBSET Names, NEW gone \in SUBSET Names, Begin(t, writes, gone)
      PROVE  Typed'
  <2>1. CASE vault = before[t]
    <3>1. [names |-> writes \cup gone, body |-> Resealed(t, writes, gone)] \in Save
      BY <1>2, ResealedTyped DEF Begin
    <3>2. saves' \in 0..MaxSaves
      BY <1>2, <2>1, SaveConstants DEF Begin
    <3>3. /\ save' = [save EXCEPT ![t] = [names |-> writes \cup gone, body |-> Resealed(t, writes, gone)]]
          /\ pc' = [pc EXCEPT ![t] = "checked"]
          /\ UNCHANGED <<vault, before, late, landed, overlap>>
      BY <1>2, <2>1 DEF Begin
    <3>4. [names |-> writes \cup gone, body |-> Resealed(t, writes, gone)] # NoSave
      BY <3>1, SaveConstants
    <3> DEFINE s == [names |-> writes \cup gone, body |-> Resealed(t, writes, gone)]
    <3>5. s \in Save /\ s # NoSave /\ save' = [save EXCEPT ![t] = s]
      BY <3>1, <3>3, <3>4
    <3> HIDE DEF s
    <3> QED
      BY <3>2, <3>3, <3>5
  <2>2. CASE vault # before[t]
    BY <1>2, <2>2 DEF Begin
  <2> QED
    BY <2>1, <2>2
<1>3. ASSUME NEW b \in Browsers, NEW n \in Names, Wizard(b, n) PROVE Typed'
  <2>1. saves' \in 0..MaxSaves /\ Fresh \in Own
    BY <1>3, SaveConstants DEF Wizard, Fresh, Own
  <2>2. [vault EXCEPT ![n] = [val |-> Fresh, seal |-> Fresh]] \in Vaults
    BY <2>1 DEF Vaults, Cipher, Values
  <2>3. [names |-> {n}, body |-> [vault EXCEPT ![n] = [val |-> Fresh, seal |-> Fresh]]] \in Save
    BY <2>2 DEF Save
  <2> QED
    BY <1>3, <2>1, <2>3, SaveConstants DEF Wizard
<1>4. ASSUME NEW c \in Clients, Put(c) PROVE Typed'
  <2>1. save[c].body \in Vaults
    BY <1>4 DEF Put, Save
  <2>2. overlap' \in BOOLEAN
    BY <1>4 DEF Put, Overlaps
  <2> QED
    BY <1>4, <2>1, <2>2 DEF Put, Run
<1>5. ASSUME NEW c \in Clients, GiveUp(c) PROVE Typed'
  BY <1>5 DEF GiveUp
<1>6. ASSUME NEW c \in Clients, LatePut(c) PROVE Typed'
  <2>1. late[c].body \in Vaults
    BY <1>6 DEF LatePut, Save
  <2>2. overlap' \in BOOLEAN
    BY <1>6 DEF LatePut, Overlaps
  <2> QED
    BY <1>6, <2>1, <2>2 DEF LatePut, Run
<1>7. ASSUME NEW c \in Clients, LoseAnswer(c) PROVE Typed'
  BY <1>7 DEF LoseAnswer, Failed
<1>8. ASSUME NEW t \in Terminals, ReadBack(t) PROVE Typed'
  <2>1. save[t].body \in Vaults
    BY <1>8 DEF ReadBack, Save
  <2> QED
    BY <1>8, <2>1 DEF ReadBack, Succeeded, Failed
<1>9. ASSUME NEW b \in Browsers, ReadBackEntry(b) PROVE Typed'
  BY <1>9 DEF ReadBackEntry, Succeeded, Failed
<1>10. CASE UNCHANGED vars
  BY <1>10 DEF vars
<1> QED
  BY <1>1, <1>2, <1>3, <1>4, <1>5, <1>6, <1>7, <1>8, <1>9, <1>10 DEF Next

(***************************************************************************)
(* Saves are edits, and success was undisturbed                            *)
(***************************************************************************)

AllOpen(v) == \A n \in Names : v[n] # Absent => Opens(v[n])
Edits(s, v) == \A n \in Names \ s.names : Val(s.body, n) = Val(v, n)

\* A terminal saves from a register in which everything opened.
Readable == \A t \in Terminals :
  /\ pc[t] = "loaded" => AllOpen(before[t])
  /\ save[t] # NoSave => AllOpen(save[t].body)

\* Unless PUTs overlapped, each one that has yet to run is an edit of the vault as it
\* is, and a terminal's leaves nothing out.
AlignedTo(c, s) == Edits(s, vault) /\ (c \in Terminals => AllOpen(vault))
Aligned == ~overlap => \A c \in Clients :
  /\ pc[c] = "checked" => AlignedTo(c, save[c])
  /\ late[c] # NoSave => AlignedTo(c, late[c])

\* Seals are of saves that began.
Dated(v) == \A n \in Names : v[n] # Absent => v[n].seal \in 1..saves \cup {Foreign}
Seals ==
  /\ Dated(vault)
  /\ \A c \in Clients : /\ save[c] # NoSave => Dated(save[c].body)
                        /\ late[c] # NoSave => Dated(late[c].body)

\* What another client writes over a terminal's save is empty, or has a seal that is
\* not of that save.
Empty(v) == \A n \in Names : v[n] = Absent
Apart(v, r) == Empty(v) \/ \E n \in Names : /\ v[n] # Absent
                                            /\ \A k \in Names : r[k] # Absent => r[k].seal # v[n].seal
Foreigners == \A t \in Terminals : save[t] # NoSave =>
  /\ \A c \in Clients \ {t} : /\ save[c] # NoSave => Apart(save[c].body, save[t].body)
                              /\ late[c] # NoSave => Apart(late[c].body, save[t].body)
  /\ pc[t] = "written" => landed = t \/ Apart(vault, save[t].body)

SaveInv == Typed /\ Readable /\ Aligned /\ Seals /\ Foreigners

LEMMA InitInv == Init => SaveInv
<1> SUFFICES ASSUME Init PROVE SaveInv
  OBVIOUS
<1>1. Typed
  BY InitTyped
<1>2. Dated(vault)
  BY DEF Init, Dated
<1> QED
  BY <1>1, <1>2 DEF Init, Clients, SaveInv, Readable, Aligned, Seals, Foreigners

\* A seal that is new is not in any vault yet.
LEMMA NewSeal ==
  ASSUME SaveInv, NEW v, Dated(v), NEW r, \A n \in Names : r[n] # Absent => r[n].seal = Fresh
  PROVE  Apart(v, r) /\ ((\E n \in Names : r[n] # Absent) => Apart(r, v)) /\ (Empty(r) => Apart(r, v))
<1>1. \A n \in Names : v[n] # Absent => v[n].seal # Fresh
  BY SaveConstants DEF Dated, Fresh, SaveInv, Typed, TypeOK
<1> QED
  BY <1>1 DEF Apart, Empty

LEMMA StepInv == SaveInv /\ [Next]_vars => SaveInv'
<1> SUFFICES ASSUME SaveInv, [Next]_vars PROVE SaveInv'
  OBVIOUS
<1>0. Typed /\ Typed'
  BY StepTyped DEF SaveInv
<1> USE <1>0 DEF Goto
<1>00. Terminals \subseteq Clients /\ Browsers \subseteq Clients
  BY DEF Clients
<1>1. ASSUME NEW t \in Terminals, Load(t) PROVE SaveInv'
  <2> USE <1>1 DEF Load
  <2>0. (pc'[t] = "loaded" => AllOpen(vault)) /\ before'[t] = vault
    BY <1>00 DEF AllOpen, Typed, TypeOK
  <2>1. Readable'
    <3> SUFFICES ASSUME NEW u \in Terminals
                 PROVE  (pc'[u] = "loaded" => AllOpen(before'[u])) /\ (save[u] # NoSave => AllOpen(save[u].body))
      BY DEF Readable, AllOpen
    <3>1. CASE u = t
      BY <2>0, <3>1 DEF SaveInv, Readable
    <3>2. CASE u # t
      <4>1. before'[u] = before[u] /\ pc'[u] = pc[u] /\ UNCHANGED save
        BY <1>00, <3>2 DEF Typed, TypeOK
      <4> QED
        BY <4>1 DEF SaveInv, Readable
    <3> QED
      BY <3>1, <3>2
  <2>2. Aligned'
    BY DEF SaveInv, Aligned, AlignedTo, Typed, TypeOK
  <2>3. Seals' /\ Foreigners'
    BY <1>00 DEF SaveInv, Seals, Dated, Foreigners, Typed, TypeOK
  <2> QED
    BY <2>1, <2>2, <2>3 DEF SaveInv
<1>2. ASSUME NEW t \in Terminals, NEW writes \in SUBSET Names, NEW gone \in SUBSET Names, Begin(t, writes, gone)
      PROVE  SaveInv'
  <2>1. CASE vault # before[t]
    <3>1. UNCHANGED <<vault, before, save, saves, late, landed, overlap>> /\ pc' = [pc EXCEPT ![t] = "away"]
      BY <1>2, <2>1 DEF Begin
    <3>2. Readable' /\ Aligned'
      BY <3>1 DEF SaveInv, Readable, Aligned, AlignedTo, Typed, TypeOK
    <3>3. Seals' /\ Foreigners'
      BY <1>00, <3>1 DEF SaveInv, Seals, Dated, Foreigners, Typed, TypeOK
    <3> QED
      BY <3>2, <3>3 DEF SaveInv
  <2>2. CASE vault = before[t]
    <3> DEFINE body == Resealed(t, writes, gone)
               s == [names |-> writes \cup gone, body |-> body]
    <3>1. /\ save' = [save EXCEPT ![t] = s] /\ pc' = [pc EXCEPT ![t] = "checked"] /\ saves' = saves + 1
          /\ UNCHANGED <<vault, before, late, landed, overlap>>
      BY <1>2, <2>2 DEF Begin
    <3>2. AllOpen(vault)
      BY <1>2, <2>2 DEF Begin, SaveInv, Readable
    <3>3. saves \in Nat /\ Fresh = saves + 1
      BY SaveConstants DEF Typed, TypeOK, Fresh
    <3>4. \A n \in Names : body[n] # Absent => body[n].seal = Fresh /\ Opens(body[n])
      BY <2>2, <3>2, <3>3, SaveConstants DEF Resealed, AllOpen, Opens
    <3>5. Edits(s, vault)
      <4> SUFFICES ASSUME NEW n \in Names, n \notin writes, n \notin gone PROVE Val(body, n) = Val(vault, n)
        BY DEF Edits
      <4>1. CASE vault[n] = Absent
        <5>1. body[n] = Absent
          BY <2>2, <4>1 DEF Resealed, Opens
        <5> QED
          BY <4>1, <5>1 DEF Val
      <4>2. CASE vault[n] # Absent
        <5>1. body[n] = [val |-> vault[n].val, seal |-> Fresh]
          BY <2>2, <3>2, <4>2 DEF Resealed, AllOpen, Opens
        <5>2. body[n] # Absent
          BY <3>4, <5>1, <4>2, <2>2, <1>2, ResealedTyped, SaveConstants DEF Cipher, Values, Own, Begin, Fresh, Typed, TypeOK, Vaults
        <5> QED
          BY <4>2, <5>1, <5>2 DEF Val
      <4> QED
        BY <4>1, <4>2
    <3>6. s.body = body
      OBVIOUS
    <3> HIDE DEF body, s
    <3>7. save'[t] = s /\ \A c \in Clients \ {t} : save'[c] = save[c]
      BY <1>00, <3>1 DEF Typed, TypeOK
    <3>8. Readable'
      BY <1>00, <3>1, <3>4, <3>6, <3>7 DEF SaveInv, Readable, AllOpen, Typed, TypeOK
    <3>9. Aligned'
      BY <1>00, <3>1, <3>2, <3>5, <3>7 DEF SaveInv, Aligned, AlignedTo, Typed, TypeOK
    <3>12. Seals'
      <4>1. Dated(vault)'
        BY <3>1, <3>3 DEF SaveInv, Seals, Dated
      <4>2. \A c \in Clients : save'[c] # NoSave => Dated(save[c].body)'
        <5>1. \A c \in Clients \ {t} : save'[c] # NoSave => Dated(save[c].body)'
          BY <3>1, <3>3, <3>7 DEF SaveInv, Seals, Dated
        <5>2. Dated(save[t].body)'
          BY <3>1, <3>3, <3>4, <3>6, <3>7 DEF Dated
        <5> QED
          BY <5>1, <5>2
      <4>3. \A c \in Clients : late'[c] # NoSave => Dated(late[c].body)'
        BY <3>1, <3>3 DEF SaveInv, Seals, Dated
      <4> QED
        BY <4>1, <4>2, <4>3 DEF Seals
    <3>13. Foreigners'
      <4>1. \A v : Dated(v) => Apart(v, body) /\ Apart(body, v)
        BY <3>4, NewSeal DEF Empty
      <4>2. \A c \in Clients : (save[c] # NoSave => Dated(save[c].body)) /\ (late[c] # NoSave => Dated(late[c].body))
        BY DEF SaveInv, Seals
      <4>3. pc'[t] = "checked" /\ \A c \in Clients \ {t} : pc'[c] = pc[c]
        BY <1>00, <3>1 DEF Typed, TypeOK
      <4> SUFFICES ASSUME NEW u \in Terminals, save'[u] # NoSave
                   PROVE  /\ \A c \in Clients \ {u} : /\ save'[c] # NoSave => Apart(save'[c].body, save'[u].body)
                                                      /\ late[c] # NoSave => Apart(late[c].body, save'[u].body)
                          /\ pc'[u] = "written" => landed = u \/ Apart(vault, save'[u].body)
        BY <3>1 DEF Foreigners
      <4>4. CASE u = t
        BY <3>6, <3>7, <4>1, <4>2, <4>3, <4>4
      <4>5. CASE u # t
        <5>1. save'[u] = save[u] /\ pc'[u] = pc[u] /\ u \in Clients
          BY <1>00, <3>7, <4>3, <4>5
        <5>2. Apart(save'[t].body, save'[u].body)
          BY <3>6, <3>7, <4>1, <4>2, <5>1
        <5> QED
          BY <3>7, <5>1, <5>2 DEF SaveInv, Foreigners
      <4> QED
        BY <4>4, <4>5
    <3> QED
      BY <3>8, <3>9, <3>12, <3>13 DEF SaveInv
  <2> QED
    BY <2>1, <2>2
<1>3. ASSUME NEW b \in Browsers, NEW n \in Names, Wizard(b, n) PROVE SaveInv'
  <2> DEFINE body == [vault EXCEPT ![n] = [val |-> Fresh, seal |-> Fresh]]
             s == [names |-> {n}, body |-> body]
  <2>1. /\ save' = [save EXCEPT ![b] = s] /\ pc' = [pc EXCEPT ![b] = "checked"] /\ saves' = saves + 1
        /\ UNCHANGED <<vault, before, late, landed, overlap>>
    BY <1>3 DEF Wizard
  <2>2. saves \in Nat /\ Fresh = saves + 1 /\ b \notin Terminals
    BY SaveConstants DEF Typed, TypeOK, Fresh
  <2>3. \A k \in Names : k # n => body[k] = vault[k]
    BY DEF Typed, TypeOK, Vaults
  <2>4. body[n] = [val |-> Fresh, seal |-> Fresh] /\ body[n] # Absent
    <3>1. body[n] = [val |-> Fresh, seal |-> Fresh]
      BY DEF Typed, TypeOK, Vaults
    <3>2. Fresh \in Own
      BY <1>3, <2>2, SaveConstants DEF Wizard, Own, Typed, TypeOK
    <3>3. [val |-> Fresh, seal |-> Fresh] \in Cipher
      BY <3>2 DEF Cipher, Values
    <3> QED
      BY <3>1, <3>3, SaveConstants
  <2>5. Edits(s, vault)
    BY <2>3 DEF Edits, Val
  <2>6. s.body = body
    OBVIOUS
  <2>7. Dated(vault) /\ body[n].seal = Fresh
    BY <2>4 DEF SaveInv, Seals
  <2> HIDE DEF body, s
  <2>8. save'[b] = s /\ \A c \in Clients \ {b} : save'[c] = save[c]
    BY <1>00, <2>1 DEF Typed, TypeOK
  <2>9. pc'[b] = "checked" /\ \A c \in Clients \ {b} : pc'[c] = pc[c]
    BY <1>00, <2>1 DEF Typed, TypeOK
  <2>10. Readable'
    BY <1>00, <2>1, <2>2, <2>8, <2>9 DEF SaveInv, Readable, AllOpen
  <2>11. Aligned'
    BY <1>00, <2>1, <2>2, <2>5, <2>8, <2>9 DEF SaveInv, Aligned, AlignedTo, AllOpen, Edits
  <2>12. Seals'
    <3>1. Dated(vault)'
      BY <2>1, <2>2, <2>7 DEF Dated
    <3>2. \A c \in Clients : save'[c] # NoSave => Dated(save[c].body)'
      <4>1. \A c \in Clients \ {b} : save'[c] # NoSave => Dated(save[c].body)'
        BY <2>1, <2>2, <2>8 DEF SaveInv, Seals, Dated
      <4>2. \A k \in Names : body[k] # Absent => body[k].seal \in 1..(saves + 1) \cup {Foreign}
        BY <2>2, <2>3, <2>7 DEF Dated
      <4>3. Dated(save[b].body)'
        BY <2>1, <2>6, <2>8, <4>2 DEF Dated
      <4> QED
        BY <4>1, <4>3
    <3>3. \A c \in Clients : late'[c] # NoSave => Dated(late[c].body)'
      BY <2>1, <2>2 DEF SaveInv, Seals, Dated
    <3> QED
      BY <3>1, <3>2, <3>3 DEF Seals
  <2>13. Foreigners'
    <3>1. \A v : Dated(v) => Apart(body, v)
      <4> SUFFICES ASSUME NEW v, Dated(v) PROVE \A k \in Names : v[k] # Absent => v[k].seal # body[n].seal
        BY <2>4 DEF Apart
      <4> QED
        BY <2>2, <2>7, SaveConstants DEF Dated
    <3>2. \A c \in Clients : save[c] # NoSave => Dated(save[c].body)
      BY DEF SaveInv, Seals
    <3> SUFFICES ASSUME NEW u \in Terminals, save'[u] # NoSave
                 PROVE  /\ \A c \in Clients \ {u} : /\ save'[c] # NoSave => Apart(save'[c].body, save'[u].body)
                                                    /\ late[c] # NoSave => Apart(late[c].body, save'[u].body)
                        /\ pc'[u] = "written" => landed = u \/ Apart(vault, save'[u].body)
      BY <2>1 DEF Foreigners
    <3>3. save'[u] = save[u] /\ pc'[u] = pc[u] /\ u \in Clients
      BY <1>00, <2>2, <2>8, <2>9
    <3>4. Apart(save'[b].body, save'[u].body)
      BY <2>6, <2>8, <3>1, <3>2, <3>3
    <3> QED
      BY <2>8, <3>3, <3>4 DEF SaveInv, Foreigners
  <2> QED
    BY <2>10, <2>11, <2>12, <2>13 DEF SaveInv
<1>4. ASSUME NEW c \in Clients, Put(c) PROVE SaveInv'
  <2>1. /\ vault' = save[c].body /\ landed' = c /\ pc[c] = "checked" /\ pc' = [pc EXCEPT ![c] = "written"]
        /\ UNCHANGED <<before, save, saves, late>>
    BY <1>4 DEF Put, Run
  <2>2. save[c] # NoSave
    BY <2>1 DEF Typed, Pending
  <2>3. pc'[c] = "written" /\ \A d \in Clients \ {c} : pc'[d] = pc[d]
    BY <2>1 DEF Typed, TypeOK
  <2>4. Readable'
    BY <1>00, <2>1, <2>3 DEF SaveInv, Readable, AllOpen
  <2>5. Aligned'
    BY <1>4, <2>1, <2>3 DEF Put, Overlaps, Aligned
  <2>6. Seals'
    BY <2>1, <2>2 DEF SaveInv, Seals, Dated
  <2>7. Foreigners'
    <3> SUFFICES ASSUME NEW u \in Terminals, save[u] # NoSave
                 PROVE  /\ \A d \in Clients \ {u} : /\ save[d] # NoSave => Apart(save[d].body, save[u].body)
                                                    /\ late[d] # NoSave => Apart(late[d].body, save[u].body)
                        /\ c = u \/ Apart(save[c].body, save[u].body)
      BY <2>1 DEF Foreigners
    <3> QED
      BY <2>2 DEF SaveInv, Foreigners
  <2> QED
    BY <2>4, <2>5, <2>6, <2>7 DEF SaveInv
<1>5. ASSUME NEW c \in Clients, GiveUp(c) PROVE SaveInv'
  <2>1. /\ pc[c] = "checked" /\ pc' = [pc EXCEPT ![c] = "away"]
        /\ late' = [late EXCEPT ![c] = save[c]] /\ save' = [save EXCEPT ![c] = NoSave]
        /\ UNCHANGED <<vault, before, saves, landed, overlap>>
    BY <1>5 DEF GiveUp
  <2>2. save[c] # NoSave
    BY <2>1 DEF Typed, Pending
  <2>3. /\ pc'[c] = "away" /\ late'[c] = save[c] /\ save'[c] = NoSave
        /\ \A d \in Clients \ {c} : pc'[d] = pc[d] /\ late'[d] = late[d] /\ save'[d] = save[d]
    BY <2>1 DEF Typed, TypeOK
  <2>4. Readable'
    BY <1>00, <2>1, <2>3 DEF SaveInv, Readable, AllOpen
  <2>5. Aligned'
    BY <2>1, <2>3 DEF SaveInv, Aligned, AlignedTo, AllOpen, Edits
  <2>6. Seals'
    BY <2>1, <2>2, <2>3 DEF SaveInv, Seals, Dated
  <2>7. Foreigners'
    <3> SUFFICES ASSUME NEW u \in Terminals, save'[u] # NoSave
                 PROVE  /\ \A d \in Clients \ {u} : /\ save'[d] # NoSave => Apart(save'[d].body, save'[u].body)
                                                    /\ late'[d] # NoSave => Apart(late'[d].body, save'[u].body)
                        /\ pc'[u] = "written" => landed = u \/ Apart(vault, save'[u].body)
      BY <2>1 DEF Foreigners
    <3>1. u \in Clients /\ u # c
      BY <1>00, <2>3
    <3> QED
      BY <2>2, <2>3, <3>1 DEF SaveInv, Foreigners
  <2> QED
    BY <2>4, <2>5, <2>6, <2>7 DEF SaveInv
<1>6. ASSUME NEW c \in Clients, LatePut(c) PROVE SaveInv'
  <2>1. /\ late[c] # NoSave /\ vault' = late[c].body /\ landed' = c /\ late' = [late EXCEPT ![c] = NoSave]
        /\ UNCHANGED <<pc, before, save, saves>>
    BY <1>6 DEF LatePut, Run
  <2>2. late'[c] = NoSave /\ \A d \in Clients \ {c} : late'[d] = late[d]
    BY <2>1 DEF Typed, TypeOK
  <2>4. Readable'
    BY <2>1 DEF SaveInv, Readable, AllOpen
  <2>5. Aligned'
    BY <1>6, <2>1, <2>2 DEF LatePut, Overlaps, Aligned
  <2>6. Seals'
    BY <2>1, <2>2 DEF SaveInv, Seals, Dated
  <2>7. Foreigners'
    <3> SUFFICES ASSUME NEW u \in Terminals, save[u] # NoSave
                 PROVE  /\ \A d \in Clients \ {u} : /\ save[d] # NoSave => Apart(save[d].body, save[u].body)
                                                    /\ late'[d] # NoSave => Apart(late'[d].body, save[u].body)
                        /\ c = u \/ Apart(late[c].body, save[u].body)
      BY <2>1 DEF Foreigners
    <3> QED
      BY <2>1, <2>2 DEF SaveInv, Foreigners
  <2> QED
    BY <2>4, <2>5, <2>6, <2>7 DEF SaveInv
<1>7. ASSUME NEW c \in Clients, NEW l \in {"away", "loaded"}, pc[c] = "written", Goto(c, l),
             save' = [save EXCEPT ![c] = NoSave], UNCHANGED <<vault, saves, late, landed, overlap>>,
             \A t \in Terminals : before'[t] = before[t] \/ (t = c /\ before'[t] = save[t].body),
             l = "loaded" => c \in Terminals /\ before'[c] = save[c].body
      PROVE  SaveInv'
  <2>3. /\ pc'[c] = l /\ save'[c] = NoSave /\ save[c] # NoSave
        /\ \A d \in Clients \ {c} : pc'[d] = pc[d] /\ save'[d] = save[d]
    BY <1>7 DEF Typed, TypeOK, Pending
  <2>4. Readable'
    BY <1>00, <1>7, <2>3 DEF SaveInv, Readable, AllOpen
  <2>5. Aligned'
    BY <1>7, <2>3 DEF SaveInv, Aligned, AlignedTo, AllOpen, Edits
  <2>6. Seals'
    BY <1>7, <2>3 DEF SaveInv, Seals, Dated
  <2>7. Foreigners'
    <3> SUFFICES ASSUME NEW u \in Terminals, save'[u] # NoSave
                 PROVE  /\ \A d \in Clients \ {u} : /\ save'[d] # NoSave => Apart(save'[d].body, save'[u].body)
                                                    /\ late[d] # NoSave => Apart(late[d].body, save'[u].body)
                        /\ pc'[u] = "written" => landed = u \/ Apart(vault, save'[u].body)
      BY <1>7 DEF Foreigners
    <3>1. u \in Clients /\ u # c
      BY <1>00, <2>3
    <3> QED
      BY <2>3, <3>1 DEF SaveInv, Foreigners
  <2> QED
    BY <2>4, <2>5, <2>6, <2>7 DEF SaveInv
<1>8. ASSUME NEW c \in Clients, pc[c] = "written", Failed(c) PROVE SaveInv'
  BY <1>7, <1>8 DEF Failed
<1>9. ASSUME NEW c \in Clients, LoseAnswer(c) PROVE SaveInv'
  BY <1>8, <1>9 DEF LoseAnswer
<1>10. ASSUME NEW t \in Terminals, ReadBack(t) PROVE SaveInv'
  <2>1. CASE vault = save[t].body
    <3>1. before'[t] = save[t].body /\ \A u \in Terminals : u # t => before'[u] = before[u]
      BY <1>10, <2>1 DEF ReadBack, Typed, TypeOK
    <3> QED
      BY <1>00, <1>7, <1>10, <2>1, <3>1 DEF ReadBack, Succeeded
  <2>2. CASE vault # save[t].body
    BY <1>00, <1>8, <1>10, <2>2 DEF ReadBack
  <2> QED
    BY <2>1, <2>2
<1>11. ASSUME NEW b \in Browsers, ReadBackEntry(b) PROVE SaveInv'
  <2>1. CASE \A n \in save[b].names : vault[n] = save[b].body[n]
    BY <1>00, <1>7, <1>11, <2>1 DEF ReadBackEntry, Succeeded
  <2>2. CASE ~ \A n \in save[b].names : vault[n] = save[b].body[n]
    BY <1>00, <1>8, <1>11, <2>2 DEF ReadBackEntry
  <2> QED
    BY <2>1, <2>2
<1>12. CASE UNCHANGED vars
  BY <1>12 DEF vars, SaveInv, Readable, AllOpen, Aligned, AlignedTo, Edits, Val, Seals, Dated, Foreigners, Apart, Empty
<1> QED
  BY <1>1, <1>2, <1>3, <1>4, <1>5, <1>6, <1>9, <1>10, <1>11, <1>12 DEF Next

(***************************************************************************)
(* Theorems                                                                *)
(***************************************************************************)

\* The state is of the declared types, and every save between its look and the end of
\* its read-back is there.
THEOREM SaveTypeCorrect == Spec => []TypeOK
<1>1. Typed => TypeOK
  BY DEF Typed
<1> QED
  BY InitTyped, StepTyped, <1>1, PTL DEF Spec

LEMMA SaveInvariant == Spec => []SaveInv
  BY InitInv, StepInv, PTL DEF Spec

\* The vault changes when the server runs a PUT, and then unless PUTs overlap it is an
\* edit, of a vault a terminal could read.
LEMMA RunIsEdit ==
  ASSUME SaveInv, [Next]_vars, vault' # vault, ~overlap'
  PROVE  /\ \E s \in {save[landed'], late[landed']} \ {NoSave} : vault' = s.body /\ Edits(s, vault)
         /\ landed' \in Terminals => AllOpen(vault)
<1>1. CASE \E c \in Clients : Put(c)
  <2>1. PICK c \in Clients : Put(c)
    BY <1>1
  <2>2. pc[c] = "checked" /\ vault' = save[c].body /\ landed' = c /\ ~overlap
    BY <2>1 DEF Put, Run, Overlaps
  <2>3. save[c] # NoSave
    BY <2>2 DEF SaveInv, Typed, Pending
  <2>4. AlignedTo(c, save[c])
    BY <2>2 DEF SaveInv, Aligned
  <2> QED
    BY <2>2, <2>3, <2>4 DEF AlignedTo
<1>2. CASE \E c \in Clients : LatePut(c)
  <2>1. PICK c \in Clients : LatePut(c)
    BY <1>2
  <2>2. late[c] # NoSave /\ vault' = late[c].body /\ landed' = c /\ ~overlap
    BY <2>1 DEF LatePut, Run, Overlaps
  <2>3. AlignedTo(c, late[c])
    BY <2>2 DEF SaveInv, Aligned
  <2> QED
    BY <2>2, <2>3 DEF AlignedTo
<1> QED
  BY <1>1, <1>2 DEF Next, vars, Load, Begin, Wizard, GiveUp, LoseAnswer, ReadBack, ReadBackEntry, Failed, Succeeded

\* Whole-vault saves of any number of terminals and browsers change only the names they
\* edit, as long as the windows from look to PUT do not overlap.
THEOREM SavesEdit == Spec => SavesAreEdits
<1>1. SaveInv /\ [Next]_vars => OnlyEditedChange
  BY RunIsEdit DEF OnlyEditedChange, Edits, Val
<1> QED
  BY SaveInvariant, <1>1, PTL DEF Spec, SavesAreEdits

\* A terminal never saves over an entry that its key does not open.
THEOREM TerminalsKeep == Spec => ForeignIsKept
<1>1. SaveInv /\ [Next]_vars => TerminalKeepsForeign
  <2> SUFFICES ASSUME SaveInv, [Next]_vars, landed' \in Terminals, vault' # vault, ~overlap',
                      NEW n \in Names, Val(vault, n) = Foreign
               PROVE  FALSE
    BY DEF TerminalKeepsForeign
  <2>1. vault[n] # Absent => Opens(vault[n])
    BY RunIsEdit DEF AllOpen
  <2> QED
    BY <2>1, SaveConstants DEF Opens, Val
<1> QED
  BY SaveInvariant, <1>1, PTL DEF Spec, ForeignIsKept

\* A terminal that reports success was the last one the server ran, or the vault is
\* empty.
THEOREM SuccessIsSeen == Spec => SuccessWasUndisturbed
<1>1. SaveInv /\ [Next]_vars => ReadBackSees
  <2> SUFFICES ASSUME SaveInv, [Next]_vars, NEW t \in Terminals, pc[t] = "written", pc'[t] = "loaded"
               PROVE  landed = t \/ \A n \in Names : vault[n] = Absent
    BY DEF ReadBackSees
  <2>1. t \in Clients /\ save[t] # NoSave
    BY DEF Clients, SaveInv, Typed, Pending
  <2>2. vault = save[t].body
    <3> USE DEF SaveInv, Typed, TypeOK, Goto
    <3>1. ASSUME NEW u \in Terminals, Load(u) PROVE FALSE
      BY <2>1, <3>1 DEF Load, Clients
    <3>2. ASSUME NEW u \in Terminals, NEW writes \in SUBSET Names, NEW gone \in SUBSET Names, Begin(u, writes, gone)
          PROVE  FALSE
      BY <2>1, <3>2 DEF Begin, Clients
    <3>3. ASSUME NEW b \in Browsers, NEW n \in Names, Wizard(b, n) PROVE FALSE
      BY <2>1, <3>3 DEF Wizard, Clients
    <3>4. ASSUME NEW c \in Clients, Put(c) \/ GiveUp(c) \/ LatePut(c) \/ LoseAnswer(c) PROVE FALSE
      BY <2>1, <3>4 DEF Put, GiveUp, LatePut, LoseAnswer, Failed
    <3>5. ASSUME NEW b \in Browsers, ReadBackEntry(b) PROVE FALSE
      BY <2>1, <3>5 DEF ReadBackEntry, Failed, Succeeded, Clients
    <3>6. ASSUME NEW u \in Terminals, ReadBack(u) PROVE vault = save[t].body
      BY <2>1, <3>6 DEF ReadBack, Failed, Succeeded, Clients
    <3> QED
      BY <3>1, <3>2, <3>3, <3>4, <3>5, <3>6 DEF Next, vars
  <2>3. landed = t \/ Apart(vault, vault)
    BY <2>1, <2>2 DEF SaveInv, Foreigners
  <2> QED
    BY <2>3 DEF Apart, Empty
<1> QED
  BY SaveInvariant, <1>1, PTL DEF Spec, SuccessWasUndisturbed
=============================================================================
