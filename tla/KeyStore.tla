------------------------------- MODULE KeyStore -------------------------------
(***************************************************************************)
(* Where a machine keeps the data key (src/src/keyring.rs): the user's     *)
(* kernel keyring, else the keyring of the login session, else one that a  *)
(* process makes for itself, else a file on tmpfs.  Adding a key can work  *)
(* where finding it does not, so a store reads back what it stored.        *)
(* Programs interleave between two system calls and can be killed there.   *)
(*                                                                         *)
(* What the kernel lets a program do is the same for all programs of a     *)
(* behaviour and any combination of its six permissions.  Only the length  *)
(* of a key is not modelled.                                               *)
(***************************************************************************)
EXTENDS Naturals, FiniteSets

CONSTANTS
  Programs,
  NoKey,
  Shared,       \* own[p] of a program that has not left the login session's ring
  MaxStores     \* bound: stores begun; the n-th stores key n

StoreKeys == 1..MaxStores
ASSUME KeyStoreAssumption ==
  MaxStores \in Nat /\ NoKey \notin StoreKeys /\ Shared \notin StoreKeys \union {NoKey}

VARIABLES
  may,        \* what the kernel permits: to add to, and to find in, a ring; a ring
              \* of one's own; the file
  user,       \* the key in the user's ring
  login,      \* the key in the ring of the login session
  own,        \* program: the key in the ring it made, or Shared
  file,       \* the key in the file
  at,         \* program: where it is in store or delete
  want,       \* program: the key it is storing
  stores,
  calm,       \* history: the stores and deletes that no other one has overlapped so far
  rough,      \* history: a store overlapped another store or a delete, and no calm
              \* delete has reported success since
  kept,       \* history: the last calm store that reported success: its key, its
              \* program, and whether the key is in a ring of that program alone
  emptied     \* history: a calm delete reported success, and no store was begun since

kvars == <<may, user, login, own, file, at, want, stores, calm, rough, kept, emptied>>
rings == <<user, login, own>>

Permissions == [addUser : BOOLEAN, findUser : BOOLEAN, addLogin : BOOLEAN, findLogin : BOOLEAN,
                join : BOOLEAN, file : BOOLEAN]

-----------------------------------------------------------------------------
(* backend::find and load                                                    *)

Ring(p) == IF own[p] = Shared THEN login ELSE own[p]
Sees(p) == own[p] # Shared \/ may.findLogin
Found(p) ==
  IF may.findUser /\ user # NoKey THEN user
  ELSE IF Sees(p) THEN Ring(p)
  ELSE NoKey
Loaded(p) == IF Found(p) # NoKey THEN Found(p) ELSE IF may.file THEN file ELSE NoKey

\* A search that is refused leaves the ring of the login session for a new one.
Left(p) ==
  IF ~(may.findUser /\ user # NoKey) /\ ~Sees(p) /\ may.join THEN [own EXCEPT ![p] = NoKey] ELSE own

\* What a program started now would load.
Fresh ==
  IF may.findUser /\ user # NoKey THEN user
  ELSE IF may.findLogin /\ login # NoKey THEN login
  ELSE IF may.file THEN file ELSE NoKey

Working(p) == at[p] \notin {"idle", "over"}
Goes(p, there) == at' = [at EXCEPT ![p] = there]
None == [key |-> NoKey, by |-> NoKey, private |-> FALSE]

KeyStoreInit ==
  /\ may \in Permissions
  /\ user = NoKey /\ login = NoKey /\ file = NoKey /\ own = [p \in Programs |-> Shared]
  /\ at = [p \in Programs |-> "idle"] /\ want = [p \in Programs |-> NoKey] /\ stores = 0
  /\ calm = {} /\ rough = FALSE /\ kept = None /\ emptied = FALSE

At == {"idle", "forget", "forgetFile", "forgotten", "add", "check", "undo", "toFile", "over"}
Begun == 1..stores
KeyStoreTypeOK ==
  /\ may \in Permissions /\ stores \in 0..MaxStores
  /\ user \in Begun \union {NoKey} /\ login \in Begun \union {NoKey} /\ file \in Begun \union {NoKey}
  /\ own \in [Programs -> Begun \union {NoKey, Shared}]
  /\ at \in [Programs -> At] /\ want \in [Programs -> Begun \union {NoKey}]
  /\ calm \subseteq Programs /\ rough \in BOOLEAN /\ emptied \in BOOLEAN
  /\ kept \in [key : Begun \union {NoKey}, by : Programs, private : BOOLEAN] \union {None}

-----------------------------------------------------------------------------
(* store, and delete, which a store begins with                              *)

\* A program stores once (a sign-in) or deletes once (a logout); a sign-in has
\* looked for a key before.  Whoever is at work is overlapped from now on, and so is who begins.
Begin(p, k) ==
  LET others == {q \in Programs : Working(q)}
      stored == {k} \union {want[q] : q \in others}
  IN  /\ at[p] = "idle"
      /\ Goes(p, "forget")
      /\ want' = [want EXCEPT ![p] = k]
      /\ calm' = IF others = {} THEN {p} ELSE {}
      /\ rough' = (rough \/ (others # {} /\ stored # {NoKey}))
      /\ kept' = None
      /\ UNCHANGED <<may, rings, file>>

BeginStore(p) ==
  /\ stores < MaxStores
  /\ stores' = stores + 1
  /\ Begin(p, stores + 1)
  /\ emptied' = FALSE
BeginForget(p) == Begin(p, NoKey) /\ UNCHANGED <<stores, emptied>>

\* backend::delete: the key that is found first is invalidated.
DropFound(p) ==
  LET inUser == may.findUser /\ user # NoKey
  IN  /\ user' = IF inUser THEN NoKey ELSE user
      /\ login' = IF ~inUser /\ Sees(p) /\ own[p] = Shared THEN NoKey ELSE login
      /\ own' = IF ~inUser /\ own[p] # Shared THEN [own EXCEPT ![p] = NoKey] ELSE Left(p)

Forget(p) ==
  /\ at[p] = "forget"
  /\ DropFound(p)
  /\ Goes(p, "forgetFile")
  /\ UNCHANGED <<may, file, want, stores, calm, rough, kept, emptied>>

\* Faulty variant: a store leaves the file of an earlier one.
FileForgotten(p) ==
  /\ at[p] = "forgetFile"
  /\ file' = IF may.file /\ want[p] = NoKey THEN NoKey ELSE file
  /\ Goes(p, "forgotten")
  /\ UNCHANGED <<may, rings, want, stores, calm, rough, kept, emptied>>

ForgetFile(p) ==
  /\ at[p] = "forgetFile"
  /\ file' = IF may.file THEN NoKey ELSE file
  /\ Goes(p, "forgotten")
  /\ UNCHANGED <<may, rings, want, stores, calm, rough, kept, emptied>>

\* Faulty variant: a delete does not look whether the key is gone.
DeletedUnseen(p) ==
  /\ at[p] = "forgotten"
  /\ own' = Left(p)
  /\ Goes(p, IF want[p] = NoKey THEN "over" ELSE "add")
  /\ LET clean == want[p] = NoKey /\ p \in calm
     IN  emptied' = (emptied \/ clean) /\ rough' = (rough /\ ~clean)
  /\ UNCHANGED <<may, user, login, file, want, stores, calm, kept>>

\* The delete succeeded when nothing loads; a store goes on in either case.
Deleted(p) ==
  /\ at[p] = "forgotten"
  /\ own' = Left(p)
  /\ Goes(p, IF want[p] = NoKey THEN "over" ELSE "add")
  /\ LET clean == want[p] = NoKey /\ Loaded(p) = NoKey /\ p \in calm
     IN  emptied' = (emptied \/ clean) /\ rough' = (rough /\ ~clean)
  /\ UNCHANGED <<may, user, login, file, want, stores, calm, kept>>

\* backend::store: the first ring that takes the key.  One that may take keys can
\* be full.
Add(p) ==
  /\ at[p] = "add"
  /\ \/ /\ may.addUser
        /\ user' = want[p] /\ UNCHANGED <<login, own>>
        /\ Goes(p, "check")
     \/ /\ own[p] = Shared /\ may.addLogin
        /\ login' = want[p] /\ UNCHANGED <<user, own>>
        /\ Goes(p, "check")
     \/ /\ own[p] # Shared \/ may.join
        /\ own' = [own EXCEPT ![p] = want[p]] /\ UNCHANGED <<user, login>>
        /\ Goes(p, "check")
     \/ /\ UNCHANGED <<user, login>>
        /\ own' = IF may.join THEN [own EXCEPT ![p] = NoKey] ELSE own
        /\ Goes(p, "toFile")
  /\ UNCHANGED <<may, file, want, stores, calm, rough, kept, emptied>>

Succeeds(p) ==
  /\ Goes(p, "over")
  /\ want' = [want EXCEPT ![p] = NoKey]
  /\ kept' = IF p \in calm THEN [key |-> want[p], by |-> p, private |-> own[p] = want[p]] ELSE kept

\* Faulty variant: what the kernel took is not read back.
NotChecked(p) ==
  /\ at[p] = "check"
  /\ Succeeds(p)
  /\ UNCHANGED <<may, rings, file, stores, calm, rough, emptied>>

Check(p) ==
  /\ at[p] = "check"
  /\ own' = Left(p)
  /\ IF Loaded(p) = want[p] THEN Succeeds(p)
     ELSE Goes(p, "undo") /\ UNCHANGED <<want, kept>>
  /\ UNCHANGED <<may, user, login, file, stores, calm, rough, emptied>>

Undo(p) ==
  /\ at[p] = "undo"
  /\ DropFound(p)
  /\ Goes(p, "toFile")
  /\ UNCHANGED <<may, file, want, stores, calm, rough, kept, emptied>>

ToFile(p) ==
  /\ at[p] = "toFile"
  /\ IF may.file THEN file' = want[p] /\ Succeeds(p)
     ELSE /\ Goes(p, "over") /\ want' = [want EXCEPT ![p] = NoKey]
          /\ UNCHANGED <<file, kept>>
  /\ UNCHANGED <<may, rings, stores, calm, rough, emptied>>

\* `secd run` and the others only load, but a refused search is not without effect.
Load(p) ==
  /\ ~Working(p)
  /\ own' = Left(p)
  /\ UNCHANGED <<may, user, login, file, at, want, stores, calm, rough, kept, emptied>>

-----------------------------------------------------------------------------
(* Ends                                                                      *)

\* A program ends or is killed, and its ring with it; the next one is in the ring
\* of the login session again.
End(p) ==
  /\ own' = [own EXCEPT ![p] = Shared]
  /\ Goes(p, "idle") /\ want' = [want EXCEPT ![p] = NoKey]
  /\ kept' = IF kept.by = p /\ kept.private THEN None ELSE kept
  /\ UNCHANGED <<may, user, login, file, stores, calm, rough, emptied>>

\* The login session ends, or the machine reboots.
EndLogin ==
  /\ login' = NoKey
  /\ \/ UNCHANGED <<user, file, rough>>
     \/ user' = NoKey /\ file' = NoKey /\ rough' = FALSE
  /\ own' = [p \in Programs |-> Shared] /\ at' = [p \in Programs |-> "idle"]
  /\ want' = [p \in Programs |-> NoKey]
  /\ kept' = None
  /\ UNCHANGED <<may, stores, calm, emptied>>

KeyStoreStep(p) ==
  \/ BeginStore(p) \/ BeginForget(p) \/ Forget(p) \/ ForgetFile(p) \/ Deleted(p)
  \/ Add(p) \/ Check(p) \/ Undo(p) \/ ToFile(p) \/ Load(p) \/ End(p)
KeyStoreNext == (\E p \in Programs : KeyStoreStep(p)) \/ EndLogin
KeyStoreSpec == KeyStoreInit /\ [][KeyStoreNext]_kvars

-----------------------------------------------------------------------------
(* Properties *)

\* A store that reported success is what programs load from then on, until the
\* next store, delete or end of the login session, whatever the kernel permits.
\* (A key that only a ring of its own would take is for that program alone.  Stores
\* that overlapped can leave two keys behind, and a store that ends in the file
\* does not look for the other one.)
StoredIsLoaded ==
  kept # None /\ ~rough => IF kept.private THEN Loaded(kept.by) = kept.key ELSE Fresh = kept.key

\* After a delete that reported success a program started from then on loads no
\* key, until a store is begun.  (One that runs may have a ring of its own.)
DeletedIsGone == emptied => Fresh = NoKey

\* The newest key and those whose store is under way; any, once stores overlapped.
Current == IF rough THEN Begun ELSE ({want[p] : p \in Programs} \union {stores}) \intersect StoreKeys

\* The key store implements one slot: what a program started now would load is
\* the newest key, or one whose store is under way, or what it was, or nothing.
\* No key that was replaced comes back.  (Stores that overlapped can leave keys
\* behind that show later, until a delete on its own reports success.)
Slot == INSTANCE KeySlot WITH slot <- Fresh, current <- Current
ImplementsSlot == Slot!SlotSpec
=============================================================================
