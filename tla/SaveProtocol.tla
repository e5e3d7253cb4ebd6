---------------------------- MODULE SaveProtocol ----------------------------
(***************************************************************************)
(* Two kinds of client save the vault by replacing all of it.              *)
(* Terminals (src/policy.rs, src/gen.rs, src/tui/model.rs) load, check the *)
(* vault is still what they loaded, PUT every entry sealed anew, and read  *)
(* all of it back. Browsers (ui/src/screens/vault.ts) GET, PUT the entries *)
(* as they came with one of their own, and read that one back. A request   *)
(* may lose its answer, or land after its client has given up on it.       *)
(***************************************************************************)
EXTENDS Integers, FiniteSets

CONSTANTS
  Terminals, Browsers,   \* clients
  Names,                 \* entry names
  Absent,                \* a name without an entry
  Foreign,               \* a value the terminals' key does not open
  NoSave,                \* a client with no save under way
  MaxSaves,              \* bound: saves begun, by all clients together
  LateAnswers            \* TRUE: answers get lost and requests land late

Clients == Terminals \cup Browsers

Own     == 1..MaxSaves
Values  == Own \cup {Foreign}
\* A ciphertext: what it opens to, and the save that sealed it.
Cipher  == [val : Values, seal : Values]
Vaults  == [Names -> Cipher \cup {Absent}]
Save    == [names : SUBSET Names, body : Vaults]

ASSUME SaveConstants ==
  /\ Terminals \cap Browsers = {} /\ Clients # {}
  /\ MaxSaves \in Nat /\ LateAnswers \in BOOLEAN
  /\ Foreign \notin Nat /\ Absent # Foreign /\ Absent \notin Cipher /\ NoSave \notin Save

VARIABLES
  vault,     \* what the server holds: name -> ciphertext
  pc,        \* where each client is
  before,    \* terminal: the ciphertexts it loaded or wrote last
  save,      \* the save under way: edited names and the body of its PUT
  saves,     \* saves begun: seals and values are never reused
  late,      \* PUT bodies a client gave up on and the server may still run
  landed,    \* the client whose PUT the server ran last
  overlap    \* a PUT ran while another save was between its look and its PUT

vars == <<vault, pc, before, save, saves, late, landed, overlap>>

Opens(ct) == ct # Absent /\ ct.val # Foreign
Val(v, n) == IF v[n] = Absent THEN Absent ELSE v[n].val
Fresh     == saves + 1

Init ==
  /\ vault \in [Names -> {Absent, [val |-> Foreign, seal |-> Foreign]}]
  /\ pc = [c \in Clients |-> "away"]
  /\ before = [c \in Terminals |-> vault]
  /\ save = [c \in Clients |-> NoSave]
  /\ saves = 0
  /\ late = [c \in Clients |-> NoSave]
  /\ landed \in Clients
  /\ overlap = FALSE

Goto(c, l) == pc' = [pc EXCEPT ![c] = l]

-----------------------------------------------------------------------------

\* Faulty variant: entries that do not open are left out, and saves go on.
LoadDropsForeign(t) ==
  /\ pc[t] = "away"
  /\ before' = [before EXCEPT ![t] = vault]
  /\ Goto(t, "loaded")
  /\ UNCHANGED <<vault, save, saves, late, landed, overlap>>

\* load_vault; drop_refusal keeps a register with an entry that did not open
\* from saving until a load that opens them all.
Load(t) ==
  /\ pc[t] = "away"
  /\ before' = [before EXCEPT ![t] = vault]
  /\ IF \A n \in Names : vault[n] = Absent \/ Opens(vault[n])
     THEN Goto(t, "loaded") ELSE pc' = pc
  /\ UNCHANGED <<vault, save, saves, late, landed, overlap>>

\* commit, commit_delete: the register with some names written and others gone
\* (a rename is both), every entry sealed anew.
Resealed(t, writes, gone) ==
  [n \in Names |->
     IF n \in writes THEN [val |-> Fresh, seal |-> Fresh]
     ELSE IF n \in gone \/ ~Opens(before[t][n]) THEN Absent
     ELSE [val |-> before[t][n].val, seal |-> Fresh]]

\* Faulty variant: the save does not look whether the vault is still what was
\* loaded.
BeginUnchecked(t, writes, gone) ==
  /\ pc[t] = "loaded" /\ saves < MaxSaves
  /\ writes \cup gone # {}
  /\ save' = [save EXCEPT ![t] =
       [names |-> writes \cup gone, body |-> Resealed(t, writes, gone)]]
  /\ saves' = saves + 1
  /\ Goto(t, "checked")
  /\ UNCHANGED <<vault, before, late, landed, overlap>>

\* save_entries_read_back up to the check: the vault must be the one loaded.
\* When it is not, the register is loaded again.
Begin(t, writes, gone) ==
  /\ pc[t] = "loaded" /\ saves < MaxSaves
  /\ writes \cup gone # {}
  /\ IF vault = before[t]
     THEN /\ save' = [save EXCEPT ![t] =
               [names |-> writes \cup gone, body |-> Resealed(t, writes, gone)]]
          /\ saves' = saves + 1
          /\ Goto(t, "checked")
     ELSE Goto(t, "away") /\ UNCHANGED <<save, saves>>
  /\ UNCHANGED <<vault, before, late, landed, overlap>>

\* saveWizard up to the PUT: the entries come from a GET made for this save.
Wizard(b, n) ==
  /\ pc[b] = "away" /\ saves < MaxSaves
  /\ save' = [save EXCEPT ![b] =
       [names |-> {n}, body |-> [vault EXCEPT ![n] = [val |-> Fresh, seal |-> Fresh]]]]
  /\ saves' = saves + 1
  /\ Goto(b, "checked")
  /\ UNCHANGED <<vault, before, late, landed, overlap>>

\* The server runs a PUT: it replaces the whole vault. It overlaps when some
\* other PUT is decided but has not run.
Run(c, s) ==
  /\ vault' = s.body
  /\ landed' = c

Overlaps(checked, lates) ==
  overlap \/ (\E d \in checked : pc[d] = "checked") \/ (\E d \in lates : late[d] # NoSave)

Put(c) ==
  /\ pc[c] = "checked"
  /\ Run(c, save[c])
  /\ overlap' = Overlaps(Clients \ {c}, Clients)
  /\ Goto(c, "written")
  /\ UNCHANGED <<before, save, saves, late>>

\* The PUT times out before the server runs it: the client reports an error
\* and loads again, the request is still on its way.
GiveUp(c) ==
  /\ LateAnswers /\ pc[c] = "checked" /\ late[c] = NoSave
  /\ late' = [late EXCEPT ![c] = save[c]]
  /\ save' = [save EXCEPT ![c] = NoSave]
  /\ Goto(c, "away")
  /\ UNCHANGED <<vault, before, saves, landed, overlap>>

LatePut(c) ==
  /\ late[c] # NoSave
  /\ Run(c, late[c])
  /\ overlap' = Overlaps(Clients, Clients \ {c})
  /\ late' = [late EXCEPT ![c] = NoSave]
  /\ UNCHANGED <<pc, before, save, saves>>

\* The answer of the PUT or of the read-back is lost, or the read-back shows
\* something else: an error, and a fresh load.
Failed(c) ==
  /\ save' = [save EXCEPT ![c] = NoSave]
  /\ Goto(c, "away")
  /\ UNCHANGED <<vault, before, saves, late, landed, overlap>>

LoseAnswer(c) == LateAnswers /\ pc[c] = "written" /\ Failed(c)

Succeeded(c) ==
  /\ save' = [save EXCEPT ![c] = NoSave]
  /\ UNCHANGED <<vault, saves, late, landed, overlap>>

\* Faulty variant: the terminal reads back its own entry only.
ReadBackOwn(t) ==
  /\ pc[t] = "written"
  /\ IF \A n \in save[t].names : vault[n] = save[t].body[n]
     THEN Succeeded(t) /\ Goto(t, "loaded") /\ before' = [before EXCEPT ![t] = save[t].body]
     ELSE Failed(t)

\* The whole vault is read back; what was written is the next save's before.
ReadBack(t) ==
  /\ pc[t] = "written"
  /\ IF vault = save[t].body
     THEN Succeeded(t) /\ Goto(t, "loaded") /\ before' = [before EXCEPT ![t] = save[t].body]
     ELSE Failed(t)

\* The browser reads back the entry it wrote.
ReadBackEntry(b) ==
  /\ pc[b] = "written"
  /\ IF \A n \in save[b].names : vault[n] = save[b].body[n]
     THEN Succeeded(b) /\ Goto(b, "away") /\ UNCHANGED before
     ELSE Failed(b)

Next ==
  \/ \E t \in Terminals : Load(t)
  \/ \E t \in Terminals, writes, gone \in SUBSET Names : Begin(t, writes, gone)
  \/ \E b \in Browsers, n \in Names : Wizard(b, n)
  \/ \E c \in Clients : Put(c)
  \/ \E c \in Clients : GiveUp(c)
  \/ \E c \in Clients : LatePut(c)
  \/ \E c \in Clients : LoseAnswer(c)
  \/ \E t \in Terminals : ReadBack(t)
  \/ \E b \in Browsers : ReadBackEntry(b)

Spec == Init /\ [][Next]_vars

-----------------------------------------------------------------------------

TypeOK ==
  /\ vault \in Vaults
  /\ pc \in [Clients -> {"away", "loaded", "checked", "written"}]
  /\ before \in [Terminals -> Vaults]
  /\ save \in [Clients -> Save \cup {NoSave}]
  /\ late \in [Clients -> Save \cup {NoSave}]
  /\ saves \in 0..MaxSaves
  /\ landed \in Clients
  /\ overlap \in BOOLEAN

OnlyEditedChange ==
  (vault' # vault /\ ~overlap') =>
    \E s \in {save[landed'], late[landed']} \ {NoSave} :
      \A n \in Names \ s.names : Val(vault', n) = Val(vault, n)

\* Whole-vault saves whose look-to-PUT windows do not overlap change only the
\* names they edit, although every one of them rewrites all entries, from a
\* register that may be old, and may land after its client gave up on it.
SavesAreEdits == [][OnlyEditedChange]_vars

TerminalKeepsForeign ==
  (landed' \in Terminals /\ vault' # vault /\ ~overlap') =>
    \A n \in Names : Val(vault, n) = Foreign => vault'[n] = vault[n]

\* "An entry that did not decode is an entry it deletes": a terminal never
\* saves over an entry its key does not open.
ForeignIsKept == [][TerminalKeepsForeign]_vars

ReadBackSees ==
  \A t \in Terminals :
    (pc[t] = "written" /\ pc'[t] = "loaded") =>
      landed = t \/ \A n \in Names : vault[n] = Absent

\* "The read-back turns a clobber from silent into an error", one half: a
\* terminal whose write another save replaced, even one that left its entry
\* alone, never reports success. Only an empty vault looks the same whoever
\* wrote it.
SuccessWasUndisturbed == [][ReadBackSees]_vars
=============================================================================
