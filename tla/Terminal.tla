------------------------------- MODULE Terminal -------------------------------
(***************************************************************************)
(* The register of the terminal interface (src/src/tui/model.rs, with      *)
(* tree.rs, form.rs and the grouping of src/src/policy.rs): one row per    *)
(* credential over a flat vault, a detail pane, a filter, and the forms    *)
(* that add, edit, rename and delete.  Every save is one PUT of the whole  *)
(* vault; another client may change the vault between two events.          *)
(*                                                                         *)
(* Typing is abstracted to the text a field ends up with, a PUT to one     *)
(* step (SaveProtocol opens it up), and a ciphertext to whether the vault  *)
(* is still what the register loaded.  Drawing is left out, and with it the *)
(* focus and the masks of a form, the help overlay and the activity log.   *)
(***************************************************************************)
EXTENDS Naturals, Sequences, FiniteSets, SequencesExt

CONSTANTS
  Order,       \* every path an entry or a row can have, in byte order
  Parent,      \* path -> the path up to its last "/", NoText without one
  Leaf,        \* path -> its last segment
  Required,    \* provider -> the keys its schema requires
  Optional,    \* provider -> the keys its schema allows besides
  Spells,      \* path or provider -> the filter letters it contains
  Letters,     \* what the filter can be typed to
  Typed,       \* what a value field can be typed to
  Vaults,      \* the vaults a session can begin with
  Foreigner,   \* changes another client makes: [path, entry], entry NoEntry to remove
  MaxWrites    \* bound: how often the vault changes, by this program or another client

NoText == ""
NoEntry == [fields |-> << >>, meta |-> NoText]
Paths == ToSet(Order)
Providers == DOMAIN Required
Keys(p) == Required[p] \union Optional[p]
Child(n, k) == {m \in Paths : Parent[m] = n /\ Leaf[m] = k}

ASSUME TerminalAssumption ==
  /\ MaxWrites \in Nat
  /\ Order \in Seq(Paths)
  /\ NoText \notin Paths
  /\ \A n \in Paths : Parent[n] = NoText \/ (Parent[n] \in Paths /\ Parent[Parent[n]] = NoText)
  /\ \A m, n \in Paths : Parent[m] = Parent[n] /\ Leaf[m] = Leaf[n] => m = n
  /\ DOMAIN Optional = Providers
  /\ NoText \notin Providers
  /\ \A n \in Paths : Parent[n] # NoText =>
       \A p \in Providers : \A k \in Keys(p) : Child(Parent[n], k) # {}
  /\ \A v \in Vaults : DOMAIN v \subseteq Paths
  /\ \A c \in Foreigner : c.path \in Paths

VARIABLES
  vault,      \* the server: path -> entry, of the entries this key opens
  foreign,    \* the server also holds an entry this key does not open
  stale,      \* the vault is no longer what `before` recorded
  held,       \* names, values and meta of the register: path -> entry
  index,      \* the credentials they make: path -> label, and label -> row
  blocked,    \* save_blocked: every save is refused
  mode,       \* Idle, or the modal that is open
  screen,     \* open, filter, rows, selected, reveal_all and detail
  quit,
  puts,       \* how often a PUT of this program changed the vault
  others      \* how often the other client changed it

tvars == <<vault, foreign, stale, held, index, blocked, mode, screen, quit, puts, others>>

-----------------------------------------------------------------------------
(* Entries and the credentials they make *)

\* A single value is stored under no key, a JSON bundle under its keys.
Single(v) == [k \in {NoText} |-> v]
Value(v) == [fields |-> Single(v), meta |-> NoText]
Bundle(p, f) == [fields |-> f, meta |-> p]
IsJson(e) == NoText \notin DOMAIN e.fields

\* infer and candidates: the schemas that hold all of these keys.
Candidates(keys) == {p \in Providers : keys # {} /\ keys \subseteq Keys(p)}
Resolve(keys, meta) ==
  IF meta \in Providers THEN meta
  ELSE IF Cardinality(Candidates(keys)) = 1 THEN CHOOSE p \in Candidates(keys) : TRUE
  ELSE NoText

\* agreed_provider: a sibling without one does not conflict, two providers do.
Agreed(h, sibs) ==
  LET named == {h[n].meta : n \in sibs} \ {NoText}
  IN  IF Cardinality(named) = 1 THEN CHOOSE p \in named : TRUE ELSE NoText

Siblings(h, p) == {n \in DOMAIN h : Parent[n] = p /\ ~IsJson(h[n])}
FusedProvider(h, p) ==
  LET sibs == Siblings(h, p) IN Resolve({Leaf[n] : n \in sibs}, Agreed(h, sibs))

\* shapes_of: siblings are one credential when their keys are a credential shape.
Fused(h, p) ==
  LET sibs == Siblings(h, p)
  IN  /\ p # NoText
      /\ Cardinality(sibs) > 1
      /\ FusedProvider(h, p) # NoText \/ Candidates({Leaf[n] : n \in sibs}) # {}

\* Index::build: who owns an entry, and what a label stands for.  A plain entry
\* of that very name is inserted last and takes the label.
Row(h, owner, l) ==
  LET plain == l \in DOMAIN h /\ ~IsJson(h[l]) /\ owner[l] = l
      fused == ~plain /\ \E n \in DOMAIN h : n # l /\ owner[n] = l
  IN  [label    |-> l,
       members  |-> IF fused THEN Siblings(h, l) ELSE {l},
       provider |-> IF fused THEN FusedProvider(h, l)
                    ELSE IF plain THEN NoText
                    ELSE Resolve(DOMAIN h[l].fields, h[l].meta)]
Rows(h, owner) == [owner |-> owner, row |-> [l \in {owner[n] : n \in DOMAIN h} |-> Row(h, owner, l)]]
Index(h) ==
  LET shapes == {p \in {Parent[n] : n \in DOMAIN h} : Fused(h, p)}
  IN  Rows(h, [n \in DOMAIN h |-> IF ~IsJson(h[n]) /\ Parent[n] \in shapes THEN Parent[n] ELSE n])

NoRow == [label |-> NoText, members |-> {}, provider |-> NoText]
IsBundle(x, l) == l \in DOMAIN x.row /\ Cardinality(x.row[l].members) > 1
MembersOf(l) == {n \in DOMAIN held : index.owner[n] = l}

\* A BTreeMap is walked in byte order: the i-th name is the one i names are up to.
Place(n) == CHOOSE i \in DOMAIN Order : Order[i] = n
UpTo(S, n) == {m \in S : Place(m) <= Place(n)}
InOrder(S) == [i \in 1..Cardinality(S) |-> CHOOSE n \in S : Cardinality(UpTo(S, n)) = i]

\* Index::rows: the fields of an open bundle, else the labels the filter lets by.
Matches(row, f) == f = NoText \/ f \in Spells[row.label] \/ (row.provider # NoText /\ f \in Spells[row.provider])
RowsOf(x, o, f) ==
  IF IsBundle(x, o)
  THEN LET names == InOrder({n \in Paths : n \in x.row[o].members})
       IN  [i \in DOMAIN names |-> [label |-> names[i], members |-> {names[i]}, provider |-> NoText]]
  ELSE LET names == InOrder({l \in Paths : l \in DOMAIN x.row /\ Matches(x.row[l], f)})
       IN  [i \in DOMAIN names |-> x.row[names[i]]]

-----------------------------------------------------------------------------
(* The screen *)

Selected(s) == IF s.selected \in DOMAIN s.rows THEN s.rows[s.selected] ELSE NoRow
Only(row) == IF Cardinality(row.members) = 1 THEN CHOOSE n \in row.members : TRUE ELSE NoText

\* sync_detail: the pane shows the selected row, masked again.
DetailOf(row, h) == [n \in row.members \intersect DOMAIN h |-> h[n].fields]
\* Faulty variant: a reveal outlives the row it was asked for.
RevealOutlives(s, h) == [s EXCEPT !.detail = DetailOf(Selected(s), h)]
Synced(s, h) == [s EXCEPT !.detail = DetailOf(Selected(s), h), !.reveal = FALSE]

\* rebuild: regroup, drop an open bundle that is gone, and put the selection back
\* on the row that owned `keep` before, else on the row of the same label.
Want(s, keep) == IF keep \in DOMAIN index.owner THEN index.owner[keep] ELSE Selected(s).label
Rebuilt(s, x, want) ==
  LET o    == IF IsBundle(x, s.open) THEN s.open ELSE NoText
      rows == RowsOf(x, o, s.filter)
      at   == {i \in DOMAIN rows : rows[i].label = want}
  IN  [s EXCEPT !.open = o, !.rows = rows,
                !.selected = IF at = {} THEN 1 ELSE CHOOSE i \in at : TRUE]

BlankScreen == [open |-> NoText, filter |-> NoText, filtering |-> FALSE,
                rows |-> << >>, selected |-> 1, reveal |-> FALSE, detail |-> << >>]

Idle == [kind |-> "idle"]
IsIdle == mode.kind = "idle"
HasForm == mode.kind \in {"add", "provider"}
Commands == ~quit /\ IsIdle /\ ~screen.filtering

-----------------------------------------------------------------------------
(* Moving, opening, filtering, revealing *)

MaxOf(a, b) == IF a > b THEN a ELSE b
MinOf(a, b) == IF a < b THEN a ELSE b

OnlyScreen == UNCHANGED <<vault, foreign, stale, held, index, blocked, mode, quit, puts, others>>

\* Up, Down, Home and End, the wheel and the page keys (on a list this short a
\* page is the whole list).  An empty list has nothing to move to.
Move ==
  /\ ~quit /\ IsIdle
  /\ \E i \in {MaxOf(screen.selected - 1, 1), MinOf(screen.selected + 1, Len(screen.rows)),
               1, Len(screen.rows)} :
       screen' = Synced([screen EXCEPT !.selected = MaxOf(i, 1)], held)
  /\ OnlyScreen

\* A click on a row.
ClickRow ==
  /\ ~quit /\ IsIdle
  /\ \E i \in DOMAIN screen.rows : screen' = Synced([screen EXCEPT !.selected = i], held)
  /\ OnlyScreen

\* [r], Ctrl-R, and Enter on a row with nothing to open.
ToggleReveal ==
  /\ ~quit /\ IsIdle
  /\ screen' = [screen EXCEPT !.reveal = ~@]
  /\ OnlyScreen

OpenSelected ==
  /\ Commands
  /\ Cardinality(Selected(screen).members) > 1
  /\ LET s == [screen EXCEPT !.open = Selected(screen).label, !.filter = NoText]
     IN  screen' = Synced(Rebuilt(s, index, Selected(screen).label), held)
  /\ OnlyScreen

BeginFilter ==
  /\ Commands
  /\ screen' = [screen EXCEPT !.filtering = TRUE]
  /\ OnlyScreen

\* A letter is pushed on the filter, or Backspace pops it: one letter at most.
Refilter(s, f) ==
  Synced(Rebuilt([s EXCEPT !.filter = f], index, Want(s, Only(Selected(s)))), held)
TypeFilter ==
  /\ ~quit /\ IsIdle /\ screen.filtering
  /\ \E f \in IF screen.filter = NoText THEN Letters \union {NoText} ELSE {NoText} :
       screen' = Refilter(screen, f)
  /\ OnlyScreen

\* Enter hands the letters back to the commands.
CommitFilter ==
  /\ ~quit /\ screen.filtering
  /\ screen' = [screen EXCEPT !.filtering = FALSE]
  /\ OnlyScreen

\* Esc closes one layer: the filter, the bundle, then secd.
CloseBundle(s) ==
  LET r  == Rebuilt([s EXCEPT !.open = NoText], index, Selected(s).label)
      at == {i \in DOMAIN r.rows : r.rows[i].label = s.open}
  IN  Synced(IF at = {} THEN r ELSE [r EXCEPT !.selected = CHOOSE i \in at : TRUE], held)

EscLayer ==
  /\ ~quit /\ IsIdle
  /\ screen.filtering \/ screen.filter # NoText \/ screen.open # NoText
  /\ screen' = IF screen.filtering \/ screen.filter # NoText
                    THEN [Refilter(screen, NoText) EXCEPT !.filtering = FALSE]
               ELSE CloseBundle(screen)
  /\ OnlyScreen

\* Esc on the bare register, [q], or Ctrl-C from anywhere.
Quit ==
  /\ ~quit
  /\ quit' = TRUE /\ mode' = Idle /\ screen' = BlankScreen /\ held' = << >> /\ index' = Index(<< >>)
  /\ blocked' = FALSE
  /\ UNCHANGED <<vault, foreign, stale, puts, others>>

-----------------------------------------------------------------------------
(* Loading and saving *)

\* Faulty variant: the pane follows, the rows do not.
NotRegrouped(s, h, x) == Synced(s, h)

Regrouped(s, h, x) == Synced(Rebuilt(s, x, Selected(s).label), h)

Holds(h) == held' = h /\ index' = Index(h)

\* Faulty variant: an entry that did not open does not refuse saves.
ReloadUnblocked(s, v, f, otherwise) ==
  /\ Holds(v) /\ blocked' = FALSE /\ stale' = FALSE
  /\ screen' = Regrouped(s, v, index')

\* apply_loaded: what this key opens, and a refusal when something it does not.
Reload(s, v, f, otherwise) ==
  \/ /\ Holds(v) /\ blocked' = f /\ stale' = FALSE
     /\ screen' = Regrouped(s, v, index')
  \/ /\ blocked' = TRUE /\ stale' = otherwise
     /\ screen' = Synced(s, held)
     /\ UNCHANGED <<held, index>>

\* The program starts, paints, and loads.
Start ==
  /\ quit
  /\ quit' = FALSE /\ mode' = Idle
  /\ Reload(BlankScreen, vault, foreign, stale)
  /\ UNCHANGED <<vault, foreign, puts, others>>

\* save_snapshot replaces the vault by the rows of the register, when it is
\* still the one that was loaded.
Put(rows) ==
  /\ ~stale
  /\ puts + others < MaxWrites
  /\ vault' = rows /\ foreign' = FALSE /\ puts' = puts + 1
SaveOk(rows) ==
  /\ Put(rows) /\ stale' = FALSE
  /\ Holds(rows)
  /\ UNCHANGED blocked

\* It fails before the PUT, or after it with the answer or the read-back lost.
SaveFails(rows) ==
  \/ /\ Reload(screen, vault, foreign, stale)
     /\ UNCHANGED <<vault, foreign, puts>>
  \/ /\ Put(rows)
     /\ Reload(screen, rows, FALSE, TRUE)

-----------------------------------------------------------------------------
(* The forms *)

Plain(n, v) == [kind |-> "add", editing |-> NoText, name |-> n, provider |-> NoText,
                text |-> Single(v)]
\* Form::schema shows the fields of the schema, and of the pairs only those.
Schema(p, n, pairs) ==
  [kind |-> "provider", editing |-> NoText, name |-> n, provider |-> p,
   text |-> [k \in Keys(p) |-> IF k \in DOMAIN pairs THEN pairs[k] ELSE NoText]]

OnlyMode == UNCHANGED <<vault, foreign, stale, held, index, blocked, screen, quit, puts, others>>

BeginAdd ==
  /\ Commands /\ ~blocked
  /\ mode' = Plain(NoText, NoText)
  /\ OnlyMode

\* [p], a choice in the picker, and the schema form that it opens.
BeginPick ==
  /\ Commands /\ ~blocked
  /\ mode' = [kind |-> "pick"]
  /\ OnlyMode
Choose ==
  /\ ~quit /\ mode.kind = "pick"
  /\ \E p \in Providers : mode' = Schema(p, NoText, << >>)
  /\ OnlyMode

FusedPairs(members) ==
  [k \in {Leaf[n] : n \in members} |->
     held[CHOOSE n \in members : Leaf[n] = k].fields[NoText]]
\* A row is edited in the form of its schema, a plain value as one field.  (JSON
\* that no schema holds is edited as the text it is: left out.)
BeginEdit ==
  /\ Commands /\ ~blocked
  /\ LET row    == Selected(screen)
         fused  == Cardinality(row.members) > 1
         pairs  == IF fused THEN FusedPairs(row.members) ELSE held[row.label].fields
         schema == IF fused THEN row.provider ELSE Resolve(DOMAIN pairs, held[row.label].meta)
         value  == ~fused /\ NoText \in DOMAIN pairs
     IN  /\ row # NoRow
         /\ \/ /\ value
               /\ mode' = [Plain(row.label, pairs[NoText]) EXCEPT !.editing = row.label]
            \/ /\ ~value /\ schema \in Providers
               /\ mode' = [Schema(schema, row.label, pairs) EXCEPT !.editing = row.label]
  /\ OnlyMode

BeginDelete ==
  /\ Commands /\ ~blocked
  /\ Selected(screen) # NoRow
  /\ mode' = [kind |-> "delete", label |-> Selected(screen).label, gone |-> Selected(screen).members]
  /\ OnlyMode

\* Esc or the cancel button closes the modal.
Cancel ==
  /\ ~quit /\ ~IsIdle
  /\ mode' = Idle
  /\ OnlyMode

\* Keys edit a field, the name among them.
AsSiblings(form) == form.editing # NoText /\ form.editing \notin DOMAIN held /\ IsBundle(index, form.editing)
Type ==
  /\ ~quit /\ HasForm
  /\ \/ \E n \in Paths \union {NoText} :
          /\ mode.kind = "provider" /\ n # NoText => \A k \in Keys(mode.provider) : Child(n, k) # {}
          /\ mode' = [mode EXCEPT !.name = n]
     \/ \E k \in DOMAIN mode.text, v \in Typed \union {NoText} :
          mode' = [mode EXCEPT !.text[k] = v]
  /\ OnlyMode

\* build_payload: the fields that are not empty, when no required one is.
Payload(form) == [k \in {x \in DOMAIN form.text : form.text[x] # NoText} |-> form.text[k]]
Incomplete(form) == form.kind = "provider" /\ \E k \in Required[form.provider] : form.text[k] = NoText

\* Faulty variant: a rename is not checked.
NeverCollides(form) == FALSE

\* rename_collision: a rename must not land on an entry of somebody else.
Collides(form) ==
  /\ form.editing \notin {NoText, form.name}
  /\ \/ form.name \in DOMAIN held
     \/ \E n \in DOMAIN held \ MembersOf(form.editing) : Parent[n] = form.name

\* What a commit writes and what it leaves behind.
Writes(form) ==
  CASE form.kind = "add" -> [n \in {form.name} |-> Value(form.text[NoText])]
    [] form.kind = "provider" /\ AsSiblings(form) ->
         [n \in UNION {Child(form.name, k) : k \in DOMAIN Payload(form)} |-> Value(form.text[Leaf[n]])]
    [] OTHER -> [n \in {form.name} |-> Bundle(form.provider, Payload(form))]
Gone(form) ==
  CASE form.kind = "provider" /\ AsSiblings(form) -> MembersOf(form.editing) \ DOMAIN Writes(form)
    [] OTHER -> {form.editing} \ {form.name, NoText}
Over(w, h) == [n \in DOMAIN w \union DOMAIN h |-> IF n \in DOMAIN w THEN w[n] ELSE h[n]]
Without(gone) == [n \in DOMAIN held \ gone |-> held[n]]
After(form) == Over(Writes(form), Without(Gone(form)))

\* form_refuse: the modal stays open, with the reason, and nothing else happens.
Refused(form) ==
  blocked \/ form.name = NoText \/ Incomplete(form) \/ Collides(form) \/ DOMAIN Writes(form) = {}

CommitSaved ==
  /\ ~quit /\ HasForm /\ ~Refused(mode)
  /\ SaveOk(After(mode))
  /\ mode' = Idle
  /\ \E first \in DOMAIN Writes(mode) :
       /\ AsSiblings(mode) \/ first = mode.name
       /\ screen' = Synced(Rebuilt(screen, index', Want(screen, first)), held')
  /\ UNCHANGED <<quit, others>>

\* Faulty variant: the form closes on a failed save as well.
CommitLost ==
  /\ ~quit /\ HasForm /\ ~Refused(mode)
  /\ SaveFails(After(mode))
  /\ mode' = Idle
  /\ UNCHANGED <<quit, others>>

CommitFailed ==
  /\ ~quit /\ HasForm /\ ~Refused(mode)
  /\ SaveFails(After(mode))
  /\ UNCHANGED <<mode, quit, others>>

\* commit_delete: the modal closes whatever becomes of the save.
DeleteSaved ==
  /\ ~quit /\ mode.kind = "delete"
  /\ SaveOk(Without(mode.gone))
  /\ screen' = Regrouped(screen, held', index')
  /\ mode' = Idle
  /\ UNCHANGED <<quit, others>>

DeleteFailed ==
  /\ ~quit /\ mode.kind = "delete"
  /\ SaveFails(Without(mode.gone))
  /\ mode' = Idle
  /\ UNCHANGED <<quit, others>>

-----------------------------------------------------------------------------
(* Another client saves *)

Elsewhere ==
  /\ puts + others < MaxWrites
  /\ others' = others + 1
  /\ \/ /\ \E c \in Foreigner :
             vault' = IF c.entry = NoEntry THEN [n \in DOMAIN vault \ {c.path} |-> vault[n]]
                      ELSE Over([n \in {c.path} |-> c.entry], vault)
        /\ UNCHANGED foreign
     \/ foreign' = TRUE /\ UNCHANGED vault
  /\ stale' = TRUE
  /\ UNCHANGED <<held, index, blocked, mode, screen, quit, puts>>

TerminalInit ==
  /\ vault \in Vaults /\ foreign = FALSE /\ stale = FALSE /\ puts = 0 /\ others = 0
  /\ held = << >> /\ index = Index(held) /\ blocked = FALSE /\ mode = Idle /\ screen = BlankScreen /\ quit = TRUE

TerminalNext ==
  \/ Start \/ Move \/ ClickRow \/ ToggleReveal \/ OpenSelected \/ BeginFilter \/ TypeFilter
  \/ CommitFilter \/ EscLayer \/ Quit
  \/ BeginAdd \/ BeginPick \/ Choose \/ BeginEdit \/ BeginDelete \/ Cancel \/ Type
  \/ CommitSaved \/ CommitFailed \/ DeleteSaved \/ DeleteFailed
  \/ Elsewhere

TerminalSpec == TerminalInit /\ [][TerminalNext]_tvars

-----------------------------------------------------------------------------
(* Properties *)

\* What is drawn is what the register holds: the rows are the credentials of its
\* entries under the open bundle and the filter, the selection is one of them,
\* the pane describes that one, an open bundle exists, and a letter is filter
\* text only when no modal is open.  (Every handler has to regroup and to sync
\* the pane by itself; a reload runs under an open form.)
ScreenIsRegister ==
  ~quit =>
    /\ index = Index(held)
    /\ screen.rows = RowsOf(index, screen.open, screen.filter)
    /\ screen.detail = DetailOf(Selected(screen), held)
    /\ screen.rows # << >> => screen.selected \in DOMAIN screen.rows
    /\ screen.open # NoText => IsBundle(index, screen.open)
    /\ screen.filtering => IsIdle

\* A reveal is for what was on screen when it was asked for: no step keeps the
\* pane unmasked and shows something else in it, whatever moved the selection or
\* changed the entry under it.
RevealStep == screen.reveal /\ screen'.reveal => screen'.detail = screen.detail
RevealIsOfOneRow == [][RevealStep]_tvars

\* A save changes the entries of the credential that was edited or deleted and
\* those the form names, and no other; and an edit that renames replaces no entry
\* that was not its own.  (A save rewrites the whole vault from the register,
\* after reloads under an open form.)
SavesWhatWasEdited ==
  LET mine   == IF HasForm THEN MembersOf(mode.editing) \union {mode.editing} ELSE {}
      named  == IF HasForm THEN {n \in Paths : mode.name \in {n, Parent[n]}} ELSE mode.gone
      same(n) == (n \in DOMAIN vault) = (n \in DOMAIN vault') /\ (n \in DOMAIN vault => vault'[n] = vault[n])
  IN  others' = others /\ vault' # vault =>
        /\ \A n \in Paths \ (mine \union named) : same(n)
        /\ HasForm => (mode.editing \notin {NoText, mode.name} =>
                         \A n \in DOMAIN vault \ mine : same(n))
OnlyWhatWasEdited == [][SavesWhatWasEdited]_tvars

\* A form closes on a save only when what was typed is in the vault: neither a
\* failed PUT nor the reload after it loses the text.
TypedIsIn(form, v) ==
  \A k \in DOMAIN Payload(form) :
    \/ form.name \in DOMAIN v /\ k \in DOMAIN v[form.name].fields /\ v[form.name].fields[k] = form.text[k]
    \/ \E n \in Child(form.name, k) : n \in DOMAIN v /\ v[n].fields = Single(form.text[k])
TypedStep ==
  HasForm /\ others' = others /\ ~quit' /\ mode' = Idle /\ <<vault, held, blocked>>' # <<vault, held, blocked>>
    => TypedIsIn(mode, vault')
TypedIsKept == [][TypedStep]_tvars

\* The register never saves over an entry it could not open: drop_refusal of the
\* last load refuses the save, and the check before the PUT sees a later one.
ForeignStep == foreign /\ ~foreign' => others' # others
ForeignEntriesStay == [][ForeignStep]_tvars

\* Saving an edit of a bundle that is stored as siblings, under its name, leaves
\* a bundle of the same provider.  The code writes every member with an empty
\* meta (model.rs:871-882), so a bundle that its meta named is nobody's from then on.
BundleStep ==
  HasForm /\ AsSiblings(mode) /\ mode.name = mode.editing /\ vault' # vault /\ mode' = Idle
    /\ Cardinality(DOMAIN Payload(mode)) > 1
  => mode.name \in DOMAIN index'.row /\ index'.row[mode.name].provider = mode.provider
EditKeepsProvider == [][BundleStep]_tvars

=============================================================================
