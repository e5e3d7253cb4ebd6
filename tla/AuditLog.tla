------------------------------ MODULE AuditLog ------------------------------
(***************************************************************************)
(* crates/secd-web/src/audit.rs: the hash chain in table audit and         *)
(* audit.jsonl, the file every committed row is copied to after COMMIT,    *)
(* outside the database mutex. Requests run on several threads, a write to *)
(* the file may fail, and the process may die between the two.             *)
(***************************************************************************)
EXTENDS Integers, Sequences, FiniteSets

CONSTANTS
  Writers,        \* threads that run audited requests
  Events,         \* what a request records: action, session and names
  LegacyEvents,   \* events of a log older than the table, one line each
  NoHash,         \* the prev and hash a line of such a log lacks
  NoRow,          \* a thread with nothing left to journal
  Faults,         \* TRUE: journal writes may fail and the process may die
  PowerFails,     \* TRUE: the machine may lose power (synchronous=NORMAL)
  MaxRows         \* bound: rows appended to the chain, lines to the journal

ASSUME AuditConstants ==
  /\ MaxRows \in Nat
  /\ Faults \in BOOLEAN /\ PowerFails \in BOOLEAN
  /\ IsFiniteSet(LegacyEvents)
  /\ Events \cap LegacyEvents = {}
  /\ NoHash \notin Seq(Events \cup LegacyEvents)
  /\ NoRow \notin [ev : Events \cup LegacyEvents, prev : Seq(Events \cup LegacyEvents),
                   hash : Seq(Events \cup LegacyEvents)]

VARIABLES
  rows,       \* table audit in seq order
  journal,    \* audit.jsonl as lines, each a sequence of the objects on it;
              \* the last line is the one without a newline yet
  pending,    \* per thread: the row it committed and has not journaled
  half,       \* per thread: wrote its object, the newline is still to come
  phase,      \* "down", "importing" or "up"
  importedTo, \* lines of the journal import_jsonl has consumed
  past        \* history: "smooth" while there was no legacy log, no fault and no
              \* two threads journaled at once; "crowded" once two did; "rough"
              \* after a legacy log or a fault; "cut" after a loss of power

avars == <<rows, journal, pending, half, phase, importedTo, past>>

\* SHA-256 over the previous hash and the event: modelled as injective, so a
\* hash is the events it covers.
ZeroHash == <<>>
EventHash(prev, ev) == Append(prev, ev)

AllEvents == Events \cup LegacyEvents
Entry     == [ev : AllEvents, prev : Seq(AllEvents), hash : Seq(AllEvents)]
Legacy(e) == [ev |-> e, prev |-> NoHash, hash |-> NoHash]

HeadHash(rs) == IF rs = <<>> THEN ZeroHash ELSE rs[Len(rs)].hash
NewRow(rs, e) == [ev |-> e, prev |-> HeadHash(rs), hash |-> EventHash(HeadHash(rs), e)]

\* verify_rows: every row links to the one before it and hashes to its hash.
VerifyRows(rs) ==
  \A i \in DOMAIN rs :
    /\ rs[i].prev = IF i = 1 THEN ZeroHash ELSE rs[i - 1].hash
    /\ rs[i].hash = EventHash(rs[i].prev, rs[i].ev)

\* The lines that are not blank, in the order of the file.
Written(lines) ==
  LET full    == {i \in DOMAIN lines : lines[i] # <<>>}
      upTo(i) == {j \in full : j <= i}
  IN  [k \in 1..Cardinality(full) |-> lines[CHOOSE i \in full : Cardinality(upTo(i)) = k]]

\* verify_jsonl: one object on every line that is not blank, and they chain.
VerifyJsonl(lines) ==
  LET ls == Written(lines)
  IN /\ \A i \in DOMAIN ls : Len(ls[i]) = 1
     /\ VerifyRows([i \in DOMAIN ls |-> ls[i][1]])

Verify == VerifyRows(rows) /\ VerifyJsonl(journal)

Idle(w) == pending[w] = NoRow
Rougher == IF past = "cut" THEN "cut" ELSE "rough"
Crowded == IF past = "smooth" /\ \E w \in Writers : ~Idle(w) THEN "crowded" ELSE past
Untouched == past \in {"smooth", "crowded"}
Quiet == phase = "up" /\ \A w \in Writers : Idle(w)

\* A log from before the table: one line per event, no hashes.
LegacyLog(es) == [i \in DOMAIN es |-> <<Legacy(es[i])>>] \o << <<>> >>

AuditInit ==
  /\ rows = <<>>
  /\ \E es \in UNION {[1..k -> LegacyEvents] : k \in 0..Cardinality(LegacyEvents)} :
       /\ \A i, j \in DOMAIN es : es[i] = es[j] => i = j
       /\ journal = LegacyLog(es)
  /\ pending = [w \in Writers |-> NoRow]
  /\ half = [w \in Writers |-> FALSE]
  /\ phase = "down"
  /\ importedTo = 0
  /\ past = IF journal = LegacyLog(<<>>) THEN "smooth" ELSE "rough"

\* Faulty variant: a log that exists is imported whatever the table holds.
StartImportsAlways ==
  /\ phase = "down"
  /\ phase' = IF journal # << <<>> >> THEN "importing" ELSE "up"
  /\ importedTo' = 0
  /\ UNCHANGED <<rows, journal, pending, half, past>>

\* AuditLog::from_db: an empty table beside a log that exists means import.
Start ==
  /\ phase = "down"
  /\ phase' = IF rows = <<>> /\ journal # << <<>> >> THEN "importing" ELSE "up"
  /\ importedTo' = 0
  /\ UNCHANGED <<rows, journal, pending, half, past>>

NextLine == journal[importedTo + 1]

\* import_jsonl inserts line by line, each INSERT its own transaction, and
\* computes the hashes anew; a blank line is skipped.
ImportLine ==
  /\ phase = "importing" /\ importedTo < Len(journal)
  /\ \/ NextLine = <<>> /\ rows' = rows
     \/ Len(NextLine) = 1 /\ rows' = Append(rows, NewRow(rows, NextLine[1].ev))
  /\ importedTo' = importedTo + 1
  /\ UNCHANGED <<journal, pending, half, phase, past>>

\* At the end, or at a line that is not one object, the server goes on with
\* the rows it has.
ImportEnds ==
  /\ phase = "importing"
  /\ \/ importedTo = Len(journal)
     \/ importedTo < Len(journal) /\ Len(NextLine) > 1
  /\ phase' = "up"
  /\ UNCHANGED <<rows, journal, pending, half, importedTo, past>>

\* Bounds: a row more in the table, a line more in the file, and not a third
\* object on one line.
WithinBounds ==
  /\ Len(rows) < MaxRows /\ Len(journal) <= MaxRows
  /\ Len(journal[Len(journal)]) <= 1

\* Faulty variant: the row links to a head read before the transaction.
AppendStaleHead(w, e) ==
  /\ phase = "up" /\ Idle(w)
  /\ WithinBounds
  /\ \E k \in 0..Len(rows) :
       LET row == NewRow(SubSeq(rows, 1, k), e)
       IN rows' = Append(rows, row) /\ pending' = [pending EXCEPT ![w] = row]
  /\ past' = Crowded
  /\ UNCHANGED <<journal, half, phase, importedTo>>

\* Faulty variant: the event is journaled although its transaction may fail.
AppendOrFail(w, e) ==
  /\ phase = "up" /\ Idle(w)
  /\ WithinBounds
  /\ rows' \in {rows, Append(rows, NewRow(rows, e))}
  /\ pending' = [pending EXCEPT ![w] = NewRow(rows, e)]
  /\ past' = Crowded
  /\ UNCHANGED <<journal, half, phase, importedTo>>

\* append_on inside the request's transaction: the head is read and the row
\* inserted under one BEGIN IMMEDIATE.
AppendRow(w, e) ==
  /\ phase = "up" /\ Idle(w)
  /\ WithinBounds
  /\ rows' = Append(rows, NewRow(rows, e))
  /\ pending' = [pending EXCEPT ![w] = NewRow(rows, e)]
  /\ past' = Crowded
  /\ UNCHANGED <<journal, half, phase, importedTo>>

\* Faulty variant: the file is not opened for appending, and one object is written
\* over another that came in between.
JournalOverwrites(w) ==
  /\ phase = "up" /\ ~Idle(w) /\ ~half[w]
  /\ journal' = [journal EXCEPT ![Len(journal)] = <<pending[w]>>]
  /\ half' = [half EXCEPT ![w] = TRUE]
  /\ UNCHANGED <<rows, pending, phase, importedTo, past>>

\* journal(): writeln! issues one write for the object and one for the newline.
JournalObject(w) ==
  /\ phase = "up" /\ ~Idle(w) /\ ~half[w]
  /\ journal' = [journal EXCEPT ![Len(journal)] = Append(@, pending[w])]
  /\ half' = [half EXCEPT ![w] = TRUE]
  /\ UNCHANGED <<rows, pending, phase, importedTo, past>>

JournalNewline(w) ==
  /\ phase = "up" /\ half[w]
  /\ journal' = Append(journal, <<>>)
  /\ half' = [half EXCEPT ![w] = FALSE]
  /\ pending' = [pending EXCEPT ![w] = NoRow]
  /\ UNCHANGED <<rows, phase, importedTo, past>>

\* The file does not open or a write fails; the request succeeds regardless.
JournalMiss(w) ==
  /\ Faults /\ phase = "up" /\ ~Idle(w)
  /\ half' = [half EXCEPT ![w] = FALSE]
  /\ pending' = [pending EXCEPT ![w] = NoRow]
  /\ past' = Rougher
  /\ UNCHANGED <<rows, journal, phase, importedTo>>

Down ==
  /\ phase' = "down"
  /\ pending' = [w \in Writers |-> NoRow]
  /\ half' = [w \in Writers |-> FALSE]
  /\ importedTo' = 0

\* Faulty variant: the last commit was acknowledged before it reached the file.
CrashLosesCommit ==
  /\ Faults /\ phase # "down" /\ Down /\ past' = Rougher /\ UNCHANGED journal
  /\ rows' \in {rows, SubSeq(rows, 1, Len(rows) - 1)}

\* The process dies: committed rows stay, nobody journals the rest.
Crash ==
  /\ Faults /\ phase # "down" /\ Down
  /\ past' = Rougher
  /\ UNCHANGED <<rows, journal>>

\* The machine loses power: with journal_mode=WAL and synchronous=NORMAL the
\* last commits may be gone, the lines journal() fsynced are not.
PowerLoss ==
  /\ PowerFails /\ phase # "down" /\ Down
  /\ past' = "cut"
  /\ \E k \in 0..Len(rows) : rows' = SubSeq(rows, 1, k)
  /\ UNCHANGED journal

AuditNext ==
  \/ Start
  \/ ImportLine
  \/ ImportEnds
  \/ \E w \in Writers, e \in Events : AppendRow(w, e)
  \/ \E w \in Writers : JournalObject(w)
  \/ \E w \in Writers : JournalNewline(w)
  \/ \E w \in Writers : JournalMiss(w)
  \/ Crash
  \/ PowerLoss

AuditSpec == AuditInit /\ [][AuditNext]_avars

-----------------------------------------------------------------------------

Line == Seq(Entry \cup {Legacy(e) : e \in LegacyEvents})

AuditTypeOK ==
  /\ rows \in Seq(Entry)
  /\ journal \in Seq(Line) /\ journal # <<>>
  /\ pending \in [Writers -> Entry \cup {NoRow}]
  /\ half \in [Writers -> BOOLEAN]
  /\ phase \in {"down", "importing", "up"}
  /\ importedTo \in Nat
  /\ past \in {"smooth", "crowded", "rough", "cut"}

\* The table is one unbroken chain whatever runs concurrently, fails, is
\* imported or is lost: verify_rows never rejects it.
ChainVerifies == VerifyRows(rows)

\* "jsonl is a replica written after COMMIT": no line reports an event the
\* chain does not hold, so a request that failed is never in the log.
Committed(rs, row) == \E i \in DOMAIN rs : rs[i] = row
JournalIsCommitted ==
  past # "cut" =>
    \A l \in DOMAIN journal : \A j \in DOMAIN journal[l] :
      journal[l][j].hash # NoHash => Committed(rows, journal[l][j])

\* A log from before the table enters the chain at most once, over any number
\* of crashes and restarts ("would append the whole log twice").
ImportedOnce ==
  \A i, j \in DOMAIN rows : rows[i].ev = rows[j].ev /\ rows[i].ev \in LegacyEvents => i = j

\* Where in a file there is an object, and where there is that of a row: line and
\* place on the line.
Objects(lines) == UNION {{l} \X DOMAIN lines[l] : l \in DOMAIN lines}
Places(lines, row) == {p \in Objects(lines) : lines[p[1]][p[2]] = row}

\* "jsonl is a replica written after COMMIT": when no request is under way and
\* nothing has failed, every row is in the file exactly once, however the writes of
\* the requests overlapped.  When they came one at a time, the file is the chain
\* line by line, and verify() says so.
FileIsReplica ==
  Quiet /\ Untouched =>
    /\ \A i \in DOMAIN rows : \E p \in Objects(journal) : Places(journal, rows[i]) = {p}
    /\ past = "smooth" =>
         Verify /\ Written(journal) = [i \in DOMAIN rows |-> <<rows[i]>>]

\* "chain must verify before tamper" (tests/vault_crypto.rs:827): with nothing under
\* way, failed, imported or changed by hand, verify() accepts.
VerifiesUntilTampered == Quiet /\ Untouched => Verify

RowsPersist ==
  past' # "cut" =>
    Len(rows) <= Len(rows') /\ \A i \in DOMAIN rows : rows'[i] = rows[i]

\* Short of a power cut no committed row changes or disappears.
ChainOnlyGrows == [][RowsPersist]_avars
=============================================================================
