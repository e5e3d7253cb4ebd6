------------------------------ MODULE UpdateApply ------------------------------
(***************************************************************************)
(* `secd update` (src/src/update.rs): fetch a manifest, a binary and its   *)
(* signature, stage the binary beside the program, verify what was staged, *)
(* rename it over the program.  Several updaters may run; any of them may  *)
(* fail or be killed between two system calls; the power may go.           *)
(*                                                                         *)
(* A file is an inode with content, in memory and on disk; the two names   *)
(* (the program and secd.new) point to inodes, in memory and on disk.      *)
(* Content is a model value: a digest identifies it, and a signature is    *)
(* the content it is good for.  Names, redirects and TLS decide only where *)
(* bytes come from, and a fetch may return any.                            *)
(***************************************************************************)
EXTENDS Naturals, FiniteSets

CONSTANTS
  Updaters,
  Old,         \* the program when the behaviour begins
  Genuine,     \* content the release key signed
  Junk,        \* any other content a server may send
  Blank,       \* a file that was created or truncated and not written
  NoFile,
  MaxRuns      \* bound: updates begun

Served == Genuine \union {Junk}
Contents == Genuine \union {Old, Junk, Blank}

ASSUME UpdateAssumption ==
  /\ MaxRuns \in Nat
  /\ Junk \notin Genuine \union {Old} /\ Blank \notin Genuine \union {Old, Junk}
  /\ NoFile \notin Contents \union 0..MaxRuns

VARIABLES
  stage,       \* updater: how far it is
  release,     \* updater: digest of the manifest, bytes and signature it fetched
  fd,          \* updater: the inode it has open
  seen,        \* updater: the bytes it read back
  data,        \* inode -> content
  disk,        \* inode -> content that a power cut leaves
  name,        \* "dest" and "staging" -> inode or NoFile
  entry,       \* the same, that a power cut leaves
  runs,
  alone,       \* history: the updates that no other one has overlapped so far
  tainted,     \* history: overlapping updates may have left anything, and no
               \* update that ran alone has reported success since
  began,       \* history: updater -> content of the program when it began
  sure         \* history: what the program may be: what the last update that
               \* reported success installed, and what was renamed in since

uvars == <<stage, release, fd, seen, data, disk, name, entry, runs, alone, tainted, began, sure>>
files == <<data, disk, name, entry>>

Inodes == 0..MaxRuns
Content(n) == data[name[n]]
Resting == {"idle", "done", "failed", "killed"}
Stages == Resting \union {"fetched", "removed", "opened", "written", "synced", "read",
                          "verified", "flushed", "renamed"}
Applying(u) == stage[u] \notin Resting

Links == [dest : Inodes, staging : Inodes \union {NoFile}]
UpdateTypeOK ==
  /\ stage \in [Updaters -> Stages]
  /\ release \in [Updaters -> [digest : Contents, bytes : Contents, signed : Contents \union {NoFile}]]
  /\ fd \in [Updaters -> Inodes \union {NoFile}] /\ seen \in [Updaters -> Contents]
  /\ data \in [Inodes -> Contents] /\ disk \in [Inodes -> Contents]
  /\ name \in Links /\ entry \in Links
  /\ runs \in 0..MaxRuns /\ alone \subseteq Updaters /\ tainted \in BOOLEAN
  /\ began \in [Updaters -> Contents] /\ sure \subseteq Contents

Nothing == [digest |-> Blank, bytes |-> Blank, signed |-> NoFile]

UpdateInit ==
  /\ stage = [u \in Updaters |-> "idle"] /\ release = [u \in Updaters |-> Nothing]
  /\ fd = [u \in Updaters |-> NoFile] /\ seen = [u \in Updaters |-> Blank]
  /\ data = [i \in Inodes |-> IF i = 0 THEN Old ELSE Blank] /\ disk = data
  /\ name = [dest |-> 0, staging |-> NoFile] /\ entry = name
  /\ runs = 0 /\ alone = {} /\ tainted = FALSE
  /\ began = [u \in Updaters |-> Old] /\ sure = {Old}

To(u, s) == stage' = [stage EXCEPT ![u] = s]

\* The process is over, and with it what it had fetched, read and open.
Ended(u, s) ==
  /\ To(u, s)
  /\ release' = [release EXCEPT ![u] = Nothing]
  /\ fd' = [fd EXCEPT ![u] = NoFile] /\ seen' = [seen EXCEPT ![u] = Blank]
  /\ UNCHANGED <<runs, alone, began>>

-----------------------------------------------------------------------------
(* apply_from_url and apply, one system call at a time                       *)

\* A release that is installed is not fetched again; a fetch that fails has
\* done nothing.
Fetch(u) ==
  /\ ~Applying(u) /\ runs < MaxRuns
  /\ \E d \in Served \ {Content("dest")}, b \in Served, s \in Genuine \union {NoFile} :
       release' = [release EXCEPT ![u] = [digest |-> d, bytes |-> b, signed |-> s]]
  /\ To(u, "fetched")
  /\ runs' = runs + 1
  /\ alone' = IF \E v \in Updaters : Applying(v) THEN {} ELSE {u}
  /\ began' = [began EXCEPT ![u] = Content("dest")]
  /\ UNCHANGED <<fd, seen, files, tainted, sure>>

\* What an earlier run left behind.
RemoveStale(u) ==
  /\ stage[u] = "fetched"
  /\ name' = [name EXCEPT !.staging = NoFile]
  /\ To(u, "removed")
  /\ UNCHANGED <<release, fd, seen, data, disk, entry, runs, alone, tainted, began, sure>>

\* write_staging: create or truncate, write, sync.  Of the inodes nobody uses the
\* first is taken, for one is like another.
Unused == {i \in Inodes : /\ i \notin {name.dest, name.staging, entry.dest, entry.staging}
                          /\ \A u \in Updaters : fd[u] # i}
Opens(u, i) ==
  /\ fd' = [fd EXCEPT ![u] = i]
  /\ data' = [data EXCEPT ![i] = Blank]
Open(u) ==
  /\ stage[u] = "removed"
  /\ \/ /\ name.staging # NoFile
        /\ Opens(u, name.staging)
        /\ UNCHANGED <<name, disk>>
     \/ /\ name.staging = NoFile
        /\ \E i \in Unused :
             /\ \A j \in Unused : i <= j
             /\ Opens(u, i)
             /\ name' = [name EXCEPT !.staging = i]
             /\ disk' = [disk EXCEPT ![i] = Blank]
  /\ To(u, "opened")
  /\ UNCHANGED <<release, seen, entry, runs, alone, tainted, began, sure>>

Write(u) ==
  /\ stage[u] = "opened"
  /\ data' = [data EXCEPT ![fd[u]] = release[u].bytes]
  /\ To(u, "written")
  /\ UNCHANGED <<release, fd, seen, disk, name, entry, runs, alone, tainted, began, sure>>

Sync(u) ==
  /\ stage[u] = "written"
  /\ disk' = [disk EXCEPT ![fd[u]] = data[fd[u]]]
  /\ fd' = [fd EXCEPT ![u] = NoFile]
  /\ To(u, "synced")
  /\ UNCHANGED <<release, seen, data, name, entry, runs, alone, tainted, began, sure>>

ReadBack(u) ==
  /\ stage[u] = "synced" /\ name.staging # NoFile
  /\ seen' = [seen EXCEPT ![u] = Content("staging")]
  /\ To(u, "read")
  /\ UNCHANGED <<release, fd, files, runs, alone, tainted, began, sure>>

\* Faulty variant: the digest, which comes from where the binary comes from, is
\* taken for the signature.
DigestIsEnough(u) == seen[u] = release[u].digest

\* The digest of the manifest, then the signature, both over what was read back.
Good(u) == seen[u] = release[u].digest /\ seen[u] = release[u].signed

Verify(u) ==
  /\ stage[u] = "read" /\ Good(u)
  /\ To(u, "verified")
  /\ UNCHANGED <<release, fd, seen, files, runs, alone, tainted, began, sure>>

Flush(u) ==
  /\ stage[u] = "verified" /\ name.staging # NoFile
  /\ disk' = [disk EXCEPT ![name.staging] = data[name.staging]]
  /\ To(u, "flushed")
  /\ UNCHANGED <<release, fd, seen, data, name, entry, runs, alone, tainted, began, sure>>

Rename(u) ==
  /\ stage[u] = "flushed" /\ name.staging # NoFile
  /\ name' = [dest |-> name.staging, staging |-> NoFile]
  /\ sure' = sure \union {Content("staging")}
  /\ tainted' = (tainted \/ u \notin alone)
  /\ To(u, "renamed")
  /\ UNCHANGED <<release, fd, seen, data, disk, entry, runs, alone, began>>

\* Faulty variant: the directory is not flushed before success is reported.
NoFlushDir(u) ==
  /\ stage[u] = "renamed"
  /\ sure' = {seen[u]} /\ tainted' = (tainted /\ u \notin alone)
  /\ Ended(u, "done")
  /\ UNCHANGED files

FlushDir(u) ==
  /\ stage[u] = "renamed"
  /\ entry' = name
  /\ sure' = {seen[u]} /\ tainted' = (tainted /\ u \notin alone)
  /\ Ended(u, "done")
  /\ UNCHANGED <<data, disk, name>>

-----------------------------------------------------------------------------
(* Failures                                                                  *)

\* Faulty variant: what was staged stays when a later step fails.
NoGuard(u) ==
  /\ Applying(u)
  /\ Ended(u, "failed")
  /\ UNCHANGED <<files, tainted, sure>>

\* Any call fails, or verification does.  The guard removes the staging file;
\* after the rename it is forgotten.
Fail(u) ==
  /\ Applying(u)
  /\ Ended(u, "failed")
  /\ name' = IF stage[u] \in {"fetched", "renamed"} THEN name ELSE [name EXCEPT !.staging = NoFile]
  /\ UNCHANGED <<data, disk, entry, tainted, sure>>

\* The process is killed: no guard runs.
Kill(u) ==
  /\ Applying(u)
  /\ Ended(u, "killed")
  /\ UNCHANGED <<files, tainted, sure>>

\* What was not synced may be on disk or not, each name and inode by itself.
Named == {name.dest, name.staging, entry.dest, entry.staging} \ {NoFile}
PowerLoss ==
  /\ name' \in {[dest |-> d, staging |-> s] : d \in {name.dest, entry.dest},
                                              s \in {name.staging, entry.staging}}
  /\ \E lost \in SUBSET Named : data' = [i \in Inodes |-> IF i \in lost THEN disk[i] ELSE data[i]]
  /\ entry' = name' /\ disk' = data'
  /\ stage' = [u \in Updaters |-> IF Applying(u) THEN "killed" ELSE stage[u]]
  /\ release' = [u \in Updaters |-> Nothing]
  /\ fd' = [u \in Updaters |-> NoFile] /\ seen' = [u \in Updaters |-> Blank]
  /\ UNCHANGED <<runs, alone, tainted, began, sure>>

UpdateStep(u) ==
  \/ Fetch(u) \/ RemoveStale(u) \/ Open(u) \/ Write(u) \/ Sync(u) \/ ReadBack(u)
  \/ Verify(u) \/ Flush(u) \/ Rename(u) \/ FlushDir(u)
  \/ Fail(u) \/ Kill(u)

UpdateNext == (\E u \in Updaters : UpdateStep(u)) \/ PowerLoss

UpdateSpec == UpdateInit /\ [][UpdateNext]_uvars

-----------------------------------------------------------------------------
(* Properties *)

\* Whatever fails, and whenever the power goes, the program is the old one or
\* one the release key signed, whole.  Two updates that overlap can break that
\* (one truncates the file the other has verified), and the next one that runs
\* alone and reports success has put it right.
InstalledIsVerified == ~tainted => Content("dest") \in Genuine \union {Old}

\* A failure before the rename, verification included, leaves the program that the
\* update found, and nothing staged unless it failed before it staged anything (what a
\* killed run left then stays).  For an update that no other one overlapped.
FailClosedStep ==
  \A u \in alone :
    Applying(u) /\ stage[u] # "renamed" /\ stage'[u] = "failed" =>
      /\ Content("dest")' = began[u]
      /\ stage[u] = "fetched" \/ name'.staging = NoFile
FailsClosed == [][FailClosedStep]_uvars

\* "Fail closed: dest bytes unchanged, staging gone" (update.rs:4), for every failure
\* an update lives to report, the flush of the directory after the rename included.
UnchangedStep ==
  \A u \in alone :
    Applying(u) /\ stage'[u] = "failed" => Content("dest")' = began[u]
FailureLeavesProgram == [][UnchangedStep]_uvars

\* An update that reported success is still there after a power cut, whole, until
\* another one is renamed over it.
ReportedSurvives ==
  ~tainted => \A i \in {name.dest, entry.dest} : {data[i], disk[i]} \subseteq sure
=============================================================================
