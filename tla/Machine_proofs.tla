---------------------------- MODULE Machine_proofs ----------------------------
(***************************************************************************)
(* The programs of one machine, for any number of them and of what they    *)
(* do: that `secd update` installs verified programs only and keeps what   *)
(* it reported; that the key store loads what was stored last, as one slot *)
(* would, whatever the kernel permits; and that the terminal interface     *)
(* draws what it holds and saves what was typed, and no more.              *)
(***************************************************************************)
EXTENDS Terminal, UpdateApply, KeyStore, FiniteSetTheorems, WellFoundedInduction, TLAPS

(***************************************************************************)
(* The update                                                              *)
(***************************************************************************)

USE DEF Inodes

(* Types *)

LEMMA UpdateInitTyped == UpdateInit => UpdateTypeOK
<1> SUFFICES ASSUME UpdateInit PROVE UpdateTypeOK
  OBVIOUS
<1> USE DEF UpdateInit
<1>1. 0 \in Inodes
  BY UpdateAssumption
<1>2. data \in [Inodes -> Contents] /\ disk \in [Inodes -> Contents]
  BY DEF Contents
<1>3. name \in Links /\ entry \in Links
  BY <1>1 DEF Links
<1> QED
  BY <1>1, <1>2, <1>3 DEF UpdateTypeOK, Stages, Resting, Contents, Nothing

LEMMA UpdateStepTyped == UpdateTypeOK /\ [UpdateNext]_uvars => UpdateTypeOK'
<1> SUFFICES ASSUME UpdateTypeOK, [UpdateNext]_uvars PROVE UpdateTypeOK'
  OBVIOUS
<1> USE UpdateAssumption DEF UpdateTypeOK, Links, Stages, Resting, Contents, Nothing, files
<1>1. ASSUME NEW u \in Updaters, Fetch(u) PROVE UpdateTypeOK'
  BY <1>1 DEF Fetch, To, Served, Content, Applying
<1>2. ASSUME NEW u \in Updaters, RemoveStale(u) PROVE UpdateTypeOK'
  BY <1>2 DEF RemoveStale, To
<1>3. ASSUME NEW u \in Updaters, Open(u) PROVE UpdateTypeOK'
  <2>1. PICK i \in Inodes : Opens(u, i) /\ (name' = name \/ name' = [name EXCEPT !.staging = i])
                          /\ (disk' = disk \/ disk' = [disk EXCEPT ![i] = Blank])
    BY <1>3 DEF Open, Unused
  <2>2. name' \in Links
    <3>1. CASE name' = name
      BY <3>1
    <3>2. CASE name' = [name EXCEPT !.staging = i]
      BY <3>2 DEF Links
    <3> QED
      BY <2>1, <3>1, <3>2
  <2>3. stage' \in [Updaters -> Stages]
    BY <1>3 DEF Open, To
  <2>4. fd' \in [Updaters -> Inodes \union {NoFile}] /\ data' \in [Inodes -> Contents]
    BY <2>1 DEF Opens
  <2>5. disk' \in [Inodes -> Contents]
    <3>1. CASE disk' = disk
      BY <3>1
    <3>2. CASE disk' = [disk EXCEPT ![i] = Blank]
      BY <3>2
    <3> QED
      BY <2>1, <3>1, <3>2
  <2>6. UNCHANGED <<release, seen, entry, runs, alone, tainted, began, sure>>
    BY <1>3 DEF Open
  <2> QED
    BY <2>2, <2>3, <2>4, <2>5, <2>6
<1>4. ASSUME NEW u \in Updaters, Write(u) PROVE UpdateTypeOK'
  BY <1>4 DEF Write, To
<1>5. ASSUME NEW u \in Updaters, Sync(u) PROVE UpdateTypeOK'
  BY <1>5 DEF Sync, To
<1>6. ASSUME NEW u \in Updaters, ReadBack(u) PROVE UpdateTypeOK'
  BY <1>6 DEF ReadBack, To, Content
<1>7. ASSUME NEW u \in Updaters, Verify(u) PROVE UpdateTypeOK'
  BY <1>7 DEF Verify, To
<1>8. ASSUME NEW u \in Updaters, Flush(u) PROVE UpdateTypeOK'
  BY <1>8 DEF Flush, To
<1>9. ASSUME NEW u \in Updaters, Rename(u) PROVE UpdateTypeOK'
  BY <1>9 DEF Rename, To, Content
<1>10. ASSUME NEW u \in Updaters, FlushDir(u) PROVE UpdateTypeOK'
  BY <1>10 DEF FlushDir, To, Ended
<1>11. ASSUME NEW u \in Updaters, Fail(u) PROVE UpdateTypeOK'
  BY <1>11 DEF Fail, To, Ended
<1>12. ASSUME NEW u \in Updaters, Kill(u) PROVE UpdateTypeOK'
  BY <1>12 DEF Kill, To, Ended
<1>13. CASE PowerLoss
  BY <1>13 DEF PowerLoss
<1>14. CASE UNCHANGED uvars
  BY <1>14 DEF uvars
<1> QED
  BY <1>1, <1>2, <1>3, <1>4, <1>5, <1>6, <1>7, <1>8, <1>9, <1>10, <1>11, <1>12, <1>13, <1>14
  DEF UpdateNext, UpdateStep

(***************************************************************************)
(* What makes an update safe                                               *)
(***************************************************************************)

\* An update that nothing has overlapped is the only one.
OneUpdate == \A u \in alone : Applying(u) => \A v \in Updaters \ {u} : ~Applying(v)

\* A file is open from its creation to its sync.
OpenFiles == \A u \in Updaters : fd[u] # NoFile <=> stage[u] \in {"opened", "written"}

\* What was verified is signed.
Signed == \A u \in Updaters :
  /\ release[u].signed \in Genuine \union {NoFile}
  /\ stage[u] \in {"verified", "flushed", "renamed"} => seen[u] \in Genuine

\* An update on its own works on its file and on no other.
Own(u) ==
  /\ stage[u] = "removed" => name.staging = NoFile
  /\ stage[u] \in {"opened", "written", "synced", "read", "verified", "flushed"} =>
       name.staging \notin {NoFile, name.dest, entry.dest, entry.staging}
  /\ stage[u] \in {"opened", "written"} => fd[u] = name.staging
  /\ stage[u] \in {"synced", "read", "verified", "flushed"} => disk[name.staging] = data[name.staging]
  /\ stage[u] \in {"read", "verified", "flushed"} => seen[u] = data[name.staging]
  /\ stage[u] = "renamed" =>
       name.staging = NoFile /\ data[name.dest] = seen[u] /\ disk[name.dest] = seen[u]
  /\ Applying(u) /\ stage[u] # "renamed" => data[name.dest] = began[u]
AloneOwns == \A u \in alone : Own(u)

\* Unless overlapping updates have been at it, the program is what it may be, on
\* disk and in memory, before and after a power cut, and nobody has it open or
\* staged.
Clean ==
  /\ sure \subseteq Genuine \union {Old}
  /\ \A i \in {name.dest, entry.dest} : data[i] \in sure /\ disk[i] \in sure
  /\ \A u \in Updaters : fd[u] \notin {name.dest, entry.dest}
  /\ name.staging \notin {name.dest, entry.dest} /\ entry.staging \notin {name.dest, entry.dest}
  /\ \A u \in Updaters : stage[u] = "renamed" =>
       data[name.dest] = seen[u] /\ disk[name.dest] = seen[u]

UpdateInv ==
  /\ UpdateTypeOK /\ OneUpdate /\ OpenFiles /\ Signed /\ AloneOwns
  /\ ~tainted => Clean

LEMMA UpdateInitSafe == UpdateInit => UpdateInv
<1> SUFFICES ASSUME UpdateInit PROVE UpdateInv
  OBVIOUS
<1>1. UpdateTypeOK
  BY UpdateInitTyped
<1>2. 0 \in Inodes /\ NoFile # 0
  BY UpdateAssumption
<1>3. OneUpdate /\ OpenFiles /\ Signed /\ AloneOwns
  BY DEF UpdateInit, OneUpdate, OpenFiles, Signed, AloneOwns, Nothing
<1>5. Clean
  BY <1>2 DEF UpdateInit, Clean
<1> QED
  BY <1>1, <1>3, <1>5 DEF UpdateInv

\* Conjunct by conjunct for each action.  Rename is the one that needs an argument:
\* what it puts in place must be what was verified, and nobody may have it open.
LEMMA UpdateStepSafe == UpdateInv /\ [UpdateNext]_uvars => UpdateInv'
<1> SUFFICES ASSUME UpdateInv, [UpdateNext]_uvars PROVE UpdateInv'
  OBVIOUS
<1>0. UpdateTypeOK /\ UpdateTypeOK'
  BY UpdateStepTyped DEF UpdateInv
<1>00. NoFile \notin Inodes /\ NoFile \notin Contents
  BY UpdateAssumption
<1> USE <1>0, <1>00
<1>1. ASSUME NEW u \in Updaters, Fetch(u) PROVE UpdateInv'
  <2> USE DEF Fetch, Served, To, Content, files
  <2>1. OneUpdate'
    BY <1>1 DEF UpdateInv, UpdateTypeOK, OneUpdate, Applying, Resting
  <2>2. OpenFiles'
    BY <1>1 DEF UpdateInv, UpdateTypeOK, Links, OpenFiles, Applying, Resting
  <2>3. Signed'
    BY <1>1 DEF UpdateInv, UpdateTypeOK, Signed, Nothing, Applying, Resting
  <2>4. AloneOwns'
    BY <1>1 DEF UpdateInv, UpdateTypeOK, Links, AloneOwns, Own, OneUpdate, OpenFiles, Applying, Resting
  <2>5. ~tainted' => Clean'
    BY <1>1 DEF UpdateInv, UpdateTypeOK, Links, Clean, Signed, AloneOwns, Own, OneUpdate, OpenFiles, Applying, Resting
  <2> QED
    BY <2>1, <2>2, <2>3, <2>4, <2>5 DEF UpdateInv
<1>2. ASSUME NEW u \in Updaters, RemoveStale(u) PROVE UpdateInv'
  <2> USE DEF RemoveStale, To, Content, files
  <2>1. OneUpdate'
    BY <1>2 DEF UpdateInv, UpdateTypeOK, OneUpdate, Applying, Resting
  <2>2. OpenFiles'
    BY <1>2 DEF UpdateInv, UpdateTypeOK, Links, OpenFiles, Applying, Resting
  <2>3. Signed'
    BY <1>2 DEF UpdateInv, UpdateTypeOK, Signed, Nothing, Applying, Resting
  <2>4. AloneOwns'
    BY <1>2 DEF UpdateInv, UpdateTypeOK, Links, AloneOwns, Own, OneUpdate, OpenFiles, Applying, Resting
  <2>5. ~tainted' => Clean'
    BY <1>2 DEF UpdateInv, UpdateTypeOK, Links, Clean, Signed, AloneOwns, Own, OneUpdate, OpenFiles, Applying, Resting
  <2> QED
    BY <2>1, <2>2, <2>3, <2>4, <2>5 DEF UpdateInv
<1>3. ASSUME NEW u \in Updaters, Open(u) PROVE UpdateInv'
  <2> USE DEF Open, Opens, Unused, To, Content, files
  <2>1. OneUpdate'
    BY <1>3 DEF UpdateInv, UpdateTypeOK, OneUpdate, Applying, Resting
  <2>2. OpenFiles'
    BY <1>3 DEF UpdateInv, UpdateTypeOK, Links, OpenFiles, Applying, Resting
  <2>3. Signed'
    BY <1>3 DEF UpdateInv, UpdateTypeOK, Signed, Nothing, Applying, Resting
  <2>4. AloneOwns'
    BY <1>3 DEF UpdateInv, UpdateTypeOK, Links, AloneOwns, Own, OneUpdate, OpenFiles, Applying, Resting
  <2>5. ~tainted' => Clean'
    BY <1>3 DEF UpdateInv, UpdateTypeOK, Links, Clean, Signed, AloneOwns, Own, OneUpdate, OpenFiles, Applying, Resting
  <2> QED
    BY <2>1, <2>2, <2>3, <2>4, <2>5 DEF UpdateInv
<1>4. ASSUME NEW u \in Updaters, Write(u) PROVE UpdateInv'
  <2> USE DEF Write, To, Content, files
  <2>1. OneUpdate'
    BY <1>4 DEF UpdateInv, UpdateTypeOK, OneUpdate, Applying, Resting
  <2>2. OpenFiles'
    BY <1>4 DEF UpdateInv, UpdateTypeOK, Links, OpenFiles, Applying, Resting
  <2>3. Signed'
    BY <1>4 DEF UpdateInv, UpdateTypeOK, Signed, Nothing, Applying, Resting
  <2>4. AloneOwns'
    BY <1>4 DEF UpdateInv, UpdateTypeOK, Links, AloneOwns, Own, OneUpdate, OpenFiles, Applying, Resting
  <2>5. ~tainted' => Clean'
    BY <1>4 DEF UpdateInv, UpdateTypeOK, Links, Clean, Signed, AloneOwns, Own, OneUpdate, OpenFiles, Applying, Resting
  <2> QED
    BY <2>1, <2>2, <2>3, <2>4, <2>5 DEF UpdateInv
<1>5. ASSUME NEW u \in Updaters, Sync(u) PROVE UpdateInv'
  <2> USE DEF Sync, To, Content, files
  <2>1. OneUpdate'
    BY <1>5 DEF UpdateInv, UpdateTypeOK, OneUpdate, Applying, Resting
  <2>2. OpenFiles'
    BY <1>5 DEF UpdateInv, UpdateTypeOK, Links, OpenFiles, Applying, Resting
  <2>3. Signed'
    BY <1>5 DEF UpdateInv, UpdateTypeOK, Signed, Nothing, Applying, Resting
  <2>4. AloneOwns'
    BY <1>5 DEF UpdateInv, UpdateTypeOK, Links, AloneOwns, Own, OneUpdate, OpenFiles, Applying, Resting
  <2>5. ~tainted' => Clean'
    BY <1>5 DEF UpdateInv, UpdateTypeOK, Links, Clean, Signed, AloneOwns, Own, OneUpdate, OpenFiles, Applying, Resting
  <2> QED
    BY <2>1, <2>2, <2>3, <2>4, <2>5 DEF UpdateInv
<1>6. ASSUME NEW u \in Updaters, ReadBack(u) PROVE UpdateInv'
  <2> USE DEF ReadBack, To, Content, files
  <2>1. OneUpdate'
    BY <1>6 DEF UpdateInv, UpdateTypeOK, OneUpdate, Applying, Resting
  <2>2. OpenFiles'
    BY <1>6 DEF UpdateInv, UpdateTypeOK, Links, OpenFiles, Applying, Resting
  <2>3. Signed'
    BY <1>6 DEF UpdateInv, UpdateTypeOK, Signed, Nothing, Applying, Resting
  <2>4. AloneOwns'
    BY <1>6 DEF UpdateInv, UpdateTypeOK, Links, AloneOwns, Own, OneUpdate, OpenFiles, Applying, Resting
  <2>5. ~tainted' => Clean'
    BY <1>6 DEF UpdateInv, UpdateTypeOK, Links, Clean, Signed, AloneOwns, Own, OneUpdate, OpenFiles, Applying, Resting
  <2> QED
    BY <2>1, <2>2, <2>3, <2>4, <2>5 DEF UpdateInv
<1>7. ASSUME NEW u \in Updaters, Verify(u) PROVE UpdateInv'
  <2> USE DEF Verify, Good, To, Content, files
  <2>1. OneUpdate'
    BY <1>7 DEF UpdateInv, UpdateTypeOK, OneUpdate, Applying, Resting
  <2>2. OpenFiles'
    BY <1>7 DEF UpdateInv, UpdateTypeOK, Links, OpenFiles, Applying, Resting
  <2>3. Signed'
    BY <1>7 DEF UpdateInv, UpdateTypeOK, Signed, Nothing, Applying, Resting
  <2>4. AloneOwns'
    BY <1>7 DEF UpdateInv, UpdateTypeOK, Links, AloneOwns, Own, OneUpdate, OpenFiles, Applying, Resting
  <2>5. ~tainted' => Clean'
    BY <1>7 DEF UpdateInv, UpdateTypeOK, Links, Clean, Signed, AloneOwns, Own, OneUpdate, OpenFiles, Applying, Resting
  <2> QED
    BY <2>1, <2>2, <2>3, <2>4, <2>5 DEF UpdateInv
<1>8. ASSUME NEW u \in Updaters, Flush(u) PROVE UpdateInv'
  <2> USE DEF Flush, To, Content, files
  <2>1. OneUpdate'
    BY <1>8 DEF UpdateInv, UpdateTypeOK, OneUpdate, Applying, Resting
  <2>2. OpenFiles'
    BY <1>8 DEF UpdateInv, UpdateTypeOK, Links, OpenFiles, Applying, Resting
  <2>3. Signed'
    BY <1>8 DEF UpdateInv, UpdateTypeOK, Signed, Nothing, Applying, Resting
  <2>4. AloneOwns'
    BY <1>8 DEF UpdateInv, UpdateTypeOK, Links, AloneOwns, Own, OneUpdate, OpenFiles, Applying, Resting
  <2>5. ~tainted' => Clean'
    BY <1>8 DEF UpdateInv, UpdateTypeOK, Links, Clean, Signed, AloneOwns, Own, OneUpdate, OpenFiles, Applying, Resting
  <2> QED
    BY <2>1, <2>2, <2>3, <2>4, <2>5 DEF UpdateInv
<1>9. ASSUME NEW u \in Updaters, Rename(u) PROVE UpdateInv'
  <2> USE DEF Rename, To, Content, files
  <2>1. OneUpdate'
    BY <1>9 DEF UpdateInv, UpdateTypeOK, OneUpdate, Applying, Resting
  <2>2. OpenFiles'
    BY <1>9 DEF UpdateInv, UpdateTypeOK, Links, OpenFiles, Applying, Resting
  <2>3. Signed'
    BY <1>9 DEF UpdateInv, UpdateTypeOK, Signed, Nothing, Applying, Resting
  <2>4. AloneOwns'
    BY <1>9 DEF UpdateInv, UpdateTypeOK, Links, AloneOwns, Own, OneUpdate, OpenFiles, Applying, Resting
  <2>5. ~tainted' => Clean'
    <3> SUFFICES ASSUME ~tainted' PROVE Clean'
      OBVIOUS
    <3>1. Clean /\ Own(u) /\ u \in alone /\ seen[u] \in Genuine
      BY <1>9 DEF UpdateInv, AloneOwns, Signed
    <3>2. \A v \in Updaters \ {u} : stage[v] \in Resting
      BY <1>9, <3>1 DEF UpdateInv, OneUpdate, Applying, Resting
    <3>3. \A v \in Updaters : fd[v] = NoFile /\ (stage'[v] = "renamed" => v = u)
      BY <1>9, <3>2 DEF UpdateInv, UpdateTypeOK, OpenFiles, Resting
    <3>4. name.staging \in Inodes /\ data[name.staging] = seen[u] /\ disk[name.staging] = seen[u]
      BY <1>9, <3>1 DEF UpdateTypeOK, Links, Own
    <3>5. name'.dest = name.staging /\ name'.staging = NoFile /\ sure' = sure \union {seen[u]}
      BY <1>9, <3>4
    <3>6. entry' = entry /\ data' = data /\ disk' = disk /\ fd' = fd /\ seen' = seen
      BY <1>9
    <3>7. entry.staging # name.staging /\ entry.dest \in Inodes
      BY <1>9, <3>1 DEF Own, UpdateTypeOK, Links
    <3> QED
      BY <3>1, <3>3, <3>4, <3>5, <3>6, <3>7 DEF Clean
  <2> QED
    BY <2>1, <2>2, <2>3, <2>4, <2>5 DEF UpdateInv
<1>10. ASSUME NEW u \in Updaters, FlushDir(u) PROVE UpdateInv'
  <2> USE DEF FlushDir, Ended, To, Content, files
  <2>1. OneUpdate'
    BY <1>10 DEF UpdateInv, UpdateTypeOK, OneUpdate, Applying, Resting
  <2>2. OpenFiles'
    BY <1>10 DEF UpdateInv, UpdateTypeOK, Links, OpenFiles, Applying, Resting
  <2>3. Signed'
    BY <1>10 DEF UpdateInv, UpdateTypeOK, Signed, Nothing, Applying, Resting
  <2>4. AloneOwns'
    BY <1>10 DEF UpdateInv, UpdateTypeOK, Links, AloneOwns, Own, OneUpdate, OpenFiles, Applying, Resting
  <2>5. ~tainted' => Clean'
    BY <1>10 DEF UpdateInv, UpdateTypeOK, Links, Clean, Signed, AloneOwns, Own, OneUpdate, OpenFiles, Applying, Resting
  <2> QED
    BY <2>1, <2>2, <2>3, <2>4, <2>5 DEF UpdateInv
<1>11. ASSUME NEW u \in Updaters, Fail(u) PROVE UpdateInv'
  <2> USE DEF Fail, Ended, To, Content, files
  <2>1. OneUpdate'
    BY <1>11 DEF UpdateInv, UpdateTypeOK, OneUpdate, Applying, Resting
  <2>2. OpenFiles'
    BY <1>11 DEF UpdateInv, UpdateTypeOK, Links, OpenFiles, Applying, Resting
  <2>3. Signed'
    BY <1>11 DEF UpdateInv, UpdateTypeOK, Signed, Nothing, Applying, Resting
  <2>4. AloneOwns'
    BY <1>11 DEF UpdateInv, UpdateTypeOK, Links, AloneOwns, Own, OneUpdate, OpenFiles, Applying, Resting
  <2>5. ~tainted' => Clean'
    BY <1>11 DEF UpdateInv, UpdateTypeOK, Links, Clean, Signed, AloneOwns, Own, OneUpdate, OpenFiles, Applying, Resting
  <2> QED
    BY <2>1, <2>2, <2>3, <2>4, <2>5 DEF UpdateInv
<1>12. ASSUME NEW u \in Updaters, Kill(u) PROVE UpdateInv'
  <2> USE DEF Kill, Ended, To, Content, files
  <2>1. OneUpdate'
    BY <1>12 DEF UpdateInv, UpdateTypeOK, OneUpdate, Applying, Resting
  <2>2. OpenFiles'
    BY <1>12 DEF UpdateInv, UpdateTypeOK, Links, OpenFiles, Applying, Resting
  <2>3. Signed'
    BY <1>12 DEF UpdateInv, UpdateTypeOK, Signed, Nothing, Applying, Resting
  <2>4. AloneOwns'
    BY <1>12 DEF UpdateInv, UpdateTypeOK, Links, AloneOwns, Own, OneUpdate, OpenFiles, Applying, Resting
  <2>5. ~tainted' => Clean'
    BY <1>12 DEF UpdateInv, UpdateTypeOK, Links, Clean, Signed, AloneOwns, Own, OneUpdate, OpenFiles, Applying, Resting
  <2> QED
    BY <2>1, <2>2, <2>3, <2>4, <2>5 DEF UpdateInv
<1>13. CASE PowerLoss
  <2> USE DEF PowerLoss
  <2>1. OneUpdate' /\ OpenFiles'
    BY <1>13 DEF UpdateInv, UpdateTypeOK, OneUpdate, OpenFiles, Applying, Resting
  <2>2. Signed' /\ AloneOwns'
    BY <1>13 DEF UpdateInv, UpdateTypeOK, Signed, AloneOwns, Own, Nothing, Applying, Resting
  <2>3. ~tainted' => Clean'
    BY <1>13 DEF UpdateInv, UpdateTypeOK, Links, Clean, Applying, Resting
  <2> QED
    BY <2>1, <2>2, <2>3 DEF UpdateInv
<1>14. CASE UNCHANGED uvars
  BY <1>14 DEF uvars, UpdateInv, UpdateTypeOK, OneUpdate, OpenFiles, Signed, AloneOwns, Own, Clean, Applying
<1> QED
  BY <1>1, <1>2, <1>3, <1>4, <1>5, <1>6, <1>7, <1>8, <1>9, <1>10, <1>11, <1>12, <1>13, <1>14
  DEF UpdateNext, UpdateStep

\* No state has a file, an inode or a content that is none, and the stages are in
\* order.
THEOREM UpdateTypeCorrect == UpdateSpec => []UpdateTypeOK
BY UpdateInitTyped, UpdateStepTyped, PTL DEF UpdateSpec

THEOREM UpdateSafe == UpdateSpec => []UpdateInv
BY UpdateInitSafe, UpdateStepSafe, PTL DEF UpdateSpec

\* Whatever fails and whenever the power goes, the program is the old one or one
\* the release key signed (unless updates overlapped since the last good one).
THEOREM OnlyVerifiedIsInstalled == UpdateSpec => []InstalledIsVerified
<1>1. UpdateInv => InstalledIsVerified
  BY DEF UpdateInv, Clean, InstalledIsVerified, Content
<1> QED
  BY <1>1, UpdateSafe, PTL

\* An update that reported success survives a power cut.
THEOREM ReportsAreDurable == UpdateSpec => []ReportedSurvives
<1>1. UpdateInv => ReportedSurvives
  BY DEF UpdateInv, Clean, ReportedSurvives
<1> QED
  BY <1>1, UpdateSafe, PTL

\* An update that fails before its rename, and that no other one overlapped, leaves the
\* program it found; nothing is staged, unless it failed before it staged anything.
THEOREM UpdatesFailClosed == UpdateSpec => FailsClosed
<1>1. UpdateInv /\ [UpdateNext]_uvars => [FailClosedStep]_uvars
  <2> SUFFICES ASSUME UpdateInv, [UpdateNext]_uvars,
                      NEW u \in alone, u \in Updaters, Applying(u), stage[u] # "renamed",
                      stage'[u] = "failed"
               PROVE  /\ Content("dest")' = began[u]
                      /\ stage[u] = "fetched" \/ name'.staging = NoFile
    BY DEF FailClosedStep, UpdateInv, UpdateTypeOK
  <2>1. Own(u) /\ UpdateTypeOK /\ stage[u] # "failed"
    BY DEF UpdateInv, AloneOwns, Applying, Resting
  <2>2. Fail(u)
    BY <2>1 DEF UpdateTypeOK, UpdateNext, UpdateStep, uvars, To, Ended, Fetch, RemoveStale, Open,
                Write, Sync, ReadBack, Verify, Flush, Rename, FlushDir, Fail, Kill, PowerLoss
  <2>3. name'.dest = name.dest /\ data' = data
    BY <2>1, <2>2 DEF Fail, UpdateTypeOK, Links
  <2>4. Content("dest")' = data[name.dest]
    BY <2>3 DEF Content
  <2>5. stage[u] = "fetched" \/ name'.staging = NoFile
    BY <2>1, <2>2 DEF Fail, UpdateTypeOK, Links
  <2> QED
    BY <2>1, <2>4, <2>5 DEF Own
<1> QED
  BY <1>1, UpdateSafe, PTL DEF UpdateSpec, FailsClosed

HIDE DEF Inodes

(***************************************************************************)
(* The key store                                                           *)
(***************************************************************************)

(* Types *)

LEMMA StoreInitTyped == KeyStoreInit => KeyStoreTypeOK
<1> SUFFICES ASSUME KeyStoreInit PROVE KeyStoreTypeOK
  OBVIOUS
<1>1. 0 \in 0..MaxStores
  BY KeyStoreAssumption
<1> QED
  BY <1>1 DEF KeyStoreInit, KeyStoreTypeOK, At

LEMMA StoreStepTyped == KeyStoreTypeOK /\ [KeyStoreNext]_kvars => KeyStoreTypeOK'
<1> SUFFICES ASSUME KeyStoreTypeOK, [KeyStoreNext]_kvars PROVE KeyStoreTypeOK'
  OBVIOUS
<1> USE KeyStoreAssumption DEF KeyStoreTypeOK, Begun, At, Goes, rings
<1>0. ASSUME NEW p \in Programs, Succeeds(p)
      PROVE  /\ at' \in [Programs -> At] /\ want' \in [Programs -> Begun \union {NoKey}]
             /\ kept' \in [key : Begun \union {NoKey}, by : Programs, private : BOOLEAN] \union {None}
  <2>1. (own[p] = want[p]) \in BOOLEAN
    OBVIOUS
  <2>2. [key |-> want[p], by |-> p, private |-> own[p] = want[p]]
          \in [key : Begun \union {NoKey}, by : Programs, private : BOOLEAN]
    BY <2>1
  <2> QED
    BY <1>0, <2>2 DEF Succeeds
<1>1. ASSUME NEW p \in Programs, BeginStore(p) PROVE KeyStoreTypeOK'
  <2>1. stores' = stores + 1 /\ stores' \in 0..MaxStores /\ 1..stores \subseteq 1..stores'
    BY <1>1 DEF BeginStore
  <2>2. stores + 1 \in 1..stores'
    BY <2>1
  <2>3. rough' \in BOOLEAN
    BY <1>1 DEF BeginStore, Begin
  <2> QED
    BY <1>1, <2>1, <2>2, <2>3 DEF BeginStore, Begin
<1>2. ASSUME NEW p \in Programs, BeginForget(p) PROVE KeyStoreTypeOK'
  BY <1>2 DEF BeginForget, Begin
<1>3. ASSUME NEW p \in Programs, Forget(p) PROVE KeyStoreTypeOK'
  BY <1>3 DEF Forget, DropFound, Left
<1>4. ASSUME NEW p \in Programs, ForgetFile(p) PROVE KeyStoreTypeOK'
  BY <1>4 DEF ForgetFile
<1>5. ASSUME NEW p \in Programs, Deleted(p) PROVE KeyStoreTypeOK'
  BY <1>5 DEF Deleted, Left
<1>6. ASSUME NEW p \in Programs, Add(p) PROVE KeyStoreTypeOK'
  BY <1>6 DEF Add
<1>7. ASSUME NEW p \in Programs, Check(p) PROVE KeyStoreTypeOK'
  <2>1. CASE Succeeds(p)
    BY <1>0, <1>7, <2>1 DEF Check, Left
  <2>2. CASE ~Succeeds(p)
    BY <1>7, <2>2 DEF Check, Left, Working
  <2> QED
    BY <2>1, <2>2
<1>8. ASSUME NEW p \in Programs, Undo(p) PROVE KeyStoreTypeOK'
  BY <1>8 DEF Undo, DropFound, Left
<1>9. ASSUME NEW p \in Programs, ToFile(p) PROVE KeyStoreTypeOK'
  <2>1. CASE Succeeds(p)
    BY <1>0, <1>9, <2>1 DEF ToFile
  <2>2. CASE ~Succeeds(p)
    BY <1>9, <2>2 DEF ToFile
  <2> QED
    BY <2>1, <2>2
<1>10. ASSUME NEW p \in Programs, Load(p) PROVE KeyStoreTypeOK'
  BY <1>10 DEF Load, Left
<1>11. ASSUME NEW p \in Programs, End(p) PROVE KeyStoreTypeOK'
  BY <1>11 DEF End
<1>12. CASE EndLogin
  BY <1>12 DEF EndLogin
<1>13. CASE UNCHANGED kvars
  BY <1>13 DEF kvars
<1> QED
  BY <1>1, <1>2, <1>3, <1>4, <1>5, <1>6, <1>7, <1>8, <1>9, <1>10, <1>11, <1>12, <1>13
  DEF KeyStoreNext, KeyStoreStep

(***************************************************************************)
(* What makes a store durable and a delete complete                        *)
(***************************************************************************)

\* What a program started now could find, place by place.
InUser == IF may.findUser THEN user ELSE NoKey
InLogin == IF may.findLogin THEN login ELSE NoKey
InFile == IF may.file THEN file ELSE NoKey

\* A store or delete that nothing has overlapped is the only one.
OneStore == \A p \in calm : Working(p) => \A q \in Programs \ {p} : ~Working(q)

\* Until it adds a key, a program leaves the ring of the login session only when
\* it may not search it.
LeftForSearch == \A p \in Programs :
  own[p] # Shared /\ at[p] \in {"idle", "forget", "forgetFile", "forgotten", "add"} => ~may.findLogin

\* A delete is over where a store would begin to add.
DeletesOnly == \A p \in Programs :
  Working(p) /\ want[p] = NoKey => at[p] \in {"forget", "forgetFile", "forgotten"}

\* Unless stores have overlapped, at most one key is in sight, none while a store
\* looks for a place, and while it checks only its own.
OneInSight ==
  /\ InUser # NoKey => InLogin = NoKey /\ InFile = NoKey
  /\ InLogin # NoKey => InFile = NoKey
Step(p) ==
  /\ at[p] = "forgetFile" => InUser = NoKey /\ InLogin = NoKey
  /\ at[p] \in {"forgotten", "add", "undo", "toFile"} => Fresh = NoKey
  /\ at[p] = "check" => InFile = NoKey /\ (Fresh # NoKey => Found(p) = want[p] /\ Fresh = want[p])
Smooth ==
  /\ \A p, q \in Programs : p # q /\ Working(p) /\ Working(q) => want[p] = NoKey
  /\ OneInSight
  /\ \A p \in Programs : Step(p)

\* A store is remembered as long as nobody stores or deletes.
Remembered == kept # None =>
  /\ \A p \in Programs : ~Working(p)
  /\ kept.private => own[kept.by] = kept.key /\ kept.key # NoKey
EmptyStays == emptied => Fresh = NoKey /\ \A p \in Programs : Working(p) => want[p] = NoKey

KeyStoreInv ==
  /\ KeyStoreTypeOK /\ OneStore /\ LeftForSearch /\ DeletesOnly
  /\ ~rough => Smooth
  /\ Remembered /\ StoredIsLoaded /\ EmptyStays

LEMMA StoreInitSafe == KeyStoreInit => KeyStoreInv
<1> SUFFICES ASSUME KeyStoreInit PROVE KeyStoreInv
  OBVIOUS
<1>1. KeyStoreTypeOK
  BY StoreInitTyped
<1>2. OneStore /\ LeftForSearch /\ DeletesOnly /\ Remembered /\ StoredIsLoaded
  BY DEF KeyStoreInit, OneStore, LeftForSearch, DeletesOnly, Remembered, StoredIsLoaded, Working
<1>3. Fresh = NoKey /\ OneInSight
  BY DEF KeyStoreInit, Fresh, OneInSight, InUser, InLogin, InFile
<1>4. Smooth /\ EmptyStays
  BY <1>3 DEF KeyStoreInit, Smooth, Step, EmptyStays, Working
<1> QED
  BY <1>1, <1>2, <1>3, <1>4 DEF KeyStoreInv

LEMMA StoreStepSafe == KeyStoreInv /\ [KeyStoreNext]_kvars => KeyStoreInv'
<1> SUFFICES ASSUME KeyStoreInv, [KeyStoreNext]_kvars PROVE KeyStoreInv'
  OBVIOUS
<1>0. KeyStoreTypeOK /\ KeyStoreTypeOK'
  BY StoreStepTyped DEF KeyStoreInv
<1>00. NoKey \notin Begun /\ Shared \notin Begun /\ Shared # NoKey
  BY <1>0, KeyStoreAssumption DEF KeyStoreTypeOK, Begun, StoreKeys
<1> USE <1>0, <1>00 DEF Goes, rings, Working
<1>1. ASSUME NEW p \in Programs, BeginStore(p) PROVE KeyStoreInv'
  <2> USE <1>1 DEF BeginStore, Begin
  <2>1. OneStore'
    BY DEF KeyStoreInv, KeyStoreTypeOK, OneStore
  <2>2. LeftForSearch'
    BY DEF KeyStoreInv, KeyStoreTypeOK, LeftForSearch, Sees
  <2>3. DeletesOnly'
    BY DEF KeyStoreInv, KeyStoreTypeOK, DeletesOnly
  <2>4. ~rough' => Smooth'
    <3> SUFFICES ASSUME ~rough' PROVE Smooth'
      OBVIOUS
    <3>1. Smooth
      BY DEF KeyStoreInv, KeyStoreTypeOK
    <3>2. \A q \in Programs \ {p} : Working(q) => want[q] = NoKey /\ want'[p] = NoKey
      <4> SUFFICES ASSUME NEW q \in Programs \ {p}, Working(q) PROVE want[q] = NoKey /\ stores + 1 = NoKey
        BY DEF KeyStoreTypeOK
      <4>1. {stores + 1} \union {want[r] : r \in {r \in Programs : Working(r)}} = {NoKey}
        OBVIOUS
      <4> QED
        BY <4>1
    <3>3. \A q \in Programs \ {p} : at'[q] = at[q] /\ want'[q] = want[q]
      BY DEF KeyStoreTypeOK
    <3>4. at'[p] = "forget"
      BY DEF KeyStoreTypeOK
    <3>5. OneInSight' /\ Fresh' = Fresh /\ InUser' = InUser /\ InLogin' = InLogin /\ InFile' = InFile
      BY <3>1 DEF Smooth, OneInSight, InUser, InLogin, InFile, Fresh
    <3>6. \A q \in Programs : Found(q)' = Found(q)
      BY DEF Found, Sees, Ring
    <3>7. \A q \in Programs : Step(q)'
      BY <3>1, <3>3, <3>4, <3>5, <3>6 DEF Smooth, Step
    <3> QED
      BY <3>1, <3>2, <3>3, <3>4, <3>5, <3>7 DEF Smooth
  <2>5. Remembered' /\ StoredIsLoaded'
    BY DEF KeyStoreInv, KeyStoreTypeOK, Remembered, StoredIsLoaded, OneStore, Smooth, Step,
       OneInSight, InUser, InLogin, InFile, Fresh, Loaded, Found, Sees, Ring, None, DeletesOnly
  <2>6. EmptyStays'
    BY DEF KeyStoreInv, KeyStoreTypeOK, EmptyStays, OneStore, LeftForSearch, Fresh, Loaded,
       Found, Sees, Ring, DeletesOnly
  <2> QED
    BY <2>1, <2>2, <2>3, <2>4, <2>5, <2>6 DEF KeyStoreInv
<1>2. ASSUME NEW p \in Programs, BeginForget(p) PROVE KeyStoreInv'
  <2> USE <1>2 DEF BeginForget, Begin
  <2>1. OneStore'
    BY DEF KeyStoreInv, KeyStoreTypeOK, OneStore
  <2>2. LeftForSearch'
    BY DEF KeyStoreInv, KeyStoreTypeOK, LeftForSearch, Sees
  <2>3. DeletesOnly'
    BY DEF KeyStoreInv, KeyStoreTypeOK, DeletesOnly
  <2>4. ~rough' => Smooth'
    <3> SUFFICES ASSUME ~rough' PROVE Smooth'
      OBVIOUS
    <3>1. Smooth
      BY DEF KeyStoreInv, KeyStoreTypeOK
    <3>2. \A q \in Programs \ {p} : Working(q) => want[q] = NoKey /\ want'[p] = NoKey
      <4> SUFFICES ASSUME NEW q \in Programs \ {p}, Working(q) PROVE want[q] = NoKey
        BY DEF KeyStoreTypeOK
      <4>1. {NoKey} \union {want[r] : r \in {r \in Programs : Working(r)}} = {NoKey}
        OBVIOUS
      <4> QED
        BY <4>1
    <3>3. \A q \in Programs \ {p} : at'[q] = at[q] /\ want'[q] = want[q]
      BY DEF KeyStoreTypeOK
    <3>4. at'[p] = "forget"
      BY DEF KeyStoreTypeOK
    <3>5. OneInSight' /\ Fresh' = Fresh /\ InUser' = InUser /\ InLogin' = InLogin /\ InFile' = InFile
      BY <3>1 DEF Smooth, OneInSight, InUser, InLogin, InFile, Fresh
    <3>6. \A q \in Programs : Found(q)' = Found(q)
      BY DEF Found, Sees, Ring
    <3>7. \A q \in Programs : Step(q)'
      BY <3>1, <3>3, <3>4, <3>5, <3>6 DEF Smooth, Step
    <3> QED
      BY <3>1, <3>2, <3>3, <3>4, <3>5, <3>7 DEF Smooth
  <2>5. Remembered' /\ StoredIsLoaded'
    BY DEF KeyStoreInv, KeyStoreTypeOK, Remembered, StoredIsLoaded, OneStore, Smooth, Step,
       OneInSight, InUser, InLogin, InFile, Fresh, Loaded, Found, Sees, Ring, None, DeletesOnly
  <2>6. EmptyStays'
    BY DEF KeyStoreInv, KeyStoreTypeOK, EmptyStays, OneStore, LeftForSearch, Fresh, Loaded,
       Found, Sees, Ring, DeletesOnly
  <2> QED
    BY <2>1, <2>2, <2>3, <2>4, <2>5, <2>6 DEF KeyStoreInv
<1>3. ASSUME NEW p \in Programs, Forget(p) PROVE KeyStoreInv'
  <2> USE <1>3 DEF Forget, DropFound, Left
  <2>1. OneStore'
    BY DEF KeyStoreInv, KeyStoreTypeOK, OneStore
  <2>2. LeftForSearch'
    BY DEF KeyStoreInv, KeyStoreTypeOK, LeftForSearch, Sees
  <2>3. DeletesOnly'
    BY DEF KeyStoreInv, KeyStoreTypeOK, DeletesOnly
  <2>4. ~rough' => Smooth'
    BY DEF KeyStoreInv, KeyStoreTypeOK, Smooth, Step, OneInSight, InUser, InLogin, InFile, Fresh,
       Found, Sees, Ring, LeftForSearch, DeletesOnly
  <2>5. Remembered' /\ StoredIsLoaded'
    BY DEF KeyStoreInv, KeyStoreTypeOK, Remembered, StoredIsLoaded, OneStore, Smooth, Step,
       OneInSight, InUser, InLogin, InFile, Fresh, Loaded, Found, Sees, Ring, None, DeletesOnly
  <2>6. EmptyStays'
    BY DEF KeyStoreInv, KeyStoreTypeOK, EmptyStays, OneStore, LeftForSearch, Fresh, Loaded,
       Found, Sees, Ring, DeletesOnly
  <2> QED
    BY <2>1, <2>2, <2>3, <2>4, <2>5, <2>6 DEF KeyStoreInv
<1>4. ASSUME NEW p \in Programs, ForgetFile(p) PROVE KeyStoreInv'
  <2> USE <1>4 DEF ForgetFile
  <2>1. OneStore'
    BY DEF KeyStoreInv, KeyStoreTypeOK, OneStore
  <2>2. LeftForSearch'
    BY DEF KeyStoreInv, KeyStoreTypeOK, LeftForSearch, Sees
  <2>3. DeletesOnly'
    BY DEF KeyStoreInv, KeyStoreTypeOK, DeletesOnly
  <2>4. ~rough' => Smooth'
    BY DEF KeyStoreInv, KeyStoreTypeOK, Smooth, Step, OneInSight, InUser, InLogin, InFile, Fresh,
       Found, Sees, Ring, LeftForSearch, DeletesOnly
  <2>5. Remembered' /\ StoredIsLoaded'
    BY DEF KeyStoreInv, KeyStoreTypeOK, Remembered, StoredIsLoaded, OneStore, Smooth, Step,
       OneInSight, InUser, InLogin, InFile, Fresh, Loaded, Found, Sees, Ring, None, DeletesOnly
  <2>6. EmptyStays'
    BY DEF KeyStoreInv, KeyStoreTypeOK, EmptyStays, OneStore, LeftForSearch, Fresh, Loaded,
       Found, Sees, Ring, DeletesOnly
  <2> QED
    BY <2>1, <2>2, <2>3, <2>4, <2>5, <2>6 DEF KeyStoreInv
<1>5. ASSUME NEW p \in Programs, Deleted(p) PROVE KeyStoreInv'
  <2> USE <1>5 DEF Deleted, Left
  <2>1. OneStore'
    BY DEF KeyStoreInv, KeyStoreTypeOK, OneStore
  <2>2. LeftForSearch'
    BY DEF KeyStoreInv, KeyStoreTypeOK, LeftForSearch, Sees
  <2>3. DeletesOnly'
    BY DEF KeyStoreInv, KeyStoreTypeOK, DeletesOnly
  <2>4. ~rough' => Smooth'
    <3> SUFFICES ASSUME ~rough' PROVE Smooth'
      OBVIOUS
    <3>1. CASE ~rough
      BY <3>1 DEF KeyStoreInv, KeyStoreTypeOK, Smooth, Step, OneInSight, InUser, InLogin, InFile,
         Fresh, Found, Sees, Ring
    <3>2. CASE rough
      <4>1. want[p] = NoKey /\ Loaded(p) = NoKey /\ p \in calm
        BY <3>2
      <4>2. \A q \in Programs \ {p} : ~Working(q) /\ at'[q] = at[q]
        BY <4>1 DEF KeyStoreInv, KeyStoreTypeOK, OneStore
      <4>3. InUser = NoKey /\ InLogin = NoKey /\ InFile = NoKey
        BY <4>1 DEF KeyStoreInv, LeftForSearch, InUser, InLogin, InFile, Loaded, Found, Sees, Ring
      <4>4. InUser' = NoKey /\ InLogin' = NoKey /\ InFile' = NoKey
        BY <4>3 DEF InUser, InLogin, InFile
      <4>5. at'[p] = "over"
        BY <4>1 DEF KeyStoreTypeOK
      <4> QED
        BY <4>2, <4>4, <4>5 DEF Smooth, Step, OneInSight
    <3> QED
      BY <3>1, <3>2 DEF KeyStoreTypeOK
  <2>5. Remembered' /\ StoredIsLoaded'
    BY DEF KeyStoreInv, KeyStoreTypeOK, Remembered, StoredIsLoaded, OneStore, Smooth, Step,
       OneInSight, InUser, InLogin, InFile, Fresh, Loaded, Found, Sees, Ring, None, DeletesOnly
  <2>6. EmptyStays'
    BY DEF KeyStoreInv, KeyStoreTypeOK, EmptyStays, OneStore, LeftForSearch, Fresh, Loaded,
       Found, Sees, Ring, DeletesOnly
  <2> QED
    BY <2>1, <2>2, <2>3, <2>4, <2>5, <2>6 DEF KeyStoreInv
<1>6. ASSUME NEW p \in Programs, Add(p) PROVE KeyStoreInv'
  <2> USE <1>6 DEF Add
  <2>1. OneStore'
    BY DEF KeyStoreInv, KeyStoreTypeOK, OneStore
  <2>2. LeftForSearch'
    BY DEF KeyStoreInv, KeyStoreTypeOK, LeftForSearch, Sees
  <2>3. DeletesOnly'
    BY DEF KeyStoreInv, KeyStoreTypeOK, DeletesOnly
  <2>4. ~rough' => Smooth'
    BY DEF KeyStoreInv, KeyStoreTypeOK, Smooth, Step, OneInSight, InUser, InLogin, InFile, Fresh,
       Found, Sees, Ring, LeftForSearch, DeletesOnly
  <2>5. Remembered' /\ StoredIsLoaded'
    BY DEF KeyStoreInv, KeyStoreTypeOK, Remembered, StoredIsLoaded, OneStore, Smooth, Step,
       OneInSight, InUser, InLogin, InFile, Fresh, Loaded, Found, Sees, Ring, None, DeletesOnly
  <2>6. EmptyStays'
    BY DEF KeyStoreInv, KeyStoreTypeOK, EmptyStays, OneStore, LeftForSearch, Fresh, Loaded,
       Found, Sees, Ring, DeletesOnly
  <2> QED
    BY <2>1, <2>2, <2>3, <2>4, <2>5, <2>6 DEF KeyStoreInv
<1>7. ASSUME NEW p \in Programs, Check(p) PROVE KeyStoreInv'
  <2> USE <1>7 DEF Check, Succeeds, Left
  <2>1. OneStore'
    BY DEF KeyStoreInv, KeyStoreTypeOK, OneStore
  <2>2. LeftForSearch'
    BY DEF KeyStoreInv, KeyStoreTypeOK, LeftForSearch, Sees
  <2>3. DeletesOnly'
    BY DEF KeyStoreInv, KeyStoreTypeOK, DeletesOnly
  <2>4. ~rough' => Smooth'
    <3> SUFFICES ASSUME ~rough' PROVE Smooth'
      OBVIOUS
    <3>1. Smooth
      BY DEF KeyStoreInv
    <3>2. InUser' = InUser /\ InLogin' = InLogin /\ InFile' = InFile /\ Fresh' = Fresh
      BY DEF InUser, InLogin, InFile, Fresh
    <3>3. at' = [at EXCEPT ![p] = "over"] \/ (at' = [at EXCEPT ![p] = "undo"] /\ Fresh = NoKey)
      BY <3>1 DEF Smooth, Step, Loaded
    <3>4. \A q \in Programs \ {p} : at'[q] = at[q] /\ want'[q] = want[q]
      BY DEF KeyStoreTypeOK
    <3>5. \A q \in Programs \ {p} : at[q] # "check" /\ (Working(q) => want[p] = NoKey)
      BY <3>1 DEF Smooth, KeyStoreInv, DeletesOnly
    <3>6. \A q \in Programs : Step(q)'
      BY <3>1, <3>2, <3>3, <3>4, <3>5 DEF Smooth, Step, KeyStoreTypeOK
    <3>7. want[p] = NoKey => want'[p] = NoKey
      BY DEF KeyStoreTypeOK
    <3> QED
      BY <3>1, <3>2, <3>3, <3>4, <3>5, <3>6, <3>7 DEF Smooth, OneInSight, KeyStoreTypeOK
  <2>5. Remembered' /\ StoredIsLoaded'
    BY DEF KeyStoreInv, KeyStoreTypeOK, Remembered, StoredIsLoaded, OneStore, Smooth, Step,
       OneInSight, InUser, InLogin, InFile, Fresh, Loaded, Found, Sees, Ring, None, DeletesOnly
  <2>6. EmptyStays'
    BY DEF KeyStoreInv, KeyStoreTypeOK, EmptyStays, OneStore, LeftForSearch, Fresh, Loaded,
       Found, Sees, Ring, DeletesOnly
  <2> QED
    BY <2>1, <2>2, <2>3, <2>4, <2>5, <2>6 DEF KeyStoreInv
<1>8. ASSUME NEW p \in Programs, Undo(p) PROVE KeyStoreInv'
  <2> USE <1>8 DEF Undo, DropFound, Left
  <2>1. OneStore'
    BY DEF KeyStoreInv, KeyStoreTypeOK, OneStore
  <2>2. LeftForSearch'
    BY DEF KeyStoreInv, KeyStoreTypeOK, LeftForSearch, Sees
  <2>3. DeletesOnly'
    BY DEF KeyStoreInv, KeyStoreTypeOK, DeletesOnly
  <2>4. ~rough' => Smooth'
    BY DEF KeyStoreInv, KeyStoreTypeOK, Smooth, Step, OneInSight, InUser, InLogin, InFile, Fresh,
       Found, Sees, Ring, LeftForSearch, DeletesOnly
  <2>5. Remembered' /\ StoredIsLoaded'
    BY DEF KeyStoreInv, KeyStoreTypeOK, Remembered, StoredIsLoaded, OneStore, Smooth, Step,
       OneInSight, InUser, InLogin, InFile, Fresh, Loaded, Found, Sees, Ring, None, DeletesOnly
  <2>6. EmptyStays'
    BY DEF KeyStoreInv, KeyStoreTypeOK, EmptyStays, OneStore, LeftForSearch, Fresh, Loaded,
       Found, Sees, Ring, DeletesOnly
  <2> QED
    BY <2>1, <2>2, <2>3, <2>4, <2>5, <2>6 DEF KeyStoreInv
<1>9. ASSUME NEW p \in Programs, ToFile(p) PROVE KeyStoreInv'
  <2> USE <1>9 DEF ToFile, Succeeds
  <2>1. OneStore'
    BY DEF KeyStoreInv, KeyStoreTypeOK, OneStore
  <2>2. LeftForSearch'
    BY DEF KeyStoreInv, KeyStoreTypeOK, LeftForSearch, Sees
  <2>3. DeletesOnly'
    BY DEF KeyStoreInv, KeyStoreTypeOK, DeletesOnly
  <2>4. ~rough' => Smooth'
    BY DEF KeyStoreInv, KeyStoreTypeOK, Smooth, Step, OneInSight, InUser, InLogin, InFile, Fresh,
       Found, Sees, Ring, LeftForSearch, DeletesOnly
  <2>5. Remembered' /\ StoredIsLoaded'
    BY DEF KeyStoreInv, KeyStoreTypeOK, Remembered, StoredIsLoaded, OneStore, Smooth, Step,
       OneInSight, InUser, InLogin, InFile, Fresh, Loaded, Found, Sees, Ring, None, DeletesOnly
  <2>6. EmptyStays'
    BY DEF KeyStoreInv, KeyStoreTypeOK, EmptyStays, OneStore, LeftForSearch, Fresh, Loaded,
       Found, Sees, Ring, DeletesOnly
  <2> QED
    BY <2>1, <2>2, <2>3, <2>4, <2>5, <2>6 DEF KeyStoreInv
<1>10. ASSUME NEW p \in Programs, Load(p) PROVE KeyStoreInv'
  <2> USE <1>10 DEF Load, Left
  <2>1. OneStore'
    BY DEF KeyStoreInv, KeyStoreTypeOK, OneStore
  <2>2. LeftForSearch'
    BY DEF KeyStoreInv, KeyStoreTypeOK, LeftForSearch, Sees
  <2>3. DeletesOnly'
    BY DEF KeyStoreInv, KeyStoreTypeOK, DeletesOnly
  <2>4. ~rough' => Smooth'
    BY DEF KeyStoreInv, KeyStoreTypeOK, Smooth, Step, OneInSight, InUser, InLogin, InFile, Fresh,
       Found, Sees, Ring, LeftForSearch, DeletesOnly
  <2>5. Remembered' /\ StoredIsLoaded'
    BY DEF KeyStoreInv, KeyStoreTypeOK, Remembered, StoredIsLoaded, OneStore, Smooth, Step,
       OneInSight, InUser, InLogin, InFile, Fresh, Loaded, Found, Sees, Ring, None, DeletesOnly
  <2>6. EmptyStays'
    BY DEF KeyStoreInv, KeyStoreTypeOK, EmptyStays, OneStore, LeftForSearch, Fresh, Loaded,
       Found, Sees, Ring, DeletesOnly
  <2> QED
    BY <2>1, <2>2, <2>3, <2>4, <2>5, <2>6 DEF KeyStoreInv
<1>11. ASSUME NEW p \in Programs, End(p) PROVE KeyStoreInv'
  <2> USE <1>11 DEF End
  <2>1. OneStore'
    BY DEF KeyStoreInv, KeyStoreTypeOK, OneStore
  <2>2. LeftForSearch'
    BY DEF KeyStoreInv, KeyStoreTypeOK, LeftForSearch, Sees
  <2>3. DeletesOnly'
    BY DEF KeyStoreInv, KeyStoreTypeOK, DeletesOnly
  <2>4. ~rough' => Smooth'
    BY DEF KeyStoreInv, KeyStoreTypeOK, Smooth, Step, OneInSight, InUser, InLogin, InFile, Fresh,
       Found, Sees, Ring, LeftForSearch, DeletesOnly
  <2>5. Remembered' /\ StoredIsLoaded'
    <3>1. Remembered'
      BY DEF KeyStoreInv, KeyStoreTypeOK, Remembered, None
    <3>2. Fresh' = Fresh
      BY DEF Fresh
    <3>3. kept' # None /\ kept.private => Loaded(kept.by)' = Loaded(kept.by)
      <4> SUFFICES ASSUME kept' # None, kept.private PROVE Loaded(kept.by)' = Loaded(kept.by)
        OBVIOUS
      <4>1. kept' = kept /\ kept.by # p
        OBVIOUS
      <4>2. own'[kept.by] = own[kept.by]
        BY <4>1 DEF KeyStoreTypeOK
      <4> QED
        BY <4>1, <4>2 DEF Loaded, Found, Sees, Ring
    <3>4. kept' # None => kept' = kept
      OBVIOUS
    <3> QED
      BY <3>1, <3>2, <3>3, <3>4 DEF KeyStoreInv, StoredIsLoaded
  <2>6. EmptyStays'
    BY DEF KeyStoreInv, KeyStoreTypeOK, EmptyStays, OneStore, LeftForSearch, Fresh, Loaded,
       Found, Sees, Ring, DeletesOnly
  <2> QED
    BY <2>1, <2>2, <2>3, <2>4, <2>5, <2>6 DEF KeyStoreInv
<1>12. CASE EndLogin
  <2> USE <1>12 DEF EndLogin
  <2>1. OneStore'
    BY DEF KeyStoreInv, KeyStoreTypeOK, OneStore
  <2>2. LeftForSearch'
    BY DEF KeyStoreInv, KeyStoreTypeOK, LeftForSearch, Sees
  <2>3. DeletesOnly'
    BY DEF KeyStoreInv, KeyStoreTypeOK, DeletesOnly
  <2>4. ~rough' => Smooth'
    BY DEF KeyStoreInv, KeyStoreTypeOK, Smooth, Step, OneInSight, InUser, InLogin, InFile, Fresh,
       Found, Sees, Ring, LeftForSearch, DeletesOnly
  <2>5. Remembered' /\ StoredIsLoaded'
    BY DEF KeyStoreInv, KeyStoreTypeOK, Remembered, StoredIsLoaded, OneStore, Smooth, Step,
       OneInSight, InUser, InLogin, InFile, Fresh, Loaded, Found, Sees, Ring, None, DeletesOnly
  <2>6. EmptyStays'
    BY DEF KeyStoreInv, KeyStoreTypeOK, EmptyStays, OneStore, LeftForSearch, Fresh, Loaded,
       Found, Sees, Ring, DeletesOnly
  <2> QED
    BY <2>1, <2>2, <2>3, <2>4, <2>5, <2>6 DEF KeyStoreInv
<1>13. CASE UNCHANGED kvars
  BY <1>13 DEF kvars, KeyStoreInv, OneStore, LeftForSearch, DeletesOnly, Smooth, Step,
     OneInSight, InUser, InLogin,
     InFile, Remembered, StoredIsLoaded, EmptyStays, Fresh, Loaded, Found, Sees, Ring
<1> QED
  BY <1>1, <1>2, <1>3, <1>4, <1>5, <1>6, <1>7, <1>8, <1>9, <1>10, <1>11, <1>12, <1>13
  DEF KeyStoreNext, KeyStoreStep

\* Every place holds a key that was begun or none, whoever stores, deletes or is
\* killed in between.
THEOREM KeyStoreTypeCorrect == KeyStoreSpec => []KeyStoreTypeOK
BY StoreInitTyped, StoreStepTyped, PTL DEF KeyStoreSpec

THEOREM KeyStoreSafe == KeyStoreSpec => []KeyStoreInv
BY StoreInitSafe, StoreStepSafe, PTL DEF KeyStoreSpec

\* What a store reported is what is loaded, until the next store, delete or end of
\* the login session.
THEOREM StoresAreLoaded == KeyStoreSpec => []StoredIsLoaded
<1>1. KeyStoreInv => StoredIsLoaded
  BY DEF KeyStoreInv
<1> QED
  BY <1>1, KeyStoreSafe, PTL

\* A delete that reported success has left nothing to load.
THEOREM DeletesAreComplete == KeyStoreSpec => []DeletedIsGone
<1>1. KeyStoreInv => DeletedIsGone
  BY DEF KeyStoreInv, EmptyStays, DeletedIsGone
<1> QED
  BY <1>1, KeyStoreSafe, PTL

\* What programs load changes as the one slot of KeySlot does.
THEOREM KeyStoreIsASlot == KeyStoreSpec => ImplementsSlot
<1>1. KeyStoreInit => Slot!SlotInit
  BY KeyStoreAssumption DEF KeyStoreInit, Slot!SlotInit, Fresh, Current, StoreKeys
<1>2. ASSUME KeyStoreInv, KeyStoreInv', [KeyStoreNext]_kvars
      PROVE  Slot!Appear \/ Slot!Vanish \/ Slot!Stay
  <2> SUFFICES Fresh' = Fresh \/ Fresh' = NoKey \/ Fresh' \in Current
    BY DEF Slot!Appear, Slot!Vanish, Slot!Stay
  <2>0. KeyStoreTypeOK /\ KeyStoreTypeOK' /\ (~rough => Smooth) /\ LeftForSearch
    BY <1>2 DEF KeyStoreInv
  <2>1. Fresh' \in Begun' \union {NoKey}
    BY <2>0 DEF KeyStoreTypeOK, Fresh
  <2>2. Current = IF rough THEN Begun ELSE ({want[p] : p \in Programs} \union {stores}) \intersect StoreKeys
    BY DEF Current
  <2>3. CASE \E p \in Programs : BeginStore(p) \/ BeginForget(p) \/ Deleted(p) \/ Check(p) \/ Load(p) \/ End(p)
    BY <2>3 DEF BeginStore, BeginForget, Begin, Deleted, Check, Load, End, rings, Fresh
  <2>4. CASE UNCHANGED kvars
    BY <2>4 DEF kvars, rings, Fresh
  <2>5. ASSUME stores' = stores, rough PROVE Fresh' = NoKey \/ Fresh' \in Current
    BY <2>1, <2>2, <2>5 DEF Begun
  <2>6. ASSUME NEW p \in Programs, Forget(p) \/ ForgetFile(p) \/ Undo(p), ~rough
        PROVE  Fresh' = Fresh \/ Fresh' = NoKey
    <3> USE DEF Smooth, OneInSight, InUser, InLogin, InFile, Fresh
    <3>1. CASE Forget(p)
      BY <2>0, <2>6, <3>1 DEF Forget, DropFound, Sees, LeftForSearch
    <3>2. CASE ForgetFile(p)
      BY <2>0, <2>6, <3>2 DEF ForgetFile, rings
    <3>3. CASE Undo(p)
      BY <2>0, <2>6, <3>3 DEF Step, Undo, DropFound
    <3> QED
      BY <2>6, <3>1, <3>2, <3>3
  <2>7. ASSUME NEW p \in Programs, Add(p) \/ ToFile(p), ~rough
        PROVE  Fresh' = Fresh \/ Fresh' = NoKey \/ Fresh' \in Current
    <3>1. want[p] # NoKey => want[p] \in Current
      <4>1. want[p] \in {want[q] : q \in Programs}
        BY <2>7
      <4>2. want[p] # NoKey => want[p] \in StoreKeys
        BY <2>0, <2>7, KeyStoreAssumption DEF KeyStoreTypeOK, Begun, StoreKeys
      <4> QED
        BY <2>2, <2>7, <4>1, <4>2
    <3>2. Fresh = NoKey
      BY <2>0, <2>7 DEF Smooth, Step, Add, ToFile
    <3>3. Fresh' = Fresh \/ Fresh' = want[p] \/ Fresh' = NoKey
      BY <2>7, <3>2 DEF Fresh, Add, ToFile, Succeeds, rings
    <3> QED
      BY <3>1, <3>3
  <2>8. ASSUME EndLogin, ~rough PROVE Fresh' = Fresh \/ Fresh' = NoKey
    BY <2>0, <2>8 DEF EndLogin, Smooth, OneInSight, InUser, InLogin, InFile, Fresh
  <2>9. ASSUME NEW p \in Programs, Forget(p) \/ ForgetFile(p) \/ Undo(p) \/ Add(p) \/ ToFile(p)
        PROVE  stores' = stores
    BY <2>9 DEF Forget, ForgetFile, Undo, Add, ToFile
  <2>10. EndLogin => stores' = stores
    BY DEF EndLogin
  <2>11. KeyStoreNext \/ UNCHANGED kvars
    BY <1>2
  <2> QED
    BY <2>3, <2>4, <2>5, <2>6, <2>7, <2>8, <2>9, <2>10, <2>11 DEF KeyStoreNext, KeyStoreStep
<1> QED
  BY <1>1, <1>2, KeyStoreSafe, PTL DEF KeyStoreSpec, ImplementsSlot, Slot!SlotSpec

(***************************************************************************)
(* The terminal interface                                                  *)
(***************************************************************************)

(* Names in byte order *)

\* A set of naturals has a least one.
LEMMA LeastNatural ==
  ASSUME NEW T, T \subseteq Nat, T # {}
  PROVE  \E x \in T : \A y \in T : x <= y
<1>1. IsWellFoundedOn(OpToRel(<, Nat), Nat)
  BY NatLessThanWellFounded
<1>2. PICK x \in T : \A y \in T : ~(<<y, x>> \in OpToRel(<, Nat))
  BY <1>1, WFMin
<1>3. \A y \in T : ~(y < x)
  BY <1>2 DEF OpToRel
<1> QED
  BY <1>3

LEMMA PlaceOfPath ==
  ASSUME NEW n \in Paths
  PROVE  Place(n) \in 1..Len(Order) /\ Order[Place(n)] = n
<1>1. \E i \in DOMAIN Order : Order[i] = n
  BY DEF Paths, ToSet
<1>2. Place(n) \in DOMAIN Order /\ Order[Place(n)] = n
  BY <1>1 DEF Place
<1> QED
  BY <1>2, TerminalAssumption DEF TerminalAssumption

LEMMA PathsFinite == IsFiniteSet(Paths)
<1> DEFINE f == [n \in Paths |-> Place(n)]
<1>1. Len(Order) \in Nat
  BY TerminalAssumption DEF TerminalAssumption
<1>2. f \in Injection(Paths, 1..Len(Order))
  <2>1. f \in [Paths -> 1..Len(Order)]
    BY PlaceOfPath
  <2>2. \A m, n \in Paths : f[m] = f[n] => m = n
    BY PlaceOfPath
  <2> QED
    BY <2>1, <2>2 DEF Injection, IsInjective
<1>3. IsFiniteSet(1..Len(Order))
  BY <1>1, FS_Interval
<1> QED
  BY <1>2, <1>3, FS_Injection

LEMMA PathSetFinite ==
  ASSUME NEW S \in SUBSET Paths
  PROVE  IsFiniteSet(S) /\ Cardinality(S) \in Nat
BY PathsFinite, FS_Subset, FS_CardinalityType

LEMMA OneMore ==
  ASSUME NEW S, NEW x, IsFiniteSet(S)
  PROVE  Cardinality(S \union {x}) <= Cardinality(S) + 1
<1>1. Cardinality(S) \in Nat
  BY FS_CardinalityType
<1>2. Cardinality(S \union {x}) = IF x \in S THEN Cardinality(S) ELSE Cardinality(S) + 1
  BY FS_AddElement
<1> QED
  BY <1>1, <1>2

\* The names that InOrder lists are those of the set.
LEMMA InOrderLists ==
  ASSUME NEW S \in SUBSET Paths
  PROVE  /\ DOMAIN InOrder(S) = 1..Cardinality(S)
         /\ \A i \in 1..Cardinality(S) : InOrder(S)[i] \in S /\ Cardinality(UpTo(S, InOrder(S)[i])) = i
<1> DEFINE below(p) == {m \in S : Place(m) <= p}
           L == Len(Order)
<1>1. L \in Nat
  BY TerminalAssumption DEF TerminalAssumption
<1>2. \A p : IsFiniteSet(below(p)) /\ Cardinality(below(p)) \in Nat
  BY PathSetFinite
<1>3. ASSUME NEW i \in 1..Cardinality(S)
      PROVE  \E n \in S : Cardinality(UpTo(S, n)) = i
  <2> DEFINE T == {p \in Nat : i <= Cardinality(below(p))}
  <2>1. below(L) = S
    BY PlaceOfPath
  <2>2. L \in T
    BY <1>1, <2>1, PathSetFinite
  <2>3. PICK p \in T : \A q \in T : p <= q
    BY <2>2, LeastNatural
  <2>4. p # 0
    <3>1. below(0) = {}
      BY PlaceOfPath
    <3>2. Cardinality(below(0)) = 0
      BY <3>1, FS_EmptySet
    <3> QED
      BY <3>2
  <2>5. p - 1 \in Nat /\ ~(i <= Cardinality(below(p - 1)))
    BY <2>3, <2>4
  <2>6. PICK n \in S : Place(n) = p
    <3> SUFFICES ASSUME \A n \in S : Place(n) # p PROVE FALSE
      OBVIOUS
    <3>1. below(p) = below(p - 1)
      BY PlaceOfPath
    <3> QED
      BY <3>1, <2>5
  <2>7. below(p) = below(p - 1) \union {n}
    <3>1. \A m \in S : Place(m) <= p => m = n \/ Place(m) <= p - 1
      BY <2>6, PlaceOfPath
    <3>2. \A m \in S : Place(m) <= p - 1 => Place(m) <= p
      BY PlaceOfPath
    <3> QED
      BY <2>6, <3>1, <3>2
  <2>8. Cardinality(below(p)) <= Cardinality(below(p - 1)) + 1
    <3> DEFINE less == below(p - 1)
    <3>1. IsFiniteSet(less) /\ Cardinality(less) \in Nat
      BY <1>2
    <3>2. below(p) = less \union {n}
      BY <2>7
    <3> HIDE DEF less
    <3>3. Cardinality(less \union {n}) <= Cardinality(less) + 1
      BY <3>1, OneMore
    <3> QED
      BY <3>2, <3>3 DEF less
  <2>9. Cardinality(below(p)) = i
    <3> DEFINE a == Cardinality(below(p))
               b == Cardinality(below(p - 1))
    <3>1. i \in Nat /\ a \in Nat /\ b \in Nat /\ i <= a /\ ~(i <= b) /\ a <= b + 1
      BY <2>3, <2>5, <2>8, <1>2
    <3> HIDE DEF a, b
    <3> QED
      BY <3>1 DEF a
  <2> QED
    BY <2>6, <2>9 DEF UpTo
<1> QED
  BY <1>3 DEF InOrder

\* A name with fewer names up to it comes first.
LEMMA UpToGrows ==
  ASSUME NEW S \in SUBSET Paths, NEW m \in S, NEW n \in S
  PROVE  /\ Cardinality(UpTo(S, m)) <= Cardinality(UpTo(S, n)) <=> Place(m) <= Place(n)
         /\ Cardinality(UpTo(S, n)) \in 1..Cardinality(S)
<1>1. \A p \in S : UpTo(S, p) \in SUBSET S /\ p \in UpTo(S, p)
  BY PlaceOfPath DEF UpTo
<1>2. \A p \in S : /\ IsFiniteSet(UpTo(S, p)) /\ Cardinality(UpTo(S, p)) \in Nat
                   /\ Cardinality(UpTo(S, p)) <= Cardinality(S) /\ Cardinality(UpTo(S, p)) # 0
  BY <1>1, PathSetFinite, FS_Subset, FS_EmptySet
<1>3. ASSUME NEW p \in S, NEW q \in S, Place(p) <= Place(q)
      PROVE  Cardinality(UpTo(S, p)) <= Cardinality(UpTo(S, q))
  <2>1. UpTo(S, p) \in SUBSET UpTo(S, q)
    BY <1>3, PlaceOfPath DEF UpTo
  <2> QED
    BY <2>1, <1>2, FS_Subset
<1>4. ASSUME Place(n) < Place(m) PROVE ~(Cardinality(UpTo(S, m)) <= Cardinality(UpTo(S, n)))
  <2>1. UpTo(S, n) \in SUBSET UpTo(S, m) /\ m \notin UpTo(S, n)
    BY <1>4, PlaceOfPath DEF UpTo
  <2>2. UpTo(S, n) # UpTo(S, m)
    BY <2>1, <1>1
  <2>3. /\ Cardinality(UpTo(S, n)) <= Cardinality(UpTo(S, m))
        /\ Cardinality(UpTo(S, n)) # Cardinality(UpTo(S, m))
    BY <2>1, <2>2, <1>2, FS_Subset
  <2> QED
    BY <2>3, <1>2
<1>5. Cardinality(S) \in Nat /\ Place(m) \in Nat /\ Place(n) \in Nat
  BY PathSetFinite, PlaceOfPath
<1>6. Cardinality(UpTo(S, n)) \in 1..Cardinality(S)
  BY <1>2, <1>5
<1>7. Cardinality(UpTo(S, m)) <= Cardinality(UpTo(S, n)) <=> Place(m) <= Place(n)
  BY <1>3, <1>4, <1>5
<1> QED
  BY <1>6, <1>7

\* The rows of the register come from a walk of the map: it names each member of
\* any set of names, once, and in byte order.
THEOREM WalkIsInOrder ==
  ASSUME NEW S \in SUBSET Paths
  PROVE  LET w == InOrder(S)
         IN  /\ {w[i] : i \in DOMAIN w} = S
             /\ \A i, j \in DOMAIN w : i < j => Place(w[i]) < Place(w[j])
<1> DEFINE w == InOrder(S)
<1>1. DOMAIN w = 1..Cardinality(S) /\ \A i \in DOMAIN w : w[i] \in S /\ Cardinality(UpTo(S, w[i])) = i
  BY InOrderLists
<1> HIDE DEF w
<1>2. ASSUME NEW n \in S PROVE \E i \in DOMAIN w : w[i] = n
  <2> DEFINE i == Cardinality(UpTo(S, n))
  <2>1. i \in DOMAIN w
    BY <1>1, UpToGrows
  <2>2. w[i] \in S /\ Cardinality(UpTo(S, w[i])) = i
    BY <1>1, <2>1
  <2>3. Place(w[i]) = Place(n)
    <3>1. i <= i
      BY <1>1, <2>1
    <3> HIDE DEF i
    <3>2. Place(w[i]) <= Place(n) /\ Place(n) <= Place(w[i])
      BY <2>2, <3>1, UpToGrows DEF i
    <3> QED
      BY <2>2, <3>2, PlaceOfPath
  <2>4. w[i] = n
    BY <2>2, <2>3, PlaceOfPath
  <2> QED
    BY <2>1, <2>4
<1>3. ASSUME NEW i \in DOMAIN w, NEW j \in DOMAIN w, i < j PROVE Place(w[i]) < Place(w[j])
  <2>1. ~(Cardinality(UpTo(S, w[j])) <= Cardinality(UpTo(S, w[i])))
    BY <1>1, <1>3
  <2>2. ~(Place(w[j]) <= Place(w[i]))
    BY <1>1, <2>1, UpToGrows
  <2> QED
    BY <1>1, <2>2, PlaceOfPath
<1>4. {w[i] : i \in DOMAIN w} = S
  BY <1>1, <1>2
<1> QED
  BY <1>3, <1>4 DEF w

(* The screen *)

Columns == {"open", "filter", "filtering", "rows", "selected", "reveal", "detail"}
Shaped(s) == DOMAIN s = Columns /\ s.selected \in Nat /\ s.filtering \in BOOLEAN /\ s.reveal \in BOOLEAN

\* The register is drawn: rows, selection, open bundle and pane fit together.
Drawn(s, x) ==
  /\ s.rows = RowsOf(x, s.open, s.filter)
  /\ s.rows # << >> => s.selected \in DOMAIN s.rows
  /\ s.open # NoText => IsBundle(x, s.open)
Shows(s, h) == s.detail = DetailOf(Selected(s), h)

Redrawn(s, x, h) == Shaped(s) /\ Drawn(s, x) /\ Shows(s, h) /\ s.reveal = FALSE

\* Any two names of the register make a list of rows.
LEMMA RowsAreAList ==
  ASSUME NEW x, NEW o, NEW f
  PROVE  \E k \in Nat : DOMAIN RowsOf(x, o, f) = 1..k
<1>1. ASSUME NEW S \in SUBSET Paths PROVE DOMAIN InOrder(S) = 1..Cardinality(S) /\ Cardinality(S) \in Nat
  BY InOrderLists, PathSetFinite
<1>2. CASE IsBundle(x, o)
  <2> DEFINE S == {n \in Paths : n \in x.row[o].members}
  <2>1. DOMAIN RowsOf(x, o, f) = DOMAIN InOrder(S)
    BY <1>2 DEF RowsOf
  <2> QED
    BY <2>1, <1>1
<1>3. CASE ~IsBundle(x, o)
  <2> DEFINE S == {l \in Paths : l \in DOMAIN x.row /\ Matches(x.row[l], f)}
  <2>1. DOMAIN RowsOf(x, o, f) = DOMAIN InOrder(S)
    BY <1>3 DEF RowsOf
  <2> QED
    BY <2>1, <1>1
<1> QED
  BY <1>2, <1>3

LEMMA RowsAreASequence ==
  ASSUME NEW x, NEW o, NEW f
  PROVE  LET r == RowsOf(x, o, f)
         IN  Len(r) \in Nat /\ DOMAIN r = 1..Len(r) /\ (r # << >> => Len(r) > 0)
<1> DEFINE r == RowsOf(x, o, f)
<1>1. PICK k \in Nat : DOMAIN r = 1..k
  BY RowsAreAList
<1>2. r = [i \in DOMAIN r |-> r[i]]
  BY DEF RowsOf
<1> HIDE DEF r
<1>3. r \in Seq({r[i] : i \in 1..k}) /\ Len(r) = k
  BY <1>1, <1>2
<1>4. r # << >> => k > 0
  BY <1>1, <1>3
<1> QED
  BY <1>1, <1>3, <1>4 DEF r

LEMMA RebuiltIsDrawn ==
  ASSUME NEW s, Shaped(s), NEW x, NEW pick
  PROVE  LET r == Rebuilt(s, x, pick)
         IN  Shaped(r) /\ Drawn(r, x) /\ r.filtering = s.filtering /\ r.filter = s.filter
<1> DEFINE o    == IF IsBundle(x, s.open) THEN s.open ELSE NoText
           rows == RowsOf(x, o, s.filter)
           hits   == {i \in DOMAIN rows : rows[i].label = pick}
           sel  == IF hits = {} THEN 1 ELSE CHOOSE i \in hits : TRUE
           r    == [s EXCEPT !.open = o, !.rows = rows, !.selected = sel]
<1>1. Rebuilt(s, x, pick) = r
  BY DEF Rebuilt
<1>2. Len(rows) \in Nat /\ DOMAIN rows = 1..Len(rows) /\ (rows # << >> => Len(rows) > 0)
  BY RowsAreASequence
<1>3. sel \in Nat /\ (rows # << >> => sel \in DOMAIN rows)
  <2>1. CASE hits = {}
    BY <2>1, <1>2
  <2>2. CASE hits # {}
    <3>1. sel \in hits
      BY <2>2
    <3> QED
      BY <3>1, <1>2
  <2> QED
    BY <2>1, <2>2
<1>4. o # NoText => IsBundle(x, o)
  OBVIOUS
<1> HIDE DEF rows, hits, sel, o
<1>5. Shaped(r) /\ r.open = o /\ r.rows = rows /\ r.selected = sel /\ r.filter = s.filter /\ r.filtering = s.filtering
  BY <1>3 DEF Shaped, Columns
<1> HIDE DEF r
<1>6. r.rows = RowsOf(x, r.open, r.filter)
  BY <1>5 DEF rows
<1> QED
  BY <1>1, <1>3, <1>4, <1>5, <1>6 DEF Drawn

LEMMA SyncedShows ==
  ASSUME NEW s, Shaped(s), NEW h
  PROVE  LET r == Synced(s, h)
         IN  /\ Shaped(r) /\ Shows(r, h) /\ r.reveal = FALSE
             /\ r.filtering = s.filtering /\ r.filter = s.filter
             /\ r.rows = s.rows /\ r.selected = s.selected /\ r.open = s.open
             /\ \A x : Drawn(s, x) => Drawn(r, x)
<1> DEFINE d == DetailOf(Selected(s), h)
           r == [s EXCEPT !.detail = d, !.reveal = FALSE]
<1>1. Synced(s, h) = r
  BY DEF Synced
<1> HIDE DEF d
<1>2. /\ Shaped(r) /\ r.detail = d /\ r.reveal = FALSE
      /\ r.filtering = s.filtering /\ r.filter = s.filter
      /\ r.rows = s.rows /\ r.selected = s.selected /\ r.open = s.open
  BY DEF Shaped, Columns
<1> HIDE DEF r
<1>3. Selected(r) = Selected(s)
  BY <1>2 DEF Selected
<1>4. Shows(r, h)
  BY <1>2, <1>3 DEF Shows, d
<1> QED
  BY <1>1, <1>2, <1>4 DEF Drawn

\* Regrouping and syncing draws the register, whatever was on screen before.
LEMMA RegroupedIsDrawn ==
  ASSUME NEW s, Shaped(s), NEW x, NEW pick, NEW h
  PROVE  LET r == Synced(Rebuilt(s, x, pick), h)
         IN  Redrawn(r, x, h) /\ r.filtering = s.filtering
<1> DEFINE b == Rebuilt(s, x, pick)
<1>1. Shaped(b) /\ Drawn(b, x) /\ b.filtering = s.filtering /\ b.filter = s.filter
  BY RebuiltIsDrawn
<1> HIDE DEF b
<1>2. LET r == Synced(b, h)
      IN  Redrawn(r, x, h) /\ r.filtering = b.filtering
  BY <1>1, SyncedShows DEF Redrawn
<1> QED
  BY <1>1, <1>2 DEF b

\* Moving the selection within the rows.
LEMMA MovedIsDrawn ==
  ASSUME NEW s, Shaped(s), NEW x, Drawn(s, x), NEW h, NEW i \in Nat,
         s.rows # << >> => i \in DOMAIN s.rows
  PROVE  LET r == Synced([s EXCEPT !.selected = i], h)
         IN  Redrawn(r, x, h) /\ r.filtering = s.filtering
<1> DEFINE t == [s EXCEPT !.selected = i]
<1>1. Shaped(t) /\ t.rows = s.rows /\ t.selected = i /\ t.open = s.open /\ t.filter = s.filter /\ t.filtering = s.filtering
  BY DEF Shaped, Columns
<1> HIDE DEF t
<1>2. Drawn(t, x)
  BY <1>1 DEF Drawn
<1>3. LET r == Synced(t, h) IN Redrawn(r, x, h) /\ r.filtering = t.filtering
  BY <1>1, <1>2, SyncedShows DEF Redrawn
<1> QED
  BY <1>1, <1>3 DEF t

ScreenInv ==
  /\ Shaped(screen)
  /\ index = Index(held)
  /\ Drawn(screen, index) /\ Shows(screen, held)
  /\ screen.filtering => IsIdle
  /\ quit => screen = BlankScreen /\ mode = Idle /\ held = << >>

\* Nothing held, nothing drawn.
LEMMA BlankIsDrawn ==
  Shaped(BlankScreen) /\ Drawn(BlankScreen, Index(<< >>)) /\ Shows(BlankScreen, << >>)
<1> DEFINE x == Index(<< >>)
<1>1. DOMAIN x.row = {}
  BY DEF Index, Rows
<1>2. ~IsBundle(x, NoText)
  BY <1>1 DEF IsBundle
<1>3. RowsOf(x, NoText, NoText) = << >>
  <2> DEFINE S == {l \in Paths : l \in DOMAIN x.row /\ Matches(x.row[l], NoText)}
  <2>1. S = {}
    BY <1>1
  <2>2. DOMAIN InOrder(S) = {}
    <3>1. DOMAIN InOrder(S) = 1..Cardinality(S) /\ Cardinality(S) = 0
      BY <2>1, InOrderLists, FS_EmptySet
    <3> QED
      BY <3>1
  <2>3. RowsOf(x, NoText, NoText) = [i \in DOMAIN InOrder(S) |-> x.row[InOrder(S)[i]]]
    BY <1>2 DEF RowsOf
  <2> QED
    BY <2>2, <2>3
<1>4. DetailOf(Selected(BlankScreen), << >>) = << >>
  BY DEF DetailOf
<1> HIDE DEF x
<1> QED
  BY <1>3, <1>4 DEF Shaped, Columns, Drawn, Shows, BlankScreen, x

LEMMA ScreenInitSafe == TerminalInit => ScreenInv
BY BlankIsDrawn DEF TerminalInit, ScreenInv, BlankScreen, Idle, IsIdle

\* A load: the rows of what came, or the old ones with the refusal.
LEMMA ReloadIsDrawn ==
  ASSUME NEW s, Shaped(s), Drawn(s, index), index = Index(held),
         NEW v, NEW f, NEW otherwise, Reload(s, v, f, otherwise)
  PROVE  Redrawn(screen', index', held') /\ index' = Index(held') /\ screen'.filtering = s.filtering
<1>1. CASE Holds(v) /\ screen' = Regrouped(s, v, index')
  <2>1. held' = v /\ index' = Index(held')
    BY <1>1 DEF Holds
  <2>2. screen' = Synced(Rebuilt(s, index', Selected(s).label), held')
    BY <1>1, <2>1 DEF Regrouped
  <2> DEFINE w == Selected(s).label
  <2>3. PICK x, h : x = index' /\ h = held'
    OBVIOUS
  <2>4. LET r == Synced(Rebuilt(s, x, w), h)
        IN  Redrawn(r, x, h) /\ r.filtering = s.filtering
    BY RegroupedIsDrawn
  <2>5. screen' = Synced(Rebuilt(s, x, w), h)
    BY <2>2, <2>3
  <2>6. Redrawn(screen', x, h) /\ screen'.filtering = s.filtering
    BY <2>4, <2>5
  <2> QED
    BY <2>1, <2>3, <2>6
<1>2. CASE screen' = Synced(s, held) /\ UNCHANGED <<held, index>>
  BY <1>2, SyncedShows DEF Redrawn
<1> QED
  BY <1>1, <1>2 DEF Reload

LEMMA FlagsKeep ==
  ASSUME NEW s, Shaped(s), NEW x, Drawn(s, x), NEW h, Shows(s, h), NEW b \in BOOLEAN
  PROVE  LET l == [s EXCEPT !.filtering = b]
             r == [s EXCEPT !.reveal = b]
         IN  /\ Shaped(l) /\ Drawn(l, x) /\ Shows(l, h) /\ l.reveal = s.reveal /\ l.filtering = b
             /\ Shaped(r) /\ Drawn(r, x) /\ Shows(r, h) /\ r.reveal = b /\ r.filtering = s.filtering
<1> DEFINE l == [s EXCEPT !.filtering = b]
           r == [s EXCEPT !.reveal = b]
<1>1. /\ Shaped(l) /\ l.reveal = s.reveal /\ l.filtering = b
      /\ l.open = s.open /\ l.filter = s.filter /\ l.rows = s.rows /\ l.selected = s.selected /\ l.detail = s.detail
  BY DEF Shaped, Columns
<1>2. /\ Shaped(r) /\ r.reveal = b /\ r.filtering = s.filtering
      /\ r.open = s.open /\ r.filter = s.filter /\ r.rows = s.rows /\ r.selected = s.selected /\ r.detail = s.detail
  BY DEF Shaped, Columns
<1> HIDE DEF l, r
<1>3. Drawn(l, x) /\ Drawn(r, x)
  BY <1>1, <1>2 DEF Drawn
<1>4. Shows(l, h) /\ Shows(r, h)
  BY <1>1, <1>2 DEF Shows, Selected
<1> QED
  BY <1>1, <1>2, <1>3, <1>4 DEF l, r

LEMMA ClosedIsDrawn ==
  ASSUME NEW s, Shaped(s)
  PROVE  Redrawn(CloseBundle(s), index, held) /\ CloseBundle(s).filtering = s.filtering
<1> DEFINE t  == [s EXCEPT !.open = NoText]
           w  == Selected(s).label
           r  == Rebuilt(t, index, w)
           hits == {i \in DOMAIN r.rows : r.rows[i].label = s.open}
<1>1. Shaped(t) /\ t.filtering = s.filtering
  BY DEF Shaped, Columns
<1>3. CloseBundle(s) = Synced(IF hits = {} THEN r ELSE [r EXCEPT !.selected = CHOOSE i \in hits : TRUE], held)
  BY DEF CloseBundle
<1> HIDE DEF t, w
<1>2. Shaped(r) /\ Drawn(r, index) /\ r.filtering = s.filtering
  BY <1>1, RebuiltIsDrawn
<1>4. DOMAIN r.rows \subseteq Nat
  <2>1. r.rows = RowsOf(index, r.open, r.filter)
    BY <1>2 DEF Drawn
  <2> QED
    BY <2>1, RowsAreASequence
<1> HIDE DEF r
<1>5. CASE hits = {}
  <2>1. CloseBundle(s) = Synced(r, held)
    BY <1>3, <1>5
  <2>2. Redrawn(Synced(r, held), index, held) /\ Synced(r, held).filtering = r.filtering
    BY <1>2, SyncedShows DEF Redrawn
  <2> QED
    BY <2>1, <2>2, <1>2
<1>6. CASE hits # {}
  <2>1. PICK i : i \in hits /\ i = CHOOSE j \in hits : TRUE
    BY <1>6
  <2>2. CloseBundle(s) = Synced([r EXCEPT !.selected = i], held)
    BY <1>3, <1>6, <2>1
  <2>3. i \in Nat /\ i \in DOMAIN r.rows
    BY <2>1, <1>4
  <2> QED
    BY <2>2, <2>3, <1>2, MovedIsDrawn
<1> QED
  BY <1>5, <1>6

LEMMA RefilteredIsDrawn ==
  ASSUME NEW s, Shaped(s), NEW f
  PROVE  Redrawn(Refilter(s, f), index, held) /\ Refilter(s, f).filtering = s.filtering
<1> DEFINE t == [s EXCEPT !.filter = f]
           w == Want(s, Only(Selected(s)))
<1>1. Shaped(t) /\ t.filtering = s.filtering
  BY DEF Shaped, Columns
<1>2. Refilter(s, f) = Synced(Rebuilt(t, index, w), held)
  BY DEF Refilter
<1> HIDE DEF t, w
<1> QED
  BY <1>1, <1>2, RegroupedIsDrawn

(* Every handler, and what it leaves on the screen *)

\* A step that moves nothing but the screen: what it shows is the register, and
\* the values are masked again, or nothing but a flag has changed.
Redraws == Redrawn(screen', index, held) /\ (screen'.filtering => screen.filtering)
Flips ==
  \/ screen' = [screen EXCEPT !.filtering = FALSE]
  \/ screen' = [screen EXCEPT !.filtering = TRUE] /\ IsIdle
  \/ screen' = [screen EXCEPT !.reveal = ~@]

LEMMA MoveRedraws == ScreenInv /\ Move => Redraws
<1> SUFFICES ASSUME ScreenInv, Move PROVE Redraws
  OBVIOUS
<1>1. PICK i \in {MaxOf(screen.selected - 1, 1), MinOf(screen.selected + 1, Len(screen.rows)),
                  1, Len(screen.rows)} :
        screen' = Synced([screen EXCEPT !.selected = MaxOf(i, 1)], held)
  BY DEF Move
<1> DEFINE k == MaxOf(i, 1)
           n == Len(screen.rows)
<1>2. screen.rows = RowsOf(index, screen.open, screen.filter)
  BY DEF ScreenInv, Drawn
<1>3. n \in Nat /\ DOMAIN screen.rows = 1..n /\ (screen.rows # << >> => n > 0)
  BY <1>2, RowsAreASequence
<1>4. screen.selected \in Nat /\ (screen.rows # << >> => screen.selected \in 1..n)
  BY <1>3 DEF ScreenInv, Shaped, Drawn
<1>5. k \in Nat /\ (screen.rows # << >> => k \in 1..n)
  <2> HIDE DEF n
  <2>1. i \in {MaxOf(screen.selected - 1, 1), MinOf(screen.selected + 1, n), 1, n}
    BY <1>1 DEF n
  <2> QED
    BY <1>3, <1>4, <2>1 DEF MaxOf, MinOf
<1>6. Shaped(screen) /\ Drawn(screen, index)
  BY DEF ScreenInv
<1>7. screen.rows # << >> => k \in DOMAIN screen.rows
  BY <1>3, <1>5
<1> HIDE DEF k
<1>8. Redrawn(screen', index, held) /\ screen'.filtering = screen.filtering
  BY <1>1, <1>5, <1>6, <1>7, MovedIsDrawn DEF k
<1> QED
  BY <1>8 DEF Redraws

LEMMA ClickRedraws == ScreenInv /\ ClickRow => Redraws
<1> SUFFICES ASSUME ScreenInv, ClickRow PROVE Redraws
  OBVIOUS
<1>1. PICK i \in DOMAIN screen.rows : screen' = Synced([screen EXCEPT !.selected = i], held)
  BY DEF ClickRow
<1>2. Shaped(screen) /\ Drawn(screen, index)
  BY DEF ScreenInv
<1>3. i \in Nat
  BY <1>2, RowsAreASequence DEF Drawn
<1>4. Redrawn(screen', index, held) /\ screen'.filtering = screen.filtering
  BY <1>1, <1>2, <1>3, MovedIsDrawn
<1> QED
  BY <1>4 DEF Redraws

LEMMA OpenRedraws == ScreenInv /\ OpenSelected => Redraws
<1> SUFFICES ASSUME ScreenInv, OpenSelected PROVE Redraws
  OBVIOUS
<1> DEFINE l == Selected(screen).label
           s == [screen EXCEPT !.open = l, !.filter = NoText]
<1>1. screen' = Synced(Rebuilt(s, index, l), held)
  BY DEF OpenSelected
<1>2. Shaped(s) /\ s.filtering = screen.filtering
  BY DEF ScreenInv, Shaped, Columns
<1> HIDE DEF s, l
<1>3. Redrawn(screen', index, held) /\ screen'.filtering = s.filtering
  BY <1>1, <1>2, RegroupedIsDrawn
<1> QED
  BY <1>2, <1>3 DEF Redraws

LEMMA FilterRedraws == ScreenInv /\ TypeFilter => Redraws
BY RefilteredIsDrawn DEF TypeFilter, Redraws, ScreenInv

LEMMA EscRedraws == ScreenInv /\ EscLayer => Redraws
<1> SUFFICES ASSUME ScreenInv, EscLayer PROVE Redraws
  OBVIOUS
<1>1. Shaped(screen)
  BY DEF ScreenInv
<1>2. CASE screen.filtering \/ screen.filter # NoText
  <2> DEFINE r == Refilter(screen, NoText)
  <2>1. screen' = [r EXCEPT !.filtering = FALSE]
    BY <1>2 DEF EscLayer
  <2>2. Redrawn(r, index, held)
    BY <1>1, RefilteredIsDrawn
  <2> HIDE DEF r
  <2> QED
    BY <2>1, <2>2, FlagsKeep DEF Redrawn, Redraws
<1>3. CASE ~(screen.filtering \/ screen.filter # NoText)
  <2>1. screen' = CloseBundle(screen)
    BY <1>3 DEF EscLayer
  <2> QED
    BY <2>1, <1>1, ClosedIsDrawn DEF Redraws
<1> QED
  BY <1>2, <1>3

\* What the invariant asks of a step, and the reveal of it.
ScreenStep == ScreenInv' /\ RevealStep

LEMMA FreshIsSafe ==
  ASSUME Redrawn(screen', index', held'), index' = Index(held'), ~quit', screen'.filtering => IsIdle'
  PROVE  ScreenStep
<1>1. ScreenInv'
  BY DEF ScreenInv, Redrawn
<1>2. RevealStep
  BY DEF RevealStep, Redrawn
<1> QED
  BY <1>1, <1>2 DEF ScreenStep

LEMMA RedrawIsSafe ==
  ASSUME ScreenInv, Redraws, ~quit, OnlyScreen
  PROVE  ScreenStep
<1>1. held' = held /\ index' = index /\ mode' = mode /\ quit' = quit
  BY DEF OnlyScreen
<1>2. Redrawn(screen', index', held') /\ index' = Index(held') /\ (screen'.filtering => IsIdle')
  BY <1>1 DEF Redraws, ScreenInv, IsIdle
<1> QED
  BY <1>1, <1>2, FreshIsSafe

LEMMA FlipIsSafe ==
  ASSUME ScreenInv, Flips, ~quit, OnlyScreen
  PROVE  ScreenStep
<1>1. held' = held /\ index' = index /\ mode' = mode /\ quit' = quit
  BY DEF OnlyScreen
<1>2. Shaped(screen) /\ Drawn(screen, index) /\ Shows(screen, held) /\ screen.reveal \in BOOLEAN
  BY DEF ScreenInv, Shaped
<1>3. /\ Shaped(screen') /\ Drawn(screen', index) /\ Shows(screen', held)
      /\ screen'.filtering => IsIdle
  <2>1. CASE screen' = [screen EXCEPT !.filtering = FALSE]
    BY <2>1, <1>2, FlagsKeep
  <2>2. CASE screen' = [screen EXCEPT !.filtering = TRUE] /\ IsIdle
    BY <2>2, <1>2, FlagsKeep
  <2>3. CASE screen' = [screen EXCEPT !.reveal = ~@]
    BY <2>3, <1>2, FlagsKeep DEF ScreenInv
  <2> QED
    BY <2>1, <2>2, <2>3 DEF Flips
<1>4. ScreenInv'
  BY <1>1, <1>3 DEF ScreenInv, IsIdle
<1>5. RevealStep
  <2>1. screen'.detail = screen.detail \/ (screen.reveal => ~screen'.reveal)
    BY <1>2 DEF Flips, Shaped, Columns
  <2> QED
    BY <2>1 DEF RevealStep
<1> QED
  BY <1>4, <1>5 DEF ScreenStep

LEMMA ModeIsSafe ==
  ASSUME ScreenInv, OnlyMode, ~quit, screen.filtering => IsIdle'
  PROVE  ScreenStep
BY DEF ScreenInv, OnlyMode, ScreenStep, RevealStep

\* A load under the open form, or at the start.
LEMMA ReloadIsSafe ==
  ASSUME NEW s, Shaped(s), Drawn(s, index), index = Index(held),
         NEW v, NEW f, NEW otherwise, Reload(s, v, f, otherwise),
         ~quit', s.filtering => IsIdle'
  PROVE  ScreenStep
BY ReloadIsDrawn, FreshIsSafe

LEMMA SaveFailsIsSafe ==
  ASSUME ScreenInv, NEW rows, SaveFails(rows), ~quit', screen.filtering => IsIdle'
  PROVE  ScreenStep
<1>1. PICK v, f, otherwise : Reload(screen, v, f, otherwise)
  BY DEF SaveFails
<1>2. Shaped(screen) /\ Drawn(screen, index) /\ index = Index(held)
  BY DEF ScreenInv
<1> QED
  BY <1>1, <1>2, ReloadIsSafe

LEMMA SavedIsSafe ==
  ASSUME ScreenInv, ~quit', IsIdle', index' = Index(held'),
         NEW pick, screen' = Synced(Rebuilt(screen, index', pick), held')
  PROVE  ScreenStep
<1>1. PICK x, h : x = index' /\ h = held'
  OBVIOUS
<1>2. Redrawn(Synced(Rebuilt(screen, x, pick), h), x, h)
  BY RegroupedIsDrawn DEF ScreenInv
<1>3. Redrawn(screen', index', held')
  BY <1>1, <1>2
<1> QED
  BY <1>3, FreshIsSafe

LEMMA ScreenStepSafe == ScreenInv /\ [TerminalNext]_tvars => ScreenStep
<1> SUFFICES ASSUME ScreenInv, [TerminalNext]_tvars PROVE ScreenStep
  OBVIOUS
<1>1. ASSUME Start PROVE ScreenStep
  <2>1. Reload(BlankScreen, vault, foreign, stale) /\ ~quit' /\ IsIdle'
    BY <1>1 DEF Start, IsIdle, Idle
  <2>2. held = << >> /\ index = Index(held)
    BY <1>1 DEF Start, ScreenInv
  <2> QED
    BY <2>1, <2>2, BlankIsDrawn, ReloadIsSafe
<1>2. ASSUME Move PROVE ScreenStep
  BY <1>2, MoveRedraws, RedrawIsSafe DEF Move
<1>3. ASSUME ClickRow PROVE ScreenStep
  BY <1>3, ClickRedraws, RedrawIsSafe DEF ClickRow
<1>4. ASSUME ToggleReveal PROVE ScreenStep
  BY <1>4, FlipIsSafe DEF ToggleReveal, Flips
<1>5. ASSUME OpenSelected PROVE ScreenStep
  BY <1>5, OpenRedraws, RedrawIsSafe DEF OpenSelected, Commands
<1>6. ASSUME BeginFilter PROVE ScreenStep
  BY <1>6, FlipIsSafe DEF BeginFilter, Commands, Flips
<1>7. ASSUME TypeFilter PROVE ScreenStep
  BY <1>7, FilterRedraws, RedrawIsSafe DEF TypeFilter
<1>8. ASSUME CommitFilter PROVE ScreenStep
  BY <1>8, FlipIsSafe DEF CommitFilter, Flips
<1>9. ASSUME EscLayer PROVE ScreenStep
  BY <1>9, EscRedraws, RedrawIsSafe DEF EscLayer
<1>10. ASSUME Quit PROVE ScreenStep
  <2>1. ScreenInv'
    BY <1>10, BlankIsDrawn DEF Quit, ScreenInv, IsIdle, Idle, BlankScreen
  <2>2. RevealStep
    BY <1>10 DEF Quit, RevealStep, BlankScreen
  <2> QED
    BY <2>1, <2>2 DEF ScreenStep
<1>11. ASSUME BeginAdd \/ BeginPick \/ BeginEdit \/ BeginDelete PROVE ScreenStep
  <2>1. OnlyMode /\ ~quit /\ ~screen.filtering
    BY <1>11 DEF BeginAdd, BeginPick, BeginEdit, BeginDelete, Commands
  <2> QED
    BY <2>1, ModeIsSafe
<1>12. ASSUME Choose \/ Type \/ Cancel PROVE ScreenStep
  <2>1. OnlyMode /\ ~quit /\ ~IsIdle
    BY <1>12 DEF Choose, Type, Cancel, IsIdle, HasForm
  <2>2. ~screen.filtering
    BY <2>1 DEF ScreenInv
  <2> QED
    BY <2>1, <2>2, ModeIsSafe
<1>13. ASSUME CommitSaved PROVE ScreenStep
  <2>1. PICK first : screen' = Synced(Rebuilt(screen, index', Want(screen, first)), held')
    BY <1>13 DEF CommitSaved
  <2>2. ~quit' /\ IsIdle' /\ index' = Index(held')
    BY <1>13 DEF CommitSaved, SaveOk, Holds, IsIdle, Idle
  <2> QED
    BY <2>1, <2>2, SavedIsSafe
<1>14. ASSUME CommitFailed PROVE ScreenStep
  <2>1. SaveFails(After(mode)) /\ ~quit' /\ mode' = mode
    BY <1>14 DEF CommitFailed
  <2>2. screen.filtering => IsIdle'
    BY <2>1 DEF ScreenInv, IsIdle
  <2> QED
    BY <2>1, <2>2, SaveFailsIsSafe
<1>15. ASSUME DeleteSaved PROVE ScreenStep
  <2>1. ~quit' /\ IsIdle' /\ index' = Index(held')
    BY <1>15 DEF DeleteSaved, SaveOk, Holds, IsIdle, Idle
  <2>2. screen' = Synced(Rebuilt(screen, index', Selected(screen).label), held')
    BY <1>15 DEF DeleteSaved, Regrouped
  <2> QED
    BY <2>1, <2>2, SavedIsSafe
<1>16. ASSUME DeleteFailed PROVE ScreenStep
  <2>1. SaveFails(Without(mode.gone)) /\ ~quit' /\ IsIdle'
    BY <1>16 DEF DeleteFailed, IsIdle, Idle
  <2> QED
    BY <2>1, SaveFailsIsSafe
<1>17. ASSUME Elsewhere \/ UNCHANGED tvars PROVE ScreenStep
  <2>1. UNCHANGED <<held, index, mode, screen, quit>>
    BY <1>17 DEF Elsewhere, tvars
  <2> QED
    BY <2>1 DEF ScreenStep, ScreenInv, RevealStep, IsIdle
<1> QED
  BY <1>1, <1>2, <1>3, <1>4, <1>5, <1>6, <1>7, <1>8, <1>9, <1>10, <1>11, <1>12, <1>13, <1>14, <1>15, <1>16, <1>17
     DEF TerminalNext

THEOREM ScreenSafe == TerminalSpec => []ScreenInv
<1>1. ScreenInv /\ [TerminalNext]_tvars => ScreenInv'
  BY ScreenStepSafe DEF ScreenStep
<1> QED
  BY <1>1, ScreenInitSafe, PTL DEF TerminalSpec

\* What is drawn is what the register holds, after any sequence of keys, saves,
\* failed saves and reloads, for any schemas and any vault.
THEOREM TheScreenIsTheRegister == TerminalSpec => []ScreenIsRegister
<1>1. ScreenInv => ScreenIsRegister
  BY DEF ScreenInv, ScreenIsRegister, Drawn, Shows
<1> QED
  BY <1>1, ScreenSafe, PTL

\* No step keeps the pane unmasked and shows something else in it.
THEOREM RevealsAreOfOneRow == TerminalSpec => RevealIsOfOneRow
<1>1. ScreenInv /\ [TerminalNext]_tvars => RevealStep
  BY ScreenStepSafe DEF ScreenStep
<1> QED
  BY <1>1, ScreenSafe, PTL DEF TerminalSpec, RevealIsOfOneRow

(* The register and the vault *)

FormFields == {"kind", "editing", "name", "provider", "text"}
SchemaForm ==
  /\ mode.provider \in Providers /\ DOMAIN mode.text = Keys(mode.provider)
  /\ mode.name \notin {NoText, mode.editing} => \A k \in Keys(mode.provider) : Child(mode.name, k) # {}
FormInv ==
  HasForm =>
    /\ DOMAIN mode = FormFields
    /\ mode.name \in Paths \union {NoText}
    /\ mode.kind = "add" => DOMAIN mode.text = {NoText}
    /\ mode.kind = "provider" => SchemaForm

\* While saves are not refused, and nobody else saved, the register is the vault.
HeldInv ==
  /\ mode.kind = "delete" => ~blocked
  /\ ~quit /\ foreign => blocked \/ stale
  /\ ~quit /\ ~blocked /\ ~stale => held = vault
NamesInv == DOMAIN vault \subseteq Paths /\ DOMAIN held \subseteq Paths

RegisterInv == ScreenInv /\ FormInv /\ HeldInv /\ NamesInv /\ others \in Nat

LEMMA RegisterInitSafe == TerminalInit => RegisterInv
<1> SUFFICES ASSUME TerminalInit PROVE RegisterInv
  OBVIOUS
<1>1. ScreenInv
  BY ScreenInitSafe
<1>2. FormInv /\ HeldInv
  BY DEF TerminalInit, FormInv, HeldInv, HasForm, Idle
<1>3. DOMAIN vault \subseteq Paths
  BY TerminalAssumption DEF TerminalInit, TerminalAssumption
<1>4. DOMAIN held \subseteq Paths /\ others \in Nat
  BY DEF TerminalInit
<1> QED
  BY <1>1, <1>2, <1>3, <1>4 DEF RegisterInv, NamesInv

\* A row is labelled by a path, whatever the vault.
LEMMA LabelsArePaths ==
  ASSUME NEW h, NEW o, NEW f, NEW i \in DOMAIN RowsOf(Index(h), o, f)
  PROVE  RowsOf(Index(h), o, f)[i].label \in Paths
<1> DEFINE x == Index(h)
<1>1. CASE IsBundle(x, o)
  <2> DEFINE S == {n \in Paths : n \in x.row[o].members}
             names == InOrder(S)
  <2>1. RowsOf(x, o, f) = [j \in DOMAIN names |-> [label |-> names[j], members |-> {names[j]}, provider |-> NoText]]
    BY <1>1 DEF RowsOf
  <2>2. \A j \in DOMAIN names : names[j] \in S
    BY InOrderLists
  <2> HIDE DEF names, x
  <2>3. i \in DOMAIN names /\ RowsOf(x, o, f)[i].label = names[i]
    BY <2>1 DEF x
  <2> QED
    BY <2>2, <2>3 DEF x
<1>2. CASE ~IsBundle(x, o)
  <2> DEFINE S == {l \in Paths : l \in DOMAIN x.row /\ Matches(x.row[l], f)}
             names == InOrder(S)
  <2>1. RowsOf(x, o, f) = [j \in DOMAIN names |-> x.row[names[j]]]
    BY <1>2 DEF RowsOf
  <2>2. \A j \in DOMAIN names : names[j] \in S
    BY InOrderLists
  <2>3. \A l \in DOMAIN x.row : x.row[l].label = l
    BY DEF Index, Rows, Row
  <2> HIDE DEF names, x
  <2>4. i \in DOMAIN names /\ RowsOf(x, o, f)[i] = x.row[names[i]]
    BY <2>1 DEF x
  <2>5. names[i] \in Paths /\ names[i] \in DOMAIN x.row
    BY <2>2, <2>4
  <2> QED
    BY <2>3, <2>4, <2>5 DEF x
<1> QED
  BY <1>1, <1>2

LEMMA SelectedIsAPath ==
  ASSUME ScreenInv, Selected(screen) # NoRow
  PROVE  Selected(screen).label \in Paths
<1>1. screen.selected \in DOMAIN screen.rows /\ Selected(screen) = screen.rows[screen.selected]
  BY DEF Selected
<1>2. screen.rows = RowsOf(Index(held), screen.open, screen.filter)
  BY DEF ScreenInv, Drawn
<1> QED
  BY <1>1, <1>2, LabelsArePaths

LEMMA PlainForm ==
  ASSUME NEW n, NEW v, NEW e
  PROVE  LET form == [Plain(n, v) EXCEPT !.editing = e]
         IN  /\ DOMAIN form = FormFields /\ form.kind = "add" /\ form.name = n
             /\ DOMAIN form.text = {NoText}
BY DEF Plain, Single, FormFields

LEMMA SchemasForm ==
  ASSUME NEW p, NEW n, NEW pairs, NEW e
  PROVE  LET form == [Schema(p, n, pairs) EXCEPT !.editing = e]
         IN  /\ DOMAIN form = FormFields /\ form.kind = "provider" /\ form.name = n
             /\ form.provider = p /\ form.editing = e /\ DOMAIN form.text = Keys(p)
BY DEF Schema, FormFields

LEMMA FormOpens == RegisterInv /\ (BeginAdd \/ Choose \/ BeginEdit) => FormInv' /\ mode'.kind # "delete"
<1> SUFFICES ASSUME RegisterInv, BeginAdd \/ Choose \/ BeginEdit PROVE FormInv' /\ mode'.kind # "delete"
  OBVIOUS
<1>1. ASSUME BeginAdd PROVE FormInv' /\ mode'.kind # "delete"
  BY <1>1 DEF BeginAdd, Plain, Single, FormInv, FormFields
<1>2. ASSUME Choose PROVE FormInv' /\ mode'.kind # "delete"
  BY <1>2 DEF Choose, Schema, FormInv, SchemaForm, FormFields
<1>3. ASSUME BeginEdit PROVE FormInv' /\ mode'.kind # "delete"
  <2> DEFINE l == Selected(screen).label
  <2>1. l \in Paths
    BY <1>3, SelectedIsAPath DEF BeginEdit, RegisterInv
  <2>2. \/ \E v : mode' = [Plain(l, v) EXCEPT !.editing = l]
        \/ \E p \in Providers : \E pairs : mode' = [Schema(p, l, pairs) EXCEPT !.editing = l]
    BY <1>3 DEF BeginEdit
  <2> HIDE DEF l
  <2>3. ASSUME NEW v, mode' = [Plain(l, v) EXCEPT !.editing = l] PROVE FormInv' /\ mode'.kind # "delete"
    BY <2>1, <2>3, PlainForm DEF FormInv
  <2>4. ASSUME NEW p \in Providers, NEW pairs, mode' = [Schema(p, l, pairs) EXCEPT !.editing = l]
        PROVE  FormInv' /\ mode'.kind # "delete"
    BY <2>1, <2>4, SchemasForm DEF FormInv, SchemaForm
  <2> QED
    BY <2>2, <2>3, <2>4
<1> QED
  BY <1>1, <1>2, <1>3

LEMMA FormTyped == RegisterInv /\ Type => FormInv' /\ mode'.kind # "delete"
<1> SUFFICES ASSUME RegisterInv, Type PROVE FormInv' /\ mode'.kind # "delete"
  OBVIOUS
<1>1. HasForm /\ DOMAIN mode = FormFields
  BY DEF Type, RegisterInv, FormInv
<1>2. ASSUME NEW n \in Paths \union {NoText},
             mode.kind = "provider" /\ n # NoText => \A k \in Keys(mode.provider) : Child(n, k) # {},
             mode' = [mode EXCEPT !.name = n]
      PROVE  FormInv' /\ mode'.kind # "delete"
  <2>1. /\ DOMAIN mode' = FormFields /\ mode'.kind = mode.kind /\ mode'.name = n /\ mode'.text = mode.text
        /\ mode'.provider = mode.provider /\ mode'.editing = mode.editing
    BY <1>1, <1>2 DEF FormFields
  <2> QED
    BY <1>1, <1>2, <2>1 DEF RegisterInv, FormInv, SchemaForm, HasForm
<1>3. ASSUME NEW k \in DOMAIN mode.text, NEW v, mode' = [mode EXCEPT !.text[k] = v]
      PROVE  FormInv' /\ mode'.kind # "delete"
  <2>1. /\ DOMAIN mode' = FormFields /\ mode'.kind = mode.kind /\ mode'.name = mode.name
        /\ DOMAIN mode'.text = DOMAIN mode.text
        /\ mode'.provider = mode.provider /\ mode'.editing = mode.editing
    BY <1>1, <1>3 DEF FormFields
  <2> QED
    BY <1>1, <1>3, <2>1 DEF RegisterInv, FormInv, SchemaForm, HasForm
<1> QED
  BY <1>2, <1>3 DEF Type

(* What a save writes *)

\* An entry that is neither written nor left behind stays as it is.
LEMMA AfterKeeps ==
  ASSUME NEW n, n \notin DOMAIN Writes(mode), n \notin Gone(mode)
  PROVE  /\ n \in DOMAIN After(mode) <=> n \in DOMAIN held
         /\ n \in DOMAIN held => After(mode)[n] = held[n]
<1> DEFINE w == Writes(mode)
           g == Gone(mode)
<1>1. After(mode) = Over(w, Without(g))
  BY DEF After
<1> HIDE DEF w, g
<1>2. n \notin DOMAIN w /\ n \notin g
  BY DEF w, g
<1> QED
  BY <1>1, <1>2 DEF Over, Without

LEMMA AfterWrites ==
  ASSUME NEW n \in DOMAIN Writes(mode)
  PROVE  n \in DOMAIN After(mode) /\ After(mode)[n] = Writes(mode)[n]
BY DEF After, Over

LEMMA WritesAreNamed ==
  ASSUME NEW n \in DOMAIN Writes(mode)
  PROVE  n = mode.name \/ (n \in Paths /\ Parent[n] = mode.name)
<1>1. CASE mode.kind = "add"
  <2>1. Writes(mode) = [x \in {mode.name} |-> Value(mode.text[NoText])]
    BY <1>1 DEF Writes
  <2> QED
    BY <2>1
<1>2. CASE mode.kind # "add" /\ mode.kind = "provider" /\ AsSiblings(mode)
  <2>1. n \in UNION {Child(mode.name, k) : k \in DOMAIN Payload(mode)}
    BY <1>2 DEF Writes
  <2> QED
    BY <2>1 DEF Child
<1>3. CASE mode.kind # "add" /\ ~(mode.kind = "provider" /\ AsSiblings(mode))
  <2>1. Writes(mode) = [x \in {mode.name} |-> Bundle(mode.provider, Payload(mode))]
    BY <1>3 DEF Writes
  <2> QED
    BY <2>1
<1> QED
  BY <1>1, <1>2, <1>3

LEMMA GoneAreMine ==
  ASSUME NEW n \in Gone(mode)
  PROVE  n \in MembersOf(mode.editing) \union {mode.editing}
<1>1. CASE mode.kind = "provider" /\ AsSiblings(mode)
  BY <1>1 DEF Gone
<1>2. CASE ~(mode.kind = "provider" /\ AsSiblings(mode))
  BY <1>2 DEF Gone
<1> QED
  BY <1>1, <1>2

LEMMA AfterNames ==
  ASSUME FormInv, NamesInv, HasForm, ~Refused(mode)
  PROVE  DOMAIN After(mode) \subseteq Paths
<1>1. mode.name \in Paths
  BY DEF FormInv, Refused
<1>2. DOMAIN Writes(mode) \subseteq Paths
  BY <1>1, WritesAreNamed
<1>3. DOMAIN After(mode) \subseteq DOMAIN Writes(mode) \union DOMAIN held
  BY DEF After, Over, Without
<1> QED
  BY <1>2, <1>3 DEF NamesInv

(* The register after a step *)

LEMMA ReloadHolds ==
  ASSUME NEW s, Reload(s, vault, foreign, stale), UNCHANGED <<vault, foreign>>, NamesInv,
         mode'.kind # "delete"
  PROVE  HeldInv' /\ NamesInv'
BY DEF Reload, Holds, HeldInv, NamesInv

LEMMA SaveFailsHolds ==
  ASSUME NEW rows, DOMAIN rows \subseteq Paths, SaveFails(rows), NamesInv, mode'.kind # "delete"
  PROVE  HeldInv' /\ NamesInv'
<1>1. CASE Reload(screen, vault, foreign, stale) /\ UNCHANGED <<vault, foreign, puts>>
  BY <1>1, ReloadHolds
<1>2. CASE Put(rows) /\ Reload(screen, rows, FALSE, TRUE)
  BY <1>2 DEF Put, Reload, Holds, HeldInv, NamesInv
<1> QED
  BY <1>1, <1>2 DEF SaveFails

LEMMA SaveHolds ==
  ASSUME NEW rows, DOMAIN rows \subseteq Paths, SaveOk(rows), mode'.kind # "delete"
  PROVE  HeldInv' /\ NamesInv'
BY DEF SaveOk, Put, Holds, HeldInv, NamesInv

LEMMA RestHolds ==
  ASSUME RegisterInv, UNCHANGED <<vault, foreign, stale, held, blocked, quit>>,
         mode'.kind = "delete" => ~blocked
  PROVE  HeldInv' /\ NamesInv'
BY DEF RegisterInv, HeldInv, NamesInv

LEMMA IdleHolds ==
  ASSUME mode'.kind \in {"idle", "pick", "delete"} PROVE FormInv'
BY DEF FormInv, HasForm

LEMMA OthersCounted == [TerminalNext]_tvars => others' = others \/ others' = others + 1
BY DEF TerminalNext, tvars, Start, OnlyScreen, OnlyMode, Move, ClickRow, ToggleReveal, OpenSelected,
       BeginFilter, TypeFilter, CommitFilter, EscLayer, Quit, BeginAdd, BeginPick, Choose, BeginEdit,
       BeginDelete, Cancel, Type, CommitSaved, CommitFailed, DeleteSaved, DeleteFailed, Elsewhere

LEMMA RegisterStepSafe == RegisterInv /\ [TerminalNext]_tvars => RegisterInv'
<1> SUFFICES ASSUME RegisterInv, [TerminalNext]_tvars PROVE FormInv' /\ HeldInv' /\ NamesInv'
  BY ScreenStepSafe, OthersCounted DEF RegisterInv, ScreenStep
<1> USE DEF Idle
<1>0. FormInv /\ HeldInv /\ NamesInv
  BY DEF RegisterInv
<1>1. ASSUME Start PROVE FormInv' /\ HeldInv' /\ NamesInv'
  <2>1. Reload(BlankScreen, vault, foreign, stale) /\ UNCHANGED <<vault, foreign>> /\ mode'.kind = "idle"
    BY <1>1 DEF Start
  <2> QED
    BY <2>1, <1>0, ReloadHolds, IdleHolds
<1>2. ASSUME OnlyScreen PROVE FormInv' /\ HeldInv' /\ NamesInv'
  <2>1. UNCHANGED <<vault, foreign, stale, held, blocked, mode, quit>>
    BY <1>2 DEF OnlyScreen
  <2>2. mode'.kind = "delete" => ~blocked
    BY <2>1, <1>0 DEF HeldInv
  <2>3. FormInv'
    BY <2>1, <1>0 DEF FormInv, SchemaForm, HasForm
  <2> QED
    BY <2>1, <2>2, <2>3, RestHolds
<1>3. ASSUME Quit PROVE FormInv' /\ HeldInv' /\ NamesInv'
  BY <1>0, <1>3, IdleHolds DEF Quit, HeldInv, NamesInv
<1>4. ASSUME BeginAdd \/ Choose \/ BeginEdit \/ Type PROVE FormInv' /\ HeldInv' /\ NamesInv'
  <2>1. FormInv' /\ mode'.kind # "delete"
    BY <1>4, FormOpens, FormTyped
  <2>2. OnlyMode
    BY <1>4 DEF BeginAdd, Choose, BeginEdit, Type
  <2> QED
    BY <2>1, <2>2, RestHolds DEF OnlyMode
<1>5. ASSUME BeginPick \/ BeginDelete \/ Cancel PROVE FormInv' /\ HeldInv' /\ NamesInv'
  <2>1. mode'.kind \in {"idle", "pick", "delete"} /\ (mode'.kind = "delete" => ~blocked) /\ OnlyMode
    BY <1>5 DEF BeginPick, BeginDelete, Cancel
  <2> QED
    BY <2>1, RestHolds, IdleHolds DEF OnlyMode
<1>6. ASSUME CommitSaved PROVE FormInv' /\ HeldInv' /\ NamesInv'
  <2>1. SaveOk(After(mode)) /\ mode'.kind = "idle" /\ HasForm /\ ~Refused(mode)
    BY <1>6 DEF CommitSaved
  <2> QED
    BY <2>1, <1>0, AfterNames, SaveHolds, IdleHolds
<1>7. ASSUME CommitFailed PROVE FormInv' /\ HeldInv' /\ NamesInv'
  <2>1. SaveFails(After(mode)) /\ mode' = mode /\ HasForm /\ ~Refused(mode)
    BY <1>7 DEF CommitFailed
  <2>2. FormInv' /\ mode'.kind # "delete"
    BY <2>1, <1>0 DEF FormInv, SchemaForm, HasForm
  <2> QED
    BY <2>1, <2>2, <1>0, AfterNames, SaveFailsHolds
<1>8. ASSUME DeleteSaved PROVE FormInv' /\ HeldInv' /\ NamesInv'
  <2>1. SaveOk(Without(mode.gone)) /\ mode'.kind = "idle"
    BY <1>8 DEF DeleteSaved
  <2>2. DOMAIN Without(mode.gone) \subseteq Paths
    BY <1>0 DEF Without, NamesInv
  <2> QED
    BY <2>1, <2>2, SaveHolds, IdleHolds
<1>9. ASSUME DeleteFailed PROVE FormInv' /\ HeldInv' /\ NamesInv'
  <2>1. SaveFails(Without(mode.gone)) /\ mode'.kind = "idle"
    BY <1>9 DEF DeleteFailed
  <2>2. DOMAIN Without(mode.gone) \subseteq Paths
    BY <1>0 DEF Without, NamesInv
  <2> QED
    BY <2>1, <2>2, <1>0, SaveFailsHolds, IdleHolds
<1>10. ASSUME Elsewhere PROVE FormInv' /\ HeldInv' /\ NamesInv'
  <2>1. UNCHANGED <<held, blocked, mode, quit>> /\ stale' = TRUE
    BY <1>10 DEF Elsewhere
  <2>2. DOMAIN vault' \subseteq Paths
    <3>1. CASE UNCHANGED vault
      BY <3>1, <1>0 DEF NamesInv
    <3>2. ASSUME NEW c \in Foreigner,
                 vault' = IF c.entry = NoEntry THEN [n \in DOMAIN vault \ {c.path} |-> vault[n]]
                          ELSE Over([n \in {c.path} |-> c.entry], vault)
          PROVE  DOMAIN vault' \subseteq Paths
      <4>1. c.path \in Paths
        BY TerminalAssumption DEF TerminalAssumption
      <4> QED
        BY <3>2, <4>1, <1>0 DEF Over, NamesInv
    <3> QED
      BY <1>10, <3>1, <3>2 DEF Elsewhere
  <2>3. FormInv'
    BY <2>1, <1>0 DEF FormInv, SchemaForm, HasForm
  <2> QED
    BY <1>0, <2>1, <2>2, <2>3 DEF HeldInv, NamesInv
<1>11. ASSUME UNCHANGED tvars PROVE FormInv' /\ HeldInv' /\ NamesInv'
  BY <1>0, <1>11 DEF tvars, FormInv, SchemaForm, HasForm, HeldInv, NamesInv
<1>12. Move \/ ClickRow \/ ToggleReveal \/ OpenSelected \/ BeginFilter \/ TypeFilter
         \/ CommitFilter \/ EscLayer => OnlyScreen
  BY DEF Move, ClickRow, ToggleReveal, OpenSelected, BeginFilter, TypeFilter, CommitFilter, EscLayer
<1> QED
  BY <1>1, <1>2, <1>3, <1>4, <1>5, <1>6, <1>7, <1>8, <1>9, <1>10, <1>11, <1>12 DEF TerminalNext

THEOREM RegisterSafe == TerminalSpec => []RegisterInv
BY RegisterInitSafe, RegisterStepSafe, PTL DEF TerminalSpec

(* The promises of a save *)

\* Where a vault of this program comes from, and what the register held then.
LEMMA SavedFrom ==
  ASSUME RegisterInv, [TerminalNext]_tvars, others' = others, <<vault, foreign>>' # <<vault, foreign>>
  PROVE  /\ ~blocked /\ ~stale /\ ~quit /\ held = vault
         /\ \/ HasForm /\ ~Refused(mode) /\ vault' = After(mode)
            \/ mode.kind = "delete" /\ vault' = Without(mode.gone)
<1>1. ASSUME NEW rows, Put(rows), ~quit, ~blocked PROVE ~stale /\ held = vault /\ vault' = rows
  BY <1>1 DEF Put, RegisterInv, HeldInv
<1>2. ASSUME NEW rows, SaveFails(rows) PROVE Put(rows)
  BY <1>2 DEF SaveFails
<1>3. ASSUME CommitSaved \/ CommitFailed PROVE HasForm /\ ~Refused(mode) /\ Put(After(mode)) /\ ~quit /\ ~blocked
  BY <1>2, <1>3 DEF CommitSaved, CommitFailed, SaveOk, Refused
<1>4. ASSUME DeleteSaved \/ DeleteFailed PROVE mode.kind = "delete" /\ Put(Without(mode.gone)) /\ ~quit /\ ~blocked
  BY <1>2, <1>4 DEF DeleteSaved, DeleteFailed, SaveOk, RegisterInv, HeldInv
<1>5. ~Elsewhere
  BY DEF Elsewhere, RegisterInv
<1>6. CommitSaved \/ CommitFailed \/ DeleteSaved \/ DeleteFailed
  BY <1>5 DEF TerminalNext, tvars, Start, OnlyScreen, OnlyMode, Move, ClickRow, ToggleReveal, OpenSelected,
       BeginFilter, TypeFilter, CommitFilter, EscLayer, Quit, BeginAdd, BeginPick, Choose, BeginEdit,
       BeginDelete, Cancel, Type
<1> QED
  BY <1>1, <1>3, <1>4, <1>6

LEMMA SaveEdits == RegisterInv /\ [TerminalNext]_tvars => SavesWhatWasEdited
<1> SUFFICES ASSUME RegisterInv, [TerminalNext]_tvars, others' = others, vault' # vault
             PROVE  SavesWhatWasEdited
  BY DEF SavesWhatWasEdited
<1> DEFINE mine  == IF HasForm THEN MembersOf(mode.editing) \union {mode.editing} ELSE {}
           named == IF HasForm THEN {n \in Paths : mode.name \in {n, Parent[n]}} ELSE mode.gone
           same(n) == (n \in DOMAIN vault) = (n \in DOMAIN vault') /\ (n \in DOMAIN vault => vault'[n] = vault[n])
<1>1. /\ ~blocked /\ held = vault
      /\ \/ HasForm /\ ~Refused(mode) /\ vault' = After(mode)
         \/ mode.kind = "delete" /\ vault' = Without(mode.gone)
  BY SavedFrom
<1>2. CASE HasForm /\ ~Refused(mode) /\ vault' = After(mode)
  <2>1. ASSUME NEW n, n \notin DOMAIN Writes(mode), n \notin mine PROVE same(n)
    <3>1. n \notin Gone(mode)
      BY <1>2, <2>1, GoneAreMine
    <3> QED
      BY <1>1, <1>2, <2>1, <3>1, AfterKeeps
  <2>2. ASSUME NEW n \in Paths, n \notin named PROVE n \notin DOMAIN Writes(mode)
    BY <1>2, <2>2, WritesAreNamed
  <2>3. ASSUME mode.editing \notin {NoText, mode.name}, NEW n \in DOMAIN vault, n \notin mine
        PROVE  n \notin DOMAIN Writes(mode)
    <3>1. ~Collides(mode)
      BY <1>2 DEF Refused
    <3>2. mode.name \notin DOMAIN held /\ (n \notin MembersOf(mode.editing) => Parent[n] # mode.name)
      BY <1>1, <2>3, <3>1 DEF Collides
    <3> QED
      BY <1>1, <1>2, <2>3, <3>2, WritesAreNamed
  <2>4. \A n \in Paths \ (mine \union named) : same(n)
    BY <2>1, <2>2
  <2>5. mode.editing \notin {NoText, mode.name} => \A n \in DOMAIN vault \ mine : same(n)
    BY <2>1, <2>3
  <2> QED
    BY <2>4, <2>5 DEF SavesWhatWasEdited
<1>3. CASE mode.kind = "delete" /\ vault' = Without(mode.gone)
  <2>1. ~HasForm
    BY <1>3 DEF HasForm
  <2>2. \A n \in Paths \ mode.gone : same(n)
    BY <1>1, <1>3 DEF Without
  <2> QED
    BY <2>1, <2>2 DEF SavesWhatWasEdited
<1> QED
  BY <1>1, <1>2, <1>3

LEMMA SaveKeepsForeign == RegisterInv /\ [TerminalNext]_tvars => ForeignStep
<1> SUFFICES ASSUME RegisterInv, [TerminalNext]_tvars, foreign, ~foreign', others' = others PROVE FALSE
  BY DEF ForeignStep
<1>1. ~blocked /\ ~stale /\ ~quit
  BY SavedFrom
<1> QED
  BY <1>1 DEF RegisterInv, HeldInv

\* Where a bundle is stored as siblings, there is a path for every field.
LEMMA SiblingsHaveFields ==
  ASSUME NamesInv, index = Index(held), AsSiblings(mode), NEW p \in Providers, NEW k \in Keys(p)
  PROVE  Child(mode.editing, k) # {}
<1> DEFINE l == mode.editing
<1>1. l # NoText /\ l \in DOMAIN index.row /\ Cardinality(index.row[l].members) > 1
  BY DEF AsSiblings, IsBundle
<1>2. PICK owner : index = Rows(held, owner)
  BY DEF Index
<1>3. index.row[l] = Row(held, owner, l)
  BY <1>1, <1>2 DEF Rows
<1>4. index.row[l].members = Siblings(held, l) \/ index.row[l].members = {l}
  BY <1>3 DEF Row
<1>5. Cardinality({l}) = 1
  BY FS_Singleton
<1>6. index.row[l].members = Siblings(held, l) /\ Siblings(held, l) # {}
  BY <1>1, <1>4, <1>5, FS_EmptySet
<1>7. PICK m \in DOMAIN held : Parent[m] = l
  BY <1>6 DEF Siblings
<1> QED
  BY <1>1, <1>7, TerminalAssumption DEF TerminalAssumption, NamesInv

LEMMA SaveHasTyped ==
  ASSUME RegisterInv, HasForm, ~Refused(mode)
  PROVE  TypedIsIn(mode, After(mode))
<1> DEFINE p == Payload(mode)
           n == mode.name
<1>1. \A k \in DOMAIN p : k \in DOMAIN mode.text /\ p[k] = mode.text[k]
  BY DEF Payload
<1>2. CASE mode.kind = "add"
  <2>1. Writes(mode) = [x \in {n} |-> Value(mode.text[NoText])]
    BY <1>2 DEF Writes
  <2>2. n \in DOMAIN After(mode) /\ After(mode)[n] = Value(mode.text[NoText])
    BY <2>1, AfterWrites
  <2>3. \A k \in DOMAIN p : k = NoText
    BY <1>1, <1>2 DEF RegisterInv, FormInv
  <2>4. \A k \in DOMAIN p : k \in DOMAIN After(mode)[n].fields /\ After(mode)[n].fields[k] = mode.text[k]
    BY <2>2, <2>3 DEF Value, Single
  <2> QED
    BY <2>2, <2>4 DEF TypedIsIn
<1>3. CASE mode.kind = "provider" /\ AsSiblings(mode)
  <2>1. SchemaForm
    BY <1>3 DEF RegisterInv, FormInv
  <2>2. ASSUME NEW k \in DOMAIN p
        PROVE  \E m \in Child(n, k) : m \in DOMAIN After(mode) /\ After(mode)[m].fields = Single(mode.text[k])
    <3>1. k \in Keys(mode.provider) /\ mode.provider \in Providers
      BY <1>1, <2>1, <2>2 DEF SchemaForm
    <3>2. Child(n, k) # {}
      <4>1. CASE n = mode.editing
        BY <1>3, <3>1, <4>1, SiblingsHaveFields DEF RegisterInv, ScreenInv
      <4>2. CASE n # mode.editing
        BY <2>1, <3>1, <4>2 DEF SchemaForm, Refused
      <4> QED
        BY <4>1, <4>2
    <3>3. PICK m \in Child(n, k) : TRUE
      BY <3>2
    <3>4. Leaf[m] = k
      BY DEF Child
    <3>5. Writes(mode) = [x \in UNION {Child(n, j) : j \in DOMAIN p} |-> Value(mode.text[Leaf[x]])]
      BY <1>3 DEF Writes
    <3>6. m \in DOMAIN Writes(mode) /\ Writes(mode)[m] = Value(mode.text[k])
      BY <2>2, <3>4, <3>5
    <3>7. m \in DOMAIN After(mode) /\ After(mode)[m] = Value(mode.text[k])
      BY <3>6, AfterWrites
    <3> QED
      BY <3>7 DEF Value
  <2> QED
    BY <2>2 DEF TypedIsIn
<1>4. CASE mode.kind = "provider" /\ ~AsSiblings(mode)
  <2>1. Writes(mode) = [x \in {n} |-> Bundle(mode.provider, p)]
    BY <1>4 DEF Writes
  <2>2. n \in DOMAIN After(mode) /\ After(mode)[n] = Bundle(mode.provider, p)
    BY <2>1, AfterWrites
  <2>3. After(mode)[n].fields = p
    BY <2>2 DEF Bundle
  <2> QED
    BY <1>1, <2>2, <2>3 DEF TypedIsIn
<1> QED
  BY <1>2, <1>3, <1>4 DEF HasForm

LEMMA ClosedIsSaved == RegisterInv /\ [TerminalNext]_tvars => TypedStep
<1> SUFFICES ASSUME RegisterInv, [TerminalNext]_tvars, HasForm, others' = others, ~quit', mode' = Idle,
                    <<vault, held, blocked>>' # <<vault, held, blocked>>
             PROVE  TypedIsIn(mode, vault')
  BY DEF TypedStep
<1>1. ~IsIdle /\ mode.kind # "delete" /\ ~quit /\ mode # Idle
  BY DEF HasForm, IsIdle, RegisterInv, ScreenInv, Idle
<1>2. CommitSaved
  BY <1>1 DEF TerminalNext, tvars, Start, OnlyScreen, OnlyMode, Move, ClickRow, ToggleReveal, OpenSelected,
       BeginFilter, TypeFilter, CommitFilter, EscLayer, Quit, BeginAdd, BeginPick, Choose, BeginEdit,
       BeginDelete, Cancel, Type, CommitFailed, DeleteSaved, DeleteFailed, Elsewhere
<1>3. vault' = After(mode) /\ ~Refused(mode)
  BY <1>2 DEF CommitSaved, SaveOk, Put
<1> QED
  BY <1>3, SaveHasTyped

\* A save of this program changes the credential edited and what the form names,
\* and a rename replaces no entry that was not its own.
THEOREM SavesEditOne == TerminalSpec => OnlyWhatWasEdited
BY SaveEdits, RegisterSafe, PTL DEF TerminalSpec, OnlyWhatWasEdited

\* A form closes on a save only when what was typed is in the vault.
THEOREM TypedTextIsKept == TerminalSpec => TypedIsKept
BY ClosedIsSaved, RegisterSafe, PTL DEF TerminalSpec, TypedIsKept

\* The register never saves over an entry it could not open.
THEOREM ForeignIsKept == TerminalSpec => ForeignEntriesStay
BY SaveKeepsForeign, RegisterSafe, PTL DEF TerminalSpec, ForeignEntriesStay
=============================================================================
