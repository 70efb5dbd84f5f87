-------------------------- MODULE ApplyPlan_proofs --------------------------
(***************************************************************************)
(* Proofs about ApplyPlan, for any number of runs, any settings, any       *)
(* bounds and any interleaving the constants allow.                        *)
(***************************************************************************)
EXTENDS ApplyPlan, TLAPS

\* What keeps every access to a file in the code's handlers well defined: open
\* handles are linked to files that exist, a copy has its source and its
\* target, and a run that may roll back has the backup it would copy.
Unnamed == {"idle", "confirm", "open", "fill", "owner", "validate", "name"}
Copied(p) == pc[p] \in {"copying", "replace"} \/ Installed(p)

Linked ==
  \A p \in Procs :
    /\ fd[p] = "tmp" => tmp # NoFile
    /\ fd[p] = "path" => path # NoFile
    /\ pc[p] \in Unnamed => bak[p] = NoName
    /\ pc[p] \in {"copy", "copying"} => bak[p] # NoName
    /\ pc[p] \in {"copying", "restore"} => buf[p] # NoFile
    /\ Copied(p) /\ bak[p] # NoName => backups[bak[p]] # NoFile

TypeInv == TypeOK /\ Linked

LEMMA NameIsNoNoName == \A b \in Names : b # NoName
BY DEF Names, NoName

LEMMA NoFileIsNoFile == \A f \in Files : f # NoFile
BY ConstantsAssumption DEF Files, Torn, Texts, Modes

\* What a handler may put into a file is a text.
LEMMA DataIsText == ASSUME NEW f \in {NoFile} \cup Files PROVE Data(f) \in Texts
BY DEF Data, TextOf, Files, Torn, Texts

LEMMA AfterIsText == ASSUME TypeOK, NEW p \in Procs PROVE After(p) \in Texts
BY ConstantsAssumption DEF After, TypeOK, Texts

LEMMA LandingIsText ==
  ASSUME NEW old, NEW new \in Torn \cup Texts, NEW t \in Landing(old, new)
  PROVE t \in Torn \cup Texts
BY DEF Landing, Torn

LEMMA TypeInvInit == Init => TypeInv
<1> SUFFICES ASSUME Init PROVE TypeInv
  OBVIOUS
<1> USE NoFileIsNoFile
<1>1. path \in {NoFile} \cup Files
  BY DEF Init, Files, Modes
<1>2. versions \subseteq Texts
  BY <1>1 DEF Init, TextOf, Files, Torn
<1>3. TypeOK
  BY <1>1, <1>2, ConstantsAssumption DEF Init, TypeOK, Texts
<1>4. Linked
  BY DEF Init, Linked, Unnamed, Copied, Installed
<1> QED
  BY <1>3, <1>4 DEF TypeInv

LEMMA RelinkedType ==
  ASSUME TypeOK, NEW a \in {"none", "tmp", "path"}, NEW b \in {"none", "tmp", "path"}, Relinked(a, b)
  PROVE  /\ fd' \in [Procs -> {"none", "tmp", "path"}]
         /\ \A q \in Procs : fd'[q] = IF fd[q] = "tmp" THEN a ELSE IF fd[q] = "path" THEN b ELSE "none"
BY DEF Relinked, TypeOK

LEMMA TypeInvNext == TypeInv /\ [Next]_vars => TypeInv'
<1> SUFFICES ASSUME TypeInv, [Next]_vars PROVE TypeInv'
  OBVIOUS
<1> USE NoFileIsNoFile DEF TypeInv
<1>1. CASE UNCHANGED vars
  BY <1>1 DEF vars, TypeOK, Linked, Unnamed, Copied, Installed
<1>2. ASSUME NEW p \in Procs, Load(p), UNCHANGED saved PROVE TypeInv'
  <2>1. Data(path) \in Texts
    BY DataIsText DEF TypeOK
  <2>2. TypeOK'
    BY <1>2, <2>1 DEF Load, TypeOK, Goto, Running, Trying, Ended
  <2>3. Linked'
    BY <1>2 DEF Load, TypeOK, Linked, Unnamed, Copied, Installed, Goto
  <2> QED
    BY <2>2, <2>3
<1>3. ASSUME NEW p \in Procs, Confirm(p), UNCHANGED saved PROVE TypeInv'
  <2>1. TypeOK'
    BY <1>3 DEF Confirm, TypeOK, Goto, local, Running, Trying, Ended
  <2>2. Linked'
    BY <1>3 DEF Confirm, TypeOK, Linked, Unnamed, Copied, Installed, Goto, local
  <2> QED
    BY <2>1, <2>2
<1>4. ASSUME NEW p \in Procs, OpenTmp(p), UNCHANGED saved PROVE TypeInv'
  <2>1. tmp' \in Files
    BY <1>4 DEF OpenTmp, TypeOK, Files, Torn, Modes
  <2>2. TypeOK'
    BY <1>4, <2>1 DEF OpenTmp, TypeOK, Goto, Opens, local, Running, Trying
  <2>3. Linked'
    BY <1>4, <2>1 DEF OpenTmp, TypeOK, Linked, Unnamed, Copied, Installed, Goto, Opens, local
  <2> QED
    BY <2>2, <2>3
<1>5. ASSUME NEW p \in Procs, FillTmp(p), UNCHANGED saved PROVE TypeInv'
  <2>1. tmp' \in {NoFile} \cup Files /\ (tmp # NoFile => tmp' # NoFile)
    BY <1>5, AfterIsText, LandingIsText DEF FillTmp, TypeOK, Linked, Files
  <2>2. path' \in {NoFile} \cup Files /\ (path # NoFile => path' # NoFile)
    BY <1>5, AfterIsText, LandingIsText DEF FillTmp, TypeOK, Linked, Files
  <2>3. TypeOK'
    BY <1>5, <2>1, <2>2 DEF FillTmp, TypeOK, Goto, Opens, local, Running, Trying
  <2>4. Linked'
    BY <1>5, <2>1, <2>2 DEF FillTmp, TypeOK, Linked, Unnamed, Copied, Installed, Goto, Opens, local
  <2> QED
    BY <2>3, <2>4
<1>6. ASSUME NEW p \in Procs, CopyOwnership(p), UNCHANGED saved PROVE TypeInv'
  <2>1. tmp' \in {NoFile} \cup Files /\ (tmp # NoFile => tmp' # NoFile)
    BY <1>6 DEF CopyOwnership, OwnerMode, TypeOK, Files, Modes
  <2>2. TypeOK'
    BY <1>6, <2>1 DEF CopyOwnership, TypeOK, Goto, Raise, local, Running, Trying
  <2>3. Linked'
    BY <1>6, <2>1 DEF CopyOwnership, TypeOK, Linked, Unnamed, Copied, Installed, Goto, Raise, local
  <2> QED
    BY <2>2, <2>3
<1>7. ASSUME NEW p \in Procs, Validate(p), UNCHANGED saved PROVE TypeInv'
  <2>1. TypeOK'
    BY <1>7 DEF Validate, TypeOK, Goto, Raise, local, Running, Trying
  <2>2. Linked'
    BY <1>7 DEF Validate, TypeOK, Linked, Unnamed, Copied, Installed, Goto, Raise, local
  <2> QED
    BY <2>1, <2>2
<1>8. ASSUME NEW p \in Procs, NameBackup(p), UNCHANGED saved PROVE TypeInv'
  <2>1. \A n \in 0 .. MaxSuffix : <<Stamp(p), n>> \in Names
    BY DEF Names, Stamp
  <2>2. \/ Goto(p, "replace") /\ UNCHANGED bak
        \/ \E b \in Names : Goto(p, "copy") /\ bak' = [bak EXCEPT ![p] = b]
    BY <1>8, <2>1 DEF NameBackup
  <2>3. pc[p] = "name" /\ UNCHANGED <<path, tmp, backups, exc, base, buf, fd, edits, versions>>
    BY <1>8 DEF NameBackup, FreeName
  <2>4. TypeOK'
    BY <1>8, <2>2, <2>3 DEF TypeOK, Goto, Running, Trying
  <2>5. Linked'
    BY <2>2, <2>3, NameIsNoNoName DEF TypeOK, Linked, Unnamed, Copied, Installed, Goto
  <2> QED
    BY <2>4, <2>5
<1>9. ASSUME NEW p \in Procs, BeginCopy(p), UNCHANGED saved PROVE TypeInv'
  <2>1. CASE path = NoFile
    <3>1. TypeOK'
      BY <1>9, <2>1 DEF BeginCopy, TypeOK, Raise, Goto, Running, Trying
    <3>2. Linked'
      BY <1>9, <2>1 DEF BeginCopy, TypeOK, Linked, Unnamed, Copied, Installed, Raise, Goto
    <3> QED
      BY <3>1, <3>2
  <2>2. CASE path # NoFile
    <3>1. PICK c \in Files : backups' = [backups EXCEPT ![bak[p]] = c]
      BY <1>9, <2>2 DEF BeginCopy, TypeOK, Linked, Files, Torn, Modes
    <3>2. TypeOK'
      BY <1>9, <2>2, <3>1 DEF BeginCopy, TypeOK, Goto, Running, Trying
    <3>3. Linked'
      BY <1>9, <2>2, <3>1 DEF BeginCopy, TypeOK, Linked, Unnamed, Copied, Installed, Goto
    <3> QED
      BY <3>2, <3>3
  <2> QED
    BY <2>1, <2>2
<1>10. ASSUME NEW p \in Procs, EndCopy(p), UNCHANGED saved PROVE TypeInv'
  <2>1. buf[p] \in Files
    BY <1>10 DEF EndCopy, TypeOK, Linked
  <2>2. PICK c \in Files : backups' = [backups EXCEPT ![bak[p]] = c]
    BY <1>10, <2>1, LandingIsText DEF EndCopy, Files
  <2>3. TypeOK'
    BY <1>10, <2>2 DEF EndCopy, TypeOK, Goto, local, Running, Trying
  <2>4. Linked'
    BY <1>10, <2>2 DEF EndCopy, TypeOK, Linked, Unnamed, Copied, Installed, Goto, local
  <2> QED
    BY <2>3, <2>4
<1>11. ASSUME NEW p \in Procs, Replace(p), UNCHANGED saved PROVE TypeInv'
  <2>1. TypeOK'
    BY <1>11, RelinkedType DEF Replace, TypeOK, Raise, Goto, local, Running, Trying
  <2>2. Linked'
    BY <1>11, RelinkedType DEF Replace, TypeOK, Linked, Unnamed, Copied, Installed, Raise, Goto, local
  <2> QED
    BY <2>1, <2>2
<1>12. ASSUME NEW p \in Procs, TryFails(p), UNCHANGED saved PROVE TypeInv'
  <2>1. TypeOK'
    BY <1>12 DEF TryFails, TypeOK, Raise, Goto, Opens, local, Running
  <2>2. Linked'
    BY <1>12 DEF TryFails, TypeOK, Linked, Unnamed, Copied, Installed, Raise, Goto, Opens, local
  <2> QED
    BY <2>1, <2>2
<1>13. ASSUME NEW p \in Procs, Finally(p), UNCHANGED saved PROVE TypeInv'
  <2>1. TypeOK'
    BY <1>13 DEF Finally, AfterTry, TypeOK, Goto, local, Running, Ended
  <2>2. Linked'
    BY <1>13 DEF Finally, AfterTry, TypeOK, Linked, Unnamed, Copied, Installed, Goto, local
  <2> QED
    BY <2>1, <2>2
<1>14. ASSUME NEW p \in Procs, Unlink(p), UNCHANGED saved PROVE TypeInv'
  <2>1. TypeOK'
    BY <1>14, RelinkedType DEF Unlink, AfterTry, TypeOK, Goto, local, Running, Ended
  <2>2. Linked'
    BY <1>14, RelinkedType DEF Unlink, AfterTry, TypeOK, Linked, Unnamed, Copied, Installed, Goto, local
  <2> QED
    BY <2>1, <2>2
<1>15. ASSUME NEW p \in Procs, Reload(p), UNCHANGED saved PROVE TypeInv'
  <2>1. TypeOK'
    BY <1>15, AfterIsText DEF Reload, TypeOK, Goto, local, Running, Ended
  <2>2. Linked'
    BY <1>15 DEF Reload, TypeOK, Linked, Unnamed, Copied, Installed, Goto, local
  <2> QED
    BY <2>1, <2>2
<1>16. ASSUME NEW p \in Procs, BeginRollback(p), UNCHANGED saved PROVE TypeInv'
  <2>1. CASE bak[p] = NoName
    <3>1. TypeOK'
      BY <1>16, <2>1, RelinkedType DEF BeginRollback, TypeOK, Goto, Ended
    <3>2. Linked'
      BY <1>16, <2>1, RelinkedType DEF BeginRollback, TypeOK, Linked, Unnamed, Copied, Installed, Goto
    <3> QED
      BY <3>1, <3>2
  <2>2. CASE bak[p] # NoName
    <3>1. path' \in Files
      BY <1>16, <2>2 DEF BeginRollback, TypeOK, Files, Torn, Modes
    <3>2. backups[bak[p]] \in Files
      BY <1>16, <2>2 DEF BeginRollback, TypeOK, Linked, Unnamed, Copied, Installed
    <3>3. TypeOK'
      BY <1>16, <2>2, <3>1, <3>2 DEF BeginRollback, TypeOK, Goto, Opens, Running
    <3>4. Linked'
      BY <1>16, <2>2, <3>1, <3>2 DEF BeginRollback, TypeOK, Linked, Unnamed, Copied, Installed, Goto, Opens
    <3> QED
      BY <3>3, <3>4
  <2> QED
    BY <2>1, <2>2
<1>17. ASSUME NEW p \in Procs, EndRollback(p), UNCHANGED saved PROVE TypeInv'
  <2>1. buf[p] \in Files
    BY <1>17 DEF EndRollback, TypeOK, Linked
  <2>2. path' \in {NoFile} \cup Files /\ (path # NoFile => path' # NoFile)
    BY <1>17, <2>1, LandingIsText DEF EndRollback, TypeOK, Files
  <2>3. TypeOK'
    BY <1>17, <2>2 DEF EndRollback, TypeOK, Goto, Opens, local, Ended
  <2>4. Linked'
    BY <1>17, <2>2 DEF EndRollback, TypeOK, Linked, Unnamed, Copied, Installed, Goto, Opens, local
  <2> QED
    BY <2>3, <2>4
<1>18. ASSUME NEW p \in Procs, RollbackFails(p), UNCHANGED saved PROVE TypeInv'
  <2>1. TypeOK'
    BY <1>18 DEF RollbackFails, TypeOK, Goto, Opens, local, Ended
  <2>2. Linked'
    BY <1>18 DEF RollbackFails, TypeOK, Linked, Unnamed, Copied, Installed, Goto, Opens, local
  <2> QED
    BY <2>1, <2>2
<1>19. ASSUME NEW p \in Procs, Crash(p), UNCHANGED saved PROVE TypeInv'
  <2>1. TypeOK'
    BY <1>19 DEF Crash, TypeOK, Goto, Opens, local, Ended
  <2>2. Linked'
    BY <1>19 DEF Crash, TypeOK, Linked, Unnamed, Copied, Installed, Goto, Opens, local
  <2> QED
    BY <2>1, <2>2
<1>f. ASSUME NEW p \in Procs, FinallyFails(p), UNCHANGED saved PROVE TypeInv'
  <2>1. TypeOK'
    BY <1>f DEF FinallyFails, TypeOK, Goto, local, Ended
  <2>2. Linked'
    BY <1>f DEF FinallyFails, TypeOK, Linked, Unnamed, Copied, Installed, Goto, local
  <2> QED
    BY <2>1, <2>2
<1>20. ASSUME Edit PROVE TypeInv'
  <2>1. path' \in {NoFile} \cup Files
    BY <1>20 DEF Edit, TypeOK, Files, Modes
  <2>2. versions' \subseteq Texts
    BY <1>20, <2>1 DEF Edit, TypeOK, TextOf, Files, Torn
  <2>3. TypeOK'
    BY <1>20, <2>1, <2>2, RelinkedType, ConstantsAssumption DEF Edit, TypeOK, local
  <2>4. Linked'
    BY <1>20, RelinkedType DEF Edit, TypeOK, Linked, Unnamed, Copied, Installed, local
  <2> QED
    BY <2>3, <2>4
<1> QED
  BY <1>1, <1>2, <1>3, <1>4, <1>5, <1>6, <1>7, <1>8, <1>9, <1>10, <1>11, <1>12, <1>13, <1>14,
     <1>15, <1>16, <1>17, <1>18, <1>19, <1>f, <1>20 DEF Next, Step

\* No handler reads a file that is not there or writes something that is no
\* file, in any interleaving of runs, failures, kills and edits.
THEOREM TypeCorrect == Spec => []TypeOK
<1>1. Spec => []TypeInv
  BY TypeInvInit, TypeInvNext, PTL DEF Spec
<1> QED
  BY <1>1, PTL DEF TypeInv
-----------------------------------------------------------------------------
(* Recoverable, when the runs take turns.  The invariant says where the    *)
(* texts are at each moment of a run: in daemon.json or a finished backup  *)
(* until the backup is complete, and all in backups from then until the    *)
(* run has ended, so that replacing, truncating or removing daemon.json    *)
(* loses none of them.                                                     *)

OneRunning == \A p, q \in Procs : pc[p] \in Running /\ pc[q] \in Running => p = q

BackedUp(p) == pc[p] = "replace" \/ Installed(p)

RunSafe(p) ==
  /\ pc[p] \in Running => Wants[p] # {}
  /\ fd[p] = "path" => pc[p] = "restore"
  /\ fd[p] = "tmp" => pc[p] = "fill"
  /\ pc[p] = "copy" => backups[bak[p]] = NoFile
  /\ pc[p] = "copying" => TextOf(backups[bak[p]]) \in Torn /\ buf[p] = path
  /\ BackedUp(p) => versions \subseteq Held

SafeInv == TypeInv /\ OneRunning /\ Recoverable /\ \A p \in Procs : RunSafe(p)

LEMMA NoFileHoldsNothing == TextOf(NoFile) \in Torn
BY DEF TextOf, Torn

LEMMA TextsNotTorn == \A t \in Texts : t \notin Torn
BY ConstantsAssumption DEF Texts, Torn

LEMMA SafeInvInit == Init => SafeInv
<1> SUFFICES ASSUME Init PROVE SafeInv
  OBVIOUS
<1>1. Recoverable
  BY DEF Init, Recoverable
<1>2. \A p \in Procs : RunSafe(p)
  BY DEF Init, RunSafe, BackedUp, Installed, Running, Trying
<1> QED
  BY <1>1, <1>2, TypeInvInit DEF Init, SafeInv, OneRunning, Running, Trying

\* While one run is at work the others hold no handle and write nothing, so a
\* step of it keeps the invariant if it keeps the run's own part.
LEMMA OthersRest ==
  ASSUME SafeInv, TypeInv', NEW p \in Procs, pc[p] \in Running,
         \A q \in Procs \ {p} : pc'[q] = pc[q] /\ exc'[q] = exc[q],
         \A q \in Procs \ {p} : fd[q] = "none" => fd'[q] = "none",
         Recoverable', RunSafe(p)'
  PROVE  SafeInv'
<1>1. ASSUME NEW q \in Procs \ {p} PROVE pc[q] \notin Running /\ fd[q] = "none"
  <2>1. pc[q] \notin Running
    BY DEF SafeInv, OneRunning
  <2>2. fd[q] \in {"none", "tmp", "path"}
    BY DEF SafeInv, TypeInv, TypeOK
  <2> QED
    BY <2>1, <2>2 DEF SafeInv, RunSafe, Running, Trying
<1>2. \A q \in Procs \ {p} : RunSafe(q)'
  BY <1>1 DEF RunSafe, BackedUp, Installed, Running, Trying
<1>3. OneRunning'
  BY <1>1 DEF OneRunning
<1> QED
  BY <1>2, <1>3 DEF SafeInv

\* Steps that touch neither daemon.json nor a backup, and do not enter the part
\* of a run where the backup must be complete.
LEMMA QuietStep ==
  ASSUME SafeInv, TypeInv', NEW p \in Procs, pc[p] \in Running,
         UNCHANGED <<path, backups, versions, bak, buf>>,
         \A q \in Procs \ {p} : pc'[q] = pc[q] /\ exc'[q] = exc[q] /\ fd'[q] = fd[q],
         pc'[p] \notin {"copy", "copying"},
         fd'[p] = "none" \/ (fd'[p] = "tmp" /\ pc'[p] = "fill"),
         BackedUp(p)' => BackedUp(p)
  PROVE  SafeInv'
<1>1. Held' = Held
  BY DEF Held, TextOf
<1>2. Recoverable'
  BY <1>1 DEF SafeInv, Recoverable, TextOf
<1>3. RunSafe(p)'
  BY <1>1 DEF SafeInv, RunSafe
<1> QED
  BY <1>2, <1>3, OthersRest

LEMMA SafeInvNext == Exclusive /\ SafeInv /\ [Next]_vars => SafeInv'
<1> SUFFICES ASSUME Exclusive, SafeInv, [Next]_vars PROVE SafeInv'
  OBVIOUS
<1>0. TypeInv /\ TypeInv'
  BY TypeInvNext DEF SafeInv
<1>h. \A q \in Procs : fd[q] # "none" => pc[q] \in {"fill", "restore"}
  BY <1>0 DEF SafeInv, RunSafe, TypeInv, TypeOK
<1> USE DEF TypeInv, TypeOK, Goto, Raise, Opens
<1>1. CASE UNCHANGED vars
  BY <1>0, <1>1 DEF vars, SafeInv, OneRunning, Recoverable, RunSafe, Held, TextOf, BackedUp, Installed
<1>2. ASSUME NEW p \in Procs, Load(p) PROVE SafeInv'
  <2>1. \A q \in Procs : pc[q] \notin Running
    BY <1>2 DEF Load
  <2>2. pc'[p] \in {"refused", "quit", "confirm"} /\ (pc'[p] = "confirm" => Wants[p] # {})
    BY <1>0, <1>2 DEF Load
  <2>3. Held' = Held /\ Recoverable'
    BY <1>2 DEF Load, Held, TextOf, SafeInv, Recoverable
  <2>4. OneRunning'
    BY <1>2, <2>1 DEF OneRunning, Load
  <2>5. ASSUME NEW q \in Procs PROVE RunSafe(q)'
    <3>1. pc'[q] \in {"copy", "copying"} \cup Running => q = p
      BY <1>2, <2>1 DEF Load, Running, Trying
    <3> QED
      BY <1>2, <1>h, <2>1, <2>2, <3>1 DEF Load, RunSafe, BackedUp, Installed, Running, Trying
  <2> QED
    BY <1>0, <2>3, <2>4, <2>5 DEF SafeInv
<1>3. ASSUME NEW p \in Procs, Confirm(p) PROVE SafeInv'
  BY <1>0, <1>3, <1>h, QuietStep DEF Confirm, local, Running, BackedUp, Installed
<1>4. ASSUME NEW p \in Procs, OpenTmp(p) PROVE SafeInv'
  BY <1>0, <1>4, QuietStep DEF OpenTmp, local, Running, Trying, BackedUp, Installed
<1>5. ASSUME NEW p \in Procs, FillTmp(p) PROVE SafeInv'
  <2>1. fd[p] # "path"
    BY <1>5 DEF FillTmp, SafeInv, RunSafe
  <2> QED
    BY <1>0, <1>5, <2>1, QuietStep DEF FillTmp, local, Running, Trying, BackedUp, Installed
<1>6. ASSUME NEW p \in Procs, CopyOwnership(p) PROVE SafeInv'
  BY <1>0, <1>6, <1>h, QuietStep DEF CopyOwnership, local, Running, Trying, BackedUp, Installed
<1>7. ASSUME NEW p \in Procs, Validate(p) PROVE SafeInv'
  BY <1>0, <1>7, <1>h, QuietStep DEF Validate, local, Running, Trying, BackedUp, Installed
<1>8. ASSUME NEW p \in Procs, NameBackup(p) PROVE SafeInv'
  <2>1. pc[p] = "name" /\ UNCHANGED <<path, tmp, backups, exc, base, buf, fd, edits, versions>>
    BY <1>8 DEF NameBackup, FreeName
  <2>2. \/ path = NoFile /\ Goto(p, "replace") /\ UNCHANGED bak
        \/ \E b \in Names : /\ backups[b] = NoFile /\ Goto(p, "copy")
                            /\ bak' = [bak EXCEPT ![p] = b]
    <3>1. \A n \in 0 .. MaxSuffix : <<Stamp(p), n>> \in Names
      BY DEF Names, Stamp
    <3> QED
      BY <1>8, <3>1 DEF NameBackup, FreeName
  <2>3. Held' = Held /\ Recoverable'
    BY <2>1 DEF SafeInv, Recoverable, Held, TextOf
  <2>4. pc'[p] = "replace" => versions \subseteq Held
    BY <1>0, <2>1, <2>2, TextsNotTorn, NoFileHoldsNothing DEF SafeInv, Recoverable
  <2>5. RunSafe(p)'
    BY <1>0, <1>h, <2>1, <2>2, <2>3, <2>4
       DEF SafeInv, RunSafe, BackedUp, Installed, Running, Trying
  <2> QED
    BY <1>0, <2>1, <2>2, <2>3, <2>5, OthersRest DEF Running, Trying
<1>9. ASSUME NEW p \in Procs, BeginCopy(p) PROVE SafeInv'
  <2>1. CASE path = NoFile
    BY <1>0, <1>9, <1>h, <2>1, QuietStep DEF BeginCopy, Running, Trying, BackedUp, Installed
  <2>2. CASE path # NoFile
    <3>1. PICK c : TextOf(c) \in Torn /\ backups' = [backups EXCEPT ![bak[p]] = c]
      BY <1>0, <1>9, <2>2, NoFileIsNoFile DEF BeginCopy, TextOf, Torn
    <3>2. bak[p] \in Names /\ backups[bak[p]] = NoFile /\ bak' = bak
      BY <1>0, <1>9 DEF BeginCopy, SafeInv, RunSafe, Linked
    <3>3. Held' = Held
      BY <1>0, <3>1, <3>2, NoFileHoldsNothing DEF Held
    <3>4. Recoverable'
      BY <1>9, <3>3 DEF BeginCopy, SafeInv, Recoverable, TextOf
    <3>5. RunSafe(p)'
      BY <1>0, <1>9, <1>h, <2>2, <3>1, <3>2
         DEF BeginCopy, SafeInv, RunSafe, BackedUp, Installed, Running, Trying
    <3> QED
      BY <1>0, <1>9, <2>2, <3>4, <3>5, OthersRest DEF BeginCopy, Running, Trying
  <2> QED
    BY <2>1, <2>2
<1>10. ASSUME NEW p \in Procs, EndCopy(p) PROVE SafeInv'
  <2>1. /\ bak[p] \in Names /\ buf[p] = path /\ path \in Files
        /\ TextOf(backups[bak[p]]) \in Torn
    BY <1>0, <1>10 DEF EndCopy, SafeInv, RunSafe, Linked
  <2>2. PICK c : c.text = path.text /\ c # NoFile /\ backups' = [backups EXCEPT ![bak[p]] = c]
    <3>1. [text |-> path.text, mode |-> buf[p].mode] \in Files
      BY <2>1 DEF Files
    <3> QED
      BY <1>0, <1>10, <2>1, <3>1, NoFileIsNoFile DEF EndCopy, Landing
  <2>3. Held \cup ({TextOf(path)} \ Torn) \subseteq Held'
    BY <1>0, <2>1, <2>2, NoFileIsNoFile DEF Held, TextOf
  <2>4. versions' \subseteq Held'
    BY <1>0, <1>10, <2>3, TextsNotTorn DEF EndCopy, SafeInv, Recoverable
  <2>5. RunSafe(p)' /\ Recoverable'
    BY <1>0, <1>10, <1>h, <2>4
       DEF EndCopy, local, SafeInv, Recoverable, RunSafe, BackedUp, Installed, Running, Trying
  <2> QED
    BY <1>0, <1>10, <2>5, OthersRest DEF EndCopy, Running, Trying
<1>11. ASSUME NEW p \in Procs, Replace(p) PROVE SafeInv'
  <2>1. CASE tmp = NoFile
    BY <1>0, <1>11, <1>h, <2>1, QuietStep DEF Replace, local, Running, Trying, BackedUp, Installed
  <2>2. CASE tmp # NoFile
    <3>1. Held' = Held /\ versions \subseteq Held /\ versions' = versions
      BY <1>11, <2>2 DEF Replace, SafeInv, RunSafe, BackedUp, Held, TextOf
    <3>2. \A q \in Procs : fd[q] = "none" => fd'[q] = "none"
      BY <1>11, <2>2 DEF Replace, Relinked
    <3>3. RunSafe(p)' /\ Recoverable'
      BY <1>0, <1>11, <1>h, <2>2, <3>1, <3>2
         DEF Replace, local, SafeInv, Recoverable, RunSafe, Running, Trying
    <3> QED
      BY <1>0, <1>11, <2>2, <3>2, <3>3, OthersRest DEF Replace, Running, Trying
  <2> QED
    BY <2>1, <2>2
<1>12. ASSUME NEW p \in Procs, TryFails(p) PROVE SafeInv'
  BY <1>0, <1>12, QuietStep DEF TryFails, local, Running, Trying, BackedUp, Installed
<1>13. ASSUME NEW p \in Procs, Finally(p) PROVE SafeInv'
  BY <1>0, <1>13, <1>h, QuietStep DEF Finally, AfterTry, local, Running, BackedUp, Installed
<1>14. ASSUME NEW p \in Procs, Unlink(p) PROVE SafeInv'
  <2>1. fd[p] = "none"
    BY <1>14, <1>h DEF Unlink
  <2>2. \A q \in Procs : fd[q] = "none" => fd'[q] = "none"
    BY <1>14 DEF Unlink, Relinked
  <2>3. Held' = Held /\ UNCHANGED <<path, versions, bak, buf, backups, exc>>
    BY <1>14 DEF Unlink, local, Held, TextOf
  <2>4. pc'[p] \in {"oserror", "reload"} \cup {exc[p]} /\ (pc'[p] = "reload" => exc[p] = "none")
    BY <1>0, <1>14 DEF Unlink, AfterTry
  <2>5. RunSafe(p)' /\ Recoverable'
    BY <1>0, <1>14, <2>1, <2>2, <2>3, <2>4
       DEF Unlink, SafeInv, Recoverable, RunSafe, BackedUp, Installed, Running, Trying, TextOf
  <2> QED
    BY <1>0, <1>14, <2>2, <2>3, <2>5, OthersRest DEF Unlink, AfterTry, Running
<1>15. ASSUME NEW p \in Procs, Reload(p) PROVE SafeInv'
  <2>1. Held' = Held /\ versions \subseteq Held
    BY <1>15 DEF Reload, local, SafeInv, RunSafe, BackedUp, Installed, Held, TextOf
  <2>2. CASE pc'[p] = "applied"
    <3>1. TextOf(path) = After(p) /\ versions' = versions \cup {After(p)}
      BY <1>0, <1>15, <2>2 DEF Reload, Data, After, SafeInv, RunSafe, Running
    <3>2. RunSafe(p)' /\ Recoverable'
      BY <1>15, <1>h, <2>1, <2>2, <3>1
         DEF Reload, Recoverable, RunSafe, BackedUp, Installed, Running, Trying, TextOf
    <3> QED
      BY <1>0, <1>15, <3>2, OthersRest DEF Reload, Running
  <2>3. CASE pc'[p] # "applied"
    BY <1>0, <1>15, <1>h, <2>3, QuietStep DEF Reload, local, Running, BackedUp, Installed
  <2> QED
    BY <2>2, <2>3
<1>16. ASSUME NEW p \in Procs, BeginRollback(p) PROVE SafeInv'
  <2>1. Held' = Held /\ versions \subseteq Held
    BY <1>16 DEF BeginRollback, SafeInv, RunSafe, BackedUp, Installed, Held, TextOf
  <2>2. \A q \in Procs \ {p} : fd[q] = "none" => fd'[q] = "none"
    BY <1>0, <1>16 DEF BeginRollback, Relinked
  <2>3. (fd'[p] = "path" => pc'[p] = "restore") /\ fd'[p] # "tmp" /\ pc'[p] \in {"error", "restore"}
    BY <1>0, <1>16, <1>h DEF BeginRollback, Relinked
  <2>4. RunSafe(p)' /\ Recoverable'
    BY <1>0, <1>16, <2>1, <2>3
       DEF BeginRollback, SafeInv, Recoverable, RunSafe, BackedUp, Installed, Running
  <2> QED
    BY <1>0, <1>16, <2>2, <2>4, OthersRest DEF BeginRollback, Running
<1>17. ASSUME NEW p \in Procs, EndRollback(p) PROVE SafeInv'
  <2>1. Held' = Held /\ versions \subseteq Held
    BY <1>17 DEF EndRollback, local, SafeInv, RunSafe, BackedUp, Installed, Held, TextOf
  <2>2. RunSafe(p)' /\ Recoverable'
    BY <1>0, <1>17, <2>1
       DEF EndRollback, local, SafeInv, Recoverable, RunSafe, BackedUp, Installed, Running, Trying
  <2> QED
    BY <1>0, <1>17, <2>2, OthersRest DEF EndRollback, local, Running
<1>18. ASSUME NEW p \in Procs, RollbackFails(p) PROVE SafeInv'
  BY <1>0, <1>18, QuietStep DEF RollbackFails, local, Running, BackedUp, Installed
<1>19. ASSUME NEW p \in Procs, Crash(p) PROVE SafeInv'
  BY <1>0, <1>19, QuietStep DEF Crash, local, Running, BackedUp, Installed
<1>f. ASSUME NEW p \in Procs, FinallyFails(p) PROVE SafeInv'
  BY <1>0, <1>f, <1>h, QuietStep DEF FinallyFails, local, Running, BackedUp, Installed
<1>20. ASSUME Edit PROVE SafeInv'
  <2>1. \A q \in Procs : pc[q] \notin Running /\ fd[q] = "none"
    BY <1>0, <1>20, <1>h DEF Edit, Running, Trying
  <2>2. UNCHANGED <<pc, backups, exc>> /\ Held' = Held /\ \A q \in Procs : fd'[q] = "none"
    BY <1>20, <2>1 DEF Edit, Relinked, Held, TextOf
  <2>3. Recoverable'
    BY <1>20, <2>2 DEF Edit, Recoverable
  <2> QED
    BY <1>0, <2>1, <2>2, <2>3
       DEF SafeInv, OneRunning, RunSafe, BackedUp, Installed, Running, Trying
<1> QED
  BY <1>1, <1>2, <1>3, <1>4, <1>5, <1>6, <1>7, <1>8, <1>9, <1>10, <1>11, <1>12, <1>13, <1>14,
     <1>15, <1>16, <1>17, <1>18, <1>19, <1>f, <1>20 DEF Next, Step

\* When the runs and the administrator take turns, no text that a run found,
\* installed and verified, or the administrator saved is ever lost: it is in
\* daemon.json or in a finished backup, whatever fails and wherever runs die.
THEOREM RecoverableHolds == ASSUME Exclusive PROVE Spec => []Recoverable
<1>1. SafeInv /\ [Next]_vars => SafeInv'
  BY SafeInvNext
<1>2. SafeInv => Recoverable
  BY DEF SafeInv
<1> QED
  BY <1>1, <1>2, SafeInvInit, PTL DEF Spec
-----------------------------------------------------------------------------
(* SavedKept and BackupsNotOverwritten, for any interleaving of runs that *)
(* name their backups in different seconds.  Nobody else writes a run's    *)
(* backup then, so the first run to replace daemon.json has kept it.       *)

OwnSeconds == \A p, q \in Procs : Second[p] = Second[q] => p = q

NameSafe(p) ==
  /\ bak[p] # NoName => bak[p][1] = Second[p]
  /\ pc[p] = "copy" => backups[bak[p]] = NoFile
  /\ pc[p] = "copying" => TextOf(backups[bak[p]]) \in Torn

NameInv == TypeInv /\ \A p \in Procs : NameSafe(p)

LEMMA NamesDiffer ==
  ASSUME OwnSeconds, NameInv, NEW p \in Procs, NEW q \in Procs, p # q, bak[p] # NoName
  PROVE  bak[p] # bak[q]
BY DEF OwnSeconds, NameInv, NameSafe

\* Steps that touch no backup and start no copy.
LEMMA NameQuiet ==
  ASSUME NameInv, TypeInv', NEW p \in Procs, UNCHANGED <<backups, bak>>,
         \A q \in Procs \ {p} : pc'[q] = pc[q], pc'[p] \notin {"copy", "copying"}
  PROVE  NameInv'
BY DEF NameInv, NameSafe, TextOf

LEMMA NameInvNext == OwnSeconds /\ NameInv /\ [Next]_vars => NameInv'
<1> SUFFICES ASSUME OwnSeconds, NameInv, [Next]_vars PROVE NameInv'
  OBVIOUS
<1>0. TypeInv /\ TypeInv'
  BY TypeInvNext DEF NameInv
<1> USE DEF TypeInv, TypeOK, Goto, Raise
<1>1. CASE UNCHANGED vars
  BY <1>0, <1>1 DEF vars, NameInv, NameSafe, TextOf
<1>2. ASSUME NEW p \in Procs,
             Load(p) \/ Confirm(p) \/ OpenTmp(p) \/ FillTmp(p) \/ CopyOwnership(p) \/ Validate(p)
      PROVE  NameInv'
  BY <1>0, <1>2, NameQuiet
     DEF Load, Confirm, OpenTmp, FillTmp, CopyOwnership, Validate, local
<1>3. ASSUME NEW p \in Procs,
             Replace(p) \/ TryFails(p) \/ FinallyFails(p) \/ Finally(p) \/ Unlink(p) \/ Reload(p)
             \/ Crash(p)
      PROVE  NameInv'
  BY <1>0, <1>3, NameQuiet
     DEF Replace, TryFails, FinallyFails, Finally, Unlink, AfterTry, Reload, Crash, local
<1>4. ASSUME NEW p \in Procs, BeginRollback(p) \/ EndRollback(p) \/ RollbackFails(p)
      PROVE  NameInv'
  BY <1>0, <1>4, NameQuiet DEF BeginRollback, EndRollback, RollbackFails, local
<1>5. ASSUME NEW p \in Procs, NameBackup(p) PROVE NameInv'
  <2>1. \A n \in 0 .. MaxSuffix : <<Stamp(p), n>> \in Names /\ <<Stamp(p), n>>[1] = Second[p]
    BY DEF Names, Stamp
  <2>2. \/ Goto(p, "replace") /\ UNCHANGED bak
        \/ \E b \in Names : /\ b[1] = Second[p] /\ backups[b] = NoFile
                            /\ Goto(p, "copy") /\ bak' = [bak EXCEPT ![p] = b]
    BY <1>5, <2>1 DEF NameBackup, FreeName
  <2>3. backups' = backups
    BY <1>5 DEF NameBackup, FreeName
  <2>4. CASE UNCHANGED bak /\ Goto(p, "replace")
    BY <1>0, <2>3, <2>4, NameQuiet
  <2>5. CASE \E b \in Names : /\ b[1] = Second[p] /\ backups[b] = NoFile
                              /\ Goto(p, "copy") /\ bak' = [bak EXCEPT ![p] = b]
    BY <1>0, <2>3, <2>5 DEF NameInv, NameSafe, TextOf
  <2> QED
    BY <2>2, <2>4, <2>5
<1>6. ASSUME NEW p \in Procs, BeginCopy(p) PROVE NameInv'
  <2>1. CASE path = NoFile
    BY <1>0, <1>6, <2>1, NameQuiet DEF BeginCopy
  <2>2. CASE path # NoFile
    <3>1. PICK c : TextOf(c) \in Torn /\ backups' = [backups EXCEPT ![bak[p]] = c]
      BY <1>0, <1>6, <2>2 DEF BeginCopy, TextOf, Torn
    <3>2. bak[p] \in Names /\ bak' = bak /\ bak[p] # NoName
      BY <1>0, <1>6 DEF BeginCopy, Linked
    <3>3. \A q \in Procs \ {p} : bak[q] # NoName => backups'[bak[q]] = backups[bak[q]]
      BY <1>0, <3>1, <3>2, NamesDiffer
    <3>4. \A q \in Procs : pc'[q] = IF q = p THEN "copying" ELSE pc[q]
      BY <1>0, <1>6, <2>2 DEF BeginCopy
    <3>5. ASSUME NEW q \in Procs PROVE NameSafe(q)'
      <4>1. CASE q = p
        BY <1>0, <3>1, <3>2, <3>4, <4>1 DEF NameInv, NameSafe
      <4>2. CASE q # p
        BY <1>0, <3>2, <3>3, <3>4, <4>2 DEF NameInv, NameSafe, Linked, TextOf
      <4> QED
        BY <4>1, <4>2
    <3> QED
      BY <1>0, <3>5 DEF NameInv
  <2> QED
    BY <2>1, <2>2
<1>7. ASSUME NEW p \in Procs, EndCopy(p) PROVE NameInv'
  <2>1. PICK c : backups' = [backups EXCEPT ![bak[p]] = c]
    BY <1>7 DEF EndCopy
  <2>2. bak[p] # NoName /\ bak' = bak /\ \A q \in Procs : pc'[q] = IF q = p THEN "replace" ELSE pc[q]
    BY <1>0, <1>7 DEF EndCopy, Linked, local
  <2>3. \A q \in Procs \ {p} : bak[q] # NoName => backups'[bak[q]] = backups[bak[q]]
    BY <1>0, <2>1, <2>2, NamesDiffer
  <2> QED
    BY <1>0, <2>2, <2>3 DEF NameInv, NameSafe, Linked, TextOf
<1>8. ASSUME Edit PROVE NameInv'
  BY <1>0, <1>8 DEF Edit, local, NameInv, NameSafe, TextOf
<1> QED
  BY <1>1, <1>2, <1>3, <1>4, <1>5, <1>6, <1>7, <1>8 DEF Next, Step

LEMMA NameInvInit == Init => NameInv
BY TypeInvInit DEF Init, NameInv, NameSafe

\* In different seconds, as when they take turns, no run writes into a backup
\* that is finished.
THEOREM BackupsKept == ASSUME OwnSeconds PROVE Spec => BackupsNotOverwritten
<1>1. ASSUME NameInv, [Next]_vars
      PROVE  [\A b \in Names : TextOf(backups[b]) \notin Torn => backups'[b] = backups[b]]_vars
  <2>1. CASE UNCHANGED backups
    BY <2>1
  <2>2. ASSUME NEW p \in Procs, BeginCopy(p) \/ EndCopy(p), NEW b \in Names,
               TextOf(backups[b]) \notin Torn
        PROVE  backups'[b] = backups[b]
    <3>1. TextOf(backups[bak[p]]) \in Torn
      BY <1>1, <2>2, NoFileHoldsNothing DEF BeginCopy, EndCopy, NameInv, NameSafe
    <3> QED
      BY <1>1, <2>2, <3>1 DEF BeginCopy, EndCopy, NameInv, TypeInv, TypeOK
  <2>3. \/ UNCHANGED backups
        \/ \E p \in Procs : BeginCopy(p) \/ EndCopy(p)
    BY <1>1 DEF Next, Step, vars, local, Load, Confirm, OpenTmp, FillTmp, CopyOwnership, Validate,
       NameBackup, FreeName, Replace, TryFails, Finally, Unlink, Reload, BeginRollback, EndRollback,
       RollbackFails, FinallyFails, Crash, Edit
  <2> QED
    BY <2>1, <2>2, <2>3
<1> QED
  BY <1>1, NameInvInit, NameInvNext, PTL DEF Spec, BackupsNotOverwritten

KeptBy(p) ==
  /\ bak[p] # NoName /\ pc[p] \notin {"copy", "copying"}
  /\ TextOf(backups[bak[p]]) = TextOf(saved)

Untouched ==
  /\ path = saved
  /\ \A p \in Procs :
       /\ fd[p] # "path" /\ pc[p] # "replace" /\ ~Installed(p)
       /\ pc[p] = "copying" => buf[p] = path

KeepInv ==
  /\ NameInv
  /\ TextOf(saved) \notin Torn => Untouched \/ \E p \in Procs : KeptBy(p)

LEMMA KeepInvInit == Init => KeepInv
BY NameInvInit DEF Init, KeepInv, Untouched, Installed

\* A backup of the original is finished once and for all.
LEMMA KeptForGood ==
  ASSUME OwnSeconds, NameInv, NameInv', [Next]_vars, ~Edit, NEW p \in Procs, KeptBy(p)
  PROVE  KeptBy(p)'
<1> USE DEF NameInv, TypeInv, TypeOK, Goto, Raise, KeptBy
<1>1. bak'[p] = bak[p] /\ pc'[p] \notin {"copy", "copying"} /\ saved' = saved
  <2>1. ASSUME NEW q \in Procs, NameBackup(q)
        PROVE  bak'[p] = bak[p] /\ pc'[p] \notin {"copy", "copying"}
    BY <2>1 DEF NameBackup, FreeName, Linked, Unnamed
  <2>2. ASSUME NEW q \in Procs,
               Load(q) \/ Confirm(q) \/ OpenTmp(q) \/ FillTmp(q) \/ CopyOwnership(q) \/ Validate(q)
        PROVE  bak'[p] = bak[p] /\ pc'[p] \notin {"copy", "copying"}
    BY <2>2 DEF Load, Confirm, OpenTmp, FillTmp, CopyOwnership, Validate, local
  <2>3. ASSUME NEW q \in Procs,
               BeginCopy(q) \/ EndCopy(q) \/ Replace(q) \/ TryFails(q) \/ Finally(q) \/ Unlink(q)
        PROVE  bak'[p] = bak[p] /\ pc'[p] \notin {"copy", "copying"}
    BY <2>3 DEF BeginCopy, EndCopy, Replace, TryFails, Finally, Unlink, AfterTry, local
  <2>4. ASSUME NEW q \in Procs,
               Reload(q) \/ BeginRollback(q) \/ EndRollback(q) \/ RollbackFails(q) \/ FinallyFails(q) \/ Crash(q)
        PROVE  bak'[p] = bak[p] /\ pc'[p] \notin {"copy", "copying"}
    BY <2>4 DEF Reload, BeginRollback, EndRollback, RollbackFails, FinallyFails, Crash, local
  <2> QED
    BY <2>1, <2>2, <2>3, <2>4 DEF Next, Step, vars, Edit, local
<1>2. backups'[bak[p]] = backups[bak[p]]
  <2>1. ASSUME NEW q \in Procs, BeginCopy(q) \/ EndCopy(q)
        PROVE  backups'[bak[p]] = backups[bak[p]]
    <3>1. q # p /\ bak[p] # bak[q]
      BY <2>1, NamesDiffer DEF BeginCopy, EndCopy
    <3> QED
      BY <2>1, <3>1 DEF BeginCopy, EndCopy
  <2>2. UNCHANGED backups \/ \E q \in Procs : BeginCopy(q) \/ EndCopy(q)
    BY DEF Next, Step, vars, local, Load, Confirm, OpenTmp, FillTmp, CopyOwnership, Validate,
       NameBackup, FreeName, Replace, TryFails, Finally, Unlink, Reload, BeginRollback, EndRollback,
       RollbackFails, FinallyFails, Crash, Edit
  <2> QED
    BY <2>1, <2>2
<1> QED
  BY <1>1, <1>2 DEF TextOf

LEMMA KeepInvNext == OwnSeconds /\ KeepInv /\ [Next]_vars => KeepInv'
<1> SUFFICES ASSUME OwnSeconds, KeepInv, [Next]_vars PROVE KeepInv'
  OBVIOUS
<1>0. NameInv /\ NameInv'
  BY NameInvNext DEF KeepInv
<1>e. ASSUME Edit PROVE KeepInv'
  <2>1. CASE \E p \in Procs : Window(p) \/ fd'[p] = "path"
    <3>1. saved' = NoFile
      BY <1>e, <2>1 DEF Edit
    <3>2. TextOf(saved)' \in Torn
      BY <3>1 DEF TextOf, Torn
    <3> QED
      BY <1>0, <3>2 DEF KeepInv
  <2>2. CASE ~ \E p \in Procs : Window(p) \/ fd'[p] = "path"
    <3>1. saved' = path' /\ UNCHANGED <<pc, exc>>
      BY <1>e, <2>2 DEF Edit
    <3>2. Untouched'
      BY <2>2, <3>1 DEF Untouched, Window, Installed
    <3> QED
      BY <1>0, <3>2 DEF KeepInv
  <2> QED
    BY <2>1, <2>2
<1>1. SUFFICES ASSUME ~Edit, TextOf(saved) \notin Torn, Untouched
               PROVE  Untouched' \/ \E p \in Procs : KeptBy(p)'
  <2>1. CASE ~Edit
    <3>1. saved' = saved
      BY <2>1 DEF Next, vars
    <3>2. TextOf(saved)' = TextOf(saved)
      BY <3>1 DEF TextOf
    <3> QED
      BY <1>0, <2>1, <3>1, <3>2, KeptForGood DEF KeepInv
  <2> QED
    BY <1>e, <2>1
<1> USE DEF NameInv, TypeInv, TypeOK, Goto, Raise, Opens, Untouched, Installed
<1>2. CASE UNCHANGED vars
  BY <1>1, <1>2 DEF vars
<1>3. ASSUME NEW p \in Procs, UNCHANGED saved,
             Load(p) \/ Confirm(p) \/ OpenTmp(p) \/ FillTmp(p) \/ CopyOwnership(p) \/ Validate(p)
      PROVE  Untouched'
  BY <1>0, <1>1, <1>3 DEF Load, Confirm, OpenTmp, FillTmp, CopyOwnership, Validate, local
<1>4. ASSUME NEW p \in Procs, UNCHANGED saved, NameBackup(p) PROVE Untouched'
  <2>1. path # NoFile
    BY <1>1, NoFileHoldsNothing
  <2>2. Goto(p, "copy") /\ UNCHANGED <<path, exc, buf, fd>>
    BY <1>4, <2>1 DEF NameBackup, FreeName
  <2> QED
    BY <1>0, <1>1, <1>4, <2>2
<1>5. ASSUME NEW p \in Procs, UNCHANGED saved, BeginCopy(p) PROVE Untouched'
  BY <1>0, <1>1, <1>5 DEF BeginCopy
<1>6. ASSUME NEW p \in Procs, UNCHANGED saved, EndCopy(p) PROVE KeptBy(p)'
  <2>1. buf[p] \in Files /\ buf[p] = saved /\ bak[p] \in Names
    BY <1>0, <1>1, <1>6 DEF EndCopy, Linked
  <2>2. TextOf(backups[bak[p]]) \in Torn
    BY <1>0, <1>6 DEF EndCopy, NameSafe
  <2>3. [text |-> buf[p].text, mode |-> buf[p].mode] \in Files
    BY <2>1 DEF Files
  <2>4. backups' = [backups EXCEPT ![bak[p]] = [text |-> buf[p].text, mode |-> buf[p].mode]]
    BY <1>6, <2>2 DEF EndCopy, Landing
  <2> QED
    BY <1>0, <1>6, <2>1, <2>3, <2>4, NoFileIsNoFile, NameIsNoNoName
       DEF EndCopy, KeptBy, TextOf, local
<1>7. ASSUME NEW p \in Procs, UNCHANGED saved, TryFails(p) \/ FinallyFails(p) \/ Finally(p) \/ Unlink(p)
             \/ Crash(p)
      PROVE  Untouched'
  BY <1>0, <1>1, <1>7 DEF TryFails, FinallyFails, Finally, Unlink, AfterTry, Relinked, Crash, local,
         Running, Trying
<1>8. ASSUME NEW p \in Procs,
             Replace(p) \/ Reload(p) \/ BeginRollback(p) \/ EndRollback(p) \/ RollbackFails(p)
      PROVE  FALSE
  BY <1>1, <1>8 DEF Replace, Reload, BeginRollback, EndRollback, RollbackFails
<1> QED
  BY <1>1, <1>2, <1>3, <1>4, <1>5, <1>6, <1>7, <1>8 DEF Next, Step

\* What daemon.json held at the start, and what the administrator saves while
\* no run is in its window or writes to daemon.json, survives any interleaving of runs that name their
\* backups in different seconds: it is in daemon.json or in a finished backup
\* until the administrator saves again.
THEOREM SavedKeptHolds == ASSUME OwnSeconds PROVE Spec => []SavedKept
<1>1. KeepInv => SavedKept
  <2>1. \A p \in Procs : KeptBy(p) /\ TypeInv /\ TextOf(saved) \notin Torn => TextOf(saved) \in Held
    BY DEF KeptBy, TypeInv, TypeOK, Held
  <2> QED
    BY <2>1 DEF KeepInv, NameInv, Untouched, SavedKept
<1>2. KeepInv /\ [Next]_vars => KeepInv'
  BY KeepInvNext
<1> QED
  BY <1>1, <1>2, KeepInvInit, PTL DEF Spec
-----------------------------------------------------------------------------
(* TmpGone, for any interleaving.  Whoever opened the temporary file is on *)
(* the way to a `finally` that looks for it, was killed, or could not.     *)

Holding == (Trying \ {"open"}) \cup {"finally", "unlink", "crashed", "uncleaned"}

HeldTmp == TypeInv /\ (tmp # NoFile => \E p \in Procs : pc[p] \in Holding)

LEMMA HeldTmpStep ==
  ASSUME HeldTmp, TypeInv', NEW p \in Procs, \A q \in Procs \ {p} : pc'[q] = pc[q],
         \/ tmp' = NoFile
         \/ pc'[p] \in Holding
         \/ tmp # NoFile /\ pc[p] \notin Holding
  PROVE  HeldTmp'
BY DEF HeldTmp

LEMMA HeldTmpNext == HeldTmp /\ [Next]_vars => HeldTmp'
<1> SUFFICES ASSUME HeldTmp, [Next]_vars PROVE HeldTmp'
  OBVIOUS
<1>0. TypeInv /\ TypeInv'
  BY TypeInvNext DEF HeldTmp
<1> USE DEF TypeInv, TypeOK, Goto, Raise, Holding, Trying
<1>1. CASE UNCHANGED vars
  BY <1>0, <1>1 DEF vars, HeldTmp
<1>2. ASSUME NEW p \in Procs,
             \/ OpenTmp(p) \/ FillTmp(p) \/ CopyOwnership(p) \/ Validate(p) \/ BeginCopy(p)
             \/ EndCopy(p) \/ Replace(p) \/ TryFails(p) \/ FinallyFails(p) \/ Crash(p)
      PROVE  HeldTmp'
  BY <1>0, <1>2, HeldTmpStep
     DEF OpenTmp, FillTmp, CopyOwnership, Validate, BeginCopy, EndCopy, Replace, TryFails, FinallyFails,
         Crash, local
<1>3. ASSUME NEW p \in Procs, NameBackup(p) PROVE HeldTmp'
  BY <1>0, <1>3, HeldTmpStep DEF NameBackup, FreeName
<1>4. ASSUME NEW p \in Procs, Finally(p) \/ Unlink(p) PROVE HeldTmp'
  BY <1>0, <1>4, HeldTmpStep DEF Finally, Unlink, AfterTry, local
<1>5. ASSUME NEW p \in Procs, Load(p) \/ Confirm(p) PROVE HeldTmp'
  BY <1>0, <1>5, HeldTmpStep DEF HeldTmp, Load, Confirm, local
<1>6. ASSUME NEW p \in Procs, Reload(p) \/ BeginRollback(p) \/ EndRollback(p) \/ RollbackFails(p)
      PROVE  HeldTmp'
  BY <1>0, <1>6, HeldTmpStep DEF HeldTmp, Reload, BeginRollback, EndRollback, RollbackFails, local
<1>7. CASE Edit
  BY <1>0, <1>7 DEF HeldTmp, Edit
<1> QED
  BY <1>1, <1>2, <1>3, <1>4, <1>5, <1>6, <1>7 DEF Next, Step

\* However the runs interleave and fail, the temporary file outlives only runs
\* that were killed, or whose own attempt to remove it failed (finally, 318-320).
THEOREM TmpGoneHolds == Spec => []TmpGone
<1>1. Init => HeldTmp
  BY TypeInvInit DEF Init, HeldTmp
<1>2. HeldTmp => TmpGone
  BY DEF HeldTmp, TmpGone, Holding, Running
<1> QED
  BY <1>1, <1>2, HeldTmpNext, PTL DEF Spec
-----------------------------------------------------------------------------
(* UndoRestores, when the runs take turns: daemon.json holds what the plan *)
(* was built on until the backup does, and no later run takes its name.    *)

Unread == {"confirm", "open", "fill", "owner", "validate", "name", "copy", "copying"}
Copying == {"copy", "copying"}

Undoable(p) ==
  IF bak[p] = NoName THEN base[p] = {}
  ELSE backups[bak[p]] # NoFile /\ Data(backups[bak[p]]) = base[p]

UndoSafe(p) ==
  /\ pc[p] \in Unread => Data(path) = base[p]
  /\ BackedUp(p) => Undoable(p)
  /\ pc[p] = "applied" => Undoable(p)

OwnNames ==
  \A p, q \in Procs : pc[p] = "applied" /\ bak[p] # NoName /\ pc[q] \in Copying => bak[p] # bak[q]

UndoInv == SafeInv /\ OwnNames /\ \A p \in Procs : UndoSafe(p)

LEMMA UndoInvInit == Init => UndoInv
BY SafeInvInit DEF Init, UndoInv, OwnNames, UndoSafe, BackedUp, Installed, Unread, Copying

\* A step of the run at work keeps what the runs before it left.
LEMMA UndoStep ==
  ASSUME UndoInv, SafeInv', NEW p \in Procs, pc[p] \in Running,
         \A q \in Procs \ {p} : pc'[q] = pc[q] /\ bak'[q] = bak[q] /\ base'[q] = base[q],
         \A q \in Procs \ {p} : pc[q] = "applied" /\ bak[q] # NoName =>
           /\ backups'[bak[q]] = backups[bak[q]]
           /\ pc'[p] \in Copying => bak[q] # bak'[p],
         UndoSafe(p)'
  PROVE  UndoInv'
<1>1. \A q \in Procs \ {p} : pc[q] \notin Running
  BY DEF UndoInv, SafeInv, OneRunning
<1>2. ASSUME NEW q \in Procs \ {p} PROVE UndoSafe(q)'
  <2>1. pc'[q] \notin Running
    BY <1>1
  <2>2. pc'[q] \notin Unread /\ ~BackedUp(q)'
    BY <2>1 DEF Unread, BackedUp, Installed, Running, Trying
  <2>3. pc'[q] = "applied" => Undoable(q)'
    BY DEF UndoInv, UndoSafe, Undoable, Data, TextOf
  <2> QED
    BY <2>2, <2>3 DEF UndoSafe
<1>3. OwnNames'
  <2> SUFFICES ASSUME NEW q \in Procs, NEW r \in Procs,
                      pc'[q] = "applied", bak'[q] # NoName, pc'[r] \in Copying
               PROVE  bak'[q] # bak'[r]
    BY DEF OwnNames
  <2>1. r = p
    BY <1>1 DEF Copying, Running, Trying
  <2>2. q # p
    BY <2>1 DEF Copying
  <2> QED
    BY <2>1, <2>2
<1> QED
  BY <1>2, <1>3 DEF UndoInv

\* ... above all one that touches no backup and reads nothing new.
LEMMA UndoQuiet ==
  ASSUME UndoInv, SafeInv', NEW p \in Procs, pc[p] \in Running,
         UNCHANGED <<backups, bak, base>>,
         \A q \in Procs \ {p} : pc'[q] = pc[q],
         pc'[p] \in Copying => pc[p] \in Copying,
         pc'[p] \in Unread => pc[p] \in Unread /\ path' = path,
         BackedUp(p)' => BackedUp(p),
         pc'[p] = "applied" => BackedUp(p)
  PROVE  UndoInv'
<1>1. UndoSafe(p)'
  BY DEF UndoInv, UndoSafe, Undoable, Data, TextOf
<1> QED
  BY <1>1, UndoStep DEF UndoInv, OwnNames

LEMMA UndoInvNext == Exclusive /\ UndoInv /\ [Next]_vars => UndoInv'
<1> SUFFICES ASSUME Exclusive, UndoInv, [Next]_vars PROVE UndoInv'
  OBVIOUS
<1>0. SafeInv /\ SafeInv' /\ TypeInv /\ TypeInv'
  BY SafeInvNext DEF UndoInv, SafeInv
<1> USE DEF TypeInv, TypeOK, Goto, Raise
<1>1. CASE UNCHANGED vars
  BY <1>0, <1>1 DEF vars, local, UndoInv, OwnNames, UndoSafe, Undoable, BackedUp, Installed, Data, TextOf
<1>2. ASSUME NEW p \in Procs, Load(p) PROVE UndoInv'
  <2>1. \A q \in Procs : pc[q] \notin Running
    BY <1>2 DEF Load
  <2>2. UNCHANGED <<path, backups, bak, exc>> /\ pc'[p] \in {"refused", "quit", "confirm"}
        /\ base'[p] = Data(path)
        /\ \A q \in Procs \ {p} : pc'[q] = pc[q] /\ base'[q] = base[q]
    BY <1>0, <1>2 DEF Load
  <2>3. ASSUME NEW q \in Procs PROVE UndoSafe(q)'
    <3>1. CASE q = p
      BY <2>2, <3>1 DEF UndoSafe, Unread, BackedUp, Installed, Data, TextOf
    <3>2. CASE q # p
      BY <2>1, <2>2, <3>2
         DEF UndoInv, UndoSafe, Unread, Undoable, BackedUp, Installed, Running, Trying, Data, TextOf
    <3> QED
      BY <3>1, <3>2
  <2>4. OwnNames'
    BY <2>1, <2>2 DEF UndoInv, OwnNames, Copying, Running, Trying
  <2> QED
    BY <1>0, <2>3, <2>4 DEF UndoInv
<1>3. ASSUME NEW p \in Procs,
             \/ Confirm(p) \/ OpenTmp(p) \/ CopyOwnership(p) \/ Validate(p) \/ TryFails(p)
             \/ FinallyFails(p) \/ RollbackFails(p) \/ Crash(p)
      PROVE  UndoInv'
  BY <1>0, <1>3, UndoQuiet
     DEF Confirm, OpenTmp, CopyOwnership, Validate, TryFails, FinallyFails, RollbackFails, Crash, local,
         Running, Trying, Copying, Unread, BackedUp, Installed
<1>4. ASSUME NEW p \in Procs, FillTmp(p) PROVE UndoInv'
  <2>1. path' = path
    BY <1>0, <1>4 DEF FillTmp, SafeInv, RunSafe
  <2> QED
    BY <1>0, <1>4, <2>1, UndoQuiet
       DEF FillTmp, local, Running, Trying, Copying, Unread, BackedUp, Installed
<1>5. ASSUME NEW p \in Procs, NameBackup(p) PROVE UndoInv'
  <2>1. /\ pc[p] = "name" /\ UNCHANGED <<path, exc, base, backups>> /\ bak[p] = NoName
        /\ Data(path) = base[p]
    BY <1>0, <1>5 DEF NameBackup, FreeName, Linked, Unnamed, UndoInv, UndoSafe, Unread
  <2>2. CASE path = NoFile
    <3>1. Goto(p, "replace") /\ UNCHANGED bak /\ base[p] = {}
      BY <1>5, <2>1, <2>2 DEF NameBackup, Data, TextOf, Torn
    <3>2. UndoSafe(p)'
      BY <1>0, <2>1, <3>1 DEF UndoSafe, Unread, Undoable
    <3> QED
      BY <1>0, <2>1, <3>1, <3>2, UndoStep DEF Running, Trying, Copying
  <2>3. CASE path # NoFile
    <3>1. PICK n \in 0 .. MaxSuffix : FreeName(p, n) /\ bak' = [bak EXCEPT ![p] = <<Stamp(p), n>>] /\ Goto(p, "copy")
      BY <1>5, <2>3 DEF NameBackup
    <3>2. backups[bak'[p]] = NoFile /\ pc'[p] = "copy"
          /\ \A q \in Procs \ {p} : bak'[q] = bak[q] /\ pc'[q] = pc[q]
      BY <1>0, <3>1 DEF FreeName
    <3>3. UndoSafe(p)'
      BY <1>0, <2>1, <3>2 DEF UndoSafe, Unread, BackedUp, Installed, Data, TextOf
    <3>4. \A q \in Procs \ {p} : pc[q] = "applied" /\ bak[q] # NoName => bak[q] # bak'[p]
      BY <3>2 DEF UndoInv, UndoSafe, Undoable
    <3> QED
      BY <1>0, <2>1, <3>2, <3>3, <3>4, UndoStep DEF Running, Trying
  <2> QED
    BY <2>2, <2>3
<1>6. ASSUME NEW p \in Procs, BeginCopy(p) PROVE UndoInv'
  <2>1. CASE path = NoFile
    BY <1>0, <1>6, <2>1, UndoQuiet
       DEF BeginCopy, Running, Trying, Copying, Unread, BackedUp, Installed
  <2>2. CASE path # NoFile
    <3>1. PICK c : backups' = [backups EXCEPT ![bak[p]] = c]
      BY <1>6, <2>2 DEF BeginCopy
    <3>2. /\ UNCHANGED <<path, bak, base, exc>> /\ pc[p] = "copy" /\ pc'[p] = "copying"
          /\ \A q \in Procs \ {p} : pc'[q] = pc[q]
      BY <1>0, <1>6, <2>2 DEF BeginCopy
    <3>3. \A q \in Procs \ {p} : pc[q] = "applied" /\ bak[q] # NoName =>
            bak[q] # bak[p] /\ backups'[bak[q]] = backups[bak[q]]
      BY <1>0, <3>1, <3>2 DEF UndoInv, OwnNames, Copying
    <3>4. UndoSafe(p)'
      BY <3>2 DEF UndoInv, UndoSafe, Unread, BackedUp, Installed, Data, TextOf
    <3> QED
      BY <1>0, <3>2, <3>3, <3>4, UndoStep DEF Running, Trying
  <2> QED
    BY <2>1, <2>2
<1>7. ASSUME NEW p \in Procs, EndCopy(p) PROVE UndoInv'
  <2>1. /\ bak[p] \in Names /\ bak[p] # NoName /\ buf[p] = path /\ path \in Files
        /\ TextOf(backups[bak[p]]) \in Torn /\ Data(path) = base[p]
    BY <1>0, <1>7 DEF EndCopy, SafeInv, RunSafe, Linked, UndoInv, UndoSafe, Unread
  <2>2. PICK c : c.text = path.text /\ c # NoFile /\ backups' = [backups EXCEPT ![bak[p]] = c]
    <3>1. [text |-> path.text, mode |-> buf[p].mode] \in Files
      BY <2>1 DEF Files
    <3> QED
      BY <1>0, <1>7, <2>1, <3>1, NoFileIsNoFile DEF EndCopy, Landing
  <2>3. /\ UNCHANGED <<path, bak, base, exc>> /\ pc[p] = "copying" /\ pc'[p] = "replace"
        /\ \A q \in Procs \ {p} : pc'[q] = pc[q]
    BY <1>0, <1>7 DEF EndCopy, local
  <2>4. \A q \in Procs \ {p} : pc[q] = "applied" /\ bak[q] # NoName =>
          bak[q] # bak[p] /\ backups'[bak[q]] = backups[bak[q]]
    BY <1>0, <2>2, <2>3 DEF UndoInv, OwnNames, Copying
  <2>5. backups'[bak[p]] = c /\ TextOf(c) = TextOf(path)
    BY <1>0, <2>1, <2>2, NoFileIsNoFile DEF TextOf
  <2>6. UndoSafe(p)'
    BY <2>1, <2>2, <2>3, <2>5 DEF UndoSafe, Undoable, Unread, Data
  <2> QED
    BY <1>0, <2>3, <2>4, <2>6, UndoStep DEF Running, Trying, Copying
<1>8. ASSUME NEW p \in Procs, Replace(p) \/ Finally(p) \/ Unlink(p) PROVE UndoInv'
  <2>1. /\ pc[p] \in {"replace", "finally", "unlink"} /\ UNCHANGED <<backups, bak, base>>
        /\ \A q \in Procs \ {p} : pc'[q] = pc[q]
        /\ pc'[p] \in {"finally", "unlink", "reload", "oserror", "error"}
    BY <1>0, <1>8 DEF Replace, Finally, Unlink, AfterTry, local
  <2>2. BackedUp(p)' => BackedUp(p)
    BY <1>0, <1>8 DEF Replace, Finally, Unlink, AfterTry, local, BackedUp, Installed
  <2> QED
    BY <1>0, <2>1, <2>2, UndoQuiet DEF Running, Trying, Copying, Unread
<1>9. ASSUME NEW p \in Procs, Reload(p) \/ BeginRollback(p) \/ EndRollback(p) PROVE UndoInv'
  <2>1. /\ pc[p] \in {"reload", "rollback", "restore"} /\ UNCHANGED <<backups, bak, base>>
        /\ \A q \in Procs \ {p} : pc'[q] = pc[q]
        /\ pc'[p] \in {"applied", "rollback", "restore", "oserror", "error"}
    BY <1>0, <1>9 DEF Reload, BeginRollback, EndRollback, local
  <2>2. BackedUp(p)
    BY <2>1 DEF BackedUp, Installed
  <2> QED
    BY <1>0, <2>1, <2>2, UndoQuiet DEF Running, Trying, Copying, Unread
<1>10. CASE Edit
  <2>1. \A q \in Procs : pc[q] \notin Running
    BY <1>10 DEF Edit
  <2>2. UNCHANGED <<backups, pc, exc, bak, base>>
    BY <1>10 DEF Edit, local
  <2> QED
    BY <1>0, <2>1, <2>2
       DEF UndoInv, OwnNames, UndoSafe, Undoable, Unread, BackedUp, Installed, Running, Trying, Data, TextOf
<1> QED
  BY <1>1, <1>2, <1>3, <1>4, <1>5, <1>6, <1>7, <1>8, <1>9, <1>10 DEF Next, Step

\* When the runs and the administrator take turns, the undo command that each
\* successful run printed goes on restoring what that run had found, however
\* many runs follow (next_steps 373-380).
THEOREM UndoRestoresHolds == ASSUME Exclusive PROVE Spec => []UndoRestores
<1>1. UndoInv /\ [Next]_vars => UndoInv'
  BY UndoInvNext
<1>2. UndoInv => UndoRestores
  BY DEF UndoInv, UndoSafe, Undoable, UndoRestores
<1> QED
  BY <1>1, <1>2, UndoInvInit, PTL DEF Spec
-----------------------------------------------------------------------------
(* IsAtomic, when the runs take turns: the run at work has made what it    *)
(* planned from the file it found, permissions included, and its backup is *)
(* that file until the run has ended.                                      *)

\* The file run p found, as its backup holds it.
Kept(p) == IF bak[p] = NoName THEN NoFile ELSE backups[bak[p]]

\* What run p makes of file f.
Planned(p, f) == [text |-> After(p), mode |-> IF f = NoFile THEN "0644" ELSE f.mode]

AtomSafe(p) ==
  /\ pc[p] \notin {"finally", "unlink"} \cup Ended => exc[p] = "none"
  /\ pc[p] = "fill" => fd[p] = "tmp" /\ tmp # NoFile /\ tmp.text \in Torn
  /\ pc[p] = "owner" => tmp # NoFile /\ tmp.text = After(p)
  /\ pc[p] \in {"validate", "name", "copy", "copying", "replace"} => tmp = Planned(p, path)
  /\ pc[p] = "replace" => path = Kept(p)
  /\ Installed(p) /\ pc[p] # "restore" => path = Planned(p, Kept(p))
  /\ pc[p] = "restore" =>
       /\ bak[p] # NoName /\ fd[p] = "path" /\ buf[p] = Kept(p)
       /\ \E t \in Torn : path = [Kept(p) EXCEPT !.text = t]

AtomInv == UndoInv /\ \A p \in Procs : AtomSafe(p)

LEMMA AtomInvInit == Init => AtomInv
BY UndoInvInit DEF Init, AtomInv, AtomSafe, Installed

LEMMA PlannedIsFile ==
  ASSUME TypeOK, NEW p \in Procs, NEW f \in {NoFile} \cup Files
  PROVE  Planned(p, f) \in Files /\ Planned(p, f) # NoFile
BY AfterIsText, NoFileIsNoFile DEF Planned, Files, Modes

\* The run at work has to keep only its own part.
LEMMA AtomStep ==
  ASSUME AtomInv, UndoInv', NEW p \in Procs, pc[p] \in Running,
         \A q \in Procs \ {p} : pc'[q] = pc[q] /\ exc'[q] = exc[q],
         AtomSafe(p)'
  PROVE  AtomInv'
<1>1. ASSUME NEW q \in Procs \ {p} PROVE AtomSafe(q)'
  <2>1. pc[q] \notin Running
    BY DEF AtomInv, UndoInv, SafeInv, OneRunning
  <2>2. pc'[q] = pc[q] /\ exc'[q] = exc[q]
    OBVIOUS
  <2>3. pc'[q] \notin {"finally", "unlink"} \cup Ended => exc'[q] = "none"
    BY <2>2 DEF AtomInv, AtomSafe
  <2>4. pc'[q] \notin {"fill", "owner", "validate", "name", "copy", "copying", "replace", "restore"}
        /\ ~Installed(q)'
    BY <2>1, <2>2 DEF Running, Trying, Installed
  <2> QED
    BY <2>3, <2>4 DEF AtomSafe
<1> QED
  BY <1>1 DEF AtomInv

LEMMA AtomInvNext == Exclusive /\ AtomInv /\ [Next]_vars => AtomInv'
<1> SUFFICES ASSUME Exclusive, AtomInv, [Next]_vars PROVE AtomInv'
  OBVIOUS
<1>0. UndoInv /\ UndoInv' /\ TypeInv /\ TypeInv'
  BY UndoInvNext DEF AtomInv, UndoInv, SafeInv
<1>a. path \in {NoFile} \cup Files /\ tmp \in {NoFile} \cup Files /\ \A q \in Procs : After(q) \in Texts
  BY <1>0, AfterIsText DEF TypeInv, TypeOK
<1>h. \A q \in Procs : fd[q] # "none" => pc[q] \in {"fill", "restore"}
  BY <1>0 DEF UndoInv, SafeInv, RunSafe, TypeInv, TypeOK
<1> USE DEF TypeInv, TypeOK, Goto, Raise, Opens
<1>1. CASE UNCHANGED vars
  BY <1>0, <1>1 DEF vars, local, AtomInv, AtomSafe, Installed, Kept, Planned, After
<1>2. ASSUME NEW p \in Procs, Load(p) PROVE AtomInv'
  <2>1. \A q \in Procs : pc[q] \notin Running
    BY <1>2 DEF Load
  <2>2. /\ pc'[p] \in {"refused", "quit", "confirm"} /\ exc' = exc /\ exc[p] = "none"
        /\ \A q \in Procs \ {p} : pc'[q] = pc[q]
    BY <1>0, <1>2 DEF Load, AtomInv, AtomSafe, Ended
  <2>3. \A q \in Procs \ {p} : pc[q] \notin {"finally", "unlink"} \cup Ended => exc[q] = "none"
    BY DEF AtomInv, AtomSafe
  <2>4. ASSUME NEW q \in Procs PROVE AtomSafe(q)'
    <3>1. pc'[q] \notin {"fill", "owner", "validate", "name", "copy", "copying", "replace", "restore"}
          /\ ~Installed(q)'
      BY <2>1, <2>2 DEF Running, Trying, Installed
    <3> QED
      BY <2>2, <2>3, <3>1 DEF AtomSafe
  <2> QED
    BY <1>0, <2>4 DEF AtomInv
<1>3. ASSUME NEW p \in Procs, Confirm(p) PROVE AtomInv'
  BY <1>0, <1>3, AtomStep DEF Confirm, local, AtomInv, AtomSafe, Installed, Running, Ended
<1>4. ASSUME NEW p \in Procs, OpenTmp(p) PROVE AtomInv'
  <2>1. tmp' # NoFile /\ tmp'.text \in Torn
    BY <1>0, <1>4, NoFileIsNoFile DEF OpenTmp, Files, Torn, Modes
  <2>2. AtomSafe(p)'
    BY <1>0, <1>4, <2>1 DEF OpenTmp, local, AtomInv, AtomSafe, Installed, Ended
  <2> QED
    BY <1>0, <1>4, <2>2, AtomStep DEF OpenTmp, Running, Trying
<1>5. ASSUME NEW p \in Procs, FillTmp(p) PROVE AtomInv'
  <2>1. fd[p] = "tmp" /\ tmp \in Files /\ tmp.text \in Torn
    BY <1>5, <1>a DEF FillTmp, AtomInv, AtomSafe
  <2>2. tmp' = [tmp EXCEPT !.text = After(p)]
    BY <1>5, <2>1 DEF FillTmp, Landing
  <2>3. tmp' # NoFile /\ tmp'.text = After(p) /\ After(p)' = After(p)
    BY <1>5, <1>a, <2>1, <2>2, NoFileIsNoFile DEF FillTmp, Files, local, After
  <2>4. AtomSafe(p)'
    BY <1>0, <1>5, <2>3 DEF FillTmp, local, AtomInv, AtomSafe, Installed, Ended
  <2> QED
    BY <1>0, <1>5, <2>4, AtomStep DEF FillTmp, Running, Trying
<1>6. ASSUME NEW p \in Procs, CopyOwnership(p) PROVE AtomInv'
  <2>1. tmp \in Files /\ tmp # NoFile /\ tmp.text = After(p)
    BY <1>6, <1>a DEF CopyOwnership, AtomInv, AtomSafe
  <2>2. tmp' = [tmp EXCEPT !.mode = OwnerMode] /\ UNCHANGED <<path, local, exc>> /\ pc'[p] = "validate"
    BY <1>0, <1>6, <2>1 DEF CopyOwnership
  <2>3. tmp' = Planned(p, path)'
    BY <2>1, <2>2 DEF Files, Planned, OwnerMode, After, local
  <2>4. AtomSafe(p)'
    BY <1>6, <2>2, <2>3 DEF CopyOwnership, AtomInv, AtomSafe, Installed, Ended
  <2> QED
    BY <1>0, <1>6, <2>1, <2>4, AtomStep DEF CopyOwnership, Running, Trying
<1>7. ASSUME NEW p \in Procs, Validate(p) PROVE AtomInv'
  <2>1. UNCHANGED <<path, tmp, backups, local>> /\ pc'[p] \in {"finally", "name"}
        /\ (pc'[p] = "name" => exc' = exc) /\ (pc'[p] = "finally" => exc'[p] = "error")
    BY <1>0, <1>7 DEF Validate
  <2>2. AtomSafe(p)'
    BY <1>7, <2>1 DEF Validate, AtomInv, AtomSafe, Installed, Planned, After, Ended, local
  <2> QED
    BY <1>0, <1>7, <2>2, AtomStep DEF Validate, Running, Trying
<1>8. ASSUME NEW p \in Procs, NameBackup(p) PROVE AtomInv'
  <2>1. /\ pc[p] = "name" /\ bak[p] = NoName /\ UNCHANGED <<path, tmp, exc, base>>
        /\ pc'[p] \in {"copy", "replace"} /\ (pc'[p] = "replace" => path = NoFile /\ bak' = bak)
    BY <1>0, <1>8 DEF NameBackup, FreeName, Linked, Unnamed
  <2>2. AtomSafe(p)'
    BY <2>1 DEF AtomInv, AtomSafe, Installed, Planned, Kept, After, Ended
  <2> QED
    BY <1>0, <1>8, <2>1, <2>2, AtomStep DEF NameBackup, Running, Trying
<1>9. ASSUME NEW p \in Procs, BeginCopy(p) PROVE AtomInv'
  <2>1. /\ UNCHANGED <<path, tmp, base>> /\ pc[p] = "copy" /\ pc'[p] \in {"copying", "finally"}
        /\ (pc'[p] = "copying" => exc' = exc) /\ (pc'[p] = "finally" => exc'[p] = "oserror")
    BY <1>0, <1>9 DEF BeginCopy
  <2>2. AtomSafe(p)'
    BY <2>1 DEF AtomInv, AtomSafe, Installed, Planned, After, Ended
  <2> QED
    BY <1>0, <1>9, <2>2, AtomStep DEF BeginCopy, Running, Trying
<1>10. ASSUME NEW p \in Procs, EndCopy(p) PROVE AtomInv'
  <2>1. /\ bak[p] \in Names /\ bak[p] # NoName /\ buf[p] = path /\ path \in Files
        /\ TextOf(backups[bak[p]]) \in Torn
    BY <1>0, <1>10 DEF EndCopy, UndoInv, SafeInv, RunSafe, Linked
  <2>2. backups' = [backups EXCEPT ![bak[p]] = path]
    <3>1. [text |-> path.text, mode |-> path.mode] = path
      BY <2>1 DEF Files
    <3> QED
      BY <1>10, <2>1, <3>1 DEF EndCopy, Landing
  <2>3. UNCHANGED <<path, tmp, base, exc, bak>> /\ pc[p] = "copying" /\ pc'[p] = "replace"
    BY <1>0, <1>10 DEF EndCopy, local
  <2>4. path' = Kept(p)'
    BY <1>0, <2>1, <2>2, <2>3 DEF Kept
  <2>5. AtomSafe(p)'
    BY <2>3, <2>4 DEF AtomInv, AtomSafe, Installed, Planned, After, Ended
  <2> QED
    BY <1>0, <1>10, <2>5, AtomStep DEF EndCopy, Running, Trying
<1>11. ASSUME NEW p \in Procs, Replace(p) PROVE AtomInv'
  <2>1. tmp = Planned(p, path) /\ path = Kept(p) /\ tmp # NoFile /\ exc[p] = "none"
    BY <1>0, <1>11, <1>a, PlannedIsFile DEF Replace, AtomInv, AtomSafe, Ended
  <2>2. path' = tmp /\ UNCHANGED <<backups, local, exc>> /\ pc'[p] = "finally"
    BY <1>0, <1>11, <2>1 DEF Replace
  <2>3. path' = Planned(p, Kept(p))'
    BY <2>1, <2>2 DEF Planned, Kept, After, local
  <2>4. AtomSafe(p)'
    BY <2>1, <2>2, <2>3 DEF AtomSafe
  <2> QED
    BY <1>0, <1>11, <2>2, <2>4, AtomStep DEF Replace, Running, Trying
<1>12. ASSUME NEW p \in Procs, TryFails(p) PROVE AtomInv'
  <2>1. pc'[p] = "finally" /\ exc'[p] \in {"error", "oserror"}
    BY <1>0, <1>12 DEF TryFails, Trying
  <2>2. AtomSafe(p)'
    BY <2>1 DEF AtomSafe, Installed
  <2> QED
    BY <1>0, <1>12, <2>2, AtomStep DEF TryFails, Running
<1>13. ASSUME NEW p \in Procs, Finally(p) \/ Unlink(p) PROVE AtomInv'
  <2>1. /\ pc[p] \in {"finally", "unlink"} /\ UNCHANGED <<path, backups, exc, local>>
        /\ pc'[p] \in {"unlink", "reload", "error", "oserror"}
        /\ (pc'[p] = "reload" => exc[p] = "none")
    BY <1>0, <1>13 DEF Finally, Unlink, AfterTry
  <2>2. AtomSafe(p)'
    BY <2>1 DEF AtomInv, AtomSafe, Installed, Planned, Kept, After, local, Ended
  <2> QED
    BY <1>0, <1>13, <2>1, <2>2, AtomStep DEF Finally, Unlink, AfterTry, Running
<1>14. ASSUME NEW p \in Procs, Reload(p) PROVE AtomInv'
  <2>1. /\ pc[p] = "reload" /\ UNCHANGED <<path, backups, exc, local>> /\ pc'[p] \in {"applied", "rollback"}
    BY <1>0, <1>14 DEF Reload
  <2>2. AtomSafe(p)'
    BY <2>1 DEF AtomInv, AtomSafe, Installed, Planned, Kept, After, local, Ended
  <2> QED
    BY <1>0, <1>14, <2>2, AtomStep DEF Reload, Running
<1>15. ASSUME NEW p \in Procs, BeginRollback(p) PROVE AtomInv'
  <2>1. CASE bak[p] = NoName
    <3>1. pc'[p] = "error"
      BY <1>0, <1>15, <2>1 DEF BeginRollback
    <3>2. AtomSafe(p)'
      BY <3>1 DEF AtomSafe, Installed, Ended
    <3> QED
      BY <1>0, <1>15, <3>2, AtomStep DEF BeginRollback, Running
  <2>2. CASE bak[p] # NoName
    <3>1. Kept(p) \in Files /\ Kept(p) # NoFile /\ path = Planned(p, Kept(p)) /\ exc[p] = "none"
      BY <1>0, <1>15, <2>2
         DEF BeginRollback, AtomInv, AtomSafe, Installed, Kept, Linked, Copied, Ended
    <3>2. path.mode = Kept(p).mode /\ path # NoFile
      BY <1>0, <1>a, <3>1, PlannedIsFile DEF Planned
    <3>3. PICK t \in Torn : path' = [text |-> t, mode |-> path.mode]
      BY <1>15, <2>2, <3>2 DEF BeginRollback
    <3>4. path' = [Kept(p) EXCEPT !.text = t]
      BY <3>1, <3>2, <3>3 DEF Files
    <3>5. /\ pc'[p] = "restore" /\ fd'[p] = "path" /\ buf'[p] = Kept(p) /\ UNCHANGED <<exc, bak, backups>>
      BY <1>0, <1>15, <2>2 DEF BeginRollback, Kept
    <3>6. Kept(p)' = Kept(p)
      BY <3>5 DEF Kept
    <3>7. AtomSafe(p)'
      BY <2>2, <3>1, <3>4, <3>5, <3>6 DEF AtomSafe
    <3> QED
      BY <1>0, <1>15, <3>7, AtomStep DEF BeginRollback, Running
  <2> QED
    BY <2>1, <2>2
<1>16. ASSUME NEW p \in Procs, EndRollback(p) \/ RollbackFails(p) \/ FinallyFails(p) \/ Crash(p)
       PROVE  AtomInv'
  <2>1. pc'[p] \in Ended /\ pc[p] \in Running /\ exc' = exc
    BY <1>0, <1>16 DEF EndRollback, RollbackFails, FinallyFails, Crash, Running, Ended
  <2>2. AtomSafe(p)'
    BY <2>1 DEF AtomSafe, Installed, Ended
  <2> QED
    BY <1>0, <1>16, <2>1, <2>2, AtomStep DEF EndRollback, RollbackFails, FinallyFails, Crash
<1>17. CASE Edit
  <2>1. \A q \in Procs : pc[q] \notin Running
    BY <1>17 DEF Edit
  <2>2. UNCHANGED <<pc, exc>>
    BY <1>17 DEF Edit
  <2>3. ASSUME NEW q \in Procs PROVE AtomSafe(q)'
    <3>1. pc'[q] \notin {"fill", "owner", "validate", "name", "copy", "copying", "replace", "restore"}
          /\ ~Installed(q)'
      BY <2>1, <2>2 DEF Running, Trying, Installed
    <3>2. pc'[q] \notin {"finally", "unlink"} \cup Ended => exc'[q] = "none"
      BY <2>2 DEF AtomInv, AtomSafe
    <3> QED
      BY <3>1, <3>2 DEF AtomSafe
  <2> QED
    BY <1>0, <2>3 DEF AtomInv
<1> QED
  BY <1>1, <1>2, <1>3, <1>4, <1>5, <1>6, <1>7, <1>8, <1>9, <1>10, <1>11, <1>12, <1>13, <1>14,
     <1>15, <1>16, <1>17 DEF Next, Step

Statuses == [p \in Procs |-> Status(p)]

\* Until the run at work has installed its file, and after it has ended, the
\* file that counts is daemon.json; in between it is the backup.
PromisedFollows ==
  /\ \A p \in Procs : pc[p] \in Running => Promised = IF Installed(p) THEN Kept(p) ELSE path
  /\ (\A p \in Procs : pc[p] \notin Running) => Promised = path

LEMMA PromisedIs == OneRunning => PromisedFollows
<1> SUFFICES ASSUME OneRunning PROVE PromisedFollows
  OBVIOUS
<1>1. \A p \in Procs : Installed(p) => pc[p] \in Running
  BY DEF Installed, Running
<1>2. ASSUME NEW p \in Procs, Installed(p) PROVE Promised = Kept(p)
  <2>1. \A q \in Procs : Installed(q) <=> q = p
    BY <1>1, <1>2 DEF OneRunning
  <2>2. (CHOOSE q \in Procs : Installed(q)) = p
    BY <2>1
  <2> QED
    BY <1>2, <2>2 DEF Promised, Kept
<1>3. ASSUME NEW p \in Procs, pc[p] \in Running, ~Installed(p) PROVE Promised = path
  BY <1>1, <1>3 DEF OneRunning, Promised
<1>4. (\A p \in Procs : pc[p] \notin Running) => Promised = path
  BY <1>1 DEF Promised
<1> QED
  BY <1>2, <1>3, <1>4 DEF PromisedFollows

LEMMA RestingStatus ==
  ASSUME TypeOK, NEW p \in Procs, pc[p] \notin Running
  PROVE  Status(p) \notin {"running", "restoring"}
BY DEF TypeOK, Status, Running, Trying, Ended

\* What a step of the run at work shows of it.
LEMMA OneAtWork ==
  ASSUME AtomInv, AtomInv', NEW p \in Procs, pc[p] \in Running,
         \A q \in Procs \ {p} : pc'[q] = pc[q] /\ exc'[q] = exc[q]
  PROVE  /\ Promised = IF Installed(p) THEN Kept(p) ELSE path
         /\ Promised' = IF Installed(p)' THEN Kept(p)' ELSE path'
         /\ Statuses[p] = Status(p) /\ Statuses' = [Statuses EXCEPT ![p] = Status(p)']
<1>1. OneRunning /\ OneRunning'
  BY DEF AtomInv, UndoInv, SafeInv
<1>2. PromisedFollows /\ PromisedFollows'
  <2>1. (OneRunning => PromisedFollows) /\ (OneRunning => PromisedFollows)'
    BY PromisedIs, PTL
  <2> QED
    BY <1>1, <2>1
<1>3. Promised = IF Installed(p) THEN Kept(p) ELSE path
  BY <1>2 DEF PromisedFollows
<1>4. Promised' = IF Installed(p)' THEN Kept(p)' ELSE path'
  <2>1. CASE pc'[p] \in Running
    BY <1>2, <2>1 DEF PromisedFollows
  <2>2. CASE pc'[p] \notin Running
    <3>1. \A q \in Procs : pc'[q] \notin Running
      BY <1>1, <2>2 DEF OneRunning
    <3>2. ~Installed(p)'
      BY <2>2 DEF Installed, Running
    <3> QED
      BY <1>2, <3>1, <3>2 DEF PromisedFollows
  <2> QED
    BY <2>1, <2>2
<1>5. Statuses[p] = Status(p) /\ Statuses' = [Statuses EXCEPT ![p] = Status(p)']
  <2>1. \A q \in Procs \ {p} : Status(q)' = Status(q)
    BY DEF Status
  <2> QED
    BY <2>1 DEF Statuses
<1> QED
  BY <1>3, <1>4, <1>5

\* What a run installs is its update of the file that counts.
LEMMA PlannedUpdates ==
  ASSUME AtomInv, NEW p \in Procs, Installed(p), Promised = Kept(p)
  PROVE  Planned(p, Kept(p)) = Atomic!Updated(p)
<1>1. Undoable(p)
  BY DEF AtomInv, UndoInv, UndoSafe, BackedUp
<1>2. Atomic!Data(Kept(p)) = base[p]
  BY <1>1, NameIsNoNoName DEF Undoable, Kept, Atomic!Data, Data, TextOf, Torn
<1> QED
  BY <1>2 DEF Planned, After, Atomic!Updated

\* The steps nobody sees, the ones that end a run with the file as it was, and
\* the ones that break it.
LEMMA Unseen ==
  ASSUME AtomInv, AtomInv', NEW p \in Procs, pc[p] \in Running \ {"restore"}, pc'[p] \in Running \ {"restore"},
         \A q \in Procs \ {p} : pc'[q] = pc[q] /\ exc'[q] = exc[q],
         (IF Installed(p)' THEN Kept(p)' ELSE path') = IF Installed(p) THEN Kept(p) ELSE path
  PROVE  UNCHANGED <<Promised, Statuses>>
<1>1. Status(p) = "running" /\ Status(p)' = "running"
  BY DEF Status, Running, Trying
<1>2. Statuses[p] = Status(p) /\ Statuses' = [Statuses EXCEPT ![p] = Status(p)'] /\ Promised' = Promised
  BY OneAtWork
<1>3. Statuses' = Statuses
  BY <1>1, <1>2 DEF Statuses
<1> QED
  BY <1>2, <1>3

LEMMA Aborts ==
  ASSUME AtomInv, AtomInv', NEW p \in Procs, pc[p] \in Running,
         \A q \in Procs \ {p} : pc'[q] = pc[q] /\ exc'[q] = exc[q],
         pc'[p] \in {"quit", "error"} \/ (pc'[p] \in {"oserror", "uncleaned"} /\ exc'[p] # "none"),
         path' = IF Installed(p) THEN Kept(p) ELSE path
  PROVE  Atomic!Abort(p)
<1>1. Status(p) \in {"running", "restoring"} /\ Status(p)' = "unchanged" /\ ~Installed(p)'
  BY DEF Status, Installed, Running, Trying
<1>2. /\ Statuses[p] = Status(p) /\ Statuses' = [Statuses EXCEPT ![p] = Status(p)']
      /\ Promised' = Promised
  BY <1>1, OneAtWork
<1> QED
  BY <1>1, <1>2 DEF Atomic!Abort, Atomic!Working, Statuses

LEMMA Breaks ==
  ASSUME AtomInv, AtomInv', NEW p \in Procs, pc[p] \in Running,
         \A q \in Procs \ {p} : pc'[q] = pc[q] /\ exc'[q] = exc[q],
         pc'[p] = "crashed" \/ (pc'[p] \in {"oserror", "uncleaned"} /\ exc'[p] = "none"),
         path' = path
  PROVE  Atomic!Break(p)
<1>1. Status(p) \in {"running", "restoring"} /\ Status(p)' = "broken" /\ ~Installed(p)'
      /\ (pc[p] = "restore" => Status(p) = "restoring")
  BY DEF Status, Installed, Running, Trying
<1>2. /\ Statuses[p] = Status(p) /\ Statuses' = [Statuses EXCEPT ![p] = Status(p)']
      /\ Promised' = path /\ Promised = IF Installed(p) THEN Kept(p) ELSE path
  BY <1>1, OneAtWork
<1>3. \/ Promised' \in {Promised, Atomic!Updated(p)}
      \/ Status(p) = "restoring" /\ \E t \in {Blank, Partial} : Promised' = [Promised EXCEPT !.text = t]
  <2>1. CASE ~Installed(p)
    BY <1>2, <2>1
  <2>2. CASE Installed(p) /\ pc[p] # "restore"
    <3>1. path = Planned(p, Kept(p))
      BY <2>2 DEF AtomInv, AtomSafe
    <3> QED
      BY <1>2, <2>2, <3>1, PlannedUpdates
  <2>3. CASE pc[p] = "restore"
    <3>1. Installed(p) /\ \E t \in Torn : path = [Kept(p) EXCEPT !.text = t]
      BY <2>3 DEF AtomInv, AtomSafe, Installed
    <3> QED
      BY <1>1, <1>2, <2>3, <3>1 DEF Torn
  <2> QED
    BY <2>1, <2>2, <2>3
<1> QED
  BY <1>1, <1>2, <1>3 DEF Atomic!Break, Atomic!Working, Statuses

\* Each step of the program is a step of the atomic update, or none.
LEMMA AtomicInit == Init => Atomic!Init
<1> SUFFICES ASSUME Init PROVE Atomic!Init
  OBVIOUS
<1>1. \A p \in Procs : ~Installed(p) /\ Status(p) = "idle"
  BY DEF Init, Installed, Status, Running, Trying
<1>2. Promised = path
  BY <1>1 DEF Promised
<1> QED
  BY <1>1, <1>2 DEF Init, Atomic!Init, Torn, Texts

LEMMA AtomicLoad ==
  ASSUME Exclusive, AtomInv, AtomInv', NEW p \in Procs, Load(p)
  PROVE  Atomic!Begin(p) \/ Atomic!Abort(p)
<1> USE DEF Goto
<1>0. TypeOK /\ TypeOK'
  BY DEF AtomInv, UndoInv, SafeInv, TypeInv
<1>1. \A q \in Procs : pc[q] \notin Running
  BY DEF Load
<1>2. /\ pc[p] = "idle" /\ UNCHANGED <<path, exc>> /\ \A q \in Procs \ {p} : pc'[q] = pc[q]
      /\ pc'[p] \in {"refused", "quit"} \/ (pc'[p] = "confirm" /\ Usable(path))
  BY <1>0 DEF Load, TypeOK
<1>3. Promised = path /\ Promised' = path
  <2>1. OneRunning /\ OneRunning'
    BY DEF AtomInv, UndoInv, SafeInv
  <2>2. (OneRunning => PromisedFollows) /\ (OneRunning => PromisedFollows)'
    BY PromisedIs, PTL
  <2>3. Promised = path
    BY <1>1, <2>1, <2>2 DEF PromisedFollows
  <2>4. Promised' = path'
    <3>1. ~Installed(p)'
      BY <1>2 DEF Installed
    <3>2. CASE pc'[p] \in Running
      BY <2>1, <2>2, <3>1, <3>2 DEF PromisedFollows
    <3>3. CASE pc'[p] \notin Running
      <4>1. \A q \in Procs : pc'[q] \notin Running
        BY <1>1, <1>2, <3>3
      <4> QED
        BY <2>1, <2>2, <4>1 DEF PromisedFollows
    <3> QED
      BY <3>2, <3>3
  <2> QED
    BY <1>2, <2>3, <2>4
<1>4. /\ Statuses[p] = "idle" /\ Statuses' = [Statuses EXCEPT ![p] = Status(p)']
      /\ \A q \in Procs : Statuses[q] \notin {"running", "restoring"}
  <2>1. \A q \in Procs \ {p} : Status(q)' = Status(q)
    BY <1>2 DEF Status
  <2>2. Status(p) = "idle"
    BY <1>2 DEF Status, Running, Trying
  <2> QED
    BY <1>0, <1>1, <2>1, <2>2, RestingStatus DEF Statuses
<1>5. CASE pc'[p] \in {"refused", "quit"}
  <2>1. Status(p)' = "unchanged"
    BY <1>5 DEF Status, Running, Trying
  <2> QED
    BY <1>3, <1>4, <2>1 DEF Atomic!Abort, Statuses
<1>6. CASE pc'[p] = "confirm" /\ Usable(path)
  <2>1. Status(p)' = "running"
    BY <1>6 DEF Status, Running, Trying
  <2>2. path # NoFile => path.text # Partial
    BY <1>6 DEF Usable, TextOf
  <2> QED
    BY <1>3, <1>4, <2>1, <2>2 DEF Atomic!Begin, Atomic!Working, Statuses
<1> QED
  BY <1>2, <1>5, <1>6

LEMMA AtomicEdit ==
  ASSUME Exclusive, AtomInv, AtomInv', Edit
  PROVE  Atomic!Edit
<1>0. TypeOK
  BY DEF AtomInv, UndoInv, SafeInv, TypeInv
<1>1. (\A q \in Procs : pc[q] \notin Running) /\ UNCHANGED <<pc, exc>>
  BY DEF Edit
<1>2. Promised = path /\ Promised' = path'
  <2>1. OneRunning /\ OneRunning'
    BY DEF AtomInv, UndoInv, SafeInv
  <2>2. (OneRunning => PromisedFollows) /\ (OneRunning => PromisedFollows)'
    BY PromisedIs, PTL
  <2> QED
    BY <1>1, <2>1, <2>2 DEF PromisedFollows
<1>3. Statuses' = Statuses
  BY <1>1 DEF Statuses, Status
<1>4. \A q \in Procs : Statuses[q] \notin Atomic!Working
  BY <1>0, <1>1, RestingStatus DEF Statuses, Atomic!Working
<1>5. \/ path' = NoFile
      \/ \E t \in {Blank, Partial} \cup SUBSET Keys : path' = [text |-> t, mode |-> IF path = NoFile THEN "owner" ELSE path.mode]
  BY DEF Edit, Torn, Texts
<1> QED
  BY <1>2, <1>3, <1>4, <1>5 DEF Atomic!Edit, Statuses

LEMMA AtomicStep ==
  ASSUME Exclusive, AtomInv, AtomInv', NEW p \in Procs,
         Confirm(p) \/ Step(p) \/ TryFails(p) \/ FinallyFails(p) \/ RollbackFails(p) \/ Crash(p)
  PROVE  \/ UNCHANGED <<Promised, Statuses>>
         \/ Atomic!Commit(p) \/ Atomic!Undo(p) \/ Atomic!Abort(p) \/ Atomic!Break(p)
<1>0. TypeInv /\ TypeInv' /\ AtomSafe(p) /\ AtomSafe(p)' /\ Linked
  BY DEF AtomInv, UndoInv, SafeInv, TypeInv
<1> USE DEF TypeInv, TypeOK, Goto, Raise, Opens
<1>1. CASE Confirm(p)
  <2>1. /\ pc[p] = "confirm" /\ pc'[p] \in {"open", "quit"} /\ path' = path
        /\ \A q \in Procs \ {p} : pc'[q] = pc[q] /\ exc'[q] = exc[q]
    BY <1>0, <1>1 DEF Confirm
  <2>2. ~Installed(p) /\ ~Installed(p)'
    BY <2>1 DEF Installed
  <2> QED
    BY <2>1, <2>2, Unseen, Aborts DEF Running, Trying
<1>2. CASE OpenTmp(p) \/ FillTmp(p) \/ CopyOwnership(p) \/ Validate(p) \/ NameBackup(p)
           \/ BeginCopy(p) \/ EndCopy(p) \/ TryFails(p)
  <2>1. /\ pc[p] \in Trying /\ pc'[p] \in Trying \cup {"finally"} /\ (pc'[p] = "finally" => exc'[p] # "none")
        /\ \A q \in Procs \ {p} : pc'[q] = pc[q] /\ exc'[q] = exc[q]
    BY <1>0, <1>2 DEF OpenTmp, FillTmp, CopyOwnership, Validate, NameBackup, BeginCopy, EndCopy, TryFails, Trying
  <2>2. ~Installed(p) /\ ~Installed(p)'
    BY <2>1 DEF Installed, Trying
  <2>3. path' = path
    BY <1>0, <1>2 DEF OpenTmp, FillTmp, CopyOwnership, Validate, NameBackup, FreeName, BeginCopy, EndCopy,
       TryFails, AtomSafe
  <2> QED
    BY <2>1, <2>2, <2>3, Unseen DEF Running, Trying
<1>3. CASE Replace(p)
  <2>1. tmp = Planned(p, path) /\ path = Kept(p) /\ exc[p] = "none" /\ tmp # NoFile /\ pc[p] = "replace"
    BY <1>0, <1>3, PlannedIsFile DEF Replace, AtomSafe, Ended
  <2>2. /\ pc'[p] = "finally" /\ UNCHANGED <<bak, backups, exc>>
        /\ \A q \in Procs \ {p} : pc'[q] = pc[q]
    BY <1>0, <1>3, <2>1 DEF Replace, local
  <2>3. ~Installed(p) /\ Installed(p)' /\ Kept(p)' = Kept(p)
    BY <2>1, <2>2 DEF Installed, Kept
  <2> QED
    BY <2>1, <2>2, <2>3, Unseen DEF Running, Trying
<1>4. CASE Finally(p) \/ Unlink(p) \/ FinallyFails(p)
  <2>1. /\ pc[p] \in {"finally", "unlink"} /\ UNCHANGED <<path, bak, backups, exc>>
        /\ \A q \in Procs \ {p} : pc'[q] = pc[q]
        /\ \/ pc'[p] = "unlink"
           \/ pc'[p] = "reload" /\ exc[p] = "none"
           \/ pc'[p] \in {"error", "oserror", "uncleaned"} /\ exc[p] # "none"
           \/ pc'[p] \in {"oserror", "uncleaned"} /\ exc[p] = "none"
    BY <1>0, <1>4 DEF Finally, Unlink, FinallyFails, AfterTry, local
  <2>2. CASE pc'[p] = "unlink" \/ (pc'[p] = "reload" /\ exc[p] = "none")
    <3>1. Installed(p)' = Installed(p) /\ Kept(p)' = Kept(p)
      BY <2>1, <2>2 DEF Installed, Kept
    <3> QED
      BY <2>1, <2>2, <3>1, Unseen DEF Running
  <2>3. CASE pc'[p] \in {"error", "oserror", "uncleaned"} /\ exc[p] # "none"
    <3>1. ~Installed(p)
      BY <2>1, <2>3 DEF Installed
    <3> QED
      BY <2>1, <2>3, <3>1, Aborts DEF Running
  <2>4. CASE pc'[p] \in {"oserror", "uncleaned"} /\ exc[p] = "none"
    BY <2>1, <2>4, Breaks DEF Running
  <2> QED
    BY <2>1, <2>2, <2>3, <2>4
<1>5. CASE Reload(p)
  <2>1. /\ pc[p] = "reload" /\ pc'[p] \in {"applied", "rollback"} /\ UNCHANGED <<path, bak, backups, exc>>
        /\ \A q \in Procs \ {p} : pc'[q] = pc[q]
    BY <1>0, <1>5 DEF Reload, local
  <2>2. Installed(p) /\ path = Planned(p, Kept(p)) /\ Kept(p)' = Kept(p)
    BY <1>0, <2>1 DEF AtomSafe, Installed, Kept
  <2>3. CASE pc'[p] = "rollback"
    <3>1. Installed(p)'
      BY <2>3 DEF Installed
    <3> QED
      BY <2>1, <2>2, <2>3, <3>1, Unseen DEF Running
  <2>4. CASE pc'[p] = "applied"
    <3>1. ~Installed(p)' /\ Status(p) = "running" /\ Status(p)' = "applied"
      BY <2>1, <2>4 DEF Installed, Status, Running, Trying
    <3>2. /\ Promised = Kept(p) /\ Promised' = path
          /\ Statuses[p] = "running" /\ Statuses' = [Statuses EXCEPT ![p] = "applied"]
      BY <2>1, <2>2, <3>1, OneAtWork DEF Running
    <3>3. Promised' = Atomic!Updated(p)
      BY <2>2, <3>2, PlannedUpdates
    <3> QED
      BY <3>2, <3>3 DEF Atomic!Commit, Statuses
  <2> QED
    BY <2>1, <2>3, <2>4
<1>6. CASE BeginRollback(p)
  <2>1. pc[p] = "rollback" /\ Installed(p) /\ UNCHANGED <<bak, backups, exc>>
    BY <1>6 DEF BeginRollback, Installed
  <2>2. \A q \in Procs \ {p} : pc'[q] = pc[q] /\ exc'[q] = exc[q]
    BY <1>0, <1>6 DEF BeginRollback
  <2>3. CASE bak[p] = NoName
    <3>1. pc'[p] = "error" /\ path' = Kept(p)
      BY <1>0, <1>6, <2>3 DEF BeginRollback, Kept
    <3> QED
      BY <2>1, <2>2, <3>1, Aborts DEF Running
  <2>4. CASE bak[p] # NoName
    <3>1. pc'[p] = "restore"
      BY <1>0, <1>6, <2>4 DEF BeginRollback
    <3>2. Installed(p)' /\ Status(p) = "running" /\ Status(p)' = "restoring" /\ Kept(p)' = Kept(p)
      BY <2>1, <3>1 DEF Installed, Status, Running, Trying, Kept
    <3>3. Kept(p) # NoFile
      BY <1>0, <2>1, <2>4 DEF Linked, Copied, Kept
    <3>4. /\ Promised = Kept(p) /\ Promised' = Kept(p)
          /\ Statuses[p] = "running" /\ Statuses' = [Statuses EXCEPT ![p] = "restoring"]
      BY <2>1, <2>2, <3>2, OneAtWork DEF Running
    <3> QED
      BY <3>3, <3>4 DEF Atomic!Undo, Statuses
  <2> QED
    BY <2>3, <2>4
<1>7. CASE EndRollback(p)
  <2>1. /\ pc[p] = "restore" /\ Installed(p) /\ bak[p] # NoName /\ fd[p] = "path" /\ buf[p] = Kept(p)
        /\ \E t \in Torn : path = [Kept(p) EXCEPT !.text = t]
    BY <1>0, <1>7 DEF EndRollback, AtomSafe, Installed
  <2>2. Kept(p) \in Files
    BY <1>0, <2>1 DEF Linked, Copied, Kept
  <2>3. path \in Files /\ path.text \in Torn
    BY <2>1, <2>2 DEF Files, Torn
  <2>4. path # NoFile
    BY <2>3, NoFileIsNoFile
  <2>5. path' = [text |-> Kept(p).text, mode |-> Kept(p).mode] /\ pc'[p] = "error"
    BY <1>0, <1>7, <2>1, <2>3, <2>4 DEF EndRollback, Landing
  <2>6. path' = Kept(p)
    BY <2>2, <2>5 DEF Files
  <2>7. \A q \in Procs \ {p} : pc'[q] = pc[q] /\ exc'[q] = exc[q]
    BY <1>0, <1>7 DEF EndRollback
  <2> QED
    BY <2>1, <2>5, <2>6, <2>7, Aborts DEF Running
<1>8. CASE RollbackFails(p) \/ Crash(p)
  <2>1. /\ pc[p] \in Running /\ path' = path /\ exc' = exc
        /\ \A q \in Procs \ {p} : pc'[q] = pc[q]
        /\ pc'[p] = "crashed" \/ (pc'[p] = "oserror" /\ exc[p] = "none")
    BY <1>0, <1>8 DEF RollbackFails, Crash, AtomSafe, Running, Ended
  <2> QED
    BY <2>1, Breaks
<1> QED
  BY <1>1, <1>2, <1>3, <1>4, <1>5, <1>6, <1>7, <1>8 DEF Step

\* When the runs and the administrator take turns, the program implements the
\* atomic update, for any settings and any number of runs: whatever fails, a
\* run that is not killed, and whose restore does not fail, ends with the file
\* as it found it or with its own settings added and the permissions kept.
THEOREM AtomicHolds == ASSUME Exclusive PROVE Spec => IsAtomic
<1>1. AtomInv /\ [Next]_vars => AtomInv'
  BY AtomInvNext
<1>2. ASSUME AtomInv, AtomInv', [Next]_vars
      PROVE  [Atomic!Next]_(Atomic!vars)
  <2>1. CASE UNCHANGED vars
    BY <2>1 DEF vars, local, Atomic!vars, Promised, Installed, Status
  <2>2. CASE Edit
    BY <1>2, <2>2, AtomicEdit DEF Atomic!Next
  <2>3. ASSUME NEW p \in Procs, Load(p) PROVE Atomic!Next
    BY <1>2, <2>3, AtomicLoad DEF Atomic!Next
  <2>4. ASSUME NEW p \in Procs,
               Confirm(p) \/ Step(p) \/ TryFails(p) \/ FinallyFails(p) \/ RollbackFails(p) \/ Crash(p)
        PROVE  [Atomic!Next]_(Atomic!vars)
    BY <1>2, <2>4, AtomicStep DEF Atomic!Next, Atomic!vars, Statuses
  <2> QED
    BY <1>2, <2>1, <2>2, <2>3, <2>4 DEF Next
<1> QED
  BY <1>1, <1>2, AtomInvInit, AtomicInit, PTL DEF Spec, IsAtomic, Atomic!Spec
=============================================================================
