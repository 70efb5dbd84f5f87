------------------------------ MODULE ApplyPlan ------------------------------
(***************************************************************************)
(* `dockguard fix-daemon` on the file system: src/dockguard/cli.py         *)
(* fix_daemon and src/dockguard/remediators/daemon_remediator.py           *)
(* apply_plan, _backup_path, _copy_ownership, _rollback, one action per    *)
(* system call that other processes can observe.  Every run uses the same  *)
(* temporary name and there is no lock, so several runs, an administrator  *)
(* editing daemon.json, I/O errors and kills are interleaved with it.      *)
(*                                                                         *)
(* A text is the set of settings it holds.  A file that is being written   *)
(* is Blank (just truncated: it loads as {}) or Partial (does not parse).  *)
(***************************************************************************)
EXTENDS Naturals, FiniteSets

CONSTANTS
  Procs,      \* the runs of fix-daemon
  Keys,       \* the settings a daemon.json may hold
  Wants,      \* Wants[p]: the settings run p would add
  Second,     \* Second[p]: the second in which run p names its backup
  MaxSuffix,  \* bound on the .1, .2, ... of backups of one second
  MaxEdits,   \* bound on the administrator's edits
  Exclusive,  \* TRUE: the runs and the administrator take turns
  NoFile, Blank, Partial

ASSUME ConstantsAssumption ==
  /\ Wants \in [Procs -> SUBSET Keys]
  /\ Second \in [Procs -> Nat]
  /\ MaxSuffix \in Nat /\ MaxEdits \in Nat
  /\ Exclusive \in BOOLEAN
  /\ Blank # Partial /\ \A t \in SUBSET Keys : t # Blank /\ t # Partial
  /\ \A f \in [text : {Blank, Partial} \cup SUBSET Keys, mode : {"owner", "umask", "0644"}] : f # NoFile

VARIABLES
  path,     \* daemon.json
  tmp,      \* .daemon.json.dockguard.tmp, one name for all runs
  backups,  \* daemon.json.bak.<second>[.<n>]
  pc,       \* where each run is
  exc,      \* the exception a run's `finally` has pending
  base,     \* the settings the run's plan was built on
  bak,      \* the backup name the run chose
  buf,      \* the content the run is copying
  fd,       \* where the file the run has open for writing is linked now
  edits,    \* the administrator's edits so far
  versions, \* history: the texts that must not get lost
  saved     \* history: the file found, or last saved outside any run's window

local == <<base, bak, buf>>
vars == <<path, tmp, backups, pc, exc, base, bak, buf, fd, edits, versions, saved>>

Torn  == {Blank, Partial}
Texts == SUBSET Keys
Modes == {"owner", "umask", "0644"}
Files == [text : Torn \cup Texts, mode : Modes]

\* BACKUP_TIMESTAMP_FORMAT: backups are named by the second.
UndatedStamp(p) == 0
Stamp(p) == Second[p]
Names == {Stamp(p) : p \in Procs} \X (0 .. MaxSuffix)
NoName == <<>>

Ended   == {"refused", "quit", "applied", "error", "oserror", "uncleaned", "crashed"}
Trying  == {"open", "fill", "owner", "validate", "name", "copy", "copying", "replace"}
Running == Trying \cup {"confirm", "finally", "unlink", "reload", "rollback", "restore"}

TypeOK ==
  /\ path \in {NoFile} \cup Files /\ tmp \in {NoFile} \cup Files
  /\ backups \in [Names -> {NoFile} \cup Files]
  /\ pc \in [Procs -> {"idle"} \cup Running \cup Ended]
  /\ exc \in [Procs -> {"none", "error", "oserror"}]
  /\ base \in [Procs -> Texts] /\ bak \in [Procs -> Names \cup {NoName}]
  /\ buf \in [Procs -> {NoFile} \cup Files]
  /\ fd \in [Procs -> {"none", "tmp", "path"}]
  /\ edits \in 0 .. MaxEdits /\ versions \subseteq Texts
  /\ saved \in {NoFile} \cup Files
-----------------------------------------------------------------------------
TextOf(f) == IF f = NoFile THEN Blank ELSE f.text

\* load_daemon_config: a missing or empty file is usable, and holds {} as an
\* unusable one does.
Usable(f) == TextOf(f) # Partial
Data(f) == IF TextOf(f) \in Torn THEN {} ELSE TextOf(f)

\* plan.after: the fixes are added to what the plan was built on.
After(p) == base[p] \cup Wants[p]

Held == {TextOf(backups[b]) : b \in Names} \ Torn

\* The texts a file may hold once a run has written `new` through a handle it
\* opened by truncating: another handle may have filled the file meanwhile.
Landing(old, new) == IF old \in Torn THEN {new} ELSE {new, Partial}

Goto(p, l) == pc' = [pc EXCEPT ![p] = l]
Raise(p, e) == /\ Goto(p, "finally") /\ exc' = [exc EXCEPT ![p] = e]
Opens(p, where) == fd' = [fd EXCEPT ![p] = where]
\* rename or unlink changes where the open handles point
Relinked(tmpTo, pathTo) ==
  fd' = [q \in Procs |-> CASE fd[q] = "tmp" -> tmpTo [] fd[q] = "path" -> pathTo [] OTHER -> "none"]

Init ==
  /\ path \in {NoFile} \cup [text : Torn \cup Texts, mode : {"owner"}]
  /\ tmp = NoFile
  /\ backups = [b \in Names |-> NoFile]
  /\ pc = [p \in Procs |-> "idle"] /\ exc = [p \in Procs |-> "none"]
  /\ base = [p \in Procs |-> {}] /\ bak = [p \in Procs |-> NoName]
  /\ buf = [p \in Procs |-> NoFile] /\ fd = [p \in Procs |-> "none"]
  /\ edits = 0
  /\ versions = {TextOf(path)} \ Torn
  /\ saved = path
-----------------------------------------------------------------------------
(* fix_daemon up to the confirmation prompts: the plan is built from one   *)
(* read of the file, long before anything is written.                      *)
Load(p) ==
  /\ pc[p] = "idle"
  /\ Exclusive => \A q \in Procs : pc[q] \notin Running
  /\ base' = [base EXCEPT ![p] = Data(path)]
  /\ Goto(p, IF ~Usable(path) THEN "refused"
             ELSE IF Wants[p] \subseteq Data(path) THEN "quit" ELSE "confirm")
  /\ UNCHANGED <<path, tmp, backups, exc, bak, buf, fd, edits, versions>>

\* --dry-run, or one of the two prompts, ends the run here.
Confirm(p) ==
  /\ pc[p] = "confirm"
  /\ \E l \in {"open", "quit"} : Goto(p, l)
  /\ UNCHANGED <<path, tmp, backups, exc, local, fd, edits, versions>>

\* tmp.write_text, first half: open(tmp, "w") creates or truncates.
OpenTmp(p) ==
  /\ pc[p] = "open"
  /\ \E t \in Torn : tmp' = [text |-> t, mode |-> IF tmp = NoFile THEN "umask" ELSE tmp.mode]
  /\ Opens(p, "tmp") /\ Goto(p, "fill")
  /\ UNCHANGED <<path, backups, exc, local, edits, versions>>

\* second half: the bytes go to the open file, wherever it is linked by now.
FillTmp(p) ==
  /\ pc[p] = "fill"
  /\ IF fd[p] = "tmp"
     THEN \E t \in Landing(tmp.text, After(p)) : tmp' = [tmp EXCEPT !.text = t]
     ELSE UNCHANGED tmp
  /\ IF fd[p] = "path"
     THEN \E t \in Landing(path.text, After(p)) : path' = [path EXCEPT !.text = t]
     ELSE UNCHANGED path
  /\ Opens(p, "none") /\ Goto(p, "owner")
  /\ UNCHANGED <<backups, exc, local, edits, versions>>

\* _copy_ownership, or NEW_FILE_MODE for a new daemon.json.
UmaskMode == "umask"
OwnerMode == IF path = NoFile THEN "0644" ELSE path.mode

CopyOwnership(p) ==
  /\ pc[p] = "owner"
  /\ IF tmp = NoFile
     THEN Raise(p, "oserror") /\ UNCHANGED tmp
     ELSE /\ tmp' = [tmp EXCEPT !.mode = OwnerMode]
          /\ Goto(p, "validate") /\ UNCHANGED exc
  /\ UNCHANGED <<path, backups, local, fd, edits, versions>>

\* validator(tmp): accepted, rejected, or not able to tell (no dockerd, no
\* --validate, timeout), which apply_plan takes for accepted.
Validate(p) ==
  /\ pc[p] = "validate"
  /\ \E verdict \in {"ok", "bad", "unknown"} :
       /\ verdict = "ok" => tmp # NoFile /\ TextOf(tmp) # Partial
       /\ IF verdict = "bad" THEN Raise(p, "error")
          ELSE Goto(p, "name") /\ UNCHANGED exc
  /\ UNCHANGED <<path, tmp, backups, local, fd, edits, versions>>

\* _backup_path: the first free name of this second.
TakenName(p, n) == n = 0
StuckName(p, n) == n = 0 /\ backups[<<Stamp(p), n>>] = NoFile
FreeName(p, n) ==
  /\ backups[<<Stamp(p), n>>] = NoFile
  /\ \A m \in 0 .. MaxSuffix : m < n => backups[<<Stamp(p), m>>] # NoFile

NoBackup(p) ==
  /\ pc[p] = "name" /\ Goto(p, "replace")
  /\ UNCHANGED <<path, tmp, backups, exc, local, fd, edits, versions>>

NameBackup(p) ==
  /\ pc[p] = "name"
  /\ IF path = NoFile
     THEN Goto(p, "replace") /\ UNCHANGED bak
     ELSE \E n \in 0 .. MaxSuffix :
            /\ FreeName(p, n)
            /\ bak' = [bak EXCEPT ![p] = <<Stamp(p), n>>]
            /\ Goto(p, "copy")
  /\ UNCHANGED <<path, tmp, backups, exc, base, buf, fd, edits, versions>>

\* shutil.copy2(path, backup), first half: open both, truncate the target.
BeginCopy(p) ==
  /\ pc[p] = "copy"
  /\ IF path = NoFile
     THEN Raise(p, "oserror") /\ UNCHANGED <<backups, buf>>
     ELSE /\ buf' = [buf EXCEPT ![p] = path]
          /\ \E t \in Torn : backups' = [backups EXCEPT ![bak[p]] =
               [text |-> t, mode |-> IF backups[bak[p]] = NoFile THEN "umask"
                                     ELSE backups[bak[p]].mode]]
          /\ Goto(p, "copying") /\ UNCHANGED exc
  /\ UNCHANGED <<path, tmp, base, bak, fd, edits, versions>>

CopyPlan(p) ==
  /\ pc[p] = "copying"
  /\ backups' = [backups EXCEPT ![bak[p]] = [text |-> base[p], mode |-> buf[p].mode]]
  /\ Goto(p, "replace")
  /\ UNCHANGED <<path, tmp, exc, local, fd, edits, versions>>

EndCopy(p) ==
  /\ pc[p] = "copying"
  /\ \E t \in Landing(TextOf(backups[bak[p]]), buf[p].text) :
       backups' = [backups EXCEPT ![bak[p]] = [text |-> t, mode |-> buf[p].mode]]
  /\ Goto(p, "replace")
  /\ UNCHANGED <<path, tmp, exc, local, fd, edits, versions>>

\* os.replace(tmp, path)
Replace(p) ==
  /\ pc[p] = "replace"
  /\ IF tmp = NoFile
     THEN Raise(p, "oserror") /\ UNCHANGED <<path, tmp, fd>>
     ELSE /\ path' = tmp /\ tmp' = NoFile /\ Relinked("path", "none")
          /\ Goto(p, "finally") /\ UNCHANGED exc
  /\ UNCHANGED <<backups, local, edits, versions>>

\* An OSError anywhere in the try: only PermissionError becomes a
\* RemediationError, the others (ENOSPC, EIO, ...) leave as they are.
TryFails(p) ==
  /\ pc[p] \in Trying
  /\ \E e \in {"error", "oserror"} : Raise(p, e)
  /\ Opens(p, "none")
  /\ UNCHANGED <<path, tmp, backups, local, edits, versions>>

\* finally: if tmp.exists(): tmp.unlink() -- two calls.
PassOn(p) == Goto(p, exc[p])
AfterTry(p) == Goto(p, IF exc[p] = "none" THEN "reload" ELSE exc[p])

KeepTmp(p) ==
  /\ pc[p] = "finally" /\ AfterTry(p)
  /\ UNCHANGED <<path, tmp, backups, exc, local, fd, edits, versions>>

Finally(p) ==
  /\ pc[p] = "finally"
  /\ IF tmp = NoFile THEN AfterTry(p) ELSE Goto(p, "unlink")
  /\ UNCHANGED <<path, tmp, backups, exc, local, fd, edits, versions>>

Unlink(p) ==
  /\ pc[p] = "unlink"
  /\ IF tmp = NoFile
     THEN Goto(p, "oserror") /\ UNCHANGED <<tmp, fd>>
     ELSE tmp' = NoFile /\ Relinked("none", "path") /\ AfterTry(p)
  /\ UNCHANGED <<path, backups, exc, local, edits, versions>>

\* exists() and unlink() have errors of their own (EACCES, EROFS, EIO): the run
\* ends with that OSError, whatever it had pending, and does not reload.
FinallyFails(p) ==
  /\ pc[p] \in {"finally", "unlink"}
  /\ Goto(p, "uncleaned")
  /\ UNCHANGED <<path, tmp, backups, exc, local, fd, edits, versions>>

\* load_daemon_config again; a read error or another content rolls back.
Reload(p) ==
  /\ pc[p] = "reload"
  /\ \/ /\ Usable(path) /\ Data(path) = After(p)
        /\ Goto(p, "applied") /\ versions' = versions \cup {After(p)}
     \/ Goto(p, "rollback") /\ UNCHANGED versions
  /\ UNCHANGED <<path, tmp, backups, exc, local, fd, edits>>

\* _rollback without a backup removes the file; with one, copy2 truncates
\* daemon.json and writes into it in place.
BeginRollback(p) ==
  /\ pc[p] = "rollback"
  /\ IF bak[p] = NoName
     THEN /\ path' = NoFile /\ Relinked("tmp", "none")
          /\ Goto(p, "error") /\ UNCHANGED buf
     ELSE /\ \E t \in Torn : path' = [text |-> t, mode |-> IF path = NoFile THEN "umask" ELSE path.mode]
          /\ buf' = [buf EXCEPT ![p] = backups[bak[p]]]
          /\ Opens(p, "path") /\ Goto(p, "restore")
  /\ UNCHANGED <<tmp, backups, exc, base, bak, edits, versions>>

EndRollback(p) ==
  /\ pc[p] = "restore"
  /\ IF path = NoFile
     THEN Goto(p, "oserror") /\ UNCHANGED path
     ELSE /\ \E t \in IF fd[p] = "path" THEN Landing(path.text, buf[p].text) ELSE {path.text} :
               path' = [text |-> t, mode |-> buf[p].mode]
          /\ Goto(p, "error")
  /\ Opens(p, "none")
  /\ UNCHANGED <<tmp, backups, exc, local, edits, versions>>

RollbackFails(p) ==
  /\ pc[p] \in {"rollback", "restore"}
  /\ Goto(p, "oserror") /\ Opens(p, "none")
  /\ UNCHANGED <<path, tmp, backups, exc, local, edits, versions>>
-----------------------------------------------------------------------------
\* SIGKILL, power loss: no `finally` runs.
Crash(p) ==
  /\ pc[p] \in Running
  /\ Goto(p, "crashed") /\ Opens(p, "none")
  /\ UNCHANGED <<path, tmp, backups, exc, local, edits, versions>>

\* A run has replaced daemon.json and not yet found it as planned.
Installed(p) ==
  pc[p] \in {"reload", "rollback", "restore"} \/ (pc[p] \in {"finally", "unlink"} /\ exc[p] = "none")

\* A run's window: it has read the file for its backup, or found none, and not
\* yet verified what it put there instead.
Window(p) == pc[p] \in {"copying", "replace"} \/ Installed(p)

\* The administrator saves, creates or removes daemon.json; a text only the
\* file held is then given up by the administrator, not by dockguard.  Editors
\* save by rename, others (cp, tee, the undo next_steps prints) in place: a
\* run's open handle stays on the file.  What is saved may be torn: broken by
\* hand, or one half of saving in place.  (If a run's handle then writes into
\* a Partial file, the mixture is what is left when that save comes second.)
Edit ==
  /\ edits < MaxEdits /\ edits' = edits + 1
  /\ Exclusive => \A q \in Procs : pc[q] \notin Running
  /\ path' \in {NoFile} \cup
       [text : Torn \cup Texts, mode : {IF path = NoFile THEN "owner" ELSE path.mode}]
  /\ \/ Relinked("tmp", "none")
     \/ path # NoFile /\ path' # NoFile /\ UNCHANGED fd
  /\ versions' = (versions \cap Held) \cup ({TextOf(path')} \ Torn)
  /\ saved' = IF \E p \in Procs : Window(p) \/ fd'[p] = "path" THEN NoFile ELSE path'
  /\ UNCHANGED <<tmp, backups, pc, exc, local>>

\* The steps a run takes by itself.
Step(p) ==
  \/ OpenTmp(p) \/ FillTmp(p) \/ CopyOwnership(p) \/ Validate(p) \/ NameBackup(p)
  \/ BeginCopy(p) \/ EndCopy(p) \/ Replace(p) \/ Finally(p) \/ Unlink(p)
  \/ Reload(p) \/ BeginRollback(p) \/ EndRollback(p)

Next ==
  \/ /\ \E p \in Procs : Load(p) \/ Confirm(p) \/ Step(p) \/ TryFails(p) \/ FinallyFails(p)
                      \/ RollbackFails(p) \/ Crash(p)
     /\ UNCHANGED saved
  \/ Edit

Spec == Init /\ [][Next]_vars
FairSpec == Spec /\ \A p \in Procs : WF_pc(Step(p))
-----------------------------------------------------------------------------
(* Correctness.                                                            *)

\* "Always back up before changing": every text that a run found, installed
\* and verified, or the administrator saved, is in daemon.json or in a
\* finished backup, whatever fails and wherever a run dies (apply_plan, 311-314).
Recoverable == versions \subseteq Held \cup {TextOf(path)}

\* The undo command a successful run prints restores what the run found
\* (next_steps 373-380): its backup holds what the plan was built on, and only
\* a run that found no file leaves no backup.
UndoRestores ==
  \A p \in Procs : pc[p] = "applied" =>
    IF bak[p] = NoName THEN base[p] = {} ELSE Data(backups[bak[p]]) = base[p]

\* The temporary file outlives only runs that were killed, or whose own attempt
\* to look for it or remove it failed (finally, 318-320).
TmpGone ==
  tmp # NoFile => \E p \in Procs : pc[p] \in Running \cup {"crashed", "uncleaned"}

\* The file found at the start, and one the administrator saves while no run is
\* in its window and none writes to daemon.json (they are at the prompt, say),
\* survives any interleaving of runs that name their backups in different
\* seconds, until the next save.  What is saved in a window is overwritten, or
\* undone by the rollback (312-325); what is saved in place while a run still
\* writes the temporary file another run has installed is overwritten (302).
SavedKept ==
  TextOf(saved) \notin Torn => TextOf(saved) \in Held \cup {TextOf(path)}

\* A finished backup is never overwritten: the comment at 264 says so of two
\* runs in the same second.
BackupsNotOverwritten ==
  [][\A b \in Names : TextOf(backups[b]) \notin Torn => backups'[b] = backups[b]]_vars

\* An approved run always comes to an end: it waits for nobody.
Terminates == \A p \in Procs : pc[p] = "open" ~> pc[p] \in Ended

\* A run in turn is one atomic update of daemon.json (AtomicUpdate): from the
\* replace to the verified reload the file counts as what its backup holds.
Promised ==
  IF \E p \in Procs : Installed(p)
  THEN LET p == CHOOSE q \in Procs : Installed(q)
       IN IF bak[p] = NoName THEN NoFile ELSE backups[bak[p]]
  ELSE path

Status(p) ==
  CASE pc[p] = "restore" -> "restoring"
    [] pc[p] \in Running \ {"restore"} -> "running"
    [] pc[p] \in {"refused", "quit", "error"} \/ (pc[p] \in {"oserror", "uncleaned"} /\ exc[p] # "none") -> "unchanged"
    [] pc[p] = "crashed" \/ (pc[p] \in {"oserror", "uncleaned"} /\ exc[p] = "none") -> "broken"
    [] OTHER -> pc[p]

Atomic == INSTANCE AtomicUpdate WITH file <- Promised, status <- [p \in Procs |-> Status(p)]
IsAtomic == Atomic!Spec
=============================================================================
