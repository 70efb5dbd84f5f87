---------------------------- MODULE AtomicUpdate ----------------------------
(***************************************************************************)
(* What `dockguard fix-daemon` promises about daemon.json, with no files   *)
(* but the one that counts: a run that is not disturbed is one atomic      *)
(* read-modify-write.  It ends with the file exactly as it found it, or    *)
(* with its own settings added to what it found and the permissions kept.  *)
(* Only a run that dies, or whose restore fails, may leave anything else.  *)
(***************************************************************************)
CONSTANTS
  Procs,      \* the runs of fix-daemon
  Keys,       \* the settings a daemon.json may hold; a text is a set of them
  Wants,      \* the settings each run adds
  NoFile,     \* there is no daemon.json
  Blank,      \* an empty file (it loads as {})
  Partial     \* a file cut short, which does not parse

VARIABLES file, status

vars == <<file, status>>

Data(f) == IF f = NoFile THEN {} ELSE IF f.text \in {Blank, Partial} THEN {} ELSE f.text

Init ==
  /\ file \in {NoFile} \cup [text : {Blank, Partial} \cup SUBSET Keys, mode : {"owner"}]
  /\ status = [p \in Procs |-> "idle"]

Working == {"running", "restoring"}

Updated(p) == [text |-> Data(file) \cup Wants[p],
               mode |-> IF file = NoFile THEN "0644" ELSE file.mode]

\* The runs take turns, and leave a file that does not parse alone.
Begin(p) ==
  /\ file # NoFile => file.text # Partial
  /\ \A q \in Procs : status[q] \notin Working
  /\ status[p] = "idle"
  /\ status' = [status EXCEPT ![p] = "running"]
  /\ UNCHANGED file

Commit(p) ==
  /\ status[p] = "running"
  /\ file' = Updated(p)
  /\ status' = [status EXCEPT ![p] = "applied"]

\* An undoing run still promises the old file, if it is let finish.
Undo(p) ==
  /\ status[p] = "running" /\ file # NoFile
  /\ status' = [status EXCEPT ![p] = "restoring"]
  /\ UNCHANGED file

Abort(p) ==
  /\ status[p] \in {"idle"} \cup Working
  /\ status' = [status EXCEPT ![p] = "unchanged"]
  /\ UNCHANGED file

\* The process is killed, or its last resort fails: the file is the old or
\* the new one, and cut short only if an undo was interrupted.
Break(p) ==
  /\ status[p] \in Working
  /\ \/ file' \in {file, Updated(p)}
     \/ /\ status[p] = "restoring"
        /\ \E t \in {Blank, Partial} : file' = [file EXCEPT !.text = t]
  /\ status' = [status EXCEPT ![p] = "broken"]

\* The administrator edits (or breaks), creates or removes the file between runs.
Edit ==
  /\ \A q \in Procs : status[q] \notin Working
  /\ \/ file' = NoFile
     \/ \E t \in {Blank, Partial} \cup SUBSET Keys :
          file' = [text |-> t, mode |-> IF file = NoFile THEN "owner" ELSE file.mode]
  /\ UNCHANGED status

Next == Edit \/ \E p \in Procs : Begin(p) \/ Commit(p) \/ Undo(p) \/ Abort(p) \/ Break(p)

Spec == Init /\ [][Next]_vars
=============================================================================
