------------------------------- MODULE Compose -------------------------------
(***************************************************************************)
(* The compose part of a scan (src/dockguard/core/compose_loader.py and    *)
(* rules/compose/): find the compose files of the named files and folders, *)
(* read each with the override beside it, merge the two, and judge every   *)
(* service by the twelve COMPOSE rules, one finding for each project and   *)
(* rule.  Files may be edited while they are looked for and read.          *)
(***************************************************************************)
EXTENDS Naturals, Sequences

CONSTANTS
  WalkOrder,    \* the folders in the order of os.walk, each the sequence of its names
  SkipDirs,     \* names of folders that are not searched
  MaxDepth,     \* how far below a folder files are searched
  Contents,     \* what a file may hold
  Edits,        \* which files may be edited meanwhile, and to what
  Starts,       \* the files, the Dockerfile, what --compose names, and a bound on the edits
  Dockerfiles,  \* what the Dockerfile of a service that is built may hold
  DaemonUserns, DaemonNnp   \* what a usable daemon.json says

Dirs == {WalkOrder[i] : i \in DOMAIN WalkOrder}
Place(d) == CHOOSE i \in DOMAIN WalkOrder : WalkOrder[i] = d

\* Two of the four names stand for all, in the order of preference.
ProjectNames == <<"compose.yaml", "docker-compose.yml">>
OverrideNames == <<"compose.override.yaml", "docker-compose.override.yml">>
FileNames == {ProjectNames[i] : i \in {1, 2}} \cup {OverrideNames[i] : i \in {1, 2}}
Files == Dirs \X FileNames
NoFile == <<<<>>, "">>

\* A setting: a scalar <<"", text>>, a list of items, or a mapping.  Every item
\* and entry is a pair, with what a rule looks at in both its parts.
Keys == {"privileged", "user", "image", "build", "cap_add", "volumes", "environment", "security_opt", "read_only",
         "mem_limit", "cpus", "limits", "network_mode", "pid", "ipc", "ports"}
Values == [kind : {"unset", "one", "list", "map"}, is : SUBSET (STRING \X STRING)]
Unset == [kind |-> "unset", is |-> {}]

\* A service is null if it has nothing after its name.
ServiceConfigs == [null : BOOLEAN, has : [Keys -> Values]]
NoSettings == [null |-> TRUE, has |-> [k \in Keys |-> Unset]]

\* "broken": not to be read, no YAML, or no mapping; "bare": a mapping without
\* services; "odd": with services that are no mapping.
States == {"absent", "broken", "bare", "odd", "doc"}
Nothing == [state |-> "bare", services |-> [n \in {} |-> NoSettings]]
IsContent(c) ==
  /\ DOMAIN c = {"state", "services"} /\ c.state \in States
  /\ \A n \in DOMAIN c.services :
       /\ c.state = "doc" /\ c.services[n] \in ServiceConfigs
       /\ c.services[n].null => c.services[n] = NoSettings

\* A target is a folder if its name is "".
Targets == Dirs \X (FileNames \cup {""})

ASSUME ComposeAssumption ==
  /\ \A i, j \in DOMAIN WalkOrder : WalkOrder[i] = WalkOrder[j] => i = j
  /\ WalkOrder \in Seq(Dirs) /\ \A d \in Dirs : d \in Seq(STRING)
  /\ MaxDepth \in Nat /\ DaemonUserns \in BOOLEAN /\ DaemonNnp \in BOOLEAN
  /\ (\A c \in Contents : IsContent(c)) /\ Edits \subseteq Files \X Contents
  /\ Dockerfiles \subseteq Seq({"FROM", "USER root", "USER app"})
  /\ \A s \in Starts : /\ \A f \in Files : s.disk[f] \in Contents
                       /\ DOMAIN s.disk = Files
                       /\ s.dockerfile \in Dockerfiles /\ s.targets \in Seq(Targets) /\ s.edits \in Nat

VARIABLES
  disk, dockerfile,  \* the files
  asked, targets,    \* what was named, and what of it is still to be searched
  walk, queue,       \* folders of the current target to look into; files found and not yet loaded
  seen,              \* files that have been loaded
  pc, job, base,     \* the file being loaded, and the text read of it
  projects,          \* what has been loaded, in order
  findings,
  past, edits        \* the disks so far, and how many edits may follow

loader == <<asked, targets, walk, queue, seen, pc, job, base, projects, findings>>
vars == <<disk, dockerfile, loader, past, edits>>
-----------------------------------------------------------------------------
(* Merging an override into a compose file.                                *)

\* Mappings key by key, lists as a union, whatever else is replaced.  A list of
\* security_opt is kept as its reader takes it: of options of one name the
\* first, and the base's come first.
BaseFirst(k, b, o) == IF b.kind # "unset" THEN b ELSE o
ListsReplaced(k, b, o) == IF o.kind = "unset" THEN b ELSE o
MergeSetting(k, b, o) ==
  CASE o.kind = "unset" -> b
    [] o.kind # "unset" /\ b.kind = "unset" -> o
    [] o.kind = "map" /\ b.kind = "map" ->
         [kind |-> "map", is |-> {e \in b.is : \A x \in o.is : x[1] # e[1]} \cup o.is]
    [] o.kind = "list" /\ b.kind = "list" ->
         [kind |-> "list", is |-> b.is \cup (IF k # "security_opt" THEN o.is
                                             ELSE {e \in o.is : \A x \in b.is : x[1] # e[1]})]
    [] OTHER -> o

MergeService(b, o) ==
  IF o.null \/ b.null THEN o
  ELSE [null |-> FALSE, has |-> [k \in Keys |-> MergeSetting(k, b.has[k], o.has[k])]]

MergeServices(b, o) ==
  [n \in DOMAIN b \cup DOMAIN o |->
     IF n \notin DOMAIN o THEN b[n] ELSE IF n \notin DOMAIN b THEN o[n] ELSE MergeService(b[n], o[n])]

Merge(b, o) ==
  CASE o.state = "bare" -> b
    [] o.state = "doc" /\ b.state = "doc" -> [state |-> "doc", services |-> MergeServices(b.services, o.services)]
    [] OTHER -> o

\* What _read_yaml takes; and a project without services is an error too.
Readable(c) == c.state \in {"bare", "odd", "doc"}
Merged(p) == Merge(p.base, p.extra)
Sound(p) ==
  /\ Readable(p.base) /\ Readable(p.extra)
  /\ Merged(p).state = "doc" /\ DOMAIN Merged(p).services # {}
ServicesOf(p) == Merged(p).services
-----------------------------------------------------------------------------
(* The rules: the statuses of the issues of one service.                   *)
Scalar(s, k) == IF s[k].kind = "one" THEN (CHOOSE e \in s[k].is : TRUE)[2] ELSE ""
Items(s, k) == IF s[k].kind = "list" THEN s[k].is ELSE {}
Entries(s, k) == IF s[k].kind \in {"list", "map"} THEN s[k].is ELSE {}
FailIf(b) == IF b THEN {"FAIL"} ELSE {}
WarnIf(b) == IF b THEN {"WARN"} ELSE {}

Dangerous == {"ALL", "SYS_ADMIN", "NET_ADMIN"}
PrivilegeDropping == {"postgres:16", "postgres"}
Unpinned == {"app", "app:latest", "${TAG:-latest}", "postgres"}
\* A reference may have a default, which starts at a hyphen: a name with one reads
\* as a shorter name and a default.
Hyphenated == {"API-KEY"}
SecretNames == {"DB_PASSWORD", "API_KEY"} \cup Hyphenated
InTheClear == {"text", "${VAR:-text}", "${VAR-text}"}
WebPorts == {"80", "443"}
LowPorts == {"22", "80", "443"}

PrivilegedIssues(s) == FailIf(Scalar(s, "privileged") = "true")

\* The last USER, unless a stage begins after it; "" if there is none, or no file.
DockerfileUser(lines) ==
  LET last == {i \in DOMAIN lines : lines[i] # "FROM" /\ \A j \in DOMAIN lines : j > i => lines[j] # "FROM"}
      uses == {i \in last : \A j \in last : j <= i}
  IN IF uses = {} THEN "" ELSE IF \E i \in uses : lines[i] = "USER root" THEN "root" ELSE "app"

UserIssues(s, lines) ==
  CASE Scalar(s, "user") # "" -> FailIf(Scalar(s, "user") = "root")
    [] Scalar(s, "user") = "" /\ Scalar(s, "image") \in PrivilegeDropping -> {"WARN"}
    [] OTHER -> IF s["build"].kind # "unset" /\ DockerfileUser(lines) # ""
                THEN FailIf(DockerfileUser(lines) = "root")
                ELSE IF DaemonUserns THEN {"WARN"} ELSE {"FAIL"}

\* The option's value is what follows its name; without one it is on.
NnpIssues(s) ==
  LET set == {e \in Items(s, "security_opt") : e[1] = "no-new-privileges"}
  IN IF set = {} THEN FailIf(~DaemonNnp) ELSE FailIf(\A e \in set : e[2] \notin {"", "true"})

HasLimit(s, what, key) == Scalar(s, key) # "" \/ \E e \in s["limits"].is : s["limits"].kind = "map" /\ e[1] = what /\ e[2] # ""
LimitIssues(s) ==
  IF ~HasLimit(s, "memory", "mem_limit") THEN {"FAIL"} ELSE WarnIf(~HasLimit(s, "cpus", "cpus"))

\* An entry of ports has a host port unless it is a container's port alone.
HostPorts(s) == {e[2] : e \in {x \in Items(s, "ports") : x[1] # "container"}}

SocketIssues(s) == FailIf(\E e \in Items(s, "volumes") : e[1] = "docker.sock")
Revealed(s, names) == {e \in Entries(s, "environment") : e[1] \in names /\ e[2] \in InTheClear}
SecretIssues(s) == FailIf(Revealed(s, SecretNames) # {})
ReadOnlyIssues(s) == FailIf(Scalar(s, "read_only") # "true")
HostNetworkIssues(s) == WarnIf(Scalar(s, "network_mode") = "host")
NamespaceIssues(s) == FailIf("host" \in {Scalar(s, "pid"), Scalar(s, "ipc")})
CapabilityIssues(s) == FailIf(\E e \in Items(s, "cap_add") : e[1] \in Dangerous)
ImageIssues(s) == FailIf(Scalar(s, "image") \in Unpinned)
PortIssues(s) == WarnIf(HostPorts(s) \cap (LowPorts \ WebPorts) # {})

Rules == {"001", "002", "003", "004", "005", "006", "007", "008", "009", "010", "011", "012"}
Issues(r, s, lines) ==
  CASE r = "001" -> PrivilegedIssues(s)
    [] r = "002" -> UserIssues(s, lines)
    [] r = "003" -> NnpIssues(s)
    [] r = "004" -> SocketIssues(s)
    [] r = "005" -> SecretIssues(s)
    [] r = "006" -> ReadOnlyIssues(s)
    [] r = "007" -> LimitIssues(s)
    [] r = "008" -> HostNetworkIssues(s)
    [] r = "009" -> NamespaceIssues(s)
    [] r = "010" -> CapabilityIssues(s)
    [] r = "011" -> ImageIssues(s)
    [] r = "012" -> PortIssues(s)

\* One finding of a rule for a project, as bad as its worst issue.
WarningFirst(r, p, lines) ==
  LET found == UNION {Issues(r, ServicesOf(p)[n].has, lines) : n \in DOMAIN ServicesOf(p)}
  IN IF "WARN" \in found THEN "WARN" ELSE IF "FAIL" \in found THEN "FAIL" ELSE "PASS"
Verdict(r, p, lines) ==
  LET found == UNION {Issues(r, ServicesOf(p)[n].has, lines) : n \in DOMAIN ServicesOf(p)}
  IN IF "FAIL" \in found THEN "FAIL" ELSE IF "WARN" \in found THEN "WARN" ELSE "PASS"

\* The example of how to fix the issues of a rule in a service, put in the
\* place of what is there; of COMPOSE-012 it is left to the reader.
One(x) == [kind |-> "one", is |-> {<<"", x>>}]
List(xs) == [kind |-> "list", is |-> xs]
WithDockerHost(v) ==
  [kind |-> IF v.kind = "list" THEN "list" ELSE "map",
   is |-> {e \in (IF v.kind \in {"list", "map"} THEN v.is ELSE {}) : e[1] # "DOCKER_HOST"} \cup {<<"DOCKER_HOST", "text">>}]
\* What ${name} is read as.
Reference(name) == IF name \in Hyphenated THEN "${VAR-text}" ELSE "${VAR}"
ByReference(v) ==
  [v EXCEPT !.is = {IF e[1] \in SecretNames /\ e[2] \in InTheClear THEN <<e[1], Reference(e[1])>> ELSE e : e \in @}]
KeepName(image) == IF image \in {"postgres", "postgres:16"} THEN "postgres" ELSE "app:1"
Pinned(image) == IF image \in PrivilegeDropping THEN "postgres:16" ELSE "app:1"

DropPrivileged(s) == [s EXCEPT !["privileged"] = Unset, !["cap_add"] = List({<<"NET_BIND_SERVICE", "">>})]
SetUser(s) == [s EXCEPT !["user"] = One("app")]
SetNnp(s) == [s EXCEPT !["security_opt"] = List({<<"no-new-privileges", "true">>})]
UseProxy(s) ==
  [s EXCEPT !["environment"] = WithDockerHost(@), !["volumes"] = List({e \in @.is : e[1] # "docker.sock"})]
HideSecrets(s) == [s EXCEPT !["environment"] = ByReference(@)]
SetReadOnly(s) == [s EXCEPT !["read_only"] = One("true")]
SetLimits(s) == [s EXCEPT !["limits"] = [kind |-> "map", is |-> {<<"cpus", "1.0">>, <<"memory", "512M">>}]]
UseBridge(s) == [s EXCEPT !["network_mode"] = Unset, !["ports"] = List({<<"ip:host:container", "8080">>})]
DropNamespaces(s) ==
  [s EXCEPT !["pid"] = IF Scalar(s, "pid") = "host" THEN Unset ELSE @,
            !["ipc"] = IF Scalar(s, "ipc") = "host" THEN Unset ELSE @]
DropCapabilities(s) == [s EXCEPT !["cap_add"] = List({})]
PinImage(s) == [s EXCEPT !["image"] = One(Pinned(Scalar(s, "image")))]

Fix(r, s) ==
  CASE r = "001" -> DropPrivileged(s)
    [] r = "002" -> SetUser(s)
    [] r = "003" -> SetNnp(s)
    [] r = "004" -> UseProxy(s)
    [] r = "005" -> HideSecrets(s)
    [] r = "006" -> SetReadOnly(s)
    [] r = "007" -> SetLimits(s)
    [] r = "008" -> UseBridge(s)
    [] r = "009" -> DropNamespaces(s)
    [] r = "010" -> DropCapabilities(s)
    [] r = "011" -> PinImage(s)
    [] r = "012" -> s

Findings(lines) ==
  {[rule |-> r, project |-> i, status |-> Verdict(r, projects[i], lines)] :
     r \in Rules, i \in {j \in DOMAIN projects : Sound(projects[j])}}
-----------------------------------------------------------------------------
(* Loading.                                                                *)
There(dk, f) == dk[f].state # "absent"

\* The first name of those there are.
FirstOf(dk, d, names) ==
  IF There(dk, <<d, names[1]>>) THEN <<d, names[1]>> ELSE IF There(dk, <<d, names[2]>>) THEN <<d, names[2]>> ELSE NoFile
ProjectFile(d) == FirstOf(disk, d, ProjectNames)
LastOverride(d) == FirstOf(disk, d, <<OverrideNames[2], OverrideNames[1]>>)
OverrideFile(d) == FirstOf(disk, d, OverrideNames)

Reached(root, d) ==
  /\ Len(root) <= Len(d) /\ SubSeq(d, 1, Len(root)) = root /\ Len(d) - Len(root) <= MaxDepth
  /\ \A i \in Len(root) + 1 .. Len(d) : d[i] \notin SkipDirs

TopOnly(t) == IF t[2] = "" THEN {t[1]} ELSE {}
FoldersOf(t) == IF t[2] = "" THEN {d \in Dirs : Reached(t[1], d)} ELSE {}

Init ==
  /\ \E s \in Starts : disk = s.disk /\ dockerfile = s.dockerfile /\ asked = s.targets /\ targets = s.targets /\ edits = s.edits
  /\ walk = {} /\ queue = {} /\ seen = {} /\ pc = "next" /\ job = [file |-> NoFile, override |-> NoFile] /\ base = Nothing
  /\ projects = <<>> /\ findings = {} /\ past = <<disk>>

\* A file is added as it is, a folder is searched.
TakeTarget ==
  /\ pc = "next" /\ walk = {} /\ queue = {} /\ targets # <<>>
  /\ targets' = Tail(targets) /\ walk' = FoldersOf(Head(targets))
  /\ queue' = IF Head(targets)[2] = "" THEN {} ELSE {[file |-> Head(targets), walked |-> FALSE]}
  /\ UNCHANGED <<disk, dockerfile, asked, seen, pc, job, base, projects, findings, past, edits>>

\* All folders are looked into before the first file is read.
Search(d) ==
  /\ pc = "next" /\ d \in walk /\ \A e \in walk : Place(d) <= Place(e)
  /\ walk' = walk \ {d}
  /\ queue' = queue \cup {[file |-> f, walked |-> TRUE] : f \in {ProjectFile(d)} \ {NoFile}}
  /\ UNCHANGED <<disk, dockerfile, asked, targets, seen, pc, job, base, projects, findings, past, edits>>

\* A file is loaded once; the override is looked for before it is known whether
\* this is the first time.
Unnoticed(f) == seen
Notice(f) == seen \cup {f}
Add(e) ==
  /\ pc = "next" /\ walk = {} /\ e \in queue /\ \A x \in queue : Place(e.file[1]) <= Place(x.file[1])
  /\ queue' = queue \ {e}
  /\ IF e.file \in seen THEN UNCHANGED <<seen, job, pc>>
     ELSE /\ seen' = Notice(e.file) /\ pc' = "base"
          /\ job' = [file |-> e.file, override |-> IF e.walked THEN OverrideFile(e.file[1]) ELSE NoFile]
  /\ UNCHANGED <<disk, dockerfile, asked, targets, walk, base, projects, findings, past, edits>>

Loaded(b, o) ==
  /\ projects' = Append(projects, [file |-> job.file, override |-> job.override, base |-> b, extra |-> o])
  /\ pc' = "next" /\ base' = Nothing

ReadWrongFile ==
  /\ pc = "base"
  /\ IF job.override = NoFile \/ ~Readable(disk[job.file])
     THEN Loaded(disk[job.file], Nothing)
     ELSE pc' = "override" /\ base' = disk[job.override] /\ UNCHANGED projects
  /\ UNCHANGED <<disk, dockerfile, asked, targets, walk, queue, seen, job, findings, past, edits>>

\* A file that cannot be read, or with nothing to merge, is done with.
ReadBase ==
  /\ pc = "base"
  /\ IF job.override = NoFile \/ ~Readable(disk[job.file])
     THEN Loaded(disk[job.file], Nothing)
     ELSE pc' = "override" /\ base' = disk[job.file] /\ UNCHANGED projects
  /\ UNCHANGED <<disk, dockerfile, asked, targets, walk, queue, seen, job, findings, past, edits>>

ReadOverride ==
  /\ pc = "override" /\ Loaded(base, disk[job.override])
  /\ UNCHANGED <<disk, dockerfile, asked, targets, walk, queue, seen, job, findings, past, edits>>

Collected ==
  /\ pc = "next" /\ walk = {} /\ queue = {} /\ targets = <<>> /\ pc' = "judge"
  /\ UNCHANGED <<disk, dockerfile, asked, targets, walk, queue, seen, job, base, projects, findings, past, edits>>

Judge ==
  /\ pc = "judge" /\ pc' = "ended" /\ findings' = Findings(dockerfile)
  /\ UNCHANGED <<disk, dockerfile, asked, targets, walk, queue, seen, job, base, projects, past, edits>>

Edit(f, c) ==
  /\ pc \in {"next", "base", "override"} /\ edits > 0 /\ edits' = edits - 1
  /\ c # disk[f] /\ disk' = [disk EXCEPT ![f] = c] /\ past' = Append(past, disk')
  /\ UNCHANGED <<dockerfile, loader>>

Scanning == TakeTarget \/ (\E d \in walk : Search(d)) \/ (\E e \in queue : Add(e)) \/ ReadBase \/ ReadOverride \/ Collected \/ Judge
Next ==
  \/ Scanning
  \/ \E e \in Edits : Edit(e[1], e[2])

Spec == Init /\ [][Next]_vars
-----------------------------------------------------------------------------
Texts == Contents \cup {Nothing}
Projects == [file : Files, override : Files \cup {NoFile}, base : Texts, extra : Texts]
TypeOK ==
  /\ DOMAIN disk = Files /\ (\A f \in Files : disk[f] \in Contents) /\ dockerfile \in Dockerfiles
  /\ asked \in Seq(Targets) /\ targets \in Seq(Targets)
  /\ walk \subseteq Dirs /\ queue \subseteq [file : Files, walked : BOOLEAN] /\ seen \subseteq Files
  /\ pc \in {"next", "base", "override", "judge", "ended"}
  /\ job \in [file : Files \cup {NoFile}, override : Files \cup {NoFile}] /\ base \in Texts
  /\ (pc \in {"base", "override"} => job.file \in Files) /\ (pc = "override" => job.override \in Files)
  /\ projects \in Seq(Projects) /\ edits \in Nat

(* However often and by whatever way a file is named, it is judged once.   *)
EachOnce == \A i, j \in DOMAIN projects : projects[i].file = projects[j].file => i = j

(* Of all that was named there is a project when the rules run: of a file  *)
(* even if it is gone by then, of a folder whatever was there all the time *)
(* to be found.                                                            *)
Covered ==
  pc \in {"judge", "ended"} =>
    \A k \in DOMAIN asked :
      \/ asked[k][2] # "" /\ \E i \in DOMAIN projects : projects[i].file = asked[k]
      \/ /\ asked[k][2] = ""
         /\ \A f \in Files :
              Reached(asked[k][1], f[1]) /\ (\A i \in DOMAIN past : f = FirstOf(past[i], f[1], ProjectNames))
                => \E i \in DOMAIN projects : projects[i].file = f

\* What docker compose would take of the folder of p, if dockguard takes an override at all.
Beside(dk, p) ==
  LET o == FirstOf(dk, p.file[1], OverrideNames) IN IF p.override = NoFile \/ o = NoFile THEN Nothing ELSE dk[o]
Settled(f) == \A i, j \in DOMAIN past : past[i][f] = past[j][f]

(* A compose file and its override are read one after the other.  As long  *)
(* as only one of them, or of the two names an override may have, is being *)
(* edited, what is judged is what the folder held at one moment.           *)
Snapshot ==
  \A i \in DOMAIN projects :
    LET p == projects[i]
        read == {p.file} \cup {<<p.file[1], OverrideNames[n]>> : n \in {1, 2}}
    IN Sound(p) /\ (\E f \in read : \A g \in read \ {f} : Settled(g)) =>
         \E m \in DOMAIN past : p.base = past[m][p.file] /\ p.extra = Beside(past[m], p)

\* What service n is deployed with for setting k, on disk dk.
Deployed(dk, p, n, k) ==
  LET m == Merge(dk[p.file], Beside(dk, p)) IN IF n \in DOMAIN m.services THEN m.services[n].has[k] ELSE Unset
InOverride(dk, p, n, k) ==
  LET o == Beside(dk, p) IN n \in DOMAIN o.services /\ ~o.services[n].null /\ o.services[n].has[k].kind = "one"

(* A scalar that the service is deployed with at every moment, and that is *)
(* moved meanwhile from the compose file to an override that was there     *)
(* (written there before it is removed here), is never missed: the base is *)
(* read first.  Only an override under a name it did not have is.          *)
NeverWithout ==
  \A i \in DOMAIN projects :
    LET p == projects[i] IN
    Sound(p) =>
      \A n \in DOMAIN ServicesOf(p), k \in Keys :
        LET v == Deployed(past[1], p, n, k) IN
        /\ v.kind = "one" /\ \A m \in DOMAIN past : Deployed(past[m], p, n, k) = v
        /\ \A m, q \in DOMAIN past : m < q /\ InOverride(past[m], p, n, k) => InOverride(past[q], p, n, k)
        /\ p.override # NoFile => \A m \in DOMAIN past : FirstOf(past[m], p.file[1], OverrideNames) \in {p.override, NoFile}
        => ServicesOf(p)[n].has[k] = v

ListRules == {<<"004", "volumes">>, <<"010", "cap_add">>, <<"012", "ports">>}
ScalarRules == {<<"001", "privileged">>, <<"002", "user">>, <<"006", "read_only">>, <<"008", "network_mode">>, <<"011", "image">>}

\* Service n is configured in both files.
Both(p, n) ==
  /\ Sound(p) /\ p.base.state = "doc" /\ p.extra.state = "doc" /\ n \in DOMAIN p.base.services \cap DOMAIN p.extra.services
  /\ ~p.base.services[n].null /\ ~p.extra.services[n].null

(* An override cannot hide what the compose file mounts, grants or opens:  *)
(* lists only grow, unless the override puts something else than a list.   *)
NothingHidden ==
  \A i \in DOMAIN projects :
    LET p == projects[i] IN
    \A n \in DOMAIN p.base.services, rk \in ListRules :
      Both(p, n) /\ p.extra.services[n].has[rk[2]].kind \in {"unset", "list"} =>
        Issues(rk[1], p.base.services[n].has, dockerfile) \subseteq Issues(rk[1], ServicesOf(p)[n].has, dockerfile)

(* A service that the override does not name is judged as the compose file *)
(* has it, and no other service's issue stands before a worse one of it.   *)
ServicesKept ==
  pc = "ended" =>
    \A i \in DOMAIN projects :
      LET p == projects[i] IN
      Sound(p) /\ p.base.state = "doc" /\ p.extra.state \in {"bare", "doc"} =>
        \A n \in DOMAIN p.base.services \ DOMAIN p.extra.services, r \in Rules :
          \A x \in Issues(r, p.base.services[n].has, dockerfile) :
            \E f \in findings : f.project = i /\ f.rule = r /\ f.status \in {x, "FAIL"}

(* What the override says is what counts (README.md:551, a `user:` that    *)
(* only the override has): a scalar set there is judged as set there.      *)
OverrideDecides ==
  \A i \in DOMAIN projects :
    LET p == projects[i] IN
    \A n \in DOMAIN p.base.services, rk \in ScalarRules :
      Both(p, n) /\ Scalar(p.extra.services[n].has, rk[2]) # "" =>
        Issues(rk[1], ServicesOf(p)[n].has, dockerfile) = Issues(rk[1], p.extra.services[n].has, dockerfile)

(* An override changes what it sets, and hides nothing else.               *)
OverrideApplied == ServicesKept /\ NothingHidden /\ OverrideDecides

(* The example offered for an issue removes it, and brings in nothing that *)
(* another rule would report of the service.  Only a secret with a hyphen  *)
(* in its name is reported again: the reference to it is read as one with  *)
(* a default.                                                              *)
Misread(r, s) == r = "005" /\ Revealed(s, Hyphenated) # {}
Offered(r, s) ==
  /\ Issues(r, s, dockerfile) # {} /\ r # "012"
  /\ r = "002" => "FAIL" \in Issues(r, s, dockerfile)
FixesHold ==
  \A i \in DOMAIN projects, r \in Rules :
    Sound(projects[i]) =>
      \A n \in DOMAIN ServicesOf(projects[i]) :
        LET s == ServicesOf(projects[i])[n].has IN
        Offered(r, s) =>
          /\ Issues(r, Fix(r, s), dockerfile) = {} <=> ~Misread(r, s)
          /\ \A q \in Rules : Issues(q, Fix(r, s), dockerfile) \subseteq Issues(q, s, dockerfile)

=============================================================================
