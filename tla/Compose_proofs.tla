---------------------------- MODULE Compose_proofs ----------------------------
(* What Compose promises for any folders, files, edits and daemon.json:    *)
(* of loading, of merging, and of the examples of how to fix an issue.     *)
EXTENDS Compose, SequenceTheorems, TLAPS

\* Of each file in seen, and of no other, the loader has a project or the job.
Once ==
  /\ EachOnce
  /\ \A i \in DOMAIN projects : projects[i].file \in seen
  /\ pc \in {"base", "override"} => job.file \in seen /\ \A i \in DOMAIN projects : projects[i].file # job.file
LoadInv == TypeOK /\ Once
-----------------------------------------------------------------------------
LEMMA FirstOfType ==
  ASSUME NEW dk, NEW d \in Dirs, NEW names, names \in {ProjectNames, OverrideNames}
  PROVE  FirstOf(dk, d, names) \in Files \cup {NoFile}
PROOF
<1>1. names[1] \in FileNames /\ names[2] \in FileNames BY DEF FileNames, ProjectNames, OverrideNames
<1> QED BY <1>1 DEF FirstOf, Files

LEMMA FoundType ==
  ASSUME NEW d \in Dirs, NEW e \in {[file |-> f, walked |-> TRUE] : f \in {ProjectFile(d)} \ {NoFile}}
  PROVE  e \in [file : Files, walked : BOOLEAN]
PROOF
<1>1. ProjectFile(d) # NoFile => ProjectFile(d) \in Files BY FirstOfType DEF ProjectFile
<1>2. PICK f \in {ProjectFile(d)} \ {NoFile} : e = [file |-> f, walked |-> TRUE] OBVIOUS
<1> QED BY <1>1, <1>2

LEMMA NamedType == ASSUME NEW f \in Files PROVE [file |-> f, walked |-> FALSE] \in [file : Files, walked : BOOLEAN]
PROOF OBVIOUS

LEMMA TypeInit == Init => TypeOK
PROOF
<1> SUFFICES ASSUME Init PROVE TypeOK OBVIOUS
<1>1. PICK s \in Starts : disk = s.disk /\ dockerfile = s.dockerfile /\ asked = s.targets /\ targets = s.targets /\ edits = s.edits
  BY DEF Init
<1>2. /\ DOMAIN disk = Files /\ (\A f \in Files : disk[f] \in Contents) /\ dockerfile \in Dockerfiles
      /\ asked \in Seq(Targets) /\ targets \in Seq(Targets) /\ edits \in Nat
  BY <1>1, ComposeAssumption DEF ComposeAssumption
<1>3. projects \in Seq(Projects) BY DEF Init
<1> QED BY <1>2, <1>3 DEF Init, TypeOK, Texts

LEMMA TypeNext == ASSUME TypeOK, [Next]_vars PROVE TypeOK'
PROOF
<1> USE DEF TypeOK
<1>0. Edits \subseteq Files \X Contents BY ComposeAssumption DEF ComposeAssumption
<1>1. CASE TakeTarget
  <2>0. targets \in Seq(Targets) /\ targets # <<>> BY <1>1 DEF TakeTarget
  <2>1. Head(targets) \in Targets /\ Tail(targets) \in Seq(Targets) BY <2>0, HeadTailProperties
  <2>2. FoldersOf(Head(targets)) \subseteq Dirs BY DEF FoldersOf
  <2>3. Head(targets)[2] # "" => Head(targets) \in Files BY <2>1 DEF Targets, Files
  <2>4. queue' \subseteq [file : Files, walked : BOOLEAN]
    <3>1. CASE Head(targets)[2] = "" BY <1>1, <3>1 DEF TakeTarget
    <3>2. CASE Head(targets)[2] # ""
      <4>1. queue' = {[file |-> Head(targets), walked |-> FALSE]} BY <1>1, <3>2, Zenon DEF TakeTarget
      <4>2. [file |-> Head(targets), walked |-> FALSE] \in [file : Files, walked : BOOLEAN] BY <2>3, <3>2, NamedType, Zenon
      <4> HIDE DEF TypeOK
      <4> QED BY <4>1, <4>2, Zenon
    <3> QED BY <3>1, <3>2
  <2> QED BY <1>1, <2>1, <2>2, <2>4 DEF TakeTarget
<1>2. ASSUME NEW e \in queue, Add(e) PROVE TypeOK'
  <2>1. e.file \in Files /\ e.file[1] \in Dirs BY DEF Files
  <2>2. OverrideFile(e.file[1]) \in Files \cup {NoFile} BY <2>1, FirstOfType DEF OverrideFile
  <2>3. seen' \subseteq Files /\ queue' \subseteq [file : Files, walked : BOOLEAN]
    BY <1>2, <2>1 DEF Add, Notice
  <2>4. CASE e.file \in seen BY <1>2, <2>3, <2>4 DEF Add
  <2>5. CASE e.file \notin seen
    <3>1. job'.file = e.file /\ job' \in [file : Files \cup {NoFile}, override : Files \cup {NoFile}] /\ pc' = "base"
      BY <1>2, <2>1, <2>2, <2>5 DEF Add
    <3> QED BY <1>2, <2>1, <2>3, <3>1 DEF Add
  <2> QED BY <2>4, <2>5
<1>3. ASSUME NEW b \in Texts, NEW o \in Texts, Loaded(b, o), pc \in {"base", "override"}
      PROVE  projects' \in Seq(Projects) /\ base' \in Texts /\ pc' = "next"
  <2>1. [file |-> job.file, override |-> job.override, base |-> b, extra |-> o] \in Projects
    BY <1>3 DEF Projects
  <2> QED BY <1>3, <2>1, AppendProperties DEF Loaded, Texts
<1>4. CASE ReadBase
  <2>1. disk[job.file] \in Texts /\ Nothing \in Texts BY <1>4 DEF ReadBase, Texts
  <2>2. CASE job.override = NoFile \/ ~Readable(disk[job.file])
    <3>1. projects' \in Seq(Projects) /\ base' \in Texts /\ pc' = "next"
      BY <1>4, <2>1, <2>2, <1>3 DEF ReadBase
    <3> QED BY <1>4, <3>1 DEF ReadBase
  <2>3. CASE ~(job.override = NoFile \/ ~Readable(disk[job.file]))
    <3>1. job.override \in Files BY <2>3
    <3> QED BY <1>4, <2>1, <2>3, <3>1 DEF ReadBase
  <2> QED BY <2>2, <2>3
<1>5. CASE ReadOverride
  <2>1. disk[job.override] \in Texts BY <1>5 DEF ReadOverride, Texts
  <2>2. projects' \in Seq(Projects) /\ base' \in Texts /\ pc' = "next"
    BY <1>5, <2>1, <1>3 DEF ReadOverride
  <2> QED BY <1>5, <2>2 DEF ReadOverride
<1>6. CASE Collected BY <1>6 DEF Collected
<1>7. CASE Judge BY <1>7 DEF Judge
<1>8. ASSUME NEW e \in Edits, Edit(e[1], e[2]) PROVE TypeOK'
  <2>1. e[1] \in Files /\ e[2] \in Contents BY <1>0
  <2>2. DOMAIN disk' = Files /\ \A f \in Files : disk'[f] \in Contents BY <1>8, <2>1 DEF Edit
  <2> QED BY <1>0, <1>8, <2>2 DEF Edit, loader
<1>9. ASSUME NEW d \in walk, Search(d) PROVE TypeOK'
  <2>1. queue' \subseteq [file : Files, walked : BOOLEAN] BY <1>9, FoundType DEF Search
  <2> QED BY <1>9, <2>1 DEF Search
<1>10. CASE UNCHANGED vars BY <1>10 DEF vars, loader
<1> QED BY <1>1, <1>2, <1>4, <1>5, <1>6, <1>7, <1>8, <1>9, <1>10 DEF Next, Scanning

(* The state has its type: in particular a project is made of files that   *)
(* are there to be found, with texts that such files may hold.             *)
THEOREM TypeCorrect == Spec => []TypeOK
PROOF
<1> QED BY TypeInit, TypeNext, PTL DEF Spec
-----------------------------------------------------------------------------
LEMMA OnceNext == ASSUME LoadInv, [Next]_vars PROVE Once'
PROOF
<1> USE DEF LoadInv, Once, EachOnce
<1>0. projects \in Seq(Projects) BY DEF TypeOK
<1>1. ASSUME UNCHANGED <<projects, seen, pc, job>> PROVE Once' BY <1>1
<1>2. ASSUME NEW e \in queue, Add(e) PROVE Once'
  <2>1. CASE e.file \in seen BY <1>1, <1>2, <2>1 DEF Add
  <2>2. CASE e.file \notin seen
    <3>1. projects' = projects /\ seen' = seen \cup {e.file} /\ job'.file = e.file
      BY <1>2, <2>2 DEF Add, Notice
    <3> QED BY <2>2, <3>1
  <2> QED BY <2>1, <2>2
<1>3. ASSUME NEW b, NEW o, Loaded(b, o), pc \in {"base", "override"}, UNCHANGED <<seen, job>> PROVE Once'
  <2>1. PICK p : p.file = job.file /\ projects' = Append(projects, p) BY <1>3 DEF Loaded
  <2>2. /\ DOMAIN projects' = 1 .. Len(projects) + 1 /\ DOMAIN projects = 1 .. Len(projects) /\ Len(projects) \in Nat
        /\ projects'[Len(projects) + 1] = p
        /\ \A i \in 1 .. Len(projects) : projects'[i] = projects[i]
    BY <1>0, <2>1
  <2>3. pc' = "next" BY <1>3 DEF Loaded
  <2> QED BY <1>3, <2>1, <2>2, <2>3
<1>4. CASE TakeTarget BY <1>1, <1>4 DEF TakeTarget
<1>5. CASE ReadBase
  <2>1. CASE job.override = NoFile \/ ~Readable(disk[job.file]) BY <1>3, <1>5, <2>1 DEF ReadBase
  <2>2. CASE ~(job.override = NoFile \/ ~Readable(disk[job.file])) BY <1>5, <2>2 DEF ReadBase
  <2> QED BY <2>1, <2>2
<1>6. CASE ReadOverride BY <1>3, <1>6 DEF ReadOverride
<1>7. CASE Collected BY <1>7 DEF Collected
<1>8. CASE Judge BY <1>8 DEF Judge
<1>9. ASSUME NEW f, NEW c, Edit(f, c) PROVE Once' BY <1>1, <1>9 DEF Edit, loader
<1>10. ASSUME NEW d, Search(d) PROVE Once' BY <1>1, <1>10 DEF Search
<1>11. CASE UNCHANGED vars BY <1>1, <1>11 DEF vars, loader
<1> QED BY <1>2, <1>4, <1>5, <1>6, <1>7, <1>8, <1>9, <1>10, <1>11 DEF Next, Scanning

LEMMA LoadInvariant == Spec => []LoadInv
PROOF
<1>1. Init => Once BY DEF Init, Once, EachOnce
<1>2. LoadInv /\ [Next]_vars => LoadInv' BY OnceNext, TypeNext DEF LoadInv
<1> QED BY <1>1, <1>2, TypeInit, PTL DEF Spec, LoadInv

(* However often a file is named, alone, by its folder or by a folder      *)
(* above, there is one project of it and so one finding of each rule.      *)
THEOREM LoadedOnce == Spec => []EachOnce
PROOF
<1>1. LoadInv => EachOnce BY DEF LoadInv, Once
<1> QED BY <1>1, LoadInvariant, PTL
-----------------------------------------------------------------------------
(* Merging.                                                                *)
LEMMA MergedSettings ==
  ASSUME NEW p, NEW n, Both(p, n), NEW k \in Keys
  PROVE  ServicesOf(p)[n].has[k] = MergeSetting(k, p.base.services[n].has[k], p.extra.services[n].has[k])
PROOF
<1>1. Merged(p).services = MergeServices(p.base.services, p.extra.services) BY DEF Both, Merged, Merge
<1>2. ServicesOf(p)[n] = MergeService(p.base.services[n], p.extra.services[n])
  BY <1>1 DEF Both, ServicesOf, MergeServices
<1> QED BY <1>2 DEF Both, MergeService

LEMMA ItemsKept ==
  ASSUME NEW p, NEW n, Both(p, n), NEW k \in {"volumes", "cap_add", "ports"},
         p.extra.services[n].has[k].kind \in {"unset", "list"}
  PROVE  Items(p.base.services[n].has, k) \subseteq Items(ServicesOf(p)[n].has, k)
PROOF
<1> DEFINE b == p.base.services[n].has
           o == p.extra.services[n].has
           m == ServicesOf(p)[n].has
<1> SUFFICES Items(b, k) \subseteq Items(m, k) OBVIOUS
<1>1. k \in Keys BY DEF Keys
<1>2. m[k] = MergeSetting(k, b[k], o[k]) BY <1>1, MergedSettings
<1>3. o[k].kind \in {"unset", "list"} OBVIOUS
<1> HIDE DEF b, o, m
<1>4. CASE o[k].kind = "unset"
  <2>1. m[k] = b[k] BY <1>2, <1>4 DEF MergeSetting
  <2> QED BY <2>1 DEF Items
<1>5. CASE o[k].kind = "list" /\ b[k].kind # "list" BY <1>5 DEF Items
<1>6. CASE o[k].kind = "list" /\ b[k].kind = "list"
  <2>1. m[k] = [kind |-> "list", is |-> b[k].is \cup o[k].is] BY <1>2, <1>6 DEF MergeSetting
  <2> QED BY <1>6, <2>1 DEF Items
<1> QED BY <1>3, <1>4, <1>5, <1>6

LEMMA ItemsDecide ==
  ASSUME NEW s, NEW t, NEW lines
  PROVE  /\ Items(s, "volumes") \subseteq Items(t, "volumes") => Issues("004", s, lines) \subseteq Issues("004", t, lines)
         /\ Items(s, "cap_add") \subseteq Items(t, "cap_add") => Issues("010", s, lines) \subseteq Issues("010", t, lines)
         /\ Items(s, "ports") \subseteq Items(t, "ports") => Issues("012", s, lines) \subseteq Issues("012", t, lines)
PROOF
<1>1. Issues("004", s, lines) = FailIf(\E e \in Items(s, "volumes") : e[1] = "docker.sock")
      /\ Issues("004", t, lines) = FailIf(\E e \in Items(t, "volumes") : e[1] = "docker.sock")
  BY DEF Issues, SocketIssues
<1>2. Issues("010", s, lines) = FailIf(\E e \in Items(s, "cap_add") : e[1] \in Dangerous)
      /\ Issues("010", t, lines) = FailIf(\E e \in Items(t, "cap_add") : e[1] \in Dangerous)
  BY DEF Issues, CapabilityIssues
<1>3. Issues("012", s, lines) = WarnIf(HostPorts(s) \cap (LowPorts \ WebPorts) # {})
      /\ Issues("012", t, lines) = WarnIf(HostPorts(t) \cap (LowPorts \ WebPorts) # {})
  BY DEF Issues, PortIssues
<1>4. Items(s, "ports") \subseteq Items(t, "ports") => HostPorts(s) \subseteq HostPorts(t) BY DEF HostPorts
<1> HIDE DEF Items, HostPorts
<1>5. Items(s, "volumes") \subseteq Items(t, "volumes") => Issues("004", s, lines) \subseteq Issues("004", t, lines)
  BY <1>1 DEF FailIf
<1>6. Items(s, "cap_add") \subseteq Items(t, "cap_add") => Issues("010", s, lines) \subseteq Issues("010", t, lines)
  BY <1>2 DEF FailIf
<1>7. Items(s, "ports") \subseteq Items(t, "ports") => Issues("012", s, lines) \subseteq Issues("012", t, lines)
  BY <1>3, <1>4 DEF WarnIf
<1> QED BY <1>5, <1>6, <1>7

(* Whatever is in both files, an override with lists hides no mount of the *)
(* docker socket, no capability and no low port of the compose file.       *)
LEMMA NothingIsHidden == NothingHidden
PROOF
<1>1. NothingHidden
  <2> SUFFICES ASSUME NEW i \in DOMAIN projects, NEW n, NEW rk \in ListRules, Both(projects[i], n),
                      projects[i].extra.services[n].has[rk[2]].kind \in {"unset", "list"}
               PROVE  Issues(rk[1], projects[i].base.services[n].has, dockerfile)
                        \subseteq Issues(rk[1], ServicesOf(projects[i])[n].has, dockerfile)
    BY DEF NothingHidden
  <2>1. \/ rk[1] = "004" /\ rk[2] = "volumes"
        \/ rk[1] = "010" /\ rk[2] = "cap_add"
        \/ rk[1] = "012" /\ rk[2] = "ports"
    BY DEF ListRules
  <2>2. Items(projects[i].base.services[n].has, rk[2]) \subseteq Items(ServicesOf(projects[i])[n].has, rk[2])
    BY ItemsKept, <2>1
  <2> DEFINE b == projects[i].base.services[n].has
             m == ServicesOf(projects[i])[n].has
  <2>3. Items(b, rk[2]) \subseteq Items(m, rk[2]) BY <2>2
  <2> HIDE DEF b, m
  <2>4. Issues(rk[1], b, dockerfile) \subseteq Issues(rk[1], m, dockerfile)
    <3>1. CASE rk[1] = "004" /\ rk[2] = "volumes" BY <2>3, <3>1, ItemsDecide, Zenon
    <3>2. CASE rk[1] = "010" /\ rk[2] = "cap_add" BY <2>3, <3>2, ItemsDecide, Zenon
    <3>3. CASE rk[1] = "012" /\ rk[2] = "ports" BY <2>3, <3>3, ItemsDecide, Zenon
    <3> QED BY <2>1, <3>1, <3>2, <3>3
  <2> QED BY <2>4 DEF b, m
<1> QED BY <1>1

\* What the rules found is what they find of the projects: nothing changes them any more.
Judged == pc = "ended" => findings = Findings(dockerfile)

LEMMA JudgedNext == ASSUME Judged, [Next]_vars PROVE Judged'
PROOF
<1> USE DEF Judged
<1>1. CASE TakeTarget BY <1>1 DEF TakeTarget
<1>2. ASSUME NEW d \in walk, Search(d) PROVE Judged' BY <1>2 DEF Search
<1>3. ASSUME NEW e \in queue, Add(e) PROVE Judged' BY <1>3 DEF Add
<1>4. CASE ReadBase BY <1>4 DEF ReadBase, Loaded
<1>5. CASE ReadOverride BY <1>5 DEF ReadOverride, Loaded
<1>6. CASE Collected BY <1>6 DEF Collected
<1>7. CASE Judge
  <2>1. findings' = Findings(dockerfile) /\ projects' = projects /\ dockerfile' = dockerfile BY <1>7 DEF Judge
  <2>2. Findings(dockerfile)' = Findings(dockerfile) BY <2>1 DEF Findings
  <2> QED BY <2>1, <2>2
<1>8. ASSUME NEW f, NEW c, Edit(f, c) PROVE Judged' BY <1>8 DEF Edit, loader
<1>9. CASE UNCHANGED vars
  <2>1. Findings(dockerfile)' = Findings(dockerfile) BY <1>9 DEF vars, loader, Findings
  <2> QED BY <1>9, <2>1 DEF vars, loader
<1> QED BY <1>1, <1>2, <1>3, <1>4, <1>5, <1>6, <1>7, <1>8, <1>9 DEF Next, Scanning

LEMMA StatusesAre == ASSUME NEW r \in Rules, NEW s, NEW lines PROVE Issues(r, s, lines) \subseteq {"FAIL", "WARN"}
PROOF
<1>1. ASSUME NEW b PROVE FailIf(b) \subseteq {"FAIL"} /\ WarnIf(b) \subseteq {"WARN"} BY DEF FailIf, WarnIf
<1> HIDE DEF FailIf, WarnIf
<1>2. UserIssues(s, lines) \subseteq {"FAIL", "WARN"}
  <2> DEFINE isRoot == DockerfileUser(lines) = "root"
             userRoot == Scalar(s, "user") = "root"
  <2>1. FailIf(isRoot) \subseteq {"FAIL"} /\ FailIf(userRoot) \subseteq {"FAIL"} BY <1>1
  <2> QED BY <2>1 DEF UserIssues
<1>3. NnpIssues(s) \subseteq {"FAIL", "WARN"} BY <1>1, Zenon DEF NnpIssues
<1>4. LimitIssues(s) \subseteq {"FAIL", "WARN"} BY <1>1, Zenon DEF LimitIssues
<1>5. r \in {"001", "004", "005", "006", "009", "010", "011"} => Issues(r, s, lines) \subseteq {"FAIL"}
  BY <1>1 DEF Issues, PrivilegedIssues, SocketIssues, SecretIssues, ReadOnlyIssues, NamespaceIssues, CapabilityIssues, ImageIssues
<1>6. r \in {"008", "012"} => Issues(r, s, lines) \subseteq {"WARN"}
  BY <1>1 DEF Issues, HostNetworkIssues, PortIssues
<1>7. r \in {"002", "003", "007"} => Issues(r, s, lines) \subseteq {"FAIL", "WARN"}
  BY <1>2, <1>3, <1>4 DEF Issues
<1> QED BY <1>5, <1>6, <1>7 DEF Rules

LEMMA ServiceKept ==
  ASSUME NEW p, p.base.state = "doc", p.extra.state \in {"bare", "doc"},
         NEW n \in DOMAIN p.base.services \ DOMAIN p.extra.services
  PROVE  n \in DOMAIN ServicesOf(p) /\ ServicesOf(p)[n] = p.base.services[n]
PROOF
<1>1. CASE p.extra.state = "bare" BY <1>1 DEF ServicesOf, Merged, Merge
<1>2. CASE p.extra.state = "doc"
  <2>1. ServicesOf(p) = MergeServices(p.base.services, p.extra.services) BY <1>2 DEF ServicesOf, Merged, Merge
  <2> QED BY <2>1 DEF MergeServices
<1> QED BY <1>1, <1>2

(* A service that only the compose file names is in the finding with all   *)
(* its issues, whatever the override does to the others.                   *)
LEMMA ServicesAreKept == Spec => []ServicesKept
PROOF
<1>1. Init => Judged BY DEF Init, Judged
<1>2. Judged /\ [Next]_vars => Judged' BY JudgedNext
<1>3. Judged => ServicesKept
  <2> SUFFICES ASSUME Judged, pc = "ended", NEW i \in DOMAIN projects, Sound(projects[i]), projects[i].base.state = "doc",
                      projects[i].extra.state \in {"bare", "doc"},
                      NEW n \in DOMAIN projects[i].base.services \ DOMAIN projects[i].extra.services, NEW r \in Rules,
                      NEW x \in Issues(r, projects[i].base.services[n].has, dockerfile)
               PROVE  \E f \in findings : f.project = i /\ f.rule = r /\ f.status \in {x, "FAIL"}
    BY DEF ServicesKept
  <2> DEFINE p == projects[i]
             v == Verdict(r, p, dockerfile)
             found == UNION {Issues(r, ServicesOf(p)[m].has, dockerfile) : m \in DOMAIN ServicesOf(p)}
  <2>1. n \in DOMAIN ServicesOf(p) /\ ServicesOf(p)[n] = p.base.services[n] BY ServiceKept
  <2>2. x \in found BY <2>1
  <2>3. x \in {"FAIL", "WARN"} BY StatusesAre
  <2>4. v = IF "FAIL" \in found THEN "FAIL" ELSE IF "WARN" \in found THEN "WARN" ELSE "PASS" BY DEF Verdict
  <2>5. v \in {x, "FAIL"}
    <3> HIDE DEF found, v
    <3> QED BY <2>2, <2>3, <2>4
  <2>6. [rule |-> r, project |-> i, status |-> v] \in Findings(dockerfile) BY DEF Findings
  <2>7. [rule |-> r, project |-> i, status |-> v] \in findings BY <2>6 DEF Judged
  <2> HIDE DEF v
  <2> QED BY <2>5, <2>7
<1> QED BY <1>1, <1>2, <1>3, PTL DEF Spec

LEMMA ScalarRulesAre ==
  ASSUME NEW rk \in ScalarRules
  PROVE  /\ rk[2] \in Keys
         /\ \/ rk[1] = "001" /\ rk[2] = "privileged"
            \/ rk[1] = "002" /\ rk[2] = "user"
            \/ rk[1] = "006" /\ rk[2] = "read_only"
            \/ rk[1] = "008" /\ rk[2] = "network_mode"
            \/ rk[1] = "011" /\ rk[2] = "image"
PROOF
<1>1. CASE rk = <<"001", "privileged">> BY <1>1 DEF Keys
<1>2. CASE rk = <<"002", "user">> BY <1>2 DEF Keys
<1>3. CASE rk = <<"006", "read_only">> BY <1>3 DEF Keys
<1>4. CASE rk = <<"008", "network_mode">> BY <1>4 DEF Keys
<1>5. CASE rk = <<"011", "image">> BY <1>5 DEF Keys
<1> QED BY <1>1, <1>2, <1>3, <1>4, <1>5, Zenon DEF ScalarRules

LEMMA SameScalar ==
  ASSUME NEW s, NEW t, NEW k, s[k] = t[k] PROVE Scalar(s, k) = Scalar(t, k)
PROOF
BY DEF Scalar

LEMMA ScalarsDecide ==
  ASSUME NEW s, NEW t, NEW lines, NEW rk \in ScalarRules, s[rk[2]] = t[rk[2]], Scalar(t, rk[2]) # ""
  PROVE  Issues(rk[1], s, lines) = Issues(rk[1], t, lines)
PROOF
<1>1. Scalar(s, rk[2]) = Scalar(t, rk[2]) BY SameScalar
<1>2. rk[1] = "002" /\ rk[2] = "user" => UserIssues(s, lines) = UserIssues(t, lines) BY <1>1 DEF UserIssues
<1> QED BY <1>1, <1>2, ScalarRulesAre
      DEF Issues, PrivilegedIssues, ReadOnlyIssues, HostNetworkIssues, ImageIssues

LEMMA OverrideKept ==
  ASSUME NEW p, NEW n, Both(p, n), NEW k \in Keys, Scalar(p.extra.services[n].has, k) # ""
  PROVE  ServicesOf(p)[n].has[k] = p.extra.services[n].has[k]
PROOF
<1> DEFINE b == p.base.services[n].has
           o == p.extra.services[n].has
           m == ServicesOf(p)[n].has
<1>1. m[k] = MergeSetting(k, b[k], o[k]) BY MergedSettings
<1>2. o[k].kind = "one" BY DEF Scalar
<1> HIDE DEF b, o, m
<1>3. m[k] = o[k] BY <1>1, <1>2 DEF MergeSetting
<1> QED BY <1>3 DEF o, m

(* A user, an image or a mode that the override sets is what is judged,    *)
(* whatever the compose file says of it and of everything else.            *)
LEMMA OverrideIsJudged == OverrideDecides
PROOF
<1>1. OverrideDecides
  <2> SUFFICES ASSUME NEW i \in DOMAIN projects, NEW n, NEW rk \in ScalarRules, Both(projects[i], n),
                      Scalar(projects[i].extra.services[n].has, rk[2]) # ""
               PROVE  Issues(rk[1], ServicesOf(projects[i])[n].has, dockerfile)
                        = Issues(rk[1], projects[i].extra.services[n].has, dockerfile)
    BY DEF OverrideDecides
  <2> DEFINE k == rk[2]
  <2>1. k \in Keys /\ Scalar(projects[i].extra.services[n].has, k) # "" BY ScalarRulesAre
  <2> HIDE DEF k
  <2>2. ServicesOf(projects[i])[n].has[k] = projects[i].extra.services[n].has[k] BY OverrideKept, <2>1
  <2> USE DEF k
  <2> QED BY <2>2, ScalarsDecide, Zenon
<1> QED BY <1>1

(* For any two files: the services, items and scalars of the one and the   *)
(* other reach the findings as a reader of the two expects.                *)
THEOREM OverrideIsApplied == Spec => []OverrideApplied
PROOF
<1>1. ServicesKept => OverrideApplied BY NothingIsHidden, OverrideIsJudged DEF OverrideApplied
<1> QED BY <1>1, ServicesAreKept, PTL
-----------------------------------------------------------------------------
(* The examples.  A rule looks at some keys of a service, an example sets  *)
(* some: only where the two meet is there something to show.               *)
Looks(q) ==
  CASE q = "001" -> {"privileged"}
    [] q = "002" -> {"user", "image", "build"}
    [] q = "003" -> {"security_opt"}
    [] q = "004" -> {"volumes"}
    [] q = "005" -> {"environment"}
    [] q = "006" -> {"read_only"}
    [] q = "007" -> {"mem_limit", "cpus", "limits"}
    [] q = "008" -> {"network_mode"}
    [] q = "009" -> {"pid", "ipc"}
    [] q = "010" -> {"cap_add"}
    [] q = "011" -> {"image"}
    [] q = "012" -> {"ports"}
Settings == [Keys -> Values]

LEMMA SameIssues ==
  ASSUME NEW s, NEW t, NEW lines, NEW q \in Rules, \A k \in Looks(q) : s[k] = t[k]
  PROVE  Issues(q, s, lines) = Issues(q, t, lines)
PROOF
<1>1. \A k \in Looks(q) : Scalar(s, k) = Scalar(t, k) /\ Items(s, k) = Items(t, k) /\ Entries(s, k) = Entries(t, k)
  BY SameScalar DEF Items, Entries
<1>2. CASE q = "001" BY <1>1, <1>2 DEF Looks, Issues, PrivilegedIssues
<1>3. CASE q = "002"
  <2>1. UserIssues(s, lines) = UserIssues(t, lines) BY <1>1, <1>3 DEF Looks, UserIssues
  <2> QED BY <1>3, <2>1 DEF Issues
<1>4. CASE q = "003"
  <2>1. NnpIssues(s) = NnpIssues(t) BY <1>1, <1>4 DEF Looks, NnpIssues
  <2> QED BY <1>4, <2>1 DEF Issues
<1>5. CASE q = "004" BY <1>1, <1>5 DEF Looks, Issues, SocketIssues
<1>6. CASE q = "005" BY <1>1, <1>6 DEF Looks, Issues, SecretIssues, Revealed
<1>7. CASE q = "006" BY <1>1, <1>7 DEF Looks, Issues, ReadOnlyIssues
<1>8. CASE q = "007"
  <2>1. LimitIssues(s) = LimitIssues(t) BY <1>1, <1>8 DEF Looks, LimitIssues, HasLimit
  <2> QED BY <1>8, <2>1 DEF Issues
<1>9. CASE q = "008" BY <1>1, <1>9 DEF Looks, Issues, HostNetworkIssues
<1>10. CASE q = "009" BY <1>1, <1>10 DEF Looks, Issues, NamespaceIssues
<1>11. CASE q = "010" BY <1>1, <1>11 DEF Looks, Issues, CapabilityIssues
<1>12. CASE q = "011" BY <1>1, <1>12 DEF Looks, Issues, ImageIssues
<1>13. CASE q = "012"
  <2>1. HostPorts(s) = HostPorts(t) BY <1>1, <1>13 DEF Looks, HostPorts
  <2> QED BY <1>13, <2>1 DEF Issues, PortIssues
<1> QED BY <1>2, <1>3, <1>4, <1>5, <1>6, <1>7, <1>8, <1>9, <1>10, <1>11, <1>12, <1>13 DEF Rules

LEMMA ScalarOne == ASSUME NEW s, NEW k, NEW x, s[k] = One(x) PROVE Scalar(s, k) = x
PROOF
<1>1. (CHOOSE e \in {<<"", x>>} : TRUE) = <<"", x>> OBVIOUS
<1>2. s[k].kind = "one" /\ s[k].is = {<<"", x>>}
  <2>1. One(x).kind = "one" /\ One(x).is = {<<"", x>>} BY DEF One
  <2> QED BY <2>1, Zenon
<1>3. Scalar(s, k) = (CHOOSE e \in s[k].is : TRUE)[2] BY <1>2 DEF Scalar
<1>4. Scalar(s, k) = <<"", x>>[2] BY <1>1, <1>2, <1>3, Zenon
<1> QED BY <1>4

LEMMA ScalarUnset == ASSUME NEW s, NEW k, s[k] = Unset PROVE Scalar(s, k) = ""
PROOF
BY DEF Scalar, Unset

LEMMA ItemsOfList == ASSUME NEW s, NEW k, NEW xs, s[k] = List(xs) PROVE Items(s, k) = xs
PROOF
<1>1. List(xs).kind = "list" /\ List(xs).is = xs BY DEF List
<1>2. s[k].kind = "list" /\ s[k].is = xs BY <1>1, Zenon
<1> QED BY <1>2 DEF Items

\* What each example sets, and that it leaves alone whatever else there is.
Alone(s, t, keys) == \A k \in Keys \ keys : t[k] = s[k]
LEMMA FixSets ==
  ASSUME NEW s \in Settings
  PROVE  /\ LET t == Fix("001", s) IN
              t["privileged"] = Unset /\ t["cap_add"] = List({<<"NET_BIND_SERVICE", "">>}) /\ Alone(s, t, {"privileged", "cap_add"})
         /\ LET t == Fix("002", s) IN t["user"] = One("app") /\ Alone(s, t, {"user"})
         /\ LET t == Fix("003", s) IN
              t["security_opt"] = List({<<"no-new-privileges", "true">>}) /\ Alone(s, t, {"security_opt"})
         /\ LET t == Fix("004", s) IN
              /\ t["environment"] = WithDockerHost(s["environment"])
              /\ t["volumes"] = List({e \in s["volumes"].is : e[1] # "docker.sock"})
              /\ Alone(s, t, {"environment", "volumes"})
         /\ LET t == Fix("005", s) IN t["environment"] = ByReference(s["environment"]) /\ Alone(s, t, {"environment"})
         /\ LET t == Fix("006", s) IN t["read_only"] = One("true") /\ Alone(s, t, {"read_only"})
         /\ LET t == Fix("007", s) IN
              t["limits"] = [kind |-> "map", is |-> {<<"cpus", "1.0">>, <<"memory", "512M">>}] /\ Alone(s, t, {"limits"})
         /\ LET t == Fix("008", s) IN
              /\ t["network_mode"] = Unset /\ t["ports"] = List({<<"ip:host:container", "8080">>})
              /\ Alone(s, t, {"network_mode", "ports"})
         /\ LET t == Fix("009", s) IN
              /\ t["pid"] = (IF Scalar(s, "pid") = "host" THEN Unset ELSE s["pid"])
              /\ t["ipc"] = (IF Scalar(s, "ipc") = "host" THEN Unset ELSE s["ipc"])
              /\ Alone(s, t, {"pid", "ipc"})
         /\ LET t == Fix("010", s) IN t["cap_add"] = List({}) /\ Alone(s, t, {"cap_add"})
         /\ LET t == Fix("011", s) IN t["image"] = One(Pinned(Scalar(s, "image"))) /\ Alone(s, t, {"image"})
         /\ Fix("012", s) = s
PROOF
<1> USE DEF Settings, Keys, Alone
<1>1. LET t == Fix("001", s) IN
        t["privileged"] = Unset /\ t["cap_add"] = List({<<"NET_BIND_SERVICE", "">>}) /\ Alone(s, t, {"privileged", "cap_add"})
  BY DEF Fix, DropPrivileged
<1>2. LET t == Fix("002", s) IN t["user"] = One("app") /\ Alone(s, t, {"user"})
  BY DEF Fix, SetUser
<1>3. LET t == Fix("003", s) IN
        t["security_opt"] = List({<<"no-new-privileges", "true">>}) /\ Alone(s, t, {"security_opt"})
  BY DEF Fix, SetNnp
<1>4. LET t == Fix("004", s) IN
        /\ t["environment"] = WithDockerHost(s["environment"])
        /\ t["volumes"] = List({e \in s["volumes"].is : e[1] # "docker.sock"})
        /\ Alone(s, t, {"environment", "volumes"})
  BY DEF Fix, UseProxy
<1>5. LET t == Fix("005", s) IN t["environment"] = ByReference(s["environment"]) /\ Alone(s, t, {"environment"})
  BY DEF Fix, HideSecrets
<1>6. LET t == Fix("006", s) IN t["read_only"] = One("true") /\ Alone(s, t, {"read_only"})
  BY DEF Fix, SetReadOnly
<1>7. LET t == Fix("007", s) IN
        t["limits"] = [kind |-> "map", is |-> {<<"cpus", "1.0">>, <<"memory", "512M">>}] /\ Alone(s, t, {"limits"})
  BY DEF Fix, SetLimits
<1>8. LET t == Fix("008", s) IN
        /\ t["network_mode"] = Unset /\ t["ports"] = List({<<"ip:host:container", "8080">>})
        /\ Alone(s, t, {"network_mode", "ports"})
  BY DEF Fix, UseBridge
<1>9. LET t == Fix("009", s) IN
        /\ t["pid"] = (IF Scalar(s, "pid") = "host" THEN Unset ELSE s["pid"])
        /\ t["ipc"] = (IF Scalar(s, "ipc") = "host" THEN Unset ELSE s["ipc"])
        /\ Alone(s, t, {"pid", "ipc"})
  BY DEF Fix, DropNamespaces
<1>10. LET t == Fix("010", s) IN t["cap_add"] = List({}) /\ Alone(s, t, {"cap_add"})
  BY DEF Fix, DropCapabilities
<1>11. LET t == Fix("011", s) IN t["image"] = One(Pinned(Scalar(s, "image"))) /\ Alone(s, t, {"image"})
  BY DEF Fix, PinImage
<1>12. Fix("012", s) = s BY DEF Fix
<1> QED BY <1>1, <1>2, <1>3, <1>4, <1>5, <1>6, <1>7, <1>8, <1>9, <1>10, <1>11, <1>12, Zenon
-----------------------------------------------------------------------------
\* An example that is offered does what it is for, and no harm.
Good(r, s, t, lines) ==
  /\ Issues(r, t, lines) = {} <=> ~Misread(r, s)
  /\ \A q \in Rules : Issues(q, t, lines) \subseteq Issues(q, s, lines)

\* A rule that looks at nothing it sets has nothing new to say.
LEMMA Unconcerned ==
  ASSUME NEW s, NEW t, NEW lines, NEW keys, Alone(s, t, keys), NEW q \in Rules, Looks(q) \cap keys = {}
  PROVE  Issues(q, t, lines) \subseteq Issues(q, s, lines)
PROOF
<1>1. Looks(q) \subseteq Keys BY DEF Looks, Keys, Rules
<1>2. \A k \in Looks(q) : s[k] = t[k] BY <1>1 DEF Alone
<1>3. Issues(q, s, lines) = Issues(q, t, lines) BY <1>2, SameIssues
<1> QED BY <1>3

\* So it is enough to look at the others.
LEMMA Enough ==
  ASSUME NEW s, NEW t, NEW lines, NEW r \in Rules, r # "005", NEW keys, Alone(s, t, keys), Issues(r, t, lines) = {},
         \A q \in Rules : q # r /\ Looks(q) \cap keys # {} => Issues(q, t, lines) \subseteq Issues(q, s, lines)
  PROVE  Good(r, s, t, lines)
PROOF
<1>1. ASSUME NEW q \in Rules PROVE Issues(q, t, lines) \subseteq Issues(q, s, lines)
  <2>1. CASE q = r BY <2>1
  <2>2. CASE q # r /\ Looks(q) \cap keys # {} BY <2>2
  <2>3. CASE Looks(q) \cap keys = {} BY <2>3, Unconcerned
  <2> QED BY <2>1, <2>2, <2>3
<1> QED BY <1>1 DEF Good, Misread

LEMMA FixGood ==
  ASSUME NEW s \in Settings, NEW lines, NEW r \in Rules, r # "012", Issues(r, s, lines) # {},
         r = "002" => "FAIL" \in Issues(r, s, lines)
  PROVE  Good(r, s, Fix(r, s), lines)
PROOF
<1> DEFINE t == Fix(r, s)
<1> SUFFICES Good(r, s, t, lines) OBVIOUS
<1>1. CASE r = "001"
  <2>1. t["privileged"] = Unset /\ t["cap_add"] = List({<<"NET_BIND_SERVICE", "">>}) /\ Alone(s, t, {"privileged", "cap_add"})
    BY <1>1, FixSets
  <2> HIDE DEF t
  <2>2. Scalar(t, "privileged") = "" BY <2>1, ScalarUnset
  <2>3. Issues("001", t, lines) = {} BY <2>2 DEF Issues, PrivilegedIssues, FailIf
  <2>4. \A e \in Items(t, "cap_add") : e[1] \notin Dangerous
    <3>1. Items(t, "cap_add") = {<<"NET_BIND_SERVICE", "">>} BY <2>1, ItemsOfList
    <3>2. <<"NET_BIND_SERVICE", "">>[1] \notin Dangerous BY DEF Dangerous
    <3> QED BY <3>1, <3>2, Zenon
  <2>5. Issues("010", t, lines) = {} BY <2>4 DEF Issues, CapabilityIssues, FailIf
  <2>6. \A q \in Rules : q # "001" /\ Looks(q) \cap {"privileged", "cap_add"} # {} => q = "010" BY DEF Looks, Rules
  <2> QED BY <1>1, <2>1, <2>3, <2>5, <2>6, Enough
<1>2. CASE r = "002"
  <2>1. t["user"] = One("app") /\ Alone(s, t, {"user"}) BY <1>2, FixSets
  <2> HIDE DEF t
  <2>2. Scalar(t, "user") = "app" BY <2>1, ScalarOne
  <2>3. UserIssues(t, lines) = {} BY <2>2 DEF UserIssues, FailIf
  <2>4. Issues("002", t, lines) = {} BY <2>3 DEF Issues
  <2>5. \A q \in Rules : q # "002" => Looks(q) \cap {"user"} = {} BY DEF Looks, Rules
  <2> QED BY <1>2, <2>1, <2>4, <2>5, Enough
<1>3. CASE r = "003"
  <2>1. t["security_opt"] = List({<<"no-new-privileges", "true">>}) /\ Alone(s, t, {"security_opt"}) BY <1>3, FixSets
  <2> HIDE DEF t
  <2>2. Items(t, "security_opt") = {<<"no-new-privileges", "true">>} BY <2>1 DEF Items, List
  <2>3. NnpIssues(t) = {}
    <3> DEFINE set == {e \in Items(t, "security_opt") : e[1] = "no-new-privileges"}
    <3>1. <<"no-new-privileges", "true">> \in set BY <2>2
    <3>2. ~\A e \in set : e[2] \notin {"", "true"} BY <3>1
    <3>3. NnpIssues(t) = FailIf(FALSE) BY <3>1, <3>2 DEF NnpIssues
    <3> QED BY <3>3 DEF FailIf
  <2>4. Issues("003", t, lines) = {} BY <2>3 DEF Issues
  <2>5. \A q \in Rules : q # "003" => Looks(q) \cap {"security_opt"} = {} BY DEF Looks, Rules
  <2> QED BY <1>3, <2>1, <2>4, <2>5, Enough
<1>4. CASE r = "004"
  <2>1. /\ t["environment"] = WithDockerHost(s["environment"])
        /\ t["volumes"] = List({e \in s["volumes"].is : e[1] # "docker.sock"})
        /\ Alone(s, t, {"environment", "volumes"})
    BY <1>4, FixSets
  <2> HIDE DEF t
  <2>2. \A e \in Items(t, "volumes") : e[1] # "docker.sock" BY <2>1 DEF Items, List
  <2>3. Issues("004", t, lines) = {} BY <2>2 DEF Issues, SocketIssues, FailIf
  <2>4. \A e \in Entries(t, "environment") : e \in Entries(s, "environment") \/ e = <<"DOCKER_HOST", "text">>
    BY <2>1 DEF Entries, WithDockerHost
  <2>5. Issues("005", t, lines) \subseteq Issues("005", s, lines)
    <3>1. \A e \in Entries(t, "environment") : e[1] \in SecretNames => e \in Entries(s, "environment")
      BY <2>4 DEF SecretNames, Hyphenated
    <3> QED BY <3>1 DEF Issues, SecretIssues, Revealed, FailIf
  <2>6. \A q \in Rules : q # "004" /\ Looks(q) \cap {"environment", "volumes"} # {} => q = "005" BY DEF Looks, Rules
  <2> QED BY <1>4, <2>1, <2>3, <2>5, <2>6, Enough
<1>5. CASE r = "005"
  <2>1. t["environment"] = ByReference(s["environment"]) /\ Alone(s, t, {"environment"}) BY <1>5, FixSets
  <2> HIDE DEF t
  <2>2. s["environment"] \in Values BY DEF Settings, Keys
  <2>3. /\ t["environment"].kind = s["environment"].kind
        /\ t["environment"].is
             = {IF e[1] \in SecretNames /\ e[2] \in InTheClear THEN <<e[1], Reference(e[1])>> ELSE e : e \in s["environment"].is}
    BY <2>1, <2>2 DEF ByReference, Values
  <2>4. ASSUME Revealed(t, SecretNames) # {} PROVE Revealed(s, Hyphenated) # {}
    <3>1. PICK e \in Entries(t, "environment") : e[1] \in SecretNames /\ e[2] \in InTheClear BY <2>4 DEF Revealed
    <3>2. PICK x \in s["environment"].is :
            e = IF x[1] \in SecretNames /\ x[2] \in InTheClear THEN <<x[1], Reference(x[1])>> ELSE x
      BY <2>3, <3>1 DEF Entries
    <3>3. x[1] \in SecretNames /\ x[2] \in InTheClear /\ e[2] = Reference(x[1]) BY <3>1, <3>2
    <3>4. x[1] \in Hyphenated BY <3>1, <3>3 DEF Reference, InTheClear
    <3>5. x \in Entries(s, "environment") BY <2>3, <3>1 DEF Entries
    <3> QED BY <3>3, <3>4, <3>5 DEF Revealed
  <2>5. ASSUME Revealed(s, Hyphenated) # {} PROVE Revealed(t, SecretNames) # {}
    <3>1. PICK x \in Entries(s, "environment") : x[1] \in Hyphenated /\ x[2] \in InTheClear BY <2>5 DEF Revealed
    <3>2. x[1] \in SecretNames BY <3>1 DEF SecretNames
    <3>3. <<x[1], Reference(x[1])>> \in Entries(t, "environment") BY <2>3, <3>1, <3>2 DEF Entries
    <3>4. Reference(x[1]) \in InTheClear BY <3>1 DEF Reference, InTheClear
    <3> QED BY <3>2, <3>3, <3>4 DEF Revealed
  <2>6. Issues("005", t, lines) = {} <=> ~Misread("005", s)
    BY <2>4, <2>5 DEF Issues, SecretIssues, FailIf, Misread
  <2>7. Issues("005", t, lines) \subseteq Issues("005", s, lines)
    BY <1>5 DEF Issues, SecretIssues, FailIf
  <2>8. ASSUME NEW q \in Rules, q # "005" PROVE Issues(q, t, lines) \subseteq Issues(q, s, lines)
    <3>1. Looks(q) \cap {"environment"} = {} BY <2>8 DEF Looks, Rules
    <3> QED BY <2>1, <3>1, Unconcerned
  <2> QED BY <1>5, <2>6, <2>7, <2>8 DEF Good
<1>6. CASE r = "006"
  <2>1. t["read_only"] = One("true") /\ Alone(s, t, {"read_only"}) BY <1>6, FixSets
  <2> HIDE DEF t
  <2>2. Scalar(t, "read_only") = "true" BY <2>1, ScalarOne
  <2>3. Issues("006", t, lines) = {} BY <2>2 DEF Issues, ReadOnlyIssues, FailIf
  <2>4. \A q \in Rules : q # "006" => Looks(q) \cap {"read_only"} = {} BY DEF Looks, Rules
  <2> QED BY <1>6, <2>1, <2>3, <2>4, Enough
<1>7. CASE r = "007"
  <2>1. t["limits"] = [kind |-> "map", is |-> {<<"cpus", "1.0">>, <<"memory", "512M">>}] /\ Alone(s, t, {"limits"})
    BY <1>7, FixSets
  <2> HIDE DEF t
  <2>2. HasLimit(t, "memory", "mem_limit") /\ HasLimit(t, "cpus", "cpus")
    <3>1. t["limits"].kind = "map" /\ <<"memory", "512M">> \in t["limits"].is /\ <<"cpus", "1.0">> \in t["limits"].is
      BY <2>1
    <3> QED BY <3>1 DEF HasLimit
  <2>3. LimitIssues(t) = {} BY <2>2 DEF LimitIssues, WarnIf
  <2>4. Issues("007", t, lines) = {} BY <2>3 DEF Issues
  <2>5. \A q \in Rules : q # "007" => Looks(q) \cap {"limits"} = {} BY DEF Looks, Rules
  <2> QED BY <1>7, <2>1, <2>4, <2>5, Enough
<1>8. CASE r = "008"
  <2>1. /\ t["network_mode"] = Unset /\ t["ports"] = List({<<"ip:host:container", "8080">>})
        /\ Alone(s, t, {"network_mode", "ports"})
    BY <1>8, FixSets
  <2> HIDE DEF t
  <2>2. Scalar(t, "network_mode") = "" BY <2>1, ScalarUnset
  <2>3. Issues("008", t, lines) = {} BY <2>2 DEF Issues, HostNetworkIssues, WarnIf
  <2>4. HostPorts(t) \subseteq {"8080"} BY <2>1 DEF HostPorts, Items, List
  <2>5. HostPorts(t) \cap (LowPorts \ WebPorts) = {} BY <2>4 DEF LowPorts, WebPorts
  <2>6. Issues("012", t, lines) = {} BY <2>5 DEF Issues, PortIssues, WarnIf
  <2>7. \A q \in Rules : q # "008" /\ Looks(q) \cap {"network_mode", "ports"} # {} => q = "012" BY DEF Looks, Rules
  <2> QED BY <1>8, <2>1, <2>3, <2>6, <2>7, Enough
<1>9. CASE r = "009"
  <2>1. /\ t["pid"] = (IF Scalar(s, "pid") = "host" THEN Unset ELSE s["pid"])
        /\ t["ipc"] = (IF Scalar(s, "ipc") = "host" THEN Unset ELSE s["ipc"])
        /\ Alone(s, t, {"pid", "ipc"})
    BY <1>9, FixSets
  <2> HIDE DEF t
  <2>2. Scalar(t, "pid") # "host"
    <3>1. CASE Scalar(s, "pid") = "host" BY <2>1, <3>1, ScalarUnset
    <3>2. CASE Scalar(s, "pid") # "host" BY <2>1, <3>2, SameScalar
    <3> QED BY <3>1, <3>2
  <2>3. Scalar(t, "ipc") # "host"
    <3>1. CASE Scalar(s, "ipc") = "host" BY <2>1, <3>1, ScalarUnset
    <3>2. CASE Scalar(s, "ipc") # "host" BY <2>1, <3>2, SameScalar
    <3> QED BY <3>1, <3>2
  <2>4. Issues("009", t, lines) = {} BY <2>2, <2>3 DEF Issues, NamespaceIssues, FailIf
  <2>5. \A q \in Rules : q # "009" => Looks(q) \cap {"pid", "ipc"} = {} BY DEF Looks, Rules
  <2> QED BY <1>9, <2>1, <2>4, <2>5, Enough
<1>10. CASE r = "010"
  <2>1. t["cap_add"] = List({}) /\ Alone(s, t, {"cap_add"}) BY <1>10, FixSets
  <2> HIDE DEF t
  <2>2. Items(t, "cap_add") = {} BY <2>1 DEF Items, List
  <2>3. Issues("010", t, lines) = {} BY <2>2 DEF Issues, CapabilityIssues, FailIf
  <2>4. \A q \in Rules : q # "010" => Looks(q) \cap {"cap_add"} = {} BY DEF Looks, Rules
  <2> QED BY <1>10, <2>1, <2>3, <2>4, Enough
<1>11. CASE r = "011"
  <2>1. t["image"] = One(Pinned(Scalar(s, "image"))) /\ Alone(s, t, {"image"}) BY <1>11, FixSets
  <2> HIDE DEF t
  <2>2. Scalar(t, "image") = Pinned(Scalar(s, "image")) BY <2>1, ScalarOne
  <2>3. Scalar(t, "image") \notin Unpinned /\ (Scalar(t, "image") \in PrivilegeDropping <=> Scalar(s, "image") \in PrivilegeDropping)
    BY <2>2 DEF Pinned, Unpinned, PrivilegeDropping
  <2>4. Issues("011", t, lines) = {} BY <2>3 DEF Issues, ImageIssues, FailIf
  <2>5. Scalar(t, "user") = Scalar(s, "user") /\ t["build"] = s["build"] BY <2>1, SameScalar DEF Alone, Keys
  <2>6. UserIssues(t, lines) = UserIssues(s, lines) BY <2>3, <2>5 DEF UserIssues
  <2>7. Issues("002", t, lines) = Issues("002", s, lines) BY <2>6 DEF Issues
  <2>8. \A q \in Rules : q # "011" /\ Looks(q) \cap {"image"} # {} => q = "002" BY DEF Looks, Rules
  <2> QED BY <1>11, <2>1, <2>4, <2>7, <2>8, Enough
<1> QED BY <1>1, <1>2, <1>3, <1>4, <1>5, <1>6, <1>7, <1>8, <1>9, <1>10, <1>11 DEF Rules
-----------------------------------------------------------------------------
\* Of projects that could be loaded every service has its settings.
LEMMA TextType ==
  ASSUME NEW c \in Texts, NEW n \in DOMAIN c.services PROVE c.services[n] \in ServiceConfigs
PROOF
<1>1. CASE c \in Contents
  <2>1. IsContent(c) BY <1>1, ComposeAssumption DEF ComposeAssumption
  <2> QED BY <2>1, Zenon DEF IsContent
<1>2. CASE c = Nothing BY <1>2 DEF Nothing
<1> QED BY <1>1, <1>2 DEF Texts

LEMMA MergeType ==
  ASSUME NEW b \in ServiceConfigs, NEW o \in ServiceConfigs PROVE MergeService(b, o) \in ServiceConfigs
PROOF
<1>1. ASSUME NEW k \in Keys, NEW v \in Values, NEW w \in Values PROVE MergeSetting(k, v, w) \in Values
  <2>1. CASE w.kind = "unset" \/ v.kind = "unset" BY <2>1 DEF MergeSetting
  <2>2. CASE w.kind = "map" /\ v.kind = "map"
    <3>1. MergeSetting(k, v, w) = [kind |-> "map", is |-> {e \in v.is : \A x \in w.is : x[1] # e[1]} \cup w.is]
      BY <2>2 DEF MergeSetting
    <3>2. {e \in v.is : \A x \in w.is : x[1] # e[1]} \cup w.is \in SUBSET (STRING \X STRING) BY DEF Values
    <3> QED BY <3>1, <3>2 DEF Values
  <2>3. CASE w.kind = "list" /\ v.kind = "list"
    <3>1. PICK more \in SUBSET w.is : MergeSetting(k, v, w) = [kind |-> "list", is |-> v.is \cup more]
      <4>1. {e \in w.is : \A x \in v.is : x[1] # e[1]} \in SUBSET w.is OBVIOUS
      <4> QED BY <2>3, <4>1 DEF MergeSetting
    <3>2. v.is \cup more \in SUBSET (STRING \X STRING) BY DEF Values
    <3> QED BY <3>1, <3>2 DEF Values
  <2>4. CASE /\ w.kind # "unset" /\ v.kind # "unset" /\ ~(w.kind = "map" /\ v.kind = "map")
             /\ ~(w.kind = "list" /\ v.kind = "list")
    BY <2>4 DEF MergeSetting
  <2> QED BY <2>1, <2>2, <2>3, <2>4
<1>2. CASE o.null \/ b.null BY <1>2 DEF MergeService
<1>3. CASE ~(o.null \/ b.null)
  <2>1. \A k \in Keys : b.has[k] \in Values /\ o.has[k] \in Values BY DEF ServiceConfigs
  <2>2. [k \in Keys |-> MergeSetting(k, b.has[k], o.has[k])] \in [Keys -> Values] BY <1>1, <2>1
  <2> QED BY <1>3, <2>2 DEF MergeService, ServiceConfigs
<1> QED BY <1>2, <1>3

LEMMA ServiceType ==
  ASSUME NEW p \in Projects, Sound(p), NEW n \in DOMAIN ServicesOf(p) PROVE ServicesOf(p)[n].has \in Settings
PROOF
<1>1. p.base \in Texts /\ p.extra \in Texts BY DEF Projects
<1>2. CASE p.extra.state = "bare"
  <2>1. ServicesOf(p) = p.base.services BY <1>2 DEF ServicesOf, Merged, Merge
  <2> QED BY <1>1, <2>1, TextType DEF ServiceConfigs, Settings
<1>3. CASE p.extra.state = "doc" /\ p.base.state = "doc"
  <2>1. ServicesOf(p) = MergeServices(p.base.services, p.extra.services) BY <1>3 DEF ServicesOf, Merged, Merge
  <2>2. CASE n \notin DOMAIN p.extra.services
    <3>1. n \in DOMAIN p.base.services /\ ServicesOf(p)[n] = p.base.services[n] BY <2>1, <2>2 DEF MergeServices
    <3> QED BY <1>1, <3>1, TextType DEF ServiceConfigs, Settings
  <2>3. CASE n \notin DOMAIN p.base.services
    <3>1. n \in DOMAIN p.extra.services /\ ServicesOf(p)[n] = p.extra.services[n] BY <2>1, <2>3 DEF MergeServices
    <3> QED BY <1>1, <3>1, TextType DEF ServiceConfigs, Settings
  <2>4. CASE n \in DOMAIN p.extra.services \cap DOMAIN p.base.services
    <3>1. ServicesOf(p)[n] = MergeService(p.base.services[n], p.extra.services[n]) BY <2>1, <2>4 DEF MergeServices
    <3>2. ServicesOf(p)[n] \in ServiceConfigs BY <1>1, <2>4, <3>1, TextType, MergeType
    <3> QED BY <3>2 DEF ServiceConfigs, Settings
  <2> QED BY <2>2, <2>3, <2>4
<1>4. CASE ~(p.extra.state = "bare" \/ (p.extra.state = "doc" /\ p.base.state = "doc"))
  <2>1. ServicesOf(p) = p.extra.services BY <1>4 DEF ServicesOf, Merged, Merge
  <2> QED BY <1>1, <2>1, TextType DEF ServiceConfigs, Settings
<1> QED BY <1>2, <1>3, <1>4

(* Whoever puts the example offered for an issue in its place is rid of    *)
(* it, whatever the service is like, and no rule has anything new to say   *)
(* of it; but a secret with a hyphen in its name is reported again.        *)
THEOREM FixesAreGood == Spec => []FixesHold
PROOF
<1>1. TypeOK => FixesHold
  <2> SUFFICES ASSUME TypeOK, NEW i \in DOMAIN projects, NEW r \in Rules, Sound(projects[i]),
                      NEW n \in DOMAIN ServicesOf(projects[i]), Offered(r, ServicesOf(projects[i])[n].has)
               PROVE  Good(r, ServicesOf(projects[i])[n].has, Fix(r, ServicesOf(projects[i])[n].has), dockerfile)
    BY DEF FixesHold, Good
  <2> DEFINE s == ServicesOf(projects[i])[n].has
  <2>1. projects[i] \in Projects BY DEF TypeOK
  <2>2. s \in Settings BY <2>1, ServiceType
  <2>3. Offered(r, s) OBVIOUS
  <2> SUFFICES Good(r, s, Fix(r, s), dockerfile) OBVIOUS
  <2> HIDE DEF s
  <2> QED BY <2>2, <2>3, FixGood DEF Offered
<1> QED BY <1>1, TypeCorrect, PTL
-----------------------------------------------------------------------------
(* What was there during the scan, and what the loader took of it.         *)
Disks == [Files -> Contents] \cup {s.disk : s \in Starts}
History == past \in Seq(Disks) /\ Len(past) > 0 /\ past[Len(past)] = disk

LEMMA DiskType == ASSUME NEW dk \in Disks PROVE DOMAIN dk = Files /\ \A f \in Files : dk[f] \in Contents
PROOF
<1> QED BY ComposeAssumption DEF ComposeAssumption, Disks

LEMMA HistoryInit == Init => History
PROOF
<1>1. Init => disk \in Disks /\ past = <<disk>> BY DEF Init, Disks
<1>2. ASSUME NEW x \in Disks PROVE <<x>> \in Seq(Disks) /\ Len(<<x>>) > 0 /\ <<x>>[Len(<<x>>)] = x OBVIOUS
<1> QED BY <1>1, <1>2 DEF History

\* Only an edit adds to the history, and never changes what is in it.
LEMMA Grows ==
  ASSUME TypeOK, History, [Next]_vars
  PROVE  /\ History'
         /\ DOMAIN past \subseteq DOMAIN past'
         /\ \A i \in DOMAIN past : past'[i] = past[i]
         /\ ~UNCHANGED past => UNCHANGED loader /\ pc \in {"next", "base", "override"}
PROOF
<1>1. CASE UNCHANGED <<past, disk>> BY <1>1 DEF History
<1>2. ASSUME NEW e \in Edits, Edit(e[1], e[2])
      PROVE  /\ past' = Append(past, disk') /\ disk' \in Disks
             /\ UNCHANGED loader /\ pc \in {"next", "base", "override"}
  <2>1. e[1] \in Files /\ e[2] \in Contents BY ComposeAssumption DEF ComposeAssumption
  <2>2. disk' \in [Files -> Contents] BY <1>2, <2>1 DEF Edit, TypeOK
  <2> QED BY <1>2, <2>2 DEF Edit, Disks
<1>3. CASE \E e \in Edits : Edit(e[1], e[2])
  <2>1. /\ past' = Append(past, disk') /\ disk' \in Disks
        /\ UNCHANGED loader /\ pc \in {"next", "base", "override"}
    BY <1>2, <1>3
  <2>2. past \in Seq(Disks) BY DEF History
  <2>3. /\ past' \in Seq(Disks) /\ Len(past') = Len(past) + 1 /\ past'[Len(past) + 1] = disk'
        /\ \A i \in 1 .. Len(past) : past'[i] = past[i]
        /\ DOMAIN past = 1 .. Len(past) /\ DOMAIN past' = 1 .. Len(past) + 1 /\ Len(past) \in Nat
    BY <2>1, <2>2, AppendProperties, LenProperties
  <2>4. History'
    <3>1. Len(past') > 0 /\ past'[Len(past')] = disk' BY <2>3
    <3> QED BY <2>3, <3>1 DEF History
  <2>5. DOMAIN past \subseteq DOMAIN past' /\ \A i \in DOMAIN past : past'[i] = past[i]
    <3>1. 1 .. Len(past) \subseteq 1 .. Len(past) + 1 BY <2>3
    <3> QED BY <2>3, <3>1
  <2> HIDE DEF History
  <2> QED BY <2>1, <2>4, <2>5
<1>4. Scanning => UNCHANGED <<past, disk>>
  BY DEF Scanning, TakeTarget, Search, Add, ReadBase, ReadOverride, Collected, Judge
<1> QED BY <1>1, <1>3, <1>4 DEF Next, vars
-----------------------------------------------------------------------------
\* A compose file that a folder was searched for has a name of its own.
IsProjectName(name) == name \in {ProjectNames[1], ProjectNames[2]}

\* Of the history h: the override was there when it was looked for, and each
\* file was read at a moment of its own, the override last.
LookedUp(h, j) ==
  j.override # NoFile =>
    IsProjectName(j.file[2]) /\ \E a \in DOMAIN h : j.override = FirstOf(h[a], j.file[1], OverrideNames)
Taken(h, p) ==
  /\ LookedUp(h, p)
  /\ \E b, c \in DOMAIN h :
       /\ b <= c /\ p.base = h[b][p.file]
       /\ p.extra = IF p.override = NoFile \/ ~Readable(p.base) THEN Nothing ELSE h[c][p.override]
Reading ==
  /\ \A e \in queue : e.walked => IsProjectName(e.file[2])
  /\ pc \in {"base", "override"} => LookedUp(past, job)
  /\ pc = "override" => job.override # NoFile /\ Readable(base) /\ \E b \in DOMAIN past : base = past[b][job.file]
  /\ \A i \in DOMAIN projects : Taken(past, projects[i])
ReadInv == TypeOK /\ History /\ Reading

LEMMA TakenStays ==
  ASSUME NEW h, NEW g, DOMAIN h \subseteq DOMAIN g, \A i \in DOMAIN h : g[i] = h[i]
  PROVE  /\ \A j : LookedUp(h, j) => LookedUp(g, j)
         /\ \A p : Taken(h, p) => Taken(g, p)
         /\ \A t, f : (\E b \in DOMAIN h : t = h[b][f]) => \E b \in DOMAIN g : t = g[b][f]
PROOF
<1>1. ASSUME NEW j, LookedUp(h, j) PROVE LookedUp(g, j)
  <2>1. CASE j.override = NoFile BY <2>1 DEF LookedUp
  <2>2. CASE j.override # NoFile
    <3>1. PICK a \in DOMAIN h : j.override = FirstOf(h[a], j.file[1], OverrideNames) BY <1>1, <2>2 DEF LookedUp
    <3>2. a \in DOMAIN g /\ g[a] = h[a] OBVIOUS
    <3>3. j.override = FirstOf(g[a], j.file[1], OverrideNames) BY <3>1, <3>2
    <3> QED BY <1>1, <2>2, <3>2, <3>3 DEF LookedUp
  <2> QED BY <2>1, <2>2
<1>2. ASSUME NEW p, Taken(h, p) PROVE Taken(g, p)
  <2>1. PICK b, c \in DOMAIN h :
          /\ b <= c /\ p.base = h[b][p.file]
          /\ p.extra = IF p.override = NoFile \/ ~Readable(p.base) THEN Nothing ELSE h[c][p.override]
    BY <1>2 DEF Taken
  <2>2. b \in DOMAIN g /\ c \in DOMAIN g /\ g[b] = h[b] /\ g[c] = h[c] OBVIOUS
  <2>3. LookedUp(g, p) BY <1>1, <1>2 DEF Taken
  <2> QED BY <2>1, <2>2, <2>3 DEF Taken
<1> QED BY <1>1, <1>2

\* A file is read as it is now, the latest moment there is.
LEMMA LastIsNow ==
  ASSUME History
  PROVE  /\ Len(past) \in DOMAIN past /\ past[Len(past)] = disk
         /\ \A b \in DOMAIN past : b <= Len(past)
PROOF
<1>1. past \in Seq(Disks) /\ Len(past) > 0 /\ past[Len(past)] = disk BY DEF History
<1>2. DOMAIN past = 1 .. Len(past) /\ Len(past) \in Nat BY <1>1, LenProperties
<1> QED BY <1>1, <1>2

LEMMA AppendStays ==
  ASSUME TypeOK, NEW p, projects' = Append(projects, p), NEW h, Taken(h, p), \A i \in DOMAIN projects : Taken(h, projects[i])
  PROVE  \A i \in DOMAIN projects' : Taken(h, projects'[i])
PROOF
<1>1. projects \in Seq(Projects) BY DEF TypeOK
<1>2. /\ DOMAIN projects' = 1 .. Len(projects) + 1 /\ DOMAIN projects = 1 .. Len(projects) /\ Len(projects) \in Nat
      /\ projects'[Len(projects) + 1] = p
      /\ \A i \in 1 .. Len(projects) : projects'[i] = projects[i]
  BY <1>1
<1>3. ASSUME NEW i \in DOMAIN projects' PROVE projects'[i] = p \/ (i \in DOMAIN projects /\ projects'[i] = projects[i])
  BY <1>2
<1> HIDE DEF Taken
<1> QED BY <1>3

LEMMA ReadingNext == ASSUME ReadInv, [Next]_vars PROVE Reading'
PROOF
<1> USE DEF ReadInv
<1>0. History' /\ DOMAIN past \subseteq DOMAIN past' /\ \A i \in DOMAIN past : past'[i] = past[i] BY Grows
<1>1. /\ \A j : LookedUp(past, j) => LookedUp(past', j)
      /\ \A p : Taken(past, p) => Taken(past', p)
      /\ \A t, f : (\E b \in DOMAIN past : t = past[b][f]) => \E b \in DOMAIN past' : t = past'[b][f]
  BY <1>0, TakenStays
<1>2. /\ Len(past) \in DOMAIN past /\ past[Len(past)] = disk
      /\ \A b \in DOMAIN past : b <= Len(past)
  BY LastIsNow
<1> HIDE DEF LookedUp, Taken, IsProjectName
<1>3. ASSUME UNCHANGED <<pc, job, base, projects>>, queue' \subseteq queue PROVE Reading' BY <1>1, <1>3 DEF Reading
<1>4. CASE TakeTarget
  <2>1. UNCHANGED <<pc, job, base, projects>> BY <1>4 DEF TakeTarget
  <2>2. \A e \in queue' : e.walked => IsProjectName(e.file[2])
    <3>1. CASE Head(targets)[2] = "" BY <1>4, <3>1 DEF TakeTarget
    <3>2. CASE Head(targets)[2] # ""
      <4>1. queue' = {[file |-> Head(targets), walked |-> FALSE]} BY <1>4, <3>2, Zenon DEF TakeTarget
      <4> QED BY <4>1
    <3> QED BY <3>1, <3>2
  <2> QED BY <1>1, <2>1, <2>2 DEF Reading
<1>5. ASSUME NEW d \in walk, Search(d) PROVE Reading'
  <2>1. UNCHANGED <<pc, job, base, projects>> BY <1>5 DEF Search
  <2>2. ProjectFile(d) # NoFile => IsProjectName(ProjectFile(d)[2]) BY DEF ProjectFile, FirstOf, IsProjectName
  <2>3. \A e \in queue' : e \in queue \/ IsProjectName(e.file[2])
    <3> HIDE DEF ProjectFile
    <3> QED BY <1>5, <2>2 DEF Search
  <2> QED BY <1>1, <2>1, <2>3 DEF Reading
<1>6. ASSUME NEW e \in queue, Add(e) PROVE Reading'
  <2>1. UNCHANGED <<base, projects, past>> /\ queue' \subseteq queue BY <1>6 DEF Add
  <2>2. CASE e.file \in seen BY <1>3, <1>6, <2>1, <2>2 DEF Add
  <2>3. CASE e.file \notin seen
    <3>1. /\ pc' = "base"
          /\ job' = [file |-> e.file, override |-> IF e.walked THEN OverrideFile(e.file[1]) ELSE NoFile]
      BY <1>6, <2>3 DEF Add
    <3>2. LookedUp(past, job')
      <4>1. CASE e.walked
        <5>1. job'.file = e.file /\ job'.override = FirstOf(past[Len(past)], e.file[1], OverrideNames)
          BY <1>2, <3>1, <4>1 DEF OverrideFile
        <5>2. IsProjectName(e.file[2]) BY <4>1 DEF Reading
        <5> QED BY <1>2, <5>1, <5>2 DEF LookedUp
      <4>2. CASE ~e.walked BY <3>1, <4>2 DEF LookedUp
      <4> QED BY <4>1, <4>2
    <3> QED BY <1>1, <2>1, <3>1, <3>2 DEF Reading
  <2> QED BY <2>2, <2>3
<1>7. CASE ReadBase
  <2>0. UNCHANGED <<job, queue, past>> /\ pc = "base" /\ LookedUp(past, job) BY <1>7 DEF ReadBase, Reading
  <2>1. CASE job.override = NoFile \/ ~Readable(disk[job.file])
    <3> DEFINE p == [file |-> job.file, override |-> job.override, base |-> disk[job.file], extra |-> Nothing]
    <3>1. projects' = Append(projects, p) /\ pc' = "next" BY <1>7, <2>1 DEF ReadBase, Loaded
    <3>2. Taken(past, p)
      <4>1. LookedUp(past, p) BY <2>0 DEF LookedUp
      <4>2. p.base = past[Len(past)][p.file] BY <1>2
      <4>3. p.extra = IF p.override = NoFile \/ ~Readable(p.base) THEN Nothing ELSE past[Len(past)][p.override] BY <2>1
      <4> HIDE DEF p
      <4> QED BY <1>2, <4>1, <4>2, <4>3 DEF Taken
    <3>3. \A i \in DOMAIN projects' : Taken(past, projects'[i])
      <4> HIDE DEF p
      <4> QED BY <3>1, <3>2, AppendStays DEF Reading
    <3> QED BY <2>0, <3>1, <3>3 DEF Reading
  <2>2. CASE ~(job.override = NoFile \/ ~Readable(disk[job.file]))
    <3>1. pc' = "override" /\ base' = past[Len(past)][job.file] /\ UNCHANGED projects BY <1>2, <1>7, <2>2 DEF ReadBase
    <3> QED BY <1>2, <2>0, <2>2, <3>1 DEF Reading
  <2> QED BY <2>1, <2>2
<1>8. CASE ReadOverride
  <2> DEFINE p == [file |-> job.file, override |-> job.override, base |-> base, extra |-> disk[job.override]]
  <2>1. projects' = Append(projects, p) /\ pc' = "next" /\ UNCHANGED <<job, queue, past>> /\ pc = "override"
    BY <1>8 DEF ReadOverride, Loaded
  <2>2. Taken(past, p)
    <3>1. LookedUp(past, p) BY <2>1 DEF LookedUp, Reading
    <3>2. PICK b \in DOMAIN past : p.base = past[b][p.file] BY <2>1 DEF Reading
    <3>3. p.extra = IF p.override = NoFile \/ ~Readable(p.base) THEN Nothing ELSE past[Len(past)][p.override]
      BY <1>2, <2>1 DEF Reading
    <3> HIDE DEF p
    <3> QED BY <1>2, <3>1, <3>2, <3>3 DEF Taken
  <2>3. \A i \in DOMAIN projects' : Taken(past, projects'[i])
    <3> HIDE DEF p
    <3> QED BY <2>1, <2>2, AppendStays DEF Reading
  <2> QED BY <2>1, <2>3 DEF Reading
<1>9. CASE Collected
  <2>1. UNCHANGED <<queue, job, base, projects>> /\ pc' = "judge" BY <1>9 DEF Collected
  <2> QED BY <1>1, <2>1 DEF Reading
<1>10. CASE Judge
  <2>1. UNCHANGED <<queue, job, base, projects>> /\ pc' = "ended" BY <1>10 DEF Judge
  <2> QED BY <1>1, <2>1 DEF Reading
<1>11. ASSUME NEW f, NEW c, Edit(f, c) PROVE Reading' BY <1>3, <1>11 DEF Edit, loader
<1>12. CASE UNCHANGED vars BY <1>3, <1>12 DEF vars, loader
<1> QED BY <1>4, <1>5, <1>6, <1>7, <1>8, <1>9, <1>10, <1>11, <1>12 DEF Next, Scanning

LEMMA ReadInvariant == Spec => []ReadInv
PROOF
<1>1. Init => Reading BY DEF Init, Reading
<1>2. ReadInv /\ [Next]_vars => ReadInv' BY ReadingNext, Grows, TypeNext DEF ReadInv
<1> QED BY <1>1, <1>2, TypeInit, HistoryInit, PTL DEF Spec, ReadInv

LEMMA NamesDiffer ==
  /\ OverrideNames[1] # OverrideNames[2] /\ OverrideNames[1] # "" /\ OverrideNames[2] # ""
  /\ ~IsProjectName(OverrideNames[1]) /\ ~IsProjectName(OverrideNames[2])
PROOF
<1> QED BY DEF OverrideNames, IsProjectName, ProjectNames

\* An override that was found is one of the two, the second if there was no first.
LEMMA Found ==
  ASSUME NEW dk, NEW d, NEW o, o = FirstOf(dk, d, OverrideNames), o # NoFile
  PROVE  /\ o = <<d, OverrideNames[1]>> \/ (o = <<d, OverrideNames[2]>> /\ ~There(dk, <<d, OverrideNames[1]>>))
         /\ There(dk, o)
PROOF
<1> QED BY Zenon DEF FirstOf

LEMMA FoundNow ==
  ASSUME NEW dk, NEW d, NEW o, There(dk, o),
         o = <<d, OverrideNames[1]>> \/ (o = <<d, OverrideNames[2]>> /\ ~There(dk, <<d, OverrideNames[1]>>))
  PROVE  o = FirstOf(dk, d, OverrideNames)
PROOF
<1> QED BY Zenon DEF FirstOf

LEMMA BesideIs ==
  ASSUME NEW dk, NEW p, p.override # NoFile, p.override = FirstOf(dk, p.file[1], OverrideNames)
  PROVE  Beside(dk, p) = dk[p.override]
PROOF
<1> QED BY Zenon DEF Beside

(* Unless two of the three files are edited during the scan, the compose   *)
(* file and the override are judged as they stood together at one moment.  *)
THEOREM JudgedTogether == Spec => []Snapshot
PROOF
<1>1. ASSUME ReadInv, NEW i \in DOMAIN projects PROVE
        LET p == projects[i]
            read == {p.file} \cup {<<p.file[1], OverrideNames[n]>> : n \in {1, 2}}
        IN Sound(p) /\ (\E f \in read : \A g \in read \ {f} : Settled(g)) =>
             \E m \in DOMAIN past : p.base = past[m][p.file] /\ p.extra = Beside(past[m], p)
  <2> DEFINE p == projects[i]
             first == <<p.file[1], OverrideNames[1]>>
             second == <<p.file[1], OverrideNames[2]>>
             read == {p.file} \cup {<<p.file[1], OverrideNames[n]>> : n \in {1, 2}}
             Together(m) == p.base = past[m][p.file] /\ p.extra = Beside(past[m], p)
  <2> SUFFICES ASSUME Sound(p), \E f \in read : \A g \in read \ {f} : Settled(g)
               PROVE  \E m \in DOMAIN past : Together(m)
    OBVIOUS
  <2>1. Taken(past, p) BY <1>1 DEF ReadInv, Reading
  <2>2. Readable(p.base) /\ Readable(p.extra) BY DEF Sound
  <2>3. first \in read /\ second \in read /\ p.file \in read BY Zenon
  <2>4. PICK f \in read : \A g \in read \ {f} : Settled(g) OBVIOUS
  <2>5. first # second BY NamesDiffer
  <2>6. IsProjectName(p.file[2]) => p.file # first /\ p.file # second
    <3>1. first[2] = OverrideNames[1] /\ second[2] = OverrideNames[2] OBVIOUS
    <3> HIDE DEF first, second
    <3> QED BY <3>1, NamesDiffer, Zenon
  <2> HIDE DEF p, read
  <2>7. PICK b, c \in DOMAIN past :
          /\ b <= c /\ p.base = past[b][p.file]
          /\ p.extra = IF p.override = NoFile \/ ~Readable(p.base) THEN Nothing ELSE past[c][p.override]
    BY <2>1 DEF Taken
  <2>8. CASE p.override = NoFile
    <3>1. Beside(past[b], p) = Nothing BY <2>8 DEF Beside
    <3> QED BY <2>7, <2>8, <3>1
  <2>9. CASE p.override # NoFile
    <3>1. PICK a \in DOMAIN past : p.override = FirstOf(past[a], p.file[1], OverrideNames) BY <2>1, <2>9 DEF Taken, LookedUp
    <3>2. IsProjectName(p.file[2]) BY <2>1, <2>9 DEF Taken, LookedUp
    <3>3. p.extra = past[c][p.override] BY <2>2, <2>7, <2>9
    <3>4. There(past[c], p.override) BY <2>2, <3>3 DEF There, Readable
    <3>5. /\ p.override = first \/ (p.override = second /\ ~There(past[a], first))
          /\ There(past[a], p.override)
      BY <2>9, <3>1, Found
    <3>6. \/ Settled(p.file) /\ Settled(first)
          \/ Settled(p.file) /\ Settled(second)
          \/ Settled(first) /\ Settled(second)
      BY <2>3, <2>4, <2>5, <2>6, <3>2
    <3>7. ASSUME NEW f1, Settled(f1), NEW k \in DOMAIN past, NEW m \in DOMAIN past
          PROVE  past[k][f1] = past[m][f1] /\ (There(past[k], f1) <=> There(past[m], f1))
      BY <3>7 DEF Settled, There
    <3>8. ASSUME NEW m \in DOMAIN past, p.override = FirstOf(past[m], p.file[1], OverrideNames) PROVE Beside(past[m], p) = past[m][p.override]
      BY <2>9, <3>8, BesideIs
    <3>9. ASSUME Settled(p.file), Settled(first) \/ p.override = first PROVE Together(c)
      <4>1. p.override = first \/ (p.override = second /\ ~There(past[c], first)) BY <3>5, <3>7, <3>9
      <4>2. p.override = FirstOf(past[c], p.file[1], OverrideNames) BY <3>4, <4>1, FoundNow
      <4> QED BY <2>7, <3>3, <3>7, <3>8, <3>9, <4>2
    <3>10. ASSUME Settled(p.file), Settled(second), p.override = second PROVE Together(a)
      BY <2>7, <3>1, <3>3, <3>7, <3>8, <3>10
    <3>11. ASSUME Settled(first), Settled(second) PROVE Together(b)
      <4>1. p.override = first \/ (p.override = second /\ ~There(past[b], first)) BY <3>5, <3>7, <3>11
      <4>2. There(past[b], p.override) /\ past[b][p.override] = past[c][p.override] BY <3>5, <3>7, <3>11
      <4>3. p.override = FirstOf(past[b], p.file[1], OverrideNames) BY <4>1, <4>2, FoundNow
      <4> QED BY <2>7, <3>3, <3>8, <4>2, <4>3
    <3> QED BY <3>5, <3>6, <3>9, <3>10, <3>11
  <2> QED BY <2>8, <2>9
<1>2. ReadInv => Snapshot BY <1>1 DEF Snapshot
<1> QED BY <1>2, ReadInvariant, PTL
-----------------------------------------------------------------------------
\* What services has for setting k of service n; an override says it if it is a scalar.
Says(services, n, k) == IF n \in DOMAIN services THEN services[n].has[k] ELSE Unset
Sets(o, n, k) == n \in DOMAIN o.services /\ ~o.services[n].null /\ o.services[n].has[k].kind = "one"
Silent(o, n, k) ==
  /\ o.state \in {"bare", "doc"}
  /\ n \in DOMAIN o.services => ~o.services[n].null /\ o.services[n].has[k].kind = "unset"

LEMMA TextsAre ==
  ASSUME NEW c \in Texts
  PROVE  /\ \A n \in DOMAIN c.services : c.state = "doc" /\ (c.services[n].null => c.services[n] = NoSettings)
         /\ \A k \in Keys : NoSettings.has[k].kind = "unset"
PROOF
<1>1. CASE c \in Contents
  <2>1. IsContent(c) BY <1>1, ComposeAssumption DEF ComposeAssumption
  <2>2. \A k \in Keys : NoSettings.has[k].kind = "unset" BY DEF NoSettings, Unset
  <2> QED BY <2>1, <2>2, Zenon DEF IsContent
<1>2. CASE c = Nothing BY <1>2 DEF Nothing, NoSettings, Unset
<1> QED BY <1>1, <1>2 DEF Texts

LEMMA MergedSays ==
  ASSUME NEW b \in Texts, NEW o \in Texts, NEW n, NEW k \in Keys
  PROVE  Says(Merge(b, o).services, n, k) =
           IF n \notin DOMAIN o.services \/ b.state # "doc" \/ n \notin DOMAIN b.services
           THEN IF o.state \in {"bare", "doc"} /\ n \notin DOMAIN o.services /\ (o.state = "bare" \/ b.state = "doc")
                THEN Says(b.services, n, k)
                ELSE Says(o.services, n, k)
           ELSE IF o.services[n].null \/ b.services[n].null THEN o.services[n].has[k]
           ELSE MergeSetting(k, b.services[n].has[k], o.services[n].has[k])
PROOF
<1>0. /\ \A m \in DOMAIN b.services : b.state = "doc"
      /\ \A m \in DOMAIN o.services : o.state = "doc"
  BY TextsAre
<1>1. CASE o.state = "bare" BY <1>0, <1>1 DEF Merge
<1>2. CASE o.state = "doc" /\ b.state = "doc"
  <2> DEFINE m == MergeServices(b.services, o.services)
  <2>1. Merge(b, o).services = m BY <1>2 DEF Merge
  <2>2. CASE n \notin DOMAIN o.services
    <3>1. Says(m, n, k) = Says(b.services, n, k) BY <2>2 DEF MergeServices, Says
    <3> QED BY <1>2, <2>1, <2>2, <3>1
  <2>3. CASE n \in DOMAIN o.services /\ n \notin DOMAIN b.services
    <3>1. Says(m, n, k) = Says(o.services, n, k) BY <2>3 DEF MergeServices, Says
    <3> QED BY <2>1, <2>3, <3>1
  <2>4. CASE n \in DOMAIN o.services /\ n \in DOMAIN b.services
    <3>1. Says(m, n, k) = MergeService(b.services[n], o.services[n]).has[k] BY <2>4 DEF MergeServices, Says
    <3> QED BY <1>2, <2>1, <2>4, <3>1 DEF MergeService
  <2> QED BY <2>2, <2>3, <2>4
<1>3. CASE o.state # "bare" /\ ~(o.state = "doc" /\ b.state = "doc")
  <2>1. Merge(b, o) = o BY <1>3 DEF Merge
  <2> QED BY <1>0, <1>3, <2>1
<1> QED BY <1>1, <1>2, <1>3

\* A scalar of the merged file is the override's, or the base's if the override says nothing of it.
LEMMA Whose ==
  ASSUME NEW b \in Texts, NEW o \in Texts, NEW n, NEW k \in Keys, Says(Merge(b, o).services, n, k).kind = "one"
  PROVE  \/ Sets(o, n, k)
         \/ Silent(o, n, k) /\ Says(b.services, n, k) = Says(Merge(b, o).services, n, k)
PROOF
<1> DEFINE v == Says(Merge(b, o).services, n, k)
           bk == b.services[n].has[k]
           ok == o.services[n].has[k]
<1>0. /\ \A m \in DOMAIN o.services : o.state = "doc" /\ (o.services[m].null => o.services[m].has[k].kind = "unset")
      /\ \A m \in DOMAIN b.services : b.state = "doc"
      /\ Unset.kind = "unset"
  BY TextsAre DEF Unset
<1>1. CASE n \notin DOMAIN o.services
  <2>1. Says(o.services, n, k).kind # "one" BY <1>0, <1>1 DEF Says
  <2>2. o.state \in {"bare", "doc"} /\ v = Says(b.services, n, k) BY <1>1, <2>1, MergedSays
  <2> QED BY <1>1, <2>2 DEF Silent
<1>2. CASE n \in DOMAIN o.services /\ ~o.services[n].null /\ ok.kind # "one"
  <2>1. n \in DOMAIN b.services /\ b.state = "doc" /\ ~b.services[n].null
    BY <1>2, MergedSays DEF Says
  <2>2. v = MergeSetting(k, bk, ok) BY <1>2, <2>1, MergedSays
  <2>3. ok.kind = "unset" /\ v = bk
    <3> HIDE DEF bk, ok
    <3>1. v.kind = "one" OBVIOUS
    <3> QED BY <1>2, <2>2, <3>1 DEF MergeSetting
  <2> QED BY <1>0, <1>2, <2>1, <2>3 DEF Silent, Says
<1>3. CASE n \in DOMAIN o.services /\ o.services[n].null
  <2>1. v = ok BY <1>3, MergedSays DEF Says
  <2> QED BY <1>0, <1>3, <2>1
<1> QED BY <1>1, <1>2, <1>3 DEF Sets

LEMMA SetWins ==
  ASSUME NEW b \in Texts, NEW o \in Texts, NEW n, NEW k \in Keys, Sets(o, n, k)
  PROVE  Says(Merge(b, o).services, n, k) = o.services[n].has[k]
PROOF
<1> DEFINE bk == b.services[n].has[k]
           ok == o.services[n].has[k]
<1>1. n \in DOMAIN o.services /\ ~o.services[n].null /\ ok.kind = "one" BY DEF Sets
<1>2. MergeSetting(k, bk, ok) = ok
  <2> HIDE DEF bk, ok
  <2> QED BY <1>1 DEF MergeSetting
<1> QED BY <1>1, <1>2, MergedSays DEF Says

LEMMA SilentKeeps ==
  ASSUME NEW b \in Texts, NEW o \in Texts, NEW n, NEW k \in Keys, Silent(o, n, k), Says(b.services, n, k).kind = "one"
  PROVE  Says(Merge(b, o).services, n, k) = Says(b.services, n, k)
PROOF
<1> DEFINE bk == b.services[n].has[k]
           ok == o.services[n].has[k]
<1>0. /\ \A m \in DOMAIN b.services : b.state = "doc" /\ (b.services[m].null => b.services[m].has[k].kind = "unset")
      /\ Unset.kind = "unset"
  BY TextsAre DEF Unset
<1>1. n \in DOMAIN b.services /\ b.state = "doc" /\ ~b.services[n].null /\ Says(b.services, n, k) = bk
  BY <1>0 DEF Says
<1>2. CASE n \notin DOMAIN o.services BY <1>1, <1>2, MergedSays DEF Silent
<1>3. CASE n \in DOMAIN o.services
  <2>1. ~o.services[n].null /\ ok.kind = "unset" BY <1>3 DEF Silent
  <2>2. MergeSetting(k, bk, ok) = bk
    <3> HIDE DEF bk, ok
    <3> QED BY <2>1 DEF MergeSetting
  <2> QED BY <1>1, <1>3, <2>1, <2>2, MergedSays
<1> QED BY <1>2, <1>3

LEMMA BesideType ==
  ASSUME NEW dk \in Disks, NEW p \in Projects PROVE dk[p.file] \in Texts /\ Beside(dk, p) \in Texts
PROOF
<1>1. p.file \in Files /\ p.file[1] \in Dirs BY DEF Projects, Files
<1>2. FirstOf(dk, p.file[1], OverrideNames) \in Files \cup {NoFile} BY <1>1, FirstOfType
<1>3. \A f \in Files : dk[f] \in Texts BY DiskType DEF Texts
<1>4. Nothing \in Texts BY DEF Texts
<1> QED BY <1>1, <1>2, <1>3, <1>4, Zenon DEF Beside

(* A scalar that is moved from the compose file to the override, and that  *)
(* the service therefore has all the time, is what is judged.              *)
THEOREM MovesAreSeen == Spec => []NeverWithout
PROOF
<1>1. ASSUME ReadInv, NEW i \in DOMAIN projects, Sound(projects[i]),
             NEW n \in DOMAIN ServicesOf(projects[i]), NEW k \in Keys, NEW v, v.kind = "one",
             \A m \in DOMAIN past : Deployed(past[m], projects[i], n, k) = v,
             \A m, q \in DOMAIN past :
               m < q /\ InOverride(past[m], projects[i], n, k) => InOverride(past[q], projects[i], n, k),
             projects[i].override # NoFile =>
               \A m \in DOMAIN past :
                 FirstOf(past[m], projects[i].file[1], OverrideNames) \in {projects[i].override, NoFile}
      PROVE  ServicesOf(projects[i])[n].has[k] = v
  <2> DEFINE p == projects[i]
  <2>1. p \in Projects /\ Taken(past, p) BY <1>1 DEF ReadInv, TypeOK, Reading
  <2>2. \A m \in DOMAIN past : past[m] \in Disks BY <1>1 DEF ReadInv, History
  <2>3. \A m \in DOMAIN past : past[m][p.file] \in Texts /\ Beside(past[m], p) \in Texts BY <2>1, <2>2, BesideType
  <2>4. \A m \in DOMAIN past : v = Says(Merge(past[m][p.file], Beside(past[m], p)).services, n, k)
    BY <1>1 DEF Deployed, Says
  <2>5. \A m \in DOMAIN past : InOverride(past[m], p, n, k) <=> Sets(Beside(past[m], p), n, k) BY DEF InOverride, Sets
  <2>6. ServicesOf(p)[n].has[k] = Says(Merge(p.base, p.extra).services, n, k) BY <1>1 DEF ServicesOf, Merged, Says
  <2>7. p.base \in Texts /\ p.extra \in Texts BY <2>1 DEF Projects
  <2>8. Readable(p.base) /\ Readable(p.extra) BY <1>1 DEF Sound
  <2>9. \A m, q \in DOMAIN past : m < q /\ InOverride(past[m], p, n, k) => InOverride(past[q], p, n, k) BY <1>1
  <2>10. p.override # NoFile => \A m \in DOMAIN past : FirstOf(past[m], p.file[1], OverrideNames) \in {p.override, NoFile}
    BY <1>1
  <2> HIDE DEF p
  <2>11. PICK b, c \in DOMAIN past :
           /\ b <= c /\ p.base = past[b][p.file]
           /\ p.extra = IF p.override = NoFile \/ ~Readable(p.base) THEN Nothing ELSE past[c][p.override]
    BY <2>1 DEF Taken
  <2>12. CASE p.override = NoFile
    <3>1. Beside(past[b], p) = Nothing /\ p.extra = Nothing BY <2>11, <2>12 DEF Beside
    <3> QED BY <2>4, <2>6, <2>11, <3>1 DEF p
  <2>13. CASE p.override # NoFile
    <3>1. p.extra = past[c][p.override] BY <2>8, <2>11, <2>13
    <3>2. There(past[c], p.override) BY <2>8, <3>1 DEF There, Readable
    <3>3. PICK a \in DOMAIN past : p.override = FirstOf(past[a], p.file[1], OverrideNames) BY <2>1, <2>13 DEF Taken, LookedUp
    <3>4. p.override \in {<<p.file[1], OverrideNames[1]>>, <<p.file[1], OverrideNames[2]>>} BY <2>13, <3>3, Found
    <3>5. FirstOf(past[c], p.file[1], OverrideNames) # NoFile
      <4>1. \A j \in {1, 2} : <<p.file[1], OverrideNames[j]>> # NoFile BY NamesDiffer DEF NoFile
      <4> QED BY <3>2, <3>4, <4>1, Zenon DEF FirstOf
    <3>6. p.extra = Beside(past[c], p) BY <2>10, <2>13, <3>1, <3>5, BesideIs
    <3>7. v.kind = "one" BY <1>1
    <3>8. \/ Sets(p.extra, n, k)
          \/ Silent(p.extra, n, k)
      BY <2>3, <2>4, <3>6, <3>7, Whose
    <3>9. CASE Sets(p.extra, n, k)
      <4>1. v = p.extra.services[n].has[k] BY <2>3, <2>4, <2>7, <3>6, <3>9, SetWins
      <4> QED BY <2>6, <2>7, <3>9, <4>1, SetWins DEF p
    <3>10. CASE Silent(p.extra, n, k)
      <4>1. ~Sets(p.extra, n, k) BY <3>10 DEF Silent, Sets
      <4>2. ~InOverride(past[b], p, n, k)
        <5>1. b = c \/ b < c BY <2>11, <1>1 DEF ReadInv, History
        <5> QED BY <2>5, <2>9, <3>6, <4>1, <5>1
      <4>3. Says(p.base.services, n, k) = v BY <2>3, <2>4, <2>5, <2>11, <3>7, <4>2, Whose
      <4> QED BY <2>6, <2>7, <3>7, <3>10, <4>3, SilentKeeps DEF p
    <3> QED BY <3>8, <3>9, <3>10
  <2> QED BY <2>12, <2>13
<1>2. ReadInv => NeverWithout
  <2> SUFFICES ASSUME ReadInv PROVE NeverWithout OBVIOUS
  <2> QED BY <1>1 DEF NeverWithout
<1> QED BY <1>2, ReadInvariant, PTL
-----------------------------------------------------------------------------
(* Nothing that was named is left out.                                     *)
Known == seen \cup {e.file : e \in queue}
Always(f) == \A i \in DOMAIN past : f = FirstOf(past[i], f[1], ProjectNames)

\* What was named as t has been loaded, or its file or folder waits for it.
Held(t) ==
  /\ t[2] # "" => t \in Known
  /\ t[2] = "" => \A f \in Files : Reached(t[1], f[1]) /\ Always(f) => f[1] \in walk \/ f \in Known
Searched == Len(asked) - Len(targets)
Holding ==
  /\ Len(targets) <= Len(asked) /\ \A k \in 1 .. Len(targets) : targets[k] = asked[Searched + k]
  /\ \A k \in 1 .. Searched : Held(asked[k])
  /\ \A f \in seen : (\E i \in DOMAIN projects : projects[i].file = f) \/ (pc \in {"base", "override"} /\ job.file = f)
  /\ pc \in {"judge", "ended"} => targets = <<>> /\ walk = {} /\ queue = {}
HoldInv == TypeOK /\ History /\ Holding

LEMMA HoldingNext == ASSUME HoldInv, [Next]_vars PROVE Holding'
PROOF
<1> USE DEF HoldInv
<1>0. /\ History' /\ DOMAIN past \subseteq DOMAIN past' /\ \A i \in DOMAIN past : past'[i] = past[i]
      /\ ~UNCHANGED past => UNCHANGED loader /\ pc \in {"next", "base", "override"}
  BY Grows
<1>1. \A f : Always(f)' => Always(f) BY <1>0 DEF Always
<1>2. Len(past) \in DOMAIN past /\ past[Len(past)] = disk BY LastIsNow
<1>3. asked \in Seq(Targets) /\ targets \in Seq(Targets) /\ Len(asked) \in Nat /\ Len(targets) \in Nat
  BY LenProperties DEF TypeOK
\* It is enough that what was known is known, and of a folder that was to be searched what it holds.
<1>4. ASSUME UNCHANGED <<asked, targets>>, Known \subseteq Known',
             \A f \in Files : Always(f) /\ f[1] \in walk => f[1] \in walk' \/ f \in Known'
      PROVE  /\ Len(targets') <= Len(asked') /\ \A k \in 1 .. Len(targets') : targets'[k] = asked'[Searched' + k]
             /\ \A k \in 1 .. Searched' : Held(asked[k])'
  <2>1. ASSUME NEW k \in 1 .. Searched PROVE Held(asked[k])'
    <3>1. Held(asked[k]) BY DEF Holding
    <3>2. asked'[k] = asked[k] BY <1>4
    <3>3. asked[k][2] # "" => asked[k] \in Known' BY <1>4, <3>1 DEF Held
    <3>4. ASSUME asked[k][2] = "", NEW f \in Files, Reached(asked[k][1], f[1]), Always(f)'
          PROVE  f[1] \in walk' \/ f \in Known'
      <4>1. f[1] \in walk \/ f \in Known BY <1>1, <3>1, <3>4 DEF Held
      <4> QED BY <1>1, <1>4, <3>4, <4>1
    <3> QED BY <3>2, <3>3, <3>4 DEF Held
  <2> QED BY <1>4, <2>1 DEF Holding, Searched
<1>5. ASSUME NEW p, p.file = job.file, projects' = Append(projects, p), UNCHANGED seen, pc \in {"base", "override"}
      PROVE  \A f \in seen' : \E i \in DOMAIN projects' : projects'[i].file = f
  <2>1. projects \in Seq(Projects) BY DEF TypeOK
  <2>2. /\ DOMAIN projects' = 1 .. Len(projects) + 1 /\ DOMAIN projects = 1 .. Len(projects) /\ Len(projects) \in Nat
        /\ projects'[Len(projects) + 1] = p
        /\ \A i \in 1 .. Len(projects) : projects'[i] = projects[i]
    BY <1>5, <2>1
  <2>3. ASSUME NEW f \in seen' PROVE \E i \in DOMAIN projects' : projects'[i].file = f
    <3>1. (\E i \in DOMAIN projects : projects[i].file = f) \/ job.file = f BY <1>5 DEF Holding
    <3>2. CASE job.file = f BY <1>5, <2>2, <3>2
    <3>3. CASE \E i \in DOMAIN projects : projects[i].file = f BY <2>2, <3>3
    <3> QED BY <3>1, <3>2, <3>3
  <2> QED BY <2>3
<1>6. CASE TakeTarget
  <2>0. PICK t : t = Head(targets) OBVIOUS
  <2>1. /\ pc = "next" /\ walk = {} /\ queue = {} /\ targets # <<>> /\ targets' = Tail(targets) /\ walk' = FoldersOf(t)
        /\ UNCHANGED <<asked, seen, pc, job, projects, past>>
    BY <1>6, <2>0 DEF TakeTarget
  <2>2. /\ Len(targets') = Len(targets) - 1 /\ \A k \in 1 .. Len(targets') : targets'[k] = targets[k + 1]
        /\ t = targets[1] /\ Len(targets) >= 1
    BY <1>3, <2>0, <2>1
  <2>3. Searched' = Searched + 1 /\ Searched \in Nat BY <1>3, <2>1, <2>2 DEF Searched, Holding
  <2>4. t = asked[Searched + 1] BY <1>3, <2>2 DEF Holding
  <2>5. Known = seen /\ seen \subseteq Known' BY <2>1 DEF Known
  <2>6. Held(t)'
    <3>1. CASE t[2] = ""
      <4>1. \A f \in Files : Reached(t[1], f[1]) => f[1] \in FoldersOf(t) BY <3>1 DEF FoldersOf, Files
      <4>2. ASSUME NEW f \in Files, Reached(t[1], f[1]) PROVE f[1] \in walk' BY <2>1, <4>1, <4>2
      <4> QED BY <3>1, <4>2, Zenon DEF Held
    <3>2. CASE t[2] # ""
      <4>1. queue' = {[file |-> t, walked |-> FALSE]} BY <1>6, <2>0, <3>2, Zenon DEF TakeTarget
      <4>2. t \in Known' BY <4>1 DEF Known
      <4> QED BY <3>2, <4>2 DEF Held
    <3> QED BY <3>1, <3>2
  <2>7. ASSUME NEW k \in 1 .. Searched PROVE Held(asked[k])'
    <3>1. Held(asked[k]) BY DEF Holding
    <3>2. ASSUME asked[k][2] = "", NEW f \in Files, Reached(asked[k][1], f[1]), Always(f)' PROVE f \in Known'
      BY <1>1, <2>1, <2>5, <3>1, <3>2 DEF Held
    <3> QED BY <2>1, <2>5, <3>1, <3>2 DEF Held
  <2>8. \A k \in 1 .. Searched' : Held(asked[k])'
    <3>1. ASSUME NEW k \in 1 .. Searched' PROVE Held(asked[k])'
      <4>1. k \in 1 .. Searched \/ k = Searched + 1 BY <2>3
      <4>2. CASE k = Searched + 1
        <5>1. asked'[k] = t BY <2>1, <2>4, <4>2
        <5> QED BY <2>6, <5>1 DEF Held
      <4> QED BY <2>7, <4>1, <4>2
    <3> QED BY <3>1
  <2>9. Len(targets') <= Len(asked') /\ \A k \in 1 .. Len(targets') : targets'[k] = asked'[Searched' + k]
    <3>1. Len(targets') <= Len(asked') BY <1>3, <2>1, <2>2 DEF Holding
    <3>2. ASSUME NEW k \in 1 .. Len(targets') PROVE targets'[k] = asked'[Searched' + k]
      <4>1. k + 1 \in 1 .. Len(targets) /\ Searched + (k + 1) = Searched' + k BY <1>3, <2>2, <2>3
      <4>2. targets[k + 1] = asked[Searched + (k + 1)] BY <4>1 DEF Holding
      <4> QED BY <2>1, <2>2, <4>1, <4>2
    <3> QED BY <3>1, <3>2
  <2> QED BY <2>1, <2>8, <2>9 DEF Holding
<1>7. ASSUME NEW d \in walk, Search(d) PROVE Holding'
  <2>1. /\ UNCHANGED <<asked, targets, seen, pc, job, projects>> /\ walk' = walk \ {d} /\ pc = "next"
        /\ queue' = queue \cup {[file |-> f, walked |-> TRUE] : f \in {ProjectFile(d)} \ {NoFile}}
    BY <1>7 DEF Search
  <2>2. Known \subseteq Known' BY <2>1 DEF Known
  <2>3. ASSUME NEW f \in Files, Always(f), f[1] = d PROVE f \in Known'
    <3>1. f = ProjectFile(d) BY <1>2, <2>3 DEF Always, ProjectFile
    <3>2. f # NoFile
      <4>1. f[2] \in FileNames BY DEF Files
      <4>2. "" \notin FileNames
        <5>1. ProjectNames[1] # "" /\ ProjectNames[2] # "" BY DEF ProjectNames
        <5>2. \A i \in {1, 2} : ProjectNames[i] # "" /\ OverrideNames[i] # "" BY <5>1, NamesDiffer
        <5> QED BY <5>2, Zenon DEF FileNames
      <4>3. NoFile[2] = "" BY DEF NoFile
      <4> QED BY <4>1, <4>2, <4>3
    <3>3. [file |-> f, walked |-> TRUE] \in queue' BY <2>1, <3>1, <3>2
    <3> QED BY <3>3 DEF Known
  <2>4. \A f \in Files : Always(f) /\ f[1] \in walk => f[1] \in walk' \/ f \in Known' BY <2>1, <2>3
  <2> QED BY <1>4, <2>1, <2>2, <2>4 DEF Holding
<1>8. ASSUME NEW e \in queue, Add(e) PROVE Holding'
  <2>1. UNCHANGED <<asked, targets, walk, projects>> /\ queue' = queue \ {e} /\ pc = "next" BY <1>8 DEF Add
  <2>2. e.file \in seen' /\ seen' = seen \cup {e.file} /\ (seen' = seen \/ (pc' = "base" /\ job'.file = e.file))
    BY <1>8 DEF Add, Notice
  <2>3. pc' \in {"next", "base"} BY <1>8, <2>1 DEF Add
  <2>4. Known \subseteq Known' BY <2>1, <2>2 DEF Known
  <2>5. \A f \in seen : \E i \in DOMAIN projects : projects[i].file = f BY <2>1 DEF Holding
  <2>6. \A f \in seen' : (\E i \in DOMAIN projects' : projects'[i].file = f) \/ (pc' \in {"base", "override"} /\ job'.file = f)
    BY <2>1, <2>2, <2>5
  <2> QED BY <1>4, <2>1, <2>3, <2>4, <2>6 DEF Holding
<1>9. CASE ReadBase
  <2>1. UNCHANGED <<asked, targets, walk, queue, seen, job>> /\ pc = "base" /\ pc' \in {"next", "override"}
    BY <1>9 DEF ReadBase, Loaded
  <2>2. Known' = Known BY <2>1 DEF Known
  <2>3. \A f \in seen' : (\E i \in DOMAIN projects' : projects'[i].file = f) \/ (pc' \in {"base", "override"} /\ job'.file = f)
    <3>1. CASE job.override = NoFile \/ ~Readable(disk[job.file])
      <4>1. PICK p : p.file = job.file /\ projects' = Append(projects, p) BY <1>9, <3>1 DEF ReadBase, Loaded
      <4> QED BY <1>5, <2>1, <4>1
    <3>2. CASE ~(job.override = NoFile \/ ~Readable(disk[job.file]))
      <4>1. pc' = "override" /\ UNCHANGED projects BY <1>9, <3>2 DEF ReadBase
      <4> QED BY <2>1, <4>1 DEF Holding
    <3> QED BY <3>1, <3>2
  <2> QED BY <1>4, <2>1, <2>2, <2>3 DEF Holding
<1>10. CASE ReadOverride
  <2>1. UNCHANGED <<asked, targets, walk, queue, seen, job>> /\ pc = "override" /\ pc' = "next"
    BY <1>10 DEF ReadOverride, Loaded
  <2>2. PICK p : p.file = job.file /\ projects' = Append(projects, p) BY <1>10 DEF ReadOverride, Loaded
  <2>3. Known' = Known BY <2>1 DEF Known
  <2> QED BY <1>4, <1>5, <2>1, <2>2, <2>3 DEF Holding
<1>11. ASSUME UNCHANGED <<asked, targets, walk, queue, seen, job, projects>>,
              pc' = pc \/ (pc' \in {"judge", "ended"} /\ pc \in {"next", "judge"} /\ targets = <<>> /\ walk = {} /\ queue = {})
       PROVE  Holding'
  <2>1. Known' = Known BY <1>11 DEF Known
  <2> QED BY <1>4, <1>11, <2>1 DEF Holding
<1>12. CASE Collected BY <1>11, <1>12 DEF Collected
<1>13. CASE Judge BY <1>11, <1>13 DEF Judge, Holding
<1>14. ASSUME NEW f, NEW c, Edit(f, c) PROVE Holding' BY <1>11, <1>14 DEF Edit, loader
<1>15. CASE UNCHANGED vars BY <1>11, <1>15 DEF vars, loader
<1> QED BY <1>6, <1>7, <1>8, <1>9, <1>10, <1>12, <1>13, <1>14, <1>15 DEF Next, Scanning

LEMMA HoldInvariant == Spec => []HoldInv
PROOF
<1>1. ASSUME Init PROVE Holding
  <2>1. targets = asked /\ seen = {} /\ pc = "next" BY <1>1 DEF Init
  <2>2. targets \in Seq(Targets) BY <1>1, TypeInit DEF TypeOK
  <2>3. Len(targets) \in Nat /\ Searched = 0 BY <2>1, <2>2, LenProperties DEF Searched
  <2> QED BY <2>1, <2>3 DEF Holding
<1>2. HoldInv /\ [Next]_vars => HoldInv' BY HoldingNext, Grows, TypeNext DEF HoldInv
<1> QED BY <1>1, <1>2, TypeInit, HistoryInit, PTL DEF Spec, HoldInv

(* When the rules run there is a project for every file that was named,    *)
(* and for every compose file that all the time was there to be found in a *)
(* folder that was named, or below it.                                     *)
THEOREM NothingLeftOut == Spec => []Covered
PROOF
<1>1. ASSUME HoldInv, pc \in {"judge", "ended"}, NEW k \in DOMAIN asked
      PROVE  \/ asked[k][2] # "" /\ \E i \in DOMAIN projects : projects[i].file = asked[k]
             \/ /\ asked[k][2] = ""
                /\ \A f \in Files :
                     Reached(asked[k][1], f[1]) /\ (\A i \in DOMAIN past : f = FirstOf(past[i], f[1], ProjectNames))
                       => \E i \in DOMAIN projects : projects[i].file = f
  <2>1. asked \in Seq(Targets) BY <1>1 DEF HoldInv, TypeOK
  <2>2. targets = <<>> /\ walk = {} /\ queue = {} BY <1>1 DEF HoldInv, Holding
  <2>3. k \in 1 .. Searched BY <2>1, <2>2 DEF Searched
  <2>4. Held(asked[k]) BY <1>1, <2>3 DEF HoldInv, Holding
  <2>5. \A f \in Known : \E i \in DOMAIN projects : projects[i].file = f BY <1>1, <2>2 DEF HoldInv, Holding, Known
  <2> QED BY <2>2, <2>4, <2>5 DEF Held, Always
<1>2. HoldInv => Covered BY <1>1 DEF Covered
<1> QED BY <1>2, HoldInvariant, PTL
=============================================================================
