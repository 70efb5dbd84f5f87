------------------------------ MODULE MCCompose ------------------------------
(* A folder with a subfolder, one below the search depth and one that is   *)
(* skipped; files with one or two services.                                *)
EXTENDS Compose, TLC

Srv == <<"srv">>
App == <<"srv", "app">>
Deep == <<"srv", "app", "deep">>
Modules == <<"srv", "node_modules">>
MCWalkOrder == <<Srv, App, Deep, Modules>>
MCSkipDirs == {"node_modules"}

Map(xs) == [kind |-> "map", is |-> xs]
With(f) == [null |-> FALSE, has |-> f @@ [k \in Keys |-> Unset]]
Doc(ss) == [state |-> "doc", services |-> ss]
In(state) == [state |-> state, services |-> Nothing.services]
Absent == In("absent")

\* Where files are edited.
User == "web" :> With("user" :> One("app"))
Plain == "web" :> With("image" :> One("app:1"))
Built == "web" :> With("build" :> One("dir"))
EditContents == {Absent, Doc(User), Doc(Plain), Doc(Built), In("broken"), Nothing}

Base(d) == <<d, "compose.yaml">>
OldBase(d) == <<d, "docker-compose.yml">>
Over(d) == <<d, "compose.override.yaml">>
OldOver(d) == <<d, "docker-compose.override.yml">>
Folder(d) == <<d, "">>
Disk(fs) == fs @@ [f \in Files |-> Absent]
Start(fs, ts) == [disk |-> Disk(fs), dockerfile |-> <<"FROM", "USER app">>, targets |-> ts, edits |-> 3]

Whole == Base(Srv) :> Doc(User) @@ Over(Srv) :> Doc(Plain)
EditStarts == {
  Start(Whole, <<Folder(Srv)>>),
  Start(Whole @@ OldOver(Srv) :> Doc(User), <<Folder(Srv), Base(Srv)>>),
  Start(Base(App) :> Doc(Built) @@ OldOver(App) :> Doc(Plain) @@ Base(Modules) :> Doc(Plain) @@ Base(Deep) :> Doc(Plain),
        <<Folder(App), Folder(Srv), Base(App)>>),
  Start(OldBase(Srv) :> Doc(Plain) @@ Base(App) :> In("broken"), <<OldBase(Srv), Folder(Srv)>>)}
MCEdits ==
  {Base(Srv), Over(Srv)} \X {Absent, Doc(User), Doc(Plain)}
    \cup {<<OldOver(Srv), Absent>>, <<Base(App), Doc(User)>>, <<Over(App), Doc(User)>>, <<OldOver(App), Doc(Built)>>, <<OldBase(Srv), Absent>>}

\* Where rules matter: a secure service, what one override may do to it,
\* and an insecure one.
Hard ==
  "user" :> One("app") @@ "image" :> One("app:1") @@ "security_opt" :> List({<<"no-new-privileges", "true">>})
    @@ "read_only" :> One("true") @@ "limits" :> Map({<<"memory", "512M">>, <<"cpus", "1">>})
    @@ "environment" :> Map({<<"DB_PASSWORD", "${VAR}">>}) @@ "ports" :> List({<<"host:container", "8080">>})
Changes == {
  "privileged" :> One("true"), "privileged" :> One("false"), "user" :> One("root"), "user" :> One(""),
  "user" :> One("app"), "image" :> One("${TAG:-latest}"), "image" :> One("postgres:16"), "image" :> One("app"), "image" :> One("postgres"),
  "build" :> One("dir"), "cap_add" :> List({<<"SYS_ADMIN", "">>}), "cap_add" :> List({<<"CHOWN", "">>}),
  "cap_add" :> One(""), "volumes" :> List({<<"docker.sock", "ro">>}), "volumes" :> List({<<"data", "rw">>}),
  "environment" :> List({<<"DB_PASSWORD", "text">>}), "environment" :> Map({<<"DB_PASSWORD", "text">>}),
  "environment" :> Map({<<"API_KEY", "${VAR:-text}">>, <<"MODE", "text">>}),
  "environment" :> Map({<<"API-KEY", "text">>, <<"DB_PASSWORD", "text">>}),
  "environment" :> List({<<"DB_PASSWORD", "${VAR}">>}), "environment" :> List({<<"API_KEY", "/run/secrets/key">>}),
  "security_opt" :> List({<<"no-new-privileges", "false">>}), "security_opt" :> List({<<"no-new-privileges", "">>}),
  "read_only" :> One("false"), "read_only" :> One("true"), "mem_limit" :> One("1g"), "limits" :> Map({<<"memory", "">>}),
  "limits" :> Map({<<"memory", "1g">>}), "cpus" :> One("1"), "network_mode" :> One("host"), "network_mode" :> One("bridge"),
  "pid" :> One("host"), "ipc" :> One("host"), "ports" :> List({<<"ip:host:container", "22">>}),
  "ports" :> List({<<"container", "22">>, <<"host:container", "443">>})}
RuleContents ==
  {Doc("web" :> With(c @@ Hard)) : c \in Changes} \cup {Doc("web" :> With(c)) : c \in Changes}
    \cup {Doc("web" :> NoSettings), Doc("db" :> With(Hard)), Doc("db" :> With("mem_limit" :> One("1g"))), In("bare"), In("odd"), In("broken"), Absent}
MCDockerfiles == {<<"FROM", "USER app">>, <<"FROM", "USER app", "FROM">>, <<"USER app", "USER root">>, <<"FROM", "USER root", "USER app">>}
RuleStarts ==
  {[disk |-> Disk(Base(Srv) :> b @@ Over(Srv) :> o), dockerfile |-> d, targets |-> <<Folder(Srv)>>, edits |-> 0] :
     b \in {x \in RuleContents : x.state # "absent"}, o \in RuleContents, d \in MCDockerfiles}
MCContents == EditContents \cup RuleContents
MCStarts == EditStarts \cup RuleStarts
=============================================================================
