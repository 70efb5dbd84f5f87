---------------------------- MODULE MCDependencies ----------------------------
(* Two projects with a database each, one scaled, and a copy of the first  *)
(* in another folder of the same name; a container that is named as a      *)
(* service of another project.                                             *)
EXTENDS Dependencies

MCProjects == {"shop", "blog", "copy"}
MCName == [p \in MCProjects |-> IF p = "blog" THEN "blog" ELSE "shop"]
MCDependsOn == [p \in MCProjects |->
  CASE p = "shop" -> {<<"web", "db">>, <<"side", "db">>} [] p = "blog" -> {<<"web", "db">>} [] OTHER -> {<<"web", "mail">>}]
MCSharing == [p \in MCProjects |-> IF p = "shop" THEN {"side"} ELSE {}]

\* A container is written as its file, its service and its own name.
MCBoxes == {
  <<"shop", "web", "shop-web-1">>, <<"shop", "web", "shop-web-2">>, <<"shop", "db", "shop-db-1">>,
  <<"blog", "web", "blog-web-1">>, <<"blog", "db", "db">>, <<"copy", "web", "copy-web-1">>}
MCFrom == [b \in MCBoxes |-> b[1]]
MCService == [b \in MCBoxes |-> b[2]]
MCContainerName == [b \in MCBoxes |-> b[3]]
MCLabels == {"shop", "blog", "test"}
MCExternal == {"edge"}

Item(from, to, port) == [from |-> from, to |-> to, port |-> port]
MCDeclarations == {
  [state |-> "none", items |-> <<>>], [state |-> "broken", items |-> <<>>],
  [state |-> "ok", items |-> <<Item("web", "mail", "ok")>>],
  [state |-> "ok", items |-> <<Item("web", "db", "none"), Item("", "db", "ok")>>],
  [state |-> "ok", items |-> <<Item("blog-web-1", "db", "bad")>>]}
NoDeclaration == {[state |-> "none", items |-> <<>>]}
=============================================================================
