----------------------------- MODULE MCPackages -----------------------------
EXTENDS Packages

\* The registry has p, which depends on any version of q; there are a git
\* repository g, and a path package that depends on itself.
MCDepsOf ==
  [n \in {"p", "q", "g", "self"} |->
     CASE n = "p" -> [x \in {"q"} |-> Registry("q", {1, 2})]
       [] n = "self" -> [x \in {"self"} |-> Path("self")]
       [] OTHER -> [x \in {} |-> Git("g")]]

\* A path package with a git dependency of its own
NestedDepsOf == Set(MCDepsOf, "local", [x \in {"g"} |-> Git("g")])

MCPublished == {<<"p", 1>>, <<"q", 1>>}

\* A registry package under two requirements, while newer versions of it and
\* of its dependency are published.
RegistrySetting ==
  [choices |-> [a \in {"a"} |-> {Registry("p", {1, 2}), Registry("p", {1})}],
   publishable |-> {<<"p", 2>>, <<"q", 2>>}, lastCommit |-> 1]

\* Two aliases of a git repository, one of which may be the cyclic package.
GitSetting ==
  [choices |-> [a \in {"a", "b"} |-> IF a = "a" THEN {Git("g")} ELSE {Git("g"), Path("self")}],
   publishable |-> {}, lastCommit |-> 2]

MCSettings == {RegistrySetting, GitSetting}

NestedSettings ==
  {[choices |-> [a \in {"a"} |-> {Path("local")}], publishable |-> {}, lastCommit |-> 2]}

\* Only there does a package other than the root depend on a repository.
ASSUME NestedAssumption == NoNestedGit \/ Settings = NestedSettings
=============================================================================
