------------------------------ MODULE NpmConfig ------------------------------
(***************************************************************************)
(* src/config.rs: the npm configuration of a command, read from the user's *)
(* .npmrc and then the project's, and the token that goes with a request.  *)
(*                                                                         *)
(* A path is the sequence of its characters.  A url is a record of what    *)
(* the parser finds in it; an npmrc is a sequence of lines, [key, url] for *)
(* a registry and [key, value] for any other setting, and a value is a     *)
(* sequence of pieces: text, or a reference to a variable.                 *)
(***************************************************************************)
EXTENDS Integers, Sequences, SequencesExt, FiniteSets, FiniteSetsExt

Failed == [failed |-> TRUE]
NoToken == 0
Unset == <<0 - 1>>
Default ==
    [failed |-> FALSE, registry |-> [scheme |-> "https", authority |-> "npmjs", path |-> <<>>], scoped |-> <<>>, tokens |-> <<>>,
     network |-> [retries |-> 2, factor |-> 10, min |-> 2, max |-> 4, timeout |-> 5]]

TrimEnd(path) ==
    LET kept == {i \in DOMAIN path : path[i] # "/"} IN IF kept = {} THEN <<>> ELSE SubSeq(path, 1, Max(kept))

(* parse_http_target: no url with credentials in it is accepted.           *)
ParseHttpTarget(url) == url.scheme \in {"http", "https"} /\ ~url.userinfo

(* normalize_registry: without a query, without slashes at the end.        *)
NormalizeRegistry(url) ==
    IF ParseHttpTarget(url) /\ ~url.query
    THEN [scheme |-> url.scheme, authority |-> url.authority, path |-> TrimEnd(url.path)] ELSE Failed

(* Mutant: the scope keeps the spelling of its key. *)
ParseAuthScopeAsWritten(key) == [authority |-> key.authority, prefix |-> key.path]

(* parse_auth_scope: the prefix of a scope always ends in a slash.         *)
ParseAuthScope(key) == [authority |-> key.authority, prefix |-> Append(TrimEnd(key.path), "/")]

PathIsWithinAuthScope(path, prefix) ==
    IsPrefix(prefix, path) \/ (prefix # <<"/">> /\ path = TrimEnd(prefix))

(* auth_token_for_url: the longest scope that covers the request.          *)
AuthTokenForUrl(config, url) ==
    LET covering == {s \in DOMAIN config.tokens :
                        s.authority = url.authority /\ PathIsWithinAuthScope(url.path, s.prefix)}
    IN  IF ~ParseHttpTarget(url) \/ covering = {} THEN NoToken
        ELSE config.tokens[CHOOSE s \in covering : \A t \in covering : Len(t.prefix) <= Len(s.prefix)]

RegistryForPackage(config, scope) ==
    IF scope \in DOMAIN config.scoped THEN config.scoped[scope] ELSE config.registry

(* expand_environment: every reference must be well formed and set.        *)
ExpandEnvironment(value, environment) ==
    IF \E i \in DOMAIN value : value[i].var /\ value[i].of \notin DOMAIN environment THEN Unset
    ELSE [i \in DOMAIN value |-> IF value[i].var THEN environment[value[i].of] ELSE value[i].of]

(* parse_number and parse_duration.  The value of a number is one piece.   *)
ParseNumber(text, least) == Len(text) = 1 /\ text[1] \in least .. 9

Insert(map, k, v) == [x \in DOMAIN map \cup {k} |-> IF x = k THEN v ELSE map[x]]

(* apply_value: the keys bpm knows; every other key is ignored.            *)
ApplyValue(config, key, text) ==
    CASE key.is = "token" ->
            IF text = <<>> THEN Failed
            ELSE [config EXCEPT !.tokens = Insert(@, ParseAuthScope(key), Last(text))]
      [] key.is = "retries" ->
            IF ParseNumber(text, 0) THEN [config EXCEPT !.network.retries = text[1]] ELSE Failed
      [] key.is \in {"factor", "min", "max", "timeout"} ->
            IF ParseNumber(text, 1) THEN [config EXCEPT !.network[key.is] = text[1]] ELSE Failed
      [] OTHER -> config

(* apply_value, for the registries, whose value is a url.                  *)
ApplyRegistry(config, key, url) ==
    LET registry == NormalizeRegistry(url)
    IN  IF registry = Failed THEN Failed
        ELSE IF key.is = "registry" THEN [config EXCEPT !.registry = registry]
        ELSE IF key.valid THEN [config EXCEPT !.scoped = Insert(@, key.scope, registry)]
        ELSE Failed

(* apply_source: line by line, up to the first that is wrong.              *)
ApplySource(config, npmrc, environment) ==
    LET Line(c, line) ==
            IF c.failed \/ line.key.is = "comment" THEN c
            ELSE IF line.key.is = "no equals" THEN Failed
            ELSE IF line.key.is \in {"registry", "scope"} THEN ApplyRegistry(c, line.key, line.url)
            ELSE LET text == ExpandEnvironment(line.value, environment)
                 IN  IF text = Unset THEN Failed ELSE ApplyValue(c, line.key, text)
    IN  FoldLeft(Line, config, npmrc)

Validate(config) ==
    IF config.failed \/ config.network.min > config.network.max THEN Failed ELSE config

(* Mutant: each file is validated as it is read. *)
LoadPathsEach(user, project, environment) ==
    LET first == Validate(ApplySource(Default, user, environment))
    IN  IF first.failed THEN Failed ELSE Validate(ApplySource(first, project, environment))

(* load_paths: a file that is missing is an empty one.                     *)
LoadPaths(user, project, environment) ==
    Validate(ApplySource(ApplySource(Default, user, environment), project, environment))
-----------------------------------------------------------------------------
(* The reference definition of a scope: a directory and what is below it.  *)
Under(path, directory) ==
    directory = <<>> \/ path = directory \/ IsPrefix(Append(directory, "/"), path)

(* auth_token_for_url: a token is sent exactly to the directory of its     *)
(* key and below it, to no sibling whose name only starts the same, and    *)
(* where several apply the one of the innermost directory goes, in the     *)
(* value its last line gave it.                                            *)
TokenScopeExact(npmrc, environment, url) ==
    LET config == ApplySource(Default, npmrc, environment)
        Applies(i) == npmrc[i].key.authority = url.authority /\ Under(url.path, TrimEnd(npmrc[i].key.path))
        covering == {i \in DOMAIN npmrc : Applies(i)}
        depth == [i \in covering |-> Len(TrimEnd(npmrc[i].key.path))]
        best == {i \in covering : \A j \in covering : depth[j] < depth[i] \/ (depth[j] = depth[i] /\ j <= i)}
    IN  ~config.failed =>
            AuthTokenForUrl(config, url) =
                IF covering = {} \/ url.userinfo THEN NoToken
                ELSE Last(ExpandEnvironment(npmrc[CHOOSE i \in best : TRUE].value, environment))

(* load_paths: every setting is the one of the last line that sets it, in  *)
(* the project's file before the user's; the configuration is refused      *)
(* exactly when a line is wrong or the merged bounds contradict, so that a *)
(* project can mend what the user's file alone would get wrong.            *)
LoadExact(user, project, environment, scope) ==
    LET lines == user \o project
        config == LoadPaths(user, project, environment)
        Sets(k) == {i \in DOMAIN lines : lines[i].key.is = k}
        Text(i) == ExpandEnvironment(lines[i].value, environment)
        Wrong(i) ==
            CASE lines[i].key.is = "comment" -> FALSE
              [] lines[i].key.is = "no equals" -> TRUE
              [] lines[i].key.is \in {"registry", "scope"} -> lines[i].url.userinfo \/ lines[i].url.query
              [] lines[i].key.is = "retries" -> Text(i) = Unset \/ ~ParseNumber(Text(i), 0)
              [] OTHER -> Text(i) = Unset \/ ~ParseNumber(Text(i), 1)
        Setting(k) == IF Sets(k) = {} THEN Default.network[k] ELSE Text(Max(Sets(k)))[1]
        own == {i \in Sets("scope") : lines[i].key.scope = scope}
        registry == IF own # {} THEN Max(own) ELSE IF Sets("registry") # {} THEN Max(Sets("registry")) ELSE 0
        served == RegistryForPackage(config, scope)
    IN  /\ config.failed <=> \/ \E i \in DOMAIN lines : Wrong(i)
                             \/ Setting("min") > Setting("max")
        /\ ~config.failed => /\ \A k \in DOMAIN Default.network : config.network[k] = Setting(k)
                             /\ served.authority = IF registry = 0 THEN Default.registry.authority
                                                   ELSE lines[registry].url.authority
=============================================================================
