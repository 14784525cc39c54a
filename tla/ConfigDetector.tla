--------------------------- MODULE ConfigDetector ---------------------------
(***************************************************************************)
(* The base URL and the kind of authentication of the API a client is      *)
(* generated for (config_detector.py): .env files, by directory and by     *)
(* file name in order of priority, then the Python files, then what the    *)
(* user said.                                                              *)
(*                                                                         *)
(* A line of an .env file is [k |-> "url", http, v], [k |-> "port", v],    *)
(* [k |-> "auth", type, var] or anything else; a file's "hints" are the    *)
(* kinds of authentication whose library names occur in it.                *)
(***************************************************************************)
EXTENDS Repository

NoConfig == [url |-> "", port |-> "", auth |-> "none", var |-> ""]

\* Mutation of ReadLine: a later file overrides the auth of an earlier one.
ReadLineLast(config, line) ==
    CASE line.k = "url"  -> IF config.url = "" /\ line.http THEN [config EXCEPT !.url = line.v] ELSE config
      [] line.k = "port" -> IF config.port = "" THEN [config EXCEPT !.port = line.v] ELSE config
      [] line.k = "auth" -> [config EXCEPT !.auth = line.type, !.var = line.var]
      [] OTHER -> config

\* _scan_env_files over one line
ReadLine(config, line) ==
    CASE line.k = "url"  -> IF config.url = "" /\ line.http THEN [config EXCEPT !.url = line.v] ELSE config
      [] line.k = "port" -> IF config.port = "" THEN [config EXCEPT !.port = line.v] ELSE config
      [] line.k = "auth" -> IF config.auth = "none"
                              THEN [config EXCEPT !.auth = line.type, !.var = line.var] ELSE config
      [] OTHER -> config

\* _scan_code_auth: the first file with a pattern, bearer before api_key.
CodeAuth ==
    LET i == SelectInSeq(Files, LAMBDA f : f.hints # {})
    IN  IF i = 0 THEN "none" ELSE IF "bearer" \in Files[i].hints THEN "bearer" ELSE "api_key"

\* detect_config
Detected ==
    LET env == FoldLeft(ReadLine, NoConfig, FlattenSeq(repo.env))
    IN  [env EXCEPT !.auth = IF @ = "none" THEN CodeAuth ELSE @,
                    !.url = IF @ = "" /\ env.port # "" THEN "localhost:" \o env.port ELSE @]

AuthTypes == {"none", "bearer", "api_key"}   \* of the types a user may name, those used here

\* get_base_url, merge_config: a type that is not one is ignored.
MergedConfig(found, user) ==
    [url  |-> IF user.url # "" THEN user.url ELSE found.url,
     auth |-> IF user.auth \in AuthTypes THEN user.auth ELSE found.auth,
     var  |-> IF user.var # "" THEN user.var ELSE found.var]

-----------------------------------------------------------------------------
(* What the settings of a client must be, said without the scan.           *)

Lines == FlattenSeq(repo.env)
First(Test(_)) == SelectInSeq(Lines, Test)

\* The user's word, else the first usable line in order of priority.  A secret
\* found in a file is only used with the kind of authentication it was found
\* for, unless the user names another kind and no secret.
ConfigRight(config) ==
    LET url  == First(LAMBDA l : l.k = "url" /\ l.http)
        port == First(LAMBDA l : l.k = "port")
        auth == First(LAMBDA l : l.k = "auth")
    IN  /\ config.url = IF repo.user.url # "" THEN repo.user.url
                        ELSE IF url # 0 THEN Lines[url].v
                        ELSE IF port # 0 THEN "localhost:" \o Lines[port].v ELSE ""
        /\ repo.user.auth \in AuthTypes => config.auth = repo.user.auth
        /\ repo.user.auth \notin AuthTypes /\ auth # 0 => config.auth = Lines[auth].type
        /\ repo.user.var = "" => config.var = IF auth # 0 THEN Lines[auth].var ELSE ""
        /\ repo.user.var # "" => config.var = repo.user.var
=============================================================================
