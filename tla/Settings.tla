------------------------------ MODULE Settings ------------------------------
(***************************************************************************)
(* Settings::from_env and what the settings lead to: the connection sqlx   *)
(* opens to the database and the protocol the service is served with.      *)
(*                                                                         *)
(* A DATABASE_URL is its host and its query parameters, in order and with  *)
(* duplicates; a parameter that is taken out leaves its place in the order *)
(* empty.  The service inspects and rewrites the URL; sqlx then parses it  *)
(* again by its own rules, so the two must agree on what it says.          *)
(***************************************************************************)
EXTENDS Integers, Sequences

CONSTANTS
    Host,           \* database hosts
    Loopback,       \* those on this machine
    Query           \* lists of query parameters an operator may write

(* The values the constants may have. *)
UrlConstants ==
    /\ Host \subseteq STRING /\ Loopback \subseteq Host
    /\ Query \subseteq Seq([key : STRING, value : STRING])

VARIABLES
    env,            \* the environment of the process
    phase,          \* "start", "loaded", "connected", "serving", "failed",
                    \* "panicked"
    url,            \* settings.database_url, once they are loaded
    tls,            \* settings.tls_cert_path and tls_key_path
    warned,         \* whether the plaintext warning was logged
    conn,           \* the connection: "none", "plain", "tls", "verified"
    protocol        \* what is served: "none", "http", "https"

vars == <<env, phase, url, tls, warned, conn, protocol>>

Lower(mode) == IF mode = "DISABLE" THEN "disable" ELSE mode
Modes == {"disable", "allow", "prefer", "require", "verify-full"}
IsSslKey(pair) == pair.key \in {"sslmode", "ssl-mode"}

(* The places of a query's modes, and its other parameters. *)
SslKeys(query) == {i \in DOMAIN query : IsSslKey(query[i])}
Others(query) == [i \in DOMAIN query \ SslKeys(query) |-> query[i]]

Url == [host : Host, query : Query]

(* broken: DATABASE_URL is missing or does not parse, or a numeric variable *)
(* does not; serverTls: whether the database server offers TLS.            *)
Environment ==
    [flag : {"unset", "blank", "yes", "no", "typo"},
     cert : {"unset", "blank", "path"}, key : {"unset", "blank", "path"},
     url : Url,
     broken : {"nothing", "no url", "not a url", "not a number"},
     serverTls : BOOLEAN]

Blank == [cert |-> FALSE, key |-> FALSE]

Init ==
    /\ env \in Environment
    /\ phase = "start"
    /\ url = env.url
    /\ tls = Blank
    /\ warned = FALSE
    /\ conn = "none"
    /\ protocol = "none"

-----------------------------------------------------------------------------
(* Mutant of the next definition: the first occurrence. *)
extract_sslmode_First(u) ==
    LET places == SslKeys(u.query)
        first == CHOOSE i \in places : \A j \in places : i <= j
    IN  IF places = {} THEN "none" ELSE Lower(u.query[first].value)

(* the mode the URL asks for: the last occurrence of either key *)
extract_sslmode(u) ==
    LET places == SslKeys(u.query)
        last == CHOOSE i \in places : \A j \in places : j <= i
    IN  IF places = {} THEN "none" ELSE Lower(u.query[last].value)

(* the host of the URL proper, whatever its parameters say *)
db_host_is_loopback(u) == u.host \in Loopback

validate_database_ssl(u) ==
    extract_sslmode(u) = "disable" => db_host_is_loopback(u)

database_ssl_warning(u) ==
    ~db_host_is_loopback(u) /\ extract_sslmode(u) \in {"none", "prefer", "allow"}

VerifyFull == [key |-> "sslmode", value |-> "verify-full"]

force_sslmode_verify_full(u) ==
    LET rest == DOMAIN u.query \ SslKeys(u.query)
        last == Len(u.query) + 1
    IN  [u EXCEPT !.query =
            [i \in rest \union {last} |-> IF i = last THEN VerifyFull ELSE u.query[i]]]

(* DB_REQUIRE_SSL: "typo" stands for what is neither true nor false *)
FlagIsError == env.flag = "typo"
parse_required_ssl_flag == env.flag = "yes"

(* TLS_CERT_PATH and TLS_KEY_PATH: a blank value counts as unset *)
TlsIsError == (env.cert = "path") # (env.key = "path")
parse_tls_paths == [cert |-> env.cert = "path", key |-> env.key = "path"]

(***************************************************************************)
(* Settings::from_env.  Its checks are in order, but every one of them     *)
(* ends the process in the same way.                                       *)
(***************************************************************************)
Fail ==
    /\ phase' = "failed"
    /\ UNCHANGED <<env, url, tls, warned, conn, protocol>>

Rewritten ==
    IF parse_required_ssl_flag THEN force_sslmode_verify_full(env.url) ELSE env.url

Loads ==
    /\ ~FlagIsError
    /\ ~TlsIsError
    /\ env.broken \notin {"no url", "not a url"}
    /\ validate_database_ssl(Rewritten)
    /\ env.broken # "not a number"

from_env ==
    /\ phase = "start"
    /\ Loads
    /\ url' = Rewritten
    /\ warned' = database_ssl_warning(url')
    /\ tls' = parse_tls_paths
    /\ phase' = "loaded"
    /\ UNCHANGED <<env, conn, protocol>>

Rejected == phase = "start" /\ ~Loads /\ Fail

-----------------------------------------------------------------------------
(***************************************************************************)
(* sqlx opens the connection.  It takes the parameters in order, so that a *)
(* later mode replaces an earlier one, and rejects the URL when any of     *)
(* them is not a mode.  With allow it asks for plaintext first; prefer     *)
(* asks for TLS first and does without it; the others insist.  The last    *)
(* parameter that names a host replaces the one before the query.          *)
(***************************************************************************)
Effective(query) ==
    LET places == SslKeys(query)
        last == CHOOSE i \in places : \A j \in places : j <= i
    IN  IF \E i \in places : Lower(query[i].value) \notin Modes THEN "error"
        ELSE IF places = {} THEN "prefer"
        ELSE Lower(query[last].value)

Target(u) ==
    LET places == {i \in DOMAIN u.query : u.query[i].key \in {"host", "hostaddr"}}
        last == CHOOSE i \in places : \A j \in places : j <= i
    IN  IF places = {} THEN u.host ELSE u.query[last].value

Connect ==
    LET mode == Effective(url.query)
    IN  /\ phase = "loaded"
        /\ \/ /\ mode \in {"disable", "allow"} \/ (mode = "prefer" /\ ~env.serverTls)
              /\ conn' = "plain"
              /\ phase' = "connected"
           \/ /\ mode \in {"prefer", "require", "verify-full"} /\ env.serverTls
              /\ conn' = IF mode = "verify-full" THEN "verified" ELSE "tls"
              /\ phase' = "connected"
           \/ /\ mode = "error" \/ (mode \in {"require", "verify-full"} /\ ~env.serverTls)
              /\ conn' = conn
              /\ phase' = "failed"
        /\ UNCHANGED <<env, url, tls, warned, protocol>>

(* main: the third arm of its match is unreachable!() *)
Serve ==
    /\ phase = "connected"
    /\ \/ tls.cert /\ tls.key /\ protocol' = "https" /\ phase' = "serving"
       \/ ~tls.cert /\ ~tls.key /\ protocol' = "http" /\ phase' = "serving"
       \/ tls.cert # tls.key /\ protocol' = protocol /\ phase' = "panicked"
    /\ UNCHANGED <<env, url, tls, warned, conn>>

Next == from_env \/ Rejected \/ Connect \/ Serve

(* a process that was told to stop stays stopped; any other has a step to take *)
Done == phase \in {"serving", "failed", "panicked"} /\ UNCHANGED vars

Spec == Init /\ [][Next \/ Done]_vars

-----------------------------------------------------------------------------
(* Nothing goes over the network in plain text without the operator's      *)
(* knowing.  With DB_REQUIRE_SSL on, "the 'always encrypt and verify'       *)
(* requirement [is] effective regardless of what the connection string     *)
(* itself says", and the rest of the string is as it was.  Without it, what *)
(* sqlx makes of a URL with several sslmode keys is never a plaintext      *)
(* connection to another machine that was asked for, or not warned about,  *)
(* as long as no parameter sends sqlx to another host than the one before  *)
(* the query, which is the one the service looks at.                       *)
(* Whoever named a certificate or a key is served HTTPS or nothing         *)
(* ("silently serving plaintext while the operator believes HTTPS is on     *)
(* would be worse than failing to start"), and main's unreachable!() is.   *)
NoSilentPlaintext ==
    /\ env.flag = "yes" /\ phase \in {"connected", "serving"} =>
        /\ conn = "verified"
        /\ url.host = env.url.host
        /\ Others(url.query) = Others(env.url.query)
    /\ conn = "plain" /\ Target(url) = url.host /\ Target(url) \notin Loopback =>
        warned /\ Effective(url.query) # "disable"
    /\ phase = "serving" /\ "path" \in {env.cert, env.key} => protocol = "https"
    /\ phase # "panicked"
=============================================================================
