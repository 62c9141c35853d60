--------------------------- MODULE ClientAddress ----------------------------
(***************************************************************************)
(* Whose address a request is counted under.  A request leaves a client    *)
(* with whatever X-Forwarded-For and X-Real-IP the client wrote, passes    *)
(* through proxies, each of which appends the address it received it from, *)
(* and reaches the service, which resolves one address for the rate        *)
(* limiters and for the /metrics allowlist.                                *)
(*                                                                         *)
(* The header is one comma-separated list (HeaderMap::get reads one line). *)
(* An entry is an address, something that does not parse as one, or text   *)
(* with a byte outside visible ASCII, which makes to_str() fail for the    *)
(* whole header.                                                           *)
(***************************************************************************)
EXTENDS Integers, Sequences

CONSTANTS
    Ip,             \* addresses
    Junk,           \* an entry that does not parse
    Opaque,         \* an entry with a byte outside visible ASCII
    Trusted,        \* TRUSTED_PROXY_IPS
    Loopback,       \* the loopback addresses
    MetricsAllowed, \* METRICS_ALLOWED_IPS
    MaxSent,        \* bound: entries the client writes itself
    MaxHops         \* bound: proxies on the way

(* The values the constants may have. *)
AddressConstants ==
    /\ Junk \notin Ip /\ Opaque \notin Ip
    /\ Trusted \subseteq Ip /\ Loopback \subseteq Ip /\ MetricsAllowed \subseteq Ip
    /\ MaxSent \in Nat /\ MaxHops \in Nat

Entry == Ip \cup {Junk, Opaque}

VARIABLES
    sent,           \* X-Forwarded-For as the client wrote it
    path,           \* the addresses the request has been sent from, in order
    forwarded,      \* X-Forwarded-For as it is now
    real,           \* X-Real-IP as it is now; Junk when absent
    resolved,       \* what resolve_client_ip returned; Junk until it did
    answer          \* of /metrics: "none", "served", "forbidden"

vars == <<sent, path, forwarded, real, resolved, answer>>

TypeOK ==
    /\ sent \in Seq(Entry)
    /\ path \in Seq(Ip) /\ path # <<>>
    /\ forwarded \in Seq(Entry)
    /\ real \in Entry
    /\ resolved \in Entry
    /\ answer \in {"none", "served", "forbidden"}
    /\ answer # "none" => resolved \in Ip

(* Mutant of the next definition: the first such entry. *)
Candidate_First(xff) ==
    CHOOSE k \in 1 .. Len(xff) :
        /\ xff[k] \in Ip \ Trusted
        /\ \A j \in 1 .. (k - 1) : xff[j] \notin Ip \ Trusted

(* position of the rightmost entry that parses and is not a trusted proxy *)
Candidate(xff) ==
    CHOOSE k \in 1 .. Len(xff) :
        /\ xff[k] \in Ip \ Trusted
        /\ \A j \in (k + 1) .. Len(xff) : xff[j] \notin Ip \ Trusted

(* whether to_str() succeeds; a header for which it fails counts as absent *)
Legible(xff) == \A k \in 1 .. Len(xff) : xff[k] # Opaque

resolve_client_ip(peer, xff, xreal) ==
    IF peer \notin Trusted THEN peer
    ELSE IF /\ Legible(xff)
            /\ \E k \in 1 .. Len(xff) : xff[k] \in Ip \ Trusted
         THEN xff[Candidate(xff)]
    ELSE IF xreal \in Ip THEN xreal
    ELSE peer

is_metrics_access_allowed(ip) ==
    \/ MetricsAllowed = {}
    \/ ip \in Loopback
    \/ ip \in MetricsAllowed

-----------------------------------------------------------------------------
Written == UNION {[1 .. n -> Entry] : n \in 0 .. MaxSent}

Init ==
    /\ sent \in Written
    /\ forwarded = sent
    /\ real \in Entry
    /\ \E client \in Ip : path = <<client>>
    /\ resolved = Junk
    /\ answer = "none"

Peer == path[Len(path)]

(***************************************************************************)
(* A proxy receives the request from Peer, appends that address, may set   *)
(* X-Real-IP to it, and sends the request on from its own address.         *)
(***************************************************************************)
Forward(proxy) ==
    /\ resolved = Junk
    /\ Len(path) <= MaxHops
    /\ forwarded' = Append(forwarded, Peer)
    /\ real' \in {real, Peer}
    /\ path' = Append(path, proxy)
    /\ UNCHANGED <<sent, resolved, answer>>

(* The service resolves the address (login, refresh, OAuth callback). *)
Resolve ==
    /\ resolved = Junk
    /\ resolved' = resolve_client_ip(Peer, forwarded, real)
    /\ UNCHANGED <<sent, path, forwarded, real, answer>>

(* metrics_ip_allowlist *)
Scrape ==
    /\ resolved = Junk
    /\ resolved' = resolve_client_ip(Peer, forwarded, real)
    /\ answer' = IF is_metrics_access_allowed(resolved') THEN "served" ELSE "forbidden"
    /\ UNCHANGED <<sent, path, forwarded, real>>

Next ==
    \/ \E proxy \in Ip : Forward(proxy)
    \/ Resolve
    \/ Scrape

Spec == Init /\ [][Next]_vars

-----------------------------------------------------------------------------
(* a is the last address on the way that is not a trusted proxy's *)
LastUntrusted(a) ==
    \E k \in 1 .. Len(path) :
        /\ path[k] = a
        /\ a \notin Trusted
        /\ \A j \in (k + 1) .. Len(path) : path[j] \in Trusted

(* What reaches the service tells it about a: a sent the request to it      *)
(* directly, or the list the proxies appended to can be read, or the       *)
(* proxies have X-Real-IP name a.                                          *)
Told(a) == Peer = a \/ Legible(forwarded) \/ real = a

(* "Walking right-to-left and returning the first entry that is NOT itself *)
(* a known trusted proxy finds the exact boundary" (net.rs).  A request is *)
(* counted under the last address on its way that is not a trusted proxy,  *)
(* whichever entries its client wrote into the list and however many       *)
(* proxies, trusted or not, it passed; and where the list cannot be read,  *)
(* still if the proxies have X-Real-IP name that address.                  *)
CountedUnderLastUntrusted ==
    \A a \in Ip : resolved # Junk /\ LastUntrusted(a) /\ Told(a) => resolved = a

(* /metrics answers a request that came from outside, and whose origin the *)
(* headers tell, only when the address it came from is listed (or is this  *)
(* machine's own), if there is a list.                                     *)
ScrapedByListed ==
    answer = "served" /\ MetricsAllowed # {} =>
        \A a \in Ip : LastUntrusted(a) /\ Told(a) => a \in MetricsAllowed \cup Loopback
=============================================================================
