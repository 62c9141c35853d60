----------------------------- MODULE Throttling -----------------------------
(***************************************************************************)
(* What decides whether one process lets a request through: the address it *)
(* is counted under, and the limiter in memory.                            *)
(***************************************************************************)
EXTENDS MemoryRateLimiter, Sequences

CONSTANTS
    Address, Junk, Opaque, Trusted, Loopback,       \* ClientAddress
    MetricsAllowed, MaxSent, MaxHops

VARIABLES
    sent, path, forwarded, real, resolved, scraped  \* ClientAddress

Addresses == INSTANCE ClientAddress WITH Ip <- Address, answer <- scraped

ASSUME ThrottlingConstants ==
    LimiterConstants /\ Ip # {} /\ Addresses!AddressConstants

(* ClientAddress!CountedUnderLastUntrusted: a request is counted under the  *)
(* last address on its way that is not a trusted proxy's, whichever entries *)
(* its client wrote, as long as the headers that arrive tell of it.         *)
CountedUnderLastUntrusted == Addresses!CountedUnderLastUntrusted

(* ClientAddress!ScrapedByListed: of the requests from outside whose origin *)
(* the headers tell, /metrics answers only those on its list, if there is   *)
(* one.                                                                     *)
ScrapedByListed == Addresses!ScrapedByListed
=============================================================================
