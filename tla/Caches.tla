------------------------------- MODULE Caches -------------------------------
(***************************************************************************)
(* What a process remembers between requests: Google's keys, and the       *)
(* access tokens that are revoked when no Redis is configured.             *)
(***************************************************************************)
EXTENDS Integers, Sequences

CONSTANTS
    Login, Flawed, Headers, DefaultTtl, LongestTtl,     \* JwksCache
    Timeout, Lead, Linger, Life, MaxKey, JwksTime,
    Jti, Reader, Ttl, BlacklistTime                     \* MemoryBlacklist

VARIABLES
    clock, google, keys, logins, replied,               \* JwksCache
    stored, failed,
    now, entries, lookups, promised                     \* MemoryBlacklist

jwks == <<clock, google, keys, logins, replied, stored, failed>>
blacklist == <<now, entries, lookups, promised>>

Jwks == INSTANCE JwksCache WITH MaxTime <- JwksTime, now <- clock, cache <- keys

Blacklist == INSTANCE MemoryBlacklist WITH MaxTime <- BlacklistTime

ASSUME CacheConstants == Jwks!JwksConstants /\ Blacklist!BlacklistConstants

(* JwksCache!TokensJudged: while no fetch fails, a login is accepted        *)
(* exactly when its token is in order.                                      *)
TokensJudged == Jwks!TokensJudged

(* JwksCache!StaleOnlyOnFailure: keys past their lifetime are for logins    *)
(* whose own fetch failed, and then they are there.                         *)
StaleOnlyOnFailure == Jwks!StaleOnlyOnFailure

(* MemoryBlacklist!AnswersAreTrue: a lookup's answer is right although the  *)
(* entry may be replaced between its two locks.                             *)
AnswersAreTrue == [][Blacklist!AnswersTrue]_blacklist
=============================================================================
