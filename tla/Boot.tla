-------------------------------- MODULE Boot --------------------------------
(***************************************************************************)
(* How a process gets from its environment to serving: instances that      *)
(* start together over one database, and the database URL and TLS paths    *)
(* each of them reads.                                                     *)
(***************************************************************************)
EXTENDS Integers, Sequences

CONSTANTS
    Instance, Env, MaxFaults,                       \* Startup
    MinCost, MaxCost, DefaultCost,
    MaxConfigured, DefaultConcurrent, MaxPermits,
    MinSecret, MinUnique, MinPassword,
    Host, Loopback, Query                           \* Settings

VARIABLES
    stage, env, backend, applied, index, older,     \* Startup
    holder, locals, redisUp, faults,
    setup, phase, url, tls, warned, conn, protocol  \* Settings

startup == <<stage, env, backend, applied, index, older, holder, locals, redisUp, faults>>
settings == <<setup, phase, url, tls, warned, conn, protocol>>

Boots == INSTANCE Startup WITH MaxConcurrent <- MaxConfigured, pc <- stage

Urls == INSTANCE Settings WITH env <- setup

ASSUME BootConstants == Boots!StartupConstants /\ Urls!UrlConstants

(* Startup!ReadyWhenServing: whoever serves finds every migration applied,  *)
(* a usable index and a default user, and the backends it was told to use.  *)
ReadyWhenServing == Boots!ReadyWhenServing

(* Startup!ExitsForCause: instances that start together make each other     *)
(* exit only while 011 builds its index for one with another at the lock,   *)
(* or where both insert the default user.                                   *)
ExitsForCause == [][Boots!ExitHasCause]_startup

(* Settings!NoSilentPlaintext: nothing goes over the network in plain text  *)
(* without the operator's knowing, to the host the URL names before its     *)
(* query; with DB_REQUIRE_SSL, to any host.                                 *)
NoSilentPlaintext == Urls!NoSilentPlaintext
=============================================================================
