---------------------------- MODULE AuthSettings ----------------------------
(***************************************************************************)
(* The authentication settings read from the environment at startup        *)
(* (crates/auth/src/config/auth_settings.rs): the validators and the order *)
(* in which AuthSettings::from_env applies them.                           *)
(*                                                                         *)
(* A numeric variable is an integer, or Unset, or Malformed (a value that  *)
(* does not parse).  A secret is its length in bytes and its number of     *)
(* distinct characters; the default user's password is its length, whether *)
(* it is on the list of known weak passwords, and how many of the four     *)
(* character classes it uses.  The texts themselves do not matter.         *)
(***************************************************************************)
EXTENDS Integers

CONSTANTS
    MinCost, MaxCost,    \* MIN_BCRYPT_COST, MAX_BCRYPT_COST
    DefaultCost,         \* DEFAULT_BCRYPT_COST
    MaxConcurrent,       \* MAX_BCRYPT_MAX_CONCURRENT
    DefaultConcurrent,   \* DEFAULT_BCRYPT_MAX_CONCURRENT
    MaxPermits,          \* tokio's Semaphore::MAX_PERMITS
    MinSecret,           \* MIN_JWT_SECRET_LEN
    MinUnique,           \* MIN_UNIQUE_CHARS
    MinPassword          \* MIN_DEFAULT_PASSWORD_LEN

(* The values the constants may have. *)
SettingsConstants ==
    /\ MinCost \in Nat /\ MaxCost \in Nat /\ DefaultCost \in MinCost .. MaxCost
    /\ DefaultConcurrent \in 1 .. MaxConcurrent
    /\ MaxConcurrent \in Nat /\ MaxPermits \in Nat /\ MaxConcurrent < MaxPermits
    /\ MinSecret \in Nat /\ MinUnique \in Nat /\ MinPassword \in Nat

Unset == -1
Malformed == -2

validate_bcrypt_cost(cost) == cost >= MinCost /\ cost <= MaxCost

validate_bcrypt_max_concurrent(value) == value # 0 /\ value <= MaxConcurrent

validate_jwt_secret(secret) ==
    secret.len >= MinSecret /\ secret.unique >= MinUnique

validate_default_user_password(password) ==
    /\ password.len >= MinPassword
    /\ ~password.weak
    /\ password.classes >= 3

(***************************************************************************)
(* A variable that is not set takes its default; one that does not parse   *)
(* is an error, which Numeric reports by the value Malformed.              *)
(***************************************************************************)
Numeric(raw, default) == IF raw = Unset THEN default ELSE raw

(***************************************************************************)
(* Whether AuthSettings::from_env returns Ok.  Absent secrets are records  *)
(* with length Unset: the variable must be set.                            *)
(***************************************************************************)
AuthLoads(e) ==
    LET permits == Numeric(e.permits, DefaultConcurrent)
        cost    == Numeric(e.cost, DefaultCost)
    IN  /\ permits # Malformed /\ validate_bcrypt_max_concurrent(permits)
        /\ e.password.len # Unset /\ validate_default_user_password(e.password)
        /\ e.secret.len # Unset /\ validate_jwt_secret(e.secret)
        /\ e.expiry # Malformed
        /\ cost # Malformed /\ validate_bcrypt_cost(cost)

=============================================================================
