----------------------------- MODULE BcryptWork -----------------------------
(***************************************************************************)
(* What the process does with bcrypt: run_bounded decides which work runs, *)
(* and verify_password_timing_safe is the work of a login.                 *)
(***************************************************************************)
EXTENDS BcryptLimiter

CONSTANTS
    Thread,                     \* blocking threads that verify a password
    Cost, Cheapest, Dearest     \* the configured cost, the costs bcrypt accepts

VARIABLES dummies, verifying    \* PasswordVerification

Passwords == INSTANCE PasswordVerification WITH
    MinCost <- Cheapest, MaxCost <- Dearest, cache <- dummies, threads <- verifying

ASSUME PasswordConstants == Passwords!CostConstants

(* PasswordVerification!EqualWork: a login costs the same bcrypt work       *)
(* whether or not its user exists, and only a stored hash lets it in.       *)
EqualWork == Passwords!EqualWork
=============================================================================
