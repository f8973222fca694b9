-------------------------- MODULE MCProviderSession --------------------------
(***************************************************************************)
(* Model checking of ProviderSession: two workers, two logins.             *)
(***************************************************************************)
EXTENDS ProviderSession
=============================================================================
