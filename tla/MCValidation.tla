---------------------------- MODULE MCValidation ----------------------------
(* An instance of Validation for TLC. *)
EXTENDS Validation

MCDigest == <<122>>  \* 7a

=============================================================================
