----------------------------- MODULE MCHarness -----------------------------
(* The harness with a short waiting loop.                                  *)
EXTENDS Harness
=============================================================================
