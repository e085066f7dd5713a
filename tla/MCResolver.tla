----------------------------- MODULE MCResolver -----------------------------
(* Resolver with the background goroutine and one goroutine that looks up. *)
EXTENDS Resolver
=============================================================================
