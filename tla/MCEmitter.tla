------------------------------ MODULE MCEmitter ----------------------------
(* Small instances of Emitter for TLC. *)
EXTENDS Emitter
=============================================================================
