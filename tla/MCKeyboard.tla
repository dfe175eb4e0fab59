----------------------------- MODULE MCKeyboard -----------------------------
(* Two keys: one pressed at the worst moment of the boot and one after it. *)
EXTENDS Keyboard
=============================================================================
