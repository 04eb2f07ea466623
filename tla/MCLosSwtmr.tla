----------------------------- MODULE MCLosSwtmr -----------------------------
(* Two timers; each block has two identifiers, so that a one-shot timer's comes round again. *)
EXTENDS LosSwtmr
=============================================================================
