----------------------------- MODULE MCSession -----------------------------
(***************************************************************************)
(* Session for TLC: two addresses and three starts, so that a session can  *)
(* fail, be restarted on top of its remains with another address, be       *)
(* stopped and started again.                                              *)
(***************************************************************************)
EXTENDS Session

=============================================================================
