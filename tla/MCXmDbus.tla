------------------------------ MODULE MCXmDbus -----------------------------
(***************************************************************************)
(* XmDbus for TLC: three calls, two addresses, up to three profiles.       *)
(***************************************************************************)
EXTENDS XmDbus

=============================================================================
