------------------------------ MODULE Channel ------------------------------
(***************************************************************************)
(* What a transfer ring promises its two ends: a first-in first-out        *)
(* channel of bounded capacity that neither loses, repeats, alters nor     *)
(* reorders a message.  sent and got are the messages that went in and     *)
(* came out, oldest first.                                                 *)
(***************************************************************************)
EXTENDS Naturals, Sequences

CONSTANTS Messages, Capacity

VARIABLES sent, got

Init == sent = <<>> /\ got = <<>>

Put(m) ==
  /\ Len(sent) - Len(got) < Capacity
  /\ sent' = Append(sent, m)
  /\ got' = got

Get ==
  /\ Len(got) < Len(sent)
  /\ got' = Append(got, sent[Len(got) + 1])
  /\ sent' = sent

Next == Get \/ \E m \in Messages : Put(m)

Spec == Init /\ [][Next]_<<sent, got>>

=============================================================================
