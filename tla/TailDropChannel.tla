-------------------------- MODULE TailDropChannel --------------------------
(***************************************************************************)
(* What the transmit path promises the network stack: packets, numbered as *)
(* they are accepted, come out in that order, up to Batch at a time, or    *)
(* are lost.  Only the newest of those on their way are lost, together; a  *)
(* packet is in one place: on its way, out, or lost for good.              *)
(***************************************************************************)
EXTENDS Naturals, Sequences

CONSTANT Batch     \* packets that come out together at most

VARIABLES
  sent,            \* the number of packets accepted
  pending,         \* the packets on their way
  got, lost        \* the packets that came out, in order; the ones lost

Before(S, T)  == \A x \in S, y \in T : x < y
Elements(s)   == {s[k] : k \in DOMAIN s}
Ascending(s)  == \A j, k \in DOMAIN s : j < k => s[j] < s[k]
Newest(S)     == S \subseteq pending /\ Before(pending \ S, S)

Init == sent = 0 /\ pending = {} /\ got = <<>> /\ lost = {}

(* A packet is accepted, and some of the ones before it may be lost.       *)
Put(S) ==
  /\ Newest(S)
  /\ sent' = sent + 1
  /\ pending' = (pending \ S) \cup {sent + 1}
  /\ lost' = lost \cup S
  /\ got' = got

Lose(S) ==
  /\ Newest(S)
  /\ pending' = pending \ S
  /\ lost' = lost \cup S
  /\ UNCHANGED <<sent, got>>

Get(s) ==
  /\ Ascending(s)
  /\ Before(Elements(s), pending \ Elements(s))
  /\ pending' = pending \ Elements(s)
  /\ got' = got \o s
  /\ UNCHANGED <<sent, lost>>

Next ==
  \/ \E S \in SUBSET pending : Put(S) \/ Lose(S)
  \/ \E n \in 0 .. Batch : \E s \in [1 .. n -> pending] : Get(s)

Spec == Init /\ [][Next]_<<sent, pending, got, lost>>

(* Every packet accepted is in one place.                                  *)
OnePlace ==
  /\ pending \cup Elements(got) \cup lost = 1 .. sent
  /\ pending \cap Elements(got) = {} /\ pending \cap lost = {} /\ Elements(got) \cap lost = {}

=============================================================================
