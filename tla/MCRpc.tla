------------------------------- MODULE MCRpc -------------------------------
(***************************************************************************)
(* Rpc for TLC: permission to attach is given, withdrawn and given again,  *)
(* and get_ip is tried twice; and the bytes of the conversation.  What     *)
(* holds of a format for all bounded inputs is a constant, one for each    *)
(* call or outcome; the invariants say when the conversation relies on it. *)
(***************************************************************************)
EXTENDS Rpc

Calls == {Script[k] : k \in {k \in DOMAIN Script : IsCall(k)}} \ {"UtaRPCPSConnectSetupReq"}

RequestRead ==
  [call \in Calls |->
     \A r \in Requests(call, Apns) :
       /\ Packs(r.fmt, r.args)
       /\ UnpackUnknown(Pack(r.fmt, r.args)) = [ok |-> TRUE, val |-> r.args]]

ReadAs(r, s) ==
  r.ok /\ Len(r.val) = 2 /\ r.val[1] = Payload(s.val, s.size) /\ r.val[2] = 513
StringsRead ==
  \A s \in Strings :
    ReadAs(UnpackUnknown(Pack(<<[ch |-> "s", size |-> s.size, len |-> s.len], Num("H")>>,
                              <<s.val, 513>>)), s)

(* Every request under way to the modem - the longest has 131 fields - was *)
(* packed without an exception and decodes, by rpc.py's own decoder, into  *)
(* the fields it was built from; so do strings of one, two and four byte   *)
(* elements at the lengths where the length field grows.  (Lengths above   *)
(* 255 are only read back when their two bytes are equal, as those of the  *)
(* 257 bytes of the APN request: _pack_string and take_string disagree on  *)
(* the byte order.)                                                        *)
PackedIsRead ==
  /\ \A k \in DOMAIN requests :
       requests[k].call # Setup => RequestRead[Script[requests[k].call]]
  /\ StringsRead

\* The answers as the client gets them, and the spliced request as it is read.
Connected(p)  == HandleMessage(Response(1, p.fmt, p.args, TRUE))
Channelled(q) == HandleMessage(Response(1, q.fmt, q.args, FALSE))
Sent(pscr, dcr) == HandleMessage(Request(1, Splice(pscr.body, dcr.body), FALSE))
Arrives(m) == m.ok /\ m.type = "response"
Has(m, fields) == m.ok /\ m.content = fields

Spliced ==
  /\ \A p \in Connects : Arrives(Connected(p))
  /\ \A q \in Channels : Arrives(Channelled(q))
  /\ \A p \in Connects, q \in Channels :
       Has(Sent(Connected(p), Channelled(q)), Front(p.args) \o q.args \o <<0>>)

(* The connect request under way is cut and spliced at field boundaries:   *)
(* handed over by handle_message, which strips the transaction id from the *)
(* body of an asynchronous answer by its size, the two answers give a      *)
(* request whose fields are all of the first answer's but the last, then   *)
(* all of the second's, then 0.                                            *)
SetupIsSpliced == \A k \in DOMAIN requests : requests[k].call = Setup => Spliced

\* get_ip's two answers as the client gets them; with an address or without.
Got(v4, half6, servers) ==
  get_ip(HandleMessage(IpAnswer(1, v4, half6)).body, HandleMessage(DnsAnswer(1, servers)).body)
ServersOf(servers, typ) ==
  LET used == SelectSeq(servers, LAMBDA s : s.typ = typ /\ ~IsZero(s.a))
  IN [k \in DOMAIN used |-> used[k].a]
Right(got, v4, servers) ==
  /\ got.addr = v4
  /\ CleanDns(got.v4) = ServersOf(servers, 1) /\ CleanDns(got.v6) = ServersOf(servers, 2)

AnswersRead ==
  [found \in BOOLEAN |->
     IF found THEN \A servers \in Servers, v4 \in {v4 \in V4s : ~IsZero(v4)}, half6 \in Halves :
                     Right(Got(v4, half6, servers), v4, servers)
              ELSE Got(Zeros(4), <<>>, <<>>).addr = NoAddress]

(* When the answers that make up get_ip's result are in, an address in     *)
(* them is found, alone or behind half of an IPv6 address (the comment in  *)
(* get_ip), and the servers that the script applies are those of the       *)
(* answer, in order, without the all-zero ones; without an address nothing *)
(* is found and the loop goes round.                                       *)
IpConfigRead ==
  at = GetDns => \A k \in Responses : AnswersRead[inbox[k].val]

=============================================================================
