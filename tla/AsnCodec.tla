------------------------------ MODULE AsnCodec ------------------------------
(***************************************************************************)
(* The byte format of the RPC messages: rpc.py's encoder (pack), its       *)
(* decoders (unpack, unpack_unknown), the framing of execute and           *)
(* handle_message, and what the bring-up makes of the answers byte by byte:*)
(* get_ip and the request that is spliced out of two others.               *)
(*                                                                         *)
(* A message is a sequence of bytes.  A Python exception (an assertion, a  *)
(* pop from an empty bytearray, an unknown type) is a result with ok FALSE.*)
(* A decoded string is its sequence of bytes, a decoded integer a number.  *)
(***************************************************************************)
EXTENDS Integers, Sequences, SequencesExt, FiniteSetsExt

SYNC_TID  == 285212928   \* 0x11000100
ASYNC_TID == 285212929   \* 0x11000101

\* struct.pack with '>', and the two ways of reading bytes as a number.
Power256(k)     == <<1, 256, 65536, 16777216>>[k + 1]
Bytes(n, v)     == [i \in 1 .. n |-> (v \div Power256(n - i)) % 256]
BigEndian(s)    == LET upto[k \in 0 .. Len(s)] == IF k = 0 THEN 0 ELSE 256 * upto[k - 1] + s[k]
                   IN upto[Len(s)]
LittleEndian(s) == BigEndian(Reverse(s))
Zeros(n)        == [i \in 1 .. n |-> 0]

-----------------------------------------------------------------------------
(* pack: a format item is [ch, size, len]; only strings use size and len.  *)

AsnInt(n, v) == <<2, n>> \o Bytes(n, v)
asn_int4(v)  == AsnInt(4, v)

(* Broken variant: a length of 128 is still written as one byte.           *)
ValidFieldShort(valid) ==
  IF valid <= 128 THEN <<valid>>
  ELSE LET n == Min({k \in 1 .. 3 : valid < Power256(k)}) IN <<128 + n>> \o Bytes(n, valid)

(* The number of elements: one byte, or 0x80 + n and n bytes.              *)
ValidField(valid) ==
  IF valid < 128 THEN <<valid>>
  ELSE LET n == Min({k \in 1 .. 3 : valid < Power256(k)}) IN <<128 + n>> \o Bytes(n, valid)

\* struct.pack of the elements, least significant byte first.
Payload(val, size) ==
  [k \in 1 .. size * Len(val) |-> (val[(k - 1) \div size + 1] \div Power256((k - 1) % size)) % 256]

(* _pack_string                                                            *)
PackString(val, f) ==
  LET padding == (f.len - Len(val)) * f.size
  IN  <<CASE f.size = 1 -> 85 [] f.size = 2 -> 86 [] f.size = 4 -> 87>>
      \o ValidField(Len(val))
      \o asn_int4(f.len * f.size) \o asn_int4(padding)
      \o Payload(val, f.size)
      \o Zeros(padding)

PackField(f, val) ==
  CASE f.ch = "B" -> AsnInt(1, val)
    [] f.ch = "H" -> AsnInt(2, val)
    [] f.ch = "L" -> asn_int4(val)
    [] f.ch = "s" -> PackString(val, f)

(* pack raises unless there is one argument per item and it fits.          *)
Packs(fmt, args) ==
  /\ Len(fmt) = Len(args)
  /\ \A k \in DOMAIN fmt : fmt[k].ch = "s" => Len(args[k]) <= fmt[k].len

Pack(fmt, args) ==
  LET out[k \in 0 .. Len(fmt)] ==
        IF k = 0 THEN <<>> ELSE out[k - 1] \o PackField(fmt[k], args[k])
  IN out[Len(fmt)]

\* Format items.
Num(ch)    == [ch |-> ch, size |-> 0, len |-> 0]
Str(len)   == [ch |-> "s", size |-> 1, len |-> len]
Times(n, x) == [k \in 1 .. n |-> x]

-----------------------------------------------------------------------------
(* The decoders, at position i of the bytes d.                             *)

Fails == [ok |-> FALSE, val |-> <<>>, next |-> 0]

(* take_asn_int                                                            *)
TakeAsnInt(d, i) ==
  IF i + 1 <= Len(d) /\ d[i] = 2 /\ i + 1 + d[i + 1] <= Len(d)
  THEN [ok |-> TRUE, val |-> BigEndian(SubSeq(d, i + 2, i + 1 + d[i + 1])),
        next |-> i + 2 + d[i + 1]]
  ELSE Fails

(* take_string's first half: the length in bytes.  More than 127 elements  *)
(* are announced by 0x80 and a byte count, least significant byte first,   *)
(* which is not the order of _pack_string.                                 *)
ElemSize(type) == CASE type = 85 -> 1 [] type = 86 -> 2 [] type = 87 -> 4
TakeValid(d, i) ==
  LET n == IF d[i + 1] >= 128 THEN d[i + 1] % 16 ELSE 0
  IN IF i + 1 > Len(d) \/ i + 1 + n > Len(d) THEN Fails
     ELSE [ok |-> TRUE, next |-> i + 2 + n,
           val |-> ElemSize(d[i]) * (IF d[i + 1] < 128 THEN d[i + 1]
                                     ELSE LittleEndian(SubSeq(d, i + 2, i + 1 + n)))]

(* take_string: the length v, the count c and the padding p, which have to *)
(* agree unless the count is 0, then the payload and the padding itself.   *)
StringPayload(d, v, c, p) ==
  IF ~p.ok \/ (c.val # 0 /\ c.val # v.val + p.val) \/ p.next + v.val + p.val > Len(d) + 1
  THEN Fails
  ELSE [ok |-> TRUE, val |-> SubSeq(d, p.next, p.next + v.val - 1),
        next |-> p.next + v.val + p.val]
StringPadding(d, v, c) ==
  IF c.ok THEN StringPayload(d, v, c, TakeAsnInt(d, c.next)) ELSE Fails
StringCount(d, v) == IF v.ok THEN StringPadding(d, v, TakeAsnInt(d, v.next)) ELSE Fails
TakeString(d, i) ==
  IF i <= Len(d) /\ d[i] \in {85, 86, 87} THEN StringCount(d, TakeValid(d, i)) ELSE Fails

(* unpack: the fields that fmt asks for; whatever follows is ignored.      *)
WithField(acc, f) ==
  IF acc.ok /\ f.ok THEN [ok |-> TRUE, val |-> Append(acc.val, f.val), next |-> f.next]
                    ELSE Fails
Unpack(fmt, d) ==
  FoldLeft(LAMBDA acc, ch : WithField(acc, IF ch = "n" THEN TakeAsnInt(d, acc.next)
                                                     ELSE TakeString(d, acc.next)),
           [ok |-> TRUE, val |-> <<>>, next |-> 1], fmt)

(* unpack_unknown: fields by their own type, to the end of the data.       *)
TakeField(d, i) == IF d[i] = 2 THEN TakeAsnInt(d, i) ELSE TakeString(d, i)
UnpackUnknown(d) ==
  LET from[i \in 1 .. Len(d) + 1] ==
        IF i = Len(d) + 1 THEN [ok |-> TRUE, val |-> <<>>]
        ELSE LET f    == TakeField(d, i)
                 rest == from[f.next]
             IN  IF f.ok THEN [ok |-> rest.ok, val |-> <<f.val>> \o rest.val]
                         ELSE [ok |-> FALSE, val |-> <<>>]
  IN from[1]

-----------------------------------------------------------------------------
(* Framing: what execute writes in front of a body, and handle_message.    *)

Frame(code, txid, body) ==
  LET length == Len(body) + 16
  IN  Reverse(Bytes(4, length)) \o asn_int4(length) \o asn_int4(code) \o Bytes(4, txid) \o body

(* execute: an asynchronous request carries its transaction id once more,  *)
(* as the first field.                                                     *)
Request(cmd, body, is_async) ==
  IF is_async THEN Frame(cmd, ASYNC_TID, asn_int4(ASYNC_TID) \o body)
              ELSE Frame(cmd, SYNC_TID, body)

(* Broken variant: an acknowledgement is taken for the response.           *)
TypeOfNoAck(m) ==
  IF m.txid - (m.txid % 256) = SYNC_TID THEN "response" ELSE "unsolicited"

(* handle_message: what a message is, by its txid and its code.            *)
TypeOf(m) ==
  IF m.txid = SYNC_TID THEN "response"
  ELSE IF m.txid - (m.txid % 256) = SYNC_TID
       THEN IF m.code >= 2000 THEN "async_ack" ELSE "response"
       ELSE "unsolicited"

(* handle_message; the mismatch of the two lengths is only reported.  The  *)
(* asynchronous response starts with its transaction id, which is removed. *)
Handled(m, code, txid, body, content) ==
  LET type  == TypeOf([txid |-> txid, code |-> code])
      strip == type = "response" /\ txid # SYNC_TID
  IN [ok |-> /\ Len(m) >= 20 /\ m[5] = 2 /\ m[6] = 4 /\ m[11] = 2 /\ m[12] = 4
             /\ content.ok
             /\ strip => content.val # <<>> /\ content.val[1] = txid,
      type |-> type, code |-> code,
      body |-> IF strip THEN SubSeq(body, 7, Len(body)) ELSE body,
      content |-> IF strip THEN Tail(content.val) ELSE content.val]
HandleMessage(m) ==
  Handled(m, BigEndian(SubSeq(m, 13, 16)), BigEndian(SubSeq(m, 17, 20)),
          SubSeq(m, 21, Len(m)), UnpackUnknown(SubSeq(m, 21, Len(m))))

-----------------------------------------------------------------------------
(* The requests of the bring-up.                                           *)

(* One of the four blocks of UtaMsCallPsAttachApnConfigReq: its types, and *)
(* its arguments for flags (seven of the numbers) and an APN string.       *)
ApnTypes(last) ==
  <<Str(260), Num("L"), Str(66), Str(65), Str(250), Num("B"), Str(252), Num("H")>>
  \o Times(21, Num("L")) \o <<Str(20), Num("L"), Str(last)>>
ApnArgs(flag, kind, apn_string) ==
  <<Zeros(257), 0, Zeros(65), Zeros(65), Zeros(250), 0, Zeros(250), 0>>
  \o (<<0, 0, 0, 0, flag>> \o Zeros(7) \o <<flag, 0, 0, 1028 * flag, flag, 0, flag, 0, 0>>)
  \o <<Zeros(20), kind, apn_string>>

(* apn_string is a bytearray(101) whose front is overwritten by the APN.   *)
ApnConfigTypes == <<Num("B")>> \o ApnTypes(104) \o ApnTypes(104) \o ApnTypes(104)
                  \o ApnTypes(103) \o <<Num("B"), Num("L")>>
ApnConfigArgs(apn) ==
  LET apn_string == apn \o Zeros(Max({0, 101 - Len(apn)}))
  IN <<0>> \o ApnArgs(0, 0, Zeros(101)) \o ApnArgs(0, 0, Zeros(101))
           \o ApnArgs(1, 3, apn_string) \o ApnArgs(1, 3, apn_string) \o <<3, 0>>

Nums(chs) == [k \in DOMAIN chs |-> Num(chs[k])]

(* The bodies that are packed for the calls, and the one of execute's      *)
(* default, asn_int4(0).                                                   *)
Body(fmt, args) == [fmt |-> fmt, args |-> args]
pack_UtaMsCallPsAttachApnConfigReq(apn) == Body(ApnConfigTypes, ApnConfigArgs(apn))
pack_UtaMsNetAttachReq ==
  Body(Nums(<<"B", "L", "L", "L", "L", "H", "H", "L", "L">>), <<0, 0, 0, 0, 0, 65535, 65535, 0, 0>>)
pack_UtaMsCallPsGetNegIpAddrReq      == Body(Nums(<<"B", "L", "L">>), <<0, 0, 0>>)
pack_UtaMsCallPsGetNegotiatedDnsReq  == Body(Nums(<<"B", "L", "L">>), <<0, 0, 0>>)
pack_UtaMsCallPsConnectReq           == Body(Nums(<<"B", "L", "L", "L">>), <<0, 6, 0, 0>>)
pack_UtaRPCPsConnectToDatachannelReq == Body(<<Str(24)>>, <<Times(23, 47) \o <<0>> >>)
ModeSetBody                          == Body(Nums(<<"L", "L", "L">>), <<0, 15, 1>>)
VerChallengeBody                     == Body(Nums(<<"L">>), <<123456789>>)
DefaultBody                          == Body(Nums(<<"L">>), <<0>>)

Requests(call, apns) ==
  CASE call = "UtaMsCallPsAttachApnConfigReq" ->
         {pack_UtaMsCallPsAttachApnConfigReq(apn) : apn \in apns}
    [] call = "UtaMsNetAttachReq"               -> {pack_UtaMsNetAttachReq}
    [] call = "UtaMsCallPsGetNegIpAddrReq"      -> {pack_UtaMsCallPsGetNegIpAddrReq}
    [] call = "UtaMsCallPsGetNegotiatedDnsReq"  -> {pack_UtaMsCallPsGetNegotiatedDnsReq}
    [] call = "UtaMsCallPsConnectReq"           -> {pack_UtaMsCallPsConnectReq}
    [] call = "UtaRPCPsConnectToDatachannelReq" -> {pack_UtaRPCPsConnectToDatachannelReq}
    [] call = "UtaModeSetReq"                   -> {ModeSetBody}
    [] call = "CsiFccLockVerChallengeReq"       -> {VerChallengeBody}
    [] OTHER                                    -> {DefaultBody}

(* Broken variant: the whole of the first answer goes into the request.    *)
SpliceWhole(pscr, dcr) == pscr \o dcr \o asn_int4(0)

(* csr_req: the first answer without its last six bytes, the second, 0.    *)
Splice(pscr, dcr) == SubSeq(pscr, 1, Len(pscr) - 6) \o dcr \o asn_int4(0)

-----------------------------------------------------------------------------
(* get_ip.  An IPv4 address is its four bytes.                             *)

NoAddress == <<>>
IsZero(address) == \A k \in DOMAIN address : address[k] = 0

(* Broken variant: the first address that is not zero.                     *)
PickAddressFirst(ip_values) ==
  LET used == SelectSeq(ip_values, LAMBDA a : ~IsZero(a))
  IN IF used = <<>> THEN NoAddress ELSE Head(used)

(* The last address that is not zero, or None.                             *)
PickAddress(ip_values) ==
  LET used == SelectSeq(ip_values, LAMBDA a : ~IsZero(a))
  IN IF used = <<>> THEN NoAddress ELSE Last(used)

(* unpack_UtaMsCallPsGetNegIpAddrReq: three addresses of four bytes.       *)
Words(addresses) == [k \in 1 .. 3 |-> SubSeq(addresses, 4 * k - 3, 4 * k)]
NegIpAddr(body) == Words(Unpack(<<"n", "s", "n", "n", "n", "n">>, body).val[2])

(* unpack_UtaMsCallPsGetNegotiatedDnsReq: the servers of one type.         *)
ServersOfType(vals, typ) ==
  LET slots == SelectSeq([i \in 1 .. 16 |-> i], LAMBDA i : vals[2 * i + 1] = typ)
  IN [k \in DOMAIN slots |-> SubSeq(vals[2 * slots[k]], 1, IF typ = 1 THEN 4 ELSE 16)]
NegotiatedDns(body, typ) ==
  ServersOfType(Unpack(<<"n">> \o FlattenSeq(Times(16, <<"s", "n">>))
                       \o <<"n", "s", "n", "n", "n", "n">>, body).val, typ)

(* _clean_dns drops 0.0.0.0 and ::                                         *)
CleanDns(servers) == SelectSeq(servers, LAMBDA a : ~IsZero(a))

(* Without an address, (None, None).                                       *)
IpConfig(addr, dns_body) ==
  LET servers(typ) == IF addr = NoAddress THEN <<>> ELSE NegotiatedDns(dns_body, typ)
  IN [addr |-> addr, v4 |-> servers(1), v6 |-> servers(2)]
get_ip(ip_body, dns_body) == IpConfig(PickAddress(NegIpAddr(ip_body)), dns_body)

-----------------------------------------------------------------------------
(* What the modem answers (external), with the same encoding.              *)

Response(code, fmt, args, is_async) == Request(code, Pack(fmt, args), is_async)

\* The address area: an IPv4 address alone or behind half an IPv6 address.
IpAnswer(code, v4, half6) ==
  Response(code, <<Num("B"), Str(16)>> \o Times(4, Num("L")),
           <<0, IF half6 = <<>> THEN v4 \o Zeros(12) ELSE half6 \o v4 \o Zeros(4), 0, 0, 0, 0>>,
           TRUE)

\* Sixteen slots, the first of them with the servers in use.
DnsAnswer(code, servers) ==
  LET slot(i) == IF i \in DOMAIN servers THEN servers[i] ELSE [typ |-> 0, a |-> Zeros(16)]
  IN Response(code, <<Num("B")>> \o FlattenSeq(Times(16, <<Str(20), Num("L")>>))
                 \o <<Num("L"), Str(0)>> \o Times(4, Num("L")),
              <<0>> \o FlattenSeq([i \in 1 .. 16 |-> <<slot(i).a, slot(i).typ>>])
                 \o <<0, <<>>, 0, 0, 0, 0>>,
              TRUE)

\* Bounded inputs.
Apns    == {Times(n, 65) : n \in {0, 1, 100, 101, 103}}
V4s     == {<<10, 0, 0, 1>>, <<0, 0, 0, 1>>, Zeros(4)}
Halves  == {<<>>, <<32, 1, 0, 0, 0, 0, 0, 0>>, <<32, 1, 13, 184, 0, 0, 0, 7>>}
Servers == {<<>>} \cup UNION {[1 .. n -> {[typ |-> 1, a |-> <<8, 8, 8, 8>>],
                                         [typ |-> 1, a |-> Zeros(4)],
                                         [typ |-> 2, a |-> <<32, 1>> \o Zeros(13) \o <<8>>],
                                         [typ |-> 2, a |-> Zeros(16)]}] : n \in 1 .. 3}
Sample(n, size, pad) == [val |-> [k \in 1 .. n |-> k % 256], size |-> size, len |-> n + pad]
Strings == {Sample(n, size, pad) : n \in {0, 1, 127, 128, 129, 255, 257, 514},
                                   size \in {1, 2, 4}, pad \in {0, 3}}

-----------------------------------------------------------------------------
(* Answers of the modem to UtaMsCallPsConnectReq, which end in a four byte *)
(* number, and to UtaRPCPsConnectToDatachannelReq.                         *)
Connects == {[fmt |-> c[1] \o <<Num("L")>>, args |-> c[2] \o <<7>>] :
               c \in {<<(<<>>), <<>> >>, <<Nums(<<"B", "L">>), <<1, 6>> >>,
                      <<Nums(<<"H", "B", "L">>), <<513, 1, 6>> >>}}
Channels == {[fmt |-> <<Str(24)>> \o c[1], args |-> <<Times(3, 47)>> \o c[2]] :
               c \in {<<(<<>>), <<>> >>, <<Nums(<<"L", "B">>), <<9, 2>> >>}}

=============================================================================
