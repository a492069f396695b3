--------------------------- MODULE AsnCodecProofs ---------------------------
(***************************************************************************)
(* Proofs about AsnCodec: rpc.py's decoder gives back what its encoder was *)
(* given, for every list of fields whose lengths both ends write alike;    *)
(* handle_message takes the framing off again; and the connect request,    *)
(* which the script splices out of two answers, is cut between fields,     *)
(* whatever the fields of the answers are.                                 *)
(*                                                                         *)
(* The loops of the codec are recursive functions; each is first shown to  *)
(* be the function its definition describes (BigEndianLoop, PackLoop,      *)
(* UnpackSteps), by induction over a set of naturals.                      *)
(***************************************************************************)
EXTENDS MCRpc, SequenceTheorems, FiniteSetTheorems, WellFoundedInduction, TLAPS

(* Every set of naturals that is not empty has a least element.            *)
LEMMA LeastNat ==
  ASSUME NEW T, T \subseteq Nat, T # {}
  PROVE  \E x \in T : \A y \in T : x <= y
<1>1. IsWellFoundedOn(OpToRel(<, Nat), Nat)
  BY NatLessThanWellFounded
<1>2. IsWellFoundedOn(OpToRel(<, Nat), T)
  BY <1>1, IsWellFoundedOnSubset
<1>3. \E x \in T : \A y \in T : ~(<<y, x>> \in OpToRel(<, Nat))
  BY <1>2, WFMin
<1>4. \A x, y \in T : y < x => <<y, x>> \in OpToRel(<, Nat)
  BY DEF OpToRel
<1>5. \E x \in T : \A y \in T : ~(y < x)
  BY <1>3, <1>4, Zenon
<1> QED
  BY <1>5

(* Induction, for a set of naturals up to n instead of a predicate.        *)
LEMMA UpTo ==
  ASSUME NEW n \in Nat, NEW S, 0 \in S, \A k \in 1 .. n : k - 1 \in S => k \in S
  PROVE  \A k \in 0 .. n : k \in S
<1> DEFINE T == {k \in 0 .. n : k \notin S}
<1> SUFFICES ASSUME T # {} PROVE FALSE
  OBVIOUS
<1>0. T \subseteq Nat
  OBVIOUS
<1>1. PICK x \in T : \A y \in T : x <= y
  BY <1>0, LeastNat
<1>2. x \in 1 .. n /\ x - 1 \in 0 .. n
  BY <1>1
<1>3. x - 1 \in S
  BY <1>1, <1>2
<1> QED
  BY <1>1, <1>2, <1>3

-----------------------------------------------------------------------------
(* The bytes of the conversation.                                          *)

Byte  == 0 .. 255
Items == [ch : {"B", "H", "L", "s"}, size : Nat, len : Nat]

(* The bytes s are in d, from position i on.                               *)
Holds(d, i, s) == i + Len(s) <= Len(d) + 1 /\ \A k \in 1 .. Len(s) : d[i + k - 1] = s[k]

(* Bytes are numbers.                                                      *)
LEMMA BytesAreNats ==
  ASSUME NEW s \in Seq(Byte)
  PROVE  s \in Seq(Nat)
<1>0. \A k \in 1 .. Len(s) : s[k] \in Byte
  OBVIOUS
<1>b. \A x \in Byte : x \in Nat
  BY DEF Byte
<1>1. \A k \in 1 .. Len(s) : s[k] \in Nat
  BY <1>0, <1>b, Zenon
<1>2. s = [k \in 1 .. Len(s) |-> s[k]] /\ Len(s) \in Nat
  OBVIOUS
<1> QED
  BY <1>1, <1>2

(* Of two pieces one behind the other, each is where it belongs.           *)
LEMMA HoldsJoin ==
  ASSUME NEW d \in Seq(Nat), NEW i \in Nat, NEW s \in Seq(Nat), NEW t \in Seq(Nat),
         Holds(d, i, s \o t)
  PROVE  Holds(d, i, s) /\ Holds(d, i + Len(s), t)
<1> DEFINE u == s \o t
           m == Len(s)
           n == Len(t)
<1>1. /\ m \in Nat /\ n \in Nat /\ Len(u) = m + n /\ Len(d) \in Nat
      /\ \A k \in 1 .. m : u[k] = s[k]
      /\ \A k \in 1 .. n : u[m + k] = t[k]
  OBVIOUS
<1>2. i + Len(u) <= Len(d) + 1 /\ \A k \in 1 .. Len(u) : d[i + k - 1] = u[k]
  BY DEF Holds
<1> HIDE DEF u
<1>3. Holds(d, i, s)
  <2>1. \A k \in 1 .. m : k \in 1 .. Len(u)
    BY <1>1
  <2>2. i + m <= Len(d) + 1
    BY <1>1, <1>2
  <2> QED
    BY <1>1, <1>2, <2>1, <2>2, Zenon DEF Holds
<1>4. Holds(d, i + m, t)
  <2>1. \A k \in 1 .. n : m + k \in 1 .. Len(u) /\ i + (m + k) - 1 = i + m + k - 1
    BY <1>1
  <2>2. i + m + n <= Len(d) + 1
    BY <1>1, <1>2
  <2>3. \A k \in 1 .. n : d[i + m + k - 1] = t[k]
    BY <1>1, <1>2, <2>1, Zenon
  <2> QED
    BY <2>2, <2>3, Zenon DEF Holds
<1> QED
  BY <1>3, <1>4

(* What is there can be cut out.                                           *)
LEMMA HoldsPart ==
  ASSUME NEW d \in Seq(Nat), NEW i \in Nat \ {0}, NEW s \in Seq(Nat), Holds(d, i, s)
  PROVE  SubSeq(d, i, i + Len(s) - 1) = s
<1> DEFINE m == Len(s)
           u == SubSeq(d, i, i + m - 1)
<1>1. m \in Nat /\ Len(d) \in Nat /\ i + m <= Len(d) + 1
      /\ \A k \in 1 .. m : d[i + k - 1] = s[k]
  BY DEF Holds
<1>2. u \in Seq(Nat) /\ Len(u) = m /\ \A k \in 1 .. m : u[k] = d[i + k - 1]
  BY <1>1
<1>3. \A k \in 1 .. Len(u) : u[k] = s[k]
  BY <1>1, <1>2
<1> QED
  BY <1>2, <1>3, SeqEqual

(* BigEndian's loop.                                                       *)
LEMMA BigEndianLoop ==
  ASSUME NEW s \in Seq(Nat)
  PROVE  \E p : /\ p[0] = 0 /\ BigEndian(s) = p[Len(s)]
                /\ \A k \in 1 .. Len(s) : p[k] = 256 * p[k - 1] + s[k]
<1> DEFINE n == Len(s)
           Step(x, k) == 256 * x + s[k]
           Upto(f, m) == f[0] = 0 /\ \A k \in 1 .. m : f[k] = Step(f[k - 1], k)
           S == {m \in 0 .. n : \E f : Upto(f, m)}
           Eq(f) == f = [k \in 0 .. n |-> IF k = 0 THEN 0 ELSE Step(f[k - 1], k)]
           p == CHOOSE g : Eq(g)
<1>0. n \in Nat /\ 0 \in 0 .. n /\ n \in 0 .. n
  OBVIOUS
<1>r. \A k \in 1 .. n : k \in 0 .. n /\ k - 1 \in 0 .. n /\ k # 0
  BY <1>0
<1>6. p = CHOOSE g : Eq(g)
  OBVIOUS
<1> HIDE DEF n, Step, p
<1>1. 0 \in S
  <2> DEFINE f == [k \in 0 .. 0 |-> 0]
  <2>1. f[0] = 0 /\ ~(\E k : k \in 1 .. 0)
    OBVIOUS
  <2> QED
    BY <1>0, <2>1, Zenon
<1>2. ASSUME NEW m \in 1 .. n, m - 1 \in S PROVE m \in S
  <2>1. PICK f : Upto(f, m - 1)
    BY <1>2, Zenon
  <2> DEFINE g == [k \in 0 .. m |-> IF k = m THEN Step(f[m - 1], m) ELSE f[k]]
  <2>2. /\ m \in 0 .. n /\ m \in Nat /\ 0 \in 0 .. m /\ 0 # m /\ m \in 0 .. m
        /\ \A k \in 1 .. m : k \in 0 .. m /\ k - 1 \in 0 .. m /\ k - 1 # m
        /\ \A k \in 1 .. m : k # m => k \in 1 .. m - 1
    BY <1>0
  <2>3. \A k \in 0 .. m : g[k] = IF k = m THEN Step(f[m - 1], m) ELSE f[k]
    BY Zenon
  <2> HIDE DEF g
  <2>4. g[0] = 0
    BY <2>1, <2>2, <2>3, Zenon
  <2>5. ASSUME NEW k \in 1 .. m PROVE g[k] = Step(g[k - 1], k)
    <3>1. g[k - 1] = f[k - 1]
      BY <2>2, <2>3, <2>5, Zenon
    <3>2. CASE k = m
      BY <2>2, <2>3, <2>5, <3>1, <3>2, Zenon
    <3>3. CASE k # m
      <4>1. g[k] = f[k] /\ k \in 1 .. m - 1
        BY <2>2, <2>3, <2>5, <3>3, Zenon
      <4> QED
        BY <2>1, <3>1, <4>1, Zenon
    <3> QED
      BY <3>2, <3>3, Zenon
  <2> QED
    BY <2>2, <2>4, <2>5, Zenon
<1>3. \A k \in 0 .. n : k \in S
  <2>1. \A k \in 1 .. n : k - 1 \in S => k \in S
    BY <1>2
  <2> HIDE DEF S
  <2> QED
    BY <1>0, <1>1, <2>1, UpTo
<1>4. PICK f : Upto(f, n)
  BY <1>0, <1>3, Zenon
<1> DEFINE h == [k \in 0 .. n |-> f[k]]
<1>5. Eq(h)
  <2>1. \A k \in 0 .. n : h[k] = f[k] /\ (k # 0 => k \in 1 .. n)
    BY <1>0
  <2> HIDE DEF h
  <2>2. \A k \in 0 .. n : h[k] = IF k = 0 THEN 0 ELSE Step(h[k - 1], k)
    BY <1>4, <1>r, <2>1, Zenon
  <2>3. h = [k \in 0 .. n |-> h[k]]
    BY Zenon DEF h
  <2> QED
    BY <2>2, <2>3, Zenon
<1>7. Eq(p)
  <2>1. \E g : Eq(g)
    BY <1>5, Zenon
  <2> HIDE DEF Eq
  <2> QED
    BY <1>6, <2>1, Zenon
<1>8. p[0] = 0 /\ \A k \in 1 .. n : p[k] = Step(p[k - 1], k)
  <2>1. \A k \in 0 .. n : p[k] = IF k = 0 THEN 0 ELSE Step(p[k - 1], k)
    BY <1>7, Zenon
  <2> QED
    BY <1>0, <1>r, <2>1, Zenon
<1>9. BigEndian(s) = p[n]
  BY Zenon DEF BigEndian, p, n, Step
<1> QED
  BY <1>8, <1>9 DEF n, Step


(* Reading bytes gives a number; that of up to four of them.               *)
LEMMA BigEndianNat ==
  ASSUME NEW s \in Seq(Nat)
  PROVE  BigEndian(s) \in Nat
<1> DEFINE n == Len(s)
<1>1. PICK p : /\ p[0] = 0 /\ BigEndian(s) = p[n]
               /\ \A k \in 1 .. n : p[k] = 256 * p[k - 1] + s[k]
  BY BigEndianLoop
<1> DEFINE S == {k \in 0 .. n : p[k] \in Nat}
<1>2. n \in Nat /\ \A k \in 1 .. n : s[k] \in Nat
  OBVIOUS
<1>3. 0 \in S
  BY <1>1, <1>2
<1>4. \A k \in 1 .. n : k - 1 \in S => k \in S
  BY <1>1, <1>2, SMTT(30)
<1>5. \A k \in 0 .. n : k \in S
  <2> HIDE DEF S
  <2> QED
    BY <1>2, <1>3, <1>4, UpTo
<1> QED
  BY <1>1, <1>2, <1>5

(* BigEndian of one, two and four bytes.                                   *)
LEMMA BigEndianIs ==
  ASSUME NEW s \in Seq(Nat)
  PROVE  /\ Len(s) = 1 => BigEndian(s) = s[1]
         /\ Len(s) = 2 => BigEndian(s) = 256 * s[1] + s[2]
         /\ Len(s) = 4 => BigEndian(s) = 256 * (256 * (256 * s[1] + s[2]) + s[3]) + s[4]
<1> DEFINE n == Len(s)
<1>1. PICK p : /\ p[0] = 0 /\ BigEndian(s) = p[n]
               /\ \A k \in 1 .. n : p[k] = 256 * p[k - 1] + s[k]
  BY BigEndianLoop
<1>2. \A k \in 1 .. n : s[k] \in Nat
  OBVIOUS
<1>3. n >= 1 /\ n \in Nat => p[1] = s[1]
  <2> SUFFICES ASSUME n >= 1, n \in Nat PROVE p[1] = s[1]
    OBVIOUS
  <2>1. 1 \in 1 .. n /\ 1 - 1 = 0
    OBVIOUS
  <2>2. p[1] = 256 * 0 + s[1] /\ s[1] \in Nat
    BY <1>1, <1>2, <2>1
  <2> QED
    BY <2>2
<1>4. n >= 2 /\ n \in Nat => p[2] = 256 * p[1] + s[2]
  BY <1>1
<1>5. n >= 4 /\ n \in Nat => p[3] = 256 * p[2] + s[3] /\ p[4] = 256 * p[3] + s[4]
  BY <1>1
<1>6. n = 1 => BigEndian(s) = s[1]
  BY <1>1, <1>3
<1>7. n = 2 => BigEndian(s) = 256 * s[1] + s[2]
  BY <1>1, <1>3, <1>4
<1>8. n = 4 => BigEndian(s) = 256 * (256 * (256 * s[1] + s[2]) + s[3]) + s[4]
  BY <1>1, <1>3, <1>4, <1>5
<1> QED
  BY <1>6, <1>7, <1>8

(* The numbers of n bytes.                                                 *)
Numbers(n) == {v \in Nat : v < 256 * Power256(n - 1)}

(* The powers of 256 that the encoding uses.                               *)
LEMMA PowersAre ==
  Power256(0) = 1 /\ Power256(1) = 256 /\ Power256(2) = 65536 /\ Power256(3) = 16777216
  BY SMT DEF Power256

(* struct.pack gives n bytes.                                              *)
LEMMA BytesType ==
  ASSUME NEW n \in 1 .. 4, NEW v \in Nat
  PROVE  Bytes(n, v) \in Seq(Byte) /\ Len(Bytes(n, v)) = n
<1>1. \A i \in 1 .. n : Power256(n - i) \in Nat \ {0}
  BY PowersAre, SMT
<1>2. \A i \in 1 .. n : (v \div Power256(n - i)) % 256 \in Byte
  BY <1>1, SMT DEF Byte
<1>3. Bytes(n, v) \in [1 .. n -> Byte]
  BY <1>2, Zenon DEF Bytes
<1> QED
  BY <1>3

(* The one byte of a small number.                                         *)
LEMMA ByteIs ==
  ASSUME NEW v \in Nat
  PROVE  Bytes(1, v)[1] = v % 256
<1>1. v \div 1 = v /\ 1 - 1 = 0 /\ 1 \in 1 .. 1
  BY SMT
<1>2. \A i \in 1 .. 1 : Bytes(1, v)[i] = (v \div Power256(1 - i)) % 256
  BY Zenon DEF Bytes
<1> QED
  BY <1>1, <1>2, PowersAre, SMT

(* The bytes of a number, most significant first.                          *)
LEMMA BytesAre ==
  ASSUME NEW v \in Nat
  PROVE  /\ Bytes(1, v)[1] = v % 256
         /\ Bytes(2, v)[1] = (v \div 256) % 256 /\ Bytes(2, v)[2] = v % 256
         /\ Bytes(4, v)[1] = (v \div 16777216) % 256
         /\ Bytes(4, v)[2] = (v \div 65536) % 256
         /\ Bytes(4, v)[3] = (v \div 256) % 256
         /\ Bytes(4, v)[4] = v % 256
<1>1. v \div 1 = v
  BY SMT
<1>2. \A n \in 1 .. 4 : \A i \in 1 .. n : Bytes(n, v)[i] = (v \div Power256(n - i)) % 256
  BY Zenon DEF Bytes
<1>3. Bytes(1, v)[1] = (v \div Power256(0)) % 256
  BY <1>2, SMT
<1>4. Bytes(2, v)[1] = (v \div Power256(1)) % 256 /\ Bytes(2, v)[2] = (v \div Power256(0)) % 256
  BY <1>2, SMT
<1>5. /\ Bytes(4, v)[1] = (v \div Power256(3)) % 256 /\ Bytes(4, v)[2] = (v \div Power256(2)) % 256
      /\ Bytes(4, v)[3] = (v \div Power256(1)) % 256 /\ Bytes(4, v)[4] = (v \div Power256(0)) % 256
  BY <1>2, SMT
<1> QED
  BY <1>1, <1>3, <1>4, <1>5, PowersAre, SMT

(* The numbers that fit in one, two and four bytes.                        *)
LEMMA NumbersAre ==
  ASSUME NEW v
  PROVE  /\ v \in Numbers(1) => v \in Nat /\ v < 256
         /\ v \in Numbers(2) => v \in Nat /\ v < 65536
         /\ v \in Numbers(4) => v \in Nat /\ v < 256 * 16777216
<1>1. 1 - 1 = 0 /\ 2 - 1 = 1 /\ 4 - 1 = 3
  BY SMT
<1>3. v \in Numbers(1) => v \in Nat /\ v < 256 * 1
  BY <1>1, PowersAre, SMT DEF Numbers
<1>4. v \in Numbers(2) => v \in Nat /\ v < 256 * 256
  BY <1>1, PowersAre, SMT DEF Numbers
<1>5. v \in Numbers(4) => v \in Nat /\ v < 256 * 16777216
  BY <1>1, PowersAre, SMT DEF Numbers
<1> QED
  BY <1>3, <1>4, <1>5, SMT

(* A number is the sum of its bytes.                                       *)
LEMMA TwoBytes ==
  ASSUME NEW v \in Nat, v < 65536
  PROVE  256 * ((v \div 256) % 256) + (v % 256) = v
  BY SMT

(* A number of four bytes put together again.                              *)
LEMMA FourBytes ==
  ASSUME NEW v \in Nat, v < 256 * 16777216
  PROVE  256 * (256 * (256 * ((v \div 16777216) % 256) + ((v \div 65536) % 256))
                + ((v \div 256) % 256)) + (v % 256) = v
<1>1. (v \div 16777216) % 256 = v \div 16777216
  BY SMT
<1>2. v \div 65536 = 256 * (v \div 16777216) + ((v \div 65536) % 256)
  BY SMT
<1>3. v \div 256 = 256 * (v \div 65536) + ((v \div 256) % 256)
  BY SMT
<1>4. v = 256 * (v \div 256) + (v % 256)
  BY SMT
<1> QED
  BY <1>1, <1>2, <1>3, <1>4, SMT

(* struct.pack, and take_asn_int's loop.                                   *)
LEMMA BytesRead ==
  ASSUME NEW n \in {1, 2, 4}, NEW v \in Numbers(n)
  PROVE  BigEndian(Bytes(n, v)) = v
<1> DEFINE b == Bytes(n, v)
<1>0. v \in Nat
  BY SMT DEF Numbers
<1>n. n \in 1 .. 4
  OBVIOUS
<1>b. b \in Seq(Byte) /\ Len(b) = n
  BY <1>0, <1>n, BytesType, Zenon
<1>1. b \in Seq(Nat) /\ Len(b) = n
  BY <1>b, BytesAreNats
<1>2. CASE n = 1
  <2>1. v < 256 /\ b[1] = v % 256
    BY <1>0, <1>2, BytesAre, NumbersAre, SMT
  <2>2. v % 256 = v
    BY <1>0, <2>1, SMT
  <2>3. BigEndian(b) = b[1]
    BY <1>1, <1>2, BigEndianIs, Zenon
  <2> QED
    BY <2>1, <2>2, <2>3, Zenon
<1>3. CASE n = 2
  <2>1. v < 65536
    BY <1>3, NumbersAre, SMT
  <2> DEFINE x == (v \div 256) % 256
             y == v % 256
  <2>2. b[1] = x /\ b[2] = y
    BY <1>0, <1>3, BytesAre, SMT
  <2>3. BigEndian(b) = 256 * b[1] + b[2]
    BY <1>1, <1>3, BigEndianIs, SMT
  <2>4. 256 * x + y = v
    BY <1>0, <2>1, TwoBytes, SMT
  <2>5. x \in Nat /\ y \in Nat
    BY <1>0, SMT
  <2> HIDE DEF b, x, y
  <2>6. BigEndian(b) = v
    BY <2>2, <2>3, <2>4, <2>5, SMT
  <2> QED
    BY <2>6, Zenon DEF b
<1>4. CASE n = 4
  <2>1. v < 256 * 16777216
    BY <1>4, NumbersAre, SMT
  <2> DEFINE x == (v \div 16777216) % 256
             y == (v \div 65536) % 256
             z == (v \div 256) % 256
             w == v % 256
  <2>2. b[1] = x /\ b[2] = y /\ b[3] = z /\ b[4] = w
    BY <1>0, <1>4, BytesAre, SMT
  <2>3. BigEndian(b) = 256 * (256 * (256 * b[1] + b[2]) + b[3]) + b[4]
    BY <1>1, <1>4, BigEndianIs, SMT
  <2>4. 256 * (256 * (256 * x + y) + z) + w = v
    BY <1>0, <2>1, FourBytes, SMT
  <2>5. x \in Nat /\ y \in Nat /\ z \in Nat /\ w \in Nat
    BY <1>0, SMT
  <2> HIDE DEF b, x, y, z, w
  <2>6. BigEndian(b) = v
    BY <2>2, <2>3, <2>4, <2>5, SMT
  <2> QED
    BY <2>6, Zenon DEF b
<1> QED
  BY <1>2, <1>3, <1>4, SMT

(* take_asn_int reads what asn_int and its variants wrote.                 *)
LEMMA AsnIntType ==
  ASSUME NEW n \in {1, 2, 4}, NEW v \in Nat
  PROVE  AsnInt(n, v) \in Seq(Byte) /\ Len(AsnInt(n, v)) = n + 2
<1>0. n \in 1 .. 4
  OBVIOUS
<1>1. Bytes(n, v) \in Seq(Byte) /\ Len(Bytes(n, v)) = n
  BY <1>0, BytesType, Zenon
<1>2. 2 \in Byte /\ n \in Byte
  BY DEF Byte
<1>3. <<2, n>> \in Seq(Byte) /\ Len(<<2, n>>) = 2
  BY <1>2
<1> HIDE DEF Byte
<1>4. <<2, n>> \o Bytes(n, v) \in Seq(Byte) /\ Len(<<2, n>> \o Bytes(n, v)) = 2 + n
  BY <1>1, <1>3
<1> QED
  BY <1>4 DEF AsnInt

(* take_asn_int reads what asn_int wrote, and goes on behind it.           *)
LEMMA AsnIntRead ==
  ASSUME NEW d \in Seq(Nat), NEW i \in Nat \ {0}, NEW n \in {1, 2, 4}, NEW v \in Numbers(n),
         Holds(d, i, AsnInt(n, v))
  PROVE  d[i] = 2 /\ TakeAsnInt(d, i) = [ok |-> TRUE, val |-> v, next |-> i + 2 + n]
<1> DEFINE b == Bytes(n, v)
           h == <<2, n>>
<1>0. v \in Nat /\ n \in 1 .. 4
  BY SMT DEF Numbers
<1>1. b \in Seq(Byte) /\ Len(b) = n
  BY <1>0, BytesType, Zenon
<1>2. b \in Seq(Nat)
  BY <1>1, BytesAreNats
<1>3. h \in Seq(Nat) /\ Len(h) = 2 /\ h[1] = 2 /\ h[2] = n
  OBVIOUS
<1>4. Holds(d, i, h \o b)
  BY Zenon DEF AsnInt
<1>5. BigEndian(b) = v
  BY BytesRead, Zenon
<1> HIDE DEF b, h
<1>6. Holds(d, i, h) /\ Holds(d, i + 2, b)
  BY <1>2, <1>3, <1>4, HoldsJoin
<1>7. d[i] = 2 /\ d[i + 1] = n
  BY <1>3, <1>6 DEF Holds
<1>8. SubSeq(d, i + 2, i + 1 + n) = b
  <2>1. SubSeq(d, i + 2, i + 2 + Len(b) - 1) = b
    BY <1>2, <1>6, HoldsPart
  <2> QED
    BY <1>0, <1>1, <2>1
<1>9. i + 2 + n <= Len(d) + 1
  BY <1>1, <1>6 DEF Holds
<1>10. i + 1 <= Len(d) /\ d[i] = 2 /\ i + 1 + d[i + 1] <= Len(d)
  BY <1>0, <1>7, <1>9
<1>11. TakeAsnInt(d, i) = [ok |-> TRUE, val |-> BigEndian(SubSeq(d, i + 2, i + 1 + d[i + 1])),
                           next |-> i + 2 + d[i + 1]]
  BY <1>10, Zenon DEF TakeAsnInt
<1> QED
  BY <1>5, <1>7, <1>8, <1>11, Zenon

(* Lengths that take_string reads as _pack_string wrote them: one byte, or *)
(* two that are equal, as the orders of the two functions differ.          *)
Readable(len) == len \in Nat /\ (len < 256 \/ (len < Power256(2) /\ len \div 256 = len % 256))

(* The number of bytes of a length.                                        *)
LEMMA ValidFieldIs ==
  ASSUME NEW len \in Nat, len < Power256(2)
  PROVE  /\ len < 128 => ValidField(len) = <<len>>
         /\ len >= 128 /\ len < 256 => ValidField(len) = <<129>> \o Bytes(1, len)
         /\ len >= 256 => ValidField(len) = <<130>> \o Bytes(2, len)
<1> DEFINE S == {k \in 1 .. 3 : len < Power256(k)}
           n == Min(S)
<1>1. len >= 128 => ValidField(len) = <<128 + n>> \o Bytes(n, len)
  <2> SUFFICES ASSUME len >= 128 PROVE ValidField(len) = <<128 + n>> \o Bytes(n, len)
    BY Zenon
  <2>1. ~(len < 128)
    BY SMT
  <2> QED
    BY <2>1, Zenon DEF ValidField
<1>2. len < 128 => ValidField(len) = <<len>>
  BY Zenon DEF ValidField
<1>3. 2 \in S /\ (1 \in S <=> len < 256)
  BY PowersAre, SMT
<1>4. \A k \in S : k \in 1 .. 3
  BY Zenon
<1>5. n \in S /\ \A k \in S : n <= k
  <2>1. \E m \in S : \A k \in S : m <= k
    <3> HIDE DEF S
    <3>1. CASE len < 256
      <4>1. 1 \in S /\ \A k \in S : 1 <= k
        BY <1>3, <1>4, <3>1, SMT
      <4> QED
        BY <4>1, Zenon
    <3>2. CASE ~(len < 256)
      <4>1. \A k \in S : k # 1
        BY <1>3, <3>2, Zenon
      <4>2. 2 \in S /\ \A k \in S : 2 <= k
        BY <1>3, <1>4, <4>1, SMT
      <4> QED
        BY <4>2, Zenon
    <3> QED
      BY <3>1, <3>2, Zenon
  <2> HIDE DEF S
  <2> QED
    BY <2>1, Zenon DEF Min
<1> HIDE DEF S, n
<1>6. len < 256 => n = 1
  BY <1>3, <1>4, <1>5, SMT
<1>7. len >= 256 => n = 2
  BY <1>3, <1>4, <1>5, SMT
<1>8. 128 + 1 = 129 /\ 128 + 2 = 130 /\ (len >= 256 => len >= 128)
  BY SMT
<1>9. len >= 128 /\ len < 256 => ValidField(len) = <<129>> \o Bytes(1, len)
  <2> SUFFICES ASSUME len >= 128, len < 256 PROVE ValidField(len) = <<129>> \o Bytes(1, len)
    BY Zenon
  <2>1. n = 1 /\ 128 + n = 129
    BY <1>6, SMT
  <2>2. ValidField(len) = <<128 + n>> \o Bytes(n, len)
    BY <1>1, Zenon
  <2> QED
    BY <2>1, <2>2, SMT
<1>10. len >= 256 => ValidField(len) = <<130>> \o Bytes(2, len)
  <2> SUFFICES ASSUME len >= 256 PROVE ValidField(len) = <<130>> \o Bytes(2, len)
    BY Zenon
  <2>1. n = 2 /\ 128 + n = 130
    BY <1>7, SMT
  <2>2. ValidField(len) = <<128 + n>> \o Bytes(n, len)
    BY <1>1, <1>8, Zenon
  <2> QED
    BY <2>1, <2>2, SMT
<1> QED
  BY <1>2, <1>9, <1>10, SMT

(* The bytes of a length in either order.                                  *)
LEMMA LengthRead ==
  ASSUME NEW len, Readable(len), NEW n \in {1, 2},
         len < 256 => n = 1, len >= 256 => n = 2
  PROVE  LittleEndian(Bytes(n, len)) = len
<1> DEFINE b == Bytes(n, len)
           r == Reverse(b)
<1>0. len \in Nat /\ len < Power256(2) /\ n \in 1 .. 4 /\ (n = 1 <=> len < 256)
  BY PowersAre, SMT DEF Readable
<1>1. b \in Seq(Byte) /\ Len(b) = n
  BY <1>0, BytesType, Zenon
<1>2. b \in Seq(Nat)
  BY <1>1, BytesAreNats
<1>3. LittleEndian(b) = BigEndian(r)
  BY Zenon DEF LittleEndian
<1>4. r \in Seq(Nat) /\ Len(r) = n /\ \A k \in 1 .. n : r[k] = b[(n - k) + 1]
  <2> HIDE DEF b
  <2>1. \A k \in 1 .. n : b[(n - k) + 1] \in Nat
    BY <1>1, <1>2
  <2> QED
    BY <1>1, <2>1 DEF Reverse
<1>5. CASE n = 1
  <2>0. len \in Nat
    BY <1>0, Zenon
  <2>a. Bytes(1, len)[1] = len % 256
    BY <2>0, ByteIs, Zenon
  <2>1. b[1] = len % 256
    BY <1>5, <2>a, Zenon
  <2>2. len % 256 = len
    BY <1>0, <1>5, SMT
  <2> HIDE DEF b, r
  <2>3. r[1] = b[1]
    BY <1>4, <1>5, SMT
  <2>4. BigEndian(r) = r[1]
    BY <1>4, <1>5, BigEndianIs, ZenonT(40)
  <2>5. LittleEndian(b) = len
    BY <1>3, <2>1, <2>2, <2>3, <2>4, Zenon
  <2> QED
    BY <2>5, Zenon DEF b
<1>6. CASE n = 2
  <2> DEFINE x == (len \div 256) % 256
             y == len % 256
  <2>1. b[1] = x /\ b[2] = y
    BY <1>0, <1>6, BytesAre, SMT
  <2>2. len \div 256 = len % 256
    BY <1>0, <1>6, PowersAre, SMT DEF Readable
  <2>3. x = y /\ x \in Nat
    BY <1>0, <2>2, SMT
  <2>4. 256 * x + y = len
    BY <1>0, PowersAre, TwoBytes, SMT
  <2> HIDE DEF b, r, x, y
  <2>5. r[1] = y /\ r[2] = x
    BY <1>4, <1>6, <2>1, SMT
  <2>6. BigEndian(r) = 256 * r[1] + r[2]
    BY <1>4, <1>6, BigEndianIs, SMT
  <2>7. LittleEndian(b) = len
    BY <1>3, <2>3, <2>4, <2>5, <2>6, SMT
  <2> QED
    BY <2>7, Zenon DEF b
<1> QED
  BY <1>5, <1>6, SMT

(* take_string's first half reads what _pack_string wrote there.           *)
LEMMA ValidFieldType ==
  ASSUME NEW len, Readable(len)
  PROVE  ValidField(len) \in Seq(Byte) /\ Len(ValidField(len)) \in 1 .. 3
<1>1. len \in Nat /\ len < Power256(2)
  BY PowersAre, SMT DEF Readable
<1>2. CASE len < 128
  <2>1. len \in Byte
    BY <1>1, <1>2, SMT DEF Byte
  <2>2. ValidField(len) = <<len>>
    BY <1>1, <1>2, ValidFieldIs, Zenon
  <2>3. <<len>> \in Seq(Byte) /\ Len(<<len>>) = 1
    BY <2>1
  <2> QED
    BY <2>2, <2>3
<1>3. CASE len >= 128
  <2>1. 129 \in Byte /\ 130 \in Byte
    BY DEF Byte
  <2>2. /\ Bytes(1, len) \in Seq(Byte) /\ Len(Bytes(1, len)) = 1
        /\ Bytes(2, len) \in Seq(Byte) /\ Len(Bytes(2, len)) = 2
    BY <1>1, BytesType, SMT
  <2>3. \/ ValidField(len) = <<129>> \o Bytes(1, len)
        \/ ValidField(len) = <<130>> \o Bytes(2, len)
    <3>1. len < 256 \/ len >= 256
      BY <1>1, SMT
    <3> QED
      BY <1>1, <1>3, <3>1, ValidFieldIs, Zenon
  <2> HIDE DEF Byte
  <2> DEFINE h1 == <<129>>
             h2 == <<130>>
             b1 == Bytes(1, len)
             b2 == Bytes(2, len)
  <2>4. h1 \in Seq(Byte) /\ Len(h1) = 1 /\ h2 \in Seq(Byte) /\ Len(h2) = 1
    BY <2>1
  <2> HIDE DEF h1, h2, b1, b2
  <2>5. /\ b1 \in Seq(Byte) /\ Len(b1) = 1 /\ b2 \in Seq(Byte) /\ Len(b2) = 2
        /\ (ValidField(len) = h1 \o b1 \/ ValidField(len) = h2 \o b2)
    BY <2>2, <2>3, Zenon DEF h1, h2, b1, b2
  <2>6. /\ h1 \o b1 \in Seq(Byte) /\ Len(h1 \o b1) = 2
        /\ h2 \o b2 \in Seq(Byte) /\ Len(h2 \o b2) = 3
    <3>1. b1 \in Seq(Byte) /\ b2 \in Seq(Byte) /\ h1 \in Seq(Byte) /\ h2 \in Seq(Byte)
      BY <2>4, <2>5, Zenon
    <3>2. h1 \o b1 \in Seq(Byte) /\ Len(h1 \o b1) = Len(h1) + Len(b1)
      BY <3>1
    <3>3. h2 \o b2 \in Seq(Byte) /\ Len(h2 \o b2) = Len(h2) + Len(b2)
      BY <3>1
    <3> QED
      BY <2>4, <2>5, <3>2, <3>3, SMT
  <2>7. 2 \in 1 .. 3 /\ 3 \in 1 .. 3
    BY SMT
  <2> QED
    BY <2>5, <2>6, <2>7, Zenon
<1> QED
  BY <1>1, <1>2, <1>3, SMT

(* take_string reads the number of elements that _pack_string wrote,       *)
(* if it is readable.                                                      *)
LEMMA ValidRead ==
  ASSUME NEW d \in Seq(Nat), NEW i \in Nat \ {0}, NEW len, Readable(len),
         Holds(d, i + 1, ValidField(len))
  PROVE  TakeValid(d, i) = [ok |-> TRUE, next |-> i + 1 + Len(ValidField(len)),
                            val |-> ElemSize(d[i]) * len]
<1> DEFINE f == ValidField(len)
           e == ElemSize(d[i])
<1>1. len \in Nat /\ len < Power256(2)
  BY PowersAre, SMT DEF Readable
<1>2. f \in Seq(Nat)
  BY ValidFieldType, BytesAreNats
<1>4. CASE len < 128
  <2>1. f = <<len>>
    BY <1>1, <1>4, ValidFieldIs, Zenon
  <2>2. d[i + 1] = len /\ i + 1 <= Len(d) /\ Len(f) = 1
    BY <2>1 DEF Holds
  <2> DEFINE n == IF d[i + 1] >= 128 THEN d[i + 1] % 16 ELSE 0
  <2>3. n = 0 /\ ~(i + 1 > Len(d) \/ i + 1 + n > Len(d)) /\ i + 2 + n = i + 1 + 1
    BY <1>1, <1>4, <2>2, SMT
  <2>4. TakeValid(d, i) =
          IF i + 1 > Len(d) \/ i + 1 + n > Len(d) THEN Fails
          ELSE [ok |-> TRUE, next |-> i + 2 + n,
                val |-> e * (IF d[i + 1] < 128 THEN d[i + 1]
                             ELSE LittleEndian(SubSeq(d, i + 2, i + 1 + n)))]
    BY Zenon DEF TakeValid
  <2> HIDE DEF n, e, f
  <2>5. TakeValid(d, i) = [ok |-> TRUE, next |-> i + 2 + n, val |-> e * len]
    BY <1>4, <2>2, <2>3, <2>4, Zenon
  <2>6. TakeValid(d, i) = [ok |-> TRUE, next |-> i + 1 + Len(f), val |-> e * len]
    BY <2>2, <2>3, <2>5, Zenon
  <2> QED
    BY <2>6, Zenon DEF e, f
<1>5. CASE len >= 128
  <2> DEFINE w == IF len < 256 THEN 1 ELSE 2
             b == Bytes(w, len)
  <2>1. w \in {1, 2} /\ w \in 1 .. 4 /\ (len < 256 => w = 1) /\ (len >= 256 => w = 2)
    BY <1>1, SMT
  <2>2. b \in Seq(Byte) /\ Len(b) = w
    BY <1>1, <2>1, BytesType, Zenon
  <2>3. b \in Seq(Nat)
    BY <2>2, BytesAreNats
  <2>4. f = <<128 + w>> \o b
    <3>1. CASE len < 256
      <4>1. f = <<129>> \o Bytes(1, len)
        BY <1>1, <1>5, <3>1, ValidFieldIs, Zenon
      <4>2. w = 1 /\ 129 = 128 + w
        BY <2>1, <3>1, SMT
      <4> HIDE DEF w, f
      <4> QED
        BY <4>1, <4>2, Zenon
    <3>2. CASE len >= 256
      <4>1. f = <<130>> \o Bytes(2, len)
        BY <1>1, <3>2, ValidFieldIs, Zenon
      <4>2. w = 2 /\ 130 = 128 + w
        BY <2>1, <3>2, SMT
      <4> HIDE DEF w, f
      <4> QED
        BY <4>1, <4>2, Zenon
    <3> QED
      BY <1>1, <3>1, <3>2, SMT
  <2>5. LittleEndian(b) = len
    BY <2>1, LengthRead, ZenonT(40)
  <2> HIDE DEF w, b
  <2>6. <<128 + w>> \in Seq(Nat) /\ Len(<<128 + w>>) = 1 /\ <<128 + w>>[1] = 128 + w
    BY <2>1
  <2>7. Holds(d, i + 1, <<128 + w>>) /\ Holds(d, i + 1 + 1, b)
    <3>1. Holds(d, i + 1, <<128 + w>> \o b) /\ i + 1 \in Nat
      BY <2>4, SMT
    <3> DEFINE h == <<128 + w>>
    <3>2. Holds(d, i + 1, h \o b) /\ h \in Seq(Nat) /\ Len(h) = 1
      BY <2>6, <3>1, Zenon
    <3> HIDE DEF h
    <3>3. Holds(d, i + 1, h) /\ Holds(d, i + 1 + Len(h), b)
      BY <2>3, <3>1, <3>2, HoldsJoin
    <3>4. Holds(d, i + 1, h) /\ Holds(d, i + 1 + 1, b)
      BY <3>2, <3>3, Zenon
    <3> QED
      BY <3>4, Zenon DEF h
  <2>8. d[i + 1] = 128 + w
    BY <2>6, <2>7 DEF Holds
  <2>9. SubSeq(d, i + 2, i + 1 + w) = b
    <3>1. SubSeq(d, i + 1 + 1, i + 1 + 1 + Len(b) - 1) = b
      BY <2>3, <2>7, HoldsPart
    <3> QED
      BY <2>1, <2>2, <3>1
  <2>10. i + 2 + w <= Len(d) + 1 /\ Len(d) \in Nat
    BY <2>2, <2>7 DEF Holds
  <2> DEFINE n == IF d[i + 1] >= 128 THEN d[i + 1] % 16 ELSE 0
  <2>11. n = w
    BY <2>1, <2>8, SMT
  <2>12. /\ ~(i + 1 > Len(d) \/ i + 1 + w > Len(d)) /\ ~(d[i + 1] < 128)
         /\ i + 2 + w = i + 1 + (1 + w)
    BY <2>1, <2>8, <2>10, SMT
  <2>13. TakeValid(d, i) =
          IF i + 1 > Len(d) \/ i + 1 + n > Len(d) THEN Fails
          ELSE [ok |-> TRUE, next |-> i + 2 + n,
                val |-> e * (IF d[i + 1] < 128 THEN d[i + 1]
                             ELSE LittleEndian(SubSeq(d, i + 2, i + 1 + n)))]
    BY Zenon DEF TakeValid
  <2>14. Len(f) = 1 + w
    <3> HIDE DEF f
    <3> QED
      BY <2>1, <2>2, <2>3, <2>4, <2>6
  <2> HIDE DEF n, e, f
  <2>15. TakeValid(d, i) = [ok |-> TRUE, next |-> i + 2 + w, val |-> e * len]
    BY <2>5, <2>9, <2>11, <2>12, <2>13, Zenon
  <2>16. TakeValid(d, i) = [ok |-> TRUE, next |-> i + 1 + Len(f), val |-> e * len]
    BY <2>12, <2>14, <2>15, Zenon
  <2> QED
    BY <2>16, Zenon DEF e, f
<1> QED
  BY <1>1, <1>4, <1>5, SMT

(* Two pieces, and the six of a string field, one behind the other.        *)
LEMMA JoinType ==
  ASSUME NEW D, NEW s \in Seq(D), NEW t \in Seq(D)
  PROVE  s \o t \in Seq(D) /\ Len(s \o t) = Len(s) + Len(t) /\ Len(s) \in Nat /\ Len(t) \in Nat
  OBVIOUS

(* The six parts of a packed string lie one behind the other.              *)
LEMMA SixPieces ==
  ASSUME NEW d \in Seq(Nat), NEW i \in Nat,
         NEW t \in Seq(Nat), NEW a \in Seq(Nat), NEW b \in Seq(Nat), NEW c \in Seq(Nat),
         NEW e \in Seq(Nat), NEW z \in Seq(Nat), Holds(d, i, t \o a \o b \o c \o e \o z)
  PROVE  /\ Holds(d, i, t) /\ Holds(d, i + Len(t), a)
         /\ Holds(d, i + Len(t) + Len(a), b) /\ Holds(d, i + Len(t) + Len(a) + Len(b), c)
         /\ Holds(d, i + Len(t) + Len(a) + Len(b) + Len(c), e)
         /\ i + Len(t \o a \o b \o c \o e \o z) <= Len(d) + 1
<1> DEFINE x1 == t \o a
           x2 == x1 \o b
           x3 == x2 \o c
           x4 == x3 \o e
<1>1. x1 \in Seq(Nat) /\ Len(x1) = Len(t) + Len(a) /\ Len(t) \in Nat /\ Len(a) \in Nat
  BY JoinType
<1> HIDE DEF x1
<1>2. x2 \in Seq(Nat) /\ Len(x2) = Len(x1) + Len(b) /\ Len(b) \in Nat
  BY <1>1, JoinType
<1> HIDE DEF x2
<1>3. x3 \in Seq(Nat) /\ Len(x3) = Len(x2) + Len(c) /\ Len(c) \in Nat
  BY <1>2, JoinType
<1> HIDE DEF x3
<1>4. x4 \in Seq(Nat)
  BY <1>3, JoinType
<1> HIDE DEF x4
<1>5. Holds(d, i, x4 \o z)
  BY Zenon DEF x1, x2, x3, x4
<1>6. Holds(d, i, x4)
  BY <1>4, <1>5, HoldsJoin, Zenon
<1>7. Holds(d, i, x3) /\ Holds(d, i + Len(x3), e)
  BY <1>3, <1>6, HoldsJoin, Zenon DEF x4
<1>8. Holds(d, i, x2) /\ Holds(d, i + Len(x2), c)
  BY <1>2, <1>7, HoldsJoin, Zenon DEF x3
<1>9. Holds(d, i, x1) /\ Holds(d, i + Len(x1), b)
  BY <1>1, <1>8, HoldsJoin, Zenon DEF x2
<1>10. Holds(d, i, t) /\ Holds(d, i + Len(t), a)
  BY <1>9, HoldsJoin, Zenon DEF x1
<1>11. /\ i + Len(x1) = i + Len(t) + Len(a) /\ i + Len(x2) = i + Len(t) + Len(a) + Len(b)
       /\ i + Len(x3) = i + Len(t) + Len(a) + Len(b) + Len(c)
  BY <1>1, <1>2, <1>3, SMT
<1>12. i + Len(t \o a \o b \o c \o e \o z) <= Len(d) + 1
  BY Zenon DEF Holds
<1> QED
  BY <1>7, <1>8, <1>9, <1>10, <1>11, <1>12, Zenon

(* The three types of string.                                              *)
LEMMA ElemSizes == ElemSize(85) = 1 /\ ElemSize(86) = 2 /\ ElemSize(87) = 4
  BY SMT DEF ElemSize

(* struct.pack of a string's elements.                                     *)
LEMMA LowByte ==
  ASSUME NEW x \in Nat, NEW y \in Nat \ {0}
  PROVE  (x \div y) % 256 \in Byte
<1>1. x \div y \in Nat
  BY SMT
<1> QED
  BY <1>1, SMT DEF Byte

(* The payload of a string is as many bytes as it has elements, times size.*)
LEMMA PayloadType ==
  ASSUME NEW size \in {1, 2, 4}, NEW val \in Seq(Nat)
  PROVE  /\ Payload(val, size) \in Seq(Byte)
         /\ Len(Payload(val, size)) = size * Len(val) /\ size * Len(val) \in Nat
<1> DEFINE n == size * Len(val)
           At(k) == (val[(k - 1) \div size + 1] \div Power256((k - 1) % size)) % 256
<1>0. Len(val) \in Nat
  OBVIOUS
<1>1. n \in Nat
  BY <1>0, SMT
<1>2. ASSUME NEW k \in 1 .. n PROVE At(k) \in Byte
  <2>1. (k - 1) % size \in 0 .. 3
    BY <1>1, SMT
  <2>2. (k - 1) \div size + 1 \in 1 .. Len(val)
    <3>1. CASE size = 1
      BY <1>0, <3>1, SMT
    <3>2. CASE size = 2
      BY <1>0, <3>2, SMT
    <3>3. CASE size = 4
      BY <1>0, <3>3, SMT
    <3> QED
      BY <3>1, <3>2, <3>3, SMT
  <2>3. val[(k - 1) \div size + 1] \in Nat
    BY <2>2
  <2>4. Power256((k - 1) % size) \in Nat \ {0}
    BY <2>1, PowersAre, SMT
  <2> QED
    BY <2>3, <2>4, LowByte, Zenon
<1>3. Payload(val, size) = [k \in 1 .. n |-> At(k)]
  BY Zenon DEF Payload
<1> HIDE DEF n, At
<1>4. Payload(val, size) \in [1 .. n -> Byte]
  BY <1>2, <1>3, Zenon
<1>5. Payload(val, size) \in Seq(Byte) /\ Len(Payload(val, size)) = n
  BY <1>1, <1>4
<1> QED
  BY <1>1, <1>5, Zenon DEF n

(* Elements of one byte are their own payload.                             *)
LEMMA PayloadOfBytes ==
  ASSUME NEW val \in Seq(Byte)
  PROVE  Payload(val, 1) = val
<1> DEFINE At(k) == (val[(k - 1) \div 1 + 1] \div Power256((k - 1) % 1)) % 256
<1>1. Len(val) \in Nat /\ \A k \in 1 .. Len(val) : val[k] \in Byte
  OBVIOUS
<1>2. \A k \in 1 .. Len(val) : (k - 1) \div 1 + 1 = k /\ (k - 1) % 1 = 0
  BY <1>1, SMT
<1>3. \A b \in Byte : (b \div 1) % 256 = b
  BY SMT DEF Byte
<1>4. Power256(0) = 1
  BY PowersAre, SMT
<1>5. \A k \in 1 .. Len(val) : At(k) = val[k]
  BY <1>1, <1>2, <1>3, <1>4, ZenonT(40)
<1>6. 1 * Len(val) = Len(val)
  BY <1>1, SMT
<1>7. Payload(val, 1) = [k \in 1 .. 1 * Len(val) |-> At(k)]
  BY Zenon DEF Payload
<1> HIDE DEF At
<1>8. Payload(val, 1) = [k \in 1 .. Len(val) |-> val[k]]
  BY <1>5, <1>6, <1>7, Zenon
<1>9. val = [k \in 1 .. Len(val) |-> val[k]]
  OBVIOUS
<1> QED
  BY <1>8, <1>9, Zenon

(* The type byte of a string of elements of this size.                     *)
StringOf(size) == CASE size = 1 -> 85 [] size = 2 -> 86 [] size = 4 -> 87

(* A string field that is packed without an exception and can be read.     *)
StringFits(f, val) ==
  /\ f.size \in {1, 2, 4} /\ f.len \in Nat
  /\ val \in Seq(Numbers(f.size)) /\ Len(val) <= f.len
  /\ f.len * f.size \in Numbers(4) /\ Readable(Len(val))

(* The type that _pack_string writes gives back the element size.          *)
LEMMA StringTypes ==
  ASSUME NEW size \in {1, 2, 4}
  PROVE  StringOf(size) \in {85, 86, 87} /\ ElemSize(StringOf(size)) = size
<1>1. StringOf(1) = 85 /\ StringOf(2) = 86 /\ StringOf(4) = 87
  BY SMT DEF StringOf
<1> QED
  BY <1>1, ElemSizes, ZenonT(40)

(* The pieces of a string field.                                           *)
LEMMA StringPieces ==
  ASSUME NEW f, NEW val, StringFits(f, val)
  PROVE  LET padding == (f.len - Len(val)) * f.size
         IN /\ val \in Seq(Nat) /\ Len(val) \in Nat
            /\ padding \in Numbers(4) /\ padding \in Nat
            /\ f.size * Len(val) \in Nat
            /\ f.len * f.size = f.size * Len(val) + padding
            /\ <<StringOf(f.size)>> \in Seq(Byte) /\ Len(<<StringOf(f.size)>>) = 1
            /\ ValidField(Len(val)) \in Seq(Byte) /\ Len(ValidField(Len(val))) \in Nat
            /\ asn_int4(f.len * f.size) \in Seq(Byte) /\ Len(asn_int4(f.len * f.size)) = 6
            /\ asn_int4(padding) \in Seq(Byte) /\ Len(asn_int4(padding)) = 6
            /\ Payload(val, f.size) \in Seq(Byte)
            /\ Len(Payload(val, f.size)) = f.size * Len(val)
            /\ Zeros(padding) \in Seq(Byte) /\ Len(Zeros(padding)) = padding
<1> DEFINE padding == (f.len - Len(val)) * f.size
           n == Len(val)
           size == f.size
           len == f.len
<1>1. /\ size \in {1, 2, 4} /\ len \in Nat /\ val \in Seq(Numbers(size)) /\ n <= len
      /\ len * size \in Numbers(4) /\ Readable(n)
  BY Zenon DEF StringFits
<1>2. val \in Seq(Nat) /\ n \in Nat
  <2>1. \A k \in 1 .. Len(val) : val[k] \in Numbers(size)
    BY <1>1
  <2>2. \A x \in Numbers(size) : x \in Nat
    BY Zenon DEF Numbers
  <2>3. \A k \in 1 .. Len(val) : val[k] \in Nat
    BY <2>1, <2>2, Zenon
  <2>4. val = [k \in 1 .. Len(val) |-> val[k]] /\ Len(val) \in Nat
    BY <1>1
  <2> QED
    BY <2>3, <2>4
<1> HIDE DEF n, size, len
<1>3. /\ (len - n) * size \in Nat /\ len * size = size * n + (len - n) * size /\ size * n \in Nat
      /\ (len - n) * size <= len * size
  <2>1. len - n \in Nat
    BY <1>1, <1>2, SMT
  <2>2. CASE size = 1
    BY <1>1, <1>2, <2>1, <2>2, SMT
  <2>3. CASE size = 2
    BY <1>1, <1>2, <2>1, <2>3, SMT
  <2>4. CASE size = 4
    BY <1>1, <1>2, <2>1, <2>4, SMT
  <2> QED
    BY <1>1, <2>2, <2>3, <2>4, Zenon
<1>4. padding = (len - n) * size
  BY Zenon DEF n, size, len
<1> HIDE DEF padding
<1>5. padding \in Nat /\ padding \in Numbers(4)
  <2>1. len * size \in Nat /\ len * size < 256 * Power256(4 - 1)
    BY <1>1, Zenon DEF Numbers
  <2>2. Power256(4 - 1) \in Nat
    BY PowersAre, SMT
  <2>3. padding \in Nat /\ padding < 256 * Power256(4 - 1)
    BY <1>3, <1>4, <2>1, <2>2, SMT
  <2> QED
    BY <2>3, Zenon DEF Numbers
<1>6. <<StringOf(size)>> \in Seq(Byte) /\ Len(<<StringOf(size)>>) = 1
  <2>1. StringOf(size) \in Byte
    <3>1. \A x \in {85, 86, 87} : x \in Byte
      BY SMT DEF Byte
    <3> QED
      BY <1>1, <3>1, StringTypes, Zenon
  <2> QED
    BY <2>1
<1>7. ValidField(n) \in Seq(Byte) /\ Len(ValidField(n)) \in Nat
  <2>1. ValidField(n) \in Seq(Byte)
    BY <1>1, ValidFieldType, Zenon
  <2> QED
    BY <2>1
<1>8. \A x \in Nat : asn_int4(x) \in Seq(Byte) /\ Len(asn_int4(x)) = 6
  <2>1. 4 \in {1, 2, 4} /\ 4 + 2 = 6
    BY SMT
  <2> QED
    BY <2>1, AsnIntType, Zenon DEF asn_int4
<1>9. len * size \in Nat
  BY <1>1, Zenon DEF Numbers
<1>10. /\ Payload(val, size) \in Seq(Byte)
       /\ Len(Payload(val, size)) = size * n
  BY <1>1, <1>2, PayloadType, Zenon DEF n
<1>11. Zeros(padding) \in Seq(Byte) /\ Len(Zeros(padding)) = padding
  <2>1. Zeros(padding) \in [1 .. padding -> Byte]
    BY DEF Zeros, Byte
  <2> HIDE DEF Byte
  <2> QED
    BY <1>5, <2>1
<1>12. len * size = size * n + padding
  BY <1>3, <1>4, Zenon
<1> QED
  BY <1>2, <1>3, <1>5, <1>6, <1>7, <1>8, <1>9, <1>10, <1>11, <1>12, Zenon DEF n, size, len, padding

(* The bytes of a string field.                                            *)
LEMMA StringType ==
  ASSUME NEW f, NEW val, StringFits(f, val)
  PROVE  LET padding == (f.len - Len(val)) * f.size
         IN /\ PackString(val, f) \in Seq(Byte)
            /\ Len(PackString(val, f)) =
                 1 + Len(ValidField(Len(val))) + 6 + 6 + f.size * Len(val) + padding
<1> DEFINE padding == (f.len - Len(val)) * f.size
           t == <<StringOf(f.size)>>
           a == ValidField(Len(val))
           b == asn_int4(f.len * f.size)
           c == asn_int4(padding)
           e == Payload(val, f.size)
           z == Zeros(padding)
           n == f.size * Len(val)
           count == f.len * f.size
<1>1. /\ t \in Seq(Byte) /\ Len(t) = 1 /\ a \in Seq(Byte) /\ Len(a) \in Nat
      /\ b \in Seq(Byte) /\ Len(b) = 6 /\ c \in Seq(Byte) /\ Len(c) = 6
      /\ e \in Seq(Byte) /\ Len(e) = n /\ z \in Seq(Byte) /\ Len(z) = padding
      /\ n \in Nat /\ padding \in Nat /\ padding \in Numbers(4) /\ count = n + padding
  BY StringPieces, Zenon
<1>2. PackString(val, f) = t \o a \o b \o c \o e \o z
  BY Zenon DEF PackString, StringOf
<1> HIDE DEF t, a, b, c, e, z, padding, n, count
<1> DEFINE x1 == t \o a
           x2 == x1 \o b
           x3 == x2 \o c
           x4 == x3 \o e
           x5 == x4 \o z
<1>x1. x1 \in Seq(Byte) /\ Len(x1) = Len(t) + Len(a)
  BY <1>1, JoinType, Zenon
<1> HIDE DEF x1
<1>x2. x2 \in Seq(Byte) /\ Len(x2) = Len(x1) + Len(b)
  BY <1>1, <1>x1, JoinType, Zenon
<1> HIDE DEF x2
<1>x3. x3 \in Seq(Byte) /\ Len(x3) = Len(x2) + Len(c)
  BY <1>1, <1>x2, JoinType, Zenon
<1> HIDE DEF x3
<1>x4. x4 \in Seq(Byte) /\ Len(x4) = Len(x3) + Len(e)
  BY <1>1, <1>x3, JoinType, Zenon
<1> HIDE DEF x4
<1>x5. x5 \in Seq(Byte) /\ Len(x5) = Len(x4) + Len(z)
  BY <1>1, <1>x4, JoinType, Zenon
<1> HIDE DEF x5
<1>x6. Len(x5) = 1 + Len(a) + 6 + 6 + n + padding
  BY <1>1, <1>x1, <1>x2, <1>x3, <1>x4, <1>x5, SMT
<1> QED
  BY <1>2, <1>x5, <1>x6, Zenon DEF x1, x2, x3, x4, x5, a, n, padding

(* take_string reads what _pack_string wrote.                              *)
LEMMA StringRead ==
  ASSUME NEW d \in Seq(Nat), NEW i \in Nat \ {0}, NEW f, NEW val, StringFits(f, val),
         Holds(d, i, PackString(val, f))
  PROVE  /\ PackString(val, f) \in Seq(Byte)
         /\ d[i] \in {85, 86, 87}
         /\ TakeString(d, i) = [ok |-> TRUE, val |-> Payload(val, f.size),
                                next |-> i + Len(PackString(val, f))]
<1> DEFINE padding == (f.len - Len(val)) * f.size
           t == <<StringOf(f.size)>>
           a == ValidField(Len(val))
           b == asn_int4(f.len * f.size)
           c == asn_int4(padding)
           e == Payload(val, f.size)
           z == Zeros(padding)
           n == f.size * Len(val)
           count == f.len * f.size
<1>1. /\ t \in Seq(Byte) /\ Len(t) = 1 /\ a \in Seq(Byte) /\ Len(a) \in Nat
      /\ b \in Seq(Byte) /\ Len(b) = 6 /\ c \in Seq(Byte) /\ Len(c) = 6
      /\ e \in Seq(Byte) /\ Len(e) = n /\ z \in Seq(Byte) /\ Len(z) = padding
      /\ n \in Nat /\ padding \in Nat /\ padding \in Numbers(4) /\ count = n + padding
  BY StringPieces, Zenon
<1>2. PackString(val, f) = t \o a \o b \o c \o e \o z
  BY Zenon DEF PackString, StringOf
<1>3. count \in Numbers(4) /\ f.size \in {1, 2, 4} /\ Readable(Len(val))
  BY Zenon DEF StringFits
<1>4. t[1] = StringOf(f.size)
  OBVIOUS
<1>5. /\ b = AsnInt(4, count) /\ c = AsnInt(4, padding)
  BY Zenon DEF asn_int4
<1>6. StringOf(f.size) \in {85, 86, 87} /\ ElemSize(StringOf(f.size)) = f.size
  BY <1>3, StringTypes, Zenon
<1>7. a = ValidField(Len(val))
  OBVIOUS
<1>n. n = f.size * Len(val)
  OBVIOUS
<1> HIDE DEF t, a, b, c, e, z, padding, n, count
<1>8. /\ t \in Seq(Nat) /\ a \in Seq(Nat) /\ b \in Seq(Nat) /\ c \in Seq(Nat) /\ e \in Seq(Nat)
      /\ z \in Seq(Nat)
  BY <1>1, BytesAreNats, Zenon
<1>9. /\ Holds(d, i, t) /\ Holds(d, i + Len(t), a)
      /\ Holds(d, i + Len(t) + Len(a), b) /\ Holds(d, i + Len(t) + Len(a) + Len(b), c)
      /\ Holds(d, i + Len(t) + Len(a) + Len(b) + Len(c), e)
      /\ i + Len(PackString(val, f)) <= Len(d) + 1
  <2>1. Holds(d, i, t \o a \o b \o c \o e \o z) /\ i \in Nat
    BY <1>2, Zenon
  <2> QED
    BY <1>2, <1>8, <2>1, SixPieces, ZenonT(40)
<1>10. /\ PackString(val, f) \in Seq(Byte)
       /\ Len(PackString(val, f)) = 1 + Len(a) + 6 + 6 + n + padding
  BY StringType, Zenon DEF a, n, padding
<1>11. d[i] = StringOf(f.size) /\ i <= Len(d)
  <2>1. i + 1 <= Len(d) + 1 /\ d[i + 1 - 1] = t[1] /\ Len(d) \in Nat
    BY <1>1, <1>9, SMT DEF Holds
  <2> QED
    BY <1>4, <2>1, SMT
<1> DEFINE j == i + 1 + Len(a)
<1>12. j \in Nat \ {0} /\ j + 6 \in Nat \ {0} /\ j + 12 \in Nat \ {0}
  BY <1>1, SMT
<1>13. /\ Holds(d, i + 1, a) /\ Holds(d, j, b) /\ Holds(d, j + 6, c) /\ Holds(d, j + 12, e)
  <2>1. /\ i + Len(t) = i + 1 /\ i + Len(t) + Len(a) = j
        /\ i + Len(t) + Len(a) + Len(b) = j + 6
        /\ i + Len(t) + Len(a) + Len(b) + Len(c) = j + 12
    BY <1>1, SMT
  <2> HIDE DEF j
  <2> QED
    BY <1>9, <2>1, Zenon
<1>14. TakeValid(d, i) = [ok |-> TRUE, next |-> j, val |-> n]
  <2>1. TakeValid(d, i) = [ok |-> TRUE, next |-> i + 1 + Len(ValidField(Len(val))),
                           val |-> ElemSize(d[i]) * Len(val)]
    BY <1>3, <1>7, <1>13, ValidRead, Zenon
  <2> QED
    BY <1>6, <1>7, <1>11, <1>n, <2>1, Zenon
<1>15. i + Len(PackString(val, f)) = j + 12 + n + padding
  BY <1>1, <1>10, SMT
<1> HIDE DEF j
<1>16. TakeAsnInt(d, j) = [ok |-> TRUE, val |-> count, next |-> j + 6]
  <2>1. 4 \in {1, 2, 4} /\ j + 2 + 4 = j + 6
    BY <1>12, SMT
  <2>2. Holds(d, j, AsnInt(4, count))
    BY <1>5, <1>13, Zenon
  <2>3. TakeAsnInt(d, j) = [ok |-> TRUE, val |-> count, next |-> j + 2 + 4]
    BY <1>3, <1>12, <2>1, <2>2, AsnIntRead, Zenon
  <2> QED
    BY <2>1, <2>3, Zenon
<1>17. TakeAsnInt(d, j + 6) = [ok |-> TRUE, val |-> padding, next |-> j + 12]
  <2>1. 4 \in {1, 2, 4} /\ j + 6 + 2 + 4 = j + 12
    BY <1>12, SMT
  <2>2. Holds(d, j + 6, AsnInt(4, padding))
    BY <1>5, <1>13, Zenon
  <2>3. TakeAsnInt(d, j + 6) = [ok |-> TRUE, val |-> padding, next |-> j + 6 + 2 + 4]
    BY <1>1, <1>12, <2>1, <2>2, AsnIntRead, Zenon
  <2> QED
    BY <2>1, <2>3, Zenon
<1>18. SubSeq(d, j + 12, j + 12 + n - 1) = e
  <2>1. SubSeq(d, j + 12, j + 12 + Len(e) - 1) = e
    BY <1>8, <1>12, <1>13, HoldsPart, Zenon
  <2> QED
    BY <1>1, <2>1, Zenon
<1>19. ~(j + 12 + n + padding > Len(d) + 1)
  <2>1. j + 12 + n + padding <= Len(d) + 1 /\ j + 12 + n + padding \in Nat /\ Len(d) \in Nat
    BY <1>1, <1>9, <1>12, <1>15, SMT
  <2> QED
    BY <2>1, SMT
<1> DEFINE rv == [ok |-> TRUE, next |-> j, val |-> n]
           rc == [ok |-> TRUE, val |-> count, next |-> j + 6]
           rp == [ok |-> TRUE, val |-> padding, next |-> j + 12]
           res == [ok |-> TRUE, val |-> e, next |-> j + 12 + n + padding]
<1>20. /\ rv.ok = TRUE /\ rv.next = j /\ rv.val = n
       /\ rc.ok = TRUE /\ rc.val = count /\ rc.next = j + 6
       /\ rp.ok = TRUE /\ rp.val = padding /\ rp.next = j + 12
  BY Zenon
<1> HIDE DEF rv, rc, rp
<1>21. StringPayload(d, rv, rc, rp) = res
  BY <1>1, <1>18, <1>19, <1>20, Zenon DEF StringPayload
<1>22. StringPadding(d, rv, rc) = res
  BY <1>17, <1>20, <1>21, Zenon DEF StringPadding, rp
<1>23. StringCount(d, rv) = res
  BY <1>16, <1>20, <1>22, Zenon DEF StringCount, rc
<1>24. TakeString(d, i) = res
  BY <1>6, <1>11, <1>14, <1>23, ZenonT(40) DEF TakeString, rv
<1> QED
  BY <1>6, <1>10, <1>11, <1>15, <1>24, ZenonT(40) DEF e

(* What the decoders take is not empty and ends inside the data.           *)
LEMMA AsnIntBounds ==
  ASSUME NEW d \in Seq(Nat), NEW i \in Nat \ {0}, TakeAsnInt(d, i).ok
  PROVE  LET f == TakeAsnInt(d, i)
         IN f.val \in Nat /\ f.next \in Nat /\ f.next > i /\ f.next <= Len(d) + 1
<1> DEFINE C == i + 1 <= Len(d) /\ d[i] = 2 /\ i + 1 + d[i + 1] <= Len(d)
           s == SubSeq(d, i + 2, i + 1 + d[i + 1])
<1>1. C
  <2>1. ~C => TakeAsnInt(d, i) = Fails
    BY Zenon DEF TakeAsnInt
  <2>2. ~Fails.ok
    BY DEF Fails
  <2> QED
    BY <2>1, <2>2, Zenon
<1>2. TakeAsnInt(d, i) = [ok |-> TRUE, val |-> BigEndian(s), next |-> i + 2 + d[i + 1]]
  BY <1>1, Zenon DEF TakeAsnInt
<1>3. i + 1 \in 1 .. Len(d) /\ d[i + 1] \in Nat
  BY <1>1
<1>4. s \in Seq(Nat)
  BY <1>1, <1>3, SMTT(30)
<1> HIDE DEF s
<1>5. BigEndian(s) \in Nat
  BY <1>4, BigEndianNat
<1> QED
  BY <1>1, <1>2, <1>3, <1>5, SMTT(30)

(* Reversing keeps the type.                                               *)
LEMMA ReverseNats ==
  ASSUME NEW s \in Seq(Nat)
  PROVE  Reverse(s) \in Seq(Nat)
<1>1. Len(s) \in Nat /\ \A k \in 1 .. Len(s) : s[k] \in Nat
  OBVIOUS
<1>2. \A k \in 1 .. Len(s) : s[(Len(s) - k) + 1] \in Nat
  BY <1>1
<1> QED
  BY <1>1, <1>2 DEF Reverse

(* The length field of a string is read forwards.                          *)
LEMMA ValidBounds ==
  ASSUME NEW d \in Seq(Nat), NEW i \in 1 .. Len(d), d[i] \in {85, 86, 87}, TakeValid(d, i).ok
  PROVE  LET v == TakeValid(d, i)
         IN v.val \in Nat /\ v.next \in Nat /\ v.next > i
<1> DEFINE n == IF d[i + 1] >= 128 THEN d[i + 1] % 16 ELSE 0
           s == SubSeq(d, i + 2, i + 1 + n)
           C == i + 1 > Len(d) \/ i + 1 + n > Len(d)
           w == IF d[i + 1] < 128 THEN d[i + 1] ELSE LittleEndian(s)
<1>1. ~C
  <2>1. C => TakeValid(d, i) = Fails
    BY Zenon DEF TakeValid
  <2>2. ~Fails.ok
    BY DEF Fails
  <2> QED
    BY <2>1, <2>2, Zenon
<1>2. TakeValid(d, i) = [ok |-> TRUE, next |-> i + 2 + n, val |-> ElemSize(d[i]) * w]
  BY <1>1, Zenon DEF TakeValid
<1>3. Len(d) \in Nat /\ i \in Nat \ {0} /\ i + 1 \in 1 .. Len(d) /\ d[i + 1] \in Nat
  BY <1>1
<1>4. n \in Nat /\ i + 1 + n <= Len(d)
  BY <1>1, <1>3
<1>5. s \in Seq(Nat)
  <2> HIDE DEF n
  <2> QED
    BY <1>3, <1>4
<1>6. LittleEndian(s) \in Nat
  <2> HIDE DEF s
  <2>1. Reverse(s) \in Seq(Nat)
    BY <1>5, ReverseNats
  <2> QED
    BY <2>1, BigEndianNat DEF LittleEndian
<1>7. w \in Nat
  BY <1>3, <1>6, Zenon
<1>8. ElemSize(d[i]) \in Nat
  BY ElemSizes
<1> DEFINE e == ElemSize(d[i])
           x == e * w
<1> HIDE DEF n, w
<1>9. x \in Nat
  <2> HIDE DEF e
  <2> QED
    BY <1>7, <1>8 DEF e
<1>10. TakeValid(d, i) = [ok |-> TRUE, next |-> i + 2 + n, val |-> x]
  BY <1>2
<1> HIDE DEF x
<1> QED
  BY <1>3, <1>4, <1>9, <1>10

(* take_string goes forwards and stays in the data.                        *)
LEMMA StringBounds ==
  ASSUME NEW d \in Seq(Nat), NEW i \in 1 .. Len(d), TakeString(d, i).ok
  PROVE  LET f == TakeString(d, i)
         IN f.next \in Nat /\ f.next > i /\ f.next <= Len(d) + 1
<1> DEFINE v == TakeValid(d, i)
           c == TakeAsnInt(d, v.next)
           p == TakeAsnInt(d, c.next)
<1>0. ~Fails.ok
  BY DEF Fails
<1>1. d[i] \in {85, 86, 87} /\ TakeString(d, i) = StringCount(d, v)
  BY <1>0, Zenon DEF TakeString
<1>2. v.ok /\ StringCount(d, v) = StringPadding(d, v, c)
  <2> HIDE DEF v
  <2> QED
    BY <1>0, <1>1, Zenon DEF StringCount
<1>3. v.val \in Nat /\ v.next \in Nat /\ v.next > i
  BY <1>1, <1>2, ValidBounds, Zenon
<1>4. c.ok /\ StringPadding(d, v, c) = StringPayload(d, v, c, p)
  <2> HIDE DEF v, c
  <2> QED
    BY <1>0, <1>1, <1>2, Zenon DEF StringPadding
<1>5. c.next \in Nat /\ c.next > v.next
  <2> HIDE DEF v
  <2>1. v.next \in Nat \ {0}
    BY <1>3
  <2> QED
    BY <1>4, <2>1, AsnIntBounds, Zenon
<1> DEFINE C == ~p.ok \/ (c.val # 0 /\ c.val # v.val + p.val) \/ p.next + v.val + p.val > Len(d) + 1
<1>6. ~C
  <2> HIDE DEF v, c, p
  <2>1. C => StringPayload(d, v, c, p) = Fails
    BY Zenon DEF StringPayload
  <2> HIDE DEF C
  <2> SUFFICES ASSUME C PROVE FALSE
    BY Zenon
  <2>2. TakeString(d, i) = Fails
    BY <1>1, <1>2, <1>4, <2>1, Zenon
  <2> QED
    BY <1>0, <2>2, Zenon
<1>7. p.ok /\ ~(p.next + v.val + p.val > Len(d) + 1)
  BY <1>6, Zenon
<1>8. TakeString(d, i) = [ok |-> TRUE, val |-> SubSeq(d, p.next, p.next + v.val - 1),
                          next |-> p.next + v.val + p.val]
  <2> HIDE DEF v, c, p
  <2>1. ~C => StringPayload(d, v, c, p) = [ok |-> TRUE, val |-> SubSeq(d, p.next, p.next + v.val - 1),
                                           next |-> p.next + v.val + p.val]
    BY Zenon DEF StringPayload
  <2> QED
    BY <1>1, <1>2, <1>4, <1>6, <2>1, Zenon
<1>9. p.val \in Nat /\ p.next \in Nat /\ p.next > c.next
  <2> HIDE DEF v, c
  <2>1. c.next \in Nat \ {0}
    BY <1>3, <1>5
  <2> QED
    BY <1>7, <2>1, AsnIntBounds, Zenon
<1> HIDE DEF v, c, p
<1>10. TakeString(d, i).next = p.next + v.val + p.val
  BY <1>8
<1>11. Len(d) \in Nat /\ i \in Nat
  OBVIOUS
<1>12. /\ p.next + v.val + p.val \in Nat /\ p.next + v.val + p.val > i
       /\ p.next + v.val + p.val <= Len(d) + 1
  <2> DEFINE x == p.next
             y == v.val
             z == p.val
             m == Len(d)
             vn == v.next
             cn == c.next
  <2>1. /\ x \in Nat /\ y \in Nat /\ z \in Nat /\ m \in Nat /\ vn \in Nat /\ cn \in Nat
        /\ vn > i /\ cn > vn /\ x > cn /\ ~(x + y + z > m + 1)
    BY <1>3, <1>5, <1>7, <1>9, <1>11, Zenon
  <2> HIDE DEF x, y, z, m, vn, cn
  <2>2. x + y + z \in Nat /\ x + y + z > i /\ x + y + z <= m + 1
    BY <1>11, <2>1
  <2> QED
    BY <2>2, Zenon DEF x, y, z, m
<1> QED
  BY <1>10, <1>12, Zenon

(* Every field that is taken advances, within the data: the loop of        *)
(* unpack_unknown ends.                                                    *)
LEMMA FieldBounds ==
  ASSUME NEW d \in Seq(Nat), NEW i \in 1 .. Len(d), TakeField(d, i).ok
  PROVE  TakeField(d, i).next \in i + 1 .. Len(d) + 1
<1>0. i \in Nat \ {0} /\ Len(d) \in Nat
  OBVIOUS
<1>1. /\ d[i] = 2 => TakeField(d, i) = TakeAsnInt(d, i)
      /\ d[i] # 2 => TakeField(d, i) = TakeString(d, i)
  BY Zenon DEF TakeField
<1> DEFINE f == TakeField(d, i)
<1>2. f.next \in Nat /\ f.next > i /\ f.next <= Len(d) + 1
  BY <1>0, <1>1, AsnIntBounds, StringBounds, Zenon
<1> HIDE DEF f
<1>3. f.next \in i + 1 .. Len(d) + 1
  BY <1>0, <1>2
<1> QED
  BY <1>3, Zenon DEF f

(* unpack_unknown goes from each field to the next, to the end.            *)
LEMMA UnpackSteps ==
  ASSUME NEW d \in Seq(Nat)
  PROVE  \E p : /\ UnpackUnknown(d) = p[1]
                /\ p[Len(d) + 1] = [ok |-> TRUE, val |-> <<>>]
                /\ \A i \in 1 .. Len(d) :
                     LET f == TakeField(d, i)
                     IN f.ok => p[i] = [ok |-> p[f.next].ok, val |-> <<f.val>> \o p[f.next].val]
<1> DEFINE n == Len(d)
           T(i) == TakeField(d, i)
           done == [ok |-> TRUE, val |-> <<>>]
           Entry(g, i) == IF i = n + 1 THEN done
                         ELSE IF T(i).ok THEN [ok |-> g[T(i).next].ok,
                                               val |-> <<T(i).val>> \o g[T(i).next].val]
                                         ELSE [ok |-> FALSE, val |-> <<>>]
           Eq(g) == g = [i \in 1 .. n + 1 |-> Entry(g, i)]
           Good(g, m) == \A i \in n + 1 - m .. n + 1 : g[i] = Entry(g, i)
           S == {m \in 0 .. n : \E g : Good(g, m)}
           p == CHOOSE g : Eq(g)
<1>0. n \in Nat
  OBVIOUS
<1>1. \A i \in 1 .. n : T(i).ok => T(i).next \in i + 1 .. n + 1
  BY FieldBounds, Zenon
<1>2. UnpackUnknown(d) = p[1]
  BY Zenon DEF UnpackUnknown
<1> HIDE DEF n, T, done
(* Entry looks only further on.                                             *)
<1>3. ASSUME NEW g, NEW h, NEW i \in 1 .. n + 1, \A j \in i + 1 .. n + 1 : g[j] = h[j]
      PROVE  Entry(g, i) = Entry(h, i)
  <2>1. CASE i = n + 1
    BY <2>1, Zenon
  <2>2. CASE i # n + 1 /\ T(i).ok
    <3>1. i \in 1 .. n
      BY <1>0, <2>2
    <3>2. g[T(i).next] = h[T(i).next]
      BY <1>1, <1>3, <2>2, <3>1, Zenon
    <3> QED
      BY <3>2, Zenon
  <2>3. CASE i # n + 1 /\ ~T(i).ok
    BY <2>3, Zenon
  <2> QED
    BY <2>1, <2>2, <2>3, Zenon
<1> HIDE DEF Entry
<1>4. 0 \in S
  <2> DEFINE g == [i \in {n + 1} |-> Entry(<<>>, i)]
  <2>1. \A i \in n + 1 - 0 .. n + 1 : i = n + 1 /\ i \in 1 .. n + 1
    BY <1>0
  <2>2. g[n + 1] = Entry(<<>>, n + 1)
    OBVIOUS
  <2>3. Entry(<<>>, n + 1) = Entry(g, n + 1)
    <3> HIDE DEF g
    <3>1. n + 1 \in 1 .. n + 1 /\ \A j \in (n + 1) + 1 .. n + 1 : FALSE
      BY <1>0
    <3> QED
      BY <1>3, <3>1, Zenon
  <2> HIDE DEF g
  <2>4. Good(g, 0)
    BY <2>1, <2>2, <2>3, Zenon
  <2> QED
    BY <1>0, <2>4
<1>5. \A m \in 1 .. n : m - 1 \in S => m \in S
  <2> SUFFICES ASSUME NEW m \in 1 .. n, m - 1 \in S PROVE m \in S
    OBVIOUS
  <2>1. PICK g : Good(g, m - 1)
    OBVIOUS
  <2> DEFINE a == n + 1 - m
             h == [i \in 1 .. n + 1 |-> IF i = a THEN Entry(g, a) ELSE g[i]]
  <2>2. a \in 1 .. n /\ \A i \in a .. n + 1 : i \in 1 .. n + 1 /\ (i = a \/ i \in n + 1 - (m - 1) .. n + 1)
    BY <1>0
  <2>3. h[a] = Entry(g, a) /\ \A j \in a + 1 .. n + 1 : h[j] = g[j]
    <3>1. a \in 1 .. n + 1 /\ \A j \in a + 1 .. n + 1 : j # a /\ j \in 1 .. n + 1
      BY <1>0
    <3> HIDE DEF a
    <3> QED
      BY <3>1, Zenon
  <2> HIDE DEF a, h
  <2>4. \A i \in a .. n + 1 : Entry(h, i) = Entry(g, i)
    <3> SUFFICES ASSUME NEW i \in a .. n + 1 PROVE Entry(h, i) = Entry(g, i)
      BY Zenon
    <3>1. \A j \in i + 1 .. n + 1 : j \in a + 1 .. n + 1
      BY <1>0, <2>2
    <3>2. i \in 1 .. n + 1 /\ \A j \in i + 1 .. n + 1 : h[j] = g[j]
      BY <2>2, <2>3, <3>1, Zenon
    <3> QED
      BY <1>3, <3>2, Zenon
  <2>5. \A i \in a .. n + 1 : h[i] = Entry(h, i)
    <3> SUFFICES ASSUME NEW i \in a .. n + 1 PROVE h[i] = Entry(h, i)
      BY Zenon
    <3>1. CASE i = a
      BY <2>3, <2>4, <3>1, Zenon
    <3>2. CASE i # a
      <4>1. i \in n + 1 - (m - 1) .. n + 1 /\ i \in a + 1 .. n + 1
        BY <1>0, <2>2, <3>2
      <4> QED
        BY <2>1, <2>3, <2>4, <4>1, Zenon
    <3> QED
      BY <3>1, <3>2, Zenon
  <2>6. Good(h, m)
    BY <2>5 DEF a
  <2> QED
    BY <1>0, <2>6
<1>6. n \in S
  <2> HIDE DEF S
  <2>1. \A k \in 0 .. n : k \in S
    BY <1>0, <1>4, <1>5, UpTo
  <2> QED
    BY <1>0, <2>1
<1>7. PICK g : Good(g, n)
  BY <1>6
<1>8. \E h : Eq(h)
  <2> DEFINE h == [i \in 1 .. n + 1 |-> Entry(g, i)]
  <2>1. \A i \in 1 .. n + 1 : g[i] = Entry(g, i)
    BY <1>0, <1>7
  <2>2. \A i \in 1 .. n + 1 : h[i] = g[i]
    BY <2>1, Zenon
  <2>3. \A i \in 1 .. n + 1 : Entry(h, i) = Entry(g, i)
    <3> SUFFICES ASSUME NEW i \in 1 .. n + 1 PROVE Entry(h, i) = Entry(g, i)
      BY Zenon
    <3> HIDE DEF h
    <3>1. \A j \in i + 1 .. n + 1 : j \in 1 .. n + 1
      BY <1>0
    <3>2. \A j \in i + 1 .. n + 1 : h[j] = g[j]
      BY <2>2, <3>1, Zenon
    <3> QED
      BY <1>3, <3>2, Zenon
  <2>4. h = [i \in 1 .. n + 1 |-> Entry(h, i)]
    BY <2>3, Zenon
  <2> HIDE DEF h
  <2> QED
    BY <2>4, Zenon
<1>9. Eq(p)
  <2> HIDE DEF Eq
  <2> QED
    BY <1>8, Zenon
<1>10. \A i \in 1 .. n + 1 : p[i] = Entry(p, i)
  <2> HIDE DEF p
  <2> QED
    BY <1>9, Zenon
<1> HIDE DEF p
<1>11. p[n + 1] = done
  <2>1. n + 1 \in 1 .. n + 1
    BY <1>0
  <2> QED
    BY <1>10, <2>1, Zenon DEF Entry
<1>12. \A i \in 1 .. n : T(i).ok => p[i] = [ok |-> p[T(i).next].ok, val |-> <<T(i).val>> \o p[T(i).next].val]
  <2> SUFFICES ASSUME NEW i \in 1 .. n, T(i).ok
               PROVE  p[i] = [ok |-> p[T(i).next].ok, val |-> <<T(i).val>> \o p[T(i).next].val]
    BY Zenon
  <2>1. i \in 1 .. n + 1 /\ i # n + 1
    BY <1>0
  <2> QED
    BY <1>10, <2>1, Zenon DEF Entry
<1> QED
  BY <1>2, <1>11, <1>12, Zenon DEF n, T, done

-----------------------------------------------------------------------------
(* Whole messages.                                                         *)

(* An argument that pack accepts for a format item, and take_string reads. *)
FieldFits(f, v) ==
  \/ f.ch = "B" /\ v \in Numbers(1)
  \/ f.ch = "H" /\ v \in Numbers(2)
  \/ f.ch = "L" /\ v \in Numbers(4)
  \/ f.ch = "s" /\ StringFits(f, v)

(* What is read back: a string of wider elements as its bytes.             *)
FieldVal(f, v)        == IF f.ch = "s" THEN Payload(v, f.size) ELSE v
FieldVals(fmt, args)  == [k \in 1 .. Len(fmt) |-> FieldVal(fmt[k], args[k])]

Fits(fmt, args) == \A k \in 1 .. Len(fmt) : FieldFits(fmt[k], args[k])

(* Numbers that fit are naturals.                                          *)
LEMMA NumbersAreNats ==
  ASSUME NEW v, NEW n \in {1, 2, 4}, v \in Numbers(n)
  PROVE  v \in Nat
  BY SMT DEF Numbers

(* The four kinds of fields.                                               *)
LEMMA PackFieldIs ==
  ASSUME NEW f, NEW v
  PROVE  /\ f.ch = "B" => PackField(f, v) = AsnInt(1, v)
         /\ f.ch = "H" => PackField(f, v) = AsnInt(2, v)
         /\ f.ch = "L" => PackField(f, v) = AsnInt(4, v)
         /\ f.ch = "s" => PackField(f, v) = PackString(v, f)
<1> DEFINE c == f.ch
<1>1. c = "B" => c # "H" /\ c # "L" /\ c # "s"
  OBVIOUS
<1>2. c = "H" => c # "B" /\ c # "L" /\ c # "s"
  OBVIOUS
<1>3. c = "L" => c # "H" /\ c # "B" /\ c # "s"
  OBVIOUS
<1>4. c = "s" => c # "H" /\ c # "L" /\ c # "B"
  OBVIOUS
<1> QED
  BY <1>1, <1>2, <1>3, <1>4 DEF PackField, asn_int4

(* Every field is packed into at least one byte.                           *)
LEMMA FieldType ==
  ASSUME NEW f, NEW v, FieldFits(f, v)
  PROVE  PackField(f, v) \in Seq(Byte) /\ Len(PackField(f, v)) \in Nat \ {0}
<1>1. CASE f.ch = "s" /\ StringFits(f, v)
  <2> DEFINE padding == (f.len - Len(v)) * f.size
             a == Len(ValidField(Len(v)))
             b == f.size * Len(v)
             s == PackString(v, f)
  <2>1. s \in Seq(Byte) /\ Len(s) = 1 + a + 6 + 6 + b + padding
    BY <1>1, StringType, Zenon
  <2>2. a \in Nat /\ b \in Nat /\ padding \in Nat
    BY <1>1, StringPieces, Zenon
  <2>3. s = PackField(f, v)
    BY <1>1, PackFieldIs, Zenon
  <2> HIDE DEF a, b, padding, s
  <2>4. Len(s) \in Nat \ {0}
    BY <2>1, <2>2
  <2> QED
    BY <2>1, <2>3, <2>4, Zenon
<1>2. ASSUME NEW n \in {1, 2, 4}, v \in Numbers(n), PackField(f, v) = AsnInt(n, v)
      PROVE  PackField(f, v) \in Seq(Byte) /\ Len(PackField(f, v)) \in Nat \ {0}
  <2>1. v \in Nat
    BY <1>2, NumbersAreNats, Zenon
  <2> DEFINE s == AsnInt(n, v)
  <2>2. s \in Seq(Byte) /\ Len(s) = n + 2
    BY <2>1, AsnIntType, Zenon
  <2> HIDE DEF s
  <2>3. Len(s) \in Nat \ {0}
    BY <2>2
  <2> QED
    BY <1>2, <2>2, <2>3, Zenon DEF s
<1>3. f.ch = "B" /\ v \in Numbers(1) => PackField(f, v) = AsnInt(1, v)
  BY PackFieldIs, Zenon
<1>4. f.ch = "H" /\ v \in Numbers(2) => PackField(f, v) = AsnInt(2, v)
  BY PackFieldIs, Zenon
<1>5. f.ch = "L" /\ v \in Numbers(4) => PackField(f, v) = AsnInt(4, v)
  BY PackFieldIs, Zenon
<1>6. 1 \in {1, 2, 4} /\ 2 \in {1, 2, 4} /\ 4 \in {1, 2, 4}
  OBVIOUS
<1> QED
  BY <1>1, <1>2, <1>3, <1>4, <1>5, <1>6, Zenon DEF FieldFits

(* One field: what was packed is what is taken.                            *)
LEMMA FieldRead ==
  ASSUME NEW d \in Seq(Nat), NEW i \in Nat \ {0}, NEW f, NEW v, FieldFits(f, v),
         Holds(d, i, PackField(f, v))
  PROVE  TakeField(d, i) = [ok |-> TRUE, val |-> FieldVal(f, v), next |-> i + Len(PackField(f, v))]
<1>1. CASE f.ch = "s" /\ StringFits(f, v)
  <2>1. PackField(f, v) = PackString(v, f) /\ FieldVal(f, v) = Payload(v, f.size)
    BY <1>1, PackFieldIs, Zenon DEF FieldVal
  <2>2. Holds(d, i, PackString(v, f))
    BY <2>1, Zenon
  <2>3. /\ d[i] \in {85, 86, 87}
        /\ TakeString(d, i) = [ok |-> TRUE, val |-> Payload(v, f.size),
                               next |-> i + Len(PackString(v, f))]
    BY <1>1, <2>2, StringRead, SMT
  <2>4. d[i] # 2
    BY <2>3
  <2>5. TakeField(d, i) = TakeString(d, i)
    BY <2>4, Zenon DEF TakeField
  <2> QED
    BY <2>1, <2>3, <2>5, Zenon
<1>2. ASSUME NEW n \in {1, 2, 4}, v \in Numbers(n), PackField(f, v) = AsnInt(n, v), FieldVal(f, v) = v
      PROVE  TakeField(d, i) = [ok |-> TRUE, val |-> FieldVal(f, v), next |-> i + Len(PackField(f, v))]
  <2>1. v \in Nat
    BY <1>2, NumbersAreNats, Zenon
  <2>2. Len(AsnInt(n, v)) = n + 2
    BY <2>1, AsnIntType, Zenon
  <2>3. Holds(d, i, AsnInt(n, v))
    BY <1>2, Zenon
  <2>4. d[i] = 2 /\ TakeAsnInt(d, i) = [ok |-> TRUE, val |-> v, next |-> i + 2 + n]
    BY <1>2, <2>3, AsnIntRead, Zenon
  <2>5. TakeField(d, i) = TakeAsnInt(d, i)
    BY <2>4, Zenon DEF TakeField
  <2>6. i + 2 + n = i + (n + 2)
    OBVIOUS
  <2> QED
    BY <1>2, <2>2, <2>4, <2>5, <2>6, Zenon
<1>3. f.ch # "s" => FieldVal(f, v) = v
  BY Zenon DEF FieldVal
<1>4. "B" # "s" /\ "H" # "s" /\ "L" # "s" /\ 1 \in {1, 2, 4} /\ 2 \in {1, 2, 4} /\ 4 \in {1, 2, 4}
  OBVIOUS
<1>5. CASE f.ch = "B" /\ v \in Numbers(1)
  BY <1>2, <1>3, <1>4, <1>5, PackFieldIs, Zenon
<1>6. CASE f.ch = "H" /\ v \in Numbers(2)
  BY <1>2, <1>3, <1>4, <1>6, PackFieldIs, Zenon
<1>7. CASE f.ch = "L" /\ v \in Numbers(4)
  BY <1>2, <1>3, <1>4, <1>7, PackFieldIs, Zenon
<1> QED
  BY <1>1, <1>5, <1>6, <1>7, Zenon DEF FieldFits

(* pack's loop.                                                            *)
LEMMA PackLoop ==
  ASSUME NEW fmt \in Seq(Items), NEW args
  PROVE  \E p : /\ p[0] = <<>> /\ Pack(fmt, args) = p[Len(fmt)]
                /\ \A k \in 1 .. Len(fmt) : p[k] = p[k - 1] \o PackField(fmt[k], args[k])
<1> DEFINE n == Len(fmt)
           Step(x, k) == x \o PackField(fmt[k], args[k])
           Upto(f, m) == f[0] = <<>> /\ \A k \in 1 .. m : f[k] = Step(f[k - 1], k)
           S == {m \in 0 .. n : \E f : Upto(f, m)}
           Eq(f) == f = [k \in 0 .. n |-> IF k = 0 THEN <<>> ELSE Step(f[k - 1], k)]
           p == CHOOSE g : Eq(g)
<1>0. n \in Nat /\ 0 \in 0 .. n /\ n \in 0 .. n
  OBVIOUS
<1>r. \A k \in 1 .. n : k \in 0 .. n /\ k - 1 \in 0 .. n /\ k # 0
  BY <1>0
<1>6. p = CHOOSE g : Eq(g)
  OBVIOUS
<1> HIDE DEF n, Step, p
<1>1. 0 \in S
  <2> DEFINE f == [k \in 0 .. 0 |-> <<>>]
  <2>1. f[0] = <<>> /\ ~(\E k : k \in 1 .. 0)
    OBVIOUS
  <2> QED
    BY <1>0, <2>1, Zenon
<1>2. ASSUME NEW m \in 1 .. n, m - 1 \in S PROVE m \in S
  <2>1. PICK f : Upto(f, m - 1)
    BY <1>2, Zenon
  <2> DEFINE g == [k \in 0 .. m |-> IF k = m THEN Step(f[m - 1], m) ELSE f[k]]
  <2>2. /\ m \in 0 .. n /\ m \in Nat /\ 0 \in 0 .. m /\ 0 # m /\ m \in 0 .. m
        /\ \A k \in 1 .. m : k \in 0 .. m /\ k - 1 \in 0 .. m /\ k - 1 # m
        /\ \A k \in 1 .. m : k # m => k \in 1 .. m - 1
    BY <1>0
  <2>3. \A k \in 0 .. m : g[k] = IF k = m THEN Step(f[m - 1], m) ELSE f[k]
    BY Zenon
  <2> HIDE DEF g
  <2>4. g[0] = <<>>
    BY <2>1, <2>2, <2>3, Zenon
  <2>5. ASSUME NEW k \in 1 .. m PROVE g[k] = Step(g[k - 1], k)
    <3>1. g[k - 1] = f[k - 1]
      BY <2>2, <2>3, <2>5, Zenon
    <3>2. CASE k = m
      BY <2>2, <2>3, <2>5, <3>1, <3>2, Zenon
    <3>3. CASE k # m
      <4>1. g[k] = f[k] /\ k \in 1 .. m - 1
        BY <2>2, <2>3, <2>5, <3>3, Zenon
      <4> QED
        BY <2>1, <3>1, <4>1, Zenon
    <3> QED
      BY <3>2, <3>3, Zenon
  <2> QED
    BY <2>2, <2>4, <2>5, Zenon
<1>3. \A k \in 0 .. n : k \in S
  <2>1. \A k \in 1 .. n : k - 1 \in S => k \in S
    BY <1>2
  <2> HIDE DEF S
  <2> QED
    BY <1>0, <1>1, <2>1, UpTo
<1>4. PICK f : Upto(f, n)
  BY <1>0, <1>3, Zenon
<1> DEFINE h == [k \in 0 .. n |-> f[k]]
<1>5. Eq(h)
  <2>1. \A k \in 0 .. n : h[k] = f[k] /\ (k # 0 => k \in 1 .. n)
    BY <1>0
  <2> HIDE DEF h
  <2>2. \A k \in 0 .. n : h[k] = IF k = 0 THEN <<>> ELSE Step(h[k - 1], k)
    BY <1>4, <1>r, <2>1, Zenon
  <2>3. h = [k \in 0 .. n |-> h[k]]
    BY Zenon DEF h
  <2> QED
    BY <2>2, <2>3, Zenon
<1>7. Eq(p)
  <2>1. \E g : Eq(g)
    BY <1>5, Zenon
  <2> HIDE DEF Eq
  <2> QED
    BY <1>6, <2>1, Zenon
<1>8. p[0] = <<>> /\ \A k \in 1 .. n : p[k] = Step(p[k - 1], k)
  <2>1. \A k \in 0 .. n : p[k] = IF k = 0 THEN <<>> ELSE Step(p[k - 1], k)
    BY <1>7, Zenon
  <2> QED
    BY <1>0, <1>r, <2>1, Zenon
<1>9. Pack(fmt, args) = p[n]
  BY Zenon DEF Pack, p, n, Step
<1> QED
  BY <1>8, <1>9 DEF n, Step


(* pack's output, field by field: bytes, and every field in its place.     *)
LEMMA PackPlaces ==
  ASSUME NEW fmt \in Seq(Items), NEW args, Fits(fmt, args)
  PROVE  /\ Pack(fmt, args) \in Seq(Byte)
         /\ \E p : /\ p[0] = 1 /\ p[Len(fmt)] = Len(Pack(fmt, args)) + 1
                   /\ \A k \in 0 .. Len(fmt) : p[k] \in 1 .. Len(Pack(fmt, args)) + 1
                   /\ \A k \in 1 .. Len(fmt) :
                        /\ Holds(Pack(fmt, args), p[k - 1], PackField(fmt[k], args[k]))
                        /\ p[k] = p[k - 1] + Len(PackField(fmt[k], args[k]))
                        /\ p[k - 1] < p[k]
<1> DEFINE n == Len(fmt)
           d == Pack(fmt, args)
           F(k) == PackField(fmt[k], args[k])
<1>0. n \in Nat
  OBVIOUS
<1>1. PICK o : o[0] = <<>> /\ d = o[n] /\ \A k \in 1 .. n : o[k] = o[k - 1] \o F(k)
  BY PackLoop, Zenon
<1>2. \A k \in 1 .. n : F(k) \in Seq(Byte) /\ Len(F(k)) \in Nat \ {0}
  BY FieldType, Zenon DEF Fits
<1> HIDE DEF n, d, F
<1>3. \A k \in 0 .. n : o[k] \in Seq(Byte)
  <2> DEFINE S == {k \in 0 .. n : o[k] \in Seq(Byte)}
  <2>1. 0 \in S
    <3>1. <<>> \in Seq(Byte)
      OBVIOUS
    <3>2. 0 \in 0 .. n
      BY <1>0
    <3> QED
      BY <1>1, <3>1, <3>2, Zenon
  <2>2. \A k \in 1 .. n : k - 1 \in S => k \in S
    <3> SUFFICES ASSUME NEW k \in 1 .. n, o[k - 1] \in Seq(Byte) PROVE o[k] \in Seq(Byte)
      BY <1>0
    <3>1. o[k] = o[k - 1] \o F(k) /\ F(k) \in Seq(Byte)
      BY <1>1, <1>2, Zenon
    <3> QED
      BY <3>1, JoinType, Zenon
  <2> HIDE DEF S
  <2>3. \A k \in 0 .. n : k \in S
    BY <1>0, <2>1, <2>2, UpTo
  <2> QED
    BY <2>3, Zenon DEF S
<1>4. d \in Seq(Byte) /\ d \in Seq(Nat) /\ Len(d) \in Nat
  <2>1. n \in 0 .. n
    BY <1>0
  <2>2. d \in Seq(Byte)
    BY <1>1, <1>3, <2>1, Zenon
  <2>3. d \in Seq(Nat)
    BY <2>2, BytesAreNats
  <2> QED
    BY <2>2, <2>3
<1>5. \A k \in 0 .. n : o[k] \in Seq(Nat) /\ Len(o[k]) \in Nat
  <2> SUFFICES ASSUME NEW k \in 0 .. n PROVE o[k] \in Seq(Nat) /\ Len(o[k]) \in Nat
    BY Zenon
  <2>1. o[k] \in Seq(Nat)
    BY <1>3, BytesAreNats, Zenon
  <2> QED
    BY <2>1
<1>6. \A k \in 1 .. n : F(k) \in Seq(Nat)
  BY <1>2, BytesAreNats, Zenon
<1>7. \A m \in 0 .. n : Holds(d, 1, o[n - m])
  <2> DEFINE S == {m \in 0 .. n : Holds(d, 1, o[n - m])}
  <2>1. 0 \in S
    <3>1. Holds(d, 1, d)
      BY <1>4 DEF Holds
    <3>2. n - 0 = n /\ 0 \in 0 .. n
      BY <1>0
    <3> QED
      BY <1>1, <3>1, <3>2, Zenon
  <2>2. \A m \in 1 .. n : m - 1 \in S => m \in S
    <3> SUFFICES ASSUME NEW m \in 1 .. n, Holds(d, 1, o[n - (m - 1)]) PROVE Holds(d, 1, o[n - m])
      BY <1>0
    <3>1. n - (m - 1) \in 1 .. n /\ (n - (m - 1)) - 1 = n - m /\ n - m \in 0 .. n
      BY <1>0
    <3>2. o[n - (m - 1)] = o[n - m] \o F(n - (m - 1))
      BY <1>1, <3>1, Zenon
    <3>3. Holds(d, 1, o[n - m] \o F(n - (m - 1)))
      BY <3>2, Zenon
    <3>4. 1 \in Nat
      OBVIOUS
    <3> QED
      BY <1>4, <1>5, <1>6, <3>1, <3>3, <3>4, HoldsJoin, Zenon
  <2> HIDE DEF S
  <2>3. \A k \in 0 .. n : k \in S
    BY <1>0, <2>1, <2>2, UpTo
  <2> QED
    BY <2>3, Zenon DEF S
<1>8. \A k \in 0 .. n : Holds(d, 1, o[k])
  <2> SUFFICES ASSUME NEW k \in 0 .. n PROVE Holds(d, 1, o[k])
    BY Zenon
  <2>1. n - k \in 0 .. n /\ n - (n - k) = k
    BY <1>0
  <2> QED
    BY <1>7, <2>1, Zenon
<1> DEFINE p == [k \in 0 .. n |-> Len(o[k]) + 1]
<1>9. \A k \in 0 .. n : p[k] = Len(o[k]) + 1 /\ p[k] \in 1 .. Len(d) + 1
  <2> SUFFICES ASSUME NEW k \in 0 .. n PROVE p[k] = Len(o[k]) + 1 /\ p[k] \in 1 .. Len(d) + 1
    BY Zenon
  <2>1. p[k] = Len(o[k]) + 1
    BY Zenon
  <2>2. 1 + Len(o[k]) <= Len(d) + 1 /\ Len(o[k]) \in Nat
    BY <1>5, <1>8, Zenon DEF Holds
  <2> HIDE DEF p
  <2> QED
    BY <1>4, <2>1, <2>2
<1> HIDE DEF p
<1>10. p[0] = 1 /\ p[n] = Len(d) + 1
  <2>1. 0 \in 0 .. n /\ n \in 0 .. n
    BY <1>0
  <2>2. p[0] = Len(o[0]) + 1 /\ p[n] = Len(o[n]) + 1
    BY <1>9, <2>1, Zenon
  <2>3. Len(<<>>) + 1 = 1
    OBVIOUS
  <2> QED
    BY <1>1, <2>2, <2>3, Zenon
<1>11. \A k \in 1 .. n : /\ Holds(d, p[k - 1], F(k))
                         /\ p[k] = p[k - 1] + Len(F(k)) /\ p[k - 1] < p[k]
  <2> SUFFICES ASSUME NEW k \in 1 .. n
               PROVE  Holds(d, p[k - 1], F(k)) /\ p[k] = p[k - 1] + Len(F(k)) /\ p[k - 1] < p[k]
    BY Zenon
  <2>1. k - 1 \in 0 .. n /\ k \in 0 .. n /\ 1 \in Nat
    BY <1>0
  <2>2. o[k] = o[k - 1] \o F(k)
    BY <1>1, Zenon
  <2>3. o[k - 1] \in Seq(Nat) /\ Len(o[k - 1]) \in Nat /\ F(k) \in Seq(Nat)
    BY <1>5, <1>6, <2>1, Zenon
  <2>4. Holds(d, 1, o[k - 1] \o F(k))
    BY <1>8, <2>1, <2>2, Zenon
  <2>5. Holds(d, 1 + Len(o[k - 1]), F(k))
    BY <1>4, <2>1, <2>3, <2>4, HoldsJoin, Zenon
  <2>6. Len(o[k]) = Len(o[k - 1]) + Len(F(k)) /\ Len(F(k)) \in Nat \ {0}
    BY <1>2, <2>2, <2>3, JoinType, Zenon
  <2>7. p[k - 1] = Len(o[k - 1]) + 1 /\ p[k] = Len(o[k]) + 1
    BY <1>9, <2>1, Zenon
  <2>8. p[k - 1] = 1 + Len(o[k - 1]) /\ p[k] = p[k - 1] + Len(F(k)) /\ p[k - 1] < p[k]
    BY <2>3, <2>6, <2>7
  <2> QED
    BY <2>5, <2>8, Zenon
<1>12. \A k \in 0 .. n : p[k] \in 1 .. Len(d) + 1
  BY <1>9, Zenon
<1>13. d \in Seq(Byte) /\ \E q : /\ q[0] = 1 /\ q[n] = Len(d) + 1
                                 /\ \A k \in 0 .. n : q[k] \in 1 .. Len(d) + 1
                                 /\ \A k \in 1 .. n : /\ Holds(d, q[k - 1], F(k))
                                                      /\ q[k] = q[k - 1] + Len(F(k))
                                                      /\ q[k - 1] < q[k]
  BY <1>4, <1>10, <1>11, <1>12, Zenon
<1> QED
  BY <1>13, Zenon DEF n, d, F

(* A sequence behind one element.                                          *)
LEMMA FirstAndRest ==
  ASSUME NEW D, NEW x \in D, NEW b \in Seq(D)
  PROVE  /\ <<x>> \o b \in Seq(D) /\ Len(<<x>> \o b) = 1 + Len(b) /\ (<<x>> \o b)[1] = x
         /\ \A j \in 2 .. 1 + Len(b) : (<<x>> \o b)[j] = b[j - 1]
  OBVIOUS

(* unpack_unknown returns what pack was given, whatever the fields.        *)
THEOREM UnpackPack ==
  ASSUME NEW fmt \in Seq(Items), NEW args, Fits(fmt, args)
  PROVE  UnpackUnknown(Pack(fmt, args)) = [ok |-> TRUE, val |-> FieldVals(fmt, args)]
<1> DEFINE n == Len(fmt)
           d == Pack(fmt, args)
           F(k) == PackField(fmt[k], args[k])
           V(k) == FieldVal(fmt[k], args[k])
           T(i) == TakeField(d, i)
<1>0. n \in Nat
  OBVIOUS
<1>1. d \in Seq(Byte)
  BY PackPlaces, Zenon
<1>2. d \in Seq(Nat)
  BY <1>1, BytesAreNats
<1>3. PICK p : /\ p[0] = 1 /\ p[n] = Len(d) + 1
               /\ \A k \in 0 .. n : p[k] \in 1 .. Len(d) + 1
               /\ \A k \in 1 .. n : /\ Holds(d, p[k - 1], F(k)) /\ p[k] = p[k - 1] + Len(F(k))
                                    /\ p[k - 1] < p[k]
  BY PackPlaces, Zenon
<1>4. PICK q : /\ UnpackUnknown(d) = q[1] /\ q[Len(d) + 1] = [ok |-> TRUE, val |-> <<>>]
               /\ \A i \in 1 .. Len(d) :
                    T(i).ok => q[i] = [ok |-> q[T(i).next].ok, val |-> <<T(i).val>> \o q[T(i).next].val]
  BY <1>2, UnpackSteps, Zenon
<1>5. \A k \in 1 .. n : T(p[k - 1]) = [ok |-> TRUE, val |-> V(k), next |-> p[k]]
  <2> SUFFICES ASSUME NEW k \in 1 .. n
               PROVE  T(p[k - 1]) = [ok |-> TRUE, val |-> V(k), next |-> p[k]]
    BY Zenon
  <2>1. k - 1 \in 0 .. n
    BY <1>0
  <2>2. p[k - 1] \in 1 .. Len(d) + 1
    BY <1>3, <2>1, Zenon
  <2>3. p[k - 1] \in Nat \ {0}
    <3> HIDE DEF d
    <3> QED
      BY <1>2, <2>2
  <2>4. FieldFits(fmt[k], args[k])
    BY Zenon DEF Fits
  <2>5. Holds(d, p[k - 1], F(k)) /\ p[k] = p[k - 1] + Len(F(k))
    BY <1>3, Zenon
  <2>6. T(p[k - 1]) = [ok |-> TRUE, val |-> V(k), next |-> p[k - 1] + Len(F(k))]
    <3> DEFINE i == p[k - 1]
               f == fmt[k]
               v == args[k]
    <3>1. i \in Nat \ {0} /\ FieldFits(f, v) /\ Holds(d, i, PackField(f, v))
      BY <2>3, <2>4, <2>5, Zenon
    <3> HIDE DEF i, f, v, d
    <3>2. TakeField(d, i) = [ok |-> TRUE, val |-> FieldVal(f, v), next |-> i + Len(PackField(f, v))]
      BY <1>2, <3>1, FieldRead
    <3> QED
      BY <3>2, Zenon DEF i, f, v, d
  <2> QED
    BY <2>5, <2>6, Zenon
<1> HIDE DEF n, d, F, V, T
<1>6. \A k \in 1 .. n : q[p[k - 1]] = [ok |-> q[p[k]].ok, val |-> <<V(k)>> \o q[p[k]].val]
  <2> SUFFICES ASSUME NEW k \in 1 .. n
               PROVE  q[p[k - 1]] = [ok |-> q[p[k]].ok, val |-> <<V(k)>> \o q[p[k]].val]
    BY Zenon
  <2>1. k - 1 \in 0 .. n /\ k \in 0 .. n
    BY <1>0
  <2>2. p[k - 1] \in 1 .. Len(d) + 1 /\ p[k] \in 1 .. Len(d) + 1 /\ p[k - 1] < p[k]
    BY <1>3, <2>1, Zenon
  <2>3. p[k - 1] \in 1 .. Len(d)
    BY <1>2, <2>2
  <2>4. T(p[k - 1]).ok /\ T(p[k - 1]).next = p[k] /\ T(p[k - 1]).val = V(k)
    <3>1. T(p[k - 1]) = [ok |-> TRUE, val |-> V(k), next |-> p[k]]
      BY <1>5, Zenon
    <3> QED
      BY <3>1
  <2> QED
    BY <1>4, <2>3, <2>4, Zenon
<1> DEFINE R(m) == [j \in 1 .. m |-> V(n - m + j)]
           S == {m \in 0 .. n : q[p[n - m]] = [ok |-> TRUE, val |-> R(m)]}
<1>7. 0 \in S
  <2>1. n - 0 = n /\ 0 \in 0 .. n
    BY <1>0
  <2>2. R(0) = <<>>
    BY <1>0
  <2> HIDE DEF R
  <2>3. q[p[n - 0]] = [ok |-> TRUE, val |-> R(0)]
    BY <1>3, <1>4, <2>1, <2>2, Zenon
  <2> QED
    BY <2>1, <2>3, Zenon
<1>8. \A m \in 1 .. n : m - 1 \in S => m \in S
  <2> SUFFICES ASSUME NEW m \in 1 .. n, q[p[n - (m - 1)]] = [ok |-> TRUE, val |-> R(m - 1)]
               PROVE  q[p[n - m]] = [ok |-> TRUE, val |-> R(m)]
    <3>1. \A m \in 1 .. n : m \in 0 .. n
      BY <1>0
    <3> HIDE DEF R
    <3> QED
      BY <3>1, Zenon
  <2> DEFINE k == n - (m - 1)
  <2>1. k \in 1 .. n /\ k - 1 = n - m
    BY <1>0
  <2>2. <<V(k)>> \o R(m - 1) = R(m)
    <3> DEFINE s == <<V(k)>> \o R(m - 1)
               D == {V(j) : j \in 1 .. n}
    <3>1. V(k) \in D /\ \A j \in 1 .. m - 1 : V(n - (m - 1) + j) \in D
      <4>1. \A j \in 1 .. m - 1 : n - (m - 1) + j \in 1 .. n
        BY <1>0
      <4> QED
        BY <2>1, <4>1, Zenon
    <3>2. m - 1 \in Nat
      BY <1>0
    <3> HIDE DEF D
    <3>3. R(m - 1) \in Seq(D) /\ Len(R(m - 1)) = m - 1
      BY <3>1, <3>2
    <3>4. <<V(k)>> \in Seq(D) /\ Len(<<V(k)>>) = 1 /\ <<V(k)>>[1] = V(k)
      BY <3>1
    <3>5. s \in Seq(D) /\ Len(s) = m /\ s[1] = V(k)
          /\ \A j \in 2 .. m : s[j] = R(m - 1)[j - 1]
      <4> DEFINE x == V(k)
                 b == R(m - 1)
      <4>1. x \in D /\ b \in Seq(D) /\ Len(b) = m - 1
        BY <3>1, <3>3, Zenon
      <4> HIDE DEF x, b, k
      <4>2. /\ <<x>> \o b \in Seq(D) /\ Len(<<x>> \o b) = 1 + Len(b) /\ (<<x>> \o b)[1] = x
            /\ \A j \in 2 .. 1 + Len(b) : (<<x>> \o b)[j] = b[j - 1]
        BY <4>1, FirstAndRest
      <4>3. 1 + (m - 1) = m
        BY <1>0
      <4> QED
        BY <4>1, <4>2, <4>3, Zenon DEF x, b
    <3>6. \A j \in 2 .. m : R(m - 1)[j - 1] = V(n - m + j)
      <4>1. \A j \in 2 .. m : j - 1 \in 1 .. m - 1 /\ n - (m - 1) + (j - 1) = n - m + j
        BY <1>0
      <4> QED
        BY <4>1, Zenon
    <3>7. n - m + 1 = k
      BY <1>0
    <3>8. \A j \in 1 .. m : s[j] = V(n - m + j)
      <4> HIDE DEF s, k, R
      <4>1. \A j \in 1 .. m : j = 1 \/ j \in 2 .. m
        BY <1>0
      <4> QED
        BY <3>5, <3>6, <3>7, <4>1, Zenon
    <3>9. s = [j \in 1 .. m |-> s[j]]
      <4> HIDE DEF s
      <4> QED
        BY <3>5
    <3> QED
      BY <3>8, <3>9, Zenon
  <2> HIDE DEF R
  <2>3. q[p[k - 1]] = [ok |-> q[p[k]].ok, val |-> <<V(k)>> \o q[p[k]].val]
    BY <1>6, <2>1, Zenon
  <2>4. q[p[k]].ok = TRUE /\ q[p[k]].val = R(m - 1)
    OBVIOUS
  <2> QED
    BY <2>1, <2>2, <2>3, <2>4, Zenon
<1>9. n \in S
  <2> HIDE DEF S
  <2>1. \A k \in 0 .. n : k \in S
    BY <1>0, <1>7, <1>8, UpTo
  <2> QED
    BY <1>0, <2>1
<1>10. n - n = 0 /\ \A j \in 1 .. n : n - n + j = j
  BY <1>0
<1>11. R(n) = [j \in 1 .. n |-> V(j)]
  BY <1>10, Zenon
<1>12. UnpackUnknown(d) = [ok |-> TRUE, val |-> R(n)]
  <2> HIDE DEF R
  <2>1. q[p[n - n]] = [ok |-> TRUE, val |-> R(n)]
    BY <1>9, Zenon
  <2> QED
    BY <1>3, <1>4, <1>10, <2>1, Zenon
<1> QED
  BY <1>11, <1>12, Zenon DEF n, d, V, FieldVals

-----------------------------------------------------------------------------
(* The requests of the bring-up: what they pack is read back as it is.     *)

Values == Nat \cup Seq(Nat)
Plain(f, v) == f \in Items /\ v \in Values /\ FieldFits(f, v) /\ (f.ch = "s" => f.size = 1)
Sends(fmt, args) ==
  /\ fmt \in Seq(Items) /\ args \in Seq(Values) /\ Len(fmt) = Len(args)
  /\ \A k \in 1 .. Len(fmt) : Plain(fmt[k], args[k])

(* The numbers of one byte.                                                *)
LEMMA ByteNumbers == Numbers(1) = Byte
<1>1. \A v \in Numbers(1) : v \in Byte
  BY NumbersAre, SMT DEF Byte
<1>2. \A v \in Byte : v \in Numbers(1)
  <2>1. 1 - 1 = 0
    OBVIOUS
  <2> QED
    BY <2>1, PowersAre, SMT DEF Byte, Numbers
<1> QED
  BY <1>1, <1>2, Zenon

(* Plain values are read back as they are.                                 *)
LEMMA PlainVal ==
  ASSUME NEW f, NEW v, Plain(f, v)
  PROVE  FieldVal(f, v) = v
<1>1. CASE f.ch = "s"
  <2>1. f.size = 1 /\ FieldFits(f, v)
    BY <1>1, Zenon DEF Plain
  <2>2. "s" # "B" /\ "s" # "H" /\ "s" # "L"
    OBVIOUS
  <2>3. StringFits(f, v)
    BY <1>1, <2>1, <2>2, Zenon DEF FieldFits
  <2>4. v \in Seq(Byte)
    BY <2>1, <2>3, ByteNumbers, Zenon DEF StringFits
  <2> QED
    BY <1>1, <2>1, <2>4, PayloadOfBytes, Zenon DEF FieldVal
<1>2. CASE f.ch # "s"
  BY <1>2, Zenon DEF FieldVal
<1> QED
  BY <1>1, <1>2, Zenon

(* A plain string fits its field.                                          *)
LEMMA PlainPacks ==
  ASSUME NEW f, NEW v, Plain(f, v), f.ch = "s"
  PROVE  Len(v) <= f.len
<1>2. "s" # "B" /\ "s" # "H" /\ "s" # "L"
  OBVIOUS
<1> QED
  BY <1>2, Zenon DEF Plain, FieldFits, StringFits

(* pack raises nothing, and unpack_unknown returns its arguments.          *)
LEMMA SentIsRead ==
  ASSUME NEW fmt, NEW args, Sends(fmt, args)
  PROVE  /\ Packs(fmt, args)
         /\ UnpackUnknown(Pack(fmt, args)) = [ok |-> TRUE, val |-> args]
<1>0. /\ fmt \in Seq(Items) /\ args \in Seq(Values) /\ Len(fmt) = Len(args)
      /\ \A k \in 1 .. Len(fmt) : Plain(fmt[k], args[k])
  BY Zenon DEF Sends
<1>1. DOMAIN fmt = 1 .. Len(fmt) /\ args = [k \in 1 .. Len(args) |-> args[k]]
  BY <1>0
<1>2. Packs(fmt, args)
  BY <1>0, <1>1, PlainPacks, Zenon DEF Packs
<1>3. Fits(fmt, args)
  BY <1>0, Zenon DEF Fits, Plain
<1>4. FieldVals(fmt, args) = args
  <2>1. \A k \in 1 .. Len(fmt) : FieldVal(fmt[k], args[k]) = args[k]
    BY <1>0, PlainVal, Zenon
  <2>2. FieldVals(fmt, args) = [k \in 1 .. Len(fmt) |-> args[k]]
    BY <2>1, Zenon DEF FieldVals
  <2> QED
    BY <1>0, <1>1, <2>2, Zenon
<1>5. UnpackUnknown(Pack(fmt, args)) = [ok |-> TRUE, val |-> FieldVals(fmt, args)]
  BY <1>0, <1>3, UnpackPack, Zenon
<1> QED
  BY <1>2, <1>4, <1>5, Zenon

(* Two lists of fields after one another.                                  *)
LEMMA SendsJoin ==
  ASSUME NEW f, NEW a, NEW g, NEW b, Sends(f, a), Sends(g, b)
  PROVE  Sends(f \o g, a \o b)
<1> DEFINE m == Len(f)
           n == Len(g)
<1>0. /\ f \in Seq(Items) /\ a \in Seq(Values) /\ m = Len(a)
      /\ g \in Seq(Items) /\ b \in Seq(Values) /\ n = Len(b)
      /\ \A k \in 1 .. m : Plain(f[k], a[k])
      /\ \A k \in 1 .. n : Plain(g[k], b[k])
  BY Zenon DEF Sends
<1>1. /\ m \in Nat /\ n \in Nat
      /\ f \o g \in Seq(Items) /\ a \o b \in Seq(Values)
      /\ Len(f \o g) = m + n /\ Len(a \o b) = m + n
  BY <1>0, SMTT(30)
<1>2. /\ \A k \in 1 .. m : (f \o g)[k] = f[k] /\ (a \o b)[k] = a[k]
      /\ \A k \in m + 1 .. m + n : (f \o g)[k] = g[k - m] /\ (a \o b)[k] = b[k - m]
  BY <1>0
<1> HIDE DEF m, n
<1>3. \A k \in m + 1 .. m + n : k - m \in 1 .. n
  BY <1>1
<1>4. \A k \in 1 .. m + n : k \in 1 .. m \/ k \in m + 1 .. m + n
  BY <1>1
<1>5. \A k \in 1 .. m + n : Plain((f \o g)[k], (a \o b)[k])
  BY <1>0, <1>2, <1>3, <1>4, ZenonT(40)
<1> QED
  BY <1>1, <1>5, Zenon DEF Sends

(* Messages of a few fields.                                               *)
LEMMA SendsTwo ==
  ASSUME NEW f1, NEW v1, Plain(f1, v1), NEW f2, NEW v2, Plain(f2, v2)
  PROVE  Sends(<<f1>>, <<v1>>) /\ Sends(<<f1, f2>>, <<v1, v2>>)
<1>1. f1 \in Items /\ f2 \in Items /\ v1 \in Values /\ v2 \in Values
  BY Zenon DEF Plain
<1> DEFINE s == <<f1, f2>>
           t == <<v1, v2>>
           s1 == <<f1>>
           t1 == <<v1>>
<1>2. /\ s \in Seq(Items) /\ t \in Seq(Values) /\ Len(s) = 2 /\ Len(t) = 2
      /\ s[1] = f1 /\ s[2] = f2 /\ t[1] = v1 /\ t[2] = v2
      /\ s1 \in Seq(Items) /\ t1 \in Seq(Values) /\ Len(s1) = 1 /\ Len(t1) = 1
      /\ s1[1] = f1 /\ t1[1] = v1
  BY <1>1
<1> HIDE DEF s, t, s1, t1
<1>3. \A k \in 1 .. 2 : k = 1 \/ k = 2
  OBVIOUS
<1>4. \A k \in 1 .. 1 : k = 1
  OBVIOUS
<1>5. \A k \in 1 .. Len(s) : Plain(s[k], t[k])
  BY <1>2, <1>3, Zenon
<1>6. \A k \in 1 .. Len(s1) : Plain(s1[k], t1[k])
  BY <1>2, <1>4, Zenon
<1>7. Sends(s, t) /\ Sends(s1, t1)
  BY <1>2, <1>5, <1>6, Zenon DEF Sends
<1> QED
  BY <1>7, Zenon DEF s, t, s1, t1

(* Three fields.                                                           *)
LEMMA SendsThree ==
  ASSUME NEW f1, NEW v1, Plain(f1, v1), NEW f2, NEW v2, Plain(f2, v2),
         NEW f3, NEW v3, Plain(f3, v3)
  PROVE  Sends(<<f1, f2, f3>>, <<v1, v2, v3>>)
<1>1. {f1, f2, f3} \subseteq Items /\ {v1, v2, v3} \subseteq Values
  BY Zenon DEF Plain
<1> DEFINE s == <<f1, f2, f3>>
           t == <<v1, v2, v3>>
<1>2. /\ s \in Seq(Items) /\ t \in Seq(Values) /\ Len(s) = 3 /\ Len(t) = 3
      /\ s[1] = f1 /\ t[1] = v1 /\ s[2] = f2 /\ t[2] = v2
      /\ s[3] = f3 /\ t[3] = v3
  BY <1>1
<1> HIDE DEF s, t
<1>3. \A k \in 1 .. 3 : k \in {1, 2, 3}
  OBVIOUS
<1>4. \A k \in 1 .. Len(s) : Plain(s[k], t[k])
  BY <1>2, <1>3, Zenon
<1>5. Sends(s, t)
  BY <1>2, <1>4, Zenon DEF Sends
<1> QED
  BY <1>5, Zenon DEF s, t

(* Eight fields.                                                           *)
LEMMA SendsEight ==
  ASSUME NEW f1, NEW v1, Plain(f1, v1), NEW f2, NEW v2, Plain(f2, v2),
         NEW f3, NEW v3, Plain(f3, v3), NEW f4, NEW v4, Plain(f4, v4),
         NEW f5, NEW v5, Plain(f5, v5), NEW f6, NEW v6, Plain(f6, v6),
         NEW f7, NEW v7, Plain(f7, v7), NEW f8, NEW v8, Plain(f8, v8)
  PROVE  Sends(<<f1, f2, f3, f4, f5, f6, f7, f8>>, <<v1, v2, v3, v4, v5, v6, v7, v8>>)
<1>1. {f1, f2, f3, f4, f5, f6, f7, f8} \subseteq Items /\ {v1, v2, v3, v4, v5, v6, v7, v8} \subseteq Values
  BY Zenon DEF Plain
<1> DEFINE s == <<f1, f2, f3, f4, f5, f6, f7, f8>>
           t == <<v1, v2, v3, v4, v5, v6, v7, v8>>
<1>2. /\ s \in Seq(Items) /\ t \in Seq(Values) /\ Len(s) = 8 /\ Len(t) = 8
      /\ s[1] = f1 /\ t[1] = v1 /\ s[2] = f2 /\ t[2] = v2
      /\ s[3] = f3 /\ t[3] = v3 /\ s[4] = f4 /\ t[4] = v4
      /\ s[5] = f5 /\ t[5] = v5 /\ s[6] = f6 /\ t[6] = v6
      /\ s[7] = f7 /\ t[7] = v7 /\ s[8] = f8 /\ t[8] = v8
  BY <1>1
<1> HIDE DEF s, t
<1>3. \A k \in 1 .. 8 : k \in {1, 2, 3, 4, 5, 6, 7, 8}
  OBVIOUS
<1>4. \A k \in 1 .. Len(s) : Plain(s[k], t[k])
  BY <1>2, <1>3, Zenon
<1>5. Sends(s, t)
  BY <1>2, <1>4, Zenon DEF Sends
<1> QED
  BY <1>5, Zenon DEF s, t

(* Which numbers and which strings are plain fields.                       *)
LEMMA PlainNum ==
  ASSUME NEW ch \in {"B", "H", "L"}, NEW v \in Nat,
         \/ v \in Byte
         \/ ch = "H" /\ v \in Numbers(2)
         \/ ch = "L" /\ v \in Numbers(4)
  PROVE  Plain(Num(ch), v)
<1>1. Num(ch) \in Items /\ Num(ch).ch = ch /\ v \in Values /\ ch # "s"
  BY DEF Num, Items, Values
<1>2. Byte \subseteq Numbers(2) /\ Byte \subseteq Numbers(4)
  <2>1. 2 - 1 = 1 /\ 4 - 1 = 3
    OBVIOUS
  <2> QED
    BY <2>1, PowersAre, SMT DEF Byte, Numbers
<1>3. FieldFits(Num(ch), v)
  BY <1>1, <1>2, ByteNumbers, Zenon DEF FieldFits
<1> QED
  BY <1>1, <1>3, Zenon DEF Plain

(* The sizes of string fields that are looked at.                          *)
FieldSizes == {len \in Nat : len <= 1000}

(* Strings of bytes of readable length.                                    *)
LEMMA PlainStr ==
  ASSUME NEW len \in FieldSizes, NEW v \in Seq(Byte), Len(v) <= len, Readable(Len(v))
  PROVE  Plain(Str(len), v)
<1> DEFINE f == Str(len)
<1>0. len \in Nat /\ len <= 1000
  BY SMT DEF FieldSizes
<1>1. f \in Items /\ f.ch = "s" /\ f.size = 1 /\ f.len = len /\ len \in Nat
  BY <1>0 DEF Str, Items
<1>2. v \in Seq(Nat)
  BY BytesAreNats
<1>3. len * 1 \in Numbers(4)
  <2>1. len * 1 = len /\ 4 - 1 = 3
    BY <1>0
  <2> QED
    BY <1>0, <2>1, PowersAre, SMT DEF Numbers
<1> HIDE DEF f
<1>4. v \in Values
  BY <1>2, ZenonT(40) DEF Values
<1>5. 1 \in {1, 2, 4}
  OBVIOUS
<1>6. StringFits(f, v)
  BY <1>1, <1>3, <1>5, ByteNumbers, ZenonT(40) DEF StringFits
<1>7. Plain(f, v)
  BY <1>1, <1>4, <1>6, Zenon DEF Plain, FieldFits
<1> QED
  BY <1>7, ZenonT(40) DEF f

(* Fields that are all numbers.                                            *)
LEMMA NumsSend ==
  ASSUME NEW chs \in Seq({"B", "H", "L"}), NEW args \in Seq(Nat), Len(args) = Len(chs),
         \A k \in 1 .. Len(chs) : \/ args[k] \in Byte
                                  \/ chs[k] = "H" /\ args[k] \in Numbers(2)
                                  \/ chs[k] = "L" /\ args[k] \in Numbers(4)
  PROVE  Sends(Nums(chs), args)
<1> DEFINE n == Len(chs)
           C == {"B", "H", "L"}
           fmt == Nums(chs)
<1>1. n \in Nat /\ DOMAIN chs = 1 .. n /\ \A k \in 1 .. n : chs[k] \in C /\ args[k] \in Nat
  OBVIOUS
<1>2. \A k \in 1 .. n : fmt[k] = Num(chs[k])
  BY <1>1, Zenon DEF Nums
<1>3. \A k \in 1 .. n : Plain(Num(chs[k]), args[k])
  BY <1>1, PlainNum, Zenon
<1>4. \A k \in 1 .. n : Num(chs[k]) \in Items /\ args[k] \in Values
  BY <1>3, Zenon DEF Plain
<1>5. fmt = [k \in 1 .. n |-> Num(chs[k])]
  BY <1>1, Zenon DEF Nums
<1>6. fmt \in [1 .. n -> Items]
  BY <1>4, <1>5, Zenon
<1>7. args \in Seq(Values)
  <2>1. args = [k \in 1 .. n |-> args[k]]
    OBVIOUS
  <2>2. args \in [1 .. n -> Values]
    BY <1>4, <2>1, Zenon
  <2> HIDE DEF n
  <2> QED
    BY <1>1, <2>2
<1> HIDE DEF fmt
<1>8. fmt \in Seq(Items) /\ Len(fmt) = n
  BY <1>1, <1>6
<1> QED
  BY <1>2, <1>3, <1>7, <1>8, Zenon DEF Sends, fmt

(* Four byte numbers.                                                      *)
LEMMA TimesSend ==
  ASSUME NEW n \in Nat, NEW args \in Seq(Numbers(4)), Len(args) = n
  PROVE  Sends(Times(n, Num("L")), args)
<1> DEFINE chs == [k \in 1 .. n |-> "L"]
           L3 == {"B", "H", "L"}
<1>1. "L" \in L3
  OBVIOUS
<1>2. chs \in Seq(L3) /\ Len(chs) = n /\ DOMAIN chs = 1 .. n /\ \A k \in 1 .. n : chs[k] = "L"
  OBVIOUS
<1>3. \A k \in 1 .. n : args[k] \in Numbers(4)
  OBVIOUS
<1>4. args \in Seq(Nat)
  <2>1. \A k \in 1 .. n : args[k] \in Nat
    BY <1>3, NumbersAreNats, 4 \in {1, 2, 4}, Zenon
  <2>2. args = [k \in 1 .. n |-> args[k]]
    OBVIOUS
  <2> QED
    BY <2>1, <2>2
<1>5. Nums(chs) = Times(n, Num("L"))
  BY Zenon DEF Nums, Times
<1> HIDE DEF chs
<1>6. Sends(Nums(chs), args)
  BY <1>2, <1>3, <1>4, NumsSend, Zenon
<1> QED
  BY <1>5, <1>6, Zenon

(* A byte repeated.                                                        *)
LEMMA ManyBytes ==
  ASSUME NEW n \in Nat, NEW b \in Byte
  PROVE  Times(n, b) \in Seq(Byte) /\ Len(Times(n, b)) = n
  BY DEF Times

(* Zero bytes.                                                             *)
LEMMA ZerosType ==
  ASSUME NEW n \in Nat
  PROVE  Zeros(n) \in Seq(Byte) /\ Len(Zeros(n)) = n
<1>1. 0 \in Byte
  BY DEF Byte
<1> QED
  BY <1>1 DEF Zeros

(* Lengths that both ends write alike.                                     *)
LEMMA ReadableLengths ==
  ASSUME NEW n \in Nat, n < 256 \/ n = 257 \/ n = 514
  PROVE  Readable(n)
  BY PowersAre, SMT DEF Readable

(* Strings of zeros.                                                       *)
LEMMA PlainZeros ==
  ASSUME NEW n \in Nat, NEW len \in FieldSizes, n <= len, Readable(n)
  PROVE  Plain(Str(len), Zeros(n))
<1> DEFINE z == Zeros(n)
<1>1. z \in Seq(Byte) /\ Len(z) = n
  BY ZerosType, ZenonT(40)
<1> HIDE DEF z
<1>2. Len(z) <= len /\ Readable(Len(z))
  BY <1>1, ZenonT(40)
<1>3. Plain(Str(len), z)
  BY <1>1, <1>2, PlainStr, ZenonT(40)
<1> QED
  BY <1>3, Zenon DEF z

(* Three sequences joined.                                                 *)
LEMMA ThreePieces ==
  ASSUME NEW D, NEW s \in Seq(D), NEW t \in Seq(D), NEW u \in Seq(D)
  PROVE  s \o t \o u \in Seq(D) /\ Len(s \o t \o u) = Len(s) + Len(t) + Len(u)
  OBVIOUS

(* The constants of the block's strings.                                   *)
LEMMA PlainZerosUsed ==
  /\ Plain(Str(260), Zeros(257)) /\ Plain(Str(66), Zeros(65)) /\ Plain(Str(65), Zeros(65))
  /\ Plain(Str(250), Zeros(250)) /\ Plain(Str(252), Zeros(250)) /\ Plain(Str(20), Zeros(20))
<1>1. /\ 257 \in Nat /\ 65 \in Nat /\ 250 \in Nat /\ 20 \in Nat
      /\ {260, 66, 65, 250, 252, 20} \subseteq FieldSizes
  BY SMT DEF FieldSizes
<1>2. Readable(257) /\ Readable(65) /\ Readable(250) /\ Readable(20)
  BY ReadableLengths, SMT
<1>3. Plain(Str(260), Zeros(257))
  BY <1>1, <1>2, PlainZeros, SMT
<1>4. Plain(Str(66), Zeros(65))
  BY <1>1, <1>2, PlainZeros, SMT
<1>5. Plain(Str(65), Zeros(65))
  BY <1>1, <1>2, PlainZeros, SMT
<1>6. Plain(Str(250), Zeros(250))
  BY <1>1, <1>2, PlainZeros, SMT
<1>7. Plain(Str(252), Zeros(250))
  BY <1>1, <1>2, PlainZeros, SMT
<1>8. Plain(Str(20), Zeros(20))
  BY <1>1, <1>2, PlainZeros, SMT
<1> QED
  BY <1>3, <1>4, <1>5, <1>6, <1>7, <1>8, Zenon

(* One block of UtaMsCallPsAttachApnConfigReq.                             *)
LEMMA ApnBlock ==
  ASSUME NEW flag \in {0, 1}, NEW kind \in Byte, NEW last \in 0 .. 255,
         NEW apn_string \in Seq(Byte), Len(apn_string) <= last
  PROVE  Sends(ApnTypes(last), ApnArgs(flag, kind, apn_string))
<1> DEFINE f1 == <<Str(260), Num("L"), Str(66), Str(65), Str(250), Num("B"), Str(252), Num("H")>>
           a1 == <<Zeros(257), 0, Zeros(65), Zeros(65), Zeros(250), 0, Zeros(250), 0>>
           f2 == Times(21, Num("L"))
           x == <<0, 0, 0, 0, flag>>
           y == Zeros(7)
           z == <<flag, 0, 0, 1028 * flag, flag, 0, flag, 0, 0>>
           a2 == x \o y \o z
           f3 == <<Str(20), Num("L"), Str(last)>>
           a3 == <<Zeros(20), kind, apn_string>>
<1>1. Sends(f1, a1)
  <2>1. /\ Plain(Str(260), Zeros(257)) /\ Plain(Str(66), Zeros(65)) /\ Plain(Str(65), Zeros(65))
        /\ Plain(Str(250), Zeros(250)) /\ Plain(Str(252), Zeros(250))
    BY PlainZerosUsed, Zenon
  <2>2. 0 \in Byte /\ 0 \in Nat
    BY DEF Byte
  <2>3. Plain(Num("L"), 0) /\ Plain(Num("B"), 0) /\ Plain(Num("H"), 0)
    BY <2>2, PlainNum
  <2> QED
    <3> DEFINE g1 == Str(260)
               g3 == Str(66)
               g4 == Str(65)
               g5 == Str(250)
               g7 == Str(252)
               w1 == Zeros(257)
               w3 == Zeros(65)
               w5 == Zeros(250)
    <3>1. Plain(g1, w1) /\ Plain(g3, w3) /\ Plain(g4, w3) /\ Plain(g5, w5) /\ Plain(g7, w5)
      BY <2>1, Zenon
    <3> HIDE DEF g1, g3, g4, g5, g7, w1, w3, w5
    <3>2. Sends(<<g1, Num("L"), g3, g4, g5, Num("B"), g7, Num("H")>>,
                <<w1, 0, w3, w3, w5, 0, w5, 0>>)
      BY <2>3, <3>1, SendsEight, Zenon
    <3> QED
      BY <3>2, Zenon DEF g1, g3, g4, g5, g7, w1, w3, w5
<1>2. Sends(f2, a2)
  <2> DEFINE N4 == Numbers(4)
  <2>1. 0 \in N4 /\ flag \in N4 /\ 1028 * flag \in N4
    <3>1. 4 - 1 = 3 /\ 1028 * 0 = 0 /\ 1028 * 1 = 1028
      OBVIOUS
    <3> QED
      BY <3>1, PowersAre, SMT DEF Numbers
  <2> HIDE DEF N4
  <2>2. x \in Seq(N4) /\ Len(x) = 5
    BY <2>1
  <2>3. y \in Seq(N4) /\ Len(y) = 7
    BY <2>1 DEF Zeros
  <2>4. z \in Seq(N4) /\ Len(z) = 9
    <3> DEFINE w == 1028 * flag
    <3>1. w \in N4
      BY <2>1, ZenonT(40)
    <3> HIDE DEF w
    <3>2. <<flag, 0, 0, w, flag, 0, flag, 0, 0>> \in Seq(N4)
          /\ Len(<<flag, 0, 0, w, flag, 0, flag, 0, 0>>) = 9
      BY <2>1, <3>1
    <3> QED
      BY <3>2, ZenonT(40) DEF w
  <2> HIDE DEF x, y, z
  <2>5. a2 \in Seq(N4) /\ Len(a2) = 21
    <3>1. a2 \in Seq(N4) /\ Len(a2) = Len(x) + Len(y) + Len(z)
      <4>1. x \in Seq(N4) /\ y \in Seq(N4) /\ z \in Seq(N4)
        BY <2>2, <2>3, <2>4, Zenon
      <4> QED
        BY <4>1, ThreePieces
    <3>2. (5 + 7) + 9 = 21
      OBVIOUS
    <3> HIDE DEF a2
    <3> QED
      BY <2>2, <2>3, <2>4, <3>1, <3>2, Zenon
  <2> HIDE DEF a2
  <2> QED
    BY <2>5, TimesSend, 21 \in Nat, Zenon DEF N4
<1>3. Sends(f3, a3)
  <2>1. Plain(Str(20), Zeros(20))
    BY PlainZerosUsed, Zenon
  <2>2. Plain(Num("L"), kind)
    <3>1. kind \in Nat
      BY DEF Byte
    <3> QED
      BY <3>1, PlainNum
  <2>3. Plain(Str(last), apn_string)
    <3> DEFINE n == Len(apn_string)
    <3>0. n \in Nat /\ n <= last
      OBVIOUS
    <3> HIDE DEF n
    <3>1. last \in FieldSizes /\ n < 256
      BY <3>0, SMT DEF FieldSizes
    <3>2. Readable(n)
      BY <3>0, <3>1, ReadableLengths, SMT
    <3> QED
      BY <3>0, <3>1, <3>2, PlainStr, Zenon DEF n
  <2> QED
    BY <2>1, <2>2, <2>3, SendsThree, Zenon
<1> HIDE DEF f1, f2, f3, a1, a2, a3
<1>4. Sends((f1 \o f2) \o f3, (a1 \o a2) \o a3)
  BY <1>1, <1>2, <1>3, SendsJoin, Zenon
<1>5. ApnTypes(last) = (f1 \o f2) \o f3
  BY Zenon DEF ApnTypes, f1, f2, f3
<1>6. ApnArgs(flag, kind, apn_string) = (a1 \o a2) \o a3
  BY Zenon DEF ApnArgs, a1, a2, a3
<1> QED
  BY <1>4, <1>5, <1>6, Zenon

(* apn_string of an APN of up to 103 bytes.                                *)
LEMMA ApnConfigSends ==
  ASSUME NEW apn \in Seq(Byte), Len(apn) <= 103
  PROVE  Sends(ApnConfigTypes, ApnConfigArgs(apn))
<1> DEFINE rest == Max({0, 101 - Len(apn)})
           apn_string == apn \o Zeros(rest)
           none == Zeros(101)
<1>0. Len(apn) \in Nat
  OBVIOUS
<1>1. rest \in 0 .. 101 /\ Len(apn) + rest <= 103
  <2> DEFINE d == 101 - Len(apn)
             S == {0, d}
  <2>1. d \in Int /\ \E m \in S : \A k \in S : m >= k
    BY <1>0
  <2>2. Max(S) \in S /\ \A k \in S : Max(S) >= k
    <3> HIDE DEF S
    <3> QED
      BY <2>1, Zenon DEF Max
  <2>3. Max(S) = 0 \/ Max(S) = d
    BY <2>2, Zenon
  <2>4. Max(S) >= 0 /\ Max(S) >= d
    BY <2>2, Zenon
  <2> DEFINE m == Max(S)
  <2> HIDE DEF m
  <2>5. (m = 0 \/ m = d) /\ m >= 0 /\ m >= d
    BY <2>3, <2>4, Zenon DEF m
  <2>6. m \in 0 .. 101 /\ Len(apn) + m <= 103
    <3> DEFINE l == Len(apn)
    <3>1. l \in Nat /\ l <= 103 /\ (m = 0 \/ m = 101 - l) /\ m >= 0
      BY <1>0, <2>5, Zenon
    <3> HIDE DEF l
    <3>2. m \in 0 .. 101 /\ l + m <= 103
      <4>1. \A i \in Nat, j \in Int : i <= 103 /\ (j = 0 \/ j = 101 - i) /\ j >= 0 =>
              j \in 0 .. 101 /\ i + j <= 103
        BY SMT
      <4>2. m \in Int
        BY <3>1
      <4> QED
        BY <3>1, <4>1, <4>2, Zenon
    <3> QED
      BY <3>2, Zenon DEF l
  <2> QED
    BY <2>6, Zenon DEF m
<1> HIDE DEF rest
<1>2. apn_string \in Seq(Byte) /\ Len(apn_string) <= 103
  <2>1. rest \in Nat
    BY <1>1
  <2>2. Zeros(rest) \in Seq(Byte) /\ Len(Zeros(rest)) = rest
    BY <2>1, ZerosType, Zenon
  <2>3. apn_string \in Seq(Byte) /\ Len(apn_string) = Len(apn) + rest
    BY <2>2, JoinType, Zenon
  <2> QED
    BY <1>1, <2>3, Zenon
<1>3. none \in Seq(Byte) /\ Len(none) = 101
  BY ZerosType, 101 \in Nat, Zenon
<1> HIDE DEF apn_string, none
<1>4. 0 \in Byte /\ 3 \in Byte /\ 0 \in Nat /\ 3 \in Nat
  BY DEF Byte
<1>5. 104 \in 0 .. 255 /\ 103 \in 0 .. 255
  OBVIOUS
<1>6. Len(none) <= 104 /\ Len(none) <= 103 /\ Len(apn_string) <= 104 /\ Len(apn_string) <= 103
  BY <1>2, <1>3
<1> DEFINE A == ApnArgs(0, 0, none)
           B == ApnArgs(1, 3, apn_string)
<1>7. Sends(ApnTypes(104), A) /\ Sends(ApnTypes(104), B) /\ Sends(ApnTypes(103), B)
  <2>1. 0 \in {0, 1} /\ 1 \in {0, 1}
    OBVIOUS
  <2>2. Sends(ApnTypes(104), A)
    <3>1. none \in Seq(Byte) /\ Len(none) <= 104
      BY <1>3, <1>6, Zenon
    <3> QED
      BY <1>4, <1>5, <2>1, <3>1, ApnBlock, Zenon
  <2>3. Sends(ApnTypes(104), B)
    BY <1>2, <1>4, <1>5, <1>6, <2>1, ApnBlock, Zenon
  <2>4. Sends(ApnTypes(103), B)
    BY <1>2, <1>4, <1>5, <1>6, <2>1, ApnBlock, Zenon
  <2> QED
    BY <2>2, <2>3, <2>4, Zenon
<1>8. Plain(Num("B"), 0) /\ Plain(Num("B"), 3) /\ Plain(Num("L"), 0)
  BY <1>4, PlainNum
<1>9. Sends(<<Num("B")>>, <<0>>) /\ Sends(<<Num("B"), Num("L")>>, <<3, 0>>)
  BY <1>8, SendsTwo, Zenon
<1> DEFINE t == ApnTypes(104)
           u == ApnTypes(103)
<1> HIDE DEF A, B, t, u
<1>10. Sends(((((<<Num("B")>> \o t) \o t) \o t) \o u) \o <<Num("B"), Num("L")>>,
             ((((<<0>> \o A) \o A) \o B) \o B) \o <<3, 0>>)
  <2>1. Sends(<<Num("B")>> \o t, <<0>> \o A)
    BY <1>7, <1>9, SendsJoin, Zenon DEF A, t
  <2>2. Sends((<<Num("B")>> \o t) \o t, (<<0>> \o A) \o A)
    BY <1>7, <2>1, SendsJoin, Zenon DEF A, t
  <2>3. Sends(((<<Num("B")>> \o t) \o t) \o t, ((<<0>> \o A) \o A) \o B)
    BY <1>7, <2>2, SendsJoin, Zenon DEF B, t
  <2>4. Sends((((<<Num("B")>> \o t) \o t) \o t) \o u, (((<<0>> \o A) \o A) \o B) \o B)
    BY <1>7, <2>3, SendsJoin, Zenon DEF B, u
  <2> QED
    BY <1>9, <2>4, SendsJoin, Zenon
<1>11. ApnConfigTypes = ((((<<Num("B")>> \o t) \o t) \o t) \o u) \o <<Num("B"), Num("L")>>
  BY Zenon DEF ApnConfigTypes, t, u
<1>12. ApnConfigArgs(apn) = ((((<<0>> \o A) \o A) \o B) \o B) \o <<3, 0>>
  BY Zenon DEF ApnConfigArgs, A, B, apn_string, none, rest
<1> QED
  BY <1>10, <1>11, <1>12, Zenon

(* The bodies, call by call.                                               *)
LEMMA RequestsAre ==
  ASSUME NEW call, NEW apns, NEW r \in Requests(call, apns)
  PROVE  \/ \E apn \in apns : r = pack_UtaMsCallPsAttachApnConfigReq(apn)
         \/ r \in {pack_UtaMsNetAttachReq, pack_UtaMsCallPsGetNegIpAddrReq,
                   pack_UtaMsCallPsGetNegotiatedDnsReq, pack_UtaMsCallPsConnectReq,
                   pack_UtaRPCPsConnectToDatachannelReq, ModeSetBody, VerChallengeBody, DefaultBody}
  BY SMT DEF Requests

(* The parts of a body.                                                    *)
LEMMA BodySends ==
  ASSUME NEW fmt, NEW args, Sends(fmt, args)
  PROVE  Sends(Body(fmt, args).fmt, Body(fmt, args).args)
<1>1. Body(fmt, args).fmt = fmt /\ Body(fmt, args).args = args
  BY DEF Body
<1> QED
  BY <1>1, Zenon

(* Messages of small numbers.                                              *)
LEMMA SmallNumsSend ==
  ASSUME NEW chs \in Seq({"B", "H", "L"}), NEW args \in Seq(Byte), Len(args) = Len(chs)
  PROVE  Sends(Nums(chs), args)
<1>1. \A k \in 1 .. Len(chs) : args[k] \in Byte
  OBVIOUS
<1>2. args \in Seq(Nat)
  BY BytesAreNats
<1> QED
  BY <1>1, <1>2, NumsSend, Zenon

(* Every request of the bring-up, for every APN of up to 103 bytes.        *)
LEMMA RequestSends ==
  ASSUME NEW call, NEW apns, \A apn \in apns : apn \in Seq(Byte) /\ Len(apn) <= 103,
         NEW r \in Requests(call, apns)
  PROVE  Sends(r.fmt, r.args)
<1> DEFINE C == {"B", "H", "L"}
<1>0. 0 \in Byte /\ 1 \in Byte /\ 6 \in Byte /\ 15 \in Byte /\ 47 \in Byte
  BY DEF Byte
<1>c. "B" \in C /\ "H" \in C /\ "L" \in C
  OBVIOUS
<1>1. ASSUME NEW apn \in apns, r = pack_UtaMsCallPsAttachApnConfigReq(apn) PROVE Sends(r.fmt, r.args)
  <2>1. Sends(ApnConfigTypes, ApnConfigArgs(apn))
    BY ApnConfigSends, Zenon
  <2> QED
    BY <1>1, <2>1, BodySends, Zenon DEF pack_UtaMsCallPsAttachApnConfigReq
<1>2. CASE r = pack_UtaMsNetAttachReq
  <2> DEFINE x == 65535
             chs == <<"B", "L", "L", "L", "L", "H", "H", "L", "L">>
             args == <<0, 0, 0, 0, 0, x, x, 0, 0>>
  <2>1. x \in Nat /\ x \in Numbers(2)
    <3>1. 2 - 1 = 1
      OBVIOUS
    <3> QED
      BY <3>1, PowersAre, SMT DEF Numbers
  <2>0. r = Body(Nums(chs), args)
    BY <1>2, SMT DEF pack_UtaMsNetAttachReq
  <2> HIDE DEF x, C
  <2>2. chs \in Seq(C) /\ Len(chs) = 9 /\ chs[6] = "H" /\ chs[7] = "H"
    BY <1>c
  <2>3. /\ args \in Seq(Nat) /\ Len(args) = 9 /\ args[6] = x /\ args[7] = x
        /\ args[1] = 0 /\ args[2] = 0 /\ args[3] = 0 /\ args[4] = 0 /\ args[5] = 0
        /\ args[8] = 0 /\ args[9] = 0
    BY <2>1
  <2>4. \A k \in 1 .. 9 : k \in {1, 2, 3, 4, 5, 6, 7, 8, 9}
    OBVIOUS
  <2> HIDE DEF chs, args
  <2>5. \A k \in 1 .. 9 : args[k] \in Byte \/ (chs[k] = "H" /\ args[k] \in Numbers(2))
    BY <1>0, <2>1, <2>2, <2>3, <2>4, Zenon
  <2>6. Sends(Nums(chs), args)
    BY <2>2, <2>3, <2>5, NumsSend, Zenon DEF C
  <2> QED
    BY <2>0, <2>6, BodySends, Zenon
<1>3. CASE r \in {pack_UtaMsCallPsGetNegIpAddrReq, pack_UtaMsCallPsGetNegotiatedDnsReq}
  <2> DEFINE chs == <<"B", "L", "L">>
             args == <<0, 0, 0>>
  <2>1. chs \in Seq({"B", "H", "L"}) /\ args \in Seq(Byte) /\ Len(args) = Len(chs)
    BY <1>0, <1>c
  <2>2. Sends(Nums(chs), args)
    BY <2>1, SmallNumsSend, Zenon
  <2> QED
    BY <1>3, <2>2, BodySends, Zenon
    DEF pack_UtaMsCallPsGetNegIpAddrReq, pack_UtaMsCallPsGetNegotiatedDnsReq
<1>4. CASE r = pack_UtaMsCallPsConnectReq
  <2> DEFINE chs == <<"B", "L", "L", "L">>
             args == <<0, 6, 0, 0>>
  <2>1. chs \in Seq({"B", "H", "L"}) /\ args \in Seq(Byte) /\ Len(args) = Len(chs)
    BY <1>0, <1>c
  <2>2. Sends(Nums(chs), args)
    BY <2>1, SmallNumsSend, Zenon
  <2> QED
    BY <1>4, <2>2, BodySends, Zenon DEF pack_UtaMsCallPsConnectReq
<1>5. CASE r = pack_UtaRPCPsConnectToDatachannelReq
  <2> DEFINE path == Times(23, 47)
             bpath == path \o <<0>>
  <2>1. path \in Seq(Byte) /\ Len(path) = 23
    BY <1>0, ManyBytes, 23 \in Nat, Zenon
  <2> HIDE DEF path
  <2>2. <<0>> \in Seq(Byte) /\ Len(<<0>>) = 1
    BY <1>0
  <2>3. bpath \in Seq(Byte) /\ Len(bpath) = 23 + 1
    BY <2>1, <2>2, JoinType, ZenonT(40)
  <2> HIDE DEF bpath
  <2> DEFINE n == Len(bpath)
             len == 24
  <2>4. n = 24
    BY <2>3, SMT
  <2> HIDE DEF n
  <2>5. len \in FieldSizes /\ n <= len /\ Readable(n)
    BY <2>4, ReadableLengths, SMT DEF FieldSizes
  <2> HIDE DEF len
  <2>p. Plain(Str(len), bpath)
    BY <2>3, <2>5, PlainStr, Zenon DEF n
  <2>6. Plain(Str(24), bpath)
    BY <2>p, Zenon DEF len
  <2>7. Sends(<<Str(24)>>, <<bpath>>)
    BY <2>6, SendsTwo, Zenon
  <2> QED
    BY <1>5, <2>7, BodySends, Zenon DEF pack_UtaRPCPsConnectToDatachannelReq, bpath, path
<1>6. CASE r = ModeSetBody
  <2> DEFINE chs == <<"L", "L", "L">>
             args == <<0, 15, 1>>
  <2>1. chs \in Seq({"B", "H", "L"}) /\ args \in Seq(Byte) /\ Len(args) = Len(chs)
    BY <1>0, <1>c
  <2>2. Sends(Nums(chs), args)
    BY <2>1, SmallNumsSend, Zenon
  <2> QED
    BY <1>6, <2>2, BodySends, Zenon DEF ModeSetBody
<1>7. CASE r = VerChallengeBody
  <2> DEFINE x == 123456789
             chs == <<"L">>
             args == <<x>>
  <2>1. x \in Nat /\ x \in Numbers(4)
    <3>1. 4 - 1 = 3
      OBVIOUS
    <3> QED
      BY <3>1, PowersAre, SMT DEF Numbers
  <2>0. r = Body(Nums(chs), args)
    BY <1>7, SMT DEF VerChallengeBody
  <2> HIDE DEF x
  <2>2. chs \in Seq({"B", "H", "L"}) /\ Len(chs) = 1 /\ chs[1] = "L"
    OBVIOUS
  <2>3. args \in Seq(Nat) /\ Len(args) = 1 /\ args[1] = x
    BY <2>1
  <2> HIDE DEF chs, args
  <2>4. \A k \in 1 .. 1 : k = 1
    OBVIOUS
  <2>5. Sends(Nums(chs), args)
    BY <2>1, <2>2, <2>3, <2>4, NumsSend, Zenon
  <2> QED
    BY <2>0, <2>5, BodySends, Zenon
<1>8. CASE r = DefaultBody
  <2> DEFINE chs == <<"L">>
             args == <<0>>
  <2>1. chs \in Seq({"B", "H", "L"}) /\ args \in Seq(Byte) /\ Len(args) = Len(chs)
    BY <1>0, <1>c
  <2>2. Sends(Nums(chs), args)
    BY <2>1, SmallNumsSend, Zenon
  <2> QED
    BY <1>8, <2>2, BodySends, Zenon DEF DefaultBody
<1>9. \/ \E apn \in apns : r = pack_UtaMsCallPsAttachApnConfigReq(apn)
      \/ r \in {pack_UtaMsNetAttachReq, pack_UtaMsCallPsGetNegIpAddrReq,
                pack_UtaMsCallPsGetNegotiatedDnsReq, pack_UtaMsCallPsConnectReq,
                pack_UtaRPCPsConnectToDatachannelReq, ModeSetBody, VerChallengeBody, DefaultBody}
  BY RequestsAre
<1>10. CASE \E apn \in apns : r = pack_UtaMsCallPsAttachApnConfigReq(apn)
  BY <1>1, <1>10, Zenon
<1> QED
  BY <1>2, <1>3, <1>4, <1>5, <1>6, <1>7, <1>8, <1>9, <1>10, Zenon

(* The APNs of the instance are within the bound of the lemma.             *)
LEMMA ApnsFit ==
  ASSUME NEW apn \in Apns
  PROVE  apn \in Seq(Byte) /\ Len(apn) <= 103
<1>1. PICK n \in {0, 1, 100, 101, 103} : apn = Times(n, 65)
  BY Zenon DEF Apns
<1>2. n \in Nat /\ n <= 103
  OBVIOUS
<1>3. 65 \in Byte
  BY DEF Byte
<1> DEFINE b == 65
<1> HIDE DEF b
<1>4. apn \in Seq(Byte) /\ Len(apn) = n
  <2>1. apn = Times(n, b) /\ b \in Byte
    BY <1>1, <1>3, Zenon DEF b
  <2> QED
    BY <1>2, <2>1, ManyBytes, Zenon
<1> QED
  BY <1>2, <1>4, Zenon

(* Every request of the bring-up but the spliced one is read back.         *)
LEMMA RequestsRead ==
  ASSUME NEW call \in Calls
  PROVE  RequestRead[call]
<1>1. ASSUME NEW r \in Requests(call, Apns)
      PROVE  Packs(r.fmt, r.args) /\ UnpackUnknown(Pack(r.fmt, r.args)) = [ok |-> TRUE, val |-> r.args]
  <2>1. \A apn \in Apns : apn \in Seq(Byte) /\ Len(apn) <= 103
    BY ApnsFit, Zenon
  <2>2. Sends(r.fmt, r.args)
    BY <2>1, RequestSends, Zenon
  <2> QED
    BY <2>2, SentIsRead, Zenon
<1> QED
  BY <1>1, Zenon DEF RequestRead

(* A string of any element size and a number behind it.                    *)
LEMMA StringAndNumber ==
  ASSUME NEW f \in Items, f.ch = "s", NEW val, StringFits(f, val)
  PROVE  LET r == UnpackUnknown(Pack(<<f, Num("H")>>, <<val, 513>>))
         IN r.ok /\ Len(r.val) = 2 /\ r.val[1] = Payload(val, f.size) /\ r.val[2] = 513
<1> DEFINE x == 513
           g == Num("H")
           fmt == <<f, g>>
           args == <<val, x>>
<1>1. x \in Numbers(2)
  <2>1. 2 - 1 = 1
    OBVIOUS
  <2> QED
    BY <2>1, PowersAre, SMT DEF Numbers
<1>2. g \in Items /\ g.ch = "H" /\ g.ch # "s"
  BY DEF Num, Items
<1> HIDE DEF x, g
<1>3. /\ fmt \in Seq(Items) /\ Len(fmt) = 2 /\ fmt[1] = f /\ fmt[2] = g
      /\ args[1] = val /\ args[2] = x
  BY <1>2
<1> HIDE DEF fmt, args
<1>4. \A k \in 1 .. 2 : k = 1 \/ k = 2
  OBVIOUS
<1>5. FieldFits(f, val) /\ FieldFits(g, x)
  BY <1>1, <1>2, Zenon DEF FieldFits
<1>6. Fits(fmt, args)
  BY <1>3, <1>4, <1>5, Zenon DEF Fits
<1>7. UnpackUnknown(Pack(fmt, args)) = [ok |-> TRUE, val |-> FieldVals(fmt, args)]
  BY <1>3, <1>6, UnpackPack, Zenon
<1> DEFINE v == FieldVals(fmt, args)
<1>8. v = [k \in 1 .. 2 |-> FieldVal(fmt[k], args[k])]
  BY <1>3, Zenon DEF FieldVals
<1> HIDE DEF v
<1>9. Len(v) = 2 /\ v[1] = FieldVal(fmt[1], args[1]) /\ v[2] = FieldVal(fmt[2], args[2])
  BY <1>8
<1>10. FieldVal(f, val) = Payload(val, f.size) /\ FieldVal(g, x) = x
  BY <1>2, Zenon DEF FieldVal
<1>11. v[1] = Payload(val, f.size) /\ v[2] = x
  BY <1>3, <1>9, <1>10, Zenon
<1> DEFINE r == UnpackUnknown(Pack(fmt, args))
<1>12. r = [ok |-> TRUE, val |-> v]
  BY <1>7, Zenon DEF v
<1> HIDE DEF r
<1>13. r.ok /\ r.val = v
  BY <1>12
<1>14. r.ok /\ Len(r.val) = 2 /\ r.val[1] = Payload(val, f.size) /\ r.val[2] = x
  BY <1>9, <1>11, <1>13, Zenon
<1> QED
  BY <1>14, Zenon DEF r, fmt, args, g, x

(* The strings of the instance.                                            *)
LEMMA StringsAreRead == StringsRead
<1> SUFFICES ASSUME NEW s \in Strings
             PROVE  ReadAs(UnpackUnknown(Pack(<<[ch |-> "s", size |-> s.size, len |-> s.len], Num("H")>>,
                                              <<s.val, 513>>)), s)
  BY Zenon DEF StringsRead
<1>1. PICK n \in {0, 1, 127, 128, 129, 255, 257, 514}, size \in {1, 2, 4}, pad \in {0, 3} :
        s = Sample(n, size, pad)
  BY SMT DEF Strings
<1> DEFINE val == [k \in 1 .. n |-> k % 256]
           len == n + pad
           f == [ch |-> "s", size |-> size, len |-> len]
<1>2. n \in Nat /\ (n < 256 \/ n = 257 \/ n = 514) /\ len \in Nat /\ n <= len /\ len <= 1000
  OBVIOUS
<1>3. Readable(n)
  BY <1>2, ReadableLengths, SMT
<1> HIDE DEF len
<1>4. s.val = val /\ s.size = size /\ s.len = len
  BY <1>1 DEF Sample, len
<1>5. val \in Seq(Numbers(size)) /\ Len(val) = n
  <2>1. \A k \in 1 .. n : k % 256 \in Byte
    BY SMT DEF Byte
  <2>2. Byte \subseteq Numbers(size)
    <3>1. CASE size = 1
      BY <3>1, ByteNumbers
    <3>2. CASE size \in {2, 4}
      <4>1. 2 - 1 = 1 /\ 4 - 1 = 3
        OBVIOUS
      <4> QED
        BY <3>2, <4>1, PowersAre, SMT DEF Byte, Numbers
    <3> QED
      BY <3>1, <3>2
  <2>3. \A k \in 1 .. n : k % 256 \in Numbers(size)
    BY <2>1, <2>2, Zenon
  <2> QED
    BY <1>2, <2>3
<1>6. len * size \in Numbers(4)
  <2>1. 4 - 1 = 3
    OBVIOUS
  <2>2. len * size \in Nat /\ len * size <= 4000
    BY <1>2
  <2> QED
    BY <2>1, <2>2, PowersAre, SMT DEF Numbers
<1> HIDE DEF val
<1>7. f \in Items /\ f.ch = "s" /\ f.size = size /\ f.len = len
  BY <1>2 DEF Items
<1> HIDE DEF f
<1>8. StringFits(f, val)
  BY <1>2, <1>3, <1>5, <1>6, <1>7, ZenonT(40) DEF StringFits
<1> DEFINE x == 513
           r == UnpackUnknown(Pack(<<f, Num("H")>>, <<val, x>>))
<1>9. r.ok /\ Len(r.val) = 2 /\ r.val[1] = Payload(val, size) /\ r.val[2] = x
  <2>1. r.ok /\ Len(r.val) = 2 /\ r.val[1] = Payload(val, f.size) /\ r.val[2] = x
    BY <1>7, <1>8, StringAndNumber, SMT
  <2> HIDE DEF r, x
  <2> QED
    BY <1>7, <2>1, Zenon
<1> HIDE DEF x
<1>10. r = UnpackUnknown(Pack(<<[ch |-> "s", size |-> s.size, len |-> s.len], Num("H")>>, <<s.val, x>>))
  BY <1>4, Zenon DEF f
<1> HIDE DEF r
<1>11. ReadAs(r, s)
  BY <1>4, <1>9, Zenon DEF ReadAs, x
<1> QED
  BY <1>10, <1>11, Zenon DEF x

(* Every call but the connect request has a body of its own.               *)
LEMMA CallNames ==
  ASSUME NEW k \in DOMAIN Script, IsCall(k), k # Setup
  PROVE  Script[k] \in Calls
<1>1. Script[k] \in {Script[j] : j \in {j \in DOMAIN Script : IsCall(j)}}
  BY Zenon
<1>2. Script[k] # "UtaRPCPSConnectSetupReq"
  <2> DEFINE x == "UtaRPCPSConnectSetupReq"
  <2>1. /\ Script[1] # x /\ Script[2] # x /\ Script[3] # x /\ Script[4] # x /\ Script[5] # x
        /\ Script[6] # x /\ Script[7] # x /\ Script[8] # x /\ Script[9] # x /\ Script[10] # x
        /\ Script[11] # x /\ Script[12] # x /\ Script[13] # x /\ Script[14] # x /\ Script[15] # x
        /\ Script[16] # x /\ Script[17] # x /\ Script[18] # x /\ Script[19] # x /\ Script[20] # x
        /\ Script[22] # x /\ Script[23] # x
    BY SMT DEF Script
  <2>2. DOMAIN Script = 1 .. 23
    BY SMT DEF Script
  <2>3. k \in {1, 2, 3, 4, 5, 6, 7, 8, 9, 10, 11, 12, 13, 14, 15, 16, 17, 18, 19, 20, 22, 23}
    BY <2>2, SMT DEF Setup
  <2> HIDE DEF x
  <2>4. Script[k] # x
    BY <2>1, <2>3, Zenon
  <2> QED
    BY <2>4, Zenon DEF x
<1> QED
  BY <1>1, <1>2, Zenon DEF Calls

-----------------------------------------------------------------------------
(* Frames.                                                                 *)

(* Joining is associative.                                                 *)
LEMMA JoinAssociative ==
  ASSUME NEW D, NEW s \in Seq(D), NEW t \in Seq(D), NEW u \in Seq(D)
  PROVE  (s \o t) \o u = s \o (t \o u)
  OBVIOUS

(* Two packed messages, one behind the other, are one.                     *)
LEMMA PackJoin ==
  ASSUME NEW f \in Seq(Items), NEW g \in Seq(Items), NEW a, NEW b,
         a \in Seq(Values), b \in Seq(Values), Len(a) = Len(f), Len(b) = Len(g),
         Fits(f, a), Fits(g, b)
  PROVE  Pack(f \o g, a \o b) = Pack(f, a) \o Pack(g, b)
<1> DEFINE m == Len(f)
           n == Len(g)
           h == f \o g
           c == a \o b
           F(k) == PackField(f[k], a[k])
           G(k) == PackField(g[k], b[k])
           H(k) == PackField(h[k], c[k])
<1>0. m \in Nat /\ n \in Nat /\ h \in Seq(Items) /\ Len(h) = m + n
  OBVIOUS
<1>1. /\ \A k \in 1 .. m : h[k] = f[k] /\ c[k] = a[k]
      /\ \A k \in m + 1 .. m + n : h[k] = g[k - m] /\ c[k] = b[k - m]
  OBVIOUS
<1>2. \A k \in 1 .. n : m + k \in m + 1 .. m + n /\ (m + k) - m = k
  BY <1>0
<1>3. (\A k \in 1 .. m : H(k) = F(k)) /\ \A k \in 1 .. n : H(m + k) = G(k)
  <2> HIDE DEF h, c, m, n
  <2>1. \A k \in 1 .. m : H(k) = F(k)
    BY <1>1, Zenon
  <2>2. ASSUME NEW k \in 1 .. n PROVE H(m + k) = G(k)
    <3>1. m + k \in m + 1 .. m + n /\ (m + k) - m = k
      BY <1>2, Zenon
    <3> DEFINE j == m + k
    <3>2. j \in m + 1 .. m + n /\ j - m = k
      BY <3>1, Zenon
    <3> HIDE DEF j
    <3>3. h[j] = g[j - m] /\ c[j] = b[j - m]
      BY <1>1, <3>2, Zenon
    <3>4. H(j) = G(k)
      BY <3>2, <3>3, Zenon
    <3> QED
      BY <3>4, Zenon DEF j
  <2> QED
    BY <2>1, <2>2, Zenon
<1>4. \A k \in 1 .. m : F(k) \in Seq(Byte)
  BY FieldType, Zenon DEF Fits
<1>5. \A k \in 1 .. n : G(k) \in Seq(Byte)
  BY FieldType, Zenon DEF Fits
<1>6. PICK p : p[0] = <<>> /\ Pack(h, c) = p[Len(h)] /\ \A k \in 1 .. Len(h) : p[k] = p[k - 1] \o H(k)
  BY <1>0, PackLoop, ZenonT(40)
<1>7. PICK q : q[0] = <<>> /\ Pack(f, a) = q[m] /\ \A k \in 1 .. m : q[k] = q[k - 1] \o F(k)
  BY PackLoop, Zenon
<1>8. PICK r : r[0] = <<>> /\ Pack(g, b) = r[n] /\ \A k \in 1 .. n : r[k] = r[k - 1] \o G(k)
  BY PackLoop, Zenon
<1> HIDE DEF m, n, h, c, F, G, H
<1>9. Pack(h, c) = p[m + n] /\ \A k \in 1 .. m + n : p[k] = p[k - 1] \o H(k)
  BY <1>0, <1>6, Zenon
<1>10. \A k \in 0 .. m : p[k] = q[k] /\ q[k] \in Seq(Byte)
  <2> DEFINE S == {k \in 0 .. m : p[k] = q[k] /\ q[k] \in Seq(Byte)}
  <2>1. 0 \in S
    <3>1. 0 \in 0 .. m /\ <<>> \in Seq(Byte)
      BY <1>0
    <3> QED
      BY <1>6, <1>7, <3>1, Zenon
  <2>2. \A k \in 1 .. m : k - 1 \in S => k \in S
    <3> SUFFICES ASSUME NEW k \in 1 .. m, k - 1 \in S PROVE k \in S
      BY Zenon
    <3>1. k \in 0 .. m /\ k \in 1 .. m + n
      BY <1>0
    <3>2. p[k - 1] = q[k - 1] /\ q[k - 1] \in Seq(Byte)
      BY Zenon
    <3>3. p[k] = p[k - 1] \o H(k) /\ q[k] = q[k - 1] \o F(k) /\ H(k) = F(k) /\ F(k) \in Seq(Byte)
      BY <1>3, <1>4, <1>7, <1>9, <3>1, Zenon
    <3>4. q[k] \in Seq(Byte)
      BY <3>2, <3>3, JoinType, Zenon
    <3>5. p[k] = q[k]
      BY <3>2, <3>3, Zenon
    <3> QED
      BY <3>1, <3>4, <3>5, Zenon
  <2> HIDE DEF S
  <2>3. \A k \in 0 .. m : k \in S
    BY <1>0, <2>1, <2>2, UpTo
  <2> QED
    BY <2>3, Zenon DEF S
<1>11. p[m] = q[m] /\ q[m] \in Seq(Byte)
  <2>1. m \in 0 .. m
    BY <1>0
  <2> QED
    BY <1>10, <2>1, Zenon
<1>12. \A k \in 0 .. n : p[m + k] = q[m] \o r[k] /\ r[k] \in Seq(Byte)
  <2> DEFINE S == {k \in 0 .. n : p[m + k] = q[m] \o r[k] /\ r[k] \in Seq(Byte)}
  <2>1. 0 \in S
    <3>1. 0 \in 0 .. n /\ <<>> \in Seq(Byte) /\ m + 0 = m
      BY <1>0
    <3> DEFINE w == q[m]
    <3>2. w \in Seq(Byte)
      BY <1>11, Zenon
    <3> HIDE DEF w
    <3>3. w \o <<>> = w
      BY <3>2
    <3>4. p[m + 0] = q[m] \o r[0]
      BY <1>8, <1>11, <3>1, <3>3, Zenon DEF w
    <3> QED
      BY <1>8, <3>1, <3>4, Zenon
  <2>2. \A k \in 1 .. n : k - 1 \in S => k \in S
    <3> SUFFICES ASSUME NEW k \in 1 .. n, k - 1 \in S PROVE k \in S
      BY Zenon
    <3>1. k \in 0 .. n /\ m + k \in 1 .. m + n /\ (m + k) - 1 = m + (k - 1)
      BY <1>0
    <3>2. p[m + (k - 1)] = q[m] \o r[k - 1] /\ r[k - 1] \in Seq(Byte)
      BY Zenon
    <3>3. p[m + k] = p[(m + k) - 1] \o H(m + k) /\ H(m + k) = G(k)
      <4> DEFINE j == m + k
      <4>1. j \in 1 .. m + n
        BY <3>1, Zenon
      <4> HIDE DEF j
      <4>2. p[j] = p[j - 1] \o H(j)
        BY <1>9, <4>1, Zenon
      <4>3. H(j) = G(k)
        BY <1>3, Zenon DEF j
      <4> QED
        BY <4>2, <4>3 DEF j
    <3>4. r[k] = r[k - 1] \o G(k) /\ G(k) \in Seq(Byte)
      BY <1>5, <1>8, Zenon
    <3>5. p[m + k] = (q[m] \o r[k - 1]) \o G(k)
      BY <3>1, <3>2, <3>3, Zenon
    <3>6. (q[m] \o r[k - 1]) \o G(k) = q[m] \o (r[k - 1] \o G(k))
      <4> DEFINE x == q[m]
                 y == r[k - 1]
                 z == G(k)
      <4>1. x \in Seq(Byte) /\ y \in Seq(Byte) /\ z \in Seq(Byte)
        BY <1>11, <3>2, <3>4, Zenon
      <4> HIDE DEF x, y, z
      <4>2. (x \o y) \o z = x \o (y \o z)
        BY <4>1, SMTT(30)
      <4> QED
        BY <4>2, Zenon DEF x, y, z
    <3>7. r[k] \in Seq(Byte)
      BY <3>2, <3>4, JoinType, Zenon
    <3>8. p[m + k] = q[m] \o r[k]
      BY <3>4, <3>5, <3>6, Zenon
    <3> QED
      BY <3>1, <3>7, <3>8, Zenon
  <2> HIDE DEF S
  <2>3. \A k \in 0 .. n : k \in S
    BY <1>0, <2>1, <2>2, UpTo
  <2> QED
    BY <2>3, Zenon DEF S
<1>13. n \in 0 .. n
  BY <1>0
<1>14. p[m + n] = q[m] \o r[n]
  BY <1>12, <1>13, Zenon
<1>15. Pack(h, c) = Pack(f, a) \o Pack(g, b)
  BY <1>7, <1>8, <1>9, <1>14, Zenon
<1> QED
  BY <1>15, Zenon DEF h, c

(* A body of one field.                                                    *)
LEMMA PackOne ==
  ASSUME NEW f \in Items, NEW v, FieldFits(f, v)
  PROVE  Pack(<<f>>, <<v>>) = PackField(f, v)
<1> DEFINE s == <<f>>
           t == <<v>>
<1>1. s \in Seq(Items) /\ Len(s) = 1 /\ s[1] = f /\ t[1] = v
  OBVIOUS
<1> HIDE DEF s, t
<1>2. PICK p : /\ p[0] = <<>> /\ Pack(s, t) = p[Len(s)]
               /\ \A k \in 1 .. Len(s) : p[k] = p[k - 1] \o PackField(s[k], t[k])
  BY <1>1, PackLoop, Zenon
<1>3. 1 \in 1 .. 1 /\ 1 - 1 = 0
  OBVIOUS
<1>4. Pack(s, t) = <<>> \o PackField(f, v)
  BY <1>1, <1>2, <1>3, Zenon
<1>5. PackField(f, v) \in Seq(Byte)
  BY FieldType, Zenon
<1>6. <<>> \o PackField(f, v) = PackField(f, v)
  <2> DEFINE w == PackField(f, v)
  <2> HIDE DEF w
  <2>1. w \in Seq(Byte)
    BY <1>5, Zenon DEF w
  <2>2. <<>> \o w = w
    BY <2>1
  <2> QED
    BY <2>2, Zenon DEF w
<1> QED
  BY <1>4, <1>6, Zenon DEF s, t

(* A sequence is its own part.                                             *)
LEMMA HoldsItself ==
  ASSUME NEW d \in Seq(Nat)
  PROVE  Holds(d, 1, d)
  BY DEF Holds

(* The fields of a frame are where handle_message takes them.              *)
LEMMA FrameParts ==
  ASSUME NEW code \in Numbers(4), NEW txid \in Numbers(4), NEW body \in Seq(Byte)
  PROVE  LET m == Frame(code, txid, body)
         IN /\ m \in Seq(Byte) /\ Len(m) = 20 + Len(body)
            /\ m[5] = 2 /\ m[6] = 4 /\ m[11] = 2 /\ m[12] = 4
            /\ BigEndian(SubSeq(m, 13, 16)) = code
            /\ BigEndian(SubSeq(m, 17, 20)) = txid
            /\ SubSeq(m, 21, Len(m)) = body
<1> DEFINE n == Len(body) + 16
           A == Reverse(Bytes(4, n))
           h == <<2, 4>>
           B == asn_int4(n)
           b == Bytes(4, code)
           C == asn_int4(code)
           D == Bytes(4, txid)
           m == Frame(code, txid, body)
<1>0. n \in Nat /\ code \in Nat /\ txid \in Nat /\ Len(body) \in Nat
  <2>1. code \in Nat /\ txid \in Nat
    BY NumbersAreNats, 4 \in {1, 2, 4}, Zenon
  <2>2. Len(body) \in Nat
    OBVIOUS
  <2>3. n \in Nat
    BY <2>2
  <2> QED
    BY <2>1, <2>2, <2>3, Zenon
<1>1. 4 \in 1 .. 4 /\ 4 \in {1, 2, 4}
  OBVIOUS
<1>2. A \in Seq(Byte) /\ Len(A) = 4
  <2> DEFINE a == Bytes(4, n)
  <2>1. a \in Seq(Byte) /\ Len(a) = 4
    BY <1>0, <1>1, BytesType, Zenon
  <2> HIDE DEF a
  <2>2. \A k \in 1 .. Len(a) : a[(Len(a) - k) + 1] \in Byte
    <3>1. \A k \in 1 .. 4 : (4 - k) + 1 \in 1 .. 4
      OBVIOUS
    <3>2. \A k \in 1 .. 4 : a[k] \in Byte
      <4>1. a \in Seq(Byte) => \A k \in 1 .. Len(a) : a[k] \in Byte
        OBVIOUS
      <4> QED
        BY <2>1, <4>1, Zenon
    <3> QED
      BY <2>1, <3>1, <3>2, Zenon
  <2>3. Reverse(a) \in Seq(Byte) /\ Len(Reverse(a)) = 4
    BY <2>1, <2>2 DEF Reverse
  <2> QED
    BY <2>3, Zenon DEF a
<1>3. /\ B \in Seq(Byte) /\ Len(B) = 4 + 2 /\ C \in Seq(Byte) /\ Len(C) = 4 + 2
      /\ b \in Seq(Byte) /\ Len(b) = 4 /\ D \in Seq(Byte) /\ Len(D) = 4
  BY <1>0, <1>1, AsnIntType, BytesType, Zenon DEF asn_int4
<1>4. h \in Seq(Nat) /\ Len(h) = 2 /\ h[1] = 2 /\ h[2] = 4 /\ C = h \o b /\ B = h \o Bytes(4, n)
  BY DEF asn_int4, AsnInt
<1>5. m = (((A \o B) \o C) \o D) \o body
  BY Zenon DEF Frame
<1>6. BigEndian(b) = code /\ BigEndian(D) = txid
  BY <1>1, BytesRead, Zenon
<1>7. Bytes(4, n) \in Seq(Nat)
  BY <1>0, <1>1, BytesType, BytesAreNats, Zenon
<1> DEFINE c == Bytes(4, n)
<1> HIDE DEF n, A, h, B, b, C, D, m, c
<1>8. A \in Seq(Nat) /\ B \in Seq(Nat) /\ C \in Seq(Nat) /\ D \in Seq(Nat) /\ body \in Seq(Nat)
      /\ b \in Seq(Nat) /\ c \in Seq(Nat)
  BY <1>2, <1>3, <1>7, BytesAreNats, Zenon DEF c
<1> DEFINE x1 == A \o B
           x2 == x1 \o C
           x3 == x2 \o D
<1>9. x1 \in Seq(Byte) /\ Len(x1) = Len(A) + Len(B)
  BY <1>2, <1>3, JoinType, Zenon
<1>10. x2 \in Seq(Byte) /\ Len(x2) = Len(x1) + Len(C)
  <2> HIDE DEF x1
  <2> QED
    BY <1>3, <1>9, JoinType, Zenon
<1>11. x3 \in Seq(Byte) /\ Len(x3) = Len(x2) + Len(D)
  <2> HIDE DEF x2
  <2> QED
    BY <1>3, <1>10, JoinType, Zenon
<1> HIDE DEF x3
<1>12. m \in Seq(Byte) /\ Len(m) = Len(x3) + Len(body) /\ m = x3 \o body
  BY <1>5, <1>11, JoinType, Zenon DEF x3
<1>13. Len(x1) = 10 /\ Len(x2) = 16 /\ Len(x3) = 20
  <2> DEFINE l1 == Len(x1)
             l2 == Len(x2)
             l3 == Len(x3)
  <2>1. l1 = 4 + (4 + 2) /\ l2 = l1 + (4 + 2) /\ l3 = l2 + 4
    BY <1>2, <1>3, <1>9, <1>10, <1>11, Zenon
  <2> HIDE DEF l1, l2, l3
  <2>2. l1 = 10 /\ l2 = 16 /\ l3 = 20
    BY <2>1
  <2> QED
    BY <2>2, Zenon DEF l1, l2, l3
<1>14. x1 \in Seq(Nat) /\ x2 \in Seq(Nat) /\ x3 \in Seq(Nat) /\ m \in Seq(Nat)
  BY <1>9, <1>10, <1>11, <1>12, BytesAreNats, Zenon
<1>15. Holds(m, 1, x3) /\ Holds(m, 1 + 20, body)
  <2>1. Holds(m, 1, x3 \o body)
    BY <1>12, <1>14, HoldsItself, Zenon
  <2> QED
    BY <1>8, <1>13, <1>14, <2>1, HoldsJoin, 1 \in Nat, Zenon
<1>16. Holds(m, 1, x2) /\ Holds(m, 1 + 16, D)
  <2> HIDE DEF x2
  <2>1. Holds(m, 1, x2 \o D)
    BY <1>15, Zenon DEF x3
  <2> QED
    BY <1>8, <1>13, <1>14, <2>1, HoldsJoin, 1 \in Nat, Zenon
<1>17. Holds(m, 1, x1) /\ Holds(m, 1 + 10, C)
  <2> HIDE DEF x1
  <2>1. Holds(m, 1, x1 \o C)
    BY <1>16, Zenon
  <2> QED
    BY <1>8, <1>13, <1>14, <2>1, HoldsJoin, 1 \in Nat, Zenon
<1>18. Holds(m, 1 + 4, B)
  <2>1. Holds(m, 1, A \o B)
    BY <1>17, Zenon
  <2> QED
    BY <1>2, <1>8, <1>14, <2>1, HoldsJoin, 1 \in Nat, Zenon
<1>s. 1 + 4 = 5 /\ 1 + 10 = 11 /\ 1 + 16 = 17 /\ 1 + 20 = 21 /\ 11 + 2 = 13
  OBVIOUS
<1>19. Holds(m, 5, h)
  <2>1. Holds(m, 5, h \o c)
    BY <1>4, <1>18, <1>s, Zenon DEF c
  <2> QED
    BY <1>4, <1>8, <1>14, <2>1, HoldsJoin, 5 \in Nat, Zenon
<1>20. Holds(m, 11, h) /\ Holds(m, 13, b)
  <2>1. Holds(m, 11, h \o b)
    BY <1>4, <1>17, <1>s, Zenon
  <2> QED
    <3>1. Holds(m, 11, h) /\ Holds(m, 11 + Len(h), b)
      BY <1>4, <1>8, <1>14, <2>1, HoldsJoin, 11 \in Nat, Zenon
    <3> QED
      BY <1>4, <1>s, <3>1, Zenon
<1>21. m[5] = 2 /\ m[6] = 4 /\ m[11] = 2 /\ m[12] = 4
  <2>1. ASSUME NEW i \in Nat, Holds(m, i, h) PROVE m[i] = 2 /\ m[i + 1] = 4
    <3>1. \A k \in 1 .. Len(h) : m[i + k - 1] = h[k]
      BY <2>1, Zenon DEF Holds
    <3>2. 1 \in 1 .. 2 /\ 2 \in 1 .. 2 /\ i + 1 - 1 = i /\ i + 2 - 1 = i + 1
      OBVIOUS
    <3> QED
      BY <1>4, <3>1, <3>2, Zenon
  <2>2. 5 + 1 = 6 /\ 11 + 1 = 12 /\ 5 \in Nat /\ 11 \in Nat
    OBVIOUS
  <2> QED
    BY <1>19, <1>20, <2>1, <2>2, Zenon
<1>22. SubSeq(m, 13, 16) = b /\ SubSeq(m, 17, 20) = D
  <2>1. SubSeq(m, 13, 13 + Len(b) - 1) = b
    BY <1>8, <1>14, <1>20, HoldsPart, 13 \in Nat \ {0}, Zenon
  <2>2. SubSeq(m, 17, 17 + Len(D) - 1) = D
    <3>1. Holds(m, 17, D)
      BY <1>16, <1>s, Zenon
    <3> QED
      BY <1>8, <1>14, <3>1, HoldsPart, 17 \in Nat \ {0}, Zenon
  <2>3. 13 + 4 - 1 = 16 /\ 17 + 4 - 1 = 20
    OBVIOUS
  <2> QED
    BY <1>3, <2>1, <2>2, <2>3, Zenon
<1>23. SubSeq(m, 21, Len(m)) = body
  <2>1. SubSeq(m, 21, 21 + Len(body) - 1) = body
    <3>1. Holds(m, 21, body)
      BY <1>15, <1>s, Zenon
    <3> QED
      BY <1>8, <1>14, <3>1, HoldsPart, 21 \in Nat \ {0}, Zenon
  <2> DEFINE l == Len(body)
  <2> HIDE DEF l
  <2>2. 21 + l - 1 = 20 + l
    BY <1>0 DEF l
  <2>3. Len(m) = 20 + l
    BY <1>12, <1>13, Zenon DEF l
  <2> QED
    BY <2>1, <2>2, <2>3, Zenon DEF l
<1>24. Len(m) = 20 + Len(body)
  BY <1>12, <1>13, Zenon
<1> QED
  BY <1>6, <1>12, <1>21, <1>22, <1>23, <1>24, Zenon DEF m

(* The transaction ids of execute.                                         *)
LEMMA TransactionIds ==
  /\ SYNC_TID \in Numbers(4) /\ ASYNC_TID \in Numbers(4) /\ ASYNC_TID # SYNC_TID
  /\ ASYNC_TID - (ASYNC_TID % 256) = SYNC_TID
<1>1. 4 - 1 = 3
  OBVIOUS
<1>2. SYNC_TID \in Numbers(4) /\ ASYNC_TID \in Numbers(4)
  BY <1>1, PowersAre, SMT DEF SYNC_TID, ASYNC_TID, Numbers
<1>3. ASYNC_TID # SYNC_TID /\ ASYNC_TID - (ASYNC_TID % 256) = SYNC_TID
  BY SMT DEF SYNC_TID, ASYNC_TID
<1> QED
  BY <1>2, <1>3, Zenon

(* handle_message finds the code, the transaction id and the body.         *)
LEMMA FrameHandled ==
  ASSUME NEW code \in Numbers(4), NEW txid \in Numbers(4), NEW body \in Seq(Byte)
  PROVE  LET m == Frame(code, txid, body)
         IN HandleMessage(m) = Handled(m, code, txid, body, UnpackUnknown(body))
<1> DEFINE m == Frame(code, txid, body)
           b == SubSeq(m, 21, Len(m))
<1>1. BigEndian(SubSeq(m, 13, 16)) = code /\ BigEndian(SubSeq(m, 17, 20)) = txid /\ b = body
  BY FrameParts
<1>2. HandleMessage(m) =
        Handled(m, BigEndian(SubSeq(m, 13, 16)), BigEndian(SubSeq(m, 17, 20)), b, UnpackUnknown(b))
  BY Zenon DEF HandleMessage
<1> HIDE DEF m, b
<1>3. HandleMessage(m) = Handled(m, code, txid, body, UnpackUnknown(body))
  BY <1>1, <1>2, Zenon
<1> QED
  BY <1>3, Zenon DEF m

(* The codes of answers; from 2000 on they are acknowledgements.           *)
ResponseCodes == {code \in Nat : code < 2000}

(* What handle_message makes of an answer to a synchronous and to an       *)
(* asynchronous request.                                                   *)
Answer(code, fmt, args)      == HandleMessage(Response(code, fmt, args, FALSE))
AsyncAnswer(code, fmt, args) == HandleMessage(Response(code, fmt, args, TRUE))

(* handle_message and the answer to a synchronous request.                 *)
LEMMA SyncHandled ==
  ASSUME NEW fmt, NEW args, Sends(fmt, args), NEW code \in ResponseCodes
  PROVE  Answer(code, fmt, args) = [ok |-> TRUE, type |-> "response", code |-> code,
                                   body |-> Pack(fmt, args), content |-> args]
<1> DEFINE r == Answer(code, fmt, args)
           body == Pack(fmt, args)
<1>0. code \in Numbers(4)
  <2>1. 4 - 1 = 3
    OBVIOUS
  <2> QED
    BY <2>1, PowersAre, SMT DEF Numbers, ResponseCodes
<1>1. /\ fmt \in Seq(Items) /\ args \in Seq(Values) /\ Len(fmt) = Len(args)
      /\ Fits(fmt, args)
  BY Zenon DEF Sends, Plain, Fits
<1>2. body \in Seq(Byte)
  BY <1>1, PackPlaces, Zenon
<1>3. UnpackUnknown(body) = [ok |-> TRUE, val |-> args]
  BY SentIsRead, Zenon
<1> DEFINE m == Frame(code, SYNC_TID, body)
           u == [ok |-> TRUE, val |-> args]
<1>s1. r = HandleMessage(m)
  BY Zenon DEF Answer, Response, Request
<1>s2. r = Handled(m, code, SYNC_TID, body, u)
  <2>1. SYNC_TID \in Numbers(4)
    BY TransactionIds, Zenon
  <2> HIDE DEF m, body
  <2>2. HandleMessage(m) = Handled(m, code, SYNC_TID, body, UnpackUnknown(body))
    BY <1>0, <1>2, <2>1, FrameHandled, Zenon DEF m
  <2> QED
    BY <1>3, <1>s1, <2>2, Zenon
<1>s3. Len(m) = 20 + Len(body) /\ m[5] = 2 /\ m[6] = 4 /\ m[11] = 2 /\ m[12] = 4
  <2>1. SYNC_TID \in Numbers(4)
    BY TransactionIds, Zenon
  <2> HIDE DEF body
  <2> QED
    BY <1>0, <1>2, <2>1, FrameParts, Zenon
<1> HIDE DEF m, body, r
<1>s4. Len(m) >= 20
  <2>1. Len(body) \in Nat
    BY <1>2
  <2> QED
    BY <1>s3, <2>1
<1>s5. TypeOf([txid |-> SYNC_TID, code |-> code]) = "response"
  BY SMT DEF TypeOf
<1> DEFINE t == TypeOf([txid |-> SYNC_TID, code |-> code])
<1>s6. r = [ok |-> /\ Len(m) >= 20 /\ m[5] = 2 /\ m[6] = 4 /\ m[11] = 2 /\ m[12] = 4
                  /\ u.ok /\ (FALSE => u.val # <<>> /\ u.val[1] = SYNC_TID),
           type |-> t, code |-> code, body |-> body, content |-> u.val]
  BY <1>s2, <1>s5, Zenon DEF Handled
<1>s7. u.ok /\ u.val = args
  OBVIOUS
<1> HIDE DEF u, t
<1>s8. r = [ok |-> TRUE, type |-> t, code |-> code, body |-> body, content |-> args]
  BY <1>s3, <1>s4, <1>s6, <1>s7, Zenon
<1> QED
  BY <1>s5, <1>s8, Zenon DEF t, r, body

(* handle_message and the answer to an asynchronous request.               *)
LEMMA AsyncHandled ==
  ASSUME NEW fmt, NEW args, Sends(fmt, args), NEW code \in ResponseCodes
  PROVE  AsyncAnswer(code, fmt, args) = [ok |-> TRUE, type |-> "response", code |-> code,
                                        body |-> Pack(fmt, args), content |-> args]
<1> DEFINE r == AsyncAnswer(code, fmt, args)
           body == Pack(fmt, args)
<1>0. code \in Numbers(4)
  <2>1. 4 - 1 = 3
    OBVIOUS
  <2> QED
    BY <2>1, PowersAre, SMT DEF Numbers, ResponseCodes
<1>1. /\ fmt \in Seq(Items) /\ args \in Seq(Values) /\ Len(fmt) = Len(args)
      /\ Fits(fmt, args)
  BY Zenon DEF Sends, Plain, Fits
<1>2. body \in Seq(Byte)
  BY <1>1, PackPlaces, Zenon
<1>3. UnpackUnknown(body) = [ok |-> TRUE, val |-> args]
  BY SentIsRead, Zenon
<1> DEFINE id == ASYNC_TID
           g == Num("L")
           full == Pack(<<g>> \o fmt, <<id>> \o args)
           m == Frame(code, id, full)
           vals == <<id>> \o args
           u == [ok |-> TRUE, val |-> vals]
           t == TypeOf([txid |-> id, code |-> code])
<1>s1. id \in Numbers(4) /\ id # SYNC_TID
  BY TransactionIds, Zenon
<1>s2. id \in Nat
  BY <1>s1, NumbersAreNats, 4 \in {1, 2, 4}, Zenon
<1>sa. asn_int4(ASYNC_TID) = asn_int4(id)
  OBVIOUS
<1>st. t = "response"
  <2>1. code < 2000
    BY DEF ResponseCodes
  <2> DEFINE w == [txid |-> id, code |-> code]
  <2>2. w.txid # SYNC_TID /\ w.txid - (w.txid % 256) = SYNC_TID /\ ~(w.code >= 2000)
    <3>1. w.txid = ASYNC_TID /\ w.code = code /\ code \in Nat
      BY DEF ResponseCodes
    <3> HIDE DEF w
    <3>2. ~(w.code >= 2000)
      BY <2>1, <3>1, SMT
    <3> QED
      BY <3>1, <3>2, TransactionIds, SMT
  <2> HIDE DEF w
  <2>3. TypeOf(w) = "response"
    BY <2>2, SMT DEF TypeOf
  <2> QED
    BY <2>3, Zenon DEF w
<1>sc. r = HandleMessage(Frame(code, id, asn_int4(id) \o body))
  BY Zenon DEF AsyncAnswer, Response, Request
<1> HIDE DEF id
<1>s3. Plain(g, id)
  BY <1>s1, <1>s2, PlainNum
<1>s4. Sends(<<g>>, <<id>>)
  BY <1>s3, SendsTwo, Zenon
<1>s5. Sends(<<g>> \o fmt, vals)
  BY <1>s4, SendsJoin, Zenon
<1>s6. g \in Items /\ FieldFits(g, id)
  BY <1>s3, Zenon DEF Plain
<1>s7. Pack(<<g>>, <<id>>) = asn_int4(id)
  <2>1. Pack(<<g>>, <<id>>) = PackField(g, id)
    BY <1>s6, PackOne, Zenon
  <2>2. g.ch = "L"
    BY DEF Num
  <2>3. PackField(g, id) = AsnInt(4, id)
    BY <2>2, PackFieldIs, Zenon
  <2> QED
    BY <2>1, <2>3, Zenon DEF asn_int4
<1> DEFINE hd == asn_int4(id)
<1>s8. full = hd \o body
  <2>1. /\ <<g>> \in Seq(Items) /\ <<id>> \in Seq(Values) /\ Len(<<id>>) = Len(<<g>>)
        /\ Fits(<<g>>, <<id>>)
    BY <1>s4, Zenon DEF Sends, Plain, Fits
  <2>2. full = Pack(<<g>>, <<id>>) \o Pack(fmt, args)
    <3> DEFINE f1 == <<g>>
               a1 == <<id>>
    <3>1. /\ f1 \in Seq(Items) /\ a1 \in Seq(Values) /\ Len(a1) = Len(f1) /\ Fits(f1, a1)
      BY <2>1, Zenon
    <3> HIDE DEF f1, a1
    <3>2. Pack(f1 \o fmt, a1 \o args) = Pack(f1, a1) \o Pack(fmt, args)
      BY <1>1, <3>1, PackJoin
    <3> QED
      BY <3>2, Zenon DEF f1, a1
  <2> QED
    BY <1>s7, <2>2, Zenon
<1>s9. full \in Seq(Byte)
  BY <1>s5, PackPlaces, Zenon DEF Sends, Plain, Fits
<1>s10. UnpackUnknown(full) = u
  BY <1>s5, SentIsRead, Zenon
<1>s11. r = Handled(m, code, id, full, u)
  <2>1. r = HandleMessage(m)
    BY <1>s8, <1>sc, Zenon
  <2> QED
    BY <1>0, <1>s1, <1>s9, <1>s10, <2>1, FrameHandled, Zenon
<1>s12. Len(m) = 20 + Len(full) /\ m[5] = 2 /\ m[6] = 4 /\ m[11] = 2 /\ m[12] = 4
  BY <1>0, <1>s1, <1>s9, FrameParts, ZenonT(40)
<1>s13. hd \in Seq(Byte) /\ Len(hd) = 4 + 2
  BY <1>s2, AsnIntType, 4 \in {1, 2, 4}, Zenon DEF asn_int4
<1>s14. vals # <<>> /\ vals[1] = id /\ Tail(vals) = args
  <2>1. id \in Values
    BY <1>s2, Zenon DEF Values
  <2> QED
    BY <1>1, <2>1
<1> HIDE DEF m, body, r, full, vals, hd
<1>s15. Len(m) >= 20 /\ SubSeq(full, 7, Len(full)) = body
  <2>1. Len(body) \in Nat
    BY <1>2
  <2>2. Len(full) = Len(hd) + Len(body)
    BY <1>2, <1>s8, <1>s13, JoinType, Zenon
  <2>3. Len(m) >= 20
    <3> DEFINE l == Len(full)
    <3>1. l \in Nat
      BY <1>s9
    <3> HIDE DEF l
    <3> QED
      BY <1>s12, <3>1 DEF l
  <2>4. SubSeq(full, 7, Len(full)) = body
    <3>1. full \in Seq(Nat) /\ hd \in Seq(Nat) /\ body \in Seq(Nat)
      BY <1>2, <1>s9, <1>s13, BytesAreNats, Zenon
    <3>2. Holds(full, 1, hd \o body)
      BY <1>s8, <3>1, HoldsItself, Zenon
    <3>3. Holds(full, 1 + Len(hd), body)
      BY <3>1, <3>2, HoldsJoin, 1 \in Nat, Zenon
    <3>4. 1 + (4 + 2) = 7
      OBVIOUS
    <3>5. Holds(full, 7, body)
      BY <1>s13, <3>3, <3>4, Zenon
    <3>6. SubSeq(full, 7, 7 + Len(body) - 1) = body
      BY <3>1, <3>5, HoldsPart, 7 \in Nat \ {0}, Zenon
    <3>7. 7 + Len(body) - 1 = (4 + 2) + Len(body)
      BY <2>1
    <3> QED
      BY <1>s13, <2>2, <3>6, <3>7, Zenon
  <2> QED
    BY <2>3, <2>4
<1>s16. r = [ok |-> /\ Len(m) >= 20 /\ m[5] = 2 /\ m[6] = 4 /\ m[11] = 2 /\ m[12] = 4
                   /\ u.ok /\ (TRUE => u.val # <<>> /\ u.val[1] = id),
            type |-> t, code |-> code, body |-> SubSeq(full, 7, Len(full)), content |-> Tail(u.val)]
  BY <1>s1, <1>s11, <1>st, Zenon DEF Handled
<1>s17. u.ok /\ u.val = vals
  OBVIOUS
<1> HIDE DEF u, t
<1>s18. r = [ok |-> TRUE, type |-> t, code |-> code, body |-> body, content |-> args]
  BY <1>s12, <1>s14, <1>s15, <1>s16, <1>s17, Zenon
<1> QED
  BY <1>s18, <1>st, Zenon DEF t, r, body

(* An answer reaches the client as the modem packed it: handle_message     *)
(* takes it for a response, and its body and content are what was packed,  *)
(* with the transaction id of an asynchronous one removed.                 *)
THEOREM AnswerIsHandled ==
  ASSUME NEW fmt, NEW args, Sends(fmt, args), NEW code \in ResponseCodes,
         NEW r \in {Answer(code, fmt, args), AsyncAnswer(code, fmt, args)}
  PROVE  r = [ok |-> TRUE, type |-> "response", code |-> code, body |-> Pack(fmt, args), content |-> args]
<1>1. CASE r = Answer(code, fmt, args)
  BY <1>1, SyncHandled, Zenon
<1>2. CASE r = AsyncAnswer(code, fmt, args)
  BY <1>2, AsyncHandled, Zenon
<1> QED
  BY <1>1, <1>2, Zenon

(* The types of what is sent.                                              *)
LEMMA SendsTypes ==
  ASSUME NEW f, NEW a, Sends(f, a)
  PROVE  /\ f \in Seq(Items) /\ a \in Seq(Values) /\ Len(a) = Len(f) /\ Fits(f, a)
         /\ Pack(f, a) \in Seq(Byte)
<1>1. f \in Seq(Items) /\ a \in Seq(Values) /\ Len(a) = Len(f) /\ Fits(f, a)
  BY Zenon DEF Sends, Plain, Fits
<1> QED
  BY <1>1, PackPlaces, Zenon

(* The body of two lists of fields is their bodies joined.                 *)
LEMMA SendsPackJoin ==
  ASSUME NEW f, NEW a, NEW g, NEW b, Sends(f, a), Sends(g, b)
  PROVE  Pack(f \o g, a \o b) = Pack(f, a) \o Pack(g, b)
<1>1. /\ f \in Seq(Items) /\ a \in Seq(Values) /\ Len(a) = Len(f) /\ Fits(f, a)
      /\ g \in Seq(Items) /\ b \in Seq(Values) /\ Len(b) = Len(g) /\ Fits(g, b)
  BY SendsTypes, Zenon
<1> QED
  BY <1>1, PackJoin

(* A four byte number takes six bytes.                                     *)
LEMMA LastNumber ==
  ASSUME NEW v \in Numbers(4)
  PROVE  /\ Sends(<<Num("L")>>, <<v>>) /\ Pack(<<Num("L")>>, <<v>>) = asn_int4(v)
         /\ Len(asn_int4(v)) = 6 /\ asn_int4(v) \in Seq(Byte)
<1> DEFINE g == Num("L")
<1>0. v \in Nat
  BY NumbersAreNats, 4 \in {1, 2, 4}, Zenon
<1>1. Plain(g, v)
  BY <1>0, PlainNum
<1>2. g.ch = "L"
  BY DEF Num
<1> HIDE DEF g
<1>3. g \in Items /\ FieldFits(g, v)
  BY <1>1, Zenon DEF Plain
<1>4. Pack(<<g>>, <<v>>) = asn_int4(v)
  <2>1. Pack(<<g>>, <<v>>) = PackField(g, v)
    BY <1>3, PackOne, Zenon
  <2>2. PackField(g, v) = AsnInt(4, v)
    BY <1>2, PackFieldIs, Zenon
  <2> QED
    BY <2>1, <2>2, Zenon DEF asn_int4
<1>5. Sends(<<g>>, <<v>>)
  BY <1>1, SendsTwo, Zenon
<1>6. asn_int4(v) \in Seq(Byte) /\ Len(asn_int4(v)) = 4 + 2
  BY <1>0, AsnIntType, 4 \in {1, 2, 4}, Zenon DEF asn_int4
<1>7. 4 + 2 = 6
  OBVIOUS
<1> QED
  BY <1>4, <1>5, <1>6, <1>7, Zenon DEF g

(* The connect request, for all answers: whatever fields the first answer  *)
(* has in front of its last number, and whatever fields the second has,    *)
(* the request spliced out of their bodies is read as the first without    *)
(* its last, the second, and 0.                                            *)
THEOREM SplicedIsRead ==
  ASSUME NEW f, NEW a, Sends(f, a), NEW g, NEW b, Sends(g, b), NEW v \in Numbers(4),
         NEW pscr, pscr = AsyncAnswer(1, f \o <<Num("L")>>, a \o <<v>>),
         NEW dcr, dcr = Answer(1, g, b)
  PROVE  Arrives(pscr) /\ Arrives(dcr) /\ Has(Sent(pscr, dcr), (a \o b) \o <<0>>)
<1> DEFINE fl == f \o <<Num("L")>>
           al == a \o <<v>>
           p == AsyncAnswer(1, fl, al)
           q == Answer(1, g, b)
           F == Pack(f, a)
           G == Pack(g, b)
           E == asn_int4(v)
           Z == asn_int4(0)
           body == (F \o G) \o Z
           s == Sent(p, q)
<1>0. 1 \in ResponseCodes /\ 0 \in Numbers(4)
  <2>1. 4 - 1 = 3
    OBVIOUS
  <2> QED
    BY <2>1, PowersAre, SMT DEF ResponseCodes, Numbers
<1>1. Sends(fl, al) /\ Pack(fl, al) = F \o E
  <2>1. Sends(<<Num("L")>>, <<v>>) /\ Pack(<<Num("L")>>, <<v>>) = E
    BY LastNumber, Zenon
  <2>2. Sends(fl, al)
    BY <2>1, SendsJoin, Zenon
  <2>3. Pack(fl, al) = F \o Pack(<<Num("L")>>, <<v>>)
    BY <2>1, SendsPackJoin
  <2> QED
    BY <2>1, <2>2, <2>3, Zenon
<1>2. /\ F \in Seq(Byte) /\ G \in Seq(Byte) /\ E \in Seq(Byte) /\ Len(E) = 6
      /\ Z \in Seq(Byte)
  BY <1>0, LastNumber, SendsTypes, Zenon
<1>3. p.ok /\ p.type = "response" /\ p.body = F \o E
  <2> HIDE DEF fl, al
  <2>1. p = [ok |-> TRUE, type |-> "response", code |-> 1, body |-> Pack(fl, al), content |-> al]
    BY <1>0, <1>1, AsyncHandled, Zenon
  <2> HIDE DEF p
  <2>2. p.ok /\ p.type = "response" /\ p.body = Pack(fl, al)
    BY <2>1
  <2> QED
    BY <1>1, <2>2, Zenon
<1>4. q.ok /\ q.type = "response" /\ q.body = G
  <2>1. q = [ok |-> TRUE, type |-> "response", code |-> 1, body |-> G, content |-> b]
    BY <1>0, SyncHandled, Zenon
  <2> HIDE DEF q
  <2> QED
    BY <2>1
<1>5. Splice(F \o E, G) = body
  <2> HIDE DEF F, G, E, Z
  <2>1. SubSeq(F \o E, 1, Len(F \o E) - 6) = F
    <3> DEFINE x == F \o E
               n == Len(F)
    <3>1. x \in Seq(Byte) /\ Len(x) = n + Len(E) /\ n \in Nat
      BY <1>2, JoinType, Zenon
    <3>2. x \in Seq(Nat) /\ F \in Seq(Nat) /\ E \in Seq(Nat)
      BY <1>2, <3>1, BytesAreNats, Zenon
    <3>3. Holds(x, 1, x)
      BY <3>2, HoldsItself, Zenon
    <3>4. Holds(x, 1, F)
      BY <3>2, <3>3, HoldsJoin, 1 \in Nat, Zenon
    <3> HIDE DEF x
    <3>5. SubSeq(x, 1, 1 + Len(F) - 1) = F
      BY <3>2, <3>4, HoldsPart, 1 \in Nat \ {0}, Zenon
    <3> DEFINE l == Len(x)
    <3>l. l = n + 6 /\ n \in Nat
      BY <1>2, <3>1, Zenon
    <3> HIDE DEF n, l
    <3>6. 1 + n - 1 = l - 6
      BY <3>l
    <3> QED
      BY <3>5, <3>6, Zenon DEF x, n, l
  <2> QED
    BY <2>1, Zenon DEF Splice, Z
<1> DEFINE fs == (f \o g) \o <<Num("L")>>
           as == (a \o b) \o <<0>>
<1>6. Sends(fs, as) /\ Pack(fs, as) = body
  <2>1. Sends(<<Num("L")>>, <<0>>) /\ Pack(<<Num("L")>>, <<0>>) = Z
    BY <1>0, LastNumber, Zenon
  <2>2. Sends(f \o g, a \o b) /\ Pack(f \o g, a \o b) = F \o G
    <3>1. Sends(f \o g, a \o b)
      BY SendsJoin, Zenon
    <3>2. Pack(f \o g, a \o b) = F \o G
      BY SendsPackJoin
    <3> QED
      BY <3>1, <3>2, Zenon
  <2>3. Sends(fs, as)
    BY <2>1, <2>2, SendsJoin, Zenon
  <2>4. Pack(fs, as) = Pack(f \o g, a \o b) \o Pack(<<Num("L")>>, <<0>>)
    <3> DEFINE fg == f \o g
               ab == a \o b
               fz == <<Num("L")>>
               az == <<0>>
    <3>1. Sends(fg, ab) /\ Sends(fz, az)
      BY <2>1, <2>2, Zenon
    <3> HIDE DEF fg, ab, fz, az
    <3>2. Pack(fg \o fz, ab \o az) = Pack(fg, ab) \o Pack(fz, az)
      BY <3>1, SendsPackJoin
    <3> QED
      BY <3>2, Zenon DEF fg, ab, fz, az
  <2> QED
    BY <2>1, <2>2, <2>3, <2>4, Zenon
<1>7. s = Answer(1, fs, as)
  <2> HIDE DEF fs, as, p, q, body, F, E, G
  <2>1. Splice(p.body, q.body) = body
    BY <1>3, <1>4, <1>5, Zenon
  <2> QED
    BY <1>6, <2>1, Zenon DEF Answer, Response, Sent
<1> HIDE DEF fs, p, q, s
<1>8. s.ok /\ s.content = as
  <2> HIDE DEF as
  <2> QED
    <3>1. s = [ok |-> TRUE, type |-> "response", code |-> 1, body |-> Pack(fs, as), content |-> as]
      BY <1>0, <1>6, <1>7, SyncHandled, Zenon
    <3> QED
      BY <3>1
<1>9. Arrives(p) /\ Arrives(q)
  BY <1>3, <1>4, Zenon DEF Arrives
<1>10. pscr = p /\ dcr = q
  BY Zenon DEF p, q
<1> QED
  BY <1>8, <1>9, <1>10, Zenon DEF s, Has

(* A body without fields.                                                  *)
LEMMA SendsNothing == Sends(<<>>, <<>>)
  BY DEF Sends

(* A body of two or three small numbers.                                   *)
LEMMA SendsFew ==
  ASSUME NEW c1 \in {"B", "H", "L"}, NEW c2 \in {"B", "H", "L"}, NEW v1 \in Byte, NEW v2 \in Byte
  PROVE  Sends(Nums(<<c1, c2>>), <<v1, v2>>)
<1> DEFINE chs == <<c1, c2>>
           args == <<v1, v2>>
<1>1. chs \in Seq({"B", "H", "L"}) /\ args \in Seq(Byte) /\ Len(args) = Len(chs)
  OBVIOUS
<1> HIDE DEF chs, args
<1>2. Sends(Nums(chs), args)
  BY <1>1, SmallNumsSend, Zenon
<1> QED
  BY <1>2, Zenon DEF chs, args

(* The numbers in front of the last one of the modelled first answers.     *)
LEMMA ConnectsSend ==
  ASSUME NEW c \in {<<(<<>>), <<>> >>, <<Nums(<<"B", "L">>), <<1, 6>> >>,
                    <<Nums(<<"H", "B", "L">>), <<513, 1, 6>> >>}
  PROVE  Sends(c[1], c[2])
<1>b. 1 \in Byte /\ 6 \in Byte
  BY DEF Byte
<1>c. "B" \in {"B", "H", "L"} /\ "L" \in {"B", "H", "L"} /\ "H" \in {"B", "H", "L"}
  OBVIOUS
<1>1. CASE c = <<(<<>>), <<>> >>
  <2>1. c[1] = <<>> /\ c[2] = <<>>
    BY <1>1
  <2> QED
    BY <2>1, SendsNothing, Zenon
<1>2. CASE c = <<Nums(<<"B", "L">>), <<1, 6>> >>
  <2>1. c[1] = Nums(<<"B", "L">>) /\ c[2] = <<1, 6>>
    BY <1>2
  <2> QED
    BY <1>b, <1>c, <2>1, SendsFew, ZenonT(40)
<1>3. CASE c = <<Nums(<<"H", "B", "L">>), <<513, 1, 6>> >>
  <2> DEFINE x == 513
             chs == <<"H", "B", "L">>
             args == <<x, 1, 6>>
             C == {"B", "H", "L"}
  <2>1. x \in Nat /\ x \in Numbers(2)
    <3>1. 2 - 1 = 1
      OBVIOUS
    <3> QED
      BY <3>1, PowersAre, SMT DEF Numbers
  <2>2. c[1] = Nums(chs) /\ c[2] = args
    BY <1>3, SMT
  <2> HIDE DEF x, C
  <2>3. chs \in Seq(C) /\ Len(chs) = 3 /\ chs[1] = "H"
    BY <1>c DEF C
  <2>4. args \in Seq(Nat) /\ Len(args) = 3 /\ args[1] = x /\ args[2] = 1 /\ args[3] = 6
    BY <2>1
  <2>5. \A k \in 1 .. 3 : k \in {1, 2, 3}
    OBVIOUS
  <2> HIDE DEF chs, args
  <2>6. \A k \in 1 .. 3 : args[k] \in Byte \/ (chs[k] = "H" /\ args[k] \in Numbers(2))
    BY <1>b, <2>1, <2>3, <2>4, <2>5, ZenonT(40)
  <2>7. Sends(Nums(chs), args)
    BY <2>3, <2>4, <2>6, NumsSend, Zenon DEF C
  <2> QED
    BY <2>2, <2>7, Zenon
<1> QED
  BY <1>1, <1>2, <1>3, Zenon

(* The modelled second answers: a device name, and numbers behind it.      *)
LEMMA ChannelsSend ==
  ASSUME NEW q \in Channels
  PROVE  Sends(q.fmt, q.args)
<1> DEFINE S == {<<(<<>>), <<>> >>, <<Nums(<<"L", "B">>), <<9, 2>> >>}
           name == Times(3, 47)
<1>1. PICK c \in S : q = [fmt |-> <<Str(24)>> \o c[1], args |-> <<name>> \o c[2]]
  BY Zenon DEF Channels
<1>2. Sends(c[1], c[2])
  <2>1. CASE c = <<(<<>>), <<>> >>
    <3>1. c[1] = <<>> /\ c[2] = <<>>
      BY <2>1
    <3> QED
      BY <3>1, SendsNothing, Zenon
  <2>2. CASE c = <<Nums(<<"L", "B">>), <<9, 2>> >>
    <3>1. c[1] = Nums(<<"L", "B">>) /\ c[2] = <<9, 2>>
      BY <2>2
    <3>2. 9 \in Byte /\ 2 \in Byte
      BY DEF Byte
    <3>3. "B" \in {"B", "H", "L"} /\ "L" \in {"B", "H", "L"}
      OBVIOUS
    <3> QED
      BY <3>1, <3>2, <3>3, SendsFew, Zenon
  <2> QED
    BY <2>1, <2>2, Zenon
<1>3. Sends(<<Str(24)>>, <<name>>)
  <2>0. 47 \in Byte
    BY DEF Byte
  <2>1. name \in Seq(Byte) /\ Len(name) = 3
    BY <2>0 DEF Times
  <2> HIDE DEF name
  <2> DEFINE n == Len(name)
             l == 24
  <2>2. n = 3
    BY <2>1, SMT
  <2> HIDE DEF n
  <2>3. l \in FieldSizes /\ n <= l /\ Readable(n)
    BY <2>2, ReadableLengths, SMT DEF FieldSizes
  <2> HIDE DEF l
  <2>4. Plain(Str(l), name)
    BY <2>1, <2>3, PlainStr, Zenon DEF n
  <2> QED
    BY <2>4, SendsTwo, Zenon DEF l
<1>4. Sends(<<Str(24)>> \o c[1], <<name>> \o c[2])
  BY <1>2, <1>3, SendsJoin, Zenon
<1> HIDE DEF name
<1> DEFINE f == <<Str(24)>> \o c[1]
           a == <<name>> \o c[2]
<1>5. q = [fmt |-> f, args |-> a] /\ Sends(f, a)
  BY <1>1, <1>4, Zenon
<1> HIDE DEF f, a
<1>6. q.fmt = f /\ q.args = a
  BY <1>5
<1> QED
  BY <1>5, <1>6, Zenon

(* What the connect request under way relies on.                           *)
LEMMA SplicedRequests == Spliced
<1>n. 7 \in Numbers(4)
  <2>1. 4 - 1 = 3
    OBVIOUS
  <2> QED
    BY <2>1, PowersAre, SMT DEF Numbers
<1> DEFINE C == {<<(<<>>), <<>> >>, <<Nums(<<"B", "L">>), <<1, 6>> >>,
                 <<Nums(<<"H", "B", "L">>), <<513, 1, 6>> >>}
<1>s. \A c \in C : Sends(c[1], c[2])
  BY ConnectsSend
<1>1. ASSUME NEW p \in Connects, NEW q \in Channels
      PROVE  /\ Arrives(Connected(p)) /\ Arrives(Channelled(q))
             /\ Has(Sent(Connected(p), Channelled(q)), Front(p.args) \o q.args \o <<0>>)
  <2>1. PICK c \in C : p = [fmt |-> c[1] \o <<Num("L")>>, args |-> c[2] \o <<7>>]
    BY Zenon DEF Connects
  <2> DEFINE f == c[1]
             a == c[2]
             g == q.fmt
             b == q.args
  <2>2. Sends(f, a) /\ Sends(g, b)
    BY <1>s, ChannelsSend, ZenonT(40)
  <2> HIDE DEF C
  <2>f. p.fmt = f \o <<Num("L")>> /\ p.args = a \o <<7>>
    BY <2>1
  <2> HIDE DEF f, a, g, b
  <2> DEFINE v == 7
             P == Connected(p)
             Q == Channelled(q)
  <2>v. v \in Numbers(4)
    BY <1>n
  <2>3. P = AsyncAnswer(1, f \o <<Num("L")>>, a \o <<v>>) /\ Q = Answer(1, g, b)
    BY <2>f, Zenon DEF Connected, Channelled, AsyncAnswer, Answer, g, b
  <2>4. Front(p.args) = a
    <3>1. a \in Seq(Values) /\ v \in Values
      BY <2>2, SendsTypes DEF Values
    <3>2. p.args = a \o <<v>>
      BY <2>f
    <3> HIDE DEF v
    <3>3. Front(a \o <<v>>) = a
      BY <3>1 DEF Front
    <3> QED
      BY <3>2, <3>3, Zenon
  <2> HIDE DEF v, P, Q
  <2>5. Arrives(P) /\ Arrives(Q) /\ Has(Sent(P, Q), (a \o b) \o <<0>>)
    BY <2>v, <2>2, <2>3, SplicedIsRead, Zenon
  <2> QED
    BY <2>4, <2>5, Zenon DEF b, P, Q
<1>2. \E p \in Connects : TRUE
  <2>1. [fmt |-> (<<(<<>>), <<>> >>)[1] \o <<Num("L")>>, args |-> (<<(<<>>), <<>> >>)[2] \o <<7>>] \in Connects
    BY Zenon DEF Connects
  <2> QED
    BY <2>1, Zenon
<1>3. \E q \in Channels : TRUE
  <2>1. [fmt |-> <<Str(24)>> \o (<<(<<>>), <<>> >>)[1],
         args |-> <<Times(3, 47)>> \o (<<(<<>>), <<>> >>)[2]] \in Channels
    BY Zenon DEF Channels
  <2> QED
    BY <2>1, Zenon
<1> QED
  BY <1>1, <1>2, <1>3, Zenon DEF Spliced

=============================================================================
