-------------------------- MODULE SingleSell_proofs --------------------------
(***************************************************************************)
(* Proofs about an instance of the protocol, for every group of prime      *)
(* order, size of a byte, width of an encoded number and hash of T2.       *)
(*                                                                         *)
(* The first half is about the conversions of Encoding: the recursive      *)
(* functions and the folds they are made of exist, and each conversion is  *)
(* undone by the one the other side applies. Induction is over a set of    *)
(* numbers (SetInduction of Arithmetic). The second half is the inductive  *)
(* invariant, one lemma for each action, and the theorems.                 *)
(***************************************************************************)
EXTENDS SingleSell, Arithmetic, SequenceTheorems

-----------------------------------------------------------------------------
(* Encodings.                                                              *)

\* The greatest and the least element of a set of numbers up to k.
LEMMA MaxMin ==
  ASSUME NEW k \in Nat, NEW S, S \subseteq 1 .. k, S # {}
  PROVE  /\ Max(S) \in S /\ \A x \in S : Max(S) >= x
         /\ Min(S) \in S /\ \A x \in S : Min(S) <= x
<1>1. \E m \in S : \A x \in S : m >= x
  <2>1. S \subseteq 0 .. k
    OBVIOUS
  <2> QED
    BY <2>1, Greatest
<1>2. \E m \in S : \A x \in S : m <= x
  <2>1. S \subseteq Nat
    OBVIOUS
  <2> QED
    BY <2>1, Least
<1> QED
  BY <1>1, <1>2 DEF Max, Min

\* The greatest is the bound when the set has it.
LEMMA MaxTop ==
  ASSUME NEW k \in Nat, NEW S, S \subseteq 1 .. k, k \in S
  PROVE  Max(S) = k
<1> DEFINE x == Max(S)
<1>1. x \in S /\ x >= k
  BY MaxMin
<1> HIDE DEF x
<1>2. x = k
  BY <1>1
<1> QED
  BY <1>2 DEF x

\* The least is the first number when the set has it.
LEMMA MinBottom ==
  ASSUME NEW k \in Nat, NEW S, S \subseteq 1 .. k, NEW l \in S, \A x \in S : l <= x
  PROVE  Min(S) = l
<1> DEFINE x == Min(S)
<1>1. x \in S /\ x <= l
  BY MaxMin
<1> HIDE DEF x
<1>2. x = l
  BY <1>1
<1> QED
  BY <1>2 DEF x

\* Base is a number of at least two digits.
LEMMA Bases ==
  /\ ByteBits \in Nat \ {0} /\ Base \in Nat /\ Base >= 2
  /\ \A k \in Nat : /\ Power(Base)[k] \in Nat \ {0} /\ Power(Base)[k] >= k + 1
                    /\ Power(Base)[k + 1] = Base * Power(Base)[k]
                    /\ Power(2)[k] \in Nat \ {0}
                    /\ Power(2)[k + 1] = 2 * Power(2)[k]
  /\ Power(Base)[0] = 1 /\ Power(2)[0] = 1
<1>1. ASSUME NEW b \in Nat, b >= 2
      PROVE  \A k \in Nat : Power(b)[k] \in Nat \ {0} /\ Power(b)[k] >= k + 1
  <2> DEFINE P == Power(b)
             U == {k \in Nat : P[k] \in Nat /\ P[k] >= k + 1}
  <2>1. P[0] = 1 /\ \A k \in Nat : P[k + 1] = b * P[k]
    BY PowerRecursion, Zenon
  <2> HIDE DEF P
  <2>2. 0 \in U /\ U \subseteq Nat
    BY <2>1
  <2>3. ASSUME NEW k \in U PROVE k + 1 \in U
    <3>1. P[k + 1] = b * P[k] /\ P[k] \in Nat /\ P[k] >= k + 1 /\ k \in Nat
      BY <2>1
    <3>2. b * P[k] >= 2 * P[k]
      BY <1>1, <3>1
    <3>3. b * P[k] \in Nat
      BY <3>1
    <3>4. P[k + 1] \in Nat /\ P[k + 1] >= (k + 1) + 1
      BY <3>1, <3>2, <3>3
    <3> QED
      BY <3>1, <3>4
  <2>4. U = Nat
    <3> HIDE DEF U
    <3> QED
      BY <2>2, <2>3, SetInduction, Zenon
  <2>5. \A k \in Nat : P[k] \in Nat \ {0} /\ P[k] >= k + 1
    BY <2>4
  <2> QED
    BY <2>5 DEF P
<1>2. ByteBits \in Nat \ {0} /\ ByteBits \in Nat
  BY EncodingAssumption
<1>3. \A k \in Nat : Power(2)[k] \in Nat \ {0} /\ Power(2)[k] >= k + 1
  BY <1>1
<1>4. Base \in Nat /\ Base >= 2
  BY <1>2, <1>3 DEF Base
<1>5. \A k \in Nat : Power(Base)[k] \in Nat \ {0} /\ Power(Base)[k] >= k + 1
  BY <1>1, <1>4
<1> QED
  BY <1>2, <1>3, <1>4, <1>5, PowerRecursion

\* Decode reads one byte after the other.
LEMMA DecodeSteps ==
  ASSUME NEW m \in Nat, NEW bs, DOMAIN bs = 1 .. m, \A k \in 1 .. m : bs[k] \in Nat
  PROVE  \E D : /\ D[0] = 0 /\ Decode(bs) = D[m]
                /\ \A j \in 1 .. m : D[j] = D[j - 1] * Base + bs[j]
<1> DEFINE Fold(h, k) == h = [S \in SUBSET (1 .. k) |->
                                IF S = {} THEN 0
                                ELSE h[S \ {Max(S)}] * Base + bs[Max(S)]]
           T == {k \in Nat : \E h : Fold(h, k)}
           iter == CHOOSE h : Fold(h, m)
<1>1. 0 \in T
  <2> DEFINE h == [S \in SUBSET (1 .. 0) |-> 0]
  <2>1. Fold(h, 0)
    OBVIOUS
  <2> QED
    BY <2>1
<1>2. ASSUME NEW k \in T PROVE k + 1 \in T
  <2>1. k \in Nat /\ k + 1 \in Nat
    OBVIOUS
  <2>2. PICK g : Fold(g, k)
    OBVIOUS
  <2> DEFINE h == [S \in SUBSET (1 .. k + 1) |->
                     IF k + 1 \in S THEN g[S \ {k + 1}] * Base + bs[k + 1] ELSE g[S]]
  <2>3. ASSUME NEW S \in SUBSET (1 .. k + 1)
        PROVE  h[S] = IF S = {} THEN 0 ELSE h[S \ {Max(S)}] * Base + bs[Max(S)]
    <3>1. CASE S = {}
      <4>1. S \in SUBSET (1 .. k) /\ h[S] = g[S]
        BY <3>1
      <4> QED
        BY <2>2, <3>1, <4>1
    <3>2. CASE k + 1 \in S
      <4>1. Max(S) = k + 1
        BY <2>1, <3>2, MaxTop
      <4>2. S \ {k + 1} \in SUBSET (1 .. k + 1)
        OBVIOUS
      <4>3. h[S \ {k + 1}] = g[S \ {k + 1}]
        BY <4>2
      <4>4. h[S] = g[S \ {k + 1}] * Base + bs[k + 1]
        BY <3>2
      <4> HIDE DEF h
      <4> QED
        BY <3>2, <4>1, <4>3, <4>4
    <3>3. CASE S # {} /\ k + 1 \notin S
      <4>1. S \in SUBSET (1 .. k)
        BY <2>1, <3>3
      <4>2. Max(S) \in S
        BY <2>1, <3>3, MaxMin
      <4>3. /\ S \ {Max(S)} \in SUBSET (1 .. k + 1) /\ S \ {Max(S)} \in SUBSET (1 .. k)
            /\ k + 1 \notin S \ {Max(S)}
        BY <3>3, <4>1
      <4>4. h[S] = g[S] /\ h[S \ {Max(S)}] = g[S \ {Max(S)}]
        BY <3>3, <4>3
      <4> HIDE DEF h
      <4>5. g[S] = g[S \ {Max(S)}] * Base + bs[Max(S)]
        BY <2>2, <3>3, <4>1
      <4> QED
        BY <3>3, <4>4, <4>5
    <3> QED
      BY <3>1, <3>2, <3>3
  <2>4. h = [S \in SUBSET (1 .. k + 1) |-> h[S]]
    OBVIOUS
  <2> HIDE DEF h
  <2>5. Fold(h, k + 1)
    BY <2>3, <2>4
  <2> QED
    BY <2>1, <2>5
<1>3. T = Nat
  <2>1. T \subseteq Nat
    OBVIOUS
  <2> HIDE DEF T
  <2> QED
    BY <1>1, <1>2, <2>1, SetInduction, Zenon
<1>4. Fold(iter, m)
  <2> HIDE DEF Fold
  <2> QED
    BY <1>3
<1>5. Decode(bs) = iter[1 .. m]
  BY DEF Decode, FoldLeft, MapThenFoldSet
<1> HIDE DEF iter
<1> DEFINE D == [j \in 0 .. m |-> iter[1 .. j]]
<1>6. D[0] = 0 /\ D[m] = iter[1 .. m]
  <2>1. 1 .. 0 = {} /\ 1 .. 0 \in SUBSET (1 .. m)
    OBVIOUS
  <2>2. iter[{}] = 0
    BY <1>4, <2>1
  <2>3. 0 \in 0 .. m /\ m \in 0 .. m
    OBVIOUS
  <2>4. D[0] = iter[1 .. 0] /\ D[m] = iter[1 .. m]
    BY <2>3
  <2> HIDE DEF D
  <2> QED
    BY <2>1, <2>2, <2>4
<1>7. ASSUME NEW j \in 1 .. m PROVE D[j] = D[j - 1] * Base + bs[j]
  <2>1. 1 .. j \in SUBSET (1 .. m) /\ 1 .. j # {} /\ j \in 1 .. j /\ j \in Nat
    OBVIOUS
  <2>2. Max(1 .. j) = j
    BY <2>1, MaxTop
  <2>3. (1 .. j) \ {j} = 1 .. j - 1
    OBVIOUS
  <2>4. iter[1 .. j] = iter[(1 .. j) \ {Max(1 .. j)}] * Base + bs[Max(1 .. j)]
    BY <1>4, <2>1
  <2>5. iter[1 .. j] = iter[1 .. j - 1] * Base + bs[j]
    BY <2>2, <2>3, <2>4
  <2>6. D[j] = iter[1 .. j] /\ D[j - 1] = iter[1 .. j - 1]
    OBVIOUS
  <2> QED
    BY <2>5, <2>6
<1> HIDE DEF D
<1> QED
  BY <1>5, <1>6, <1>7

\* An encoding is a sequence of as many bytes as were asked for.
LEMMA EncodeType ==
  ASSUME NEW v \in Nat, NEW len \in Nat
  PROVE  /\ Encode(v, len) \in Seq(Byte) /\ Len(Encode(v, len)) = len
         /\ DOMAIN Encode(v, len) = 1 .. len
         /\ \A k \in 1 .. len :
              /\ Encode(v, len)[k] = (v \div Power(Base)[len - k]) % Base
              /\ Encode(v, len)[k] \in Byte
<1> DEFINE bs == [k \in 1 .. len |-> (v \div Power(Base)[len - k]) % Base]
<1>1. \A k \in 1 .. len : (v \div Power(Base)[len - k]) % Base \in Byte
  <2> SUFFICES ASSUME NEW k \in 1 .. len
               PROVE  (v \div Power(Base)[len - k]) % Base \in Byte
    OBVIOUS
  <2> DEFINE P == Power(Base)[len - k]
             w == v \div P
  <2>1. P \in Nat \ {0}
    BY Bases
  <2> HIDE DEF P
  <2>2. w \in Int
    BY <2>1
  <2> HIDE DEF w
  <2>3. w % Base \in 0 .. Base - 1
    BY <2>2, Bases
  <2> QED
    BY <2>3 DEF Byte, w, P
<1>2. bs \in [1 .. len -> Byte]
  BY <1>1
<1> HIDE DEF bs
<1>3. bs \in Seq(Byte) /\ Len(bs) = len /\ DOMAIN bs = 1 .. len
  BY <1>2
<1>4. Encode(v, len) = bs
  BY DEF Encode, bs
<1> QED
  BY <1>1, <1>3, <1>4 DEF bs

\* Decode is the inverse of Encode, when the length is enough.
LEMMA DecodeEncode ==
  ASSUME NEW v \in Nat, NEW len \in Nat, v < Power(Base)[len]
  PROVE  Decode(Encode(v, len)) = v
<1> DEFINE bs == Encode(v, len)
           P == Power(Base)
<1>1. /\ DOMAIN bs = 1 .. len
      /\ \A k \in 1 .. len : bs[k] = (v \div P[len - k]) % Base
      /\ \A k \in 1 .. len : bs[k] \in Nat
  <2>1. Byte \subseteq Nat
    BY Bases DEF Byte
  <2>2. \A k \in 1 .. len : bs[k] \in Byte /\ bs[k] = (v \div P[len - k]) % Base
    BY EncodeType, Zenon
  <2>3. DOMAIN bs = 1 .. len
    BY EncodeType, Zenon
  <2> HIDE DEF bs, P
  <2> QED
    BY <2>1, <2>2, <2>3
<1>2. /\ P[0] = 1
      /\ \A k \in Nat : P[k] \in Nat \ {0} /\ P[k + 1] = Base * P[k]
      /\ Base \in Nat \ {0} /\ v < P[len]
  BY Bases
<1> HIDE DEF bs, P
<1>3. PICK D : /\ D[0] = 0 /\ Decode(bs) = D[len]
               /\ \A j \in 1 .. len : D[j] = D[j - 1] * Base + bs[j]
  <2>1. DOMAIN bs = 1 .. len /\ \A k \in 1 .. len : bs[k] \in Nat
    BY <1>1
  <2>2. \E D : /\ D[0] = 0 /\ Decode(bs) = D[len]
               /\ \A j \in 1 .. len : D[j] = D[j - 1] * Base + bs[j]
    BY <2>1, DecodeSteps, ZenonT(60)
  <2> QED
    BY <2>2, Zenon
<1> DEFINE U == {j \in Nat : j <= len => D[j] = v \div P[len - j]}
<1>4. 0 \in U
  <2>1. P[len] \in Nat \ {0} /\ v \in Int /\ v = P[len] * 0 + v /\ v \in 0 .. P[len] - 1
    BY <1>2
  <2>2. v \div P[len] = 0
    BY <2>1, DivUnique
  <2> QED
    BY <1>3, <2>2
<1>5. ASSUME NEW j \in U PROVE j + 1 \in U
  <2> SUFFICES ASSUME j + 1 <= len PROVE D[j + 1] = v \div P[len - (j + 1)]
    OBVIOUS
  <2>1. j \in Nat /\ D[j] = v \div P[len - j] /\ j + 1 \in 1 .. len /\ (j + 1) - 1 = j
    OBVIOUS
  <2> DEFINE k == len - (j + 1)
  <2>2. k \in Nat /\ len - j = k + 1
    BY <2>1
  <2>3. D[j + 1] = D[j] * Base + bs[j + 1]
    BY <1>3, <2>1
  <2>4. bs[j + 1] = (v \div P[k]) % Base
    BY <1>1, <2>1
  <2> HIDE DEF k
  <2>5. P[len - j] = Base * P[k] /\ P[k] \in Nat \ {0}
    BY <1>2, <2>2
  <2>6. v \div P[k] = (v \div (Base * P[k])) * Base + ((v \div P[k]) % Base)
    BY <1>2, <2>5, DivDiv
  <2>7. D[j + 1] = v \div P[k]
    BY <2>1, <2>3, <2>4, <2>5, <2>6
  <2> QED
    BY <2>7 DEF k
<1>6. U = Nat
  <2>1. U \subseteq Nat
    OBVIOUS
  <2> HIDE DEF U
  <2> QED
    BY <1>4, <1>5, <2>1, SetInduction, Zenon
<1>7. D[len] = v \div P[len - len]
  BY <1>6
<1>8. v \div P[len - len] = v
  <2>1. len - len = 0
    OBVIOUS
  <2> QED
    BY <1>2, <2>1
<1> QED
  BY <1>3, <1>7, <1>8 DEF bs

\* A number has a least size.
LEMMA Size ==
  ASSUME NEW v \in Nat
  PROVE  /\ MinEncodedSize(v) \in Nat \ {0}
         /\ v < Power(Base)[MinEncodedSize(v)]
<1> DEFINE P == Power(Base)
           W == {w \in Nat : w >= 1 /\ v < P[w]}
           Min1(w) == v < P[w] /\ (w = 1 \/ v >= P[w - 1])
<1>1. \A k \in Nat : P[k] \in Nat /\ P[k] >= k + 1
  BY Bases
<1>2. MinEncodedSize(v) = CHOOSE w \in 1 .. v + 1 : Min1(w)
  BY DEF MinEncodedSize
<1> HIDE DEF P
<1>3. W \subseteq Nat /\ v + 1 \in W
  <2>1. P[v + 1] >= (v + 1) + 1 /\ P[v + 1] \in Nat
    BY <1>1
  <2> QED
    BY <2>1
<1>4. PICK w \in W : \A k \in W : w <= k
  BY <1>3, Least
<1>5. w \in 1 .. v + 1 /\ Min1(w)
  <2>1. w \in 1 .. v + 1
    BY <1>3, <1>4
  <2>2. w = 1 \/ v >= P[w - 1]
    <3> SUFFICES ASSUME w # 1 PROVE v >= P[w - 1]
      OBVIOUS
    <3>1. w - 1 \in Nat /\ w - 1 >= 1 /\ ~(w <= w - 1)
      BY <2>1
    <3>2. w - 1 \notin W
      BY <1>4, <3>1
    <3>3. P[w - 1] \in Nat
      BY <1>1, <3>1
    <3> QED
      BY <3>1, <3>2, <3>3
  <2> QED
    BY <2>1, <2>2
<1> DEFINE z == CHOOSE w1 \in 1 .. v + 1 : Min1(w1)
<1>6. z \in 1 .. v + 1 /\ Min1(z)
  <2> HIDE DEF Min1
  <2> QED
    BY <1>5
<1>7. MinEncodedSize(v) = z
  BY <1>2
<1> HIDE DEF z
<1> QED
  BY <1>6, <1>7 DEF P

\* A number goes to the servers and comes back.
LEMMA BytesBack ==
  ASSUME NEW v \in Nat
  PROVE  /\ to_bytes(v) \in Seq(Byte) /\ Len(to_bytes(v)) \in Nat \ {0}
         /\ Decode(to_bytes(v)) = v
BY Size, EncodeType, DecodeEncode DEF to_bytes

\* It does as well in Java's form, with a 0 in front.
LEMMA JavaBack ==
  ASSUME NEW v \in Nat
  PROVE  Decode(toByteArray(v)) = v
<1> DEFINE w == MinEncodedSize(v)
           b == Encode(v, w)
           z == Encode(v, w + 1)
<1>1. w \in Nat /\ v < Power(Base)[w]
  BY Size
<1> HIDE DEF w
<1>2. v < Power(Base)[w + 1]
  <2> DEFINE P == Power(Base)[w]
  <2>1. P \in Nat /\ Base \in Nat /\ Base >= 2 /\ Power(Base)[w + 1] = Base * P /\ v < P
    BY <1>1, Bases
  <2> HIDE DEF P
  <2>2. Base * P >= P
    BY <2>1
  <2>3. Base * P \in Nat
    BY <2>1
  <2> QED
    BY <2>1, <2>2, <2>3
<1>3. Decode(b) = v /\ Decode(z) = v
  BY <1>1, <1>2, DecodeEncode
<1>4. <<0>> \o b = z
  <2>1. /\ b \in Seq(Byte) /\ Len(b) = w /\ z \in Seq(Byte) /\ Len(z) = w + 1
        /\ \A k \in 1 .. w : b[k] = (v \div Power(Base)[w - k]) % Base
        /\ \A k \in 1 .. w + 1 : z[k] = (v \div Power(Base)[(w + 1) - k]) % Base
    <3>1. w + 1 \in Nat
      BY <1>1
    <3>2. /\ b \in Seq(Byte) /\ Len(b) = w
          /\ \A k \in 1 .. w : b[k] = (v \div Power(Base)[w - k]) % Base
      BY <1>1, EncodeType, Zenon
    <3>3. /\ z \in Seq(Byte) /\ Len(z) = w + 1
          /\ \A k \in 1 .. w + 1 : z[k] = (v \div Power(Base)[(w + 1) - k]) % Base
      BY <3>1, EncodeType, Zenon
    <3> QED
      BY <3>2, <3>3, Zenon
  <2>2. z[1] = 0
    <3> DEFINE P == Power(Base)[w]
    <3>1. P \in Nat \ {0} /\ v \in 0 .. P - 1 /\ v = P * 0 + v /\ Base \in Nat \ {0}
          /\ 0 \in 0 .. Base - 1
      BY <1>1, Bases
    <3>2. z[1] = (v \div P) % Base
      <4>1. 1 \in 1 .. w + 1 /\ (w + 1) - 1 = w
        BY <1>1
      <4> QED
        BY <2>1, <4>1
    <3> HIDE DEF P
    <3>3. v \div P = 0
      BY <3>1, DivUnique
    <3>4. 0 % Base = 0
      BY <3>1, ModSmall
    <3> QED
      BY <3>2, <3>3, <3>4
  <2>3. \A k \in 1 .. w : z[k + 1] = b[k]
    <3> SUFFICES ASSUME NEW k \in 1 .. w PROVE z[k + 1] = b[k]
      OBVIOUS
    <3>1. k + 1 \in 1 .. w + 1 /\ (w + 1) - (k + 1) = w - k
      BY <1>1
    <3> QED
      BY <2>1, <3>1
  <2> HIDE DEF b, z
  <2>4. <<0>> \o b \in Seq(Byte) /\ Len(<<0>> \o b) = w + 1
    <3>1. 0 \in Byte
      BY Bases DEF Byte
    <3>2. <<0>> \in Seq(Byte) /\ Len(<<0>>) = 1
      BY <3>1
    <3>3. <<0>> \o b \in Seq(Byte) /\ Len(<<0>> \o b) = Len(<<0>>) + Len(b)
      BY <2>1, <3>2
    <3> QED
      BY <1>1, <2>1, <3>2, <3>3
  <2>5. \A k \in 1 .. w + 1 : (<<0>> \o b)[k] = z[k]
    <3> SUFFICES ASSUME NEW k \in 1 .. w + 1 PROVE (<<0>> \o b)[k] = z[k]
      OBVIOUS
    <3>1. CASE k = 1
      BY <1>1, <2>1, <2>2, <3>1
    <3>2. CASE k # 1
      <4>1. k - 1 \in 1 .. w /\ (k - 1) + 1 = k
        BY <1>1, <3>2
      <4>2. (<<0>> \o b)[k] = b[k - 1]
        BY <1>1, <2>1, <3>2
      <4> QED
        BY <2>3, <4>1, <4>2
    <3> QED
      BY <3>1, <3>2
  <2> QED
    BY <1>1, <2>1, <2>4, <2>5
<1>5. toByteArray(v) \in {<<0>> \o b, b}
  BY DEF toByteArray, to_bytes, w
<1> QED
  BY <1>3, <1>4, <1>5

\* FoldRight reads the bits of a byte from the last to the first.
LEMMA BitSteps ==
  ASSUME NEW m \in Nat, NEW bs, DOMAIN bs = 1 .. m
  PROVE  \E R : /\ R[m + 1] = 0 /\ Packed(bs) = R[1]
                /\ \A j \in 1 .. m : R[j] = 2 * R[j + 1] + bs[j]
<1> DEFINE From(k) == (m - k) + 1 .. m
           Fold(h, k) == h = [S \in SUBSET From(k) |->
                                IF S = {} THEN 0
                                ELSE 2 * h[S \ {Min(S)}] + bs[Min(S)]]
           Ex(k) == \E h : Fold(h, k)
           T == {k \in Nat : k <= m => Ex(k)}
           iter == CHOOSE h : h = [S \in SUBSET (1 .. m) |->
                                IF S = {} THEN 0
                                ELSE 2 * h[S \ {Min(S)}] + bs[Min(S)]]
<1>1. 0 \in T
  <2> DEFINE h == [S \in SUBSET From(0) |-> 0]
  <2>1. From(0) = {}
    OBVIOUS
  <2>2. Fold(h, 0)
    BY <2>1
  <2>3. Ex(0)
    BY <2>2
  <2> HIDE DEF Ex
  <2> QED
    BY <2>3
<1>2. ASSUME NEW k \in T PROVE k + 1 \in T
  <2>0. k \in Nat /\ (k <= m => Ex(k)) /\ (Ex(k + 1) => k + 1 \in T)
        /\ (~(k + 1 <= m) => k + 1 \in T)
    <3> HIDE DEF Ex
    <3> QED
      OBVIOUS
  <2> HIDE DEF T
  <2> SUFFICES ASSUME k + 1 <= m PROVE Ex(k + 1)
    BY <2>0
  <2>1. k \in Nat /\ \E h : Fold(h, k)
    <3>1. k \in Nat /\ k <= m
      BY <2>0
    <3>2. Ex(k)
      <4> HIDE DEF Ex
      <4> QED
        BY <2>0, <3>1
    <3> HIDE DEF Fold
    <3> QED
      BY <3>1, <3>2
  <2>2. PICK g : Fold(g, k)
    BY <2>1
  <2> DEFINE l == m - k
             h == [S \in SUBSET From(k + 1) |->
                     IF l \in S THEN 2 * g[S \ {l}] + bs[l] ELSE g[S]]
  <2>3. /\ From(k + 1) = l .. m /\ From(k) = l + 1 .. m
        /\ l \in 1 .. m /\ l .. m \subseteq 1 .. m
    BY <2>1
  <2> HIDE DEF From, l
  <2>4. ASSUME NEW S \in SUBSET From(k + 1)
        PROVE  h[S] = IF S = {} THEN 0 ELSE 2 * h[S \ {Min(S)}] + bs[Min(S)]
    <3>1. CASE S = {}
      <4>1. S \in SUBSET From(k) /\ h[S] = g[S]
        BY <3>1
      <4> QED
        BY <2>2, <3>1, <4>1
    <3>2. CASE l \in S
      <4>1. Min(S) = l
        <5>1. S \subseteq 1 .. m /\ \A x \in S : l <= x
          BY <2>3
        <5> QED
          BY <3>2, <5>1, MinBottom
      <4>2. S \ {l} \in SUBSET From(k + 1)
        OBVIOUS
      <4>3. h[S \ {l}] = g[S \ {l}]
        BY <4>2
      <4>4. h[S] = 2 * g[S \ {l}] + bs[l]
        BY <3>2
      <4> HIDE DEF h
      <4> QED
        BY <3>2, <4>1, <4>3, <4>4
    <3>3. CASE S # {} /\ l \notin S
      <4>1. S \in SUBSET From(k)
        <5>1. \A x \in l .. m : x # l => x \in l + 1 .. m
          BY <2>3
        <5> QED
          BY <2>3, <3>3, <5>1
      <4>2. Min(S) \in S
        <5>1. S \subseteq 1 .. m
          BY <2>3
        <5> QED
          BY <3>3, <5>1, MaxMin
      <4>3. /\ S \ {Min(S)} \in SUBSET From(k + 1) /\ S \ {Min(S)} \in SUBSET From(k)
            /\ l \notin S \ {Min(S)}
        BY <3>3, <4>1
      <4>4. h[S] = g[S] /\ h[S \ {Min(S)}] = g[S \ {Min(S)}]
        BY <3>3, <4>3
      <4> HIDE DEF h
      <4>5. g[S] = 2 * g[S \ {Min(S)}] + bs[Min(S)]
        BY <2>2, <3>3, <4>1
      <4> QED
        BY <3>3, <4>4, <4>5
    <3> QED
      BY <3>1, <3>2, <3>3
  <2>5. h = [S \in SUBSET From(k + 1) |-> h[S]]
    OBVIOUS
  <2> HIDE DEF h
  <2>6. Fold(h, k + 1)
    BY <2>4, <2>5
  <2> QED
    BY <2>6
<1>3. T = Nat
  <2>1. T \subseteq Nat
    OBVIOUS
  <2> HIDE DEF T
  <2> QED
    BY <1>1, <1>2, <2>1, SetInduction, Zenon
<1>4. iter = [S \in SUBSET (1 .. m) |->
                IF S = {} THEN 0 ELSE 2 * iter[S \ {Min(S)}] + bs[Min(S)]]
  <2>1. From(m) = 1 .. m
    OBVIOUS
  <2>2. \E h : Fold(h, m)
    <3>1. m \in T
      <4> HIDE DEF T
      <4> QED
        BY <1>3
    <3>2. Ex(m)
      <4> HIDE DEF Ex
      <4> QED
        BY <3>1
    <3> QED
      BY <3>2
  <2> HIDE DEF From
  <2> QED
    BY <2>1, <2>2
<1>5. Packed(bs) = iter[1 .. m]
  BY DEF Packed, FoldRight, MapThenFoldSet
<1> HIDE DEF iter
<1> DEFINE R == [j \in 1 .. m + 1 |-> iter[j .. m]]
<1>6. R[m + 1] = 0 /\ R[1] = iter[1 .. m]
  <2>1. m + 1 .. m = {} /\ {} \in SUBSET (1 .. m)
    OBVIOUS
  <2>2. iter[{}] = 0
    BY <1>4, <2>1
  <2>3. m + 1 \in 1 .. m + 1 /\ 1 \in 1 .. m + 1
    OBVIOUS
  <2>4. R[m + 1] = iter[m + 1 .. m] /\ R[1] = iter[1 .. m]
    BY <2>3
  <2> HIDE DEF R
  <2> QED
    BY <2>1, <2>2, <2>4
<1>7. ASSUME NEW j \in 1 .. m PROVE R[j] = 2 * R[j + 1] + bs[j]
  <2>1. j .. m \in SUBSET (1 .. m) /\ j .. m # {} /\ j \in j .. m
        /\ \A x \in j .. m : j <= x
    OBVIOUS
  <2>2. Min(j .. m) = j
    BY <2>1, MinBottom
  <2>3. (j .. m) \ {j} = j + 1 .. m
    OBVIOUS
  <2>4. iter[j .. m] = 2 * iter[(j .. m) \ {Min(j .. m)}] + bs[Min(j .. m)]
    BY <1>4, <2>1
  <2>5. iter[j .. m] = 2 * iter[j + 1 .. m] + bs[j]
    BY <2>2, <2>3, <2>4
  <2>6. R[j] = iter[j .. m] /\ R[j + 1] = iter[j + 1 .. m]
    OBVIOUS
  <2> QED
    BY <2>5, <2>6
<1> HIDE DEF R
<1> QED
  BY <1>5, <1>6, <1>7

\* bs are the bits of a, lowest first; R[l] is the number of those from l on.
BitsOf(a, bs)  == \A l \in 1 .. ByteBits : bs[l] = (a \div Power(2)[l - 1]) % 2
Partials(R, bs) == /\ R[ByteBits + 1] = 0
                   /\ \A l \in 1 .. ByteBits : R[l] = 2 * R[l + 1] + bs[l]

\* Doubling and adding bit after bit, from the highest down, gives the number.
LEMMA Doubling ==
  ASSUME NEW a \in Nat, a < Power(2)[ByteBits], NEW bs, BitsOf(a, bs),
         NEW R, Partials(R, bs)
  PROVE  R[1] = a
<1> DEFINE m == ByteBits
           P == Power(2)
<1>1. /\ m \in Nat /\ P[0] = 1 /\ a < P[m]
      /\ \A l \in 1 .. m : bs[l] = (a \div P[l - 1]) % 2
  BY EncodingAssumption, Bases DEF BitsOf
<1>2. \A k \in Nat : P[k] \in Nat \ {0} /\ P[k + 1] = 2 * P[k]
  BY Bases, Zenon
<1>3. R[m + 1] = 0 /\ \A j \in 1 .. m : R[j] = 2 * R[j + 1] + bs[j]
  BY DEF Partials
<1> HIDE DEF m, P
<1> DEFINE U == {k \in Nat : k <= m => R[(m - k) + 1] = a \div P[m - k]}
<1>4. 0 \in U
  <2> DEFINE c == P[m]
  <2>1. c \in Nat \ {0} /\ a < c
    BY <1>1, <1>2
  <2> HIDE DEF c
  <2>2. a \in Int /\ 0 \in Int /\ a = c * 0 + a /\ a \in 0 .. c - 1
    BY <2>1
  <2>3. a \div c = 0
    BY <2>1, <2>2, DivUnique
  <2>4. m - 0 = m
    BY <1>1
  <2> QED
    BY <1>3, <2>3, <2>4 DEF c
<1>5. ASSUME NEW k \in U PROVE k + 1 \in U
  <2> SUFFICES ASSUME k + 1 <= m PROVE R[(m - (k + 1)) + 1] = a \div P[m - (k + 1)]
    OBVIOUS
  <2> DEFINE l == m - (k + 1)
  <2>1. /\ k \in Nat /\ R[(m - k) + 1] = a \div P[m - k]
        /\ l \in Nat /\ l + 1 \in 1 .. m /\ m - k = l + 1 /\ (l + 1) - 1 = l
    BY <1>1
  <2> HIDE DEF l
  <2>2. R[l + 1] = 2 * R[(l + 1) + 1] + bs[l + 1]
    BY <1>3, <2>1
  <2>3. bs[l + 1] = (a \div P[l]) % 2
    BY <1>1, <2>1
  <2>4. P[l + 1] = 2 * P[l] /\ P[l] \in Nat \ {0} /\ 2 \in Nat \ {0}
    BY <1>2, <2>1
  <2>5. /\ a \div P[l] = (a \div (2 * P[l])) * 2 + ((a \div P[l]) % 2)
        /\ a \div (2 * P[l]) \in Nat
    BY <2>4, DivDiv
  <2>6. R[(l + 1) + 1] = a \div (2 * P[l])
    BY <2>1, <2>4
  <2>7. R[l + 1] = a \div P[l]
    BY <2>2, <2>3, <2>5, <2>6
  <2> QED
    BY <2>7 DEF l
<1>6. U = Nat
  <2>1. U \subseteq Nat
    OBVIOUS
  <2> HIDE DEF U
  <2> QED
    BY <1>4, <1>5, <2>1, SetInduction, Zenon
<1>7. R[(m - m) + 1] = a \div P[m - m]
  <2>1. m \in U
    <3> HIDE DEF U
    <3> QED
      BY <1>6, <1>1
  <2> QED
    BY <1>1, <2>1
<1>8. m - m = 0 /\ a \div 1 = a /\ 0 + 1 = 1
  BY <1>1
<1> QED
  BY <1>1, <1>7, <1>8

\* A byte is made of its bits again.
LEMMA ByteBack ==
  ASSUME NEW a \in Byte, NEW bs, DOMAIN bs = 1 .. ByteBits, BitsOf(a, bs)
  PROVE  Packed(bs) = a
<1>1. ByteBits \in Nat
  BY EncodingAssumption
<1>2. a \in Nat /\ a < Power(2)[ByteBits]
  <2>1. Base = Power(2)[ByteBits] /\ Base \in Nat
    BY Bases DEF Base
  <2> QED
    BY <2>1 DEF Byte
<1>3. PICK R : /\ R[ByteBits + 1] = 0 /\ Packed(bs) = R[1]
               /\ \A j \in 1 .. ByteBits : R[j] = 2 * R[j + 1] + bs[j]
  BY <1>1, BitSteps, Zenon
<1>4. Partials(R, bs)
  BY <1>3 DEF Partials
<1>5. R[1] = a
  BY <1>2, <1>4, Doubling, Zenon
<1> QED
  BY <1>3, <1>5, Zenon

\* Bit l of byte j, in the array of all bits.
LEMMA Slot ==
  ASSUME NEW len \in Nat, NEW j \in 1 .. len, NEW l \in 1 .. ByteBits
  PROVE  LET k == (j - 1) * ByteBits + l
         IN  /\ k \in 1 .. len * ByteBits
             /\ (k - 1) \div ByteBits + 1 = j /\ (k - 1) % ByteBits = l - 1
<1> DEFINE B == ByteBits
           c == (j - 1) * B
           e == (len - j) * B
           k == c + l
<1>1. B \in Nat \ {0} /\ B \in Nat /\ l \in 1 .. B
  BY EncodingAssumption
<1> HIDE DEF B
<1>2. j - 1 \in Nat /\ len - j \in Nat
  OBVIOUS
<1>3. c \in Nat /\ e \in Nat
  BY <1>1, <1>2
<1>4. len * B = e + c + B
  BY <1>1
<1>5. c = B * (j - 1)
  BY <1>1
<1> HIDE DEF c, e
<1>6. k \in 1 .. len * B
  BY <1>1, <1>3, <1>4
<1>7. k - 1 \in Int /\ j - 1 \in Int /\ l - 1 \in 0 .. B - 1
      /\ k - 1 = B * (j - 1) + (l - 1)
  BY <1>1, <1>3, <1>5
<1>8. (k - 1) \div B = j - 1 /\ (k - 1) % B = l - 1
  BY <1>1, <1>7, DivUnique, ModUnique
<1> HIDE DEF k
<1>9. (k - 1) \div B + 1 = j
  BY <1>8
<1> QED
  BY <1>6, <1>8, <1>9 DEF k, c, B

\* Every place of the array is of some byte.
LEMMA SlotByte ==
  ASSUME NEW len \in Nat, NEW k \in 1 .. len * ByteBits
  PROVE  (k - 1) \div ByteBits + 1 \in 1 .. len /\ (k - 1) % ByteBits \in Nat
<1> DEFINE B == ByteBits
           d == (k - 1) \div B
           e == (k - 1) % B
<1>1. B \in Nat \ {0} /\ B \in Nat /\ len * B \in Nat
  BY EncodingAssumption
<1> HIDE DEF B
<1>2. k - 1 \in Nat /\ k - 1 < len * B
  BY <1>1 DEF B
<1>3. d \in Int /\ e \in 0 .. B - 1 /\ k - 1 = B * d + e
  BY <1>1, <1>2, DivMod
<1> HIDE DEF d, e
<1>4. d >= 0
  <2> DEFINE u == -1 - d
             p == B * u
  <2>1. ASSUME u \in Nat PROVE p \in Nat
    BY <1>1, <2>1
  <2>2. B * d = 0 - p - B
    BY <1>1, <1>3
  <2> HIDE DEF p
  <2> QED
    BY <1>1, <1>2, <1>3, <2>1, <2>2
<1>5. d < len
  <2> DEFINE u == d - len
             p == B * u
  <2>1. ASSUME u \in Nat PROVE p \in Nat
    BY <1>1, <2>1
  <2>2. B * d = p + len * B
    BY <1>1, <1>3
  <2> HIDE DEF p
  <2> QED
    BY <1>1, <1>2, <1>3, <2>1, <2>2
<1> QED
  BY <1>3, <1>4, <1>5 DEF d, e, B

\* An array of bytes is made of its bits again.
LEMMA BitsBack ==
  ASSUME NEW bytes \in Seq(Byte)
  PROVE  to_bits(bytes) \in Seq(0 .. 1) /\ from_bits(to_bits(bytes)) = bytes
<1> DEFINE len  == Len(bytes)
           B    == ByteBits
           t    == len * B
           bits == to_bits(bytes)
           Bit(k) == (bytes[(k - 1) \div B + 1] \div Power(2)[(k - 1) % B]) % 2
<1>1. len \in Nat /\ B \in Nat \ {0} /\ B \in Nat /\ t \in Nat
      /\ \A j \in 1 .. len : bytes[j] \in Byte /\ bytes[j] \in Int
  <2>1. len \in Nat /\ B \in Nat \ {0} /\ B \in Nat
    BY EncodingAssumption
  <2>2. t \in Nat
    BY <2>1
  <2>3. ASSUME NEW j \in 1 .. len PROVE bytes[j] \in Byte /\ bytes[j] \in Int
    <3>1. bytes[j] \in Byte
      OBVIOUS
    <3>2. Byte \subseteq Int
      BY Bases DEF Byte
    <3> QED
      BY <3>1, <3>2
  <2> QED
    BY <2>1, <2>2, <2>3
<1>2. bits = [k \in 1 .. t |-> Bit(k)]
  BY DEF to_bits
<1>3. ASSUME NEW k \in 1 .. t PROVE Bit(k) \in 0 .. 1
  <2> DEFINE j == (k - 1) \div B + 1
             l == (k - 1) % B
             c == Power(2)[l]
             w == bytes[j] \div c
  <2>1. j \in 1 .. len /\ l \in Nat
    BY <1>1, SlotByte
  <2> HIDE DEF j, l
  <2>2. c \in Nat \ {0}
    BY <2>1, Bases
  <2> HIDE DEF c
  <2>3. w \in Int
    <3>1. bytes[j] \in Int
      BY <1>1, <2>1
    <3> QED
      BY <2>2, <3>1, DivMod
  <2> HIDE DEF w
  <2>4. w % 2 \in 0 .. 1
    BY <2>3
  <2> QED
    BY <2>4 DEF w, c, l, j
<1> HIDE DEF t
<1>4. bits \in Seq(0 .. 1) /\ Len(bits) = t
  <2> HIDE DEF Bit
  <2> QED
    BY <1>1, <1>2, <1>3
<1>5. Len(bits) \div B = len
  <2>1. t \in Int /\ len \in Int /\ 0 \in 0 .. B - 1 /\ t = B * len + 0
    BY <1>1 DEF t
  <2>2. t \div B = len
    BY <1>1, <2>1, DivUnique
  <2> QED
    BY <1>4, <2>2
<1>6. ASSUME NEW j \in 1 .. len
      PROVE  Packed(SubSeq(bits, (j - 1) * B + 1, j * B)) = bytes[j]
  <2> DEFINE c  == (j - 1) * B
             bs == SubSeq(bits, c + 1, j * B)
  <2>1. c \in Nat /\ j * B = c + B
    BY <1>1
  <2>2. \A l \in 1 .. B : /\ c + l \in 1 .. t
                          /\ ((c + l) - 1) \div B + 1 = j /\ ((c + l) - 1) % B = l - 1
    BY <1>1, Slot DEF t
  <2> HIDE DEF c
  <2>3. DOMAIN bs = 1 .. B /\ \A l \in 1 .. B : bs[l] = bits[c + l]
    <3> HIDE DEF bits
    <3> DEFINE a == c + 1
               b == c + B
    <3>1. a \in Int /\ b \in Int /\ bs = SubSeq(bits, a, b)
      BY <1>1, <2>1
    <3>2. \A i \in a .. b : bits[i] \in 0 .. 1
      <4> SUFFICES ASSUME NEW i \in a .. b PROVE bits[i] \in 0 .. 1
        OBVIOUS
      <4>1. i - c \in 1 .. B /\ c + (i - c) = i
        BY <1>1, <2>1
      <4>2. i \in 1 .. t
        BY <2>2, <4>1
      <4> QED
        BY <1>4, <4>2
    <3>3. /\ SubSeq(bits, a, b) \in Seq(0 .. 1)
          /\ Len(SubSeq(bits, a, b)) = IF a <= b THEN b - a + 1 ELSE 0
          /\ \A i \in 1 .. b - a + 1 : SubSeq(bits, a, b)[i] = bits[a + i - 1]
      BY <3>1, <3>2, SubSeqProperties
    <3>4. a <= b /\ b - a + 1 = B /\ \A l \in 1 .. B : a + l - 1 = c + l
      BY <1>1, <2>1
    <3> HIDE DEF a, b, bs
    <3>5. bs \in Seq(0 .. 1) /\ Len(bs) = B /\ \A l \in 1 .. B : bs[l] = bits[a + l - 1]
      BY <3>1, <3>3, <3>4
    <3> QED
      BY <3>4, <3>5
  <2>4. ASSUME NEW l \in 1 .. B
        PROVE  bs[l] = (bytes[j] \div Power(2)[l - 1]) % 2
    <3>1. bs[l] = bits[c + l]
      BY <2>3
    <3>2. c + l \in 1 .. t /\ ((c + l) - 1) \div B + 1 = j /\ ((c + l) - 1) % B = l - 1
      BY <2>2
    <3>3. bits[c + l] = Bit(c + l)
      BY <1>2, <3>2
    <3> DEFINE x == ((c + l) - 1) \div B + 1
               y == ((c + l) - 1) % B
    <3>4. x = j /\ y = l - 1
      BY <3>2
    <3>5. Bit(c + l) = (bytes[x] \div Power(2)[y]) % 2
      OBVIOUS
    <3> HIDE DEF x, y, Bit
    <3> QED
      BY <3>1, <3>3, <3>4, <3>5
  <2> HIDE DEF bs
  <2>5. BitsOf(bytes[j], bs)
    BY <2>4 DEF BitsOf
  <2>6. Packed(bs) = bytes[j]
    BY <1>1, <2>3, <2>5, ByteBack
  <2> QED
    BY <2>6 DEF bs, c
<1>7. from_bits(bits) = [j \in 1 .. len |-> Packed(SubSeq(bits, (j - 1) * B + 1, j * B))]
  BY <1>5 DEF from_bits
<1>8. from_bits(bits) = [j \in 1 .. len |-> bytes[j]]
  <2> HIDE DEF bits
  <2> QED
    BY <1>6, <1>7, Zenon
<1>9. bytes = [j \in 1 .. len |-> bytes[j]]
  BY <1>1
<1> QED
  BY <1>4, <1>8, <1>9

\* The bits of a number are those of its bytes.
LEMMA NumberBack ==
  ASSUME NEW v \in Nat
  PROVE  integer_to_bits(v) \in Seq(0 .. 1) /\ bits_to_integer(integer_to_bits(v)) = v
BY BytesBack, BitsBack DEF integer_to_bits, bits_to_integer

\* What is joined of parts of the same lengths is the same only of the same parts.
LEMMA Joined ==
  ASSUME NEW a \in Seq(Byte), NEW b \in Seq(Byte), NEW c \in Seq(Byte), NEW d \in Seq(Byte),
         Len(a) = Len(c), a \o b = c \o d
  PROVE  a = c /\ b = d
<1> DEFINE la == Len(a)
           lb == Len(b)
           ld == Len(d)
           w  == a \o b
<1>1. /\ Len(w) = la + lb
      /\ \A i \in 1 .. la + lb : w[i] = IF i <= la THEN a[i] ELSE b[i - la]
  BY ConcatProperties
<1>2. /\ Len(w) = la + ld
      /\ \A i \in 1 .. la + ld : w[i] = IF i <= la THEN c[i] ELSE d[i - la]
  BY ConcatProperties
<1>3. /\ la \in Nat /\ lb \in Nat /\ ld \in Nat
      /\ a = [i \in 1 .. la |-> a[i]] /\ c = [i \in 1 .. la |-> c[i]]
      /\ b = [i \in 1 .. lb |-> b[i]] /\ d = [i \in 1 .. ld |-> d[i]]
  OBVIOUS
<1> HIDE DEF la, lb, ld, w
<1>4. lb = ld
  BY <1>1, <1>2, <1>3
<1>5. ASSUME NEW i \in 1 .. la PROVE a[i] = c[i]
  <2>1. i \in 1 .. la + lb /\ i <= la
    BY <1>3
  <2>2. w[i] = a[i]
    BY <1>1, <2>1
  <2>3. w[i] = c[i]
    BY <1>2, <1>4, <2>1
  <2> QED
    BY <2>2, <2>3
<1>6. ASSUME NEW i \in 1 .. lb PROVE b[i] = d[i]
  <2>1. la + i \in 1 .. la + lb /\ ~(la + i <= la) /\ (la + i) - la = i
    BY <1>3
  <2>2. w[la + i] = b[i] /\ w[la + i] = d[i]
    BY <1>1, <1>2, <1>4, <2>1
  <2> QED
    BY <2>2
<1> QED
  BY <1>3, <1>4, <1>5, <1>6

-----------------------------------------------------------------------------
(* What both parties and the servers compute of a key and a signature.     *)

\* The order of the group is a prime.
LEMMA Order == n \in Nat /\ n \in Int /\ n \in Nat \ {0} /\ n > 2 /\ IsPrime(n)
BY EcdsaAssumption DEF IsPrime

\* InverseMod computes inverses, as the order is prime.
LEMMA HasInverse ==
  ASSUME NEW a \in Scalars
  PROVE  InverseMod(a) \in Scalars /\ Cong(n, InverseMod(a) * a, 1)
<1> DEFINE z == InverseMod(a)
<1>1. z \in Scalars /\ (z * a) % n = 1
  <2>1. \E y \in Scalars : (y * a) % n = 1
    BY Order, PrimeInverse DEF Scalars
  <2> QED
    BY <2>1 DEF InverseMod
<1> HIDE DEF z
<1>2. z * a \in Int /\ 1 \in Int /\ 1 % n = 1
  BY <1>1, Order, ModSmall DEF Scalars
<1>3. Cong(n, z * a, 1)
  BY <1>1, <1>2, Order, CongMod
<1> QED
  BY <1>1, <1>3 DEF z

\* What verify accepts is an ECDSA signature under the key.
LEMMA VerifyIsValid ==
  ASSUME NEW pt \in Int, NEW z \in Int, NEW rr, NEW ss, Verify(pt, z, rr, ss)
  PROVE  ValidFor(pt, z, rr, ss)
<1>1. rr \in Scalars /\ ss \in Scalars /\ rr \in Int /\ ss \in Int
  BY Order DEF Verify, Scalars
<1> DEFINE w == InverseMod(ss)
<1>2. w \in Int /\ Cong(n, w * ss, 1)
  BY <1>1, HasInverse, Order DEF Scalars
<1> HIDE DEF w
<1> DEFINE e == z * w + rr * w * pt
           P2 == e % n
<1>3. P2 # 0 /\ X[P2] = rr
  BY DEF Verify, w
<1>4. e \in Int
  BY <1>1, <1>2
<1>5. P2 \in 0 .. n - 1 /\ P2 \in Int /\ Cong(n, P2, e)
  <2> HIDE DEF e
  <2> QED
    BY <1>4, Order, Reduced
<1> HIDE DEF P2
<1>6. P2 \in Scalars
  BY <1>3, <1>5, Order DEF Scalars
<1>7. Cong(n, P2 * ss, z + rr * pt)
  <2>1. PICK t \in Int : P2 = e + n * t
    BY <1>5 DEF Cong
  <2>2. PICK u \in Int : w * ss = 1 + n * u
    BY <1>2 DEF Cong
  <2>3. P2 * ss = (z + rr * pt) * (w * ss) + n * (t * ss)
    BY <1>1, <1>2, <1>5, <2>1, Order
  <2>4. P2 * ss = (z + rr * pt) * (1 + n * u) + n * (t * ss)
    BY <2>2, <2>3
  <2>5. P2 * ss = (z + rr * pt) + n * ((z + rr * pt) * u + t * ss)
    BY <1>1, <2>4, Order
  <2> QED
    BY <1>1, <2>5 DEF Cong
<1>8. (P2 * ss) % n = (z + rr * pt) % n
  <2>1. P2 * ss \in Int /\ z + rr * pt \in Int
    BY <1>1, <1>5
  <2> QED
    BY <1>7, <2>1, CongMod, Order
<1>9. rr = X[P2] % n /\ rr # 0
  BY <1>1, <1>3, Order, ModSmall DEF Scalars
<1> QED
  BY <1>1, <1>6, <1>8, <1>9 DEF ValidFor

\* The product of two scalars is a scalar, as the order is prime.
LEMMA ScalarProduct ==
  ASSUME NEW a \in Scalars, NEW b \in Scalars
  PROVE  (a * b) % n \in Scalars /\ Cong(n, (a * b) % n, a * b)
<1> DEFINE v == (a * b) % n
<1>1. a \in Int /\ b \in Int /\ a * b \in Int /\ a \in 0 .. n - 1 /\ b \in 0 .. n - 1
      /\ 0 \in 0 .. n - 1 /\ 0 \in Int
  BY Order DEF Scalars
<1>2. v \in 0 .. n - 1 /\ v \in Int /\ Cong(n, v, a * b)
  BY <1>1, Order, Reduced
<1> HIDE DEF v
<1>3. ASSUME v = 0 PROVE FALSE
  <2>1. Cong(n, a * b, 0)
    BY <1>1, <1>2, <1>3, Order, CongSym
  <2>2. Cong(n, a, 0) \/ Cong(n, b, 0)
    BY <1>1, <2>1, Order, PrimeProduct
  <2>3. a = 0 \/ b = 0
    BY <1>1, <2>2, Order, CongSmall
  <2> QED
    BY <2>3, Order DEF Scalars
<1>4. v \in Scalars
  BY <1>2, <1>3, Order DEF Scalars
<1> QED
  BY <1>2, <1>4 DEF v

\* The signature is of two numbers below the order, the second one low.
LEMMA SignatureRange ==
  ASSUME NEW k \in Scalars, NEW e \in Int
  PROVE  LET v == LowS((InverseMod(k) * e) % n)
         IN  X[k] % n \in 0 .. n - 1 /\ v \in 0 .. n - 1 /\ v <= n - v
<1> DEFINE w == (InverseMod(k) * e) % n
<1>1. w \in 0 .. n - 1
  <2>1. InverseMod(k) \in Int
    BY HasInverse, Order DEF Scalars
  <2>2. InverseMod(k) * e \in Int
    BY <2>1
  <2> QED
    BY <2>2, Order, Reduced
<1> HIDE DEF w
<1>2. LowS(w) \in 0 .. n - 1 /\ LowS(w) <= n - LowS(w)
  BY <1>1, Order DEF LowS
<1>3. X[k] % n \in 0 .. n - 1
  <2>1. X[k] \in Int
    BY EcdsaAssumption DEF Scalars
  <2> QED
    BY <2>1, Order, Reduced
<1> QED
  BY <1>2, <1>3 DEF w

\* A server gets the point whose coordinates it is sent.
LEMMA OneKey ==
  ASSUME NEW pt \in Scalars
  PROVE  getECKeyFromXY(to_bytes(X[pt]), to_bytes(pt)) = {pt}
<1>1. pt \in Nat /\ X[pt] \in Nat
  BY EcdsaAssumption DEF Scalars
<1>2. Decode(to_bytes(pt)) = pt /\ Decode(to_bytes(X[pt])) = X[pt]
  BY <1>1, BytesBack
<1>3. getECKeyFromXY(to_bytes(X[pt]), to_bytes(pt))
        = {P \in Scalars : X[P] = X[pt] /\ P = pt}
  BY <1>2, Zenon DEF getECKeyFromXY
<1> QED
  BY <1>3

\* An encoded signature has two parts of the same size, a key one part more.
LEMMA KeyTypes ==
  ASSUME NEW a \in Nat, NEW b \in Nat
  PROVE  LET e == encode_signature(a, b)
         IN  /\ e \in Seq(Byte) /\ Len(e) = Width + Width
             /\ genKeys(e) \in [Idx -> Seq(Byte)]
             /\ \A i \in Idx : genKeys(e)[i] = e \o to_bytes(i)
<1> DEFINE e == encode_signature(a, b)
           ea == Encode(a, Width)
           eb == Encode(b, Width)
<1>1. /\ ea \in Seq(Byte) /\ Len(ea) = Width
      /\ eb \in Seq(Byte) /\ Len(eb) = Width
  BY EncodeType, SingleSellAssumption
<1> HIDE DEF ea, eb
<1>2. ea \o eb \in Seq(Byte) /\ Len(ea \o eb) = Width + Width
  BY <1>1, ConcatProperties, SMTT(20)
<1>3. e = ea \o eb
  BY DEF encode_signature, ea, eb
<1> HIDE DEF e
<1>4. genKeys(e) = [i \in Idx |-> e \o to_bytes(i)]
  BY DEF genKeys
<1>5. ASSUME NEW i \in Idx PROVE e \o to_bytes(i) \in Seq(Byte)
  <2>1. i \in Nat
    BY DEF Idx
  <2>2. to_bytes(i) \in Seq(Byte)
    BY <2>1, BytesBack
  <2> QED
    BY <1>2, <1>3, <2>2, ConcatProperties
<1> QED
  BY <1>2, <1>3, <1>4, <1>5 DEF e

\* Keys of two signatures are equal only of the same numbers and index.
LEMMA KeyEqual ==
  ASSUME NEW a \in 0 .. n - 1, NEW b \in 0 .. n - 1,
         NEW c \in 0 .. n - 1, NEW d \in 0 .. n - 1, NEW i \in Idx, NEW j \in Idx
  PROVE  genKeys(encode_signature(a, b))[i] = genKeys(encode_signature(c, d))[j]
           <=> a = c /\ b = d /\ i = j
<1> SUFFICES ASSUME genKeys(encode_signature(a, b))[i] = genKeys(encode_signature(c, d))[j]
             PROVE  a = c /\ b = d /\ i = j
  OBVIOUS
<1> DEFINE e1 == encode_signature(a, b)
           e2 == encode_signature(c, d)
<1>1. /\ a \in Nat /\ b \in Nat /\ c \in Nat /\ d \in Nat /\ i \in Nat /\ j \in Nat
      /\ Width \in Nat
      /\ \A x \in 0 .. n - 1 : x \in Nat /\ x < Power(Base)[Width]
  <2>1. n <= Power(Base)[Width] /\ Width \in Nat
    BY SingleSellAssumption
  <2>2. Power(Base)[Width] \in Nat
    BY <2>1, Bases
  <2> QED
    BY <2>1, <2>2, Order DEF Idx
<1>2. /\ e1 \in Seq(Byte) /\ e2 \in Seq(Byte) /\ Len(e1) = Len(e2)
      /\ e1 \o to_bytes(i) = e2 \o to_bytes(j)
  <2>1. /\ e1 \in Seq(Byte) /\ Len(e1) = Width + Width
        /\ genKeys(e1)[i] = e1 \o to_bytes(i)
    BY <1>1, KeyTypes
  <2>2. /\ e2 \in Seq(Byte) /\ Len(e2) = Width + Width
        /\ genKeys(e2)[j] = e2 \o to_bytes(j)
    BY <1>1, KeyTypes
  <2> HIDE DEF e1, e2
  <2>3. genKeys(e1)[i] = genKeys(e2)[j]
    BY DEF e1, e2
  <2> QED
    BY <2>1, <2>2, <2>3
<1>3. to_bytes(i) \in Seq(Byte) /\ to_bytes(j) \in Seq(Byte)
  BY <1>1, BytesBack
<1> HIDE DEF e1, e2
<1>4. e1 = e2 /\ to_bytes(i) = to_bytes(j)
  BY <1>2, <1>3, Joined
<1>5. i = j
  <2>1. Decode(to_bytes(i)) = i /\ Decode(to_bytes(j)) = j
    BY <1>1, BytesBack
  <2> QED
    BY <1>4, <2>1
<1>6. Encode(a, Width) = Encode(c, Width) /\ Encode(b, Width) = Encode(d, Width)
  <2>1. /\ Encode(a, Width) \in Seq(Byte) /\ Len(Encode(a, Width)) = Width
        /\ Encode(b, Width) \in Seq(Byte)
        /\ Encode(c, Width) \in Seq(Byte) /\ Len(Encode(c, Width)) = Width
        /\ Encode(d, Width) \in Seq(Byte)
    BY <1>1, EncodeType
  <2>2. Encode(a, Width) \o Encode(b, Width) = Encode(c, Width) \o Encode(d, Width)
    BY <1>4 DEF e1, e2, encode_signature
  <2> QED
    BY <2>1, <2>2, Joined
<1>7. ASSUME NEW x \in 0 .. n - 1, NEW y \in 0 .. n - 1, Encode(x, Width) = Encode(y, Width)
      PROVE  x = y
  <2>1. Decode(Encode(x, Width)) = x /\ Decode(Encode(y, Width)) = y
    BY <1>1, DecodeEncode
  <2> QED
    BY <1>7, <2>1
<1> QED
  BY <1>5, <1>6, <1>7

-----------------------------------------------------------------------------
(* The inductive invariant. What a step of exec has computed holds at every *)
(* step after it.                                                          *)

Committed == {"executed", "open_lock", "open_keys", "open_signature",
              "verify_keys", "opened", "read", "solved"}
Sent      == {"sha_commit"} \union Committed
Locked    == {"gen_keys"} \union Sent
Published == {"commit"} \union Locked
Signed    == {"verify_T2"} \union Published
HasT2s    == {"sign"} \union Signed
HasT2b    == {"hand_over"} \union HasT2s
HasT1     == {"create_T2"} \union HasT2b

KeyInv ==
    pc # "init" => ds \in Scalars /\ db \in Scalars /\ Q \in Scalars /\ Q = PrivateKey

\* T1 pays to the shared key, once there is one.
TxsInv ==
    /\ pc \in {"init", "create_T1"} => T1 = 0
    /\ T1 \in {0, Q}
    /\ pc \in HasT1 => T1 = Q
    /\ T2b.sig = Empty
    /\ pc \in HasT2b => T2b = createSendTransactionToAddress(Q)
    /\ pc \in HasT2s => script = Q
    /\ pc \in {"sign", "verify_T2"} => T2s = T2b
    /\ pc \in Published => T2s = [T2b EXCEPT !.sig = <<r, s>>]

SigInv == pc \in Signed => Verify(Q, hash, r, s) /\ s <= n - s

\* What the seller locks and commits to is made from its share and signature.
ComInv ==
    /\ pc \in Locked => lock = integer_to_bits(ds)
    /\ pc \in Sent =>
         /\ sent.signature = encode_signature(r, s)
         /\ sent.keys = genKeys(sent.signature)
    /\ pc \in Committed => com = sent

OpenInv ==
    /\ pc \in {"open_lock", "open_keys", "open_signature", "verify_keys"} => verified
    /\ pc \in {"open_signature", "verify_keys", "opened"} => opened.keys = sent.keys
    /\ pc \in {"verify_keys", "opened"} => opened = sent
    /\ pc = "opened" => open_verified

GotInv ==
    /\ pc = "read" =>
         got.keys = genKeys(encode_signature(r, IF got.negated THEN n - s ELSE s))
    /\ pc = "solved" => got.d = Q

ThrowInv == pc = "threw" => T1 = 0 \/ ~Verify(Q, hash, r, s)

IInv == /\ TypeOK /\ KeyInv /\ TxsInv /\ SigInv /\ ComInv /\ OpenInv /\ GotInv
        /\ ThrowInv

USE DEF Committed, Sent, Locked, Published, Signed, HasT2s, HasT2b, HasT1

-----------------------------------------------------------------------------
(* Each step keeps the invariant.                                          *)

\* Facts about the constants and the types that the steps need.
LEMMA Types ==
  ASSUME TypeOK
  PROVE  /\ hash \in Nat /\ r \in 0 .. n - 1 /\ s \in 0 .. n - 1
         /\ ds \in Nat /\ db \in Nat /\ Q \in Nat /\ PrivateKey \in Nat
         /\ T2b \in [spends : 0 .. n - 1, pays : {"nobody", "seller"}, sig : Seq(Scalars)]
<1>1. hash \in Nat
  BY SingleSellAssumption DEF TypeOK
<1>2. /\ r \in 0 .. n - 1 /\ s \in 0 .. n - 1
      /\ ds \in Nat /\ db \in Nat /\ Q \in Nat
  BY Order DEF TypeOK
<1>3. ds * db \in Int
  BY <1>2
<1>4. PrivateKey \in Nat
  <2>1. PrivateKey \in 0 .. n - 1
    BY <1>3, Order, Reduced DEF PrivateKey
  <2> QED
    BY <2>1
<1> QED
  BY <1>1, <1>2, <1>4 DEF TypeOK

\* Nothing is made yet.
LEMMA InitIInv == Init => IInv
<1> SUFFICES ASSUME Init PROVE IInv
  OBVIOUS
<1>1. 0 \in 0 .. n - 1 /\ Empty \in Seq(Byte) /\ Empty \in Seq(Scalars) /\ Empty \in Seq(0 .. 1)
  BY Order DEF Empty
<1>2. Nothing \in Messages
  BY <1>1 DEF Nothing, Messages
<1>3. NoT2 \in [spends : 0 .. n - 1, pays : {"nobody", "seller"}, sig : Seq(Scalars)]
  BY <1>1 DEF NoT2
<1>4. [negated |-> FALSE, keys |-> Nothing.keys, d |-> 0]
        \in [negated : BOOLEAN, keys : [Idx -> Seq(Byte)], d : 0 .. n - 1]
  BY <1>1, <1>2 DEF Messages
<1>5. TypeOK
  BY <1>1, <1>2, <1>3, <1>4 DEF Init, TypeOK
<1>6. KeyInv /\ TxsInv /\ SigInv /\ ComInv /\ OpenInv /\ GotInv /\ ThrowInv
  BY DEF Init, NoT2, KeyInv, TxsInv, SigInv, ComInv, OpenInv, GotInv, ThrowInv
<1> QED
  BY <1>5, <1>6 DEF IInv

\* The shared key is a scalar, as the order is prime (KeyInv).
LEMMA MakeKeyIInv == IInv /\ MakeKey => IInv'
<1> SUFFICES ASSUME IInv, MakeKey PROVE IInv'
  OBVIOUS
<1> USE DEF MakeKey, txs, sig, coms, opens
<1>1. Q' \in Scalars /\ Q' = PrivateKey'
  BY ScalarProduct DEF PrivateKey
<1>2. ds' \in Scalars /\ db' \in Scalars /\ Scalars \subseteq 0 .. n - 1
  BY Order DEF Scalars
<1>3. TypeOK'
  <2>1. ds' \in 0 .. n - 1 /\ db' \in 0 .. n - 1 /\ Q' \in 0 .. n - 1
    BY <1>1, <1>2
  <2>2. UNCHANGED <<T1, T2b, hash, T2s, script, r, s, lock, sent, com, opened,
                    verified, open_verified, got>> /\ pc' = "create_T1"
    OBVIOUS
  <2> HIDE DEF MakeKey
  <2> QED
    BY <2>1, <2>2 DEF IInv, TypeOK
<1>4. KeyInv'
  BY <1>1, <1>2 DEF KeyInv
<1>5. TxsInv'
  BY DEF IInv, TxsInv
<1>6. SigInv' /\ ComInv' /\ OpenInv' /\ GotInv' /\ ThrowInv'
  BY DEF SigInv, ComInv, OpenInv, GotInv, ThrowInv
<1> QED
  BY <1>3, <1>4, <1>5, <1>6 DEF IInv

\* The server finds the shared key and no other.
LEMMA TheSharedKey ==
  ASSUME KeyInv, pc # "init"
  PROVE  SharedKey = {Q}
BY OneKey DEF KeyInv, SharedKey

\* T1 pays to the key the server makes of the coordinates (TxsInv).
LEMMA CreateT1IInv == IInv /\ CreateT1 => IInv'
<1> SUFFICES ASSUME IInv, CreateT1 PROVE IInv'
  OBVIOUS
<1> USE DEF CreateT1, key, sig, coms, opens
<1>1. SharedKey = {Q}
  BY TheSharedKey DEF IInv
<1>2. TypeOK'
  BY <1>1 DEF IInv, TypeOK
<1>3. KeyInv'
  BY DEF IInv, KeyInv, PrivateKey
<1>4. TxsInv'
  BY <1>1 DEF IInv, TxsInv
<1>5. SigInv' /\ ComInv' /\ OpenInv' /\ GotInv'
  BY DEF SigInv, ComInv, OpenInv, GotInv
<1>6. ThrowInv'
  BY DEF IInv, TxsInv, ThrowInv
<1> QED
  BY <1>2, <1>3, <1>4, <1>5, <1>6 DEF IInv

\* T2 spends what T1 pays.
LEMMA CreateT2IInv == IInv /\ CreateT2 => IInv'
<1> SUFFICES ASSUME IInv, CreateT2 PROVE IInv'
  OBVIOUS
<1> USE DEF CreateT2, key, sig, coms, opens
<1>1. T1 = Q /\ T1 \in 0 .. n - 1
  BY DEF IInv, TxsInv, TypeOK
<1>2. /\ T2b' = [spends |-> Q, pays |-> "seller", sig |-> Empty]
      /\ T2b'.sig = Empty
      /\ T2b' \in [spends : 0 .. n - 1, pays : {"nobody", "seller"}, sig : Seq(Scalars)]
  BY <1>1 DEF createSendTransactionToAddress, Empty
<1>3. TypeOK'
  BY <1>2 DEF IInv, TypeOK
<1>4. KeyInv'
  BY DEF IInv, KeyInv, PrivateKey
<1>5. TxsInv'
  BY <1>1, <1>2 DEF IInv, TxsInv, createSendTransactionToAddress
<1>6. SigInv' /\ ComInv' /\ OpenInv' /\ GotInv' /\ ThrowInv'
  BY DEF SigInv, ComInv, OpenInv, GotInv, ThrowInv
<1> QED
  BY <1>3, <1>4, <1>5, <1>6 DEF IInv

\* The seller has the buyer's T2.
LEMMA HandOverIInv == IInv /\ HandOver => IInv'
<1> SUFFICES ASSUME IInv, HandOver PROVE IInv'
  OBVIOUS
<1> USE DEF HandOver, key, sig, coms, opens
<1>1. TypeOK'
  BY DEF IInv, TypeOK
<1>2. KeyInv'
  BY DEF IInv, KeyInv, PrivateKey
<1>3. TxsInv'
  BY DEF IInv, TxsInv, createSendTransactionToAddress
<1>4. SigInv' /\ ComInv' /\ OpenInv' /\ GotInv' /\ ThrowInv'
  BY DEF SigInv, ComInv, OpenInv, GotInv, ThrowInv
<1> QED
  BY <1>1, <1>2, <1>3, <1>4 DEF IInv

\* A signature that is kept verifies, and is low (SigInv).
LEMMA SignIInv == IInv /\ Sign => IInv'
<1> SUFFICES ASSUME IInv, Sign PROVE IInv'
  OBVIOUS
<1> USE DEF Sign, key, txs, coms, opens
<1>1. r' \in 0 .. n - 1 /\ s' \in 0 .. n - 1 /\ s' <= n - s'
  <2>1. PICK k \in Scalars : /\ r' = X[k] % n
                             /\ s' = LowS((InverseMod(k) * (hash + r' * PrivateKey)) % n)
    OBVIOUS
  <2>2. r' \in Int
    <3>1. X[k] \in Int
      BY EcdsaAssumption DEF Scalars
    <3> QED
      BY <2>1, <3>1, Order, Reduced
  <2> DEFINE e == hash + r' * PrivateKey
  <2>3. e \in Int
    BY <2>2, Types DEF IInv
  <2>4. s' = LowS((InverseMod(k) * e) % n)
    BY <2>1
  <2> HIDE DEF e
  <2> QED
    BY <2>1, <2>3, <2>4, SignatureRange
<1>2. TypeOK'
  BY <1>1 DEF IInv, TypeOK
<1>3. KeyInv'
  BY DEF IInv, KeyInv, PrivateKey
<1>4. TxsInv'
  BY DEF IInv, TxsInv, createSendTransactionToAddress
<1>5. SigInv' /\ ThrowInv'
  <2>1. pc' = IF Verify(Q, hash, r', s') THEN "verify_T2" ELSE "threw"
    OBVIOUS
  <2>2. Verify(Q, hash, r, s)' <=> Verify(Q, hash, r', s')
    BY DEF Verify
  <2> QED
    BY <1>1, <2>1, <2>2 DEF SigInv, ThrowInv
<1>6. ComInv' /\ OpenInv' /\ GotInv'
  BY DEF ComInv, OpenInv, GotInv
<1> QED
  BY <1>2, <1>3, <1>4, <1>5, <1>6 DEF IInv

\* bitcoinj accepts what verify accepted.
LEMMA VerifiedIsAccepted ==
  ASSUME IInv, pc = "verify_T2"
  PROVE  Accepted(to_bytes(X[Q]), to_bytes(Q), to_bytes(r), to_bytes(s))
<1>1. Q \in Scalars /\ script = Q /\ Verify(Q, hash, r, s)
  BY DEF IInv, KeyInv, TxsInv, SigInv
<1>2. Q \in Int /\ hash \in Int /\ r \in Nat /\ s \in Nat
  BY Types DEF IInv
<1>3. ValidFor(Q, hash, r, s)
  BY <1>1, <1>2, VerifyIsValid
<1>4. Decode(to_bytes(r)) = r /\ Decode(to_bytes(s)) = s
  BY <1>2, BytesBack
<1>5. Q \in getECKeyFromXY(to_bytes(X[Q]), to_bytes(Q))
  BY <1>1, OneKey
<1> QED
  BY <1>1, <1>3, <1>4, <1>5 DEF Accepted

\* The seller puts the signature in its copy of T2.
LEMMA VerifyT2SignatureIInv == IInv /\ VerifyT2Signature => IInv'
<1> SUFFICES ASSUME IInv, VerifyT2Signature PROVE IInv'
  OBVIOUS
<1>1. /\ pc = "verify_T2" /\ pc' = "commit"
      /\ T2s' = [T2s EXCEPT !.sig = <<r, s>>]
      /\ UNCHANGED <<key, T1, T2b, hash, script, sig, lock, coms, opens, got>>
  BY VerifiedIsAccepted DEF VerifyT2Signature
<1> USE DEF key, sig, coms, opens
<1>2. r \in Scalars /\ s \in Scalars
  BY <1>1 DEF IInv, SigInv, Verify
<1>3. T2s' \in [spends : 0 .. n - 1, pays : {"nobody", "seller"}, sig : Seq(Scalars)]
  <2>1. <<r, s>> \in Seq(Scalars)
    BY <1>2
  <2>2. T2s \in [spends : 0 .. n - 1, pays : {"nobody", "seller"}, sig : Seq(Scalars)]
    BY DEF IInv, TypeOK
  <2> QED
    BY <1>1, <2>1, <2>2
<1>4. TypeOK'
  BY <1>1, <1>3 DEF IInv, TypeOK
<1>5. KeyInv'
  BY <1>1 DEF IInv, KeyInv, PrivateKey
<1>6. TxsInv'
  BY <1>1 DEF IInv, TxsInv, createSendTransactionToAddress
<1>7. SigInv'
  BY <1>1 DEF IInv, SigInv, Verify
<1>8. ComInv' /\ OpenInv' /\ GotInv' /\ ThrowInv'
  BY <1>1 DEF ComInv, OpenInv, GotInv, ThrowInv
<1> QED
  BY <1>4, <1>5, <1>6, <1>7, <1>8 DEF IInv

\* The lock has the bits of the seller's share (ComInv).
LEMMA CommitShareIInv == IInv /\ CommitShare => IInv'
<1> SUFFICES ASSUME IInv, CommitShare PROVE IInv'
  OBVIOUS
<1> USE DEF CommitShare, key, txs, sig, coms, opens
<1>1. lock' \in Seq(0 .. 1)
  BY Types, NumberBack DEF IInv
<1>2. TypeOK'
  BY <1>1 DEF IInv, TypeOK
<1>3. KeyInv'
  BY DEF IInv, KeyInv, PrivateKey
<1>4. TxsInv'
  BY DEF IInv, TxsInv, createSendTransactionToAddress
<1>5. SigInv'
  BY DEF IInv, SigInv, Verify
<1>6. lock' = integer_to_bits(ds)'
  BY DEF integer_to_bits
<1>7. ComInv' /\ OpenInv' /\ GotInv' /\ ThrowInv'
  BY <1>6 DEF ComInv, OpenInv, GotInv, ThrowInv
<1> QED
  BY <1>2, <1>3, <1>4, <1>5, <1>7 DEF IInv

\* The keys are made from the signature.
LEMMA GenKeysIInv == IInv /\ GenKeysAndSetupCommits => IInv'
<1> SUFFICES ASSUME IInv, GenKeysAndSetupCommits PROVE IInv'
  OBVIOUS
<1> USE DEF GenKeysAndSetupCommits, key, txs, sig, opens
<1> DEFINE e == encode_signature(r, s)
<1>1. e \in Seq(Byte) /\ genKeys(e) \in [Idx -> Seq(Byte)]
  <2>1. r \in Nat /\ s \in Nat
    BY Types DEF IInv
  <2> QED
    BY <2>1, KeyTypes
<1>2. sent' = [keys |-> genKeys(e), signature |-> e]
  OBVIOUS
<1>3. encode_signature(r, s)' = e /\ genKeys(sent.signature)' = genKeys(sent'.signature)
  BY DEF encode_signature, genKeys
<1> HIDE DEF e
<1>4. sent' \in Messages
  BY <1>1, <1>2 DEF Messages
<1>5. sent'.signature = e /\ sent'.keys = genKeys(sent'.signature)
  BY <1>2
<1>6. TypeOK'
  BY <1>4 DEF IInv, TypeOK, Messages
<1>7. KeyInv'
  BY DEF IInv, KeyInv, PrivateKey
<1>8. TxsInv'
  BY DEF IInv, TxsInv, createSendTransactionToAddress
<1>9. SigInv'
  BY DEF IInv, SigInv, Verify
<1>10. ComInv'
  BY <1>3, <1>5 DEF IInv, ComInv, integer_to_bits
<1>11. OpenInv' /\ GotInv' /\ ThrowInv'
  BY DEF OpenInv, GotInv, ThrowInv
<1> QED
  BY <1>6, <1>7, <1>8, <1>9, <1>10, <1>11 DEF IInv

\* Steps after gen_keys leave what exec made as it is.
Made == /\ IInv
        /\ pc \in Sent /\ pc' \in Sent /\ pc' # "threw"
        /\ UNCHANGED <<key, txs, sig, lock, sent>>

\* What exec made holds after such a step.
LEMMA MadeKept ==
  ASSUME Made
  PROVE  /\ KeyInv' /\ TxsInv' /\ SigInv' /\ ThrowInv'
         /\ lock' = integer_to_bits(ds)'
         /\ sent'.signature = encode_signature(r, s)'
         /\ sent'.keys = genKeys(sent.signature)'
<1> USE DEF Made, key, txs, sig
<1>1. KeyInv'
  BY DEF IInv, KeyInv, PrivateKey
<1>2. TxsInv'
  BY DEF IInv, TxsInv, createSendTransactionToAddress
<1>3. SigInv'
  BY DEF IInv, SigInv, Verify
<1>4. ThrowInv'
  BY DEF ThrowInv
<1>5. lock' = integer_to_bits(ds)'
  BY DEF IInv, ComInv, integer_to_bits
<1>6. sent'.signature = encode_signature(r, s)' /\ sent'.keys = genKeys(sent.signature)'
  BY DEF IInv, ComInv, encode_signature, genKeys
<1> QED
  BY <1>1, <1>2, <1>3, <1>4, <1>5, <1>6

\* The commitments are to what the seller made.
LEMMA ShaCommitIInv == IInv /\ ShaCommit => IInv'
<1> SUFFICES ASSUME IInv, ShaCommit PROVE IInv'
  OBVIOUS
<1> USE DEF ShaCommit
<1>1. Made
  BY DEF Made
<1>2. TypeOK'
  BY DEF IInv, TypeOK, key, txs, sig, opens, Messages
<1>3. ComInv'
  BY <1>1, MadeKept DEF ComInv
<1>4. OpenInv' /\ GotInv'
  BY DEF OpenInv, GotInv
<1> QED
  BY <1>1, <1>2, <1>3, <1>4, MadeKept DEF IInv

\* An instance that is aborted says nothing.
LEMMA AbortIInv == IInv /\ Abort => IInv'
<1> SUFFICES ASSUME IInv, Abort PROVE IInv'
  OBVIOUS
<1> USE DEF Abort, key, txs, sig, coms, opens
<1>1. TypeOK'
  BY DEF IInv, TypeOK, Messages
<1>2. KeyInv'
  BY DEF IInv, KeyInv, PrivateKey
<1>3. TxsInv'
  BY DEF IInv, TxsInv
<1>4. SigInv' /\ ComInv' /\ OpenInv' /\ GotInv' /\ ThrowInv'
  BY DEF SigInv, ComInv, OpenInv, GotInv, ThrowInv
<1> QED
  BY <1>1, <1>2, <1>3, <1>4 DEF IInv

\* The buyer finds the signature good (OpenInv).
LEMMA OpenSignatureIInv == IInv /\ OpenSignature => IInv'
<1> SUFFICES ASSUME IInv, OpenSignature PROVE IInv'
  OBVIOUS
<1> USE DEF OpenSignature
<1>1. Made
  BY DEF Made, coms
<1>2. verified' = TRUE
  BY DEF IInv, SigInv, Verify
<1>3. TypeOK'
  BY <1>2 DEF IInv, TypeOK, key, txs, sig, coms, Messages
<1>4. ComInv'
  BY <1>1, MadeKept DEF IInv, ComInv, coms
<1>5. OpenInv' /\ GotInv'
  BY <1>2 DEF OpenInv, GotInv
<1> QED
  BY <1>1, <1>3, <1>4, <1>5, MadeKept DEF IInv

\* Nothing is checked.
LEMMA OpenLockIInv == IInv /\ OpenLock => IInv'
<1> SUFFICES ASSUME IInv, OpenLock PROVE IInv'
  OBVIOUS
<1> USE DEF OpenLock
<1>1. Made
  BY DEF Made, coms
<1>2. TypeOK'
  BY DEF IInv, TypeOK, key, txs, sig, coms, opens, Messages
<1>3. ComInv'
  BY <1>1, MadeKept DEF IInv, ComInv, coms
<1>4. OpenInv' /\ GotInv'
  BY DEF IInv, OpenInv, GotInv, opens
<1> QED
  BY <1>1, <1>2, <1>3, <1>4, MadeKept DEF IInv

\* The keys are those committed to, so nothing is thrown.
LEMMA OpenKeysIInv == IInv /\ OpenKeys => IInv'
<1> SUFFICES ASSUME IInv, OpenKeys PROVE IInv'
  OBVIOUS
<1>1. /\ pc = "open_keys" /\ pc' = "open_signature"
      /\ opened' = [opened EXCEPT !.keys = sent.keys]
      /\ UNCHANGED <<key, txs, sig, lock, coms, verified, open_verified, got>>
  BY DEF OpenKeys, IInv, ComInv
<1>2. Made
  BY <1>1 DEF Made, coms
<1>3. opened' \in Messages /\ opened'.keys = sent.keys
  BY <1>1 DEF IInv, TypeOK, Messages
<1>4. TypeOK'
  BY <1>1, <1>3 DEF IInv, TypeOK, key, txs, sig, coms, Messages
<1>5. ComInv'
  BY <1>1, <1>2, MadeKept DEF IInv, ComInv, coms
<1>6. OpenInv' /\ GotInv'
  BY <1>1, <1>3 DEF IInv, OpenInv, GotInv, coms
<1> QED
  BY <1>2, <1>4, <1>5, <1>6, MadeKept DEF IInv

\* So is the signature.
LEMMA OpenSignatureCommitIInv == IInv /\ OpenSignatureCommit => IInv'
<1> SUFFICES ASSUME IInv, OpenSignatureCommit PROVE IInv'
  OBVIOUS
<1>1. /\ pc = "open_signature" /\ pc' = "verify_keys"
      /\ opened' = [opened EXCEPT !.signature = sent.signature]
      /\ UNCHANGED <<key, txs, sig, lock, coms, verified, open_verified, got>>
  BY DEF OpenSignatureCommit, IInv, ComInv
<1>2. Made
  BY <1>1 DEF Made, coms
<1>3. opened' \in Messages /\ opened' = sent
  <2>1. opened.keys = sent.keys /\ opened \in Messages /\ sent \in Messages
    BY <1>1 DEF IInv, OpenInv, TypeOK
  <2> QED
    BY <1>1, <2>1 DEF Messages
<1>4. TypeOK'
  BY <1>1, <1>3 DEF IInv, TypeOK, key, txs, sig, coms, Messages
<1>5. ComInv'
  BY <1>1, <1>2, MadeKept DEF IInv, ComInv, coms
<1>6. OpenInv' /\ GotInv'
  BY <1>1, <1>3 DEF IInv, OpenInv, GotInv, coms
<1> QED
  BY <1>2, <1>4, <1>5, <1>6, MadeKept DEF IInv

\* The opened keys are made from the opened signature.
LEMMA VerifyKeysIInv == IInv /\ VerifyKeys => IInv'
<1> SUFFICES ASSUME IInv, VerifyKeys PROVE IInv'
  OBVIOUS
<1>1. \A i \in Idx : opened.keys[i] \in {Empty, genKeys(opened.signature)[i]}
  BY DEF VerifyKeys, IInv, ComInv, OpenInv
<1>2. /\ pc = "verify_keys" /\ pc' = "opened" /\ open_verified' = verified
      /\ UNCHANGED <<key, txs, sig, lock, coms, opened, verified, got>>
  BY <1>1 DEF VerifyKeys
<1>3. Made
  BY <1>2 DEF Made, coms
<1>4. TypeOK'
  BY <1>2 DEF IInv, TypeOK, key, txs, sig, coms, Messages
<1>5. ComInv'
  BY <1>2, <1>3, MadeKept DEF IInv, ComInv, coms
<1>6. OpenInv' /\ GotInv'
  BY <1>2 DEF IInv, OpenInv, GotInv, coms
<1> QED
  BY <1>3, <1>4, <1>5, <1>6, MadeKept DEF IInv

\* Java's bytes of both numbers decode to them (GotInv).
LEMMA GetSignatureIInv == IInv /\ GetSignature => IInv'
<1> SUFFICES ASSUME IInv, GetSignature PROVE IInv'
  OBVIOUS
<1>1. /\ pc = "executed" /\ pc' = "read"
      /\ UNCHANGED <<key, txs, sig, lock, coms, opens>>
  BY DEF GetSignature
<1>2. Made
  BY <1>1 DEF Made, coms
<1>3. T2s.sig[1] = r /\ T2s.sig[2] = s
  <2>1. T2s = [T2b EXCEPT !.sig = <<r, s>>]
    BY <1>1 DEF IInv, TxsInv
  <2>2. T2b \in [spends : 0 .. n - 1, pays : {"nobody", "seller"}, sig : Seq(Scalars)]
    BY Types DEF IInv
  <2>3. T2s.sig = <<r, s>>
    BY <2>1, <2>2
  <2> QED
    BY <2>3
<1>4. PICK negated \in BOOLEAN :
        LET chain_s == IF negated THEN n - T2s.sig[2] ELSE T2s.sig[2]
        IN  got' = [got EXCEPT
               !.negated = negated,
               !.keys = genKeys(chain_signature(toByteArray(T2s.sig[1]),
                                                toByteArray(chain_s)))]
  BY DEF GetSignature
<1> DEFINE v == IF negated THEN n - s ELSE s
           e == encode_signature(r, v)
<1>5. r \in Nat /\ v \in Nat
  BY Types, Order DEF IInv
<1>6. chain_signature(toByteArray(r), toByteArray(v)) = e
  BY <1>5, JavaBack DEF chain_signature
<1>7. got' = [got EXCEPT !.negated = negated, !.keys = genKeys(e)]
  BY <1>3, <1>4, <1>6, Zenon
<1>8. genKeys(e) \in [Idx -> Seq(Byte)]
  BY <1>5, KeyTypes
<1> HIDE DEF e
<1>9. /\ got' \in [negated : BOOLEAN, keys : [Idx -> Seq(Byte)], d : 0 .. n - 1]
      /\ got'.negated = negated /\ got'.keys = genKeys(e)
  BY <1>7, <1>8 DEF IInv, TypeOK
<1>10. TypeOK'
  BY <1>1, <1>9 DEF IInv, TypeOK, key, txs, sig, coms, opens, Messages
<1>11. ComInv'
  BY <1>1, <1>2, MadeKept DEF IInv, ComInv, coms
<1>12. GotInv'
  <2>1. genKeys(encode_signature(r, IF got.negated THEN n - s ELSE s))' = genKeys(e)
    BY <1>1, <1>9 DEF e, sig, genKeys, encode_signature
  <2> QED
    BY <1>1, <1>9, <2>1 DEF GotInv
<1>13. OpenInv'
  BY <1>1 DEF OpenInv
<1> QED
  BY <1>2, <1>10, <1>11, <1>12, <1>13, MadeKept DEF IInv

\* The bits are the seller's share again, and the product is the key.
LEMMA SolveTimeLockIInv == IInv /\ SolveTimeLock => IInv'
<1> SUFFICES ASSUME IInv, SolveTimeLock PROVE IInv'
  OBVIOUS
<1>1. /\ pc = "executed" /\ pc' = "solved"
      /\ got' = [got EXCEPT !.d = Decode(to_bytes(RedeemKey(lock)))]
      /\ UNCHANGED <<key, txs, sig, lock, coms, opens>>
  BY DEF SolveTimeLock
<1>2. Made
  BY <1>1 DEF Made, coms
<1>3. RedeemKey(lock) = Q
  <2>1. lock = integer_to_bits(ds) /\ Q = PrivateKey /\ ds \in Nat
    BY <1>1, Types DEF IInv, ComInv, KeyInv
  <2>2. bits_to_integer(lock) = ds
    BY <2>1, NumberBack
  <2> QED
    BY <2>1, <2>2 DEF RedeemKey, PrivateKey
<1>4. Decode(to_bytes(RedeemKey(lock))) = Q /\ Q \in 0 .. n - 1
  <2>1. Q \in Nat /\ Q \in 0 .. n - 1
    BY Types DEF IInv, TypeOK
  <2> QED
    BY <1>3, <2>1, BytesBack
<1>5. /\ got' \in [negated : BOOLEAN, keys : [Idx -> Seq(Byte)], d : 0 .. n - 1]
      /\ got'.d = Q
  BY <1>1, <1>4 DEF IInv, TypeOK
<1>6. TypeOK'
  BY <1>1, <1>5 DEF IInv, TypeOK, key, txs, sig, coms, opens, Messages
<1>7. ComInv'
  BY <1>1, <1>2, MadeKept DEF IInv, ComInv, coms
<1>8. GotInv' /\ OpenInv'
  BY <1>1, <1>5 DEF GotInv, OpenInv, key
<1> QED
  BY <1>2, <1>6, <1>7, <1>8, MadeKept DEF IInv

\* A step of nobody.
LEMMA StutterIInv == IInv /\ UNCHANGED vars => IInv'
<1> SUFFICES ASSUME IInv, UNCHANGED vars PROVE IInv'
  OBVIOUS
<1> USE DEF vars, key, txs, sig, coms, opens
<1>1. TypeOK'
  BY DEF IInv, TypeOK, Messages
<1>2. KeyInv'
  BY DEF IInv, KeyInv, PrivateKey
<1>3. TxsInv'
  BY DEF IInv, TxsInv, createSendTransactionToAddress
<1>4. SigInv' /\ ThrowInv'
  BY DEF IInv, SigInv, ThrowInv, Verify
<1>5. ComInv'
  BY DEF IInv, ComInv, integer_to_bits, genKeys, encode_signature
<1>6. OpenInv'
  BY DEF IInv, OpenInv
<1>7. GotInv'
  BY DEF IInv, GotInv, genKeys, encode_signature
<1> QED
  BY <1>1, <1>2, <1>3, <1>4, <1>5, <1>6, <1>7 DEF IInv

-----------------------------------------------------------------------------
(* The theorems.                                                           *)

\* The invariant holds in every behaviour.
THEOREM Invariance == Spec => []IInv
<1>1. IInv /\ [Next]_vars => IInv'
  BY MakeKeyIInv, CreateT1IInv, CreateT2IInv, HandOverIInv, SignIInv,
     VerifyT2SignatureIInv, CommitShareIInv, GenKeysIInv, ShaCommitIInv,
     AbortIInv, OpenSignatureIInv, OpenLockIInv, OpenKeysIInv,
     OpenSignatureCommitIInv, VerifyKeysIInv, GetSignatureIInv,
     SolveTimeLockIInv, StutterIInv, Zenon DEF Next
<1> QED
  BY <1>1, InitIInv, PTL DEF Spec

\* The variables of both parties and the chain keep their types.
THEOREM TypeCorrect == Spec => []TypeOK
<1>1. IInv => TypeOK
  BY DEF IInv
<1> QED
  BY <1>1, Invariance, PTL

\* When exec returns, the seller's T2 is one the network takes.
THEOREM SellerHoldsT2 == Spec => []SellerCanPublishT2
<1>1. IInv => SellerCanPublishT2
  <2> SUFFICES ASSUME IInv, pc \in {"commit", "executed", "opened"}
               PROVE  /\ T2s.pays = "seller" /\ T2s.spends = T1 /\ Len(T2s.sig) = 2
                      /\ ValidFor(T1, hash, T2s.sig[1], T2s.sig[2])
                      /\ T2s.sig[2] <= n - T2s.sig[2]
                      /\ T2b.sig = Empty
    BY DEF SellerCanPublishT2
  <2>1. /\ T1 = Q /\ T2b.sig = Empty /\ T2s = [T2b EXCEPT !.sig = <<r, s>>]
        /\ T2b = [spends |-> Q, pays |-> "seller", sig |-> Empty]
    BY DEF IInv, TxsInv, createSendTransactionToAddress
  <2>2. Verify(Q, hash, r, s) /\ s <= n - s
    BY DEF IInv, SigInv
  <2>3. Q \in Int /\ hash \in Int
    BY Types DEF IInv
  <2>4. ValidFor(T1, hash, r, s)
    BY <2>1, <2>2, <2>3, VerifyIsValid
  <2>5. T2s.pays = "seller" /\ T2s.spends = Q /\ T2s.sig = <<r, s>>
    BY <2>1
  <2>6. Len(T2s.sig) = 2 /\ T2s.sig[1] = r /\ T2s.sig[2] = s
    BY <2>5
  <2> QED
    BY <2>1, <2>2, <2>4, <2>5, <2>6
<1> QED
  BY <1>1, Invariance, PTL

\* A party that follows the code is never found wrong by the other.
THEOREM HonestPasses == Spec => []HonestInstanceIsGood
<1>1. IInv => HonestInstanceIsGood
  BY DEF IInv, ThrowInv, OpenInv, HonestInstanceIsGood
<1> QED
  BY <1>1, Invariance, PTL

\* The bits of the time lock and the buyer's share make T1's private key.
THEOREM LockRedeems == Spec => []LockRedeemsT1
<1>1. IInv => LockRedeemsT1
  BY DEF IInv, TxsInv, GotInv, LockRedeemsT1
<1> QED
  BY <1>1, Invariance, PTL

\* A signature read in the chain gives the key of each index, unless negated.
THEOREM ChainKeys == Spec => []KeysFromChain
<1>1. IInv => KeysFromChain
  <2> SUFFICES ASSUME IInv, pc = "read", NEW i \in Idx, NEW j \in Idx
               PROVE  got.keys[i] = sent.keys[j] <=> i = j /\ ~got.negated
    BY DEF KeysFromChain
  <2> DEFINE v == IF got.negated THEN n - s ELSE s
  <2>1. /\ got.keys = genKeys(encode_signature(r, v))
        /\ sent.keys = genKeys(encode_signature(r, s))
    BY DEF IInv, GotInv, ComInv
  <2>2. r \in 0 .. n - 1 /\ s \in 0 .. n - 1 /\ s \in Scalars /\ got.negated \in BOOLEAN
    BY DEF IInv, TypeOK, SigInv, Verify
  <2>3. v \in 0 .. n - 1
    BY <2>2, Order DEF Scalars
  <2>4. n - s # s
    <3>1. ASSUME n - s = s PROVE FALSE
      <4>1. s \in Int /\ 0 \in 0 .. 2 - 1 /\ n = 2 * s + 0 /\ 2 \in Nat \ {0}
        BY <2>2, <3>1, Order
      <4>2. n % 2 = 0
        BY <4>1, Order, ModUnique
      <4>3. 2 \in 2 .. n - 1
        BY Order
      <4> QED
        BY <4>2, <4>3, EcdsaAssumption
    <3> QED
      BY <3>1
  <2>5. v = s <=> ~got.negated
    BY <2>2, <2>4
  <2> HIDE DEF v
  <2>6. got.keys[i] = sent.keys[j] <=> r = r /\ v = s /\ i = j
    BY <2>1, <2>2, <2>3, KeyEqual
  <2> QED
    BY <2>5, <2>6
<1> QED
  BY <1>1, Invariance, PTL
=============================================================================
