--------------------------- MODULE PduCodec_proofs ---------------------------
(***************************************************************************)
(* Proofs about the codec, for any two bodies, any header fields, either   *)
(* size of long and any memory behind the buffer.                          *)
(*                                                                         *)
(* Three layers:                                                           *)
(*   - the bytes of an integer, read again, are the integer, of 32 bits    *)
(*     (IntBytes) and of 64 (LongBytes);                                   *)
(*   - a PDU that is packed has its fields where the parser looks for them *)
(*     (PackLayout), so has the stream (StreamLayout), and so has the      *)
(*     buffer as far as it reaches (PduInBuffer);                          *)
(*   - what the parser answers, by which of these bytes are in the buffer  *)
(*     and what the memory behind them holds (ModelAllows, RoundTrip).     *)
(* The inductive invariant only has to say that the answer is that of the  *)
(* parser for the buffer.                                                  *)
(*                                                                         *)
(* A leaf with a number of more than a few digits needs the SMT solver.    *)
(***************************************************************************)
EXTENDS PduCodec, SequenceTheorems, TLAPS

-----------------------------------------------------------------------------
(* Integers and their bytes. *)

(* Only these powers of 256 are used. *)
LEMMA Powers == 256 ^ 0 = 1 /\ 256 ^ 1 = 256 /\ 256 ^ 2 = 65536 /\ 256 ^ 3 = 16777216
  BY SMT

LEMMA Int32Bounds ==
  ASSUME NEW v \in Int32
  PROVE  v \in Int /\ v >= -2147483648 /\ v <= 2147483647
  BY SMT DEF Int32, MaxInt

LEMMA Int64IsInt == \A v \in Int64 : v \in Int
  BY DEF Int64

LEMMA High32 ==
  ASSUME NEW v \in Int32
  PROVE  High(v) = (IF v < 0 THEN -1 ELSE 0)
  BY SMT, Int32Bounds DEF High

LEMMA ShiftedIs ==
  ASSUME NEW v
  PROVE  /\ Shifted(v, 3) = v \div 16777216 /\ Shifted(v, 2) = v \div 65536
         /\ Shifted(v, 1) = v \div 256 /\ Shifted(v, 0) = v \div 1
         /\ Shifted(v, 7) = High(v) \div 16777216 /\ Shifted(v, 6) = High(v) \div 65536
         /\ Shifted(v, 5) = High(v) \div 256 /\ Shifted(v, 4) = High(v) \div 1
  BY SMT, Powers DEF Shifted

(* The bytes of an integer. *)
LEMMA BigEndianIs ==
  ASSUME NEW v \in Int, NEW n \in {4, 8}
  PROVE  /\ BigEndian(v, n) \in Seq(Byte) /\ Len(BigEndian(v, n)) = n
         /\ \A k \in 1 .. n : BigEndian(v, n)[k] = Shifted(v, n - k) % 256
<1>1. High(v) \in Int
  BY SMT DEF High
<1>2. \A k \in 1 .. n : Shifted(v, n - k) % 256 \in Byte
  <2> TAKE k \in 1 .. n
  <2>1. n - k \in {0, 1, 2, 3, 4, 5, 6, 7}
    BY SMT
  <2>2. Shifted(v, n - k) \in Int
    <3>1. /\ v \div 16777216 \in Int /\ v \div 65536 \in Int /\ v \div 256 \in Int /\ v \div 1 \in Int
          /\ High(v) \div 16777216 \in Int /\ High(v) \div 65536 \in Int
          /\ High(v) \div 256 \in Int /\ High(v) \div 1 \in Int
      BY SMT, <1>1
    <3>2. QED
      BY SMT, <2>1, <3>1, ShiftedIs
  <2>3. QED
    BY SMT, <2>2 DEF Byte
<1>3. BigEndian(v, n) = [k \in 1 .. n |-> Shifted(v, n - k) % 256]
  BY DEF BigEndian
<1>4. n \in Nat
  OBVIOUS
<1>5. QED
  BY <1>2, <1>3, <1>4

LEMMA FourBytesAre ==
  ASSUME NEW v \in Int
  PROVE  /\ BigEndian(v, 4) \in Seq(Byte) /\ Len(BigEndian(v, 4)) = 4
         /\ \A k \in 1 .. 4 : BigEndian(v, 4)[k] = Shifted(v, 4 - k) % 256
<1>1. PICK n \in {4, 8} : n = 4
  OBVIOUS
<1>2. /\ BigEndian(v, n) \in Seq(Byte) /\ Len(BigEndian(v, n)) = n
      /\ \A k \in 1 .. n : BigEndian(v, n)[k] = Shifted(v, n - k) % 256
  BY BigEndianIs
<1>3. QED
  BY Zenon, <1>1, <1>2

LEMMA EightBytesAre ==
  ASSUME NEW v \in Int
  PROVE  /\ BigEndian(v, 8) \in Seq(Byte) /\ Len(BigEndian(v, 8)) = 8
         /\ \A k \in 1 .. 8 : BigEndian(v, 8)[k] = Shifted(v, 8 - k) % 256
<1>1. PICK n \in {4, 8} : n = 8
  OBVIOUS
<1>2. /\ BigEndian(v, n) \in Seq(Byte) /\ Len(BigEndian(v, n)) = n
      /\ \A k \in 1 .. n : BigEndian(v, n)[k] = Shifted(v, n - k) % 256
  BY BigEndianIs
<1>3. QED
  BY Zenon, <1>1, <1>2

LEMMA TwoHundredFiftySix ==
  ASSUME NEW t \in Int
  PROVE  t % 256 \in Byte /\ t = (t \div 256) * 256 + (t % 256)
  BY SMT DEF Byte

(* Four bytes that are those of v are read as v. *)
LEMMA FourBytes ==
  ASSUME NEW b, NEW p \in Nat, NEW v \in Int32,
         b[p] = (v \div 16777216) % 256, b[p + 1] = (v \div 65536) % 256,
         b[p + 2] = (v \div 256) % 256, b[p + 3] = v % 256
  PROVE  IntAt(b, p) = v
<1> DEFINE v1 == v \div 256
           v2 == v \div 65536
           v3 == v \div 16777216
<1>1. v \in Int /\ v >= -2147483648 /\ v <= 2147483647
  BY Int32Bounds
<1>2. v1 \in Int /\ v2 \in Int /\ v3 \in Int
  BY SMT, <1>1
<1>3. v2 = v1 \div 256 /\ v3 = v2 \div 256
  BY SMT, <1>1
<1>4. v3 >= -128 /\ v3 <= 127
  BY SMT, <1>1
<1> HIDE DEF v1, v2, v3
<1>5. v = v1 * 256 + (v % 256)
  BY SMT, <1>1, TwoHundredFiftySix DEF v1
<1>6. v1 = v2 * 256 + (v1 % 256)
  BY SMT, <1>2, <1>3, TwoHundredFiftySix
<1>7. v2 = v3 * 256 + (v2 % 256)
  BY SMT, <1>2, <1>3, TwoHundredFiftySix
<1>8. v3 = IF v3 % 256 > 127 THEN (v3 % 256) - 256 ELSE v3 % 256
  BY SMT, <1>2, <1>4
<1>9. /\ v % 256 \in Int /\ v1 % 256 \in Int /\ v2 % 256 \in Int
  BY SMT, <1>1, <1>2
<1>10. v = v3 * 16777216 + (v2 % 256) * 65536 + (v1 % 256) * 256 + (v % 256)
  BY SMT, <1>1, <1>2, <1>5, <1>6, <1>7, <1>9
<1>11. IntAt(b, p) = (IF v3 % 256 > 127 THEN (v3 % 256) - 256 ELSE v3 % 256) * 16777216
                       + (v2 % 256) * 65536 + (v1 % 256) * 256 + (v % 256)
  BY SMT, Powers DEF IntAt, v1, v2, v3
<1>12. QED
  BY SMT, <1>8, <1>10, <1>11

LEMMA IntBytes ==
  ASSUME NEW b, NEW p \in Nat, NEW v \in Int32,
         \A k \in 1 .. 4 : b[p + (k - 1)] = BigEndian(v, 4)[k]
  PROVE  IntAt(b, p) = v
<1>1. v \in Int
  BY Int32Bounds
<1>2. /\ BigEndian(v, 4)[1] = Shifted(v, 3) % 256 /\ BigEndian(v, 4)[2] = Shifted(v, 2) % 256
      /\ BigEndian(v, 4)[3] = Shifted(v, 1) % 256 /\ BigEndian(v, 4)[4] = Shifted(v, 0) % 256
  BY SMT, <1>1, FourBytesAre
<1>3. /\ b[p] = BigEndian(v, 4)[1] /\ b[p + 1] = BigEndian(v, 4)[2]
      /\ b[p + 2] = BigEndian(v, 4)[3] /\ b[p + 3] = BigEndian(v, 4)[4]
  <2>1. \A k \in 1 .. 4 : b[p + (k - 1)] = BigEndian(v, 4)[k]
    OBVIOUS
  <2>2. /\ p + (1 - 1) = p /\ p + (2 - 1) = p + 1 /\ p + (3 - 1) = p + 2 /\ p + (4 - 1) = p + 3
    OBVIOUS
  <2>3. QED
    BY SMT, <2>1, <2>2
<1>4. v \div 1 = v
  BY SMT, <1>1
<1>5. /\ b[p] = (v \div 16777216) % 256 /\ b[p + 1] = (v \div 65536) % 256
      /\ b[p + 2] = (v \div 256) % 256 /\ b[p + 3] = v % 256
  BY SMT, <1>2, <1>3, <1>4, ShiftedIs
<1>6. QED
  BY SMT, <1>5, FourBytes

(* 64 bits are a signed upper half and a lower one, which may be taken as signed, too. *)
LEMMA Halves ==
  ASSUME NEW v \in Int64
  PROVE  \E low \in Int32, c \in Int :
           /\ v = low + c * 4294967296
           /\ c = IF low < 0 THEN High(v) + 1 ELSE High(v)
<1> DEFINE h == High(v)
           w == v - h * 4294967296
           low == IF w >= 2147483648 THEN w - 4294967296 ELSE w
           c == IF low < 0 THEN h + 1 ELSE h
<1>1. v \in Int /\ h \in Int
  BY SMT, Int32Bounds DEF Int64
<1>2. w >= 0 /\ w < 4294967296 /\ w \in Int
  BY SMT, <1>1 DEF High
<1> HIDE DEF h
<1>3. low \in Int /\ low >= -2147483648 /\ low <= 2147483647
  BY SMT, <1>1, <1>2
<1>4. c \in Int /\ v = low + c * 4294967296
  BY SMT, <1>1, <1>2
<1>5. low \in Int32
  BY SMT, <1>3 DEF Int32, MaxInt
<1>6. c = IF low < 0 THEN High(v) + 1 ELSE High(v)
  BY DEF h
<1> HIDE DEF low, c
<1>7. QED
  BY <1>4, <1>5, <1>6

LEMMA LongBytes ==
  ASSUME NEW b, NEW p \in Nat, NEW v \in Int64,
         \A k \in 1 .. 8 : b[p + (k - 1)] = BigEndian(v, 8)[k]
  PROVE  Join(IntAt(b, p), IntAt(b, p + 4)) = v
<1>1. v \in Int /\ High(v) \in Int32 /\ High(v) \in Int
  BY SMT, Int32Bounds DEF Int64
<1>2. \A k \in 1 .. 8 : BigEndian(v, 8)[k] = Shifted(v, 8 - k) % 256
  BY Zenon, <1>1, EightBytesAre
<1>3. \A k \in 1 .. 8 : b[p + (k - 1)] = Shifted(v, 8 - k) % 256
  BY SMT, <1>2
<1>4. /\ b[p] = Shifted(v, 7) % 256 /\ b[p + 1] = Shifted(v, 6) % 256
      /\ b[p + 2] = Shifted(v, 5) % 256 /\ b[p + 3] = Shifted(v, 4) % 256
      /\ b[p + 4] = Shifted(v, 3) % 256 /\ b[p + 5] = Shifted(v, 2) % 256
      /\ b[p + 6] = Shifted(v, 1) % 256 /\ b[p + 7] = Shifted(v, 0) % 256
  <2>1. /\ p + (1 - 1) = p /\ p + (2 - 1) = p + 1 /\ p + (3 - 1) = p + 2 /\ p + (4 - 1) = p + 3
        /\ p + (5 - 1) = p + 4 /\ p + (6 - 1) = p + 5 /\ p + (7 - 1) = p + 6 /\ p + (8 - 1) = p + 7
    OBVIOUS
  <2>2. QED
    BY SMT, <1>3, <2>1
<1>5. IntAt(b, p) = High(v)
  <2>1. High(v) \div 1 = High(v)
    BY SMT, <1>1
  <2>2. /\ b[p] = (High(v) \div 16777216) % 256 /\ b[p + 1] = (High(v) \div 65536) % 256
        /\ b[p + 2] = (High(v) \div 256) % 256 /\ b[p + 3] = High(v) % 256
    BY SMT, <1>4, <2>1, ShiftedIs
  <2>3. QED
    BY SMT, <1>1, <2>2, FourBytes
<1>6. PICK low \in Int32, c \in Int : /\ v = low + c * 4294967296
                                      /\ c = IF low < 0 THEN High(v) + 1 ELSE High(v)
  BY Halves
<1>7. low \in Int
  BY Int32Bounds
<1>8. IntAt(b, p + 4) = low
  <2>1. /\ (v \div 16777216) % 256 = (low \div 16777216) % 256
        /\ (v \div 65536) % 256 = (low \div 65536) % 256
        /\ (v \div 256) % 256 = (low \div 256) % 256
        /\ v % 256 = low % 256
    <3>1. /\ v \div 16777216 = (low \div 16777216) + c * 256
          /\ v \div 65536 = (low \div 65536) + c * 65536
          /\ v \div 256 = (low \div 256) + c * 16777216
      BY SMT, <1>6, <1>7
    <3>2. /\ ((low \div 16777216) + c * 256) % 256 = (low \div 16777216) % 256
          /\ ((low \div 65536) + c * 65536) % 256 = (low \div 65536) % 256
          /\ ((low \div 256) + c * 16777216) % 256 = (low \div 256) % 256
          /\ (low + c * 4294967296) % 256 = low % 256
      BY SMT, <1>7
    <3>3. QED
      BY SMT, <1>6, <3>1, <3>2
  <2>2. v \div 1 = v
    BY SMT, <1>1
  <2>3. /\ b[p + 4] = (low \div 16777216) % 256 /\ b[(p + 4) + 1] = (low \div 65536) % 256
        /\ b[(p + 4) + 2] = (low \div 256) % 256 /\ b[(p + 4) + 3] = low % 256
    <3>1. (p + 4) + 1 = p + 5 /\ (p + 4) + 2 = p + 6 /\ (p + 4) + 3 = p + 7
      OBVIOUS
    <3>2. QED
      BY SMT, <1>4, <2>1, <2>2, <3>1, ShiftedIs
  <2>4. p + 4 \in Nat
    OBVIOUS
  <2>5. QED
    BY SMT, <2>3, <2>4, FourBytes
<1>9. Join(High(v), low) = v
  BY SMT, <1>1, <1>6, <1>7 DEF Join
<1>10. QED
  BY <1>5, <1>8, <1>9

(* The bytes of the start flag, and that nothing else is read as it. *)
LEMMA FlagBytes ==
  /\ start_flag \in Int32
  /\ BigEndian(start_flag, 4)[1] = 18 /\ BigEndian(start_flag, 4)[2] = 52
  /\ BigEndian(start_flag, 4)[3] = 86 /\ BigEndian(start_flag, 4)[4] = 120
<1>1. start_flag \in Int /\ start_flag \in Int32
  BY SMT DEF start_flag, Int32, MaxInt
<1>2. /\ BigEndian(start_flag, 4)[1] = Shifted(start_flag, 3) % 256
      /\ BigEndian(start_flag, 4)[2] = Shifted(start_flag, 2) % 256
      /\ BigEndian(start_flag, 4)[3] = Shifted(start_flag, 1) % 256
      /\ BigEndian(start_flag, 4)[4] = Shifted(start_flag, 0) % 256
  BY SMT, <1>1, FourBytesAre
<1>3. /\ (305419896 \div 16777216) = 18 /\ (305419896 \div 65536) % 256 = 52
      /\ (305419896 \div 256) % 256 = 86 /\ (305419896 \div 1) % 256 = 120 /\ 18 % 256 = 18
  BY SMT
<1>4. QED
  BY SMT, <1>1, <1>2, <1>3, ShiftedIs, Powers DEF start_flag

(* The int 5, stored as it is, has the bytes of 0x05000000 in network order. *)
LEMMA FiveBytes ==
  /\ 5 * 256 ^ 3 \in Int32
  /\ BigEndian(5 * 256 ^ 3, 4) = LittleEndian(5)
<1>1. 5 * 256 ^ 3 = 83886080
  BY SMT, Powers
<1>2. 83886080 \in Int32 /\ 83886080 \in Int
  BY SMT DEF Int32, MaxInt
<1>3. PICK v : v = 83886080
  OBVIOUS
<1>4. ASSUME NEW k \in 1 .. 4
      PROVE  Shifted(v, 4 - k) % 256 = (5 \div 256 ^ (k - 1)) % 256
  <2>1. CASE k = 1
    <3>1. /\ (83886080 \div 16777216) % 256 = 5 /\ (5 \div 1) % 256 = 5
          /\ 4 - 1 = 3 /\ 1 - 1 = 0
      BY SMT
    <3>2. QED
      BY SMT, <1>3, <2>1, <3>1, ShiftedIs, Powers
  <2>2. CASE k = 2
    <3>1. /\ (83886080 \div 65536) % 256 = 0 /\ (5 \div 256) % 256 = 0
          /\ 4 - 2 = 2 /\ 2 - 1 = 1
      BY SMT
    <3>2. QED
      BY SMT, <1>3, <2>2, <3>1, ShiftedIs, Powers
  <2>3. CASE k = 3
    <3>1. /\ (83886080 \div 256) % 256 = 0 /\ (5 \div 65536) % 256 = 0
          /\ 4 - 3 = 1 /\ 3 - 1 = 2
      BY SMT
    <3>2. QED
      BY SMT, <1>3, <2>3, <3>1, ShiftedIs, Powers
  <2>4. CASE k = 4
    <3>1. /\ (83886080 \div 1) % 256 = 0 /\ (5 \div 16777216) % 256 = 0
          /\ 4 - 4 = 0 /\ 4 - 1 = 3
      BY SMT
    <3>2. QED
      BY SMT, <1>3, <2>4, <3>1, ShiftedIs, Powers
  <2>5. k = 1 \/ k = 2 \/ k = 3 \/ k = 4
    OBVIOUS
  <2>6. QED
    BY Zenon, <2>1, <2>2, <2>3, <2>4, <2>5
<1>5. BigEndian(v, 4) = LittleEndian(5)
  BY Zenon, <1>4 DEF BigEndian, LittleEndian
<1>6. QED
  BY SMT, <1>1, <1>2, <1>3, <1>5

LEMMA FlagIsRead ==
  ASSUME NEW b, NEW p \in Nat, b[p] \in Byte, b[p + 1] \in Byte, b[p + 2] \in Byte, b[p + 3] \in Byte,
         IntAt(b, p) = start_flag
  PROVE  b[p] = 18 /\ b[p + 1] = 52 /\ b[p + 2] = 86 /\ b[p + 3] = 120
<1> DEFINE x == b[p]
           y == b[p + 1]
           z == b[p + 2]
           u == b[p + 3]
<1>1. IntAt(b, p) = (IF x > 127 THEN x - 256 ELSE x) * 16777216 + y * 65536 + z * 256 + u
  BY SMT, Powers DEF IntAt
<1>2. /\ x \in Int /\ 0 <= x /\ x <= 255 /\ y \in Int /\ 0 <= y /\ y <= 255
      /\ z \in Int /\ 0 <= z /\ z <= 255 /\ u \in Int /\ 0 <= u /\ u <= 255
  BY SMT DEF Byte
<1> HIDE DEF x, y, z, u
<1>3. (IF x > 127 THEN x - 256 ELSE x) * 16777216 + y * 65536 + z * 256 + u = 305419896
  BY SMT, <1>1 DEF start_flag
<1>4. x = 18 /\ y = 52 /\ z = 86 /\ u = 120
  BY SMT, <1>2, <1>3
<1>5. QED
  BY <1>4 DEF x, y, z, u

(* What is read from bytes, and its sign and bound by its first byte. *)
LEMMA IntAtBounds ==
  ASSUME NEW b, NEW p \in Nat, b[p] \in Byte, b[p + 1] \in Byte, b[p + 2] \in Byte, b[p + 3] \in Byte
  PROVE  /\ IntAt(b, p) \in Int32
         /\ b[p] < 127 => 0 <= IntAt(b, p) /\ IntAt(b, p) <= MaxInt - 33
<1> DEFINE x == b[p]
           y == b[p + 1]
           z == b[p + 2]
           u == b[p + 3]
<1>1. IntAt(b, p) = (IF x > 127 THEN x - 256 ELSE x) * 16777216 + y * 65536 + z * 256 + u
  BY SMT, Powers DEF IntAt
<1>2. /\ x \in Int /\ 0 <= x /\ x <= 255 /\ y \in Int /\ 0 <= y /\ y <= 255
      /\ z \in Int /\ 0 <= z /\ z <= 255 /\ u \in Int /\ 0 <= u /\ u <= 255
  BY SMT DEF Byte
<1> HIDE DEF x, y, z, u
<1>3. /\ IntAt(b, p) \in Int /\ IntAt(b, p) >= -2147483648 /\ IntAt(b, p) <= 2147483647
      /\ x < 127 => 0 <= IntAt(b, p) /\ IntAt(b, p) <= MaxInt - 33
  BY SMT, <1>1, <1>2 DEF MaxInt
<1>4. QED
  BY SMT, <1>3 DEF Int32, MaxInt, x

-----------------------------------------------------------------------------
(* The packer. *)

(* The sequence f lies in s behind its first n elements. *)
At(s, n, f) == n + Len(f) <= Len(s) /\ \A k \in 1 .. Len(f) : s[n + k] = f[k]

LEMMA FunctionIsSeq ==
  ASSUME NEW n \in Nat, NEW f \in [1 .. n -> Byte]
  PROVE  f \in Seq(Byte) /\ Len(f) = n
  OBVIOUS

LEMMA Concat ==
  ASSUME NEW s \in Seq(Byte), NEW t \in Seq(Byte), NEW c, c = s \o t
  PROVE  /\ c \in Seq(Byte) /\ Len(c) = Len(s) + Len(t)
         /\ At(c, 0, s) /\ At(c, Len(s), t)
<1>1. c \in Seq(Byte) /\ Len(c) = Len(s) + Len(t)
  OBVIOUS
<1>2. \A k \in 1 .. Len(s) : c[0 + k] = s[k]
  OBVIOUS
<1>3. \A k \in 1 .. Len(t) : c[Len(s) + k] = t[k]
  OBVIOUS
<1>4. QED
  BY <1>1, <1>2, <1>3 DEF At

LEMMA Within ==
  ASSUME NEW s \in Seq(Byte), NEW t \in Seq(Byte), NEW f \in Seq(Byte), NEW n \in Nat, NEW m \in Nat,
         At(s, n, t), At(t, m, f)
  PROVE  At(s, n + m, f)
<1>1. Len(f) \in Nat /\ Len(t) \in Nat /\ Len(s) \in Nat
  OBVIOUS
<1>2. n + Len(t) <= Len(s) /\ m + Len(f) <= Len(t)
  BY DEF At
<1>3. (n + m) + Len(f) <= Len(s)
  BY <1>1, <1>2
<1>4. ASSUME NEW k \in 1 .. Len(f) PROVE s[(n + m) + k] = f[k]
  <2>1. t[m + k] = f[k]
    BY DEF At
  <2>2. m + k \in 1 .. Len(t)
    BY <1>1, <1>2
  <2>3. s[n + (m + k)] = t[m + k]
    BY <2>2 DEF At
  <2>4. n + (m + k) = (n + m) + k
    BY <1>1
  <2>5. QED
    BY <2>1, <2>3, <2>4
<1>5. QED
  BY <1>3, <1>4 DEF At

(* Where OnPduPack puts the fields of p. *)
Layout(s, p) ==
  /\ At(s, 0, BigEndian(start_flag, 4))
  /\ At(s, 5, LittleEndian(5))
  /\ At(s, 9, BigEndian(p.size, 4))
  /\ At(s, 13, SubSeq(BigEndian(p.presentationTimeUs, 8), 1, LongSize))
  /\ At(s, 13 + LongSize, BigEndian(p.flags, 4))
  /\ At(s, 17 + LongSize, BigEndian(p.reserved, 4))
  /\ At(s, 21 + LongSize, BigEndian(p.length, 4))
  /\ At(s, HeaderSize, p.body)

LEMMA PackLayout ==
  ASSUME NEW p, LongSize \in {4, 8}, p.pdu_type \in Byte, p.size \in Int32,
         p.presentationTimeUs \in Int64, p.flags \in Int32, p.reserved \in Int32,
         p.length \in Int32, p.body \in Seq(Byte)
  PROVE  /\ OnPduPack(p) \in Seq(Byte) /\ Len(OnPduPack(p)) = HeaderSize + Len(p.body)
         /\ Layout(OnPduPack(p), p)
<1> DEFINE f0 == BigEndian(start_flag, 4)
           f1 == <<p.pdu_type>>
           f2 == LittleEndian(5)
           f3 == BigEndian(p.size, 4)
           f4 == SubSeq(BigEndian(p.presentationTimeUs, 8), 1, LongSize)
           f5 == BigEndian(p.flags, 4)
           f6 == BigEndian(p.reserved, 4)
           f7 == BigEndian(p.length, 4)
           c1 == f0 \o f1
           c2 == c1 \o f2
           c3 == c2 \o f3
           c4 == c3 \o f4
           c5 == c4 \o f5
           c6 == c5 \o f6
           c7 == c6 \o f7
           c8 == c7 \o p.body
<1>1. OnPduPack(p) = c8
  BY DEF OnPduPack
<1>2. \A v \in Int32 : BigEndian(v, 4) \in Seq(Byte) /\ Len(BigEndian(v, 4)) = 4
  <2> TAKE v \in Int32
  <2>1. v \in Int
    BY Int32Bounds
  <2>2. QED
    BY Zenon, <2>1, FourBytesAre
<1>3. /\ f0 \in Seq(Byte) /\ Len(f0) = 4 /\ f3 \in Seq(Byte) /\ Len(f3) = 4
      /\ f5 \in Seq(Byte) /\ Len(f5) = 4 /\ f6 \in Seq(Byte) /\ Len(f6) = 4
      /\ f7 \in Seq(Byte) /\ Len(f7) = 4
  BY <1>2, FlagBytes
<1>4. f1 \in Seq(Byte) /\ Len(f1) = 1
  OBVIOUS
<1>5. f2 \in Seq(Byte) /\ Len(f2) = 4
  <2>1. ASSUME NEW k \in 1 .. 4 PROVE (5 \div 256 ^ (k - 1)) % 256 \in Byte
    <3>1. 256 ^ (k - 1) \in Nat \ {0}
      <4>1. k - 1 = 0 \/ k - 1 = 1 \/ k - 1 = 2 \/ k - 1 = 3
        OBVIOUS
      <4>2. /\ 256 ^ 0 \in Nat \ {0} /\ 256 ^ 1 \in Nat \ {0}
            /\ 256 ^ 2 \in Nat \ {0} /\ 256 ^ 3 \in Nat \ {0}
        BY SMT
      <4>3. QED
        BY Zenon, <4>1, <4>2
    <3>2. 5 \div 256 ^ (k - 1) \in Int
      <4>1. \A d \in Nat \ {0} : 5 \div d \in Int
        BY SMT
      <4>2. QED
        BY <3>1, <4>1
    <3>3. QED
      BY <3>2, TwoHundredFiftySix
  <2>2. f2 = [k \in 1 .. 4 |-> (5 \div 256 ^ (k - 1)) % 256]
    BY DEF LittleEndian
  <2>3. f2 \in [1 .. 4 -> Byte]
    BY Zenon, <2>1, <2>2
  <2>4. QED
    BY <2>3, FunctionIsSeq
<1>6. f4 \in Seq(Byte) /\ Len(f4) = LongSize
  <2>1. p.presentationTimeUs \in Int
    BY Int64IsInt
  <2>2. BigEndian(p.presentationTimeUs, 8) \in Seq(Byte) /\ Len(BigEndian(p.presentationTimeUs, 8)) = 8
    BY Zenon, <2>1, EightBytesAre
  <2>3. QED
    BY <2>2
<1> HIDE DEF f0, f1, f2, f3, f4, f5, f6, f7
<1> HIDE DEF c1, c2, c3, c4, c5, c6, c7, c8
<1>8. c1 \in Seq(Byte) /\ Len(c1) = 5 /\ At(c1, 0, f0) /\ At(c1, 4, f1)
  <2>1. c1 = f0 \o f1
    BY DEF c1
  <2>2. f0 \in Seq(Byte) /\ f1 \in Seq(Byte)
    BY <1>4, <1>3
  <2>3. c1 \in Seq(Byte) /\ Len(c1) = Len(f0) + Len(f1) /\ At(c1, 0, f0) /\ At(c1, Len(f0), f1)
    BY Zenon, <2>1, <2>2, Concat
  <2>4. QED
    BY <1>4, <1>3, <2>3
<1>9. c2 \in Seq(Byte) /\ Len(c2) = 9 /\ At(c2, 0, c1) /\ At(c2, 5, f2)
  <2>1. c2 = c1 \o f2
    BY DEF c2
  <2>2. c1 \in Seq(Byte) /\ f2 \in Seq(Byte)
    BY <1>5, <1>8
  <2>3. c2 \in Seq(Byte) /\ Len(c2) = Len(c1) + Len(f2) /\ At(c2, 0, c1) /\ At(c2, Len(c1), f2)
    BY Zenon, <2>1, <2>2, Concat
  <2>4. QED
    BY <1>5, <1>8, <2>3
<1>10. c3 \in Seq(Byte) /\ Len(c3) = 13 /\ At(c3, 0, c2) /\ At(c3, 9, f3)
  <2>1. c3 = c2 \o f3
    BY DEF c3
  <2>2. c2 \in Seq(Byte) /\ f3 \in Seq(Byte)
    BY <1>3, <1>9
  <2>3. c3 \in Seq(Byte) /\ Len(c3) = Len(c2) + Len(f3) /\ At(c3, 0, c2) /\ At(c3, Len(c2), f3)
    BY Zenon, <2>1, <2>2, Concat
  <2>4. QED
    BY <1>3, <1>9, <2>3
<1>11. c4 \in Seq(Byte) /\ Len(c4) = 13 + LongSize /\ At(c4, 0, c3) /\ At(c4, 13, f4)
  <2>1. c4 = c3 \o f4
    BY DEF c4
  <2>2. c3 \in Seq(Byte) /\ f4 \in Seq(Byte)
    BY <1>6, <1>10
  <2>3. c4 \in Seq(Byte) /\ Len(c4) = Len(c3) + Len(f4) /\ At(c4, 0, c3) /\ At(c4, Len(c3), f4)
    BY Zenon, <2>1, <2>2, Concat
  <2>4. QED
    BY <1>6, <1>10, <2>3
<1>12. c5 \in Seq(Byte) /\ Len(c5) = 17 + LongSize /\ At(c5, 0, c4) /\ At(c5, 13 + LongSize, f5)
  <2>1. c5 = c4 \o f5
    BY DEF c5
  <2>2. c4 \in Seq(Byte) /\ f5 \in Seq(Byte)
    BY <1>3, <1>11
  <2>3. c5 \in Seq(Byte) /\ Len(c5) = Len(c4) + Len(f5) /\ At(c5, 0, c4) /\ At(c5, Len(c4), f5)
    BY Zenon, <2>1, <2>2, Concat
  <2>4. QED
    BY <1>3, <1>11, <2>3
<1>13. c6 \in Seq(Byte) /\ Len(c6) = 21 + LongSize /\ At(c6, 0, c5) /\ At(c6, 17 + LongSize, f6)
  <2>1. c6 = c5 \o f6
    BY DEF c6
  <2>2. c5 \in Seq(Byte) /\ f6 \in Seq(Byte)
    BY <1>3, <1>12
  <2>3. c6 \in Seq(Byte) /\ Len(c6) = Len(c5) + Len(f6) /\ At(c6, 0, c5) /\ At(c6, Len(c5), f6)
    BY Zenon, <2>1, <2>2, Concat
  <2>4. QED
    BY <1>3, <1>12, <2>3
<1>14. c7 \in Seq(Byte) /\ Len(c7) = 25 + LongSize /\ At(c7, 0, c6) /\ At(c7, 21 + LongSize, f7)
  <2>1. c7 = c6 \o f7
    BY DEF c7
  <2>2. c6 \in Seq(Byte) /\ f7 \in Seq(Byte)
    BY <1>3, <1>13
  <2>3. c7 \in Seq(Byte) /\ Len(c7) = Len(c6) + Len(f7) /\ At(c7, 0, c6) /\ At(c7, Len(c6), f7)
    BY Zenon, <2>1, <2>2, Concat
  <2>4. QED
    BY <1>3, <1>13, <2>3
<1>15. c8 \in Seq(Byte) /\ Len(c8) = 25 + LongSize + Len(p.body) /\ At(c8, 0, c7) /\ At(c8, 25 + LongSize, p.body)
  <2>1. c8 = c7 \o p.body
    BY DEF c8
  <2>2. c7 \in Seq(Byte) /\ p.body \in Seq(Byte)
    BY <1>14
  <2>3. c8 \in Seq(Byte) /\ Len(c8) = Len(c7) + Len(p.body) /\ At(c8, 0, c7) /\ At(c8, Len(c7), p.body)
    BY Zenon, <2>1, <2>2, Concat
  <2>4. QED
    BY <1>14, <2>3
<1>16. \A n \in Nat : \A f, s, t \in Seq(Byte) : At(s, 0, t) /\ At(t, n, f) => At(s, n, f)
  <2> TAKE n \in Nat
  <2> TAKE f, s, t \in Seq(Byte)
  <2> HAVE At(s, 0, t) /\ At(t, n, f)
  <2>1. At(s, 0 + n, f)
    BY Within
  <2>2. 0 + n = n
    OBVIOUS
  <2>3. QED
    BY <2>1, <2>2
<1>17. 0 \in Nat /\ 5 \in Nat /\ 9 \in Nat /\ 13 \in Nat /\ 13 + LongSize \in Nat /\ 17 + LongSize \in Nat
       /\ 21 + LongSize \in Nat
  OBVIOUS
<1>18. At(c8, 0, c6) /\ At(c8, 21 + LongSize, f7)
  BY Zenon, <1>3, <1>13, <1>14, <1>15, <1>16, <1>17
<1>19. At(c8, 0, c5) /\ At(c8, 17 + LongSize, f6)
  BY Zenon, <1>3, <1>12, <1>13, <1>15, <1>16, <1>17, <1>18
<1>20. At(c8, 0, c4) /\ At(c8, 13 + LongSize, f5)
  BY Zenon, <1>3, <1>11, <1>12, <1>15, <1>16, <1>17, <1>19
<1>21. At(c8, 0, c3) /\ At(c8, 13, f4)
  BY Zenon, <1>6, <1>10, <1>11, <1>15, <1>16, <1>17, <1>20
<1>22. At(c8, 0, c2) /\ At(c8, 9, f3)
  BY Zenon, <1>3, <1>9, <1>10, <1>15, <1>16, <1>17, <1>21
<1>23. At(c8, 0, c1) /\ At(c8, 5, f2)
  BY Zenon, <1>5, <1>8, <1>9, <1>15, <1>16, <1>17, <1>22
<1>24. At(c8, 0, f0)
  BY Zenon, <1>3, <1>8, <1>15, <1>16, <1>17, <1>23
<1>25. QED
  <2>1. 25 + LongSize = HeaderSize
    BY DEF HeaderSize
  <2>2. QED
    BY Zenon, <1>1, <1>15, <1>18, <1>19, <1>20, <1>21, <1>22, <1>23, <1>24, <2>1
       DEF Layout, f0, f2, f3, f4, f5, f6, f7

-----------------------------------------------------------------------------
(* The stream and the buffer. *)

LEMMA PduTypes ==
  ASSUME header \in Headers, NEW i \in 1 .. 2
  PROVE  /\ Pdu(i).pdu_type \in Byte /\ Pdu(i).size \in Int32 /\ Pdu(i).flags \in Int32
         /\ Pdu(i).reserved \in Int32 /\ Pdu(i).presentationTimeUs \in Int64
         /\ Pdu(i).body = Bodies[i] /\ Bodies[i] \in Seq(Byte)
         /\ Pdu(i).length = Len(Bodies[i]) /\ Len(Bodies[i]) \in Int32
         /\ Len(Bodies[i]) \in Nat /\ Len(Bodies[i]) < MaxBody
<1>1. /\ Pdu(i).pdu_type = header.pdu_type /\ Pdu(i).size = header.size
      /\ Pdu(i).flags = header.flags /\ Pdu(i).reserved = header.reserved
      /\ Pdu(i).presentationTimeUs = header.presentationTimeUs
      /\ Pdu(i).body = Bodies[i] /\ Pdu(i).length = Len(Bodies[i])
  BY Zenon DEF Pdu
<1>2. /\ header.pdu_type \in Byte /\ header.size \in Int32 /\ header.flags \in Int32
      /\ header.reserved \in Int32 /\ header.presentationTimeUs \in Int64
  BY Zenon, CodecAssumption
<1>3. Bodies[i] \in Seq(Byte) /\ Len(Bodies[i]) < MaxBody
  BY Zenon, CodecAssumption
<1>4. Len(Bodies[i]) \in Nat
  BY <1>3
<1>5. Len(Bodies[i]) \in Int32
  BY SMT, <1>3, <1>4, Powers DEF Int32, MaxInt, MaxBody
<1>6. QED
  BY Zenon, <1>1, <1>2, <1>3, <1>4, <1>5

LEMMA StartIs ==
  ASSUME LongSize \in {4, 8}, header \in Headers
  PROVE  /\ HeaderSize \in Nat /\ HeaderSize = 25 + LongSize
         /\ Start[1] = 0 /\ Start[2] = HeaderSize + Len(Bodies[1])
         /\ Start[3] = Start[2] + (HeaderSize + Len(Bodies[2]))
         /\ \A i \in 1 .. 3 : Start[i] \in Nat
         /\ \A i \in 1 .. 2 : Start[i + 1] = Start[i] + (HeaderSize + Len(Bodies[i])) /\ Start[i + 1] <= Start[3]
<1>1. HeaderSize \in Nat /\ HeaderSize = 25 + LongSize
  BY DEF HeaderSize
<1>2. Len(Bodies[1]) \in Nat /\ Len(Bodies[2]) \in Nat
  <2>1. 1 \in 1 .. 2 /\ 2 \in 1 .. 2
    OBVIOUS
  <2>2. QED
    BY Zenon, <2>1, PduTypes
<1>3. Start[1] = 0 /\ Start[2] = HeaderSize + Len(Bodies[1])
      /\ Start[3] = 2 * HeaderSize + Len(Bodies[1]) + Len(Bodies[2])
  BY DEF Start
<1> DEFINE a == Len(Bodies[1])
           b == Len(Bodies[2])
           h == HeaderSize
           s == Start
<1>4. /\ h \in Nat /\ a \in Nat /\ b \in Nat
       /\ s[1] = 0 /\ s[2] = h + a /\ s[3] = 2 * h + a + b
  BY Zenon, <1>1, <1>2, <1>3
<1> HIDE DEF a, b, h, s
<1>5. /\ s[3] = s[2] + (h + b) /\ s[2] = s[1] + (h + a)
       /\ s[1] \in Nat /\ s[2] \in Nat /\ s[3] \in Nat /\ s[2] <= s[3]
  BY <1>4
<1>6. /\ Start[3] = Start[2] + (HeaderSize + Len(Bodies[2])) /\ Start[2] = Start[1] + (HeaderSize + Len(Bodies[1]))
      /\ Start[1] \in Nat /\ Start[2] \in Nat /\ Start[3] \in Nat /\ Start[2] <= Start[3]
  BY Zenon, <1>5 DEF a, b, h, s
<1>7. \A i \in 1 .. 3 : Start[i] \in Nat
  <2>1. \A i \in 1 .. 3 : i = 1 \/ i = 2 \/ i = 3
    OBVIOUS
  <2>2. QED
    BY Zenon, <1>6, <2>1
<1>8. \A i \in 1 .. 2 : Start[i + 1] = Start[i] + (HeaderSize + Len(Bodies[i])) /\ Start[i + 1] <= Start[3]
  <2>1. (\A i \in 1 .. 2 : i = 1 \/ i = 2) /\ 1 + 1 = 2 /\ 2 + 1 = 3
    OBVIOUS
  <2>2. Start[3] <= Start[3]
    BY <1>6
  <2>3. QED
    BY Zenon, <1>6, <2>1, <2>2
<1>9. QED
  BY <1>1, <1>3, <1>6, <1>7, <1>8

LEMMA PduLayout ==
  ASSUME LongSize \in {4, 8}, header \in Headers, NEW i \in 1 .. 2
  PROVE  /\ OnPduPack(Pdu(i)) \in Seq(Byte)
         /\ Len(OnPduPack(Pdu(i))) = HeaderSize + Len(Bodies[i])
         /\ Layout(OnPduPack(Pdu(i)), Pdu(i))
<1>1. /\ Pdu(i).pdu_type \in Byte /\ Pdu(i).size \in Int32 /\ Pdu(i).flags \in Int32
      /\ Pdu(i).reserved \in Int32 /\ Pdu(i).presentationTimeUs \in Int64
      /\ Pdu(i).body = Bodies[i] /\ Bodies[i] \in Seq(Byte)
      /\ Pdu(i).length \in Int32
  BY Zenon, PduTypes
<1>2. PICK p : p = Pdu(i)
  BY Zenon
<1>3. /\ p.pdu_type \in Byte /\ p.size \in Int32 /\ p.flags \in Int32
      /\ p.reserved \in Int32 /\ p.presentationTimeUs \in Int64
      /\ p.body = Bodies[i] /\ p.body \in Seq(Byte) /\ p.length \in Int32
  BY Zenon, <1>1, <1>2
<1>4. /\ OnPduPack(p) \in Seq(Byte) /\ Len(OnPduPack(p)) = HeaderSize + Len(p.body)
      /\ Layout(OnPduPack(p), p)
  BY SMT, <1>3, PackLayout
<1>5. QED
  BY Zenon, <1>2, <1>3, <1>4

(* The PDUs lie in the stream back to back. *)
LEMMA StreamLayout ==
  ASSUME LongSize \in {4, 8}, header \in Headers
  PROVE  /\ Stream \in Seq(Byte) /\ Len(Stream) = Start[3]
         /\ \A i \in 1 .. 2 : /\ OnPduPack(Pdu(i)) \in Seq(Byte)
                              /\ Len(OnPduPack(Pdu(i))) = HeaderSize + Len(Bodies[i])
                              /\ At(Stream, Start[i], OnPduPack(Pdu(i)))
<1>1. \A i \in 1 .. 2 : /\ OnPduPack(Pdu(i)) \in Seq(Byte)
                        /\ Len(OnPduPack(Pdu(i))) = HeaderSize + Len(Bodies[i])
  BY Zenon, PduLayout
<1> DEFINE s == OnPduPack(Pdu(1))
           t == OnPduPack(Pdu(2))
<1>2. Stream = s \o t
  BY DEF Stream
<1>3. /\ s \in Seq(Byte) /\ Len(s) = HeaderSize + Len(Bodies[1])
      /\ t \in Seq(Byte) /\ Len(t) = HeaderSize + Len(Bodies[2])
  <2>1. 1 \in 1 .. 2 /\ 2 \in 1 .. 2
    OBVIOUS
  <2>2. QED
    BY Zenon, <1>1, <2>1
<1> HIDE DEF s, t
<1>4. /\ Stream \in Seq(Byte) /\ Len(Stream) = Len(s) + Len(t)
      /\ At(Stream, 0, s) /\ At(Stream, Len(s), t)
  BY Zenon, <1>2, <1>3, Concat
<1>5. /\ Start[1] = 0 /\ Start[2] = HeaderSize + Len(Bodies[1])
      /\ Start[3] = Start[2] + (HeaderSize + Len(Bodies[2]))
  BY StartIs
<1>6. Len(Stream) = Start[3] /\ At(Stream, Start[1], s) /\ At(Stream, Start[2], t)
  BY Zenon, <1>3, <1>4, <1>5
<1>7. \A i \in 1 .. 2 : i = 1 \/ i = 2
  OBVIOUS
<1>8. \A i \in 1 .. 2 : At(Stream, Start[i], OnPduPack(Pdu(i)))
  BY Zenon, <1>6, <1>7 DEF s, t
<1>9. QED
  BY Zenon, <1>1, <1>4, <1>6, <1>8

Setting ==
  /\ LongSize \in {4, 8}
  /\ header \in Headers
  /\ LongSize = 4 => header.presentationTimeUs \in Int32
  /\ lo \in 0 .. Start[3]
  /\ hi \in lo .. Start[3]
  /\ Memory

LEMMA LoHi ==
  ASSUME Setting
  PROVE  /\ lo \in Nat /\ hi \in Nat /\ lo <= hi /\ hi <= Start[3] /\ Start[3] \in Nat
         /\ HeaderSize \in Nat /\ HeaderSize = 25 + LongSize /\ LongSize \in {4, 8} /\ header \in Headers
<1>1. /\ HeaderSize \in Nat /\ HeaderSize = 25 + LongSize /\ Start[3] \in Nat /\ LongSize \in {4, 8}
      /\ header \in Headers
  <2>1. 3 \in 1 .. 3
    OBVIOUS
  <2>2. QED
    BY Zenon, StartIs, <2>1 DEF Setting
<1>2. lo \in 0 .. Start[3] /\ hi \in lo .. Start[3]
  BY Zenon DEF Setting
<1>3. QED
  BY <1>1, <1>2

(* What the buffer holds. *)
LEMMA BufferIs ==
  ASSUME Setting
  PROVE  /\ \A k \in 1 .. hi - lo : Buffer[k] = Stream[lo + k]
         /\ \A k \in 1 .. HeaderSize : k > hi - lo => Buffer[k] = old[k]
         /\ \A k \in 1 .. HeaderSize + hi - lo : Buffer[k] \in Byte
         /\ Buffer = [k \in 1 .. HeaderSize + hi - lo |-> Buffer[k]]
<1>1. /\ lo \in Nat /\ hi \in Nat /\ lo <= hi /\ hi <= Start[3] /\ Start[3] \in Nat
      /\ HeaderSize \in Nat /\ HeaderSize = 25 + LongSize /\ LongSize \in {4, 8} /\ header \in Headers
  BY LoHi
<1>2. \A k \in 1 .. HeaderSize + hi - lo :
        Buffer[k] = IF k <= hi - lo THEN Stream[lo + k] ELSE IF k <= HeaderSize THEN old[k] ELSE 0
  BY Zenon DEF Buffer
<1>3. Buffer = [k \in 1 .. HeaderSize + hi - lo |-> Buffer[k]]
  BY DEF Buffer
<1>4. \A k \in 1 .. hi - lo : k \in 1 .. HeaderSize + hi - lo /\ k <= hi - lo /\ lo + k \in 1 .. Start[3]
  BY <1>1
<1>5. \A k \in 1 .. HeaderSize : k > hi - lo => k \in 1 .. HeaderSize + hi - lo /\ ~(k <= hi - lo) /\ k <= HeaderSize
  BY <1>1
<1>6. /\ \A k \in 1 .. hi - lo : Buffer[k] = Stream[lo + k]
      /\ \A k \in 1 .. HeaderSize : k > hi - lo => Buffer[k] = old[k]
  BY Zenon, <1>2, <1>4, <1>5
<1>7. \A q \in 1 .. Start[3] : Stream[q] \in Byte
  <2>1. Stream \in Seq(Byte) /\ Len(Stream) = Start[3]
    BY <1>1, StreamLayout
  <2>2. QED
    BY <2>1
<1>8. \A k \in 1 .. HeaderSize : old[k] \in Byte
  <2>1. \A k \in 1 .. HeaderSize : k \in 1 .. 33
    BY <1>1
  <2>2. 0 \in Byte
    BY DEF Byte
  <2>3. \A k \in 1 .. HeaderSize : k \in 1 .. Start[3]
    <3>1. Start[3] = (HeaderSize + Len(Bodies[1])) + (HeaderSize + Len(Bodies[2]))
      BY Zenon, <1>1, StartIs
    <3>2. Len(Bodies[1]) \in Nat /\ Len(Bodies[2]) \in Nat
      <4>1. 1 \in 1 .. 2 /\ 2 \in 1 .. 2
        OBVIOUS
      <4>2. QED
        BY Zenon, <1>1, <4>1, PduTypes
    <3>3. ASSUME NEW h \in Nat, NEW a \in Nat, NEW b \in Nat
          PROVE  \A k \in 1 .. h : k \in 1 .. (h + a) + (h + b)
      OBVIOUS
    <3>4. QED
      BY Zenon, <1>1, <3>1, <3>2, <3>3
  <2>4. CASE old = [k \in 1 .. 33 |-> 0]
    BY Zenon, <2>1, <2>2, <2>4
  <2>5. CASE old = [k \in 1 .. 33 |-> IF k <= HeaderSize THEN Stream[k] ELSE 0]
    BY Zenon, <2>1, <2>2, <2>3, <2>5, <1>7
  <2>6. CASE old \in Junk
    <3>1. old \in [1 .. 33 -> Byte]
      BY Zenon, <2>6, CodecAssumption
    <3>2. QED
      BY Zenon, <2>1, <3>1
  <2>7. QED
    BY Zenon, <2>4, <2>5, <2>6 DEF Setting, Memory
<1>9. \A k \in 1 .. HeaderSize + hi - lo : Buffer[k] \in Byte
  <2> TAKE k \in 1 .. HeaderSize + hi - lo
  <2>1. CASE k <= hi - lo
    <3>1. k \in 1 .. hi - lo
      BY <1>1, <2>1
    <3>2. QED
      BY Zenon, <1>4, <1>6, <1>7, <3>1
  <2>2. CASE ~(k <= hi - lo) /\ k <= HeaderSize
    <3>1. k \in 1 .. HeaderSize
      BY <1>1, <2>2
    <3>2. QED
      BY Zenon, <1>2, <1>8, <2>2, <3>1
  <2>3. CASE ~(k <= hi - lo) /\ ~(k <= HeaderSize)
    <3>1. 0 \in Byte
      BY DEF Byte
    <3>2. QED
      BY Zenon, <1>2, <2>3, <3>1
  <2>4. QED
    BY Zenon, <2>1, <2>2, <2>3
<1>10. QED
  BY Zenon, <1>3, <1>6, <1>9

(* A field of PDU i that is in the buffer lies there as it was packed. *)
LEMMA FieldInBuffer ==
  ASSUME Setting, NEW i \in 1 .. 2, lo = Start[i], NEW m \in Nat, NEW f \in Seq(Byte),
         At(OnPduPack(Pdu(i)), m, f), m + Len(f) <= hi - lo
  PROVE  \A k \in 1 .. Len(f) : /\ Stream[lo + (m + k)] = f[k]
                                /\ Buffer[m + k] = f[k] /\ Buffer[(m + 1) + (k - 1)] = f[k]
<1>1. /\ lo \in Nat /\ hi \in Nat /\ LongSize \in {4, 8} /\ header \in Headers
  BY Zenon, LoHi
<1>2. /\ Stream \in Seq(Byte) /\ OnPduPack(Pdu(i)) \in Seq(Byte) /\ At(Stream, lo, OnPduPack(Pdu(i)))
  BY Zenon, <1>1, StreamLayout
<1>3. At(Stream, lo + m, f)
  BY Zenon, <1>1, <1>2, Within
<1>4. \A k \in 1 .. Len(f) : Stream[(lo + m) + k] = f[k]
  BY Zenon, <1>3 DEF At
<1>5. Len(f) \in Nat
  OBVIOUS
<1>6. ASSUME NEW k \in 1 .. Len(f)
      PROVE  /\ Stream[lo + (m + k)] = f[k]
             /\ Buffer[m + k] = f[k] /\ Buffer[(m + 1) + (k - 1)] = f[k]
  <2>1. m + k \in 1 .. hi - lo
    BY <1>1, <1>5
  <2>2. Buffer[m + k] = Stream[lo + (m + k)]
    BY Zenon, <2>1, BufferIs
  <2>3. (lo + m) + k = lo + (m + k) /\ (m + 1) + (k - 1) = m + k
    BY <1>1, <1>5
  <2>4. QED
    BY Zenon, <1>4, <2>2, <2>3
<1>7. QED
  BY Zenon, <1>6

LEMMA IntInBuffer ==
  ASSUME Setting, NEW i \in 1 .. 2, lo = Start[i], NEW m \in Nat, NEW v \in Int32,
         At(OnPduPack(Pdu(i)), m, BigEndian(v, 4)), m + 4 <= hi - lo
  PROVE  IntAt(Buffer, m + 1) = v
<1>1. BigEndian(v, 4) \in Seq(Byte) /\ Len(BigEndian(v, 4)) = 4
  <2>1. v \in Int
    BY Int32Bounds
  <2>2. QED
    BY Zenon, <2>1, FourBytesAre
<1>2. \A k \in 1 .. 4 : Buffer[(m + 1) + (k - 1)] = BigEndian(v, 4)[k]
  <2> DEFINE f == BigEndian(v, 4)
  <2>1. f \in Seq(Byte) /\ Len(f) = 4 /\ At(OnPduPack(Pdu(i)), m, f)
    BY Zenon, <1>1
  <2> HIDE DEF f
  <2>2. m + Len(f) <= hi - lo
    BY Zenon, <2>1
  <2>3. \A k \in 1 .. Len(f) : Buffer[(m + 1) + (k - 1)] = f[k]
    BY Zenon, <2>1, <2>2, FieldInBuffer
  <2>4. QED
    BY Zenon, <2>1, <2>3 DEF f
<1>3. m + 1 \in Nat
  OBVIOUS
<1>4. QED
  BY Zenon, <1>2, <1>3, IntBytes

(* What is left of a time stamp. *)
TimeLeft(v) == IF LongSize = 8 THEN v ELSE IF v < 0 THEN -1 ELSE 0

(* The header fields and the body of PDU i, as far as they are in the buffer. *)
LEMMA PduInBuffer ==
  ASSUME Setting, NEW i \in 1 .. 2, lo = Start[i], hi - lo >= 4
  PROVE  /\ IntAt(Buffer, 1) = start_flag
         /\ hi - lo >= HeaderSize => /\ IntAt(Buffer, HeaderSize - 3) = Len(Bodies[i])
                                     /\ IntAt(Buffer, 6) = 5 * 256 ^ 3
                                     /\ IntAt(Buffer, 10) = Pdu(i).size
                                     /\ IntAt(Buffer, 14 + LongSize) = Pdu(i).flags
                                     /\ IntAt(Buffer, 18 + LongSize) = Pdu(i).reserved
                                     /\ LongAt(Buffer, 14) = TimeLeft(Pdu(i).presentationTimeUs)
         /\ hi - lo >= HeaderSize + Len(Bodies[i]) =>
              SubSeq(Buffer, HeaderSize + 1, HeaderSize + Len(Bodies[i])) = Bodies[i]
<1>1. /\ lo \in Nat /\ hi \in Nat /\ LongSize \in {4, 8} /\ header \in Headers
      /\ HeaderSize \in Nat /\ HeaderSize = 25 + LongSize
  BY Zenon, LoHi
<1>2. /\ Pdu(i).pdu_type \in Byte /\ Pdu(i).size \in Int32 /\ Pdu(i).flags \in Int32
      /\ Pdu(i).reserved \in Int32 /\ Pdu(i).presentationTimeUs \in Int64
      /\ Pdu(i).body = Bodies[i] /\ Bodies[i] \in Seq(Byte)
      /\ Pdu(i).length \in Int32 /\ Pdu(i).length = Len(Bodies[i])
  BY Zenon, <1>1, PduTypes
<1> DEFINE s == OnPduPack(Pdu(i))
<1>3. /\ At(s, 0, BigEndian(start_flag, 4))
      /\ At(s, 5, LittleEndian(5))
      /\ At(s, 9, BigEndian(Pdu(i).size, 4))
      /\ At(s, 13, SubSeq(BigEndian(Pdu(i).presentationTimeUs, 8), 1, LongSize))
      /\ At(s, 13 + LongSize, BigEndian(Pdu(i).flags, 4))
      /\ At(s, 17 + LongSize, BigEndian(Pdu(i).reserved, 4))
      /\ At(s, 21 + LongSize, BigEndian(Len(Bodies[i]), 4))
      /\ At(s, HeaderSize, Bodies[i])
  BY Zenon, <1>1, <1>2, PduLayout DEF Layout
<1> HIDE DEF s
<1>4. /\ 0 + 1 = 1 /\ 5 + 1 = 6 /\ 9 + 1 = 10 /\ (13 + LongSize) + 1 = 14 + LongSize
      /\ (17 + LongSize) + 1 = 18 + LongSize /\ (21 + LongSize) + 1 = HeaderSize - 3
      /\ 13 + LongSize \in Nat /\ 17 + LongSize \in Nat /\ 21 + LongSize \in Nat
      /\ 5 \in Nat /\ 0 + 4 <= hi - lo
  BY <1>1
<1>5. IntAt(Buffer, 1) = start_flag
  <2>1. At(OnPduPack(Pdu(i)), 0, BigEndian(start_flag, 4)) /\ 0 \in Nat
    BY <1>3 DEF s
  <2>2. start_flag \in Int32
    BY FlagBytes
  <2>3. IntAt(Buffer, 0 + 1) = start_flag
    BY Zenon, <1>4, <2>1, <2>2, IntInBuffer
  <2>4. QED
    BY Zenon, <1>4, <2>3
<1>6. ASSUME hi - lo >= HeaderSize
      PROVE  /\ IntAt(Buffer, HeaderSize - 3) = Len(Bodies[i])
             /\ IntAt(Buffer, 6) = 5 * 256 ^ 3
             /\ IntAt(Buffer, 10) = Pdu(i).size
             /\ IntAt(Buffer, 14 + LongSize) = Pdu(i).flags
             /\ IntAt(Buffer, 18 + LongSize) = Pdu(i).reserved
             /\ LongAt(Buffer, 14) = TimeLeft(Pdu(i).presentationTimeUs)
  <2>1. /\ 5 + 4 <= hi - lo /\ 9 + 4 <= hi - lo /\ (13 + LongSize) + 4 <= hi - lo
        /\ (17 + LongSize) + 4 <= hi - lo /\ (21 + LongSize) + 4 <= hi - lo
        /\ 13 + LongSize <= hi - lo
    BY <1>1, <1>6
  <2>2. IntAt(Buffer, 9 + 1) = Pdu(i).size
    <3>1. At(OnPduPack(Pdu(i)), 9, BigEndian(Pdu(i).size, 4)) /\ 9 \in Nat
      BY <1>3 DEF s
    <3>2. QED
      BY Zenon, <1>2, <2>1, <3>1, IntInBuffer
  <2>3. IntAt(Buffer, (13 + LongSize) + 1) = Pdu(i).flags
    BY Zenon, <1>2, <1>3, <1>4, <2>1, IntInBuffer DEF s
  <2>4. IntAt(Buffer, (17 + LongSize) + 1) = Pdu(i).reserved
    BY Zenon, <1>2, <1>3, <1>4, <2>1, IntInBuffer DEF s
  <2>5. IntAt(Buffer, (21 + LongSize) + 1) = Len(Bodies[i])
    <3>1. Len(Bodies[i]) \in Int32
      BY Zenon, <1>2
    <3>2. QED
      BY Zenon, <1>3, <1>4, <2>1, <3>1, IntInBuffer DEF s
  <2>6. LongAt(Buffer, 14) = TimeLeft(Pdu(i).presentationTimeUs)
    <3> DEFINE v == Pdu(i).presentationTimeUs
               f == SubSeq(BigEndian(v, 8), 1, LongSize)
    <3>1. v \in Int64 /\ v \in Int /\ 13 \in Nat
      BY Zenon, <1>2, Int64IsInt
    <3>2. LongSize = 4 => v \in Int32
      BY Zenon DEF Setting, Pdu
    <3>3. At(OnPduPack(Pdu(i)), 13, f)
      BY Zenon, <1>3 DEF s
    <3> HIDE DEF v
    <3>4. /\ BigEndian(v, 8) \in Seq(Byte) /\ Len(BigEndian(v, 8)) = 8
          /\ \A k \in 1 .. 8 : BigEndian(v, 8)[k] = Shifted(v, 8 - k) % 256
      BY Zenon, <3>1, EightBytesAre
    <3>5. f \in Seq(Byte) /\ Len(f) = LongSize /\ \A k \in 1 .. LongSize : f[k] = BigEndian(v, 8)[k]
      BY <1>1, <3>4
    <3> HIDE DEF f
    <3>6. \A k \in 1 .. LongSize : Buffer[14 + (k - 1)] = BigEndian(v, 8)[k]
      <4>1. 13 + Len(f) <= hi - lo /\ f \in Seq(Byte)
        BY Zenon, <2>1, <3>5
      <4>2. \A k \in 1 .. Len(f) : Buffer[(13 + 1) + (k - 1)] = f[k]
        BY Zenon, <3>1, <3>3, <4>1, FieldInBuffer
      <4>3. 13 + 1 = 14
        OBVIOUS
      <4>4. QED
        BY Zenon, <3>5, <4>2, <4>3
    <3>7. CASE LongSize = 8
      <4>1. \A k \in 1 .. 8 : Buffer[14 + (k - 1)] = BigEndian(v, 8)[k]
        BY Zenon, <3>6, <3>7
      <4>2. 14 \in Nat
        OBVIOUS
      <4>3. Join(IntAt(Buffer, 14), IntAt(Buffer, 14 + 4)) = v
        BY Zenon, <3>1, <4>1, <4>2, LongBytes
      <4>4. LongAt(Buffer, 14) = Join(IntAt(Buffer, 14), IntAt(Buffer, 14 + 4))
        BY Zenon, <3>7 DEF LongAt
      <4>5. QED
        BY Zenon, <3>7, <4>3, <4>4 DEF TimeLeft, v
    <3>8. CASE LongSize = 4
      <4>1. Buffer[14 + 3] = Shifted(v, 4) % 256
        <5>1. 4 \in 1 .. LongSize /\ 14 + (4 - 1) = 14 + 3 /\ 4 \in 1 .. 8 /\ 8 - 4 = 4
          BY <3>8
        <5>2. Buffer[14 + (4 - 1)] = BigEndian(v, 8)[4]
          BY Zenon, <3>6, <5>1
        <5>3. BigEndian(v, 8)[4] = Shifted(v, 8 - 4) % 256
          BY Zenon, <3>4, <5>1
        <5>4. QED
          BY SMT, <5>1, <5>2, <5>3
      <4>2. Shifted(v, 4) % 256 = IF v < 0 THEN 255 ELSE 0
        <5>1. High(v) = IF v < 0 THEN -1 ELSE 0
          BY Zenon, <3>2, <3>8, High32
        <5>2. PICK h \in Int : h = High(v)
          BY SMT, <3>1, <5>1
        <5>3. Shifted(v, 4) = h
          <6>1. h \div 1 = h
            BY SMT
          <6>2. QED
            BY SMT, <5>2, <6>1, ShiftedIs
        <5>4. /\ h = -1 => h % 256 = 255
              /\ h = 0 => h % 256 = 0
          BY SMT
        <5>5. QED
          BY SMT, <5>1, <5>2, <5>3, <5>4
      <4>3. Buffer[14 + 3] > 127 <=> v < 0
        BY <3>1, <4>1, <4>2
      <4>4. LongSize # 8
        BY <3>8
      <4>5. QED
        BY Zenon, <4>3, <4>4 DEF LongAt, TimeLeft, v
    <3>9. QED
      BY Zenon, <1>1, <3>7, <3>8
  <2>7. IntAt(Buffer, 5 + 1) = 5 * 256 ^ 3
    <3>1. PICK o : o = 5 * 256 ^ 3
      BY Zenon
    <3>2. o \in Int32 /\ At(OnPduPack(Pdu(i)), 5, BigEndian(o, 4)) /\ 5 \in Nat
      BY Zenon, <1>3, <1>4, <3>1, FiveBytes DEF s
    <3>3. QED
      BY Zenon, <2>1, <3>1, <3>2, IntInBuffer
  <2>8. QED
    BY Zenon, <1>4, <2>2, <2>3, <2>4, <2>5, <2>6, <2>7
<1>7. ASSUME hi - lo >= HeaderSize + Len(Bodies[i])
      PROVE  SubSeq(Buffer, HeaderSize + 1, HeaderSize + Len(Bodies[i])) = Bodies[i]
  <2> DEFINE f == Bodies[i]
             t == SubSeq(Buffer, HeaderSize + 1, HeaderSize + Len(f))
  <2>1. f \in Seq(Byte) /\ At(OnPduPack(Pdu(i)), HeaderSize, f) /\ HeaderSize + Len(f) <= hi - lo
    <3>1. Len(f) \in Nat
      BY <1>2
    <3>2. HeaderSize + Len(f) <= hi - lo
      BY <1>1, <1>7, <3>1
    <3>3. QED
      BY Zenon, <1>2, <1>3, <3>2 DEF s
  <2> HIDE DEF f
  <2>2. \A k \in 1 .. Len(f) : Buffer[HeaderSize + k] = f[k]
    BY Zenon, <1>1, <2>1, FieldInBuffer
  <2>3. Len(f) \in Nat
    BY <2>1
  <2>4. \A q \in HeaderSize + 1 .. HeaderSize + Len(f) : Buffer[q] \in Byte
    <3>1. \A q \in HeaderSize + 1 .. HeaderSize + Len(f) : q \in 1 .. HeaderSize + hi - lo
      BY <1>1, <2>1, <2>3
    <3>2. QED
      BY Zenon, <3>1, BufferIs
  <2>5. HeaderSize + 1 \in Int /\ HeaderSize + Len(f) \in Int
    BY <1>1, <2>3
  <2>6. /\ t \in Seq(Byte)
        /\ Len(t) = IF HeaderSize + 1 <= HeaderSize + Len(f)
                    THEN (HeaderSize + Len(f)) - (HeaderSize + 1) + 1 ELSE 0
        /\ \A k \in 1 .. (HeaderSize + Len(f)) - (HeaderSize + 1) + 1 : t[k] = Buffer[(HeaderSize + 1) + k - 1]
    BY <2>4, <2>5, SubSeqProperties
  <2> HIDE DEF t
  <2>7. Len(t) = Len(f)
    BY <1>1, <2>3, <2>6
  <2>8. ASSUME NEW k \in 1 .. Len(t) PROVE t[k] = f[k]
    <3>1. /\ k \in 1 .. (HeaderSize + Len(f)) - (HeaderSize + 1) + 1
          /\ (HeaderSize + 1) + k - 1 = HeaderSize + k /\ k \in 1 .. Len(f)
      BY <1>1, <2>3, <2>7
    <3>2. QED
      BY Zenon, <2>2, <2>6, <3>1
  <2>9. t = f
    BY Zenon, <2>1, <2>6, <2>7, <2>8, SeqEqual
  <2>10. QED
    BY Zenon, <2>9 DEF t, f
<1>8. QED
  BY Zenon, <1>5, <1>6, <1>7

-----------------------------------------------------------------------------
(* The parser. *)

(* The first byte of a length field is that of a length below MaxBody. *)
LEMMA LengthByte ==
  ASSUME LongSize \in {4, 8}, header \in Headers, NEW i \in 1 .. 2
  PROVE  /\ Stream[Start[i] + (HeaderSize - 3)] \in Int
         /\ Stream[Start[i] + (HeaderSize - 3)] < 127
<1> DEFINE n == Len(Bodies[i])
           f == BigEndian(n, 4)
           s == OnPduPack(Pdu(i))
<1>1. n \in Nat /\ n \in Int32 /\ n < MaxBody /\ n \in Int /\ Pdu(i).length = n
  <2>1. n \in Nat /\ n \in Int32 /\ n < MaxBody /\ Pdu(i).length = n
    BY Zenon, PduTypes
  <2>2. QED
    BY <2>1
<1>2. /\ HeaderSize \in Nat /\ HeaderSize = 25 + LongSize /\ Start[i] \in Nat
  <2>1. i \in 1 .. 3
    OBVIOUS
  <2>2. QED
    BY Zenon, <2>1, StartIs
<1> HIDE DEF n
<1>3. Shifted(n, 4 - 1) % 256 \in Int /\ Shifted(n, 4 - 1) % 256 < 127
  <2>1. n < 2130706432
    BY SMT, <1>1, Powers DEF MaxBody
  <2>2. (n \div 16777216) % 256 \in Int /\ (n \div 16777216) % 256 < 127
    BY SMT, <1>1, <2>1
  <2>3. QED
    BY SMT, <2>2, ShiftedIs
<1>4. f \in Seq(Byte) /\ Len(f) = 4 /\ f[1] = Shifted(n, 4 - 1) % 256
  <2>1. 1 \in 1 .. 4
    OBVIOUS
  <2>2. QED
    BY Zenon, <1>1, <2>1, FourBytesAre
<1> HIDE DEF f
<1>5. /\ Stream \in Seq(Byte) /\ s \in Seq(Byte) /\ At(Stream, Start[i], s)
  BY Zenon, StreamLayout
<1>6. At(s, 21 + LongSize, f)
  BY Zenon, <1>1, PduLayout DEF Layout, f
<1> HIDE DEF s
<1>7. 21 + LongSize \in Nat /\ (Start[i] + (21 + LongSize)) + 1 = Start[i] + (HeaderSize - 3) /\ 1 \in 1 .. 4
  BY <1>2
<1>8. At(Stream, Start[i] + (21 + LongSize), f)
  BY Zenon, <1>2, <1>4, <1>5, <1>6, <1>7, Within
<1>9. Stream[(Start[i] + (21 + LongSize)) + 1] = f[1]
  BY Zenon, <1>4, <1>7, <1>8 DEF At
<1>10. QED
  BY Zenon, <1>3, <1>4, <1>7, <1>9

(* The first bytes of the stream are those of a flag. *)
LEMMA FlagInStream ==
  ASSUME LongSize \in {4, 8}, header \in Headers, NEW i \in 1 .. 2
  PROVE  \A k \in 1 .. 4 : Stream[Start[i] + k] = BigEndian(start_flag, 4)[k]
<1> DEFINE f == BigEndian(start_flag, 4)
           s == OnPduPack(Pdu(i))
<1>1. f \in Seq(Byte) /\ Len(f) = 4
  <2>1. start_flag \in Int
    BY FlagBytes, Int32Bounds
  <2>2. QED
    BY Zenon, <2>1, FourBytesAre
<1>2. Start[i] \in Nat /\ 0 \in Nat /\ Start[i] + 0 = Start[i]
  <2>1. i \in 1 .. 3
    OBVIOUS
  <2>2. Start[i] \in Nat
    BY Zenon, <2>1, StartIs
  <2>3. QED
    BY <2>2
<1>3. /\ Stream \in Seq(Byte) /\ s \in Seq(Byte) /\ At(Stream, Start[i], s) /\ At(s, 0, f)
  BY Zenon, StreamLayout, PduLayout DEF Layout
<1> HIDE DEF f, s
<1>4. At(Stream, Start[i] + 0, f)
  BY Zenon, <1>1, <1>2, <1>3, Within
<1>5. \A k \in 1 .. 4 : Stream[(Start[i] + 0) + k] = f[k]
  BY Zenon, <1>1, <1>4 DEF At
<1>6. QED
  BY Zenon, <1>2, <1>5 DEF f

(* What OnPduParse answers, by the two words that it looks at. *)
LEMMA ResultIs ==
  ASSUME NEW b, NEW length \in Int, NEW base
  PROVE  LET r == OnPduParse(b, length, base).result
             len == IntAt(b, HeaderSize - 3)
         IN  /\ length <= 0 => r = 0
             /\ length > 0 /\ IntAt(b, 1) # start_flag => r = -1
             /\ length > 0 /\ IntAt(b, 1) = start_flag =>
                  r = IF LongSize = 4 /\ len > MaxInt - HeaderSize THEN -2
                      ELSE IF len > length - HeaderSize THEN 0
                      ELSE IF len < 0 THEN -2 ELSE HeaderSize + len
<1>1. \A x, y : Answer(x, y).result = x
  BY Zenon DEF Answer
<1>2. length > 0 => ~(length <= 0)
  OBVIOUS
<1>3. QED
  BY Zenon, <1>1, <1>2 DEF OnPduParse

(***************************************************************************)
(* The length that is read when the header is cut, or not cut: that of the *)
(* PDU, or one that an earlier header left, or zero, or junk.              *)
(***************************************************************************)
LEMMA LengthRead ==
  ASSUME Setting, NEW i \in 1 .. 2, lo = Start[i], hi > lo
  PROVE  /\ IntAt(Buffer, HeaderSize - 3) \in Int
         /\ mem # "junk" \/ hi - lo >= HeaderSize =>
              0 <= IntAt(Buffer, HeaderSize - 3) /\ IntAt(Buffer, HeaderSize - 3) <= MaxInt - HeaderSize
<1>1. /\ lo \in Nat /\ hi \in Nat /\ LongSize \in {4, 8} /\ header \in Headers
      /\ HeaderSize \in Nat /\ HeaderSize = 25 + LongSize
  BY Zenon, LoHi
<1> DEFINE p == HeaderSize - 3
<1>2. /\ p \in Nat /\ p \in 1 .. HeaderSize /\ p \in 1 .. 33
      /\ p \in 1 .. HeaderSize + hi - lo /\ p + 1 \in 1 .. HeaderSize + hi - lo
      /\ p + 2 \in 1 .. HeaderSize + hi - lo /\ p + 3 \in 1 .. HeaderSize + hi - lo
  BY <1>1
<1>3. Buffer[p] \in Byte /\ Buffer[p + 1] \in Byte /\ Buffer[p + 2] \in Byte /\ Buffer[p + 3] \in Byte
  BY Zenon, <1>2, BufferIs
<1>4. IntAt(Buffer, p) \in Int /\ (Buffer[p] < 127 => 0 <= IntAt(Buffer, p) /\ IntAt(Buffer, p) <= MaxInt - 33)
  BY SMT, <1>2, <1>3, IntAtBounds, Int32Bounds
<1>5. ASSUME mem # "junk" \/ hi - lo >= HeaderSize
      PROVE  Buffer[p] < 127
  <2>1. CASE hi - lo >= p
    <3>1. p \in 1 .. hi - lo
      BY <1>1, <1>2, <2>1
    <3>2. Buffer[p] = Stream[Start[i] + p]
      BY Zenon, <3>1, BufferIs
    <3>3. QED
      BY Zenon, <1>1, <3>2, LengthByte
  <2>2. CASE ~(hi - lo >= p)
    <3>1. p > hi - lo /\ ~(hi - lo >= HeaderSize)
      BY <1>1, <1>2, <2>2
    <3>2. Buffer[p] = old[p]
      BY Zenon, <1>2, <3>1, BufferIs
    <3>3. \/ old = [k \in 1 .. 33 |-> 0]
          \/ old = [k \in 1 .. 33 |-> IF k <= HeaderSize THEN Stream[k] ELSE 0]
      <4>1. mem # "junk"
        BY Zenon, <1>5, <3>1
      <4>2. Memory
        BY Zenon DEF Setting
      <4>3. QED
        BY Zenon, <4>1, <4>2 DEF Memory
    <3>4. CASE old = [k \in 1 .. 33 |-> 0]
      <4>1. old[p] = 0
        BY Zenon, <1>2, <3>4
      <4>2. QED
        BY <3>2, <4>1
    <3>5. CASE old = [k \in 1 .. 33 |-> IF k <= HeaderSize THEN Stream[k] ELSE 0]
      <4>1. p <= HeaderSize
        BY <1>2
      <4>2. old[p] = Stream[p]
        BY Zenon, <1>2, <3>5, <4>1
      <4>3. 1 \in 1 .. 2 /\ 0 + p = p
        BY <1>2
      <4>4. Stream[Start[1] + p] < 127 /\ Start[1] = 0
        BY Zenon, <1>1, <4>3, LengthByte, StartIs
      <4>5. QED
        BY Zenon, <3>2, <4>2, <4>3, <4>4
    <3>6. QED
      BY Zenon, <3>3, <3>4, <3>5
  <2>3. QED
    BY Zenon, <2>1, <2>2
<1>6. mem # "junk" \/ hi - lo >= HeaderSize => 0 <= IntAt(Buffer, p) /\ IntAt(Buffer, p) <= MaxInt - HeaderSize
  BY SMT, <1>1, <1>4, <1>5 DEF MaxInt
<1>7. QED
  BY Zenon, <1>4, <1>6

(* Out of step, a flag is read only when what is in the buffer begins like one. *)
LEMMA NoFlag ==
  ASSUME Setting, hi > lo, ~FalseFlag, ~Model!AtPdu(lo)
  PROVE  IntAt(Buffer, 1) # start_flag
<1>1. /\ lo \in Nat /\ hi \in Nat /\ lo <= hi /\ hi <= Start[3] /\ Start[3] \in Nat
      /\ HeaderSize \in Nat /\ HeaderSize = 25 + LongSize /\ LongSize \in {4, 8}
  BY Zenon, LoHi
<1>2. lo < hi
  BY <1>1
<1>3. PICK k \in 1 .. 4 : lo + k <= hi /\ Stream[lo + k] # BigEndian(start_flag, 4)[k]
  BY Zenon, <1>2 DEF FalseFlag
<1>4. k \in 1 .. hi - lo
  BY <1>1, <1>3
<1>5. Buffer[k] # BigEndian(start_flag, 4)[k]
  BY Zenon, <1>3, <1>4, BufferIs
<1>6. /\ 1 \in 1 .. HeaderSize + hi - lo /\ 1 + 1 \in 1 .. HeaderSize + hi - lo
      /\ 1 + 2 \in 1 .. HeaderSize + hi - lo /\ 1 + 3 \in 1 .. HeaderSize + hi - lo /\ 1 \in Nat
  BY <1>1
<1>7. Buffer[1] \in Byte /\ Buffer[1 + 1] \in Byte /\ Buffer[1 + 2] \in Byte /\ Buffer[1 + 3] \in Byte
  BY Zenon, <1>6, BufferIs
<1>8. ASSUME IntAt(Buffer, 1) = start_flag PROVE FALSE
  <2>1. /\ Buffer[1] = 18 /\ Buffer[1 + 1] = 52 /\ Buffer[1 + 2] = 86 /\ Buffer[1 + 3] = 120
    BY <1>6, <1>7, <1>8, FlagIsRead
  <2>2. /\ 1 + 1 = 2 /\ 1 + 2 = 3 /\ 1 + 3 = 4
        /\ k = 1 \/ k = 2 \/ k = 3 \/ k = 4
    BY <1>3
  <2>3. Buffer[k] = BigEndian(start_flag, 4)[k]
    BY SMT, <2>1, <2>2, FlagBytes
  <2>4. QED
    BY Zenon, <1>5, <2>3
<1>9. QED
  BY Zenon, <1>8

LEMMA CutFlag ==
  ASSUME Setting, NEW i \in 1 .. 2, lo = Start[i], hi > lo, hi - lo < 4
  PROVE  /\ mem = "header" => IntAt(Buffer, 1) = start_flag
         /\ mem = "zero" => IntAt(Buffer, 1) # start_flag
<1>1. /\ lo \in Nat /\ hi \in Nat /\ LongSize \in {4, 8} /\ header \in Headers
      /\ HeaderSize \in Nat /\ HeaderSize = 25 + LongSize
  BY Zenon, LoHi
<1>2. ASSUME mem = "header"
      PROVE  IntAt(Buffer, 1) = start_flag
  <2>1. old = [k \in 1 .. 33 |-> IF k <= HeaderSize THEN Stream[k] ELSE 0]
    BY Zenon, <1>2 DEF Setting, Memory
  <2>2. ASSUME NEW k \in 1 .. 4 PROVE Buffer[1 + (k - 1)] = BigEndian(start_flag, 4)[k]
    <3>1. 1 + (k - 1) = k /\ 0 + k = k /\ k \in 1 .. HeaderSize /\ k \in 1 .. 33 /\ k <= HeaderSize
      BY <1>1
    <3>2. CASE k <= hi - lo
      <4>1. k \in 1 .. hi - lo
        BY <1>1, <3>2
      <4>2. Buffer[k] = Stream[Start[i] + k]
        BY Zenon, <4>1, BufferIs
      <4>3. QED
        BY Zenon, <1>1, <3>1, <4>2, FlagInStream
    <3>3. CASE ~(k <= hi - lo)
      <4>1. k > hi - lo
        BY <1>1, <3>3
      <4>2. Buffer[k] = old[k]
        BY Zenon, <3>1, <4>1, BufferIs
      <4>3. old[k] = Stream[k]
        BY Zenon, <2>1, <3>1
      <4>4. 1 \in 1 .. 2
        OBVIOUS
      <4>5. Stream[Start[1] + k] = BigEndian(start_flag, 4)[k] /\ Start[1] = 0
        BY Zenon, <1>1, <4>4, FlagInStream, StartIs
      <4>6. QED
        BY Zenon, <3>1, <4>2, <4>3, <4>5
    <3>4. QED
      BY Zenon, <3>2, <3>3
  <2>3. start_flag \in Int32 /\ 1 \in Nat
    BY FlagBytes
  <2>4. QED
    BY Zenon, <2>2, <2>3, IntBytes
<1>3. ASSUME mem = "zero"
      PROVE  IntAt(Buffer, 1) # start_flag
  <2>1. old = [k \in 1 .. 33 |-> 0]
    BY Zenon, <1>3 DEF Setting, Memory
  <2>2. /\ 1 \in 1 .. HeaderSize + hi - lo /\ 1 + 1 \in 1 .. HeaderSize + hi - lo
        /\ 1 + 2 \in 1 .. HeaderSize + hi - lo /\ 1 + 3 \in 1 .. HeaderSize + hi - lo /\ 1 \in Nat
        /\ 1 + 3 \in 1 .. HeaderSize /\ 1 + 3 > hi - lo /\ 1 + 3 \in 1 .. 33
    BY <1>1
  <2>3. Buffer[1] \in Byte /\ Buffer[1 + 1] \in Byte /\ Buffer[1 + 2] \in Byte /\ Buffer[1 + 3] \in Byte
    BY Zenon, <2>2, BufferIs
  <2>4. Buffer[1 + 3] = 0
    <3>1. Buffer[1 + 3] = old[1 + 3]
      BY Zenon, <2>2, BufferIs
    <3>2. QED
      BY Zenon, <2>1, <2>2, <3>1
  <2>5. ASSUME IntAt(Buffer, 1) = start_flag PROVE FALSE
    <3>1. Buffer[1 + 3] = 120
      BY <2>2, <2>3, <2>5, FlagIsRead
    <3>2. QED
      BY <2>4, <3>1
  <2>6. QED
    BY Zenon, <2>5
<1>4. QED
  BY Zenon, <1>2, <1>3

(* The abstract parser allows what the byte-level one answers. *)
LEMMA ModelAllows ==
  ASSUME Setting, ~FalseFlag
  PROVE  Model!OnPduParse(lo, hi, mem, OnPduParse(Buffer, hi - lo, PDUBase).result)
<1> DEFINE r == OnPduParse(Buffer, hi - lo, PDUBase).result
           len == IntAt(Buffer, HeaderSize - 3)
           flag == IntAt(Buffer, 1) = start_flag
<1>1. /\ lo \in Nat /\ hi \in Nat /\ lo <= hi /\ LongSize \in {4, 8} /\ header \in Headers
      /\ HeaderSize \in Nat /\ HeaderSize = 25 + LongSize /\ hi - lo \in Int
  <2>1. /\ lo \in Nat /\ hi \in Nat /\ lo <= hi /\ LongSize \in {4, 8} /\ header \in Headers
        /\ HeaderSize \in Nat /\ HeaderSize = 25 + LongSize
    BY Zenon, LoHi
  <2>2. QED
    BY <2>1
<1>2. /\ hi - lo <= 0 => r = 0
      /\ hi - lo > 0 /\ ~flag => r = -1
      /\ hi - lo > 0 /\ flag =>
           r = IF LongSize = 4 /\ len > MaxInt - HeaderSize THEN -2
               ELSE IF len > (hi - lo) - HeaderSize THEN 0
               ELSE IF len < 0 THEN -2 ELSE HeaderSize + len
  BY Zenon, <1>1, ResultIs
<1> HIDE DEF r, len, flag
<1>3. MaxInt \in Int
  BY SMT DEF MaxInt
<1>4. CASE hi <= lo
  <2>1. r = 0
    BY <1>1, <1>2, <1>4
  <2>2. QED
    BY Zenon, <1>4, <2>1 DEF r, Model!OnPduParse, Model!NeedMore
<1>5. CASE hi > lo /\ ~Model!AtPdu(lo)
  <2>1. ~flag
    BY Zenon, <1>5, NoFlag DEF flag
  <2>2. r = -1
    BY <1>1, <1>2, <1>5, <2>1
  <2>3. QED
    BY Zenon, <1>5, <2>2 DEF r, Model!OnPduParse, Model!FlagDiffers, Model!BadFormat
<1>6. CASE hi > lo /\ Model!AtPdu(lo)
  <2>1. PICK i \in 1 .. 2 : Start[i] = lo
    BY Zenon, <1>6 DEF Model!AtPdu, Model!Pdus
  <2>2. hi - lo > 0
    BY <1>1, <1>6
  <2>3. len \in Int /\ (mem # "junk" \/ hi - lo >= HeaderSize => 0 <= len /\ len <= MaxInt - HeaderSize)
    BY Zenon, <1>6, <2>1, LengthRead DEF len
  <2>4. ASSUME flag, hi - lo < HeaderSize
        PROVE  r = 0 \/ (r = -2 /\ mem = "junk")
    <3>1. r = 0 \/ r = -2
      BY <1>1, <1>2, <1>3, <2>2, <2>3, <2>4
    <3>2. ASSUME mem # "junk" PROVE r = 0
      <4>1. 0 <= len /\ len <= MaxInt - HeaderSize
        BY Zenon, <2>3, <3>2
      <4>2. ~(len > MaxInt - HeaderSize) /\ len > (hi - lo) - HeaderSize
        BY <1>1, <1>3, <2>3, <2>4, <4>1
      <4>3. QED
        BY Zenon, <1>2, <2>2, <2>4, <4>2
    <3>3. QED
      BY Zenon, <3>1, <3>2
  <2>5. CASE hi - lo < 4 /\ ~flag
    <3>1. mem # "header"
      BY Zenon, <1>6, <2>1, <2>5, CutFlag DEF flag
    <3>2. r = -1
      BY Zenon, <1>2, <2>2, <2>5
    <3>3. QED
      BY Zenon, <1>6, <2>5, <3>1, <3>2 DEF r, Model!OnPduParse, Model!FlagDiffers, Model!BadFormat
  <2>6. CASE hi - lo < 4 /\ flag
    <3>1. mem # "zero"
      BY Zenon, <1>6, <2>1, <2>6, CutFlag DEF flag
    <3>2. hi - lo < HeaderSize
      BY <1>1, <2>6
    <3>3. r = 0 \/ (r = -2 /\ mem = "junk")
      BY Zenon, <2>4, <2>6, <3>2
    <3>4. QED
      BY Zenon, <1>6, <3>1, <3>2, <3>3 DEF r, Model!OnPduParse, Model!FlagMatches, Model!NeedMore, Model!Crash
  <2>7. CASE ~(hi - lo < 4)
    <3>1. hi - lo >= 4
      BY <1>1, <2>7
    <3>2. flag /\ (hi - lo >= HeaderSize => len = Len(Bodies[i]))
      BY Zenon, <2>1, <3>1, PduInBuffer DEF flag, len
    <3>3. CASE hi - lo < HeaderSize
      <4>1. r = 0 \/ (r = -2 /\ mem = "junk")
        BY Zenon, <2>4, <3>2, <3>3
      <4>2. QED
        BY Zenon, <1>6, <3>1, <3>3, <4>1 DEF r, Model!OnPduParse, Model!FlagMatches, Model!NeedMore, Model!Crash
    <3>4. CASE ~(hi - lo < HeaderSize)
      <4>1. hi - lo >= HeaderSize
        BY <1>1, <3>4
      <4>2. 0 <= len /\ len <= MaxInt - HeaderSize /\ len = Len(Bodies[i])
        BY Zenon, <2>3, <3>2, <4>1
      <4>3. r = IF len > (hi - lo) - HeaderSize THEN 0 ELSE HeaderSize + len
        <5>1. ~(len > MaxInt - HeaderSize) /\ ~(len < 0)
          BY <1>1, <1>3, <2>3, <4>2
        <5>2. QED
          BY Zenon, <1>2, <2>2, <3>2, <5>1
      <4>4. Start[i] \in Nat /\ Start[i + 1] = Start[i] + (HeaderSize + len)
        <5>1. i \in 1 .. 3
          OBVIOUS
        <5>2. QED
          BY Zenon, <1>1, <4>2, <5>1, StartIs
      <4>5. Start[i + 1] - Start[i] = HeaderSize + len
        <5>1. PICK a \in Nat : a = Start[i]
          BY Zenon, <4>4
        <5>2. PICK b : b = Start[i + 1]
          BY Zenon
        <5>3. b - a = HeaderSize + len
          BY <1>1, <2>3, <4>4, <5>1, <5>2
        <5>4. QED
          BY Zenon, <5>1, <5>2, <5>3
      <4>6. r = IF Start[i + 1] - Start[i] > hi - lo THEN 0 ELSE Start[i + 1] - Start[i]
        <5>1. (len > (hi - lo) - HeaderSize) <=> (HeaderSize + len > hi - lo)
          BY <1>1, <2>3
        <5>2. QED
          BY Zenon, <4>3, <4>5, <5>1
      <4>7. QED
        BY Zenon, <1>6, <2>1, <3>1, <4>1, <4>6
           DEF r, Model!OnPduParse, Model!FlagMatches, Model!NeedMore, Model!Size, Model!Pdus
    <3>5. QED
      BY Zenon, <3>3, <3>4
  <2>8. QED
    BY Zenon, <2>5, <2>6, <2>7
<1>7. QED
  <2>1. hi <= lo \/ hi > lo
    BY <1>1
  <2>2. QED
    BY Zenon, <1>4, <1>5, <1>6, <2>1 DEF r

-----------------------------------------------------------------------------
(* The answer is the parser's, for the buffer that was filled. *)

CodecInv ==
  /\ Setting
  /\ pc \in {"parse", "done"}
  /\ pc = "done" => answer = OnPduParse(Buffer, hi - lo, PDUBase)

LEMMA CodecInit == Init => CodecInv
<1> SUFFICES ASSUME Init PROVE CodecInv
  OBVIOUS
<1>1. LongSize \in {4, 8}
  BY Zenon, CodecAssumption DEF Init
<1>2. QED
  BY Zenon, <1>1 DEF Init, CodecInv, Setting

(* What the buffer is made of does not change with the two variables that Parse changes. *)
LEMMA Frozen ==
  ASSUME LongSize' = LongSize, header' = header, lo' = lo, hi' = hi, mem' = mem, old' = old
  PROVE  /\ Setting' = Setting
         /\ OnPduParse(Buffer, hi - lo, PDUBase)' = OnPduParse(Buffer, hi - lo, PDUBase)
<1>1. HeaderSize' = HeaderSize
  BY Zenon DEF HeaderSize
<1>2. Start' = Start
  BY Zenon, <1>1 DEF Start
<1>3. Pdu(1)' = Pdu(1) /\ Pdu(2)' = Pdu(2)
  BY Zenon DEF Pdu
<1>4. OnPduPack(Pdu(1))' = OnPduPack(Pdu(1)) /\ OnPduPack(Pdu(2))' = OnPduPack(Pdu(2))
  BY Zenon DEF OnPduPack, Pdu
<1>5. Stream' = Stream
  BY Zenon, <1>4 DEF Stream
<1>6. Buffer' = Buffer
  BY Zenon, <1>1, <1>5 DEF Buffer
<1>7. Memory' = Memory
  BY Zenon, <1>1, <1>5 DEF Memory
<1>8. Setting' = Setting
  BY Zenon, <1>2, <1>7 DEF Setting
<1>9. OnPduParse(Buffer, hi - lo, PDUBase)' = OnPduParse(Buffer, hi - lo, PDUBase)
  BY Zenon, <1>1, <1>6 DEF OnPduParse, LongAt
<1>10. QED
  BY <1>8, <1>9

LEMMA CodecStep == CodecInv /\ [Next]_vars => CodecInv'
<1> SUFFICES ASSUME CodecInv, [Next]_vars PROVE CodecInv'
  OBVIOUS
<1>1. LongSize' = LongSize /\ header' = header /\ lo' = lo /\ hi' = hi /\ mem' = mem /\ old' = old
  BY Zenon DEF Next, Parse, vars
<1>2. /\ Setting'
      /\ OnPduParse(Buffer, hi - lo, PDUBase)' = OnPduParse(Buffer, hi - lo, PDUBase)
  BY Zenon, <1>1, Frozen DEF CodecInv
<1>3. CASE Parse
  BY Zenon, <1>2, <1>3 DEF CodecInv, Parse
<1>4. CASE UNCHANGED vars
  BY Zenon, <1>2, <1>4 DEF CodecInv, vars
<1>5. QED
  BY Zenon, <1>3, <1>4 DEF Next

(***************************************************************************)
(* The inductive invariant of the codec: what the buffer is made of stays  *)
(* in its types, and the answer is the one OnPduParse gives for it.        *)
(***************************************************************************)
THEOREM CodecInvariant == Spec => []CodecInv
  BY CodecInit, CodecStep, PTL DEF Spec

(***************************************************************************)
(* For every stream of two PDUs, every interval of it, either size of long *)
(* and any memory behind the buffer, the byte-level parser does nothing    *)
(* that the abstract parser of the receivers' models does not allow.       *)
(***************************************************************************)
THEOREM StreamModelHolds == Spec => []StreamModelIsRight
<1>1. CodecInv => StreamModelIsRight
  BY Zenon, ModelAllows DEF CodecInv, StreamModelIsRight
<1>2. QED
  BY CodecInvariant, <1>1, PTL

(* What the receivers' models assume of the stream is true of what is packed. *)
StreamAllowed ==
  /\ 4 <= HeaderSize
  /\ Start \in [1 .. 3 -> Nat]
  /\ Start[1] = 0
  /\ \A i, j \in 1 .. 3 : i < j => Start[i] + HeaderSize <= Start[j]

(***************************************************************************)
(* The positions at which OnPduPack puts the PDUs satisfy StreamAssumption *)
(* of PduStream, for bodies of any length.                                 *)
(***************************************************************************)
THEOREM PackedStreamIsAllowed == Spec => []StreamAllowed
<1>1. ASSUME CodecInv PROVE StreamAllowed
  <2>1. LongSize \in {4, 8} /\ header \in Headers
    BY Zenon, <1>1 DEF CodecInv, Setting
  <2>2. Start[1] = 0 /\ HeaderSize \in Nat /\ HeaderSize = 25 + LongSize
    BY Zenon, <2>1, StartIs
  <2>3. \A i \in 1 .. 3 : Start[i] \in Nat
    BY Zenon, <2>1, StartIs
  <2>4. Start = [i \in 1 .. 3 |-> Start[i]]
    BY DEF Start
  <2>5. Start \in [1 .. 3 -> Nat]
    BY Zenon, <2>3, <2>4
  <2>6. Start[1] + HeaderSize <= Start[2] /\ Start[2] + HeaderSize <= Start[3]
        /\ Start[1] + HeaderSize <= Start[3]
    <3>1. 1 \in 1 .. 2 /\ 2 \in 1 .. 2 /\ 1 \in 1 .. 3 /\ 2 \in 1 .. 3 /\ 3 \in 1 .. 3
      OBVIOUS
    <3>2. PICK x \in Nat, y \in Nat, z \in Nat : x = Start[1] /\ y = Start[2] /\ z = Start[3]
      BY Zenon, <2>3, <3>1
    <3>3. PICK a \in Nat, b \in Nat : a = Len(Bodies[1]) /\ b = Len(Bodies[2])
      BY Zenon, <2>1, <3>1, PduTypes
    <3>4. x = 0 /\ y = HeaderSize + a /\ z = y + (HeaderSize + b)
      BY Zenon, <2>1, <3>2, <3>3, StartIs
    <3>5. PICK h \in Nat : h = HeaderSize
      BY Zenon, <2>2
    <3>6. x + h <= y /\ y + h <= z /\ x + h <= z
      <4>1. x = 0 /\ y = h + a /\ z = y + (h + b)
        BY Zenon, <3>4, <3>5
      <4>2. QED
        BY SMT, <4>1
    <3>7. QED
      BY Zenon, <3>2, <3>5, <3>6
  <2>7. ASSUME NEW i \in 1 .. 3, NEW j \in 1 .. 3, i < j
        PROVE  Start[i] + HeaderSize <= Start[j]
    <3>1. (i = 1 /\ j = 2) \/ (i = 2 /\ j = 3) \/ (i = 1 /\ j = 3)
      BY <2>7
    <3>2. QED
      BY Zenon, <2>6, <3>1
  <2>8. 4 <= HeaderSize
    BY <2>1, <2>2
  <2>9. QED
    BY Zenon, <2>2, <2>5, <2>7, <2>8 DEF StreamAllowed
<1>2. QED
  BY CodecInvariant, <1>1, PTL

LEMMA RoundTrip ==
  ASSUME Setting, NEW i \in 1 .. 2, lo = Start[i], hi >= Start[i + 1],
         NEW r, r = OnPduParse(Buffer, hi - lo, PDUBase)
  PROVE  r = Answer(Start[i + 1] - Start[i], Received(i))
<1> DEFINE len == Len(Bodies[i])
<1>1. /\ lo \in Nat /\ hi \in Nat /\ LongSize \in {4, 8} /\ header \in Headers
      /\ HeaderSize \in Nat /\ HeaderSize = 25 + LongSize
  BY Zenon, LoHi
<1>2. /\ Pdu(i).body = Bodies[i] /\ Pdu(i).length = len /\ len \in Nat
  BY Zenon, <1>1, PduTypes
<1>3. Start[i + 1] = lo + (HeaderSize + len)
  BY Zenon, <1>1, StartIs
<1> HIDE DEF len
<1>4. /\ hi > lo /\ hi - lo >= 4 /\ hi - lo >= HeaderSize /\ hi - lo >= HeaderSize + len
      /\ ~(hi - lo <= 0) /\ ~(len < 0) /\ ~(len > (hi - lo) - HeaderSize)
  <2>1. hi >= lo + (HeaderSize + len)
    BY Zenon, <1>3
  <2>2. QED
    BY <1>1, <1>2, <2>1
<1>5. IntAt(Buffer, HeaderSize - 3) = len /\ ~(len > MaxInt - HeaderSize)
  <2>1. IntAt(Buffer, HeaderSize - 3) = len /\ len <= MaxInt - HeaderSize
    BY Zenon, <1>4, PduInBuffer, LengthRead DEF len
  <2>2. MaxInt \in Int
    BY SMT DEF MaxInt
  <2>3. QED
    BY <1>1, <1>2, <2>1, <2>2
<1>6. /\ IntAt(Buffer, 1) = start_flag
      /\ IntAt(Buffer, 6) = 5 * 256 ^ 3
      /\ IntAt(Buffer, 10) = Pdu(i).size
      /\ IntAt(Buffer, 14 + LongSize) = Pdu(i).flags
      /\ IntAt(Buffer, 18 + LongSize) = Pdu(i).reserved
      /\ LongAt(Buffer, 14) = TimeLeft(Pdu(i).presentationTimeUs)
      /\ SubSeq(Buffer, HeaderSize + 1, HeaderSize + len) = Bodies[i]
  BY Zenon, <1>4, PduInBuffer DEF len
<1>7. PICK q : q = [PDUBase EXCEPT !.offset = IntAt(Buffer, 6),
                                   !.size = IntAt(Buffer, 10),
                                   !.presentationTimeUs = LongAt(Buffer, 14),
                                   !.flags = IntAt(Buffer, 14 + LongSize),
                                   !.reserved = IntAt(Buffer, 18 + LongSize),
                                   !.length = len,
                                   !.body = SubSeq(Buffer, HeaderSize + 1, HeaderSize + len)]
  BY Zenon
<1>8. r = Answer(HeaderSize + len, q)
  BY Zenon, <1>4, <1>5, <1>6, <1>7 DEF OnPduParse
<1>9. q = [pdu_type |-> Unset, offset |-> 5 * 256 ^ 3, size |-> Pdu(i).size,
           presentationTimeUs |-> TimeLeft(Pdu(i).presentationTimeUs),
           flags |-> Pdu(i).flags, reserved |-> Pdu(i).reserved, length |-> len, body |-> Bodies[i]]
  <2>1. q = [pdu_type |-> Unset, offset |-> IntAt(Buffer, 6), size |-> IntAt(Buffer, 10),
             presentationTimeUs |-> LongAt(Buffer, 14), flags |-> IntAt(Buffer, 14 + LongSize),
             reserved |-> IntAt(Buffer, 18 + LongSize), length |-> len,
             body |-> SubSeq(Buffer, HeaderSize + 1, HeaderSize + len)]
    BY <1>7 DEF PDUBase
  <2>2. QED
    BY Zenon, <1>6, <2>1
<1>10. Received(i) = [pdu_type |-> Unset, offset |-> 5 * 256 ^ 3, size |-> Pdu(i).size,
                      presentationTimeUs |-> TimeLeft(Pdu(i).presentationTimeUs),
                      flags |-> Pdu(i).flags, reserved |-> Pdu(i).reserved,
                      length |-> len, body |-> Bodies[i]]
  <2>1. PICK o, t : o = 5 * 256 ^ 3 /\ t = TimeLeft(Pdu(i).presentationTimeUs)
    BY Zenon
  <2>2. Received(i) = [Pdu(i) EXCEPT !.pdu_type = Unset, !.offset = o, !.presentationTimeUs = t]
    BY Zenon, <2>1 DEF Received, TimeLeft
  <2>3. Received(i) = [pdu_type |-> Unset, offset |-> o, size |-> Pdu(i).size,
                       presentationTimeUs |-> t,
                       flags |-> Pdu(i).flags, reserved |-> Pdu(i).reserved,
                       length |-> len, body |-> Bodies[i]]
    BY <2>2 DEF Pdu, len
  <2>4. QED
    BY Zenon, <2>1, <2>3
<1>11. HeaderSize + len = Start[i + 1] - Start[i]
  <2>1. HeaderSize + len = (lo + (HeaderSize + len)) - lo
    BY <1>1, <1>2
  <2>2. QED
    BY Zenon, <1>3, <2>1
<1>12. QED
  BY Zenon, <1>8, <1>9, <1>10, <1>11

(***************************************************************************)
(* Whatever the header fields and the bodies are, a PDU that is complete   *)
(* in the buffer is taken whole, and of its eight fields five come out of  *)
(* OnPduParse as they went into OnPduPack; of the time stamp all comes     *)
(* back on 64 bits and the sign on 32, and the type and the offset never.  *)
(***************************************************************************)
THEOREM PayloadComesBack == Spec => []PayloadRoundTrips
<1>1. CodecInv => PayloadRoundTrips
  BY Zenon, RoundTrip DEF CodecInv, PayloadRoundTrips
<1>2. QED
  BY CodecInvariant, <1>1, PTL
=============================================================================
