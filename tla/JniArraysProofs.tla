--------------------------- MODULE JniArraysProofs ---------------------------
(***************************************************************************)
(* Machine-checked proofs about JniArrays, for any length of the Java      *)
(* array, any bytes and units, texts of any length that fits, and either   *)
(* signedness of char.                                                     *)
(***************************************************************************)
EXTENDS JniArrays, WellFoundedInduction, TLAPS

(* The inductive invariant: what the last call has made of the array.      *)

ArrayInv ==
  /\ last = "text" =>
       sent \in BoundedSeq(Bytes, MaxText) /\ array = C2jniString(was, sent)
  /\ last = "status" =>
       sent \in TupleOf({0, 1}, Flags) /\ array = C2jniString(was, sent)
  /\ last = "field" =>
       sent \in TupleOf(Units, FieldLen) /\ array = Overlaid(was, InMemory(sent))
  /\ last = "name" =>
       sent \in BoundedSeq(Bytes, NameLen - 1) /\ array = Overlaid(was, Padded(sent))
  /\ last = "type" =>
       \E ucType \in Bytes : sent = <<ucType>> /\ array = LowByte(was, ucType)
  /\ path # <<>> => path = Jni2cString(array)

-----------------------------------------------------------------------------
(* The texts of C.                                                         *)

\* The two widths, as numbers.
LEMMA Widths == Byte = 256 /\ Char = 65536 /\ Flags = 5
BY DEF Byte, Char, Flags

\* A set of naturals has a least one.
LEMMA Least ==
  ASSUME NEW T, T \subseteq Nat, T # {}
  PROVE  \E m \in T : \A k \in T : m <= k
<1>. DEFINE R == {ss \in Nat \X Nat : ss[1] < ss[2]}
<1>1. R = OpToRel(<, Nat)
  BY Zenon DEF OpToRel
<1>2. IsWellFoundedOn(R, Nat)
  BY <1>1, NatLessThanWellFounded, Zenon
<1>3. \A k, m \in Nat : k < m => <<k, m>> \in R
  OBVIOUS
<1>. HIDE DEF R
<1>4. PICK m \in T : \A k \in T : ~(<<k, m>> \in R)
  BY <1>2, WFMin
<1>5. ASSUME NEW k \in T PROVE m <= k
  <2>1. k \in Nat /\ m \in Nat
    OBVIOUS
  <2>2. ~(k < m)
    BY <1>3, <1>4, <2>1
  <2>. QED
    BY <2>1, <2>2
<1>. QED
  BY <1>5

\* n chars other than zero, and then a zero or the end.
Before(s, n) ==
  /\ n \in 0..Len(s)
  /\ \A i \in 1..n : s[i] # 0
  /\ n < Len(s) => s[n + 1] = 0

\* strlen counts the chars before the first zero: there is one such number,
LEMMA StrlenExists ==
  ASSUME NEW s \in Seq(Nat)
  PROVE  Before(s, strlen(s))
<1>. DEFINE Z == {n \in 0..Len(s) : n < Len(s) => s[n + 1] = 0}
<1>1. Len(s) \in Nat /\ Len(s) \in Z /\ Z \subseteq Nat
  OBVIOUS
<1>2. PICK m \in Z : \A k \in Z : m <= k
  BY <1>1, Least
<1>3. ASSUME NEW i \in 1..m PROVE s[i] # 0
  <2>1. i - 1 \in 0..Len(s) /\ ~(m <= i - 1) /\ i \in 1..Len(s)
    BY <1>1, <1>2
  <2>2. i - 1 \notin Z
    BY <1>2, <2>1
  <2>. QED
    BY <2>1, <2>2
<1>4. Before(s, m)
  BY <1>2, <1>3 DEF Before
<1>. QED
  BY <1>4 DEF Before, strlen

\* and no other.
LEMMA StrlenIs ==
  ASSUME NEW s \in Seq(Nat), NEW n, Before(s, n)
  PROVE  strlen(s) = n
<1>1. Before(s, strlen(s))
  BY StrlenExists
<1>. DEFINE m == strlen(s)
<1>2. m \in Nat /\ n \in Nat /\ m <= Len(s) /\ n <= Len(s) /\ Len(s) \in Nat
  BY <1>1 DEF Before
<1>3. ~(m < n)
  <2>1. m < n => m + 1 \in 1..n /\ m < Len(s)
    BY <1>2
  <2>. QED
    BY <1>1, <2>1 DEF Before
<1>4. ~(n < m)
  <2>1. n < m => n + 1 \in 1..m /\ n < Len(s)
    BY <1>2
  <2>. QED
    BY <1>1, <2>1 DEF Before
<1>. QED
  BY <1>2, <1>3, <1>4

\* An array of chars is a sequence, as long as it is.
LEMMA Cells ==
  ASSUME NEW n \in Nat, NEW S, S \subseteq Nat, NEW s \in [1..n -> S]
  PROVE  s \in Seq(Nat) /\ Len(s) = n /\ DOMAIN s = 1..n
<1>1. s \in [1..n -> Nat]
  OBVIOUS
<1>. QED
  BY <1>1

\* What can be in an array.
LEMMA Ranges ==
  /\ Bytes \subseteq Nat /\ Units \subseteq Nat /\ 0..(Char - 1) \subseteq Nat
  /\ Size \in Nat /\ MaxText \in Nat /\ FieldLen \in Nat
  /\ MaxText <= Size /\ FieldLen <= Size /\ Flags <= Size
  /\ \A b \in Bytes : 0 < b /\ b < Byte
  /\ \A u \in Units : u < Char
<1>1. Byte \in Nat /\ Char \in Nat
  BY Widths
<1>2. \A b \in Bytes : b \in Nat /\ 0 < b /\ b < Byte
  BY <1>1, JniArraysAssumption
<1>3. \A u \in Units : u \in Nat /\ u < Char
  BY <1>1, JniArraysAssumption
<1>4. /\ Size \in Nat /\ MaxText \in Nat /\ FieldLen \in Nat
      /\ MaxText <= Size /\ FieldLen <= Size /\ Flags <= Size
  BY JniArraysAssumption
<1>. QED
  BY <1>1, <1>2, <1>3, <1>4

\* The arithmetic of a byte that is sign-extended, and of one that is not.
LEMMA Bytewise ==
  ASSUME NEW b \in Nat, b < 256
  PROVE  /\ b % 256 = b
         /\ b >= 128 => (b - 256) % 65536 = b + 65280 /\ (b + 65280) % 256 = b
OBVIOUS

\* A byte that is widened and narrowed again is the same byte, and neither of
\* the two makes a zero of it or of anything else.
LEMMA RoundTrip ==
  ASSUME NEW b \in Nat, b < Byte
  PROVE  /\ Widen(b) \in 0..(Char - 1)
         /\ Narrow(Widen(b)) = b
         /\ Widen(b) = 0 <=> b = 0
<1>1. b < 256 /\ Byte \div 2 = 128
  BY Widths
<1>2. Widen(b) = IF signed /\ b >= 128 THEN (b - 256) % 65536 ELSE b
  <2>1. Widen(b) = IF signed /\ b >= Byte \div 2 THEN (b - Byte) % Char ELSE b
    BY Zenon DEF Widen
  <2>. QED
    BY <1>1, <2>1, Widths, SMT
<1>3. Narrow(Widen(b)) = Widen(b) % 256
  <2>1. Narrow(Widen(b)) = Widen(b) % Byte
    BY Zenon DEF Narrow
  <2>. QED
    BY <2>1, Widths, SMT
<1>4. /\ Widen(b) \in Int /\ 0 <= Widen(b) /\ Widen(b) < 65536
      /\ Widen(b) % 256 = b /\ (Widen(b) = 0 <=> b = 0)
  <2>1. CASE signed /\ b >= 128
    <3>1. Widen(b) = b + 65280
      BY <1>1, <1>2, <2>1, Bytewise
    <3>. QED
      BY <1>1, <2>1, <3>1, Bytewise
  <2>2. CASE ~(signed /\ b >= 128)
    <3>1. Widen(b) = b
      BY <1>2, <2>2
    <3>. QED
      BY <1>1, <3>1, Bytewise
  <2>. QED
    BY <2>1, <2>2
<1>5. Char \in Int /\ Widen(b) <= Char - 1
  BY <1>4, Widths
<1>. QED
  BY <1>3, <1>4, <1>5

\* A flag is the same, widened.
LEMMA Flag ==
  ASSUME NEW b \in {0, 1}
  PROVE  b < Byte /\ Widen(b) = b
<1>1. Byte = 256 /\ Byte \div 2 = 128
  BY Widths
<1>2. ~(b >= Byte \div 2)
  BY <1>1
<1>. QED
  BY <1>1, <1>2 DEF Widen

\* A text of the driver fits in the array, and ends where C takes it to end.
LEMMA CopiedText ==
  ASSUME NEW szc \in BoundedSeq(Bytes, MaxText)
  PROVE  /\ szc \in Seq(Nat) /\ Len(szc) \in 0..Size /\ strlen(szc) = Len(szc)
         /\ \A i \in 1..Len(szc) : szc[i] \in Nat /\ szc[i] # 0 /\ szc[i] < Byte
<1>1. PICK m \in 0..MaxText : szc \in [1..m -> Bytes]
  BY Zenon DEF BoundedSeq, SeqOf
<1>2. m \in Nat /\ m <= Size /\ Bytes \subseteq Nat
  BY Ranges
<1>3. szc \in Seq(Nat) /\ Len(szc) = m
  BY <1>1, <1>2, Cells
<1>4. \A i \in 1..m : szc[i] \in Bytes
  BY <1>1
<1>5. \A i \in 1..m : szc[i] \in Nat /\ szc[i] # 0 /\ szc[i] < Byte
  <2>1. \A b \in Bytes : b \in Nat /\ 0 < b /\ b < Byte
    BY Ranges, Zenon
  <2>2. \A b \in Bytes : b \in Nat /\ b # 0 /\ b < Byte
    BY <2>1
  <2>. QED
    BY <1>4, <2>2, Zenon
<1>6. Before(szc, m)
  BY <1>2, <1>3, <1>5 DEF Before
<1>. QED
  BY <1>2, <1>3, <1>5, <1>6, StrlenIs

\* The sensors of getStatus as a text.
LEMMA StatusText ==
  ASSUME NEW szStatus \in TupleOf({0, 1}, Flags)
  PROVE  /\ szStatus \in Seq(Nat) /\ Len(szStatus) = Flags
         /\ \A i \in 1..Flags : szStatus[i] \in {0, 1} /\ szStatus[i] < Byte
<1>1. szStatus \in [1..Flags -> {0, 1}] /\ Flags \in Nat
  <2>1. szStatus \in [1..Flags -> {0, 1}]
    BY Zenon DEF TupleOf
  <2>. QED
    BY <2>1, Widths
<1>2. szStatus \in Seq(Nat) /\ Len(szStatus) = Flags
  BY <1>1, Cells
<1>. QED
  BY <1>1, <1>2, Flag

\* What C2jniString makes of an array: the text up to its first zero, and
\* what was there after it.
LEMMA Filled ==
  ASSUME NEW a \in [1..Size -> 0..(Char - 1)],
         NEW s \in Seq(Nat), Len(s) <= Size, \A i \in 1..Len(s) : s[i] < Byte
  PROVE  /\ C2jniString(a, s) \in [1..Size -> 0..(Char - 1)]
         /\ \A i \in 1..Size :
              C2jniString(a, s)[i] = IF i <= strlen(s) THEN Widen(s[i]) ELSE a[i]
<1>1. strlen(s) \in Nat /\ strlen(s) <= Len(s) /\ Size \in Nat
  BY StrlenExists, Ranges DEF Before
<1>2. \A i \in 1..strlen(s) : s[i] \in Nat /\ s[i] < Byte
  BY <1>1
<1>3. \A i \in 1..strlen(s) : Widen(s[i]) \in 0..(Char - 1)
  BY <1>2, RoundTrip
<1>4. C2jniString(a, s) =
        [i \in 1..Size |-> IF i \in 1..strlen(s) THEN Widen(s[i]) ELSE a[i]]
  BY Zenon DEF C2jniString, Copied
<1>5. \A i \in 1..Size : i \in 1..strlen(s) <=> i <= strlen(s)
  BY <1>1
<1>. HIDE DEF strlen
<1>. QED
  BY <1>3, <1>4, <1>5, Zenon

\* Two bytes of a unit make the unit again.
LEMMA HalvesMakeUnit ==
  ASSUME NEW u \in Nat, NEW w \in Nat, w > 0
  PROVE  (u % w) + w * (u \div w) = u
OBVIOUS

\* A file name takes the place of at least two jchars, and of no more than the
\* array has.
LEMMA NameSize == \E h \in 2..Size : NameLen = 2 * h
BY JniArraysAssumption

\* Two bytes make a jchar, and can be had from it again.
LEMMA Jchar ==
  ASSUME NEW low \in Nat, NEW high \in Nat, low < Byte, high < Byte
  PROVE  /\ low + Byte * high \in 0..(Char - 1)
         /\ (low + Byte * high) % Byte = low
         /\ (low + Byte * high) \div Byte = high
         /\ low + Byte * high = low <=> high = 0
<1>1. Byte = 256 /\ Char = 65536
  BY Widths
<1>2. low < 256 /\ high < 256
  BY <1>1, SMT
<1>3. /\ low + 256 * high <= 65535
      /\ (low + 256 * high) % 256 = low
      /\ (low + 256 * high) \div 256 = high
  BY <1>2, SMT
<1>. QED
  BY <1>1, <1>3, SMT

\* The two halves of a jchar are bytes.
LEMMA Halves ==
  ASSUME NEW u \in 0..(Char - 1)
  PROVE  /\ u \in Nat
         /\ u % Byte \in Nat /\ u % Byte < Byte
         /\ u \div Byte \in Nat /\ u \div Byte < Byte
<1>1. Byte = 256 /\ Char = 65536
  BY Widths
<1>2. u \in Nat /\ u <= 65535
  BY <1>1, SMT
<1>3. /\ u % 256 \in Nat /\ u % 256 < 256
      /\ u \div 256 \in Nat /\ u \div 256 < 256
  BY <1>2, SMT
<1>. QED
  BY <1>1, <1>2, <1>3, SMT

\* What bytes make of the jchars that they are laid over.
LEMMA Overlay ==
  ASSUME NEW a \in [1..Size -> 0..(Char - 1)],
         NEW m \in Nat, m <= Size,
         NEW bytes \in Seq(Nat), Len(bytes) = 2 * m, \A k \in 1..(2 * m) : bytes[k] < Byte
  PROVE  /\ Overlaid(a, bytes) \in [1..Size -> 0..(Char - 1)]
         /\ \A i \in 1..Size : Overlaid(a, bytes)[i] =
              IF i <= m THEN bytes[2 * i - 1] + Byte * bytes[2 * i] ELSE a[i]
<1>1. Size \in Nat
  BY Ranges
<1>2. /\ Overlaid(a, bytes) = [i \in 1..Size |-> Overlaid(a, bytes)[i]]
      /\ \A i \in 1..Size : Overlaid(a, bytes)[i] =
           IF 2 * i <= Len(bytes) THEN bytes[2 * i - 1] + Byte * bytes[2 * i] ELSE a[i]
  <2>1. DOMAIN a = 1..Size
    OBVIOUS
  <2>. QED
    BY <2>1, Zenon DEF Overlaid
<1>3. \A i \in 1..Size : Overlaid(a, bytes)[i] =
        IF i <= m THEN bytes[2 * i - 1] + Byte * bytes[2 * i] ELSE a[i]
  <2>1. \A i \in 1..Size : 2 * i <= Len(bytes) <=> i <= m
    BY <1>1
  <2>. QED
    BY <1>2, <2>1
<1>4. ASSUME NEW i \in 1..Size PROVE Overlaid(a, bytes)[i] \in 0..(Char - 1)
  <2>1. CASE i <= m
    <3>1. 2 * i - 1 \in 1..(2 * m) /\ 2 * i \in 1..(2 * m)
      BY <1>1, <2>1
    <3>. DEFINE low == bytes[2 * i - 1]
                high == bytes[2 * i]
    <3>2. low \in Nat /\ high \in Nat /\ low < Byte /\ high < Byte
      BY <3>1
    <3>3. Overlaid(a, bytes)[i] = low + Byte * high
      BY <1>3, <2>1
    <3>. HIDE DEF low, high
    <3>4. low + Byte * high \in 0..(Char - 1)
      BY <3>2, Jchar
    <3>. QED
      BY <3>3, <3>4
  <2>2. CASE ~(i <= m)
    BY <1>3, <2>2
  <2>. QED
    BY <2>1, <2>2
<1>. QED
  BY <1>2, <1>3, <1>4

\* A field of a card in memory, read as jchars, is the field.
LEMMA Laid ==
  ASSUME NEW a \in [1..Size -> 0..(Char - 1)], NEW units \in TupleOf(Units, FieldLen)
  PROVE  /\ units \in Seq(0..(Char - 1)) /\ units \in Seq(Nat) /\ Len(units) = FieldLen
         /\ Overlaid(a, InMemory(units)) \in [1..Size -> 0..(Char - 1)]
         /\ \A i \in 1..Size :
              Overlaid(a, InMemory(units))[i] = IF i <= FieldLen THEN units[i] ELSE a[i]
<1>. DEFINE bytes == InMemory(units)
<1>1. /\ Byte \in Nat /\ Byte > 0 /\ Char \in Nat /\ FieldLen <= Size
      /\ Size \in Nat /\ FieldLen \in Nat /\ Units \subseteq Nat
  BY Widths, Ranges
<1>2. units \in [1..FieldLen -> Units]
  BY Zenon DEF TupleOf
<1>3. Len(units) = FieldLen /\ units \in Seq(Nat)
  BY <1>1, <1>2, Cells
<1>4. \A i \in 1..FieldLen : units[i] \in Nat /\ units[i] \in 0..(Char - 1)
  <2>1. \A u \in Units : u \in Nat /\ u < Char
    BY Ranges, Zenon
  <2>2. \A u \in Units : u \in Nat /\ u \in 0..(Char - 1)
    BY <1>1, <2>1
  <2>. QED
    BY <1>2, <2>2
<1>5. units \in Seq(0..(Char - 1))
  <2>1. units \in [1..FieldLen -> 0..(Char - 1)]
    BY <1>2, <1>4
  <2>. QED
    BY <1>1, <2>1
<1>6. bytes = [k \in 1..(2 * FieldLen) |->
                 IF k % 2 = 1 THEN units[(k + 1) \div 2] % Byte
                              ELSE units[(k + 1) \div 2] \div Byte]
  BY <1>3 DEF InMemory
<1>7. ASSUME NEW i \in 1..FieldLen
      PROVE  bytes[2 * i - 1] + Byte * bytes[2 * i] = units[i]
  <2>1. /\ 2 * i - 1 \in 1..(2 * FieldLen) /\ 2 * i \in 1..(2 * FieldLen)
        /\ (2 * i - 1) % 2 = 1 /\ (2 * i) % 2 # 1
        /\ ((2 * i - 1) + 1) \div 2 = i /\ (2 * i + 1) \div 2 = i
    BY <1>1
  <2>2. bytes[2 * i - 1] = units[i] % Byte
    BY <1>6, <2>1
  <2>3. bytes[2 * i] = units[i] \div Byte
    BY <1>6, <2>1
  <2>4. (units[i] % Byte) + Byte * (units[i] \div Byte) = units[i]
    BY <1>1, <1>4, HalvesMakeUnit
  <2>. QED
    BY <2>2, <2>3, <2>4
<1>8. \A k \in 1..(2 * FieldLen) : bytes[k] \in Nat /\ bytes[k] < Byte
  <2>. SUFFICES ASSUME NEW k \in 1..(2 * FieldLen)
                PROVE  bytes[k] \in Nat /\ bytes[k] < Byte
    OBVIOUS
  <2>1. (k + 1) \div 2 \in 1..FieldLen
    BY <1>1
  <2>. DEFINE u == units[(k + 1) \div 2]
  <2>2. u \in 0..(Char - 1)
    BY <1>4, <2>1
  <2>3. bytes[k] = IF k % 2 = 1 THEN u % Byte ELSE u \div Byte
    BY <1>6
  <2>. HIDE DEF u, bytes
  <2>4. /\ u % Byte \in Nat /\ u % Byte < Byte
        /\ u \div Byte \in Nat /\ u \div Byte < Byte
    BY <2>2, Halves
  <2>. QED
    BY <2>3, <2>4
<1>9. bytes \in Seq(Nat) /\ Len(bytes) = 2 * FieldLen
  <2>1. bytes \in [1..(2 * FieldLen) -> Nat]
    BY <1>6, <1>8
  <2>2. 2 * FieldLen \in Nat
    BY <1>1
  <2>. QED
    BY <2>1, <2>2, Cells
<1>. HIDE DEF bytes
<1>10. /\ Overlaid(a, bytes) \in [1..Size -> 0..(Char - 1)]
       /\ \A i \in 1..Size : Overlaid(a, bytes)[i] =
            IF i <= FieldLen THEN bytes[2 * i - 1] + Byte * bytes[2 * i] ELSE a[i]
  BY <1>1, <1>8, <1>9, Overlay
<1>11. \A i \in 1..Size : i <= FieldLen => i \in 1..FieldLen
  BY <1>1
<1>12. \A i \in 1..Size :
         Overlaid(a, bytes)[i] = IF i <= FieldLen THEN units[i] ELSE a[i]
  BY <1>7, <1>10, <1>11
<1>. QED
  BY <1>3, <1>5, <1>10, <1>12 DEF bytes

\* A file name in its field: bytes, none of them a zero before its end, and one
\* behind it.
LEMMA NameInField ==
  ASSUME NEW name \in BoundedSeq(Bytes, NameLen - 1)
  PROVE  /\ name \in Seq(Nat) /\ Len(name) \in 0..(NameLen - 1)
         /\ \A i \in 1..Len(name) : name[i] \in Nat /\ name[i] # 0 /\ name[i] < Byte
         /\ Padded(name) \in Seq(Nat) /\ Len(Padded(name)) = NameLen
         /\ \A i \in 1..NameLen : /\ Padded(name)[i] = IF i <= Len(name) THEN name[i] ELSE 0
                                  /\ Padded(name)[i] \in Nat /\ Padded(name)[i] < Byte
<1>1. PICK m \in 0..(NameLen - 1) : name \in [1..m -> Bytes]
  BY Zenon DEF BoundedSeq, SeqOf
<1>2. NameLen \in Nat /\ Byte \in Nat /\ 0 < Byte
  BY NameSize, Widths, Ranges
<1>3. m \in Nat /\ Bytes \subseteq Nat
  BY <1>2, Ranges
<1>4. name \in Seq(Nat) /\ Len(name) = m
  BY <1>1, <1>3, Cells
<1>5. \A i \in 1..m : name[i] \in Nat /\ name[i] # 0 /\ name[i] < Byte
  <2>1. \A b \in Bytes : b \in Nat /\ 0 < b /\ b < Byte
    BY Ranges, Zenon
  <2>2. \A b \in Bytes : b \in Nat /\ b # 0 /\ b < Byte
    BY <2>1
  <2>3. \A i \in 1..m : name[i] \in Bytes
    BY <1>1
  <2>. QED
    BY <2>2, <2>3, Zenon
<1>6. Padded(name) = [i \in 1..NameLen |-> IF i <= m THEN name[i] ELSE 0]
  BY <1>4 DEF Padded
<1>7. \A i \in 1..NameLen : /\ Padded(name)[i] = IF i <= m THEN name[i] ELSE 0
                            /\ Padded(name)[i] \in Nat /\ Padded(name)[i] < Byte
  <2>1. \A i \in 1..NameLen : i <= m => i \in 1..m
    BY <1>2, <1>3
  <2>. QED
    BY <1>2, <1>5, <1>6, <2>1
<1>8. Padded(name) \in [1..NameLen -> Nat]
  BY <1>6, <1>7
<1>9. Padded(name) \in Seq(Nat) /\ Len(Padded(name)) = NameLen
  BY <1>2, <1>8, Cells
<1>. QED
  BY <1>1, <1>4, <1>5, <1>7, <1>9

\* The array after a file name was laid over it.
LEMMA NameLaid ==
  ASSUME NEW a \in [1..Size -> 0..(Char - 1)],
         NEW name \in BoundedSeq(Bytes, NameLen - 1)
  PROVE  /\ Overlaid(a, Padded(name)) \in [1..Size -> 0..(Char - 1)]
         /\ \A i \in 1..Size : 2 * i <= NameLen =>
              Overlaid(a, Padded(name))[i] =
                Padded(name)[2 * i - 1] + Byte * Padded(name)[2 * i]
<1>1. PICK h \in 2..Size : NameLen = 2 * h
  BY NameSize
<1>2. h \in Nat /\ h <= Size /\ Size \in Nat
  BY <1>1, Ranges
<1>. DEFINE bytes == Padded(name)
<1>3. bytes \in Seq(Nat) /\ Len(bytes) = 2 * h /\ \A k \in 1..(2 * h) : bytes[k] < Byte
  BY <1>1, NameInField
<1>. HIDE DEF bytes
<1>4. /\ Overlaid(a, bytes) \in [1..Size -> 0..(Char - 1)]
      /\ \A i \in 1..Size : Overlaid(a, bytes)[i] =
           IF i <= h THEN bytes[2 * i - 1] + Byte * bytes[2 * i] ELSE a[i]
  BY <1>2, <1>3, Overlay
<1>5. \A i \in 1..Size : 2 * i <= NameLen => i <= h
  BY <1>1, <1>2
<1>. QED
  BY <1>4, <1>5 DEF bytes

\* Numbers below 2^16 are jchars.
LEMMA IsJchar ==
  ASSUME NEW v \in Nat, v <= 65535
  PROVE  v \in 0..(Char - 1)
<1>1. Char - 1 = 65535
  BY Widths, SMT
<1>. QED
  BY <1>1, SMT

\* What is left of a jchar when one byte is stored in it.
LEMMA OneByte ==
  ASSUME NEW u \in 0..(Char - 1), NEW b \in Nat, b < Byte
  PROVE  /\ b \in 0..(Char - 1)
         /\ Byte * (u \div Byte) + b \in 0..(Char - 1)
         /\ Byte * (u \div Byte) + b = b <=> u < Byte
<1>1. Byte = 256 /\ Char = 65536
  BY Widths
<1>2. u \in Nat /\ u <= 65535 /\ b < 256
  BY <1>1, SMT
<1>3. /\ 256 * (u \div 256) + b \in Nat /\ 256 * (u \div 256) + b <= 65535
      /\ 256 * (u \div 256) + b = b <=> u < 256
  BY <1>2, SMT
<1>4. PICK v \in Nat : v = Byte * (u \div Byte) + b /\ v <= 65535 /\ (v = b <=> u < Byte)
  BY <1>1, <1>3, SMT
<1>5. v \in 0..(Char - 1)
  BY <1>4, IsJchar
<1>6. b \in 0..(Char - 1)
  <2>1. b <= 65535
    BY <1>2, SMT
  <2>. QED
    BY <2>1, IsJchar
<1>. QED
  BY <1>4, <1>5, <1>6, SMT

\* The array after the type was stored in it.
LEMMA TypeStored ==
  ASSUME NEW a \in [1..Size -> 0..(Char - 1)], NEW b \in Bytes
  PROVE  /\ <<b>> \in Seq(0..(Char - 1))
         /\ LowByte(a, b) \in [1..Size -> 0..(Char - 1)]
         /\ LowByte(a, b)[1] = b <=> a[1] < Byte
<1>1. 1 \in 1..Size
  <2>1. Size \in Nat /\ 5 <= Size
    BY Ranges, Widths
  <2>. QED
    BY <2>1
<1>2. b \in Nat /\ b < Byte
  BY Ranges
<1>. DEFINE S == 0..(Char - 1)
            u == a[1]
            new == Byte * (u \div Byte) + b
<1>3. u \in S
  BY <1>1
<1>4. b \in S /\ new \in S /\ (new = b <=> u < Byte)
  BY <1>2, <1>3, OneByte
<1>5. LowByte(a, b) = [a EXCEPT ![1] = new]
  BY DEF LowByte
<1>. HIDE DEF S, u, new
<1>6. a \in [1..Size -> S]
  BY DEF S
<1>7. LowByte(a, b)[1] = new /\ LowByte(a, b) \in [1..Size -> S]
  BY <1>1, <1>4, <1>5, <1>6
<1>8. <<b>> \in Seq(S)
  BY <1>4
<1>. QED
  BY <1>4, <1>7, <1>8 DEF S, u

-----------------------------------------------------------------------------
(* The invariant is inductive.                                             *)

\* A new array of Java is all zeros.
LEMMA InitInv == Init => TypeOK /\ ArrayInv
<1>. SUFFICES ASSUME Init PROVE TypeOK /\ ArrayInv
  OBVIOUS
<1>1. Zeros \in [1..Size -> 0..(Char - 1)]
  <2>1. Char \in Nat /\ 0 <= Char - 1
    BY Widths
  <2>2. 0 \in 0..(Char - 1)
    BY <2>1
  <2>. QED
    BY <2>2 DEF Zeros
<1>. QED
  BY <1>1 DEF Init, TypeOK, ArrayInv

\* Nothing changes whether char is signed, so a conversion stays what it was.
LEMMA SameConversion ==
  ASSUME signed' = signed
  PROVE  \A a, s : C2jniString(a, s)' = C2jniString(a, s)
BY Zenon DEF C2jniString, Copied, Widen

\* A function on the numbers from 1 to n is a sequence.
LEMMA Sequence ==
  ASSUME NEW n \in Nat, NEW S, NEW s \in [1..n -> S]
  PROVE  s \in Seq(S)
OBVIOUS

\* Bytes are 16-bit units.
LEMMA BytesAreUnits ==
  ASSUME NEW s \in Seq(Nat), \A i \in 1..Len(s) : s[i] < Byte
  PROVE  s \in Seq(0..(Char - 1))
<1>1. Byte \in Nat /\ Char \in Nat /\ Byte <= Char
  BY Widths
<1>2. \A i \in 1..Len(s) : s[i] \in 0..(Char - 1)
  <2>1. \A i \in 1..Len(s) : s[i] \in Nat
    OBVIOUS
  <2>. QED
    BY <1>1, <2>1
<1>3. PICK n \in Nat : n = Len(s)
  OBVIOUS
<1>4. s \in [1..n -> 0..(Char - 1)]
  BY <1>2, <1>3
<1>. QED
  BY <1>4, Sequence, Zenon

\* Every call of IDSDriver_jni.cpp preserves the invariant.
LEMMA NextInv == TypeOK /\ ArrayInv /\ [Next]_vars => TypeOK' /\ ArrayInv'
<1>. SUFFICES ASSUME TypeOK, ArrayInv, [Next]_vars PROVE TypeOK' /\ ArrayInv'
  OBVIOUS
<1>0. /\ signed \in BOOLEAN
      /\ array \in [1..Size -> 0..(Char - 1)]
  BY DEF TypeOK
<1>1. ASSUME getText PROVE TypeOK' /\ ArrayInv'
  <2>1. PICK szc \in BoundedSeq(Bytes, MaxText) :
          Write("text", szc, C2jniString(array, szc))
    BY <1>1 DEF getText
  <2>2. /\ szc \in Seq(Nat) /\ Len(szc) <= Size
        /\ \A i \in 1..Len(szc) : szc[i] \in Nat /\ szc[i] < Byte
    BY CopiedText, Ranges
  <2>3. C2jniString(array, szc) \in [1..Size -> 0..(Char - 1)]
    BY <1>0, <2>2, Filled
  <2>4. szc \in Seq(0..(Char - 1))
    BY <2>2, BytesAreUnits
  <2>5. \A a, s : C2jniString(a, s)' = C2jniString(a, s)
    BY <2>1, SameConversion DEF Write
  <2>. QED
    BY <1>0, <2>1, <2>3, <2>4, <2>5 DEF Write, TypeOK, ArrayInv
<1>2. ASSUME getStatus PROVE TypeOK' /\ ArrayInv'
  <2>1. PICK szStatus \in TupleOf({0, 1}, Flags) :
          Write("status", szStatus, C2jniString(array, szStatus))
    BY <1>2 DEF getStatus
  <2>2. /\ szStatus \in Seq(Nat) /\ Len(szStatus) <= Size
        /\ \A i \in 1..Len(szStatus) : szStatus[i] < Byte
    BY StatusText, Ranges
  <2>3. C2jniString(array, szStatus) \in [1..Size -> 0..(Char - 1)]
    BY <1>0, <2>2, Filled
  <2>4. szStatus \in Seq(0..(Char - 1))
    BY <2>2, BytesAreUnits
  <2>5. \A a, s : C2jniString(a, s)' = C2jniString(a, s)
    BY <2>1, SameConversion DEF Write
  <2>. QED
    BY <1>0, <2>1, <2>3, <2>4, <2>5 DEF Write, TypeOK, ArrayInv
<1>3. ASSUME readField PROVE TypeOK' /\ ArrayInv'
  <2>1. PICK units \in TupleOf(Units, FieldLen) :
          Write("field", units, Overlaid(array, InMemory(units)))
    BY <1>3 DEF readField, TransIDCard_Self
  <2>2. /\ units \in Seq(0..(Char - 1))
        /\ Overlaid(array, InMemory(units)) \in [1..Size -> 0..(Char - 1)]
    BY <1>0, Laid
  <2>. QED
    BY <1>0, <2>1, <2>2 DEF Write, TypeOK, ArrayInv
<1>4. ASSUME readName PROVE TypeOK' /\ ArrayInv'
  <2>1. PICK name \in BoundedSeq(Bytes, NameLen - 1) :
          Write("name", name, Overlaid(array, Padded(name)))
    BY <1>4 DEF readName
  <2>2. name \in Seq(Nat) /\ \A i \in 1..Len(name) : name[i] < Byte
    BY NameInField
  <2>3. name \in Seq(0..(Char - 1))
    BY <2>2, BytesAreUnits
  <2>4. Overlaid(array, Padded(name)) \in [1..Size -> 0..(Char - 1)]
    BY <1>0, NameLaid
  <2>. QED
    BY <1>0, <2>1, <2>3, <2>4 DEF Write, TypeOK, ArrayInv
<1>5. ASSUME readType PROVE TypeOK' /\ ArrayInv'
  <2>1. PICK ucType \in Bytes : Write("type", <<ucType>>, LowByte(array, ucType))
    BY <1>5 DEF readType
  <2>2. /\ <<ucType>> \in Seq(0..(Char - 1))
        /\ LowByte(array, ucType) \in [1..Size -> 0..(Char - 1)]
    BY <1>0, TypeStored
  <2>. QED
    BY <1>0, <2>1, <2>2 DEF Write, TypeOK, ArrayInv
<1>6. ASSUME init PROVE TypeOK' /\ ArrayInv'
  <2>1. Jni2cString(array) \in [1..Size -> 0..(Byte - 1)]
    <3>1. Byte \in Nat /\ Byte > 0
      BY Widths
    <3>2. \A i \in 1..Size : array[i] \in Nat
      BY <1>0, Ranges
    <3>3. \A i \in 1..Size : Narrow(array[i]) \in 0..(Byte - 1)
      BY <3>1, <3>2 DEF Narrow
    <3>. QED
      BY <1>0, <3>3 DEF Jni2cString
  <2>2. \A a, s : C2jniString(a, s)' = C2jniString(a, s)
    BY <1>6, SameConversion DEF init
  <2>3. TypeOK'
    BY <1>6, <2>1 DEF init, TypeOK
  <2>4. ArrayInv'
    BY <1>6, <2>2 DEF init, ArrayInv
  <2>. QED
    BY <2>3, <2>4
<1>7. ASSUME NewArray PROVE TypeOK' /\ ArrayInv'
  <2>1. Zeros \in [1..Size -> 0..(Char - 1)]
    <3>1. Char \in Nat /\ 0 <= Char - 1
      BY Widths
    <3>2. 0 \in 0..(Char - 1)
      BY <3>1
    <3>. QED
      BY <3>2 DEF Zeros
  <2>. QED
    BY <1>7, <2>1 DEF NewArray, TypeOK, ArrayInv
<1>8. ASSUME UNCHANGED vars PROVE TypeOK' /\ ArrayInv'
  <2>1. \A a, s : C2jniString(a, s)' = C2jniString(a, s)
    BY <1>8, SameConversion DEF vars
  <2>. QED
    BY <1>8, <2>1 DEF vars, TypeOK, ArrayInv
<1>. QED
  BY <1>1, <1>2, <1>3, <1>4, <1>5, <1>6, <1>7, <1>8 DEF Next, readRF

\* Invariance: what the array holds is what the last call has made of what it
\* held before, and a path is what init reads in it.
THEOREM Invariance == Spec => [](TypeOK /\ ArrayInv)
BY InitInv, NextInv, PTL DEF Spec

\* TypeCorrect: every variable of JniArrays stays in its type: what the
\* conversions of IDSDriver_jni.cpp make of a text fits in the jchars of the
\* Java array, for either signedness of char.
THEOREM TypeCorrect == Spec => []TypeOK
BY Invariance, PTL

-----------------------------------------------------------------------------
(* The properties.                                                         *)

\* The first n chars are what C and Java take an array to be, if Before says
\* that they end there.
LEMMA TextIs ==
  ASSUME NEW s \in Seq(Nat), NEW n, Before(s, n),
         NEW t \in Seq(Nat), Len(t) = n, \A i \in 1..n : s[i] = t[i]
  PROVE  Text(s) = t
<1>1. Text(s) = SubSeq(s, 1, n)
  BY StrlenIs DEF Text
<1>2. n \in Nat /\ n <= Len(s)
  BY DEF Before
<1>3. SubSeq(s, 1, n) \in Seq(Nat) /\ Len(SubSeq(s, 1, n)) = n
  BY <1>2
<1>4. \A i \in 1..n : SubSeq(s, 1, n)[i] = s[i]
  BY <1>2
<1>. QED
  BY <1>1, <1>3, <1>4

\* The array after getDevInfo or scan: the text, none of it a zero, and what
\* was there behind it.
LEMMA AfterText ==
  ASSUME TypeOK, ArrayInv, last = "text"
  PROVE  /\ sent \in Seq(Nat) /\ Len(sent) \in 0..Size
         /\ \A i \in 1..Len(sent) : sent[i] \in Nat /\ sent[i] # 0 /\ sent[i] < Byte
         /\ array \in Seq(Nat) /\ Len(array) = Size /\ DOMAIN array = 1..Size
         /\ \A i \in 1..Len(sent) : array[i] = Widen(sent[i])
         /\ \A i \in 1..Size : i > Len(sent) => array[i] = was[i]
<1>0. /\ array \in [1..Size -> 0..(Char - 1)]
      /\ was \in [1..Size -> 0..(Char - 1)]
  BY DEF TypeOK
<1>1. sent \in BoundedSeq(Bytes, MaxText) /\ array = C2jniString(was, sent)
  BY DEF ArrayInv
<1>2. /\ sent \in Seq(Nat) /\ Len(sent) \in 0..Size /\ strlen(sent) = Len(sent)
      /\ \A i \in 1..Len(sent) : sent[i] \in Nat /\ sent[i] # 0 /\ sent[i] < Byte
  BY <1>1, CopiedText
<1>3. Size \in Nat /\ Len(sent) \in Nat /\ Len(sent) <= Size
  BY <1>2, Ranges
<1>4. \A i \in 1..Size :
         array[i] = IF i <= strlen(sent) THEN Widen(sent[i]) ELSE was[i]
  BY <1>0, <1>1, <1>2, <1>3, Filled
<1>5. array \in Seq(Nat) /\ Len(array) = Size /\ DOMAIN array = 1..Size
  BY <1>0, <1>3, Cells, Ranges
<1>6. \A i \in 1..Len(sent) : array[i] = Widen(sent[i])
  <2>1. \A i \in 1..Len(sent) : i \in 1..Size /\ i <= Len(sent)
    BY <1>3
  <2>. QED
    BY <1>2, <1>4, <2>1
<1>7. \A i \in 1..Size : i > Len(sent) => array[i] = was[i]
  <2>1. \A i \in 1..Size : i > Len(sent) => ~(i <= Len(sent))
    BY <1>3
  <2>. QED
    BY <1>2, <1>4, <2>1
<1>. QED
  BY <1>2, <1>5, <1>6, <1>7

\* TextRead: what Java reads after getDevInfo or scan begins with the text of
\* the driver, and is that text if the array was new (C2jniString).
THEOREM TextRead == Spec => []TextReadable
<1>1. ASSUME TypeOK, ArrayInv PROVE TextReadable
  <2>. SUFFICES ASSUME last = "text"
                PROVE  /\ IsPrefix([i \in 1..Len(sent) |-> Widen(sent[i])], Text(array))
                       /\ was = Zeros =>
                            Text(array) = [i \in 1..Len(sent) |-> Widen(sent[i])]
    BY DEF TextReadable
  <2>. DEFINE n == Len(sent)
              text == [i \in 1..n |-> Widen(sent[i])]
              m == strlen(array)
  <2>1. /\ n \in 0..Size
        /\ \A i \in 1..n : sent[i] \in Nat /\ sent[i] # 0 /\ sent[i] < Byte
        /\ array \in Seq(Nat) /\ Len(array) = Size /\ DOMAIN array = 1..Size
        /\ \A i \in 1..n : array[i] = Widen(sent[i])
        /\ \A i \in 1..Size : i > n => array[i] = was[i]
    BY <1>1, AfterText
  <2>2. Size \in Nat /\ n \in Nat /\ n <= Size
    BY <2>1, Ranges
  <2>3. \A i \in 1..n : Widen(sent[i]) \in Nat /\ Widen(sent[i]) # 0
    <3>1. \A i \in 1..n : Widen(sent[i]) \in 0..(Char - 1) /\ Widen(sent[i]) # 0
      BY <2>1, RoundTrip
    <3>. QED
      BY <3>1, Ranges
  <2>4. text \in Seq(Nat) /\ Len(text) = n /\ \A i \in 1..n : text[i] = array[i]
    <3>1. text \in [1..n -> Nat]
      BY <2>3
    <3>2. \A i \in 1..n : text[i] = array[i]
      BY <2>1
    <3>. HIDE DEF text, n
    <3>. QED
      BY <2>2, <3>1, <3>2, Cells
  <2>5. Before(array, m)
    BY <2>1, StrlenExists
  <2>. HIDE DEF text, m, n
  <2>6. m \in Nat /\ m <= Size /\ n <= m
    <3>1. m \in Nat /\ m <= Size /\ (m < Size => array[m + 1] = 0)
      BY <2>1, <2>2, <2>5 DEF Before
    <3>2. m < n => m + 1 \in 1..n /\ m < Size
      BY <2>2, <3>1
    <3>3. ~(m < n)
      BY <2>1, <2>3, <3>1, <3>2
    <3>. QED
      BY <2>2, <3>1, <3>3
  <2>7. IsPrefix(text, Text(array))
    <3>1. Text(array) = SubSeq(array, 1, m)
      BY DEF Text, m
    <3>2. /\ SubSeq(array, 1, m) \in Seq(Nat) /\ Len(SubSeq(array, 1, m)) = m
          /\ \A i \in 1..m : SubSeq(array, 1, m)[i] = array[i]
      BY <2>1, <2>2, <2>6
    <3>. DEFINE read == SubSeq(array, 1, m)
    <3>. HIDE DEF read
    <3>3. SubSeq(text, 1, n) = SubSeq(read, 1, n)
      <4>1. /\ read \in Seq(Nat) /\ Len(read) = m
            /\ \A i \in 1..m : read[i] = array[i]
        BY <3>2 DEF read
      <4>2. /\ SubSeq(text, 1, n) \in Seq(Nat) /\ Len(SubSeq(text, 1, n)) = n
            /\ \A i \in 1..n : SubSeq(text, 1, n)[i] = text[i]
        BY <2>2, <2>4
      <4>3. /\ SubSeq(read, 1, n) \in Seq(Nat) /\ Len(SubSeq(read, 1, n)) = n
            /\ \A i \in 1..n : SubSeq(read, 1, n)[i] = read[i]
        BY <2>2, <2>6, <4>1
      <4>4. \A i \in 1..n : read[i] = text[i]
        <5>1. \A i \in 1..n : i \in 1..m
          BY <2>2, <2>6
        <5>. QED
          BY <2>4, <4>1, <5>1
      <4>. QED
        BY <4>2, <4>3, <4>4
    <3>. QED
      BY <2>4, <2>6, <3>1, <3>2, <3>3 DEF IsPrefix, read
  <2>8. was = Zeros => Text(array) = text
    <3>. SUFFICES ASSUME was = Zeros PROVE Text(array) = text
      OBVIOUS
    <3>1. n < Size => array[n + 1] = 0
      <4>1. n < Size => n + 1 \in 1..Size /\ n + 1 > n
        BY <2>2
      <4>. QED
        BY <2>1, <4>1 DEF Zeros
    <3>2. Before(array, n)
      BY <2>1, <2>2, <2>3, <3>1 DEF Before
    <3>. QED
      BY <2>1, <2>4, <3>2, TextIs
  <2>. QED
    BY <2>7, <2>8 DEF text, n
<1>. QED
  BY Invariance, <1>1, PTL

\* PathKept: the path that init makes of an array in which the driver wrote a
\* file name is that name, byte for byte: Jni2cString undoes C2jniString,
\* whether char is signed or not.
THEOREM PathKept == Spec => []PathSurvives
<1>1. ASSUME TypeOK, ArrayInv PROVE PathSurvives
  <2>. SUFFICES ASSUME last = "text", was = Zeros, path # <<>>
                PROVE  Text(path) = sent
    BY DEF PathSurvives
  <2>. DEFINE n == Len(sent)
  <2>1. /\ sent \in Seq(Nat) /\ n \in 0..Size
        /\ \A i \in 1..n : sent[i] \in Nat /\ sent[i] # 0 /\ sent[i] < Byte
        /\ array \in Seq(Nat) /\ Len(array) = Size /\ DOMAIN array = 1..Size
        /\ \A i \in 1..n : array[i] = Widen(sent[i])
        /\ \A i \in 1..Size : i > n => array[i] = was[i]
    BY <1>1, AfterText
  <2>2. Size \in Nat /\ n \in Nat /\ n <= Size /\ Byte \in Nat /\ Byte > 0
    BY <2>1, Ranges, Widths
  <2>. HIDE DEF n
  <2>3. path = [i \in 1..Size |-> Narrow(array[i])]
    BY <1>1, <2>1 DEF ArrayInv, Jni2cString
  <2>4. \A i \in 1..n : path[i] = sent[i]
    <3>1. \A i \in 1..n : i \in 1..Size /\ Narrow(Widen(sent[i])) = sent[i]
      BY <2>1, <2>2, RoundTrip
    <3>. QED
      BY <2>1, <2>3, <3>1
  <2>5. n < Size => path[n + 1] = 0
    <3>1. n < Size => n + 1 \in 1..Size /\ n + 1 > n
      BY <2>2
    <3>2. Narrow(0) = 0
      BY <2>2 DEF Narrow
    <3>. QED
      BY <2>1, <2>3, <3>1, <3>2 DEF Zeros
  <2>6. path \in Seq(Nat) /\ Len(path) = Size
    <3>1. \A i \in 1..Size : Narrow(array[i]) \in Nat
      BY <2>1, <2>2 DEF Narrow
    <3>2. path \in [1..Size -> Nat]
      BY <2>3, <3>1
    <3>. QED
      BY <2>2, <3>2, Cells
  <2>7. Before(path, n)
    BY <2>1, <2>2, <2>4, <2>5, <2>6 DEF Before
  <2>. QED
    BY <2>1, <2>4, <2>6, <2>7, TextIs DEF n
<1>. QED
  BY Invariance, <1>1, PTL

\* StatusRead: in an array that was new, Java reads the five sensors of
\* getStatus right exactly if no sensor that is 1 comes after one that is 0.
THEOREM StatusRead == Spec => []StatusReadable
<1>1. ASSUME TypeOK, ArrayInv PROVE StatusReadable
  <2>. SUFFICES ASSUME last = "status", was = Zeros
                PROVE  (\A i \in 1..Flags : array[i] = sent[i]) <=>
                         \A i, j \in 1..Flags : i < j /\ sent[i] = 0 => sent[j] = 0
    BY DEF StatusReadable
  <2>. DEFINE m == strlen(sent)
  <2>1. sent \in TupleOf({0, 1}, Flags) /\ array = C2jniString(was, sent)
    BY <1>1 DEF ArrayInv
  <2>2. /\ sent \in Seq(Nat) /\ Len(sent) = Flags
        /\ \A i \in 1..Flags : sent[i] \in {0, 1} /\ sent[i] < Byte
    BY <2>1, StatusText
  <2>3. Flags \in Nat /\ Size \in Nat /\ Flags <= Size
    BY Ranges, Widths
  <2>4. Before(sent, m)
    BY <2>2, StrlenExists
  <2>. HIDE DEF m
  <2>5. m \in Nat /\ m <= Flags
    BY <2>2, <2>3, <2>4 DEF Before
  <2>6. \A i \in 1..Flags : array[i] = IF i <= m THEN sent[i] ELSE 0
    <3>1. was \in [1..Size -> 0..(Char - 1)]
      BY <1>1 DEF TypeOK
    <3>2. \A i \in 1..Size : array[i] = IF i <= m THEN Widen(sent[i]) ELSE was[i]
      BY <2>1, <2>2, <2>3, <3>1, Filled DEF m
    <3>3. \A i \in 1..Flags : i \in 1..Size /\ Widen(sent[i]) = sent[i] /\ was[i] = 0
      BY <2>2, <2>3, Flag DEF Zeros
    <3>. QED
      BY <3>2, <3>3
  <2>7. ASSUME \A i \in 1..Flags : array[i] = sent[i],
               NEW i \in 1..Flags, NEW j \in 1..Flags, i < j, sent[i] = 0
        PROVE  sent[j] = 0
    <3>1. ~(i <= m)
      BY <2>4, <2>5, <2>7 DEF Before
    <3>2. ~(j <= m)
      BY <2>3, <2>5, <2>7, <3>1
    <3>. QED
      BY <2>6, <2>7, <3>2
  <2>8. ASSUME \A i, j \in 1..Flags : i < j /\ sent[i] = 0 => sent[j] = 0,
               NEW i \in 1..Flags
        PROVE  array[i] = sent[i]
    <3>1. CASE i <= m
      BY <2>6, <3>1
    <3>2. CASE ~(i <= m)
      <4>1. m < Flags /\ m + 1 \in 1..Flags /\ (m + 1 = i \/ m + 1 < i)
        BY <2>3, <2>5, <3>2
      <4>2. sent[m + 1] = 0
        BY <2>2, <2>4, <4>1 DEF Before
      <4>3. sent[i] = 0
        BY <2>8, <4>1, <4>2
      <4>. QED
        BY <2>6, <3>2, <4>3
    <3>. QED
      BY <3>1, <3>2
  <2>. QED
    BY <2>7, <2>8
<1>. QED
  BY Invariance, <1>1, PTL

\* FieldRead: Java gets a wide field of the card, of any length and in any
\* array, as the chip holds it: what readRF copies is the card that the driver
\* left untranslated, gender and nation as codes.
THEOREM FieldRead == Spec => []FieldReadable
<1>1. ASSUME TypeOK, ArrayInv PROVE FieldReadable
  <2>. SUFFICES ASSUME last = "field"
                PROVE  /\ \A i \in 1..FieldLen : array[i] = sent[i]
                       /\ strlen(sent) < FieldLen => Text(array) = Text(sent)
    BY DEF FieldReadable
  <2>1. sent \in TupleOf(Units, FieldLen) /\ array = Overlaid(was, InMemory(sent))
    BY <1>1 DEF ArrayInv
  <2>2. array \in [1..Size -> 0..(Char - 1)] /\ was \in [1..Size -> 0..(Char - 1)]
    BY <1>1 DEF TypeOK
  <2>3. FieldLen \in Nat /\ Size \in Nat /\ FieldLen <= Size
    BY Ranges
  <2>4. /\ sent \in Seq(Nat) /\ Len(sent) = FieldLen
        /\ \A i \in 1..Size : array[i] = IF i <= FieldLen THEN sent[i] ELSE was[i]
    BY <2>1, <2>2, Laid
  <2>5. \A i \in 1..FieldLen : array[i] = sent[i]
    BY <2>3, <2>4
  <2>6. array \in Seq(Nat) /\ Len(array) = Size
    BY <2>2, <2>3, Cells, Ranges
  <2>. DEFINE n == strlen(sent)
  <2>7. Before(sent, n)
    BY <2>4, StrlenExists
  <2>8. Text(sent) = SubSeq(sent, 1, n)
    BY DEF Text
  <2>. HIDE DEF n
  <2>9. ASSUME n < FieldLen PROVE Text(array) = Text(sent)
    <3>1. n \in Nat /\ n + 1 \in 1..FieldLen /\ \A i \in 1..n : i \in 1..FieldLen
      BY <2>3, <2>4, <2>7, <2>9 DEF Before
    <3>2. Before(array, n)
      BY <2>3, <2>4, <2>5, <2>6, <2>7, <2>9, <3>1 DEF Before
    <3>3. /\ SubSeq(sent, 1, n) \in Seq(Nat) /\ Len(SubSeq(sent, 1, n)) = n
          /\ \A i \in 1..n : SubSeq(sent, 1, n)[i] = sent[i]
      BY <2>3, <2>4, <2>9, <3>1
    <3>4. \A i \in 1..n : array[i] = SubSeq(sent, 1, n)[i]
      BY <2>5, <3>1, <3>3
    <3>. DEFINE t == SubSeq(sent, 1, n)
    <3>. HIDE DEF t
    <3>5. t \in Seq(Nat) /\ Len(t) = n /\ \A i \in 1..n : array[i] = t[i]
      BY <3>3, <3>4 DEF t
    <3>6. Text(array) = t
      BY <2>6, <3>2, <3>5, TextIs
    <3>. QED
      BY <2>8, <3>6 DEF t
  <2>. QED
    BY <2>5, <2>9 DEF n
<1>. QED
  BY Invariance, <1>1, PTL

\* The bytes of an array over which a file name was laid: the name, and a zero.
LEMMA NameBytes ==
  ASSUME TypeOK, ArrayInv, last = "name"
  PROVE  /\ InMemory(array) \in Seq(Nat) /\ Len(InMemory(array)) = 2 * Size
         /\ \A k \in 1..NameLen : InMemory(array)[k] = Padded(sent)[k]
<1>1. sent \in BoundedSeq(Bytes, NameLen - 1) /\ array = Overlaid(was, Padded(sent))
  BY DEF ArrayInv
<1>2. array \in [1..Size -> 0..(Char - 1)] /\ was \in [1..Size -> 0..(Char - 1)]
  BY DEF TypeOK
<1>3. PICK h \in 2..Size : NameLen = 2 * h
  BY NameSize
<1>4. /\ Size \in Nat /\ h \in Nat /\ h <= Size /\ NameLen \in Nat
      /\ Byte \in Nat
  BY <1>3, Ranges, Widths
<1>5. Len(array) = Size
  BY <1>2, <1>4, Cells, Ranges
<1>6. InMemory(array) =
        [k \in 1..(2 * Size) |-> IF k % 2 = 1 THEN array[(k + 1) \div 2] % Byte
                                              ELSE array[(k + 1) \div 2] \div Byte]
  BY <1>5 DEF InMemory
<1>7. InMemory(array) \in [1..(2 * Size) -> Nat]
  <2>1. ASSUME NEW k \in 1..(2 * Size)
        PROVE  /\ array[(k + 1) \div 2] % Byte \in Nat
               /\ array[(k + 1) \div 2] \div Byte \in Nat
    <3>1. (k + 1) \div 2 \in 1..Size
      BY <1>4
    <3>2. array[(k + 1) \div 2] \in 0..(Char - 1)
      BY <1>2, <3>1
    <3>. QED
      BY <3>2, Halves
  <2>. QED
    BY <1>6, <2>1
<1>8. InMemory(array) \in Seq(Nat) /\ Len(InMemory(array)) = 2 * Size
  <2>1. 2 * Size \in Nat
    BY <1>4
  <2>. QED
    BY <1>7, <2>1, Cells
<1>9. ASSUME NEW k \in 1..NameLen PROVE InMemory(array)[k] = Padded(sent)[k]
  <2>. DEFINE i == (k + 1) \div 2
              low == Padded(sent)[2 * i - 1]
              high == Padded(sent)[2 * i]
  <2>1. /\ i \in 1..h /\ i \in 1..Size /\ k \in 1..(2 * Size) /\ 2 * i <= NameLen
        /\ 2 * i - 1 \in 1..NameLen /\ 2 * i \in 1..NameLen
        /\ k % 2 = 1 => k = 2 * i - 1
        /\ k % 2 # 1 => k = 2 * i
    BY <1>3, <1>4
  <2>2. InMemory(array)[k] = IF k % 2 = 1 THEN array[i] % Byte ELSE array[i] \div Byte
    BY <1>6, <2>1
  <2>. HIDE DEF i
  <2>3. low \in Nat /\ high \in Nat /\ low < Byte /\ high < Byte
    BY <1>1, <2>1, NameInField
  <2>4. array[i] = low + Byte * high
    BY <1>1, <1>2, <2>1, NameLaid
  <2>5. Padded(sent)[k] = IF k % 2 = 1 THEN low ELSE high
    BY <2>1
  <2>. HIDE DEF low, high
  <2>6. array[i] % Byte = low /\ array[i] \div Byte = high
    BY <2>3, <2>4, Jchar
  <2>. QED
    BY <2>2, <2>5, <2>6
<1>. QED
  BY <1>8, <1>9

\* BytesRead: the bytes of an array, of whatever length and content, give back
\* the file name that readRF copied into it; its chars do so only for a name of
\* one byte or none; and the type can be read as a char exactly if the array's
\* first char was a byte.
THEOREM BytesRead == Spec => []BytesReadable
<1>1. ASSUME TypeOK, ArrayInv, last = "name"
      PROVE  Text(InMemory(array)) = sent /\ (Text(array) = sent <=> Len(sent) <= 1)
  <2>. DEFINE n == Len(sent)
              p == Padded(sent)
  <2>1. sent \in BoundedSeq(Bytes, NameLen - 1) /\ array = Overlaid(was, p)
    BY <1>1 DEF ArrayInv
  <2>2. /\ sent \in Seq(Nat) /\ n \in 0..(NameLen - 1)
        /\ \A i \in 1..n : sent[i] \in Nat /\ sent[i] # 0 /\ sent[i] < Byte
        /\ \A i \in 1..NameLen : p[i] = IF i <= n THEN sent[i] ELSE 0
    BY <2>1, NameInField
  <2>3. array \in [1..Size -> 0..(Char - 1)] /\ was \in [1..Size -> 0..(Char - 1)]
    BY <1>1 DEF TypeOK
  <2>4. /\ Size \in Nat /\ Size >= 2 /\ NameLen \in Nat /\ NameLen >= 4
        /\ NameLen <= 2 * Size /\ n \in Nat /\ n < NameLen
    BY <2>2, NameSize, Ranges
  <2>5. array \in Seq(Nat) /\ Len(array) = Size
    BY <2>3, <2>4, Cells, Ranges
  <2>. HIDE DEF n, p
  <2>6. Text(InMemory(array)) = sent
    <3>. DEFINE m == InMemory(array)
    <3>1. m \in Seq(Nat) /\ Len(m) = 2 * Size /\ \A k \in 1..NameLen : m[k] = p[k]
      BY <1>1, NameBytes DEF p
    <3>. HIDE DEF m
    <3>2. \A i \in 1..n : i \in 1..NameLen /\ m[i] = sent[i]
      BY <2>2, <2>4, <3>1
    <3>3. m[n + 1] = 0
      <4>1. n + 1 \in 1..NameLen /\ ~(n + 1 <= n)
        BY <2>4
      <4>. QED
        BY <2>2, <3>1, <4>1
    <3>4. Before(m, n)
      BY <2>2, <2>4, <3>1, <3>2, <3>3 DEF Before
    <3>5. Text(m) = sent
      BY <2>2, <3>1, <3>2, <3>4, TextIs DEF n
    <3>. QED
      BY <3>5 DEF m
  <2>7. array[1] = p[1] + Byte * p[2] /\ array[2] = p[3] + Byte * p[4]
    <3>1. 1 \in 1..Size /\ 2 * 1 <= NameLen /\ 2 \in 1..Size /\ 2 * 2 <= NameLen
      BY <2>4
    <3>2. /\ array[1] = p[2 * 1 - 1] + Byte * p[2 * 1]
          /\ array[2] = p[2 * 2 - 1] + Byte * p[2 * 2]
      BY <2>1, <2>3, <3>1, NameLaid DEF p
    <3>. QED
      BY <2>4, <3>2
  <2>8. 1 \in 1..NameLen /\ 2 \in 1..NameLen /\ 3 \in 1..NameLen /\ 4 \in 1..NameLen
    BY <2>4
  <2>9. ASSUME n <= 1 PROVE Text(array) = sent
    <3>1. p[2] = 0 /\ p[3] = 0 /\ p[4] = 0 /\ p[1] = IF n = 1 THEN sent[1] ELSE 0
      BY <2>2, <2>4, <2>8, <2>9
    <3>2. array[2] = 0 /\ array[1] = p[1]
      <4>1. Byte \in Nat /\ p[1] \in Nat
        BY <2>2, <2>4, <2>8, <3>1, Widths
      <4>. QED
        BY <2>7, <3>1, <4>1
    <3>3. Before(array, n)
      BY <2>2, <2>4, <2>5, <2>9, <3>1, <3>2 DEF Before
    <3>4. \A i \in 1..n : array[i] = sent[i]
      BY <2>4, <2>9, <3>1, <3>2
    <3>. QED
      BY <2>2, <2>5, <3>3, <3>4, TextIs DEF n
  <2>10. ASSUME n > 1 PROVE Text(array) # sent
    <3>1. /\ p[1] = sent[1] /\ p[2] = sent[2] /\ sent[2] # 0
          /\ sent[1] \in Nat /\ sent[2] \in Nat /\ sent[1] < Byte /\ sent[2] < Byte
      BY <2>2, <2>4, <2>8, <2>10
    <3>2. array[1] # sent[1]
      BY <2>7, <3>1, Jchar
    <3>. DEFINE m == strlen(array)
    <3>3. m \in 0..Size
      BY <2>5, StrlenExists DEF Before
    <3>4. Text(array) = SubSeq(array, 1, m)
      BY DEF Text
    <3>. HIDE DEF m
    <3>5. Len(Text(array)) = m /\ \A i \in 1..m : Text(array)[i] = array[i]
      BY <2>4, <2>5, <3>3, <3>4
    <3>6. Text(array) = sent => m = n /\ 1 \in 1..m
      BY <2>4, <2>10, <3>3, <3>5 DEF n
    <3>. QED
      BY <3>2, <3>5, <3>6
  <2>. QED
    BY <2>4, <2>6, <2>9, <2>10 DEF n
<1>2. ASSUME TypeOK, ArrayInv, last = "type" PROVE array[1] = sent[1] <=> was[1] < Byte
  <2>1. PICK ucType \in Bytes : sent = <<ucType>> /\ array = LowByte(was, ucType)
    BY <1>2 DEF ArrayInv
  <2>2. was \in [1..Size -> 0..(Char - 1)]
    BY <1>2 DEF TypeOK
  <2>3. LowByte(was, ucType)[1] = ucType <=> was[1] < Byte
    BY <2>2, TypeStored
  <2>4. sent[1] = ucType
    BY <2>1
  <2>. QED
    BY <2>1, <2>3, <2>4
<1>3. TypeOK /\ ArrayInv => BytesReadable
  BY <1>1, <1>2 DEF BytesReadable
<1>. QED
  BY Invariance, <1>3, PTL
=============================================================================
