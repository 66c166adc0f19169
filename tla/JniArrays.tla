----------------------------- MODULE JniArrays -----------------------------
(***************************************************************************)
(* What Java reads in the char arrays that it hands to the entry points of *)
(* IDSDriver_jni.cpp.  getDevInfo, getStatus and scan go through C strings *)
(* (C2jniString); readRF casts its arrays to char* and lets the driver's   *)
(* bytes be copied straight into them; init takes an array as a path       *)
(* (Jni2cString).  Nobody ends or clears an array, and Java may hand in    *)
(* the same one again.                                                     *)
(*                                                                         *)
(* A step is what one call does to one array.  Whether char is signed is   *)
(* up to the build: it is on x86 and not on ARM.                           *)
(***************************************************************************)
EXTENDS Integers, SequencesExt

CONSTANTS
  Bytes,     \* the bytes of the driver's texts (no zero)
  Units,     \* the 16-bit units in the chip of a card
  Size,      \* the length of the Java array
  MaxText,   \* bound: the longest text of the driver
  FieldLen,  \* the units of a wide field of _IDS_CARD_INFO_CN
  NameLen    \* the bytes of a file name of _IDS_CARD_INFO_CN: 260

Byte == 2^8
Char == 2^16
Flags == 5  \* the sensors of IDS_CS_GetStatus

ASSUME JniArraysAssumption ==
  /\ Bytes \subseteq 1..(Byte - 1)
  /\ Units \subseteq 0..(Char - 1)
  /\ {Size, MaxText, FieldLen} \subseteq Nat
  /\ MaxText <= Size /\ FieldLen <= Size /\ Flags <= Size
  /\ Size < 256  \* the length of tmpsPath
  /\ NameLen \in {2 * n : n \in 2..Size}

VARIABLES
  signed,  \* whether char is
  array,   \* the Java array
  path,    \* the tmpsPath of init, if that was the last call
  \* history:
  last,    \* the call that last wrote array, or "new"
  sent,    \* what it had to hand over
  was      \* what the array held before that call

vars == <<signed, array, path, last, sent, was>>

Zeros == [i \in 1..Size |-> 0]

Init ==
  /\ signed \in BOOLEAN
  /\ array = Zeros
  /\ path = <<>>
  /\ last = "new"
  /\ sent = <<>>
  /\ was = Zeros

\* The length of what stands before the first zero.
strlen(s) ==
  CHOOSE n \in 0..Len(s) :
    /\ \A i \in 1..n : s[i] # 0
    /\ n < Len(s) => s[n + 1] = 0

\* What Java, or C, takes a text to be.
Text(s) == SubSeq(s, 1, strlen(s))

-----------------------------------------------------------------------------
(* The conversions.                                                        *)

\* A char assigned to a jchar.
Unwrapped(b) == IF signed /\ b >= Byte \div 2 THEN b - Byte ELSE b  \* fault
Widen(b) == IF signed /\ b >= Byte \div 2 THEN (b - Byte) % Char ELSE b

\* A jchar assigned to a char, seen as a byte.
Replaced(u) == IF u < Byte THEN u ELSE 63  \* fault: with ? for what does not fit
Narrow(u) == u % Byte

AllButLast(s) == 1..(strlen(s) - 1)  \* fault: one char too few
Copied(s) == 1..strlen(s)

C2jniString(szjni, szc) ==
  [i \in DOMAIN szjni |-> IF i \in Copied(szc) THEN Widen(szc[i]) ELSE szjni[i]]

Jni2cString(szjni) == [i \in DOMAIN szjni |-> Narrow(szjni[i])]

\* Units in memory, low byte first as on every ABI of Android, and bytes laid
\* over jchars.
InMemory(units) ==
  [i \in 1..(2 * Len(units)) |->
     LET u == units[(i + 1) \div 2] IN IF i % 2 = 1 THEN u % Byte ELSE u \div Byte]
Overlaid(szjni, bytes) ==
  [i \in DOMAIN szjni |->
     IF 2 * i <= Len(bytes) THEN bytes[2 * i - 1] + Byte * bytes[2 * i] ELSE szjni[i]]

\* A file name in its field of the card, which the driver found zeroed.
Unpadded(name) == name  \* fault: only the name is copied
Padded(name) == [i \in 1..NameLen |-> IF i <= Len(name) THEN name[i] ELSE 0]

\* One byte stored where a jchar stands.
LowByte(szjni, b) == [szjni EXCEPT ![1] = Byte * (@ \div Byte) + b]

\* TransIDCard_Self makes a text of single bytes of each wide field, and words
\* of the codes for gender and nation; but it was handed a copy of the card, and
\* the field stays as it is.
ByReference(bytes) ==  \* fault: the card itself is translated
  [i \in DOMAIN bytes |-> IF 2 * i <= Len(bytes) THEN bytes[2 * i - 1] ELSE 0]
TransIDCard_Self(bytes) == bytes

-----------------------------------------------------------------------------
(* The calls.  One that fails leaves the array alone.                      *)

Write(call, what, cells) ==
  /\ array' = cells
  /\ last' = call
  /\ sent' = what
  /\ was' = array
  /\ path' = <<>>
  /\ UNCHANGED signed

\* getDevInfo and scan: a version, a file name.
getText ==
  \E szc \in BoundedSeq(Bytes, MaxText) : Write("text", szc, C2jniString(array, szc))

\* getStatus: one char per sensor, 0 or 1.
getStatus ==
  \E szStatus \in TupleOf({0, 1}, Flags) :
    Write("status", szStatus, C2jniString(array, szStatus))

\* readRF, of which each array is handed in for one of: a wide field of the
\* card, a file name, the type of the card.
readField ==
  \E units \in TupleOf(Units, FieldLen) :
    Write("field", units, Overlaid(array, TransIDCard_Self(InMemory(units))))
readName ==
  \E name \in BoundedSeq(Bytes, NameLen - 1) :
    Write("name", name, Overlaid(array, Padded(name)))
readType ==
  \E ucType \in Bytes : Write("type", <<ucType>>, LowByte(array, ucType))
readRF == readField \/ readName \/ readType

init ==
  /\ path' = Jni2cString(array)
  /\ UNCHANGED <<signed, array, last, sent, was>>

\* Java makes a new array.
NewArray ==
  /\ array' = Zeros
  /\ last' = "new" /\ sent' = <<>> /\ was' = Zeros
  /\ path' = <<>>
  /\ UNCHANGED signed

Next == getText \/ getStatus \/ readRF \/ init \/ NewArray

Spec == Init /\ [][Next]_vars

-----------------------------------------------------------------------------
(* Properties.                                                             *)

\* Every variable stays in its type; every cell is a jchar.
TypeOK ==
  /\ signed \in BOOLEAN
  /\ array \in [1..Size -> 0..(Char - 1)]
  /\ was \in [1..Size -> 0..(Char - 1)]
  /\ path \in {<<>>} \cup [1..Size -> 0..(Byte - 1)]
  /\ last \in {"new", "text", "status", "field", "name", "type"}
  /\ sent \in Seq(0..(Char - 1))

\* Java reads the driver's text, followed, unless the array was new, by what
\* is left there of an earlier, longer one.  (Bytes above 127 come out as
\* other characters where char is signed.)
TextReadable ==
  last = "text" =>
    LET text == [i \in 1..Len(sent) |-> Widen(sent[i])] IN
    /\ IsPrefix(text, Text(array))
    /\ was = Zeros => Text(array) = text

\* A file name that the driver gave names the same file when Java hands it
\* back, whether char is signed or not.
PathSurvives ==
  last = "text" /\ was = Zeros /\ path # <<>> => Text(path) = sent

\* In an array that was new, Java reads all five sensors right exactly if no
\* flag that is 1 comes after one that is 0: the copy ends at the first 0.
StatusReadable ==
  last = "status" /\ was = Zeros =>
    ((\A i \in 1..Flags : array[i] = sent[i]) <=>
       \A i, j \in 1..Flags : i < j /\ sent[i] = 0 => sent[j] = 0)

\* Java gets a wide field of the card as the chip holds it, whatever the array
\* held before: all its units, so that a text shorter than the field ends where
\* it ends on the chip.  That goes for gender and nation as well, which reach
\* Java as the chip's codes: the words that TransSex and TransNation put in
\* their place are lost with the copy.
FieldReadable ==
  last = "field" =>
    /\ \A i \in 1..FieldLen : array[i] = sent[i]
    /\ strlen(sent) < FieldLen => Text(array) = Text(sent)

\* What readRF hands over as char stands in the jchars byte by byte.  A file
\* name can be had from their bytes, whatever was there before; but Java, which
\* reads them as chars, reads it only if it is at most one byte long.  The type
\* replaces half of a jchar: Java reads it exactly if the other half was zero.
BytesReadable ==
  /\ last = "name" =>
       /\ Text(InMemory(array)) = sent
       /\ Text(array) = sent <=> Len(sent) <= 1
  /\ last = "type" => (array[1] = sent[1] <=> was[1] < Byte)
=============================================================================
