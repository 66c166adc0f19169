---------------------------- MODULE MCJniArrays ----------------------------
(* Instances of JniArrays for TLC. *)
EXTENDS JniArrays

\* A letter and a byte of a multi-byte character.
TwoBytes == {65, 200}

\* The end of a text, a digit (which may be a code), a Chinese character.
ThreeUnits == {0, 49, 20013}
=============================================================================
