------------------------------- MODULE Base64 -------------------------------
(***************************************************************************)
(* Base64 of src/src/utils.cpp.  A code is the index of a letter in        *)
(* _base64_table, or Pad for "="; a byte is 0..255.                        *)
(***************************************************************************)
EXTENDS Integers, Sequences, SequencesExt

Pad == -1

(* The four codes of three bytes, *)
Group(a, b, c) == <<a \div 4, (a % 4) * 16 + b \div 16,
                    (b % 16) * 4 + c \div 64, c % 64>>

(* Mutant: the second byte of the end is padded as a third one would be.   *)
EncodeTailShifted(s) ==
  CASE Len(s) = 0 -> <<>>
    [] Len(s) = 1 -> <<s[1] \div 4, (s[1] % 4) * 16, Pad, Pad>>
    [] Len(s) = 2 -> <<s[1] \div 4, (s[1] % 4) * 16 + s[2] \div 16,
                       s[2] % 16, Pad>>

(* and those of the one or two bytes at the end.                           *)
EncodeTail(s) ==
  CASE Len(s) = 0 -> <<>>
    [] Len(s) = 1 -> <<s[1] \div 4, (s[1] % 4) * 16, Pad, Pad>>
    [] Len(s) = 2 -> <<s[1] \div 4, (s[1] % 4) * 16 + s[2] \div 16,
                       (s[2] % 16) * 4, Pad>>

Encode(str) ==
  LET whole == Len(str) \div 3
      group(k) == Group(str[3*k - 2], str[3*k - 1], str[3*k])
  IN FlattenSeq([k \in 1..whole |-> group(k)])
       \o EncodeTail(SubSeq(str, 3 * whole + 1, Len(str)))

(* Decode: i counts the letters seen, bin holds the bits left over.        *)
DecodeOne(d, code) ==
  IF code = Pad THEN d ELSE
  [i   |-> d.i + 1,
   bin |-> CASE d.i % 4 = 0 -> code * 4
             [] d.i % 4 = 1 -> (code % 16) * 16
             [] d.i % 4 = 2 -> (code % 4) * 64
             [] d.i % 4 = 3 -> d.bin,
   out |-> CASE d.i % 4 = 0 -> d.out
             [] d.i % 4 = 1 -> Append(d.out, d.bin + code \div 16)
             [] d.i % 4 = 2 -> Append(d.out, d.bin + code \div 4)
             [] d.i % 4 = 3 -> Append(d.out, d.bin + code)]

Decode(codes) ==
  LET after[k \in 0..Len(codes)] ==
        IF k = 0 THEN [i |-> 0, bin |-> 0, out |-> <<>>]
        ELSE DecodeOne(after[k - 1], codes[k])
  IN after[Len(codes)].out

-----------------------------------------------------------------------------
(* RFC 4648, by bits: the k-th code is made of the bits 6k-5..6k of the    *)
(* text, most significant first, with zeros after its end.                 *)
Weight == <<128, 64, 32, 16, 8, 4, 2, 1>>
BitOf(s, j) ==
  IF j > 8 * Len(s) THEN 0
  ELSE (s[(j - 1) \div 8 + 1] \div Weight[1 + ((j - 1) % 8)]) % 2
CodeOf(s, k) ==
  LET bit(j) == BitOf(s, 6 * (k - 1) + j)
  IN 32 * bit(1) + 16 * bit(2) + 8 * bit(3) + 4 * bit(4) + 2 * bit(5) + bit(6)
Reference(s) ==
  [k \in 1..4 * ((Len(s) + 2) \div 3) |->
     IF 6 * (k - 1) < 8 * Len(s) THEN CodeOf(s, k) ELSE Pad]
=============================================================================
