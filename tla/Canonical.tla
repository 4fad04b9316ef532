------------------------------- MODULE Canonical -------------------------------
(***************************************************************************)
(* The unpadded base64url of src/canonical.rs.  A text is a sequence of    *)
(* symbols, a symbol its index in the alphabet; every character that is    *)
(* not in the alphabet, padding included, is a symbol outside 0..63.       *)
(***************************************************************************)
EXTENDS Integers, Sequences

Byte == 0..255
Symbol == 0..63

\* The k-th item of a chunked sequence; a chunk that is cut short reads as zero.
Item(s, k) == IF k \in 1..Len(s) THEN s[k] ELSE 0

\* Mutation of Sextet: the bits above the symbol are kept.
UnmaskedSextet(triple, k) == triple \div <<64 * 64 * 64, 64 * 64, 64, 1>>[k + 1]

\* The k-th of the four symbols, of the three bytes, of a 24-bit triple.
Sextet(triple, k) == (triple \div <<64 * 64 * 64, 64 * 64, 64, 1>>[k + 1]) % 64
Octet(triple, k) == (triple \div <<256 * 256, 256, 1>>[k + 1]) % 256

base64url_encode(bytes) ==
  [i \in 1..(4 * Len(bytes) + 2) \div 3 |->
     LET start == 3 * ((i - 1) \div 4)
     IN Sextet(256 * (256 * Item(bytes, start + 1) + Item(bytes, start + 2))
                 + Item(bytes, start + 3), (i - 1) % 4)]

\* The bytes that the symbols of a text spell, whatever bits are left over.
Spelled(text) ==
  [i \in 1..(3 * Len(text)) \div 4 |->
     LET start == 4 * ((i - 1) \div 3)
     IN Octet(64 * (64 * (64 * Item(text, start + 1) + Item(text, start + 2))
                      + Item(text, start + 3)) + Item(text, start + 4), (i - 1) % 3)]

\* Mutation of Canonical: the text is not encoded again.
Plausible(text) == \A i \in DOMAIN text : text[i] \in Symbol

Canonical(text) ==
  /\ \A i \in DOMAIN text : text[i] \in Symbol
  /\ base64url_encode(Spelled(text)) = text

\* What a text decodes to: nothing, or the one sequence of bytes it encodes.
base64url_decode(text) ==
  IF Len(text) % 4 # 1 /\ Canonical(text) THEN {Spelled(text)} ELSE {}
===============================================================================
