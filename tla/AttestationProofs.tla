-------------------------- MODULE AttestationProofs --------------------------
(***************************************************************************)
(* Theorems about Attestation, for any profiles, keys, texts and number of *)
(* signatures and edits.  The argument rests on the strict decoder (a text *)
(* that decodes is the encoding of what it decodes to) and on the checks   *)
(* of verify_attestation, each of which ties one field of the document to  *)
(* something emitted.                                                      *)
(*                                                                         *)
(* The decoder's part goes by chunks: the four symbols of a chunk are the  *)
(* digits to the base 64 of a number of which its three bytes are the      *)
(* digits to the base 256, and a chunk that is cut short loses only digits *)
(* that are zero.                                                          *)
(***************************************************************************)
EXTENDS Attestation, HelperProofs

-------------------------------------------------------------------------------
(* base64url.                                                                 *)

\* A symbol is in the alphabet, whatever it is taken from.
LEMMA SextetIsASymbol ==
  ASSUME NEW t \in Int, NEW k \in 0..3
  PROVE  Sextet(t, k) \in Symbol
<1>1. \A u \in Int : u % 64 \in Symbol
  BY SMT DEF Symbol
<1>2. <<64 * 64 * 64, 64 * 64, 64, 1>>[k + 1] \in {64 * 64 * 64, 64 * 64, 64, 1}
  BY SMT
<1>3. \A w \in {64 * 64 * 64, 64 * 64, 64, 1} : t \div w \in Int
  BY SMT
<1> QED
  BY <1>1, <1>2, <1>3, SMT DEF Sextet

\* The four symbols of a triple are its digits to the base 64.
LEMMA SextetsRebuild ==
  ASSUME NEW t \in Int, 0 <= t, t < 256 * 256 * 256
  PROVE  64 * (64 * (64 * Sextet(t, 0) + Sextet(t, 1)) + Sextet(t, 2))
           + Sextet(t, 3) = t
<1> DEFINE t1 == t \div 64  t2 == t1 \div 64  t3 == t2 \div 64
<1>1. /\ t1 \in Int /\ t2 \in Int /\ t3 \in Int
      /\ 0 <= t1 /\ t1 < 512 * 512 /\ 0 <= t2 /\ t2 < 64 * 64 /\ 0 <= t3 /\ t3 < 64
  BY SMT
<1>2. t = 64 * t1 + (t % 64)
  BY SMT
<1>3. t1 = 64 * t2 + (t1 % 64)
  BY <1>1, SMT
<1>4. t2 = 64 * t3 + (t2 % 64)
  BY <1>1, SMT
<1>5. t \div (64 * 64) = t2
  BY SMT
<1>6. t \div (64 * 64 * 64) = t3
  BY SMT
<1>7. t3 % 64 = t3
  BY <1>1, SMT
<1>8. t \div 1 = t
  BY SMT
<1>9. /\ Sextet(t, 0) = (t \div (64 * 64 * 64)) % 64
      /\ Sextet(t, 1) = (t \div (64 * 64)) % 64
      /\ Sextet(t, 2) = (t \div 64) % 64 /\ Sextet(t, 3) = (t \div 1) % 64
  BY SMT DEF Sextet
<1>10. /\ Sextet(t, 0) = t3 /\ Sextet(t, 1) = t2 % 64
       /\ Sextet(t, 2) = t1 % 64 /\ Sextet(t, 3) = t % 64
  BY <1>5, <1>6, <1>7, <1>8, <1>9, SMT
<1>11. t1 % 64 \in Int /\ t2 % 64 \in Int /\ t % 64 \in Int
  BY <1>1, SMT
<1> HIDE DEF t1, t2, t3
<1> QED
  BY <1>1, <1>2, <1>3, <1>4, <1>10, <1>11, SMT

\* The 24 bits of three bytes, and of one chunk.
Bits(a, b, c) == 256 * (256 * a + b) + c
Triple(bytes, start) ==
  Bits(Item(bytes, start + 1), Item(bytes, start + 2), Item(bytes, start + 3))

\* The three bytes of a triple are its digits to the base 256.
LEMMA OctetsRebuild ==
  ASSUME NEW a \in Int, NEW b \in Int, NEW c \in Int,
         0 <= a, a < 256, 0 <= b, b < 256, 0 <= c, c < 256
  PROVE  /\ Octet(Bits(a, b, c), 0) = a /\ Octet(Bits(a, b, c), 1) = b
         /\ Octet(Bits(a, b, c), 2) = c
<1> DEFINE t == 256 * (256 * a + b) + c
<1>1. t \in Int /\ t \div (256 * 256) = a /\ a % 256 = a
  BY SMT
<1>2. t \div 256 = 256 * a + b
  BY SMT
<1>3. (256 * a + b) % 256 = b
  BY SMT
<1>4. t % 256 = c
  <2>1. \A u \in Int : (256 * u + c) % 256 = c
    BY SMT
  <2>2. 256 * a + b \in Int
    BY SMT
  <2> QED
    BY <2>1, <2>2, SMT
<1>5. t \div 1 = t
  BY <1>1, SMT
<1> HIDE DEF t
<1>6. /\ Octet(t, 0) = (t \div (256 * 256)) % 256 /\ Octet(t, 1) = (t \div 256) % 256
      /\ Octet(t, 2) = (t \div 1) % 256
  BY SMT DEF Octet
<1>7. Octet(t, 0) = a /\ Octet(t, 1) = b /\ Octet(t, 2) = c
  BY <1>1, <1>2, <1>3, <1>4, <1>5, <1>6, SMT
<1> QED
  BY <1>7, SMT DEF t, Bits

\* The length of an encoding is never one above a multiple of four, and says how
\* many bytes were encoded.
LEMMA Lengths ==
  ASSUME NEW n \in Nat
  PROVE  /\ (4 * n + 2) \div 3 \in Nat
         /\ ((4 * n + 2) \div 3) % 4 # 1
         /\ (3 * ((4 * n + 2) \div 3)) \div 4 = n
<1> DEFINE q == n \div 3  r == n % 3
<1>1. n = 3 * q + r /\ q \in Nat /\ r \in {0, 1, 2}
  BY SMT
<1> HIDE DEF q, r
<1>2. /\ r = 0 => (4 * n + 2) \div 3 = 4 * q
      /\ r = 1 => (4 * n + 2) \div 3 = 4 * q + 2
      /\ r = 2 => (4 * n + 2) \div 3 = 4 * q + 3
  BY <1>1
<1> DEFINE m == (4 * n + 2) \div 3
<1>3. m = 4 * q \/ m = 4 * q + 2 \/ m = 4 * q + 3
  BY <1>1, <1>2
<1>4. /\ m \in Nat /\ m % 4 # 1
  BY <1>1, <1>3
<1>5. (3 * m) \div 4 = n
  <2>1. /\ r = 0 => (3 * m) = 4 * n
        /\ r = 1 => (3 * m) = 4 * n + 2
        /\ r = 2 => (3 * m) = 4 * n + 1
    BY <1>1, <1>2
  <2> QED
    BY <1>1, <2>1
<1> QED
  BY <1>4, <1>5

\* Beyond the end of the bytes there are zeros.
LEMMA ItemIsAByte ==
  ASSUME NEW bytes \in Seq(Byte), NEW k \in Int
  PROVE  Item(bytes, k) \in Int /\ 0 <= Item(bytes, k) /\ Item(bytes, k) < 256
<1>1. CASE k \in 1..Len(bytes)
  <2>1. Item(bytes, k) = bytes[k] /\ bytes[k] \in Byte
    BY <1>1 DEF Item
  <2>2. \A x \in Byte : x \in Int /\ 0 <= x /\ x < 256
    BY SMT DEF Byte
  <2> QED
    BY <2>1, <2>2
<1>2. CASE k \notin 1..Len(bytes)
  BY <1>2, SMT DEF Item
<1> QED
  BY <1>1, <1>2

\* A triple has 24 bits.
LEMMA TripleIsBounded ==
  ASSUME NEW bytes \in Seq(Byte), NEW start \in Int
  PROVE  /\ Triple(bytes, start) \in Int
         /\ 0 <= Triple(bytes, start) /\ Triple(bytes, start) < 256 * 256 * 256
<1>1. \A k \in {start + 1, start + 2, start + 3} :
        Item(bytes, k) \in Int /\ 0 <= Item(bytes, k) /\ Item(bytes, k) < 256
  BY ItemIsAByte
<1> DEFINE a == Item(bytes, start + 1)
           b == Item(bytes, start + 2)
           c == Item(bytes, start + 3)
<1>2. /\ a \in Int /\ b \in Int /\ c \in Int
      /\ 0 <= a /\ a < 256 /\ 0 <= b /\ b < 256 /\ 0 <= c /\ c < 256
  BY <1>1, Zenon
<1>3. Triple(bytes, start) = 256 * (256 * a + b) + c
  BY Zenon DEF Triple, Bits
<1> HIDE DEF a, b, c
<1> QED
  BY <1>2, <1>3

\* An encoding is text, symbol by symbol.
LEMMA EncodedIsText ==
  ASSUME NEW bytes \in Seq(Byte)
  PROVE  /\ base64url_encode(bytes) \in Seq(Symbol)
         /\ Len(base64url_encode(bytes)) = (4 * Len(bytes) + 2) \div 3
         /\ \A i \in 1..(4 * Len(bytes) + 2) \div 3 :
              base64url_encode(bytes)[i]
                = Sextet(Triple(bytes, 3 * ((i - 1) \div 4)), (i - 1) % 4)
<1> DEFINE m == (4 * Len(bytes) + 2) \div 3
           symbol(i) == Sextet(Triple(bytes, 3 * ((i - 1) \div 4)), (i - 1) % 4)
<1>1. m \in Nat
  BY Lengths
<1>2. base64url_encode(bytes) = [i \in 1..m |-> symbol(i)]
  BY DEF base64url_encode, Triple, Bits
<1>3. \A i \in 1..m : symbol(i) \in Symbol
  <2> TAKE i \in 1..m
  <2>1. (i - 1) \div 4 \in Int /\ (i - 1) % 4 \in 0..3
    BY <1>1
  <2>2. Triple(bytes, 3 * ((i - 1) \div 4)) \in Int
    BY <2>1, TripleIsBounded
  <2> QED
    BY <2>1, <2>2, SextetIsASymbol
<1> HIDE DEF m, symbol
<1>4. base64url_encode(bytes) \in [1..m -> Symbol]
  BY <1>2, <1>3
<1>5. base64url_encode(bytes) \in Seq(Symbol) /\ Len(base64url_encode(bytes)) = m
  BY <1>1, <1>4
<1>6. \A i \in 1..m : base64url_encode(bytes)[i] = symbol(i)
  BY <1>2
<1> QED
  BY <1>5, <1>6 DEF m, symbol

\* The symbols of a chunk, those included that are left out because they are zero.
LEMMA SextetsOfAChunk ==
  ASSUME NEW bytes \in Seq(Byte), NEW q \in Nat, 3 * q < Len(bytes), NEW j \in 0..3
  PROVE  Item(base64url_encode(bytes), 4 * q + j + 1) = Sextet(Triple(bytes, 3 * q), j)
<1> DEFINE m == (4 * Len(bytes) + 2) \div 3
           text == base64url_encode(bytes)
           k == 4 * q + j + 1
           n == Len(bytes)
<1>0. m \in Nat /\ Len(text) = m /\ n \in Nat /\ k \in Nat /\ k >= 1
  BY Lengths, EncodedIsText
<1>1. CASE k <= m
  <2>1. (k - 1) \div 4 = q /\ (k - 1) % 4 = j
    <3>1. k - 1 = 4 * q + j
      BY SMT
    <3>2. \A d \in 0..3 : (4 * q + d) \div 4 = q
      BY SMT
    <3>3. \A d \in 0..3 : (4 * q + d) % 4 = d
      BY SMT
    <3> QED
      BY <3>1, <3>2, <3>3
  <2>2. text[k] = Sextet(Triple(bytes, 3 * ((k - 1) \div 4)), (k - 1) % 4)
    BY <1>0, <1>1, EncodedIsText
  <2> QED
    BY <1>0, <1>1, <2>1, <2>2 DEF Item
<1>2. CASE k > m
  <2>1. Item(text, k) = 0
    BY <1>0, <1>2 DEF Item
  <2>2. \/ n = 3 * q + 1 /\ m = 4 * q + 2 /\ j \in {2, 3}
        \/ n = 3 * q + 2 /\ m = 4 * q + 3 /\ j = 3
    <3>1. n = 3 * q + 1 => m = 4 * q + 2
      BY SMT
    <3>2. n = 3 * q + 2 => m = 4 * q + 3
      BY SMT
    <3>3. n >= 3 * q + 3 => m >= 4 * q + 4
      BY SMT
    <3> QED
      BY <1>0, <1>2, <3>1, <3>2, <3>3
  <2> DEFINE b1 == Item(bytes, 3 * q + 1)  b2 == Item(bytes, 3 * q + 2)
             b3 == Item(bytes, 3 * q + 3)
  <2>3. /\ b1 \in Int /\ b2 \in Int /\ b3 = 0
        /\ n = 3 * q + 1 => b2 = 0
    BY <2>2, ItemIsAByte DEF Item
  <2>4. Triple(bytes, 3 * q) = 256 * (256 * b1 + b2)
    BY <2>3 DEF Triple, Bits
  <2> HIDE DEF b1, b2, b3
  <2>5. Sextet(Triple(bytes, 3 * q), 3) = 0
    <3>1. (256 * (256 * b1 + b2)) % 64 = 0
      BY <2>3
    <3>2. (256 * (256 * b1 + b2)) \div 1 = 256 * (256 * b1 + b2)
      BY <2>3
    <3> QED
      BY <2>4, <3>1, <3>2 DEF Sextet
  <2>6. n = 3 * q + 1 => Sextet(Triple(bytes, 3 * q), 2) = 0
    <3>1. (256 * (256 * b1)) \div 64 = 1024 * b1 /\ (1024 * b1) % 64 = 0
      BY <2>3
    <3> QED
      BY <2>3, <2>4, <3>1 DEF Sextet
  <2> QED
    BY <2>1, <2>2, <2>5, <2>6
<1> QED
  BY <1>0, <1>1, <1>2

\* Decoding what was encoded gives it back.
LEMMA SpelledIsWhatWasEncoded ==
  ASSUME NEW bytes \in Seq(Byte)
  PROVE  Spelled(base64url_encode(bytes)) = bytes
<1> DEFINE n == Len(bytes)
           text == base64url_encode(bytes)
           octet(i) == LET start == 4 * ((i - 1) \div 3)
                       IN  Octet(64 * (64 * (64 * Item(text, start + 1)
                                          + Item(text, start + 2))
                                   + Item(text, start + 3)) + Item(text, start + 4),
                             (i - 1) % 3)
<1>1. (3 * Len(text)) \div 4 = n /\ n \in Nat
  BY Lengths, EncodedIsText
<1>2. Spelled(text) = [i \in 1..n |-> octet(i)]
  BY <1>1 DEF Spelled
<1>3. ASSUME NEW i \in 1..n
      PROVE  octet(i) = bytes[i]
  <2> DEFINE q == (i - 1) \div 3  r == (i - 1) % 3  t == Triple(bytes, 3 * q)
  <2>1. q \in Nat /\ r \in {0, 1, 2} /\ i = 3 * q + r + 1
    BY <1>1
  <2>2. 3 * q < Len(bytes)
    BY <1>1, <2>1
  <2> HIDE DEF q, r
  <2>3. /\ Item(text, 4 * q + 0 + 1) = Sextet(t, 0)
        /\ Item(text, 4 * q + 1 + 1) = Sextet(t, 1)
        /\ Item(text, 4 * q + 2 + 1) = Sextet(t, 2)
        /\ Item(text, 4 * q + 3 + 1) = Sextet(t, 3)
    BY <2>1, <2>2, SextetsOfAChunk
  <2>4. /\ 4 * q + 0 + 1 = 4 * q + 1 /\ 4 * q + 1 + 1 = 4 * q + 2
        /\ 4 * q + 2 + 1 = 4 * q + 3 /\ 4 * q + 3 + 1 = 4 * q + 4
    BY <2>1
  <2>5. t \in Int /\ 0 <= t /\ t < 256 * 256 * 256
    <3>1. 3 * q \in Int
      BY <2>1
    <3> QED
      BY <3>1, TripleIsBounded, SMTT(60)
  <2>6. octet(i) = Octet(64 * (64 * (64 * Sextet(t, 0) + Sextet(t, 1))
                                 + Sextet(t, 2)) + Sextet(t, 3), r)
    BY <2>3, <2>4 DEF q, r
  <2>7. octet(i) = Octet(t, r)
    BY <2>5, <2>6, SextetsRebuild
  <2> DEFINE a == Item(bytes, 3 * q + 1)
             b == Item(bytes, 3 * q + 2)
             c == Item(bytes, 3 * q + 3)
  <2>8. /\ a \in Int /\ b \in Int /\ c \in Int
        /\ 0 <= a /\ a < 256 /\ 0 <= b /\ b < 256 /\ 0 <= c /\ c < 256
        /\ t = Bits(a, b, c)
    <3>1. 3 * q + 1 \in Int /\ 3 * q + 2 \in Int /\ 3 * q + 3 \in Int
      BY <2>1
    <3> QED
      BY <3>1, ItemIsAByte DEF Triple
  <2>9. Octet(t, 0) = a /\ Octet(t, 1) = b /\ Octet(t, 2) = c
    <3> HIDE DEF a, b, c, t
    <3> QED
      BY <2>8, OctetsRebuild
  <2>10. Octet(t, r) = Item(bytes, i)
    BY <2>1, <2>9
  <2> QED
    BY <2>7, <2>10 DEF Item
<1>4. bytes = [i \in 1..n |-> bytes[i]]
  BY SMT
<1> HIDE DEF octet
<1> QED
  BY <1>2, <1>3, <1>4

\* The strict decoder takes every encoding, and gives back what was encoded, for
\* any bytes (canonical.rs:10-63).
THEOREM DecodingUndoesEncoding ==
  ASSUME NEW bytes \in Seq(Byte)
  PROVE  base64url_decode(base64url_encode(bytes)) = {bytes}
<1> DEFINE text == base64url_encode(bytes)
<1>1. text \in Seq(Symbol) /\ Len(text) = (4 * Len(bytes) + 2) \div 3
  BY EncodedIsText
<1>2. Len(text) % 4 # 1
  BY <1>1, Lengths
<1>3. Spelled(text) = bytes
  BY SpelledIsWhatWasEncoded
<1>4. \A i \in DOMAIN text : text[i] \in Symbol
  BY <1>1
<1> QED
  BY <1>2, <1>3, <1>4 DEF base64url_decode, Canonical

-------------------------------------------------------------------------------
(* Verification.                                                              *)

\* A text that decodes is the encoding of the bytes it decodes to
\* (canonical.rs:59-61).
LEMMA DecodedIsEncoded ==
  ASSUME NEW text, NEW bytes \in base64url_decode(text)
  PROVE  text = base64url_encode(bytes)
BY DEF base64url_decode, Canonical

\* Verification answers with a code, or "none" when every check has passed.
LEMMA VerifiedPassesEveryCheck ==
  ASSUME NEW a, NEW text
  PROVE  /\ verify_attestation(a, text) # "verified"
         /\ verify_attestation(a, text) \in Codes \cup {"none"}
         /\ verify_attestation(a, text) = "none" =>
              /\ ~DigestCheck(a).fails /\ ~KeyCheck(text).fails
              /\ ~SignatureCheck(a, text).fails
<1> DEFINE checks == <<AttestationContractCheck(a), DigestCheck(a),
                       SignatureTextCheck(a), KeyCheck(text), SignatureCheck(a, text)>>
<1>1. DOMAIN checks = 1..5
  OBVIOUS
<1>2. /\ checks[1] = AttestationContractCheck(a) /\ checks[2] = DigestCheck(a)
      /\ checks[3] = SignatureTextCheck(a) /\ checks[4] = KeyCheck(text)
      /\ checks[5] = SignatureCheck(a, text)
  OBVIOUS
<1>3. verify_attestation(a, text) = FirstFailure(checks)
  BY DEF verify_attestation
<1> HIDE DEF checks
<1>4. \A i \in 1..5 : checks[i].code \in Codes
  <2>1. /\ AttestationContractCheck(a).code \in Codes /\ DigestCheck(a).code \in Codes
        /\ SignatureTextCheck(a).code \in Codes /\ KeyCheck(text).code \in Codes
        /\ SignatureCheck(a, text).code \in Codes
    BY DEF AttestationContractCheck, DigestCheck, SignatureTextCheck, KeyCheck,
           SignatureCheck, Codes
  <2> QED
    BY <2>1, <1>2
<1>5. "none" \notin Codes /\ "verified" \notin Codes
  BY DEF Codes
<1>6. /\ FirstFailure(checks) \in Codes \cup {"none"}
      /\ FirstFailure(checks) = "none" => \A i \in 1..5 : ~checks[i].fails
  BY <1>1, <1>4, <1>5, Verdict
<1> QED
  BY <1>2, <1>3, <1>5, <1>6

\* The checks before the one that answers have passed, and it names the answer.
LEMMA AnswersAreDeserved ==
  ASSUME NEW a, NEW text
  PROVE  /\ verify_attestation(a, text) = "verifying_key_malformed" =>
              KeyCheck(text).fails
         /\ verify_attestation(a, text) = "attestation_unsigned" =>
              \/ DigestCheck(a).fails \/ SignatureTextCheck(a).fails
              \/ SignatureCheck(a, text).fails /\ ~KeyCheck(text).fails
         /\ \/ verify_attestation(a, text) = "none"
            \/ AttestationContractCheck(a).fails \/ DigestCheck(a).fails
            \/ SignatureTextCheck(a).fails \/ KeyCheck(text).fails
            \/ SignatureCheck(a, text).fails
<1> DEFINE checks == <<AttestationContractCheck(a), DigestCheck(a),
                       SignatureTextCheck(a), KeyCheck(text), SignatureCheck(a, text)>>
<1>1. DOMAIN checks = 1..5
  OBVIOUS
<1>2. /\ checks[1] = AttestationContractCheck(a) /\ checks[2] = DigestCheck(a)
      /\ checks[3] = SignatureTextCheck(a) /\ checks[4] = KeyCheck(text)
      /\ checks[5] = SignatureCheck(a, text)
  OBVIOUS
<1>3. verify_attestation(a, text) = FirstFailure(checks)
  BY DEF verify_attestation
<1> HIDE DEF checks
<1>4. /\ checks[1].code = "attestation_binding_incomplete"
      /\ checks[2].code = "attestation_unsigned"
      /\ checks[3].code = "attestation_unsigned"
      /\ checks[4].code = "verifying_key_malformed"
      /\ checks[5].code = "attestation_unsigned"
  BY <1>2 DEF AttestationContractCheck, DigestCheck, SignatureTextCheck, KeyCheck,
              SignatureCheck
<1>5. CASE \E k \in 1..5 : checks[k].fails
  <2>1. PICK i \in 1..5 : /\ checks[i].fails /\ FirstFailure(checks) = checks[i].code
                          /\ \A j \in 1..5 : j < i => ~checks[j].fails
    BY <1>1, <1>5, FailureIsNamed
  <2>2. i \in {1, 2, 3, 4, 5}
    BY <2>1
  <2>3. i = 5 => ~checks[4].fails
    BY <2>1
  <2> QED
    BY <1>2, <1>3, <1>4, <2>1, <2>2, <2>3
<1>6. CASE \A k \in 1..5 : ~checks[k].fails
  BY <1>1, <1>3, <1>6, NoFailure
<1> QED
  BY <1>5, <1>6

\* A document is its three fields.
IsAttestation(a) == a = Attest(a.content, a.attestationDigest, a.signature)

\* What has been emitted is signed, on its own address, and binds what it claims.
Honest(e) ==
  /\ e.attestation = Attest(e.attestation.content,
                            {attestation_digest(e.attestation)},
                            base64url_encode(e.bytes))
  /\ e.message = signed_message(attestation_digest(e.attestation))
  /\ e.seed \in Seeds /\ e.bytes \in SignatureBytes
  /\ e.attestation.content.wellFormed
  /\ e.attestation.content.manifests # {}
  /\ e.attestation.content.controls \subseteq EngineCapabilities

\* The address of a document determines it up to its digest and signature.
LEMMA AddressIsTheContent ==
  ASSUME NEW a, NEW b, attestation_digest(a) = attestation_digest(b)
  PROVE  a.content = b.content
<1>1. /\ attestation_digest(a).content = a.content
      /\ attestation_digest(b).content = b.content
  BY DEF attestation_digest, Attest
<1> QED
  BY <1>1

\* A document that passes every check is one that was emitted.
LEMMA AcceptedWasEmitted ==
  ASSUME \A e \in emitted : Honest(e), NEW a, NEW text, IsAttestation(a),
         verify_attestation(a, text) = "none"
  PROVE  \E e \in emitted : /\ a = e.attestation
                            /\ text = public_key_base64url(e.seed)
                            /\ Honest(e)
<1>1. a.attestationDigest = {attestation_digest(a)}
  BY VerifiedPassesEveryCheck DEF DigestCheck
<1>2. PICK e \in emitted :
        /\ PublicKey[e.seed] \in DecodedKey(text)
        /\ \E digest \in a.attestationDigest : e.message = signed_message(digest)
        /\ e.bytes \in base64url_decode(a.signature)
  BY VerifiedPassesEveryCheck DEF SignatureCheck
<1>3. Honest(e)
  BY <1>2
<1>4. attestation_digest(e.attestation) = attestation_digest(a)
  <2>1. e.message = signed_message(attestation_digest(a))
    BY <1>1, <1>2
  <2> QED
    BY <2>1, <1>3 DEF Honest, signed_message
<1>5. e.attestation.content = a.content
  BY <1>4, AddressIsTheContent
<1>6. a.signature = base64url_encode(e.bytes)
  BY <1>2, DecodedIsEncoded
<1>7. a = e.attestation
  BY <1>1, <1>3, <1>4, <1>5, <1>6 DEF Honest, IsAttestation
<1>8. text = public_key_base64url(e.seed)
  BY <1>2, DecodedIsEncoded DEF DecodedKey, public_key_base64url
<1> QED
  BY <1>3, <1>7, <1>8

-------------------------------------------------------------------------------
(* The invariant.                                                            *)

\* A resolved document is what was asked for, under its own address.
Resolved ==
  resolution = "resolved" =>
    /\ document.body \in Profiles
    /\ document.profileDigest = profile_digest(document.body)
    /\ document.body["/id"] = wanted.id
    /\ document.profileDigest = wanted.digest

\* A run is signed for the document that was resolved.
OfTheRun(e) ==
  e.origin = "run" =>
    /\ resolution = "resolved" /\ Admitted(document.body)
    /\ e.attestation.content.requested = document.profileDigest
    /\ e.attestation.content.effective = effective_profile_digest(document.body)

Inv ==
  /\ Resolved
  /\ \A e \in emitted : Honest(e) /\ OfTheRun(e)
  /\ \A a \in carried : IsAttestation(a) /\ carried = {a}
  /\ verdict # "none" => carried # {}
  /\ VerifiedIsWhatWasSigned

\* What sign_attestation adds is honest.
LEMMA SignedIsHonest ==
  ASSUME NEW inputs, NEW origin, sign_attestation(inputs, origin)
  PROVE  \E e : /\ emitted' = emitted \cup {e} /\ Honest(e)
                /\ e.origin = origin /\ e.attestation.content = inputs
<1> DEFINE digest == attestation_digest(assemble(inputs))
<1>1. PICK seed \in Seeds, bytes \in SignatureBytes :
        emitted' = emitted \cup
          {[origin |-> origin, seed |-> seed, bytes |-> bytes,
            message |-> signed_message(digest),
            attestation |-> Attest(inputs, {digest}, base64url_encode(bytes))]}
  BY DEF sign_attestation
<1> DEFINE e == [origin |-> origin, seed |-> seed, bytes |-> bytes,
                 message |-> signed_message(digest),
                 attestation |-> Attest(inputs, {digest}, base64url_encode(bytes))]
<1>2. /\ e.attestation = Attest(inputs, {digest}, base64url_encode(bytes))
      /\ e.origin = origin /\ e.bytes = bytes /\ e.message = signed_message(digest)
      /\ e.seed = seed
  OBVIOUS
<1>3. e.attestation.content = inputs
  BY <1>2 DEF Attest
<1>4. attestation_digest(e.attestation) = digest
  BY <1>3 DEF attestation_digest, assemble, Attest
<1>5. /\ inputs.manifests # {} /\ inputs.controls \subseteq EngineCapabilities
      /\ inputs.wellFormed
  BY DEF sign_attestation, Signable
<1> HIDE DEF digest, e
<1>6. Honest(e)
  BY <1>2, <1>3, <1>4, <1>5 DEF Honest
<1> QED
  BY <1>1, <1>2, <1>3, <1>6 DEF e, digest

\* A resolution answers with a code, or "none" when the four checks have passed.
LEMMA ResolvedPassesEveryCheck ==
  /\ resolve_profile(wanted, document) \in
       {"none", "profile_unresolved", "profile_digest_mismatch"}
  /\ resolve_profile(wanted, document) = "none" =>
       /\ document.body \in Profiles
       /\ document.profileDigest = profile_digest(document.body)
       /\ document.body["/id"] = wanted.id
       /\ document.profileDigest = wanted.digest
<1> DEFINE checks == <<ContractCheck(document), AddressCheck(document),
                       IdentityCheck(wanted.id, document),
                       RequestCheck(wanted.digest, document)>>
           codes == {"profile_unresolved", "profile_digest_mismatch"}
<1>1. DOMAIN checks = 1..4 /\ 1..4 \subseteq 1..5
  OBVIOUS
<1>2. /\ checks[1] = ContractCheck(document) /\ checks[2] = AddressCheck(document)
      /\ checks[3] = IdentityCheck(wanted.id, document)
      /\ checks[4] = RequestCheck(wanted.digest, document)
  OBVIOUS
<1>3. resolve_profile(wanted, document) = FirstFailure(checks)
  BY DEF resolve_profile
<1> HIDE DEF checks
<1>4. \A i \in 1..4 : checks[i].code \in codes
  <2>1. /\ ContractCheck(document).code \in codes /\ AddressCheck(document).code \in codes
        /\ IdentityCheck(wanted.id, document).code \in codes
        /\ RequestCheck(wanted.digest, document).code \in codes
    BY DEF ContractCheck, AddressCheck, IdentityCheck, RequestCheck
  <2> QED
    BY <2>1, <1>2
<1>5. "none" \notin codes /\ "resolved" \notin codes
  OBVIOUS
<1> HIDE DEF codes
<1>6. /\ FirstFailure(checks) \in codes \cup {"none"}
      /\ FirstFailure(checks) = "none" => \A i \in 1..4 : ~checks[i].fails
  BY <1>1, <1>4, <1>5, Verdict
<1>7. FirstFailure(checks) = "none" =>
        /\ ~ContractCheck(document).fails /\ ~AddressCheck(document).fails
        /\ ~IdentityCheck(wanted.id, document).fails
        /\ ~RequestCheck(wanted.digest, document).fails
  BY <1>2, <1>6
<1> QED
  BY <1>3, <1>6, <1>7
  DEF codes, ContractCheck, AddressCheck, IdentityCheck, RequestCheck

\* Signing keeps the invariant, when what a run signs is of the resolved document.
LEMMA SigningKeepsInv ==
  ASSUME Inv, NEW inputs, NEW origin, sign_attestation(inputs, origin),
         UNCHANGED <<profileVars, carried, edits, key, verdict>>, carried = {},
         origin = "run" =>
           /\ resolution = "resolved" /\ Admitted(document.body)
           /\ inputs.requested = document.profileDigest
           /\ inputs.effective = effective_profile_digest(document.body)
  PROVE  Inv'
<1>1. PICK e : /\ emitted' = emitted \cup {e} /\ Honest(e)
               /\ e.origin = origin /\ e.attestation.content = inputs
  BY SignedIsHonest
<1>2. UNCHANGED <<wanted, document, resolution, carried, key, verdict>>
  BY DEF profileVars
<1>3. verdict = "none"
  BY DEF Inv
<1>4. Resolved'
  BY <1>2 DEF Inv, Resolved
<1>5. \A f \in emitted' : OfTheRun(f)
  BY <1>1 DEF Inv, OfTheRun
<1>6. (\A f \in emitted : Honest(f) /\ OfTheRun(f))'
  BY <1>1, <1>2, <1>5 DEF Inv, Honest, OfTheRun
<1> QED
  BY <1>2, <1>3, <1>4, <1>6 DEF Inv, VerifiedIsWhatWasSigned

\* No step breaks the invariant.
LEMMA InvStep == Inv /\ [Next]_vars => Inv'
<1> SUFFICES ASSUME Inv, [Next]_vars PROVE Inv'
  OBVIOUS
<1>1. CASE ResolveProfile
  <2>1. UNCHANGED <<wanted, document, emitted, carried, edits, key, verdict>>
        /\ resolution = "none"
    BY <1>1 DEF ResolveProfile
  <2>2. Resolved'
    <3> SUFFICES ASSUME resolution' = "resolved" PROVE Resolved'
      BY DEF Resolved
    <3>1. resolve_profile(wanted, document) \in {"none", "resolved"}
      BY <1>1 DEF ResolveProfile
    <3>2. resolve_profile(wanted, document) # "resolved"
      BY ResolvedPassesEveryCheck
    <3> QED
      BY <2>1, <3>1, <3>2, ResolvedPassesEveryCheck DEF Resolved
  <2>3. (\A e \in emitted : Honest(e) /\ OfTheRun(e))'
    BY <2>1 DEF Inv, Honest, OfTheRun
  <2> QED
    BY <2>1, <2>2, <2>3 DEF Inv, VerifiedIsWhatWasSigned
<1>2. CASE SignRun
  <2>1. PICK wellFormed \in BOOLEAN :
          sign_attestation(
            [requested |-> document.profileDigest,
             effective |-> effective_profile_digest(document.body),
             manifests |-> {"program"},
             controls |-> document.body["/sandboxEngine/requiredCapabilities"],
             wellFormed |-> wellFormed], "run")
    BY <1>2 DEF SignRun
  <2>2. resolution = "resolved" /\ carried = {} /\ Admitted(document.body)
        /\ UNCHANGED <<profileVars, carried, edits, key, verdict>>
    BY <1>2 DEF SignRun
  <2> QED
    BY <2>1, <2>2, SigningKeepsInv
<1>3. CASE SignDirectly
  <2>1. PICK inputs \in Inputs : sign_attestation(inputs, "caller")
    BY <1>3 DEF SignDirectly
  <2> QED
    BY <1>3, <2>1, SigningKeepsInv DEF SignDirectly
<1>4. CASE Depart
  <2>1. PICK e \in emitted : carried' = {e.attestation}
    BY <1>4 DEF Depart
  <2>2. UNCHANGED <<wanted, document, resolution, emitted, key, verdict>> /\ carried = {}
    BY <1>4 DEF Depart, profileVars
  <2>3. IsAttestation(e.attestation)
    <3>1. \A content, digest, text : IsAttestation(Attest(content, digest, text))
      BY DEF IsAttestation, Attest
    <3>2. Honest(e)
      BY DEF Inv
    <3> QED
      BY <3>1, <3>2 DEF Honest
  <2>4. verdict = "none"
    BY <2>2 DEF Inv
  <2>5. (\A a \in carried : IsAttestation(a) /\ carried = {a})'
    BY <2>1, <2>3 DEF IsAttestation
  <2> QED
    BY <2>2, <2>4, <2>5 DEF Inv, Resolved, Honest, OfTheRun, VerifiedIsWhatWasSigned
<1>5. CASE Edit
  <2>1. UNCHANGED <<wanted, document, resolution, emitted, key, verdict>>
        /\ verdict = "none"
    BY <1>5 DEF Edit, profileVars
  <2>2. \E content, digest, text : carried' = {Attest(content, digest, text)}
    BY <1>5 DEF Edit
  <2>3. (\A a \in carried : IsAttestation(a) /\ carried = {a})'
    BY <2>2 DEF IsAttestation, Attest
  <2> QED
    BY <2>1, <2>3 DEF Inv, Resolved, Honest, OfTheRun, VerifiedIsWhatWasSigned
<1>6. CASE Verify
  <2>1. PICK a \in carried,
                  text \in KeyTexts \cup {public_key_base64url(s) : s \in Seeds} :
          /\ key' = {text}
          /\ verdict' = IF verify_attestation(a, text) = "none"
                        THEN "verified" ELSE verify_attestation(a, text)
    BY <1>6 DEF Verify
  <2>2. UNCHANGED <<wanted, document, resolution, emitted, carried>>
    BY <1>6 DEF Verify, profileVars
  <2>3. verify_attestation(a, text) # "verified"
    BY VerifiedPassesEveryCheck
  <2>4. VerifiedIsWhatWasSigned'
    <3> SUFFICES ASSUME verdict' = "verified" PROVE VerifiedIsWhatWasSigned'
      BY DEF VerifiedIsWhatWasSigned
    <3>1. verify_attestation(a, text) = "none"
      BY <2>1, <2>3
    <3>2. PICK e \in emitted : /\ a = e.attestation
                               /\ text = public_key_base64url(e.seed) /\ Honest(e)
      BY <3>1, AcceptedWasEmitted DEF Inv
    <3>3. carried = {e.attestation}
      BY <3>2 DEF Inv
    <3> QED
      BY <2>1, <2>2, <3>2, <3>3
      DEF VerifiedIsWhatWasSigned, Honest, public_key_base64url
  <2> QED
    BY <2>1, <2>2, <2>4 DEF Inv, Resolved, Honest, OfTheRun
<1>7. CASE UNCHANGED vars
  BY <1>7 DEF vars, profileVars, Inv, Resolved, Honest, OfTheRun,
              VerifiedIsWhatWasSigned
<1> QED
  BY <1>1, <1>2, <1>3, <1>4, <1>5, <1>6, <1>7 DEF Next

\* Nothing is resolved, signed or judged at first.
LEMMA InvInit == Init => Inv
BY DEF Init, Inv, Resolved, VerifiedIsWhatWasSigned

\* The verdict is the answer of verify_attestation on the document and the key.
Answered ==
  \A a \in carried, text \in key :
    verdict = IF verify_attestation(a, text) = "none"
              THEN "verified" ELSE verify_attestation(a, text)

Typed ==
  /\ resolution \in {"none", "resolved", "profile_unresolved",
                     "profile_digest_mismatch"}
  /\ edits \in 0..MaxEdits
  /\ verdict \in Codes \cup {"none", "verified"}

Judged == Typed /\ Answered /\ (verdict = "none" => key = {})

\* What verify_attestation answers depends on what has been emitted only.
LEMMA EmittedDecides ==
  ASSUME emitted' = emitted, NEW a, NEW text
  PROVE  verify_attestation(a, text)' = verify_attestation(a, text)
BY DEF verify_attestation, SignatureCheck, DigestCheck, SignatureTextCheck, KeyCheck,
       AttestationContractCheck

\* No step breaks this one either; a judged document stays as it is.
LEMMA JudgedStep == Inv /\ Judged /\ [Next]_vars => Judged'
<1> SUFFICES ASSUME Inv, Judged, [Next]_vars PROVE Judged'
  OBVIOUS
<1>0. verdict = "none" => key = {}
  BY DEF Judged
<1>1. CASE ResolveProfile
  <2>1. UNCHANGED <<emitted, carried, edits, key, verdict>>
    BY <1>1 DEF ResolveProfile
  <2>2. resolution' \in {"none", "resolved", "profile_unresolved",
                         "profile_digest_mismatch"}
    BY <1>1, ResolvedPassesEveryCheck DEF ResolveProfile
  <2> QED
    BY <2>1, <2>2, EmittedDecides DEF Judged, Typed, Answered
<1>2. CASE SignRun \/ SignDirectly
  <2>1. carried' = {} /\ UNCHANGED <<resolution, edits, key, verdict>>
    <3>1. CASE SignRun
      BY <3>1 DEF SignRun, profileVars
    <3>2. CASE SignDirectly
      BY <3>2 DEF SignDirectly, profileVars
    <3> QED
      BY <1>2, <3>1, <3>2
  <2> QED
    BY <2>1 DEF Judged, Typed, Answered
<1>3. CASE Depart
  <2>1. carried = {} /\ UNCHANGED <<resolution, edits, key, verdict>>
    BY <1>3 DEF Depart, profileVars
  <2>2. key = {}
    BY <1>0, <2>1 DEF Inv
  <2> QED
    BY <2>1, <2>2 DEF Judged, Typed, Answered
<1>4. CASE Edit
  <2>1. verdict = "none" /\ edits < MaxEdits /\ edits' = edits + 1
        /\ UNCHANGED <<resolution, key, verdict>>
    BY <1>4 DEF Edit, profileVars
  <2>2. edits' \in 0..MaxEdits
    BY <2>1, DocumentAssumption DEF Judged, Typed
  <2>3. key' = {} /\ Typed'
    BY <1>0, <2>1, <2>2 DEF Judged, Typed
  <2> QED
    BY <2>3 DEF Judged, Answered
<1>5. CASE Verify
  <2>1. PICK a \in carried,
                  text \in KeyTexts \cup {public_key_base64url(s) : s \in Seeds} :
          /\ key' = {text}
          /\ verdict' = IF verify_attestation(a, text) = "none"
                        THEN "verified" ELSE verify_attestation(a, text)
    BY <1>5 DEF Verify
  <2>2. UNCHANGED <<resolution, emitted, carried, edits>> /\ carried = {a}
    BY <1>5 DEF Verify, profileVars, Inv
  <2>3. verify_attestation(a, text) \in Codes \cup {"none"}
    BY VerifiedPassesEveryCheck
  <2>4. verdict' \in Codes \cup {"verified"} /\ verdict' # "none"
    BY <2>1, <2>3 DEF Codes
  <2>5. Answered'
    BY <2>1, <2>2, EmittedDecides DEF Answered
  <2> QED
    BY <2>2, <2>4, <2>5 DEF Judged, Typed
<1>6. CASE UNCHANGED vars
  BY <1>6, EmittedDecides DEF vars, profileVars, Judged, Typed, Answered
<1> QED
  BY <1>1, <1>2, <1>3, <1>4, <1>5, <1>6 DEF Next

\* Nothing is judged at first, and no edit is made.
LEMMA JudgedInit == Init => Judged
BY DocumentAssumption DEF Init, Judged, Typed, Answered

-------------------------------------------------------------------------------
(* The theorems.                                                             *)

\* Both invariants hold in every behaviour.
LEMMA Invariant == Spec => [](Inv /\ Judged)
<1>1. Init => Inv /\ Judged
  BY InvInit, JudgedInit
<1>2. Inv /\ Judged /\ [Next]_vars => (Inv /\ Judged)'
  BY InvStep, JudgedStep
<1> QED
  BY <1>1, <1>2, PTL DEF Spec

\* For any keys, texts and edits: what verifies is what the owner of the key has
\* emitted, to the last symbol (attestation.rs:215-256, canonical.rs:39-63).
THEOREM VerifiedWasSigned == Spec => []VerifiedIsWhatWasSigned
<1>1. Inv => VerifiedIsWhatWasSigned
  BY DEF Inv
<1> QED
  BY <1>1, Invariant, PTL

\* For any profiles: the requested digest of a verified run names the profile from
\* which the effective digest beside it is recomputed (profile.rs:238-240).
THEOREM OperatorsCanRecompute == Spec => []OperatorCanRecompute
<1>1. Inv => OperatorCanRecompute
  <2> SUFFICES ASSUME Inv, NEW e \in emitted, e.origin = "run"
               PROVE  /\ e.attestation.content.requested = wanted.digest
                      /\ \A p \in Profiles : profile_digest(p) = wanted.digest =>
                           /\ p["/id"] = wanted.id
                           /\ e.attestation.content.effective
                                = effective_profile_digest(p)
    BY DEF OperatorCanRecompute
  <2>1. OfTheRun(e) /\ Resolved
    BY DEF Inv
  <2> QED
    BY <2>1 DEF OfTheRun, Resolved, profile_digest
<1> QED
  BY <1>1, Invariant, PTL

\* The surface is what is locked and what is enforced, but for verifyOsPeer.
LEMMA SurfaceIsEnforcedAndLocked ==
  /\ APPLIED_PROFILE_SURFACE = (Enforced \ {VerifyOsPeer}) \cup CONTRACT_LOCKED_SURFACE
  /\ VerifyOsPeer \in Enforced
<1> DEFINE rest == Enforced \ {VerifyOsPeer}
           same == {"/id", "/supportedPlatforms", "/workerTransport/kind",
                    "/sandboxEngine/requiredCapabilities", "/outputs/maxBytesPerTool",
                    "/outputs/maxTotalBytes", "/process/maxDurationSeconds",
                    "/sandboxEngine/manifest"}
<1>1. VerifyOsPeer \notin same /\ VerifyOsPeer \notin ProcessBlock
  BY DEF VerifyOsPeer, ProcessBlock
<1>2. Enforced = same \cup ProcessBlock \cup {VerifyOsPeer}
  BY DEF Enforced, ReadByResolve, ReadByControls, ReadByRun, VerifyOsPeer
<1>3. APPLIED_PROFILE_SURFACE = same \cup ProcessBlock \cup CONTRACT_LOCKED_SURFACE
  BY DEF APPLIED_PROFILE_SURFACE
<1> HIDE DEF same
<1>4. rest = same \cup ProcessBlock
  BY <1>1, <1>2
<1> QED
  BY <1>2, <1>3, <1>4

\* For any profiles the contract admits: among those that a run can have been under,
\* the effective digest names all that a run takes from a profile, and nothing else; of
\* the others, it leaves verifyOsPeer open and no more (profile.rs:219-264).
THEOREM EffectiveDigestsNameTheConfinement == Spec => []EffectiveNamesTheConfinement
<1>1. ASSUME NEW p \in Profiles, NEW q \in Profiles
      PROVE  Projected(p) = Projected(q)
               <=> \A pointer \in Enforced \ {VerifyOsPeer} : p[pointer] = q[pointer]
  <2>1. /\ Projected(p) = [pointer \in APPLIED_PROFILE_SURFACE |-> p[pointer]]
        /\ Projected(q) = [pointer \in APPLIED_PROFILE_SURFACE |-> q[pointer]]
    <3>1. /\ APPLIED_PROFILE_SURFACE \cap DOMAIN p = APPLIED_PROFILE_SURFACE
          /\ APPLIED_PROFILE_SURFACE \cap DOMAIN q = APPLIED_PROFILE_SURFACE
      BY ContractAssumption, SurfaceIsEnforcedAndLocked
    <3> QED
      BY <3>1 DEF Projected
  <2>2. \A pointer \in CONTRACT_LOCKED_SURFACE : p[pointer] = q[pointer]
    BY ContractAssumption
  <2>3. Projected(p) = Projected(q)
          <=> \A pointer \in APPLIED_PROFILE_SURFACE : p[pointer] = q[pointer]
    BY <2>1
  <2> QED
    BY <2>2, <2>3, SurfaceIsEnforcedAndLocked
<1>2. ASSUME NEW p, NEW q, Admitted(p), Admitted(q)
      PROVE  Taken(p) = Taken(q)
               <=> \A pointer \in Enforced \ {VerifyOsPeer} : p[pointer] = q[pointer]
  <2> DEFINE T(body) == [pointer \in Enforced |->
               IF pointer = VerifyOsPeer THEN body[VerifyOsPeer] = "true"
                                         ELSE body[pointer]]
  <2>1. Taken(p) = T(p) /\ Taken(q) = T(q)
    BY DEF Taken, VerifyOsPeer
  <2>2. p[VerifyOsPeer] # "true" /\ q[VerifyOsPeer] # "true"
    BY <1>2 DEF Admitted, VerifyOsPeer
  <2>3. T(p) = T(q) <=> \A pointer \in Enforced : T(p)[pointer] = T(q)[pointer]
    OBVIOUS
  <2>4. \A pointer \in Enforced \ {VerifyOsPeer} :
          T(p)[pointer] = p[pointer] /\ T(q)[pointer] = q[pointer]
    OBVIOUS
  <2>5. VerifyOsPeer \in Enforced => T(p)[VerifyOsPeer] = T(q)[VerifyOsPeer]
    BY <2>2
  <2> HIDE DEF T
  <2> QED
    BY <2>1, <2>3, <2>4, <2>5
<1>3. Inv => EffectiveNamesTheConfinement
  <2> SUFFICES ASSUME Inv, NEW e \in emitted, e.origin = "run",
                      NEW p \in Profiles
               PROVE  LET same == effective_profile_digest(p)
                                    = e.attestation.content.effective
                      IN /\ Admitted(p) => (same <=> Taken(p) = Taken(document.body))
                         /\ same => \A pointer \in Enforced \ {VerifyOsPeer} :
                                      p[pointer] = document.body[pointer]
    BY DEF EffectiveNamesTheConfinement
  <2>1. OfTheRun(e) /\ Resolved
    BY DEF Inv
  <2>2. /\ e.attestation.content.effective = Projected(document.body)
        /\ document.body \in Profiles /\ Admitted(document.body)
    BY <2>1 DEF OfTheRun, Resolved, effective_profile_digest, profile_digest
  <2> QED
    BY <1>1, <1>2, <2>2 DEF effective_profile_digest, profile_digest
<1> QED
  BY <1>3, Invariant, PTL

\* Every emitted signature is the encoding of a signature (attestation.rs:166).
THEOREM AttestationsAreTyped == Spec => []TypeOK
<1>1. Inv /\ Judged => TypeOK
  <2> SUFFICES ASSUME Inv, Judged PROVE TypeOK
    OBVIOUS
  <2>1. ASSUME NEW e \in emitted
        PROVE  /\ e.seed \in Seeds /\ e.bytes \in SignatureBytes
               /\ e.attestation.attestationDigest = {attestation_digest(e.attestation)}
               /\ e.attestation.signature \in Seq(Symbol)
    <3>1. Honest(e)
      BY DEF Inv
    <3>2. /\ e.attestation.attestationDigest = {attestation_digest(e.attestation)}
          /\ e.attestation.signature = base64url_encode(e.bytes)
      BY <3>1 DEF Honest, Attest
    <3>3. base64url_encode(e.bytes) \in Seq(Symbol)
      BY <3>1, KeyAssumption, EncodedIsText DEF Honest
    <3> QED
      BY <3>1, <3>2, <3>3 DEF Honest
  <2> QED
    BY <2>1 DEF TypeOK, Judged, Typed
<1> QED
  BY <1>1, Invariant, PTL

\* What was emitted passes every check but the key's, under any key, and every check
\* under the key of its signer.
LEMMA GenuinePasses ==
  ASSUME Inv, NEW e \in emitted, NEW text
  PROVE  /\ ~AttestationContractCheck(e.attestation).fails
         /\ ~DigestCheck(e.attestation).fails
         /\ ~SignatureTextCheck(e.attestation).fails
         /\ text = public_key_base64url(e.seed) =>
              ~KeyCheck(text).fails /\ ~SignatureCheck(e.attestation, text).fails
<1>1. Honest(e)
  BY DEF Inv
<1>2. /\ e.attestation.attestationDigest = {attestation_digest(e.attestation)}
      /\ e.attestation.signature = base64url_encode(e.bytes)
  BY <1>1 DEF Honest, Attest
<1>3. /\ e.bytes \in Seq(Byte) /\ Len(e.bytes) = SignatureLength
      /\ PublicKey[e.seed] \in Points /\ PublicKey[e.seed] \in Seq(Byte)
      /\ Len(PublicKey[e.seed]) = KeyLength
  BY <1>1, KeyAssumption DEF Honest
<1>4. base64url_decode(e.attestation.signature) = {e.bytes}
  BY <1>2, <1>3, DecodingUndoesEncoding
<1>5. ~AttestationContractCheck(e.attestation).fails
  BY <1>1 DEF AttestationContractCheck, Honest
<1>6. ~DigestCheck(e.attestation).fails
  BY <1>2 DEF DigestCheck
<1>7. ~SignatureTextCheck(e.attestation).fails
  BY <1>3, <1>4 DEF SignatureTextCheck
<1>8. ASSUME text = public_key_base64url(e.seed)
      PROVE  ~KeyCheck(text).fails /\ ~SignatureCheck(e.attestation, text).fails
  <2>1. base64url_decode(text) = {PublicKey[e.seed]}
    BY <1>3, <1>8, DecodingUndoesEncoding DEF public_key_base64url
  <2>2. PublicKey[e.seed] \in DecodedKey(text)
    BY <1>3, <2>1 DEF DecodedKey
  <2>3. e.message = signed_message(attestation_digest(e.attestation))
    BY <1>1 DEF Honest
  <2>4. ~SignatureCheck(e.attestation, text).fails
    BY <1>2, <1>4, <2>2, <2>3 DEF SignatureCheck
  <2> QED
    BY <2>2, <2>4 DEF KeyCheck
<1> QED
  BY <1>5, <1>6, <1>7, <1>8

\* For any keys and signatures: what was emitted, unedited and under the key of its
\* signer, verifies (attestation.rs:96-103, 155-174).
THEOREM GenuineAttestationsVerify == Spec => []GenuineVerifies
<1>1. Inv /\ Judged => GenuineVerifies
  <2> SUFFICES ASSUME Inv, Judged, NEW e \in emitted, carried = {e.attestation},
                      key = {public_key_base64url(e.seed)}
               PROVE  verdict = "verified"
    BY DEF GenuineVerifies
  <2> DEFINE a == e.attestation  text == public_key_base64url(e.seed)
  <2>1. /\ ~AttestationContractCheck(a).fails /\ ~DigestCheck(a).fails
        /\ ~SignatureTextCheck(a).fails /\ ~KeyCheck(text).fails
        /\ ~SignatureCheck(a, text).fails
    BY GenuinePasses
  <2>2. verify_attestation(a, text) = "none"
    BY <2>1, AnswersAreDeserved
  <2> QED
    BY <2>2 DEF Judged, Answered
<1> QED
  BY <1>1, Invariant, PTL

\* For any keys and texts: a key is only called malformed when it is no key's text,
\* and a genuine attestation is only called unsigned under somebody else's key
\* (attestation.rs:176-183).
THEOREM VerdictsBlameTheRightParty == Spec => []VerdictBlamesTheRightParty
<1> DEFINE keyTexts == {base64url_encode(point) : point \in Points}
<1>1. ASSUME Inv, Judged, verdict = "verifying_key_malformed"
      PROVE  key \cap keyTexts = {}
  <2> SUFFICES ASSUME NEW text \in key, text \in keyTexts PROVE FALSE
    OBVIOUS
  <2>1. PICK point \in Points : text = base64url_encode(point)
    OBVIOUS
  <2>2. point \in DecodedKey(text)
    BY <2>1, KeyAssumption, DecodingUndoesEncoding DEF DecodedKey
  <2>3. PICK a \in carried : TRUE
    BY <1>1 DEF Inv
  <2>4. verify_attestation(a, text) = "verifying_key_malformed"
    BY <1>1, <2>3 DEF Judged, Answered
  <2> QED
    BY <2>2, <2>4, AnswersAreDeserved DEF KeyCheck
<1>2. ASSUME Inv, Judged, NEW e \in emitted, carried = {e.attestation},
             verdict = "attestation_unsigned", NEW text \in key
      PROVE  text \in keyTexts \ {public_key_base64url(e.seed)}
  <2> DEFINE a == e.attestation
  <2>1. verify_attestation(a, text) = "attestation_unsigned"
    BY <1>2 DEF Judged, Answered
  <2>2. ~DigestCheck(a).fails /\ ~SignatureTextCheck(a).fails
    BY <1>2, GenuinePasses
  <2>3. SignatureCheck(a, text).fails /\ ~KeyCheck(text).fails
    BY <2>1, <2>2, AnswersAreDeserved
  <2>4. text # public_key_base64url(e.seed)
    BY <1>2, <2>3, GenuinePasses
  <2>5. PICK point \in Points : point \in base64url_decode(text)
    BY <2>3 DEF KeyCheck, DecodedKey
  <2>6. text = base64url_encode(point)
    BY <2>5, DecodedIsEncoded
  <2> QED
    BY <2>4, <2>6
<1>3. Inv /\ Judged => VerdictBlamesTheRightParty
  BY <1>1, <1>2 DEF VerdictBlamesTheRightParty
<1> QED
  BY <1>3, Invariant, PTL
===============================================================================
