------------------------------ MODULE Attestation ------------------------------
(***************************************************************************)
(* The path of an attestation: a profile is resolved for a request, a run  *)
(* under it is signed (src/attestation.rs, sign_attestation), the document *)
(* travels and may be edited or damaged on its way, and an operator who    *)
(* holds nothing but the document and a public key judges it               *)
(* (verify_attestation).                                                   *)
(*                                                                         *)
(* Digests and signatures are ideal.  The digest of a document is its      *)
(* content; a signature verifies under a key when the owner of that key    *)
(* has emitted exactly those bytes for exactly that message.               *)
(***************************************************************************)
EXTENDS Profile, Canonical, FiniteSets

CONSTANTS
  Malformed,        \* bodies that do not satisfy the contract
  Usual,            \* the profile that every other may be mistaken for
  Inputs,           \* what callers of sign_attestation supply without a run
  Seeds, PublicKey, \* signing seeds, and the key bytes that belong to each
  Points,           \* the byte strings that are a verifying key
  KeyLength, SignatureLength,   \* 32 and 64 in the code
  SignatureBytes,   \* what a signature may be
  Texts, KeyTexts,  \* texts an edit writes, texts given for a key
  MaxSigned, MaxEdits           \* bounds of the model

ASSUME KeyAssumption ==
  /\ PublicKey \in [Seeds -> Points]
  /\ \A point \in Points : point \in Seq(Byte) /\ Len(point) = KeyLength
  /\ \A bytes \in SignatureBytes : bytes \in Seq(Byte) /\ Len(bytes) = SignatureLength

ASSUME DocumentAssumption == Usual \in Profiles /\ MaxSigned \in Nat /\ MaxEdits \in Nat

VARIABLES
  wanted,     \* the identifier and the digest the caller asks for
  document,   \* the profile document at hand
  resolution, \* "none", "resolved", or the code of a refusal
  emitted,    \* what the signers have handed out
  carried,    \* the attestation on its way: nothing, or one document
  edits,      \* how often it has been edited
  key,        \* the text of the verifying key: nothing, or one text
  verdict     \* "none", "verified", or a code

profileVars == <<wanted, document, resolution>>
vars == <<profileVars, emitted, carried, edits, key, verdict>>

EngineCapabilities == {"output_bounds", "process_isolation", "resource_limits"}

Init ==
  /\ \E body \in Profiles \cup Malformed :
       LET digests == {profile_digest(body), profile_digest(Usual)}
       IN /\ document \in [body : {body}, profileDigest : digests]
          /\ wanted \in [id : {body["/id"], Usual["/id"]}, digest : digests]
  /\ resolution = "none" /\ emitted = {} /\ carried = {} /\ edits = 0
  /\ key = {} /\ verdict = "none"

ResolveProfile ==
  /\ resolution = "none"
  /\ LET code == resolve_profile(wanted, document)
     IN resolution' = IF code = "none" THEN "resolved" ELSE code
  /\ UNCHANGED <<wanted, document, emitted, carried, edits, key, verdict>>

-------------------------------------------------------------------------------
(* Signing.                                                                  *)

\* The two fields that the address leaves out are absent until they are filled in.
Attest(content, digest, signature) ==
  [content |-> content, attestationDigest |-> digest, signature |-> signature]

assemble(inputs) == Attest(inputs, {}, << >>)

\* Mutation of attestation_digest: the signature is digested with the content.
SignatureIncluded(attestation) ==
  Attest(attestation.content, {}, attestation.signature)

attestation_digest(attestation) == Attest(attestation.content, {}, << >>)

signed_message(digest) == <<"libre-ai.harness-attestation.v1", digest>>

\* assemble refuses what binds less than it claims, or claims what the engine does
\* not offer; the contract refuses what is not well formed.
Signable(inputs) ==
  /\ inputs.manifests # {} /\ inputs.controls # {}
  /\ inputs.controls \subseteq EngineCapabilities
  /\ inputs.wellFormed

sign_attestation(inputs, origin) ==
  /\ Signable(inputs)
  /\ Cardinality(emitted) < MaxSigned
  /\ \E seed \in Seeds, bytes \in SignatureBytes :
       LET digest == attestation_digest(assemble(inputs))
       IN emitted' = emitted \cup
            {[origin |-> origin, seed |-> seed, bytes |-> bytes,
              message |-> signed_message(digest),
              attestation |-> Attest(inputs, {digest}, base64url_encode(bytes))]}

\* What resolve_controls lets a run be signed for, the network mode aside.
Admitted(body) ==
  /\ body["/workerTransport/kind"] # "private-network-namespace"
  /\ body["/workerTransport/verifyOsPeer"] # "true"
  /\ body["/sandboxEngine/requiredCapabilities"] \subseteq EngineCapabilities

\* The end of run_confined_attested, for a run that succeeded.
SignRun ==
  /\ resolution = "resolved" /\ carried = {}
  /\ Admitted(document.body)
  /\ \E wellFormed \in BOOLEAN :
       sign_attestation(
         [requested |-> document.profileDigest,
          effective |-> effective_profile_digest(document.body),
          manifests |-> {"program"},
          controls |-> document.body["/sandboxEngine/requiredCapabilities"],
          wellFormed |-> wellFormed], "run")
  /\ UNCHANGED <<profileVars, carried, edits, key, verdict>>

\* A caller of the public sign_attestation; checked beside a resolved profile.
SignDirectly ==
  /\ resolution = "resolved" /\ carried = {}
  /\ \E inputs \in Inputs : sign_attestation(inputs, "caller")
  /\ UNCHANGED <<profileVars, carried, edits, key, verdict>>

-------------------------------------------------------------------------------
(* On its way.                                                               *)

Depart ==
  /\ carried = {}
  /\ \E e \in emitted : carried' = {e.attestation}
  /\ UNCHANGED <<profileVars, emitted, edits, key, verdict>>

\* Anything the operator's copy may hold instead: the content, the address or the
\* signature of another attestation, or another text.
Edit ==
  /\ verdict = "none" /\ edits < MaxEdits /\ edits' = edits + 1
  /\ \E a \in carried :
       \/ \E content \in Inputs \cup {e.attestation.content : e \in emitted} :
            carried' = {Attest(content, a.attestationDigest, a.signature)}
       \/ \E other \in {a} \cup {e.attestation : e \in emitted} :
            carried' = {Attest(a.content, {attestation_digest(other)}, a.signature)}
       \/ \E text \in Texts \cup {e.attestation.signature : e \in emitted} :
            carried' = {Attest(a.content, a.attestationDigest, text)}
  /\ UNCHANGED <<profileVars, emitted, key, verdict>>

-------------------------------------------------------------------------------
(* Verification, as its early returns.                                       *)

public_key_base64url(seed) == base64url_encode(PublicKey[seed])

\* The contract may say more of the two texts; none of it is relied on.
AttestationContractCheck(a) ==
  [code |-> "attestation_binding_incomplete", fails |-> ~a.content.wellFormed]

DigestCheck(a) ==
  [code |-> "attestation_unsigned",
   fails |-> a.attestationDigest # {attestation_digest(a)}]

SignatureTextCheck(a) ==
  [code |-> "attestation_unsigned",
   fails |-> \A bytes \in base64url_decode(a.signature) : Len(bytes) # SignatureLength]

\* The key that a text is: none, or one.
DecodedKey(text) ==
  {bytes \in base64url_decode(text) : Len(bytes) = KeyLength /\ bytes \in Points}

\* Mutation of KeyCheck: a key that is none is reported as a missing signature.
AccusingKeyCheck(text) ==
  [code |-> "attestation_unsigned", fails |-> DecodedKey(text) = {}]

KeyCheck(text) ==
  [code |-> "verifying_key_malformed", fails |-> DecodedKey(text) = {}]

SignatureCheck(a, text) ==
  [code |-> "attestation_unsigned",
   fails |-> ~\E e \in emitted :
     /\ PublicKey[e.seed] \in DecodedKey(text)
     /\ \E digest \in a.attestationDigest : e.message = signed_message(digest)
     /\ e.bytes \in base64url_decode(a.signature)]

verify_attestation(a, text) ==
  FirstFailure(<<AttestationContractCheck(a), DigestCheck(a), SignatureTextCheck(a),
                 KeyCheck(text), SignatureCheck(a, text)>>)

Verify ==
  /\ verdict = "none"
  /\ \E a \in carried, text \in KeyTexts \cup {public_key_base64url(s) : s \in Seeds} :
       LET code == verify_attestation(a, text)
       IN key' = {text} /\ verdict' = IF code = "none" THEN "verified" ELSE code
  /\ UNCHANGED <<profileVars, emitted, carried, edits>>

Next == ResolveProfile \/ SignRun \/ SignDirectly \/ Depart \/ Edit \/ Verify

Spec == Init /\ [][Next]_vars

-------------------------------------------------------------------------------
(* Properties.                                                               *)

Codes == {"attestation_binding_incomplete", "attestation_unsigned",
          "verifying_key_malformed"}

\* Everything emitted is canonical text for a signature of the right length, on the
\* address of its own content.
TypeOK ==
  /\ resolution \in {"none", "resolved", "profile_unresolved",
                     "profile_digest_mismatch"}
  /\ \A e \in emitted :
       /\ e.seed \in Seeds /\ e.bytes \in SignatureBytes
       /\ e.attestation.attestationDigest = {attestation_digest(e.attestation)}
       /\ e.attestation.signature \in Seq(Symbol)
  /\ edits \in 0..MaxEdits
  /\ verdict \in Codes \cup {"none", "verified"}

\* An attestation that verifies is, to the last field and the last symbol, one that
\* the owner of the key has emitted, and the key is the owner's canonical text:
\* whatever was edited and whatever the leftover bits of the texts; so it binds a
\* worker and claims no control that the engine does not offer
\* (attestation.rs:114-128, 215-256, canonical.rs:39-63).
VerifiedIsWhatWasSigned ==
  verdict = "verified" =>
    \E e \in emitted :
      /\ carried = {e.attestation} /\ key = {public_key_base64url(e.seed)}
      /\ e.attestation.content.manifests # {}
      /\ e.attestation.content.controls \subseteq EngineCapabilities

\* What was emitted verifies, unedited, under the key its signer publishes: signing
\* and verifying agree on the fields left out of the address, and encoding and
\* decoding on every symbol (attestation.rs:96-103, 155-174).
GenuineVerifies ==
  \A e \in emitted :
    carried = {e.attestation} /\ key = {public_key_base64url(e.seed)} =>
      verdict = "verified"

\* "Reporting that with the refusal that means 'this attestation carries no valid
\* signature' tells an operator their genuine attestation is forged"
\* (attestation.rs:176-183): a genuine attestation is called unsigned only under
\* somebody else's key, and a key is called malformed only when it is no key's text.
VerdictBlamesTheRightParty ==
  LET keyTexts == {base64url_encode(point) : point \in Points}
  IN /\ verdict = "verifying_key_malformed" => key \cap keyTexts = {}
     /\ \A e \in emitted :
          carried = {e.attestation} /\ verdict = "attestation_unsigned" =>
            key \subseteq keyTexts \ {public_key_base64url(e.seed)}

\* "an operator must be able to recompute the effective digest from the requested
\* profile alone" (profile.rs:238-240): of a run's attestation that verifies, the
\* requested digest is what the caller asked for, and the profile it names has the
\* effective digest beside it.
OperatorCanRecompute ==
  verdict = "verified" =>
    \A e \in emitted : carried = {e.attestation} /\ e.origin = "run" =>
      /\ e.attestation.content.requested = wanted.digest
      /\ \A p \in Profiles :
           profile_digest(p) = wanted.digest =>
             /\ p["/id"] = wanted.id
             /\ e.attestation.content.effective = effective_profile_digest(p)

VerifyOsPeer == "/workerTransport/verifyOsPeer"

\* The surface claims neither too much nor too little (profile.rs:219-240).  Among
\* the profiles that a run can have been under, another one has the attested
\* effective digest exactly when a run takes the same from it at all the places
\* that read a profile.  Of the others, one that has the digest can only differ in
\* verifyOsPeer: "a code path reads the field AND acts on it" (profile.rs:228,
\* controls.rs:130-132), and it is left out all the same (profile.rs:262-264).
EffectiveNamesTheConfinement ==
  \A e \in emitted : e.origin = "run" =>
    \A p \in Profiles :
      LET same == effective_profile_digest(p) = e.attestation.content.effective
      IN /\ Admitted(p) => (same <=> Taken(p) = Taken(document.body))
         /\ same => \A pointer \in Enforced \ {VerifyOsPeer} :
                      p[pointer] = document.body[pointer]
===============================================================================
