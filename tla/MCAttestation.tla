---------------------------- MODULE MCAttestation ----------------------------
(***************************************************************************)
(* Instances of Attestation for TLC.  A signature is one byte and a key    *)
(* two: 64 and 32 bytes leave the same numbers of bits over.               *)
(***************************************************************************)
EXTENDS Attestation, TLC

All == {"output_bounds", "process_isolation", "resource_limits"}

Plain ==
  [pointer \in CONTRACT_LOCKED_SURFACE \cup ProcessBlock |-> "const"]
  @@ [pointer \in {"/id", "/version", "/supportedPlatforms", "/filesystem/readOnly",
                   "/process/maxDurationSeconds", "/sandboxEngine/manifest",
                   "/outputs/maxBytesPerTool", "/outputs/maxTotalBytes"} |-> "usual"]
  @@ ("/workerTransport/kind" :> "private-unix-socket")
  @@ ("/workerTransport/verifyOsPeer" :> "absent")
  @@ ("/sandboxEngine/requiredCapabilities" :> All)

\* One profile for every field a valid document may change, applied or not.
MCProfiles ==
  {Plain}
  \cup {[Plain EXCEPT ![pointer] = "other"] : pointer \in
          {"/id", "/version", "/supportedPlatforms", "/filesystem/readOnly",
           "/process/maxDurationSeconds", "/sandboxEngine/manifest",
           "/outputs/maxBytesPerTool", "/outputs/maxTotalBytes"}}
  \cup {[Plain EXCEPT !["/workerTransport/kind"] = "private-network-namespace"],
        [Plain EXCEPT !["/workerTransport/verifyOsPeer"] = "true"],
        [Plain EXCEPT !["/workerTransport/verifyOsPeer"] = "false"],
        [Plain EXCEPT !["/sandboxEngine/requiredCapabilities"] = {"output_bounds"}],
        [Plain EXCEPT !["/sandboxEngine/requiredCapabilities"] =
           {"filesystem_confinement"}]}

MCMalformed == {[Plain EXCEPT !["/attestation/signed"] = "other"]}

Claim(manifests, controls, wellFormed) ==
  [requested |-> Plain, effective |-> Plain, manifests |-> manifests,
   controls |-> controls, wellFormed |-> wellFormed]

\* A claim that can be signed, one of too much, and one that is no attestation.
MCInputs ==
  {Claim({"m"}, All, TRUE), Claim({"m"}, {"filesystem_confinement"}, TRUE),
   Claim({}, All, FALSE)}

MCSeeds == {1, 2}
MCPublicKey == <<<<0, 16>>, <<255, 1>>>>
MCPoints == {<<0, 16>>, <<255, 1>>, <<1, 0>>}
MCSignatureBytes == {<<0>>, <<16>>}

\* The encoding of a byte no signer wrote, a byte with leftover bits, a padded one,
\* one symbol, none, and two bytes.
MCTexts == {<<1, 0>>, <<0, 1>>, <<4, 1>>, <<0, 0, 64, 64>>, <<0>>, << >>, <<0, 1, 0>>}

\* A key with leftover bits, a padded one, two bytes that are no point, three bytes,
\* and the key of no signer.
MCKeyTexts == {<<0, 16, 0>>, <<0, 1, 1>>, <<0, 1, 0, 64>>, <<0, 2, 0>>, <<0, 1, 0, 0>>}
===============================================================================
