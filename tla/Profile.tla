-------------------------------- MODULE Profile --------------------------------
(***************************************************************************)
(* Profile documents of src/profile.rs: their two content addresses and    *)
(* what resolving one for a request checks.  A document is its body, a     *)
(* function from JSON pointers to values, beside the digest it declares.   *)
(* A content address is the content: canonical_sha256 is taken to be       *)
(* injective, so that two digests are equal when what they digest is.      *)
(***************************************************************************)
EXTENDS Checks, Sequences

CONSTANT Profiles   \* the bodies that satisfy the locked contract

ProcessBlock ==
  {"/process/dedicatedIdentity", "/process/denyPrivilegeEscalation",
   "/process/dropAmbientCapabilities", "/process/killProcessGroup",
   "/process/maxProcesses"}

CONTRACT_LOCKED_SURFACE ==
  {"/schemaVersion", "/sandboxEngine/denyOnMissing",
   "/workerTransport/runBoundToken", "/attestation/signed",
   "/attestation/bindRequestedProfile", "/attestation/bindEffectiveControls",
   "/attestation/bindWorkerManifests"}

\* Mutation of APPLIED_PROFILE_SURFACE: a bound that the ledger applies is missing.
NarrowSurface ==
  CONTRACT_LOCKED_SURFACE \cup ProcessBlock \cup
  {"/id", "/supportedPlatforms", "/process/maxDurationSeconds",
   "/sandboxEngine/manifest", "/sandboxEngine/requiredCapabilities",
   "/outputs/maxBytesPerTool", "/workerTransport/kind"}

APPLIED_PROFILE_SURFACE ==
  CONTRACT_LOCKED_SURFACE \cup ProcessBlock \cup
  {"/id", "/supportedPlatforms", "/process/maxDurationSeconds",
   "/sandboxEngine/manifest", "/sandboxEngine/requiredCapabilities",
   "/outputs/maxBytesPerTool", "/outputs/maxTotalBytes", "/workerTransport/kind"}

-------------------------------------------------------------------------------
(* The two digests.                                                          *)

profile_digest(body) == body

Projected(body) ==
  [pointer \in APPLIED_PROFILE_SURFACE \cap DOMAIN body |-> body[pointer]]

effective_profile_digest(body) == profile_digest(Projected(body))

\* Every field that a run reads and acts on, at the places that read it:
\* resolve_profile, resolve_controls, plan_wrapper_chain, and the rest of
\* run_confined_attested.
ReadByResolve == {"/id"}
ReadByControls ==
  {"/supportedPlatforms", "/workerTransport/kind", "/workerTransport/verifyOsPeer",
   "/sandboxEngine/requiredCapabilities"}
ReadByRun ==
  {"/outputs/maxBytesPerTool", "/outputs/maxTotalBytes",
   "/process/maxDurationSeconds", "/sandboxEngine/manifest"}

Enforced == ReadByResolve \cup ReadByControls \cup ProcessBlock \cup ReadByRun

\* What a run takes from a profile: of the optional verifyOsPeer only whether it is
\* prescribed, of every other field its value.
Taken(body) ==
  [pointer \in Enforced |-> IF pointer = "/workerTransport/verifyOsPeer"
                            THEN body[pointer] = "true" ELSE body[pointer]]

\* Every profile has a value for what is read, "absent" for an optional field
\* that it leaves out, and the contract fixes the locked members by const.
ASSUME ContractAssumption ==
  /\ \A p \in Profiles :
       Enforced \cup CONTRACT_LOCKED_SURFACE \subseteq DOMAIN p
  /\ \A p, q \in Profiles : \A pointer \in CONTRACT_LOCKED_SURFACE :
       p[pointer] = q[pointer]

-------------------------------------------------------------------------------
(* resolve_profile, as its early returns.                                    *)

ContractCheck(document) ==
  [code |-> "profile_unresolved", fails |-> document.body \notin Profiles]

\* Mutation of AddressCheck: the document is taken at its word.
TrustingAddressCheck(document) ==
  [code |-> "profile_digest_mismatch", fails |-> FALSE]

AddressCheck(document) ==
  [code |-> "profile_digest_mismatch",
   fails |-> document.profileDigest # profile_digest(document.body)]

IdentityCheck(id, document) ==
  [code |-> "profile_unresolved", fails |-> document.body["/id"] # id]

RequestCheck(digest, document) ==
  [code |-> "profile_digest_mismatch", fails |-> document.profileDigest # digest]

resolve_profile(wanted, document) ==
  FirstFailure(<<ContractCheck(document), AddressCheck(document),
                 IdentityCheck(wanted.id, document),
                 RequestCheck(wanted.digest, document)>>)
===============================================================================
