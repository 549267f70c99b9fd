---------------------------- MODULE CertPolicy ----------------------------
(***************************************************************************)
(* The client's certificate check: BoringSSLProofVerifier::VerifyCertChain *)
(* (src/web_transport_client_verify.cc), which quiche's TLS handshake      *)
(* calls with the chain the server presents, and the policy of spec §4.3   *)
(* it implements.                                                          *)
(*                                                                         *)
(* X.509 is BoringSSL's business, so a configuration and a chain are       *)
(* abstracted to the verdicts the code asks of it: whether each of the     *)
(* presented certificates parses (LoadCertificate), whether the pinned     *)
(* file loads and parses or the CA locations load, whether the leaf is     *)
(* DER-equal to the pinned certificate (X509_cmp), whether the chain       *)
(* builds a path to the configured store (X509_verify_cert) and whether    *)
(* the leaf matches the host (X509_check_host).                            *)
(***************************************************************************)
EXTENDS Naturals

\* public_key_file_ set (pinned); else a CA bundle or directory; else neither.
VerifierModes == {"pinned", "store", "default"}

(* The verifier as constructed: its mode, and whether what that mode loads *)
(* at verification time (the pinned file, or the store's locations or      *)
(* default paths) loads.                                                   *)
VerifierConfigs == [mode : VerifierModes, loads : BOOLEAN]

(* The chain the server presents: its length (0 for none), whether every   *)
(* certificate parses, and the verdicts on its leaf and path.              *)
PresentedChains ==
    [len : 0..2, parses : BOOLEAN, leafIsPin : BOOLEAN,
     pathOk : BOOLEAN, hostOk : BOOLEAN]
-----------------------------------------------------------------------------
\* The certificates are present and each one loads (PEM or DER).
ChainLoads(chain) == chain.len > 0 /\ chain.parses

\* Fault variant (mutation check): the pinned branch without its chain
\* length check.
PinnedCheckAnyLength(cfg, chain) == cfg.loads /\ chain.leafIsPin

\* Pinned mode: a chain of one certificate equal to the loaded pinned one.
PinnedCheck(cfg, chain) == chain.len = 1 /\ cfg.loads /\ chain.leafIsPin

\* CA mode: the store loads, the chain verifies against it, the leaf
\* matches the host.
StoreCheck(cfg, chain) == cfg.loads /\ chain.pathOk /\ chain.hostOk

\* VerifyCertChain returns QUIC_SUCCESS.
VerifyCertChain(cfg, chain) ==
    /\ ChainLoads(chain)
    /\ IF cfg.mode = "pinned" THEN PinnedCheck(cfg, chain)
                              ELSE StoreCheck(cfg, chain)
-----------------------------------------------------------------------------
(* The reference: spec §4.3 and invariant 6 of §7.  A pinned client        *)
(* accepts exactly one certificate DER-equal to its (readable) pin; the    *)
(* others accept a chain that X.509 path building validates against the   *)
(* configured (or system) store and whose leaf matches the host.           *)
PolicyAccepts(cfg, chain) ==
    CASE cfg.mode = "pinned" ->
            chain.len = 1 /\ chain.parses /\ cfg.loads /\ chain.leafIsPin
      [] cfg.mode \in {"store", "default"} ->
            chain.len >= 1 /\ chain.parses /\ cfg.loads
                /\ chain.pathOk /\ chain.hostOk
=============================================================================
