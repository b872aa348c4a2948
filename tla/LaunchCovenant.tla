---------------------------- MODULE LaunchCovenant ----------------------------
(***************************************************************************)
(* What the launch authorities of a World have approved                    *)
(* (launch-covenant.ts, launch-covenant.server.ts): the canonical text of  *)
(* a manifest, its digest, the message each member signs, and the artifact *)
(* that is published under the signed URI.                                 *)
(*                                                                         *)
(* An approval is genuine, made over its message; forged; or garbled.      *)
(* SHA-256 is taken to be collision free: a digest is <<the text>>, and    *)
(* Nothing is no digest at all.                                            *)
(***************************************************************************)
EXTENDS HybridSpec

\* buildCanonicalLaunchManifestArtifact: the envelope is left out.
Canonical(m) ==
    [m EXCEPT !.covenant.uri = None, !.covenant.sha = Nothing, !.covenant.approvals = <<>>]

\* calculateCanonicalLaunchManifestSha256
DigestOf(m) == <<Canonical(m)>>

\* buildLaunchCovenantApprovalMessage
Message(m) ==
    [world |-> m.id, cluster |-> m.chain.cluster, uri |-> m.covenant.uri,
     sha |-> m.covenant.sha, approvedAt |-> m.covenant.approvedAt]

\* verifyLaunchCovenantApprovals: who has signed this very message.
Approvers(m) ==
    {m.covenant.approvals[i].signer : i \in {j \in DOMAIN m.covenant.approvals :
        LET a == m.covenant.approvals[j]
        IN  /\ a.signer \in Range(m.covenant.members)
            /\ a.state = "genuine" /\ a.signature = Message(m)}}

\* Mutant: the digest in the covenant is taken for that of the text.
ApprovedAsSealed(m) ==
    /\ m.chain.cluster = "mainnet-beta"
    /\ Cardinality(Approvers(m)) >= 2

Approved(m) ==
    /\ m.chain.cluster = "mainnet-beta"
    /\ m.covenant.uri # None /\ m.covenant.sha # Nothing /\ m.covenant.approvedAt # None
    /\ m.covenant.sha = DigestOf(m)
    /\ m.covenant.threshold = 2
    /\ Len(m.covenant.members) = 3 /\ Cardinality(Range(m.covenant.members)) = 3
    /\ Cardinality(Approvers(m)) >= 2

\* resolveSignedArtifactUrl: content addresses, and HTTPS hosts that are allowed.
Resolvable(uri) == uri \in {"ipfs", "ar", "https"}

\* verifyLaunchCovenantArtifact, on what the host sent.
ArtifactMatches(m, bytes) ==
    /\ Resolvable(m.covenant.uri)
    /\ bytes # Nothing
    /\ bytes = DigestOf(m)
    /\ bytes = m.covenant.sha
=============================================================================
