----------------------------- MODULE WorldCatalog -----------------------------
(***************************************************************************)
(* The public World catalog (world-catalog.server.ts,                      *)
(* world-resolution.server.ts, the two worlds routes, the World page and   *)
(* the constraints of supabase/electric-relic-v1.sql): one row, one        *)
(* request, and everything that can change while the request waits - the   *)
(* row, the artifact under the signed URI, and the chain.                  *)
(*                                                                         *)
(* Each await of parsePublicCatalogRow is a stage of the request.  A read  *)
(* from the chain is answered from any finalized slot its minContextSlot   *)
(* allows, for a node may lag.                                             *)
(***************************************************************************)
EXTENDS LaunchCovenant, ProgramEvidence, HybridRead

CONSTANTS
    Rows,         \* rows the table may start with
    Texts,        \* manifests an operator may write into the row
    Ledgers,      \* chains to start with, one entry for each slot
    SeededSlug,   \* the slug of the seeded demo
    Slugs,        \* slugs that are asked for
    MaxSlot, MaxEdits     \* bounds

VARIABLES
    row,       \* the row of the catalog
    host,      \* digest of what the artifact's URI holds
    reviewed,  \* history: <<signer, digest>> of the artifacts members have signed
    ledger,    \* the finalized chain: program, programData and the five accounts
    request,   \* the request under way
    edits      \* how often the row and the artifact may still change

catalogVars == <<row, host, reviewed, ledger, request, edits>>

-----------------------------------------------------------------------------
(* The layout of the data *)

IsSequence(s) == Len(s) \in Nat /\ s = [i \in 1 .. Len(s) |-> s[i]]

\* A manifest, laid out as in types.ts: its sections, the fields of those that are
\* written to, and the sorts the rules rely on.
LaidOut(m) ==
    /\ DOMAIN m = {"schema", "protocolModel", "id", "slug", "name", "lifecycle", "migration",
                   "untyped", "lacking", "malformed", "status", "launch", "token", "collection",
                   "rules", "chain", "covenant", "assurance", "observedSlot"}
    /\ DOMAIN m.token = {"kind", "decimals"}
    /\ DOMAIN m.rules = {"backing", "captureOn", "captureFee", "captureSol", "releaseOn",
                         "releaseFee", "reroll", "rerollFee", "burns", "duplicates",
                         "scope", "policy"}
    /\ DOMAIN m.covenant = {"uri", "sha", "approvedAt", "supply", "exposure", "feeRecipient",
                            "collectionAuthority", "escrowAuthority", "feeAuthority",
                            "threshold", "members", "approvals"}
    /\ IsSequence(m.covenant.members) /\ IsSequence(m.covenant.approvals)
    /\ {m.rules.backing, m.collection.max, m.covenant.supply} \subseteq Nat

RowColumns == {"id", "slug", "name", "status", "manifest", "published", "connected"}

ASSUME CatalogAssumption ==
    /\ MaxSlot \in Nat
    /\ \A r \in Rows :
          /\ DOMAIN r = RowColumns
          /\ LaidOut(r.manifest)
          \* what was approved in earnest names a digest
          /\ \A a \in Range(r.manifest.covenant.approvals) :
                a.state = "genuine" => Len(a.signature.sha) = 1
    /\ \A m \in Texts : LaidOut(m)
    /\ \A l \in Ledgers : IsSequence(l) /\ Len(l) \in 1 .. MaxSlot

NoRequest == [kind |-> "none", slug |-> SeededSlug, stage |-> "answered",
              manifest |-> <<>>, program |-> 0, state |-> 0, answer |-> "none"]

Public == {"LIVE", "VERIFIED", "FEATURED"}

-----------------------------------------------------------------------------
(* The constraints of the table *)

\* electric_relic_catalog_schema_version_check, electric_relic_catalog_manifest_check
ManifestCheck(r) ==
    /\ r.manifest.schema = "3.0"
    /\ r.manifest.protocolModel = "MPL_HYBRID_V2_RECIPE"
    /\ r.manifest.id = r.id /\ r.manifest.slug = r.slug /\ r.manifest.name = r.name
    /\ r.manifest.lifecycle = r.status
    /\ r.manifest.lacking = {}

\* electric_relic_catalog_chain_check
ChainCheck(r) ==
    LET m == r.manifest
    IN  IF r.connected
        THEN /\ m.status.deployment \in {"CONFIGURED", "DEPLOYED"}
             /\ None \notin {m.chain[k] : k \in {"cluster", "tokenMint", "tokenProgram",
                      "collection", "escrow", "recipe", "program", "authority"}}
             /\ m.covenant.feeRecipient # None
        ELSE m.status.deployment = "NOT_CONNECTED" /\ m.chain = NoChain

\* electric_relic_catalog_publication_check: a row past REVIEW.
PublicationCheck(r) ==
    LET m == r.manifest
        stored(uri) == uri \in {"https", "https-file", "ipfs", "ar"}
    IN  r.status \in {"DRAFT", "REVIEW"} \/
        /\ r.connected /\ r.published
        /\ m.status.deployment = "DEPLOYED"
        /\ m.status.validation \in {"TESTED", "VERIFIED"}
        /\ m.chain.sourceCommit # None
        /\ \A k \in {"programVerificationUri", "clientUri", "reviewUri"} :
              stored(m.assurance[k])
        /\ \A k \in {"programData", "executable", "clientHash", "idlHash", "reviewHash"} :
              m.assurance[k] # None
        /\ m.observedSlot > 0
        /\ m.assurance.policy \in {"IMMUTABLE", "EXACT"}
        /\ m.assurance.policy = "EXACT" <=> m.assurance.upgradeAuthority # None
        /\ r.status = "TESTED" \/
           /\ m.status.mode = "MAINNET" /\ m.status.validation = "VERIFIED"
           /\ m.chain.cluster = "mainnet-beta"
           /\ m.covenant.uri # None /\ m.covenant.sha # Nothing /\ m.covenant.approvedAt # None
           /\ m.assurance.legalHash # None

\* The checks are NOT VALID: they govern new writes, and rows of before V3 stay.
Writable(r) == ManifestCheck(r) /\ ChainCheck(r) /\ PublicationCheck(r)
Legacy(r) == r.manifest.schema \in {"1.0", "2.0"}

-----------------------------------------------------------------------------
(* The operator, the members and the chain *)

Rewrite(manifest) ==
    /\ edits > 0 /\ edits' = edits - 1
    /\ LET r == [row EXCEPT !.manifest = manifest]
       IN  Writable(r) /\ row' = r
    /\ UNCHANGED <<ledger, request>>

\* The text is changed, the envelope is kept.
EditText(text) ==
    /\ Rewrite([text EXCEPT !.covenant.uri = row.manifest.covenant.uri,
                            !.covenant.sha = row.manifest.covenant.sha,
                            !.covenant.approvals = row.manifest.covenant.approvals])
    /\ UNCHANGED <<host, reviewed>>

Seal ==
    /\ Rewrite([row.manifest EXCEPT !.covenant.sha = DigestOf(row.manifest)])
    /\ UNCHANGED <<host, reviewed>>

PublishArtifact ==
    /\ edits > 0 /\ edits' = edits - 1
    /\ host' = DigestOf(row.manifest)
    /\ UNCHANGED <<row, reviewed, ledger, request>>

\* A member signs what the row says, with the published artifact at hand.
Sign(signer) ==
    LET m == row.manifest
    IN  /\ signer \in Range(m.covenant.members)
        /\ host = m.covenant.sha /\ host # Nothing
        /\ reviewed' = reviewed \cup {<<signer, host>>}
        /\ Rewrite([m EXCEPT !.covenant.approvals =
                       Append(@, [signer |-> signer, signature |-> Message(m),
                                   state |-> "genuine"])])
        /\ UNCHANGED host

Extend(entry) ==
    /\ Len(ledger) < MaxSlot
    /\ ledger' = Append(ledger, entry)
    /\ UNCHANGED <<row, host, reviewed, request, edits>>

Now == ledger[Len(ledger)]

UpgradeProgram ==
    /\ Now.data.option = 1 /\ Now.data.hash # "upgraded"
    /\ Extend([Now EXCEPT !.data.hash = "upgraded"])

\* The authority of a World may change its recipe at any time.
ReconfigureRecipe ==
    /\ Now.world.recipe.terms.captureFee = 0
    /\ Extend([Now EXCEPT !.world.recipe.terms.captureFee = 1])

\* A holder burns coins.
BurnCoins ==
    /\ Now.world.mint.supply > 1
    /\ Extend([Now EXCEPT !.world.mint.supply = @ - 1])

-----------------------------------------------------------------------------
(* A request *)

Unchanged == UNCHANGED <<row, host, reviewed, ledger, edits>>

Answer(outcome) ==
    request' = [NoRequest EXCEPT !.kind = request.kind, !.slug = request.slug, !.answer = outcome]

\* resolvePublicWorld without a manifest from the catalog; the list has no fallback.
Fallback ==
    IF request.kind = "list" THEN "empty"
    ELSE IF request.slug = SeededSlug THEN "seed" ELSE "404"

\* GET /worlds, GET /worlds/[slug], the World page.
Ask(kind, slug) ==
    /\ request.stage = "answered"
    /\ kind = "list" => slug = SeededSlug
    /\ request' = [NoRequest EXCEPT !.kind = kind, !.slug = slug, !.stage = "rows"]
    /\ Unchanged

\* No catalog is configured: the seeds are all there is.
NotConfigured ==
    /\ request.stage = "rows"
    /\ Answer(IF request.kind = "list" THEN "seed" ELSE Fallback)
    /\ Unchanged

\* readRows throws: 502, and no seed in its place.
RowsUnavailable ==
    /\ request.stage = "rows"
    /\ Answer("502")
    /\ Unchanged

\* The filters of listPublic and findBySlug, and isCatalogRow.
Found ==
    /\ row.status \in Public /\ row.connected /\ row.published
    /\ request.kind = "list" \/ row.slug = request.slug

RowsEmpty ==
    /\ request.stage = "rows"
    /\ ~ Found
    /\ Answer(Fallback)
    /\ Unchanged

\* parsePublicCatalogRow, up to its first await.
Acceptable(r) ==
    LET m == Candidate(r.manifest)
    IN  /\ Parses(r.manifest)
        /\ m.lifecycle = r.status
        /\ m.status.mode = "MAINNET"
        /\ m.status.validation = "VERIFIED" /\ m.status.deployment = "DEPLOYED"
        /\ m.chain.recipe # None /\ m.chain.sourceCommit # None
        /\ m.assurance.programVerificationUri # None /\ m.assurance.reviewUri # None
        /\ Approved(m)
        /\ Resolvable(m.covenant.uri)

RowRefused ==
    /\ request.stage = "rows"
    /\ Found /\ ~ Acceptable(row)
    /\ Answer(Fallback)
    /\ Unchanged

RowAccepted ==
    /\ request.stage = "rows"
    /\ Found /\ Acceptable(row)
    /\ request' = [request EXCEPT !.stage = "artifact",
                                  !.manifest = <<Candidate(row.manifest)>>]
    /\ Unchanged

Manifest == request.manifest[1]

\* verifyLaunchCovenantArtifact; the fetch is aborted after five seconds.
ReadArtifact ==
    /\ request.stage = "artifact"
    /\ IF ArtifactMatches(Manifest, host)
       THEN request' = [request EXCEPT !.stage = "program"]
       ELSE Answer(Fallback)
    /\ Unchanged

\* verifySignedProgramDeployment
Expected(m) ==
    [program |-> m.chain.program, programData |-> m.assurance.programData,
     executable |-> m.assurance.executable, policy |-> m.assurance.policy,
     upgradeAuthority |-> m.assurance.upgradeAuthority]

ReadProgram(slot) ==
    /\ request.stage = "program"
    /\ IF ObservedDeployment(slot, Manifest.observedSlot, ledger[slot].program,
                             ledger[slot].data, Expected(Manifest))
       THEN request' = [request EXCEPT !.stage = "state", !.program = slot]
       ELSE Answer(Fallback)
    /\ Unchanged

ReadState(slot) ==
    /\ request.stage = "state"
    /\ IF BuildsSpec(Manifest) /\ StateRead(SpecOf(Manifest), ledger[slot].world)
       THEN request' = [request EXCEPT !.stage = "gate", !.state = slot]
       ELSE Answer(Fallback)
    /\ Unchanged

\* An HTTP error, a malformed answer or a timeout of any of the three reads.
ReadFails ==
    /\ request.stage \in {"artifact", "program", "state"}
    /\ Answer(Fallback)
    /\ Unchanged

\* The reader reports launchReady as the constant false.
LaunchReady == FALSE

Gate ==
    /\ request.stage = "gate"
    /\ Answer(IF LaunchReady THEN "catalog" ELSE Fallback)
    /\ Unchanged

-----------------------------------------------------------------------------
CatalogInit ==
    /\ row \in Rows /\ (Writable(row) \/ Legacy(row))
    /\ host \in {Nothing, DigestOf(row.manifest)}
    /\ reviewed = {<<a.signer, a.signature.sha>> :
                      a \in {b \in Range(row.manifest.covenant.approvals) :
                                b.state = "genuine"}}
    /\ ledger \in Ledgers
    /\ request = NoRequest
    /\ edits \in 0 .. MaxEdits

Verify ==
    \/ RowsEmpty \/ RowRefused \/ RowAccepted
    \/ ReadArtifact \/ ReadFails \/ Gate
    \/ \E slot \in 1 .. Len(ledger) : ReadProgram(slot) \/ ReadState(slot)

Outside ==
    \/ \E text \in Texts : EditText(text)
    \/ \E signer \in Range(row.manifest.covenant.members) : Sign(signer)
    \/ Seal \/ PublishArtifact
    \/ UpgradeProgram \/ ReconfigureRecipe \/ BurnCoins

CatalogNext ==
    \/ \E kind \in {"list", "detail"}, slug \in Slugs : Ask(kind, slug)
    \/ NotConfigured \/ RowsUnavailable
    \/ Verify
    \/ Outside

CatalogSpec == CatalogInit /\ [][CatalogNext]_catalogVars

-----------------------------------------------------------------------------
(* Properties *)

CatalogTypeOK ==
    /\ Writable(row) \/ Legacy(row)
    /\ Len(host) <= 1
    /\ \A entry \in reviewed : Len(entry[2]) = 1
    /\ Len(ledger) \in 1 .. MaxSlot
    /\ request.stage \in {"rows", "artifact", "program", "state", "gate", "answered"}
    /\ request.program <= Len(ledger) /\ request.state <= Len(ledger)

AtGate == request.stage = "gate"

\* A World that is on its way to publication carries exactly the text that two
\* different members of its multisig had before them when they signed, whatever was
\* edited in the row, and in which order, before and after; and it is the World that
\* was asked for: the server compares no slug, the table's constraint does.
ReviewedTermsOnly ==
    request.stage \in {"artifact", "program", "state", "gate"} =>
        /\ \E a, b \in Range(Manifest.covenant.members) :
              /\ a # b
              /\ {<<a, DigestOf(Manifest)>>, <<b, DigestOf(Manifest)>>} \subseteq reviewed
        /\ request.kind = "detail" => Manifest.slug = request.slug

\* At that gate the promise to holders could be kept: with the recipe and the mint
\* as they were read, there is for every number of assets that may leave escrow a
\* reserve of coins that exist and with which the World is safe to serve, nobody can
\* issue or freeze coins, no asset can be burnt, and the fees are those on the page.
PromiseCanBeKept ==
    AtGate =>
        LET world == ledger[request.state].world
            terms == world.recipe.terms
            spec  == [SpecOf(Manifest) EXCEPT !.terms = terms]
            all   == Manifest.collection.max
        IN  /\ \A active \in 0 .. all : \E coins \in 0 .. world.mint.supply :
                  SafeToServe(spec, coins, all - active, active, all)
            /\ world.mint.mintAuthority = None /\ world.mint.freezeAuthority = None
            /\ ~ Decode(terms.path).burnOnCapture /\ ~ Decode(terms.path).burnOnRelease
            /\ terms.captureFee = Manifest.rules.captureFee
            /\ world.tokens.holder = EscrowOf[Manifest.covenant.escrowAuthority]

\* The program that was seen running is the one the covenant names, under the
\* authority it names, at a slot no earlier than the one it was signed at.
SignedProgramSeen ==
    request.stage \in {"state", "gate"} =>
        LET seen == ledger[request.program].data
        IN  /\ seen.hash = Manifest.assurance.executable
            /\ seen.option = 1 => seen.authority = Manifest.assurance.upgradeAuthority
            /\ request.program >= Manifest.observedSlot

\* A row of an older schema is never lost to the stricter rules: when its source can
\* be read and the parts that are carried over are valid, its migration is accepted.
CarriedOver(m) ==
    /\ m.untyped \subseteq {"launch", "assurance"}
    /\ m.lacking \subseteq {"launch", "chain", "covenant", "assurance"}
    /\ Cardinality(m.status.scopes) <= 8
    /\ WellFormed(m, {"texts", "colour", "enums", "dates", "slug", "symbol", "amounts"})
    /\ m.token.decimals <= 18 /\ m.collection.max > 0
    /\ m.rules.backing > 0 /\ m.rules.rerollFee = 0

MigrationAccepted ==
    Legacy(row) /\ LegacySource(row.manifest) /\ CarriedOver(row.manifest)
        => Parses(row.manifest)

=============================================================================
