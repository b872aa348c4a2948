---------------------------- MODULE WorldManifest ----------------------------
(***************************************************************************)
(* The rules a World manifest meets before anything is read from a chain   *)
(* (validation.ts): the shape of the parsed JSON, the migration of the two *)
(* older schemas, the rules of every V3 manifest and the covenant of a     *)
(* mainnet one.                                                            *)
(*                                                                         *)
(* A manifest m is a record of records, laid out as in types.ts.  Of its   *)
(* texts the rules tell apart only whether they are well formed, so that   *)
(*   m.untyped    is the set of sections with a value of a wrong type,     *)
(*   m.lacking    is the set of sections that are no object (which is a    *)
(*                wrong type too) or lack a key the table asks for,        *)
(*   m.malformed  is the set of kinds of text that fail their pattern,     *)
(*                length or enumeration.                                   *)
(* An amount, a slot or a size is a number, and 0 stands for null too.     *)
(***************************************************************************)
EXTENDS Naturals, FiniteSets, Sequences, Functions

None == "null"

\* No digest; a digest is the sequence of the one text it is of (LaunchCovenant).
Nothing == <<>>

CONSTANTS
    ClassicProgram,    \* the classic SPL token program
    HybridProgram,     \* the MPL-Hybrid program
    ReviewedCommit     \* MPL_HYBRID_V2_SOURCE_COMMIT

\* An address is never the text for no address.
ASSUME ManifestAssumption == ClassicProgram # None

ChainKeys ==
    {"cluster", "tokenMint", "tokenProgram", "bondingCurve", "curveTokens",
     "swapPool", "pumpCreate", "collection", "updateDelegate", "escrow", "recipe",
     "program", "sourceCommit", "authority", "signature"}

NoChain == [k \in ChainKeys |-> None]

Assurances ==
    {"programVerificationUri", "programData", "executable", "policy",
     "upgradeAuthority", "clientUri", "clientHash", "idlHash", "reviewUri",
     "reviewHash", "legalHash"}

NoAssurance == [k \in Assurances |-> IF k = "policy" THEN "UNSET" ELSE None]

-----------------------------------------------------------------------------
(* Texts *)

\* isPublishedUri, isHttpUrl: of a URI the scheme is kept.
HttpUrl(uri) == uri \in {"http", "https", "https-file"}
Published(uri) == HttpUrl(uri) \/ uri \in {"ipfs", "ar"}

\* hasWorldManifestShape: types, and the lengths of the lists.
WellTyped(m) ==
    /\ m.untyped = {} /\ m.lacking = {}
    /\ Cardinality(m.status.scopes) <= 8
    /\ Len(m.covenant.members) <= 16
    /\ Len(m.covenant.approvals) <= 16

WellFormed(m, texts) == m.malformed \cap texts = {}

-----------------------------------------------------------------------------
(* validateWorldManifest *)

\* What a migrated manifest must still look like.
Quarantined(m) ==
    /\ m.lifecycle = "REVIEW"
    /\ m.status.mode = "DEMO"
    /\ m.status.validation = "UNTESTED"
    /\ m.status.deployment = "NOT_CONNECTED"
    /\ m.status.scopes = {}
    /\ ~ m.launch.writes
    /\ m.launch.collection = "NOT_STARTED"
    /\ m.launch.hybrid = "NOT_CONFIGURED"
    /\ m.token.kind = "UNKNOWN"
    /\ m.chain = NoChain
    /\ m.covenant.uri = None /\ m.covenant.sha = Nothing /\ m.covenant.approvedAt = None
    /\ m.assurance = NoAssurance /\ m.observedSlot = 0
    /\ m.covenant.approvals = <<>>

IdentityValid(m) ==
    /\ m.schema = "3.0"
    /\ m.rules.scope = "DEDICATED_WORLD"
    /\ m.migration # None => Quarantined(m)
    /\ WellFormed(m, {"texts", "label", "launch"})

\* Which coins the Hybrid program can be initialised for.
HybridTrack ==
    {"READY_TO_INITIALIZE", "INITIALIZING", "INITIALIZED", "FUNDING", "ACTIVE"}

TokenStandardRespected(m) ==
    /\ m.token.kind \in {"UNKNOWN", "CLASSIC_SPL", "TOKEN_2022", "UNSUPPORTED"}
    /\ m.token.kind = "TOKEN_2022" => m.launch.hybrid = "BLOCKED_TOKEN_STANDARD"
    /\ m.launch.hybrid \in HybridTrack => m.token.kind = "CLASSIC_SPL"
    /\ m.launch.path = "V2_TOKEN_2022" => m.launch.hybrid = "BLOCKED_TOKEN_STANDARD"
    /\ m.status.mode = "MAINNET" => m.launch.writes

EnumerationsValid(m) ==
    /\ m.protocolModel = "MPL_HYBRID_V2_RECIPE"
    /\ m.status.mode \in {"DEMO", "TESTNET", "MAINNET"}
    /\ m.status.validation \in {"UNTESTED", "TESTED", "VERIFIED"}
    /\ m.status.deployment \in {"NOT_CONNECTED", "CONFIGURED", "DEPLOYED"}
    /\ m.status.scopes \subseteq
          {"SCHEMA", "RESERVE_MATH", "LOCAL_FLOW", "DEVNET", "MAINNET"}
    /\ m.chain.cluster \in {None, "devnet", "testnet", "mainnet-beta"}
    /\ WellFormed(m, {"colour", "enums"})

SafetyValid(m) ==
    /\ ~ m.rules.burns
    /\ m.rules.reroll => m.rules.duplicates
    /\ WellFormed(m, {"dates", "signatures"})

AmountsValid(m) ==
    /\ WellFormed(m, {"slug", "symbol", "amounts"})
    /\ m.token.decimals <= 18
    /\ m.collection.max > 0
    /\ m.rules.backing > 0
    /\ m.rules.releaseFee = 0
    /\ m.rules.rerollFee = 0

AddressesValid(m) ==
    /\ m.status.deployment = "NOT_CONNECTED" => m.chain = NoChain
    /\ WellFormed(m, {"addresses"})

AssuranceValid(m) ==
    /\ m.assurance.policy \in {"UNSET", "IMMUTABLE", "EXACT"}
    /\ m.assurance.policy = "EXACT" <=> m.assurance.upgradeAuthority # None
    /\ WellFormed(m, {"slot", "hashes"})
    /\ \A k \in {"programVerificationUri", "clientUri", "reviewUri"} :
          m.assurance[k] # None => Published(m.assurance[k])
    /\ WellFormed(m, {"commit"})

\* The update delegate of the collection can only be the recipe.
DelegateValid(m) ==
    /\ m.chain.updateDelegate \in {None, m.chain.recipe}
    /\ m.rules.reroll /\ m.status.deployment # "NOT_CONNECTED"
          => m.chain.updateDelegate = m.chain.recipe

\* The owner of the mint is the program its kind says.
TokenProgramValid(m) ==
    /\ m.chain.tokenMint # None => m.chain.tokenProgram # None
    /\ m.token.kind = "CLASSIC_SPL" => m.chain.tokenProgram \in {None, ClassicProgram}
    /\ m.token.kind = "TOKEN_2022" => m.chain.tokenProgram \in {None, "token-2022"}
    /\ m.chain.tokenProgram = ClassicProgram => m.token.kind = "CLASSIC_SPL"
    /\ m.chain.tokenProgram = "token-2022" => m.token.kind = "TOKEN_2022"

ReferencesComplete(m) ==
    /\ m.launch.market # "UNAVAILABLE" =>
          None \notin {m.chain[k] : k \in {"tokenMint", "bondingCurve", "pumpCreate"}}
    /\ m.status.deployment # "NOT_CONNECTED" =>
          /\ None \notin {m.chain[k] : k \in {"cluster", "tokenMint", "tokenProgram",
                             "collection", "escrow", "recipe", "program", "authority"}}
          /\ m.covenant.feeRecipient # None
    /\ m.lifecycle \in {"DRAFT", "REVIEW", "TESTED", "LIVE", "VERIFIED", "FEATURED"}
    /\ m.status.mode = "MAINNET" => m.status.deployment = "DEPLOYED"

-----------------------------------------------------------------------------
(* validateMainnetCovenant *)

MarketProven(m) ==
    /\ m.launch.path # "V2_TOKEN_2022"
    /\ m.token.kind = "CLASSIC_SPL"
    /\ m.chain.tokenProgram = ClassicProgram
    /\ m.launch.market \in {"BONDING_CURVE", "MIGRATION_PENDING", "GRADUATED_PUMPSWAP"}
    /\ m.chain.bondingCurve # None /\ m.chain.pumpCreate # None

LaunchVerified(m) ==
    /\ m.chain.cluster = "mainnet-beta"
    /\ m.lifecycle \in {"LIVE", "VERIFIED", "FEATURED"}
    /\ m.status.validation = "VERIFIED"
    /\ {"SCHEMA", "RESERVE_MATH", "LOCAL_FLOW", "DEVNET"} \subseteq m.status.scopes
    /\ m.chain.program = HybridProgram
    /\ m.chain.sourceCommit = ReviewedCommit

EvidencePublished(m) ==
    /\ Published(m.covenant.uri)
    /\ \A k \in {"programVerificationUri", "clientUri", "reviewUri"} :
          Published(m.assurance[k])
    /\ m.assurance.programData # None
    /\ m.observedSlot > 0
    /\ m.assurance.policy # "UNSET"
    /\ Published(m.collection.uri)

HashesGiven(m) ==
    /\ m.covenant.sha # Nothing
    /\ m.collection.archive # None
    /\ \A k \in {"executable", "clientHash", "idlHash", "reviewHash", "legalHash"} :
          m.assurance[k] # None

ExposureCovered(m) ==
    /\ m.covenant.exposure = m.rules.backing * m.collection.max
    /\ m.covenant.supply >= m.covenant.exposure
    /\ m.covenant.exposure > 0
    /\ m.covenant.approvedAt # None
    /\ WellFormed(m, {"disclosure"})

AuthoritiesDisclosed(m) ==
    /\ m.covenant.feeAuthority # None
    /\ m.covenant.feeRecipient # None
    /\ m.chain.authority # None
    /\ m.covenant.collectionAuthority = m.chain.authority
    /\ m.covenant.escrowAuthority = m.chain.authority

\* Only the pattern of a signature is checked here, not the signature.
Patterned(m) ==
    {i \in DOMAIN m.covenant.approvals :
        /\ m.covenant.approvals[i].signer \in Range(m.covenant.members)
        /\ m.covenant.approvals[i].state # "garbled"}

TwoOfThree(m) ==
    /\ m.covenant.threshold = 2
    /\ Len(m.covenant.members) = 3
    /\ Cardinality(Range(m.covenant.members)) = 3
    /\ Cardinality({m.covenant.approvals[i].signer : i \in Patterned(m)}) >= 2

ArchiveAndLinks(m) ==
    /\ m.rules.policy = "MULTISIG"
    /\ m.collection.range = <<0, m.collection.max - 1>>
    /\ m.collection.immutable
    /\ WellFormed(m, {"links"})
    /\ m.chain.signature # None

MainnetCovenant(m) ==
    /\ MarketProven(m) /\ LaunchVerified(m)
    /\ EvidencePublished(m) /\ HashesGiven(m)
    /\ ExposureCovered(m) /\ AuthoritiesDisclosed(m)
    /\ TwoOfThree(m) /\ ArchiveAndLinks(m)

ValidManifest(m) ==
    /\ IdentityValid(m) /\ TokenStandardRespected(m)
    /\ EnumerationsValid(m) /\ SafetyValid(m) /\ AmountsValid(m)
    /\ AddressesValid(m) /\ AssuranceValid(m) /\ DelegateValid(m)
    /\ TokenProgramValid(m) /\ ReferencesComplete(m)
    /\ m.status.mode = "MAINNET" /\ m.status.deployment = "DEPLOYED"
          => MainnetCovenant(m)

-----------------------------------------------------------------------------
(* Migration of the schemas 1.0 and 2.0 *)

\* hasLegacyMigrationSourceShape, and the sections it is called with.
LegacySource(m) ==
    /\ m.untyped \cap {"status", "chain", "covenant", "rules"} = {}
    /\ WellFormed(m, {"label"})
    /\ Len(m.covenant.members) <= 16
    /\ Len(m.covenant.approvals) <= 16
    /\ m.lifecycle \in {"DRAFT", "REVIEW", "TESTED", "LIVE", "VERIFIED", "FEATURED"}

\* Mutant: the approvals of the old covenant are kept.
MigratedWithApprovals(m) ==
    [m EXCEPT !.schema = "3.0", !.lifecycle = "REVIEW", !.migration = m.schema]

\* migrateWorldManifestV1; V2 goes through it and differs in the migration entry.
Migrated(m) ==
    [m EXCEPT
        !.schema = "3.0",
        !.protocolModel = "MPL_HYBRID_V2_RECIPE",
        !.lifecycle = "REVIEW",
        !.status = [mode |-> "DEMO", validation |-> "UNTESTED",
                    deployment |-> "NOT_CONNECTED", scopes |-> {}],
        !.launch = [path |-> "IMPORTED_CLASSIC", market |-> "UNAVAILABLE",
                    collection |-> "NOT_STARTED", hybrid |-> "NOT_CONFIGURED",
                    writes |-> FALSE],
        !.token.kind = "UNKNOWN",
        !.rules.releaseFee = 0,
        !.rules.burns = FALSE,
        !.rules.duplicates = TRUE,
        !.rules.scope = "DEDICATED_WORLD",
        !.chain = NoChain,
        !.covenant.uri = None, !.covenant.sha = Nothing, !.covenant.approvedAt = None,
        !.covenant.feeRecipient = None,
        !.covenant.approvals = <<>>,
        !.assurance = NoAssurance,
        !.observedSlot = 0,
        !.untyped = @ \ {"launch", "assurance"},
        !.lacking = @ \ {"launch", "chain", "covenant", "assurance"},
        !.malformed = @ \ {"label", "launch", "signatures", "addresses", "slot",
                           "hashes", "commit", "links"},
        !.migration = m.schema]

\* parseWorldManifest: the manifest that is looked at, and whether it is accepted.
Candidate(m) == IF m.schema \in {"1.0", "2.0"} THEN Migrated(m) ELSE m

Parses(m) ==
    /\ m.schema \in {"1.0", "2.0"} => LegacySource(m)
    /\ WellTyped(Candidate(m))
    /\ ValidManifest(Candidate(m))
=============================================================================
