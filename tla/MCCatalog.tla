------------------------------ MODULE MCCatalog ------------------------------
(***************************************************************************)
(* Inputs of WorldCatalog for TLC: one good manifest, chain and row, and   *)
(* each of them with one thing changed.                                    *)
(***************************************************************************)
EXTENDS WorldCatalog

Members == <<"m1", "m2", "m3">>

MCEscrowOf == [a \in {"dao", "dao2"} |-> IF a = "dao" THEN "escrow1" ELSE "escrow2"]
MCRecipeOf == [c \in {"relics", "relics2"} |-> IF c = "relics" THEN "recipe1" ELSE "recipe2"]

-----------------------------------------------------------------------------
(* Manifests *)

Good ==
    [schema |-> "3.0", protocolModel |-> "MPL_HYBRID_V2_RECIPE", id |-> "w1",
     slug |-> "hollow", name |-> "Hollow", lifecycle |-> "LIVE", migration |-> None,
     untyped |-> {}, lacking |-> {}, malformed |-> {},
     status |-> [mode |-> "MAINNET", validation |-> "VERIFIED", deployment |-> "DEPLOYED",
                 scopes |-> {"SCHEMA", "RESERVE_MATH", "LOCAL_FLOW", "DEVNET"}],
     launch |-> [path |-> "LEGACY_CLASSIC", market |-> "BONDING_CURVE",
                 collection |-> "READY", hybrid |-> "ACTIVE", writes |-> TRUE],
     token |-> [kind |-> "CLASSIC_SPL", decimals |-> 6],
     collection |-> [name |-> "relics", max |-> 2, uri |-> "ipfs", range |-> <<0, 1>>,
                     archive |-> "archive", immutable |-> TRUE],
     rules |-> [backing |-> 2, captureOn |-> TRUE, captureFee |-> 0, captureSol |-> 0,
                releaseOn |-> TRUE, releaseFee |-> 0, reroll |-> FALSE, rerollFee |-> 0,
                burns |-> FALSE, duplicates |-> TRUE, scope |-> "DEDICATED_WORLD",
                policy |-> "MULTISIG"],
     chain |-> [k \in ChainKeys |->
                CASE k = "cluster" -> "mainnet-beta" [] k = "tokenProgram" -> ClassicProgram
                  [] k = "collection" -> "relics" [] k = "escrow" -> "escrow1"
                  [] k = "recipe" -> "recipe1" [] k = "program" -> HybridProgram
                  [] k = "sourceCommit" -> ReviewedCommit [] k = "authority" -> "dao"
                  [] k = "updateDelegate" -> None [] OTHER -> k],
     covenant |-> [uri |-> "ipfs", sha |-> Nothing, approvedAt |-> "day1", supply |-> 6,
                   exposure |-> 4, feeRecipient |-> "fees", collectionAuthority |-> "dao",
                   escrowAuthority |-> "dao", feeAuthority |-> "feeDao",
                   threshold |-> 2, members |-> Members, approvals |-> <<>>],
     assurance |-> [k \in Assurances |->
                CASE k = "policy" -> "EXACT" [] k = "upgradeAuthority" -> "upgrader"
                  [] k \in {"programVerificationUri", "clientUri", "reviewUri"} -> "https"
                  [] k = "executable" -> "reviewed" [] OTHER -> k],
     observedSlot |-> 2]

\* A text the members may approve as well: captures cost a coin.
Dearer == [Good EXCEPT !.rules.captureFee = 1]

\* The good manifest with one thing changed, in the order of types.ts.
StatusVariants ==
    <<[Good EXCEPT !.schema = "4.0"], [Good EXCEPT !.protocolModel = "other"],
      [Good EXCEPT !.slug = "other"], [Good EXCEPT !.id = "w2"], [Good EXCEPT !.name = "Other"],
      [Good EXCEPT !.lifecycle = "DRAFT"],
      [Good EXCEPT !.lifecycle = "FEATURED"], [Good EXCEPT !.migration = "1.0"],
      [Good EXCEPT !.status.mode = "TESTNET"], [Good EXCEPT !.status.validation = "TESTED"],
      [Good EXCEPT !.status.deployment = "CONFIGURED"],
      [Good EXCEPT !.status.deployment = "NOT_CONNECTED"],
      [Good EXCEPT !.status.scopes = {"SCHEMA"}],
      [Good EXCEPT !.launch.path = "V2_TOKEN_2022"],
      [Good EXCEPT !.launch.market = "UNAVAILABLE"],
      [Good EXCEPT !.launch.hybrid = "BLOCKED_TOKEN_STANDARD"],
      [Good EXCEPT !.launch.writes = FALSE],
      [Good EXCEPT !.token.kind = "TOKEN_2022"], [Good EXCEPT !.token.decimals = 19]>>

WithRange(m, max) == [m EXCEPT !.collection.max = max, !.collection.range = <<0, max - 1>>,
                               !.covenant.exposure = m.rules.backing * max]

RuleVariants ==
    <<[Good EXCEPT !.collection.name = "overlong"], [Good EXCEPT !.collection.max = 0],
      WithRange(Good, 3), [WithRange(Good, 4) EXCEPT !.covenant.supply = 9],
      [Good EXCEPT !.collection.range = <<>>], [Good EXCEPT !.collection.range = <<0, 2>>],
      [Good EXCEPT !.collection.immutable = FALSE], [Good EXCEPT !.collection.archive = None],
      [Good EXCEPT !.collection.uri = "http"], [Good EXCEPT !.collection.uri = "ar"],
      [Good EXCEPT !.collection.uri = "https-file"], [Good EXCEPT !.collection.uri = None],
      [Good EXCEPT !.rules.backing = 0], [Good EXCEPT !.rules.backing = 3],
      [Good EXCEPT !.rules.captureOn = FALSE], [Good EXCEPT !.rules.captureFee = 1],
      [Good EXCEPT !.rules.captureSol = 20], [Good EXCEPT !.rules.releaseFee = 1],
      [Good EXCEPT !.rules.rerollFee = 1], [Good EXCEPT !.rules.burns = TRUE],
      [Good EXCEPT !.rules.reroll = TRUE],
      [Good EXCEPT !.rules.reroll = TRUE, !.chain.updateDelegate = "recipe1"],
      [Good EXCEPT !.rules.reroll = TRUE, !.rules.duplicates = FALSE,
                   !.chain.updateDelegate = "recipe1"],
      [Good EXCEPT !.rules.scope = "SHARED"], [Good EXCEPT !.rules.policy = "UNSET"]>>

CovenantVariants ==
    <<[Good EXCEPT !.covenant.uri = None], [Good EXCEPT !.covenant.uri = "http"],
      [Good EXCEPT !.covenant.approvedAt = None], [Good EXCEPT !.covenant.feeRecipient = None],
      [Good EXCEPT !.covenant.feeAuthority = None],
      [Good EXCEPT !.covenant.collectionAuthority = "dao2"],
      [Good EXCEPT !.covenant.escrowAuthority = "dao2"],
      [Good EXCEPT !.covenant.supply = 3], [Good EXCEPT !.covenant.supply = 20],
      [Good EXCEPT !.covenant.exposure = 3], [Good EXCEPT !.covenant.threshold = 1],
      [Good EXCEPT !.covenant.members = <<"m1", "m2">>],
      [Good EXCEPT !.covenant.members = <<"m1", "m2", "m2">>],
      [Good EXCEPT !.observedSlot = 0], [Good EXCEPT !.observedSlot = 3],
      [Good EXCEPT !.assurance.policy = "IMMUTABLE"],
      [Good EXCEPT !.assurance.policy = "IMMUTABLE", !.assurance.upgradeAuthority = None]>>

AssuranceKeys == <<"programVerificationUri", "programData", "executable", "upgradeAuthority",
                   "clientUri", "clientHash", "idlHash", "reviewUri", "reviewHash", "legalHash">>

AddressKeys == <<"cluster", "tokenMint", "tokenProgram", "bondingCurve", "collection", "escrow",
                 "recipe", "program", "sourceCommit", "updateDelegate", "authority", "signature">>

AddressVariants ==
    [i \in DOMAIN AssuranceKeys |-> [Good EXCEPT !.assurance[AssuranceKeys[i]] = None]]
  \o [i \in DOMAIN AddressKeys |-> [Good EXCEPT !.chain[AddressKeys[i]] = None]]
  \o [i \in DOMAIN AddressKeys |-> [Good EXCEPT !.chain[AddressKeys[i]] = "elsewhere"]]

TextKinds == <<"texts", "label", "launch", "colour", "enums", "dates", "signatures", "slug",
               "symbol", "amounts", "addresses", "slot", "hashes", "commit", "disclosure",
               "links">>

TextVariants ==
    [i \in DOMAIN TextKinds |-> [Good EXCEPT !.malformed = {TextKinds[i]}]]
  \o <<[Good EXCEPT !.untyped = {"launch"}], [Good EXCEPT !.untyped = {"rules"}],
       [Good EXCEPT !.untyped = {"chain"}],
       [Good EXCEPT !.untyped = {"launch"}, !.lacking = {"launch"}],
       [Good EXCEPT !.lacking = {"chain"}], [Good EXCEPT !.lacking = {"covenant"}],
       [Good EXCEPT !.lacking = {"chain", "covenant", "assurance"}]>>

OddTexts == StatusVariants \o RuleVariants \o CovenantVariants \o AddressVariants \o TextVariants

\* Manifests of the older schemas: with what the migration replaces, and what it keeps.
OldTexts ==
    <<Good, [Good EXCEPT !.rules.releaseFee = 1], [Good EXCEPT !.rules.burns = TRUE],
      [Good EXCEPT !.rules.scope = "SHARED"], [Good EXCEPT !.token.kind = "TOKEN_2022"],
      [Good EXCEPT !.rules.reroll = TRUE, !.rules.duplicates = FALSE],
      [Good EXCEPT !.rules.rerollFee = 1], [Good EXCEPT !.rules.backing = 0],
      [Good EXCEPT !.covenant.members = [i \in 1 .. 17 |-> "m1"]]>>
  \o TextVariants

LegacyTexts ==
    [i \in DOMAIN OldTexts |-> [OldTexts[i] EXCEPT !.schema = "1.0"]]
  \o [i \in DOMAIN OldTexts |-> [OldTexts[i] EXCEPT !.schema = "2.0"]]

-----------------------------------------------------------------------------
(* Rows of the catalog *)

RowOf(m) ==
    [id |-> "w1", slug |-> "hollow", name |-> "Hollow", status |-> m.lifecycle,
     manifest |-> m, published |-> TRUE,
     connected |-> m.status.deployment # "NOT_CONNECTED"]

Sealed(m) == [m EXCEPT !.covenant.sha = DigestOf(m)]

SignedBy(m, signers, state) ==
    [m EXCEPT !.covenant.approvals =
        [i \in DOMAIN signers |-> [signer |-> signers[i], signature |-> Message(m),
                                   state |-> state]]]

Reviewed(m) == SignedBy(Sealed(m), <<"m1", "m2">>, "genuine")

\* Rows of an ordinary operation, and rows with one thing changed.
PlainRows ==
    {RowOf(Good), RowOf(Sealed(Good)), RowOf(Sealed(Dearer)), RowOf(Reviewed(Good))}

OddRows ==
    {RowOf(Reviewed(m)) : m \in Range(OddTexts) \ {Good}}
  \cup {RowOf(m) : m \in Range(LegacyTexts)}
  \cup {RowOf(SignedBy(Sealed(Good), s, "genuine")) :
           s \in {<<"m1">>, <<"m1", "m1">>, <<"m1", "intruder">>}}
  \cup {RowOf(SignedBy(Sealed(Good), <<"m1", "m2">>, s)) : s \in {"forged", "garbled"}}
  \cup {[RowOf(Reviewed(Good)) EXCEPT !.published = FALSE],
        RowOf([Good EXCEPT !.lifecycle = "REVIEW"]),
        RowOf([Migrated([Good EXCEPT !.schema = "2.0"]) EXCEPT !.migration = None])}

MCRows == PlainRows \cup OddRows
MCTexts == {Good, Dearer}

-----------------------------------------------------------------------------
(* The chain *)

Entry ==
    [program |-> [owner |-> Loader, executable |-> TRUE, size |-> "exact", tag |-> 2,
                  programData |-> "programData"],
     data |-> [owner |-> Loader, executable |-> FALSE, size |-> "exact", tag |-> 3,
               option |-> 1, authority |-> "upgrader", elf |-> TRUE, hash |-> "reviewed"],
     world |->
        [missing |-> {},
         escrow |-> [owner |-> HybridProgram, executable |-> FALSE, kind |-> "EscrowV2",
                     size |-> "exact", authority |-> "dao", bump |-> "canonical"],
         recipe |-> [owner |-> HybridProgram, executable |-> FALSE, kind |-> "RecipeV1",
                     size |-> "exact", collection |-> "relics", authority |-> "dao",
                     mint |-> "tokenMint", feeLocation |-> "fees", terms |-> TermsOf(Good),
                     bump |-> "canonical", swaps |-> 1],
         mint |-> [owner |-> TokenProgramOwner, executable |-> FALSE, size |-> "exact",
                   initialized |-> TRUE, options |-> {0, 1}, mintAuthority |-> None,
                   freezeAuthority |-> None, decimals |-> 6, supply |-> 6],
         tokens |-> [owner |-> TokenProgramOwner, executable |-> FALSE, size |-> "exact",
                     mint |-> "tokenMint", holder |-> "escrow1", state |-> "initialized",
                     delegated |-> FALSE],
         collection |-> [owner |-> CoreProgram, executable |-> FALSE, size |-> "exact",
                         updateAuthority |-> "dao", delegate |-> None,
                         moreDelegates |-> FALSE, immutable |-> TRUE]]]

Old == [Entry EXCEPT !.data.hash = "unreviewed"]

Entries ==
    {Entry,
     [Entry EXCEPT !.program.owner = "other"], [Entry EXCEPT !.program.executable = FALSE],
     [Entry EXCEPT !.program.size = "short"], [Entry EXCEPT !.program.tag = 3],
     [Entry EXCEPT !.program.programData = "other"],
     [Entry EXCEPT !.data.owner = "other"], [Entry EXCEPT !.data.size = "long"],
     [Entry EXCEPT !.data.tag = 2], [Entry EXCEPT !.data.option = 0],
     [Entry EXCEPT !.data.option = 2], [Entry EXCEPT !.data.authority = "other"],
     [Entry EXCEPT !.data.elf = FALSE], [Entry EXCEPT !.data.hash = "unreviewed"]}
  \cup {[Entry EXCEPT !.world = w] : w \in
     {[Entry.world EXCEPT !.missing = {"tokens"}],
      [Entry.world EXCEPT !.escrow.owner = "other"], [Entry.world EXCEPT !.escrow.kind = "RecipeV1"],
      [Entry.world EXCEPT !.escrow.size = "long"], [Entry.world EXCEPT !.escrow.authority = "dao2"],
      [Entry.world EXCEPT !.escrow.bump = "other"],
      [Entry.world EXCEPT !.recipe.collection = "relics2"],
      [Entry.world EXCEPT !.recipe.authority = "dao2"], [Entry.world EXCEPT !.recipe.mint = "other"],
      [Entry.world EXCEPT !.recipe.feeLocation = "other"], [Entry.world EXCEPT !.recipe.swaps = 0],
      [Entry.world EXCEPT !.recipe.terms.backing = 3], [Entry.world EXCEPT !.recipe.terms.max = 3],
      [Entry.world EXCEPT !.recipe.terms.path = 9],
      [Entry.world EXCEPT !.recipe.terms.captureFee = 1],
      [Entry.world EXCEPT !.mint.initialized = FALSE], [Entry.world EXCEPT !.mint.options = {2}],
      [Entry.world EXCEPT !.mint.mintAuthority = "creator"],
      [Entry.world EXCEPT !.mint.freezeAuthority = "creator"],
      [Entry.world EXCEPT !.mint.decimals = 9], [Entry.world EXCEPT !.mint.supply = 7],
      [Entry.world EXCEPT !.tokens.mint = "other"], [Entry.world EXCEPT !.tokens.holder = "escrow2"],
      [Entry.world EXCEPT !.tokens.state = "frozen"], [Entry.world EXCEPT !.tokens.delegated = TRUE],
      [Entry.world EXCEPT !.collection.updateAuthority = "dao2"],
      [Entry.world EXCEPT !.collection.delegate = "recipe1"],
      [Entry.world EXCEPT !.collection.delegate = "owner"],
      [Entry.world EXCEPT !.collection.moreDelegates = TRUE]}}

MCLedgers == {<<Old, e>> : e \in Entries}

-----------------------------------------------------------------------------
\* One thing is changed at a time: an odd row is read beside an ordinary chain.
CatalogStart ==
    /\ CatalogInit
    /\ row \in OddRows \cup {RowOf(Good)} => edits = 0
    /\ row = RowOf(Reviewed(Good)) => edits \in {0, MaxEdits}
    /\ row \in {RowOf(Sealed(Good)), RowOf(Sealed(Dearer))} => edits = MaxEdits
    /\ ledger # <<Old, Entry>> => row = RowOf(Reviewed(Good)) /\ edits = 0
    /\ row \in OddRows => host # Nothing

\* A component that rests has no data.
CatalogParked ==
    /\ row = [manifest |-> [schema |-> "none"]] /\ host = Nothing /\ reviewed = {}
    /\ ledger = <<>> /\ request = NoRequest /\ edits = 0
=============================================================================
