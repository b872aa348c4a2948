------------------------------ MODULE HybridSpec ------------------------------
(***************************************************************************)
(* What a World must look like on the chain (hybrid-v2.ts and              *)
(* hybrid-v2-manifest.ts): the specification derived from its manifest,    *)
(* the recipe's behaviour flags, the decoding of the program's accounts,   *)
(* their comparison with the specification, and the reserve.               *)
(***************************************************************************)
EXTENDS WorldManifest

CONSTANTS
    EscrowOf,     \* findProgramAddressSync(["escrow", authority])
    RecipeOf,     \* findProgramAddressSync(["recipe", collection])
    U64Max,       \* largest unsigned 64-bit integer
    MaxAssets     \* 500: assets of a curated World

ASSUME HybridAssumption ==
    /\ U64Max \in Nat /\ MaxAssets \in Nat \ {0}
    /\ IsInjective(EscrowOf) /\ IsInjective(RecipeOf)

-----------------------------------------------------------------------------
(* The path of a recipe: what its flags allow. *)

Flag == [noReroll |-> 1, blockCapture |-> 2, blockRelease |-> 4,
         burnOnCapture |-> 8, burnOnRelease |-> 16]

Encode(o) ==
    (IF o.reroll THEN 0 ELSE Flag.noReroll) + (IF o.capture THEN 0 ELSE Flag.blockCapture)
  + (IF o.release THEN 0 ELSE Flag.blockRelease)
  + (IF o.burnOnCapture THEN Flag.burnOnCapture ELSE 0)
  + (IF o.burnOnRelease THEN Flag.burnOnRelease ELSE 0)

HasBit(path, bit) == (path \div bit) % 2 = 1

\* decodeHybridV2Path: a path with a bit nobody knows is refused.
KnownPath(path) == path \in 0 .. 31

Decode(path) ==
    [reroll        |-> ~ HasBit(path, Flag.noReroll),
     capture       |-> ~ HasBit(path, Flag.blockCapture),
     release       |-> ~ HasBit(path, Flag.blockRelease),
     burnOnCapture |-> HasBit(path, Flag.burnOnCapture),
     burnOnRelease |-> HasBit(path, Flag.burnOnRelease)]

-----------------------------------------------------------------------------
(* validateHybridV2WorldSpec *)

U64(n) == n <= U64Max

AccountsValid(s) ==
    /\ s.worldId # "overlong"
    /\ s.cluster \in {"devnet", "mainnet-beta"}
    /\ s.tokenProgram = ClassicProgram
    /\ s.decimals <= 18
    /\ U64(s.supply) /\ s.supply > 0
    /\ s.maximum \in 1 .. MaxAssets

\* isSafeMetadataBaseUri: a directory, on HTTPS or IPFS.
MetadataDirectory(uri) == uri \in {"https", "ipfs"}

TermsValid(t) ==
    /\ t.name # "overlong"
    /\ MetadataDirectory(t.uri)
    /\ t.min < t.max
    /\ U64(t.backing) /\ t.backing > 0
    /\ \A fee \in {t.captureFee, t.captureSol, t.releaseFee, t.releaseSol} : U64(fee)

BehaviourValid(s) ==
    LET path == Decode(s.terms.path)
    IN  /\ KnownPath(s.terms.path)
        /\ path.capture /\ path.release
        /\ ~ path.burnOnCapture /\ ~ path.burnOnRelease
        /\ s.delegate \in {None, s.recipe}
        /\ path.reroll => s.delegate = s.recipe

\* Custody of its own: the escrow and the recipe are derived, not declared.
AddressesDerived(s) ==
    /\ s.terms.backing * s.maximum <= s.supply
    /\ s.authority \in DOMAIN EscrowOf /\ s.escrow = EscrowOf[s.authority]
    /\ s.collection \in DOMAIN RecipeOf /\ s.recipe = RecipeOf[s.collection]

ValidSpec(s) ==
    /\ AccountsValid(s) /\ TermsValid(s.terms)
    /\ BehaviourValid(s) /\ AddressesDerived(s)

-----------------------------------------------------------------------------
(* buildHybridV2WorldSpec *)

Bindable(m) ==
    /\ ValidManifest(m)
    /\ m.status.deployment \in {"CONFIGURED", "DEPLOYED"}
    /\ m.chain.cluster \in {"devnet", "mainnet-beta"}
    /\ m.collection.uri # None
    /\ m.collection.range # <<>>
    /\ None \notin {m.chain[k] : k \in {"authority", "escrow", "collection", "recipe",
                                        "tokenMint", "tokenProgram"}}
    /\ m.covenant.supply > 0 /\ m.covenant.feeRecipient # None

TermsOf(m) ==
    [name |-> m.collection.name, uri |-> m.collection.uri,
     min |-> m.collection.range[1], max |-> m.collection.range[2] + 1,
     backing |-> m.rules.backing,
     captureFee |-> m.rules.captureFee, captureSol |-> m.rules.captureSol,
     releaseFee |-> m.rules.releaseFee, releaseSol |-> 0,
     path |-> Encode([reroll |-> m.rules.reroll,
                      capture |-> m.rules.captureOn, release |-> m.rules.releaseOn,
                      burnOnCapture |-> m.rules.burns, burnOnRelease |-> m.rules.burns])]

SpecOf(m) ==
    [worldId |-> m.slug, cluster |-> m.chain.cluster,
     authority |-> m.chain.authority, escrow |-> m.chain.escrow,
     collection |-> m.chain.collection, recipe |-> m.chain.recipe,
     mint |-> m.chain.tokenMint, tokenProgram |-> m.chain.tokenProgram,
     decimals |-> m.token.decimals, supply |-> m.covenant.supply,
     feeLocation |-> m.covenant.feeRecipient,
     terms |-> TermsOf(m),
     maximum |-> m.collection.max, delegate |-> m.chain.updateDelegate]

BuildsSpec(m) == Bindable(m) /\ ValidSpec(SpecOf(m))

-----------------------------------------------------------------------------
(* Accounts of the program *)

\* The Borsh reader: the right discriminator, and not a byte too few or too many.
Decodes(account, kind) == account.kind = kind /\ account.size = "exact"

\* validateHybridV2OnchainBindings
Bound(s, escrow, recipe) ==
    /\ ValidSpec(s)
    /\ escrow.authority = s.authority /\ escrow.bump = "canonical"
    /\ recipe.collection = s.collection
    /\ recipe.authority = s.authority
    /\ recipe.mint = s.mint
    /\ recipe.feeLocation = s.feeLocation
    /\ recipe.terms = s.terms
    /\ recipe.bump = "canonical"
    /\ recipe.swaps >= 1

-----------------------------------------------------------------------------
(* reconcileHybridV2Reserve *)

Required(s, active) == s.terms.backing * active

SafeToServe(s, balance, inventory, active, minted) ==
    /\ U64(balance)
    /\ inventory + active = minted
    /\ minted <= s.maximum
    /\ balance = Required(s, active)
=============================================================================
