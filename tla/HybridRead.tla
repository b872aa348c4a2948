------------------------------ MODULE HybridRead ------------------------------
(***************************************************************************)
(* The read-only MPL-Hybrid V2 client                                      *)
(* (mpl-hybrid-v2-readonly.server.ts): five accounts of a World, read with *)
(* one getMultipleAccounts, and everything they must agree with before the *)
(* state is reported.  The reader has no identity and no minimum slot.     *)
(*                                                                         *)
(* A read r is a record of the five accounts; r.missing holds the names of *)
(* those the answer has no account for.                                    *)
(***************************************************************************)
EXTENDS HybridSpec

CONSTANTS TokenProgramOwner, CoreProgram

\* assertProgramOwnedAccount
OwnedBy(a, program) == a.owner = program /\ ~ a.executable

Owned(r) ==
    /\ OwnedBy(r.escrow, HybridProgram) /\ OwnedBy(r.recipe, HybridProgram)
    /\ OwnedBy(r.mint, TokenProgramOwner) /\ OwnedBy(r.tokens, TokenProgramOwner)
    /\ OwnedBy(r.collection, CoreProgram)

\* parseClassicSplMint, readCOptionPublicKey
MintReadable(a) == a.size = "exact" /\ a.initialized /\ a.options \subseteq {0, 1}

\* parseClassicSplTokenAccount: unfrozen, nobody else can move or close it.
TokensReadable(a) == a.size = "exact" /\ a.state = "initialized" /\ ~ a.delegated

\* parseCoreCollectionAccount: a delegate is one explicit address.
CollectionReadable(a) == a.size = "exact" /\ a.delegate # "owner"

Parsed(r) ==
    /\ Decodes(r.escrow, "EscrowV2") /\ Decodes(r.recipe, "RecipeV1")
    /\ MintReadable(r.mint) /\ TokensReadable(r.tokens)
    /\ CollectionReadable(r.collection)

CustodyMatches(s, r) ==
    /\ r.tokens.mint = s.mint
    /\ r.tokens.holder = s.escrow
    /\ r.collection.updateAuthority = s.authority
    /\ r.collection.delegate = s.delegate
    /\ ~ r.collection.moreDelegates
    /\ Decode(s.terms.path).reroll => ~ r.collection.immutable

\* Mutant: a mint may still issue coins; its supply is right for now.
SupplyOnly(s, r) == r.mint.supply = s.supply /\ r.mint.decimals = s.decimals

\* The supply is what was signed, and nobody can change it.
SupplyFixed(s, r) ==
    /\ r.mint.mintAuthority = None /\ r.mint.freezeAuthority = None
    /\ r.mint.decimals = s.decimals
    /\ r.mint.supply = s.supply

\* readHybridV2State
StateRead(s, r) ==
    /\ ValidSpec(s)
    /\ r.missing = {}
    /\ Owned(r) /\ Parsed(r)
    /\ Bound(s, r.escrow, r.recipe)
    /\ CustodyMatches(s, r) /\ SupplyFixed(s, r)
=============================================================================
