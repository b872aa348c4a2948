---------------------------- MODULE ProgramEvidence ----------------------------
(***************************************************************************)
(* The verification of a program under Solana's upgradeable loader         *)
(* (upgradeable-program-verification.server.ts): the Program account and   *)
(* its ProgramData, read in one finalized context, against what was signed.*)
(*                                                                         *)
(* An account a is a record; a.size compares the length of its data with   *)
(* the one its layout requires.                                            *)
(***************************************************************************)
EXTENDS Naturals

CONSTANT Loader     \* BPFLoaderUpgradeab1e

\* validateAccountEnvelope
Envelope(a, executable) ==
    a.owner = Loader /\ a.executable = executable /\ a.size = "exact"

\* parseUpgradeableProgramAccount
ProgramReadable(a) == Envelope(a, TRUE) /\ a.tag = 2

\* parseUpgradeableProgramDataMetadataAccount: the first 45 bytes.
HeaderReadable(a) == Envelope(a, FALSE) /\ a.tag = 3 /\ a.option \in {0, 1}

\* parseUpgradeableProgramDataAccount: the whole account.
DataReadable(a) == HeaderReadable(a) /\ a.elf

\* The authority of the option: "null" when there is none.
Authority(a) == IF a.option = 1 THEN a.authority ELSE "null"

\* parseExpectation, with the policy of verifySignedProgramDeployment.
Expectable(e) ==
    /\ e.program # "null" /\ e.programData # "null" /\ e.program # e.programData
    /\ e.executable # "null"
    /\ e.policy \in {"IMMUTABLE", "EXACT"}
    /\ e.policy = "EXACT" => e.upgradeAuthority # "null"

\* validateAuthorityPolicy
AuthorityAllowed(a, e) ==
    Authority(a) = (IF e.policy = "IMMUTABLE" THEN "null" ELSE e.upgradeAuthority)

\* Mutant: the accounts belong together, whatever code they hold.
LinkedOnly(program, data, e) ==
    ProgramReadable(program) /\ DataReadable(data)
    /\ program.programData = e.programData /\ AuthorityAllowed(data, e)

\* verifyUpgradeableProgramDeployment
Deployed(program, data, e) ==
    /\ Expectable(e)
    /\ ProgramReadable(program) /\ DataReadable(data)
    /\ program.programData = e.programData
    /\ data.hash = e.executable
    /\ AuthorityAllowed(data, e)

\* verifyUpgradeableProgramDeploymentFromRpc; context is the slot of the answer.
ObservedDeployment(context, minimum, program, data, e) ==
    minimum > 0 /\ context >= minimum /\ Deployed(program, data, e)
=============================================================================
