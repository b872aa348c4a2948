---------------------------- MODULE CreatorIntake ----------------------------
(***************************************************************************)
(* The 212 creator console (components/electric-relic/creator-studio.tsx)  *)
(* and the applications route behind it, from the first edit of a draft to *)
(* the row in the application store.                                       *)
(*                                                                         *)
(* Everything the console waits for can be answered late: coin checks,     *)
(* folder checks and submissions overlap with edits and with one another,  *)
(* the page can be reloaded at any moment, and each of the two hops of a   *)
(* submission can lose its answer.                                         *)
(*                                                                         *)
(* A mint's figures (supply and decimals) are reduced to its supply.  Text *)
(* fields, links and wallets of the proposal are taken as filled in.  The  *)
(* review of a stored application (a decline frees its wallet) is left out.*)
(***************************************************************************)
EXTENDS Naturals

CONSTANTS
    Mint,       \* mint addresses a creator may enter
    NoMint,     \* anything that is not a complete address
    Compatible, \* the mints the Pump check passes: classic SPL, provenance
    SupplyOf,   \* the supply of each mint
    Size,       \* the collection sizes a creator may choose
    Backing,    \* tokens that back one NFT
    MaxSubmissions, \* bound on the submissions made
    WalletOf,   \* the wallet that is connected when a submission is made
    MaxCalls    \* bound on the equal coin checks, and folder checks, in flight

ASSUME IntakeAssumption ==
    /\ NoMint \notin Mint
    /\ Compatible \subseteq Mint
    /\ SupplyOf \in [Mint -> Nat \ {0}]
    /\ Size \subseteq Nat \ {0}
    /\ Backing \in Nat \ {0}
    /\ MaxSubmissions \in Nat
    /\ MaxCalls \in Nat \ {0}

\* Submissions are numbered in the order they are made.
Attempt == 1 .. MaxSubmissions

ASSUME WalletAssumption == DOMAIN WalletOf = Attempt

VARIABLES
    draft,      \* the draft shown, which is also the one in localStorage
    inspection, \* coinInspection: the outcome shown, and the mint it is about
    inspecting, \* coin checks in flight, for each mint
    package,    \* assetPackage: the outcome shown, and the artwork it counted
    reading,    \* folder checks in flight, for each number of NFTs
    mode,       \* applicationMode
    ui,         \* submitState
    sub,        \* the submissions, each with the payload it was made from
    listening,  \* submissions whose answer the page still waits for or got
    rows        \* submissions in the store

pageVars == <<draft, inspection, inspecting, package, reading, mode>>
vars == <<draft, inspection, inspecting, package, reading, mode, ui, sub,
          listening, rows>>

-----------------------------------------------------------------------------
Draft == [mint : Mint \cup {NoMint}, supply : Nat, size : Size \cup {0}]
Inspection == [status : {"IDLE", "CHECKING", "PASSED", "FAILED"},
               mint : Mint \cup {NoMint}]
Package == [status : {"NOT_RUN", "CHECKING", "PASSED", "FAILED"}, count : Nat]
Payload == [mint : Mint \cup {NoMint}, supply : Nat, size : Size \cup {0}, count : Nat]
Answer == {"NONE", "CREATED", "REFUSED", "NOT_CONFIGURED", "PERSISTENCE_FAILED"}
Submission == [pc : {"none", "signing", "token", "posted", "answered", "done"},
               payload : Payload, answer : Answer]
SubmitState == {"idle", "submitting", "sent", "exported", "unavailable", "failed"}

\* defaultDraft, emptyCoinInspection and emptyAssetPackage
DefaultDraft == [mint |-> NoMint, supply |-> 0, size |-> 0]
EmptyInspection == [status |-> "IDLE", mint |-> NoMint]
EmptyPackage == [status |-> "NOT_RUN", count |-> 0]

NoSubmission ==
    [pc |-> "none", answer |-> "NONE",
     payload |-> [mint |-> NoMint, supply |-> 0, size |-> 0, count |-> 0]]

\* backingIsPossible: the reserve exposure at the cap fits the supply.
Backable(d) == d.supply > 0 /\ d.size > 0 /\ Backing * d.size <= d.supply

\* Mutant: any passed check counts, whichever mint it was about.
SomeCoinVerified == inspection.status = "PASSED" /\ draft.mint # NoMint

CoinIsVerified == inspection.status = "PASSED" /\ inspection.mint = draft.mint

FormsValid == package.status = "PASSED" /\ package.count = draft.size

\* stepIsValid at the last step
StepIsValid ==
    /\ CoinIsVerified
    /\ draft.mint # NoMint
    /\ FormsValid
    /\ Backable(draft)
    /\ mode # "checking"

-----------------------------------------------------------------------------
(* The draft and the checks of it                                          *)

\* updateDraft, for the collection size.
EditSize(n) ==
    /\ draft' = [draft EXCEPT !.size = n]
    /\ ui' = "idle"
    /\ UNCHANGED <<inspection, inspecting, package, reading, mode, sub,
                   listening, rows>>

\* Mutant: the figures are cleared to null.
EditMintToNull(m) ==
    /\ draft' = [mint |-> m, supply |-> NoMint, size |-> draft.size]
    /\ inspection' = EmptyInspection
    /\ ui' = "idle"
    /\ UNCHANGED <<inspecting, package, reading, mode, sub, listening, rows>>

\* updateCoinMint: the figures and the check of the old mint are dropped.
EditMint(m) ==
    /\ draft' = [mint |-> m, supply |-> 0, size |-> draft.size]
    /\ inspection' = EmptyInspection
    /\ ui' = "idle"
    /\ UNCHANGED <<inspecting, package, reading, mode, sub, listening, rows>>

\* inspectCoin, up to its request.  The button is disabled while the check
\* shown is running, and an edit of the mint enables it again.
InspectCoin ==
    /\ inspection.status # "CHECKING"
    /\ IF draft.mint = NoMint
       THEN /\ inspection' = [status |-> "FAILED", mint |-> NoMint]
            /\ UNCHANGED inspecting
       ELSE /\ inspecting[draft.mint] < MaxCalls
            /\ inspecting' = [inspecting EXCEPT ![draft.mint] = @ + 1]
            /\ inspection' = [status |-> "CHECKING", mint |-> draft.mint]
    /\ UNCHANGED <<draft, package, reading, mode, ui, sub, listening, rows>>

Inspected(m) ==
    /\ inspecting[m] > 0
    /\ inspecting' = [inspecting EXCEPT ![m] = @ - 1]

\* inspectCoin, when the check of m passes: the figures go into whatever
\* draft is there now, together with the outcome.
InspectionPasses(m) ==
    /\ Inspected(m)
    /\ m \in Compatible
    /\ draft' = [draft EXCEPT !.supply = SupplyOf[m]]
    /\ inspection' = [status |-> "PASSED", mint |-> m]
    /\ UNCHANGED <<package, reading, mode, ui, sub, listening, rows>>

\* The coin is blocked, or the check could not be completed.
InspectionFails(m) ==
    /\ Inspected(m)
    /\ inspection' = [status |-> "FAILED", mint |-> m]
    /\ UNCHANGED <<draft, package, reading, mode, ui, sub, listening, rows>>

\* validateAssetFolder for a folder of n artworks with their metadata; 0 stands
\* for no files, or files that are not numbered in sequence.
ValidateAssetFolder(n) ==
    /\ IF n = draft.size /\ n > 0
       THEN /\ reading[n] < MaxCalls
            /\ reading' = [reading EXCEPT ![n] = @ + 1]
            /\ package' = [status |-> "CHECKING", count |-> 0]
       ELSE /\ package' = [status |-> "FAILED", count |-> n]
            /\ UNCHANGED reading
    /\ UNCHANGED <<draft, inspection, inspecting, mode, ui, sub, listening,
                   rows>>

\* Its metadata and fingerprints have been read; the last folder read wins.
FolderRead(n) ==
    /\ reading[n] > 0
    /\ reading' = [reading EXCEPT ![n] = @ - 1]
    /\ \E status \in {"PASSED", "FAILED"} :
          package' = [status |-> status, count |-> n]
    /\ UNCHANGED <<draft, inspection, inspecting, mode, ui, sub, listening,
                   rows>>

\* The GET that tells server intake from export mode; a failed one means
\* export.  The server that answers the POST may be configured otherwise.
ModeKnown ==
    /\ mode = "checking"
    /\ mode' \in {"server", "export"}
    /\ UNCHANGED <<draft, inspection, inspecting, package, reading, ui, sub,
                   listening, rows>>

\* resetDraft: what is in flight stays in flight.
ResetDraft ==
    /\ draft' = DefaultDraft
    /\ inspection' = EmptyInspection
    /\ package' = EmptyPackage
    /\ ui' = "idle"
    /\ UNCHANGED <<inspecting, reading, mode, sub, listening, rows>>

\* What the page was doing ends with it: a request that has left goes on.
Abandoned(s) ==
    IF s.pc \in {"signing", "token", "answered"} THEN [s EXCEPT !.pc = "done"] ELSE s

\* The page is loaded again, from the stored draft if it can be read.
Reload ==
    /\ draft' \in {draft, DefaultDraft}
    /\ inspection' = EmptyInspection
    /\ inspecting' = [m \in Mint |-> 0]
    /\ package' = EmptyPackage
    /\ reading' = [n \in Size |-> 0]
    /\ mode' = "checking"
    /\ ui' = "idle"
    /\ sub' = [a \in Attempt |-> Abandoned(sub[a])]
    /\ listening' = {}
    /\ UNCHANGED rows

-----------------------------------------------------------------------------
(* submitApplication                                                       *)

Export ==
    /\ mode = "export"
    /\ StepIsValid
    /\ ui # "submitting"
    /\ ui' = "exported"
    /\ UNCHANGED <<pageVars, sub, listening, rows>>

\* The payload is taken from the draft as it is when SUBMIT is pressed.  The
\* button is disabled while submitting, and an edit enables it again.
Submit(a) ==
    /\ mode = "server"
    /\ StepIsValid
    /\ ui # "submitting"
    /\ \A b \in Attempt : sub[b].pc = "none" <=> b >= a
    /\ ui' = "submitting"
    /\ sub' = [sub EXCEPT ![a] =
                 [pc |-> "signing", answer |-> "NONE",
                  payload |-> [mint |-> draft.mint, supply |-> draft.supply,
                               size |-> draft.size, count |-> package.count]]]
    /\ listening' = listening \cup {a}
    /\ UNCHANGED <<pageVars, rows>>

Move(a, from, to) ==
    /\ sub[a].pc = from
    /\ sub' = [sub EXCEPT ![a].pc = to]

\* The submission ends in the page, with the state it shows from now on.
Shown(a, from, state) ==
    /\ Move(a, from, "done")
    /\ ui' = state
    /\ UNCHANGED <<pageVars, listening, rows>>

\* signMessage: the wallet signs the proof message, or the creator declines.
SignProof(a) ==
    /\ Move(a, "signing", "token")
    /\ UNCHANGED <<pageVars, ui, listening, rows>>

ProofDeclined(a) == Shown(a, "signing", "failed")

\* getIdentityToken, and the POST.
Post(a) ==
    /\ Move(a, "token", "posted")
    /\ UNCHANGED <<pageVars, ui, listening, rows>>

\* Mutant: the missing token is not shown.
NoTokenUnnoticed(a) == Shown(a, "token", ui)

NoIdentityToken(a) == Shown(a, "token", "failed")

\* fetch throws: the request or its answer was lost.  The server may go on.
DeliveryFails(a) ==
    /\ a \in listening
    /\ sub[a].pc \in {"posted", "answered"}
    /\ ui' = "failed"
    /\ listening' = listening \ {a}
    /\ sub' = [sub EXCEPT ![a] = Abandoned(@)]
    /\ UNCHANGED <<pageVars, rows>>

StateFor(answer) ==
    IF answer = "CREATED" THEN "sent"
    ELSE IF answer = "NOT_CONFIGURED" THEN "unavailable" ELSE "failed"

AnswerArrives(a) == Shown(a, "answered", StateFor(sub[a].answer))

-----------------------------------------------------------------------------
(* POST /api/launchpad/applications                                        *)

\* An answer nobody waits for any more goes nowhere.
Reply(a, answer) ==
    sub' = [sub EXCEPT ![a].pc = IF a \in listening THEN "answered" ELSE "done",
                       ![a].answer = answer]

\* parseCreatorApplicationDraft
DraftValid(d) ==
    /\ d.mint # NoMint
    /\ Backable(d)
    /\ d.count = d.size

\* No access, no quota, no store, an invalid draft or an old or wrong proof.
Refuse(a) ==
    /\ sub[a].pc = "posted"
    /\ Reply(a, "REFUSED") \/ Reply(a, "NOT_CONFIGURED")
    /\ UNCHANGED <<pageVars, ui, listening, rows>>

\* Every check passed: create inserts the row and waits for the store.
Accepted(a) == sub[a].pc = "posted" /\ DraftValid(sub[a].payload)

\* The unique index on the wallet of an active application.
Insertable(a) == \A b \in rows : WalletOf[b] # WalletOf[a]

\* Mutant: the route answers before the store does.
CreatedAtOnce(a) ==
    /\ Accepted(a)
    /\ rows' \in {rows, rows \cup {a}}
    /\ Reply(a, "CREATED")
    /\ UNCHANGED <<pageVars, ui, listening>>

Created(a) ==
    /\ Accepted(a)
    /\ Insertable(a)
    /\ rows' = rows \cup {a}
    /\ Reply(a, "CREATED")
    /\ UNCHANGED <<pageVars, ui, listening>>

\* The store cannot be reached, rejects the row (a second one of the wallet
\* with it), or takes it and its answer is lost: the route cannot tell.
PersistenceFailed(a) ==
    /\ Accepted(a)
    /\ rows' = rows \/ (Insertable(a) /\ rows' = rows \cup {a})
    /\ Reply(a, "PERSISTENCE_FAILED")
    /\ UNCHANGED <<pageVars, ui, listening>>

-----------------------------------------------------------------------------
Init ==
    /\ draft = DefaultDraft
    /\ inspection = EmptyInspection
    /\ inspecting = [m \in Mint |-> 0]
    /\ package = EmptyPackage
    /\ reading = [n \in Size |-> 0]
    /\ mode = "checking"
    /\ ui = "idle"
    /\ sub = [a \in Attempt |-> NoSubmission]
    /\ listening = {}
    /\ rows = {}

Creator ==
    \/ \E n \in Size \cup {0} : EditSize(n) \/ ValidateAssetFolder(n)
    \/ \E m \in Mint \cup {NoMint} : EditMint(m)
    \/ InspectCoin
    \/ ResetDraft
    \/ Reload
    \/ Export
    \/ \E a \in Attempt : Submit(a)

Checks ==
    \/ \E m \in Mint : InspectionPasses(m) \/ InspectionFails(m)
    \/ \E n \in Size : FolderRead(n)
    \/ ModeKnown

\* What a submission does next: the wallet, the token, the route, the answer.
Proceed(a) ==
    \/ SignProof(a) \/ ProofDeclined(a)
    \/ Post(a) \/ NoIdentityToken(a)
    \/ Refuse(a)
    \/ Created(a) \/ PersistenceFailed(a)
    \/ AnswerArrives(a)

Next ==
    \/ Creator
    \/ Checks
    \/ \E a \in Attempt : Proceed(a) \/ DeliveryFails(a)

Spec == Init /\ [][Next]_vars

\* The wallet, the identity service, the route and the network answer in the
\* end; nothing is assumed about which answer they give.
FairSpec == Spec /\ \A a \in Attempt : WF_vars(Proceed(a))

-----------------------------------------------------------------------------
(* Properties                                                              *)

\* Every variable has its type.
TypeOK ==
    /\ draft \in Draft
    /\ inspection \in Inspection
    /\ inspecting \in [Mint -> 0 .. MaxCalls]
    /\ package \in Package
    /\ reading \in [Size -> 0 .. MaxCalls]
    /\ mode \in {"checking", "server", "export"}
    /\ ui \in SubmitState
    /\ sub \in [Attempt -> Submission]
    /\ listening \subseteq Attempt
    /\ rows \subseteq Attempt

\* The figures of d are those of its own mint, a mint the check passed, and
\* its reserve at the cap fits the supply that mint really has.
Sound(d) ==
    /\ d.mint \in Compatible
    /\ d.supply = SupplyOf[d.mint]
    /\ Backing * d.size <= SupplyOf[d.mint]
    /\ d.count = d.size

\* The server never reads the chain (supplyVerification is PENDING_RPC_REVIEW),
\* yet every stored application is sound: no order of edits, late answers of
\* coin and folder checks, reloads and overlapping submissions pairs one
\* mint's figures with another mint.
StoredIsSound == \A a \in rows : Sound(sub[a].payload)

\* RECEIVED is shown only when the store holds a submission of this page.
SentIsStored == ui = "sent" => \E a \in listening \cap rows : sub[a].pc = "done"

\* What the console labels received is what it shows.  (Fails: an edit made
\* while a submission is under way is still there when its answer arrives.)
ReceivedIsShown ==
    ui = "sent" => \E a \in rows : /\ sub[a].payload.mint = draft.mint
                                   /\ sub[a].payload.size = draft.size

\* The console does not stay in its submitting state: each of the awaits of
\* submitApplication ends in a state that is shown.
SubmissionEnds == ui = "submitting" ~> ui # "submitting"

=============================================================================
