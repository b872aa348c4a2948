# RELIC.FUN (launchopad): TLA+ verification project

The repository is a Next.js site around one protocol idea: an MPL-Hybrid escrow that exchanges
an NFT for a fixed amount of a backing token and back. Very little of it keeps state, but what
does is exposed to everything that makes distributed programs hard: a chain that answers late or
not at all, processes killed between a broadcast and its record, browser tabs that share one
`localStorage` entry, and a creator console whose answers arrive after the draft has changed.

All source paths below are relative to the repository; `lib/` is `src/lib/electric-relic/`,
`components/` is `src/components/electric-relic/` and `api/` is `src/app/api/launchpad/`.
The exact lines of every definition are in the `map` of [PROJECT.json](PROJECT.json).

## 1. Inventory

### The devnet canary

| part | state | operations | talks to |
|---|---|---|---|
| Operator harness `scripts/electric-relic-devnet-canary.ts` | key file, private state file (`pending`, `signatures`, `tester`, last snapshot), public manifest | `bootstrap`, `setup`, `allocate-tester`, `awaken`, `release`, `roundtrip`, `soak`, `inspect`, `publish` | devnet RPC, local files |
| Wallet lab `components/devnet-canary-wallet-lab.tsx`, `lib/devnet-canary-pending.ts` | per page: flow, pending, shown evidence; per browser: one `localStorage` entry, one Web Lock | `execute`, `recoverPending`, the effects that start recoveries | wallet, RPC, the two canary routes |
| Live state and preparation `lib/devnet-canary-live.server.ts`, `lib/devnet-canary-prepare.server.ts` | none between requests | read eligibility and safety; build one unsigned transaction | RPC |
| Canary console, projections `components/devnet-canary-console.tsx`, `lib/devnet-canary-browser.ts` | what is on screen | poll, check shapes, display | the state route |

Hard here: a process can end at every `await`, and inside a file write; a transaction that was
handed to a node may finalize, fail or expire later; RPC nodes lag; the answer of a broadcast can
be lost; several terminals share a file without a lock, several tabs share an entry with a lock
that recoveries do not take.
Correct means: nothing is called a success that is not finalized, no transaction is signed while
the outcome of another is open, evidence is not lost or overwritten, the saved snapshot is true of
some slot, a half-built World is never exchanged, and an interrupted exchange can be recovered.

### Creator intake

`components/creator-studio.tsx` keeps a draft (mirrored in `localStorage`), the outcome of a coin
check, the outcome of an artwork-folder check, the mode of the site and the submission state.
`api/applications/route.ts` validates (`lib/validation.ts`, `lib/creator-proof.server.ts`) and
inserts through `lib/persistence.ts` into the table of `supabase/electric-relic-v1.sql`.
Hard here: five kinds of asynchronous answers overlap with edits, resets and reloads; both hops of
a submission can lose an answer; the server does not read the chain, so what a stored application
says of its token rests on what the console did.
Correct means: a stored application is consistent with a check that really passed for its mint, the
console says RECEIVED only of what is stored, and it never hangs.

### Public API

`lib/request-guard.server.ts` keeps one bounded map of fixed-window buckets for all routes;
`lib/helius-activity.server.ts` keeps a cache of lookups and a map of promises in flight, used by
`api/worlds/[slug]/activity/route.ts`. Hard here: a limiter whose map is full, keys of different
scopes and windows in one map, sweeps between the two calls of a request, overlapping lookups,
lookups that fail in different ways.
Correct means: bounded memory, bounded bursts, refusals that the refused client or the scope itself
brought about, one lookup per key at a time, a pause after a failure, and no key stuck with a promise
that is over.

### Worlds: what the public sees

| part | state | decides | hard |
|---|---|---|---|
| `lib/world-catalog.server.ts`, `lib/world-resolution.server.ts`, routes, SQL constraints | the table row; per request, where it is | which World is published | row, signed artifact, program and chain are read at four moments, each changes on its own |
| `lib/validation.ts` | none | which manifests a World may have; what becomes of older schemas | many status combinations, migrations judged by rules they were not written for |
| `lib/hybrid-v2.ts`, `lib/hybrid-v2-manifest.ts` | none | path bits, world rules, on-chain bindings, reserve | bit encodings, u64 limits, burn paths |
| `lib/launch-covenant.ts`, `lib/launch-covenant.server.ts` | none | whether two members approved this very text, and the artifact is it | edits before and after an approval, the same key twice |
| `lib/upgradeable-program-verification.server.ts` | none | whether the deployed program is the signed one | evidence that ages |
| `lib/mpl-hybrid-v2-readonly.server.ts` | none | what the chain holds | five accounts that must agree |
| `lib/math.ts` | a snapshot | reserve metrics, projections | divisions against multiplications, long sequences |

### Single services and lists

| part | state | hard |
|---|---|---|
| Founding access `lib/founding-access.server.ts`, `api/access` | remembered follower counts | overlapping requests whose answers arrive in any order, expiry |
| Pump inspection `lib/pump-readonly.server.ts` | none | a verdict made of two reads of a chain anyone can write to |
| Pump preflight `lib/pump-legacy-preflight.server.ts`, its route and console | cluster tab, state, result | a tab changed while a run is under way |
| Pending transactions `lib/pending-transactions.ts` | a bounded list in `localStorage` | several tabs without a lock |

The assisted IPFS upload (`lib/ipfs-upload.server.ts` and its route) checks one request and makes one
call. The rest is presentation (`electric-relic-site`, `world-detail`, `react-bits`), wiring (providers,
configuration, build) and vendored, generated code (`src/vendor/mpl-hybrid-v2`, of which only the two
account tables matter here). It is listed in PROJECT.json with the reason.

## 2. Modules

```
Reserve                      Clock               Lists
   |                         /  |  \             /   \
Devnet (external: chain)    /   |   ActivityCache   PendingTransactions
   |          |            /  RequestGuard   |
CanaryCli  WalletLab      /     |     \      |         CanarySetup   CreatorIntake
               FoundingAccess PublicApi  ActivityRoute

WorldManifest -- HybridSpec -- LaunchCovenant \
                     |    \---- HybridRead ------ WorldCatalog
                     |          ProgramEvidence /      |
PreparedTransaction -+----------------+-- CanaryState  |
                                              \        |
  Reserve  PublicApi  FoundingAccess  ...  -- MCWorlds -+
  PendingTransactions  PumpInspection  PumpPreflight

Proofs:  DevnetProofs -- CanaryCliProofs, WalletLabProofs     CanarySetupProofs
         SharedProofs -- ActivityRouteProofs, WorldsProofs    CreatorIntakeProofs
```

Each `MC*` module gives its specification the small sets and symmetries TLC needs, and `MCWorlds` puts
eight components side by side. A `*Proofs` module extends the module it is named after
(ActivityRouteProofs extends PublicApi as well, WorldsProofs extends MCWorlds). DevnetProofs and
SharedProofs hold the lemmas that two of them rest on. Section 5 gives the argument of each.

**Devnet** stands for code outside the repository: the finalized history of one NFT and of its
backing token, and the life of each transaction (`unused`, `signed`, `sent`, then `ok`, `failed` or
`expired`). A read sees one slot, up to `Lag` behind the newest. Transactions execute atomically. With a
mint the setup created, the operator holds all coins; of an imported mint an outsider may hold the rest,
and send it to the escrow (`ChainInit`). The ledger has no SOL. Devnet also holds `Custody`, the mapping of
a history to the reserve of one asset.

**CanaryCli** is the harness after setup. `ctl[p].pc` is the `await` at which a command stands;
`mem[p]` is the copy of the file that `loadState` made; `Save` writes the whole copy back. `Stop`
(kill, or any throw: both only lose the memory) is possible everywhere, and `Save` has a torn
variant. Commands, exchanges and the soak loop share the pieces the code shares
(`reconcile`, `sendRecorded`, `inspectPendingSignature`). An inspection may `Recover` a pending signature
whose success is proven, and may always `Retain` it: a node that lags answers that it knows nothing of a
transaction that finalized. Saving the inspected state and publishing the evidence (`Publish`) are two
steps, and a kill between them leaves the earlier manifest. A tester with too little SOL fails the check
after an allocation; the model has this as a `Stop`, or a `Retain`, which are always possible.
`lost` and `tx` are history the program cannot see.

**CanarySetup** is `bootstrap` and `setup`: key file, state file, the recorded steps in order, with
the same kills and torn writes. `chain[w][s]` says what became of each step of World `w`.

**WalletLab** is the page: `page[i]` is the React state of tab `i` and its `execute`, `rec[i][k]`
the recoveries of that tab, `stored` the `localStorage` entry and `lock` the Web Lock. The code
between two awaits is one step. What the server computes (eligibility, expected post-state) is
derived from the ledger the request happened to see.

**CanaryState** is what the server tells the lab: one request to the state or the prepare route, from
the configuration (`ConfigParses`, `TesterResolves`, `WritesEnabled`) over three reads (`ReadAccounts`,
`ReadHeader`, `ReadBalance`) to `Reconcile` and, for a prepare, `Simulate`. The slots of `devnet` grow
meanwhile: exchanges, donations, spending, a new recipe, an upgrade. `query.accounts`, `.program` and
`.balance` are the slots the reads saw; a value past the end of the chain stands for a balance that
could not be read. **PreparedTransaction** holds the two account tables that have to agree: what the
server compiles from the vendored builder (`Compiled`) and what the browser expects before the wallet
signs (`BrowserTable`, `BrowserAccepts`).

**CreatorIntake** is the console and the applications route. Checks in flight are counted by the
mint or the folder they are about; a submission carries the payload taken from the draft when SUBMIT
was pressed; `listening` are the submissions whose answer the page still waits for. `Created` and
`PersistenceFailed` are the two ways an insert ends; either hop may lose its answer. `Insertable` is
the unique index on the wallet of an active application. Abstractions: text fields are filled in;
the supply stands for all figures of a mint; the automatic save of the draft is immediate; `FAILED`
covers the blocked states of a check; the review that can decline an application is left out.

**RequestGuard** is `consumePublicApiRateLimit` and its one limiter for every scope. A request never
awaits inside it, so it is one step: `Admit`, `DenyClient` or `DenyGlobal`, each with the sweeps, the
overflow key and the buckets it leaves. **PublicApi** lets several clients call several scopes.
`granted` (admissions of a scope) and `charged` (calls of a client its own bucket let pass) are history.
**ActivityCache** is the cached lookup: a request is in a slot, `pending` names the promise of a lookup
by the slot that made it; settling, waking the joiners and the `finally` block are separate steps, as
they are separate microtasks. **ActivityRoute** composes both over one **Clock**, as the route does.

**WorldManifest** is `validateWorldManifest` and the migrations: a manifest is a record whose texts are
reduced to what a rule can object to (`untyped`, `malformed`, `links`, and `lacking`, the sections that are
no object or have not the keys the table asks for), and each block of rules is a named predicate. **HybridSpec** adds the path bits and the rules of a World spec, **LaunchCovenant** the
canonical text, its digest, the message and the approvals; **ProgramEvidence** and **HybridRead** judge
accounts that were read. Accounts are records of decoded fields, `size` and `tag` standing for the
layout checks. **WorldCatalog** is a request of the catalog: `request.stage` names the await of
`parsePublicCatalogRow` it stands at, while `Rewrite`, `EditText`, `Seal`, `Sign`, `PublishArtifact`
change the row and the host, and `UpgradeProgram`, `ReconfigureRecipe`, `BurnCoins` the chain.
`reviewed` is history: which authority had which text before it when it signed.

**Reserve** is `math.ts`: metrics and projections, and coins that anyone may send into an escrow. It is
also the abstract specification of a custody: with the mapping of `Devnet`, every finalized history of
the harness implements it (`CanaryCustody`), and so does every history of the wallet lab.

**FoundingAccess** is one X account, several requests and the remembered metrics; the follower count and
the user name change at X and Privy. **PumpInspection** is one coin: launched, traded, graduated, or
impersonated by accounts that anyone can write; an inspection reads the mint, then curve and token
account, each at a slot of its own. **PumpPreflight** is the console with its overlapping runs.
**PendingTransactions** is the list: an operation reads it and writes it back in two steps, since tabs are
separate processes. **Lists** is the filter of an array, as a recursive function (`Only`): the prover knows
nothing of `SelectSeq`.

**MCWorlds** composes the components around a World. They share no state (the clock of PublicApi and
FoundingAccess is the same variable), so interleaving them adds nothing: `component` chooses which one
takes the steps of a behaviour, the others rest in one initial state. The inputs of the catalog are in
**MCCatalog** (a sound World, older schemas, and manifests, rows and chains with one or two things
wrong), those of the canary in **MCCanary**.

## 3. Runs

| run | shows | bounds |
|---|---|---|
| `CliOneTerminal` | one terminal, killed anywhere: evidence is accounted for, no blind resend, a pending signature is cleared only by proof, recorded exchanges match custody, and the chain implements the abstract custody | 4 signatures (a soak of two cycles, or an allocation and an exchange with two interruptions), 2 testers, reads one slot behind |
| `CliLiveness` | commands end; an interrupted exchange that finalized is recovered | 2 signatures, enough for the interrupted one and the one after it; a supply of two, so that an outsider's donations can make a state unsafe |
| `CliSendWindow` | **violation**: a second transaction while the first is open | 2 signatures, no lag |
| `SetupCrash` | records are a true prefix of the chain and belong to the key file; the NFT leaves the operator only in a whole World, and only whole Worlds are exchanged | 2 Worlds, 2 keys: one to be abandoned, one to go on with |
| `SetupOverwrites` | **violation**: setup replaces a torn state file | 2 Worlds |
| `LabOneTab` | evidence of an open transaction never leaves `localStorage`; a success unlocks | 1 tab, 3 signatures, one recovery at a time |
| `LabTwoTabs` | evidence is never overwritten; success is shown only of a finalized transaction | 2 tabs, 3 signatures, wallet changes |
| `LabRecoveryRace` | **violation**: two overlapping recoveries lose the next transaction's evidence | 1 tab, 2 recoveries |
| `Intake` | stored applications are sound; RECEIVED only if stored; submitting ends | 2 mints, one of which cannot back the collection, 2 overlapping submissions by one wallet |
| `IntakeEdited` | **violation**: an edited draft is labelled received | 1 submission, 2 sizes |
| `ServerLimits` | bounded maps, coalescing and cooldown, no dead promise | 3 clients for 2 buckets, 2 keys for 1 entry, 2 requests in progress, 5 ticks for windows of 2 |
| `Worlds` | the components around a World, below | one component active in each behaviour |

`Worlds` asks, component by component:

| component | properties | bounds |
|---|---|---|
| World catalog | `ReviewedTermsOnly`: a row goes on towards publication only with the very text that two different authorities had before them when they signed, and it is the World that was asked for. `PromiseCanBeKept`: with the recipe and mint as read, every number of active assets can be backed by coins that exist, nobody can issue or freeze coins, nothing is burnt, fees are those on the page. `SignedProgramSeen`: the program seen running is the signed one, not earlier than it was signed. `MigrationAccepted`: a sound manifest of an older schema is not lost by its migration | a request, 3 edits of row, text, seal or approvals, 3 slots of chain, a row with every single thing wrong |
| Canary server | `SafeMeansSound`: what SAFE promises held at the slot the answer names, and the program seen is the reviewed one. `PreparedIsHonest`: a transaction is prepared only if its simulated effect is the one quoted, and the browser's own account table accepts it. `AwakenCanBeReleased`: a tester the server lets awaken can still pay for the release | 4 slots with exchanges, donations, spending, new recipe, upgrade |
| Reserve projections | `SurplusNeverSpent`: no sequence of captures and releases, of any counts, spends what the reserve holds beyond its backing, or makes an asset | 9 coins, 3 assets, backing 2: full, empty and indivisible |
| Pending list | `EvidenceStaysListed`: a remembered transaction leaves the list only when it is forgotten, when `MaxPending` newer ones came, or by the overlap of two tabs; newest first, each once | 3 signatures, 2 tabs, a list of 2 |
| Founding access | `VerdictWasTrueLately`: a verdict agrees with a follower count the account really had, no longer ago than the time to live and the time of the request | 2 requests, 4 ticks for a time to live of 2 |
| Pump inspection | `VerdictIsTrue`: a coin shown as Pump's is one, of that token program; one that Pump made is called none only when the second node lagged | 4 slots: launched, traded, graduated, impersonated |
| Pump rehearsal | `ResultOfChosenCluster`: PASSED was simulated, without Token-2022; unless the tab is changed during a run, the result on screen is of the chosen cluster and one run is under way | 2 overlapping runs |
| Limiter of all scopes | `CeilingHolds`, `RefusalsEarned`: see below | 2 clients and 2 scopes for 3 buckets, 4 ticks |

`CeilingHolds` allows, in any stretch of one window of a scope, its `GlobalMax` once for each window of its
own bucket the stretch can touch, and once for each of the overflow bucket's (`WindowsTouched`). Two is what
fixed windows give; the others appear when a full map moves the global key to the overflow bucket and
back. The overflow bucket takes the window of whoever opened it, which may be any policy's: when none is
shorter than the scope's, that makes four. A client window may be set to ten seconds beside a scope's
sixty (request-guard.server.ts:196-201), and then it makes nine; the instance's shortest window is one
tick, beside scopes of three and two, which make five and four. `RefusalsEarned` says who may be blamed for a refusal: the client, the scope, or a full map.

Terminals: `TypeOK`, `RecordedSucceeded`, `SnapshotConsistent` and `CanaryCustody` of CanaryCli are proved
for any number of terminals (`TypeOK` is therefore not run as well); the remaining properties of
`CliOneTerminal` are properties of one terminal, are false with two, because the file has no lock (see
below), and are proved under the hypothesis that there is one.

`CanaryCustody` is the refinement `Custody!ReserveSpec`: one asset, one reserve, and every
finalized transaction of the harness or the tester is a capture, a release, a donation, or nothing.

`CHECK_DEADLOCK FALSE` is set where the system may really stop: when all signatures of the instance
are used and every page, command or setup has ended. `Intake`, `ServerLimits` and `Worlds` check deadlock.

Symmetry is used where no definition distinguishes the values and no liveness property is checked.

Every property has at least one mutant in PROJECT.json: a plausible mistake in a modelled
definition that makes exactly this property fail under its own run.

### Fairness

`CliLiveness` assumes that a running command takes its next step (weak fairness of `Step(p)`:
a process that is not killed runs on) and that a transaction handed to the network ends (`Settle`:
a Solana blockhash expires). Recovery also needs the operator the document asks for
(docs/DEVNET_CANARY.md, section 8): it inspects again and again, and some inspections are answered from
the newest slot by a node that knows the transaction, and are not killed; those are the strong fairness
conditions of `OperatorInspects`. `FinalizedPendingRecovers` asks recovery of an exchange whose result
stands from some moment on (`ResultStands`): a donation or the tester's own exchange may undo it, and
`inspect` then keeps the record by design. `LabOneTab` assumes the same of the chain and of the page's own steps, and a
tester who reloads a page that does not show the stored evidence and checks it again
(`TesterChecks`). `Intake` assumes only that whatever a submission waits for answers in the end
(`Proceed`), never how. `ServerLimits` assumes nothing: the fetch to Helius has no timeout, so a
request may hang and no liveness is claimed. `Worlds` assumes nothing either: of the reads behind the
catalog the artifact is given up after five seconds and each RPC read after ten, the read of the table
never, and the canary's reads share one deadline for the request (`withDeadline`), so that a property would
only repeat the assumption.

## 4. What was found

Four runs end in a counterexample; each contradicts a sentence of the repository, quoted in
`findings`.

1. `CliSendWindow`: the harness broadcasts before it saves (`sendRecorded`), so the documented rule
   "do not send another transaction" rests on a record that may not exist. The allocation command
   saves first and does not have the window (the first part of `EvidenceAccounted`).
2. `SetupOverwrites`: a state file torn by a killed `writeFile` counts as absent, and setup, which
   "fails if the state path already exists", replaces it.
3. `LabRecoveryRace`: `recoverPending` removes the entry without looking whose it is, and takes no
   lock.
4. `IntakeEdited`: an edit or a reset during a submission is still there when RECEIVED is shown.

Seen while modelling and not carried as runs of their own:

- Two terminals lose each other's updates: `inspect` runs beside an exchange and writes its older copy
  back. The file has no lock; the document runs one command after the other.
- A reconciliation after a confirmed transaction may be answered by a node that has not seen it
  (`reconcile` passes no `minContextSlot`), so the saved snapshot can be older than the success next to
  it. `inspectPendingSignature` does compare slots.
- A setup that stops before the recipe leaves a pending signature that `inspect` refuses to look at,
  because `assertSetupComplete` comes first.
- The applications route answers `PERSISTENCE_FAILED` with `storedByServer: false` when the store took
  the row and its answer was lost. Retries are then refused by the unique index on the wallet, so the
  creator never sees RECEIVED.
- A lookup that throws leaves neither a result nor a cooldown, so the documented pause covers only
  failures that are results.
- `launchReady` is the literal `false` in the last verification of the catalog, so no live World is
  published today; the properties of the catalog are about what that verification reports.
- Supply and reserve are compared with `===`. Any burn of coins makes a World refused, any transfer into
  its escrow makes it unsafe, and both can be done by anyone who holds a coin.
- The gates disagree: a manifest may have a supply over 500 or over u64, captures or releases that are
  disabled, `ar://` or `http://` metadata, a slug over 64 characters or a collection name over 64 bytes,
  all of which the rules of a Hybrid V2 World refuse afterwards. `isPublishedUri` takes `http://` although its
  messages say HTTPS, IPFS or Arweave, and the table refuses it.
- Program and chain of a World are read in contexts of their own; neither passes a `minContextSlot`.
- The list of Worlds has no seeded fallback once the store is configured, the page of one World has; its
  limit of 100 counts rows before they are validated.
- The slot in the canary's answer is that of its accounts only, and `writeGateOpen` is read when the answer
  is made, after the verification.
- Nothing keeps the tester of the settings from being the operator. The server alone would then prepare an
  awaken whose release it never enables; the browser refuses it, because the operator is also the fee
  account and the merged rights differ from its table.
- Overlapping tabs of the pending list lose the change of one of them, or bring a forgotten entry back.
  No page uses the list yet.
- An older answer of X may replace a newer one for a whole time to live; the cache is neither bounded nor
  coalesced.
- The rehearsal console enables its button again when the tab is changed during a run, and the answer of the
  old cluster is shown under the new tab (it says which cluster it is of). A refused run does not clear a
  result that is shown.
- A coin that has just been launched can be called no Pump coin when the second read is answered by a node
  that is behind; the CDN keeps that answer for up to 45 seconds. Lamports sent to the curve address, and a
  token account closed at graduation, end in UNVERIFIED.
- The console refuses supplies that are not a whole number of coins, and amounts under a millionth, which
  JavaScript prints with an exponent; the server would take both.

## 5. Proofs

TLAPS checks thirty-nine theorems, for every value of the constants that satisfies the assumptions below.
Every invariant and every action property of the passing runs is among them; the four liveness
properties are not.

**DevnetProofs** holds what both users of the chain rely on: a transaction that executes turns a ledger
into a ledger, and backing tokens are neither made nor destroyed. The sum of the balances is the number
of coins, a coin being a holder and a number below the holder's balance, and a payment is a bijection
of the coins before it with those after it. So no induction over the holders is needed, and they may
be infinitely many.

**CanaryCliProofs**, for any number of terminals: `TypeCorrect`, `OnlySuccessesRecorded`,
`SavedSnapshotTrue`. The invariant is `ChainSound /\ ProcsSound /\ FilesSound /\ OwnBytes`. The property
alone is not inductive, because a terminal may write a copy it made long ago: every copy of the state,
in memory and in the control state of a command, must already be sound. A snapshot stays true because
the history only grows and a success stays one because a transaction's outcome is final. `OwnBytes` is
what makes the last step hold: the bytes an allocation signed are sent by nobody else, so the status it
confirms is its own. `CustodyImplemented` maps every step to a step of Reserve or a stutter; beside the
invariant it needs that a command is right for its account and that operator and tester are who pays
(`Payments`), since a capture paid by the escrow would not be one. `Payments` also counts: awakenings exceed
releases by one exactly while the operator holds the asset, which is what `RecordMatchesChain` reads.

For one terminal (`OneTerminal`): `EvidenceKept`, `BlindResendNever`, `PendingNeedsProof`,
`RecordMatchesChain`. The invariant adds `Following`: a running command's copy is the file, or is about
to replace it by one of the few changes the commands make (`Updates`), and what the command checked of
the file is still so. `EvidenceAccounted` says only where the evidence of a sent transaction is;
`Following` says that the next save will not put it elsewhere. With a second terminal it fails, and
all four properties with it.

**WalletLabProofs**, for any number of tabs and recovery calls and a wallet that may change at any time:
`LabTypeCorrect`, `ReportedSuccessIsFinal`, `EvidenceNotOverwritten`, `LabCustody`. The invariant says of
every tab that the transaction of its page and of each call exists and is as far as the page believes
(`SoundTab`), and that every transaction is the wallet's own (`WalletPays`). `EvidenceStays` is proved under
`OnePage`: one tab, whose wallet stays connected. Its invariant says that page and calls follow
`localStorage`, and among them that two recoveries never overlap, however many the page could start;
`LabRecoveryRace` shows that a wallet that disconnects and returns is enough to lose this.

**CanarySetupProofs**: `SetupTypeCorrect`, `CustodyOnlyAfterSetup`, `RecordsTruePrefix`. The invariant is
`SetupSound`: the chain is exactly where the running command believes it is (`ChainMatches`), the file is
behind the memory by what the next save writes (`FileFollows`), a file that can be read is a true prefix
(`FileSound`), and the key is unusable only before anything was funded (`KeySound`). `RecordedPrefix` alone
says nothing of the command in progress; with `ChainMatches` a confirmed step is the one after the last
recorded, and with `FileFollows` its save lengthens the prefix by one, so a kill between any two of them
leaves the file one step behind at most.

**CreatorIntakeProofs**: `IntakeTypeCorrect`, `StoredApplicationsSound`, `ReceivedIsStored`. The invariant
is `TypeOK /\ FiguresMatchCheck /\ PayloadsSound /\ AnswersTrue /\ SentIsStored`. `FiguresMatchCheck` is
the heart: a passed check and the figures in the draft always belong to one mint, even when the draft
has moved to another, so the check of the mint at SUBMIT makes the payload sound, and it never changes
after. `AnswersTrue` says that 201 is answered only for a stored row.

**SharedProofs** has lemmas only: what filtering a list keeps, whatever the list (`OnlyFilters`), and
what sweeping and counting leave in a map of buckets. The induction on the length of the list is by a
least counterexample (the natural numbers are well-founded), because the induction theorems of the
library take an operator, which the provers cannot instantiate.

**ActivityRouteProofs**, about ActivityRoute and PublicApi:

- `KeyspaceIsBounded`: a map without its overflow key never exceeds `MaxBuckets`, whatever is swept and
  consumed in whatever order.
- `EveryRefusalIsEarned` (`GuardSound`): a bucket counts no more than the calls of its own since its window
  began (`Paid`). The property speaks of full buckets only; the sum over the window has to be right at
  every count.
- `CeilingAlwaysHolds` (`Ceilings`): the admissions of a scope divide into those its own bucket served and
  those the overflow bucket served (`Served`), and each bucket admits at most its maximum for each window
  that a stretch touches (`AtMost`, `Windowed`): the admissions of one window lie within its length, and the
  next begins where it ended or later. Windows of the overflow bucket are at least `ShortestWindow` long,
  which bounds how many of them a stretch touches (`TouchedCover`). A sweep forgets the bucket, so the
  invariant remembers its last window as an existential.
- `NoDeadPromise` (`PendingInv`): the slot that names a promise is busy with that very lookup until its own
  `finally` block, since every other step of a request starts from a place where it owns no promise.
- `RequestsAreCoalesced` (`QuietInv`): a key that is quiet is being fetched, or its result is in the cache
  until the quiet ends.
- `RouteTypeCorrect` (`RouteInv`): the order of the cache lists its keys, each once, so that evicting the
  oldest keeps the bound.

**WorldsProofs** proves each component around a World of its own specification:

- `SurplusIsNeverSpent`, `ReleasableIsAlwaysHonest`: a floor division counts the largest multiple of the
  backing that fits (`DivisionCounts`), and the backing distributes over a sum of counts. A capture raises
  reserve and liability by the same amount and a release lowers both, so the surplus is what it was.
- `VerdictsAreRecent`: a remembered count was true no longer before it was stored than a request may wait
  (`MemorySound`). The verdict adds the age of the remembered count, which the time to live bounds.
- `VerdictsAreTrue`: a verdict is grounded in the slots it was read from (`Grounded`), and a mint is never
  unmade, so what holds at the slot of the mint still holds at the newest.
- `ResultIsOfChosenCluster`: until the tab is changed during a run, there is one call, of the cluster on
  display, and the console waits for it (`InStep`).
- `SafeIsSound`, `PreparedIsAlwaysHonest`, `AwakenIsReleasable` (`CanarySound`): what was compiled rests on
  the slots that were read, and slots are never rewritten. The second goes through both account
  tables, the third through the balance the check left.
- `OnlyReviewedTerms`, `ProgramSeenIsSigned`, `PromisesCanBeKept`, `MigrationsAreAccepted` (`CatalogSound`):
  every approval that verifies is on record (`OnRecord`) however the row is edited, so the text a request
  took up had two reviewers at that moment (`TakenUp`), and the later stages only add what they read.
- `EvidenceIsListed` (`PendingSound`): behind each remembered transaction stand only newer ones, and it is
  missing only if there are `MaxPending` of them (`ListSound`). The copy a tab is about to write satisfies
  the same, as long as it works on the list as it is.
- `WorldsTypeCorrect`, about the composition: the component that runs keeps its type (`ActiveSound`), the
  others rest.

### What the theorems assume

| assumption | what it asks | why the code justifies it |
|---|---|---|
| `HolderAssumption` | operator, escrow and testers are different accounts | the escrow is derived from the recipe; the harness refuses an operator as tester |
| `NumberAssumption`, `ReserveAssumption` | backing positive, supply covers one asset, bounds are natural | the setup's constants; the rules of a World refuse a backing of zero |
| `CliAssumption`, `LabAssumption`, `SetupAssumption`, `IntakeAssumption`, `CacheAssumption`, `ManifestAssumption` | the values for "none" are no values; the wallet under test is a tester; limits are positive | names of the model; constants of the source |
| `WalletAssumption`, `RouteAssumption`, `HybridAssumption` | each submission has a wallet; the route has a scope; derived addresses differ for different seeds | program-derived addresses are collision free |
| `GuardAssumption` | the keys of clients, scopes and overflow differ; limits, windows and the size of the map are positive | the keys have different prefixes; the settings have lower bounds |
| `ApiAssumption`, `ClockAssumption`, `FoundingAssumption`, `PendingAssumption`, `CoinAssumption` | bounds of time and of slots; times to live and the list's limit are positive | bounds of the model; constants of the source |
| `CanaryAssumption` | the chain starts in a devnet state in which the published slot holds the reviewed code | the published configuration is an observation of the past |
| `CatalogAssumption` | the rows and texts are of a manifest's shape; a genuine signature names one digest | the column is typed JSON that the parser has accepted; a signature verifies for one message |

TLC evaluates all of them on every run. Two theorems' hypotheses are conditions on how the program is used:
`OneTerminal` (docs/DEVNET_CANARY.md runs one command after the other; nothing enforces it) and `OnePage`.

### What stays with TLC

Liveness: `CommandTerminates` and `FinalizedPendingRecovers` (CanaryCli), `SuccessUnlocks` (WalletLab),
`SubmissionEnds` (CreatorIntake). They rest on weak and strong fairness, and so on ENABLED, of which the
provers know nothing.

## 6. Plan

Done: the canary from setup to the browser, creator intake, the limiter over all scopes, the catalog from
the row to the answer with every verification it calls, reserve arithmetic and the custody it abstracts,
Pump inspection and rehearsal, founding access, the pending list; a theorem for every safety property that
a run checks.

Left, in this order:

1. The theorems of the components around a World, stated of the composition too.
2. The non-temporal half of the liveness properties: that a command which is not killed has a step to take
   in every control state, and a measure that this step lowers.
3. For the recovery hazards of the harness that no property covers (a dropped transaction that is never
   cleared, an allocation whose tester has moved on), theorems that say what stays true of the file.

## 7. Not modelled

Presentation, styling, wording, animation; the bytes of accounts, transactions and signatures (an
account is what was decoded from it, a signature names its transaction); argument parsing; the
fingerprint of a client and the access key of the Pump preflight; the order and limit of the list of
Worlds and the displayed coverage in basis points; `validateEscrowSnapshot`, which only the seeded demo passes
through; `validateHybridV2CanarySpec` and the isolation of several Worlds, which nothing the server runs
calls; the generated client but for its two account tables.

The assisted IPFS upload is left out because it keeps nothing: a row of guards and one call to Pinata,
whose lost answer says `storedByServer: false` although the file may be pinned (content addressing makes a
second upload harmless).

Liveness of the catalog and the canary routes is not claimed: it holds by the deadlines of the fetches and
of `withDeadline` alone, or, for the read of the table, not at all.

The skew between the reads behind one canary answer is not excluded by any property, since the code does
not compare their slots: every read is only bounded from below by the published slot.

## Running

    tlc -workers 2 -config CliOneTerminal.cfg MCCanaryCli.tla
    tlapm CanaryCliProofs.tla

The module of each configuration is in `runs` of PROJECT.json.
