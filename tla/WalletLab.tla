------------------------------ MODULE WalletLab ------------------------------
(***************************************************************************)
(* The wallet-signed devnet lab in the browser                             *)
(* (src/components/electric-relic/devnet-canary-wallet-lab.tsx), with the  *)
(* evidence it keeps in localStorage (devnet-canary-pending.ts) and the    *)
(* eligibility the server computes (devnet-canary-live.server.ts).         *)
(*                                                                         *)
(* Several tabs share one localStorage entry and one exclusive Web Lock.   *)
(* A tab runs at most one execute at a time that holds the lock, but any   *)
(* number of recoverPending calls, and those take no lock.  A piece of     *)
(* JavaScript between two awaits is one step.                              *)
(***************************************************************************)
EXTENDS Devnet, FiniteSets

CONSTANTS
    Tab,           \* browser tabs on the page
    Recovery,      \* names of recoverPending calls: bounds how many overlap
    Wallet,        \* the approved tester wallet
    NoSig,         \* no signature
    NoTab,         \* nobody holds the Web Lock
    WalletMoves    \* does the connected wallet change while a page is open?

ASSUME LabAssumption ==
    /\ NoSig \notin Sig
    /\ NoTab \notin Tab
    /\ Wallet \in Tester
    /\ WalletMoves \in BOOLEAN

VARIABLES
    stored,    \* signature of the evidence in localStorage
    lock,      \* tab that holds the Web Lock
    page,      \* React state of each tab, and its execute call
    rec        \* rec[i][k]: recoverPending call k of tab i

labVars == <<stored, lock, page, rec>>
vars == <<hist, tx, stored, lock, page, rec>>

-----------------------------------------------------------------------------
Action == {"AWAKEN", "RELEASE"}

\* pending and flow are the React state; shown is the signature that flow
\* names; pc, action and sig belong to the running execute.
Page == [connected : BOOLEAN, pending : Sig \cup {NoSig},
         flow : {"idle", "busy", "error", "success"}, shown : Sig \cup {NoSig},
         pc : {"idle", "check", "recovering", "refresh", "prepare", "sign",
               "send", "sent", "confirm", "verify"},
         action : Action, sig : Sig \cup {NoSig}]

Call == [pc : {"idle", "status", "state", "clear"}, sig : Sig \cup {NoSig},
         inline : BOOLEAN]

NoCall == [pc |-> "idle", sig |-> NoSig, inline |-> FALSE]

Blank == [connected |-> ~ WalletMoves, pending |-> NoSig, flow |-> "idle",
          shown |-> NoSig, pc |-> "idle", action |-> "AWAKEN", sig |-> NoSig]

\* safe, of readDevnetCanaryLiveState
Safe(s) ==
    /\ hist[s].owner \in {Escrow, Operator, Wallet}
    /\ hist[s].tokens[Escrow] = Backing * (IF hist[s].owner = Escrow THEN 0 ELSE 1)

\* awakenEnabled and releaseEnabled
Eligible(s, a) ==
    /\ Safe(s)
    /\ IF a = "AWAKEN"
       THEN hist[s].owner = Escrow /\ hist[s].tokens[Wallet] >= Backing
       ELSE hist[s].owner = Wallet

\* expectedPostState, and its comparison with the live state
PostState(s, a) ==
    /\ Safe(s)
    /\ IF a = "AWAKEN"
       THEN hist[s].owner = Wallet /\ hist[s].tokens[Escrow] = Backing
       ELSE hist[s].owner = Escrow /\ hist[s].tokens[Escrow] = 0

\* Mutant: only a state later than the transaction's own slot will do.
VerifiedLater(s, t) == s > tx[t].slot /\ PostState(s, tx[t].kind)

\* verifyExpectedPostState
Verified(s, t) == s >= tx[t].slot /\ PostState(s, tx[t].kind)

-----------------------------------------------------------------------------
\* A recoverPending call begins: it locks the page at once.
Begin(i, k, pg, inline) ==
    /\ rec[i][k].pc = "idle"
    /\ rec' = [rec EXCEPT ![i][k] = [pc |-> "status", sig |-> stored,
                                     inline |-> inline]]
    /\ page' = [page EXCEPT ![i] = [pg EXCEPT !.pending = stored,
                                              !.flow = "busy"]]

\* The effect on [recoverPending], run when the page loads and again whenever
\* the wallet changes: recover whatever localStorage holds.
Effect(i, pg, calls) ==
    \/ /\ stored = NoSig
       /\ page' = [page EXCEPT ![i] = pg]
       /\ rec' = [rec EXCEPT ![i] = calls]
    \/ /\ stored # NoSig
       /\ \E k \in Recovery :
             /\ calls[k].pc = "idle"
             /\ page' = [page EXCEPT ![i] = [pg EXCEPT !.pending = stored,
                                                       !.flow = "busy"]]
             /\ rec' = [rec EXCEPT ![i] =
                          [calls EXCEPT ![k] = [pc |-> "status", sig |-> stored,
                                                inline |-> FALSE]]]

\* The tab is closed or crashes, and the page is loaded again: memory and the
\* Web Lock are gone, localStorage stays.
Reload(i) ==
    /\ lock' = IF lock = i THEN NoTab ELSE lock
    /\ Effect(i, Blank, [k \in Recovery |-> NoCall])
    /\ UNCHANGED <<chainVars, stored>>

WalletChange(i) ==
    /\ WalletMoves
    /\ Effect(i, [page[i] EXCEPT !.connected = ~ @], rec[i])
    /\ UNCHANGED <<chainVars, stored, lock>>

\* The button CHECK RECOVERY passes the tab's own pending evidence.
CheckRecovery(i, k) ==
    /\ page[i].pending # NoSig
    /\ page[i].flow # "busy"
    /\ rec[i][k].pc = "idle"
    /\ rec' = [rec EXCEPT ![i][k] = [pc |-> "status", sig |-> page[i].pending,
                                     inline |-> FALSE]]
    /\ page' = [page EXCEPT ![i].flow = "busy"]
    /\ UNCHANGED <<chainVars, stored, lock>>

\* A call ends with the page pg; execute returns too when it awaited the call.
End(i, k, pg) ==
    /\ rec' = [rec EXCEPT ![i][k] = NoCall]
    /\ IF rec[i][k].inline
       THEN /\ page' = [page EXCEPT ![i] = [pg EXCEPT !.pc = "idle"]]
            /\ lock' = NoTab
       ELSE /\ page' = [page EXCEPT ![i] = pg]
            /\ UNCHANGED lock

Failing(i, t) == [page[i] EXCEPT !.flow = "error", !.shown = t]

Succeeding(i, t) ==
    [page[i] EXCEPT !.flow = "success", !.shown = t, !.pending = NoSig]

\* Mutant: the err field of the status is ignored.
FinalizedAtAll(t) == tx[t].status \in {"ok", "failed"}

\* The signature status is finalized and has no error.
Succeeded(t) == tx[t].status = "ok"

RecoverStatus(i, k) ==
    /\ rec[i][k].pc = "status"
    /\ Succeeded(rec[i][k].sig)
    /\ rec' = [rec EXCEPT ![i][k].pc = "state"]
    /\ UNCHANGED <<chainVars, stored, lock, page>>

\* The state answer may be long under way when the call goes on.
RecoverState(i, k) ==
    /\ rec[i][k].pc = "state"
    /\ \E s \in Readable : Verified(s, rec[i][k].sig)
    /\ rec' = [rec EXCEPT ![i][k].pc = "clear"]
    /\ UNCHANGED <<chainVars, stored, lock, page>>

\* The entry is removed without a look at what it holds.
RecoverClear(i, k) ==
    /\ rec[i][k].pc = "clear"
    /\ stored' = NoSig
    /\ End(i, k, Succeeding(i, rec[i][k].sig))
    /\ UNCHANGED chainVars

\* Failed, unknown or unreachable: the evidence is kept and the page says so.
RecoverInVain(i, k) ==
    /\ \/ rec[i][k].pc = "status"
       \/ rec[i][k].pc = "state"
    /\ End(i, k, Failing(i, rec[i][k].sig))
    /\ UNCHANGED <<chainVars, stored>>

-----------------------------------------------------------------------------
(* execute                                                                 *)

\* The button is live if some answer the page has shown made it so.
Clickable(i, a) ==
    /\ page[i].connected
    /\ page[i].pending = NoSig
    /\ page[i].flow # "busy"
    /\ \E s \in DOMAIN hist : Eligible(s, a)

Click(i, a) ==
    /\ Clickable(i, a)
    /\ lock = NoTab
    /\ lock' = i
    /\ page' = [page EXCEPT ![i].pc = "check", ![i].action = a,
                            ![i].sig = NoSig, ![i].flow = "busy"]
    /\ UNCHANGED <<chainVars, stored, rec>>

\* The lock is requested with ifAvailable: nobody waits for it.
ClickRefused(i) ==
    /\ \E a \in Action : Clickable(i, a)
    /\ lock # NoTab
    /\ page' = [page EXCEPT ![i].flow = "error", ![i].shown = NoSig]
    /\ UNCHANGED <<chainVars, stored, lock, rec>>

\* Mutant: the page's own pending is trusted, not localStorage.
UnlockedInThisTab(i) == page[i].pending = NoSig

\* The cross-tab check under the lock.
NothingStored(i) == stored = NoSig

CheckStorage(i) ==
    /\ page[i].pc = "check"
    /\ NothingStored(i)
    /\ page' = [page EXCEPT ![i].pc = "refresh"]
    /\ UNCHANGED <<chainVars, stored, lock, rec>>

RecoverFirst(i) ==
    /\ page[i].pc = "check"
    /\ ~ NothingStored(i)
    /\ \E k \in Recovery :
          Begin(i, k, [page[i] EXCEPT !.pc = "recovering"], TRUE)
    /\ UNCHANGED <<chainVars, stored, lock>>

Refresh(i) ==
    /\ page[i].pc = "refresh"
    /\ \E s \in Readable : Eligible(s, page[i].action)
    /\ page' = [page EXCEPT ![i].pc = "prepare"]
    /\ UNCHANGED <<chainVars, stored, lock, rec>>

\* Mutant: the signature stands where the wallet belongs.
ExchangeMisbound(i) == [Unused EXCEPT !.kind = page[i].action, !.by = Wallet,
                                      !.to = page[i].sig, !.status = "signed"]

Exchange(i) == [Unused EXCEPT !.kind = page[i].action, !.by = Wallet,
                              !.to = Wallet, !.status = "signed"]

\* The server checks again, builds, and simulates.
Prepare(i) ==
    /\ page[i].pc = "prepare"
    /\ \E s \in Readable : Eligible(s, page[i].action)
    /\ PreflightPasses(Exchange(i))
    /\ page' = [page EXCEPT ![i].pc = "sign"]
    /\ UNCHANGED <<chainVars, stored, lock, rec>>

\* The wallet approves; the evidence is stored before anything is sent.
Sign(i, t) ==
    /\ page[i].pc = "sign"
    /\ tx[t].status = "unused"
    /\ tx' = [tx EXCEPT ![t] = Exchange(i)]
    /\ stored' = t
    /\ page' = [page EXCEPT ![i].pc = "send", ![i].sig = t, ![i].pending = t,
                            ![i].flow = "busy"]
    /\ UNCHANGED <<hist, lock, rec>>

\* execute ends in its catch clause.
Abandon(i) ==
    /\ page' = [page EXCEPT ![i] = [Failing(i, page[i].sig) EXCEPT !.pc = "idle"]]
    /\ lock' = NoTab

\* Any throw before the evidence is stored: a refusal in the wallet, or a full
\* localStorage, with which the signed bytes are lost before they are sent.
FailUnsigned(i) ==
    /\ page[i].pc \in {"check", "refresh", "prepare", "sign"}
    /\ Abandon(i)
    /\ UNCHANGED <<chainVars, stored, rec>>

\* The node takes the bytes; its answer may be lost.
Send(i) ==
    /\ page[i].pc = "send"
    /\ PreflightPasses(tx[page[i].sig])
    /\ tx' = [tx EXCEPT ![page[i].sig].status = "sent"]
    /\ \/ page' = [page EXCEPT ![i].pc = "sent"] /\ UNCHANGED lock
       \/ Abandon(i)
    /\ UNCHANGED <<hist, stored, rec>>

\* The evidence is written a second time, now in phase BROADCAST.
SaveBroadcast(i) ==
    /\ page[i].pc = "sent"
    /\ stored' = page[i].sig
    /\ page' = [page EXCEPT ![i].pc = "confirm", ![i].pending = page[i].sig,
                            ![i].flow = "busy"]
    /\ UNCHANGED <<chainVars, lock, rec>>

\* confirmTransaction, then the status with its slot.
Confirm(i) ==
    /\ page[i].pc = "confirm"
    /\ Succeeded(page[i].sig)
    /\ page' = [page EXCEPT ![i].pc = "verify"]
    /\ UNCHANGED <<chainVars, stored, lock, rec>>

Verify(i) ==
    /\ page[i].pc = "verify"
    /\ \E s \in Readable : Verified(s, page[i].sig)
    /\ stored' = NoSig
    /\ page' = [page EXCEPT ![i] =
                  [Succeeding(i, page[i].sig) EXCEPT !.pc = "idle"]]
    /\ lock' = NoTab
    /\ UNCHANGED <<chainVars, rec>>

\* A refusal by the node, an on-chain error, an expired blockhash, a missing
\* status, a failed reconciliation, or an RPC error: the evidence is kept.
FailSigned(i) ==
    /\ \/ page[i].pc \in {"send", "verify"}
       \/ page[i].pc = "confirm" /\ tx[page[i].sig].status # "sent"
    /\ Abandon(i)
    /\ UNCHANGED <<chainVars, stored, rec>>

-----------------------------------------------------------------------------
\* The tester's token is allocated, and the NFT rests in escrow.
Init ==
    /\ hist = <<[owner  |-> Escrow,
                 tokens |-> [h \in Holder |-> IF h = Wallet THEN Supply ELSE 0]]>>
    /\ tx = [t \in Sig |-> Unused]
    /\ stored = NoSig
    /\ lock = NoTab
    /\ page = [i \in Tab |-> Blank]
    /\ rec = [i \in Tab |-> [k \in Recovery |-> NoCall]]

Recover(i, k) ==
    RecoverStatus(i, k) \/ RecoverState(i, k) \/ RecoverClear(i, k)
        \/ RecoverInVain(i, k)

Run(i) ==
    \/ CheckStorage(i) \/ RecoverFirst(i) \/ Refresh(i) \/ Prepare(i)
    \/ \E t \in Sig : Sign(i, t)
    \/ FailUnsigned(i) \/ Send(i) \/ SaveBroadcast(i) \/ Confirm(i)
    \/ Verify(i) \/ FailSigned(i)

Next ==
    \/ \E t \in Sig : Settle(t) /\ UNCHANGED labVars
    \/ \E i \in Tab :
          \/ Reload(i) \/ WalletChange(i) \/ ClickRefused(i) \/ Run(i)
          \/ \E a \in Action : Click(i, a)
          \/ \E k \in Recovery : CheckRecovery(i, k) \/ Recover(i, k)

Spec == Init /\ [][Next]_vars

\* The chain settles what it was sent, and every await ends: the RPC calls
\* answer or fail, and the tester answers the wallet's dialog.
Fairness ==
    /\ \A t \in Sig : WF_vars(Settle(t) /\ UNCHANGED labVars)
    /\ \A i \in Tab :
          /\ WF_vars(Run(i))
          /\ \A k \in Recovery : WF_vars(Recover(i, k))

\* The tester reloads now and then, keeps pressing CHECK RECOVERY, and not
\* every one of those checks meets an RPC error or a lagging node.
TesterChecks(i, k) ==
    /\ WF_vars(Reload(i) /\ page[i].pc = "idle" /\ page[i].pending # stored)
    /\ SF_vars(CheckRecovery(i, k))
    /\ SF_vars(RecoverStatus(i, k))
    /\ SF_vars(RecoverState(i, k))
    /\ SF_vars(RecoverClear(i, k))

FairSpec == Spec /\ Fairness /\ \A i \in Tab, k \in Recovery : TesterChecks(i, k)

-----------------------------------------------------------------------------
(* Properties                                                              *)

\* Every variable has its type.
TypeOK ==
    /\ hist \in Seq(Ledger)
    /\ Len(hist) > 0
    /\ tx \in [Sig -> Tx]
    /\ stored \in Sig \cup {NoSig}
    /\ lock \in Tab \cup {NoTab}
    /\ page \in [Tab -> Page]
    /\ rec \in [Tab -> [Recovery -> Call]]

\* The evidence of one transaction never overwrites that of another: signing
\* holds the Web Lock and looks at localStorage under it, whatever the other
\* tabs and the recoveries do.
NoOverwrite ==
    [][(stored \in Sig /\ stored' \in Sig) => (stored' = stored)]_vars

\* A page that reports success names a transaction that finalized without
\* error.
SuccessIsFinal ==
    \A i \in Tab : page[i].flow = "success" => tx[page[i].shown].status = "ok"

\* The lab's own sentence (wallet-lab, 425-427): after a broadcast it stays
\* locked until the reserve is reconciled.  A transaction that reached the
\* network and is not known to have succeeded is the one localStorage holds,
\* so no tab signs another one.
EvidenceRetained ==
    \A t \in Sig :
        tx[t].status \in {"sent", "failed", "expired"} => stored = t

\* Evidence of a transaction that succeeded does not lock the lab for ever.
SuccessUnlocks ==
    \A t \in Sig : (stored = t /\ tx[t].status = "ok") ~> (stored # t)

=============================================================================
