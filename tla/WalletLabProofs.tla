--------------------------- MODULE WalletLabProofs ---------------------------
(***************************************************************************)
(* Proofs about WalletLab.                                                 *)
(*                                                                         *)
(* For any number of tabs and of recovery calls, and a wallet that may     *)
(* change at any time: types, the one evidence that is never overwritten,  *)
(* the truth of a reported success, and the custody on the chain.  For one *)
(* tab whose wallet stays: the lock that lasts until reconciliation.       *)
(***************************************************************************)
EXTENDS WalletLab, DevnetProofs

-----------------------------------------------------------------------------
(* What a step does to its tab                                             *)

PagePc == {"idle", "check", "recovering", "refresh", "prepare", "sign",
           "send", "sent", "confirm", "verify"}

Calls == [Recovery -> Call]

\* Tab i shows page pg and has the calls cs under way; no other tab moves.
Becomes(i, pg, cs) ==
    /\ page' = [page EXCEPT ![i] = pg]
    /\ rec' = [rec EXCEPT ![i] = cs]

\* The React state and the signature of two pages are the same.
SameShown(pg0, pg) ==
    /\ pg.flow = pg0.flow
    /\ pg.shown = pg0.shown
    /\ pg.pending = pg0.pending
    /\ pg.sig = pg0.sig

\* Blank pages, blank calls, blank transactions.
LEMMA BlankTypes == Blank \in Page /\ NoCall \in Call /\ Unused \in Tx
<1>1. Blank \in Page
  BY LabAssumption DEF Blank, Page, Action
<1>2. NoCall \in Call
  BY DEF NoCall, Call
<1>3. Unused \in Tx
  BY DEF Unused, Tx, Kind, Holder, Status
<1>. QED
  BY <1>1, <1>2, <1>3

\* execute goes on to its next await, and shows nothing new.
LEMMA PcEffect ==
    ASSUME page \in [Tab -> Page], NEW i \in Tab, NEW pc \in PagePc,
           page' = [page EXCEPT ![i].pc = pc], rec' = rec,
           rec \in [Tab -> Calls]
    PROVE  \E pg \in Page : /\ Becomes(i, pg, rec[i])
                            /\ pg.pc = pc
                            /\ SameShown(page[i], pg)
<1>. DEFINE new(r) == [r EXCEPT !.pc = pc]
<1>1. PICK r \in Page : r = page[i]
  OBVIOUS
<1>2. new(r) \in Page
  BY DEF Page, PagePc
<1>3. new(r).pc = pc /\ SameShown(r, new(r))
  BY DEF Page, SameShown
<1>4. page' = [page EXCEPT ![i] = new(r)]
  BY <1>1, Zenon
<1>5. rec' = [rec EXCEPT ![i] = rec[i]]
  OBVIOUS
<1>. QED
  BY <1>1, <1>2, <1>3, <1>4, <1>5, Zenon DEF Becomes

\* recoverPending locks the page with what localStorage holds.
LEMMA LockedPage ==
    ASSUME NEW q \in Page, stored \in Sig \cup {NoSig}
    PROVE  \E pg \in Page : /\ pg = [q EXCEPT !.pending = stored, !.flow = "busy"]
                            /\ pg.pc = q.pc /\ pg.sig = q.sig
                            /\ pg.pending = stored /\ pg.flow = "busy"
<1>. DEFINE pg == [q EXCEPT !.pending = stored, !.flow = "busy"]
<1>1. pg \in Page
  BY DEF Page
<1>2. pg.pc = q.pc /\ pg.sig = q.sig /\ pg.pending = stored /\ pg.flow = "busy"
  BY DEF Page
<1>. QED
  BY <1>1, <1>2, Zenon

\* A call that begins asks for the status of its evidence first.
LEMMA NewCall ==
    ASSUME NEW t \in Sig \cup {NoSig}, NEW inline \in BOOLEAN
    PROVE  \E c \in Call : /\ c = [pc |-> "status", sig |-> t, inline |-> inline]
                           /\ c.pc = "status" /\ c.sig = t /\ c.inline = inline
<1>1. [pc |-> "status", sig |-> t, inline |-> inline] \in Call
  BY DEF Call
<1>. QED
  BY <1>1

\* Pages q and calls cs0 become pg and cs: nothing is stored, or a call for
\* what is stored begins.
Starts(q, cs0, pg, cs) ==
    /\ pg.pc = q.pc /\ pg.sig = q.sig
    /\ \/ stored = NoSig /\ pg = q /\ cs = cs0
       \/ /\ stored # NoSig
          /\ pg.pending = stored /\ pg.flow = "busy"
          /\ \E k \in Recovery, c \in Call :
                /\ cs0[k].pc = "idle"
                /\ cs = [cs0 EXCEPT ![k] = c]
                /\ c.pc = "status" /\ c.sig = stored /\ c.inline = FALSE

\* The effect of a page load or of a wallet change.
LEMMA EffectEffect ==
    ASSUME TypeOK, NEW i \in Tab, NEW q \in Page, NEW cs0 \in Calls,
           Effect(i, q, cs0)
    PROVE  \E pg \in Page, cs \in Calls : Becomes(i, pg, cs) /\ Starts(q, cs0, pg, cs)
<1>1. CASE stored = NoSig
  BY <1>1 DEF Effect, Becomes, Starts
<1>2. CASE stored # NoSig
  <2>1. PICK k \in Recovery :
           /\ cs0[k].pc = "idle"
           /\ page' = [page EXCEPT ![i] = [q EXCEPT !.pending = stored,
                                                    !.flow = "busy"]]
           /\ rec' = [rec EXCEPT ![i] =
                        [cs0 EXCEPT ![k] = [pc |-> "status", sig |-> stored,
                                            inline |-> FALSE]]]
    BY <1>2 DEF Effect
  <2>2. PICK pg \in Page :
           /\ pg = [q EXCEPT !.pending = stored, !.flow = "busy"]
           /\ pg.pc = q.pc /\ pg.sig = q.sig
           /\ pg.pending = stored /\ pg.flow = "busy"
    BY LockedPage DEF TypeOK
  <2>3. PICK c \in Call : /\ c = [pc |-> "status", sig |-> stored, inline |-> FALSE]
                          /\ c.pc = "status" /\ c.sig = stored /\ c.inline = FALSE
    BY NewCall DEF TypeOK
  <2>4. PICK cs \in Calls : cs = [cs0 EXCEPT ![k] = c]
    BY DEF Calls
  <2>5. Becomes(i, pg, cs)
    BY <2>1, <2>2, <2>3, <2>4, Zenon DEF Becomes
  <2>. QED
    BY <1>2, <2>1, <2>2, <2>3, <2>4, <2>5 DEF Starts
<1>. QED
  BY <1>1, <1>2

\* A reload leaves nothing of execute and of the calls.
LEMMA ReloadEffect ==
    ASSUME TypeOK, NEW i \in Tab, Reload(i)
    PROVE  \E pg \in Page, cs \in Calls :
              /\ Becomes(i, pg, cs)
              /\ pg.pc = "idle" /\ pg.flow # "success" /\ pg.pending = stored
              /\ \A k \in Recovery : ~ cs[k].inline
              /\ \A k \in Recovery : cs[k].pc # "idle" =>
                    /\ pg.flow = "busy"
                    /\ cs[k].pc = "status"
                    /\ cs[k].sig = stored /\ stored # NoSig
                    /\ \A l \in Recovery : cs[l].pc # "idle" => l = k
<1>1. /\ Blank \in Page /\ NoCall \in Call
      /\ Blank.pc = "idle" /\ Blank.flow = "idle" /\ Blank.pending = NoSig
      /\ NoCall.pc = "idle" /\ NoCall.inline = FALSE
  BY BlankTypes DEF Blank, NoCall
<1>2. PICK cs0 \in Calls : cs0 = [k \in Recovery |-> NoCall]
  BY <1>1 DEF Calls
<1>3. Effect(i, Blank, cs0)
  BY <1>2 DEF Reload
<1>4. PICK pg \in Page, cs \in Calls : Becomes(i, pg, cs) /\ Starts(Blank, cs0, pg, cs)
  BY <1>1, <1>3, EffectEffect
<1>5. CASE stored = NoSig
  BY <1>1, <1>2, <1>4, <1>5 DEF Starts, Calls
<1>6. CASE stored # NoSig
  <2>1. PICK k \in Recovery, c \in Call :
           /\ cs = [cs0 EXCEPT ![k] = c]
           /\ c.pc = "status" /\ c.sig = stored /\ c.inline = FALSE
    BY <1>4, <1>6 DEF Starts
  <2>2. \A l \in Recovery : cs[l] = IF l = k THEN c ELSE NoCall
    BY <1>2, <2>1 DEF Calls
  <2>3. Becomes(i, pg, cs) /\ pg.pc = "idle" /\ pg.pending = stored /\ pg.flow = "busy"
    BY <1>1, <1>4, <1>6 DEF Starts
  <2>4. \A l \in Recovery : ~ cs[l].inline
    BY <1>1, <2>1, <2>2
  <2>5. \A l \in Recovery : cs[l].pc # "idle" => l = k /\ cs[l] = c
    BY <1>1, <2>1, <2>2
  <2>. QED
    BY <1>6, <2>1, <2>3, <2>4, <2>5
<1>. QED
  BY <1>5, <1>6

\* A change of wallet keeps execute and the calls, and may begin another one.
LEMMA WalletChangeEffect ==
    ASSUME TypeOK, NEW i \in Tab, WalletChange(i)
    PROVE  \E pg \in Page, cs \in Calls :
              /\ Becomes(i, pg, cs)
              /\ pg.pc = page[i].pc /\ pg.sig = page[i].sig
              /\ \/ cs = rec[i] /\ SameShown(page[i], pg)
                 \/ /\ stored # NoSig /\ pg.flow = "busy"
                    /\ \E k \in Recovery, c \in Call :
                          /\ rec[i][k].pc = "idle"
                          /\ cs = [rec[i] EXCEPT ![k] = c]
                          /\ c.pc = "status" /\ c.sig = stored /\ c.inline = FALSE
<1>1. PICK r \in Page : r = page[i]
  BY DEF TypeOK
<1>2. PICK cs0 \in Calls : cs0 = rec[i]
  BY DEF TypeOK, Calls
<1>3. PICK b \in BOOLEAN : b = ~ r.connected
  OBVIOUS
<1>4. PICK q \in Page : q = [r EXCEPT !.connected = b]
  BY DEF Page
<1>5. q.pc = r.pc /\ SameShown(r, q)
  BY <1>4 DEF Page, SameShown
<1>6. q = [page[i] EXCEPT !.connected = ~ @]
  BY <1>1, <1>3, <1>4, Zenon
<1>7. Effect(i, q, cs0)
  BY <1>2, <1>6, Zenon DEF WalletChange
<1>8. PICK pg \in Page, cs \in Calls : Becomes(i, pg, cs) /\ Starts(q, cs0, pg, cs)
  BY <1>7, EffectEffect
<1>. QED
  BY <1>1, <1>2, <1>5, <1>8 DEF SameShown, Starts

\* CHECK RECOVERY begins a call for what the page shows as pending.
LEMMA CheckRecoveryEffect ==
    ASSUME TypeOK, NEW i \in Tab, NEW k \in Recovery, CheckRecovery(i, k)
    PROVE  \E pg \in Page, cs \in Calls, c \in Call :
              /\ Becomes(i, pg, cs)
              /\ pg.pc = page[i].pc /\ pg.sig = page[i].sig
              /\ pg.pending = page[i].pending /\ pg.flow = "busy"
              /\ cs = [rec[i] EXCEPT ![k] = c]
              /\ c.pc = "status" /\ c.sig = page[i].pending /\ c.inline = FALSE
<1>. DEFINE new(r) == [r EXCEPT !.flow = "busy"]
<1>1. PICK r \in Page : r = page[i]
  BY DEF TypeOK
<1>2. PICK cs0 \in Calls : cs0 = rec[i]
  BY DEF TypeOK, Calls
<1>3. r.pending \in Sig \cup {NoSig}
  BY DEF Page
<1>4. PICK c \in Call :
         /\ c = [pc |-> "status", sig |-> r.pending, inline |-> FALSE]
         /\ c.pc = "status" /\ c.sig = r.pending /\ c.inline = FALSE
  BY <1>3, NewCall
<1>5. new(r) \in Page
  BY DEF Page
<1>6. /\ new(r).pc = r.pc /\ new(r).sig = r.sig /\ new(r).pending = r.pending
      /\ new(r).flow = "busy"
  BY DEF Page
<1>7. PICK cs \in Calls : cs = [cs0 EXCEPT ![k] = c]
  BY DEF Calls
<1>8. page' = [page EXCEPT ![i] = new(r)]
  BY <1>1, Zenon DEF CheckRecovery
<1>9. rec' = [rec EXCEPT ![i] = cs]
  BY <1>1, <1>2, <1>4, <1>7, Zenon DEF CheckRecovery
<1>. QED
  BY <1>1, <1>2, <1>4, <1>5, <1>6, <1>7, <1>8, <1>9, Zenon DEF Becomes

\* execute finds evidence and awaits a call of its own.
LEMMA RecoverFirstEffect ==
    ASSUME TypeOK, NEW i \in Tab, RecoverFirst(i)
    PROVE  /\ stored # NoSig /\ page[i].pc = "check"
           /\ UNCHANGED <<chainVars, stored, lock>>
           /\ \E pg \in Page, cs \in Calls, k \in Recovery, c \in Call :
                 /\ Becomes(i, pg, cs)
                 /\ pg.pc = "recovering" /\ pg.pending = stored /\ pg.flow = "busy"
                 /\ rec[i][k].pc = "idle"
                 /\ cs = [rec[i] EXCEPT ![k] = c]
                 /\ c.pc = "status" /\ c.sig = stored /\ c.inline = TRUE
<1>. DEFINE at(r) == [r EXCEPT !.pc = "recovering"]
<1>1. PICK r \in Page : r = page[i]
  BY DEF TypeOK
<1>2. PICK cs0 \in Calls : cs0 = rec[i]
  BY DEF TypeOK, Calls
<1>3. PICK q \in Page : q = at(r) /\ q.pc = "recovering"
  <2>1. at(r) \in Page /\ at(r).pc = "recovering"
    BY DEF Page
  <2>. QED
    BY <2>1, Zenon
<1>4. PICK k \in Recovery : Begin(i, k, q, TRUE)
  BY <1>1, <1>3, Zenon DEF RecoverFirst
<1>5. PICK pg \in Page :
         /\ pg = [q EXCEPT !.pending = stored, !.flow = "busy"]
         /\ pg.pc = q.pc /\ pg.pending = stored /\ pg.flow = "busy"
  BY LockedPage DEF TypeOK
<1>6. PICK c \in Call : /\ c = [pc |-> "status", sig |-> stored, inline |-> TRUE]
                        /\ c.pc = "status" /\ c.sig = stored /\ c.inline = TRUE
  BY NewCall DEF TypeOK
<1>7. PICK cs \in Calls : cs = [cs0 EXCEPT ![k] = c]
  BY DEF Calls
<1>8. page' = [page EXCEPT ![i] = pg]
  BY <1>4, <1>5, Zenon DEF Begin
<1>9. rec' = [rec EXCEPT ![i] = cs]
  BY <1>2, <1>4, <1>6, <1>7, Zenon DEF Begin
<1>10. rec[i][k].pc = "idle"
  BY <1>4 DEF Begin
<1>11. /\ stored # NoSig /\ page[i].pc = "check"
       /\ UNCHANGED <<chainVars, stored, lock>>
  BY DEF RecoverFirst, NothingStored
<1>. QED
  BY <1>2, <1>3, <1>5, <1>6, <1>7, <1>8, <1>9, <1>10, <1>11 DEF Becomes

\* The page after an error, and after a success, that concern t.
LEMMA OutcomePages ==
    ASSUME TypeOK, NEW i \in Tab, NEW t \in Sig \cup {NoSig}
    PROVE  /\ Failing(i, t) \in Page
           /\ Failing(i, t).pc = page[i].pc /\ Failing(i, t).sig = page[i].sig
           /\ Failing(i, t).pending = page[i].pending
           /\ Failing(i, t).flow = "error"
           /\ Succeeding(i, t) \in Page
           /\ Succeeding(i, t).pc = page[i].pc /\ Succeeding(i, t).sig = page[i].sig
           /\ Succeeding(i, t).pending = NoSig
           /\ Succeeding(i, t).flow = "success" /\ Succeeding(i, t).shown = t
<1>1. PICK r \in Page : r = page[i]
  BY DEF TypeOK
<1>2. /\ [r EXCEPT !.flow = "error", !.shown = t] \in Page
      /\ [r EXCEPT !.flow = "success", !.shown = t, !.pending = NoSig] \in Page
  BY DEF Page
<1>3. /\ [r EXCEPT !.flow = "error", !.shown = t].pc = r.pc
      /\ [r EXCEPT !.flow = "error", !.shown = t].sig = r.sig
      /\ [r EXCEPT !.flow = "error", !.shown = t].pending = r.pending
      /\ [r EXCEPT !.flow = "error", !.shown = t].flow = "error"
  BY DEF Page
<1>4. /\ [r EXCEPT !.flow = "success", !.shown = t, !.pending = NoSig].pc = r.pc
      /\ [r EXCEPT !.flow = "success", !.shown = t, !.pending = NoSig].sig = r.sig
      /\ [r EXCEPT !.flow = "success", !.shown = t, !.pending = NoSig].pending = NoSig
      /\ [r EXCEPT !.flow = "success", !.shown = t, !.pending = NoSig].flow = "success"
      /\ [r EXCEPT !.flow = "success", !.shown = t, !.pending = NoSig].shown = t
  BY DEF Page
<1>. QED
  BY <1>1, <1>2, <1>3, <1>4, Zenon DEF Failing, Succeeding

\* A page is idle again, and otherwise as it was.
LEMMA IdlePage ==
    ASSUME NEW q \in Page
    PROVE  \E pg \in Page : /\ pg = [q EXCEPT !.pc = "idle"]
                            /\ pg.pc = "idle" /\ SameShown(q, pg)
<1>1. /\ [q EXCEPT !.pc = "idle"] \in Page
      /\ [q EXCEPT !.pc = "idle"].pc = "idle"
      /\ SameShown(q, [q EXCEPT !.pc = "idle"])
  BY DEF Page, SameShown
<1>. QED
  BY <1>1, Zenon

\* execute ends with an error, and its evidence stays on the page.
LEMMA AbandonEffect ==
    ASSUME TypeOK, NEW i \in Tab, Abandon(i), rec' = rec
    PROVE  /\ lock' = NoTab
           /\ \E pg \in Page : /\ Becomes(i, pg, rec[i])
                               /\ pg.pc = "idle" /\ pg.flow = "error"
                               /\ pg.pending = page[i].pending
<1>1. page[i].sig \in Sig \cup {NoSig}
  BY DEF TypeOK, Page
<1>2. PICK q \in Page : /\ q = Failing(i, page[i].sig)
                        /\ q.flow = "error" /\ q.pending = page[i].pending
  BY <1>1, OutcomePages
<1>3. PICK pg \in Page : /\ pg = [q EXCEPT !.pc = "idle"]
                         /\ pg.pc = "idle" /\ SameShown(q, pg)
  BY IdlePage
<1>4. page' = [page EXCEPT ![i] = pg]
  BY <1>2, <1>3, Zenon DEF Abandon
<1>5. rec' = [rec EXCEPT ![i] = rec[i]]
  BY DEF TypeOK
<1>. QED
  BY <1>2, <1>3, <1>4, <1>5 DEF Becomes, SameShown, Abandon

\* A call is over, and execute too if it awaited the call.
LEMMA EndEffect ==
    ASSUME TypeOK, NEW i \in Tab, NEW k \in Recovery, NEW q \in Page, End(i, k, q)
    PROVE  \E pg \in Page, cs \in Calls :
              /\ Becomes(i, pg, cs)
              /\ SameShown(q, pg)
              /\ cs = [rec[i] EXCEPT ![k] = NoCall]
              /\ \/ rec[i][k].inline /\ pg.pc = "idle" /\ lock' = NoTab
                 \/ ~ rec[i][k].inline /\ pg.pc = q.pc /\ lock' = lock
<1>1. PICK cs0 \in Calls : cs0 = rec[i]
  BY DEF TypeOK, Calls
<1>2. PICK cs \in Calls : cs = [cs0 EXCEPT ![k] = NoCall]
  BY BlankTypes DEF Calls
<1>3. rec' = [rec EXCEPT ![i] = cs]
  BY <1>1, <1>2, Zenon DEF End
<1>4. CASE rec[i][k].inline
  <2>1. PICK pg \in Page : /\ pg = [q EXCEPT !.pc = "idle"]
                           /\ pg.pc = "idle" /\ SameShown(q, pg)
    BY IdlePage
  <2>2. page' = [page EXCEPT ![i] = pg] /\ lock' = NoTab
    BY <1>4, <2>1, Zenon DEF End
  <2>. QED
    BY <1>1, <1>2, <1>3, <1>4, <2>1, <2>2 DEF Becomes
<1>5. CASE ~ rec[i][k].inline
  BY <1>1, <1>2, <1>3, <1>5 DEF Becomes, End, SameShown
<1>. QED
  BY <1>4, <1>5

\* execute takes the lock.
LEMMA ClickEffect ==
    ASSUME TypeOK, NEW i \in Tab, NEW a \in Action, Click(i, a)
    PROVE  /\ page[i].pending = NoSig /\ page[i].flow # "busy"
           /\ lock = NoTab /\ lock' = i
           /\ UNCHANGED <<chainVars, stored>>
           /\ \E pg \in Page : /\ Becomes(i, pg, rec[i])
                               /\ pg.pc = "check" /\ pg.flow = "busy"
                               /\ pg.pending = page[i].pending
<1>. DEFINE new(r) == [r EXCEPT !.pc = "check", !.action = a, !.sig = NoSig,
                                !.flow = "busy"]
<1>1. PICK r \in Page : r = page[i]
  BY DEF TypeOK
<1>2. new(r) \in Page
  BY DEF Page
<1>3. new(r).pc = "check" /\ new(r).flow = "busy" /\ new(r).pending = r.pending
  BY DEF Page
<1>4. page' = [page EXCEPT ![i] = new(r)]
  BY <1>1, Zenon DEF Click
<1>5. rec' = [rec EXCEPT ![i] = rec[i]]
  BY DEF TypeOK, Click
<1>6. Becomes(i, new(r), rec[i])
  BY <1>4, <1>5 DEF Becomes
<1>7. /\ page[i].pending = NoSig /\ page[i].flow # "busy"
      /\ lock = NoTab /\ lock' = i
      /\ UNCHANGED <<chainVars, stored>>
  BY DEF Click, Clickable
<1>. QED
  BY <1>1, <1>2, <1>3, <1>6, <1>7, Zenon

\* The lock is taken: the page says so.
LEMMA ClickRefusedEffect ==
    ASSUME TypeOK, NEW i \in Tab, ClickRefused(i)
    PROVE  /\ page[i].flow # "busy"
           /\ UNCHANGED <<chainVars, stored, lock>>
           /\ \E pg \in Page : /\ Becomes(i, pg, rec[i])
                               /\ pg.pc = page[i].pc /\ pg.sig = page[i].sig
                               /\ pg.flow = "error"
                               /\ pg.pending = page[i].pending
<1>. DEFINE new(r) == [r EXCEPT !.flow = "error", !.shown = NoSig]
<1>1. PICK r \in Page : r = page[i]
  BY DEF TypeOK
<1>2. new(r) \in Page
  BY DEF Page
<1>3. /\ new(r).pc = r.pc /\ new(r).sig = r.sig /\ new(r).flow = "error"
      /\ new(r).pending = r.pending
  BY DEF Page
<1>4. page' = [page EXCEPT ![i] = new(r)]
  BY <1>1, Zenon DEF ClickRefused
<1>5. rec' = [rec EXCEPT ![i] = rec[i]]
  BY DEF TypeOK, ClickRefused
<1>6. Becomes(i, new(r), rec[i])
  BY <1>4, <1>5 DEF Becomes
<1>7. /\ page[i].flow # "busy"
      /\ UNCHANGED <<chainVars, stored, lock>>
  BY DEF ClickRefused, Clickable
<1>. QED
  BY <1>1, <1>2, <1>3, <1>6, <1>7, Zenon

\* The wallet approves: the evidence is stored, and nothing is sent.
LEMMA SignEffect ==
    ASSUME TypeOK, NEW i \in Tab, NEW t \in Sig, Sign(i, t)
    PROVE  /\ page[i].pc = "sign"
           /\ tx[t].status = "unused"
           /\ stored' = t
           /\ UNCHANGED <<hist, lock>>
           /\ \E new \in Tx : /\ tx' = [tx EXCEPT ![t] = new]
                              /\ new.kind \in Action
                              /\ new.by = Wallet /\ new.to = Wallet
                              /\ new.status = "signed"
           /\ \E pg \in Page : /\ Becomes(i, pg, rec[i])
                               /\ pg.pc = "send" /\ pg.sig = t
                               /\ pg.pending = t /\ pg.flow = "busy"
<1>. DEFINE after(r) == [r EXCEPT !.pc = "send", !.sig = t, !.pending = t,
                                  !.flow = "busy"]
            signed(a) == [Unused EXCEPT !.kind = a, !.by = Wallet, !.to = Wallet,
                                        !.status = "signed"]
<1>1. PICK r \in Page : r = page[i]
  BY DEF TypeOK
<1>2. PICK a \in Action : a = r.action
  BY DEF Page
<1>3. signed(a) \in Tx
  BY BlankTypes, LabAssumption DEF Tx, Status, Action, Kind, Holder
<1>4. /\ signed(a).kind = a /\ signed(a).by = Wallet /\ signed(a).to = Wallet
      /\ signed(a).status = "signed"
  BY DEF Unused
<1>5. tx' = [tx EXCEPT ![t] = signed(a)]
  BY <1>1, <1>2, Zenon DEF Sign, Exchange
<1>6. after(r) \in Page
  BY DEF Page
<1>7. /\ after(r).pc = "send" /\ after(r).sig = t
      /\ after(r).pending = t /\ after(r).flow = "busy"
  BY DEF Page
<1>8. page' = [page EXCEPT ![i] = after(r)]
  BY <1>1, Zenon DEF Sign
<1>9. rec' = [rec EXCEPT ![i] = rec[i]]
  BY DEF TypeOK, Sign
<1>10. Becomes(i, after(r), rec[i])
  BY <1>8, <1>9 DEF Becomes
<1>11. /\ page[i].pc = "sign" /\ tx[t].status = "unused" /\ stored' = t
       /\ UNCHANGED <<hist, lock>>
  BY DEF Sign
<1>. QED
  BY <1>3, <1>4, <1>5, <1>6, <1>7, <1>10, <1>11, Zenon

\* The node takes the signed transaction; execute goes on or fails.
LEMMA SendEffect ==
    ASSUME TypeOK, NEW i \in Tab, Send(i), page[i].sig \in Sig
    PROVE  /\ page[i].pc = "send"
           /\ UNCHANGED <<hist, stored>>
           /\ \E new \in Tx : /\ tx' = [tx EXCEPT ![page[i].sig] = new]
                              /\ new.kind = tx[page[i].sig].kind
                              /\ new.by = tx[page[i].sig].by
                              /\ new.to = tx[page[i].sig].to
                              /\ new.status = "sent"
           /\ \E pg \in Page : /\ Becomes(i, pg, rec[i])
                               /\ \/ /\ pg.pc = "sent" /\ SameShown(page[i], pg)
                                     /\ lock' = lock
                                  \/ /\ pg.pc = "idle" /\ pg.flow = "error"
                                     /\ pg.pending = page[i].pending
                                     /\ lock' = NoTab
<1>. DEFINE sent(r) == [r EXCEPT !.status = "sent"]
<1>1. PICK t \in Sig : t = page[i].sig
  OBVIOUS
<1>2. PICK old \in Tx : old = tx[t]
  BY DEF TypeOK
<1>3. /\ sent(old) \in Tx /\ sent(old).status = "sent"
      /\ sent(old).kind = old.kind /\ sent(old).by = old.by /\ sent(old).to = old.to
  BY DEF Tx, Status
<1>4. tx' = [tx EXCEPT ![t] = sent(old)]
  BY <1>1, <1>2, Zenon DEF Send
<1>5. \E new \in Tx : /\ tx' = [tx EXCEPT ![page[i].sig] = new]
                      /\ new.kind = tx[page[i].sig].kind
                      /\ new.by = tx[page[i].sig].by
                      /\ new.to = tx[page[i].sig].to
                      /\ new.status = "sent"
  BY <1>1, <1>2, <1>3, <1>4, Zenon
<1>6. \/ page' = [page EXCEPT ![i].pc = "sent"] /\ lock' = lock
      \/ Abandon(i)
  BY DEF Send
<1>7. /\ rec' = rec /\ page[i].pc = "send" /\ UNCHANGED <<hist, stored>>
      /\ page \in [Tab -> Page] /\ rec \in [Tab -> Calls]
  BY DEF Send, TypeOK, Calls
<1>8. CASE page' = [page EXCEPT ![i].pc = "sent"] /\ lock' = lock
  <2>1. PICK pg \in Page : /\ Becomes(i, pg, rec[i])
                           /\ pg.pc = "sent" /\ SameShown(page[i], pg)
    BY <1>7, <1>8, PcEffect DEF PagePc
  <2>. QED
    BY <1>5, <1>7, <1>8, <2>1
<1>9. CASE Abandon(i)
  BY <1>5, <1>7, <1>9, AbandonEffect
<1>. QED
  BY <1>6, <1>8, <1>9

\* The evidence is written again.
LEMMA SaveBroadcastEffect ==
    ASSUME TypeOK, NEW i \in Tab, SaveBroadcast(i)
    PROVE  /\ page[i].pc = "sent"
           /\ stored' = page[i].sig
           /\ UNCHANGED <<chainVars, lock>>
           /\ \E pg \in Page : /\ Becomes(i, pg, rec[i])
                               /\ pg.pc = "confirm" /\ pg.sig = page[i].sig
                               /\ pg.pending = page[i].sig /\ pg.flow = "busy"
<1>. DEFINE after(r) == [r EXCEPT !.pc = "confirm", !.pending = r.sig,
                                  !.flow = "busy"]
<1>1. PICK r \in Page : r = page[i]
  BY DEF TypeOK
<1>2. after(r) \in Page
  BY DEF Page
<1>3. /\ after(r).pc = "confirm" /\ after(r).sig = r.sig
      /\ after(r).pending = r.sig /\ after(r).flow = "busy"
  BY DEF Page
<1>4. page' = [page EXCEPT ![i] = after(r)]
  BY <1>1, Zenon DEF SaveBroadcast
<1>5. rec' = [rec EXCEPT ![i] = rec[i]]
  BY DEF TypeOK, SaveBroadcast
<1>6. Becomes(i, after(r), rec[i])
  BY <1>4, <1>5 DEF Becomes
<1>7. /\ page[i].pc = "sent" /\ stored' = page[i].sig
      /\ UNCHANGED <<chainVars, lock>>
  BY DEF SaveBroadcast
<1>. QED
  BY <1>1, <1>2, <1>3, <1>6, <1>7, Zenon

\* The reserve is reconciled: the evidence goes, and the lock.
LEMMA VerifyEffect ==
    ASSUME TypeOK, NEW i \in Tab, Verify(i)
    PROVE  /\ page[i].pc = "verify"
           /\ stored' = NoSig /\ lock' = NoTab
           /\ UNCHANGED chainVars
           /\ \E pg \in Page : /\ Becomes(i, pg, rec[i])
                               /\ pg.pc = "idle" /\ pg.flow = "success"
                               /\ pg.shown = page[i].sig /\ pg.pending = NoSig
<1>1. page[i].sig \in Sig \cup {NoSig}
  BY DEF TypeOK, Page
<1>2. PICK q \in Page : /\ q = Succeeding(i, page[i].sig)
                        /\ q.flow = "success" /\ q.shown = page[i].sig
                        /\ q.pending = NoSig
  BY <1>1, OutcomePages
<1>3. PICK pg \in Page : /\ pg = [q EXCEPT !.pc = "idle"]
                         /\ pg.pc = "idle" /\ SameShown(q, pg)
  BY IdlePage
<1>4. page' = [page EXCEPT ![i] = pg]
  BY <1>2, <1>3, Zenon DEF Verify
<1>5. rec' = [rec EXCEPT ![i] = rec[i]]
  BY DEF TypeOK, Verify
<1>. QED
  BY <1>2, <1>3, <1>4, <1>5 DEF Becomes, SameShown, Verify

\* The steps of execute between its awaits.
LEMMA AdvanceEffect ==
    ASSUME TypeOK, NEW i \in Tab,
           CheckStorage(i) \/ Refresh(i) \/ Prepare(i) \/ Confirm(i)
    PROVE  /\ UNCHANGED <<chainVars, stored, lock>>
           /\ \E pg \in Page :
                 /\ Becomes(i, pg, rec[i])
                 /\ SameShown(page[i], pg)
                 /\ \/ page[i].pc = "check" /\ stored = NoSig /\ pg.pc = "refresh"
                    \/ page[i].pc = "refresh" /\ pg.pc = "prepare"
                    \/ page[i].pc = "prepare" /\ pg.pc = "sign"
                    \/ /\ page[i].pc = "confirm" /\ pg.pc = "verify"
                       /\ Succeeded(page[i].sig)
<1>1. page \in [Tab -> Page] /\ rec \in [Tab -> Calls]
  BY DEF TypeOK, Calls
<1>2. ASSUME NEW pc \in PagePc, page' = [page EXCEPT ![i].pc = pc], rec' = rec
      PROVE  \E pg \in Page : /\ Becomes(i, pg, rec[i])
                              /\ pg.pc = pc /\ SameShown(page[i], pg)
  BY <1>1, <1>2, PcEffect
<1>3. CASE CheckStorage(i)
  <2>1. PICK pg \in Page : /\ Becomes(i, pg, rec[i])
                           /\ pg.pc = "refresh" /\ SameShown(page[i], pg)
    BY <1>2, <1>3 DEF CheckStorage, PagePc
  <2>. QED
    BY <1>3, <2>1 DEF CheckStorage, NothingStored
<1>4. CASE Refresh(i)
  <2>1. PICK pg \in Page : /\ Becomes(i, pg, rec[i])
                           /\ pg.pc = "prepare" /\ SameShown(page[i], pg)
    BY <1>2, <1>4 DEF Refresh, PagePc
  <2>. QED
    BY <1>4, <2>1 DEF Refresh
<1>5. CASE Prepare(i)
  <2>1. PICK pg \in Page : /\ Becomes(i, pg, rec[i])
                           /\ pg.pc = "sign" /\ SameShown(page[i], pg)
    BY <1>2, <1>5 DEF Prepare, PagePc
  <2>. QED
    BY <1>5, <2>1 DEF Prepare
<1>6. CASE Confirm(i)
  <2>1. PICK pg \in Page : /\ Becomes(i, pg, rec[i])
                           /\ pg.pc = "verify" /\ SameShown(page[i], pg)
    BY <1>2, <1>6 DEF Confirm, PagePc
  <2>. QED
    BY <1>6, <2>1 DEF Confirm
<1>. QED
  BY <1>3, <1>4, <1>5, <1>6

\* The steps of a recovery call.
LEMMA RecoverEffect ==
    ASSUME TypeOK, NEW i \in Tab, NEW k \in Recovery,
           rec[i][k].sig \in Sig \cup {NoSig}, Recover(i, k)
    PROVE  /\ UNCHANGED chainVars
           /\ \E pg \in Page, cs \in Calls :
                 /\ Becomes(i, pg, cs)
                 /\ \/ /\ UNCHANGED <<stored, lock>>
                       /\ pg = page[i]
                       /\ \E c \in Call :
                             /\ cs = [rec[i] EXCEPT ![k] = c]
                             /\ c.sig = rec[i][k].sig /\ c.inline = rec[i][k].inline
                             /\ \/ /\ rec[i][k].pc = "status" /\ c.pc = "state"
                                   /\ Succeeded(c.sig)
                                \/ rec[i][k].pc = "state" /\ c.pc = "clear"
                    \/ /\ rec[i][k].pc \in {"status", "state", "clear"}
                       /\ cs = [rec[i] EXCEPT ![k] = NoCall]
                       /\ pg.sig = page[i].sig
                       /\ \/ rec[i][k].inline /\ pg.pc = "idle" /\ lock' = NoTab
                          \/ ~ rec[i][k].inline /\ pg.pc = page[i].pc /\ lock' = lock
                       /\ \/ /\ rec[i][k].pc = "clear"
                             /\ stored' = NoSig /\ pg.pending = NoSig
                             /\ pg.flow = "success" /\ pg.shown = rec[i][k].sig
                          \/ /\ stored' = stored /\ pg.pending = page[i].pending
                             /\ pg.flow = "error"
<1>1. PICK r \in Calls : r = rec[i]
  BY DEF TypeOK, Calls
<1>2. PICK c0 \in Call : c0 = r[k]
  BY DEF Calls
<1>3. page[i] \in Page /\ page \in [Tab -> Page]
  BY DEF TypeOK
<1>4. ASSUME NEW pc \in {"state", "clear"}, page' = page,
             rec' = [rec EXCEPT ![i][k].pc = pc]
      PROVE  \E cs \in Calls, c \in Call :
                /\ Becomes(i, page[i], cs)
                /\ cs = [rec[i] EXCEPT ![k] = c]
                /\ c.pc = pc /\ c.sig = rec[i][k].sig /\ c.inline = rec[i][k].inline
  <2>. DEFINE new(c) == [c EXCEPT !.pc = pc]
  <2>1. /\ new(c0) \in Call
        /\ new(c0).pc = pc /\ new(c0).sig = c0.sig /\ new(c0).inline = c0.inline
    BY DEF Call
  <2>2. PICK c \in Call : /\ c = new(c0)
                          /\ c.pc = pc /\ c.sig = c0.sig /\ c.inline = c0.inline
    BY <2>1, Zenon
  <2>3. PICK cs \in Calls : cs = [r EXCEPT ![k] = c]
    BY DEF Calls
  <2>4. rec' = [rec EXCEPT ![i] = cs]
    BY <1>1, <1>2, <1>4, <2>2, <2>3, Zenon
  <2>5. page' = [page EXCEPT ![i] = page[i]]
    BY <1>3, <1>4
  <2>. QED
    BY <1>1, <1>2, <2>2, <2>3, <2>4, <2>5 DEF Becomes
<1>5. CASE RecoverStatus(i, k)
  <2>1. PICK cs \in Calls, c \in Call :
           /\ Becomes(i, page[i], cs)
           /\ cs = [rec[i] EXCEPT ![k] = c]
           /\ c.pc = "state" /\ c.sig = rec[i][k].sig /\ c.inline = rec[i][k].inline
    BY <1>4, <1>5 DEF RecoverStatus
  <2>. QED
    BY <1>3, <1>5, <2>1 DEF RecoverStatus
<1>6. CASE RecoverState(i, k)
  <2>1. PICK cs \in Calls, c \in Call :
           /\ Becomes(i, page[i], cs)
           /\ cs = [rec[i] EXCEPT ![k] = c]
           /\ c.pc = "clear" /\ c.sig = rec[i][k].sig /\ c.inline = rec[i][k].inline
    BY <1>4, <1>6 DEF RecoverState
  <2>. QED
    BY <1>3, <1>6, <2>1 DEF RecoverState
<1>7. CASE RecoverClear(i, k)
  <2>1. PICK q \in Page :
           /\ q = Succeeding(i, rec[i][k].sig)
           /\ q.pc = page[i].pc /\ q.sig = page[i].sig /\ q.pending = NoSig
           /\ q.flow = "success" /\ q.shown = rec[i][k].sig
    BY OutcomePages
  <2>2. PICK pg \in Page, cs \in Calls :
           /\ Becomes(i, pg, cs)
           /\ SameShown(q, pg)
           /\ cs = [rec[i] EXCEPT ![k] = NoCall]
           /\ \/ rec[i][k].inline /\ pg.pc = "idle" /\ lock' = NoTab
              \/ ~ rec[i][k].inline /\ pg.pc = q.pc /\ lock' = lock
    BY <1>7, <2>1, EndEffect DEF RecoverClear
  <2>. QED
    BY <1>7, <2>1, <2>2 DEF RecoverClear, SameShown
<1>8. CASE RecoverInVain(i, k)
  <2>1. PICK q \in Page :
           /\ q = Failing(i, rec[i][k].sig)
           /\ q.pc = page[i].pc /\ q.sig = page[i].sig
           /\ q.pending = page[i].pending /\ q.flow = "error"
    BY OutcomePages
  <2>2. PICK pg \in Page, cs \in Calls :
           /\ Becomes(i, pg, cs)
           /\ SameShown(q, pg)
           /\ cs = [rec[i] EXCEPT ![k] = NoCall]
           /\ \/ rec[i][k].inline /\ pg.pc = "idle" /\ lock' = NoTab
              \/ ~ rec[i][k].inline /\ pg.pc = q.pc /\ lock' = lock
    BY <1>8, <2>1, EndEffect DEF RecoverInVain
  <2>. QED
    BY <1>8, <2>1, <2>2 DEF RecoverInVain, SameShown
<1>. QED
  BY <1>5, <1>6, <1>7, <1>8 DEF Recover

-----------------------------------------------------------------------------
(* Any number of tabs                                                      *)

Signed == {"send", "sent", "confirm", "verify"}

\* A call knows what it asks for, has seen it succeed when it says so, and is
\* the only one that execute awaits.
SoundCalls(pg, cs) ==
    \A k \in Recovery :
        /\ cs[k].pc # "idle" => cs[k].sig \in Sig
        /\ cs[k].pc \in {"state", "clear"} => Succeeded(cs[k].sig)
        /\ cs[k].inline => pg.pc = "recovering"
        /\ \A l \in Recovery : cs[k].inline /\ cs[l].inline => k = l

\* execute holds the lock; nothing is stored when it is about to sign, and
\* nothing but its own signature afterwards, unless a call has removed it.
SoundPage(i, pg) ==
    /\ pg.flow = "success" => pg.shown \in Sig /\ Succeeded(pg.shown)
    /\ pg.pc # "idle" => lock = i
    /\ pg.pc \in {"refresh", "prepare", "sign"} => stored = NoSig
    /\ pg.pc \in Signed => pg.sig \in Sig /\ stored \in {NoSig, pg.sig}
    /\ pg.pc = "send" => tx[pg.sig].status = "signed"
    /\ pg.pc = "verify" => Succeeded(pg.sig)

SoundTab(i, pg, cs) == SoundPage(i, pg) /\ SoundCalls(pg, cs)

\* The finalized transactions are those of the one wallet.
WalletPays == \A t \in Sig : tx[t].status # "unused" =>
                 /\ tx[t].kind \in Action
                 /\ tx[t].by = Wallet /\ tx[t].to = Wallet

LabInv ==
    /\ TypeOK
    /\ \A i \in Tab : SoundTab(i, page[i], rec[i])
    /\ WalletPays

\* Of the variables that the tabs share, tab i changes this and no more.
Others(i) ==
    /\ \/ lock' = lock
       \/ lock \in {i, NoTab} /\ lock' \in {i, NoTab}
    /\ \/ stored' \in {stored, NoSig}
       \/ lock = i /\ stored' \in Sig
    /\ \/ UNCHANGED chainVars
       \/ /\ lock = i /\ UNCHANGED hist
          /\ \E t \in Sig, new \in Tx :
                /\ tx' = [tx EXCEPT ![t] = new]
                /\ tx[t].status # "ok"
                /\ new.status # "unused" /\ new.kind \in Action
                /\ new.by = Wallet /\ new.to = Wallet

\* A success stays one, and a transaction of another tab stays as it was.
LEMMA OthersKeep ==
    ASSUME LabInv, NEW i \in Tab, Others(i)
    PROVE  /\ tx' \in [Sig -> Tx] /\ hist' \in Seq(Ledger) /\ Len(hist') > 0
           /\ stored' \in Sig \cup {NoSig} /\ lock' \in Tab \cup {NoTab}
           /\ \A t \in Sig : Succeeded(t) => Succeeded(t)'
           /\ WalletPays'
<1>1. /\ tx \in [Sig -> Tx] /\ hist \in Seq(Ledger) /\ Len(hist) > 0
      /\ stored \in Sig \cup {NoSig} /\ lock \in Tab \cup {NoTab}
  BY DEF LabInv, TypeOK
<1>2. CASE UNCHANGED chainVars
  BY <1>1, <1>2 DEF Others, chainVars, LabInv, WalletPays, Succeeded
<1>3. CASE ~ UNCHANGED chainVars
  <2>1. PICK t \in Sig, new \in Tx : /\ tx' = [tx EXCEPT ![t] = new]
                                     /\ tx[t].status # "ok"
                                     /\ new.kind \in Action
                                     /\ new.by = Wallet /\ new.to = Wallet
    BY <1>3 DEF Others
  <2>2. hist' = hist
    BY <1>3 DEF Others
  <2>3. \A u \in Sig : tx'[u] = IF u = t THEN new ELSE tx[u]
    BY <1>1, <2>1
  <2>4. tx' \in [Sig -> Tx]
    BY <1>1, <2>1
  <2>5. WalletPays'
    BY <2>1, <2>3 DEF LabInv, WalletPays
  <2>. QED
    BY <1>1, <2>1, <2>2, <2>3, <2>4, <2>5 DEF Others, Succeeded
<1>. QED
  BY <1>2, <1>3

\* It is enough to say what becomes of the tab that moves.
LEMMA TabStep ==
    ASSUME LabInv, NEW i \in Tab, NEW pg \in Page, NEW cs \in Calls,
           Becomes(i, pg, cs), Others(i), SoundTab(i, pg, cs)'
    PROVE  LabInv'
<1>1. /\ page \in [Tab -> Page] /\ rec \in [Tab -> Calls]
      /\ \A j \in Tab : /\ page'[j] = IF j = i THEN pg ELSE page[j]
                        /\ rec'[j] = IF j = i THEN cs ELSE rec[j]
  BY DEF LabInv, TypeOK, Calls, Becomes
<1>2. TypeOK'
  BY <1>1, OthersKeep DEF LabInv, TypeOK, Calls, Becomes
<1>3. ASSUME NEW j \in Tab, j # i
      PROVE  SoundTab(j, page[j], rec[j])'
  <2>1. PICK q \in Page, qs \in Calls : q = page[j] /\ qs = rec[j]
    BY <1>1
  <2>2. SoundPage(j, q) /\ SoundCalls(q, qs)
    BY <2>1 DEF LabInv, SoundTab
  <2>3. j # NoTab /\ i # NoTab
    BY LabAssumption
  <2>4. \A t \in Sig : Succeeded(t) => Succeeded(t)'
    BY OthersKeep
  <2>5. SoundCalls(q, qs)'
    BY <2>2, <2>4 DEF SoundCalls, Succeeded
  <2>6. SoundPage(j, q)'
    <3>1. CASE q.pc = "idle"
      BY <2>2, <2>4, <3>1 DEF SoundPage, Signed, Succeeded
    <3>2. CASE q.pc # "idle"
      <4>1. lock = j /\ lock' = j /\ stored' \in {stored, NoSig} /\ tx' = tx
        BY <1>3, <2>2, <2>3, <3>2 DEF SoundPage, Others, chainVars
      <4>. QED
        BY <2>2, <4>1 DEF SoundPage, Signed, Succeeded
    <3>. QED
      BY <3>1, <3>2
  <2>7. SoundTab(j, q, qs)'
    BY <2>5, <2>6 DEF SoundTab
  <2>8. page'[j] = q /\ rec'[j] = qs
    BY <1>1, <1>3, <2>1
  <2>. QED
    BY <2>7, <2>8 DEF SoundTab, SoundPage, SoundCalls
<1>4. SoundTab(i, page[i], rec[i])'
  BY <1>1 DEF SoundTab, SoundPage, SoundCalls
<1>5. \A j \in Tab : SoundTab(j, page[j], rec[j])'
  BY <1>3, <1>4
<1>. QED
  BY <1>2, <1>5, OthersKeep DEF LabInv

\* Calls go on, and at most one more begins that nobody awaits.
LEMMA OneMoreCall ==
    ASSUME NEW pg \in Page, NEW cs \in Calls, SoundCalls(pg, cs),
           NEW pg1 \in Page, pg1.pc = pg.pc,
           NEW k \in Recovery, NEW c \in Call, NEW cs1 \in Calls,
           cs[k].pc = "idle", cs1 = [cs EXCEPT ![k] = c],
           c.pc = "status", c.sig \in Sig, c.inline = FALSE
    PROVE  SoundCalls(pg1, cs1)
<1>1. \A l \in Recovery : cs1[l] = IF l = k THEN c ELSE cs[l]
  BY DEF Calls
<1>. QED
  BY <1>1 DEF SoundCalls

\* What is known of the tab that moves.
LEMMA ThisTab ==
    ASSUME LabInv, NEW i \in Tab
    PROVE  /\ TypeOK /\ stored \in Sig \cup {NoSig} /\ lock \in Tab \cup {NoTab}
           /\ page[i] \in Page /\ rec[i] \in Calls
           /\ SoundPage(i, page[i]) /\ SoundCalls(page[i], rec[i])
<1>. QED
  BY DEF LabInv, TypeOK, SoundTab, Calls

\* A page load.
LEMMA ReloadStep == ASSUME LabInv, NEW i \in Tab, Reload(i) PROVE LabInv'
<1>1. PICK pg \in Page, cs \in Calls :
         /\ Becomes(i, pg, cs)
         /\ pg.pc = "idle" /\ pg.flow # "success"
         /\ \A k \in Recovery : ~ cs[k].inline
         /\ \A k \in Recovery : cs[k].pc # "idle" =>
               cs[k].pc = "status" /\ cs[k].sig = stored /\ stored # NoSig
  BY ThisTab, ReloadEffect
<1>2. /\ UNCHANGED <<chainVars, stored>>
      /\ lock' = IF lock = i THEN NoTab ELSE lock
  BY DEF Reload
<1>3. SoundTab(i, pg, cs)'
  BY <1>1, <1>2, ThisTab DEF SoundTab, SoundPage, SoundCalls, Signed
<1>4. Others(i)
  BY <1>2 DEF Others
<1>. QED
  BY <1>1, <1>3, <1>4, TabStep

\* The wallet in the browser changes.
LEMMA WalletChangeStep == ASSUME LabInv, NEW i \in Tab, WalletChange(i) PROVE LabInv'
<1>1. PICK pg \in Page, cs \in Calls :
         /\ Becomes(i, pg, cs)
         /\ pg.pc = page[i].pc /\ pg.sig = page[i].sig
         /\ \/ cs = rec[i] /\ SameShown(page[i], pg)
            \/ /\ stored # NoSig /\ pg.flow = "busy"
               /\ \E k \in Recovery, c \in Call :
                     /\ rec[i][k].pc = "idle"
                     /\ cs = [rec[i] EXCEPT ![k] = c]
                     /\ c.pc = "status" /\ c.sig = stored /\ c.inline = FALSE
  BY ThisTab, WalletChangeEffect
<1>2. UNCHANGED <<chainVars, stored, lock>>
  BY DEF WalletChange
<1>3. SoundCalls(pg, cs)
  <2>1. CASE cs = rec[i]
    BY <1>1, <2>1, ThisTab DEF SoundCalls
  <2>2. CASE cs # rec[i]
    <3>1. PICK k \in Recovery, c \in Call :
             /\ rec[i][k].pc = "idle"
             /\ cs = [rec[i] EXCEPT ![k] = c]
             /\ c.pc = "status" /\ c.sig = stored /\ c.inline = FALSE
      BY <1>1, <2>2
    <3>2. stored \in Sig
      BY <1>1, <2>2, ThisTab
    <3>3. page[i] \in Page /\ rec[i] \in Calls /\ SoundCalls(page[i], rec[i])
      BY ThisTab
    <3>4. pg.pc = page[i].pc
      BY <1>1
    <3>. QED
      BY <3>1, <3>2, <3>3, <3>4, OneMoreCall, Zenon
  <2>. QED
    BY <2>1, <2>2
<1>4. SoundPage(i, pg)
  BY <1>1, ThisTab DEF SoundPage, SameShown
<1>5. SoundTab(i, pg, cs)'
  BY <1>2, <1>3, <1>4 DEF SoundTab, SoundPage, SoundCalls, Succeeded, chainVars
<1>6. Others(i)
  BY <1>2 DEF Others
<1>. QED
  BY <1>1, <1>5, <1>6, TabStep

\* The button CHECK RECOVERY.
LEMMA CheckRecoveryStep ==
    ASSUME LabInv, NEW i \in Tab, NEW k \in Recovery, CheckRecovery(i, k)
    PROVE  LabInv'
<1>1. PICK pg \in Page, cs \in Calls, c \in Call :
         /\ Becomes(i, pg, cs)
         /\ pg.pc = page[i].pc /\ pg.sig = page[i].sig
         /\ pg.pending = page[i].pending /\ pg.flow = "busy"
         /\ cs = [rec[i] EXCEPT ![k] = c]
         /\ c.pc = "status" /\ c.sig = page[i].pending /\ c.inline = FALSE
  BY ThisTab, CheckRecoveryEffect, Zenon
<1>2. /\ UNCHANGED <<chainVars, stored, lock>>
      /\ rec[i][k].pc = "idle" /\ page[i].pending # NoSig
  BY DEF CheckRecovery
<1>3. SoundCalls(pg, cs)
  <2>1. page[i].pending \in Sig
    BY <1>2, ThisTab DEF Page
  <2>. QED
    BY <1>1, <1>2, <2>1, ThisTab, OneMoreCall
<1>4. SoundPage(i, pg)
  BY <1>1, ThisTab DEF SoundPage
<1>5. SoundTab(i, pg, cs)'
  BY <1>2, <1>3, <1>4 DEF SoundTab, SoundPage, SoundCalls, Succeeded, chainVars
<1>6. Others(i)
  BY <1>2 DEF Others
<1>. QED
  BY <1>1, <1>5, <1>6, TabStep

\* A recovery call goes on or ends.
LEMMA RecoverStep ==
    ASSUME LabInv, NEW i \in Tab, NEW k \in Recovery, Recover(i, k)
    PROVE  LabInv'
<1>0. rec[i][k].sig \in Sig \cup {NoSig} /\ rec[i][k] \in Call
  BY ThisTab DEF Calls, Call
<1>1. UNCHANGED chainVars
  BY <1>0, ThisTab, RecoverEffect
<1>2. ASSUME NEW cs \in Calls, NEW c \in Call,
             Becomes(i, page[i], cs), UNCHANGED <<stored, lock>>,
             cs = [rec[i] EXCEPT ![k] = c],
             c.sig = rec[i][k].sig, c.inline = rec[i][k].inline,
             \/ rec[i][k].pc = "status" /\ c.pc = "state" /\ Succeeded(c.sig)
             \/ rec[i][k].pc = "state" /\ c.pc = "clear"
      PROVE  LabInv'
  <2>1. PICK pg \in Page : pg = page[i]
    BY ThisTab
  <2>2. \A l \in Recovery : cs[l] = IF l = k THEN c ELSE rec[i][l]
    BY <1>2, ThisTab DEF Calls
  <2>3. SoundCalls(pg, cs)
    BY <1>2, <2>1, <2>2, ThisTab DEF SoundCalls
  <2>4. SoundTab(i, pg, cs)'
    BY <1>1, <1>2, <2>1, <2>3, ThisTab
       DEF SoundTab, SoundPage, SoundCalls, Succeeded, chainVars
  <2>5. Others(i)
    BY <1>1, <1>2 DEF Others
  <2>. QED
    BY <1>2, <2>1, <2>4, <2>5, TabStep
<1>3. ASSUME NEW pg \in Page, NEW cs \in Calls, Becomes(i, pg, cs),
             rec[i][k].pc \in {"status", "state", "clear"},
             cs = [rec[i] EXCEPT ![k] = NoCall],
             pg.sig = page[i].sig,
             \/ rec[i][k].inline /\ pg.pc = "idle" /\ lock' = NoTab
             \/ ~ rec[i][k].inline /\ pg.pc = page[i].pc /\ lock' = lock,
             \/ /\ rec[i][k].pc = "clear"
                /\ stored' = NoSig
                /\ pg.flow = "success" /\ pg.shown = rec[i][k].sig
             \/ stored' = stored /\ pg.flow = "error"
      PROVE  LabInv'
  <2>1. \A l \in Recovery : cs[l] = IF l = k THEN NoCall ELSE rec[i][l]
    BY <1>3, BlankTypes, ThisTab DEF Calls
  <2>2. NoCall.pc = "idle" /\ NoCall.inline = FALSE
    BY DEF NoCall
  <2>3. rec[i][k].inline => lock = i
    BY ThisTab DEF SoundCalls, SoundPage
  <2>4. SoundCalls(pg, cs)
    BY <1>3, <2>1, <2>2, ThisTab DEF SoundCalls
  <2>5. pg.flow = "success" => pg.shown \in Sig /\ Succeeded(pg.shown)
    BY <1>3, ThisTab DEF SoundCalls
  <2>6. SoundPage(i, pg)'
    BY <1>1, <1>3, <2>5, ThisTab DEF SoundPage, Succeeded, chainVars, Signed
  <2>7. SoundTab(i, pg, cs)'
    BY <1>1, <2>4, <2>6 DEF SoundTab, SoundCalls, Succeeded, chainVars
  <2>8. Others(i)
    BY <1>1, <1>3, <2>3 DEF Others
  <2>. QED
    BY <1>3, <2>7, <2>8, TabStep
<1>. QED
  BY <1>0, <1>2, <1>3, ThisTab, RecoverEffect

\* The button of an exchange.
LEMMA ClickStep ==
    ASSUME LabInv, NEW i \in Tab, ClickRefused(i) \/ \E a \in Action : Click(i, a)
    PROVE  LabInv'
<1>1. CASE ClickRefused(i)
  <2>1. PICK pg \in Page : /\ Becomes(i, pg, rec[i])
                           /\ pg.pc = page[i].pc /\ pg.sig = page[i].sig
                           /\ pg.flow = "error"
    BY <1>1, ThisTab, ClickRefusedEffect
  <2>2. UNCHANGED <<chainVars, stored, lock>>
    BY <1>1, ThisTab, ClickRefusedEffect
  <2>3. PICK cs \in Calls : cs = rec[i]
    BY ThisTab
  <2>4. SoundTab(i, pg, cs)'
    BY <2>1, <2>2, <2>3, ThisTab
       DEF SoundTab, SoundPage, SoundCalls, Succeeded, chainVars
  <2>5. Others(i)
    BY <2>2 DEF Others
  <2>. QED
    BY <2>1, <2>3, <2>4, <2>5, TabStep
<1>2. ASSUME NEW a \in Action, Click(i, a) PROVE LabInv'
  <2>1. PICK pg \in Page : /\ Becomes(i, pg, rec[i])
                           /\ pg.pc = "check" /\ pg.flow = "busy"
    BY <1>2, ThisTab, ClickEffect
  <2>2. UNCHANGED <<chainVars, stored>> /\ lock = NoTab /\ lock' = i
    BY <1>2, ThisTab, ClickEffect
  <2>3. PICK cs \in Calls : cs = rec[i]
    BY ThisTab
  <2>4. page[i].pc # "recovering"
    BY <2>2, LabAssumption, ThisTab DEF SoundPage
  <2>5. SoundTab(i, pg, cs)'
    BY <2>1, <2>2, <2>3, <2>4, ThisTab
       DEF SoundTab, SoundPage, SoundCalls, Succeeded, chainVars, Signed
  <2>6. Others(i)
    BY <2>2 DEF Others
  <2>. QED
    BY <2>1, <2>3, <2>5, <2>6, TabStep
<1>. QED
  BY <1>1, <1>2

\* execute goes on.
LEMMA AdvanceStep ==
    ASSUME LabInv, NEW i \in Tab,
           CheckStorage(i) \/ Refresh(i) \/ Prepare(i) \/ Confirm(i)
    PROVE  LabInv'
<1>1. UNCHANGED <<chainVars, stored, lock>>
  BY ThisTab, AdvanceEffect
<1>2. PICK pg \in Page :
         /\ Becomes(i, pg, rec[i])
         /\ SameShown(page[i], pg)
         /\ \/ page[i].pc = "check" /\ stored = NoSig /\ pg.pc = "refresh"
            \/ page[i].pc = "refresh" /\ pg.pc = "prepare"
            \/ page[i].pc = "prepare" /\ pg.pc = "sign"
            \/ page[i].pc = "confirm" /\ pg.pc = "verify" /\ Succeeded(page[i].sig)
  BY ThisTab, AdvanceEffect
<1>3. PICK cs \in Calls : cs = rec[i]
  BY ThisTab
<1>4. SoundPage(i, pg)
  BY <1>2, ThisTab DEF SoundPage, SameShown, Signed
<1>5. SoundCalls(pg, cs)
  BY <1>2, <1>3, ThisTab DEF SoundCalls
<1>6. SoundTab(i, pg, cs)'
  BY <1>1, <1>4, <1>5 DEF SoundTab, SoundPage, SoundCalls, Succeeded, chainVars
<1>7. Others(i)
  BY <1>1 DEF Others
<1>. QED
  BY <1>2, <1>3, <1>6, <1>7, TabStep

\* execute recovers first.
LEMMA RecoverFirstStep == ASSUME LabInv, NEW i \in Tab, RecoverFirst(i) PROVE LabInv'
<1>1. /\ UNCHANGED <<chainVars, stored, lock>>
      /\ stored # NoSig /\ page[i].pc = "check"
  BY ThisTab, RecoverFirstEffect
<1>2. PICK pg \in Page, cs \in Calls, k \in Recovery, c \in Call :
         /\ Becomes(i, pg, cs)
         /\ pg.pc = "recovering" /\ pg.pending = stored /\ pg.flow = "busy"
         /\ rec[i][k].pc = "idle"
         /\ cs = [rec[i] EXCEPT ![k] = c]
         /\ c.pc = "status" /\ c.sig = stored /\ c.inline = TRUE
  BY ThisTab, RecoverFirstEffect, Zenon
<1>3. \A l \in Recovery : cs[l] = IF l = k THEN c ELSE rec[i][l]
  BY <1>2, ThisTab DEF Calls
<1>4. SoundPage(i, pg)
  BY <1>1, <1>2, ThisTab DEF SoundPage, Signed
<1>5. SoundCalls(pg, cs)
  BY <1>1, <1>2, <1>3, ThisTab DEF SoundCalls
<1>6. SoundTab(i, pg, cs)'
  BY <1>1, <1>4, <1>5 DEF SoundTab, SoundPage, SoundCalls, Succeeded, chainVars
<1>7. Others(i)
  BY <1>1 DEF Others
<1>. QED
  BY <1>2, <1>6, <1>7, TabStep

\* execute fails.
LEMMA FailStep ==
    ASSUME LabInv, NEW i \in Tab, FailUnsigned(i) \/ FailSigned(i)
    PROVE  LabInv'
<1>1. /\ page[i].pc \notin {"idle", "recovering"} /\ Abandon(i)
      /\ UNCHANGED <<chainVars, stored, rec>>
  BY DEF FailUnsigned, FailSigned
<1>2. PICK pg \in Page : /\ Becomes(i, pg, rec[i])
                         /\ pg.pc = "idle" /\ pg.flow = "error"
  BY <1>1, ThisTab, AbandonEffect
<1>3. lock = i /\ lock' = NoTab
  BY <1>1, ThisTab, AbandonEffect DEF SoundPage
<1>4. PICK cs \in Calls : cs = rec[i]
  BY ThisTab
<1>5. SoundTab(i, pg, cs)'
  BY <1>1, <1>2, <1>4, ThisTab
     DEF SoundTab, SoundPage, SoundCalls, Succeeded, chainVars, Signed
<1>6. Others(i)
  BY <1>1, <1>3 DEF Others
<1>. QED
  BY <1>2, <1>4, <1>5, <1>6, TabStep

\* The wallet signs.
LEMMA SignStep ==
    ASSUME LabInv, NEW i \in Tab, NEW t \in Sig, Sign(i, t)
    PROVE  LabInv'
<1>1. /\ page[i].pc = "sign" /\ tx[t].status = "unused" /\ stored' = t
      /\ UNCHANGED <<hist, lock>>
  BY ThisTab, SignEffect
<1>2. PICK new \in Tx : /\ tx' = [tx EXCEPT ![t] = new]
                        /\ new.kind \in Action
                        /\ new.by = Wallet /\ new.to = Wallet
                        /\ new.status = "signed"
  BY ThisTab, SignEffect
<1>3. PICK pg \in Page : /\ Becomes(i, pg, rec[i])
                         /\ pg.pc = "send" /\ pg.sig = t /\ pg.flow = "busy"
  BY ThisTab, SignEffect
<1>4. PICK cs \in Calls : cs = rec[i]
  BY ThisTab
<1>5. Others(i)
  BY <1>1, <1>2, ThisTab DEF Others, SoundPage
<1>6. \A u \in Sig : Succeeded(u) => Succeeded(u)'
  BY <1>5, OthersKeep
<1>7. tx'[t] = new
  BY <1>2 DEF LabInv, TypeOK
<1>8. SoundPage(i, pg)'
  BY <1>1, <1>2, <1>3, <1>7, ThisTab DEF SoundPage, Signed
<1>9. SoundCalls(pg, cs)'
  BY <1>1, <1>4, <1>6, ThisTab DEF SoundCalls, Succeeded
<1>. QED
  BY <1>3, <1>4, <1>5, <1>8, <1>9, TabStep DEF SoundTab

\* The node takes what was signed.
LEMMA SendStep == ASSUME LabInv, NEW i \in Tab, Send(i) PROVE LabInv'
<1>0. page[i].pc = "send"
  BY DEF Send
<1>1. PICK t \in Sig : t = page[i].sig /\ tx[t].status = "signed" /\ lock = i
  BY <1>0, ThisTab DEF SoundPage, Signed
<1>2. PICK new \in Tx : /\ tx' = [tx EXCEPT ![t] = new]
                        /\ new.kind = tx[t].kind /\ new.by = tx[t].by
                        /\ new.to = tx[t].to
                        /\ new.status = "sent"
  BY <1>1, ThisTab, SendEffect
<1>3. UNCHANGED <<hist, stored>>
  BY <1>1, ThisTab, SendEffect
<1>4. PICK pg \in Page :
         /\ Becomes(i, pg, rec[i])
         /\ \/ pg.pc = "sent" /\ SameShown(page[i], pg) /\ lock' = lock
            \/ pg.pc = "idle" /\ pg.flow = "error" /\ lock' = NoTab
  BY <1>1, ThisTab, SendEffect
<1>5. PICK cs \in Calls : cs = rec[i]
  BY ThisTab
<1>6. Others(i)
  BY <1>1, <1>2, <1>3, <1>4 DEF Others, LabInv, WalletPays
<1>7. \A u \in Sig : Succeeded(u) => Succeeded(u)'
  BY <1>6, OthersKeep
<1>8. SoundPage(i, pg)'
  BY <1>0, <1>1, <1>3, <1>4, <1>7, ThisTab DEF SoundPage, SameShown, Signed, Succeeded
<1>9. SoundCalls(pg, cs)'
  BY <1>0, <1>5, <1>7, ThisTab DEF SoundCalls, Succeeded
<1>. QED
  BY <1>4, <1>5, <1>6, <1>8, <1>9, TabStep DEF SoundTab

\* The evidence is written again.
LEMMA SaveBroadcastStep == ASSUME LabInv, NEW i \in Tab, SaveBroadcast(i) PROVE LabInv'
<1>1. /\ page[i].pc = "sent" /\ stored' = page[i].sig
      /\ UNCHANGED <<chainVars, lock>>
  BY ThisTab, SaveBroadcastEffect
<1>2. PICK pg \in Page : /\ Becomes(i, pg, rec[i])
                         /\ pg.pc = "confirm" /\ pg.sig = page[i].sig
                         /\ pg.flow = "busy"
  BY ThisTab, SaveBroadcastEffect
<1>3. page[i].sig \in Sig /\ lock = i
  BY <1>1, ThisTab DEF SoundPage, Signed
<1>4. PICK cs \in Calls : cs = rec[i]
  BY ThisTab
<1>5. SoundTab(i, pg, cs)'
  BY <1>1, <1>2, <1>3, <1>4, ThisTab
     DEF SoundTab, SoundPage, SoundCalls, Succeeded, chainVars, Signed
<1>6. Others(i)
  BY <1>1, <1>3 DEF Others
<1>. QED
  BY <1>2, <1>4, <1>5, <1>6, TabStep

\* execute succeeds.
LEMMA VerifyStep == ASSUME LabInv, NEW i \in Tab, Verify(i) PROVE LabInv'
<1>1. /\ page[i].pc = "verify" /\ stored' = NoSig /\ lock' = NoTab
      /\ UNCHANGED chainVars
  BY ThisTab, VerifyEffect
<1>2. PICK pg \in Page : /\ Becomes(i, pg, rec[i])
                         /\ pg.pc = "idle" /\ pg.shown = page[i].sig
  BY ThisTab, VerifyEffect
<1>3. page[i].sig \in Sig /\ Succeeded(page[i].sig) /\ lock = i
  BY <1>1, ThisTab DEF SoundPage, Signed
<1>4. PICK cs \in Calls : cs = rec[i]
  BY ThisTab
<1>5. SoundTab(i, pg, cs)'
  BY <1>1, <1>2, <1>3, <1>4, ThisTab
     DEF SoundTab, SoundPage, SoundCalls, Succeeded, chainVars, Signed
<1>6. Others(i)
  BY <1>1, <1>3 DEF Others
<1>. QED
  BY <1>2, <1>4, <1>5, <1>6, TabStep

\* The chain settles what was sent.
LEMMA SettleStep ==
    ASSUME LabInv, NEW t \in Sig, Settle(t), UNCHANGED labVars
    PROVE  LabInv'
<1>1. tx \in [Sig -> Tx] /\ hist \in Seq(Ledger) /\ Len(hist) > 0
  BY DEF LabInv, TypeOK
<1>2. tx[t].status = "sent"
  BY <1>1, SettleEffect
<1>3. PICK new \in Tx :
         /\ tx' = [tx EXCEPT ![t] = new]
         /\ new.kind = tx[t].kind /\ new.by = tx[t].by /\ new.to = tx[t].to
         /\ \/ /\ new.status = "ok"
               /\ Executable(Finalized, tx[t])
               /\ hist' = Append(hist, Execute(Finalized, tx[t]))
            \/ new.status \in {"failed", "expired"} /\ hist' = hist
  BY <1>1, SettleEffect
<1>4. \A u \in Sig : tx'[u] = IF u = t THEN new ELSE tx[u]
  BY <1>1, <1>3
<1>5. \A u \in Sig : Succeeded(u) => Succeeded(u)'
  BY <1>2, <1>4 DEF Succeeded
<1>6. hist' \in Seq(Ledger) /\ Len(hist') > 0
  <2>1. CASE hist' = hist
    BY <1>1, <2>1
  <2>2. CASE hist' # hist
    <3>1. PICK l \in Ledger : l = Finalized
      BY <1>1 DEF Finalized
    <3>2. Execute(l, tx[t]) \in Ledger
      BY <1>1, <1>3, <2>2, <3>1, ExecuteType
    <3>. QED
      BY <1>1, <1>3, <2>2, <3>1, <3>2, AppendFinalized
  <2>. QED
    BY <2>1, <2>2
<1>7. TypeOK'
  BY <1>1, <1>3, <1>6 DEF LabInv, TypeOK, labVars
<1>8. ASSUME NEW i \in Tab PROVE SoundTab(i, page[i], rec[i])'
  <2>1. PICK pg \in Page, cs \in Calls : pg = page[i] /\ cs = rec[i]
    BY ThisTab
  <2>2. SoundPage(i, pg) /\ SoundCalls(pg, cs)
    BY <2>1, ThisTab
  <2>3. SoundCalls(pg, cs)'
    BY <1>5, <2>2 DEF SoundCalls, Succeeded
  <2>4. pg.pc = "send" => tx'[pg.sig].status = "signed"
    BY <1>2, <1>4, <2>2 DEF SoundPage, Signed
  <2>5. SoundPage(i, pg)'
    BY <1>5, <2>2, <2>4 DEF SoundPage, Signed, Succeeded, labVars
  <2>. QED
    BY <2>1, <2>3, <2>5 DEF SoundTab, SoundPage, SoundCalls, labVars
<1>9. WalletPays'
  BY <1>2, <1>3, <1>4 DEF LabInv, WalletPays
<1>. QED
  BY <1>7, <1>8, <1>9 DEF LabInv

\* A page that has just been opened for the first time.
LEMMA LabInit == Init => LabInv
<1>. SUFFICES ASSUME Init PROVE LabInv
  OBVIOUS
<1>1. Escrow \in Holder /\ Operator \in Holder
  BY DEF Holder
<1>2. TypeOK
  <2>1. [owner |-> Escrow,
         tokens |-> [h \in Holder |-> IF h = Wallet THEN Supply ELSE 0]]
           \in Ledger
    BY <1>1, NumberAssumption DEF Ledger
  <2>. QED
    BY <2>1, BlankTypes DEF Init, TypeOK
<1>3. ASSUME NEW i \in Tab PROVE SoundTab(i, page[i], rec[i])
  <2>1. page[i] = Blank /\ \A k \in Recovery : rec[i][k] = NoCall
    BY DEF Init
  <2>. QED
    BY <2>1 DEF Blank, NoCall, SoundTab, SoundPage, SoundCalls, Signed
<1>4. WalletPays
  BY DEF Init, Unused, WalletPays
<1>. QED
  BY <1>2, <1>3, <1>4 DEF LabInv

\* Every step of a tab, and of the chain, keeps the invariant.
LEMMA LabNext == LabInv /\ [Next]_vars => LabInv'
<1>. SUFFICES ASSUME LabInv, [Next]_vars PROVE LabInv'
  OBVIOUS
<1>1. CASE UNCHANGED vars
  <2>1. UNCHANGED <<hist, tx, stored, lock, page, rec>>
    BY <1>1 DEF vars
  <2>. QED
    BY <2>1 DEF LabInv, TypeOK, SoundTab, SoundPage, SoundCalls, Succeeded, WalletPays
<1>2. ASSUME NEW i \in Tab, Run(i) PROVE LabInv'
  BY <1>2, AdvanceStep, RecoverFirstStep, SignStep, FailStep, SendStep,
     SaveBroadcastStep, VerifyStep DEF Run
<1>. QED
  BY <1>1, <1>2, SettleStep, ReloadStep, WalletChangeStep, ClickStep,
     CheckRecoveryStep, RecoverStep DEF Next

\* Hence it always holds.
LEMMA LabAlways == Spec => []LabInv
<1>. QED
  BY LabInit, LabNext, PTL DEF Spec

\* Every variable always has its type, for any number of tabs and of recovery
\* calls that overlap, and whatever the wallet does.
THEOREM LabTypeCorrect == Spec => []TypeOK
<1>1. LabInv => TypeOK
  BY DEF LabInv
<1>. QED
  BY <1>1, LabAlways, PTL

\* A page that reports success names a transaction that finalized without
\* error: recoverPending and execute look at the status before they say so, and
\* nothing they do later, in any tab, can undo it.
THEOREM ReportedSuccessIsFinal == Spec => []SuccessIsFinal
<1>1. LabInv => SuccessIsFinal
  BY DEF LabInv, SoundTab, SoundPage, SuccessIsFinal, Succeeded
<1>. QED
  BY <1>1, LabAlways, PTL

\* The evidence in localStorage is never overwritten by that of another
\* transaction: execute signs under the Web Lock, with nothing stored, and
\* nobody without the lock stores anything.
THEOREM EvidenceNotOverwritten == Spec => NoOverwrite
<1>1. LabInv /\ [Next]_vars
         => ((stored \in Sig /\ stored' \in Sig) => stored' = stored)
  <2>. SUFFICES ASSUME LabInv, [Next]_vars, stored \in Sig, stored' \in Sig,
                       stored' # stored
                PROVE  FALSE
    OBVIOUS
  <2>1. NoSig \notin Sig
    BY LabAssumption
  <2>2. ~ UNCHANGED vars
    BY DEF vars
  <2>3. ASSUME NEW i \in Tab, NEW t \in Sig, Sign(i, t) PROVE FALSE
    BY <2>1, <2>3, ThisTab DEF Sign, SoundPage
  <2>4. ASSUME NEW i \in Tab, SaveBroadcast(i) PROVE FALSE
    BY <2>1, <2>4, ThisTab DEF SaveBroadcast, SoundPage, Signed
  <2>5. ASSUME NEW i \in Tab, Run(i) PROVE FALSE
    BY <2>1, <2>3, <2>4, <2>5
       DEF Run, CheckStorage, RecoverFirst, Refresh, Prepare, FailUnsigned, Send,
           Confirm, Verify, FailSigned
  <2>6. ASSUME NEW i \in Tab, NEW k \in Recovery, Recover(i, k) PROVE FALSE
    BY <2>1, <2>6 DEF Recover, RecoverStatus, RecoverState, RecoverClear, RecoverInVain
  <2>7. ASSUME NEW i \in Tab,
               \/ Reload(i) \/ WalletChange(i) \/ ClickRefused(i)
               \/ \E a \in Action : Click(i, a)
               \/ \E k \in Recovery : CheckRecovery(i, k)
        PROVE  FALSE
    BY <2>7 DEF Reload, WalletChange, ClickRefused, Click, CheckRecovery
  <2>. QED
    BY <2>2, <2>5, <2>6, <2>7 DEF Next, labVars
<1>. QED
  BY <1>1, LabAlways, PTL DEF Spec, NoOverwrite

-----------------------------------------------------------------------------
(* The custody                                                             *)

\* When setup is complete the wallet has the whole supply, the escrow the asset.
LEMMA LabCustodyInit == Init => LedgerSound /\ Custody!ReserveInit
<1>. SUFFICES ASSUME Init PROVE LedgerSound /\ Custody!ReserveInit
  OBVIOUS
<1>1. Wallet \in Holder /\ Escrow \in Holder /\ Wallet # Escrow
  BY HolderAssumption, LabAssumption DEF Holder
<1>2. hist \in Seq(Ledger) /\ Len(hist) > 0
  BY LabInit DEF LabInv, TypeOK
<1>3. /\ Finalized.owner = Escrow
      /\ Finalized.tokens = [h \in Holder |-> IF h = Wallet THEN Supply ELSE 0]
  BY DEF Init, Finalized
<1>4. LedgerSound
  BY <1>1, <1>2, <1>3, SoleHolderConserved DEF LedgerSound
<1>5. Custody!ReserveInit
  BY <1>1, <1>3, NumberAssumption DEF Custody!ReserveInit
<1>. QED
  BY <1>4, <1>5

\* Only a finalized transaction of the wallet moves the custody.
LEMMA LabCustodyNext ==
    LabInv /\ LedgerSound /\ [Next]_vars
       => LedgerSound' /\ [Custody!ReserveNext]_(Custody!reserveVars)
<1>. SUFFICES ASSUME LabInv, LedgerSound, [Next]_vars
              PROVE  LedgerSound' /\ [Custody!ReserveNext]_(Custody!reserveVars)
  OBVIOUS
<1>1. ASSUME hist' = hist
      PROVE  LedgerSound' /\ [Custody!ReserveNext]_(Custody!reserveVars)
  BY <1>1, HistoryStays
<1>2. ASSUME NEW t \in Sig, Settle(t), hist' # hist
      PROVE  LedgerSound' /\ [Custody!ReserveNext]_(Custody!reserveVars)
  <2>1. tx \in [Sig -> Tx] /\ hist \in Seq(Ledger)
    BY DEF LabInv, TypeOK
  <2>2. /\ tx[t].status = "sent"
        /\ Executable(Finalized, tx[t])
        /\ hist' = Append(hist, Execute(Finalized, tx[t]))
    BY <1>2, <2>1, SettleEffect
  <2>3. tx[t] \in Tx /\ Payable(tx[t])
    BY <2>1, <2>2, HolderAssumption, LabAssumption
       DEF LabInv, WalletPays, Payable, Action
  <2>. QED
    BY <2>2, <2>3, ExecuteProjected
<1>3. ASSUME NEW i \in Tab, Run(i) PROVE hist' = hist
  BY <1>3 DEF Run, CheckStorage, RecoverFirst, Refresh, Prepare, Sign, FailUnsigned,
              Send, SaveBroadcast, Confirm, Verify, FailSigned, chainVars
<1>4. ASSUME NEW i \in Tab, NEW k \in Recovery, CheckRecovery(i, k) \/ Recover(i, k)
      PROVE  hist' = hist
  BY <1>4 DEF CheckRecovery, Recover, RecoverStatus, RecoverState, RecoverClear,
              RecoverInVain, chainVars
<1>5. ASSUME NEW i \in Tab,
             \/ Reload(i) \/ WalletChange(i) \/ ClickRefused(i)
             \/ \E a \in Action : Click(i, a)
      PROVE  hist' = hist
  BY <1>5 DEF Reload, WalletChange, ClickRefused, Click, chainVars
<1>6. UNCHANGED vars => hist' = hist
  BY DEF vars
<1>. QED
  BY <1>1, <1>2, <1>3, <1>4, <1>5, <1>6 DEF Next

\* Whatever a tester does in the browser, in any number of tabs, the finalized
\* chain implements the custody that math.ts projects: every transaction that
\* finalizes is one capture or one release, against its backing.
THEOREM LabCustody == Spec => Custody!ReserveSpec
<1>1. Spec => []LedgerSound
  BY LabCustodyInit, LabAlways, LabCustodyNext, PTL DEF Spec
<1>. QED
  BY <1>1, LabCustodyInit, LabAlways, LabCustodyNext, PTL
     DEF Spec, Custody!ReserveSpec

-----------------------------------------------------------------------------
(* One tab, and the wallet stays                                           *)

\* One page of the lab is open, and the wallet in the browser stays connected.
OnePage == ~ WalletMoves /\ \A i, j \in Tab : i = j

\* The page and the one call under way follow localStorage.
Following(pg, cs) ==
    /\ pg.pending = stored
    /\ pg.pc # "idle" => pg.flow = "busy"
    /\ pg.pc \in Signed => stored = pg.sig
    /\ \A k \in Recovery : cs[k].pc # "idle" =>
          /\ pg.flow = "busy" /\ pg.pc \in {"idle", "recovering"}
          /\ pg.pc = "recovering" => cs[k].inline
          /\ cs[k].sig = stored
          /\ \A l \in Recovery : cs[l].pc # "idle" => l = k

OnePageInv ==
    /\ LabInv
    /\ \A i \in Tab : Following(page[i], rec[i])
    /\ EvidenceRetained

\* The evidence, when no transaction is sent.
LEMMA RetainedStays ==
    ASSUME EvidenceRetained, UNCHANGED chainVars,
           \/ stored' = stored
           \/ stored' = NoSig /\ (stored \in Sig => Succeeded(stored))
    PROVE  EvidenceRetained'
<1>. QED
  BY DEF EvidenceRetained, Succeeded, chainVars

\* It is enough to say what the page becomes.
LEMMA PageStep ==
    ASSUME OnePage, OnePageInv, NEW i \in Tab, NEW pg \in Page, NEW cs \in Calls,
           Becomes(i, pg, cs), Following(pg, cs)', EvidenceRetained', LabInv'
    PROVE  OnePageInv'
<1>1. \A j \in Tab : page'[j] = pg /\ rec'[j] = cs
  BY DEF OnePage, OnePageInv, LabInv, TypeOK, Becomes
<1>. QED
  BY <1>1 DEF OnePageInv, Following

\* What is known of the page.
LEMMA ThisPage ==
    ASSUME OnePageInv, NEW i \in Tab
    PROVE  /\ LabInv /\ EvidenceRetained /\ Following(page[i], rec[i])
           /\ TypeOK /\ stored \in Sig \cup {NoSig}
           /\ page[i] \in Page /\ rec[i] \in Calls
           /\ SoundPage(i, page[i]) /\ SoundCalls(page[i], rec[i])
<1>. QED
  BY ThisTab DEF OnePageInv

\* A page load.
LEMMA ReloadFollows ==
    ASSUME OnePage, OnePageInv, NEW i \in Tab, Reload(i)
    PROVE  OnePageInv'
<1>1. PICK pg \in Page, cs \in Calls :
         /\ Becomes(i, pg, cs)
         /\ pg.pc = "idle" /\ pg.pending = stored
         /\ \A k \in Recovery : cs[k].pc # "idle" =>
               /\ pg.flow = "busy"
               /\ cs[k].sig = stored
               /\ \A l \in Recovery : cs[l].pc # "idle" => l = k
  BY ThisPage, ReloadEffect
<1>2. UNCHANGED <<chainVars, stored>>
  BY DEF Reload
<1>3. Following(pg, cs)'
  BY <1>1, <1>2 DEF Following, Signed
<1>4. EvidenceRetained'
  BY <1>2, ThisPage, RetainedStays
<1>. QED
  BY <1>1, <1>3, <1>4, ThisPage, ReloadStep, PageStep

\* The button CHECK RECOVERY: no call is under way, because the page is not busy.
LEMMA CheckRecoveryFollows ==
    ASSUME OnePage, OnePageInv, NEW i \in Tab, NEW k \in Recovery, CheckRecovery(i, k)
    PROVE  OnePageInv'
<1>1. PICK pg \in Page, cs \in Calls, c \in Call :
         /\ Becomes(i, pg, cs)
         /\ pg.pc = page[i].pc /\ pg.sig = page[i].sig
         /\ pg.pending = page[i].pending /\ pg.flow = "busy"
         /\ cs = [rec[i] EXCEPT ![k] = c]
         /\ c.pc = "status" /\ c.sig = page[i].pending /\ c.inline = FALSE
  BY ThisPage, CheckRecoveryEffect, Zenon
<1>2. UNCHANGED <<chainVars, stored, lock>> /\ page[i].flow # "busy"
  BY DEF CheckRecovery
<1>3. \A l \in Recovery : cs[l] = IF l = k THEN c ELSE rec[i][l]
  BY <1>1, ThisPage DEF Calls
<1>4. Following(pg, cs)
  BY <1>1, <1>2, <1>3, ThisPage DEF Following, Signed
<1>5. Following(pg, cs)'
  BY <1>2, <1>4 DEF Following
<1>6. EvidenceRetained'
  BY <1>2, ThisPage, RetainedStays
<1>. QED
  BY <1>1, <1>5, <1>6, ThisPage, CheckRecoveryStep, PageStep

\* A call removes the evidence it has checked, and no other.
LEMMA RecoverFollows ==
    ASSUME OnePage, OnePageInv, NEW i \in Tab, NEW k \in Recovery, Recover(i, k)
    PROVE  OnePageInv'
<1>0. rec[i][k].sig \in Sig \cup {NoSig} /\ rec[i][k] \in Call
  BY ThisPage DEF Calls, Call
<1>1. UNCHANGED chainVars
  BY <1>0, ThisPage, RecoverEffect
<1>2. ASSUME NEW cs \in Calls, NEW c \in Call,
             Becomes(i, page[i], cs), UNCHANGED <<stored, lock>>,
             cs = [rec[i] EXCEPT ![k] = c],
             c.sig = rec[i][k].sig, c.inline = rec[i][k].inline,
             rec[i][k].pc \in {"status", "state"}
      PROVE  OnePageInv'
  <2>1. PICK pg \in Page : pg = page[i]
    BY ThisPage
  <2>2. \A l \in Recovery : cs[l] = IF l = k THEN c ELSE rec[i][l]
    BY <1>2, ThisPage DEF Calls
  <2>3. Following(pg, cs)
    BY <1>2, <2>1, <2>2, ThisPage DEF Following
  <2>4. Following(pg, cs)'
    BY <1>2, <2>3 DEF Following
  <2>5. EvidenceRetained'
    BY <1>1, <1>2, ThisPage, RetainedStays
  <2>. QED
    BY <1>2, <2>1, <2>4, <2>5, ThisPage, RecoverStep, PageStep
<1>3. ASSUME NEW pg \in Page, NEW cs \in Calls, Becomes(i, pg, cs),
             rec[i][k].pc \in {"status", "state", "clear"},
             cs = [rec[i] EXCEPT ![k] = NoCall],
             pg.sig = page[i].sig,
             \/ rec[i][k].inline /\ pg.pc = "idle" /\ lock' = NoTab
             \/ ~ rec[i][k].inline /\ pg.pc = page[i].pc /\ lock' = lock,
             \/ rec[i][k].pc = "clear" /\ stored' = NoSig /\ pg.pending = NoSig
             \/ stored' = stored /\ pg.pending = page[i].pending
      PROVE  OnePageInv'
  <2>1. \A l \in Recovery : cs[l] = IF l = k THEN NoCall ELSE rec[i][l]
    BY <1>3, BlankTypes, ThisPage DEF Calls
  <2>2. /\ page[i].pc \in {"idle", "recovering"}
        /\ rec[i][k].sig = stored
        /\ \A l \in Recovery : rec[i][l].pc # "idle" => l = k
    BY <1>3, ThisPage DEF Following
  <2>3. NoCall.pc = "idle"
    BY DEF NoCall
  <2>4. \A l \in Recovery : cs[l].pc = "idle"
    BY <2>1, <2>2, <2>3
  <2>5. pg.pc = "idle"
    BY <1>3, <2>2, ThisPage DEF Following
  <2>6. pg.pending = stored'
    BY <1>3, ThisPage DEF Following
  <2>7. Following(pg, cs)'
    BY <2>4, <2>5, <2>6 DEF Following, Signed
  <2>8. stored' = NoSig /\ stored' # stored => Succeeded(stored)
    BY <1>3, <2>2, ThisPage DEF Following, SoundCalls
  <2>9. EvidenceRetained'
    BY <1>1, <1>3, <2>8, ThisPage, RetainedStays
  <2>. QED
    BY <1>3, <2>7, <2>9, ThisPage, RecoverStep, PageStep
<1>. QED
  BY <1>0, <1>2, <1>3, ThisPage, RecoverEffect

\* The button of an exchange: nothing is stored.
LEMMA ClickFollows ==
    ASSUME OnePage, OnePageInv, NEW i \in Tab,
           ClickRefused(i) \/ \E a \in Action : Click(i, a)
    PROVE  OnePageInv'
<1>1. PICK cs \in Calls : cs = rec[i]
  BY ThisPage
<1>2. CASE ClickRefused(i)
  <2>1. PICK pg \in Page : /\ Becomes(i, pg, rec[i])
                           /\ pg.pc = page[i].pc /\ pg.sig = page[i].sig
                           /\ pg.flow = "error" /\ pg.pending = page[i].pending
    BY <1>2, ThisPage, ClickRefusedEffect
  <2>2. UNCHANGED <<chainVars, stored, lock>> /\ page[i].flow # "busy"
    BY <1>2, ThisPage, ClickRefusedEffect
  <2>3. Following(pg, cs)'
    BY <1>1, <2>1, <2>2, ThisPage DEF Following, Signed
  <2>4. EvidenceRetained'
    BY <2>2, ThisPage, RetainedStays
  <2>. QED
    BY <1>1, <1>2, <2>1, <2>3, <2>4, ThisPage, ClickStep, PageStep
<1>3. ASSUME NEW a \in Action, Click(i, a) PROVE OnePageInv'
  <2>1. PICK pg \in Page : /\ Becomes(i, pg, rec[i])
                           /\ pg.pc = "check" /\ pg.flow = "busy"
                           /\ pg.pending = page[i].pending
    BY <1>3, ThisPage, ClickEffect
  <2>2. UNCHANGED <<chainVars, stored>> /\ page[i].flow # "busy"
    BY <1>3, ThisPage, ClickEffect
  <2>3. Following(pg, cs)'
    BY <1>1, <2>1, <2>2, ThisPage DEF Following, Signed
  <2>4. EvidenceRetained'
    BY <2>2, ThisPage, RetainedStays
  <2>. QED
    BY <1>1, <1>3, <2>1, <2>3, <2>4, ThisPage, ClickStep, PageStep
<1>. QED
  BY <1>2, <1>3

\* execute goes on.
LEMMA AdvanceFollows ==
    ASSUME OnePage, OnePageInv, NEW i \in Tab,
           CheckStorage(i) \/ Refresh(i) \/ Prepare(i) \/ Confirm(i)
    PROVE  OnePageInv'
<1>1. UNCHANGED <<chainVars, stored, lock>>
  BY ThisPage, AdvanceEffect
<1>2. PICK pg \in Page :
         /\ Becomes(i, pg, rec[i])
         /\ SameShown(page[i], pg)
         /\ \/ page[i].pc = "check" /\ stored = NoSig /\ pg.pc = "refresh"
            \/ page[i].pc = "refresh" /\ pg.pc = "prepare"
            \/ page[i].pc = "prepare" /\ pg.pc = "sign"
            \/ page[i].pc = "confirm" /\ pg.pc = "verify" /\ Succeeded(page[i].sig)
  BY ThisPage, AdvanceEffect
<1>3. PICK cs \in Calls : cs = rec[i]
  BY ThisPage
<1>4. Following(pg, cs)
  BY <1>2, <1>3, ThisPage DEF Following, SameShown, Signed
<1>5. Following(pg, cs)'
  BY <1>1, <1>4 DEF Following
<1>6. EvidenceRetained'
  BY <1>1, ThisPage, RetainedStays
<1>. QED
  BY <1>2, <1>3, <1>5, <1>6, ThisPage, AdvanceStep, PageStep

\* execute recovers first.
LEMMA RecoverFirstFollows ==
    ASSUME OnePage, OnePageInv, NEW i \in Tab, RecoverFirst(i)
    PROVE  OnePageInv'
<1>1. /\ UNCHANGED <<chainVars, stored, lock>>
      /\ stored # NoSig /\ page[i].pc = "check"
  BY ThisPage, RecoverFirstEffect
<1>2. PICK pg \in Page, cs \in Calls, k \in Recovery, c \in Call :
         /\ Becomes(i, pg, cs)
         /\ pg.pc = "recovering" /\ pg.pending = stored /\ pg.flow = "busy"
         /\ rec[i][k].pc = "idle"
         /\ cs = [rec[i] EXCEPT ![k] = c]
         /\ c.pc = "status" /\ c.sig = stored /\ c.inline = TRUE
  BY ThisPage, RecoverFirstEffect, Zenon
<1>3. \A l \in Recovery : cs[l] = IF l = k THEN c ELSE rec[i][l]
  BY <1>2, ThisPage DEF Calls
<1>4. Following(pg, cs)
  BY <1>1, <1>2, <1>3, ThisPage DEF Following, Signed
<1>5. Following(pg, cs)'
  BY <1>1, <1>4 DEF Following
<1>6. EvidenceRetained'
  BY <1>1, ThisPage, RetainedStays
<1>. QED
  BY <1>2, <1>5, <1>6, ThisPage, RecoverFirstStep, PageStep

\* execute fails, and keeps what it has stored.
LEMMA FailFollows ==
    ASSUME OnePage, OnePageInv, NEW i \in Tab, FailUnsigned(i) \/ FailSigned(i)
    PROVE  OnePageInv'
<1>1. /\ page[i].pc \notin {"idle", "recovering"} /\ Abandon(i)
      /\ UNCHANGED <<chainVars, stored, rec>>
  BY DEF FailUnsigned, FailSigned
<1>2. PICK pg \in Page : /\ Becomes(i, pg, rec[i])
                         /\ pg.pc = "idle" /\ pg.flow = "error"
                         /\ pg.pending = page[i].pending
  BY <1>1, ThisPage, AbandonEffect
<1>3. PICK cs \in Calls : cs = rec[i]
  BY ThisPage
<1>4. Following(pg, cs)'
  BY <1>1, <1>2, <1>3, ThisPage DEF Following, Signed
<1>5. EvidenceRetained'
  BY <1>1, ThisPage, RetainedStays
<1>. QED
  BY <1>2, <1>3, <1>4, <1>5, ThisPage, FailStep, PageStep

\* The wallet signs: nothing was stored, so nothing else is open.
LEMMA SignFollows ==
    ASSUME OnePage, OnePageInv, NEW i \in Tab, NEW t \in Sig, Sign(i, t)
    PROVE  OnePageInv'
<1>1. page[i].pc = "sign" /\ stored' = t
  BY ThisPage, SignEffect
<1>2. PICK new \in Tx : tx' = [tx EXCEPT ![t] = new] /\ new.status = "signed"
  BY ThisPage, SignEffect
<1>3. PICK pg \in Page : /\ Becomes(i, pg, rec[i])
                         /\ pg.pc = "send" /\ pg.sig = t
                         /\ pg.pending = t /\ pg.flow = "busy"
  BY ThisPage, SignEffect
<1>4. PICK cs \in Calls : cs = rec[i]
  BY ThisPage
<1>5. Following(pg, cs)'
  BY <1>1, <1>3, <1>4, ThisPage DEF Following, Signed
<1>6. stored \notin Sig
  BY <1>1, LabAssumption, ThisPage DEF SoundPage
<1>7. EvidenceRetained'
  BY <1>2, <1>6, ThisPage DEF EvidenceRetained, TypeOK
<1>. QED
  BY <1>3, <1>4, <1>5, <1>7, ThisPage, SignStep, PageStep

\* What is sent is what is stored.
LEMMA SendFollows ==
    ASSUME OnePage, OnePageInv, NEW i \in Tab, Send(i)
    PROVE  OnePageInv'
<1>0. page[i].pc = "send"
  BY DEF Send
<1>1. PICK t \in Sig : t = page[i].sig /\ stored = t
  BY <1>0, ThisPage DEF SoundPage, Signed, Following
<1>2. PICK new \in Tx : tx' = [tx EXCEPT ![t] = new]
  BY <1>1, ThisPage, SendEffect
<1>3. stored' = stored
  BY <1>1, ThisPage, SendEffect
<1>4. PICK pg \in Page :
         /\ Becomes(i, pg, rec[i])
         /\ \/ pg.pc = "sent" /\ SameShown(page[i], pg)
            \/ /\ pg.pc = "idle" /\ pg.flow = "error"
               /\ pg.pending = page[i].pending
  BY <1>1, ThisPage, SendEffect
<1>5. PICK cs \in Calls : cs = rec[i]
  BY ThisPage
<1>6. Following(pg, cs)'
  BY <1>0, <1>3, <1>4, <1>5, ThisPage DEF Following, Signed, SameShown
<1>7. EvidenceRetained'
  BY <1>1, <1>2, <1>3, ThisPage DEF EvidenceRetained, TypeOK
<1>. QED
  BY <1>4, <1>5, <1>6, <1>7, ThisPage, SendStep, PageStep

\* The evidence is written again, as it was.
LEMMA SaveBroadcastFollows ==
    ASSUME OnePage, OnePageInv, NEW i \in Tab, SaveBroadcast(i)
    PROVE  OnePageInv'
<1>1. /\ page[i].pc = "sent" /\ stored' = page[i].sig
      /\ UNCHANGED <<chainVars, lock>>
  BY ThisPage, SaveBroadcastEffect
<1>2. PICK pg \in Page : /\ Becomes(i, pg, rec[i])
                         /\ pg.pc = "confirm" /\ pg.sig = page[i].sig
                         /\ pg.pending = page[i].sig /\ pg.flow = "busy"
  BY ThisPage, SaveBroadcastEffect
<1>3. PICK cs \in Calls : cs = rec[i]
  BY ThisPage
<1>4. stored' = stored
  BY <1>1, ThisPage DEF Following, Signed
<1>5. Following(pg, cs)'
  BY <1>1, <1>2, <1>3, <1>4, ThisPage DEF Following, Signed
<1>6. EvidenceRetained'
  BY <1>1, <1>4, ThisPage, RetainedStays
<1>. QED
  BY <1>2, <1>3, <1>5, <1>6, ThisPage, SaveBroadcastStep, PageStep

\* The evidence goes when its transaction has succeeded.
LEMMA VerifyFollows ==
    ASSUME OnePage, OnePageInv, NEW i \in Tab, Verify(i)
    PROVE  OnePageInv'
<1>1. page[i].pc = "verify" /\ stored' = NoSig /\ UNCHANGED chainVars
  BY ThisPage, VerifyEffect
<1>2. PICK pg \in Page : /\ Becomes(i, pg, rec[i])
                         /\ pg.pc = "idle" /\ pg.pending = NoSig
  BY ThisPage, VerifyEffect
<1>3. PICK cs \in Calls : cs = rec[i]
  BY ThisPage
<1>4. stored = page[i].sig /\ Succeeded(stored)
  BY <1>1, ThisPage DEF Following, Signed, SoundPage
<1>5. Following(pg, cs)'
  BY <1>1, <1>2, <1>3, ThisPage DEF Following, Signed
<1>6. EvidenceRetained'
  BY <1>1, <1>4, ThisPage, RetainedStays
<1>. QED
  BY <1>2, <1>3, <1>5, <1>6, ThisPage, VerifyStep, PageStep

\* The chain settles what is stored.
LEMMA SettleFollows ==
    ASSUME OnePageInv, NEW t \in Sig, Settle(t), UNCHANGED labVars
    PROVE  OnePageInv'
<1>1. LabInv /\ tx \in [Sig -> Tx] /\ hist \in Seq(Ledger)
  BY DEF OnePageInv, LabInv, TypeOK
<1>2. tx[t].status = "sent" /\ \E new \in Tx : tx' = [tx EXCEPT ![t] = new]
  BY <1>1, SettleEffect
<1>3. EvidenceRetained'
  BY <1>1, <1>2 DEF OnePageInv, EvidenceRetained, labVars
<1>4. \A i \in Tab : Following(page[i], rec[i])'
  BY DEF OnePageInv, Following, labVars
<1>. QED
  BY <1>1, <1>3, <1>4, SettleStep DEF OnePageInv

\* The lab has just been opened for the first time.
LEMMA OnePageInit == ASSUME ~ WalletMoves, Init PROVE OnePageInv
<1>1. \A i \in Tab : Following(page[i], rec[i])
  BY DEF Init, Following, Blank, NoCall, Signed
<1>2. EvidenceRetained
  BY DEF Init, EvidenceRetained, Unused
<1>. QED
  BY <1>1, <1>2, LabInit DEF OnePageInv

\* Every step keeps the invariant, with one page.
LEMMA OnePageNext == ASSUME OnePage, OnePageInv, [Next]_vars PROVE OnePageInv'
<1>1. CASE UNCHANGED vars
  <2>1. UNCHANGED <<hist, tx, stored, lock, page, rec>>
    BY <1>1 DEF vars
  <2>2. LabInv'
    BY <1>1, LabNext DEF OnePageInv
  <2>. QED
    BY <2>1, <2>2 DEF OnePageInv, Following, EvidenceRetained
<1>2. ASSUME NEW i \in Tab, Run(i) PROVE OnePageInv'
  BY <1>2, AdvanceFollows, RecoverFirstFollows, SignFollows, FailFollows,
     SendFollows, SaveBroadcastFollows, VerifyFollows DEF Run
<1>3. ASSUME NEW i \in Tab, WalletChange(i) PROVE FALSE
  BY <1>3 DEF WalletChange, OnePage
<1>. QED
  BY <1>1, <1>2, <1>3, SettleFollows, ReloadFollows, ClickFollows,
     CheckRecoveryFollows, RecoverFollows DEF Next

\* After a broadcast the lab stays locked until the reserve is reconciled: with
\* one page, and a wallet that stays, whatever was sent and is not known to
\* have succeeded is what localStorage holds, however often the page is loaded
\* and the evidence checked.
THEOREM EvidenceStays == OnePage => (Spec => []EvidenceRetained)
<1>1. ASSUME OnePage PROVE Spec => []EvidenceRetained
  <2>1. Init => OnePageInv
    BY <1>1, OnePageInit DEF OnePage
  <2>2. OnePageInv /\ [Next]_vars => OnePageInv'
    BY <1>1, OnePageNext
  <2>3. OnePageInv => EvidenceRetained
    BY DEF OnePageInv
  <2>. QED
    BY <2>1, <2>2, <2>3, PTL DEF Spec
<1>. QED
  BY <1>1

=============================================================================
