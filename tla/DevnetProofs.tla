----------------------------- MODULE DevnetProofs -----------------------------
(***************************************************************************)
(* What the two models of the chain's users rely on, for any holders, any  *)
(* backing and any supply: a transaction that executes turns a ledger into *)
(* a ledger, and backing tokens are neither made nor destroyed.            *)
(*                                                                         *)
(* The sum of the balances is the number of coins: a coin is a holder and  *)
(* a number below the holder's balance.  A payment is a bijection of the   *)
(* coins before it with the coins after it, so that no induction over the  *)
(* holders is needed, and they may be infinitely many.                     *)
(***************************************************************************)
EXTENDS Devnet, FiniteSetTheorems, TLAPS

-----------------------------------------------------------------------------
(* Ledgers                                                                 *)

\* A payment the payer can afford leaves every balance a natural number.
LEMMA MoveType ==
    ASSUME NEW f \in [Holder -> Nat], NEW x \in Holder, NEW y \in Holder,
           f[x] >= Backing
    PROVE  Move(f, x, y) \in [Holder -> Nat]
<1>. QED
  BY NumberAssumption DEF Move

\* A transaction that executes turns a ledger into a ledger: balances stay
\* natural numbers because execution requires the backing to be there.
LEMMA ExecuteType ==
    ASSUME NEW l \in Ledger, NEW t \in Tx, Executable(l, t)
    PROVE  Execute(l, t) \in Ledger
<1>1. \A f \in [Holder -> Nat], x, y \in Holder :
         f[x] >= Backing => Move(f, x, y) \in [Holder -> Nat]
  BY MoveType
<1>2. Escrow \in Holder
  BY DEF Holder
<1>3. CASE t.kind = "AWAKEN"
  BY <1>1, <1>2, <1>3 DEF Ledger, Tx, Executable, Execute
<1>4. CASE t.kind = "RELEASE"
  BY <1>1, <1>2, <1>4 DEF Ledger, Tx, Executable, Execute
<1>5. CASE t.kind = "ALLOCATE_TESTER"
  BY <1>1, <1>2, <1>5 DEF Ledger, Tx, Executable, Execute
<1>. QED
  BY <1>3, <1>4, <1>5 DEF Tx, Kind

\* The escrow signs nothing and is paid nothing but backings, and an allocation
\* pays somebody else.
Payable(t) ==
    /\ t.by # Escrow
    /\ t.to # Escrow
    /\ t.kind = "ALLOCATE_TESTER" => t.by # t.to

\* What a transaction does to the escrow's account and to the owner of the
\* asset: the backing follows the asset, the other way.
LEMMA ExecuteEffect ==
    ASSUME NEW l \in Ledger, NEW t \in Tx, Payable(t), Executable(l, t)
    PROVE  /\ t.kind = "AWAKEN" =>
                 /\ l.owner = Escrow
                 /\ Execute(l, t).owner = t.by
                 /\ Execute(l, t).tokens[Escrow] = l.tokens[Escrow] + Backing
           /\ t.kind = "RELEASE" =>
                 /\ l.owner = t.by
                 /\ Execute(l, t).owner = Escrow
                 /\ l.tokens[Escrow] >= Backing
                 /\ Execute(l, t).tokens[Escrow] = l.tokens[Escrow] - Backing
           /\ t.kind = "ALLOCATE_TESTER" =>
                 /\ Execute(l, t).owner = l.owner
                 /\ Execute(l, t).tokens[Escrow] = l.tokens[Escrow]
<1>1. Escrow \in Holder /\ t.by \in Holder /\ t.to \in Holder
  BY DEF Holder, Tx
<1>2. l.tokens \in [Holder -> Nat]
  BY DEF Ledger
<1>. QED
  BY <1>1, <1>2 DEF Payable, Executable, Execute, Move

\* A transaction is settled once: it succeeds and is executed, or it does
\* neither, and what it was signed for never changes.
LEMMA SettleEffect ==
    ASSUME tx \in [Sig -> Tx], hist \in Seq(Ledger), NEW t \in Sig, Settle(t)
    PROVE  /\ tx[t].status = "sent"
           /\ \E new \in Tx :
                 /\ tx' = [tx EXCEPT ![t] = new]
                 /\ new.kind = tx[t].kind
                 /\ new.by = tx[t].by
                 /\ new.to = tx[t].to
                 /\ \/ /\ new.status = "ok"
                       /\ Executable(Finalized, tx[t])
                       /\ hist' = Append(hist, Execute(Finalized, tx[t]))
                       /\ new.slot = Len(hist) + 1
                    \/ new.status \in {"failed", "expired"} /\ hist' = hist
<1>1. PICK old \in Tx : old = tx[t]
  OBVIOUS
<1>2. ASSUME NEW status \in Status, NEW n \in Nat
      PROVE  \E new \in Tx : /\ new = [old EXCEPT !.status = status, !.slot = n]
                             /\ new.kind = old.kind /\ new.by = old.by
                             /\ new.to = old.to
                             /\ new.status = status /\ new.slot = n
  <2>1. [old EXCEPT !.status = status, !.slot = n] \in Tx
    BY DEF Tx
  <2>2. /\ [old EXCEPT !.status = status, !.slot = n].kind = old.kind
        /\ [old EXCEPT !.status = status, !.slot = n].by = old.by
        /\ [old EXCEPT !.status = status, !.slot = n].to = old.to
        /\ [old EXCEPT !.status = status, !.slot = n].status = status
        /\ [old EXCEPT !.status = status, !.slot = n].slot = n
    BY DEF Tx
  <2>. QED
    BY <2>1, <2>2, Zenon
<1>3. CASE Finalize(t)
  <2>1. PICK n \in Nat : n = Len(hist) + 1
    OBVIOUS
  <2>2. PICK new \in Tx : /\ new = [old EXCEPT !.status = "ok", !.slot = n]
                          /\ new.kind = old.kind /\ new.by = old.by
                          /\ new.to = old.to
                          /\ new.status = "ok" /\ new.slot = n
    BY <1>2 DEF Status
  <2>3. tx' = [tx EXCEPT ![t] = new]
    BY <1>1, <1>3, <2>1, <2>2, Zenon DEF Finalize
  <2>. QED
    BY <1>1, <1>3, <2>1, <2>2, <2>3 DEF Finalize
<1>4. CASE FinalizeWithError(t)
  <2>1. PICK n \in Nat : n = Len(hist)
    OBVIOUS
  <2>2. PICK new \in Tx : /\ new = [old EXCEPT !.status = "failed", !.slot = n]
                          /\ new.kind = old.kind /\ new.by = old.by
                          /\ new.to = old.to
                          /\ new.status = "failed" /\ new.slot = n
    BY <1>2 DEF Status
  <2>3. tx' = [tx EXCEPT ![t] = new]
    BY <1>1, <1>4, <2>1, <2>2, Zenon DEF FinalizeWithError
  <2>. QED
    BY <1>1, <1>4, <2>2, <2>3 DEF FinalizeWithError
<1>5. CASE Expire(t)
  <2>1. PICK new \in Tx : new = [old EXCEPT !.status = "expired"]
    <3>1. [old EXCEPT !.status = "expired"] \in Tx
      BY DEF Tx, Status
    <3>. QED
      BY <3>1, Zenon
  <2>2. /\ new.kind = old.kind /\ new.by = old.by /\ new.to = old.to
        /\ new.status = "expired"
    BY <2>1 DEF Tx
  <2>3. tx' = [tx EXCEPT ![t] = new]
    BY <1>1, <1>5, <2>1, Zenon DEF Expire
  <2>. QED
    BY <1>1, <1>5, <2>2, <2>3 DEF Expire
<1>. QED
  BY <1>3, <1>4, <1>5 DEF Settle

-----------------------------------------------------------------------------
(* Coins                                                                   *)

\* The coins of the balances f, numbered per holder.
Coins(f) == {c \in Holder \X Nat : c[2] < f[c[1]]}

\* The balances f sum up to the supply.
Conserved(f) == IsFiniteSet(Coins(f)) /\ Cardinality(Coins(f)) = Supply

\* The coins of one holder.
LEMMA CoinsOfOne ==
    ASSUME NEW f \in [Holder -> Nat], NEW x \in Holder
    PROVE  /\ IsFiniteSet({x} \X (0 .. f[x] - 1))
           /\ Cardinality({x} \X (0 .. f[x] - 1)) = f[x]
           /\ {x} \X (0 .. f[x] - 1) \subseteq Coins(f)
<1>1. f[x] \in Nat
  OBVIOUS
<1>2. /\ IsFiniteSet(0 .. f[x] - 1)
      /\ Cardinality(0 .. f[x] - 1) = f[x]
  BY <1>1, FS_Interval
<1>3. IsFiniteSet({x}) /\ Cardinality({x}) = 1
  BY FS_Singleton
<1>4. /\ IsFiniteSet({x} \X (0 .. f[x] - 1))
      /\ Cardinality({x} \X (0 .. f[x] - 1)) = 1 * f[x]
  BY <1>2, <1>3, FS_Product
<1>5. {x} \X (0 .. f[x] - 1) \subseteq Coins(f)
  BY <1>1 DEF Coins
<1>. QED
  BY <1>1, <1>4, <1>5

\* When one holder has the whole supply, the supply is all there is.
LEMMA SoleHolderConserved ==
    ASSUME NEW x \in Holder
    PROVE  Conserved([h \in Holder |-> IF h = x THEN Supply ELSE 0])
<1>. DEFINE f == [h \in Holder |-> IF h = x THEN Supply ELSE 0]
<1>1. f \in [Holder -> Nat] /\ f[x] = Supply
  BY NumberAssumption
<1>2. \A h \in Holder : h # x => f[h] = 0
  OBVIOUS
<1>. HIDE DEF f
<1>3. Coins(f) = {x} \X (0 .. f[x] - 1)
  BY <1>1, <1>2, NumberAssumption DEF Coins
<1>. QED
  BY <1>1, <1>3, CoinsOfOne DEF Conserved, f

\* The coins of two holders are those of the one and those of the other.
LEMMA CoinsOfTwo ==
    ASSUME NEW f \in [Holder -> Nat],
           NEW x \in Holder, NEW y \in Holder, x # y
    PROVE  LET both == ({x} \X (0 .. f[x] - 1)) \cup ({y} \X (0 .. f[y] - 1))
           IN  /\ IsFiniteSet(both)
               /\ Cardinality(both) = f[x] + f[y]
               /\ both \subseteq Coins(f)
<1>. DEFINE X == {x} \X (0 .. f[x] - 1)
            Y == {y} \X (0 .. f[y] - 1)
<1>1. /\ IsFiniteSet(X) /\ Cardinality(X) = f[x] /\ X \subseteq Coins(f)
      /\ IsFiniteSet(Y) /\ Cardinality(Y) = f[y] /\ Y \subseteq Coins(f)
  BY CoinsOfOne
<1>2. X \cap Y = {}
  OBVIOUS
<1>. HIDE DEF X, Y
<1>3. Cardinality(X \cap Y) = 0
  BY <1>2, FS_EmptySet
<1>4. /\ IsFiniteSet(X \cup Y)
      /\ Cardinality(X \cup Y) = Cardinality(X) + Cardinality(Y) - Cardinality(X \cap Y)
  BY <1>1, FS_Union
<1>5. f[x] \in Nat /\ f[y] \in Nat
  OBVIOUS
<1>6. Cardinality(X \cup Y) = f[x] + f[y] /\ X \cup Y \subseteq Coins(f)
  BY <1>1, <1>3, <1>4, <1>5
<1>. QED
  BY <1>4, <1>6 DEF X, Y

\* Two holders together never have more than there is.
LEMMA TwoBalances ==
    ASSUME NEW f \in [Holder -> Nat], Conserved(f),
           NEW x \in Holder, NEW y \in Holder, x # y
    PROVE  f[x] + f[y] <= Supply
<1>1. PICK both \in SUBSET Coins(f) : Cardinality(both) = f[x] + f[y]
  BY CoinsOfTwo
<1>2. Cardinality(both) <= Cardinality(Coins(f))
  BY FS_Subset DEF Conserved
<1>. QED
  BY <1>1, <1>2 DEF Conserved

\* The balances setup leaves are balances, and the escrow's account is empty.
LEMMA SharedType ==
    ASSUME NEW own \in Backing .. Supply, NEW u \in Tester \cup {Operator}
    PROVE  Shared(own, u) \in [Holder -> Nat] /\ Shared(own, u)[Escrow] = 0
<1>1. own \in Nat /\ Supply - own \in Nat
  BY NumberAssumption
<1>. QED
  BY <1>1, HolderAssumption DEF Shared, Holder

\* They sum up to the supply.
LEMMA SharedConserved ==
    ASSUME NEW own \in Backing .. Supply, NEW u \in Tester \cup {Operator},
           u = Operator => own = Supply
    PROVE  Conserved(Shared(own, u))
<1>. DEFINE f == Shared(own, u)
<1>1. f \in [Holder -> Nat] /\ own \in Nat /\ Supply - own \in Nat
  BY SharedType, NumberAssumption
<1>2. Operator \in Holder /\ u \in Holder
  BY DEF Holder
<1>3. /\ f[Operator] = own
      /\ u # Operator => f[u] = Supply - own
      /\ \A h \in Holder \ {Operator, u} : f[h] = 0
  BY <1>2 DEF Shared
<1>. HIDE DEF f
<1>4. CASE u = Operator
  <2>1. Coins(f) = {Operator} \X (0 .. f[Operator] - 1)
    BY <1>1, <1>2, <1>3, <1>4 DEF Coins
  <2>2. Conserved(f)
    BY <1>1, <1>2, <1>3, <1>4, <2>1, CoinsOfOne DEF Conserved
  <2>. QED
    BY <2>2 DEF f
<1>5. CASE u # Operator
  <2>. DEFINE both == ({Operator} \X (0 .. f[Operator] - 1)) \cup ({u} \X (0 .. f[u] - 1))
  <2>1. /\ IsFiniteSet(both) /\ both \subseteq Coins(f)
        /\ Cardinality(both) = f[Operator] + f[u]
    BY <1>1, <1>2, <1>5, CoinsOfTwo
  <2>2. Coins(f) \subseteq both
    <3>1. \A h \in Holder, n \in Nat : n < f[h] => h \in {Operator, u} /\ n \in 0 .. f[h] - 1
      BY <1>1, <1>3
    <3>. QED
      BY <3>1 DEF Coins
  <2>. HIDE DEF both
  <2>3. Coins(f) = both
    BY <2>1, <2>2, Zenon
  <2>4. f[Operator] + f[u] = Supply
    BY <1>1, <1>3, <1>5, NumberAssumption
  <2>5. Conserved(f)
    BY <2>1, <2>3, <2>4 DEF Conserved
  <2>. QED
    BY <2>5 DEF f
<1>. QED
  BY <1>4, <1>5

\* A payment renumbers the coins that change hands: the payer's topmost
\* coins become the payee's topmost ones.
LEMMA MoveConserves ==
    ASSUME NEW f \in [Holder -> Nat], NEW x \in Holder, NEW y \in Holder,
           x # y, f[x] >= Backing, Conserved(f)
    PROVE  Conserved(Move(f, x, y))
<1>. DEFINE g == Move(f, x, y)
            Moved(c) == c[1] = x /\ c[2] >= f[x] - Backing
            Pay(c) == IF Moved(c) THEN <<y, f[y] + c[2] - (f[x] - Backing)>>
                      ELSE c
            pay == [c \in Coins(f) |-> Pay(c)]
<1>1. /\ g \in [Holder -> Nat]
      /\ g[x] = f[x] - Backing
      /\ g[y] = f[y] + Backing
      /\ \A h \in Holder \ {x, y} : g[h] = f[h]
  BY NumberAssumption, MoveType DEF Move
<1>2. /\ Backing \in Nat
      /\ \A c \in Holder \X Nat : c = <<c[1], c[2]>> /\ c[1] \in Holder /\ c[2] \in Nat
      /\ \A h \in Holder : f[h] \in Nat
  BY NumberAssumption
<1>. HIDE DEF g
<1>3. \A c \in Coins(f) : Pay(c) \in Coins(g)
  <2>. SUFFICES ASSUME NEW h \in Holder, NEW n \in Nat, n < f[h]
                PROVE  Pay(<<h, n>>) \in Coins(g)
    BY <1>2 DEF Coins
  <2>1. CASE h = x /\ n >= f[x] - Backing
    BY <1>1, <1>2, <2>1 DEF Coins
  <2>2. CASE ~ (h = x /\ n >= f[x] - Backing)
    <3>1. n < g[h]
      BY <1>1, <1>2, <2>2
    <3>. QED
      BY <2>2, <3>1 DEF Coins
  <2>. QED
    BY <2>1, <2>2
<1>4. ASSUME NEW c \in Coins(f), NEW d \in Coins(f), Pay(c) = Pay(d)
      PROVE  c = d
  <2>1. PICK h \in Holder, n \in Nat : c = <<h, n>> /\ n < f[h]
    BY DEF Coins
  <2>2. PICK k \in Holder, m \in Nat : d = <<k, m>> /\ m < f[k]
    BY DEF Coins
  <2>3. Pay(<<h, n>>) = Pay(<<k, m>>)
    BY <1>4, <2>1, <2>2
  <2>4. h = k /\ n = m
    BY <1>2, <2>1, <2>2, <2>3
  <2>. QED
    BY <2>1, <2>2, <2>4
<1>5. ASSUME NEW d \in Coins(g)
      PROVE  \E c \in Coins(f) : Pay(c) = d
  <2>. PICK h \in Holder, n \in Nat : d = <<h, n>> /\ n < g[h]
    BY DEF Coins
  <2>1. CASE h = y /\ n >= f[y]
    <3>. DEFINE m == n - f[y] + (f[x] - Backing)
    <3>1. m \in Nat /\ m < f[x] /\ m >= f[x] - Backing
      BY <1>1, <1>2, <2>1
    <3>2. <<x, m>> \in Coins(f)
      BY <3>1 DEF Coins
    <3>3. f[y] + m - (f[x] - Backing) = n
      BY <1>2
    <3>4. Pay(<<x, m>>) = <<h, n>>
      BY <2>1, <3>1, <3>3
    <3>. QED
      BY <3>2, <3>4
  <2>2. CASE ~ (h = y /\ n >= f[y])
    <3>1. n < f[h] /\ ~ Moved(<<h, n>>)
      BY <1>1, <1>2, <2>2
    <3>2. <<h, n>> \in Coins(f)
      BY <3>1 DEF Coins
    <3>. QED
      BY <3>1, <3>2
  <2>. QED
    BY <2>1, <2>2
<1>. HIDE DEF Pay
<1>6. pay \in [Coins(f) -> Coins(g)] /\ \A c \in Coins(f) : pay[c] = Pay(c)
  BY <1>3
<1>. HIDE DEF pay
<1>7. pay \in Bijection(Coins(f), Coins(g))
  BY <1>4, <1>5, <1>6 DEF Bijection, Injection, Surjection, IsInjective
<1>8. ExistsBijection(Coins(f), Coins(g))
  BY <1>7 DEF ExistsBijection
<1>9. IsFiniteSet(Coins(g)) /\ Cardinality(Coins(g)) = Cardinality(Coins(f))
  BY <1>8, FS_Bijection DEF Conserved
<1>. QED
  BY <1>9 DEF Conserved, g

\* A transaction moves coins, if it moves any, and makes or destroys none.
LEMMA ExecuteConserves ==
    ASSUME NEW l \in Ledger, NEW t \in Tx, Payable(t), Executable(l, t),
           Conserved(l.tokens)
    PROVE  Conserved(Execute(l, t).tokens)
<1>1. Escrow \in Holder /\ t.by \in Holder /\ t.to \in Holder
  BY DEF Holder, Tx
<1>2. l.tokens \in [Holder -> Nat]
  BY DEF Ledger
<1>3. \E x, y \in Holder :
         x # y /\ l.tokens[x] >= Backing
           /\ Execute(l, t).tokens = Move(l.tokens, x, y)
  BY <1>1 DEF Executable, Execute, Payable, Tx, Kind
<1>. QED
  BY <1>2, <1>3, MoveConserves

-----------------------------------------------------------------------------
(* The custody                                                             *)

\* The history and the newest ledger, as far as the custody needs them.
LedgerSound ==
    /\ hist \in Seq(Ledger)
    /\ Len(hist) > 0
    /\ Conserved(Finalized.tokens)

\* A new slot is the newest one.
LEMMA AppendFinalized ==
    ASSUME hist \in Seq(Ledger), NEW l \in Ledger, hist' = Append(hist, l)
    PROVE  Finalized' = l /\ hist' \in Seq(Ledger) /\ Len(hist') > 0
<1>. QED
  BY DEF Finalized

\* A transaction of a wallet that finalizes is one capture, one release, or
\* nothing at all to the custody.
LEMMA ExecuteProjected ==
    ASSUME LedgerSound, NEW t \in Tx, Payable(t),
           Executable(Finalized, t), hist' = Append(hist, Execute(Finalized, t))
    PROVE  LedgerSound' /\ [Custody!ReserveNext]_(Custody!reserveVars)
<1>1. PICK l \in Ledger : l = Finalized
  BY DEF LedgerSound, Finalized
<1>2. PICK m \in Ledger : m = Execute(l, t)
  BY <1>1, ExecuteType
<1>3. Finalized' = m /\ hist' \in Seq(Ledger) /\ Len(hist') > 0
  BY <1>1, <1>2, AppendFinalized DEF LedgerSound
<1>4. Conserved(m.tokens)
  BY <1>1, <1>2, ExecuteConserves DEF LedgerSound
<1>5. LedgerSound'
  BY <1>3, <1>4 DEF LedgerSound, Conserved, Coins
<1>6. l.tokens[Escrow] \in Nat
  BY DEF Ledger, Holder
<1>7. CASE t.kind = "AWAKEN"
  <2>1. /\ l.owner = Escrow /\ m.owner # Escrow
        /\ m.tokens[Escrow] = l.tokens[Escrow] + Backing
    BY <1>1, <1>2, <1>7, ExecuteEffect DEF Payable
  <2>2. Custody!ProjectCapture(1)
    BY <1>1, <1>3, <1>6, <2>1, NumberAssumption
       DEF Custody!ProjectCapture, Custody!Capturable
  <2>. QED
    BY <1>1, <1>5, <2>1, <2>2 DEF Custody!ReserveNext
<1>8. CASE t.kind = "RELEASE"
  <2>1. /\ l.owner # Escrow /\ m.owner = Escrow
        /\ l.tokens[Escrow] >= Backing
        /\ m.tokens[Escrow] = l.tokens[Escrow] - Backing
    BY <1>1, <1>2, <1>8, ExecuteEffect DEF Payable
  <2>2. Custody!ProjectRelease(1)
    BY <1>1, <1>3, <1>6, <2>1, NumberAssumption
       DEF Custody!ProjectRelease, Custody!Releasable
  <2>. QED
    BY <1>1, <1>5, <2>1, <2>2 DEF Custody!ReserveNext
<1>9. CASE t.kind = "ALLOCATE_TESTER"
  <2>1. m.owner = l.owner /\ m.tokens[Escrow] = l.tokens[Escrow]
    BY <1>1, <1>2, <1>9, ExecuteEffect
  <2>2. UNCHANGED Custody!reserveVars
    BY <1>1, <1>3, <2>1 DEF Custody!reserveVars
  <2>. QED
    BY <1>5, <2>2
<1>. QED
  BY <1>7, <1>8, <1>9 DEF Tx, Kind

\* Coins a wallet sends to the escrow are a donation.
LEMMA DonationProjected ==
    ASSUME LedgerSound, NEW u \in Holder, u # Escrow,
           Finalized.tokens[u] >= Backing,
           hist' = Append(hist, [Finalized EXCEPT !.tokens = Move(@, u, Escrow)])
    PROVE  LedgerSound' /\ [Custody!ReserveNext]_(Custody!reserveVars)
<1>1. PICK l \in Ledger : l = Finalized
  BY DEF LedgerSound, Finalized
<1>2. l.tokens \in [Holder -> Nat] /\ Escrow \in Holder
  BY DEF Ledger, Holder
<1>3. PICK f \in [Holder -> Nat] : f = Move(l.tokens, u, Escrow)
  BY <1>1, <1>2, MoveType
<1>4. PICK m \in Ledger : m = [l EXCEPT !.tokens = f]
  BY DEF Ledger
<1>5. m.owner = l.owner /\ m.tokens = f
  BY <1>4 DEF Ledger
<1>6. hist' = Append(hist, m)
  BY <1>1, <1>3, <1>4, Zenon
<1>7. Finalized' = m /\ hist' \in Seq(Ledger) /\ Len(hist') > 0
  BY <1>6, AppendFinalized DEF LedgerSound
<1>8. Conserved(f)
  BY <1>1, <1>2, <1>3, MoveConserves DEF LedgerSound
<1>9. LedgerSound'
  BY <1>5, <1>7, <1>8 DEF LedgerSound, Conserved, Coins
<1>10. f[Escrow] = l.tokens[Escrow] + Backing
  BY <1>2, <1>3, NumberAssumption DEF Move
<1>11. l.tokens[u] + l.tokens[Escrow] <= Supply
  BY <1>1, <1>2, TwoBalances DEF LedgerSound
<1>12. l.tokens[Escrow] \in Nat /\ l.tokens[u] \in Nat
  BY <1>2
<1>13. Custody!Donate(Backing)
  BY <1>1, <1>5, <1>7, <1>10, <1>11, <1>12, NumberAssumption DEF Custody!Donate
<1>. QED
  BY <1>9, <1>13, NumberAssumption DEF Custody!ReserveNext

\* A step that leaves the history alone leaves the custody alone.
LEMMA HistoryStays ==
    ASSUME UNCHANGED hist
    PROVE  /\ Finalized' = Finalized
           /\ UNCHANGED Custody!reserveVars
           /\ LedgerSound => LedgerSound'
<1>. QED
  BY DEF Finalized, LedgerSound, Conserved, Coins, Custody!reserveVars

=============================================================================
