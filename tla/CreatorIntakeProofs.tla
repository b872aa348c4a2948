------------------------- MODULE CreatorIntakeProofs -------------------------
(***************************************************************************)
(* Proofs about CreatorIntake, for any mints and supplies, any sizes and   *)
(* any number of submissions and of checks in flight.                      *)
(*                                                                         *)
(* What makes a stored application sound is decided long before it is      *)
(* stored: a passed coin check and the figures it brought always change    *)
(* together, so they belong to one mint even when neither belongs to the   *)
(* mint that is being edited.  CoinIsVerified then ties them to the draft  *)
(* at the moment of SUBMIT, and the payload never changes afterwards.      *)
(***************************************************************************)
EXTENDS CreatorIntake, TLAPS

\* The figures of the draft are those of the mint whose check is shown as
\* passed, whatever mint the draft names now.
FiguresMatchCheck ==
    inspection.status = "PASSED" =>
        /\ inspection.mint \in Compatible
        /\ draft.supply = SupplyOf[inspection.mint]

PayloadsSound == \A a \in Attempt : sub[a].pc # "none" => Sound(sub[a].payload)

\* A row belongs to a submission that was made, 201 is answered only when
\* there is one, and an answer that arrives finds the page still waiting.
AnswersTrue ==
    \A a \in Attempt :
        /\ a \in rows => sub[a].pc # "none"
        /\ sub[a].answer = "CREATED" => a \in rows
        /\ sub[a].pc = "answered" => a \in listening

Inv ==
    /\ TypeOK
    /\ FiguresMatchCheck
    /\ PayloadsSound
    /\ AnswersTrue
    /\ SentIsStored

-----------------------------------------------------------------------------
(* The draft and its checks                                                *)

\* What the page does with the draft keeps the figures with their mint.
LEMMA DraftSteps ==
    ASSUME Inv,
           \/ \E n \in Size \cup {0} : EditSize(n) \/ ValidateAssetFolder(n)
           \/ \E m \in Mint \cup {NoMint} : EditMint(m)
           \/ InspectCoin
           \/ ResetDraft
           \/ Checks
    PROVE  /\ TypeOK' /\ FiguresMatchCheck'
           /\ UNCHANGED <<sub, listening, rows>>
           /\ ui' \in {ui, "idle"}
<1>. USE IntakeAssumption
     DEF Inv, TypeOK, Draft, Inspection, Package, SubmitState, FiguresMatchCheck
<1>1. CASE \E n \in Size \cup {0} : EditSize(n)
  BY <1>1 DEF EditSize
<1>2. CASE \E n \in Size \cup {0} : ValidateAssetFolder(n)
  BY <1>2 DEF ValidateAssetFolder
<1>3. CASE \E m \in Mint \cup {NoMint} : EditMint(m)
  BY <1>3 DEF EditMint, EmptyInspection
<1>4. CASE InspectCoin
  BY <1>4 DEF InspectCoin
<1>5. CASE ResetDraft
  BY <1>5 DEF ResetDraft, DefaultDraft, EmptyInspection, EmptyPackage
<1>6. CASE \E m \in Mint : InspectionPasses(m)
  BY <1>6 DEF InspectionPasses, Inspected
<1>7. CASE \E m \in Mint : InspectionFails(m)
  BY <1>7 DEF InspectionFails, Inspected
<1>8. CASE \E n \in Size : FolderRead(n)
  BY <1>8 DEF FolderRead
<1>9. CASE ModeKnown
  BY <1>9 DEF ModeKnown
<1>. QED
  BY <1>1, <1>2, <1>3, <1>4, <1>5, <1>6, <1>7, <1>8, <1>9 DEF Checks

\* Such a step touches no submission, and can only stop showing RECEIVED.
LEMMA DraftStepsInv ==
    ASSUME Inv, TypeOK', FiguresMatchCheck',
           UNCHANGED <<sub, listening, rows>>, ui' \in {ui, "idle"}
    PROVE  Inv'
<1>1. PayloadsSound'
  BY DEF Inv, PayloadsSound, Sound
<1>2. AnswersTrue'
  BY DEF Inv, AnswersTrue
<1>3. SentIsStored'
  BY DEF Inv, SentIsStored
<1>. QED
  BY <1>1, <1>2, <1>3 DEF Inv

-----------------------------------------------------------------------------
(* The submissions                                                         *)

\* The payload that SUBMIT takes is sound.
LEMMA SubmitSound ==
    ASSUME Inv, NEW a \in Attempt, Submit(a)
    PROVE  /\ sub'[a].pc = "signing" /\ sub'[a].answer = "NONE"
           /\ sub'[a] \in Submission
           /\ Sound(sub'[a].payload)
<1>. DEFINE load == [mint |-> draft.mint, supply |-> draft.supply,
                     size |-> draft.size, count |-> package.count]
<1>1. sub'[a] = [pc |-> "signing", answer |-> "NONE", payload |-> load]
  BY DEF Inv, TypeOK, Submit
<1>2. load \in Payload
  BY DEF Inv, TypeOK, Draft, Package, Payload
<1>3. Sound(load)
  BY IntakeAssumption
     DEF Inv, TypeOK, Draft, Submit, StepIsValid, CoinIsVerified, FormsValid,
         Backable, FiguresMatchCheck, Sound
<1>. QED
  BY <1>1, <1>2, <1>3 DEF Submission, Answer

\* SUBMIT preserves the invariant.
LEMMA SubmitStep ==
    ASSUME Inv, NEW a \in Attempt, Submit(a)
    PROVE  Inv'
<1>1. \A b \in Attempt : b # a => sub'[b] = sub[b]
  BY DEF Inv, TypeOK, Submit
<1>2. TypeOK'
  <2>1. sub' \in [Attempt -> Submission]
    BY <1>1, SubmitSound DEF Inv, TypeOK, Submit
  <2>. QED
    BY <2>1 DEF Inv, TypeOK, Submit, pageVars, SubmitState
<1>3. FiguresMatchCheck'
  BY DEF Inv, Submit, pageVars, FiguresMatchCheck
<1>4. PayloadsSound'
  BY <1>1, SubmitSound DEF Inv, PayloadsSound, Sound
<1>5. AnswersTrue'
  BY <1>1, SubmitSound DEF Inv, AnswersTrue, Submit
<1>6. SentIsStored'
  BY DEF Submit, SentIsStored
<1>. QED
  BY <1>2, <1>3, <1>4, <1>5, <1>6 DEF Inv

\* A submission may move on with its payload: what it takes to preserve the
\* invariant is that 201 comes with a row, and RECEIVED with 201.
LEMMA SubmissionMoves ==
    ASSUME Inv, NEW a \in Attempt, NEW new \in Submission,
           UNCHANGED <<pageVars, listening>>,
           sub' = [sub EXCEPT ![a] = new],
           sub[a].pc \notin {"none", "done"},
           new.payload = sub[a].payload,
           rows' \in {rows, rows \cup {a}},
           new.answer = "CREATED" => a \in rows',
           a \in rows' => new.pc # "none",
           new.pc = "answered" => a \in listening,
           ui' \in SubmitState,
           \/ ui' = ui
           \/ ui' # "sent"
           \/ new.pc = "done" /\ a \in listening \cap rows
    PROVE  Inv'
<1>1. sub' \in [Attempt -> Submission]
  BY DEF Inv, TypeOK
<1>2. \A b \in Attempt : sub'[b] = IF b = a THEN new ELSE sub[b]
  BY DEF Inv, TypeOK
<1>3. TypeOK'
  BY <1>1 DEF Inv, TypeOK, pageVars
<1>4. FiguresMatchCheck'
  BY DEF Inv, pageVars, FiguresMatchCheck
<1>5. PayloadsSound'
  <2>. SUFFICES ASSUME NEW b \in Attempt, sub'[b].pc # "none"
                PROVE  Sound(sub'[b].payload)
    BY DEF PayloadsSound, Sound
  <2>1. sub'[b].payload = sub[b].payload /\ sub[b].pc # "none"
    BY <1>2
  <2>. QED
    BY <2>1 DEF Inv, PayloadsSound
<1>6. AnswersTrue'
  BY <1>2 DEF Inv, AnswersTrue
<1>7. SentIsStored'
  <2>1. CASE new.pc = "done" /\ a \in listening \cap rows
    BY <1>2, <2>1 DEF SentIsStored
  <2>2. CASE ui' = "sent" /\ ui' = ui
    <3>1. PICK b \in listening \cap rows : sub[b].pc = "done"
      BY <2>2 DEF Inv, SentIsStored
    <3>2. b \in Attempt /\ b # a
      BY <3>1 DEF Inv, TypeOK
    <3>. QED
      BY <1>2, <3>1, <3>2 DEF SentIsStored
  <2>. QED
    BY <2>1, <2>2 DEF SentIsStored
<1>. QED
  BY <1>3, <1>4, <1>5, <1>6, <1>7 DEF Inv

\* Move changes the control state of a submission only.
LEMMA MoveEffect ==
    ASSUME Inv, NEW a \in Attempt, NEW from,
           NEW to \in {"token", "posted", "done"}, Move(a, from, to)
    PROVE  \E new \in Submission : /\ sub' = [sub EXCEPT ![a] = new]
                                   /\ new.pc = to
                                   /\ new.answer = sub[a].answer
                                   /\ new.payload = sub[a].payload
<1>1. PICK s \in Submission : s = sub[a]
  BY DEF Inv, TypeOK
<1>2. /\ [s EXCEPT !.pc = to] \in Submission
      /\ [s EXCEPT !.pc = to].pc = to
      /\ [s EXCEPT !.pc = to].answer = s.answer
      /\ [s EXCEPT !.pc = to].payload = s.payload
  BY DEF Submission
<1>3. sub' = [sub EXCEPT ![a] = [s EXCEPT !.pc = to]]
  BY <1>1, Zenon DEF Move
<1>. QED
  BY <1>1, <1>2, <1>3, Zenon

\* Reply also sets the answer.
LEMMA ReplyEffect ==
    ASSUME Inv, NEW a \in Attempt, NEW answer \in Answer, Reply(a, answer)
    PROVE  \E new \in Submission : /\ sub' = [sub EXCEPT ![a] = new]
                                   /\ new.pc \in {"answered", "done"}
                                   /\ new.pc = "answered" => a \in listening
                                   /\ new.answer = answer
                                   /\ new.payload = sub[a].payload
<1>1. PICK s \in Submission : s = sub[a]
  BY DEF Inv, TypeOK
<1>2. PICK to \in {"answered", "done"} :
         to = IF a \in listening THEN "answered" ELSE "done"
  OBVIOUS
<1>3. /\ [s EXCEPT !.pc = to, !.answer = answer] \in Submission
      /\ [s EXCEPT !.pc = to, !.answer = answer].pc = to
      /\ [s EXCEPT !.pc = to, !.answer = answer].answer = answer
      /\ [s EXCEPT !.pc = to, !.answer = answer].payload = s.payload
  BY DEF Submission
<1>4. sub' = [sub EXCEPT ![a] = [s EXCEPT !.pc = to, !.answer = answer]]
  BY <1>1, <1>2, Zenon DEF Reply
<1>. QED
  BY <1>1, <1>2, <1>3, <1>4, Zenon

\* Each step of a submission is such a move.
LEMMA ProceedStep ==
    ASSUME Inv, NEW a \in Attempt, Proceed(a)
    PROVE  Inv'
<1>. USE DEF SubmitState
<1>1. sub[a].answer = "CREATED" => a \in rows
  BY DEF Inv, AnswersTrue
<1>2. CASE SignProof(a)
  <2>1. PICK new \in Submission :
           /\ sub' = [sub EXCEPT ![a] = new]
           /\ new.pc = "token"
           /\ new.answer = sub[a].answer
           /\ new.payload = sub[a].payload
    BY <1>2, MoveEffect DEF SignProof
  <2>. QED
    BY <1>1, <1>2, <2>1, SubmissionMoves DEF SignProof, Move, Inv, TypeOK
<1>3. CASE Post(a)
  <2>1. PICK new \in Submission :
           /\ sub' = [sub EXCEPT ![a] = new]
           /\ new.pc = "posted"
           /\ new.answer = sub[a].answer
           /\ new.payload = sub[a].payload
    BY <1>3, MoveEffect DEF Post
  <2>. QED
    BY <1>1, <1>3, <2>1, SubmissionMoves DEF Post, Move, Inv, TypeOK
<1>4. ASSUME NEW from \in {"signing", "token", "answered"},
             NEW state \in SubmitState,
             Shown(a, from, state),
             state = "sent" => a \in listening \cap rows
      PROVE  Inv'
  <2>1. PICK new \in Submission :
           /\ sub' = [sub EXCEPT ![a] = new]
           /\ new.pc = "done"
           /\ new.answer = sub[a].answer
           /\ new.payload = sub[a].payload
    BY <1>4, MoveEffect DEF Shown
  <2>. QED
    BY <1>1, <1>4, <2>1, SubmissionMoves DEF Shown, Move
<1>5. CASE ProofDeclined(a) \/ NoIdentityToken(a)
  BY <1>4, <1>5 DEF ProofDeclined, NoIdentityToken
<1>6. CASE AnswerArrives(a)
  <2>1. /\ StateFor(sub[a].answer) \in SubmitState
        /\ StateFor(sub[a].answer) = "sent" => sub[a].answer = "CREATED"
    BY DEF StateFor
  <2>2. a \in listening
    BY <1>6 DEF Inv, AnswersTrue, AnswerArrives, Shown, Move
  <2>. QED
    BY <1>1, <1>4, <1>6, <2>1, <2>2 DEF AnswerArrives
<1>7. ASSUME NEW answer \in Answer,
             sub[a].pc = "posted", Reply(a, answer),
             rows' \in {rows, rows \cup {a}}, answer = "CREATED" => a \in rows',
             UNCHANGED <<pageVars, ui, listening>>
      PROVE  Inv'
  <2>1. PICK new \in Submission :
           /\ sub' = [sub EXCEPT ![a] = new]
           /\ new.pc \in {"answered", "done"}
           /\ new.pc = "answered" => a \in listening
           /\ new.answer = answer
           /\ new.payload = sub[a].payload
    BY <1>7, ReplyEffect
  <2>. QED
    BY <1>7, <2>1, SubmissionMoves DEF Inv, TypeOK
<1>8. CASE Refuse(a)
  BY <1>7, <1>8 DEF Refuse, Answer
<1>9. CASE Created(a)
  BY <1>7, <1>9 DEF Created, Accepted, Answer
<1>10. CASE PersistenceFailed(a)
  BY <1>7, <1>10 DEF PersistenceFailed, Accepted, Answer
<1>. QED
  BY <1>2, <1>3, <1>5, <1>6, <1>8, <1>9, <1>10 DEF Proceed

\* A submission nobody waits for any more, or whose page is gone, keeps what
\* the server made of it.
LEMMA AbandonedEffect ==
    ASSUME NEW s \in Submission
    PROVE  /\ Abandoned(s) \in Submission
           /\ Abandoned(s).payload = s.payload
           /\ Abandoned(s).answer = s.answer
           /\ Abandoned(s).pc = "none" <=> s.pc = "none"
           /\ Abandoned(s).pc # "answered"
           /\ s.pc = "done" => Abandoned(s).pc = "done"
<1>1. /\ [s EXCEPT !.pc = "done"] \in Submission
      /\ [s EXCEPT !.pc = "done"].payload = s.payload
      /\ [s EXCEPT !.pc = "done"].answer = s.answer
      /\ [s EXCEPT !.pc = "done"].pc = "done"
  BY DEF Submission
<1>2. CASE s.pc \in {"signing", "token", "answered"}
  BY <1>1, <1>2, Zenon DEF Abandoned
<1>3. CASE s.pc \notin {"signing", "token", "answered"}
  BY <1>3 DEF Abandoned
<1>. QED
  BY <1>2, <1>3

\* DeliveryFails preserves the invariant.
LEMMA DeliveryFailsStep ==
    ASSUME Inv, NEW a \in Attempt, DeliveryFails(a)
    PROVE  Inv'
<1>1. PICK s \in Submission : s = sub[a]
  BY DEF Inv, TypeOK
<1>2. sub' = [sub EXCEPT ![a] = Abandoned(s)]
  BY <1>1, Zenon DEF DeliveryFails
<1>3. \A b \in Attempt : sub'[b] = IF b = a THEN Abandoned(s) ELSE sub[b]
  BY <1>2 DEF Inv, TypeOK
<1>4. TypeOK'
  BY <1>2, AbandonedEffect DEF Inv, TypeOK, DeliveryFails, pageVars, SubmitState
<1>5. FiguresMatchCheck'
  BY DEF Inv, DeliveryFails, pageVars, FiguresMatchCheck
<1>6. PayloadsSound'
  <2>. SUFFICES ASSUME NEW b \in Attempt, sub'[b].pc # "none"
                PROVE  Sound(sub'[b].payload)
    BY DEF PayloadsSound, Sound
  <2>1. sub'[b].payload = sub[b].payload /\ sub[b].pc # "none"
    BY <1>1, <1>3, AbandonedEffect
  <2>. QED
    BY <2>1 DEF Inv, PayloadsSound
<1>7. AnswersTrue'
  BY <1>1, <1>3, AbandonedEffect DEF Inv, AnswersTrue, DeliveryFails
<1>8. SentIsStored'
  BY DEF DeliveryFails, SentIsStored
<1>. QED
  BY <1>4, <1>5, <1>6, <1>7, <1>8 DEF Inv

\* So does a reload, which starts with nothing checked and nothing shown.
LEMMA ReloadStep ==
    ASSUME Inv, Reload
    PROVE  Inv'
<1>1. \A a \in Attempt : sub[a] \in Submission /\ sub'[a] = Abandoned(sub[a])
  BY DEF Inv, TypeOK, Reload
<1>2. sub' \in [Attempt -> Submission]
  BY <1>1, AbandonedEffect DEF Reload
<1>3. TypeOK'
  BY <1>2, IntakeAssumption
     DEF Inv, TypeOK, Reload, Draft, DefaultDraft, Inspection, EmptyInspection,
         Package, EmptyPackage, SubmitState
<1>4. FiguresMatchCheck'
  BY DEF Reload, EmptyInspection, FiguresMatchCheck
<1>5. PayloadsSound'
  <2>. SUFFICES ASSUME NEW b \in Attempt, sub'[b].pc # "none"
                PROVE  Sound(sub'[b].payload)
    BY DEF PayloadsSound, Sound
  <2>1. sub'[b].payload = sub[b].payload /\ sub[b].pc # "none"
    BY <1>1, AbandonedEffect
  <2>. QED
    BY <2>1 DEF Inv, PayloadsSound
<1>6. AnswersTrue'
  BY <1>1, AbandonedEffect DEF Inv, AnswersTrue, Reload
<1>7. SentIsStored'
  BY DEF Reload, SentIsStored
<1>. QED
  BY <1>3, <1>4, <1>5, <1>6, <1>7 DEF Inv

-----------------------------------------------------------------------------
(* The theorems                                                            *)

\* The invariant holds when the console is first opened.
LEMMA InvInit == Init => Inv
<1>. SUFFICES ASSUME Init PROVE Inv
  OBVIOUS
<1>1. NoSubmission \in Submission
  BY DEF NoSubmission, Submission, Payload, Answer
<1>2. TypeOK
  BY <1>1, IntakeAssumption
     DEF Init, TypeOK, Draft, DefaultDraft, Inspection, EmptyInspection,
         Package, EmptyPackage, SubmitState
<1>3. FiguresMatchCheck /\ SentIsStored
  BY DEF Init, FiguresMatchCheck, EmptyInspection, SentIsStored
<1>4. PayloadsSound /\ AnswersTrue
  BY DEF Init, PayloadsSound, AnswersTrue, NoSubmission
<1>. QED
  BY <1>2, <1>3, <1>4 DEF Inv

\* Every step preserves it.
LEMMA InvNext == Inv /\ [Next]_vars => Inv'
<1>. SUFFICES ASSUME Inv, [Next]_vars PROVE Inv'
  OBVIOUS
<1>1. CASE \/ \E n \in Size \cup {0} : EditSize(n) \/ ValidateAssetFolder(n)
           \/ \E m \in Mint \cup {NoMint} : EditMint(m)
           \/ InspectCoin
           \/ ResetDraft
           \/ Checks
  BY <1>1, DraftSteps, DraftStepsInv
<1>2. CASE Export
  BY <1>2, DraftStepsInv
     DEF Export, pageVars, Inv, TypeOK, FiguresMatchCheck, SubmitState,
         PayloadsSound, AnswersTrue, SentIsStored, Sound
<1>3. CASE Reload
  BY <1>3, ReloadStep
<1>4. CASE \E a \in Attempt : Submit(a)
  BY <1>4, SubmitStep
<1>5. CASE \E a \in Attempt : Proceed(a)
  BY <1>5, ProceedStep
<1>6. CASE \E a \in Attempt : DeliveryFails(a)
  BY <1>6, DeliveryFailsStep
<1>7. CASE UNCHANGED vars
  BY <1>7, DraftStepsInv
     DEF vars, Inv, TypeOK, FiguresMatchCheck, PayloadsSound, AnswersTrue,
         SentIsStored, Sound
<1>. QED
  BY <1>1, <1>2, <1>3, <1>4, <1>5, <1>6, <1>7 DEF Next, Creator

\* Hence it always holds.
LEMMA InvAlways == Spec => []Inv
<1>. QED
  BY InvInit, InvNext, PTL DEF Spec

\* The draft, the checks and the submissions always have their types: a figure is the
\* supply of some mint and a submission carries a payload the page can have built.
THEOREM IntakeTypeCorrect == Spec => []TypeOK
<1>1. Inv => TypeOK
  BY DEF Inv
<1>. QED
  BY <1>1, InvAlways, PTL

\* Every application in the store pairs a compatible mint with its own figures
\* and with a reserve its supply can back, for any number of overlapping coin
\* checks, folder checks, reloads and submissions: submitApplication and the
\* route need no second look at the chain for that.
THEOREM StoredApplicationsSound == Spec => []StoredIsSound
<1>1. Inv => StoredIsSound
  BY DEF Inv, TypeOK, PayloadsSound, AnswersTrue, StoredIsSound
<1>. QED
  BY <1>1, InvAlways, PTL

\* The console shows RECEIVED only for what the store holds.
THEOREM ReceivedIsStored == Spec => []SentIsStored
<1>1. Inv => SentIsStored
  BY DEF Inv
<1>. QED
  BY <1>1, InvAlways, PTL

==============================================================================
