------------------------- MODULE EditApprovalProofs -------------------------
(***************************************************************************)
(* EditApproval is well typed, the tools that look at their files again    *)
(* replace what was reviewed, and a prompt is visible, answered once, and  *)
(* approved by its button only after the review of a dangerous change, for *)
(* any number of calls, files and clicks.                                  *)
(***************************************************************************)
EXTENDS EditApproval, TLAPS

-----------------------------------------------------------------------------
(* Types *)

(* The initial state is well typed. *)
LEMMA InitType == Init => TypeOK
<1> SUFFICES ASSUME Init PROVE TypeOK
  OBVIOUS
<1>1. content \in [Files -> Contents]
  BY DEF Init, Contents
<1>2. plan \in [Calls -> [Files -> Contents \cup {Unread}]]
  BY DEF Init
<1>3. overwrote = plan
  BY DEF Init
<1>4. /\ kind \in [Calls -> AllKinds] /\ targets \in [Calls -> SUBSET Files]
      /\ phase \in [Calls -> Phases]
  BY DEF Init, AllKinds, ManyFiles, Phases
<1>5. inbox \in Seq(Messages)
  BY DEF Init
<1> QED BY <1>1, <1>2, <1>3, <1>4, <1>5 DEF Init, TypeOK

(* Answering prompts keeps the three variables it writes in their types. *)
LEMMA DecideType ==
  ASSUME TypeOK, NEW cs,
         NEW d \in {"approved", "rejected", "cancelled"},
         NEW why \in {"auto", "click", "batch", "lost", "closed", "stop"},
         Decide(cs, d, why)
  PROVE  /\ phase' \in [Calls -> Phases]
         /\ decision' \in [Calls -> {"none", "approved", "rejected", "cancelled"}]
         /\ basis' \in [Calls -> {"none", "auto", "click", "batch", "lost", "closed", "stop"}]
  BY DEF TypeOK, Decide, Answered, Phases, Ended

(* A tool call on its way to its prompt. *)
LEMMA AskType ==
  ASSUME TypeOK, NEW c \in Calls,
         \/ \E k \in Kinds, ts \in TargetSets : Begin(c, k, ts)
         \/ \E f \in Files : Read(c, f)
         \/ Confirm(c) \/ Register(c)
  PROVE  TypeOK'
<1> USE DEF promptVars, viewVars, fileVars, hostVars, callVars
<1>1. ASSUME NEW k \in Kinds, NEW ts \in TargetSets, Begin(c, k, ts) PROVE TypeOK'
  BY <1>1, ConstantsAssumption DEF TypeOK, Begin, TargetSets, Phases, Ended
<1>2. ASSUME NEW f \in Files, Read(c, f) PROVE TypeOK'
  <2>1. plan' \in [Calls -> [Files -> Contents \cup {Unread}]]
    <3>1. CASE UNCHANGED plan BY <3>1 DEF TypeOK
    <3>2. CASE plan' = [plan EXCEPT ![c][f] = content[f]] BY <3>2 DEF TypeOK
    <3> QED BY <1>2, <3>1, <3>2 DEF Read
  <2>2. phase' \in [Calls -> Phases]
    BY <1>2 DEF TypeOK, Read, Phases, Ended
  <2> QED BY <1>2, <2>1, <2>2 DEF TypeOK, Read
<1>3. CASE Confirm(c)
  BY <1>3 DEF TypeOK, Confirm, Phases, Ended
<1>4. CASE Register(c)
  BY <1>4 DEF TypeOK, Register, Phases, Ended
<1> QED BY <1>1, <1>2, <1>3, <1>4

(* The messages of the view have the type of messages. *)
LEMMA OfferedType == ASSUME TypeOK, NEW m \in Offered PROVE m \in Messages
<1>1. ASSUME NEW do \in {"apply", "reject", "applyAll", "rejectAll", "auto", "ask", "stop"},
             NEW cs \in SUBSET Calls
      PROVE  Message(do, cs) \in Messages
  BY DEF Message, Messages
<1>2. shown \subseteq Calls
  BY DEF TypeOK
<1> QED BY <1>1, <1>2 DEF Offered, Applicable

(* The user's clicks, and the prompts coming and going in the view. *)
LEMMA ViewType ==
  ASSUME TypeOK,
         \/ \E m \in Offered : Click(m)
         \/ \E c \in Calls : Review(c) \/ Deliver(c) \/ Hide(c) \/ CancelLost(c)
         \/ CloseView \/ OpenView
  PROVE  TypeOK'
<1> USE DEF promptVars, viewVars, fileVars, hostVars, callVars
<1>1. ASSUME NEW m \in Offered, Click(m) PROVE TypeOK'
  <2>1. m \in Messages BY OfferedType
  <2>2. inbox' \in Seq(Messages) BY <1>1, <2>1 DEF TypeOK, Click
  <2> QED BY <1>1, <2>2 DEF TypeOK, Click
<1>2. ASSUME NEW c \in Calls, Review(c) PROVE TypeOK'
  BY <1>2 DEF TypeOK, Review
<1>3. ASSUME NEW c \in Calls, Deliver(c) PROVE TypeOK'
  <2>1. post' \in [Calls -> {"sent", "lost", "settled"}] /\ shown' \subseteq Calls
    BY <1>3 DEF TypeOK, Deliver
  <2> QED BY <1>3, <2>1 DEF TypeOK, Deliver
<1>4. ASSUME NEW c \in Calls, Hide(c) PROVE TypeOK'
  BY <1>4 DEF TypeOK, Hide
<1>5. ASSUME NEW c \in Calls, CancelLost(c) PROVE TypeOK'
  <2>1. Decide({c}, "cancelled", "lost") BY <1>5 DEF CancelLost
  <2>2. post' \in [Calls -> {"sent", "lost", "settled"}] BY <1>5 DEF TypeOK, CancelLost
  <2> QED BY <1>5, <2>1, <2>2, DecideType DEF TypeOK, CancelLost
<1>6. CASE CloseView
  <2>1. Decide(Calls, "cancelled", "closed") BY <1>6 DEF CloseView
  <2>2. post' \in [Calls -> {"sent", "lost", "settled"}] BY <1>6 DEF TypeOK, CloseView
  <2>3. inbox' \in Seq(Messages) BY <1>6 DEF CloseView
  <2>4. /\ phase' \in [Calls -> Phases]
        /\ decision' \in [Calls -> {"none", "approved", "rejected", "cancelled"}]
        /\ basis' \in [Calls -> {"none", "auto", "click", "batch", "lost", "closed", "stop"}]
    BY <2>1, DecideType
  <2>5. /\ shown' \subseteq Calls /\ reviewed' \subseteq Calls
        /\ views' \in Nat /\ clicks' \in Nat
    <3>1. shown' = {} /\ reviewed' = {} BY <1>6, Zenon DEF CloseView
    <3>2. views' = views + 1 /\ clicks' = clicks BY <1>6, Zenon DEF CloseView
    <3>3. views \in Nat /\ clicks \in Nat BY Zenon DEF TypeOK
    <3> QED BY <3>1, <3>2, <3>3
  <2>7. viewOpen' \in BOOLEAN
    BY <1>6, Zenon DEF CloseView
  <2>6. UNCHANGED <<callVars, fileVars, hostVars>>
    BY <1>6 DEF CloseView
  <2> QED BY <2>2, <2>3, <2>4, <2>5, <2>6, <2>7 DEF TypeOK
<1>7. CASE OpenView
  BY <1>7 DEF TypeOK, OpenView, Pending, In
<1> QED BY <1>1, <1>2, <1>3, <1>4, <1>5, <1>6, <1>7

(* The host handles a message. *)
LEMMA HandleType == ASSUME TypeOK, Handle PROVE TypeOK'
<1> USE DEF promptVars, viewVars, fileVars, hostVars, callVars
<1>1. inbox' \in Seq(Messages)
  BY DEF TypeOK, Handle
<1>2. /\ mode' \in {"ask", "auto"} /\ stopped' \in BOOLEAN
  BY DEF TypeOK, Handle
<1>3. \/ \E cs : Decide(cs, "approved", "click") \/ Decide(cs, "rejected", "click")
      \/ Decide(Calls, "approved", "batch") \/ Decide(Calls, "rejected", "batch")
      \/ Decide(Calls, "approved", "auto") \/ Decide(Calls, "cancelled", "stop")
      \/ UNCHANGED <<phase, decision, basis>>
  BY Zenon DEF Handle
<1>4. /\ phase' \in [Calls -> Phases]
      /\ decision' \in [Calls -> {"none", "approved", "rejected", "cancelled"}]
      /\ basis' \in [Calls -> {"none", "auto", "click", "batch", "lost", "closed", "stop"}]
  BY <1>3, DecideType DEF TypeOK
<1> QED BY <1>1, <1>2, <1>4 DEF TypeOK, Handle

(* The change of a call keeps the files and the two histories typed. *)
LEMMA ChangeType ==
  ASSUME TypeOK, NEW c \in Calls, Change(c)
  PROVE  /\ content' \in [Files -> Contents]
         /\ overwrote' \in [Calls -> [Files -> Contents \cup {Unread}]]
         /\ raced' \subseteq Calls /\ changes' = changes
<1>1. Proposal(c) \in Contents
  BY DEF Proposal, Contents
<1>2. [f \in Files |-> IF f \in targets[c] THEN content[f] ELSE Unread]
        \in [Files -> Contents \cup {Unread}]
  BY DEF TypeOK
<1> QED BY <1>1, <1>2 DEF TypeOK, Change, Race, In

(* The tools after the decision. *)
LEMMA ToolType ==
  ASSUME TypeOK, NEW c \in Calls,
         \/ Refuse(c) \/ ApplyEdits(c) \/ ApplyRename(c) \/ Recheck(c)
         \/ Write(c) \/ DeleteFile(c) \/ Fail(c)
         \/ \E saved \in BOOLEAN : Save(c, saved)
  PROVE  TypeOK'
<1>1. UNCHANGED <<callVars, promptVars, viewVars, hostVars>>
  BY DEF Refuse, ApplyEdits, ApplyRename, Recheck, Write, DeleteFile, Fail, Save
<1>2. phase' \in [Calls -> Phases]
  BY DEF TypeOK, Refuse, ApplyEdits, ApplyRename, Recheck, Write, DeleteFile, Fail, Save,
         End, Phases, Ended
<1>3. Change(c) \/ UNCHANGED fileVars
  BY DEF Refuse, ApplyEdits, ApplyRename, Recheck, Write, DeleteFile, Fail, Save, End
<1>4. CASE Change(c)
  BY <1>1, <1>2, <1>4, ChangeType
     DEF TypeOK, callVars, promptVars, viewVars, hostVars
<1>5. CASE UNCHANGED fileVars
  BY <1>1, <1>2, <1>5 DEF TypeOK, callVars, promptVars, viewVars, hostVars, fileVars
<1> QED BY <1>3, <1>4, <1>5

(* A change from outside. *)
LEMMA UserChangeType ==
  ASSUME TypeOK, NEW f \in Files, NEW t \in Texts \cup {Absent}, UserChange(f, t)
  PROVE  TypeOK'
  BY DEF TypeOK, UserChange, Race, In, Contents,
         callVars, promptVars, viewVars, hostVars

(* The steps of the specification, grouped as the lemmas are. *)
LEMMA NextCases ==
  ASSUME Next
  PROVE  \/ \E c \in Calls :
              \/ \E k \in Kinds, ts \in TargetSets : Begin(c, k, ts)
              \/ \E f \in Files : Read(c, f)
              \/ Confirm(c) \/ Register(c)
         \/ \/ \E m \in Offered : Click(m)
            \/ \E c \in Calls : Review(c) \/ Deliver(c) \/ Hide(c) \/ CancelLost(c)
            \/ CloseView \/ OpenView
         \/ Handle
         \/ \E c \in Calls :
              \/ Refuse(c) \/ ApplyEdits(c) \/ ApplyRename(c) \/ Recheck(c)
              \/ Write(c) \/ DeleteFile(c) \/ Fail(c)
              \/ \E saved \in BOOLEAN : Save(c, saved)
         \/ \E f \in Files, t \in Texts \cup {Absent} : UserChange(f, t)
<1>1. ASSUME NEW c \in Calls, Step(c)
      PROVE  \/ \E f \in Files : Read(c, f)
             \/ Confirm(c) \/ Register(c)
             \/ CancelLost(c) \/ Deliver(c) \/ Hide(c)
             \/ Refuse(c) \/ ApplyEdits(c) \/ ApplyRename(c) \/ Recheck(c)
             \/ Write(c) \/ DeleteFile(c) \/ Fail(c)
             \/ \E saved \in BOOLEAN : Save(c, saved)
  BY <1>1, ConstantsAssumption, Zenon DEF Step
<1> QED BY <1>1, Zenon DEF Next, Agent, Host, User

(* Every step keeps the types. *)
LEMMA NextType == ASSUME TypeOK, [Next]_vars PROVE TypeOK'
<1>1. CASE Next
  BY <1>1, NextCases, AskType, ViewType, HandleType, ToolType, UserChangeType, Zenon
<1>2. CASE UNCHANGED vars
  BY <1>2 DEF TypeOK, vars, callVars, promptVars, viewVars, fileVars, hostVars
<1> QED BY <1>1, <1>2

(* Every variable keeps its type. *)
THEOREM TypeCorrect == Spec => []TypeOK
<1>1. Init => TypeOK BY InitType
<1>2. TypeOK /\ [Next]_vars => TypeOK' BY NextType
<1> QED BY <1>1, <1>2, PTL DEF Spec

-----------------------------------------------------------------------------
(* What was reviewed is what is replaced *)

(* A call between its second look and its write still finds what it planned *)
(* on, unless the history says that a change slipped in.                    *)
CheckedIsFresh == \A c \in Calls : phase[c] = "checked" /\ c \notin raced => Unchanged(c)

ReviewInv == TypeOK /\ CheckedIsFresh /\ ReviewedTextIsReplaced

(* No call has looked or written at the start. *)
LEMMA InitReview == Init => ReviewInv
<1> SUFFICES ASSUME Init PROVE ReviewInv
  OBVIOUS
<1>1. TypeOK BY InitType
<1>2. \A c \in Calls : phase[c] = "new" BY DEF Init
<1> QED BY <1>1, <1>2 DEF ReviewInv, CheckedIsFresh, ReviewedTextIsReplaced, Changed

(* A step that leaves the files alone, and the plans of the calls that look *)
(* again, can only break the invariant by moving a call to one of the       *)
(* phases it speaks of.                                                     *)
LEMMA QuietStep ==
  ASSUME ReviewInv, TypeOK', UNCHANGED <<content, overwrote, raced>>,
         \A c \in Calls :
           /\ phase[c] # "new" => kind'[c] = kind[c] /\ targets'[c] = targets[c]
           /\ phase'[c] # phase[c] =>
                phase'[c] \notin {"checked", "saving", "written", "unsaved"}
           /\ phase[c] # "reading" => plan'[c] = plan[c]
  PROVE  ReviewInv'
<1> SUFFICES ASSUME NEW c \in Calls
             PROVE  /\ phase'[c] = "checked" /\ c \notin raced' => Unchanged(c)'
                    /\ Changed(c)' /\ kind'[c] \in Rechecking /\ c \notin raced'
                       => \A f \in targets'[c] : overwrote'[c][f] = plan'[c][f]
  BY DEF ReviewInv, CheckedIsFresh, ReviewedTextIsReplaced
<1>1. CASE phase'[c] \in {"checked", "saving", "written", "unsaved"}
  <2>1. phase[c] = phase'[c] BY <1>1
  <2>2. /\ kind'[c] = kind[c] /\ targets'[c] = targets[c] /\ plan'[c] = plan[c]
    BY <1>1, <2>1
  <2> QED BY <2>1, <2>2
          DEF ReviewInv, CheckedIsFresh, ReviewedTextIsReplaced, Unchanged, Changed
<1>2. CASE phase'[c] \notin {"checked", "saving", "written", "unsaved"}
  BY <1>2 DEF Changed
<1> QED BY <1>1, <1>2

(* The steps that are quiet in that sense: asking, answering and the view. *)
LEMMA AskReview ==
  ASSUME ReviewInv, NEW c \in Calls,
         \/ \E k \in Kinds, ts \in TargetSets : Begin(c, k, ts)
         \/ \E f \in Files : Read(c, f)
         \/ Confirm(c) \/ Register(c)
  PROVE  ReviewInv'
<1>1. TypeOK' BY AskType DEF ReviewInv
<1>2. UNCHANGED <<content, overwrote, raced>>
  BY DEF Begin, Read, Confirm, Register, fileVars
<1>3. ASSUME NEW d \in Calls
      PROVE  /\ phase[d] # "new" => kind'[d] = kind[d] /\ targets'[d] = targets[d]
             /\ phase'[d] # phase[d] =>
                  phase'[d] \notin {"checked", "saving", "written", "unsaved"}
             /\ phase[d] # "reading" => plan'[d] = plan[d]
  BY DEF ReviewInv, TypeOK, Begin, Read, Confirm, Register, callVars
<1> QED BY <1>1, <1>2, <1>3, QuietStep

(* What happens in the view changes no file and no plan. *)
LEMMA ViewReview ==
  ASSUME ReviewInv,
         \/ \E m \in Offered : Click(m)
         \/ \E c \in Calls : Review(c) \/ Deliver(c) \/ Hide(c) \/ CancelLost(c)
         \/ CloseView \/ OpenView
         \/ Handle
  PROVE  ReviewInv'
<1>1. TypeOK' BY ViewType, HandleType, Zenon DEF ReviewInv
<1>2. UNCHANGED <<content, overwrote, raced, kind, targets, plan>>
  BY DEF Click, Review, Deliver, Hide, CancelLost, CloseView, OpenView, Handle, fileVars, callVars
<1>3. UNCHANGED phase \/ \E cs, d, why : Decide(cs, d, why)
  BY Zenon DEF Click, Review, Deliver, Hide, CancelLost, CloseView, OpenView, Handle
<1>4. ASSUME NEW c \in Calls, phase'[c] # phase[c] PROVE phase'[c] = "decided"
  BY <1>3, <1>4 DEF Decide
<1> QED BY <1>1, <1>2, <1>4, QuietStep

(* A tool that returns empty-handed, saves, or looks again. *)
LEMMA EndReview ==
  ASSUME ReviewInv, NEW c \in Calls,
         UNCHANGED <<fileVars, callVars>>, TypeOK',
         NEW how \in Phases, phase' = [phase EXCEPT ![c] = how],
         how = "checked" => Unchanged(c),
         how \in {"saving", "written", "unsaved"} => Changed(c)
  PROVE  ReviewInv'
<1>1. \A d \in Calls : phase'[d] = IF d = c THEN how ELSE phase[d]
  BY DEF ReviewInv, TypeOK
<1>2. UNCHANGED <<content, overwrote, raced, kind, targets, plan>>
  BY DEF fileVars, callVars
<1>3. CheckedIsFresh'
  BY <1>1, <1>2 DEF ReviewInv, CheckedIsFresh, Unchanged
<1>4. ReviewedTextIsReplaced'
  BY <1>1, <1>2 DEF ReviewInv, ReviewedTextIsReplaced, Changed
<1> QED BY <1>3, <1>4 DEF ReviewInv

(* A change of a file leaves every call that it does not race as it was. *)
LEMMA OthersFresh ==
  ASSUME ReviewInv, NEW d \in Calls, NEW fs,
         phase[d] = "checked", d \notin raced, targets[d] \cap fs = {},
         \A f \in Files \ fs : content'[f] = content[f],
         UNCHANGED <<plan, targets>>
  PROVE  Unchanged(d)'
<1>1. Unchanged(d) BY DEF ReviewInv, CheckedIsFresh
<1>2. \A f \in targets[d] : f \in Files \ fs BY DEF ReviewInv, TypeOK
<1> QED BY <1>1, <1>2 DEF Unchanged

(* A call changes its files: it found them as planned, or its tool never *)
(* looks again.                                                          *)
LEMMA ChangeReview ==
  ASSUME ReviewInv, NEW c \in Calls, Change(c), TypeOK',
         UNCHANGED callVars,
         NEW how \in {"saving", "written"}, phase' = [phase EXCEPT ![c] = how],
         kind[c] \in Rechecking /\ c \notin raced => Unchanged(c)
  PROVE  ReviewInv'
<1>1. \A d \in Calls : phase'[d] = IF d = c THEN how ELSE phase[d]
  BY DEF ReviewInv, TypeOK
<1>2. UNCHANGED <<kind, targets, plan>>
  BY DEF callVars
<1>3. raced \subseteq raced'
  BY DEF Change
<1>4. CheckedIsFresh'
  <2> SUFFICES ASSUME NEW d \in Calls, phase'[d] = "checked", d \notin raced'
               PROVE  Unchanged(d)'
    BY DEF CheckedIsFresh
  <2>1. d # c /\ phase[d] = "checked" BY <1>1
  <2>2. targets[d] \cap targets[c] = {} /\ d \notin raced
    BY <2>1, <1>3 DEF Change, Race, In
  <2>3. \A f \in Files \ targets[c] : content'[f] = content[f]
    BY DEF Change
  <2> QED BY <1>2, <2>1, <2>2, <2>3, OthersFresh
<1>5. ReviewedTextIsReplaced'
  <2> SUFFICES ASSUME NEW d \in Calls, Changed(d)', kind[d] \in Rechecking, d \notin raced',
                      NEW f \in targets[d]
               PROVE  overwrote'[d][f] = plan[d][f]
    BY <1>2 DEF ReviewedTextIsReplaced
  <2>1. d \notin raced BY <1>3
  <2>2. CASE d = c
    <3>1. overwrote'[c][f] = content[f]
      BY <2>2 DEF ReviewInv, TypeOK, Change
    <3>2. Unchanged(c)
      BY <2>1, <2>2
    <3> QED BY <2>2, <3>1, <3>2 DEF Unchanged
  <2>3. CASE d # c
    <3>1. overwrote'[d] = overwrote[d]
      BY <2>3 DEF ReviewInv, TypeOK, Change
    <3>2. Changed(d)
      BY <2>3, <1>1 DEF Changed
    <3> QED BY <3>1, <3>2, <2>1 DEF ReviewInv, ReviewedTextIsReplaced
  <2> QED BY <2>2, <2>3
<1> QED BY <1>4, <1>5 DEF ReviewInv

(* The tools after the decision, one by one. *)
LEMMA ToolReview ==
  ASSUME ReviewInv, NEW c \in Calls,
         \/ Refuse(c) \/ ApplyEdits(c) \/ ApplyRename(c) \/ Recheck(c)
         \/ Write(c) \/ DeleteFile(c) \/ Fail(c)
         \/ \E saved \in BOOLEAN : Save(c, saved)
  PROVE  ReviewInv'
<1>1. TypeOK' BY ToolType DEF ReviewInv
<1>2. UNCHANGED callVars
  BY DEF Refuse, ApplyEdits, ApplyRename, Recheck, Write, DeleteFile, Fail, Save
<1>3. CASE Refuse(c)
  BY <1>1, <1>2, <1>3, EndReview DEF Refuse, End, Phases, Ended
<1>4. CASE ApplyEdits(c)
  <2>1. CASE Unchanged(c)
    BY <1>1, <1>2, <1>4, <2>1, ChangeReview DEF ApplyEdits
  <2>2. CASE ~Unchanged(c)
    BY <1>1, <1>2, <1>4, <2>2, EndReview DEF ApplyEdits, End, Phases, Ended
  <2> QED BY <2>1, <2>2
<1>5. CASE ApplyRename(c)
  <2>1. kind[c] \notin Rechecking
    BY <1>5 DEF ApplyRename, Rechecking, Creating
  <2> QED BY <1>1, <1>2, <1>5, <2>1, ChangeReview DEF ApplyRename
<1>6. CASE Recheck(c)
  <2>1. CASE Unchanged(c)
    BY <1>1, <1>2, <1>6, <2>1, EndReview DEF Recheck, End, Phases
  <2>2. CASE ~Unchanged(c)
    BY <1>1, <1>2, <1>6, <2>2, EndReview DEF Recheck, End, Phases, Ended
  <2> QED BY <2>1, <2>2
<1>7. CASE Write(c)
  <2>1. c \notin raced => Unchanged(c)
    BY <1>7 DEF Write, ReviewInv, CheckedIsFresh
  <2> QED BY <1>1, <1>2, <1>7, <2>1, ChangeReview DEF Write
<1>8. CASE DeleteFile(c)
  <2>1. kind[c] \notin Rechecking
    BY <1>8 DEF DeleteFile, Rechecking, Creating
  <2> QED BY <1>1, <1>2, <1>8, <2>1, ChangeReview DEF DeleteFile
<1>9. CASE Fail(c)
  BY <1>1, <1>2, <1>9, EndReview DEF Fail, End, Phases, Ended
<1>10. ASSUME NEW saved \in BOOLEAN, Save(c, saved) PROVE ReviewInv'
  <2>1. Changed(c) BY <1>10 DEF Save, Changed
  <2>2. CASE saved
    BY <1>1, <1>2, <1>10, <2>1, <2>2, EndReview DEF Save, End, Phases, Ended
  <2>3. CASE ~saved
    BY <1>1, <1>2, <1>10, <2>1, <2>3, EndReview DEF Save, End, Phases, Ended
  <2> QED BY <2>2, <2>3
<1> QED BY <1>3, <1>4, <1>5, <1>6, <1>7, <1>8, <1>9, <1>10, Zenon

(* A change from outside races the calls that have looked again. *)
LEMMA UserChangeReview ==
  ASSUME ReviewInv, NEW f \in Files, NEW t \in Texts \cup {Absent}, UserChange(f, t)
  PROVE  ReviewInv'
<1>1. TypeOK' BY UserChangeType DEF ReviewInv
<1>2. UNCHANGED <<phase, kind, targets, plan, overwrote>> /\ raced \subseteq raced'
  BY DEF UserChange, callVars
<1>3. CheckedIsFresh'
  <2> SUFFICES ASSUME NEW d \in Calls, phase[d] = "checked", d \notin raced'
               PROVE  Unchanged(d)'
    BY <1>2 DEF CheckedIsFresh
  <2>1. targets[d] \cap {f} = {} /\ d \notin raced
    BY <1>2 DEF UserChange, Race, In
  <2>2. \A g \in Files \ {f} : content'[g] = content[g]
    BY DEF UserChange, ReviewInv, TypeOK
  <2> QED BY <1>2, <2>1, <2>2, OthersFresh
<1>4. ReviewedTextIsReplaced'
  BY <1>2 DEF ReviewInv, ReviewedTextIsReplaced, Changed
<1> QED BY <1>1, <1>3, <1>4 DEF ReviewInv

(* Every step keeps the invariant. *)
LEMMA NextReview == ASSUME ReviewInv, [Next]_vars PROVE ReviewInv'
<1>1. CASE Next
  BY <1>1, NextCases, AskReview, ViewReview, ToolReview, UserChangeReview, Zenon
<1>2. CASE UNCHANGED vars
  BY <1>2 DEF ReviewInv, TypeOK, CheckedIsFresh, ReviewedTextIsReplaced, Changed, Unchanged,
              vars, callVars, promptVars, viewVars, fileVars, hostVars
<1> QED BY <1>1, <1>2

(* However long the prompt was open, a tool that looks at its files again *)
(* replaces only the text its review showed.                              *)
THEOREM ReviewedIsReplaced == Spec => []ReviewedTextIsReplaced
<1>1. Init => ReviewInv BY InitReview
<1>2. ReviewInv /\ [Next]_vars => ReviewInv' BY NextReview
<1>3. ReviewInv => ReviewedTextIsReplaced BY DEF ReviewInv
<1> QED BY <1>1, <1>2, <1>3, PTL DEF Spec

-----------------------------------------------------------------------------
(* No prompt is invisible *)

PromptInv == TypeOK /\ NoInvisiblePrompt

(* A step that asks nothing new and leaves view and messages alone. *)
LEMMA NothingAsked ==
  ASSUME NoInvisiblePrompt,
         Pending' \subseteq Pending, UNCHANGED <<post, viewOpen, shown>>
  PROVE  NoInvisiblePrompt'
  BY DEF NoInvisiblePrompt

(* A new prompt is posted to the open view, or lost. *)
LEMMA AskVisible ==
  ASSUME PromptInv, NEW c \in Calls,
         \/ \E k \in Kinds, ts \in TargetSets : Begin(c, k, ts)
         \/ \E f \in Files : Read(c, f)
         \/ Confirm(c) \/ Register(c)
  PROVE  NoInvisiblePrompt'
<1> USE DEF viewVars
<1>1. CASE Pending' \subseteq Pending /\ UNCHANGED <<post, viewOpen, shown>>
  BY <1>1, NothingAsked DEF PromptInv
<1>2. CASE /\ phase' = [phase EXCEPT ![c] = "pending"]
           /\ post' = [post EXCEPT ![c] = IF viewOpen THEN "sent" ELSE "lost"]
           /\ UNCHANGED <<viewOpen, shown>>
  <2> SUFFICES ASSUME NEW d \in Pending'
               PROVE  \/ post'[d] = "lost"
                      \/ viewOpen /\ (post'[d] = "sent" \/ d \in shown)
    BY <1>2 DEF NoInvisiblePrompt
  <2>1. CASE d = c
    BY <1>2, <2>1 DEF PromptInv, TypeOK
  <2>2. CASE d # c
    <3>1. d \in Pending /\ post'[d] = post[d]
      BY <1>2, <2>2 DEF PromptInv, TypeOK, Pending, In
    <3> QED BY <3>1 DEF PromptInv, NoInvisiblePrompt
  <2> QED BY <2>1, <2>2
<1>3. ASSUME NEW k \in Kinds, NEW ts \in TargetSets, Begin(c, k, ts) PROVE NoInvisiblePrompt'
  BY <1>1, <1>3 DEF Begin, PromptInv, TypeOK, Pending, In, promptVars
<1>4. ASSUME NEW f \in Files, Read(c, f) PROVE NoInvisiblePrompt'
  BY <1>1, <1>4 DEF Read, PromptInv, TypeOK, Pending, In, promptVars
<1>5. CASE Confirm(c)
  <2>1. \/ kind[c] = "deleteFile" /\ mode = "ask"
        \/ /\ UNCHANGED post
           /\ \E p \in {"decided", "reviewing"} : phase' = [phase EXCEPT ![c] = p]
    BY <1>5 DEF Confirm, promptVars
  <2>2. CASE \E p \in {"decided", "reviewing"} : phase' = [phase EXCEPT ![c] = p]
    <3>1. UNCHANGED post
      <4>1. phase'[c] # "pending"
        BY <2>2 DEF PromptInv, TypeOK
      <4>2. CASE kind[c] = "deleteFile" /\ mode = "ask"
        <5>1. phase' = [phase EXCEPT ![c] = "pending"] \/ UNCHANGED post
          BY <1>5 DEF Confirm, promptVars
        <5> QED BY <4>1, <5>1 DEF PromptInv, TypeOK
      <4> QED BY <2>1, <4>2
    <3>2. Pending' \subseteq Pending BY <2>2 DEF PromptInv, TypeOK, Pending, In
    <3> QED BY <1>1, <1>5, <3>1, <3>2 DEF Confirm
  <2>3. CASE kind[c] = "deleteFile" /\ mode = "ask"
    BY <1>2, <1>5, <2>3 DEF Confirm
  <2> QED BY <2>1, <2>2, <2>3
<1>6. CASE Register(c)
  BY <1>2, <1>6 DEF Register
<1> QED BY <1>3, <1>4, <1>5, <1>6

(* Answering, delivering, hiding, closing and opening. *)
LEMMA ViewVisible ==
  ASSUME PromptInv,
         \/ \E m \in Offered : Click(m)
         \/ \E c \in Calls : Review(c) \/ Deliver(c) \/ Hide(c) \/ CancelLost(c)
         \/ CloseView \/ OpenView
         \/ Handle
  PROVE  NoInvisiblePrompt'
<1>1. ASSUME NEW cs, NEW d, NEW why, Decide(cs, d, why)
      PROVE  Pending' = Pending \ cs
  BY <1>1 DEF Decide, Answered, PromptInv, TypeOK, Pending, In
<1>2. ASSUME NEW m \in Offered, Click(m) PROVE NoInvisiblePrompt'
  BY <1>2, NothingAsked DEF Click, PromptInv, Pending, In, promptVars
<1>3. ASSUME NEW c \in Calls, Review(c) PROVE NoInvisiblePrompt'
  BY <1>3, NothingAsked DEF Review, PromptInv, Pending, In, promptVars
<1>4. ASSUME NEW c \in Calls, Deliver(c) PROVE NoInvisiblePrompt'
  <2>1. Pending' = Pending BY <1>4 DEF Deliver, Pending, In
  <2>2. \A d \in Calls \ {c} : post'[d] = post[d] BY <1>4 DEF Deliver, PromptInv, TypeOK
  <2>3. viewOpen' = viewOpen /\ shown \subseteq shown' BY <1>4 DEF Deliver
  <2>4. \/ post'[c] = "lost"
        \/ viewOpen /\ c \in shown'
    <3>1. \/ viewOpen /\ shown' = shown \cup {c}
          \/ post' = [post EXCEPT ![c] = "lost"]
      BY <1>4, Zenon DEF Deliver
    <3>2. shown' = shown \cup {c} => c \in shown'
      OBVIOUS
    <3>3. post' = [post EXCEPT ![c] = "lost"] => post'[c] = "lost"
      BY DEF PromptInv, TypeOK
    <3> QED BY <3>1, <3>2, <3>3, Zenon
  <2>5. Pending \subseteq Calls BY DEF Pending, In
  <2> QED BY <2>1, <2>2, <2>3, <2>4, <2>5 DEF PromptInv, NoInvisiblePrompt
<1>5. ASSUME NEW c \in Calls, Hide(c) PROVE NoInvisiblePrompt'
  <2>1. Pending' = Pending BY <1>5 DEF Hide, Pending, In
  <2>2. c \notin Pending BY <1>5 DEF Hide, Pending, In
  <2>3. UNCHANGED <<post, viewOpen>> /\ shown' = shown \ {c} BY <1>5 DEF Hide, promptVars
  <2> QED BY <2>1, <2>2, <2>3 DEF PromptInv, NoInvisiblePrompt
<1>6. ASSUME NEW c \in Calls, CancelLost(c) PROVE NoInvisiblePrompt'
  <2>1. Pending' = Pending \ {c} BY <1>1, <1>6 DEF CancelLost
  <2>2. \A d \in Calls \ {c} : post'[d] = post[d] BY <1>6 DEF CancelLost, PromptInv, TypeOK
  <2>3. UNCHANGED <<viewOpen, shown>> BY <1>6 DEF CancelLost, viewVars
  <2>4. Pending \subseteq Calls BY DEF Pending, In
  <2> QED BY <2>1, <2>2, <2>3, <2>4 DEF PromptInv, NoInvisiblePrompt
<1>7. CASE CloseView
  <2>1. Pending' = Pending \ Calls BY <1>1, <1>7 DEF CloseView
  <2>2. Pending \subseteq Calls BY DEF Pending, In
  <2> QED BY <2>1, <2>2 DEF NoInvisiblePrompt
<1>8. CASE OpenView
  <2>1. Pending' = Pending BY <1>8 DEF OpenView, Pending, In
  <2>2. shown' = Pending /\ viewOpen' BY <1>8 DEF OpenView
  <2> QED BY <2>1, <2>2 DEF NoInvisiblePrompt
<1>9. CASE Handle
  <2>1. UNCHANGED <<post, viewOpen, shown>> BY <1>9 DEF Handle
  <2>2. UNCHANGED phase \/ \E cs, d, why : Decide(cs, d, why)
    BY <1>9, Zenon DEF Handle
  <2>3. Pending' \subseteq Pending
    BY <1>1, <2>2 DEF Pending, In
  <2> QED BY <2>1, <2>3, NothingAsked DEF PromptInv
<1> QED BY <1>2, <1>3, <1>4, <1>5, <1>6, <1>7, <1>8, <1>9, Zenon

(* The tools and the files do not ask. *)
LEMMA ToolVisible ==
  ASSUME PromptInv,
         \/ \E c \in Calls :
              \/ Refuse(c) \/ ApplyEdits(c) \/ ApplyRename(c) \/ Recheck(c)
              \/ Write(c) \/ DeleteFile(c) \/ Fail(c)
              \/ \E saved \in BOOLEAN : Save(c, saved)
         \/ \E f \in Files, t \in Texts \cup {Absent} : UserChange(f, t)
  PROVE  NoInvisiblePrompt'
<1>1. UNCHANGED <<promptVars, viewVars>>
  BY DEF Refuse, ApplyEdits, ApplyRename, Recheck, Write, DeleteFile, Fail, Save, UserChange
<1>2. UNCHANGED phase \/ \E c \in Calls, p \in Phases \ {"pending"} : phase' = [phase EXCEPT ![c] = p]
  BY DEF Refuse, ApplyEdits, ApplyRename, Recheck, Write, DeleteFile, Fail, Save, UserChange,
         End, Phases, Ended
<1>3. Pending' \subseteq Pending
  BY <1>2 DEF PromptInv, TypeOK, Pending, In
<1> QED BY <1>1, <1>3, NothingAsked DEF PromptInv, promptVars, viewVars

(* Every step keeps the prompts visible. *)
LEMMA NextVisible == ASSUME PromptInv, [Next]_vars PROVE NoInvisiblePrompt'
<1>1. CASE Next
  BY <1>1, NextCases, AskVisible, ViewVisible, ToolVisible, Zenon
<1>2. CASE UNCHANGED vars
  <2>1. UNCHANGED <<phase, promptVars, viewVars>> BY <1>2 DEF vars
  <2>2. Pending' \subseteq Pending BY <2>1 DEF Pending, In
  <2> QED BY <2>1, <2>2, NothingAsked DEF PromptInv, promptVars, viewVars
<1> QED BY <1>1, <1>2

(* Every prompt the agent waits for can be answered in the open view, is on *)
(* its way there, or is about to be cancelled.                              *)
THEOREM PromptsVisible == Spec => []NoInvisiblePrompt
<1>1. Init => PromptInv
  <2>1. ASSUME Init PROVE Pending = {} BY <2>1 DEF Init, Pending, In
  <2> QED BY <2>1, InitType DEF PromptInv, NoInvisiblePrompt
<1>2. PromptInv /\ [Next]_vars => PromptInv'
  BY NextType, NextVisible DEF PromptInv
<1>3. PromptInv => NoInvisiblePrompt BY DEF PromptInv
<1> QED BY <1>1, <1>2, <1>3, PTL DEF Spec

-----------------------------------------------------------------------------
(* A prompt is answered once *)

(* A call that has not come to its prompt. *)
Unasked == {"new", "reading", "reviewing"}

(* A decided call never comes back to its prompt, and the one phase from    *)
(* which a file is changed without a look at the decision is reached only   *)
(* by calls that were approved.                                             *)
AnswersStand ==
  \A c \in Calls :
    /\ decision[c] # "none" => phase[c] \notin Unasked \cup {"pending"}
    /\ phase[c] = "checked" => decision[c] = "approved"

AnswerInv == TypeOK /\ AnswersStand

(* Answering prompts changes the phase and the decision of pending calls, *)
(* all to the same values.                                                *)
LEMMA DecideEffect ==
  ASSUME NEW cs, NEW d, NEW why, Decide(cs, d, why), NEW c \in Calls
  PROVE  \/ /\ c \in cs /\ phase[c] = "pending" /\ phase'[c] = "decided"
            /\ decision'[c] = d /\ basis'[c] = why
         \/ /\ phase'[c] = phase[c]
            /\ decision'[c] = decision[c] /\ basis'[c] = basis[c]
  BY DEF Decide, Answered, Pending, In

(* Whatever happens in the view, the steps are answers or leave the calls *)
(* where they are.                                                        *)
LEMMA ViewDecides ==
  ASSUME \/ \E m \in Offered : Click(m)
         \/ \E c \in Calls : Review(c) \/ Deliver(c) \/ Hide(c) \/ CancelLost(c)
         \/ CloseView \/ OpenView
         \/ Handle
  PROVE  /\ UNCHANGED <<callVars, fileVars>>
         /\ \/ UNCHANGED <<phase, decision, basis>>
            \/ \E cs, why : \E d \in {"approved", "rejected", "cancelled"} :
                 Decide(cs, d, why)
<1>1. UNCHANGED <<callVars, fileVars>>
  BY DEF Click, Review, Deliver, Hide, CancelLost, CloseView, OpenView, Handle
<1>2. CASE Handle
  <2>1. LET m == Head(inbox) IN
        \/ Decide(m.calls, "approved", "click") \/ Decide(m.calls, "rejected", "click")
        \/ Decide(Calls, "approved", "batch") \/ Decide(Calls, "rejected", "batch")
        \/ Decide(Calls, "approved", "auto") \/ Decide(Calls, "cancelled", "stop")
        \/ UNCHANGED <<phase, decision, basis>>
    BY <1>2, Zenon DEF Handle
  <2> QED BY <1>1, <2>1, Zenon
<1>3. ASSUME NEW c \in Calls, CancelLost(c)
      PROVE  Decide({c}, "cancelled", "lost")
  BY <1>3 DEF CancelLost
<1>4. CASE CloseView
  BY <1>1, <1>4, Zenon DEF CloseView
<1>5. CASE \/ \E m \in Offered : Click(m)
           \/ \E c \in Calls : Review(c) \/ Deliver(c) \/ Hide(c)
           \/ OpenView
  <2>1. UNCHANGED <<phase, decision, basis>>
    BY <1>5 DEF Click, Review, Deliver, Hide, OpenView, promptVars
  <2> QED BY <1>1, <2>1
<1> QED BY <1>1, <1>2, <1>3, <1>4, <1>5, Zenon

(* What a step does to one call: it leaves it alone, brings it to its      *)
(* prompt, answers it, or lets its tool go on; only the last changes files, *)
(* and only for a call that was approved or had looked at its files again. *)
LEMMA CallSteps ==
  ASSUME TypeOK, [Next]_vars, NEW c \in Calls
  PROVE  \/ /\ phase[c] \in Unasked /\ phase'[c] # "new"
            /\ phase'[c] \in {"reading", "reviewing", "pending", "refused", "failed"}
            /\ UNCHANGED <<decision, basis, overwrote>>
         \/ /\ phase[c] = "reading" /\ phase'[c] = "decided"
            /\ decision'[c] = "approved" /\ basis'[c] = "auto"
            /\ UNCHANGED overwrote
         \/ /\ phase[c] = "pending" /\ phase'[c] = "decided" /\ decision'[c] # "none"
            /\ UNCHANGED overwrote
         \/ /\ phase[c] \in {"decided", "checked", "saving"}
            /\ phase'[c] \in {"checked", "saving"} \cup Ended
            /\ phase'[c] = "checked" => decision[c] = "approved"
            /\ overwrote'[c] # overwrote[c] => Approved(c) \/ phase[c] = "checked"
            /\ UNCHANGED <<decision, basis>>
         \/ /\ phase'[c] = phase[c] /\ decision'[c] = decision[c] /\ basis'[c] = basis[c]
            /\ overwrote'[c] = overwrote[c]
<1>1. ASSUME NEW b \in Calls,
             \/ \E k \in Kinds, ts \in TargetSets : Begin(b, k, ts)
             \/ \E f \in Files : Read(b, f)
             \/ Register(b)
      PROVE  /\ phase[b] \in Unasked
             /\ \E p \in {"reading", "reviewing", "pending", "refused", "failed"} :
                  phase' = [phase EXCEPT ![b] = p]
             /\ UNCHANGED <<decision, basis, overwrote>>
  <2>1. ASSUME NEW k \in Kinds, NEW ts \in TargetSets, Begin(b, k, ts)
        PROVE  /\ phase[b] = "new" /\ phase' = [phase EXCEPT ![b] = "reading"]
               /\ UNCHANGED <<decision, basis, overwrote>>
    BY <2>1 DEF Begin, promptVars, fileVars
  <2>2. ASSUME NEW f \in Files, Read(b, f)
        PROVE  /\ phase[b] = "reading"
               /\ \E p \in {"reading", "refused"} : phase' = [phase EXCEPT ![b] = p]
               /\ UNCHANGED <<decision, basis, overwrote>>
    BY <2>2 DEF Read, promptVars, fileVars, TypeOK
  <2>3. CASE Register(b)
    BY <2>3 DEF Register, fileVars, Unasked
  <2> QED BY <1>1, <2>1, <2>2, <2>3 DEF Unasked
<1>2. ASSUME NEW b \in Calls, Confirm(b)
      PROVE  \/ /\ phase[c] \in Unasked
                /\ phase'[c] \in {"reviewing", "pending"}
                /\ UNCHANGED <<decision, basis, overwrote>>
             \/ /\ phase[c] = "reading" /\ phase'[c] = "decided"
                /\ decision'[c] = "approved" /\ basis'[c] = "auto"
                /\ UNCHANGED overwrote
             \/ /\ phase'[c] = phase[c] /\ decision'[c] = decision[c] /\ basis'[c] = basis[c]
                /\ UNCHANGED overwrote
  BY <1>2 DEF Confirm, Unasked, TypeOK, promptVars, fileVars
<1>3. ASSUME \/ \/ \E m \in Offered : Click(m)
                \/ \E b \in Calls : Review(b) \/ Deliver(b) \/ Hide(b) \/ CancelLost(b)
                \/ CloseView \/ OpenView
             \/ Handle
      PROVE  /\ \/ /\ phase[c] = "pending" /\ phase'[c] = "decided" /\ decision'[c] # "none"
                \/ /\ phase'[c] = phase[c] /\ decision'[c] = decision[c] /\ basis'[c] = basis[c]
             /\ UNCHANGED overwrote
  <2>1. /\ UNCHANGED fileVars
        /\ \/ UNCHANGED <<phase, decision, basis>>
           \/ \E cs, why : \E d \in {"approved", "rejected", "cancelled"} :
                Decide(cs, d, why)
    BY <1>3, ViewDecides, Zenon
  <2>2. ASSUME NEW cs, NEW why, NEW d \in {"approved", "rejected", "cancelled"},
               Decide(cs, d, why)
        PROVE  \/ /\ phase[c] = "pending" /\ phase'[c] = "decided" /\ decision'[c] # "none"
               \/ /\ phase'[c] = phase[c] /\ decision'[c] = decision[c] /\ basis'[c] = basis[c]
    BY <2>2, DecideEffect
  <2> QED BY <2>1, <2>2 DEF fileVars
<1>4. ASSUME NEW b \in Calls,
             \/ Refuse(b) \/ ApplyEdits(b) \/ ApplyRename(b) \/ Recheck(b)
             \/ Write(b) \/ DeleteFile(b)
             \/ \E saved \in BOOLEAN : Save(b, saved)
      PROVE  /\ phase[b] \in {"decided", "checked", "saving"}
             /\ \E p \in {"checked", "saving"} \cup Ended :
                  /\ phase' = [phase EXCEPT ![b] = p]
                  /\ p = "checked" => decision[b] = "approved"
             /\ \/ UNCHANGED overwrote
                \/ Change(b) /\ (Approved(b) \/ phase[b] = "checked")
             /\ UNCHANGED <<decision, basis>>
  BY <1>4 DEF Refuse, ApplyEdits, ApplyRename, Recheck, Write, DeleteFile, Save, End, Ended,
              Approved, promptVars, fileVars
<1>5. ASSUME NEW b \in Calls, Fail(b)
      PROVE  /\ phase[b] \in {"reading", "reviewing", "decided", "checked"}
             /\ phase' = [phase EXCEPT ![b] = "failed"]
             /\ UNCHANGED <<decision, basis, overwrote>>
  BY <1>5 DEF Fail, End, Approved, promptVars, fileVars
<1>6. ASSUME NEW b \in Calls, Change(b), b # c PROVE overwrote'[c] = overwrote[c]
  BY <1>6 DEF Change, TypeOK
<1>7. ASSUME \E f \in Files, t \in Texts \cup {Absent} : UserChange(f, t)
      PROVE  UNCHANGED <<phase, decision, basis, overwrote>>
  BY <1>7 DEF UserChange, promptVars
<1>8. CASE UNCHANGED vars
  BY <1>8 DEF vars, promptVars, fileVars
<1>9. CASE \E b \in Calls :
             \/ \E k \in Kinds, ts \in TargetSets : Begin(b, k, ts)
             \/ \E f \in Files : Read(b, f)
             \/ Register(b)
  <2> PICK b \in Calls :
             \/ \E k \in Kinds, ts \in TargetSets : Begin(b, k, ts)
             \/ \E f \in Files : Read(b, f)
             \/ Register(b)
    BY <1>9
  <2>1. PICK p \in {"reading", "reviewing", "pending", "refused", "failed"} :
           phase' = [phase EXCEPT ![b] = p]
    BY <1>1
  <2>2. phase[b] \in Unasked /\ UNCHANGED <<decision, basis, overwrote>>
    BY <1>1
  <2>3. phase'[c] = IF b = c THEN p ELSE phase[c]
    BY <2>1 DEF TypeOK
  <2> QED BY <2>2, <2>3
<1>10. CASE \E b \in Calls :
             \/ Refuse(b) \/ ApplyEdits(b) \/ ApplyRename(b) \/ Recheck(b)
             \/ Write(b) \/ DeleteFile(b)
             \/ \E saved \in BOOLEAN : Save(b, saved)
  <2> PICK b \in Calls :
             \/ Refuse(b) \/ ApplyEdits(b) \/ ApplyRename(b) \/ Recheck(b)
             \/ Write(b) \/ DeleteFile(b)
             \/ \E saved \in BOOLEAN : Save(b, saved)
    BY <1>10
  <2>1. PICK p \in {"checked", "saving"} \cup Ended :
           /\ phase' = [phase EXCEPT ![b] = p]
           /\ p = "checked" => decision[b] = "approved"
    BY <1>4
  <2>2. /\ phase[b] \in {"decided", "checked", "saving"}
        /\ UNCHANGED <<decision, basis>>
        /\ \/ UNCHANGED overwrote
           \/ Change(b) /\ (Approved(b) \/ phase[b] = "checked")
    BY <1>4
  <2>3. phase'[c] = IF b = c THEN p ELSE phase[c]
    BY <2>1 DEF TypeOK
  <2>4. b # c => overwrote'[c] = overwrote[c]
    BY <2>2, <1>6
  <2>5. CASE b = c
    BY <2>1, <2>2, <2>3, <2>5
  <2>6. CASE b # c
    BY <2>2, <2>3, <2>4, <2>6
  <2> QED BY <2>5, <2>6
<1>11. CASE \E b \in Calls : Fail(b)
  <2> PICK b \in Calls : Fail(b) BY <1>11
  <2>1. phase'[c] = IF b = c THEN "failed" ELSE phase[c]
    BY <1>5 DEF TypeOK
  <2> QED BY <1>5, <2>1 DEF Unasked, Ended
<1>12. CASE \E b \in Calls : Confirm(b)
  BY <1>2, <1>12
<1>13. CASE Next
  <2>1. \/ \E b \in Calls :
             \/ \E k \in Kinds, ts \in TargetSets : Begin(b, k, ts)
             \/ \E f \in Files : Read(b, f)
             \/ Register(b)
        \/ \E b \in Calls : Confirm(b)
        \/ \/ \E m \in Offered : Click(m)
           \/ \E b \in Calls : Review(b) \/ Deliver(b) \/ Hide(b) \/ CancelLost(b)
           \/ CloseView \/ OpenView
        \/ Handle
        \/ \E b \in Calls :
             \/ Refuse(b) \/ ApplyEdits(b) \/ ApplyRename(b) \/ Recheck(b)
             \/ Write(b) \/ DeleteFile(b)
             \/ \E saved \in BOOLEAN : Save(b, saved)
        \/ \E b \in Calls : Fail(b)
        \/ \E f \in Files, t \in Texts \cup {Absent} : UserChange(f, t)
    BY <1>13, NextCases, Zenon
  <2>2. CASE \/ \/ \E m \in Offered : Click(m)
                \/ \E b \in Calls : Review(b) \/ Deliver(b) \/ Hide(b) \/ CancelLost(b)
                \/ CloseView \/ OpenView
             \/ Handle
    BY <1>3, <2>2
  <2>3. CASE \E f \in Files, t \in Texts \cup {Absent} : UserChange(f, t)
    BY <1>7, <2>3
  <2> QED BY <2>1, <2>2, <2>3, <1>9, <1>10, <1>11, <1>12, Zenon
<1> QED BY <1>8, <1>13

(* Every step keeps the answers. *)
LEMMA NextAnswers == ASSUME AnswerInv, [Next]_vars PROVE AnswerInv'
<1>1. TypeOK' BY NextType DEF AnswerInv
<1>2. ASSUME NEW c \in Calls
      PROVE  /\ decision'[c] # "none" => phase'[c] \notin Unasked \cup {"pending"}
             /\ phase'[c] = "checked" => decision'[c] = "approved"
  BY CallSteps DEF AnswerInv, AnswersStand, Unasked, Ended
<1> QED BY <1>1, <1>2 DEF AnswerInv, AnswersStand

(* A late click, a lost message and the end of the view do not overrule   *)
(* each other, and no file is changed without an approval.                *)
THEOREM AnsweredOnce == Spec => ApprovedOnce
<1>1. Init => AnswerInv
  BY InitType DEF Init, AnswerInv, AnswersStand, Unasked
<1>2. AnswerInv /\ [Next]_vars => AnswerInv'
  BY NextAnswers
<1>3. AnswerInv /\ [Next]_vars =>
        \A c \in Calls :
          /\ decision[c] # "none" =>
               /\ decision'[c] = decision[c] /\ basis'[c] = basis[c]
               /\ phase'[c] \notin {"reading", "reviewing", "pending"}
          /\ overwrote'[c] # overwrote[c] => decision[c] = "approved"
  BY CallSteps DEF AnswerInv, AnswersStand, Unasked, Ended, Approved
<1> QED BY <1>1, <1>2, <1>3, PTL DEF Spec, ApprovedOnce

-----------------------------------------------------------------------------
(* A dangerous change is approved by its button only after its review *)

(* What the view shows, and what is on its way there, has come to its       *)
(* prompt, so that its danger no longer changes; and an Apply that is on    *)
(* its way to the host, for a dangerous prompt that is still pending, is    *)
(* about a prompt the view still marks as reviewed.                         *)
ApplyInformed ==
  /\ \A c \in Calls : c \in shown \/ post[c] = "sent" => phase[c] \notin Unasked
  /\ \A i \in DOMAIN inbox : inbox[i].do = "apply" =>
       \A c \in inbox[i].calls :
         /\ phase[c] \notin Unasked
         /\ phase[c] = "pending" /\ Danger(c) => c \in reviewed

ButtonInv == TypeOK /\ ApplyInformed

(* Once a call has come to its prompt it stays past it, is not pending      *)
(* again, and what makes it dangerous no longer changes.                    *)
LEMMA AskedStays ==
  ASSUME TypeOK, [Next]_vars, NEW c \in Calls, phase[c] \notin Unasked
  PROVE  /\ phase'[c] \notin Unasked
         /\ phase'[c] = "pending" => phase[c] = "pending"
         /\ Danger(c)' = Danger(c)
<1>1. /\ phase'[c] \notin Unasked
      /\ phase'[c] = "pending" => phase[c] = "pending"
  BY CallSteps DEF Unasked, Ended
<1>2. /\ kind'[c] = kind[c] /\ targets'[c] = targets[c] /\ plan'[c] = plan[c]
  <2>1. ASSUME NEW b \in Calls, NEW k \in Kinds, NEW ts \in TargetSets, Begin(b, k, ts)
        PROVE  /\ kind'[c] = kind[c] /\ targets'[c] = targets[c] /\ plan'[c] = plan[c]
    BY <2>1 DEF Begin, TypeOK, Unasked
  <2>2. ASSUME NEW b \in Calls, NEW f \in Files, Read(b, f)
        PROVE  /\ kind'[c] = kind[c] /\ targets'[c] = targets[c] /\ plan'[c] = plan[c]
    BY <2>2 DEF Read, TypeOK, Unasked
  <2>3. ASSUME \E b \in Calls : Confirm(b) \/ Register(b)
        PROVE  UNCHANGED callVars
    BY <2>3 DEF Confirm, Register
  <2>4. ASSUME \/ \/ \E m \in Offered : Click(m)
                  \/ \E b \in Calls : Review(b) \/ Deliver(b) \/ Hide(b) \/ CancelLost(b)
                  \/ CloseView \/ OpenView
               \/ Handle
        PROVE  UNCHANGED callVars
    BY <2>4, ViewDecides, Zenon
  <2>5. ASSUME \/ \E b \in Calls :
                    \/ Refuse(b) \/ ApplyEdits(b) \/ ApplyRename(b) \/ Recheck(b)
                    \/ Write(b) \/ DeleteFile(b) \/ Fail(b)
                    \/ \E saved \in BOOLEAN : Save(b, saved)
               \/ \E f \in Files, t \in Texts \cup {Absent} : UserChange(f, t)
        PROVE  UNCHANGED callVars
    BY <2>5 DEF Refuse, ApplyEdits, ApplyRename, Recheck, Write, DeleteFile, Fail, Save,
                UserChange
  <2>6. CASE Next
    <3>1. \/ \E b \in Calls, k \in Kinds, ts \in TargetSets : Begin(b, k, ts)
          \/ \E b \in Calls, f \in Files : Read(b, f)
          \/ UNCHANGED callVars
      BY <2>3, <2>4, <2>5, <2>6, NextCases, Zenon
    <3> QED BY <2>1, <2>2, <3>1 DEF callVars
  <2>7. CASE UNCHANGED vars
    BY <2>7 DEF vars, callVars
  <2> QED BY <2>6, <2>7
<1> QED BY <1>1, <1>2 DEF Danger

(* A step that brings nothing new into the view and takes no mark from a   *)
(* prompt that is still pending only has to say where its messages come    *)
(* from: each was there before, or is an Apply of a reviewed prompt.       *)
LEMMA ButtonStep ==
  ASSUME ButtonInv, [Next]_vars,
         \A c \in Calls : (c \in shown' \/ post'[c] = "sent") =>
           \/ c \in shown \/ post[c] = "sent"
           \/ phase'[c] \notin Unasked,
         \A c \in reviewed \ reviewed' : phase'[c] # "pending" \/ inbox' = <<>>,
         \A i \in DOMAIN inbox' :
           \/ \E j \in DOMAIN inbox : inbox'[i] = inbox[j]
           \/ inbox'[i].do = "apply" =>
                \A c \in inbox'[i].calls :
                  c \in shown /\ (Danger(c) => c \in reviewed)
  PROVE  ButtonInv'
<1>1. TypeOK /\ TypeOK' BY NextType DEF ButtonInv
<1>2. ASSUME NEW c \in Calls, c \in shown' \/ post'[c] = "sent"
      PROVE  phase'[c] \notin Unasked
  BY <1>1, <1>2, AskedStays DEF ButtonInv, ApplyInformed
<1>3. ASSUME NEW i \in DOMAIN inbox', inbox'[i].do = "apply", NEW c \in inbox'[i].calls
      PROVE  /\ phase'[c] \notin Unasked
             /\ phase'[c] = "pending" /\ Danger(c)' => c \in reviewed'
  <2>1. c \in Calls
    <3>1. inbox' \in Seq(Messages) BY <1>1 DEF TypeOK
    <3>2. inbox'[i] \in Messages BY <1>3, <3>1
    <3> QED BY <1>3, <3>2 DEF Messages
  <2>2. /\ phase[c] \notin Unasked
        /\ phase[c] = "pending" /\ Danger(c) => c \in reviewed
    <3>1. CASE \E j \in DOMAIN inbox : inbox'[i] = inbox[j]
      BY <1>3, <3>1 DEF ButtonInv, ApplyInformed
    <3>2. CASE c \in shown /\ (Danger(c) => c \in reviewed)
      BY <2>1, <3>2 DEF ButtonInv, ApplyInformed
    <3> QED BY <1>3, <3>1, <3>2
  <2>3. /\ phase'[c] \notin Unasked
        /\ phase'[c] = "pending" => phase[c] = "pending"
        /\ Danger(c)' = Danger(c)
    BY <1>1, <2>1, <2>2, AskedStays
  <2>4. inbox' # <<>>
    BY <1>3
  <2> QED BY <2>2, <2>3, <2>4
<1> QED BY <1>1, <1>2, <1>3 DEF ButtonInv, ApplyInformed

(* The messages stay where they are. *)
LEMMA SameInbox ==
  ASSUME UNCHANGED inbox
  PROVE  \A i \in DOMAIN inbox' : \E j \in DOMAIN inbox : inbox'[i] = inbox[j]
  OBVIOUS

(* A tool call on its way to its prompt posts it when it gets there. *)
LEMMA AskButton ==
  ASSUME ButtonInv, Next, NEW c \in Calls,
         \/ \E k \in Kinds, ts \in TargetSets : Begin(c, k, ts)
         \/ \E f \in Files : Read(c, f)
         \/ Confirm(c) \/ Register(c)
  PROVE  ButtonInv'
<1>1. UNCHANGED viewVars
  BY DEF Begin, Read, Confirm, Register
<1>2. \/ UNCHANGED post
      \/ /\ phase' = [phase EXCEPT ![c] = "pending"]
         /\ post' = [post EXCEPT ![c] = IF viewOpen THEN "sent" ELSE "lost"]
  BY Zenon DEF Begin, Read, Confirm, Register, promptVars
<1>3. ASSUME NEW d \in Calls, post'[d] = "sent"
      PROVE  post[d] = "sent" \/ phase'[d] \notin Unasked
  BY <1>2, <1>3 DEF ButtonInv, TypeOK, Unasked
<1> QED BY <1>1, <1>3, SameInbox, ButtonStep DEF viewVars

(* The view: its clicks, its marks, and the prompts that come and go. *)
LEMMA ViewButton ==
  ASSUME ButtonInv, Next,
         \/ \E m \in Offered : Click(m)
         \/ \E c \in Calls : Review(c) \/ Deliver(c) \/ Hide(c) \/ CancelLost(c)
         \/ CloseView \/ OpenView
         \/ Handle
  PROVE  ButtonInv'
<1>1. ASSUME NEW m \in Offered, Click(m) PROVE ButtonInv'
  <2>1. UNCHANGED <<shown, reviewed, post>>
    BY <1>1 DEF Click, promptVars
  <2>2. m.do = "apply" => \A c \in m.calls : c \in shown /\ (Danger(c) => c \in reviewed)
    BY DEF Offered, Message, Applicable
  <2>3. ASSUME NEW i \in DOMAIN inbox'
        PROVE  inbox'[i] = m \/ \E j \in DOMAIN inbox : inbox'[i] = inbox[j]
    <3>1. inbox' = Append(inbox, m) /\ inbox \in Seq(Messages) /\ m \in Messages
      BY <1>1, OfferedType DEF Click, ButtonInv, TypeOK
    <3> QED BY <3>1
  <2> QED BY <2>1, <2>2, <2>3, ButtonStep
<1>2. ASSUME NEW c \in Calls, Review(c) PROVE ButtonInv'
  <2>1. UNCHANGED <<shown, post, inbox>> /\ reviewed \subseteq reviewed'
    BY <1>2 DEF Review, promptVars
  <2> QED BY <2>1, SameInbox, ButtonStep
<1>3. ASSUME NEW c \in Calls, Deliver(c) PROVE ButtonInv'
  <2>1. UNCHANGED <<reviewed, inbox>>
    BY <1>3 DEF Deliver
  <2>2. ASSUME NEW d \in Calls, d \in shown' \/ post'[d] = "sent"
        PROVE  d \in shown \/ post[d] = "sent"
    BY <1>3, <2>2 DEF Deliver, ButtonInv, TypeOK
  <2> QED BY <2>1, <2>2, SameInbox, ButtonStep
<1>4. ASSUME NEW c \in Calls, Hide(c) PROVE ButtonInv'
  <2>1. UNCHANGED <<post, inbox, phase>> /\ shown' = shown \ {c} /\ reviewed' = reviewed \ {c}
    BY <1>4 DEF Hide, promptVars
  <2>2. phase'[c] # "pending"
    BY <1>4, <2>1 DEF Hide
  <2> QED BY <2>1, <2>2, SameInbox, ButtonStep
<1>5. ASSUME NEW c \in Calls, CancelLost(c) PROVE ButtonInv'
  <2>1. UNCHANGED <<shown, reviewed, inbox>>
    BY <1>5 DEF CancelLost, viewVars
  <2>2. ASSUME NEW d \in Calls, post'[d] = "sent" PROVE post[d] = "sent"
    BY <1>5, <2>2 DEF CancelLost, ButtonInv, TypeOK
  <2> QED BY <2>1, <2>2, SameInbox, ButtonStep
<1>6. CASE CloseView
  <2>1. shown' = {} /\ inbox' = <<>>
    BY <1>6 DEF CloseView
  <2>2. ASSUME NEW d \in Calls PROVE post'[d] # "sent"
    BY <1>6 DEF CloseView
  <2>3. DOMAIN inbox' = {}
    BY <2>1
  <2> QED BY <2>1, <2>2, <2>3, ButtonStep
<1>7. CASE OpenView
  <2>1. UNCHANGED <<reviewed, post, inbox, phase>> /\ shown' = Pending
    BY <1>7 DEF OpenView, promptVars
  <2>2. ASSUME NEW d \in Pending PROVE phase'[d] \notin Unasked
    BY <2>1 DEF Pending, In, Unasked
  <2> QED BY <2>1, <2>2, SameInbox, ButtonStep
<1>8. CASE Handle
  <2>1. UNCHANGED <<post, shown, reviewed>> /\ inbox # <<>> /\ inbox' = Tail(inbox)
    BY <1>8 DEF Handle
  <2>2. ASSUME NEW i \in DOMAIN inbox'
        PROVE  \E j \in DOMAIN inbox : inbox'[i] = inbox[j]
    <3>1. inbox \in Seq(Messages) BY DEF ButtonInv, TypeOK
    <3>2. i + 1 \in DOMAIN inbox /\ inbox'[i] = inbox[i + 1] BY <2>1, <3>1
    <3> QED BY <3>2
  <2> QED BY <2>1, <2>2, ButtonStep
<1> QED BY <1>1, <1>2, <1>3, <1>4, <1>5, <1>6, <1>7, <1>8, Zenon

(* Every step keeps the messages informed. *)
LEMMA NextButton == ASSUME ButtonInv, [Next]_vars PROVE ButtonInv'
<1>1. ASSUME UNCHANGED <<promptVars, viewVars>> PROVE ButtonInv'
  BY <1>1, SameInbox, ButtonStep DEF promptVars, viewVars
<1>2. CASE Next
  <2>1. ASSUME \/ \E c \in Calls :
                    \/ Refuse(c) \/ ApplyEdits(c) \/ ApplyRename(c) \/ Recheck(c)
                    \/ Write(c) \/ DeleteFile(c) \/ Fail(c)
                    \/ \E saved \in BOOLEAN : Save(c, saved)
               \/ \E f \in Files, t \in Texts \cup {Absent} : UserChange(f, t)
        PROVE  UNCHANGED <<promptVars, viewVars>>
    BY <2>1 DEF Refuse, ApplyEdits, ApplyRename, Recheck, Write, DeleteFile, Fail, Save,
                UserChange
  <2> QED BY <1>1, <1>2, <2>1, NextCases, AskButton, ViewButton, Zenon
<1>3. CASE UNCHANGED vars
  BY <1>1, <1>3 DEF vars
<1> QED BY <1>2, <1>3

(* Only a click on Apply for this very prompt gives a call this basis. *)
LEMMA OnlyTheButton ==
  ASSUME ButtonInv, [Next]_vars, NEW c \in Calls,
         basis[c] = "none", basis'[c] = "click", decision'[c] = "approved"
  PROVE  /\ phase[c] = "pending"
         /\ inbox # <<>> /\ Head(inbox).do = "apply" /\ c \in Head(inbox).calls
<1>1. CASE Handle
  <2> DEFINE m == Head(inbox)
  <2>1. basis'[c] # basis[c] BY SMT
  <2>2. \/ m.do = "apply" /\ Decide(m.calls, "approved", "click")
        \/ Decide(m.calls, "rejected", "click")
        \/ Decide(Calls, "approved", "batch") \/ Decide(Calls, "rejected", "batch")
        \/ Decide(Calls, "approved", "auto") \/ Decide(Calls, "cancelled", "stop")
        \/ UNCHANGED basis
    BY <1>1, Zenon DEF Handle
  <2>3. ASSUME NEW cs, NEW d, NEW why, Decide(cs, d, why)
        PROVE  c \in cs /\ phase[c] = "pending" /\ d = "approved" /\ why = "click"
    BY <2>1, <2>3, DecideEffect
  <2>4. m.do = "apply" /\ Decide(m.calls, "approved", "click")
    BY <2>1, <2>2, <2>3
  <2>5. inbox # <<>> BY <1>1 DEF Handle
  <2> QED BY <2>3, <2>4, <2>5
<1>2. CASE CloseView \/ \E b \in Calls : CancelLost(b)
  <2>1. \E cs : Decide(cs, "cancelled", "closed") \/ Decide(cs, "cancelled", "lost")
    BY <1>2 DEF CloseView, CancelLost
  <2> QED BY <2>1, DecideEffect
<1>3. CASE \E b \in Calls : Confirm(b)
  BY <1>3 DEF Confirm, ButtonInv, TypeOK, promptVars
<1>4. CASE \/ \E b \in Calls :
                \/ \E k \in Kinds, ts \in TargetSets : Begin(b, k, ts)
                \/ \E f \in Files : Read(b, f)
                \/ Register(b)
           \/ \E m \in Offered : Click(m)
           \/ \E b \in Calls : Review(b) \/ Deliver(b) \/ Hide(b)
           \/ OpenView
           \/ \E b \in Calls :
                \/ Refuse(b) \/ ApplyEdits(b) \/ ApplyRename(b) \/ Recheck(b)
                \/ Write(b) \/ DeleteFile(b) \/ Fail(b)
                \/ \E saved \in BOOLEAN : Save(b, saved)
           \/ \E f \in Files, t \in Texts \cup {Absent} : UserChange(f, t)
           \/ UNCHANGED vars
  <2>1. UNCHANGED basis
    BY <1>4 DEF Begin, Read, Register, Click, Review, Deliver, Hide, OpenView, Refuse,
                ApplyEdits, ApplyRename, Recheck, Write, DeleteFile, Fail, Save, UserChange,
                vars, promptVars
  <2> QED BY <2>1, SMT
<1> QED BY <1>1, <1>2, <1>3, <1>4, NextCases, Zenon

(* A dangerous change is approved by its own button only when the view has *)
(* shown its review, however late the click arrives.                       *)
THEOREM ButtonsAreInformed == Spec => ButtonNeedsReview
<1>1. Init => ButtonInv
  BY InitType DEF Init, ButtonInv, ApplyInformed
<1>2. ButtonInv /\ [Next]_vars => ButtonInv'
  BY NextButton
<1>3. ASSUME ButtonInv, [Next]_vars, NEW c \in Calls,
             basis[c] = "none", basis'[c] = "click", decision'[c] = "approved", Danger(c)
      PROVE  c \in reviewed
  <2>1. /\ phase[c] = "pending"
        /\ inbox # <<>> /\ Head(inbox).do = "apply" /\ c \in Head(inbox).calls
    BY <1>3, OnlyTheButton
  <2>2. 1 \in DOMAIN inbox /\ Head(inbox) = inbox[1]
    BY <1>3, <2>1 DEF ButtonInv, TypeOK
  <2> QED BY <1>3, <2>1, <2>2 DEF ButtonInv, ApplyInformed
<1>4. ButtonInv /\ [Next]_vars =>
        \A c \in Calls :
          /\ basis[c] = "none" /\ basis'[c] = "click" /\ decision'[c] = "approved"
          /\ Danger(c) /\ c \in shown
          => c \in reviewed
  BY <1>3, Zenon
<1> QED BY <1>1, <1>2, <1>4, PTL DEF Spec, ButtonNeedsReview
=============================================================================
