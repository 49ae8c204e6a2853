---------------------------- MODULE EditApproval ----------------------------
(***************************************************************************)
(* The tools with which the agent changes files from the VS Code extension *)
(* (vscode-extension/src/tools) and the approval each of them waits for:   *)
(* EditApprovalController, the messages of the chat view that reach it     *)
(* (chat-view-provider.ts) and the prompts that view shows (webview/       *)
(* script.ts).                                                             *)
(*                                                                         *)
(* The calls are the tool calls of one run; those of a parallel batch      *)
(* interleave at every await.  The user edits files and clicks at any time,*)
(* and a click travels as a message: the host may have moved on when it    *)
(* arrives.                                                                *)
(*                                                                         *)
(* The text of a file is a model value: what a call proposes is the call   *)
(* itself.  A directory is a path whose text is its listing.               *)
(***************************************************************************)
EXTENDS Integers, Sequences, FiniteSets

CONSTANTS
  Calls,      \* tool calls
  Files,      \* paths
  Texts,      \* what the user may write into a file
  Absent,     \* the text of a path where there is nothing
  Empty,      \* the text of an empty file
  Unread,     \* a file the call has not looked at
  Kinds,      \* the tools in use: subset of AllKinds
  MaxTargets, \* bound: files one call changes
  MaxClicks,  \* bound: messages the user sends from the chat view
  MaxChanges, \* bound: changes the user makes to files
  MaxViews,   \* bound: how often the chat view is closed
  ToolFaults  \* may a call of VS Code or of the file system fail

ManyFiles == {"edit", "rename"}
Creating == {"create", "overwrite"}
Deleting == {"deleteFile", "deleteDirectory"}
AllKinds == ManyFiles \cup Creating \cup Deleting

(* The tools that look at their files again before they change them. *)
Rechecking == {"edit", "deleteDirectory"} \cup Creating

Contents == Texts \cup Calls \cup {Absent, Empty}

ASSUME ConstantsAssumption ==
  /\ Kinds \subseteq AllKinds
  /\ {MaxTargets, MaxClicks, MaxChanges, MaxViews} \subseteq Nat
  /\ Unread \notin Contents /\ Absent # Empty
  /\ Absent \notin Calls \cup Texts
  /\ ToolFaults \in BOOLEAN

VARIABLES
  content,   \* the text of each path
  kind,      \* the tool each call invokes
  targets,   \* the files each call changes
  phase,     \* where each call is
  plan,      \* the text each call planned its change on
  decision,  \* the ApprovalDecision of each call
  basis,     \* history: what approved the call
  post,      \* the approvalRequested message of each call
  mode,      \* _approvalMode
  viewOpen,  \* is the chat view resolved
  shown,     \* prompts the view displays: approvalEls
  reviewed,  \* prompts reviewed in the view: reviewedApprovalIds
  inbox,     \* messages of the view the host has not handled
  stopped,   \* the session was aborted
  overwrote, \* history: the text each call replaced
  raced,     \* history: calls whose file changed between their second look and their write
  clicks, changes, views

callVars == <<kind, targets, plan>>
promptVars == <<decision, basis, post>>
viewVars == <<viewOpen, shown, reviewed, inbox, clicks, views>>
fileVars == <<content, overwrote, raced, changes>>
hostVars == <<mode, stopped>>
vars == <<phase, callVars, promptVars, viewVars, fileVars, hostVars>>

-----------------------------------------------------------------------------
Ended == {"written", "unsaved", "changed", "refused", "failed"}
Phases == {"new", "reading", "reviewing", "pending", "decided", "checked", "saving"} \cup Ended
In(ps) == {c \in Calls : phase[c] \in ps}
Pending == In({"pending"})

(* Mutant: a deletion leaves something undefined. *)
ProposalLeft(c) == IF kind[c] \in Deleting THEN Unread ELSE c

(* What the call leaves at its files. *)
Proposal(c) == IF kind[c] \in Deleting THEN Absent ELSE c

(* risk "danger": the view offers Apply only after Review. *)
Danger(c) ==
  \/ kind[c] \in Deleting
  \/ kind[c] \in Creating /\ \E f \in targets[c] : plan[c][f] # Absent

(* The files are as the call found them. *)
Unchanged(c) == \A f \in targets[c] : content[f] = plan[c][f]

(* May the tool go on with what it found at a file?  Editing, renaming and *)
(* deleting need something there, creating must not lose anything.         *)
Usable(c, t) ==
  CASE kind[c] = "create" -> t \in {Absent, Empty}
    [] kind[c] = "overwrite" -> TRUE
    [] OTHER -> t # Absent

-----------------------------------------------------------------------------
(* A tool call, up to its prompt *)

Begin(c, k, ts) ==
  /\ phase[c] = "new"
  /\ k \in ManyFiles \/ Cardinality(ts) = 1
  /\ phase' = [phase EXCEPT ![c] = "reading"]
  /\ kind' = [kind EXCEPT ![c] = k]
  /\ targets' = [targets EXCEPT ![c] = ts]
  /\ UNCHANGED <<plan, promptVars, viewVars, fileVars, hostVars>>

(* Each file is opened, read or scanned in an await of its own. *)
Read(c, f) ==
  /\ phase[c] = "reading"
  /\ f \in targets[c] /\ plan[c][f] = Unread
  /\ IF Usable(c, content[f])
     THEN /\ plan' = [plan EXCEPT ![c][f] = content[f]]
          /\ UNCHANGED phase
     ELSE /\ phase' = [phase EXCEPT ![c] = "refused"]
          /\ UNCHANGED plan
  /\ UNCHANGED <<kind, targets, promptVars, viewVars, fileVars, hostVars>>

(* confirmApplyEdits and its siblings: auto mode approves at once; all but *)
(* the deletion of a file write what they would show into review files.    *)
Confirm(c) ==
  /\ phase[c] = "reading"
  /\ \A f \in targets[c] : plan[c][f] # Unread
  /\ \/ /\ mode = "auto"
        /\ phase' = [phase EXCEPT ![c] = "decided"]
        /\ decision' = [decision EXCEPT ![c] = "approved"]
        /\ basis' = [basis EXCEPT ![c] = "auto"]
        /\ UNCHANGED post
     \/ /\ mode = "ask"
        /\ kind[c] # "deleteFile"
        /\ phase' = [phase EXCEPT ![c] = "reviewing"]
        /\ UNCHANGED promptVars
     \/ /\ mode = "ask"
        /\ kind[c] = "deleteFile"
        /\ phase' = [phase EXCEPT ![c] = "pending"]
        /\ post' = [post EXCEPT ![c] = IF viewOpen THEN "sent" ELSE "lost"]
        /\ UNCHANGED <<decision, basis>>
  /\ UNCHANGED <<callVars, viewVars, fileVars, hostVars>>

(* requestApproval, when the review files are written.  Neither the mode  *)
(* nor the abort signal is looked at again.                               *)
Register(c) ==
  /\ phase[c] = "reviewing"
  /\ phase' = [phase EXCEPT ![c] = "pending"]
  /\ post' = [post EXCEPT ![c] = IF viewOpen THEN "sent" ELSE "lost"]
  /\ UNCHANGED <<callVars, decision, basis, viewVars, fileVars, hostVars>>

-----------------------------------------------------------------------------
(* The decision: resolveApproval *)

(* Mutant: the pending prompt is not looked up. *)
AnsweredAgain(cs) == cs

(* Each prompt that is still pending is answered; the others are not. *)
Answered(cs) == cs \cap Pending

Decide(cs, d, why) ==
  LET now == Answered(cs) IN
  /\ phase' = [c \in Calls |-> IF c \in now THEN "decided" ELSE phase[c]]
  /\ decision' = [c \in Calls |-> IF c \in now THEN d ELSE decision[c]]
  /\ basis' = [c \in Calls |-> IF c \in now THEN why ELSE basis[c]]

(* Mutant: an undelivered prompt is not cancelled. *)
CancelNothing(c) ==
  /\ post[c] = "lost"
  /\ post' = [post EXCEPT ![c] = "settled"]
  /\ UNCHANGED <<phase, callVars, decision, basis, viewVars, fileVars, hostVars>>

(* postMessage resolved false or threw, or the view was closed. *)
CancelLost(c) ==
  /\ post[c] = "lost"
  /\ post' = [post EXCEPT ![c] = "settled"]
  /\ Decide({c}, "cancelled", "lost")
  /\ UNCHANGED <<callVars, viewVars, fileVars, hostVars>>

(* The view gets approvalRequested, or never will. *)
Deliver(c) ==
  /\ post[c] = "sent"
  /\ \/ /\ viewOpen
        /\ post' = [post EXCEPT ![c] = "settled"]
        /\ shown' = shown \cup {c}
     \/ /\ post' = [post EXCEPT ![c] = "lost"]
        /\ UNCHANGED shown
  /\ UNCHANGED <<phase, callVars, decision, basis, viewOpen, reviewed, inbox,
                 clicks, views, fileVars, hostVars>>

(* The view gets approvalResolved. *)
Hide(c) ==
  /\ c \in shown /\ phase[c] # "pending"
  /\ shown' = shown \ {c}
  /\ reviewed' = reviewed \ {c}
  /\ UNCHANGED <<phase, callVars, promptVars, viewOpen, inbox, clicks, views,
                 fileVars, hostVars>>

-----------------------------------------------------------------------------
(* The chat view *)

Message(do, cs) == [do |-> do, calls |-> cs]

(* Mutant: Apply is enabled before the review. *)
ApplicableUnreviewed == shown

(* The prompts whose Apply button is enabled. *)
Applicable == {c \in shown : Danger(c) => c \in reviewed}

(* The buttons the view enables. *)
Offered ==
  {Message("apply", {c}) : c \in Applicable}
  \cup {Message("reject", {c}) : c \in shown}
  \cup (IF Cardinality(shown) > 1 THEN {Message("rejectAll", {})} ELSE {})
  \cup (IF Cardinality(shown) > 1 /\ \A c \in shown : ~Danger(c)
        THEN {Message("applyAll", {})} ELSE {})
  \cup {Message("auto", {}), Message("ask", {}), Message("stop", {})}

Click(m) ==
  /\ viewOpen /\ clicks < MaxClicks
  /\ clicks' = clicks + 1
  /\ inbox' = Append(inbox, m)
  /\ UNCHANGED <<phase, callVars, promptVars, viewOpen, shown, reviewed, views,
                 fileVars, hostVars>>

(* Review marks the prompt in the view; the host only opens editors. *)
Review(c) ==
  /\ c \in shown \ reviewed
  /\ reviewed' = reviewed \cup {c}
  /\ UNCHANGED <<phase, callVars, promptVars, viewOpen, shown, inbox, clicks,
                 views, fileVars, hostVars>>

(* handleWebviewMessage: messages are handled in the order they were sent. *)
(* "stop" stands for every request that aborts the session: a new chat and *)
(* a change of the permission mode reject the prompts in the same way.     *)
Handle ==
  LET m == Head(inbox) IN
  /\ inbox # <<>>
  /\ inbox' = Tail(inbox)
  /\ \/ m.do = "apply" /\ Decide(m.calls, "approved", "click") /\ UNCHANGED hostVars
     \/ m.do = "reject" /\ Decide(m.calls, "rejected", "click") /\ UNCHANGED hostVars
     \/ m.do = "applyAll" /\ Decide(Calls, "approved", "batch") /\ UNCHANGED hostVars
     \/ m.do = "rejectAll" /\ Decide(Calls, "rejected", "batch") /\ UNCHANGED hostVars
     \/ /\ m.do = "auto"
        /\ mode' = "auto"
        /\ Decide(Calls, "approved", "auto")
        /\ UNCHANGED stopped
     \/ /\ m.do = "ask"
        /\ mode' = "ask"
        /\ UNCHANGED <<phase, decision, basis, stopped>>
     \/ /\ m.do = "stop"
        /\ stopped' = TRUE
        /\ Decide(Calls, "cancelled", "stop")
        /\ UNCHANGED mode
  /\ UNCHANGED <<callVars, post, viewOpen, shown, reviewed, clicks, views, fileVars>>

(* Mutant: closing the view rejects no prompt. *)
CloseQuietly ==
  /\ viewOpen /\ views < MaxViews
  /\ views' = views + 1
  /\ viewOpen' = FALSE
  /\ shown' = {} /\ reviewed' = {} /\ inbox' = <<>>
  /\ UNCHANGED <<phase, callVars, promptVars, clicks, fileVars, hostVars>>

(* onDidDispose: the webview is gone with its messages and its marks. *)
CloseView ==
  /\ viewOpen /\ views < MaxViews
  /\ views' = views + 1
  /\ viewOpen' = FALSE
  /\ shown' = {} /\ reviewed' = {} /\ inbox' = <<>>
  /\ post' = [c \in Calls |-> IF post[c] = "sent" THEN "lost" ELSE post[c]]
  /\ Decide(Calls, "cancelled", "closed")
  /\ UNCHANGED <<callVars, clicks, fileVars, hostVars>>

(* resolveWebviewView; the "ready" of the page is answered with the state, *)
(* pending prompts included.                                               *)
OpenView ==
  /\ ~viewOpen
  /\ viewOpen' = TRUE
  /\ shown' = Pending
  /\ UNCHANGED <<phase, callVars, promptVars, reviewed, inbox, clicks, views,
                 fileVars, hostVars>>

-----------------------------------------------------------------------------
(* The change itself *)

(* Calls that have looked again and will not look a third time. *)
Race(fs) == {d \in In({"checked"}) : targets[d] \cap fs # {}}

(* The call's change reaches its files. *)
Change(c) ==
  /\ content' = [f \in Files |-> IF f \in targets[c] THEN Proposal(c) ELSE content[f]]
  /\ overwrote' = [overwrote EXCEPT ![c] =
                     [f \in Files |-> IF f \in targets[c] THEN content[f] ELSE Unread]]
  /\ raced' = raced \cup (Race(targets[c]) \ {c})
  /\ UNCHANGED changes

(* The tool returns without touching a file. *)
End(c, how) ==
  /\ phase' = [phase EXCEPT ![c] = how]
  /\ UNCHANGED fileVars

Approved(c) == phase[c] = "decided" /\ decision[c] = "approved"

Refuse(c) ==
  /\ phase[c] = "decided" /\ decision[c] # "approved"
  /\ End(c, "refused")
  /\ UNCHANGED <<callVars, promptVars, viewVars, hostVars>>

(* Mutant: the documents are not compared again. *)
ApplyBlindly(c) ==
  /\ Approved(c) /\ kind[c] = "edit"
  /\ Change(c)
  /\ phase' = [phase EXCEPT ![c] = "saving"]
  /\ UNCHANGED <<callVars, promptVars, viewVars, hostVars>>

(* vscode_apply_edits compares every document and applies the edit at once. *)
ApplyEdits(c) ==
  /\ Approved(c) /\ kind[c] = "edit"
  /\ IF Unchanged(c)
     THEN Change(c) /\ phase' = [phase EXCEPT ![c] = "saving"]
     ELSE End(c, "changed")
  /\ UNCHANGED <<callVars, promptVars, viewVars, hostVars>>

(* vscode_rename_symbol applies the provider's edit as it is. *)
ApplyRename(c) ==
  /\ Approved(c) /\ kind[c] = "rename"
  /\ \A f \in targets[c] : content[f] # Absent
  /\ Change(c)
  /\ phase' = [phase EXCEPT ![c] = "saving"]
  /\ UNCHANGED <<callVars, promptVars, viewVars, hostVars>>

Save(c, saved) ==
  /\ phase[c] = "saving"
  /\ End(c, IF saved THEN "written" ELSE "unsaved")
  /\ UNCHANGED <<callVars, promptVars, viewVars, hostVars>>

(* vscode_write_file reads the file again, vscode_delete_directory scans   *)
(* the directory again; the write or the deletion is a later await.        *)
Recheck(c) ==
  /\ Approved(c) /\ kind[c] \in Rechecking \ {"edit"}
  /\ End(c, IF Unchanged(c) THEN "checked" ELSE "changed")
  /\ UNCHANGED <<callVars, promptVars, viewVars, hostVars>>

(* writeFile, or fs.delete of the directory, which must still be there. *)
Write(c) ==
  /\ phase[c] = "checked"
  /\ kind[c] \in Deleting => \A f \in targets[c] : content[f] # Absent
  /\ Change(c)
  /\ phase' = [phase EXCEPT ![c] = "written"]
  /\ UNCHANGED <<callVars, promptVars, viewVars, hostVars>>

(* vscode_delete_file does not look at the file again. *)
DeleteFile(c) ==
  /\ Approved(c) /\ kind[c] = "deleteFile"
  /\ \A f \in targets[c] : content[f] # Absent
  /\ Change(c)
  /\ phase' = [phase EXCEPT ![c] = "written"]
  /\ UNCHANGED <<callVars, promptVars, viewVars, hostVars>>

(* A call of VS Code or of the file system throws or answers false; it has *)
(* to when the file that is to be renamed in or deleted is gone.           *)
Fail(c) ==
  LET gone == \E f \in targets[c] : content[f] = Absent IN
  /\ \/ ToolFaults /\ phase[c] \in {"reading", "reviewing", "checked"}
     \/ ToolFaults /\ Approved(c)
     \/ gone /\ Approved(c) /\ kind[c] \in {"rename", "deleteFile"}
     \/ gone /\ phase[c] = "checked" /\ kind[c] \in Deleting
  /\ End(c, "failed")
  /\ UNCHANGED <<callVars, promptVars, viewVars, hostVars>>

(* The user, or another program, changes a file. *)
UserChange(f, t) ==
  /\ changes < MaxChanges
  /\ content[f] # t
  /\ changes' = changes + 1
  /\ content' = [content EXCEPT ![f] = t]
  /\ raced' = raced \cup Race({f})
  /\ UNCHANGED <<phase, callVars, promptVars, viewVars, overwrote, hostVars>>

-----------------------------------------------------------------------------
Init ==
  /\ content \in [Files -> {Absent, Empty} \cup Texts]
  /\ kind = [c \in Calls |-> "edit"] /\ targets = [c \in Calls |-> {}]
  /\ phase = [c \in Calls |-> "new"]
  /\ plan = [c \in Calls |-> [f \in Files |-> Unread]]
  /\ decision = [c \in Calls |-> "none"] /\ basis = [c \in Calls |-> "none"]
  /\ post = [c \in Calls |-> "settled"]
  /\ mode = "ask" /\ stopped = FALSE
  /\ viewOpen = TRUE /\ shown = {} /\ reviewed = {} /\ inbox = <<>>
  /\ overwrote = plan /\ raced = {}
  /\ clicks = 0 /\ changes = 0 /\ views = 0

TargetSets == {ts \in SUBSET Files : Cardinality(ts) \in 1..MaxTargets}

(* What the host does by itself for a call that has begun. *)
Step(c) ==
  \/ \E f \in Files : Read(c, f)
  \/ Confirm(c) \/ Register(c)
  \/ CancelLost(c) \/ Deliver(c) \/ Hide(c)
  \/ Refuse(c) \/ ApplyEdits(c) \/ ApplyRename(c) \/ Recheck(c)
  \/ Write(c) \/ DeleteFile(c) \/ Fail(c)
  \/ \E saved \in (IF ToolFaults THEN BOOLEAN ELSE {TRUE}) : Save(c, saved)

Host == Handle \/ \E c \in Calls : Step(c)

User ==
  \/ \E m \in Offered : Click(m)
  \/ \E c \in Calls : Review(c)
  \/ CloseView \/ OpenView
  \/ \E f \in Files, t \in Texts \cup {Absent} : UserChange(f, t)

Agent == \E c \in Calls, k \in Kinds, ts \in TargetSets : Begin(c, k, ts)

Next == Agent \/ Host \/ User

Spec == Init /\ [][Next]_vars

(* The event loop runs what is ready.  Nothing makes the user click, edit or *)
(* open the view.                                                            *)
FairSpec == Spec /\ WF_vars(Host)

-----------------------------------------------------------------------------
(* Properties *)

Messages == [do : {"apply", "reject", "applyAll", "rejectAll", "auto", "ask", "stop"},
             calls : SUBSET Calls]

(* Every variable has its type. *)
TypeOK ==
  /\ content \in [Files -> Contents]
  /\ kind \in [Calls -> AllKinds] /\ targets \in [Calls -> SUBSET Files]
  /\ phase \in [Calls -> Phases]
  /\ plan \in [Calls -> [Files -> Contents \cup {Unread}]]
  /\ overwrote \in [Calls -> [Files -> Contents \cup {Unread}]]
  /\ decision \in [Calls -> {"none", "approved", "rejected", "cancelled"}]
  /\ basis \in [Calls -> {"none", "auto", "click", "batch", "lost", "closed", "stop"}]
  /\ post \in [Calls -> {"sent", "lost", "settled"}]
  /\ mode \in {"ask", "auto"} /\ stopped \in BOOLEAN /\ viewOpen \in BOOLEAN
  /\ shown \subseteq Calls /\ reviewed \subseteq Calls /\ raced \subseteq Calls
  /\ inbox \in Seq(Messages)
  /\ clicks \in Nat /\ changes \in Nat /\ views \in Nat

Changed(c) == phase[c] \in {"saving", "written", "unsaved"}

(* However long the prompt was open, and whatever the user and the other    *)
(* calls of the batch did meanwhile: a tool that looks at its files again   *)
(* replaces only the text its review showed.  What slips through changed    *)
(* between that second look and the write.                                  *)
ReviewedTextIsReplaced ==
  \A c \in Calls :
    /\ Changed(c) /\ kind[c] \in Rechecking /\ c \notin raced
    => \A f \in targets[c] : overwrote[c][f] = plan[c][f]

(* A call changes files only after it was approved, by auto mode or by a     *)
(* click, and a prompt is answered once: a late click, a lost message and    *)
(* the end of the view do not overrule each other.                           *)
ApprovedOnce ==
  [][ \A c \in Calls :
        /\ decision[c] # "none" =>
             /\ decision'[c] = decision[c] /\ basis'[c] = basis[c]
             /\ phase'[c] \notin {"reading", "reviewing", "pending"}
        /\ overwrote'[c] # overwrote[c] => decision[c] = "approved" ]_vars

(* A change marked dangerous is approved by its own button only when the   *)
(* user has opened its review.                                             *)
ButtonNeedsReview ==
  [][ \A c \in Calls :
        /\ basis[c] = "none" /\ basis'[c] = "click" /\ decision'[c] = "approved"
        /\ Danger(c) /\ c \in shown
        => c \in reviewed ]_vars

(* A prompt the agent waits for can be answered: the open view shows it or  *)
(* its message is on the way, or the prompt is about to be cancelled.       *)
NoInvisiblePrompt ==
  \A c \in Pending :
    \/ post[c] = "lost"
    \/ viewOpen /\ (post[c] = "sent" \/ c \in shown)

(* Once the view stays closed every call that has begun comes to its end. *)
ClosedViewSettles ==
  <>[]~viewOpen => <>[](In(Phases \ ({"new"} \cup Ended)) = {})

(* What the view says of Apply all: no deletion and no overwriting is       *)
(* approved by it.                                                          *)
ApplyAllSparesDanger ==
  \A c \in Calls : decision[c] = "approved" /\ basis[c] = "batch" => ~Danger(c)

(* What the view says of auto mode: it prompts for nothing. *)
AutoNeverAsks == mode = "auto" => Pending = {}

(* What the extension guide says of parallel tools: the calls of a batch do *)
(* not overwrite each other's changes.                                      *)
BatchLosesNothing ==
  \A c \in Calls :
    Changed(c) /\ kind[c] \in Creating /\ changes = 0 =>
      \A f \in targets[c] : overwrote[c][f] = plan[c][f]

(* What the README says of the stop button: the reply ends, whether or not *)
(* the user answers what is asked after it.                                *)
StopEndsReply == stopped ~> In(Phases \ ({"new"} \cup Ended)) = {}
=============================================================================
