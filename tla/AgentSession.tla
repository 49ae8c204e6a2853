----------------------------- MODULE AgentSession -----------------------------
(***************************************************************************)
(* Class AgentSession (packages/coding-agent/src/core/agent-session.ts):   *)
(* whether a prompt runs or is queued, the displayed copy of the queues,   *)
(* what follows a run (retry, compaction, queued messages) and when the    *)
(* session is idle.  The run itself is module AgentLoop in short: what a   *)
(* response does to the queues and to the transcript's last role.  The     *)
(* queues drain one message at a time, as their default setting has it.    *)
(*                                                                         *)
(* A step is what runs between two awaits that can take time.  Texts are   *)
(* distinct, so a message stands for its text.  A response stands for the  *)
(* tool batch behind it.  Handlers of extensions may take time but do not  *)
(* throw or queue messages themselves.                                     *)
(***************************************************************************)
EXTENDS Integers, Sequences, FiniteSets

CONSTANTS
  Messages,    \* what the user sends
  Orders,      \* what else the user asks of the host: see ChatService
  MaxSessions, \* bound: sessions made
  MaxRetries,  \* settings.retry.maxRetries
  MaxTools     \* bound: responses that call tools

Nobody == "nobody"
None == 0
Callers == Messages \cup Orders
Sessions == 1..MaxSessions
Channels == {"steer", "followUp"}
Errors == {"retryable", "overflow", "failed"}
Final == {"queued", "handled", "done", "reported"}

ASSUME SessionAssumption ==
  /\ Nobody \notin Callers
  /\ Messages \cap Orders = {}
  /\ MaxSessions \in Nat /\ MaxRetries \in Nat /\ MaxTools \in Nat

VARIABLES
  sess,      \* the sessions and their agents
  pc,        \* what each prompt, and each order, is doing
  at,        \* the session it does it with
  delivered, \* how often each message entered a transcript
  restored,  \* the messages that clearQueue gave back
  tools      \* responses so far that called tools

sessionVars == <<sess, pc, at, delivered, restored, tools>>

Unused ==
  [active    |-> FALSE,     \* _isAgentRunActive
   runner    |-> Nobody,    \* the prompt that agent.activeRun belongs to
   stage     |-> "idle",    \* where that run is
   aborted   |-> FALSE,     \* its abort signal
   skip      |-> FALSE,     \* skipInitialSteeringPoll
   pending   |-> <<>>,      \* taken by the run and not yet in the transcript
   queue     |-> [k \in Channels |-> <<>>], \* steeringQueue, followUpQueue
   shown     |-> [k \in Channels |-> <<>>], \* _steeringMessages, _followUpMessages
   last      |-> "user",    \* role of the transcript's last message
   outcome   |-> "none",    \* _lastAssistantMessage
   attempt   |-> 0,         \* _retryAttempt
   recovered |-> FALSE,     \* _overflowRecoveryAttempted
   sleeper   |-> Nobody,    \* the prompt _retryAbortController belongs to
   gone      |-> FALSE]     \* disposed

Becomes(s, r) == sess' = [sess EXCEPT ![s] = r]
Goes(a, p) == pc' = [pc EXCEPT ![a] = p]
HasQueued(r) == \E k \in Channels : r.queue[k] # <<>>
Has(q, m) == \E i \in DOMAIN q : q[i] = m
IndexOf(q, m) ==
  CHOOSE i \in DOMAIN q : q[i] = m /\ \A j \in 1..(i - 1) : q[j] # m
Without(q, m) ==
  IF Has(q, m)
  THEN [j \in 1..(Len(q) - 1) |->
         IF j < IndexOf(q, m) THEN q[j] ELSE q[j + 1]]
  ELSE q

-----------------------------------------------------------------------------
(* prompt() *)

(* An extension command, or an `input` handler, took the text.             *)
Handled(m) ==
  /\ pc[m] = "input"
  /\ Goes(m, "handled")
  /\ UNCHANGED <<sess, at, delivered, restored, tools>>

Queue(m, k) ==
  LET s == at[m] IN
  /\ pc[m] = "input" /\ sess[s].active
  /\ sess' = [sess EXCEPT ![s].queue[k] = Append(@, m),
                          ![s].shown[k] = Append(@, m)]
  /\ Goes(m, "queued")
  /\ UNCHANGED <<at, delivered, restored, tools>>

(* Not streaming: the credentials are checked, the context may be          *)
(* compacted and extensions are asked before the run.                      *)
Preflight(m) ==
  /\ pc[m] = "input" /\ ~sess[at[m]].active
  /\ Goes(m, "preflight")
  /\ UNCHANGED <<sess, at, delivered, restored, tools>>

PreflightFails(m) ==
  /\ pc[m] = "preflight"
  /\ Goes(m, "reported")
  /\ UNCHANGED <<sess, at, delivered, restored, tools>>

-----------------------------------------------------------------------------
(* _runAgentPrompt(): the run and what follows it.  r is the session as    *)
(* the step has left it so far.                                            *)

(* _emitAgentSettled up to the extensions' handlers; the prompt then       *)
(* resolves ("settling") or rejects ("failing").                           *)
Settle(m, r, p) ==
  /\ Becomes(at[m], [r EXCEPT !.active = FALSE])
  /\ Goes(m, p)

RunsFrom(m, r, stage) ==
  /\ Becomes(at[m], [r EXCEPT !.runner = m, !.stage = stage, !.aborted = FALSE])
  /\ Goes(m, "running")

(* Mutant: the message stays in the queue. *)
Peeked(r, k) == [r EXCEPT !.pending = <<Head(r.queue[k])>>]

(* A queue's first message becomes what the run puts into the transcript.  *)
Taken(r, k) ==
  [r EXCEPT !.pending = <<Head(r.queue[k])>>, !.queue[k] = Tail(@)]

(* Mutant: agent.prompt() and agent.continue() do not look at activeRun. *)
NeverBusy(r) == FALSE

Busy(r) == r.runner # Nobody

(* agent.prompt() *)
StartRun(m) ==
  LET r == [sess[at[m]] EXCEPT !.active = TRUE] IN
  /\ pc[m] = "preflight"
  /\ \/ Busy(r) /\ Settle(m, r, "failing")
     \/ /\ ~Busy(r)
        /\ RunsFrom(m, [r EXCEPT !.pending = <<m>>, !.skip = FALSE], "begin")
  /\ UNCHANGED <<at, delivered, restored, tools>>

(* agent.continue() *)
Continue(m, r) ==
  \/ /\ Busy(r)
     /\ Settle(m, r, "failing")
  \/ /\ ~Busy(r) /\ r.last = "user"
     /\ RunsFrom(m, [r EXCEPT !.skip = FALSE], "poll")
  \/ /\ ~Busy(r) /\ r.last = "assistant"
     /\ r.queue["steer"] # <<>>
     /\ RunsFrom(m, [Taken(r, "steer") EXCEPT !.skip = TRUE], "begin")
  \/ /\ ~Busy(r) /\ r.last = "assistant"
     /\ r.queue["steer"] = <<>> /\ r.queue["followUp"] # <<>>
     /\ RunsFrom(m, [Taken(r, "followUp") EXCEPT !.skip = FALSE], "begin")
  \/ /\ ~Busy(r) /\ r.last = "assistant" /\ ~HasQueued(r)
     /\ Settle(m, r, "failing")

(* Mutant: the queues are taken for drained. *)
JustSettles(m, r) == Settle(m, r, "settling")

ContinueOrSettle(m, r) ==
  \/ HasQueued(r) /\ Continue(m, r)
  \/ ~HasQueued(r) /\ Settle(m, r, "settling")

(* Mutant: every overflow is compacted and retried. *)
RecoversAgain(r) == TRUE

MayRecover(r) == ~r.recovered

(* _checkCompaction(), up to the request for the summary.  Whether the     *)
(* context is over the threshold is left open.                             *)
CheckCompaction(m, r, o) ==
  \/ /\ o \in {"overflow", "cut"} /\ MayRecover(r)
     /\ Becomes(at[m], [r EXCEPT !.recovered = TRUE, !.last = "user"])
     /\ Goes(m, IF o = "cut" THEN "recoveringCut" ELSE "recovering")
  \/ /\ o \in {"overflow", "cut"} /\ ~MayRecover(r)
     /\ ContinueOrSettle(m, r)
  \/ /\ o \in {"stop", "failed", "retryable"}
     /\ Becomes(at[m], r)
     /\ Goes(m, "compacting")
  \/ /\ o \notin {"overflow", "cut"}
     /\ ContinueOrSettle(m, r)

(* _handlePostAgentRun() and, in the first case of it, _prepareRetry().    *)
PostRun(m, r) ==
  LET o == r.outcome
      heard == [r EXCEPT !.outcome = "none"]
      retries == o = "retryable" /\ r.attempt < MaxRetries
  IN
  \/ /\ o = "none"
     /\ Settle(m, heard, "settling")
  \/ /\ retries
     /\ Becomes(at[m], [heard EXCEPT !.attempt = @ + 1, !.last = "user",
                                     !.sleeper = m])
     /\ Goes(m, "sleeping")
  \/ /\ o # "none" /\ ~retries
     /\ CheckCompaction(m, [heard EXCEPT !.attempt = IF o \in Errors THEN 0 ELSE @],
                        o)

(* The sleep before a retry is over, or was cut short by abortRetry().     *)
Wakes(m) ==
  /\ pc[m] = "sleeping"
  /\ Continue(m, [sess[at[m]] EXCEPT !.sleeper = Nobody])
  /\ UNCHANGED <<at, delivered, restored, tools>>

RetryCancelled(m) ==
  /\ pc[m] = "cancelled"
  /\ CheckCompaction(m, [sess[at[m]] EXCEPT !.sleeper = Nobody, !.attempt = 0],
                     "retryable")
  /\ UNCHANGED <<at, delivered, restored, tools>>

(* _runAutoCompaction() ends: the transcript is rebuilt from the session   *)
(* log, or stays as it is when the compaction failed or was aborted.       *)
CompactionEnds(m) ==
  LET r == sess[at[m]] IN
  /\ pc[m] = "compacting"
  /\ \/ ContinueOrSettle(m, r)
     \/ ~r.gone /\ ContinueOrSettle(m, [r EXCEPT !.last = "assistant"])
  /\ UNCHANGED <<at, delivered, restored, tools>>

(* The rebuilt transcript has the response again; only an error is dropped. *)
RecoveryEnds(m) ==
  LET r == sess[at[m]] IN
  /\ \/ /\ pc[m] \in {"recovering", "recoveringCut"}
        /\ ContinueOrSettle(m, r)
     \/ /\ pc[m] = "recovering" /\ ~r.gone
        /\ Continue(m, [r EXCEPT !.last = "user"])
     \/ /\ pc[m] = "recoveringCut" /\ ~r.gone
        /\ Continue(m, [r EXCEPT !.last = "assistant"])
  /\ UNCHANGED <<at, delivered, restored, tools>>

(* The rest of _emitAgentSettled: whoever waits for idle goes on, unless   *)
(* another prompt has started meanwhile.                                   *)
Resolved(s) ==
  {a \in Orders : pc[a] = "waiting" /\ at[a] = s /\ ~sess[s].active}
Settled(m) ==
  /\ pc[m] \in {"settling", "failing"}
  /\ pc' = [a \in Callers |->
             IF a = m THEN IF pc[m] = "settling" THEN "done" ELSE "reported"
             ELSE IF a \in Resolved(at[m]) THEN "idle" ELSE pc[a]]
  /\ UNCHANGED <<sess, at, delivered, restored, tools>>

-----------------------------------------------------------------------------
(* The run: runLoop() of packages/agent, with _handleAgentEvent listening  *)
(* until the session is disposed.                                          *)

(* A request made after the abort can only be refused.                     *)
Request(r) == [r EXCEPT !.stage = IF r.aborted THEN "refused" ELSE "stream"]

(* message_start of a user message: the first of the two lists that shows  *)
(* the text loses it.                                                      *)
(* Mutant: only the list of steering messages is looked at. *)
UnshownSteering(r, m) ==
  [r EXCEPT !.recovered = FALSE, !.shown["steer"] = Without(@, m)]

Unshown(r, m) ==
  [r EXCEPT !.recovered = FALSE,
            !.shown[IF Has(r.shown["steer"], m) THEN "steer" ELSE "followUp"]
              = Without(@, m)]

Inject(s) ==
  LET r == sess[s]
      m == Head(r.pending)
      heard == IF r.gone THEN r ELSE Unshown(r, m)
      emitted == [heard EXCEPT !.pending = <<>>, !.last = "user"]
  IN
  /\ r.stage \in {"begin", "inject"}
  /\ Becomes(s, IF r.stage = "begin" THEN [emitted EXCEPT !.stage = "poll"]
                ELSE Request(emitted))
  /\ delivered' = [delivered EXCEPT ![m] = @ + 1]
  /\ UNCHANGED <<pc, at, restored, tools>>

InitialPoll(s) ==
  LET r == sess[s] IN
  /\ r.stage = "poll"
  /\ \/ r.skip /\ Becomes(s, Request([r EXCEPT !.skip = FALSE]))
     \/ /\ ~r.skip /\ r.queue["steer"] # <<>>
        /\ Becomes(s, [Taken(r, "steer") EXCEPT !.stage = "inject"])
     \/ /\ ~r.skip /\ r.queue["steer"] = <<>>
        /\ Becomes(s, Request(r))
  /\ UNCHANGED <<pc, at, delivered, restored, tools>>

(* message_end of a response.                                              *)
Heard(r, o) ==
  [r EXCEPT !.outcome = o,
            !.recovered = o \in Errors /\ @,
            !.attempt = IF o \in Errors THEN @ ELSE 0]

(* "stop" and "cut" (no room left for output, which counts as overflow)    *)
(* end a turn, "tools" asks for another one.                               *)
Answers(r) ==
  IF r.stage = "refused" THEN {"aborted"}
  ELSE {"stop", "tools", "cut"} \cup Errors
       \cup (IF r.aborted THEN {"aborted"} ELSE {})

Respond(s) ==
  LET r == sess[s] IN
  /\ r.stage \in {"stream", "refused"}
  /\ \E o \in Answers(r) :
       /\ tools' = IF o = "tools" THEN tools + 1 ELSE tools
       /\ tools' <= MaxTools
       /\ Becomes(s,
            [IF r.gone THEN r ELSE Heard(r, o) EXCEPT
              !.last = IF o = "tools" THEN "user" ELSE "assistant",
              !.stage = CASE o = "tools" -> "more"
                          [] o \in {"stop", "cut"} -> "stopped"
                          [] OTHER -> "ending"])
  /\ UNCHANGED <<pc, at, delivered, restored>>

(* The polls after a turn.  An aborted run polls as any other.             *)
PollQueues(s) ==
  LET r == sess[s] IN
  /\ r.stage \in {"more", "stopped"}
  /\ \/ /\ r.queue["steer"] # <<>>
        /\ Becomes(s, [Taken(r, "steer") EXCEPT !.stage = "inject"])
     \/ /\ r.queue["steer"] = <<>> /\ r.stage = "more"
        /\ Becomes(s, Request(r))
     \/ /\ r.queue["steer"] = <<>> /\ r.stage = "stopped"
        /\ r.queue["followUp"] # <<>>
        /\ Becomes(s, [Taken(r, "followUp") EXCEPT !.stage = "inject"])
     \/ /\ r.stage = "stopped" /\ ~HasQueued(r)
        /\ Becomes(s, [r EXCEPT !.stage = "ending"])
  /\ UNCHANGED <<pc, at, delivered, restored, tools>>

(* Mutant: finishRun() keeps activeRun. *)
StillActive(r) == [r EXCEPT !.stage = "idle", !.aborted = FALSE]

FinishRun(r) ==
  [r EXCEPT !.stage = "idle", !.aborted = FALSE, !.runner = Nobody]

(* agent_end has been handled: finishRun(), and what follows the run.      *)
RunEnds(s) ==
  LET r == sess[s] IN
  /\ r.stage = "ending"
  /\ PostRun(r.runner, FinishRun(r))
  /\ UNCHANGED <<at, delivered, restored, tools>>

-----------------------------------------------------------------------------
(* abort(), clearQueue(), dispose(): what they do to a session             *)

Cut(s) == {m \in Messages : pc[m] = "sleeping" /\ sess[s].sleeper = m}

Aborted(r) == [r EXCEPT !.aborted = r.runner # Nobody]

Cleared(r) ==
  [r EXCEPT !.shown = [k \in Channels |-> <<>>],
            !.queue = [k \in Channels |-> <<>>]]

Texts(r) == UNION {{r.shown[k][i] : i \in DOMAIN r.shown[k]} : k \in Channels}

SessionStep(m) ==
  \/ Handled(m)
  \/ \E k \in Channels : Queue(m, k)
  \/ Preflight(m)
  \/ StartRun(m)
  \/ CompactionEnds(m)
  \/ RecoveryEnds(m)
  \/ Wakes(m)

RunStep(s) ==
  \/ Inject(s)
  \/ InitialPoll(s)
  \/ Respond(s)
  \/ PollQueues(s)
=============================================================================
