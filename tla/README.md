# A verification project for pi-vscode-extension

TLA+ models of the parts of this repository whose correctness depends on the order
in which things happen, TLC runs that check them on small instances, and proofs
that TLAPS checks for every value of the constants.

Run everything from this directory:

    tlc -workers 2 -config AgentLoop_batches.cfg MCAgentLoop
    tlapm AgentLoopProofs.tla

## 1. The system

The repository is a coding agent and its front ends, in TypeScript, all of it on
one JavaScript thread per process: two pieces of code interleave at `await`, at a
callback or at a message, and nowhere else.

| Part | Source | State it keeps | Operations | Talks to |
|---|---|---|---|---|
| Agent run loop | `packages/agent/src/agent.ts`, `agent-loop.ts` | transcript, steering and follow-up queues, active run with its abort signal, the loop's pending messages, context and new messages, pending tool calls | `prompt`, `continue`, `steer`, `followUp`, the clear methods, `abort`, `reset`, and the loop: announce, poll, inject, request, respond, tool batch, end | stream function of a provider, tools, awaited listeners |
| Agent session | `packages/coding-agent/src/core/agent-session.ts` | the agent, a displayed mirror of the queues, retry counter, compaction and run flags | `prompt`, `steer`, `followUp`, `abort`, `compact`, retry, `clearQueue` | agent (listener and caller), session log, extensions |
| Session log | `core/session-manager.ts` | a tree of entries, its leaf, the file and whether it was flushed | append, branch, fork, resume | file system |
| Mutating VS Code tools | `packages/vscode-extension/src/tools` | what a call planned on | plan, confirm, look again, write, save | VS Code's editors and file system, approval controller |
| Approval controller | `edit-approval-controller.ts` | pending prompts, approval mode | confirm, resolve one, resolve all, cancel | tools (a promise each), chat view (messages) |
| Chat view | `chat-view-provider.ts`, `webview/script.ts` | the view, prompts shown and reviewed, transcript, session list | handle a message, post an event, open, close | approval controller, agent service |
| Agent service | `pi-agent-service.ts` | session, running flag, permission mode, subscription | ensure, dispose, send, abort, switch session | agent session, chat view |
| File mutation queue | `core/tools/file-mutation-queue.ts` | a promise chain per file | run an operation behind the earlier ones | built-in `edit` and `write` |
| MCP connections | `packages/mcp-adapter/src/server-manager.ts`, `session-recovery.ts` | connections, shared connect/reconnect/close promises, close generations, requests in flight | connect, reconnect, refresh, close, close all | MCP servers, lifecycle, tools |
| MCP lifecycle | `lifecycle.ts`, `runtime-owner.ts`, `init.ts` | retry states, health check and convergence in progress | check, back off, idle shutdown, shutdown | MCP connections |
| MCP authorization | `mcp-auth-flow.ts`, `mcp-auth.ts`, `mcp-callback-server.ts` | flows in progress, token file | start, callback, refresh, cancel | browser, authorization server |
| Everything else | model providers, terminal UI, settings, packages, extensions, command-line modes, agent harness | | | |

What is hard, and what makes each part correct:

- **Run loop.** Callers enqueue, abort and reset between any two steps of a run;
  a parallel batch ends its tools in any order; callbacks and listeners throw.
  Correct means: messages are delivered in order, once and where they belong;
  every tool call is answered, in place; calls that must not run do not; the
  three copies of the conversation agree; a run always ends.
- **Tools and approval.** Between the text a user reviewed and the write lie a
  prompt of any length, other calls of the batch and the user's own edits; a click,
  a closed view, a lost message, a mode change and stop race to settle the prompt.
  Correct means: only reviewed text is replaced, a prompt is answered once and is
  never invisible, nothing hangs on a closed view.
- **Session and service.** Conditions are read before an `await` and used after it
  (streaming or not, which session, which mode), a run, its retry and a compaction
  follow each other with gaps in which an abort or a prompt must not be lost.
- **MCP.** Shared attempts, generations that fence late results, counters of a
  connection that has been replaced, retries with backoff, shutdown in the middle.

`PROJECT.json` lists the hazards one by one, each at its line, with the properties
that cover it, or a note that says why none does.

## 2. The modules

| Module | Stands for |
|---|---|
| `AgentLoop` | class `Agent` and `runLoop` with its tool batches |
| `Mailbox` | what the queues promise to a sender, without saying how (abstract) |
| `AgentLoopMailbox` | `AgentLoop` mapped to `Mailbox`: the refinement |
| `AgentLoopProofs`, `AgentLoopOrderProofs`, `AgentLoopBatchProofs` | theorems about `AgentLoop` |
| `AgentLoopMailboxProofs` | the proof of the refinement |
| `EditApproval` | the five mutating tools, `EditApprovalController`, the prompts and messages of the chat view |
| `EditApprovalProofs` | theorems about `EditApproval` |
| `AgentSession` | class `AgentSession`: prompts, displayed queues, what follows a run; the run itself in short |
| `ChatService` | class `PiAgentService` and the chat view's messages to it, over the sessions of `AgentSession` (EXTENDS it) |
| `ChatServiceProofs`, `ChatDeliveryProofs` | theorems about `ChatService` and the sessions below it |
| `McpConnections` | `McpServerManager` for one server, with tool calls, session recovery, keep-alive and shutdown |
| `McpConnectionsProofs` | theorems about `McpConnections` |
| `MCAgentLoop`, `MCAgentLoopMailbox`, `MCEditApproval` | constants and symmetry for TLC |

In every module a step is the code between two awaits at which something else can
run. A definition whose comment begins with "Mutant" is a plausible mistake in the
definition below it; `PROJECT.json` says which property notices it.

### AgentLoop

`pc` is where the active run is; `idle` means `activeRun` is undefined.

- *Starting.* `Prompt`, `ContinueQueued` and `ContinueTranscript` are the three ways
  into `runWithLifecycle`; `BeginRun` is what they share. `skipPoll` is the flag
  `createLoopConfig` closes over.
- *The loop.* `Announce`, `InitialPoll`, `Inject`, `Request`, `Respond`,
  `PollSteering`, `PollFollowUp` and `FinishRun` follow `runLoop` from top to bottom.
  `Emit` is `message_end`: `processEvents` appends to the transcript, then listeners
  see the message. `Keep` is the loop's own `currentContext` and `newMessages`.
- *Tool batches.* `StartCall`, `RefuseCall`, `AdmitCall`, `LaunchCalls`,
  `CompleteCall`, `RecordResult` and `EndBatch` cover the sequential, the parallel
  and the truncated batch; `mode` says which.
- *Failures.* `LoopFault` is an exception of a configured callback or of the stream
  function, `ListenerFault` one of a listener, `FailRun` is `handleRunFailure`,
  `OrphanEnds` the end of a tool whose batch was abandoned.
- *Callers.* `Enqueue`, `Clear`, `SetMode`, `Abort`, `Reset` come at any time;
  `DropFailure` is the one thing `AgentSession._prepareRetry` does to the transcript.

A user message is its channel and number, an assistant message its turn, stop reason
and number of calls, a result the call it answers and how it went. Texts, images,
usage, streamed deltas and the display fields are left out. The provider is external:
`Answers` says that a request made after the abort cannot succeed and that `aborted`
needs the signal. `prepareNextTurn` may replace the context; its users in this
repository keep the messages, and so does the model. `shouldStopAfterTurn` is never set by `Agent`.
A sequential batch because one of its tools demands it and one because of the setting
are the same batch. The bounds are the seven `Max...` constants.

### EditApproval

`phase[c]` is where the tool call `c` is, from `new` to one of `Ended`.

- *Planning.* `Begin`, `Read` (one await per file), `Confirm` (reads the mode),
  `Register` (after the review files are written; posts the prompt).
- *Decision.* `Decide` is `resolveApproval` for one prompt or for all; `CancelLost`,
  `Handle` and `CloseView` are its callers. `post` is the message `approvalRequested`
  on its way to the view.
- *View.* `shown` and `reviewed` live in the page and die with it; `Offered` are the
  buttons it enables; `Click` puts a message into `inbox`, and `Handle` takes it out
  later. "stop" also stands for a new chat and a change of permission mode, which
  reject the prompts in the same way.
- *Change.* `ApplyEdits`, `ApplyRename`, `Recheck`, `Write`, `DeleteFile`, `Save`,
  `Refuse`, `Fail`. `overwrote` and `raced` are history: what a call replaced, and
  which calls had a file change between their second look and their write.
- *World.* `UserChange` is external.

A file's text is one value; what a call proposes is the call itself. An editor's
buffer and the file on disk are not told apart, `applyEdit` of VS Code is one step
(it is atomic for text edits), and a directory's text is its listing, which is all
that `scanDirectory` compares. A rename is one reading of each file, although the
provider answers before the previews are read. Calls may begin after stop: a parallel
batch that was admitted does not look at the signal again.

### AgentSession and ChatService

`ChatService` is checked; `AgentSession` is the part of it that would be the same
under another front end. `pc[a]` is what a message (`Messages`) or another request of
the chat view (`Orders`) is doing, `at[a]` the session it does it with, `sess[s]` the
fields of that session and of its agent.

- *Prompts.* `Send` enters the session there is or goes to make one. From `input` a
  prompt is `Handled` by a command, queued (`Queue`, when `_isAgentRunActive`), or goes
  to `Preflight` and from there to `StartRun`, which is where the agent refuses a second
  run (`Busy`).
- *Runs.* `Inject`, `InitialPoll`, `Respond`, `PollQueues` and `RunEnds` are what
  `AgentLoop` has in detail, with what `_handleAgentEvent` does at each event. A response
  stands for its tool batch.
- *After a run.* `PostRun` is `_handlePostAgentRun` with `_prepareRetry`;
  `CheckCompaction`, `CompactionEnds` and `RecoveryEnds` are the automatic compaction and
  the recovery from a full context; `Wakes` and `RetryCancelled` end the sleep before a
  retry; `Continue` is `agent.continue()` with its three cases; `Settle` and `Settled`
  are `_emitAgentSettled` before and after the extensions' handlers.
- *Sessions.* `BeginCreating`, `Reloaded`, `Created`, `CreateFails` are `ensureSession`:
  the custom tools are made for the mode before its first await, the built-in ones are
  chosen after a later one, so `kit` records two modes. Two callers can be on their way at once.
- *Orders.* `todo` is the rest of an order's work: `Stop`/`Stopped`, `OrderClears`,
  `ChangeMode`, `Dispose`/`Disposed`, `OrderEnsures`, combined by `Works` into the view's
  messages (stop, clear the queue, change the mode, new chat, other chat).
- *Scheduling.* What the end of a promise sets off runs before the next event
  (`Reactive`).

Left out: texts are distinct, so equal texts in both queues are not confused; the
queues drain one message at a time, their default; handlers of extensions may take time
but neither throw nor send; reading the files a prompt mentions is sending later; plan mode
has the tools of ask mode; a new session has a transcript of its own, so the session
file and resuming from it are not modelled; the compaction before a prompt is part of
`preflight`, and the `/compact` command, which the extension does not offer, is not modelled.
`MaxSessions`, `MaxRetries` (a setting) and `MaxTools` are the bounds; when
`MaxSessions` are made, making another one fails.

### McpConnections

One server, because the manager keeps every state by server name. A connection is its
number. `pc[a]` is where a tool call, the keep-alive check (`Keeper`) or the shared
reconnect (`Recon`) is.

- *Connecting.* `Connect`, `Unblocked` and `JoinOrStart` are `connect()` before and after
  it waited for a close; `Handshake`, `AttemptSettles`, `AttemptFails` and `DisposeEnds`
  are `createConnection()` and what `connect()` does with its outcome. `fenced` stands for
  the generation that `close()` has passed, `doomed` for an abort that the attempt will notice.
- *Closing.* `Closed` is `close()` up to its first await, `CloseEnds` its end, `Drops`
  the peer's close, `LosesSession` a server that restarts.
- *Reconnecting.* `Reconnects` joins or begins the shared reconnect, `ReconCloses`,
  `ReconFinds`, `ReconConnects`, `ReconEnds` are `doReconnect()`.
- *Calls.* `Begins` is `lazyConnect()`; `Sends` to `Breaks` follow one request; `Recovers`,
  `GivesUp` and `Retries` are `withSessionRecovery()`; `Cancels` is the call's signal.
- *Keep-alive.* `ChecksClosed`, `ChecksOpen`, the `Refresh...` actions, `FindsSuperseded`,
  `KeeperRecovers`, `KeeperEnds` are one check with its retry record; `RetryDue` is the
  backoff, whose delays are left to chance.
- *Shutdown.* `Stops`, `Fences`, `ClosesRest`, `Stopping` are `owner.stop()`, which waits
  for the check, and `closeAll()`.
- *Tools.* `ListChanges` and `ListAnnounced` are the server's list and its
  announcement; `revision` is `toolsRevision`.

Left out: OAuth (a server that asks for it is `needs-auth`), resources and prompts,
and the count of requests in flight: an idle close is a close at any time, which is more than
the code does. A client that fails to close is taken for closed. How the MCP SDK fails
the requests of a closed client is external. The code's own peculiarities are kept: a
fenced connection is handed to those who joined the attempt, the abort of the caller that
began an attempt fails all that joined, an announcement during discovery is lost, and
`closeAll()` waits neither for an earlier close nor for an attempt being disposed of.

## 3. What is checked

| Run | Instance | Shows |
|---|---|---|
| `agent_batches` | one run, two batches of two calls, a prompt of two messages, one steering message, one follow-up | types; results complete and in place; refused and truncated calls never run; pending calls exact; context, transcript and new messages agree; a follow-up never splits a batch from its answer; nothing starts after an abort in a sequential batch |
| `agent_queues` | two runs, two steering messages, one follow-up, both drain modes and changes between them, callbacks throw | messages in order and once; a failed run is over; `AgentLoop` implements `Mailbox`; the loop itself loses nothing |
| `agent_faults` | two runs, a parallel batch of two, callbacks and listeners throw anywhere, one reset | what was emitted stays well formed; every run ends |
| `approval_files` | two calls of any tool, two files, one user change, one click | only the reviewed text is replaced |
| `approval_prompts` | two calls, two clicks, the view closed twice, faults | a prompt can be answered or is about to be cancelled; it is answered once; a dangerous change needs its review; nothing hangs on a closed view |
| `chat_service` | two messages, one other request of the view, three sessions, one retry, one tool call (907,581 states) | a message is delivered at most once, is never lost once accepted, and never left in a session at rest; the displayed queue is the queue; tools match the mode; everything comes to rest |
| `mcp_connections` | one call, the keep-alive check and the shutdown; two faults, hence three connections (41,264 states) | no client is orphaned; nothing begun before a close becomes current after it; a call is carried out at most once; recovery spares what works; tool lists never go back; every call ends, a kept-alive server comes back |
| `agent_idle` | listener faults, one parallel batch | violation: an idle agent still runs tools |
| `approval_danger` | three calls, one click | violation: Apply all approves a deletion |
| `approval_auto` | one call, one click | violation: auto mode prompts |
| `approval_batch` | two writes of one file | violation: the later write loses the earlier |
| `approval_stop` | one call, one click | violation: the reply waits for a prompt registered after stop |

**Why the bounds are enough.** Order and duplication need two messages of a channel.
A batch needs two calls to end out of order and a second batch to find state of the
first; two runs are needed for what one leaves to the next. Approvals race in pairs,
and the third call in `approval_danger` is needed because Apply all appears only when
two prompts are shown. Two clicks are enough for a late click to meet a settled prompt.
Of messages of the chat, one runs while the other is
queued, prompts beside it or creates a second session; one order crosses them at any step;
the third session is for two that are made at once and one after. One retry shows the
sleep, its cancellation and the attempt after it. In `mcp_connections` two faults let one
connection fail and its replacement too, and a close or cancellation meet either; a second caller is
there in the keep-alive check. By hand, without change of the result: `McpConnections` with
two calls and two faults (507,000 states) and with one call and three faults, and the
invariants of `ChatService` with three messages and no order (2.9 million states).
Deadlock is not checked: an idle agent, and tools that all have ended, are supposed to stop.

**Fairness.** `AgentLoop!FairSpec` takes the next step of a run whenever there is one
(`WF_vars(Loop)`): the event loop runs what is ready. It includes that a provider ends
its stream and that a tool returns, without which no run could be promised to end; no
fairness is put on callers or on faults. `EditApproval!FairSpec` has `WF_vars(Host)`,
the host's own steps; nothing makes the user click, edit or open the view.
`ChatService!FairSpec` has `WF_vars(Host)` for the same reason: responses, sleeps and the
loading of resources end; no user and no fault is made to act. `McpConnections` has one
fairness condition per actor. It is strong, because an event waits for the reactions of
the one before and is handled after them; a step is thus disabled now and then but not
passed over for ever. That the network answers or fails, and that timers fire, is part of it; that
a server drops, restarts or announces is not.

**Violations** are disagreements between the code and what the repository says of it;
the findings in `PROJECT.json` quote both sides.

- A listener that throws at an event of one tool of a parallel batch ends the run
  (`Promise.all` rejects) and lets `waitForIdle()` resolve while the other tools run.
- Three of the others have one root: a condition is read before an `await` and not
  after it. Apply all approves what is pending when its message is handled; the mode is
  read before the review files are written; stop rejects only the prompts already
  registered, and waits for a run that may wait for a prompt registered after it.
- `vscode_write_file` compares and then writes in later awaits, outside the per-file
  queue that the extension guide asks for.

**Known disagreements without a run.** Met while modelling the session and the service,
reproduced with TLC by hand, and excepted where a property of `chat_service` would speak of
them. `ChatService` behaves as the code does in each.

- `vscode-extension/README.md:62` has messages queue up while the agent is busy, without loss. Two
  messages sent while the first is still in `ensureSession` or before its run both go to
  start a run; the second is refused ("already processing", `agent.ts:340`), its text is gone, and
  its failure clears `running` and `_isAgentRunActive` while the first still runs, so that
  stop does nothing (`pi-agent-service.ts:305`). `NothingLost` is about accepted prompts.
- `vscode-extension/README.md:64` has stop give queued messages back. While stop waits for
  the session to be idle, the polls of the aborted run, or the continuation of a cancelled
  retry, still take them; only what is left is given back.
- `vscode-extension/README.md:40` has ask mode change no files. A mode that is changed
  while `ensureSession` waits leaves a session with the tools of the old mode (`crossed` in
  `ToolsMatchMode`). A session disposed of while it sleeps before a retry (`running` is
  already false) goes on with queued messages and its old tools.
- Two prompts that race through `ensureSession` make two sessions; the first stays
  unreferenced with its listener attached.
- An extension's command or `input` handler takes a prompt and returns without
  `agent_end` (`agent-session.ts:1126`, `1142`), which leaves `running` set.
- `clearQueue()` between a drain and `message_start` gives a message back that is also
  delivered.
- A response cut off by a full context (`agent-session.ts:1984`) is treated as retryable
  after compaction, but the rebuilt transcript keeps it (`2191` drops only errors), and
  `agent.continue()` refuses a transcript that ends in an answer, against the comment at
  `1979`.
- Disposing of a session drops its queued messages without a word.

## 4. What is proved

All theorems hold for every value of the constants that satisfies the `ASSUME` of the
module (bounds are naturals, modes are known modes, special values are distinct from the
others), not only for the instances above.

- `AgentLoopProofs!TypeCorrect`: `Spec => []TypeOK`. One lemma per group of actions.
- `AgentLoopOrderProofs!DeliveryOrder`: `Spec => []DeliveredInOrder`. The property is
  not inductive: it needs to know where messages still are. The strengthening says
  that for each channel the numbers in the log, then those in `pending`, then those in
  the queue form one increasing line bounded by `sent`; draining moves a boundary of
  the line, emitting moves the other, clearing and abandoning cut it.
- `AgentLoopBatchProofs`, everything else the runs check of the loop but that it ends:
  - `BatchesInPlace` (`ResultsInPlace`, `OnlyWholeResponsesRunTools`). `LogInv` says what the
    batch under way has written: while `pc` is `tools`, the log ends in the assistant message
    of this turn followed by exactly `recorded` results, and every turn in the log has been
    counted, so a new answer cannot be taken for an old one.
  - `FailuresEndRuns` (`FailureIsFinal`): nothing failed is in the run's part of the log
    until `pc` is where only failures are emitted.
  - `ThreeCopiesAgree` (`CopiesAgree`). At every place, and not only where the lists are
    handed out, `CopyInv` says by what they differ: the prompts not yet announced, or the
    results of the batch that are emitted and not yet kept.
  - `RequestsAreAnswered` (`CallsAnswered`). A batch that the abort cut short leaves calls
    unanswered. The invariant speaks of runs whose signal is not aborted, at every place,
    and of `stream`, which is entered only from there: later requests are `doomed`.
  - `PendingIsRunning` (`PendingCallsExact`). Abandoned tools that still run belong to earlier
    turns or to a run that failed, so the end of one of them removes nothing of this batch.
  - `FollowUpsWait` (`FollowUpWaits`): follow-ups are drained only behind a batch that
    terminated or behind an answer, and with a follow-up drained that stays so until it is emitted.
  - `AbortsHold` (`AbortStartsNothing`), an action property, from the same `LogInv`: in a
    sequential batch the only call that can be admitted is behind the abort check.
  - `IdleIsQuietWithoutFaults`: if no listener throws, `IdleIsQuiet` holds. With the run `agent_idle`
    it says that a throwing listener is the one cause of that disagreement.
- `AgentLoopMailboxProofs`, the refinement:
  - `OnlyListenersBreakIt`: every step, except the throw of a listener, is a step of
    `Mailbox` or leaves it as it is. `LoopIsAMailbox` (`Spec => KeepsPromise`) and
    `NothingIsLost` (`Spec => LosesNothing`) follow under `ListenerFaults = FALSE`. The
    hypothesis is needed and is part of what the properties say: the loop drops the
    messages it has drained when a listener throws.
  - The proof reads a channel's waiting messages as a `Line`: what was drained, if it is of
    this channel, then the queue. `LineInv` says that what is drained is of one channel, which
    makes the line a list of whole pieces. Draining leaves every line as it is; announcing and
    injecting take the first message off one; `steer()` and `followUp()` add at its end;
    `prompt()` finds its line empty, because an idle loop has drained nothing; clearing cuts a
    line back to what was drained.
  - `Numbers`, which reads a channel's numbers off a list, is defined by counting places
    and not with `SelectSeq`, which the prover does not know. `MCAgentLoopMailbox` assumes
    that the two agree (`NumbersSelect`), and TLC evaluates this on all lists of up to four
    sample messages.
- `EditApprovalProofs!TypeCorrect`: `Spec => []TypeOK`.
- `EditApprovalProofs!ReviewedIsReplaced`: `Spec => []ReviewedTextIsReplaced`. The
  strengthening `CheckedIsFresh` says that a call that has looked again, and whose
  files nobody changed since, still finds the text it planned on.
- `EditApprovalProofs!PromptsVisible`: `Spec => []NoInvisiblePrompt`, with an invariant
  that ties the view's prompts to it being open.
- `EditApprovalProofs!AnsweredOnce` (`ApprovedOnce`): a decision stands from the moment it
  is made; a decided call is not before or at its prompt, and one that is about to write
  was approved (`AnswersStand`). Clicks that arrive late are in `inbox`, and handling them decides only what is pending.
- `EditApprovalProofs!ButtonsAreInformed` (`ButtonNeedsReview`): between a click on a
  button and its handling the message lies in `inbox`. `ApplyInformed` says that a call that
  such a message approves, if it is still pending and dangerous, is marked as reviewed, and that
  what makes it dangerous changes no more.
- `McpConnectionsProofs`: `TypeCorrect`, `Bookkeeping` (`NoOrphan`, `FreshAfterClose`,
  `OneAtATime`), `SingleExecution` (`AtMostOnce`), `RecoveryIsSparing`
  (`RecoverySparesTheLive`), `ShutdownHolds` (`ShutdownIsFinal`) and `ToolsAdvance`
  (`ToolsOnlyAdvance`). The invariant has four parts besides the types: `Linked` ties
  the attempt, the current and the closing connection to what is open and to the last close,
  `Quiet` says that no close begins while reactions to the end of one are due, `Once` that a
  call which may still be sent again was not carried out, and `Stale` that whoever asks
  for a reconnect names a connection of no use. For the shutdown, `Ended` says that from the last
  close on nothing is current and no attempt can still succeed. For the tool lists, `ToolsKnown` bounds an answer
  on its way by the list and the revision it was asked at.
- `ChatServiceProofs`: `TypeCorrect`, `NoneStranded` (`NothingStranded`) and
  `ToolsOfTheMode` (`ToolsMatchMode`), from `SessionAssumption`. `Links` ties runs to the prompts
  that own them: a run belongs to the one prompt that is `running` there, a session that counts as
  active has a prompt at work, and what follows a run knows its outcome. With it, whoever
  settles has looked at the queue after the last await. `Service` says what a
  caller on its way to a session has read of the mode.
- `ChatDeliveryProofs`: `EachDeliveredOnce` (`DeliveredOnce`), `QueueIsShown` (`QueueShown`)
  and `NoneLost` (`NothingLost`), from the invariant above and four more parts. `Once`: a
  message is in at most one place of one session, and there it has been sent and not delivered.
  `Displays`: the displayed lists equal the queues, but for what one run has taken. `Kept`: an
  accepted message is in a place of its session, was delivered or was restored. `Living`:
  the session in use is not disposed of, so that clearing it, which gives back the displayed
  texts, gives back all that is queued. Each action is shown to move messages `Forward`.

The inductive invariants were first checked by TLC on the instances of section 3, then proved.

Every safety invariant and action property that a passing run checks is thus a theorem.
Only model-checked is liveness: `RunEnds`, `ClosedViewSettles`, `ComesToRest`, `CallsEnd` and
`KeepsAlive` hold under fairness, whose `ENABLED` the prover cannot expand. That `Numbers`
agrees with `SelectSeq` would be an induction over lists and is checked on bounded lists. The
runs that expect a violation have nothing to prove; for `agent_idle` the theorem
`IdleIsQuietWithoutFaults` says when the property does hold.

## 5. What is not modelled, and the plan

`PROJECT.json` lists every part with its status. Planned, in this order:

1. `FileMutationQueue`: mutual exclusion per key, and per file while its key can change
   between two calls (a link that is made or removed). Theorem: two operations with one
   key do not overlap.
2. `SessionLog`: the deferred first write, crash and resume; what is on disk is a prefix
   of what was appended. With it `ChatService` can resume a transcript.
3. Requests in flight and the idle close in `McpConnections`; then the authorization
   flows, which share a callback server and a token file.
4. The `/compact` command in `AgentSession`, which leaves the agent's events before it
   aborts the run, and batches of queued messages (drain mode "all").
5. `EditPlanning` and the choice of where to cut a transcript, as operators checked against a
   reference definition over bounded inputs.

Proofs to come: the conditions under which `ApplyAllSparesDanger`, `AutoNeverAsks` and
`BatchLosesNothing` do hold, as for `IdleIsQuiet`, and what the liveness arguments rest on that is
not temporal, such as a measure that every step of a run decreases.

Left out for good: model providers, terminal UI, settings, packages and command-line
modes, whose work is translation of formats, rendering and I/O; and the agent harness,
a second owner of the run loop that the extension does not use.
