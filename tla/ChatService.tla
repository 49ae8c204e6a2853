------------------------------ MODULE ChatService -----------------------------
(***************************************************************************)
(* Class PiAgentService of the VS Code extension (pi-agent-service.ts)     *)
(* with the messages of the chat view that reach it (chat-view-provider.ts)*)
(* over the sessions of AgentSession: creating a session while messages    *)
(* and orders arrive, the running flag, stop, clearing the queue, the      *)
(* permission mode, a new chat and another chat.                           *)
(*                                                                         *)
(* An order is a message of the view other than "send"; todo is what it    *)
(* still has to do.  Plan mode has the tools of ask mode.  The session     *)
(* file is not modelled: a new session begins with a transcript of its own.*)
(***************************************************************************)
EXTENDS AgentSession

VARIABLES
  mode,    \* permissionMode
  current, \* this.session
  running, \* this.running
  kit,     \* the modes the tools of that session were made and chosen for
  made,    \* sessions made so far
  plan,    \* what each caller read of the mode on its way to a session
  todo     \* what each order still has to do

serviceVars == <<mode, current, kit, running, made, plan, todo>>
vars == <<sessionVars, serviceVars>>

Modes == {"code", "ask"}
NoPlan == [custom |-> "code", builtin |-> "code", crossed |-> FALSE]

(* The view's orders, as the steps the host takes for them.                *)
Works ==
  {<<"stop">>, <<"clear">>, <<"mode", "dispose">>, <<"ensure">>,
   <<"ensure", "dispose", "ensure">>, <<"dispose", "ensure">>}

Init ==
  /\ sess = [s \in Sessions |-> Unused]
  /\ pc = [a \in Callers |-> "unsent"]
  /\ at = [a \in Callers |-> None]
  /\ delivered = [m \in Messages |-> 0]
  /\ restored = {}
  /\ tools = 0
  /\ mode = "code"
  /\ current = None
  /\ kit = NoPlan
  /\ running = FALSE
  /\ made = 0
  /\ plan = [a \in Callers |-> NoPlan]
  /\ todo = [o \in Orders |-> <<>>]

-----------------------------------------------------------------------------
(* ensureSession() *)

Creating(a) == pc[a] \in {"creating", "binding"}

(* createCustomTools() reads the mode before the first await ...           *)
BeginCreating(a) ==
  /\ Goes(a, "creating")
  /\ plan' = [plan EXCEPT ![a] = [NoPlan EXCEPT !.custom = mode]]
  /\ UNCHANGED <<sess, at, delivered, restored, tools,
                 mode, current, kit, running, made, todo>>

(* ... and the built-in tools are chosen after the resources are loaded.   *)
Reloaded(a) ==
  /\ pc[a] = "creating"
  /\ Goes(a, "binding")
  /\ plan' = [plan EXCEPT ![a].builtin = mode]
  /\ UNCHANGED <<sess, at, delivered, restored, tools,
                 mode, current, kit, running, made, todo>>

(* prompt() has its session.                                               *)
Enters(m, s) ==
  /\ Goes(m, "input")
  /\ at' = [at EXCEPT ![m] = s]
  /\ running' = TRUE

Created(a) ==
  /\ pc[a] = "binding"
  /\ made < MaxSessions
  /\ made' = made + 1
  /\ current' = made'
  /\ kit' = plan[a]
  /\ plan' = [plan EXCEPT ![a] = NoPlan]
  /\ \/ a \in Messages /\ Enters(a, made') /\ UNCHANGED todo
     \/ /\ a \in Orders /\ Goes(a, "ready")
        /\ todo' = [todo EXCEPT ![a] = Tail(@)]
        /\ UNCHANGED <<at, running>>
  /\ UNCHANGED <<sess, delivered, restored, tools, mode>>

(* Loading the resources or making the session throws.                     *)
CreateFails(a) ==
  /\ Creating(a)
  /\ \/ a \in Messages /\ Goes(a, "reported") /\ running' = FALSE
        /\ UNCHANGED todo
     \/ a \in Orders /\ Goes(a, "ready") /\ todo' = [todo EXCEPT ![a] = <<>>]
        /\ UNCHANGED running
  /\ UNCHANGED <<sess, at, delivered, restored, tools,
                 mode, current, kit, made, plan>>

-----------------------------------------------------------------------------
(* "send" *)

(* sendPrompt() once the files the text mentions are read: that may take  *)
(* time, and is the same as sending later.                                 *)
Send(m) ==
  /\ pc[m] = "unsent"
  /\ \/ /\ current # None
        /\ Enters(m, current)
        /\ UNCHANGED <<sess, delivered, restored, tools,
                       mode, current, kit, made, plan, todo>>
     \/ current = None /\ BeginCreating(m)

(* prompt() rejects: the error is shown.                                   *)
PromptFails(m) ==
  /\ PreflightFails(m)
  /\ running' = FALSE
  /\ UNCHANGED <<mode, current, kit, made, plan, todo>>

(* The event mapper's answer to agent_end and to agent_settled.            *)
Hears(s) == running' = (running /\ sess[s].gone)

RunEndHeard(s) ==
  /\ RunEnds(s)
  /\ Hears(s)
  /\ UNCHANGED <<mode, current, kit, made, plan, todo>>

SettledHeard(m) ==
  /\ Settled(m)
  /\ IF pc[m] = "failing" THEN running' = FALSE ELSE Hears(at[m])
  /\ UNCHANGED <<mode, current, kit, made, plan, todo>>

-----------------------------------------------------------------------------
(* The other messages of the view *)

Order(o) ==
  /\ pc[o] = "unsent"
  /\ Goes(o, "ready")
  /\ \E w \in Works :
       /\ Head(w) = "dispose" => ~running
       /\ todo' = [todo EXCEPT ![o] = w]
  /\ UNCHANGED <<sess, at, delivered, restored, tools,
                 mode, current, kit, running, made, plan>>

Doing(o, p) == todo[o] # <<>> /\ Head(todo[o]) = p
Did(o) == todo' = [todo EXCEPT ![o] = Tail(@)]

OrderEnsures(o) ==
  /\ pc[o] = "ready" /\ Doing(o, "ensure")
  /\ \/ /\ current # None /\ Did(o)
        /\ UNCHANGED <<sessionVars, mode, current, kit, running, made, plan>>
     \/ current = None /\ BeginCreating(o)

(* clearMessageQueue() of whatever session there is.                       *)
ClearsQueue ==
  IF current = None THEN UNCHANGED <<sess, restored>>
  ELSE /\ Becomes(current, Cleared(sess[current]))
       /\ restored' = restored \cup Texts(sess[current])

OrderClears(o) ==
  /\ pc[o] = "ready" /\ Doing(o, "clear")
  /\ ClearsQueue
  /\ Did(o)
  /\ UNCHANGED <<pc, at, delivered, tools, mode, current, kit, running, made, plan>>

(* session.abort(): the retry is cut short, the run is told, and the order *)
(* waits until the session is idle.                                        *)
Aborts(o, s) ==
  /\ Becomes(s, Aborted(sess[s]))
  /\ at' = [at EXCEPT ![o] = s]
  /\ pc' = [a \in Callers |->
             IF a = o THEN IF sess[s].active THEN "waiting" ELSE "idle"
             ELSE IF a \in Cut(s) THEN "cancelled" ELSE pc[a]]

(* abort() of the service returns at once when it believes nothing runs.   *)
Stop(o) ==
  /\ pc[o] = "ready" /\ Doing(o, "stop")
  /\ \/ /\ current # None /\ running
        /\ Aborts(o, current)
        /\ UNCHANGED <<delivered, restored, tools, serviceVars>>
     \/ /\ current = None \/ ~running
        /\ ClearsQueue
        /\ Did(o)
        /\ UNCHANGED <<pc, at, delivered, tools,
                       mode, current, kit, running, made, plan>>

Stopped(o) ==
  /\ pc[o] = "idle" /\ Doing(o, "stop")
  /\ running' = FALSE
  /\ ClearsQueue
  /\ Did(o)
  /\ Goes(o, "ready")
  /\ UNCHANGED <<at, delivered, tools, mode, current, kit, made, plan>>

OtherMode == IF mode = "code" THEN "ask" ELSE "code"

ChangeMode(o) ==
  /\ pc[o] = "ready" /\ Doing(o, "mode")
  /\ mode' = OtherMode
  /\ plan' = [a \in Callers |-> [plan[a] EXCEPT !.crossed = @ \/ Creating(a)]]
  /\ Did(o)
  /\ UNCHANGED <<sessionVars, current, kit, running, made>>

(* disposeSession() after the abort, of the session there is by now.       *)
(* Mutant: the session is kept for the next prompt. *)
KeepsSession(s) == current

NextSession(s) == None

Disposes(o) ==
  LET cut == IF current = None THEN {} ELSE Cut(current) IN
  /\ IF current = None THEN UNCHANGED sess
     ELSE Becomes(current, [Aborted(sess[current]) EXCEPT !.gone = TRUE])
  /\ pc' = [a \in Callers |->
             IF a = o THEN "ready" ELSE IF a \in cut THEN "cancelled" ELSE pc[a]]
  /\ current' = NextSession(current)
  /\ kit' = IF current' = None THEN NoPlan ELSE kit
  /\ running' = FALSE
  /\ Did(o)

Dispose(o) ==
  /\ pc[o] = "ready" /\ Doing(o, "dispose")
  /\ \/ /\ current # None /\ running
        /\ Aborts(o, current)
        /\ UNCHANGED <<delivered, restored, tools, serviceVars>>
     \/ /\ current = None \/ ~running
        /\ Disposes(o)
        /\ UNCHANGED <<at, delivered, restored, tools, mode, made, plan>>

Disposed(o) ==
  /\ pc[o] = "idle" /\ Doing(o, "dispose")
  /\ Disposes(o)
  /\ UNCHANGED <<at, delivered, restored, tools, mode, made, plan>>

-----------------------------------------------------------------------------
(* What a promise's end sets off runs before anything else.                *)
Reactive ==
  {a \in Callers : pc[a] \in {"cancelled", "idle"}}
    \cup {o \in Orders : pc[o] = "ready" /\ todo[o] # <<>>}

OrderStep(o) ==
  \/ OrderEnsures(o)
  \/ OrderClears(o)
  \/ Stop(o)
  \/ Stopped(o)
  \/ ChangeMode(o)
  \/ Dispose(o)
  \/ Disposed(o)

React ==
  \/ \E m \in Messages : RetryCancelled(m) /\ UNCHANGED serviceVars
  \/ \E o \in Orders : OrderStep(o)

Host ==
  \/ React
  \/ /\ Reactive = {}
     /\ \/ \E a \in Callers : Reloaded(a)
        \/ \E a \in Callers : Created(a)
        \/ \E a \in Callers : CreateFails(a)
        \/ \E m \in Messages : SessionStep(m) /\ UNCHANGED serviceVars
        \/ \E m \in Messages : PromptFails(m)
        \/ \E s \in Sessions : RunStep(s) /\ UNCHANGED serviceVars
        \/ \E s \in Sessions : RunEndHeard(s)
        \/ \E m \in Messages : SettledHeard(m)

User ==
  /\ Reactive = {}
  /\ \/ \E m \in Messages : Send(m)
     \/ \E o \in Orders : Order(o)

Next == Host \/ User
Spec == Init /\ [][Next]_vars
(* The event loop runs what is ready, a response and the loading of        *)
(* resources end.                                                          *)
FairSpec == Spec /\ WF_vars(Host)

-----------------------------------------------------------------------------
(* Properties *)

Pcs == {"unsent", "creating", "binding", "input", "preflight",
        "running", "sleeping", "cancelled", "compacting", "recovering",
        "recoveringCut", "settling", "failing", "ready", "waiting", "idle"}
       \cup Final
Stages == {"idle", "begin", "poll", "inject", "stream", "refused", "more",
           "stopped", "ending"}
Outcomes == {"none", "stop", "cut", "tools", "aborted"} \cup Errors
Records ==
  [active : BOOLEAN, runner : Messages \cup {Nobody}, stage : Stages,
   aborted : BOOLEAN, skip : BOOLEAN, pending : Seq(Messages),
   queue : [Channels -> Seq(Messages)], shown : [Channels -> Seq(Messages)],
   last : {"user", "assistant"}, outcome : Outcomes, attempt : 0..MaxRetries,
   recovered : BOOLEAN, sleeper : Messages \cup {Nobody}, gone : BOOLEAN]
Plans == [custom : Modes, builtin : Modes, crossed : BOOLEAN]

(* A run has an owner exactly while it is under way, and something to emit *)
(* exactly when it is about to.                                            *)
Sound(r) ==
  /\ r \in Records
  /\ r.stage = "idle" <=> r.runner = Nobody
  /\ Len(r.pending) = IF r.stage \in {"begin", "inject"} THEN 1 ELSE 0

SessionTypes ==
  /\ sess \in [Sessions -> Records]
  /\ \A s \in Sessions : Sound(sess[s])
  /\ pc \in [Callers -> Pcs]
  /\ at \in [Callers -> Sessions \cup {None}]
  /\ delivered \in [Messages -> Nat]
  /\ restored \subseteq Messages
  /\ tools \in 0..MaxTools

ServiceTypes ==
  /\ mode \in Modes
  /\ current \in Sessions \cup {None}
  /\ running \in BOOLEAN
  /\ made \in 0..MaxSessions
  /\ kit \in Plans
  /\ plan \in [Callers -> Plans]
  /\ todo \in [Orders -> Seq({"stop", "clear", "mode", "dispose", "ensure"})]

(* Types of the sessions, of what runs in them and of the service.         *)
TypeOK == SessionTypes /\ ServiceTypes

(* A message enters a transcript at most once, whichever of the two queues *)
(* it waits in, whatever becomes of the run that takes it and however many *)
(* sessions are made and disposed meanwhile (agent.continue() and the      *)
(* loop's polls both drain the queues).                                    *)
DeliveredOnce == \A m \in Messages : delivered[m] <= 1

(* Messages wait in the queue of a living session only while something is  *)
(* under way that will look at the queue again: a run, or a prompt that    *)
(* sleeps before a retry or compacts.  hasQueuedMessages() is asked after  *)
(* the last await before the session counts as settled.                    *)
NothingStranded ==
  \A s \in Sessions : HasQueued(sess[s]) =>
    \/ sess[s].gone
    \/ sess[s].runner # Nobody
    \/ \E m \in Messages :
         at[m] = s /\ pc[m] \in {"sleeping", "cancelled", "compacting",
                                 "recovering", "recoveringCut"}

(* The lists the user sees are the agent's queues, in order and each in    *)
(* its own kind, up to the message that a run has taken and is about to    *)
(* emit (queue_update).                                                    *)
QueueShown ==
  \A s \in Sessions : ~sess[s].gone =>
    \A k \in Channels :
      sess[s].shown[k] \in {sess[s].queue[k], sess[s].pending \o sess[s].queue[k]}

(* The session in use has the tools of the chosen mode, unless the mode    *)
(* changed while it was being made, or an order is about to dispose of it. *)
ToolsMatchMode ==
  \/ current = None
  \/ kit.crossed
  \/ kit.custom = mode /\ kit.builtin = mode
  \/ \E o \in Orders : Doing(o, "dispose")

AtRest ==
  /\ \A m \in Messages : pc[m] \in Final \cup {"unsent"}
  /\ \A o \in Orders : todo[o] = <<>>

Waits(m) ==
  LET r == sess[at[m]] IN
  \/ <<m>> = r.pending
  \/ \E k \in Channels : Has(r.queue[k], m)

(* A message whose prompt was accepted is in a transcript, was given back  *)
(* to the input, or waits in its session, whatever other prompts, aborts,  *)
(* retries and compactions do to that session.                             *)
NothingLost ==
  \A m \in Messages :
    pc[m] \notin {"unsent", "creating", "binding", "input", "handled",
                 "preflight", "failing", "reported"} =>
      delivered[m] > 0 \/ m \in restored \/ Waits(m)

(* Everything comes to rest again by itself: retries, recoveries from      *)
(* overflow and continuations for queued messages do not go on for ever,   *)
(* and whoever waits for a session to be idle is told.                     *)
ComesToRest == []<>AtRest
=============================================================================
