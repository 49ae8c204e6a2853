--------------------------- MODULE McpConnections ----------------------------
(***************************************************************************)
(* The connections of packages/mcp-adapter to one MCP server: class        *)
(* McpServerManager (server-manager.ts), the recovery of a lost session    *)
(* (session-recovery.ts), the keep-alive check and the shutdown            *)
(* (lifecycle.ts, runtime-owner.ts).  The manager keeps every state by     *)
(* server name and no operation but closeAll relates two names, so one     *)
(* server is enough.                                                       *)
(*                                                                         *)
(* An actor is a tool call, the keep-alive check or the reconnect that     *)
(* callers share.  Promise reactions run before the next event, so an      *)
(* event (network, timer, user) waits until no actor is Reacting.          *)
(*                                                                         *)
(* A connection is its number; the requests of an actor are not told       *)
(* apart.  A client that fails to close is taken for closed, and the       *)
(* callbacks of the keep-alive check do not throw.                         *)
(***************************************************************************)
EXTENDS Integers, FiniteSets

CONSTANTS
  Calls,      \* tool calls
  MaxFaults   \* bound: failures, closes, cancellations, lost sessions and
              \* changes of the server's tool list

Keeper == "keep-alive"
Recon == "reconnect"
Actors == Calls \cup {Keeper, Recon}
None == 0

(* Every attempt after the first follows a fault that ended the one before. *)
Ids == 1..(MaxFaults + 1)
NoRetry == [on |-> FALSE, conn |-> None, status |-> "none", due |-> FALSE]

ASSUME ConstantsAssumption ==
  /\ MaxFaults \in Nat
  /\ Keeper \notin Calls /\ Recon \notin Calls

VARIABLES
  made,     \* connections ever begun; the next one is made + 1
  open,     \* the clients that are open or being opened
  status,   \* ServerConnection.status
  session,  \* the connections whose session the server knows
  current,  \* connections.get(name)
  attempt,  \* the connection connectPromises.get(name) stands for
  phase,    \* of the attempt: connecting, discovering, or disposing of it
  starter,  \* the caller of connect() that runs the attempt
  fenced,   \* attemptController aborted and generation passed by a close()
  doomed,   \* the attempt saw its signal aborted and will reject
  closing,  \* the connection closePromises.get(name) stands for
  floor,    \* connections begun before the last close()
  reconFor, \* the caller whose signal the shared reconnect uses
  pc,       \* what each actor does
  at,       \* the connection it does it with
  retried,  \* the calls whose session was found lost once
  served,   \* how often the server carried out each call
  cancelled,\* the calls whose own signal is aborted
  retry,    \* the keep-alive check's retryStates.get(name)
  catalog,  \* the server's tool list, as a version
  tools,    \* the version each connection knows
  revision, \* toolsRevision of each connection
  asked,    \* the revision a refresh in flight has seen
  answer,   \* the list its answer carries; None while there is none
  shutdown, \* how far owner.stop() has come
  faults    \* faults so far

attemptVars == <<attempt, phase, starter, fenced, doomed>>
begunVars == <<made, open, session, attemptVars>>
heldVars == <<status, current, closing, floor>>
toolVars == <<catalog, tools, revision, asked, answer>>
callVars == <<retried, served, cancelled>>
vars == <<begunVars, heldVars, reconFor, pc, at, callVars, retry, toolVars,
          shutdown, faults>>

-----------------------------------------------------------------------------
(* Reading the state *)

Aborted == shutdown # "up"                               \* runtimeSignal.aborted
Stopped == shutdown \in {"stopping", "closing", "down"}  \* manager.stopped
StatusOf(i) == IF i = None THEN "none" ELSE status[i]
Connected(i) == StatusOf(i) = "connected"
Reactions == {"unblocked", "freed", "begin", "got", "threw", "lost", "regot"}
Event == \A a \in Actors : pc[a] \notin Reactions
SignalAborted(a) ==
  \/ Aborted
  \/ a \in cancelled
  \/ a = Recon /\ reconFor \in cancelled
Running == attempt # None /\ phase # "disposing"
Waiting(p) == {a \in Actors : pc[a] = p}
Fault == faults < MaxFaults /\ faults' = faults + 1

(* Where actors go when what they await is settled. *)
Goes(as, p) == pc' = [a \in Actors |-> IF a \in as THEN p ELSE pc[a]]
Move(as, p, i) ==
  /\ Goes(as, p)
  /\ at' = [a \in Actors |-> IF a \in as THEN i ELSE at[a]]

-----------------------------------------------------------------------------
(* connect() *)

Throws(a) == Goes({a}, "threw") /\ UNCHANGED <<at, begunVars>>

(* The part after `await closing`: join the attempt, use what is connected, *)
(* or begin an attempt.  A promise that has resolved is joined too.         *)
JoinOrStart(a) ==
  \/ /\ SignalAborted(a)
     /\ Throws(a)
  \/ /\ ~SignalAborted(a) /\ attempt # None
     /\ Move({a}, IF phase = "disposing" THEN "got" ELSE "waitAttempt", attempt)
     /\ UNCHANGED begunVars
  \/ /\ ~SignalAborted(a) /\ attempt = None /\ Connected(current)
     /\ Move({a}, "got", current)
     /\ UNCHANGED begunVars
  \/ /\ ~SignalAborted(a) /\ attempt = None /\ ~Connected(current)
     /\ made' = made + 1 /\ made' \in Ids
     /\ open' = open \cup {made'}
     /\ session' = session \cup {made'}
     /\ attempt' = made' /\ phase' = "connecting" /\ starter' = a
     /\ fenced' = FALSE /\ doomed' = FALSE
     /\ Move({a}, "waitAttempt", made')

(* Mutant: connect() does not wait for the close in progress. *)
ConnectAtOnce(a) == IF Stopped THEN Throws(a) ELSE JoinOrStart(a)
Connect(a) ==
  \/ /\ Stopped \/ SignalAborted(a)
     /\ Throws(a)
  \/ /\ ~Stopped /\ ~SignalAborted(a) /\ closing # None
     /\ Goes({a}, "waitClose")
     /\ UNCHANGED <<at, begunVars>>
  \/ /\ ~Stopped /\ closing = None
     /\ JoinOrStart(a)

Connects(a) ==
  /\ Connect(a)
  /\ UNCHANGED <<heldVars, reconFor, callVars, toolVars, shutdown, faults>>

(* The reaction to the end of the close that connect() waited for. *)
Unblocked(a) ==
  /\ pc[a] = "unblocked"
  /\ JoinOrStart(a)
  /\ UNCHANGED <<heldVars, reconFor, callVars, retry, toolVars, shutdown, faults>>

-----------------------------------------------------------------------------
(* createConnection() and the rest of connect() in the starter *)

AttemptFrame == UNCHANGED <<closing, floor, reconFor, callVars, retry, toolVars, shutdown>>

(* The handshake is over; from here on only the starter's signal aborts the *)
(* requests that discover tools, resources and prompts.  A change of the    *)
(* list that the server announces before the attempt is installed is lost.  *)
Handshake ==
  /\ Event
  /\ attempt # None /\ phase = "connecting" /\ ~doomed
  /\ phase' = "discovering"
  /\ tools' = [tools EXCEPT ![attempt] = catalog]
  /\ UNCHANGED <<made, open, session, attempt, starter, fenced, doomed, heldVars, reconFor,
                 pc, at, callVars, retry, catalog, revision, asked, answer, shutdown, faults>>

(* The attempt is taken out of the maps. *)
Forgotten ==
  /\ attempt' = None /\ phase' = "connecting" /\ starter' = Keeper
  /\ fenced' = FALSE /\ doomed' = FALSE
Shut(i) == open' = open \ {i} /\ UNCHANGED session

(* Mutant: the attempt is installed although a close() passed it. *)
InstallAnyway ==
  /\ current' = attempt
  /\ Move(Waiting("waitAttempt"), "got", attempt)
  /\ Forgotten
(* Mutant: the promise of an installed connection stays in the map. *)
InstallKept ==
  /\ current' = attempt
  /\ Move(Waiting("waitAttempt"), "got", attempt)
  /\ UNCHANGED attemptVars
InstallOrDispose ==
  IF fenced
  THEN /\ phase' = "disposing"
       /\ pc' = [a \in Actors |->
            IF pc[a] # "waitAttempt" THEN pc[a]
            ELSE IF a = starter THEN "waitDispose" ELSE "got"]
       /\ at' = [a \in Actors |-> IF pc[a] = "waitAttempt" THEN attempt ELSE at[a]]
       /\ UNCHANGED <<attempt, starter, fenced, doomed, current>>
  ELSE /\ current' = attempt
       /\ Move(Waiting("waitAttempt"), "got", attempt)
       /\ Forgotten

(* The promise resolves, with a connection or with one that needs           *)
(* authorization, whose client is closed.                                   *)
AttemptSettles(st) ==
  /\ Event
  /\ attempt # None /\ ~doomed
  /\ \/ st = "connected" /\ phase = "discovering" /\ UNCHANGED <<open, session, faults>>
     \/ st = "needs-auth" /\ phase \in {"connecting", "discovering"} /\ Fault
        /\ Shut(attempt)
  /\ InstallOrDispose
  /\ status' = [status EXCEPT ![attempt] = st]
  /\ UNCHANGED made
  /\ AttemptFrame

(* It rejects: its signal was aborted, or the server failed it. *)
AttemptFails ==
  /\ Event
  /\ attempt # None /\ phase # "disposing"
  /\ IF doomed THEN UNCHANGED faults ELSE Fault
  /\ Shut(attempt) /\ Forgotten
  /\ Goes(Waiting("waitAttempt"), "threw")
  /\ UNCHANGED <<made, status, current, at>>
  /\ AttemptFrame

-----------------------------------------------------------------------------
(* close() *)

(* close(), up to its first await: fence the attempt, give up the current   *)
(* connection and begin to close its client.                                *)
Closed ==
  /\ floor' = made /\ fenced' = (attempt # None)
  /\ doomed' = (doomed \/ (Running /\ phase = "connecting"))
  /\ IF current = None THEN UNCHANGED <<status, current, closing>>
     ELSE /\ status' = [status EXCEPT ![current] = "closed"]
          /\ closing' = current
          /\ current' = None
  /\ UNCHANGED <<made, open, session, attempt, phase, starter>>

(* The command that closes or reconnects a server, an idle server's close   *)
(* and a new authorization call close().                                    *)
UserCloses ==
  /\ Event /\ Fault
  /\ ~Stopped /\ (current # None \/ attempt # None)
  /\ Closed
  /\ UNCHANGED <<reconFor, pc, at, callVars, retry, toolVars, shutdown>>

(* The client of a closed connection has closed. *)
CloseEnds ==
  /\ Event /\ closing # None
  /\ Shut(closing) /\ closing' = None
  /\ pc' = [a \in Actors |->
       IF pc[a] = "waitClose" THEN "unblocked"
       ELSE IF pc[a] = "ownClose" THEN "freed"
       ELSE pc[a]]
  /\ UNCHANGED <<made, attemptVars, status, current, floor, reconFor, at,
                 callVars, retry, toolVars, shutdown, faults>>

(* Mutant: the starter is not told. *)
DisposeEndsSilently ==
  /\ Event /\ attempt # None /\ phase = "disposing"
  /\ Shut(attempt) /\ Forgotten
  /\ UNCHANGED <<made, heldVars, reconFor, pc, at,
                 callVars, retry, toolVars, shutdown, faults>>
(* The fenced attempt's client has closed: the starter throws. *)
DisposeEnds ==
  /\ Event /\ attempt # None /\ phase = "disposing"
  /\ Shut(attempt) /\ Forgotten
  /\ Goes(Waiting("waitDispose"), "threw")
  /\ UNCHANGED <<made, heldVars, reconFor, at,
                 callVars, retry, toolVars, shutdown, faults>>

(* client.onclose: the peer closed the connection. *)
Drops ==
  /\ Event /\ Fault
  /\ Connected(current)
  /\ Shut(current)
  /\ status' = [status EXCEPT ![current] = "closed"]
  /\ UNCHANGED <<made, attemptVars, current, closing, floor, reconFor, pc, at,
                 callVars, retry, toolVars, shutdown>>

(* The server forgets a session, as a restart does. *)
LosesSession ==
  /\ Event /\ Fault
  /\ \E i \in (open \cap session) \ {attempt} : session' = session \ {i}
  /\ UNCHANGED <<made, open, attemptVars, heldVars, reconFor, pc, at, callVars, retry,
                 toolVars, shutdown>>

-----------------------------------------------------------------------------
(* reconnect(): one at a time; callers that come while it runs share it.    *)

Reconnects(a) ==
  /\ \/ /\ Stopped \/ SignalAborted(a)
        /\ Goes({a}, "threw")
        /\ UNCHANGED <<at, reconFor>>
     \/ /\ ~Stopped /\ ~SignalAborted(a) /\ pc[Recon] # "idle"
        /\ Goes({a}, "waitRecon")
        /\ UNCHANGED <<at, reconFor>>
     \/ /\ ~Stopped /\ ~SignalAborted(a) /\ pc[Recon] = "idle"
        /\ pc' = [pc EXCEPT ![a] = "waitRecon", ![Recon] = "begin"]
        /\ at' = [at EXCEPT ![Recon] = at[a]]
        /\ reconFor' = a
  /\ UNCHANGED <<begunVars, heldVars, toolVars, served, cancelled, shutdown, faults>>

(* Mutant: whatever is current is closed. *)
ClosesWhatIsThere ==
  /\ pc[Recon] = "begin" /\ current # None
  /\ Closed
  /\ Goes({Recon}, "ownClose")
  /\ UNCHANGED <<reconFor, at, callVars, retry, toolVars, shutdown, faults>>
(* doReconnect() closes the connection only if it is the stale one... *)
ReconCloses ==
  /\ pc[Recon] = "begin" /\ current # None /\ current = at[Recon]
  /\ Closed
  /\ Goes({Recon}, "ownClose")
  /\ UNCHANGED <<reconFor, at, callVars, retry, toolVars, shutdown, faults>>

(* ... returns the one that replaced it ... *)
ReconFinds ==
  /\ pc[Recon] = "begin" /\ current # None /\ current # at[Recon]
  /\ Move({Recon}, "got", current)
  /\ UNCHANGED <<begunVars, heldVars, reconFor, callVars, retry, toolVars, shutdown, faults>>

(* ... and connects otherwise, after its close too. *)
ReconConnects ==
  /\ \/ pc[Recon] = "freed"
     \/ pc[Recon] = "begin" /\ current = None
  /\ Connects(Recon)
  /\ UNCHANGED retry

(* Its outcome is that of every caller that waits for it. *)
ReconEnds ==
  /\ pc[Recon] \in {"got", "threw"}
  /\ LET outcome == IF pc[Recon] = "got" THEN "regot" ELSE "threw" IN
     pc' = [a \in Actors |->
       IF a = Recon THEN "idle" ELSE IF pc[a] = "waitRecon" THEN outcome ELSE pc[a]]
  /\ at' = [a \in Actors |->
       IF a = Recon THEN None ELSE IF pc[a] = "waitRecon" THEN at[Recon] ELSE at[a]]
  /\ reconFor' = Keeper
  /\ UNCHANGED <<begunVars, heldVars, callVars, retry, toolVars, shutdown, faults>>

-----------------------------------------------------------------------------
(* A tool call: lazyConnect(), the wait for the user's approval, then       *)
(* withSessionRecovery().                                                   *)

CallFrame == UNCHANGED <<begunVars, heldVars, reconFor, retry, toolVars, shutdown, faults>>

(* lazyConnect() gives up on a server that needs authorization or has       *)
(* failed within the last minute.                                           *)
Begins(t) ==
  /\ Event /\ pc[t] = "new"
  /\ \/ ~Aborted /\ Connected(current) /\ Goes({t}, "ready") /\ UNCHANGED at /\ CallFrame
     \/ (Aborted \/ ~Connected(current)) /\ Goes({t}, "threw") /\ UNCHANGED at /\ CallFrame
     \/ ~Aborted /\ ~Connected(current) /\ StatusOf(current) # "needs-auth" /\ Connects(t) /\ UNCHANGED retry
  /\ UNCHANGED callVars

Got(t) ==
  /\ pc[t] = "got"
  /\ Move({t}, IF status[at[t]] = "needs-auth" THEN "threw" ELSE "ready", None)
  /\ UNCHANGED callVars
  /\ CallFrame

(* A request on a client that is not open, or whose signal is aborted, fails *)
(* at once.                                                                  *)
Requests(t, i) ==
  Move({t}, IF i \in open /\ ~SignalAborted(t) THEN "sent" ELSE "threw", i)

(* The call goes to the connection that is there now. *)
Sends(t) ==
  /\ Event /\ pc[t] = "ready"
  /\ Requests(t, current)
  /\ UNCHANGED callVars
  /\ CallFrame

(* The server carries the call out, whether or not its answer will be heard. *)
Serves(t) ==
  /\ Event /\ pc[t] = "sent" /\ at[t] \in session
  /\ Goes({t}, "served")
  /\ served' = [served EXCEPT ![t] = @ + 1]
  /\ UNCHANGED <<at, retried, cancelled>>
  /\ CallFrame

Answers(t) ==
  /\ Event /\ pc[t] = "served" /\ at[t] \in open
  /\ Move({t}, "done", None)
  /\ UNCHANGED callVars
  /\ CallFrame

(* The server answers 404 before it carries anything out.  When the SDK     *)
(* fails the requests of a closed client is not in this repository: a 404   *)
(* that was on its way may come first.                                      *)
Refuses(a) ==
  /\ Event /\ at[a] \notin session
  /\ pc[a] = IF a = Keeper THEN "refreshing" ELSE "sent"
  /\ Goes({a}, "lost")
  /\ UNCHANGED <<at, callVars>>
  /\ CallFrame

(* The client is closed.  Such an error is not a lost session, and the call  *)
(* fails.  Mutant: it is sent again.                                        *)
BreaksRetries(t) ==
  /\ Event /\ pc[t] \in {"sent", "served"} /\ at[t] \notin open
  /\ Goes({t}, "lost")
  /\ UNCHANGED <<at, callVars>>
  /\ CallFrame
Breaks(t) ==
  /\ Event /\ pc[t] \in {"sent", "served"} /\ at[t] \notin open
  /\ Goes({t}, "threw")
  /\ UNCHANGED <<at, callVars>>
  /\ CallFrame

(* The first lost session makes the call wait for a reconnect... *)
Recovers(t) ==
  /\ pc[t] = "lost" /\ t \notin retried
  /\ Reconnects(t)
  /\ retried' = retried \cup {t}
  /\ UNCHANGED retry

(* ... the second one is its failure. *)
GivesUp(t) ==
  /\ pc[t] = "lost" /\ t \in retried
  /\ Goes({t}, "threw")
  /\ UNCHANGED <<at, callVars>>
  /\ CallFrame

Retries(t) ==
  /\ pc[t] = "regot"
  /\ IF Connected(at[t]) THEN Requests(t, at[t])
     ELSE Goes({t}, "threw") /\ UNCHANGED at
  /\ UNCHANGED callVars
  /\ CallFrame

Ends(t) ==
  /\ pc[t] = "threw"
  /\ Move({t}, "failed", None)
  /\ UNCHANGED callVars
  /\ CallFrame

(* The waits an abort of their signal ends; the starter of an attempt waits *)
(* for its end.                                                             *)
Abortable(as) ==
  {a \in as : \/ pc[a] \in {"waitClose", "waitRecon", "ready", "sent", "served", "refreshing"}
              \/ pc[a] = "waitAttempt" /\ a # starter}
Cancels(t) ==
  LET ofT == IF reconFor = t THEN {t, Recon} ELSE {t} IN
  /\ Event /\ Fault
  /\ pc[t] \notin {"new", "done", "failed"} /\ t \notin cancelled
  /\ cancelled' = cancelled \cup {t}
  /\ doomed' = (doomed \/ (Running /\ starter \in ofT))
  /\ Goes(Abortable(ofT), "threw")
  /\ UNCHANGED <<made, open, session, attempt, phase, starter, fenced, heldVars, reconFor,
                 at, retried, served, retry, toolVars, shutdown>>

-----------------------------------------------------------------------------
(* The keep-alive check, one at a time *)

KeeperFrame == UNCHANGED <<begunVars, heldVars, reconFor, callVars, shutdown, faults>>
KeeperRests(record) ==
  /\ Move({Keeper}, "idle", None) /\ retry' = record
  /\ asked' = 0 /\ answer' = None

(* reportConnectionFailure(): the record holds until its time comes or the  *)
(* connection or its status is another one.                                 *)
Failed(i) == [on |-> TRUE, conn |-> i, status |-> StatusOf(i), due |-> FALSE]
Outdated == retry.conn # current \/ retry.status # StatusOf(current)
ShouldAttempt == retry.on => Outdated \/ retry.due
Kept == IF retry.on /\ Outdated THEN NoRetry ELSE retry

RetryDue ==
  /\ Event /\ retry.on /\ ~retry.due
  /\ retry' = [retry EXCEPT !.due = TRUE]
  /\ UNCHANGED <<begunVars, heldVars, reconFor, pc, at, callVars, toolVars, shutdown, faults>>

ChecksClosed ==
  /\ Event /\ pc[Keeper] = "idle" /\ ~Aborted
  /\ StatusOf(current) \notin {"needs-auth", "connected"}
  /\ ShouldAttempt /\ retry' = Kept
  /\ Connects(Keeper)

ChecksOpen ==
  /\ Event /\ pc[Keeper] = "idle" /\ ~Aborted
  /\ Connected(current)
  /\ ShouldAttempt /\ retry' = Kept
  /\ Move({Keeper}, IF current \in open THEN "refreshing" ELSE "lost", current)
  /\ asked' = revision[current] /\ answer' = None
  /\ UNCHANGED <<catalog, tools, revision>>
  /\ KeeperFrame

RefreshAnswered ==
  /\ Event /\ pc[Keeper] = "refreshing" /\ answer = None
  /\ at[Keeper] \in session
  /\ answer' = catalog
  /\ UNCHANGED <<pc, at, retry, catalog, tools, revision, asked>>
  /\ KeeperFrame

(* Mutant: an answer is taken whatever was announced meanwhile. *)
StaleById == current # at[Keeper] \/ ~Connected(current)
Superseded ==
  \/ current # at[Keeper] \/ ~Connected(current)
  \/ pc[Keeper] = "refreshing" /\ revision[at[Keeper]] # asked

Refreshed ==
  /\ Event /\ pc[Keeper] = "refreshing" /\ answer # None
  /\ ~Superseded
  /\ KeeperRests(NoRetry)
  /\ IF tools[current] = answer THEN UNCHANGED <<tools, revision>>
     ELSE /\ tools' = [tools EXCEPT ![current] = answer]
          /\ revision' = [revision EXCEPT ![current] = @ + 1]
  /\ UNCHANGED catalog
  /\ KeeperFrame

RefreshBreaks ==
  /\ Event /\ pc[Keeper] = "refreshing" /\ at[Keeper] \notin open
  /\ Goes({Keeper}, "lost")
  /\ UNCHANGED <<at, retry, toolVars>>
  /\ KeeperFrame

RefreshTimesOut ==
  /\ Event /\ Fault
  /\ pc[Keeper] = "refreshing" /\ ~Superseded
  /\ KeeperRests(Failed(at[Keeper]))
  /\ UNCHANGED <<begunVars, heldVars, reconFor, callVars, catalog, tools, revision, shutdown>>

(* handleSupersededConnection(): what replaced the connection is as good,   *)
(* and if nothing usable did the check is made once more.                   *)
FindsSuperseded ==
  /\ ~Aborted /\ Superseded
  /\ \/ pc[Keeper] = "lost"
     \/ Event /\ pc[Keeper] = "refreshing" /\ answer # None
  /\ \/ /\ StatusOf(current) \in {"connected", "needs-auth"}
        /\ KeeperRests(NoRetry) /\ UNCHANGED <<catalog, tools, revision>> /\ KeeperFrame
     \/ /\ StatusOf(current) \notin {"connected", "needs-auth"} /\ ~ShouldAttempt
        /\ KeeperRests(retry) /\ UNCHANGED <<catalog, tools, revision>> /\ KeeperFrame
     \/ /\ StatusOf(current) \notin {"connected", "needs-auth"} /\ ShouldAttempt
        /\ retry' = Kept
        /\ Connects(Keeper)

(* Mutant: a refused refresh is reported like any other failure. *)
KeeperReports ==
  /\ pc[Keeper] = "lost" /\ ~Aborted /\ ~Superseded
  /\ KeeperRests(Failed(current))
  /\ UNCHANGED <<catalog, tools, revision>>
  /\ KeeperFrame
KeeperRecovers ==
  /\ pc[Keeper] = "lost" /\ ~Aborted /\ ~Superseded
  /\ Reconnects(Keeper)
  /\ UNCHANGED <<retried, retry>>

(* The end of its connect() or reconnect(). *)
KeeperEnds ==
  /\ \/ pc[Keeper] \in {"got", "regot", "threw"}
     \/ pc[Keeper] = "lost" /\ Aborted
  /\ KeeperRests(
       IF Aborted THEN retry
       ELSE IF pc[Keeper] = "threw" THEN Failed(current)
       ELSE IF StatusOf(at[Keeper]) = "closed" THEN Failed(at[Keeper])
       ELSE NoRetry)
  /\ UNCHANGED <<catalog, tools, revision>>
  /\ KeeperFrame

-----------------------------------------------------------------------------
(* The server's tool list *)

ListChanges ==
  /\ Event /\ Fault
  /\ catalog' = catalog + 1
  /\ UNCHANGED <<begunVars, heldVars, reconFor, pc, at, callVars, retry, tools, revision,
                 asked, answer, shutdown>>

(* handleToolsListChanged(), for the connection that is current. *)
ListAnnounced ==
  /\ Event /\ Connected(current) /\ current \in session /\ tools[current] < catalog
  /\ tools' = [tools EXCEPT ![current] = catalog]
  /\ revision' = [revision EXCEPT ![current] = @ + 1]
  /\ UNCHANGED <<begunVars, heldVars, reconFor, pc, at, callVars, retry, catalog, asked,
                 answer, shutdown, faults>>

-----------------------------------------------------------------------------
(* owner.stop(): the signal, then gracefulShutdown() and closeAll()         *)

ShutdownFrame == UNCHANGED <<reconFor, at, callVars, retry, toolVars, faults>>

Stops ==
  /\ Event /\ shutdown = "up"
  /\ shutdown' = "aborted"
  /\ doomed' = (doomed \/ Running)
  /\ Goes(Abortable(Actors), "threw")
  /\ UNCHANGED <<made, open, session, attempt, phase, starter, fenced, heldVars>>
  /\ ShutdownFrame

(* The check has ended; closeAll() fences the attempt. *)
Fences ==
  /\ Event /\ shutdown = "aborted" /\ pc[Keeper] = "idle"
  /\ shutdown' = "stopping"
  /\ fenced' = (attempt # None)
  /\ UNCHANGED <<made, open, session, attempt, phase, starter, doomed, heldVars, pc>>
  /\ ShutdownFrame

(* Mutant: closeAll() does not wait for the attempt. *)
ClosesAtOnce ==
  /\ Event /\ shutdown = "stopping"
  /\ Closed
  /\ shutdown' = IF current = None THEN "down" ELSE "closing"
  /\ UNCHANGED pc
  /\ ShutdownFrame
(* The attempt has settled: what is current is closed. *)
ClosesRest ==
  /\ Event /\ shutdown = "stopping" /\ ~Running
  /\ Closed
  /\ shutdown' = IF current = None THEN "down" ELSE "closing"
  /\ UNCHANGED pc
  /\ ShutdownFrame

Stopping ==
  /\ Event /\ shutdown = "closing" /\ closing = None
  /\ shutdown' = "down"
  /\ UNCHANGED <<begunVars, heldVars, pc>>
  /\ ShutdownFrame

-----------------------------------------------------------------------------

Init ==
  /\ made = 0 /\ open = {} /\ session = {}
  /\ attempt = None /\ phase = "connecting" /\ starter = Keeper
  /\ fenced = FALSE /\ doomed = FALSE
  /\ status = [i \in Ids |-> "connected"]
  /\ current = None /\ closing = None /\ floor = 0
  /\ reconFor = Keeper
  /\ pc = [a \in Actors |-> IF a \in Calls THEN "new" ELSE "idle"]
  /\ at = [a \in Actors |-> None]
  /\ retried = {} /\ served = [t \in Calls |-> 0] /\ cancelled = {}
  /\ retry = NoRetry
  /\ catalog = 1 /\ tools = [i \in Ids |-> 0] /\ revision = [i \in Ids |-> 0]
  /\ asked = 0 /\ answer = None
  /\ shutdown = "up" /\ faults = 0

CallSteps(t) ==
  \/ Unblocked(t) \/ Got(t) \/ Sends(t) \/ Serves(t) \/ Answers(t) \/ Refuses(t) \/ Breaks(t)
  \/ Recovers(t) \/ GivesUp(t) \/ Retries(t) \/ Ends(t)
AttemptSteps ==
  \/ Handshake \/ AttemptFails \/ DisposeEnds
  \/ \E st \in {"connected", "needs-auth"} : AttemptSettles(st)
ReconSteps ==
  Unblocked(Recon) \/ ReconCloses \/ ReconFinds \/ ReconConnects \/ ReconEnds
KeeperSteps ==
  \/ Unblocked(Keeper) \/ ChecksClosed \/ ChecksOpen \/ RetryDue
  \/ RefreshAnswered \/ RefreshBreaks \/ Refreshed \/ RefreshTimesOut \/ Refuses(Keeper)
  \/ FindsSuperseded \/ KeeperRecovers \/ KeeperEnds
ShutdownSteps == Fences \/ ClosesRest \/ Stopping
Environment ==
  \/ UserCloses \/ Drops \/ LosesSession \/ ListChanges \/ ListAnnounced \/ Stops
  \/ \E t \in Calls : Begins(t) \/ Cancels(t)

Next ==
  \/ \E t \in Calls : CallSteps(t)
  \/ AttemptSteps \/ CloseEnds \/ ReconSteps \/ KeeperSteps \/ ShutdownSteps
  \/ Environment

Safe == Init /\ [][Next]_vars

(* The network answers or fails, promises are handled, the check and its    *)
(* retries are on timers, and a tool call that got its approval is sent.    *)
(* An event waits for the reactions of the one before and is handled after  *)
(* them, so it is not passed over for ever: strong fairness.                *)
Fairness ==
  /\ \A t \in Calls : SF_vars(CallSteps(t))
  /\ SF_vars(AttemptSteps) /\ SF_vars(CloseEnds) /\ WF_vars(ReconSteps)
  /\ SF_vars(KeeperSteps) /\ SF_vars(ShutdownSteps)

Spec == Safe /\ Fairness

-----------------------------------------------------------------------------
(* Properties *)

Steps ==
  {"new", "idle", "waitClose", "waitAttempt", "waitDispose", "waitRecon", "ownClose",
   "ready", "sent", "served", "refreshing", "done", "failed"} \cup Reactions

ConnTypes ==
  /\ made \in 0..(MaxFaults + 1) /\ open \subseteq Ids /\ session \subseteq Ids
  /\ attempt \in {None, made} /\ (attempt # None => current # attempt)
  /\ phase \in {"connecting", "discovering", "disposing"}
  /\ fenced \in BOOLEAN /\ doomed \in BOOLEAN
  /\ status \in [Ids -> {"connected", "closed", "needs-auth"}]
  /\ current \in Ids \cup {None} /\ closing \in Ids \cup {None}
  /\ floor \in 0..(MaxFaults + 1)
ActorTypes ==
  /\ pc \in [Actors -> Steps] /\ at \in [Actors -> Ids \cup {None}]
  /\ starter \in Actors /\ reconFor \in Actors
  /\ retried \subseteq Calls /\ served \in [Calls -> Nat] /\ cancelled \subseteq Calls
KeeperTypes ==
  /\ retry \in [on : BOOLEAN, conn : Ids \cup {None},
                status : {"none", "connected", "closed", "needs-auth"}, due : BOOLEAN]
  /\ catalog \in Nat /\ tools \in [Ids -> Nat] /\ revision \in [Ids -> Nat]
  /\ asked \in Nat /\ answer \in Nat
(* The variables keep their types; the attempt is the connection begun last *)
(* and is not current yet.                                                  *)
TypeOK ==
  /\ ConnTypes /\ ActorTypes /\ KeeperTypes
  /\ shutdown \in {"up", "aborted", "stopping", "closing", "down"}
  /\ faults \in 0..MaxFaults

(* No client is forgotten: whatever is open is the current connection, the  *)
(* one being connected or disposed of, or the one whose close is awaited.   *)
(* A child process or a remote session that is none of these would never be *)
(* closed (server-manager.ts: connect(), close()).                          *)
NoOrphan == open \subseteq {current, attempt, closing}

(* A connection begun before the last close() never becomes current after   *)
(* it, however the attempt and the close interleave (closeGenerations).     *)
FreshAfterClose == current # None => current > floor

(* At most one usable connection at a time: while one is connected none is  *)
(* being connected, and while one closes there is no current one.           *)
OneAtATime ==
  /\ Connected(current) => ~Running
  /\ closing # None => current = None

(* The server carries out a tool call at most once, although a call whose   *)
(* session was lost is sent again (session-recovery.ts:11-15).              *)
AtMostOnce == \A t \in Calls : served[t] <= 1

(* Recovery closes a connection only when it is of no use: its session is   *)
(* lost or its client has closed.  Of a user's close() or the shutdown nothing is   *)
(* said (reconnect(): "staleConnection is only torn down if it is still the *)
(* manager's current connection").                                          *)
RecoverySparesTheLive ==
  [][\A i \in Ids :
       closing' = i /\ closing # i /\ faults' = faults /\ ~Aborted =>
         i \notin session \/ i \notin open]_vars

(* The tool list of a connection never goes back to an earlier one, although *)
(* the answer of a refresh and an announcement of the server cross each     *)
(* other (toolsRevision in refreshTools() and handleToolsListChanged()).    *)
ToolsOnlyAdvance == [][\A i \in Ids : tools'[i] >= tools[i]]_vars

(* When owner.stop() has ended nothing is current, and what is still open   *)
(* is being closed; that stays so.                                          *)
ShutdownIsFinal == shutdown = "down" => current = None /\ ~Running

(* Every tool call ends, whatever fails or is closed. *)
CallsEnd == \A t \in Calls : pc[t] # "new" ~> pc[t] \in {"done", "failed"}

(* A server that is to be kept alive comes back: in the end it is connected *)
(* with a session the server knows, waits for an authorization, or the      *)
(* extension has stopped.                                                   *)
KeepsAlive ==
  <>[](\/ Aborted
       \/ StatusOf(current) = "needs-auth"
       \/ Connected(current) /\ current \in session)
=============================================================================
