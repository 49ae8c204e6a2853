------------------------ MODULE McpConnectionsProofs ------------------------
(* Proofs about McpConnections: its types, the bookkeeping of connections,  *)
(* the single execution of a tool call, what recovery may close, what is    *)
(* left after shutdown, and the order in which tool lists arrive.           *)
EXTENDS McpConnections, TLAPS

-----------------------------------------------------------------------------
(* The inductive invariant *)

(* An attempt that no close() passed is later than the last close() and     *)
(* overlaps none; what is current but not connected has no open client.     *)
Linked ==
  /\ current <= made /\ closing <= made /\ floor <= made
  /\ attempt # None /\ ~fenced => closing = None /\ attempt > floor
  /\ attempt # None => closing # attempt
  /\ current # None /\ ~Connected(current) => current \notin open
  /\ Connected(current) => current \in open
  /\ Running => attempt \in open
  /\ NoOrphan
  /\ FreshAfterClose
  /\ OneAtATime

(* While reactions to the end of a close are due, no other close can begin: *)
(* it would take a lost session, which is a later event.                    *)
Quiet ==
  \A a \in Actors : pc[a] \in {"unblocked", "freed"} =>
    closing = None /\ \A b \in Actors : pc[b] \notin {"lost", "begin"}

(* A call that was carried out is never sent again. *)
Once ==
  \A t \in Calls :
    \/ served[t] = 0
    \/ served[t] = 1 /\ pc[t] \in {"served", "done", "threw", "failed"}

(* Whoever recovers does so from a connection whose session is lost, or     *)
(* from one that is not connected.                                          *)
Useless(i) == i \in 1..made /\ (i \notin session \/ i \notin open)
Stale ==
  /\ \A a \in Actors :
       /\ pc[a] \in {"sent", "served", "refreshing"} => at[a] \in 1..made
       /\ pc[a] = "lost" => Useless(at[a])
  /\ pc[Recon] = "begin" => Useless(at[Recon])

IInv == TypeOK /\ Linked /\ Quiet /\ Once /\ Stale

-----------------------------------------------------------------------------
(* The initial state *)

(* Nothing is open or on its way at first. *)
LEMMA InitIInv == Init => IInv
<1> SUFFICES ASSUME Init PROVE IInv
  OBVIOUS
<1> USE ConstantsAssumption
<1>1. ConnTypes
  <2>1. status \in [Ids -> {"connected", "closed", "needs-auth"}]
    BY DEF Init
  <2>2. 0 \in 0..(MaxFaults + 1)
    OBVIOUS
  <2> QED BY <2>1, <2>2 DEF Init, ConnTypes, None
<1>2. ActorTypes
  <2>1. Keeper \in Actors /\ {"new", "idle"} \subseteq Steps
    BY DEF Actors, Steps
  <2>2. pc \in [Actors -> Steps] /\ at \in [Actors -> Ids \cup {None}]
    BY <2>1 DEF Init
  <2>3. served \in [Calls -> Nat]
    BY DEF Init
  <2> QED BY <2>1, <2>2, <2>3 DEF Init, ActorTypes
<1>3. KeeperTypes
  <2>1. NoRetry \in [on : BOOLEAN, conn : Ids \cup {None},
                     status : {"none", "connected", "closed", "needs-auth"}, due : BOOLEAN]
    BY DEF NoRetry
  <2>2. tools \in [Ids -> Nat] /\ revision \in [Ids -> Nat]
    BY DEF Init
  <2> QED BY <2>1, <2>2 DEF Init, KeeperTypes, None
<1>4. Linked
  BY DEF Init, Linked, NoOrphan, FreshAfterClose, OneAtATime, Connected, StatusOf, Running, None
<1>5. Quiet /\ Once /\ Stale
  BY DEF Init, Quiet, Once, Stale, Actors, Keeper, Recon
<1> QED BY <1>1, <1>2, <1>3, <1>4, <1>5 DEF IInv, TypeOK, Init

-----------------------------------------------------------------------------
(* What the parts of the steps do *)

(* A step that leaves the connections alone leaves what is said of them. *)
LEMMA SameConnections ==
  ASSUME UNCHANGED <<begunVars, heldVars>>
  PROVE  (ConnTypes => ConnTypes') /\ (Linked => Linked')
BY DEF begunVars, attemptVars, heldVars, ConnTypes, Linked, NoOrphan, FreshAfterClose,
       OneAtATime, Connected, StatusOf, Running

(* connect() begins an attempt or leaves the connections alone. *)
LEMMA ConnectConnections ==
  ASSUME NEW a \in Actors, Connect(a) \/ (JoinOrStart(a) /\ closing = None),
         UNCHANGED heldVars, ConnTypes, Linked
  PROVE  ConnTypes' /\ Linked'
<1>1. CASE UNCHANGED begunVars
  BY <1>1, SameConnections
<1>2. CASE ~UNCHANGED begunVars
  <2>1. /\ JoinOrStart(a) /\ closing = None /\ attempt = None /\ ~Connected(current)
        /\ made' = made + 1 /\ made' \in Ids
        /\ open' = open \cup {made'} /\ session' = session \cup {made'}
        /\ attempt' = made' /\ phase' = "connecting"
        /\ fenced' = FALSE /\ doomed' = FALSE
    BY <1>2 DEF Connect, JoinOrStart, Throws
  <2>2. UNCHANGED <<status, current, closing, floor>>
    BY DEF heldVars
  <2>3. made' \in 0..(MaxFaults + 1) /\ attempt' # current'
    BY <2>1, <2>2, ConstantsAssumption DEF ConnTypes, Linked, Ids, None
  <2>4. ConnTypes'
    BY <2>1, <2>2, <2>3 DEF ConnTypes
  <2>5. Linked'
    BY <2>1, <2>2, ConstantsAssumption
       DEF ConnTypes, Linked, NoOrphan, FreshAfterClose, OneAtATime, Connected, StatusOf,
           Running, Ids, None
  <2> QED BY <2>4, <2>5
<1> QED BY <1>1, <1>2

(* close() fences the attempt and gives up what is current. *)
LEMMA CloseConnections ==
  ASSUME Closed, ConnTypes, Linked
  PROVE  ConnTypes' /\ Linked'
<1>1. ConnTypes'
  BY DEF Closed, ConnTypes, Ids, None
<1>2. current' = None
  BY DEF Closed
<1>3. attempt' # None => fenced'
  BY DEF Closed
<1>4. UNCHANGED <<made, attempt, open, phase>> /\ floor' = made
  BY DEF Closed
<1>5. /\ current' # None => FALSE
      /\ attempt' # None => fenced'
      /\ ~Connected(current)'
  BY <1>2, <1>3, <1>4 DEF Closed, Connected, StatusOf
<1>6. /\ floor' <= made' /\ current' <= made'
      /\ Running' => attempt' \in open'
  BY <1>2, <1>4 DEF Linked, Running, ConnTypes, None
<1>7. NoOrphan' /\ closing' <= made' /\ (current = None => closing' = closing)
      /\ (current # None => closing' = current /\ closing = None)
  <2>1. CASE current = None
    <3>1. closing' = closing
      BY <2>1 DEF Closed
    <3> QED BY <2>1, <3>1, <1>2, <1>4 DEF Linked, NoOrphan
  <2>2. CASE current # None
    <3>1. closing' = current
      BY <2>2 DEF Closed
    <3>2. closing = None
      BY <2>2 DEF Linked, OneAtATime
    <3>3. open \subseteq {current, attempt, closing}
      BY DEF Linked, NoOrphan
    <3>4. Connected(current) \/ current \notin open
      BY <2>2 DEF Linked
    <3>5. None \notin open
      BY ConstantsAssumption DEF ConnTypes, Ids, None
    <3>6. NoOrphan'
      BY <1>2, <1>4, <3>1, <3>2, <3>3, <3>5 DEF NoOrphan
    <3> QED BY <2>2, <3>1, <3>2, <3>6, <1>4 DEF Linked
  <2> QED BY <2>1, <2>2
<1>8. attempt' # None => closing' # attempt'
  BY <1>4, <1>7 DEF ConnTypes, Linked
<1>9. Linked'
  BY <1>2, <1>3, <1>4, <1>5, <1>6, <1>7, <1>8 DEF Linked, FreshAfterClose, OneAtATime
<1> QED BY <1>1, <1>9

-----------------------------------------------------------------------------
(* The connections *)

(* What happens to an attempt, to a client and at the shutdown. *)
LEMMA NetworkConnections ==
  ASSUME ConnTypes, Linked,
         \/ AttemptSteps \/ CloseEnds \/ Drops \/ LosesSession \/ Stops \/ Fences
         \/ \E t \in Calls : Cancels(t)
  PROVE  ConnTypes' /\ Linked'
<1> USE ConstantsAssumption
    DEF begunVars, attemptVars, heldVars, Forgotten, Shut, ConnTypes, Linked, NoOrphan,
        FreshAfterClose, OneAtATime, Connected, StatusOf, Running, Ids, None
<1>1. CASE Handshake
  BY <1>1 DEF Handshake
<1>2. CASE AttemptFails
  BY <1>2 DEF AttemptFails, AttemptFrame
<1>3. CASE DisposeEnds
  BY <1>3 DEF DisposeEnds
<1>4. ASSUME NEW st \in {"connected", "needs-auth"}, AttemptSettles(st)
      PROVE  ConnTypes' /\ Linked'
  <2>1. CASE fenced
    BY <1>4, <2>1 DEF AttemptSettles, AttemptFrame, InstallOrDispose
  <2>2. CASE ~fenced
    <3>1. /\ current' = attempt /\ attempt' = None /\ attempt # None
          /\ status' = [status EXCEPT ![attempt] = st]
          /\ UNCHANGED <<made, session, closing, floor>>
          /\ phase' = "connecting" /\ fenced' = FALSE /\ doomed' = FALSE
      BY <1>4, <2>2 DEF AttemptSettles, AttemptFrame, InstallOrDispose
    <3>2. /\ open' = IF st = "connected" THEN open ELSE open \ {attempt}
          /\ Running
      BY <1>4 DEF AttemptSettles
    <3>3. status' \in [Ids -> {"connected", "closed", "needs-auth"}] /\ attempt \in Ids
      BY <3>1
    <3>4. ConnTypes'
      BY <3>1, <3>2, <3>3
    <3>5. status'[current'] = st
      BY <3>1, <3>3
    <3>6. current = None \/ current \notin open
      BY <3>2
    <3>7. closing = None /\ attempt > floor /\ attempt \in open /\ attempt <= made
      BY <2>2, <3>1, <3>2
    <3>8. NoOrphan'
      BY <3>1, <3>2, <3>6, <3>7
    <3>9. OneAtATime' /\ FreshAfterClose'
      BY <3>1, <3>7
    <3>10. /\ current' <= made' /\ closing' <= made' /\ floor' <= made'
           /\ ~(attempt # None)' /\ ~Running'
      BY <3>1, <3>7
    <3>11. Connected(current)' <=> st = "connected"
      BY <3>1, <3>5
    <3>12. st = "connected" => current' \in open'
      BY <3>1, <3>2, <3>7
    <3>13. st # "connected" => current' \notin open'
      BY <3>1, <3>2
    <3> QED
      BY ONLY <3>4, <3>8, <3>9, <3>10, <3>11, <3>12, <3>13, <3>1 DEF Linked
  <2> QED BY <2>1, <2>2
<1>5. CASE CloseEnds
  <2>1. /\ closing' = None /\ closing # None /\ open' = open \ {closing}
        /\ UNCHANGED <<made, session, attempt, phase, fenced, doomed, status, current, floor>>
    BY <1>5 DEF CloseEnds
  <2>2. current = None /\ (attempt # None => fenced)
    BY <2>1
  <2>3. ConnTypes'
    <3> HIDE DEF Ids, None
    <3> QED BY ONLY ConnTypes, <2>1 DEF ConnTypes
  <2>4. NoOrphan'
    BY ONLY NoOrphan, <2>1 DEF NoOrphan
  <2>5. Running => attempt \in open'
    BY <2>1, <2>2
  <2> QED BY <2>1, <2>2, <2>3, <2>4, <2>5
<1>6. CASE Drops
  <2>1. /\ current # None /\ open' = open \ {current}
        /\ status' = [status EXCEPT ![current] = "closed"]
        /\ UNCHANGED <<made, session, attempt, phase, fenced, doomed, current, closing, floor>>
        /\ Connected(current)
    BY <1>6 DEF Drops
  <2>2. ConnTypes'
    <3> HIDE DEF Ids, None
    <3> QED BY ONLY ConnTypes, <2>1 DEF ConnTypes
  <2>3. ~Connected(current)' /\ current' \notin open'
    BY <2>1
  <2>4. NoOrphan'
    BY ONLY NoOrphan, <2>1 DEF NoOrphan
  <2>5. Running' => attempt' \in open'
    BY <2>1
  <2> QED BY <2>1, <2>2, <2>3, <2>4, <2>5
<1>7. CASE LosesSession
  BY <1>7 DEF LosesSession
<1>8. CASE Stops
  BY <1>8 DEF Stops
<1>9. CASE Fences
  BY <1>9 DEF Fences
<1>10. ASSUME NEW t \in Calls, Cancels(t) PROVE ConnTypes' /\ Linked'
  BY <1>10 DEF Cancels
<1> QED BY <1>1, <1>2, <1>3, <1>4, <1>5, <1>6, <1>7, <1>8, <1>9, <1>10 DEF AttemptSteps

(* Every step keeps what is said of the connections. *)
LEMMA NextConnections ==
  ASSUME ConnTypes, Linked, Quiet, Next
  PROVE  ConnTypes' /\ Linked'
<1>1. ASSUME NEW a \in Actors, Unblocked(a) PROVE ConnTypes' /\ Linked'
  <2>1. JoinOrStart(a) /\ closing = None /\ UNCHANGED heldVars
    BY <1>1 DEF Unblocked, Quiet
  <2> QED BY <2>1, ConnectConnections
<1>2. ASSUME NEW a \in Actors, Connects(a) PROVE ConnTypes' /\ Linked'
  BY <1>2, ConnectConnections DEF Connects
<1>3. CASE UNCHANGED <<begunVars, heldVars>>
  BY <1>3, SameConnections
<1>4. CASE Closed
  BY <1>4, CloseConnections
<1>5. ASSUME NEW t \in Calls, CallSteps(t) PROVE ConnTypes' /\ Linked'
  <2>1. t \in Actors
    BY DEF Actors
  <2>2. Unblocked(t) \/ UNCHANGED <<begunVars, heldVars>>
    BY <1>5 DEF CallSteps, Got, Sends, Serves, Answers, Refuses, Breaks, Recovers, Reconnects,
                GivesUp, Retries, Ends, CallFrame
  <2> QED BY <1>1, <1>3, <2>1, <2>2
<1>6. CASE ReconSteps
  <2>1. Recon \in Actors
    BY DEF Actors
  <2>2. Unblocked(Recon) \/ Connects(Recon) \/ Closed \/ UNCHANGED <<begunVars, heldVars>>
    BY <1>6 DEF ReconSteps, ReconCloses, ReconFinds, ReconConnects, ReconEnds
  <2> QED BY <1>1, <1>2, <1>3, <1>4, <2>1, <2>2
<1>7. CASE KeeperSteps
  <2>1. Keeper \in Actors
    BY DEF Actors
  <2>2. Unblocked(Keeper) \/ Connects(Keeper) \/ UNCHANGED <<begunVars, heldVars>>
    BY <1>7 DEF KeeperSteps, ChecksClosed, ChecksOpen, RetryDue, RefreshAnswered,
                RefreshBreaks, Refreshed, RefreshTimesOut, Refuses, FindsSuperseded,
                KeeperRecovers, Reconnects, KeeperEnds, KeeperFrame, CallFrame
  <2> QED BY <1>1, <1>2, <1>3, <2>1, <2>2
<1>8. CASE ShutdownSteps
  <2>1. Fences \/ Closed \/ UNCHANGED <<begunVars, heldVars>>
    BY <1>8 DEF ShutdownSteps, ClosesRest, Stopping
  <2> QED BY <1>3, <1>4, <2>1, NetworkConnections
<1>9. ASSUME NEW t \in Calls, Begins(t) PROVE ConnTypes' /\ Linked'
  <2>1. t \in Actors
    BY DEF Actors
  <2>2. Connects(t) \/ UNCHANGED <<begunVars, heldVars>>
    BY <1>9 DEF Begins, CallFrame
  <2> QED BY <1>2, <1>3, <2>1, <2>2
<1>10. CASE UserCloses
  BY <1>4, <1>10 DEF UserCloses
<1>11. CASE ListChanges \/ ListAnnounced
  BY <1>3, <1>11 DEF ListChanges, ListAnnounced
<1> QED
  BY <1>5, <1>6, <1>7, <1>8, <1>9, <1>10, <1>11, NetworkConnections DEF Next, Environment

-----------------------------------------------------------------------------
(* The actors *)

(* Where an actor can be sent keeps the types of pc and at. *)
LEMMA MoveTypes ==
  ASSUME ActorTypes, NEW as, NEW p \in Steps, Goes(as, p),
         at' = at \/ \E i \in Ids \cup {None} : Move(as, p, i)
  PROVE  pc' \in [Actors -> Steps] /\ at' \in [Actors -> Ids \cup {None}]
BY DEF ActorTypes, Goes, Move

(* connect() keeps the types of the actors. *)
LEMMA ConnectTypes ==
  ASSUME ConnTypes, ActorTypes, NEW a \in Actors, Connect(a) \/ JoinOrStart(a),
         UNCHANGED <<reconFor, callVars>>
  PROVE  ActorTypes'
<1>1. {"threw", "got", "waitAttempt", "waitClose"} \subseteq Steps
  BY DEF Steps, Reactions
<1>2. starter' \in Actors
  BY DEF Connect, JoinOrStart, Throws, begunVars, attemptVars, ActorTypes
<1>3. /\ \E p \in {"threw", "got", "waitAttempt", "waitClose"} : Goes({a}, p)
      /\ at' = at \/ \E i \in Ids \cup {None} : at' = [b \in Actors |-> IF b \in {a} THEN i ELSE at[b]]
  <2>1. attempt \in Ids \cup {None} /\ current \in Ids \cup {None}
    BY ConstantsAssumption DEF ConnTypes, Ids, None
  <2> QED BY <2>1 DEF Connect, JoinOrStart, Throws, Move
<1>4. pc' \in [Actors -> Steps] /\ at' \in [Actors -> Ids \cup {None}]
  BY <1>1, <1>3 DEF Goes, ActorTypes
<1> QED BY <1>2, <1>4 DEF ActorTypes, callVars

(* reconnect() keeps the types of the actors. *)
LEMMA ReconnectTypes ==
  ASSUME ActorTypes, NEW a \in Actors, Reconnects(a), retried' \subseteq Calls
  PROVE  ActorTypes'
<1>1. {"threw", "waitRecon", "begin"} \subseteq Steps /\ Recon \in Actors
  BY DEF Steps, Reactions, Actors
<1>2. pc' \in [Actors -> Steps] /\ at' \in [Actors -> Ids \cup {None}] /\ reconFor' \in Actors
  BY <1>1 DEF Reconnects, Goes, ActorTypes
<1>3. UNCHANGED <<starter, served, cancelled>>
  BY DEF Reconnects, begunVars, attemptVars
<1> QED BY <1>2, <1>3 DEF ActorTypes

(* Every step keeps the types of the actors. *)
LEMMA NextActors ==
  ASSUME ConnTypes, ActorTypes, Next
  PROVE  ActorTypes'
<1> USE DEF begunVars, attemptVars, callVars
<1>s. Steps = {"new", "idle", "waitClose", "waitAttempt", "waitDispose", "waitRecon",
               "ownClose", "ready", "sent", "served", "refreshing", "done", "failed",
               "unblocked", "freed", "begin", "got", "threw", "lost", "regot"}
  BY DEF Steps, Reactions
<1>a. Keeper \in Actors /\ Recon \in Actors /\ Calls \subseteq Actors
  BY DEF Actors
<1>i. /\ attempt \in Ids \cup {None} /\ current \in Ids \cup {None}
      /\ None \in Ids \cup {None}
  BY ConstantsAssumption DEF ConnTypes, Ids, None
<1>c. ASSUME NEW a \in Actors, Connects(a) \/ Unblocked(a) PROVE ActorTypes'
  BY <1>c, ConnectTypes DEF Connects, Unblocked
<1>1. ASSUME NEW t \in Calls, CallSteps(t) PROVE ActorTypes'
  <2> t \in Actors
    BY <1>a
  <2>1. CASE Unblocked(t)
    BY <1>c, <2>1
  <2>2. CASE Got(t)
    BY <2>2, <1>s, <1>i DEF Got, Move, Goes, CallFrame, ActorTypes
  <2>3. CASE Sends(t)
    BY <2>3, <1>s, <1>i DEF Sends, Requests, Move, Goes, CallFrame, ActorTypes
  <2>4. CASE Serves(t)
    BY <2>4, <1>s DEF Serves, Goes, CallFrame, ActorTypes
  <2>5. CASE Answers(t)
    BY <2>5, <1>s, <1>i DEF Answers, Move, Goes, CallFrame, ActorTypes
  <2>6. CASE Refuses(t) \/ Breaks(t) \/ GivesUp(t)
    BY <2>6, <1>s DEF Refuses, Breaks, GivesUp, Goes, CallFrame, ActorTypes
  <2>7. CASE Recovers(t)
    BY <2>7, ReconnectTypes DEF Recovers, ActorTypes
  <2>8. CASE Retries(t)
    BY <2>8, <1>s DEF Retries, Requests, Move, Goes, CallFrame, ActorTypes
  <2>9. CASE Ends(t)
    BY <2>9, <1>s, <1>i DEF Ends, Move, Goes, CallFrame, ActorTypes
  <2> QED BY <1>1, <2>1, <2>2, <2>3, <2>4, <2>5, <2>6, <2>7, <2>8, <2>9 DEF CallSteps
<1>2. CASE AttemptSteps
  <2>1. CASE Handshake
    BY <2>1 DEF Handshake, ActorTypes
  <2>2. CASE AttemptFails
    BY <2>2, <1>s, <1>a DEF AttemptFails, AttemptFrame, Forgotten, Goes, ActorTypes
  <2>3. CASE DisposeEnds
    BY <2>3, <1>s, <1>a DEF DisposeEnds, Forgotten, Goes, ActorTypes
  <2>4. ASSUME NEW st \in {"connected", "needs-auth"}, AttemptSettles(st) PROVE ActorTypes'
    BY <2>4, <1>s, <1>a, <1>i
       DEF AttemptSettles, AttemptFrame, InstallOrDispose, Forgotten, Move, Goes, ActorTypes
  <2> QED BY <1>2, <2>1, <2>2, <2>3, <2>4 DEF AttemptSteps
<1>3. CASE CloseEnds
  BY <1>3, <1>s DEF CloseEnds, ActorTypes
<1>4. CASE ReconSteps
  <2>1. CASE Unblocked(Recon) \/ ReconConnects
    BY <2>1, <1>a, <1>c DEF ReconConnects
  <2>2. CASE ReconCloses
    BY <2>2, <1>s DEF ReconCloses, Closed, Goes, ActorTypes
  <2>3. CASE ReconFinds
    BY <2>3, <1>s, <1>i DEF ReconFinds, Move, Goes, ActorTypes
  <2>4. CASE ReconEnds
    BY <2>4, <1>s, <1>a, <1>i DEF ReconEnds, ActorTypes
  <2> QED BY <1>4, <2>1, <2>2, <2>3, <2>4 DEF ReconSteps
<1>5. CASE KeeperSteps
  <2>1. CASE Unblocked(Keeper) \/ ChecksClosed
    BY <2>1, <1>a, <1>c DEF ChecksClosed
  <2>2. CASE ChecksOpen
    BY <2>2, <1>s, <1>i DEF ChecksOpen, KeeperFrame, Move, Goes, ActorTypes
  <2>3. CASE RetryDue \/ RefreshAnswered
    BY <2>3 DEF RetryDue, RefreshAnswered, KeeperFrame, ActorTypes
  <2>4. CASE RefreshBreaks \/ Refuses(Keeper)
    BY <2>4, <1>s DEF RefreshBreaks, Refuses, KeeperFrame, CallFrame, Goes, ActorTypes
  <2>5. CASE Refreshed \/ RefreshTimesOut \/ KeeperEnds
    BY <2>5, <1>s, <1>i DEF Refreshed, RefreshTimesOut, KeeperEnds, KeeperRests, KeeperFrame,
                            Move, Goes, ActorTypes
  <2>6. CASE FindsSuperseded
    BY <2>6, <1>s, <1>i, <1>a, <1>c
       DEF FindsSuperseded, KeeperRests, KeeperFrame, Move, Goes, ActorTypes
  <2>7. CASE KeeperRecovers
    BY <2>7, <1>a, ReconnectTypes DEF KeeperRecovers, ActorTypes
  <2> QED BY <1>5, <2>1, <2>2, <2>3, <2>4, <2>5, <2>6, <2>7 DEF KeeperSteps
<1>6. CASE ShutdownSteps
  BY <1>6 DEF ShutdownSteps, Fences, ClosesRest, Stopping, Closed, ShutdownFrame, ActorTypes
<1>7. CASE Environment
  <2>1. CASE UserCloses \/ Drops \/ LosesSession \/ ListChanges \/ ListAnnounced
    BY <2>1 DEF UserCloses, Closed, Drops, LosesSession, ListChanges, ListAnnounced, ActorTypes
  <2>2. CASE Stops
    BY <2>2, <1>s DEF Stops, ShutdownFrame, Goes, ActorTypes
  <2>3. ASSUME NEW t \in Calls, Begins(t) PROVE ActorTypes'
    <3>1. CASE Connects(t)
      BY <3>1, <1>a, <1>c
    <3>2. CASE ~Connects(t)
      BY <2>3, <3>2, <1>s DEF Begins, CallFrame, Goes, ActorTypes
    <3> QED BY <3>1, <3>2
  <2>4. ASSUME NEW t \in Calls, Cancels(t) PROVE ActorTypes'
    BY <2>4, <1>s DEF Cancels, Goes, ActorTypes
  <2> QED BY <1>7, <2>1, <2>2, <2>3, <2>4 DEF Environment
<1> QED BY <1>1, <1>2, <1>3, <1>4, <1>5, <1>6, <1>7 DEF Next

(* Every step keeps the types of the keep-alive check and the tool list. *)
LEMMA NextKeeper ==
  ASSUME ConnTypes, ActorTypes, KeeperTypes, Next
  PROVE  KeeperTypes'
<1> DEFINE Records == [on : BOOLEAN, conn : Ids \cup {None},
                       status : {"none", "connected", "closed", "needs-auth"}, due : BOOLEAN]
<1>1. \A i \in Ids \cup {None} : Failed(i) \in Records
  BY ConstantsAssumption DEF Failed, StatusOf, ConnTypes, Ids, None
<1>2. /\ NoRetry \in Records /\ Kept \in Records
      /\ current \in Ids \cup {None} /\ Keeper \in Actors
      /\ None \in Nat
  BY ConstantsAssumption DEF NoRetry, Kept, KeeperTypes, ConnTypes, None, Actors
<1>3. ASSUME UNCHANGED <<retry, toolVars>> PROVE KeeperTypes'
  BY <1>3 DEF toolVars, KeeperTypes
<1>4. CASE UNCHANGED toolVars /\ retry' \in Records
  BY <1>4 DEF toolVars, KeeperTypes
<1>5. ASSUME NEW record \in Records, KeeperRests(record), UNCHANGED <<catalog, tools, revision>>
      PROVE  KeeperTypes'
  BY <1>2, <1>5 DEF KeeperRests, KeeperTypes
<1>6. ASSUME NEW a \in Actors, Unblocked(a) PROVE KeeperTypes'
  BY <1>3, <1>6 DEF Unblocked
<1>7. ASSUME NEW t \in Calls, CallSteps(t) PROVE KeeperTypes'
  <2>1. t \in Actors
    BY DEF Actors
  <2>2. Unblocked(t) \/ UNCHANGED <<retry, toolVars>>
    BY <1>7 DEF CallSteps, Got, Sends, Serves, Answers, Refuses, Breaks, Recovers, Reconnects,
                GivesUp, Retries, Ends, CallFrame
  <2> QED BY <1>3, <1>6, <2>1, <2>2
<1>8. CASE AttemptSteps
  <2>1. CASE Handshake
    <3>1. attempt \in Ids \/ attempt = None
      BY ConstantsAssumption DEF ConnTypes, Ids, None
    <3>2. tools' \in [Ids -> Nat]
      BY <2>1, <3>1 DEF Handshake, KeeperTypes
    <3> QED BY <2>1, <3>2 DEF Handshake, KeeperTypes
  <2>2. ~Handshake => UNCHANGED <<retry, toolVars>>
    BY <1>8 DEF AttemptSteps, AttemptFails, DisposeEnds, AttemptSettles, AttemptFrame
  <2> QED BY <1>3, <2>1, <2>2
<1>9. CASE ReconSteps
  <2>1. Recon \in Actors
    BY DEF Actors
  <2>2. Unblocked(Recon) \/ UNCHANGED <<retry, toolVars>>
    BY <1>9 DEF ReconSteps, ReconCloses, ReconFinds, ReconConnects, Connects, ReconEnds
  <2> QED BY <1>3, <1>6, <2>1, <2>2
<1>10. CASE KeeperSteps
  <2>1. CASE ChecksClosed
    BY <1>2, <1>4, <2>1 DEF ChecksClosed, Connects
  <2>2. CASE ChecksOpen
    <3>1. revision[current] \in Nat
      BY <2>2, <1>2 DEF ChecksOpen, KeeperTypes, Connected, StatusOf
    <3> QED BY <2>2, <1>2, <3>1 DEF ChecksOpen, KeeperTypes
  <2>3. CASE RetryDue
    <3>1. retry' \in Records
      BY <2>3 DEF RetryDue, KeeperTypes
    <3> QED BY <1>4, <2>3, <3>1 DEF RetryDue
  <2>4. CASE RefreshAnswered
    BY <2>4 DEF RefreshAnswered, KeeperTypes
  <2>5. CASE RefreshBreaks \/ Refuses(Keeper) \/ KeeperRecovers
    BY <1>3, <2>5 DEF RefreshBreaks, Refuses, CallFrame, KeeperRecovers, Reconnects
  <2>6. CASE Refreshed
    <3>1. retry' \in Records /\ asked' \in Nat /\ answer' \in Nat /\ catalog' = catalog
      BY <1>2, <2>6 DEF Refreshed, KeeperRests
    <3>2. tools' \in [Ids -> Nat] /\ revision' \in [Ids -> Nat]
      BY <2>6 DEF Refreshed, KeeperTypes
    <3> QED BY <3>1, <3>2 DEF KeeperTypes
  <2>7. CASE RefreshTimesOut
    <3>1. at[Keeper] \in Ids \cup {None}
      BY <1>2 DEF ActorTypes
    <3> QED BY <1>1, <1>5, <2>7, <3>1 DEF RefreshTimesOut
  <2>8. CASE FindsSuperseded
    <3>1. retry \in Records
      BY DEF KeeperTypes
    <3> QED BY <1>2, <1>4, <1>5, <2>8, <3>1 DEF FindsSuperseded, Connects
  <2>9. CASE KeeperEnds
    <3>1. at[Keeper] \in Ids \cup {None} /\ retry \in Records
      BY <1>2 DEF ActorTypes, KeeperTypes
    <3> QED BY <1>1, <1>2, <1>5, <2>9, <3>1 DEF KeeperEnds
  <2> QED
    BY <1>2, <1>6, <1>10, <2>1, <2>2, <2>3, <2>4, <2>5, <2>6, <2>7, <2>8, <2>9 DEF KeeperSteps
<1>11. CASE CloseEnds \/ ShutdownSteps
  BY <1>3, <1>11 DEF CloseEnds, ShutdownSteps, Fences, ClosesRest, Stopping, ShutdownFrame
<1>12. CASE Environment
  <2>1. CASE ListChanges
    BY <2>1 DEF ListChanges, KeeperTypes
  <2>2. CASE ListAnnounced
    <3>1. tools' \in [Ids -> Nat]
      BY <2>2 DEF ListAnnounced, KeeperTypes
    <3>2. revision' = [revision EXCEPT ![current] = revision[current] + 1]
      BY <2>2 DEF ListAnnounced
    <3>3. revision \in [Ids -> Nat]
      BY DEF KeeperTypes
    <3>4. revision' \in [Ids -> Nat]
      <4>1. revision' = [i \in Ids |-> IF i = current THEN revision[i] + 1 ELSE revision[i]]
        BY <3>2, <3>3
      <4>2. \A i \in Ids : revision[i] \in Nat /\ revision[i] + 1 \in Nat
        BY <3>3
      <4> QED BY <4>1, <4>2
    <3> QED BY <2>2, <3>1, <3>4 DEF ListAnnounced, KeeperTypes
  <2>3. CASE ~ListChanges /\ ~ListAnnounced
    BY <1>3, <1>12, <2>3
       DEF Environment, UserCloses, Drops, LosesSession, Stops, ShutdownFrame, Begins, Connects,
           CallFrame, Cancels
  <2> QED BY <2>1, <2>2, <2>3
<1> QED BY <1>7, <1>8, <1>9, <1>10, <1>11, <1>12 DEF Next

(* Every step keeps the types of the shutdown and of the count of faults. *)
LEMMA NextBounds ==
  ASSUME TypeOK, Next
  PROVE  /\ shutdown' \in {"up", "aborted", "stopping", "closing", "down"}
         /\ faults' \in 0..MaxFaults
<1>1. faults' = faults \/ Fault
  BY DEF Next, CallSteps, AttemptSteps, ReconSteps, KeeperSteps, ShutdownSteps, Environment,
         Unblocked, Got, Sends, Serves, Answers, Refuses, Breaks, Recovers, Reconnects, GivesUp,
         Retries, Ends, CallFrame, Handshake, AttemptFails, DisposeEnds, AttemptSettles,
         CloseEnds, ReconCloses, ReconFinds, ReconConnects, Connects, ReconEnds, ChecksClosed,
         ChecksOpen, RetryDue, RefreshAnswered, RefreshBreaks, Refreshed, RefreshTimesOut,
         FindsSuperseded, KeeperRecovers, KeeperEnds, KeeperFrame, Fences, ClosesRest, Stopping,
         ShutdownFrame, UserCloses, Drops, LosesSession, ListChanges, ListAnnounced, Stops,
         Begins, Cancels
<1>2. shutdown' = shutdown \/ shutdown' \in {"aborted", "stopping", "closing", "down"}
  BY DEF Next, CallSteps, AttemptSteps, ReconSteps, KeeperSteps, ShutdownSteps, Environment,
         Unblocked, Got, Sends, Serves, Answers, Refuses, Breaks, Recovers, Reconnects, GivesUp,
         Retries, Ends, CallFrame, Handshake, AttemptFails, AttemptFrame, DisposeEnds,
         AttemptSettles, CloseEnds, ReconCloses, ReconFinds, ReconConnects, Connects, ReconEnds,
         ChecksClosed, ChecksOpen, RetryDue, RefreshAnswered, RefreshBreaks, Refreshed,
         RefreshTimesOut, FindsSuperseded, KeeperRecovers, KeeperEnds, KeeperFrame, Fences,
         ClosesRest, Stopping, UserCloses, Drops, LosesSession, ListChanges, ListAnnounced,
         Stops, Begins, Cancels
<1> QED BY <1>1, <1>2, ConstantsAssumption DEF Fault, TypeOK

-----------------------------------------------------------------------------
(* Quiet: the reactions to the end of a close *)

(* An event leaves no reaction to the end of a close, unless it is one.     *)
LEMMA EventQuiet ==
  ASSUME Event, ActorTypes,
         \A a \in Actors : pc'[a] = pc[a] \/ pc'[a] \notin {"unblocked", "freed"}
  PROVE  Quiet'
BY DEF Event, Reactions, Quiet

(* A reaction begins no close, loses no session and frees nobody.           *)
LEMMA ReactionQuiet ==
  ASSUME Quiet, closing' = closing,
         \A a \in Actors : pc'[a] = pc[a] \/ pc'[a] \notin {"unblocked", "freed", "lost", "begin"}
  PROVE  Quiet'
BY DEF Quiet

(* reconnect() is called by an actor whose session is lost, so no reaction  *)
(* to the end of a close is due.                                            *)
LEMMA ReconnectQuiet ==
  ASSUME ActorTypes, Quiet, NEW a \in Actors, pc[a] = "lost", Reconnects(a)
  PROVE  Quiet'
<1>1. \A b \in Actors : pc[b] \notin {"unblocked", "freed"}
  BY DEF Quiet
<1>2. \A b \in Actors : pc'[b] \notin {"unblocked", "freed"}
  BY <1>1 DEF Reconnects, Goes, ActorTypes
<1> QED BY <1>2 DEF Quiet

(* What connect() does to the actors and to the close in progress. *)
LEMMA ConnectQuiet ==
  ASSUME ActorTypes, Quiet, NEW a \in Actors, Connect(a) \/ JoinOrStart(a), UNCHANGED heldVars
  PROVE  Quiet'
<1>1. \A b \in Actors : pc'[b] = pc[b] \/ pc'[b] \in {"threw", "got", "waitAttempt", "waitClose"}
  BY DEF Connect, JoinOrStart, Throws, Move, Goes, ActorTypes
<1> QED BY <1>1, ReactionQuiet DEF heldVars

(* Every step keeps Quiet. *)
LEMMA NextQuiet ==
  ASSUME ActorTypes, Quiet, Next
  PROVE  Quiet'
<1>a. Keeper \in Actors /\ Recon \in Actors /\ Calls \subseteq Actors
  BY DEF Actors
<1>1. ASSUME NEW a \in Actors, Connects(a) \/ Unblocked(a) PROVE Quiet'
  BY <1>1, ConnectQuiet DEF Connects, Unblocked
<1>2. ASSUME NEW t \in Calls, CallSteps(t) PROVE Quiet'
  <2>1. CASE Unblocked(t)
    BY <1>1, <1>a, <2>1
  <2>2. CASE Got(t) \/ GivesUp(t) \/ Retries(t) \/ Ends(t)
    <3>1. \A b \in Actors : pc'[b] = pc[b] \/ pc'[b] \in {"threw", "ready", "sent", "failed"}
      BY <2>2 DEF Got, GivesUp, Retries, Ends, Requests, Move, Goes, ActorTypes
    <3>2. closing' = closing
      BY <2>2 DEF Got, GivesUp, Retries, Ends, CallFrame, heldVars
    <3> QED BY <3>1, <3>2, ReactionQuiet
  <2>3. CASE Sends(t) \/ Serves(t) \/ Answers(t) \/ Refuses(t) \/ Breaks(t)
    <3>1. \A b \in Actors :
            pc'[b] = pc[b] \/ pc'[b] \in {"threw", "sent", "served", "done", "lost"}
      BY <2>3 DEF Sends, Serves, Answers, Refuses, Breaks, Requests, Move, Goes, ActorTypes
    <3>2. Event
      BY <2>3 DEF Sends, Serves, Answers, Refuses, Breaks
    <3> QED BY <3>1, <3>2, EventQuiet
  <2>4. CASE Recovers(t)
    BY <1>a, <2>4, ReconnectQuiet DEF Recovers
  <2> QED BY <1>2, <2>1, <2>2, <2>3, <2>4 DEF CallSteps
<1>3. CASE AttemptSteps
  <2>1. \A b \in Actors :
          pc'[b] = pc[b] \/ pc'[b] \in {"threw", "got", "waitDispose"}
    BY <1>3 DEF AttemptSteps, Handshake, AttemptFails, DisposeEnds, AttemptSettles,
                InstallOrDispose, Move, Goes, ActorTypes
  <2>2. Event
    BY <1>3 DEF AttemptSteps, Handshake, AttemptFails, DisposeEnds, AttemptSettles
  <2> QED BY <2>1, <2>2, EventQuiet
<1>4. CASE CloseEnds
  <2>1. closing' = None
    BY <1>4 DEF CloseEnds
  <2>2. \A b \in Actors : pc'[b] \notin {"lost", "begin"}
    BY <1>4 DEF CloseEnds, Event, Reactions, ActorTypes
  <2> QED BY <2>1, <2>2 DEF Quiet
<1>5. CASE ReconSteps
  <2>1. CASE Unblocked(Recon) \/ ReconConnects
    BY <1>1, <1>a, <2>1 DEF ReconConnects
  <2>2. CASE ReconCloses
    <3>1. \A b \in Actors : pc'[b] \notin {"unblocked", "freed"}
      BY <1>a, <2>2 DEF ReconCloses, Quiet, Goes, ActorTypes
    <3> QED BY <3>1 DEF Quiet
  <2>3. CASE ReconFinds
    <3>1. \A b \in Actors : pc'[b] = pc[b] \/ pc'[b] = "got"
      BY <2>3 DEF ReconFinds, Move, Goes, ActorTypes
    <3> QED BY <2>3, <3>1, ReactionQuiet DEF ReconFinds, heldVars
  <2>4. CASE ReconEnds
    <3>1. \A b \in Actors : pc'[b] = pc[b] \/ pc'[b] \in {"idle", "regot", "threw"}
      BY <2>4 DEF ReconEnds, ActorTypes
    <3> QED BY <2>4, <3>1, ReactionQuiet DEF ReconEnds, heldVars
  <2> QED BY <1>5, <2>1, <2>2, <2>3, <2>4 DEF ReconSteps
<1>6. CASE KeeperSteps
  <2>1. CASE Unblocked(Keeper) \/ Connects(Keeper)
    BY <1>1, <1>a, <2>1
  <2>2. CASE ChecksOpen \/ RetryDue \/ RefreshAnswered \/ RefreshBreaks \/ Refreshed
             \/ RefreshTimesOut \/ Refuses(Keeper)
    <3>1. \A b \in Actors : pc'[b] = pc[b] \/ pc'[b] \in {"idle", "refreshing", "lost"}
      BY <2>2 DEF ChecksOpen, RetryDue, RefreshAnswered, RefreshBreaks, Refreshed,
                  RefreshTimesOut, Refuses, KeeperRests, Move, Goes, ActorTypes
    <3>2. Event
      BY <2>2 DEF ChecksOpen, RetryDue, RefreshAnswered, RefreshBreaks, Refreshed,
                  RefreshTimesOut, Refuses
    <3> QED BY <3>1, <3>2, EventQuiet
  <2>3. CASE (FindsSuperseded \/ KeeperEnds) /\ ~Connects(Keeper)
    <3>1. \A b \in Actors : pc'[b] = pc[b] \/ pc'[b] = "idle"
      BY <2>3 DEF FindsSuperseded, KeeperEnds, KeeperRests, Move, Goes, ActorTypes
    <3>2. closing' = closing
      BY <2>3 DEF FindsSuperseded, KeeperEnds, KeeperFrame, heldVars
    <3> QED BY <3>1, <3>2, ReactionQuiet
  <2>4. CASE KeeperRecovers
    BY <1>a, <2>4, ReconnectQuiet DEF KeeperRecovers
  <2> QED BY <1>6, <2>1, <2>2, <2>3, <2>4 DEF KeeperSteps, ChecksClosed
<1>7. CASE ShutdownSteps \/ Environment
  <2>1. ASSUME NEW t \in Calls, Connects(t) PROVE Quiet'
    BY <1>1, <1>a, <2>1
  <2>2. CASE \A t \in Calls : ~Connects(t)
    <3>1. \A b \in Actors : pc'[b] = pc[b] \/ pc'[b] \in {"threw", "ready"}
      BY <1>7, <2>2
         DEF ShutdownSteps, Fences, ClosesRest, Stopping, Environment, UserCloses, Drops,
             LosesSession, ListChanges, ListAnnounced, Stops, Begins, CallFrame, Cancels, Goes,
             ActorTypes
    <3>2. Event
      BY <1>7 DEF ShutdownSteps, Fences, ClosesRest, Stopping, Environment, UserCloses, Drops,
                  LosesSession, ListChanges, ListAnnounced, Stops, Begins, Cancels
    <3> QED BY <3>1, <3>2, EventQuiet
  <2> QED BY <2>1, <2>2
<1> QED BY <1>2, <1>3, <1>4, <1>5, <1>6, <1>7 DEF Next

-----------------------------------------------------------------------------
(* Once: what the server has carried out is not sent again *)

(* A step that the server does not see, and that sends no call it carried out. *)
LEMMA UnseenOnce ==
  ASSUME Once, served' = served,
         \A t \in Calls : \/ pc'[t] = pc[t]
                         \/ pc[t] \notin {"served", "done", "threw", "failed"}
                         \/ pc'[t] \in {"served", "done", "threw", "failed"}
  PROVE  Once'
BY DEF Once

(* Every step keeps Once. *)
LEMMA NextOnce ==
  ASSUME ActorTypes, Once, Next
  PROVE  Once'
<1> DEFINE Sent == {"served", "done", "threw", "failed"}
<1>a. Keeper \in Actors /\ Recon \in Actors /\ Calls \subseteq Actors
  BY DEF Actors
<1>b. Keeper \notin Calls /\ Recon \notin Calls
  BY ConstantsAssumption
<1> DEFINE Unseen == \A t \in Calls : pc'[t] = pc[t] \/ pc[t] \notin Sent \/ pc'[t] \in Sent
<1>1. ASSUME NEW a \in Actors, pc[a] \notin Sent \/ a \notin Calls, Connects(a) \/ Unblocked(a)
      PROVE  Once'
  <2>1. \A b \in Actors : b # a => pc'[b] = pc[b]
    BY <1>1 DEF Connects, Unblocked, Connect, JoinOrStart, Throws, Move, Goes, ActorTypes
  <2>2. served' = served
    BY <1>1 DEF Connects, Unblocked, callVars
  <2> QED BY <1>1, <1>a, <2>1, <2>2, UnseenOnce
<1>2. ASSUME NEW t \in Calls, CallSteps(t) PROVE Once'
  <2>1. CASE Unblocked(t)
    BY <1>1, <1>a, <2>1 DEF Unblocked
  <2>2. CASE Got(t) \/ Sends(t) \/ Answers(t) \/ Refuses(t) \/ Breaks(t) \/ GivesUp(t)
             \/ Retries(t) \/ Ends(t)
    <3>1. Unseen
      BY <1>a, <1>b, <2>2 DEF Got, Sends, Answers, Refuses, Breaks, GivesUp, Retries, Ends,
                              Requests, Move, Goes, ActorTypes
    <3>2. served' = served
      BY <2>2 DEF Got, Sends, Answers, Refuses, Breaks, GivesUp, Retries, Ends, callVars
    <3> QED BY <3>1, <3>2, UnseenOnce
  <2>3. CASE Serves(t)
    <3>1. /\ pc[t] = "sent" /\ pc'[t] = "served"
          /\ \A u \in Calls : u # t => pc'[u] = pc[u] /\ served'[u] = served[u]
          /\ served'[t] = served[t] + 1
      BY <1>a, <2>3 DEF Serves, Goes, ActorTypes
    <3>2. served[t] = 0
      BY <3>1 DEF Once
    <3> QED BY <3>1, <3>2 DEF Once
  <2>4. CASE Recovers(t)
    <3>1. Unseen /\ served' = served
      BY <1>a, <1>b, <2>4 DEF Recovers, Reconnects, Goes, ActorTypes
    <3> QED BY <3>1, UnseenOnce
  <2> QED BY <1>2, <2>1, <2>2, <2>3, <2>4 DEF CallSteps
<1>3. CASE AttemptSteps \/ CloseEnds
  <2>1. \A t \in Calls :
          pc'[t] = pc[t] \/ pc[t] \in {"waitAttempt", "waitDispose", "waitClose", "ownClose"}
    <3>1. CASE Handshake
      BY <3>1 DEF Handshake
    <3>2. CASE AttemptFails \/ DisposeEnds
      BY <3>2, <1>a DEF AttemptFails, DisposeEnds, Goes, Waiting, ActorTypes
    <3>3. ASSUME NEW st \in {"connected", "needs-auth"}, AttemptSettles(st)
          PROVE  \A t \in Calls : pc'[t] = pc[t] \/ pc[t] = "waitAttempt"
      BY <3>3, <1>a DEF AttemptSettles, InstallOrDispose, Move, Goes, Waiting, ActorTypes
    <3>4. CASE CloseEnds
      BY <3>4, <1>a DEF CloseEnds, ActorTypes
    <3> QED BY <1>3, <3>1, <3>2, <3>3, <3>4 DEF AttemptSteps
  <2>2. served' = served
    BY <1>3 DEF AttemptSteps, Handshake, AttemptFails, DisposeEnds, AttemptSettles,
                AttemptFrame, CloseEnds, callVars
  <2> QED BY <2>1, <2>2, UnseenOnce
<1>4. CASE ReconSteps
  <2>1. CASE Unblocked(Recon) \/ ReconConnects
    BY <1>1, <1>a, <1>b, <2>1 DEF ReconConnects
  <2>2. CASE ReconCloses \/ ReconFinds \/ ReconEnds
    <3>1. Unseen
      BY <1>a, <1>b, <2>2 DEF ReconCloses, ReconFinds, ReconEnds, Move, Goes, ActorTypes
    <3>2. served' = served
      BY <2>2 DEF ReconCloses, ReconFinds, ReconEnds, callVars
    <3> QED BY <3>1, <3>2, UnseenOnce
  <2> QED BY <1>4, <2>1, <2>2 DEF ReconSteps
<1>5. CASE KeeperSteps
  <2>1. CASE Unblocked(Keeper) \/ Connects(Keeper)
    BY <1>1, <1>a, <1>b, <2>1
  <2>2. CASE ~Unblocked(Keeper) /\ ~Connects(Keeper)
    <3>1. Unseen
      BY <1>5, <1>a, <1>b, <2>2
         DEF KeeperSteps, ChecksClosed, ChecksOpen, RetryDue, RefreshAnswered, RefreshBreaks,
             Refreshed, RefreshTimesOut, Refuses, FindsSuperseded, KeeperRecovers, Reconnects,
             KeeperEnds, KeeperRests, Move, Goes, ActorTypes
    <3>2. served' = served
      BY <1>5, <2>2
         DEF KeeperSteps, ChecksClosed, ChecksOpen, RetryDue, RefreshAnswered, RefreshBreaks,
             Refreshed, RefreshTimesOut, Refuses, FindsSuperseded, KeeperRecovers, Reconnects,
             KeeperEnds, KeeperFrame, CallFrame, callVars
    <3> QED BY <3>1, <3>2, UnseenOnce
  <2> QED BY <2>1, <2>2
<1>6. CASE ShutdownSteps \/ Environment
  <2>1. ASSUME NEW t \in Calls, Begins(t) PROVE Once'
    <3>1. pc[t] = "new" /\ served' = served
      BY <2>1 DEF Begins, callVars
    <3>2. Connects(t) \/ Goes({t}, "ready") \/ Goes({t}, "threw")
      BY <2>1 DEF Begins
    <3>3. \A b \in Actors : b # t => pc'[b] = pc[b]
      BY <1>a, <3>2 DEF Connects, Connect, JoinOrStart, Throws, Move, Goes, ActorTypes
    <3> QED BY <1>a, <3>1, <3>3, UnseenOnce
  <2>2. CASE \A t \in Calls : ~Begins(t)
    <3>1. Unseen
      BY <1>6, <1>a, <2>2
         DEF ShutdownSteps, Fences, ClosesRest, Stopping, Environment, UserCloses, Drops,
             LosesSession, ListChanges, ListAnnounced, Stops, Cancels, Goes, ActorTypes
    <3>2. served' = served
      BY <1>6, <2>2
         DEF ShutdownSteps, Fences, ClosesRest, Stopping, ShutdownFrame, Environment, UserCloses,
             Drops, LosesSession, ListChanges, ListAnnounced, Stops, Cancels, callVars
    <3> QED BY <3>1, <3>2, UnseenOnce
  <2> QED BY <2>1, <2>2
<1> QED BY <1>2, <1>3, <1>4, <1>5, <1>6 DEF Next

-----------------------------------------------------------------------------
(* Stale: who recovers, recovers from what is of no use *)

(* Only the connection begun last can come to be open or known. *)
Grows ==
  /\ made' \in {made, made + 1}
  /\ open' \subseteq open \cup {made + 1} /\ session' \subseteq session \cup {made + 1}

(* What a step lets an actor say of its connection. *)
Knows(a) ==
  \/ pc'[a] = pc[a] /\ at'[a] = at[a]
  \/ pc'[a] \notin {"sent", "served", "refreshing", "lost", "begin"}
  \/ pc'[a] \in {"sent", "served", "refreshing"} /\ at'[a] \in 1..made
  \/ pc'[a] \in {"lost", "begin"} /\ Useless(at'[a])

(* A connection of no use stays so. *)
LEMMA UselessStays ==
  ASSUME ConnTypes, Grows, NEW i, Useless(i)
  PROVE  i \in 1..made' /\ (i \notin session' \/ i \notin open')
BY ConstantsAssumption DEF ConnTypes, Grows, Useless

(* Steps of which each actor knows what it says keep Stale. *)
LEMMA KnownStale ==
  ASSUME ConnTypes, Stale, Grows, \A a \in Actors : Knows(a)
  PROVE  Stale'
<1>1. 1..made \subseteq 1..made'
  BY ConstantsAssumption DEF ConnTypes, Grows
<1>2. ASSUME NEW a \in Actors, pc'[a] \in {"sent", "served", "refreshing"}
      PROVE  at'[a] \in 1..made'
  BY <1>1, <1>2 DEF Knows, Stale
<1>3. ASSUME NEW a \in Actors, pc'[a] = "lost" \/ (a = Recon /\ pc'[a] = "begin")
      PROVE  at'[a] \in 1..made' /\ (at'[a] \notin session' \/ at'[a] \notin open')
  <2>1. Useless(at'[a])
    BY <1>3 DEF Knows, Stale
  <2> QED BY <2>1, UselessStays
<1>4. Recon \in Actors
  BY DEF Actors
<1> QED BY <1>2, <1>3, <1>4 DEF Stale, Useless

(* Nothing but connect() opens a client or makes a session known. *)
LEMMA NextGrows ==
  ASSUME ConnTypes, Next
  PROVE  Grows
<1>1. ASSUME NEW a, Connect(a) \/ JoinOrStart(a) PROVE Grows
  BY <1>1 DEF Connect, JoinOrStart, Throws, begunVars, Grows
<1>2. CASE made' = made /\ open' \subseteq open /\ session' \subseteq session
  BY <1>2 DEF Grows
<1>3. CASE UNCHANGED begunVars
  BY <1>2, <1>3 DEF begunVars
<1>4. CASE Closed
  BY <1>2, <1>4 DEF Closed
<1>5. ASSUME NEW t \in Calls, CallSteps(t) \/ Begins(t) \/ Cancels(t) PROVE Grows
  <2>1. CASE Unblocked(t) \/ Connects(t)
    BY <1>1, <2>1 DEF Unblocked, Connects
  <2>2. CASE Cancels(t)
    BY <1>2, <2>2 DEF Cancels
  <2>3. Unblocked(t) \/ Connects(t) \/ Cancels(t) \/ UNCHANGED begunVars
    BY <1>5 DEF CallSteps, Got, Sends, Serves, Answers, Refuses, Breaks, Recovers, Reconnects,
                GivesUp, Retries, Ends, Begins, CallFrame
  <2> QED BY <1>3, <2>1, <2>2, <2>3
<1>6. CASE AttemptSteps \/ CloseEnds
  BY <1>2, <1>6 DEF AttemptSteps, Handshake, AttemptFails, DisposeEnds, AttemptSettles, Shut,
                    CloseEnds
<1>7. CASE ReconSteps \/ KeeperSteps
  <2>1. \/ \E a \in Actors : Unblocked(a) \/ Connects(a)
        \/ Closed
        \/ UNCHANGED begunVars
    BY <1>7 DEF ReconSteps, ReconCloses, ReconFinds, ReconConnects, ReconEnds, KeeperSteps,
                ChecksClosed, ChecksOpen, RetryDue, RefreshAnswered, RefreshBreaks, Refreshed,
                RefreshTimesOut, Refuses, FindsSuperseded, KeeperRecovers, Reconnects,
                KeeperEnds, KeeperFrame, CallFrame, Actors
  <2> QED BY <1>1, <1>3, <1>4, <2>1 DEF Unblocked, Connects
<1>8. CASE ShutdownSteps
  BY <1>2, <1>3, <1>4, <1>8 DEF ShutdownSteps, Fences, ClosesRest, Stopping
<1>9. CASE UserCloses \/ Drops \/ LosesSession \/ ListChanges \/ ListAnnounced \/ Stops
  <2>1. Closed \/ UNCHANGED begunVars
           \/ (made' = made /\ open' \subseteq open /\ session' \subseteq session)
    BY <1>9 DEF UserCloses, Drops, LosesSession, ListChanges, ListAnnounced, Stops, Shut
  <2> QED BY <1>2, <1>3, <1>4, <2>1
<1> QED BY <1>5, <1>6, <1>7, <1>8, <1>9 DEF Next, Environment

(* Every step keeps Stale. *)
LEMMA NextStale ==
  ASSUME ConnTypes, Linked, ActorTypes, Stale, Next
  PROVE  Stale'
<1>a. Keeper \in Actors /\ Recon \in Actors /\ Calls \subseteq Actors
  BY DEF Actors
<1>b. Keeper \notin Calls /\ Recon \notin Calls /\ Keeper # Recon
  BY ConstantsAssumption DEF Keeper, Recon
<1>k. SUFFICES \A a \in Actors : Knows(a)
  BY NextGrows, KnownStale
<1>o. open \subseteq 1..made
  BY ConstantsAssumption DEF ConnTypes, Linked, NoOrphan, Ids, None
<1> DEFINE Plain(a) == /\ pc'[a] # pc[a] \/ at'[a] # at[a]
                       => pc'[a] \notin {"sent", "served", "refreshing", "lost", "begin"}
<1>p. SUFFICES ASSUME ~ \A a \in Actors : Plain(a) PROVE \A a \in Actors : Knows(a)
  BY DEF Knows
<1>1. ASSUME NEW a \in Actors, Connects(a) \/ Unblocked(a) PROVE \A b \in Actors : Plain(b)
  BY <1>1 DEF Connects, Unblocked, Connect, JoinOrStart, Throws, Move, Goes, ActorTypes
<1>2. ASSUME NEW a \in Actors, a # Recon, pc[a] = "lost", Reconnects(a)
      PROVE  \A b \in Actors : Knows(b)
  <2>1. Useless(at[a])
    BY <1>2 DEF Stale
  <2>2. \A b \in Actors : b \notin {a, Recon} => pc'[b] = pc[b] /\ at'[b] = at[b]
    BY <1>2 DEF Reconnects, Goes, ActorTypes
  <2>3. pc'[a] \in {"threw", "waitRecon"}
    BY <1>2 DEF Reconnects, Goes, ActorTypes
  <2>4. \/ pc'[Recon] = pc[Recon] /\ at'[Recon] = at[Recon]
        \/ pc'[Recon] = "begin" /\ at'[Recon] = at[a]
    BY <1>2, <1>a DEF Reconnects, Goes, ActorTypes
  <2> QED BY <2>1, <2>2, <2>3, <2>4 DEF Knows
<1>3. ASSUME NEW t \in Calls, CallSteps(t) PROVE \A b \in Actors : Knows(b)
  <2>1. CASE Unblocked(t)
    BY <1>1, <1>a, <1>p, <2>1
  <2>2. CASE Got(t) \/ Answers(t) \/ Breaks(t) \/ GivesUp(t) \/ Ends(t)
    <3>1. \A b \in Actors : Plain(b)
      BY <1>a, <2>2 DEF Got, Answers, Breaks, GivesUp, Ends, Move, Goes, ActorTypes
    <3> QED BY <1>p, <3>1
  <2>3. CASE Sends(t) \/ Retries(t)
    <3>1. \A b \in Actors : b # t => pc'[b] = pc[b] /\ at'[b] = at[b]
      BY <1>a, <2>3 DEF Sends, Retries, Requests, Move, Goes, ActorTypes
    <3>2. pc'[t] = "threw" \/ (pc'[t] = "sent" /\ at'[t] \in open)
      BY <1>a, <2>3 DEF Sends, Retries, Requests, Move, Goes, ActorTypes
    <3> QED BY <1>o, <3>1, <3>2 DEF Knows
  <2>4. CASE Serves(t)
    <3>1. \A b \in Actors : at'[b] = at[b] /\ (b # t => pc'[b] = pc[b])
      BY <1>a, <2>4 DEF Serves, Goes, ActorTypes
    <3>2. pc'[t] = "served" /\ pc[t] = "sent"
      BY <1>a, <2>4 DEF Serves, Goes, ActorTypes
    <3>3. at[t] \in 1..made
      BY <1>a, <3>2 DEF Stale
    <3> QED BY <1>a, <3>1, <3>2, <3>3 DEF Knows
  <2>5. CASE Refuses(t)
    <3>1. \A b \in Actors : at'[b] = at[b] /\ (b # t => pc'[b] = pc[b])
      BY <1>a, <2>5 DEF Refuses, Goes, ActorTypes
    <3>2. pc'[t] = "lost" /\ pc[t] = "sent" /\ at[t] \notin session
      BY <1>a, <1>b, <2>5 DEF Refuses, Goes, ActorTypes
    <3>3. Useless(at[t])
      BY <1>a, <3>2 DEF Stale, Useless
    <3> QED BY <1>a, <3>1, <3>2, <3>3 DEF Knows
  <2>6. CASE Recovers(t)
    BY <1>2, <1>a, <1>b, <2>6 DEF Recovers
  <2> QED BY <1>3, <2>1, <2>2, <2>3, <2>4, <2>5, <2>6 DEF CallSteps
<1>4. CASE AttemptSteps \/ CloseEnds
  <2>1. CASE Handshake
    BY <1>p, <2>1 DEF Handshake
  <2>2. CASE AttemptFails \/ DisposeEnds
    BY <1>p, <2>2 DEF AttemptFails, DisposeEnds, Goes, ActorTypes
  <2>3. ASSUME NEW st \in {"connected", "needs-auth"}, AttemptSettles(st)
        PROVE  \A b \in Actors : Plain(b)
    BY <2>3 DEF AttemptSettles, InstallOrDispose, Move, Goes, Waiting, ActorTypes
  <2>4. CASE CloseEnds
    BY <1>p, <2>4 DEF CloseEnds, ActorTypes
  <2> QED BY <1>4, <1>p, <2>1, <2>2, <2>3, <2>4 DEF AttemptSteps
<1>5. CASE ReconSteps
  <2>1. CASE Unblocked(Recon) \/ ReconConnects
    BY <1>1, <1>a, <1>p, <2>1 DEF ReconConnects
  <2>2. CASE ReconCloses \/ ReconFinds
    BY <1>p, <2>2 DEF ReconCloses, ReconFinds, Move, Goes, ActorTypes
  <2>3. CASE ReconEnds
    <3>1. \A b \in Actors : Plain(b)
      BY <2>3 DEF ReconEnds, ActorTypes
    <3> QED BY <1>p, <3>1
  <2> QED BY <1>5, <2>1, <2>2, <2>3 DEF ReconSteps
<1>6. CASE KeeperSteps
  <2>1. CASE Unblocked(Keeper) \/ Connects(Keeper)
    BY <1>1, <1>a, <1>p, <2>1
  <2>2. CASE ChecksOpen
    <3>1. /\ \A b \in Actors : b # Keeper => pc'[b] = pc[b] /\ at'[b] = at[b]
          /\ at'[Keeper] = current
          /\ pc'[Keeper] = IF current \in open THEN "refreshing" ELSE "lost"
      BY <1>a, <2>2 DEF ChecksOpen, Move, Goes, ActorTypes
    <3>2. current \in open
      BY <2>2 DEF ChecksOpen, Linked
    <3> QED BY <1>o, <3>1, <3>2 DEF Knows
  <2>3. CASE RetryDue \/ RefreshAnswered
    BY <1>p, <2>3 DEF RetryDue, RefreshAnswered
  <2>4. CASE RefreshBreaks \/ Refuses(Keeper)
    <3>1. \A b \in Actors : at'[b] = at[b] /\ (b # Keeper => pc'[b] = pc[b])
      BY <1>a, <2>4 DEF RefreshBreaks, Refuses, Goes, ActorTypes
    <3>2. pc'[Keeper] = "lost" /\ pc[Keeper] = "refreshing"
      BY <1>a, <2>4 DEF RefreshBreaks, Refuses, Goes, ActorTypes
    <3>3. at[Keeper] \notin session \/ at[Keeper] \notin open
      BY <2>4 DEF RefreshBreaks, Refuses
    <3>4. Useless(at[Keeper])
      BY <1>a, <3>2, <3>3 DEF Stale, Useless
    <3> QED BY <1>a, <3>1, <3>2, <3>4 DEF Knows
  <2>5. CASE (Refreshed \/ RefreshTimesOut \/ FindsSuperseded \/ KeeperEnds) /\ ~Connects(Keeper)
    <3>1. \E record : KeeperRests(record)
      BY <2>5 DEF Refreshed, RefreshTimesOut, FindsSuperseded, KeeperEnds
    <3>2. \A b \in Actors : Plain(b)
      BY <3>1 DEF KeeperRests, Move, Goes, ActorTypes
    <3> QED BY <1>p, <3>2
  <2>6. CASE KeeperRecovers
    BY <1>2, <1>a, <1>b, <2>6 DEF KeeperRecovers
  <2> QED BY <1>6, <2>1, <2>2, <2>3, <2>4, <2>5, <2>6 DEF KeeperSteps, ChecksClosed
<1>7. CASE ShutdownSteps \/ Environment
  <2>1. ASSUME NEW t \in Calls, Connects(t) PROVE \A b \in Actors : Plain(b)
    BY <1>1, <1>a, <2>1
  <2>2. CASE \A t \in Calls : ~Connects(t)
    <3>1. \A b \in Actors :
            at'[b] = at[b] /\ (pc'[b] = pc[b] \/ pc'[b] \in {"threw", "ready"})
      BY <1>7, <2>2
         DEF ShutdownSteps, Fences, ClosesRest, Stopping, ShutdownFrame, Environment, UserCloses,
             Drops, LosesSession, ListChanges, ListAnnounced, Stops, Begins, CallFrame, Cancels,
             Goes, ActorTypes
    <3> QED BY <1>p, <3>1
  <2> QED BY <1>p, <2>1, <2>2
<1> QED BY <1>3, <1>4, <1>5, <1>6, <1>7 DEF Next

-----------------------------------------------------------------------------
(* The theorems *)

(* The inductive invariant holds in every state, whatever fails. *)
LEMMA Inductive == Safe => []IInv
<1>1. Init => IInv
  BY InitIInv
<1>2. IInv /\ [Next]_vars => IInv'
  <2> SUFFICES ASSUME IInv, [Next]_vars PROVE IInv'
    OBVIOUS
  <2>1. CASE Next
    BY <2>1, NextConnections, NextActors, NextKeeper, NextBounds, NextQuiet, NextOnce, NextStale
       DEF IInv, TypeOK
  <2>2. CASE UNCHANGED vars
    <3>1. ConnTypes' /\ Linked'
      BY <2>2, SameConnections DEF vars, IInv, TypeOK
    <3>2. ActorTypes' /\ KeeperTypes'
      BY <2>2 DEF vars, begunVars, attemptVars, callVars, toolVars, IInv, TypeOK, ActorTypes, KeeperTypes
    <3>3. Quiet' /\ Once' /\ Stale'
      BY <2>2 DEF vars, begunVars, heldVars, callVars, IInv, Quiet, Once, Stale, Useless
    <3> QED BY <2>2, <3>1, <3>2, <3>3 DEF vars, IInv, TypeOK
  <2> QED BY <2>1, <2>2
<1> QED BY <1>1, <1>2, PTL DEF Safe

(* Every variable keeps its type; the attempt is the connection begun last  *)
(* and is not current yet (server-manager.ts: connect()).                   *)
THEOREM TypeCorrect == Spec => []TypeOK
<1>1. IInv => TypeOK
  BY DEF IInv
<1> QED BY <1>1, Inductive, PTL DEF Spec

(* For any number of tool calls and of faults: no client is forgotten, what *)
(* a close() passed never becomes current, and one connection at most is    *)
(* usable (server-manager.ts: connect(), close(), closeAll()).              *)
THEOREM Bookkeeping == Spec => [](NoOrphan /\ FreshAfterClose /\ OneAtATime)
<1>1. IInv => NoOrphan /\ FreshAfterClose /\ OneAtATime
  BY DEF IInv, Linked
<1> QED BY <1>1, Inductive, PTL DEF Spec

(* However often sessions are lost and connections replaced, the server     *)
(* carries out a tool call at most once (session-recovery.ts).              *)
THEOREM SingleExecution == Spec => []AtMostOnce
<1>1. IInv => AtMostOnce
  BY DEF IInv, Once, AtMostOnce
<1> QED BY <1>1, Inductive, PTL DEF Spec

(* Recovery closes nothing but a connection whose session is lost or whose  *)
(* client has closed (server-manager.ts: doReconnect()).                    *)
THEOREM RecoveryIsSparing == Spec => RecoverySparesTheLive
<1> DEFINE Spares == \A i \in Ids :
       closing' = i /\ closing # i /\ faults' = faults /\ ~Aborted =>
         i \notin session \/ i \notin open
<1>1. IInv /\ [Next]_vars => [Spares]_vars
  <2> SUFFICES ASSUME IInv, Next, NEW i \in Ids, closing' = i, closing # i, faults' = faults,
                      ~Aborted
               PROVE  i \notin session \/ i \notin open
    OBVIOUS
  <2>1. CASE ReconCloses
    BY <2>1 DEF ReconCloses, Closed, IInv, Stale, Useless
  <2>2. CASE UserCloses \/ ClosesRest
    BY <2>2 DEF UserCloses, Fault, ClosesRest, Aborted, IInv, TypeOK
  <2>3. CASE CloseEnds
    BY <2>3, ConstantsAssumption DEF CloseEnds, Ids, None
  <2>4. ReconCloses \/ UserCloses \/ ClosesRest \/ CloseEnds
    BY DEF Next, CallSteps, AttemptSteps, ReconSteps, KeeperSteps, ShutdownSteps, Environment,
           Unblocked, Got, Sends, Serves, Answers, Refuses, Breaks, Recovers, Reconnects, GivesUp,
           Retries, Ends, CallFrame, Handshake, AttemptFails, AttemptFrame, DisposeEnds,
           AttemptSettles, ReconFinds, ReconConnects, Connects, ReconEnds, ChecksClosed,
           ChecksOpen, RetryDue, RefreshAnswered, RefreshBreaks, Refreshed, RefreshTimesOut,
           FindsSuperseded, KeeperRecovers, KeeperEnds, KeeperFrame, Fences, Stopping,
           Drops, LosesSession, ListChanges, ListAnnounced, Stops, Begins, Cancels, heldVars
  <2> QED BY <2>1, <2>2, <2>3, <2>4
<1> QED BY <1>1, Inductive, PTL DEF Spec, Safe, RecoverySparesTheLive

-----------------------------------------------------------------------------
(* The end of the shutdown *)

(* When closeAll() closes what is left, no attempt can be installed any more. *)
Ended == shutdown \in {"closing", "down"} => current = None /\ ~Running

(* connect() begins nothing once the signal of the runtime is aborted. *)
LEMMA ConnectEnded ==
  ASSUME NEW a, Ended, Connect(a) \/ JoinOrStart(a), UNCHANGED <<heldVars, shutdown>>
  PROVE  Ended'
<1>1. CASE Aborted
  <2>1. UNCHANGED begunVars
    BY <1>1 DEF Connect, JoinOrStart, Throws, SignalAborted
  <2> QED BY <2>1 DEF Ended, Running, begunVars, attemptVars, heldVars
<1>2. CASE ~Aborted
  BY <1>2 DEF Ended, Aborted
<1> QED BY <1>1, <1>2

(* Every step keeps Ended. *)
LEMMA NextEnded ==
  ASSUME Ended, Next
  PROVE  Ended'
<1>1. ASSUME NEW a, Connects(a) \/ Unblocked(a) PROVE Ended'
  BY <1>1, ConnectEnded DEF Connects, Unblocked
<1>2. ASSUME UNCHANGED <<begunVars, heldVars, shutdown>> PROVE Ended'
  BY <1>2 DEF Ended, Running, begunVars, attemptVars, heldVars
<1>3. ASSUME Closed, shutdown' = shutdown PROVE Ended'
  BY <1>3 DEF Ended, Running, Closed
<1>4. ASSUME NEW t \in Calls, CallSteps(t) \/ Begins(t) \/ Cancels(t) PROVE Ended'
  <2>1. CASE Unblocked(t) \/ Connects(t)
    BY <1>1, <2>1
  <2>2. CASE Cancels(t)
    BY <2>2 DEF Cancels, Ended, Running, heldVars
  <2>3. \/ Unblocked(t) \/ Connects(t) \/ Cancels(t)
        \/ UNCHANGED <<begunVars, heldVars, shutdown>>
    BY <1>4 DEF CallSteps, Got, Sends, Serves, Answers, Refuses, Breaks, Recovers, Reconnects,
                GivesUp, Retries, Ends, Begins, CallFrame
  <2> QED BY <1>2, <2>1, <2>2, <2>3
<1>5. CASE AttemptSteps
  <2>1. CASE Handshake
    BY <2>1 DEF Handshake, Ended, Running, heldVars
  <2>2. CASE AttemptFails
    BY <2>2 DEF AttemptFails, AttemptFrame, Forgotten, Ended, Running
  <2>3. CASE DisposeEnds
    BY <2>3 DEF DisposeEnds, Forgotten, Ended, Running, heldVars
  <2>4. ASSUME NEW st \in {"connected", "needs-auth"}, AttemptSettles(st) PROVE Ended'
    <3>1. Running /\ shutdown' = shutdown
      BY <2>4 DEF AttemptSettles, AttemptFrame, Running
    <3> QED BY <3>1 DEF Ended
  <2> QED BY <1>5, <2>1, <2>2, <2>3, <2>4 DEF AttemptSteps
<1>6. CASE CloseEnds
  BY <1>6 DEF CloseEnds, attemptVars, Ended, Running
<1>7. CASE ReconSteps
  <2>1. CASE ReconCloses
    BY <1>3, <2>1 DEF ReconCloses
  <2>2. CASE Unblocked(Recon) \/ ReconConnects
    BY <1>1, <2>2 DEF ReconConnects
  <2>3. CASE ReconFinds \/ ReconEnds
    BY <1>2, <2>3 DEF ReconFinds, ReconEnds
  <2> QED BY <1>7, <2>1, <2>2, <2>3 DEF ReconSteps
<1>8. CASE KeeperSteps
  <2>1. Unblocked(Keeper) \/ Connects(Keeper) \/ UNCHANGED <<begunVars, heldVars, shutdown>>
    BY <1>8 DEF KeeperSteps, ChecksClosed, ChecksOpen, RetryDue, RefreshAnswered,
                RefreshBreaks, Refreshed, RefreshTimesOut, Refuses, FindsSuperseded,
                KeeperRecovers, Reconnects, KeeperEnds, KeeperFrame, CallFrame
  <2> QED BY <1>1, <1>2, <2>1
<1>9. CASE ShutdownSteps \/ Stops
  <2>1. CASE Stops \/ Fences
    BY <2>1 DEF Stops, Fences, Ended
  <2>2. CASE ClosesRest
    BY <2>2 DEF ClosesRest, Closed, Ended, Running
  <2>3. CASE Stopping
    BY <2>3 DEF Stopping, Ended, Running, begunVars, attemptVars, heldVars
  <2> QED BY <1>9, <2>1, <2>2, <2>3 DEF ShutdownSteps
<1>10. CASE UserCloses
  BY <1>3, <1>10 DEF UserCloses
<1>11. CASE Drops \/ LosesSession \/ ListChanges \/ ListAnnounced
  BY <1>11 DEF Drops, LosesSession, ListChanges, ListAnnounced, begunVars, attemptVars,
               heldVars, Ended, Running
<1> QED
  BY <1>4, <1>5, <1>6, <1>7, <1>8, <1>9, <1>10, <1>11 DEF Next, Environment

(* Once owner.stop() has ended no connection is current and none comes to   *)
(* be, whatever attempts, reconnects and retries were under way when it     *)
(* began (server-manager.ts: closeAll(), runtime-owner.ts: stop()).         *)
THEOREM ShutdownHolds == Spec => []ShutdownIsFinal
<1>1. Init => Ended
  BY DEF Init, Ended
<1>2. Ended /\ [Next]_vars => Ended'
  <2>1. Ended /\ UNCHANGED vars => Ended'
    BY DEF Ended, Running, vars, begunVars, attemptVars, heldVars
  <2> QED BY <2>1, NextEnded
<1>3. Ended => ShutdownIsFinal
  BY DEF Ended, ShutdownIsFinal
<1> QED BY <1>1, <1>2, <1>3, PTL DEF Spec, Safe

-----------------------------------------------------------------------------
(* The tool lists *)

(* An answer is as new as the list that its connection had when it came,    *)
(* unless the revision says that the list has changed since.                *)
ToolsKnown ==
  /\ \A i \in Ids : tools[i] <= catalog
  /\ answer <= catalog
  /\ pc[Keeper] = "refreshing" =>
       /\ at[Keeper] # attempt
       /\ asked <= revision[at[Keeper]]
       /\ answer # None /\ asked = revision[at[Keeper]] => tools[at[Keeper]] <= answer

(* The keep-alive check is still waiting for the answer it was waiting for. *)
SameRefresh ==
  pc'[Keeper] = "refreshing" =>
    pc[Keeper] = "refreshing" /\ at'[Keeper] = at[Keeper] /\ UNCHANGED <<asked, answer>>

(* A step that leaves the lists alone. *)
LEMMA ToolsFrame ==
  ASSUME IInv, ToolsKnown, UNCHANGED <<catalog, tools, revision>>, SameRefresh,
         answer' \in {answer, None}, attempt' \in {attempt, None, made + 1}
  PROVE  ToolsKnown' /\ \A i \in Ids : tools'[i] >= tools[i]
<1>1. /\ catalog \in Nat /\ tools \in [Ids -> Nat] /\ made \in Nat
  BY ConstantsAssumption DEF IInv, TypeOK, KeeperTypes, ConnTypes
<1>2. pc[Keeper] = "refreshing" => at[Keeper] \in 1..made
  BY DEF IInv, Stale, Actors
<1>3. pc'[Keeper] = "refreshing" => at'[Keeper] # attempt'
  BY <1>1, <1>2 DEF SameRefresh, ToolsKnown, None
<1> QED BY <1>1, <1>3 DEF ToolsKnown, SameRefresh, None

(* The steps that do not touch a list. *)
OtherSteps ==
  \/ \E t \in Calls : CallSteps(t) \/ Begins(t) \/ Cancels(t)
  \/ AttemptFails \/ DisposeEnds \/ \E st \in {"connected", "needs-auth"} : AttemptSettles(st)
  \/ CloseEnds \/ ReconSteps \/ ShutdownSteps
  \/ Unblocked(Keeper) \/ ChecksClosed \/ RetryDue \/ RefreshBreaks \/ RefreshTimesOut
  \/ Refuses(Keeper) \/ FindsSuperseded \/ KeeperRecovers \/ KeeperEnds
  \/ UserCloses \/ Drops \/ LosesSession \/ Stops

(* None of them renews a list, or begins a refresh. *)
LEMMA OtherFrame ==
  ASSUME ConnTypes, ActorTypes, OtherSteps
  PROVE  /\ UNCHANGED <<catalog, tools, revision>> /\ SameRefresh
         /\ answer' \in {answer, None} /\ attempt' \in {attempt, None, made + 1}
<1> DEFINE Goal == /\ UNCHANGED <<catalog, tools, revision>> /\ SameRefresh
                   /\ answer' \in {answer, None} /\ attempt' \in {attempt, None, made + 1}
           Quits == pc'[Keeper] # "refreshing" \/ (pc'[Keeper] = pc[Keeper] /\ at'[Keeper] = at[Keeper])
<1>a. Keeper \in Actors /\ Recon \in Actors /\ Calls \subseteq Actors /\ Keeper # Recon
      /\ Keeper \notin Calls
  BY ConstantsAssumption DEF Actors, Keeper, Recon
<1>1. ASSUME UNCHANGED toolVars, Quits, attempt' \in {attempt, None, made + 1} PROVE Goal
  BY <1>1 DEF toolVars, SameRefresh
<1>2. ASSUME NEW a \in Actors, Connects(a) \/ Unblocked(a) PROVE Goal
  <2>1. Quits
    BY <1>a, <1>2 DEF Connects, Unblocked, Connect, JoinOrStart, Throws, Move, Goes, ActorTypes
  <2>2. UNCHANGED toolVars /\ attempt' \in {attempt, None, made + 1}
    BY <1>2 DEF Connects, Unblocked, Connect, JoinOrStart, Throws, begunVars, attemptVars
  <2> QED BY <1>1, <2>1, <2>2
<1>3. ASSUME NEW a \in Actors, Reconnects(a) PROVE Goal
  <2>1. Quits
    BY <1>a, <1>3 DEF Reconnects, Goes, ActorTypes
  <2> QED BY <1>1, <1>3, <2>1 DEF Reconnects, begunVars, attemptVars
<1>4. ASSUME NEW t \in Calls, CallSteps(t) \/ Begins(t) \/ Cancels(t) PROVE Goal
  <2>1. CASE Unblocked(t) \/ Connects(t)
    BY <1>2, <1>a, <2>1
  <2>2. CASE Recovers(t)
    BY <1>3, <1>a, <2>2 DEF Recovers
  <2>3. CASE Cancels(t)
    <3>1. Quits
      BY <1>a, <2>3 DEF Cancels, Goes, ActorTypes
    <3> QED BY <1>1, <2>3, <3>1 DEF Cancels
  <2>4. CASE ~Unblocked(t) /\ ~Connects(t) /\ ~Recovers(t) /\ ~Cancels(t)
    <3>1. Quits
      BY <1>4, <1>a, <2>4
         DEF CallSteps, Got, Sends, Serves, Answers, Refuses, Breaks, GivesUp, Retries, Ends,
             Begins, Requests, Move, Goes, ActorTypes
    <3>2. UNCHANGED toolVars /\ attempt' = attempt
      BY <1>4, <2>4
         DEF CallSteps, Got, Sends, Serves, Answers, Refuses, Breaks, GivesUp, Retries, Ends,
             Begins, CallFrame, begunVars, attemptVars
    <3> QED BY <1>1, <3>1, <3>2
  <2> QED BY <2>1, <2>2, <2>3, <2>4
<1>5. CASE AttemptFails \/ DisposeEnds \/ \E st \in {"connected", "needs-auth"} : AttemptSettles(st)
  <2>1. Quits
    BY <1>5, <1>a DEF AttemptFails, DisposeEnds, AttemptSettles, InstallOrDispose, Move, Goes,
                      ActorTypes
  <2>2. UNCHANGED toolVars /\ attempt' \in {attempt, None}
    BY <1>5 DEF AttemptFails, DisposeEnds, AttemptSettles, InstallOrDispose, AttemptFrame,
                Forgotten
  <2> QED BY <1>1, <2>1, <2>2
<1>6. CASE CloseEnds
  <2>1. Quits
    BY <1>6, <1>a DEF CloseEnds, ActorTypes
  <2> QED BY <1>1, <1>6, <2>1 DEF CloseEnds, attemptVars
<1>7. CASE ReconSteps
  <2>1. CASE Unblocked(Recon) \/ ReconConnects
    BY <1>2, <1>a, <2>1 DEF ReconConnects
  <2>2. CASE ReconCloses \/ ReconFinds \/ ReconEnds
    <3>1. Quits
      BY <1>a, <2>2 DEF ReconCloses, ReconFinds, ReconEnds, Move, Goes, ActorTypes
    <3>2. UNCHANGED toolVars /\ attempt' = attempt
      BY <2>2 DEF ReconCloses, Closed, ReconFinds, ReconEnds, begunVars, attemptVars
    <3> QED BY <1>1, <3>1, <3>2
  <2> QED BY <1>7, <2>1, <2>2 DEF ReconSteps
<1>8. CASE Unblocked(Keeper) \/ Connects(Keeper)
  BY <1>2, <1>a, <1>8
<1>9. CASE RetryDue \/ RefreshBreaks \/ Refuses(Keeper)
  <2>1. Quits
    BY <1>9, <1>a DEF RetryDue, RefreshBreaks, Refuses, Goes, ActorTypes
  <2>2. UNCHANGED toolVars /\ attempt' = attempt
    BY <1>9 DEF RetryDue, RefreshBreaks, Refuses, KeeperFrame, CallFrame, begunVars, attemptVars
  <2> QED BY <1>1, <2>1, <2>2
<1>10. CASE (RefreshTimesOut \/ FindsSuperseded \/ KeeperEnds) /\ ~Connects(Keeper)
  <2>1. /\ \E record : KeeperRests(record)
        /\ UNCHANGED <<catalog, tools, revision>> /\ attempt' = attempt
    BY <1>10 DEF RefreshTimesOut, FindsSuperseded, KeeperEnds, KeeperFrame, begunVars, attemptVars
  <2>2. pc'[Keeper] = "idle" /\ answer' = None
    BY <1>a, <2>1 DEF KeeperRests, Move, Goes, ActorTypes
  <2> QED BY <2>1, <2>2 DEF SameRefresh
<1>11. CASE KeeperRecovers
  BY <1>3, <1>a, <1>11 DEF KeeperRecovers
<1>12. CASE ShutdownSteps \/ UserCloses \/ Drops \/ LosesSession \/ Stops
  <2>1. Quits
    BY <1>12, <1>a DEF ShutdownSteps, Fences, ClosesRest, Stopping, ShutdownFrame, UserCloses,
                       Drops, LosesSession, Stops, Goes, ActorTypes
  <2>2. UNCHANGED toolVars /\ attempt' = attempt
    BY <1>12 DEF ShutdownSteps, Fences, ClosesRest, Stopping, ShutdownFrame, UserCloses, Closed,
                 Drops, LosesSession, Stops, begunVars, attemptVars
  <2> QED BY <1>1, <2>1, <2>2
<1> QED
  BY <1>4, <1>5, <1>6, <1>7, <1>8, <1>9, <1>10, <1>11, <1>12 DEF OtherSteps, ChecksClosed

(* Every step keeps ToolsKnown and takes no list back. *)
LEMMA NextTools ==
  ASSUME IInv, ToolsKnown, Next
  PROVE  ToolsKnown' /\ \A i \in Ids : tools'[i] >= tools[i]
<1>t. /\ ConnTypes /\ ActorTypes /\ catalog \in Nat /\ tools \in [Ids -> Nat]
      /\ revision \in [Ids -> Nat] /\ asked \in Nat /\ answer \in Nat /\ made \in Nat
      /\ Keeper \in Actors
  BY ConstantsAssumption DEF IInv, TypeOK, KeeperTypes, ConnTypes, Actors
<1>u. /\ attempt # None => attempt \in Ids
      /\ current # None => current \in Ids
      /\ pc[Keeper] = "refreshing" => at[Keeper] \in Ids /\ at[Keeper] # None
  BY ConstantsAssumption, <1>t DEF IInv, Stale, ConnTypes, Ids, None
<1>1. CASE OtherSteps
  BY <1>1, <1>t, OtherFrame, ToolsFrame
<1>2. CASE Handshake
  <2>1. /\ attempt \in Ids /\ tools' = [tools EXCEPT ![attempt] = catalog]
        /\ UNCHANGED <<attempt, pc, at, catalog, revision, asked, answer>>
    BY <1>2, <1>u DEF Handshake
  <2>2. \A i \in Ids : tools'[i] = IF i = attempt THEN catalog ELSE tools[i]
    BY <1>t, <2>1
  <2>3. pc[Keeper] = "refreshing" => tools'[at[Keeper]] = tools[at[Keeper]]
    BY <1>u, <2>2 DEF ToolsKnown
  <2> QED BY <1>t, <2>1, <2>2, <2>3 DEF ToolsKnown
<1>3. CASE ChecksOpen
  <2>1. /\ Connected(current) /\ asked' = revision[current] /\ answer' = None
        /\ UNCHANGED <<catalog, tools, revision, attempt>>
        /\ at'[Keeper] = current
    BY <1>3, <1>t DEF ChecksOpen, Move, KeeperFrame, begunVars, attemptVars, ActorTypes
  <2>2. current # None /\ current # attempt
    BY <1>t, <2>1 DEF Connected, StatusOf, ConnTypes
  <2>3. current \in Ids /\ revision[current] \in Nat
    BY <1>t, <1>u, <2>2
  <2> QED BY <1>t, <2>1, <2>2, <2>3 DEF ToolsKnown, None
<1>4. CASE RefreshAnswered
  BY <1>4, <1>t, <1>u DEF RefreshAnswered, KeeperFrame, begunVars, attemptVars, ToolsKnown
<1>5. CASE Refreshed
  <2>1. /\ pc[Keeper] = "refreshing" /\ answer # None /\ current = at[Keeper]
        /\ revision[at[Keeper]] = asked /\ catalog' = catalog /\ answer' = None
        /\ \/ tools' = tools
           \/ tools' = [tools EXCEPT ![current] = answer]
    BY <1>5 DEF Refreshed, Superseded, KeeperRests
  <2>2. pc'[Keeper] = "idle"
    BY <1>5, <1>t DEF Refreshed, KeeperRests, Move, Goes, ActorTypes
  <2>3. tools[current] <= answer /\ answer <= catalog
    BY <2>1 DEF ToolsKnown
  <2>4. \A i \in Ids : tools'[i] = tools[i] \/ (i = current /\ tools'[i] = answer)
    BY <1>t, <2>1
  <2> QED BY <1>t, <2>1, <2>2, <2>3, <2>4 DEF ToolsKnown, None
<1>6. CASE ListChanges
  BY <1>6, <1>t DEF ListChanges, begunVars, attemptVars, ToolsKnown
<1>7. CASE ListAnnounced
  <2>1. /\ current \in Ids /\ tools[current] < catalog
        /\ tools' = [tools EXCEPT ![current] = catalog]
        /\ revision' = [revision EXCEPT ![current] = revision[current] + 1]
        /\ UNCHANGED <<pc, at, catalog, asked, answer, attempt>>
    BY <1>7, <1>u DEF ListAnnounced, Connected, StatusOf, begunVars, attemptVars
  <2>2. \A i \in Ids : /\ tools'[i] = IF i = current THEN catalog ELSE tools[i]
                       /\ revision'[i] = IF i = current THEN revision[i] + 1 ELSE revision[i]
    BY <1>t, <2>1
  <2>3. \A i \in Ids : tools[i] \in Nat /\ revision[i] \in Nat
    BY <1>t
  <2>4. ASSUME pc[Keeper] = "refreshing"
        PROVE  /\ asked <= revision'[at[Keeper]]
               /\ answer # None /\ asked = revision'[at[Keeper]] => tools'[at[Keeper]] <= answer
    BY <1>t, <1>u, <2>1, <2>2, <2>3, <2>4 DEF ToolsKnown
  <2> QED BY <1>t, <2>1, <2>2, <2>3, <2>4 DEF ToolsKnown
<1> QED
  BY <1>1, <1>2, <1>3, <1>4, <1>5, <1>6, <1>7
     DEF Next, AttemptSteps, KeeperSteps, Environment, OtherSteps

(* The tool list of a connection never goes back to an earlier one, however *)
(* refreshes, their answers and the announcements of the server cross each  *)
(* other (server-manager.ts: refreshTools(), handleToolsListChanged()).     *)
THEOREM ToolsAdvance == Spec => ToolsOnlyAdvance
<1>1. Init => ToolsKnown
  BY ConstantsAssumption DEF Init, ToolsKnown, Keeper, Actors, None
<1>2. IInv /\ ToolsKnown /\ [Next]_vars => ToolsKnown'
  <2>1. ToolsKnown /\ UNCHANGED vars => ToolsKnown'
    BY DEF ToolsKnown, vars, toolVars, begunVars, attemptVars
  <2> QED BY <2>1, NextTools
<1>3. IInv /\ ToolsKnown /\ [Next]_vars => [\A i \in Ids : tools'[i] >= tools[i]]_vars
  BY NextTools
<1> QED BY <1>1, <1>2, <1>3, Inductive, PTL DEF Spec, Safe, ToolsOnlyAdvance
=============================================================================
