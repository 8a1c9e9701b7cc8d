-------------------------- MODULE SecurityGateway --------------------------
(***************************************************************************)
(* SecurityEventsGateway of one process: the sockets, their subscriptions, *)
(* the push of a published event and the replay from a cursor.             *)
(*                                                                         *)
(* The two neighbours are abstracted to what the gateway sees of them.     *)
(* AuthSessions: the session of a socket's access token is worth something *)
(* until it is lost for good (AuthSessionsProofs!RejectedStaysRejected).   *)
(* SecurityOutbox: an alert that is not DELIVERED may be published at any  *)
(* time, again after an attempt that was not recorded, in any order        *)
(* (retries back off, and every process has its own flush), and one        *)
(* publication at a time in one process.                                   *)
(***************************************************************************)
EXTENDS Naturals, FiniteSets, Sequences, SequencesExt

CONSTANTS
  Sockets,         \* connections, each used once
  Users,           \* client applications that reconnect
  UserOf,          \* socket -> user
  Calls,
  Events,          \* alerts, by externalEventId
  CallOf,          \* event -> call
  Handlers,        \* subscribe requests that run at the same time
  MaxConnections,  \* api.securityConnectionMaximum
  ReplayMax,       \* api.securityEventReplayMaximum
  None             \* no cursor, no event, no socket, no user

ASSUME GatewayAssumption ==
  /\ \A s \in Sockets : UserOf[s] \in Users
  /\ \A e \in Events : CallOf[e] \in Calls
  /\ MaxConnections \in Nat
  /\ ReplayMax \in Nat
  /\ None \notin Sockets \cup Events \cup Users

VARIABLES
  \* the Alert table
  alerts,      \* the rows in the order of createdAt
  delivered,   \* those DELIVERED, in the order of deliveredAt
  acknowledgedBy,  \* the user whose acknowledgement of a row was written last
  \* the process
  pending,     \* sockets whose authentication is awaited
  clients,     \* the Map: sockets in the order of insertion
  subscribed,  \* ClientState.callIds
  state,       \* readyState of a socket
  lost,        \* sockets whose session is not worth anything any more
  recent,      \* replay and fingerprints: events published here lately
  loop,        \* the publish call that is under way
  work,        \* the subscribe calls that are under way
  \* what the properties look at
  sent,        \* events that were written to a socket
  granted,     \* calls that were found readable for a socket
  steady,      \* sockets subscribed ever since the publish call began
  revoked      \* open sockets whose session was lost by then

outboxVars == <<alerts, delivered, acknowledgedBy>>
mapVars == <<pending, clients, subscribed, state>>
pushVars == <<recent, loop>>
seenVars == <<sent, granted, steady, revoked>>
vars == <<outboxVars, mapVars, lost, pushVars, work, seenVars>>

NoLoop == [pc |-> "idle", event |-> None, passed |-> {}, at |-> None]
Idle == [pc |-> "idle", sock |-> None, calls |-> {}, cursor |-> None]
Open(s) == state[s] = "open"
Listed(s) == \E i \in DOMAIN clients : clients[i] = s
IsDelivered(e) == \E i \in DOMAIN delivered : delivered[i] = e
SentTo(u) == UNION {sent[s] : s \in {r \in Sockets : UserOf[r] = u}}

TypeOK ==
  /\ alerts \in Seq(Events)
  /\ delivered \in Seq(Events)
  /\ acknowledgedBy \in [Events -> Users \cup {None}]
  /\ pending \in SUBSET Sockets
  /\ clients \in Seq(Sockets)
  /\ subscribed \in [Sockets -> SUBSET Calls]
  /\ state \in [Sockets -> {"new", "open", "closed"}]
  /\ lost \in SUBSET Sockets
  /\ recent \in Seq(Events)
  /\ loop \in [pc : {"idle", "loop", "check", "send", "done"}, event : Events \cup {None},
               passed : SUBSET Sockets, at : Sockets \cup {None}]
  /\ loop.pc = "idle" <=> loop.event = None
  /\ work \in [Handlers -> [pc : {"idle", "auth", "read", "replay"}, sock : Sockets \cup {None},
                            calls : SUBSET Calls, cursor : Events \cup {None}]]
  /\ sent \in [Sockets -> SUBSET Events]
  /\ granted \in [Sockets -> SUBSET Calls]
  /\ steady \in SUBSET Sockets
  /\ revoked \in SUBSET Sockets

Init ==
  /\ alerts = <<>>
  /\ delivered = <<>>
  /\ acknowledgedBy = [e \in Events |-> None]
  /\ pending = {}
  /\ clients = <<>>
  /\ subscribed = [s \in Sockets |-> {}]
  /\ state = [s \in Sockets |-> "new"]
  /\ lost = {}
  /\ recent = <<>>
  /\ loop = NoLoop
  /\ work = [h \in Handlers |-> Idle]
  /\ sent = [s \in Sockets |-> {}]
  /\ granted = [s \in Sockets |-> {}]
  /\ steady = {}
  /\ revoked = {}

-----------------------------------------------------------------------------
(* Connections.                                                            *)

\* Mutant: only the sockets that are through are counted.
MutantHasRoomOpenOnly == Len(clients) < MaxConnections
HasRoom == Len(clients) + Cardinality(pending) < MaxConnections

\* handleConnection, up to the authentication.
handleConnection(s) ==
  /\ state[s] = "new"
  /\ HasRoom
  /\ state' = [state EXCEPT ![s] = "open"]
  /\ pending' = pending \cup {s}
  /\ UNCHANGED <<outboxVars, clients, subscribed, lost, pushVars, work, seenVars>>

\* Its continuation: a socket that was closed meanwhile is put into the Map too, and
\* security.ready, which is no event, is sent without a look at readyState.  The socket
\* is closed when the session is lost, a query fails, or that send throws; in the last
\* case dropClient takes it out of the Map in the same step.
Authenticated(s) ==
  /\ s \in pending
  /\ pending' = pending \ {s}
  /\ \/ s \notin lost /\ clients' = Append(clients, s) /\ UNCHANGED state
     \/ state' = [state EXCEPT ![s] = "closed"] /\ UNCHANGED clients
  /\ UNCHANGED <<outboxVars, subscribed, lost, pushVars, work, seenVars>>

Place(s) == CHOOSE i \in DOMAIN clients : clients[i] = s

\* dropClient.
Dropped(s) ==
  /\ clients' = IF Listed(s) THEN RemoveAt(clients, Place(s)) ELSE clients
  /\ state' = [state EXCEPT ![s] = "closed"]

\* The peer closes, and handleDisconnect removes what is there.
Disconnect(s) ==
  /\ Open(s)
  /\ Dropped(s)
  /\ UNCHANGED <<outboxVars, pending, subscribed, lost, pushVars, work, seenVars>>

\* consumeInbound: a message over the limit of its window, which is not counted here.
consumeInbound(s) ==
  /\ Listed(s)
  /\ Open(s)
  /\ Dropped(s)
  /\ UNCHANGED <<outboxVars, pending, subscribed, lost, pushVars, work, seenVars>>

\* The session is rotated, revoked, expired or disabled.
SessionLost(s) ==
  /\ state[s] # "new"
  /\ s \notin lost
  /\ lost' = lost \cup {s}
  /\ UNCHANGED <<outboxVars, mapVars, pushVars, work, seenVars>>

-----------------------------------------------------------------------------
(* subscribe.                                                              *)

\* A client's cursor is an event it got on this connection or an earlier one.
subscribe(h, s, calls, cursor) ==
  /\ work[h].pc = "idle"
  /\ Listed(s)
  /\ Open(s)
  /\ cursor \in SentTo(UserOf[s]) \cup {None}
  /\ work' = [work EXCEPT ![h] = [pc |-> "auth", sock |-> s, calls |-> calls, cursor |-> cursor]]
  /\ UNCHANGED <<outboxVars, mapVars, lost, pushVars, seenVars>>

\* reauthenticate.  The access token of a dropped client is erased.
StillAuthentic(s) == Listed(s) /\ s \notin lost

\* Mutant: the subscription is replaced before the calls are checked.
MutantReauthenticateSubscribes(h) ==
  LET s == work[h].sock IN
  /\ work[h].pc = "auth"
  /\ \/ /\ StillAuthentic(s)
        /\ work' = [work EXCEPT ![h].pc = "read"]
        /\ subscribed' = [subscribed EXCEPT ![s] = work[h].calls]
        /\ UNCHANGED <<clients, state>>
     \/ work' = [work EXCEPT ![h] = Idle] /\ Dropped(s) /\ UNCHANGED subscribed
  /\ UNCHANGED <<outboxVars, pending, lost, pushVars, seenVars>>

\* The client is revoked when it is not authentic any more, or a query fails.
Reauthenticate(h) ==
  LET s == work[h].sock IN
  /\ work[h].pc = "auth"
  /\ \/ StillAuthentic(s) /\ work' = [work EXCEPT ![h].pc = "read"] /\ UNCHANGED <<clients, state>>
     \/ work' = [work EXCEPT ![h] = Idle] /\ Dropped(s)
  /\ UNCHANGED <<outboxVars, pending, subscribed, lost, pushVars, seenVars>>

\* assertReadable of each call passes: the subscription is replaced.
Readable(h) ==
  LET s == work[h].sock IN
  /\ work[h].pc = "read"
  /\ granted' = [granted EXCEPT ![s] = @ \cup work[h].calls]
  /\ subscribed' = [subscribed EXCEPT ![s] = work[h].calls]
  /\ steady' = IF loop.event # None /\ CallOf[loop.event] \notin work[h].calls
               THEN steady \ {s} ELSE steady
  /\ work' = [work EXCEPT ![h].pc = "replay"]
  /\ UNCHANGED <<outboxVars, pending, clients, state, lost, pushVars, sent, revoked>>

\* A call is not readable, or a query fails.
SubscribeRejects(h) ==
  /\ work[h].pc \in {"read", "replay"}
  /\ work' = [work EXCEPT ![h] = Idle]
  /\ UNCHANGED <<outboxVars, mapVars, lost, pushVars, seenVars>>

\* SecurityEventOutboxRepository.replay: the last DELIVERED rows of the calls.
Records(calls) ==
  LET rows == {i \in DOMAIN alerts : IsDelivered(alerts[i]) /\ CallOf[alerts[i]] \in calls}
  IN  {i \in rows : Cardinality({j \in rows : j > i}) < ReplayMax}

\* What follows the cursor.  That is nothing for a new subscriber, and for one whose
\* cursor is not among the records (BOUNDARY_EXCEEDED).
Replayed(calls, cursor) ==
  {alerts[i] : i \in {j \in Records(calls) : \E k \in Records(calls) : k < j /\ alerts[k] = cursor}}

\* sendEvent: a socket that is not open is dropped instead.
sendEvent(s, events) ==
  IF Open(s) \/ events = {}
  THEN sent' = [sent EXCEPT ![s] = @ \cup events] /\ UNCHANGED <<clients, state>>
  ELSE Dropped(s) /\ UNCHANGED sent

ReplayAndAnswer(h) ==
  /\ work[h].pc = "replay"
  /\ sendEvent(work[h].sock, Replayed(work[h].calls, work[h].cursor))
  /\ work' = [work EXCEPT ![h] = Idle]
  /\ UNCHANGED <<outboxVars, pending, subscribed, lost, pushVars, granted, steady, revoked>>

-----------------------------------------------------------------------------
(* acknowledge.                                                            *)

\* reauthorize: the session or one of the subscribed calls is out of reach, or a query
\* fails.
AcknowledgeRevokes(s) ==
  /\ Listed(s)
  /\ Open(s)
  /\ Dropped(s)
  /\ UNCHANGED <<outboxVars, pending, subscribed, lost, pushVars, work, seenVars>>

\* SecurityEventOutboxRepository.acknowledge, of a row of these calls that is delivered or
\* being published, which here any row may be.  An earlier acknowledgement stays when it
\* was read, and is overwritten when it came between the read and the write.
acknowledge(e, user, calls) ==
  /\ \E i \in DOMAIN alerts : alerts[i] = e
  /\ CallOf[e] \in calls
  /\ \E by \in {user, acknowledgedBy[e]} \ {None} :
       acknowledgedBy' = [acknowledgedBy EXCEPT ![e] = by]

\* The calls are those subscribed when the checks have passed; the client may have been
\* dropped by then.
Acknowledge(s, e) ==
  /\ acknowledge(e, UserOf[s], subscribed[s])
  /\ UNCHANGED <<alerts, delivered, mapVars, lost, pushVars, work, seenVars>>

-----------------------------------------------------------------------------
(* publish, and the outbox around it.                                      *)

CreateAlert(e) ==
  /\ \A i \in DOMAIN alerts : alerts[i] # e
  /\ alerts' = Append(alerts, e)
  /\ UNCHANGED <<delivered, acknowledgedBy, mapVars, lost, pushVars, work, seenVars>>

Unsettled(e) == (\E i \in DOMAIN alerts : alerts[i] = e) /\ ~IsDelivered(e)
Remembered(e) == \E i \in DOMAIN recent : recent[i] = e

\* The last events are remembered, as many as a replay may have.
LastOf(seq) == SubSeq(seq, IF Len(seq) > ReplayMax THEN Len(seq) - ReplayMax + 1 ELSE 1, Len(seq))

\* An event that this process published lately is not pushed again.
PublishKnown(e) ==
  /\ loop.pc = "idle"
  /\ Unsettled(e)
  /\ Remembered(e)
  /\ loop' = [NoLoop EXCEPT !.pc = "done", !.event = e]
  /\ steady' = {}
  /\ revoked' = {}
  /\ UNCHANGED <<outboxVars, mapVars, lost, recent, work, sent, granted>>

Publish(e) ==
  /\ loop.pc = "idle"
  /\ Unsettled(e)
  /\ ~Remembered(e)
  /\ recent' = LastOf(Append(recent, e))
  /\ loop' = [NoLoop EXCEPT !.pc = "loop", !.event = e]
  /\ steady' = {s \in Sockets : Listed(s) /\ CallOf[e] \in subscribed[s]}
  /\ revoked' = {s \in lost : Open(s)}
  /\ UNCHANGED <<outboxVars, mapVars, lost, work, sent, granted>>

\* The loop over the live Map: clients are passed in their order, and those that
\* are not subscribed at that moment are passed for good.
NextTarget ==
  LET due == {i \in DOMAIN clients :
                clients[i] \notin loop.passed /\ CallOf[loop.event] \in subscribed[clients[i]]}
      first == CHOOSE i \in due : \A j \in due : i <= j
  IN
  /\ loop.pc = "loop"
  /\ loop' = IF due = {}
             THEN [loop EXCEPT !.pc = "done", !.at = None, !.passed = {}]
             ELSE [loop EXCEPT !.pc = "check", !.at = clients[first],
                               !.passed = @ \cup {clients[i] : i \in 1..first}]
  /\ UNCHANGED <<outboxVars, mapVars, lost, recent, work, seenVars>>

\* Mutant: the first client that is not authorized any more ends the loop.
MutantReauthorizeEndsLoop ==
  /\ loop.pc = "check"
  /\ \/ StillAuthentic(loop.at) /\ loop' = [loop EXCEPT !.pc = "send"] /\ UNCHANGED <<clients, state>>
     \/ Dropped(loop.at) /\ loop' = [loop EXCEPT !.pc = "done"]
  /\ UNCHANGED <<outboxVars, pending, subscribed, lost, recent, work, seenVars>>

\* Mutant: a client that is not authorized any more is passed over, and stays.
MutantReauthorizeSkips ==
  /\ loop.pc = "check"
  /\ loop' = [loop EXCEPT !.pc = IF StillAuthentic(loop.at) THEN "send" ELSE "loop"]
  /\ UNCHANGED <<outboxVars, mapVars, lost, recent, work, seenVars>>

\* reauthorize: a client that is not authentic or may not read the call any more, or
\* whose check fails, is revoked and the loop goes on.
Reauthorize ==
  /\ loop.pc = "check"
  /\ \/ StillAuthentic(loop.at) /\ loop' = [loop EXCEPT !.pc = "send"] /\ UNCHANGED <<clients, state>>
     \/ Dropped(loop.at) /\ loop' = [loop EXCEPT !.pc = "loop"]
  /\ UNCHANGED <<outboxVars, pending, subscribed, lost, recent, work, seenVars>>

Push ==
  /\ loop.pc = "send"
  /\ sendEvent(loop.at, {loop.event})
  /\ loop' = [loop EXCEPT !.pc = "loop"]
  /\ UNCHANGED <<outboxVars, pending, subscribed, lost, recent, work, granted, steady, revoked>>

\* markDelivered, or the attempt is not recorded and the row stays PENDING.
PublishReturns ==
  /\ loop.pc = "done"
  /\ \/ ~IsDelivered(loop.event) /\ delivered' = Append(delivered, loop.event)
     \/ UNCHANGED delivered
  /\ loop' = NoLoop
  /\ steady' = {}
  /\ revoked' = {}
  /\ UNCHANGED <<alerts, acknowledgedBy, mapVars, lost, recent, work, sent, granted>>

\* The flush of another process publishes to its own sockets.
PublishedElsewhere(e) ==
  /\ Unsettled(e)
  /\ delivered' = Append(delivered, e)
  /\ UNCHANGED <<alerts, acknowledgedBy, mapVars, lost, pushVars, work, seenVars>>

-----------------------------------------------------------------------------
Next ==
  \/ \E s \in Sockets :
       \/ handleConnection(s) \/ Authenticated(s) \/ Disconnect(s) \/ consumeInbound(s)
       \/ SessionLost(s)
       \/ AcknowledgeRevokes(s)
       \/ \E e \in Events : Acknowledge(s, e)
       \/ \E h \in Handlers, calls \in SUBSET Calls \ {{}}, cursor \in Events \cup {None} :
            subscribe(h, s, calls, cursor)
  \/ \E h \in Handlers :
       Reauthenticate(h) \/ Readable(h) \/ SubscribeRejects(h) \/ ReplayAndAnswer(h)
  \/ \E e \in Events :
       CreateAlert(e) \/ PublishKnown(e) \/ Publish(e) \/ PublishedElsewhere(e)
  \/ NextTarget
  \/ Reauthorize
  \/ Push
  \/ PublishReturns

Spec == Init /\ [][Next]_vars

-----------------------------------------------------------------------------
(* Safety.                                                                 *)

\* Sockets that are authenticating count: a burst of connections does not pass the
\* limit while the first of them wait.
ConnectionLimit == Len(clients) + Cardinality(pending) <= MaxConnections

\* Whoever was subscribed to the event's call when its publication began, and still
\* is, has got it when publish returns, or is disconnected: revoked, closing and slow
\* neighbours, and clients that come and go during the loop, cost nobody an event.
SteadySubscriberIsServed ==
  loop.pc = "done" =>
    \A s \in steady : (Listed(s) /\ Open(s)) => loop.event \in sent[s]

\* A socket whose session was lost before a publication began is not pushed its event,
\* and is disconnected when publish returns, unless it was not subscribed all along:
\* also when a request of it that passed its check earlier is still under way.
RevokedIsDisconnected ==
  /\ loop.pc = "send" => loop.at \notin revoked
  /\ loop.pc = "done" => \A s \in revoked \cap steady : state[s] = "closed"

\* Pushed or replayed, a socket gets events only of calls that were found readable
\* for it: a subscription takes effect after the check, not with the request.  Nor is an
\* event on record as acknowledged by a user who never had its call.
OnlyGrantedCalls ==
  /\ \A s \in Sockets : \A e \in sent[s] : CallOf[e] \in granted[s]
  /\ \A e \in Events : acknowledgedBy[e] # None =>
       \E s \in Sockets : UserOf[s] = acknowledgedBy[e] /\ CallOf[e] \in granted[s]

=============================================================================
