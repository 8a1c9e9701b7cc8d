----------------------- MODULE SecurityGatewayProofs -----------------------
(***************************************************************************)
(* For any number of sockets, calls, events and subscribe requests: the    *)
(* properties of SecurityGateway.                                          *)
(***************************************************************************)
EXTENDS SecurityGateway, FiniteSetTheorems, SequenceTheorems, WellFoundedInduction, TLAPS

-----------------------------------------------------------------------------
(* Sequences and numbers.                                                  *)

\* A set of naturals that is not empty has a least element.
LEMMA LeastNumber ==
  ASSUME NEW T, T \subseteq Nat, T # {}
  PROVE  \E x \in T : \A y \in T : x <= y
<1> DEFINE R == {ab \in Nat \X Nat : ab[1] < ab[2]}
<1>1. IsWellFoundedOn(R, Nat)
  BY NatLessThanWellFounded DEF OpToRel
<1>2. \A a, b \in Nat : <<a, b>> \in R <=> a < b
  OBVIOUS
<1> HIDE DEF R
<1>3. \E x \in T : \A y \in T : ~ (<<y, x>> \in R)
  BY <1>1, WFMin
<1>4. PICK x \in T : \A y \in T : ~ (<<y, x>> \in R)
  BY <1>3
<1>5. \A y \in T : ~ (y < x)
  BY <1>2, <1>4
<1>6. \A y \in T : x <= y
  BY <1>5
<1> QED
  BY <1>6

\* What is left when one place of a sequence is taken out.
LEMMA RemoveAtFacts ==
  ASSUME NEW S, NEW seq \in Seq(S), NEW i \in 1..Len(seq)
  PROVE  /\ RemoveAt(seq, i) \in Seq(S)
         /\ Len(RemoveAt(seq, i)) = Len(seq) - 1
         /\ \A j \in 1..(Len(seq) - 1) : RemoveAt(seq, i)[j] = IF j < i THEN seq[j] ELSE seq[j + 1]
<1> DEFINE a == SubSeq(seq, 1, i - 1)
           b == SubSeq(seq, i + 1, Len(seq))
<1>1. Len(seq) \in Nat /\ \A j \in 1..Len(seq) : seq[j] \in S
  BY LenProperties, ElementOfSeq
<1>2. /\ a \in Seq(S) /\ Len(a) = i - 1
      /\ \A j \in 1..(i - 1) : a[j] = seq[j]
  <2>1. \A j \in 1..(i - 1) : seq[j] \in S
    BY <1>1
  <2>2. /\ a \in Seq(S)
        /\ Len(a) = IF 1 <= i - 1 THEN (i - 1) - 1 + 1 ELSE 0
        /\ \A j \in 1..((i - 1) - 1 + 1) : a[j] = seq[1 + j - 1]
    BY <2>1, SubSeqProperties
  <2> QED
    BY <1>1, <2>2
<1>3. /\ b \in Seq(S) /\ Len(b) = Len(seq) - i
      /\ \A j \in 1..(Len(seq) - i) : b[j] = seq[i + j]
  <2>1. \A j \in (i + 1)..Len(seq) : seq[j] \in S
    BY <1>1
  <2>2. /\ b \in Seq(S)
        /\ Len(b) = IF i + 1 <= Len(seq) THEN Len(seq) - (i + 1) + 1 ELSE 0
        /\ \A j \in 1..(Len(seq) - (i + 1) + 1) : b[j] = seq[(i + 1) + j - 1]
    BY <1>1, <2>1, SubSeqProperties
  <2> QED
    BY <1>1, <2>2
<1>4. RemoveAt(seq, i) = a \o b
  BY DEF RemoveAt
<1> HIDE DEF a, b
<1>5. /\ a \o b \in Seq(S)
      /\ Len(a \o b) = Len(a) + Len(b)
      /\ \A j \in 1..(Len(a) + Len(b)) : (a \o b)[j] = IF j <= Len(a) THEN a[j] ELSE b[j - Len(a)]
  BY <1>2, <1>3, ConcatProperties
<1> QED
  BY <1>1, <1>2, <1>3, <1>4, <1>5

-----------------------------------------------------------------------------
(* The type of the state, and what the handlers and the loop hold.         *)

LoopState == [pc : {"idle", "loop", "check", "send", "done"}, event : Events \cup {None},
              passed : SUBSET Sockets, at : Sockets \cup {None}]
WorkState == [pc : {"idle", "auth", "read", "replay"}, sock : Sockets \cup {None},
              calls : SUBSET Calls, cursor : Events \cup {None}]

HandlersConsistent ==
  /\ \A h \in Handlers : work[h].pc # "idle" => work[h].sock \in Sockets
  /\ loop.pc \in {"check", "send"} => loop.at \in Sockets
  /\ loop.pc = "idle" => steady = {}

GatewayTyped == TypeOK /\ HandlersConsistent

\* What dropClient leaves: the other sockets keep their places in the order.
LEMMA DropFacts ==
  ASSUME TypeOK, NEW s \in Sockets, Dropped(s)
  PROVE  /\ clients' \in Seq(Sockets)
         /\ Len(clients') <= Len(clients)
         /\ \A u \in Sockets \ {s} : Listed(u) => Listed(u)'
         /\ state' \in [Sockets -> {"new", "open", "closed"}]
         /\ state'[s] = "closed"
         /\ \A u \in Sockets \ {s} : state'[u] = state[u]
<1>1. /\ state' \in [Sockets -> {"new", "open", "closed"}]
      /\ state'[s] = "closed"
      /\ \A u \in Sockets \ {s} : state'[u] = state[u]
  BY DEF Dropped, TypeOK
<1>2. /\ clients' \in Seq(Sockets)
      /\ Len(clients') <= Len(clients)
      /\ \A u \in Sockets \ {s} : Listed(u) => Listed(u)'
  <2>0. clients \in Seq(Sockets) /\ Len(clients) \in Nat /\ DOMAIN clients = 1..Len(clients)
    BY LenProperties DEF TypeOK
  <2>1. CASE ~Listed(s)
    BY <2>0, <2>1 DEF Dropped, Listed
  <2>2. CASE Listed(s)
    <3> DEFINE i == Place(s)
    <3>1. i \in 1..Len(clients) /\ clients[i] = s
      BY <2>0, <2>2 DEF Listed, Place
    <3>2. clients' = RemoveAt(clients, i)
      BY <2>2 DEF Dropped
    <3> HIDE DEF i
    <3>3. /\ clients' \in Seq(Sockets)
          /\ Len(clients') = Len(clients) - 1
          /\ \A j \in 1..(Len(clients) - 1) : clients'[j] = IF j < i THEN clients[j] ELSE clients[j + 1]
      BY <2>0, <3>1, <3>2, RemoveAtFacts
    <3>4. DOMAIN clients' = 1..(Len(clients) - 1)
      BY <3>3, LenProperties
    <3>5. ASSUME NEW u \in Sockets \ {s}, Listed(u) PROVE Listed(u)'
      <4>1. PICK k \in 1..Len(clients) : clients[k] = u
        BY <2>0, <3>5 DEF Listed
      <4>2. k # i
        BY <3>1, <4>1
      <4>3. CASE k < i
        <5>1. k \in 1..(Len(clients) - 1) /\ clients'[k] = u
          BY <2>0, <3>1, <3>3, <4>1, <4>3
        <5> QED
          BY <3>4, <5>1 DEF Listed
      <4>4. CASE k > i
        <5>1. (k - 1) \in 1..(Len(clients) - 1) /\ clients'[k - 1] = u
          BY <2>0, <3>1, <3>3, <4>1, <4>4
        <5> QED
          BY <3>4, <5>1 DEF Listed
      <4> QED
        BY <2>0, <3>1, <4>1, <4>2, <4>3, <4>4
    <3> QED
      BY <2>0, <3>3, <3>5
  <2> QED
    BY <2>1, <2>2
<1> QED
  BY <1>1, <1>2

\* The steps that can drop a client.
Sends(h) == Reauthenticate(h) \/ ReplayAndAnswer(h)
DropSteps == Reauthorize \/ Push \/ \E h \in Handlers : Sends(h)

\* What a step does to the Map: a socket that is not closed afterwards was not closed
\* before, and is not lost from the Map.
LEMMA MapStep ==
  ASSUME GatewayTyped, [Next]_vars
  PROVE  /\ clients' \in Seq(Sockets)
         /\ state' \in [Sockets -> {"new", "open", "closed"}]
         /\ \A u \in Sockets : state'[u] # "closed" => state[u] # "closed" /\ (Listed(u) => Listed(u)')
         /\ \/ UNCHANGED pending /\ Len(clients') <= Len(clients)
            \/ \E s \in Sockets : handleConnection(s) \/ Authenticated(s)
<1> DEFINE Goal == /\ clients' \in Seq(Sockets)
                   /\ state' \in [Sockets -> {"new", "open", "closed"}]
                   /\ \A u \in Sockets : state'[u] # "closed"
                                           => state[u] # "closed" /\ (Listed(u) => Listed(u)')
                   /\ \/ UNCHANGED pending /\ Len(clients') <= Len(clients)
                      \/ \E s \in Sockets : handleConnection(s) \/ Authenticated(s)
<1>0. TypeOK /\ clients \in Seq(Sockets) /\ Len(clients) \in Nat /\ DOMAIN clients = 1..Len(clients)
  BY LenProperties DEF GatewayTyped, TypeOK
<1>1. ASSUME NEW s \in Sockets, handleConnection(s) PROVE Goal
  BY <1>0, <1>1 DEF handleConnection, TypeOK, Listed
<1>2. ASSUME NEW s \in Sockets, Authenticated(s) PROVE Goal
  <2>1. CASE clients' = Append(clients, s) /\ UNCHANGED state
    <3>1. clients' = Append(clients, s) /\ UNCHANGED state
      BY <2>1
    <3>2. /\ clients' \in Seq(Sockets) /\ Len(clients') = Len(clients) + 1
          /\ \A i \in 1..Len(clients) : clients'[i] = clients[i]
      BY <1>0, <3>1, AppendProperties
    <3>3. DOMAIN clients' = 1..(Len(clients) + 1)
      BY <3>2, LenProperties
    <3>4. \A u \in Sockets : Listed(u) => Listed(u)'
      BY <1>0, <3>2, <3>3 DEF Listed
    <3> QED
      BY <1>0, <1>2, <3>1, <3>2, <3>4 DEF TypeOK
  <2>2. CASE state' = [state EXCEPT ![s] = "closed"] /\ UNCHANGED clients
    BY <1>0, <1>2, <2>2 DEF Authenticated, TypeOK, Listed
  <2> QED
    BY <1>2, <2>1, <2>2 DEF Authenticated
<1>3. ASSUME NEW s \in Sockets, Dropped(s), UNCHANGED pending PROVE Goal
  BY <1>0, <1>3, DropFacts
<1>4. ASSUME UNCHANGED <<clients, state, pending>> PROVE Goal
  BY <1>0, <1>4 DEF TypeOK, Listed
<1>5. ASSUME NEW h \in Handlers, Reauthenticate(h) PROVE Goal
  BY <1>3, <1>4, <1>5 DEF Reauthenticate, GatewayTyped, HandlersConsistent
<1>6. ASSUME NEW h \in Handlers, ReplayAndAnswer(h) PROVE Goal
  BY <1>3, <1>4, <1>6 DEF ReplayAndAnswer, sendEvent, GatewayTyped, HandlersConsistent
<1>7. ASSUME Reauthorize PROVE Goal
  BY <1>3, <1>4, <1>7 DEF Reauthorize, GatewayTyped, HandlersConsistent
<1>8. ASSUME Push PROVE Goal
  BY <1>3, <1>4, <1>8 DEF Push, sendEvent, GatewayTyped, HandlersConsistent
<1>9. ASSUME NEW s \in Sockets, Disconnect(s) \/ consumeInbound(s) \/ AcknowledgeRevokes(s) PROVE Goal
  BY <1>3, <1>9 DEF Disconnect, consumeInbound, AcknowledgeRevokes
<1> HIDE DEF Goal
<1>10. Goal
  BY <1>1, <1>2, <1>4, <1>5, <1>6, <1>7, <1>8, <1>9 DEF Next, vars, mapVars, SessionLost, Acknowledge, subscribe, Readable,
     SubscribeRejects, CreateAlert, PublishKnown, Publish, PublishedElsewhere, NextTarget, PublishReturns
<1> QED
  BY <1>10 DEF Goal

-----------------------------------------------------------------------------
\* What a step does to the subscribe requests: only a passed check of the calls leads
\* to the replay.
LEMMA WorkStep ==
  ASSUME GatewayTyped, [Next]_vars
  PROVE  \/ UNCHANGED work
         \/ \E h \in Handlers, x \in WorkState :
              /\ work' = [work EXCEPT ![h] = x]
              /\ x.pc # "idle" => x.sock \in Sockets
              /\ x.pc = "replay" => /\ Readable(h)
                                    /\ x.sock = work[h].sock /\ x.calls = work[h].calls
<1> DEFINE Goal(h) == \E x \in WorkState :
                        /\ work' = [work EXCEPT ![h] = x]
                        /\ x.pc # "idle" => x.sock \in Sockets
                        /\ x.pc = "replay" => /\ Readable(h)
                                              /\ x.sock = work[h].sock /\ x.calls = work[h].calls
<1>0. \A h \in Handlers : work[h] \in WorkState /\ (work[h].pc # "idle" => work[h].sock \in Sockets)
  BY DEF GatewayTyped, TypeOK, HandlersConsistent, WorkState
<1>1. ASSUME NEW h \in Handlers, work' = [work EXCEPT ![h] = Idle] PROVE Goal(h)
  <2>1. Idle \in WorkState /\ Idle.pc = "idle"
    BY DEF Idle, WorkState
  <2> QED
    BY <1>1, <2>1
<1>2. ASSUME NEW h \in Handlers, NEW s \in Sockets, NEW calls \in SUBSET Calls, NEW cursor \in Events \cup {None},
             subscribe(h, s, calls, cursor)
      PROVE  Goal(h)
  <2> DEFINE x == [pc |-> "auth", sock |-> s, calls |-> calls, cursor |-> cursor]
  <2>1. x \in WorkState /\ x.pc = "auth" /\ x.sock = s
    BY DEF WorkState
  <2>2. work' = [work EXCEPT ![h] = x]
    BY <1>2 DEF subscribe
  <2> HIDE DEF x
  <2> QED
    BY <2>1, <2>2
<1>3. ASSUME NEW h \in Handlers, NEW pc \in {"read", "replay"}, work[h].pc # "idle",
             work' = [work EXCEPT ![h] = [work[h] EXCEPT !.pc = pc]],
             pc = "replay" => Readable(h)
      PROVE  Goal(h)
  <2> DEFINE x == [work[h] EXCEPT !.pc = pc]
  <2>1. work[h] \in WorkState /\ work[h].sock \in Sockets
    BY <1>0, <1>3
  <2>2. x \in WorkState /\ x.pc = pc /\ x.sock = work[h].sock /\ x.calls = work[h].calls
    BY <2>1 DEF WorkState
  <2>3. work' = [work EXCEPT ![h] = x]
    BY <1>3
  <2> HIDE DEF x
  <2> QED
    BY <1>3, <2>1, <2>2, <2>3
<1>4. ASSUME NEW h \in Handlers, Reauthenticate(h) PROVE Goal(h)
  BY <1>1, <1>3, <1>4 DEF Reauthenticate
<1>5. ASSUME NEW h \in Handlers, Readable(h) PROVE Goal(h)
  BY <1>3, <1>5 DEF Readable
<1>6. ASSUME NEW h \in Handlers, SubscribeRejects(h) \/ ReplayAndAnswer(h) PROVE Goal(h)
  BY <1>1, <1>6 DEF SubscribeRejects, ReplayAndAnswer
<1>7. CASE UNCHANGED work
  BY <1>7
<1> QED
  BY <1>2, <1>4, <1>5, <1>6, <1>7 DEF Next, vars, handleConnection, Authenticated, Disconnect,
     consumeInbound, AcknowledgeRevokes, Acknowledge, SessionLost, CreateAlert, PublishKnown,
     Publish, PublishedElsewhere, NextTarget, Reauthorize, Push, PublishReturns

\* Writing one handler's work leaves the others alone.
LEMMA WorkWrites ==
  ASSUME TypeOK, NEW h \in Handlers, NEW x \in WorkState, work' = [work EXCEPT ![h] = x]
  PROVE  /\ work' \in [Handlers -> WorkState]
         /\ \A g \in Handlers : work'[g] = IF g = h THEN x ELSE work[g]
<1>1. work \in [Handlers -> WorkState]
  BY DEF TypeOK, WorkState
<1> QED
  BY <1>1

-----------------------------------------------------------------------------
\* The loop: its event is set as long as it is under way.
LEMMA FirstDue ==
  ASSUME TypeOK, NEW due, due \subseteq DOMAIN clients, due # {}
  PROVE  LET first == CHOOSE i \in due : \A j \in due : i <= j
         IN  first \in due /\ \A j \in due : first <= j
<1>1. due \subseteq Nat
  BY LenProperties DEF TypeOK
<1> QED
  BY <1>1, LeastNumber

\* Every step leaves the push loop with an event and a socket where it needs them.
LEMMA LoopKept ==
  ASSUME GatewayTyped, [Next]_vars
  PROVE  /\ loop' \in LoopState
         /\ loop'.pc = "idle" <=> loop'.event = None
         /\ loop'.pc \in {"check", "send"} => loop'.at \in Sockets
<1> DEFINE Goal == /\ loop' \in LoopState
                   /\ loop'.pc = "idle" <=> loop'.event = None
                   /\ loop'.pc \in {"check", "send"} => loop'.at \in Sockets
<1>0. /\ loop \in LoopState
      /\ loop.pc = "idle" <=> loop.event = None
      /\ loop.pc \in {"check", "send"} => loop.at \in Sockets
  BY DEF GatewayTyped, TypeOK, HandlersConsistent, LoopState
<1>1. ASSUME NEW e \in Events, PublishKnown(e) \/ Publish(e) PROVE Goal
  BY <1>1, GatewayAssumption DEF PublishKnown, Publish, NoLoop, LoopState
<1>2. ASSUME NextTarget PROVE Goal
  <2> DEFINE due == {i \in DOMAIN clients :
                       clients[i] \notin loop.passed /\ CallOf[loop.event] \in subscribed[clients[i]]}
             first == CHOOSE i \in due : \A j \in due : i <= j
  <2>0. loop.pc = "loop"
    BY <1>2 DEF NextTarget
  <2>1. CASE due = {}
    <3>1. loop' = [loop EXCEPT !.pc = "done", !.at = None, !.passed = {}]
      BY <1>2, <2>1 DEF NextTarget
    <3> QED
      BY <1>0, <2>0, <3>1 DEF LoopState
  <2>2. CASE due # {}
    <3>1. loop' = [loop EXCEPT !.pc = "check", !.at = clients[first],
                               !.passed = @ \cup {clients[i] : i \in 1..first}]
      BY <1>2, <2>2 DEF NextTarget
    <3>2. first \in due
      BY <2>2, FirstDue DEF GatewayTyped
    <3>3. first \in DOMAIN clients
      BY <3>2
    <3> HIDE DEF first, due
    <3>4. clients[first] \in Sockets /\ \A i \in 1..first : clients[i] \in Sockets
      BY <3>3, LenProperties, ElementOfSeq DEF GatewayTyped, TypeOK
    <3> QED
      BY <1>0, <2>0, <3>1, <3>4 DEF LoopState
  <2> QED
    BY <2>1, <2>2
<1>3. ASSUME Reauthorize PROVE Goal
  BY <1>0, <1>3 DEF Reauthorize, LoopState
<1>4. ASSUME Push PROVE Goal
  BY <1>0, <1>4 DEF Push, LoopState
<1>5. ASSUME PublishReturns PROVE Goal
  BY <1>5 DEF PublishReturns, NoLoop, LoopState
<1>6. ASSUME UNCHANGED loop PROVE Goal
  BY <1>0, <1>6
<1> HIDE DEF Goal
<1>7. Goal
  BY <1>1, <1>2, <1>3, <1>4, <1>5, <1>6 DEF Next, vars, pushVars, handleConnection, Authenticated,
     Disconnect, consumeInbound, AcknowledgeRevokes, Acknowledge, SessionLost, subscribe,
     Reauthenticate, Readable, SubscribeRejects, ReplayAndAnswer, CreateAlert, PublishedElsewhere
<1> QED
  BY <1>7 DEF Goal

-----------------------------------------------------------------------------
\* What is sent are events, and nothing sent or granted is taken back.
LEMMA SentStep ==
  ASSUME GatewayTyped, [Next]_vars
  PROVE  /\ sent' \in [Sockets -> SUBSET Events]
         /\ \A s \in Sockets : sent[s] \subseteq sent'[s]
<1> DEFINE Goal == /\ sent' \in [Sockets -> SUBSET Events]
                   /\ \A s \in Sockets : sent[s] \subseteq sent'[s]
<1>1. ASSUME NEW s \in Sockets, NEW events \in SUBSET Events, sendEvent(s, events) PROVE Goal
  <2>1. sent' = [sent EXCEPT ![s] = sent[s] \cup events] \/ UNCHANGED sent
    BY <1>1 DEF sendEvent
  <2>2. sent \in [Sockets -> SUBSET Events]
    BY DEF GatewayTyped, TypeOK
  <2>3. sent[s] \cup events \in SUBSET Events
    BY <2>2
  <2> QED
    BY <2>1, <2>2, <2>3
<1>2. ASSUME NEW h \in Handlers, ReplayAndAnswer(h) PROVE Goal
  <2>1. \A calls, cursor : Replayed(calls, cursor) \in SUBSET Events
    <3>1. \A i \in DOMAIN alerts : alerts[i] \in Events
      BY LenProperties, ElementOfSeq DEF GatewayTyped, TypeOK
    <3>2. \A calls : Records(calls) \subseteq DOMAIN alerts
      BY DEF Records
    <3> QED
      BY <3>1, <3>2 DEF Replayed
  <2>2. work[h].sock \in Sockets
    BY <1>2 DEF ReplayAndAnswer, GatewayTyped, HandlersConsistent
  <2> QED
    BY <1>1, <1>2, <2>1, <2>2 DEF ReplayAndAnswer
<1>3. ASSUME Push PROVE Goal
  <2>1. loop.at \in Sockets /\ loop.event \in Events
    BY <1>3 DEF Push, GatewayTyped, TypeOK, HandlersConsistent
  <2> QED
    BY <1>1, <1>3, <2>1 DEF Push
<1>4. ASSUME UNCHANGED sent PROVE Goal
  BY <1>4 DEF GatewayTyped, TypeOK
<1> HIDE DEF Goal
<1>5. Goal
  BY <1>2, <1>3, <1>4 DEF Next, vars, seenVars, handleConnection, Authenticated, Disconnect,
     consumeInbound, AcknowledgeRevokes, Acknowledge, SessionLost, subscribe, Reauthenticate,
     Readable, SubscribeRejects, CreateAlert, PublishKnown, Publish, PublishedElsewhere,
     NextTarget, Reauthorize, PublishReturns
<1> QED
  BY <1>5 DEF Goal

\* A subscription changes with a passed check only, and then is what was granted.
LEMMA SubscriptionStep ==
  ASSUME GatewayTyped, [Next]_vars
  PROVE  /\ subscribed' \in [Sockets -> SUBSET Calls]
         /\ granted' \in [Sockets -> SUBSET Calls]
         /\ \A s \in Sockets : granted[s] \subseteq granted'[s]
         /\ \A s \in Sockets : subscribed'[s] \subseteq subscribed[s] \cup granted'[s]
         /\ UNCHANGED subscribed \/ \E h \in Handlers : Readable(h)
<1> DEFINE Goal == /\ subscribed' \in [Sockets -> SUBSET Calls]
                   /\ granted' \in [Sockets -> SUBSET Calls]
                   /\ \A s \in Sockets : granted[s] \subseteq granted'[s]
                   /\ \A s \in Sockets : subscribed'[s] \subseteq subscribed[s] \cup granted'[s]
                   /\ UNCHANGED subscribed \/ \E h \in Handlers : Readable(h)
<1>1. ASSUME NEW h \in Handlers, Readable(h) PROVE Goal
  <2>1. work[h].sock \in Sockets /\ work[h].calls \in SUBSET Calls
    BY <1>1 DEF Readable, GatewayTyped, TypeOK, HandlersConsistent
  <2> QED
    BY <1>1, <2>1 DEF Readable, GatewayTyped, TypeOK
<1>2. ASSUME UNCHANGED <<subscribed, granted>> PROVE Goal
  BY <1>2 DEF GatewayTyped, TypeOK
<1> HIDE DEF Goal
<1>3. Goal
  BY <1>1, <1>2 DEF Next, vars, mapVars, seenVars, handleConnection, Authenticated, Disconnect,
     consumeInbound, AcknowledgeRevokes, Acknowledge, SessionLost, subscribe, Reauthenticate,
     SubscribeRejects, ReplayAndAnswer, CreateAlert, PublishKnown, Publish, PublishedElsewhere,
     NextTarget, Reauthorize, Push, PublishReturns
<1> QED
  BY <1>3 DEF Goal

\* What a step does to the variables that no handler owns.
LEMMA RestStep ==
  ASSUME GatewayTyped, [Next]_vars
  PROVE  /\ alerts' \in Seq(Events) /\ delivered' \in Seq(Events) /\ recent' \in Seq(Events)
         /\ acknowledgedBy' \in [Events -> Users \cup {None}]
         /\ pending' \in SUBSET Sockets /\ lost' \in SUBSET Sockets /\ steady' \in SUBSET Sockets
         /\ revoked' \in SUBSET Sockets
         /\ lost \subseteq lost'
         /\ loop'.pc = "idle" => steady' = {}
<1> DEFINE Goal == /\ alerts' \in Seq(Events) /\ delivered' \in Seq(Events) /\ recent' \in Seq(Events)
                   /\ acknowledgedBy' \in [Events -> Users \cup {None}]
                   /\ pending' \in SUBSET Sockets /\ lost' \in SUBSET Sockets /\ steady' \in SUBSET Sockets
                   /\ revoked' \in SUBSET Sockets
                   /\ lost \subseteq lost'
                   /\ loop'.pc = "idle" => steady' = {}
<1>0. /\ alerts \in Seq(Events) /\ delivered \in Seq(Events) /\ recent \in Seq(Events)
      /\ acknowledgedBy \in [Events -> Users \cup {None}]
      /\ pending \in SUBSET Sockets /\ lost \in SUBSET Sockets /\ steady \in SUBSET Sockets
      /\ revoked \in SUBSET Sockets
      /\ loop.pc = "idle" => steady = {}
  BY DEF GatewayTyped, TypeOK, HandlersConsistent
<1>1. ASSUME NEW s \in Sockets, handleConnection(s) \/ Authenticated(s) \/ Disconnect(s)
               \/ consumeInbound(s) \/ SessionLost(s) \/ AcknowledgeRevokes(s)
      PROVE  Goal
  BY <1>0, <1>1 DEF handleConnection, Authenticated, Disconnect, consumeInbound,
     AcknowledgeRevokes, SessionLost, outboxVars, mapVars, pushVars, seenVars
<1>2. ASSUME NEW e \in Events, CreateAlert(e) \/ PublishedElsewhere(e) PROVE Goal
  <2>1. Append(alerts, e) \in Seq(Events) /\ Append(delivered, e) \in Seq(Events)
    BY <1>0, AppendProperties
  <2> QED
    BY <1>0, <1>2, <2>1 DEF CreateAlert, PublishedElsewhere, mapVars, pushVars, seenVars
<1>3. ASSUME NEW e \in Events, PublishKnown(e) PROVE Goal
  BY <1>0, <1>3 DEF PublishKnown, NoLoop, outboxVars, mapVars
<1>4. ASSUME NEW e \in Events, Publish(e) PROVE Goal
  <2> DEFINE seq == Append(recent, e)
  <2>1. seq \in Seq(Events)
    BY <1>0, AppendProperties
  <2> HIDE DEF seq
  <2>2. LastOf(seq) \in Seq(Events)
    <3> DEFINE m == IF Len(seq) > ReplayMax THEN Len(seq) - ReplayMax + 1 ELSE 1
    <3>1. Len(seq) \in Nat /\ \A i \in 1..Len(seq) : seq[i] \in Events
      BY <2>1, LenProperties, ElementOfSeq
    <3>2. m \in Int /\ m >= 1
      BY <3>1, GatewayAssumption
    <3> HIDE DEF m
    <3>3. \A i \in m..Len(seq) : seq[i] \in Events
      BY <3>1, <3>2
    <3>4. SubSeq(seq, m, Len(seq)) \in Seq(Events)
      BY <3>1, <3>2, <3>3, SubSeqProperties
    <3> QED
      BY <3>4 DEF LastOf, m
  <2>3. recent' = LastOf(seq)
    BY <1>4 DEF Publish, seq
  <2>4. loop'.pc = "loop"
    BY <1>4 DEF Publish, NoLoop
  <2> QED
    BY <1>0, <1>4, <2>2, <2>3, <2>4 DEF Publish, outboxVars, mapVars
<1>5. ASSUME PublishReturns PROVE Goal
  <2>1. delivered' \in Seq(Events)
    <3>1. loop.event \in Events
      BY <1>5 DEF PublishReturns, GatewayTyped, TypeOK
    <3>2. Append(delivered, loop.event) \in Seq(Events)
      BY <1>0, <3>1, AppendProperties
    <3>3. delivered' = Append(delivered, loop.event) \/ delivered' = delivered
      BY <1>5 DEF PublishReturns
    <3> QED
      BY <1>0, <3>2, <3>3
  <2> QED
    BY <1>0, <1>5, <2>1 DEF PublishReturns, mapVars
<1>6. ASSUME NEW h \in Handlers, Readable(h) PROVE Goal
  BY <1>0, <1>6 DEF Readable, outboxVars, pushVars
<1>7. ASSUME NEW h \in Handlers, Reauthenticate(h) \/ SubscribeRejects(h) \/ ReplayAndAnswer(h) PROVE Goal
  BY <1>0, <1>7 DEF Reauthenticate, SubscribeRejects, ReplayAndAnswer, outboxVars, mapVars, pushVars, seenVars
<1>8. ASSUME NextTarget \/ Reauthorize \/ Push PROVE Goal
  <2>1. loop.pc # "idle" /\ loop'.pc # "idle"
    BY <1>8 DEF NextTarget, Reauthorize, Push, GatewayTyped, TypeOK
  <2> QED
    BY <1>0, <1>8, <2>1 DEF NextTarget, Reauthorize, Push, outboxVars, mapVars, seenVars
<1>9. ASSUME NEW h \in Handlers, NEW s \in Sockets, NEW calls, NEW cursor, subscribe(h, s, calls, cursor)
      PROVE  Goal
  BY <1>0, <1>9 DEF subscribe, outboxVars, mapVars, pushVars, seenVars
<1>10. ASSUME NEW s \in Sockets, NEW e \in Events, Acknowledge(s, e) PROVE Goal
  <2>1. acknowledgedBy' \in [Events -> Users \cup {None}]
    BY <1>0, <1>10, GatewayAssumption DEF Acknowledge, acknowledge
  <2> QED
    BY <1>0, <1>10, <2>1 DEF Acknowledge, mapVars, pushVars, seenVars
<1>11. ASSUME UNCHANGED vars PROVE Goal
  BY <1>0, <1>11 DEF vars, outboxVars, mapVars, pushVars, seenVars
<1> HIDE DEF Goal
<1>12. Goal
  BY <1>1, <1>2, <1>3, <1>4, <1>5, <1>6, <1>7, <1>8, <1>9, <1>10, <1>11 DEF Next
<1> QED
  BY <1>12 DEF Goal

\* Every step keeps the types.
LEMMA TypeKept ==
  ASSUME GatewayTyped, [Next]_vars
  PROVE  GatewayTyped'
<1>1. /\ work' \in [Handlers -> WorkState]
      /\ \A h \in Handlers : work'[h].pc # "idle" => work'[h].sock \in Sockets
  <2>1. CASE UNCHANGED work
    BY <2>1 DEF GatewayTyped, TypeOK, HandlersConsistent, WorkState
  <2>2. ASSUME NEW h \in Handlers, NEW x \in WorkState, work' = [work EXCEPT ![h] = x],
               x.pc # "idle" => x.sock \in Sockets
        PROVE  <1>1!1 /\ <1>1!2
    BY <2>2, WorkWrites DEF GatewayTyped, HandlersConsistent
  <2> QED
    BY <2>1, <2>2, WorkStep
<1>2. TypeOK'
  BY <1>1, MapStep, LoopKept, SentStep, SubscriptionStep, RestStep DEF TypeOK, LoopState, WorkState
<1> QED
  BY <1>1, <1>2, LoopKept, RestStep DEF GatewayTyped, HandlersConsistent

-----------------------------------------------------------------------------
(* The invariants.                                                         *)

\* Sockets that wait count, and the Map is never longer than what was admitted.
Connections == IsFiniteSet(pending) /\ ConnectionLimit

\* Whatever a handler or the loop is about to send is of a call that was granted.
GrantedOnly ==
  /\ OnlyGrantedCalls
  /\ \A s \in Sockets : subscribed[s] \subseteq granted[s]
  /\ \A h \in Handlers : work[h].pc = "replay" => work[h].calls \subseteq granted[work[h].sock]
  /\ loop.pc \in {"check", "send"} => CallOf[loop.event] \in granted[loop.at]

\* The loop pushes to no socket whose session was lost before it began.
RevokedIsSkipped ==
  /\ revoked \subseteq lost
  /\ loop.pc = "send" => loop.at \notin revoked

\* A socket that stays subscribed and open is in the Map, and was served, is the one the
\* loop is at, or still lies ahead of it.
AheadOrServed ==
  \A s \in steady : state[s] # "closed" =>
    /\ loop.event # None
    /\ Listed(s)
    /\ CallOf[loop.event] \in subscribed[s]
    /\ \/ loop.event \in sent[s] /\ s \notin revoked
       \/ loop.pc \in {"check", "send"} /\ s = loop.at
       \/ loop.pc \in {"loop", "check", "send"} /\ s \notin loop.passed

GatewayInv == GatewayTyped /\ Connections /\ GrantedOnly /\ RevokedIsSkipped /\ AheadOrServed

\* Without a connection the invariant holds.
LEMMA InitHolds == Init => GatewayInv
<1> SUFFICES ASSUME Init PROVE GatewayInv
  OBVIOUS
<1>1. TypeOK
  <2>1. <<>> \in Seq(Events) /\ <<>> \in Seq(Sockets)
    BY EmptySeq
  <2> QED
    BY <2>1 DEF Init, TypeOK, NoLoop, Idle
<1>2. HandlersConsistent
  BY DEF Init, HandlersConsistent, NoLoop, Idle
<1>3. Connections
  <2>1. Len(clients) = 0 /\ pending = {}
    BY EmptySeq DEF Init
  <2> QED
    BY <2>1, FS_EmptySet, GatewayAssumption DEF Connections, ConnectionLimit
<1>4. GrantedOnly
  BY DEF Init, GrantedOnly, OnlyGrantedCalls, NoLoop, Idle
<1>5. AheadOrServed
  BY DEF Init, AheadOrServed
<1>6. RevokedIsSkipped
  BY DEF Init, RevokedIsSkipped, NoLoop
<1> QED
  BY <1>1, <1>2, <1>3, <1>4, <1>5, <1>6 DEF GatewayInv, GatewayTyped

\* Every step keeps the number of connections within the limit.
LEMMA ConnectionsKept ==
  ASSUME GatewayTyped, Connections, [Next]_vars
  PROVE  Connections'
<1>0. clients \in Seq(Sockets) /\ Len(clients) \in Nat /\ Cardinality(pending) \in Nat
      /\ IsFiniteSet(pending) /\ Len(clients) + Cardinality(pending) <= MaxConnections
      /\ MaxConnections \in Nat
  BY LenProperties, FS_CardinalityType, GatewayAssumption
     DEF GatewayTyped, TypeOK, Connections, ConnectionLimit
<1>1. ASSUME NEW s \in Sockets, handleConnection(s) PROVE Connections'
  <2>1. IsFiniteSet(pending') /\ Cardinality(pending') <= Cardinality(pending) + 1
    <3>1. /\ IsFiniteSet(pending \cup {s})
          /\ Cardinality(pending \cup {s}) = IF s \in pending THEN Cardinality(pending)
                                             ELSE Cardinality(pending) + 1
      BY <1>0, FS_AddElement
    <3>2. pending' = pending \cup {s}
      BY <1>1 DEF handleConnection
    <3> QED
      BY <1>0, <3>1, <3>2
  <2>2. Cardinality(pending') \in Nat
    BY <2>1, FS_CardinalityType
  <2> QED
    BY <1>0, <1>1, <2>1, <2>2 DEF handleConnection, HasRoom, Connections, ConnectionLimit
<1>2. ASSUME NEW s \in Sockets, Authenticated(s) PROVE Connections'
  <2>1. IsFiniteSet(pending') /\ Cardinality(pending') = Cardinality(pending) - 1
    BY <1>0, <1>2, FS_RemoveElement DEF Authenticated
  <2>2. Len(clients') <= Len(clients) + 1 /\ Len(clients') \in Nat
    BY <1>0, <1>2, AppendProperties DEF Authenticated
  <2> QED
    BY <1>0, <2>1, <2>2 DEF Connections, ConnectionLimit
<1>3. CASE UNCHANGED pending /\ Len(clients') <= Len(clients)
  <2>1. Len(clients') \in Nat
    BY MapStep, LenProperties
  <2> QED
    BY <1>0, <1>3, <2>1 DEF Connections, ConnectionLimit
<1> QED
  BY <1>1, <1>2, <1>3, MapStep

\* The second half of OnlyGrantedCalls: who is on record as the one who acknowledged an
\* event had its call on one of his sockets.
AcknowledgedGranted ==
  \A e \in Events : acknowledgedBy[e] # None =>
    \E s \in Sockets : UserOf[s] = acknowledgedBy[e] /\ CallOf[e] \in granted[s]

\* Acknowledgements are of calls that the socket is subscribed to, and nothing granted is
\* taken back.
LEMMA AcknowledgedKept ==
  ASSUME GatewayTyped, GrantedOnly, [Next]_vars
  PROVE  AcknowledgedGranted'
<1>0. AcknowledgedGranted
  BY DEF GrantedOnly, OnlyGrantedCalls, AcknowledgedGranted
<1>1. \A s \in Sockets : granted[s] \subseteq granted'[s]
  BY SubscriptionStep
<1>2. ASSUME NEW s \in Sockets, NEW e \in Events, Acknowledge(s, e) PROVE AcknowledgedGranted'
  <2>1. PICK by \in {UserOf[s], acknowledgedBy[e]} \ {None} :
          acknowledgedBy' = [acknowledgedBy EXCEPT ![e] = by]
    BY <1>2 DEF Acknowledge, acknowledge
  <2>2. CallOf[e] \in granted[s]
    BY <1>2 DEF Acknowledge, acknowledge, GrantedOnly
  <2>3. UNCHANGED granted
    BY <1>2 DEF Acknowledge, seenVars
  <2>4. \A f \in Events : acknowledgedBy'[f] = IF f = e THEN by ELSE acknowledgedBy[f]
    BY <2>1 DEF GatewayTyped, TypeOK
  <2> QED
    BY <1>0, <2>1, <2>2, <2>3, <2>4 DEF AcknowledgedGranted
<1>3. CASE UNCHANGED acknowledgedBy
  BY <1>0, <1>1, <1>3 DEF AcknowledgedGranted
<1> QED
  BY <1>2, <1>3 DEF Next, vars, outboxVars, handleConnection, Authenticated, Disconnect,
     consumeInbound, AcknowledgeRevokes, Acknowledge, SessionLost, subscribe, Reauthenticate,
     Readable, SubscribeRejects, ReplayAndAnswer, CreateAlert, PublishKnown, Publish,
     PublishedElsewhere, NextTarget, Reauthorize, Push, PublishReturns

\* What the handlers and the loop are about to send stays granted, and so what is sent.
LEMMA GrantedKept ==
  ASSUME GatewayTyped, GrantedOnly, [Next]_vars
  PROVE  GrantedOnly'
<1>0. /\ \A s \in Sockets : granted[s] \subseteq granted'[s]
      /\ \A s \in Sockets : subscribed'[s] \subseteq subscribed[s] \cup granted'[s]
  BY SubscriptionStep
<1>1. \A s \in Sockets : subscribed'[s] \subseteq granted'[s]
  BY <1>0 DEF GrantedOnly
<1>2. ASSUME NEW g \in Handlers, work'[g].pc = "replay" PROVE work'[g].calls \subseteq granted'[work'[g].sock]
  <2>1. CASE work'[g] = work[g]
    <3>1. work[g].sock \in Sockets
      BY <1>2, <2>1 DEF GatewayTyped, HandlersConsistent
    <3> QED
      BY <1>0, <1>2, <2>1, <3>1 DEF GrantedOnly
  <2>2. CASE work'[g] # work[g]
    <3>1. PICK h \in Handlers, x \in WorkState :
             /\ work' = [work EXCEPT ![h] = x]
             /\ x.pc = "replay" => /\ Readable(h)
                                   /\ x.sock = work[h].sock /\ x.calls = work[h].calls
      BY <2>2, WorkStep
    <3>2. h = g /\ work'[g] = x
      BY <2>2, <3>1, WorkWrites DEF GatewayTyped
    <3>3. Readable(g) /\ x.sock = work[g].sock /\ x.calls = work[g].calls
      BY <1>2, <3>1, <3>2
    <3>4. work[g].sock \in Sockets /\ granted \in [Sockets -> SUBSET Calls]
      BY <3>3 DEF Readable, GatewayTyped, TypeOK, HandlersConsistent
    <3> QED
      BY <3>2, <3>3, <3>4 DEF Readable
  <2> QED
    BY <2>1, <2>2
<1>3. loop'.pc \in {"check", "send"} => CallOf[loop'.event] \in granted'[loop'.at]
  <2>0. loop \in LoopState
    BY DEF GatewayTyped, TypeOK, LoopState
  <2>1. CASE UNCHANGED loop
    <3>1. loop.pc \in {"check", "send"} => loop.at \in Sockets
      BY DEF GatewayTyped, HandlersConsistent
    <3> QED
      BY <1>0, <2>1, <3>1 DEF GrantedOnly
  <2>2. CASE \E e \in Events : PublishKnown(e) \/ Publish(e)
    BY <2>2 DEF PublishKnown, Publish, NoLoop
  <2>3. CASE NextTarget
    <3> DEFINE due == {i \in DOMAIN clients :
                         clients[i] \notin loop.passed /\ CallOf[loop.event] \in subscribed[clients[i]]}
               first == CHOOSE i \in due : \A j \in due : i <= j
    <3>1. CASE due = {}
      <4>1. loop' = [loop EXCEPT !.pc = "done", !.at = None, !.passed = {}]
        BY <2>3, <3>1 DEF NextTarget
      <4> QED
        BY <2>0, <4>1 DEF LoopState
    <3>2. CASE due # {}
      <4>1. loop' = [loop EXCEPT !.pc = "check", !.at = clients[first],
                                 !.passed = @ \cup {clients[i] : i \in 1..first}]
        BY <2>3, <3>2 DEF NextTarget
      <4>2. first \in due
        BY <3>2, FirstDue DEF GatewayTyped
      <4>3. first \in DOMAIN clients /\ CallOf[loop.event] \in subscribed[clients[first]]
        BY <4>2
      <4> HIDE DEF first, due
      <4>4. clients[first] \in Sockets
        BY <4>3, LenProperties, ElementOfSeq DEF GatewayTyped, TypeOK
      <4>5. CallOf[loop.event] \in granted'[clients[first]]
        BY <1>0, <4>3, <4>4 DEF GrantedOnly
      <4>6. loop'.event = loop.event /\ loop'.at = clients[first]
        BY <2>0, <4>1 DEF LoopState
      <4> QED
        BY <4>5, <4>6
    <3> QED
      BY <3>1, <3>2
  <2>4. CASE Reauthorize
    <3>1. loop'.pc = "send" => loop'.at = loop.at /\ loop'.event = loop.event /\ loop.pc = "check"
      BY <2>0, <2>4 DEF Reauthorize, LoopState
    <3>2. loop'.pc # "check" /\ loop.at \in Sockets
      BY <2>0, <2>4 DEF Reauthorize, LoopState, GatewayTyped, HandlersConsistent
    <3> QED
      BY <1>0, <2>4, <3>1, <3>2 DEF GrantedOnly, Reauthorize
  <2>5. CASE Push \/ PublishReturns
    BY <2>0, <2>5 DEF Push, PublishReturns, NoLoop, LoopState
  <2> QED
    BY <2>1, <2>2, <2>3, <2>4, <2>5 DEF Next, vars, pushVars, handleConnection, Authenticated,
       Disconnect, consumeInbound, AcknowledgeRevokes, Acknowledge, SessionLost, subscribe,
       Reauthenticate, Readable, SubscribeRejects, ReplayAndAnswer, CreateAlert,
       PublishedElsewhere
<1>4. OnlyGrantedCalls'
  <2> SUFFICES ASSUME NEW s \in Sockets, NEW e \in sent'[s]
               PROVE  CallOf[e] \in granted'[s]
    BY AcknowledgedKept DEF GrantedOnly, OnlyGrantedCalls, AcknowledgedGranted
  <2>1. CASE e \in sent[s]
    BY <1>0, <2>1 DEF GrantedOnly, OnlyGrantedCalls
  <2>2. ASSUME NEW u \in Sockets, NEW events, sendEvent(u, events), e \notin sent[s]
        PROVE  s = u /\ e \in events
    BY <2>2 DEF sendEvent, GatewayTyped, TypeOK
  <2>3. ASSUME NEW h \in Handlers, ReplayAndAnswer(h), e \notin sent[s] PROVE CallOf[e] \in granted'[s]
    <3>1. work[h].sock \in Sockets /\ work[h].pc = "replay"
      BY <2>3 DEF ReplayAndAnswer, GatewayTyped, HandlersConsistent
    <3>2. s = work[h].sock /\ e \in Replayed(work[h].calls, work[h].cursor)
      BY <2>2, <2>3, <3>1 DEF ReplayAndAnswer
    <3>3. CallOf[e] \in work[h].calls
      BY <3>2 DEF Replayed, Records
    <3> QED
      BY <1>0, <3>1, <3>2, <3>3 DEF GrantedOnly
  <2>4. ASSUME Push, e \notin sent[s] PROVE CallOf[e] \in granted'[s]
    <3>1. loop.at \in Sockets /\ loop.pc = "send"
      BY <2>4 DEF Push, GatewayTyped, HandlersConsistent
    <3>2. s = loop.at /\ e = loop.event
      BY <2>2, <2>4, <3>1 DEF Push
    <3> QED
      BY <1>0, <3>1, <3>2 DEF GrantedOnly
  <2>5. CASE UNCHANGED sent
    BY <2>1, <2>5
  <2> QED
    BY <2>1, <2>3, <2>4, <2>5 DEF Next, vars, seenVars, handleConnection, Authenticated,
       Disconnect, consumeInbound, AcknowledgeRevokes, Acknowledge, SessionLost, subscribe,
       Reauthenticate, Readable, SubscribeRejects, CreateAlert, PublishKnown, Publish,
       PublishedElsewhere, NextTarget, Reauthorize, PublishReturns
<1> QED
  BY <1>1, <1>2, <1>3, <1>4 DEF GrantedOnly

\* Every step keeps the push loop from a socket that was revoked before it began.
LEMMA SkippedKept ==
  ASSUME GatewayTyped, RevokedIsSkipped, [Next]_vars
  PROVE  RevokedIsSkipped'
<1>0. lost \subseteq lost' /\ loop \in LoopState
  BY RestStep DEF GatewayTyped, TypeOK, LoopState
<1>1. ASSUME NEW e \in Events, Publish(e) PROVE RevokedIsSkipped'
  BY <1>1 DEF Publish, NoLoop, RevokedIsSkipped
<1>2. ASSUME (\E e \in Events : PublishKnown(e)) \/ PublishReturns PROVE RevokedIsSkipped'
  BY <1>2 DEF PublishKnown, PublishReturns, NoLoop, RevokedIsSkipped
<1>3. ASSUME Reauthorize PROVE RevokedIsSkipped'
  <2>1. UNCHANGED <<lost, revoked>>
    BY <1>3 DEF Reauthorize, seenVars
  <2>2. CASE StillAuthentic(loop.at) /\ loop' = [loop EXCEPT !.pc = "send"]
    <3>1. loop'.at = loop.at /\ loop.at \notin lost
      BY <1>0, <2>2 DEF StillAuthentic, LoopState
    <3> QED
      BY <2>1, <3>1 DEF RevokedIsSkipped
  <2>3. CASE loop' = [loop EXCEPT !.pc = "loop"]
    <3>1. loop'.pc # "send"
      BY <1>0, <2>3 DEF LoopState
    <3> QED
      BY <2>1, <3>1 DEF RevokedIsSkipped
  <2> QED
    BY <1>3, <2>2, <2>3 DEF Reauthorize
<1>4. ASSUME NextTarget \/ Push PROVE RevokedIsSkipped'
  <2>1. loop'.pc # "send"
    BY <1>0, <1>4 DEF NextTarget, Push, LoopState
  <2>2. UNCHANGED revoked
    BY <1>4 DEF NextTarget, Push, seenVars
  <2> QED
    BY <1>0, <2>1, <2>2 DEF RevokedIsSkipped
<1>5. ASSUME UNCHANGED <<loop, revoked>> PROVE RevokedIsSkipped'
  BY <1>0, <1>5 DEF RevokedIsSkipped
<1> QED
  BY <1>1, <1>2, <1>3, <1>4, <1>5 DEF Next, vars, pushVars, seenVars, handleConnection,
     Authenticated, Disconnect, consumeInbound, AcknowledgeRevokes, Acknowledge, SessionLost,
     subscribe, Reauthenticate, Readable, SubscribeRejects, ReplayAndAnswer, CreateAlert,
     PublishedElsewhere

\* Every step leaves a steady socket served, or ahead of the push loop.
LEMMA AheadKept ==
  ASSUME GatewayTyped, RevokedIsSkipped, AheadOrServed, [Next]_vars
  PROVE  AheadOrServed'
<1> SUFFICES ASSUME NEW s \in Sockets, s \in steady', state'[s] # "closed"
             PROVE  /\ loop'.event # None
                    /\ Listed(s)'
                    /\ CallOf[loop'.event] \in subscribed'[s]
                    /\ \/ loop'.event \in sent'[s] /\ s \notin revoked'
                       \/ loop'.pc \in {"check", "send"} /\ s = loop'.at
                       \/ loop'.pc \in {"loop", "check", "send"} /\ s \notin loop'.passed
  BY RestStep DEF AheadOrServed
<1> DEFINE Goal == /\ loop'.event # None
                   /\ Listed(s)'
                   /\ CallOf[loop'.event] \in subscribed'[s]
                   /\ \/ loop'.event \in sent'[s] /\ s \notin revoked'
                      \/ loop'.pc \in {"check", "send"} /\ s = loop'.at
                      \/ loop'.pc \in {"loop", "check", "send"} /\ s \notin loop'.passed
<1>0. /\ state[s] # "closed" /\ sent[s] \subseteq sent'[s]
      /\ Listed(s) => Listed(s)'
      /\ loop \in LoopState
  BY MapStep, SentStep, RestStep DEF GatewayTyped, TypeOK, LoopState
<1>1. ASSUME s \in steady
      PROVE  /\ loop.event # None
             /\ Listed(s) /\ Listed(s)'
             /\ CallOf[loop.event] \in subscribed[s]
             /\ \/ loop.event \in sent'[s] /\ s \notin revoked
                \/ loop.pc \in {"check", "send"} /\ s = loop.at
                \/ loop.pc \in {"loop", "check", "send"} /\ s \notin loop.passed
  BY <1>0, <1>1 DEF AheadOrServed
<1>2. CASE UNCHANGED <<loop, steady, subscribed, revoked>>
  BY <1>1, <1>2
<1>3. ASSUME NEW e \in Events, Publish(e) PROVE Goal
  <2>1. loop'.pc = "loop" /\ loop'.event = e /\ loop'.passed = {}
    BY <1>3 DEF Publish, NoLoop
  <2>2. Listed(s) /\ CallOf[e] \in subscribed[s] /\ UNCHANGED subscribed
    BY <1>3 DEF Publish, mapVars
  <2> QED
    BY <1>0, <2>1, <2>2, GatewayAssumption
<1>4. ASSUME (\E e \in Events : PublishKnown(e)) \/ PublishReturns PROVE Goal
  BY <1>4 DEF PublishKnown, PublishReturns
<1>5. ASSUME NEW h \in Handlers, Readable(h) PROVE Goal
  <2>1. s \in steady /\ UNCHANGED <<loop, revoked>>
    BY <1>5 DEF Readable, pushVars
  <2>2. CallOf[loop.event] \in subscribed'[s]
    <3>1. CASE s = work[h].sock
      BY <1>1, <1>5, <2>1, <3>1 DEF Readable, GatewayTyped, TypeOK
    <3>2. CASE s # work[h].sock
      BY <1>1, <1>5, <2>1, <3>2 DEF Readable, GatewayTyped, TypeOK
    <3> QED
      BY <3>1, <3>2
  <2> QED
    BY <1>1, <2>1, <2>2
<1>6. ASSUME NextTarget PROVE Goal
  <2> DEFINE due == {i \in DOMAIN clients :
                       clients[i] \notin loop.passed /\ CallOf[loop.event] \in subscribed[clients[i]]}
             first == CHOOSE i \in due : \A j \in due : i <= j
  <2>1. s \in steady /\ UNCHANGED <<subscribed, revoked>> /\ loop.pc = "loop"
    BY <1>6 DEF NextTarget, mapVars, seenVars
  <2>2. PICK k \in DOMAIN clients : clients[k] = s
    BY <1>1, <2>1 DEF Listed
  <2>3. s \notin loop.passed => k \in due
    BY <1>1, <2>1, <2>2
  <2>4. CASE due = {}
    <3>1. loop' = [loop EXCEPT !.pc = "done", !.at = None, !.passed = {}]
      BY <1>6, <2>4 DEF NextTarget
    <3>2. loop'.event = loop.event
      BY <1>0, <3>1 DEF LoopState
    <3> QED
      BY <1>1, <2>1, <2>3, <2>4, <3>2
  <2>5. CASE due # {}
    <3>1. loop' = [loop EXCEPT !.pc = "check", !.at = clients[first],
                               !.passed = @ \cup {clients[i] : i \in 1..first}]
      BY <1>6, <2>5 DEF NextTarget
    <3>2. first \in due /\ \A j \in due : first <= j
      BY <2>5, FirstDue DEF GatewayTyped
    <3>3. \A i \in due : clients[i] \notin loop.passed /\ CallOf[loop.event] \in subscribed[clients[i]]
      OBVIOUS
    <3>4. \A i \in DOMAIN clients : clients[i] = s /\ s \notin loop.passed => i \in due
      BY <1>1, <2>1
    <3>5. DOMAIN clients = 1..Len(clients) /\ Len(clients) \in Nat /\ first \in DOMAIN clients
      BY <3>2, LenProperties DEF GatewayTyped, TypeOK
    <3> HIDE DEF first, due
    <3>6. /\ loop'.pc = "check" /\ loop'.event = loop.event /\ loop'.at = clients[first]
          /\ loop'.passed = loop.passed \cup {clients[i] : i \in 1..first}
      BY <1>0, <3>1 DEF LoopState
    <3>7. s \notin loop.passed => s \notin loop'.passed \/ s = loop'.at
      <4>1. ASSUME s \notin loop.passed, NEW i \in 1..first, clients[i] = s PROVE i = first
        <5>1. i \in DOMAIN clients
          BY <3>5
        <5>2. i \in due
          BY <3>4, <4>1, <5>1
        <5> QED
          BY <3>2, <3>5, <4>1, <5>1, <5>2
      <4> QED
        BY <3>6, <4>1
    <3> QED
      BY <1>1, <2>1, <3>6, <3>7
  <2> QED
    BY <2>4, <2>5
<1>7. ASSUME Reauthorize PROVE Goal
  <2>1. s \in steady /\ UNCHANGED <<subscribed, revoked>> /\ loop.pc = "check" /\ loop.at \in Sockets
    BY <1>7 DEF Reauthorize, seenVars, GatewayTyped, HandlersConsistent
  <2>2. CASE loop' = [loop EXCEPT !.pc = "send"]
    <3>1. loop'.pc = "send" /\ loop'.at = loop.at /\ loop'.event = loop.event /\ loop'.passed = loop.passed
      BY <1>0, <2>2 DEF LoopState
    <3> QED
      BY <1>1, <2>1, <3>1
  <2>3. CASE Dropped(loop.at) /\ loop' = [loop EXCEPT !.pc = "loop"]
    <3>1. loop'.pc = "loop" /\ loop'.at = loop.at /\ loop'.event = loop.event /\ loop'.passed = loop.passed
      BY <1>0, <2>3 DEF LoopState
    <3>2. s # loop.at
      BY <2>1, <2>3, DropFacts DEF GatewayTyped
    <3> QED
      BY <1>1, <2>1, <3>1, <3>2
  <2> QED
    BY <1>7, <2>2, <2>3 DEF Reauthorize
<1>8. ASSUME Push PROVE Goal
  <2>1. s \in steady /\ UNCHANGED <<subscribed, revoked>> /\ loop.pc = "send" /\ loop.at \in Sockets
    BY <1>8 DEF Push, GatewayTyped, HandlersConsistent
  <2>2. loop'.pc = "loop" /\ loop'.event = loop.event /\ loop'.passed = loop.passed
    BY <1>0, <1>8 DEF Push, LoopState
  <2>4. s = loop.at => s \notin revoked
    BY <2>1 DEF RevokedIsSkipped
  <2>3. s = loop.at => loop.event \in sent'[s]
    <3>1. CASE Open(loop.at)
      BY <1>8, <2>1, <3>1 DEF Push, sendEvent, GatewayTyped, TypeOK
    <3>2. CASE ~Open(loop.at)
      <4>1. Dropped(loop.at)
        BY <1>8, <3>2 DEF Push, sendEvent
      <4> QED
        BY <2>1, <4>1, DropFacts DEF GatewayTyped
    <3> QED
      BY <3>1, <3>2
  <2> QED
    BY <1>1, <2>1, <2>2, <2>3, <2>4
<1> HIDE DEF Goal
<1>9. Goal \/ UNCHANGED <<loop, steady, subscribed, revoked>>
  BY <1>3, <1>4, <1>5, <1>6, <1>7, <1>8 DEF Next, vars, mapVars, pushVars, seenVars,
     handleConnection, Authenticated, Disconnect, consumeInbound, AcknowledgeRevokes, Acknowledge,
     SessionLost, subscribe, Reauthenticate, SubscribeRejects, ReplayAndAnswer, CreateAlert,
     PublishedElsewhere
<1> QED
  BY <1>2, <1>9 DEF Goal

\* The inductive invariant holds in every reachable state.
LEMMA GatewayInvariant == Spec => []GatewayInv
<1>1. GatewayInv /\ [Next]_vars => GatewayInv'
  BY TypeKept, ConnectionsKept, GrantedKept, SkippedKept, AheadKept DEF GatewayInv
<1> QED
  BY InitHolds, <1>1, PTL DEF Spec

-----------------------------------------------------------------------------
\* The tables, the Map, the loop and the requests are of their types.
THEOREM GatewayIsTyped == Spec => []TypeOK
BY GatewayInvariant, PTL DEF GatewayInv, GatewayTyped

\* Sockets that are being authenticated and those that are through together never
\* pass the limit of connections.
THEOREM ConnectionsAreLimited == Spec => []ConnectionLimit
BY GatewayInvariant, PTL DEF GatewayInv, Connections

\* Pushed or replayed, no socket gets an event of a call that was not granted to it.
THEOREM EventsAreGranted == Spec => []OnlyGrantedCalls
BY GatewayInvariant, PTL DEF GatewayInv, GrantedOnly

\* When publish returns, who was subscribed throughout was served, and not revoked before,
\* or is disconnected.
LEMMA AtTheEnd ==
  ASSUME GatewayInv, loop.pc = "done", NEW s \in steady, state[s] # "closed"
  PROVE  loop.event \in sent[s] /\ s \notin revoked
BY DEF GatewayInv, AheadOrServed

\* Who is subscribed through a whole publication has got its event in the end, or is
\* disconnected.
THEOREM SteadyIsServed == Spec => []SteadySubscriberIsServed
<1>1. GatewayInv => SteadySubscriberIsServed
  BY AtTheEnd DEF SteadySubscriberIsServed, Open
<1> QED
  BY GatewayInvariant, <1>1, PTL

\* Nothing is pushed to a socket whose session was lost before the publication began, and
\* a subscriber among those is disconnected when it ends.
THEOREM RevokedIsOut == Spec => []RevokedIsDisconnected
<1>1. GatewayInv => RevokedIsDisconnected
  BY AtTheEnd DEF RevokedIsDisconnected, RevokedIsSkipped, GatewayInv
<1> QED
  BY GatewayInvariant, <1>1, PTL
=============================================================================
