------------------------------ MODULE EventHub ------------------------------
(***************************************************************************)
(* The event hub: every process keeps the streams of its own clients, and  *)
(* hears of the events of the others through several backends at once      *)
(* (app/realtime_bus.py, app/routers/realtime.py, app/outbox.py).          *)
(*                                                                         *)
(* A process has one client.  A publication is one step: what it sends     *)
(* waits in the channels, so that whatever happens between its calls could *)
(* as well happen before it or after.                                      *)
(***************************************************************************)
EXTENDS Naturals, FiniteSets, Sequences, SequencesExt

CONSTANTS
  HubProcesses,
  Readers,       \* bound: processes a client connects to
  HubBackends,   \* the configured backends, in order, of "redis", "postgres", "mongo"
  Raising,       \* backends whose failure raises an error (APP_RUNTIME_STRICT)
  CacheSize,     \* events a process remembers
  StreamSize,    \* events a client may be behind
  MaxEvents,     \* bound
  MaxRestarts,   \* bound
  MaxRedispatches, \* bound
  MaxLapses      \* bound: events forgotten because of their age

ASSUME HubAssumption ==
  /\ {CacheSize, StreamSize} \subseteq Nat \ {0}
  /\ {MaxEvents, MaxRestarts, MaxRedispatches, MaxLapses} \subseteq Nat
  /\ Raising \subseteq ToSet(HubBackends) /\ Readers \subseteq HubProcesses

Events == 1..MaxEvents
Backend == ToSet(HubBackends)
Instance == HubProcesses \X (0..MaxRestarts)
Scopes == {"role:staff", "role:student"}

VARIABLES
  origin,      \* the instance each event comes from, or <<>>
  scope,       \* whom it is for
  restarts,    \* of each process: its instance id is a new one each time
  cache,       \* events each process remembers, the oldest first
  channel,     \* channel[b][p]: what backend b has for process p
  stored,      \* events in the collection of MongoDB
  queued,      \* events in the outbox
  stream,      \* the client of each process
  delivered,   \* history: how often an instance gave an event to its clients
  republished, \* history: how often it took the event from the outbox
  forgotten,   \* history: how often it forgot the event
  lapses

hubVars == <<origin, scope, restarts, cache, channel, stored, queued, stream,
             delivered, republished, forgotten, lapses>>

NoClient == [scopes |-> {}, queue |-> <<>>]

HubTypeOK ==
  /\ origin \in [Events -> Instance \cup {<<>>}]
  /\ scope \in [Events -> Scopes]
  /\ restarts \in [HubProcesses -> 0..MaxRestarts]
  /\ \A p \in HubProcesses : ToSet(cache[p]) \subseteq Events /\ Len(cache[p]) <= CacheSize
  /\ \A b \in Backend, p \in HubProcesses : ToSet(channel[b][p]) \subseteq Events
  /\ stored \subseteq Events /\ queued \subseteq Events
  /\ \A p \in HubProcesses : /\ stream[p].scopes \subseteq Scopes
                             /\ Len(stream[p].queue) <= StreamSize
  /\ {delivered, republished, forgotten} \subseteq [HubProcesses -> [Events -> Nat]]

HubInit ==
  /\ origin = [e \in Events |-> <<>>]
  /\ scope = [e \in Events |-> "role:staff"]
  /\ restarts = [p \in HubProcesses |-> 0]
  /\ cache = [p \in HubProcesses |-> <<>>]
  /\ channel = [b \in Backend |-> [p \in HubProcesses |-> <<>>]]
  /\ stored = {} /\ queued = {}
  /\ stream = [p \in HubProcesses |-> NoClient]
  /\ delivered = [p \in HubProcesses |-> [e \in Events |-> 0]]
  /\ republished = delivered /\ forgotten = delivered
  /\ lapses = 0

Self(p) == <<p, restarts[p]>>

(***************************************************************************)
(* What a process remembers, and what it gives to its clients              *)
(***************************************************************************)

Counted(count, p, e) == [count EXCEPT ![p][e] = @ + 1]

\* The event is the latest one; the oldest makes room.
Remembered(p, e) ==
  LET place == CHOOSE i \in DOMAIN cache[p] : cache[p][i] = e
  IN Append(IF e \in ToSet(cache[p]) THEN RemoveAt(cache[p], place) ELSE cache[p], e)
Track(p, e) ==
  IF Len(Remembered(p, e)) > CacheSize
  THEN /\ cache' = [cache EXCEPT ![p] = Tail(Remembered(p, e))]
       /\ forgotten' = Counted(forgotten, p, Head(Remembered(p, e)))
  ELSE /\ cache' = [cache EXCEPT ![p] = Remembered(p, e)]
       /\ UNCHANGED forgotten

ScopeMatch(scopes, s) == s \in scopes

\* Events for everyone and clients who hear everything are left out; topics are alike.
\* A client whose queue is full loses the oldest event.
Room(queue) == IF Len(queue) = StreamSize THEN Tail(queue) ELSE queue
PublishLocal(p, e, s) ==
  /\ stream' = IF ScopeMatch(stream[p].scopes, s)
               THEN [stream EXCEPT ![p].queue = Append(Room(@), e)]
               ELSE stream
  /\ delivered' = Counted(delivered, p, e)

(***************************************************************************)
(* Publishing                                                              *)
(***************************************************************************)

\* Every process is told; MongoDB tells them once, for an event it stores under its id.
Spread(done, e) ==
  /\ channel' = [b \in Backend |-> IF b \notin done \/ (b = "mongo" /\ e \in stored) THEN channel[b]
                   ELSE [p \in HubProcesses |-> Append(channel[b][p], e)]]
  /\ stored' = IF "mongo" \in done THEN stored \cup {e} ELSE stored

\* A call may fail before or after the backend has done it; the event is taken if one call
\* has not raised an error.
PublishBackend(e, taken) == \E done, raised \in SUBSET Backend :
  /\ raised \subseteq Raising /\ Raising \ done \subseteq raised
  /\ taken = (raised # Backend)
  /\ Spread(done, e)

\* The outbox may be off, or fail.
Enqueue(e) == queued' \in {queued, queued \cup {e}}

\* An event no backend has taken goes to the outbox, or the caller has an error.
Publish(p, e, s) ==
  /\ origin[e] = <<>> /\ \A f \in 1..(e - 1) : origin[f] # <<>>
  /\ origin' = [origin EXCEPT ![e] = Self(p)]
  /\ scope' = [scope EXCEPT ![e] = s]
  /\ Track(p, e)
  /\ PublishLocal(p, e, s)
  /\ \E taken \in BOOLEAN :
       /\ PublishBackend(e, taken)
       /\ IF taken THEN UNCHANGED queued ELSE Enqueue(e)
  /\ UNCHANGED <<restarts, republished, lapses>>

\* An event of the outbox, whoever put it there, is given to the clients again.  It stays
\* in the outbox if no backend takes it, or if the batch is rolled back, and for another
\* process that has read it at the same time.
PublishPrebuilt(p, e) ==
  /\ e \in queued
  /\ \A q \in HubProcesses : republished[q][e] < MaxRedispatches
  /\ Track(p, e)
  /\ PublishLocal(p, e, scope[e])
  /\ republished' = Counted(republished, p, e)
  /\ \E taken \in BOOLEAN :
       /\ PublishBackend(e, taken)
       /\ queued' \in IF taken THEN {queued, queued \ {e}} ELSE {queued}
  /\ UNCHANGED <<origin, scope, restarts, lapses>>

(***************************************************************************)
(* Listening                                                               *)
(***************************************************************************)

\* Mutant: the event is looked up, but not remembered.
Take_Forgetful(p, e) ==
  /\ IF e \in ToSet(cache[p]) THEN UNCHANGED <<stream, delivered>> ELSE PublishLocal(p, e, scope[e])
  /\ UNCHANGED <<cache, forgotten>>

\* What a process has published or heard of is passed over, and remembered anew.
Take(p, e) ==
  /\ IF e \in ToSet(cache[p]) THEN UNCHANGED <<stream, delivered>> ELSE PublishLocal(p, e, scope[e])
  /\ Track(p, e)

OnBackendMessage(b, p) ==
  /\ channel[b][p] # <<>>
  /\ LET e == Head(channel[b][p])
     IN IF origin[e] = Self(p) THEN UNCHANGED <<cache, forgotten, stream, delivered>> ELSE Take(p, e)
  /\ channel' = [channel EXCEPT ![b][p] = Tail(@)]
  /\ UNCHANGED <<origin, scope, restarts, stored, queued, republished, lapses>>

\* A listener that reconnects hears of nothing that happened meanwhile.
LoseConnection(b, p) ==
  /\ channel[b][p] # <<>>
  /\ channel' = [channel EXCEPT ![b][p] = <<>>]
  /\ UNCHANGED <<origin, scope, restarts, cache, stored, queued, stream, delivered,
                 republished, forgotten, lapses>>

\* After REALTIME_DEDUPE_TTL_SECONDS.
Lapse(p) ==
  /\ cache[p] # <<>>
  /\ lapses < MaxLapses
  /\ lapses' = lapses + 1
  /\ cache' = [cache EXCEPT ![p] = Tail(@)]
  /\ forgotten' = Counted(forgotten, p, Head(cache[p]))
  /\ UNCHANGED <<origin, scope, restarts, channel, stored, queued, stream,
                 delivered, republished>>

(***************************************************************************)
(* Clients and processes                                                   *)
(***************************************************************************)

OnlyClient == <<origin, scope, restarts, cache, channel, stored, queued, delivered, republished,
                forgotten, lapses>>

Connect(p, scopes) ==
  /\ stream[p].scopes = {}
  /\ stream' = [stream EXCEPT ![p] = [scopes |-> scopes, queue |-> <<>>]]
  /\ UNCHANGED OnlyClient

Receive(p) ==
  /\ stream[p].queue # <<>>
  /\ stream' = [stream EXCEPT ![p].queue = Tail(@)]
  /\ UNCHANGED OnlyClient

Unsubscribe(p) ==
  /\ stream[p].scopes # {}
  /\ stream' = [stream EXCEPT ![p] = NoClient]
  /\ UNCHANGED OnlyClient

\* A new instance, with nothing remembered and nobody connected.
Restart(p) ==
  /\ \A q \in HubProcesses : restarts[q] < MaxRestarts
  /\ restarts' = [restarts EXCEPT ![p] = @ + 1]
  /\ cache' = [cache EXCEPT ![p] = <<>>]
  /\ channel' = [b \in Backend |-> [channel[b] EXCEPT ![p] = <<>>]]
  /\ stream' = [stream EXCEPT ![p] = NoClient]
  /\ LET none == [e \in Events |-> 0]
     IN /\ delivered' = [delivered EXCEPT ![p] = none]
        /\ republished' = [republished EXCEPT ![p] = none]
        /\ forgotten' = [forgotten EXCEPT ![p] = none]
  /\ UNCHANGED <<origin, scope, stored, queued, lapses>>

HubNext == \E p \in HubProcesses :
  \/ \E e \in Events : PublishPrebuilt(p, e) \/ \E s \in Scopes : Publish(p, e, s)
  \/ \E b \in Backend : OnBackendMessage(b, p) \/ LoseConnection(b, p)
  \/ Lapse(p)
  \/ p \in Readers /\ Connect(p, {"role:staff"})
  \/ Receive(p) \/ Unsubscribe(p) \/ Restart(p)

\* Whatever backends carry an event, and however often the outbox hands it to them, an
\* instance gives it to its clients once, but for each time it took the event from the
\* outbox itself and each time it had forgotten it (_track_recent_event).
DeliveredOnce == \A p \in HubProcesses, e \in Events :
  delivered[p][e] <= 1 + republished[p][e] + forgotten[p][e]
=============================================================================
