--------------------------- MODULE RedisFailover ---------------------------
(***************************************************************************)
(* The Redis instances of one process: the rate limiter's hits fail over   *)
(* from one to the next, while the listener of the event channel           *)
(* reconnects and the health check brings the primary back                 *)
(* (app/redis_dual_client.py, app/redis_client.py, app/rate_limit.py).     *)
(*                                                                         *)
(* One key in one window: the window is part of the key.                   *)
(***************************************************************************)
EXTENDS Naturals, FiniteSets

CONSTANTS
  LastInstance,   \* instances are 1 (the primary) to LastInstance, in the order of failover
  HitThreads,     \* requests served at a time
  Limit,          \* hits allowed
  MaxHits,        \* bound: hits
  MaxChanges      \* bound: instances that break, recover or lose their data

ASSUME RedisAssumption ==
  /\ {LastInstance, Limit} \subseteq Nat \ {0}
  /\ {MaxHits, MaxChanges} \subseteq Nat

VARIABLES
  instance,    \* "up", "down" or out of "quota"
  counter,     \* the key's counter on each instance
  lasting,     \* instances where the key has no time of expiry yet
  localCounter,
  client,      \* instances a client was made for; none once they are closed
  open,        \* the manager holds its instances
  failing,     \* instances marked failed
  active,
  hit,         \* what each thread does
  listening,   \* the instance the listener is subscribed to, or 0
  closing,     \* the listener is about to initialise again
  loop,        \* the listener's: it "runs", a thread has "cut" its connection, or it "ended"
  allowed,     \* history: hits allowed
  hits,
  changes,
  losses       \* history: counters lost

redisVars == <<instance, counter, lasting, localCounter, client, open, failing, active, hit,
               listening, closing, loop, allowed, hits, changes, losses>>

Instances == 1..LastInstance
\* within: the counter was within the limit.
Hit == [at : {"idle", "incr", "expire"}, on : Instances \cup {0}, attempt : 1..LastInstance,
        within : BOOLEAN]
IdleHit == [at |-> "idle", on |-> 0, attempt |-> 1, within |-> FALSE]

RedisTypeOK ==
  /\ instance \in [Instances -> {"up", "down", "quota"}]
  /\ counter \in [Instances -> 0..(MaxHits * LastInstance)]
  /\ lasting \subseteq Instances
  /\ localCounter \in 0..MaxHits
  /\ client \subseteq Instances /\ failing \subseteq Instances
  /\ {open, closing} \subseteq BOOLEAN
  /\ active \in Instances /\ listening \in Instances \cup {0}
  /\ hit \in [HitThreads -> Hit] /\ loop \in {"runs", "cut", "ended"}
  /\ {allowed, hits} \subseteq 0..MaxHits
  /\ losses \in 0..changes /\ changes \in 0..MaxChanges

Up == {i \in Instances : instance[i] = "up"}
First(set) == CHOOSE i \in set : \A j \in set : i <= j

RedisInit ==
  /\ instance = [i \in Instances |-> "up"]
  /\ counter = [i \in Instances |-> 0]
  /\ lasting = {} /\ localCounter = 0
  /\ client = Instances /\ open = TRUE /\ failing = {} /\ active = 1
  /\ hit = [t \in HitThreads |-> IdleHit]
  /\ listening = 0 /\ closing = FALSE /\ loop = "runs"
  /\ allowed = 0 /\ hits = 0 /\ changes = 0 /\ losses = 0

(***************************************************************************)
(* The manager                                                             *)
(***************************************************************************)

\* Mutant: the first instance is the active one, whether a client was made or not.
FirstActive_Primary == 1

\* The first instance a client could be made for.
FirstActive == IF Up = {} THEN 1 ELSE First(Up)

\* A client is made only for an instance that answers.
Initialised ==
  /\ client' = Up /\ open' = TRUE /\ failing' = {} /\ active' = FirstActive

Closed == client' = {} /\ open' = FALSE /\ failing' = {} /\ active' = 1

\* The instances after the active one, and then those before it; one that answers is
\* the active one from here on.
Rank(i) == (i + LastInstance - active) % LastInstance
Candidates == Up \ {active}
NextUp == CHOOSE i \in Candidates : \A j \in Candidates : Rank(i) <= Rank(j)

\* The instances tried in vain are marked, but for those no client can be made for.
FailedOver ==
  IF Candidates = {}
  THEN /\ failing' = failing \cup (client \cap (Instances \ Up)) \cup {active}
       /\ UNCHANGED <<active, client>>
  ELSE /\ active' = NextUp
       /\ client' = client \cup {NextUp}
       /\ failing' = (failing \cup {active}
                        \cup {i \in client \ Up : Rank(i) < Rank(NextUp)}) \ {NextUp}

\* Instances that fail are tried again, once in a while; the primary takes over.
HealthCheck ==
  /\ open
  /\ LET back == {i \in Up \ {active} : i \notin client \/ i \in failing}
     IN /\ back # {}
        /\ client' = client \cup back
        /\ failing' = failing \ back
        /\ active' = IF 1 \in back THEN 1 ELSE active
  /\ UNCHANGED <<instance, counter, lasting, localCounter, open, hit, listening, closing, loop, allowed, hits,
                 changes, losses>>

(***************************************************************************)
(* Hits                                                                    *)
(***************************************************************************)

OnlyHit == <<instance, listening, closing, loop, changes, losses>>

Finish(t) == hit' = [hit EXCEPT ![t] = IdleHit]
Allow(yes) == allowed' = allowed + (IF yes THEN 1 ELSE 0)

HasClient == open /\ active \in client

CountLocally ==
  /\ localCounter' = localCounter + 1
  /\ Allow(localCounter' <= Limit)

\* The client of the active instance is taken before it is used.  If there is none the
\* manager is initialised; if none can be made the hit is refused, or counted by the
\* process itself when it is the primary's quota that has run out.
BeginHit(t) ==
  /\ hit[t] = IdleHit
  /\ hits < MaxHits
  /\ hits' = hits + 1
  /\ IF HasClient THEN UNCHANGED <<client, open, failing, active>> ELSE Initialised
  /\ IF active' \in client'
     THEN /\ hit' = [hit EXCEPT ![t] = [IdleHit EXCEPT !.at = "incr", !.on = active']]
          /\ UNCHANGED <<localCounter, allowed>>
     ELSE /\ IF instance[1] = "quota" THEN CountLocally ELSE UNCHANGED <<localCounter, allowed>>
          /\ UNCHANGED hit
  /\ UNCHANGED <<counter, lasting, OnlyHit>>

Works(t) == hit[t].on # 0 /\ instance[hit[t].on] = "up"

\* A counter that has no time of expiry is given one before the hit is decided.  The
\* success is noted for the instance active by now: without instances it is an error.
Increments(t) ==
  /\ hit[t].at = "incr" /\ Works(t)
  /\ LET on == hit[t].on
         within == counter[on] + 1 <= Limit
         expiring == counter[on] = 0 \/ on \in lasting
     IN /\ counter' = [counter EXCEPT ![on] = @ + 1]
        /\ lasting' = IF counter[on] = 0 THEN lasting \cup {on} ELSE lasting
        /\ IF open /\ expiring
           THEN /\ hit' = [hit EXCEPT ![t] = [at |-> "expire", attempt |-> 1, within |-> within,
                                             on |-> IF HasClient THEN active ELSE 0]]
                /\ UNCHANGED allowed
           ELSE Finish(t) /\ Allow(open /\ within)
  /\ failing' = IF open THEN failing \ {active} ELSE failing
  /\ UNCHANGED <<localCounter, client, open, active, hits, OnlyHit>>

Expires(t) ==
  /\ hit[t].at = "expire" /\ Works(t)
  /\ lasting' = lasting \ {hit[t].on}
  /\ Finish(t) /\ Allow(open /\ hit[t].within)
  /\ failing' = IF open THEN failing \ {active} ELSE failing
  /\ UNCHANGED <<counter, localCounter, client, open, active, hits, OnlyHit>>

Retries(t) == open /\ hit[t].attempt < LastInstance

\* It is the instance active by now that is marked, whichever had failed.
FailsOver(t) ==
  /\ hit[t].at # "idle" /\ ~Works(t)
  /\ Retries(t) /\ Candidates # {}
  /\ FailedOver
  /\ hit' = [hit EXCEPT ![t].attempt = @ + 1, ![t].on = active']
  /\ UNCHANGED <<counter, lasting, localCounter, open, allowed, hits, OnlyHit>>

\* Out of quota, the clients are closed, under the listener that reads from one, and the
\* process counts by itself; any other error refuses the request.
GivesUp(t) ==
  /\ hit[t].at # "idle" /\ ~Works(t)
  /\ ~(Retries(t) /\ Candidates # {})
  /\ IF open /\ hit[t].on # 0 /\ instance[hit[t].on] = "quota"
     THEN CountLocally /\ Closed /\ loop' \in {loop, IF listening = 0 THEN loop ELSE "cut"}
     ELSE /\ IF Retries(t) THEN FailedOver
             ELSE /\ failing' = IF open THEN failing \cup {active} ELSE failing
                  /\ UNCHANGED <<active, client>>
          /\ UNCHANGED <<localCounter, allowed, open, loop>>
  /\ Finish(t)
  /\ UNCHANGED <<instance, counter, lasting, listening, closing, hits, changes, losses>>

(***************************************************************************)
(* The listener of the event channel                                       *)
(***************************************************************************)

OnlyListener == <<instance, counter, lasting, localCounter, hit, allowed, hits, changes, losses>>

\* Without a client the manager is initialised, and the listener waits.
Subscribe ==
  /\ listening = 0 /\ ~closing /\ loop = "runs"
  /\ IF HasClient THEN UNCHANGED <<client, open, failing, active>> ELSE Initialised
  /\ \/ active' \in client' /\ instance[active'] = "up" /\ listening' = active' /\ UNCHANGED closing
     \/ active' \in client' /\ instance[active'] = "down" /\ closing' = TRUE /\ UNCHANGED listening
     \/ (active' \notin client' \/ instance[active'] = "quota") /\ UNCHANGED <<listening, closing>>
  /\ UNCHANGED <<loop, OnlyListener>>

\* A lost connection closes every client; any other error is waited out.
LoseChannel ==
  /\ listening # 0 /\ loop = "runs"
  /\ instance[listening] # "up"
  /\ closing' = (instance[listening] = "down")
  /\ listening' = 0
  /\ UNCHANGED <<client, open, failing, active, loop, OnlyListener>>

\* Reading from a connection that another thread has closed: the library connects again, or
\* the error is like any other, or it says "closed file" and the loop ends for good.
FindCut ==
  /\ loop = "cut"
  /\ \/ instance[listening] = "up" /\ loop' = "runs" /\ UNCHANGED <<listening, closing>>
     \/ loop' = "runs" /\ listening' = 0 /\ closing' \in BOOLEAN
     \/ loop' = "ended" /\ listening' = 0 /\ UNCHANGED closing
  /\ UNCHANGED <<client, open, failing, active, OnlyListener>>

CloseClients ==
  /\ closing /\ open
  /\ Closed
  /\ UNCHANGED <<listening, closing, loop, OnlyListener>>

Reinitialise ==
  /\ closing /\ ~open
  /\ Initialised
  /\ closing' = FALSE
  /\ UNCHANGED <<listening, loop, OnlyListener>>

(***************************************************************************)
(* The instances                                                           *)
(***************************************************************************)

ChangeInstance(i, state) ==
  /\ changes < MaxChanges
  /\ instance[i] # state
  /\ instance' = [instance EXCEPT ![i] = state]
  /\ changes' = changes + 1
  /\ \/ UNCHANGED <<counter, lasting, losses>>
     \/ /\ state = "up"
        /\ counter' = [counter EXCEPT ![i] = 0] /\ lasting' = lasting \ {i}
        /\ losses' = losses + 1
  /\ UNCHANGED <<localCounter, client, open, failing, active, hit, listening, closing, loop,
                 allowed, hits>>

RedisNext ==
  \/ HealthCheck \/ Subscribe \/ LoseChannel \/ FindCut \/ CloseClients \/ Reinitialise
  \/ \E t \in HitThreads : BeginHit(t) \/ Increments(t) \/ Expires(t) \/ FailsOver(t) \/ GivesUp(t)
  \/ \E i \in Instances, state \in {"up", "down", "quota"} : ChangeInstance(i, state)

\* The listener's loop runs until the process ends, or it does itself.
ListenerRuns == Subscribe \/ LoseChannel \/ FindCut \/ CloseClients \/ Reinitialise

\* However many requests fail at once, over different instances, a key's hits are allowed
\* no more often than each place that has counted one allows (rate_limit_hit).
CountedBy == {i \in Instances : counter[i] # 0}
AllowedBounded ==
  allowed <= Limit * (Cardinality(CountedBy) + losses + IF localCounter = 0 THEN 0 ELSE 1)

\* The listener is on an instance that is up, unless a request that ran out of quota has
\* closed its connection and its loop ended.
Listens == listening \in Up \/ loop = "ended"
Steady == Up # {} /\ \A i \in Instances : instance[i] # "quota"
=============================================================================
