---------------------------- MODULE RabbitConsumers ----------------------------
(***************************************************************************)
(* The RabbitMQ driver of a worker (infrastructure/drivers/rabbit.ts): one *)
(* cached channel, which a periodic probe replaces when it has died, and   *)
(* the consumer of a queue, which has to move to each new channel, exactly *)
(* once, until it is unsubscribed.  A worker has one callback per queue,   *)
(* and the queues share nothing but the channel, so one is modelled.       *)
(*                                                                         *)
(* Code between two awaits is one step; an await of a promise that is      *)
(* settled does not let another event in.  Channels and consumers that     *)
(* nothing refers to any more are used again, so that there are as many as *)
(* the code needs; a step that needs one more than there are cannot be     *)
(* taken (TLC would stop at its CHOOSE, as none can be chosen).            *)
(*                                                                         *)
(* A worker has this driver and its tasks: the names DriverInit, ... leave *)
(* Init, ... to the module of the tasks it is reasoned about with.         *)
(***************************************************************************)
EXTENDS Naturals, FiniteSets

CONSTANTS
  MaxChannels,   \* channels that can be referred to at once
  MaxConsumers,  \* consumers that can be referred to at once
  Ticks,         \* keepalive probes that can overlap
  MaxRetries,    \* of a re-subscription: 2 in the code
  MaxLosses      \* bound on refused connections and lost channels

ASSUME RabbitAssumption ==
  {MaxChannels, MaxConsumers, MaxRetries, MaxLosses} \subseteq Nat

Channels  == 1..MaxChannels
Consumers == 1..MaxConsumers
Main      == 0                   \* the subscribe call of startConsumer
Tasks     == {Main} \cup Channels  \* and the re-subscription of each channel

VARIABLES
  chan,        \* channels: none, opening, refused, open, closed
  current,     \* channelPromise, 0 for null
  registered,  \* the callback is in `subscriptions`
  cons,        \* consume calls: channel and status
  active,      \* activeConsumers, 0 for none
  superseded,  \* consumers of an earlier channel about to be cancelled
  task,        \* subscribe calls and re-subscriptions
  tick,        \* executions of keepAlive
  stop,        \* the call that stops the consumer (stopTaskErrors, unsubscribe)
  losses,
  slipped      \* history: unsubscribed under a re-subscription that awaits its channel

conn == <<chan, current>>
read == <<registered, cons, active, superseded>>
driverVars == <<conn, read, task, tick, stop, losses, slipped>>

NoCall == [phase |-> "idle", of |-> 0]
NoTask == [phase |-> "idle", of |-> 0, tries |-> 0]
NoCons == [st |-> "none", ch |-> 0]

-----------------------------------------------------------------------------
\* What still refers to a channel, to a consumer.
Held(n) == \/ n = current \/ chan[n] = "opening"
           \/ task[n].phase # "idle"
           \/ \E t \in Tasks : task[t].phase = "channel" /\ task[t].of = n
           \/ \E k \in Ticks : tick[k].phase # "idle" /\ tick[k].of = n
           \/ \E i \in Consumers : cons[i].st # "none" /\ cons[i].ch = n

Kept(i) == \/ i = active \/ i \in superseded
           \/ \E t \in Tasks : task[t].phase = "consume" /\ task[t].of = i
           \/ stop.phase = "cancel" /\ stop.of = i
           \/ cons[i].st \in {"asked", "live"} /\ chan[cons[i].ch] = "open"

FreshChannel  == CHOOSE n \in Channels : ~Held(n) /\ \A m \in Channels : m < n => Held(m)
FreshConsumer == CHOOSE i \in Consumers : ~Kept(i) /\ \A j \in Consumers : j < i => Kept(j)

\* The broker delivers to consumer i.
Serving(i) == cons[i].st = "live" /\ chan[cons[i].ch] = "open"

Reading == active # 0 /\ Serving(active)

\* Subscriptions that go on before any other event: their channel has opened.
Ready == {t \in Tasks : task[t].phase = "channel" /\ chan[task[t].of] = "open"}
Quiet == Ready = {} /\ \A t \in Tasks : task[t].phase # "start"

\* getChannel with nothing cached: connect, and cache the promise.
Connect(n) ==
  /\ n \in Channels /\ ~Held(n)
  /\ current' = n /\ chan' = [chan EXCEPT ![n] = "opening"]

Await(t, phase, of) == task' = [task EXCEPT ![t].phase = phase, ![t].of = of]

\* A subscribe that succeeds: startConsumer holds the handle from now on.
Over(t) == IF t = Main THEN [NoTask EXCEPT !.phase = "done"] ELSE NoTask

\* A subscribe that is rejected: startConsumer logs it, a re-subscription is
\* tried again after a while, or given up.
Rejected(t) ==
  IF t = Main THEN [NoTask EXCEPT !.phase = "failed"]
  ELSE IF task[t].tries < MaxRetries
       THEN [phase |-> "retry", of |-> 0, tries |-> task[t].tries + 1] ELSE NoTask

\* The consumer that the callback has, or has asked for, on this channel.
Reserved(n) == active # 0 /\ cons[active].ch = n

\* Mutant: a consumer of another channel is forgotten.
SupersedeNone == superseded

\* A consumer of another channel is to be cancelled.
Supersede == superseded \cup ({active} \ {0})

\* ensureConsumer: the callback keeps the consumer it has on this channel;
\* otherwise one is entered before its consume is answered, and on a channel
\* that is closed the entry is taken back at once.
ensureConsumer(t, n) ==
  /\ \/ Reserved(n) /\ chan[n] = "open"
        /\ \/ cons[active].st = "asked" /\ Await(t, "consume", active)
           \/ cons[active].st = "live" /\ task' = [task EXCEPT ![t] = Over(t)]
        /\ UNCHANGED <<cons, active, superseded>>
     \/ Reserved(n) /\ chan[n] = "closed"
        /\ task' = [task EXCEPT ![t] = Over(t)]
        /\ UNCHANGED <<cons, active, superseded>>
     \/ ~Reserved(n) /\ chan[n] = "open"
        /\ FreshConsumer \in Consumers /\ ~Kept(FreshConsumer)
        /\ cons' = [cons EXCEPT ![FreshConsumer] = [st |-> "asked", ch |-> n]]
        /\ active' = FreshConsumer
        /\ superseded' = Supersede
        /\ Await(t, "consume", FreshConsumer)
     \/ ~Reserved(n) /\ chan[n] = "closed"
        /\ active' = 0
        /\ superseded' = Supersede
        /\ task' = [task EXCEPT ![t] = Rejected(t)]
        /\ UNCHANGED cons
  /\ UNCHANGED conn

\* subscribe from its await of getChannel on.
Subscribing(t) ==
  \/ current = 0
     /\ Connect(FreshChannel)
     /\ Await(t, "channel", current')
     /\ UNCHANGED <<cons, active, superseded>>
  \/ current # 0 /\ chan[current] = "opening"
     /\ Await(t, "channel", current)
     /\ UNCHANGED <<conn, cons, active, superseded>>
  \/ current # 0 /\ chan[current] # "opening" /\ ensureConsumer(t, current)

(***************************************************************************)
(* subscribe, and resubscribeAfterReconnect                                *)
(***************************************************************************)
\* startConsumer: the callback is registered before anything is awaited.
Subscribe ==
  /\ Quiet /\ task[Main].phase = "idle"
  /\ registered' = TRUE
  /\ Subscribing(Main)
  /\ UNCHANGED <<tick, stop, losses, slipped>>

\* The channel that was awaited has opened, though another may be cached by now.
ChannelReady(t) ==
  /\ t \in Ready
  /\ ensureConsumer(t, task[t].of)
  /\ UNCHANGED <<registered, tick, stop, losses, slipped>>

\* An attempt to re-subscribe, the first of them after those who awaited the
\* channel: a callback that is no longer registered is left alone.
Resubscribe(t) ==
  /\ \/ task[t].phase = "start" /\ Ready = {}
     \/ task[t].phase = "retry" /\ Quiet
  /\ IF registered THEN Subscribing(t)
     ELSE task' = [task EXCEPT ![t] = NoTask] /\ UNCHANGED <<conn, cons, active, superseded>>
  /\ UNCHANGED <<registered, tick, stop, losses, slipped>>

(***************************************************************************)
(* The broker                                                              *)
(***************************************************************************)
\* The channel opens: what awaits it goes on, and the callback is re-subscribed.
Opened(n) ==
  /\ Quiet /\ chan[n] = "opening"
  /\ chan' = [chan EXCEPT ![n] = "open"]
  /\ task' = IF registered THEN [task EXCEPT ![n].phase = "start"] ELSE task
  /\ tick' = [k \in Ticks |->
                IF tick[k].of # n THEN tick[k]
                ELSE IF tick[k].phase = "channel" THEN [tick[k] EXCEPT !.phase = "probe"] ELSE NoCall]
  /\ UNCHANGED <<current, read, stop, losses, slipped>>

Lose == losses < MaxLosses /\ losses' = losses + 1

\* The subscriptions that `broken` holds of are rejected.
Reject(broken(_)) == task' = [t \in Tasks |-> IF broken(t) THEN Rejected(t) ELSE task[t]]

\* Mutant: a rejected channel stays cached.
DropNever(n) == current

\* A rejected channel is dropped, unless another has taken its place.
Drop(n) == IF current = n THEN 0 ELSE current

Refused(n) ==
  /\ Quiet /\ chan[n] = "opening" /\ Lose
  /\ chan' = [chan EXCEPT ![n] = "refused"]
  /\ current' = Drop(n)
  /\ LET broken(t) == task[t].phase = "channel" /\ task[t].of = n IN Reject(broken)
  /\ tick' = [k \in Ticks |-> IF tick[k].of = n THEN NoCall ELSE tick[k]]
  /\ UNCHANGED <<read, stop, slipped>>

\* Consumes that fail take their entry back and reject those who await them.
ConsumesFail(asked) ==
  /\ cons' = [i \in Consumers |-> IF i \in asked THEN NoCons ELSE cons[i]]
  /\ active' = IF active \in asked THEN 0 ELSE active
  /\ superseded' = superseded \ asked
  /\ LET broken(t) == task[t].phase = "consume" /\ task[t].of \in asked IN Reject(broken)
  /\ stop' = IF stop.phase = "cancel" /\ stop.of \in asked
             THEN [NoCall EXCEPT !.phase = "done"] ELSE stop

\* The channel dies and its consumers with it, and consumes under way fail (an
\* error the broker answers a consume with closes its channel too); the driver
\* does not notice otherwise.
Lost(n) ==
  /\ Quiet /\ chan[n] = "open" /\ Lose
  /\ chan' = [chan EXCEPT ![n] = "closed"]
  /\ ConsumesFail({i \in Consumers : cons[i] = [st |-> "asked", ch |-> n]})
  /\ UNCHANGED <<current, registered, tick, slipped>>

\* A consume is answered, and those who await it are done.
Consumed(i) ==
  /\ Quiet /\ cons[i].st = "asked"
  /\ cons' = [cons EXCEPT ![i].st = "live"]
  /\ task' = [t \in Tasks |-> IF task[t].phase = "consume" /\ task[t].of = i
                              THEN Over(t) ELSE task[t]]
  /\ UNCHANGED <<conn, registered, active, superseded, tick, stop, losses, slipped>>

(***************************************************************************)
(* keepAlive, and publish, which opens the channel too                     *)
(***************************************************************************)
\* The interval runs from the first getChannel on.
KeepAlive(k) ==
  /\ Quiet /\ tick[k].phase = "idle" /\ task[Main].phase # "idle"
  /\ IF current = 0 THEN Connect(FreshChannel) ELSE UNCHANGED conn
  /\ tick' = [tick EXCEPT ![k] =
                [phase |-> IF chan'[current'] = "opening" THEN "channel" ELSE "probe",
                 of |-> current']]
  /\ UNCHANGED <<read, task, stop, losses, slipped>>

\* checkQueue is answered, or fails: whichever channel is cached by now is given
\* up, and a new one opened.
Probed(k) ==
  /\ Quiet /\ tick[k].phase = "probe"
  /\ IF chan[tick[k].of] = "open"
     THEN tick' = [tick EXCEPT ![k] = NoCall] /\ UNCHANGED conn
     ELSE /\ Connect(FreshChannel)
          /\ tick' = [tick EXCEPT ![k] = [phase |-> "reconnect", of |-> current']]
  /\ UNCHANGED <<read, task, stop, losses, slipped>>

Publish ==
  /\ Quiet /\ current = 0
  /\ Connect(FreshChannel)
  /\ UNCHANGED <<read, task, tick, stop, losses, slipped>>

(***************************************************************************)
(* Stopping the consumer                                                   *)
(***************************************************************************)
\* unsubscribe: deregister, and look the live consumer up.
Unsubscribe ==
  /\ Quiet /\ task[Main].phase = "done" /\ stop.phase = "idle"
  /\ registered' = FALSE
  /\ active' = 0
  /\ stop' = IF active = 0 THEN [NoCall EXCEPT !.phase = "done"]
             ELSE [phase |-> "cancel", of |-> active]
  /\ slipped' = \E t \in Tasks : task[t].phase = "channel"
  /\ UNCHANGED <<conn, cons, superseded, task, tick, losses>>

\* Its cancel waits for the consume; on a channel that is closed it is moot.
Cancelled(i) == cons' = [cons EXCEPT ![i] = NoCons]

Cancel ==
  /\ Quiet /\ stop.phase = "cancel" /\ cons[stop.of].st # "asked"
  /\ Cancelled(stop.of)
  /\ stop' = [NoCall EXCEPT !.phase = "done"]
  /\ UNCHANGED <<conn, registered, active, superseded, task, tick, losses, slipped>>

\* stopTaskErrors has no handle of a subscribe that was rejected.
StopWithout ==
  /\ Quiet /\ task[Main].phase = "failed" /\ stop.phase = "idle"
  /\ stop' = [NoCall EXCEPT !.phase = "done"]
  /\ UNCHANGED <<conn, read, task, tick, losses, slipped>>

\* The best-effort cancel of ensureConsumer.
CancelSuperseded(i) ==
  /\ Quiet /\ i \in superseded /\ cons[i].st # "asked"
  /\ Cancelled(i)
  /\ superseded' = superseded \ {i}
  /\ UNCHANGED <<conn, registered, active, task, tick, stop, losses, slipped>>

-----------------------------------------------------------------------------
DriverInit ==
  /\ chan = [n \in Channels |-> "none"] /\ current = 0
  /\ registered = FALSE /\ active = 0 /\ superseded = {}
  /\ cons = [i \in Consumers |-> NoCons]
  /\ task = [t \in Tasks |-> NoTask]
  /\ tick = [k \in Ticks |-> NoCall] /\ stop = NoCall
  /\ losses = 0 /\ slipped = FALSE

\* A callback that ends after its channel has closed can neither ack nor nack:
\* the rejection that nobody handles stops the worker, which is started again.
Restart ==
  /\ \E i \in Consumers : cons[i].st = "live" /\ chan[cons[i].ch] = "closed"
  /\ chan' = [n \in Channels |-> "none"] /\ current' = 0
  /\ registered' = FALSE /\ active' = 0 /\ superseded' = {}
  /\ cons' = [i \in Consumers |-> NoCons]
  /\ task' = [t \in Tasks |-> NoTask]
  /\ tick' = [k \in Ticks |-> NoCall] /\ stop' = NoCall
  /\ slipped' = FALSE
  /\ UNCHANGED losses

Subscriber(t) == ChannelReady(t) \/ Resubscribe(t)
Broker(n)     == Opened(n) \/ Refused(n)
Consumer(i)   == Consumed(i) \/ CancelSuperseded(i)
Prober(k)     == KeepAlive(k) \/ Probed(k)

DriverNext ==
  \/ Subscribe \/ Publish \/ Unsubscribe \/ Cancel \/ StopWithout \/ Restart
  \/ \E t \in Tasks : Subscriber(t)
  \/ \E n \in Channels : Broker(n) \/ Lost(n)
  \/ \E i \in Consumers : Consumer(i)
  \/ \E k \in Ticks : Prober(k)

DriverSpec == DriverInit /\ [][DriverNext]_driverVars

\* A connection is established or refused, the broker answers, awaits end, and
\* the interval goes on.
DriverFairSpec ==
  /\ DriverSpec
  /\ WF_driverVars(Subscribe)
  /\ \A t \in Tasks : WF_driverVars(Subscriber(t))
  /\ \A n \in Channels : WF_driverVars(Broker(n))
  /\ \A i \in Consumers : WF_driverVars(Consumer(i))
  /\ \A k \in Ticks : WF_driverVars(Prober(k))

-----------------------------------------------------------------------------
\* Type correctness: every await is of a channel or a consumer there is, no
\* channel that was refused is cached, and a consumer is asked for on a channel
\* that has opened.
DriverTypeOK ==
  /\ chan \in [Channels -> {"none", "opening", "refused", "open", "closed"}]
  /\ current \in {0} \cup Channels /\ active \in {0} \cup Consumers
  /\ current # 0 => chan[current] \in {"opening", "open", "closed"}
  /\ registered \in BOOLEAN /\ superseded \subseteq Consumers \ {active}
  /\ cons \in [Consumers -> {NoCons} \cup [st : {"asked", "live"}, ch : Channels]]
  /\ \A i \in Consumers : cons[i] # NoCons => chan[cons[i].ch] \in {"open", "closed"}
  /\ task \in [Tasks -> [phase : {"idle", "channel", "consume", "start", "retry", "done", "failed"},
                         of : {0} \cup Channels \cup Consumers, tries : 0..MaxRetries]]
  /\ \A t \in Tasks : /\ task[t].phase = "channel" => task[t].of \in Channels
                      /\ task[t].phase = "consume" => task[t].of \in Consumers
                      /\ task[t].phase \in {"done", "failed"} => t = Main
                      /\ task[t].phase \in {"start", "retry"} => t # Main
  /\ tick \in [Ticks -> {NoCall} \cup [phase : {"channel", "probe", "reconnect"}, of : Channels]]
  /\ stop \in {NoCall, [NoCall EXCEPT !.phase = "done"]} \cup [phase : {"cancel"}, of : Consumers]
  /\ losses \in 0..MaxLosses /\ slipped \in BOOLEAN

\* No consumer delivers behind the driver's back: one that the broker serves is
\* entered for a callback that is registered, so that unsubscribe finds it, or
\* it is about to be cancelled.  Two subscriptions that race for a channel, a
\* channel that is replaced and an unsubscribe during a retry leave no other;
\* only one that finds a re-subscription waiting for its channel does.
NoStrayConsumer ==
  \A i \in Consumers :
    Serving(i) => \/ i = active /\ registered
                  \/ i \in superseded
                  \/ stop.phase = "cancel" /\ i = stop.of
                  \/ slipped

\* A queue is not left without a reader: as long as the callback is registered,
\* whatever was refused or lost, a consumer of its own delivers again.
ReaderReturns == registered ~> (Reading \/ ~registered)

=============================================================================
