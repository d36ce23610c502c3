------------------------------- MODULE Broker -------------------------------
(***************************************************************************)
(* The event broker (pubsub/broker.go): Subscribe with the goroutine it    *)
(* starts, Publish, Shutdown, and the subscribers that read their          *)
(* channels.  A critical section of b.mu is one action; what happens       *)
(* outside it, closing done and sending to the copied subscribers one by   *)
(* one, is split.  Closing a closed channel and sending on one panics; the *)
(* panic ends the goroutine that caused it (agent.Run recovers from it).   *)
(***************************************************************************)
EXTENDS Integers, Sequences, FiniteSets

CONSTANTS
    Subs,           \* the calls of Subscribe
    Pubs,           \* the goroutines that publish
    Downs,          \* the calls of Shutdown
    bufferSize,     \* capacity of a subscriber's channel
    MaxEvents       \* bound: how many events each publisher publishes

ASSUME BoundAssumption == bufferSize \in Nat \ {0} /\ MaxEvents \in [Pubs -> Nat]
ASSUME RolesAssumption == Pubs \cap (Subs \cup Downs) = {}

VARIABLES
    subs,       \* b.subs
    subCount,   \* b.subCount
    done,       \* is b.done closed?
    chan,       \* each subscriber's channel: "none", "open" or "closed"
    buf,        \* what lies in it
    got,        \* what its subscriber has read from it
    watch,      \* the goroutine of Subscribe: "off", "on" or "over"
    ctxDone,    \* is the context given to Subscribe done?
    nr,         \* how many events each publisher has published
    todo,       \* the copied subscribers it still has to send the last one to
    down,       \* where each call of Shutdown stands
    panics      \* who panicked, and on which kind of channel

vars == <<subs, subCount, done, chan, buf, got, watch, ctxDone, nr, todo, down, panics>>

readers == <<buf, got>>
others  == <<nr, todo, down>>

Event == UNION {[by : {p}, nr : 1..MaxEvents[p]] : p \in Pubs}

TypeOK ==
    /\ subs \subseteq Subs
    /\ subCount \in Int
    /\ done \in BOOLEAN
    /\ chan \in [Subs -> {"none", "open", "closed"}]
    /\ buf \in [Subs -> Seq(Event)] /\ \A s \in Subs : Len(buf[s]) <= bufferSize
    /\ got \in [Subs -> Seq(Event)]
    /\ watch \in [Subs -> {"off", "on", "over"}]
    /\ ctxDone \in [Subs -> BOOLEAN]
    /\ nr \in [Pubs -> Nat] /\ \A p \in Pubs : nr[p] <= MaxEvents[p]
    /\ todo \in [Pubs -> SUBSET Subs]
    /\ down \in [Downs -> {"new", "found", "signalled", "swept", "returned"}]
    /\ panics \subseteq (Subs \cup Pubs \cup Downs) \X {"sub", "done"}

Init ==
    /\ subs = {} /\ subCount = 0 /\ done = FALSE
    /\ chan = [s \in Subs |-> "none"]
    /\ buf = [s \in Subs |-> <<>>]
    /\ got = [s \in Subs |-> <<>>]
    /\ watch = [s \in Subs |-> "off"]
    /\ ctxDone = [s \in Subs |-> FALSE]
    /\ nr = [p \in Pubs |-> 0]
    /\ todo = [p \in Pubs |-> {}]
    /\ down = [d \in Downs |-> "new"]
    /\ panics = {}

-----------------------------------------------------------------------------
\* Variant: done is not looked at.
SubscribeAnyway(s) ==
    /\ chan[s] = "none"
    /\ chan' = [chan EXCEPT ![s] = "open"]
    /\ subs' = subs \cup {s}
    /\ subCount' = subCount + 1
    /\ watch' = [watch EXCEPT ![s] = "on"]
    /\ UNCHANGED <<done, ctxDone, panics, readers, others>>

Subscribe(s) ==
    /\ chan[s] = "none" /\ ~done
    /\ chan' = [chan EXCEPT ![s] = "open"]
    /\ subs' = subs \cup {s}
    /\ subCount' = subCount + 1
    /\ watch' = [watch EXCEPT ![s] = "on"]
    /\ UNCHANGED <<done, ctxDone, panics, readers, others>>

\* The broker is shut down, or shutting down: the channel comes closed.
SubscribeLate(s) ==
    /\ chan[s] = "none" /\ done
    /\ chan' = [chan EXCEPT ![s] = "closed"]
    /\ UNCHANGED <<subs, subCount, done, watch, ctxDone, panics, readers, others>>

CancelContext(s) ==
    /\ watch[s] = "on" /\ ~ctxDone[s]
    /\ ctxDone' = [ctxDone EXCEPT ![s] = TRUE]
    /\ UNCHANGED <<subs, subCount, done, chan, watch, panics, readers, others>>

Remove(s) ==
    /\ watch' = [watch EXCEPT ![s] = "over"]
    /\ subs' = subs \ {s}
    /\ IF chan[s] = "closed"
       THEN panics' = panics \cup {<<s, "sub">>} /\ UNCHANGED <<chan, subCount>>
       ELSE /\ chan' = [chan EXCEPT ![s] = "closed"]
            /\ subCount' = subCount - 1
            /\ UNCHANGED panics
    /\ UNCHANGED <<done, ctxDone, readers, others>>

\* Variant: done is not looked at.
UnsubscribeAnyway(s) == watch[s] = "on" /\ ctxDone[s] /\ Remove(s)

\* The goroutine of Subscribe, once its context is done.
Unsubscribe(s) == watch[s] = "on" /\ ctxDone[s] /\ ~done /\ Remove(s)

\* Variant: the count goes down before done is looked at.
UnsubscribeLateCounts(s) ==
    /\ watch[s] = "on" /\ ctxDone[s] /\ done
    /\ watch' = [watch EXCEPT ![s] = "over"]
    /\ subCount' = subCount - 1
    /\ UNCHANGED <<subs, done, chan, ctxDone, panics, readers, others>>

\* Shutdown has the channel or will have it.
UnsubscribeLate(s) ==
    /\ watch[s] = "on" /\ ctxDone[s] /\ done
    /\ watch' = [watch EXCEPT ![s] = "over"]
    /\ UNCHANGED <<subs, subCount, done, chan, ctxDone, panics, readers, others>>

-----------------------------------------------------------------------------
\* The test of done and the close of done are outside the lock, and apart.
ShutdownCheck(d) ==
    /\ down[d] = "new"
    /\ down' = [down EXCEPT ![d] = IF done THEN "returned" ELSE "found"]
    /\ UNCHANGED <<subs, subCount, done, chan, watch, ctxDone, panics, readers, nr, todo>>

ShutdownSignal(d) ==
    /\ down[d] = "found"
    /\ IF done THEN /\ panics' = panics \cup {<<d, "done">>}
                    /\ down' = [down EXCEPT ![d] = "returned"]
                    /\ UNCHANGED done
       ELSE /\ done' = TRUE
            /\ down' = [down EXCEPT ![d] = "signalled"]
            /\ UNCHANGED panics
    /\ UNCHANGED <<subs, subCount, chan, watch, ctxDone, readers, nr, todo>>

\* Variant: the channels are forgotten, not closed.
ShutdownForgets(d) ==
    /\ down[d] = "signalled"
    /\ down' = [down EXCEPT ![d] = "swept"]
    /\ subs' = {} /\ subCount' = 0
    /\ UNCHANGED <<done, chan, watch, ctxDone, panics, readers, nr, todo>>

ShutdownSweep(d) ==
    /\ down[d] = "signalled"
    /\ down' = [down EXCEPT ![d] = "swept"]
    /\ IF \E s \in subs : chan[s] = "closed"
       THEN panics' = panics \cup {<<d, "sub">>} /\ UNCHANGED chan
       ELSE /\ chan' = [s \in Subs |-> IF s \in subs THEN "closed" ELSE chan[s]]
            /\ UNCHANGED panics
    /\ subs' = {} /\ subCount' = 0
    /\ UNCHANGED <<done, watch, ctxDone, readers, nr, todo>>

-----------------------------------------------------------------------------
\* The subscribers are copied under the read lock.
Publish(p) ==
    /\ <<p, "sub">> \notin panics /\ todo[p] = {} /\ nr[p] < MaxEvents[p]
    /\ nr' = [nr EXCEPT ![p] = @ + 1]
    /\ todo' = [todo EXCEPT ![p] = IF done THEN {} ELSE subs]
    /\ UNCHANGED <<subs, subCount, done, chan, watch, ctxDone, panics, readers, down>>

\* Variant: one event too many.
RoomForOneMore(s) == Len(buf[s]) <= bufferSize

Room(s) == Len(buf[s]) < bufferSize

Put(p, s) ==
    IF Room(s) THEN buf' = [buf EXCEPT ![s] = Append(@, [by |-> p, nr |-> nr[p]])]
               ELSE UNCHANGED buf

\* Variant: the subscriber stays among those to be sent to.
SendAgain(p, s) ==
    /\ s \in todo[p] /\ chan[s] = "open"
    /\ Put(p, s)
    /\ UNCHANGED <<subs, subCount, done, chan, got, watch, ctxDone, panics, nr, todo, down>>

\* One non-blocking send; a full channel is skipped, a closed one panics.
Send(p, s) ==
    /\ s \in todo[p]
    /\ IF chan[s] = "open"
       THEN /\ Put(p, s)
            /\ todo' = [todo EXCEPT ![p] = @ \ {s}]
            /\ UNCHANGED panics
       ELSE /\ panics' = panics \cup {<<p, "sub">>}
            /\ todo' = [todo EXCEPT ![p] = {}]
            /\ UNCHANGED buf
    /\ UNCHANGED <<subs, subCount, done, chan, got, watch, ctxDone, nr, down>>

\* A subscriber reads; what was buffered can still be read after the close.
Read(s) ==
    /\ buf[s] # <<>>
    /\ got' = [got EXCEPT ![s] = Append(@, Head(buf[s]))]
    /\ buf' = [buf EXCEPT ![s] = Tail(@)]
    /\ UNCHANGED <<subs, subCount, done, chan, watch, ctxDone, panics, others>>

-----------------------------------------------------------------------------
SubStep(s)  == Subscribe(s) \/ SubscribeLate(s) \/ Read(s) \/ CancelContext(s)
Watch(s)    == Unsubscribe(s) \/ UnsubscribeLate(s)
PubStep(p)  == Publish(p) \/ \E s \in Subs : Send(p, s)
DownStep(d) == ShutdownCheck(d) \/ ShutdownSignal(d) \/ ShutdownSweep(d)

Next ==
    \/ \E s \in Subs : SubStep(s) \/ Watch(s)
    \/ \E p \in Pubs : PubStep(p)
    \/ \E d \in Downs : DownStep(d)

Spec == Init /\ [][Next]_vars

\* Goroutines that can run do: those of Subscribe, and a Shutdown once begun.
FairSpec ==
    /\ Spec
    /\ \A s \in Subs : WF_vars(Watch(s))
    /\ \A d \in Downs : WF_vars(ShutdownSignal(d) \/ ShutdownSweep(d))

-----------------------------------------------------------------------------
(* What must hold.                                                         *)

\* subCount is what GetSubscriberCount reports: the number of channels that
\* are subscribed, and those are the open ones.  It takes the test of done in
\* the goroutine of Subscribe to keep a cancellation from counting a channel
\* that Shutdown has already taken.
CountMatches ==
    /\ subCount = Cardinality(subs)
    /\ subs = {s \in Subs : chan[s] = "open"}

\* No channel of a subscriber is closed twice, by its goroutine and by a
\* Shutdown (broker.go:43-46, 73-80).
ClosedOnce == \A x \in Subs \cup Downs : <<x, "sub">> \notin panics

\* Once a Shutdown has swept, no channel is open and none is opened again,
\* whatever Subscribe calls were waiting for the lock (broker.go:37-48, 55-60).
ShutdownIsFinal ==
    (\E d \in Downs : down[d] = "swept") => subs = {} /\ \A s \in Subs : chan[s] # "open"

Stream == INSTANCE EventStream WITH
              phase  <- chan,
              stream <- [s \in Subs |-> got[s] \o buf[s]]

\* Each subscriber sees a stream as EventStream promises it: closed at most
\* once, nothing in it after that, the events of one publisher in order.
ImplementsStream == Stream!Spec

\* A subscriber whose context is done, or whose broker is being shut down,
\* gets its channel closed: its reader ends.
SubscriberReleased ==
    \A s \in Subs : chan[s] = "open" /\ (ctxDone[s] \/ done) ~> chan[s] = "closed"
=============================================================================
