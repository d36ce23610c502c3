---------------------------- MODULE BrokerProofs ----------------------------
(***************************************************************************)
(* Proofs about Broker, for any subscribers, publishers and shutdowns.     *)
(*                                                                         *)
(* The count, the set of subscribers and the state of their channels move  *)
(* in step because whoever takes a subscriber out, its goroutine or a      *)
(* Shutdown, closes its channel in the same critical section, and because  *)
(* a goroutine that finds done closed leaves its channel to the Shutdown:  *)
(* as long as done is open, a waiting goroutine's channel is subscribed.   *)
(***************************************************************************)
EXTENDS Broker, FiniteSetTheorems, SequenceTheorems, TLAPS

CoreType ==
    /\ chan \in [Subs -> {"none", "open", "closed"}]
    /\ watch \in [Subs -> {"off", "on", "over"}]
    /\ down \in [Downs -> {"new", "found", "signalled", "swept", "returned"}]
    /\ done \in BOOLEAN

OpenIsSubscribed == subs = {s \in Subs : chan[s] = "open"}
CountedFinite    == IsFiniteSet(subs) /\ subCount = Cardinality(subs)
WatchedIsOpen    == ~done => \A s \in Subs : watch[s] = "on" => chan[s] = "open"
SignalledIsDone  == \A d \in Downs : down[d] \in {"signalled", "swept"} => done
SweptIsEmpty     == (\E d \in Downs : down[d] = "swept") => subs = {}

IInv ==
    /\ CoreType
    /\ OpenIsSubscribed
    /\ CountedFinite
    /\ WatchedIsOpen
    /\ SignalledIsDone
    /\ SweptIsEmpty
    /\ ClosedOnce

USE DEF readers, others

LEMMA InitInv == Init => IInv
<1> SUFFICES ASSUME Init PROVE IInv
  OBVIOUS
<1>1. CountedFinite
  BY FS_EmptySet DEF Init, CountedFinite
<1>2. CoreType /\ OpenIsSubscribed /\ WatchedIsOpen
  BY DEF Init, CoreType, OpenIsSubscribed, WatchedIsOpen
<1>3. SignalledIsDone /\ SweptIsEmpty /\ ClosedOnce
  BY DEF Init, SignalledIsDone, SweptIsEmpty, ClosedOnce
<1> QED BY <1>1, <1>2, <1>3 DEF IInv

\* A panic on another kind of channel, or of another goroutine, is not this one.
LEMMA PanicsApart ==
    ASSUME NEW x, NEW y, NEW a, NEW b, a # b
    PROVE  <<x, a>> # <<y, b>> /\ <<a, x>> # <<b, y>>
OBVIOUS

\* What IInv looks at does not change.
LEMMA StillInv ==
    ASSUME IInv, UNCHANGED <<subs, subCount, done, chan, watch, down, panics>>
    PROVE  IInv'
<1>1. CoreType' /\ OpenIsSubscribed' /\ WatchedIsOpen'
  BY DEF IInv, CoreType, OpenIsSubscribed, WatchedIsOpen
<1>2. CountedFinite' /\ ClosedOnce'
  BY DEF IInv, CountedFinite, ClosedOnce
<1>3. SignalledIsDone' /\ SweptIsEmpty'
  BY DEF IInv, SignalledIsDone, SweptIsEmpty
<1> QED BY <1>1, <1>2, <1>3 DEF IInv

LEMMA SubscribeInv ==
    ASSUME IInv, NEW s \in Subs, Subscribe(s)
    PROVE  IInv'
<1>1. CountedFinite'
  <2>1. s \notin subs
    BY DEF Subscribe, IInv, OpenIsSubscribed
  <2>2. IsFiniteSet(subs \cup {s}) /\ Cardinality(subs \cup {s}) = Cardinality(subs) + 1
    BY <2>1, FS_AddElement DEF IInv, CountedFinite
  <2> QED BY <2>2 DEF Subscribe, IInv, CountedFinite
<1>2. CoreType' /\ OpenIsSubscribed' /\ WatchedIsOpen'
  BY DEF Subscribe, IInv, CoreType, OpenIsSubscribed, WatchedIsOpen
<1>3. SignalledIsDone' /\ SweptIsEmpty' /\ ClosedOnce'
  BY DEF Subscribe, IInv, CoreType, SignalledIsDone, SweptIsEmpty, ClosedOnce
<1> QED BY <1>1, <1>2, <1>3 DEF IInv

LEMMA SubscribeLateInv ==
    ASSUME IInv, NEW s \in Subs, SubscribeLate(s)
    PROVE  IInv'
<1>1. CoreType' /\ OpenIsSubscribed' /\ WatchedIsOpen'
  BY DEF SubscribeLate, IInv, CoreType, OpenIsSubscribed, WatchedIsOpen
<1>2. CountedFinite' /\ SignalledIsDone' /\ SweptIsEmpty' /\ ClosedOnce'
  BY DEF SubscribeLate, IInv, CountedFinite, SignalledIsDone, SweptIsEmpty, ClosedOnce
<1> QED BY <1>1, <1>2 DEF IInv

LEMMA UnsubscribeInv ==
    ASSUME IInv, NEW s \in Subs, Unsubscribe(s)
    PROVE  IInv'
<1>1. chan[s] = "open" /\ s \in subs
  BY DEF Unsubscribe, IInv, WatchedIsOpen, OpenIsSubscribed
<1>2. /\ chan' = [chan EXCEPT ![s] = "closed"]
      /\ watch' = [watch EXCEPT ![s] = "over"]
      /\ subs' = subs \ {s} /\ subCount' = subCount - 1
      /\ UNCHANGED <<done, down, panics>>
  BY <1>1 DEF Unsubscribe, Remove
<1>3. CountedFinite'
  BY <1>1, <1>2, FS_RemoveElement DEF IInv, CountedFinite
<1>4. CoreType' /\ OpenIsSubscribed' /\ WatchedIsOpen'
  BY <1>2 DEF IInv, CoreType, OpenIsSubscribed, WatchedIsOpen
<1>5. SignalledIsDone' /\ SweptIsEmpty' /\ ClosedOnce'
  BY <1>2 DEF IInv, SignalledIsDone, SweptIsEmpty, ClosedOnce
<1> QED BY <1>3, <1>4, <1>5 DEF IInv

LEMMA UnsubscribeLateInv ==
    ASSUME IInv, NEW s \in Subs, UnsubscribeLate(s)
    PROVE  IInv'
BY DEF UnsubscribeLate, IInv, CoreType, OpenIsSubscribed, CountedFinite, WatchedIsOpen,
       SignalledIsDone, SweptIsEmpty, ClosedOnce

LEMMA ShutdownInv ==
    ASSUME IInv, NEW d \in Downs, DownStep(d)
    PROVE  IInv'
<1>1. CASE ShutdownCheck(d)
  BY <1>1 DEF ShutdownCheck, IInv, CoreType, OpenIsSubscribed, CountedFinite,
              WatchedIsOpen, SignalledIsDone, SweptIsEmpty, ClosedOnce
<1>2. CASE ShutdownSignal(d)
  <2>1. CoreType' /\ OpenIsSubscribed' /\ CountedFinite'
    BY <1>2 DEF ShutdownSignal, IInv, CoreType, OpenIsSubscribed, CountedFinite
  <2>2. WatchedIsOpen' /\ SignalledIsDone' /\ SweptIsEmpty'
    BY <1>2 DEF ShutdownSignal, IInv, CoreType, WatchedIsOpen, SignalledIsDone, SweptIsEmpty
  <2>3. ClosedOnce'
    <3>1. SUFFICES ASSUME NEW x \in Subs \cup Downs PROVE <<x, "sub">> \notin panics'
      BY DEF ClosedOnce
    <3>2. <<x, "sub">> # <<d, "done">> /\ <<x, "sub">> \notin panics
      BY PanicsApart DEF IInv, ClosedOnce
    <3>3. panics' \subseteq panics \cup {<<d, "done">>}
      BY <1>2 DEF ShutdownSignal
    <3> QED BY <3>2, <3>3
  <2> QED BY <2>1, <2>2, <2>3 DEF IInv
<1>3. CASE ShutdownSweep(d)
  <2>1. /\ chan' = [s \in Subs |-> IF s \in subs THEN "closed" ELSE chan[s]]
        /\ UNCHANGED <<panics, done, watch>>
        /\ subs' = {} /\ subCount' = 0
        /\ down[d] = "signalled" /\ down' = [down EXCEPT ![d] = "swept"]
    BY <1>3 DEF ShutdownSweep, IInv, OpenIsSubscribed
  <2>2. CoreType' /\ OpenIsSubscribed'
    BY <2>1 DEF IInv, CoreType, OpenIsSubscribed
  <2>3. CountedFinite'
    BY <2>1, FS_EmptySet DEF CountedFinite
  <2>4. WatchedIsOpen' /\ SignalledIsDone' /\ SweptIsEmpty' /\ ClosedOnce'
    BY <2>1 DEF IInv, CoreType, WatchedIsOpen, SignalledIsDone, SweptIsEmpty, ClosedOnce
  <2> QED BY <2>2, <2>3, <2>4 DEF IInv
<1> QED BY <1>1, <1>2, <1>3 DEF DownStep

LEMMA PublisherInv ==
    ASSUME IInv, NEW p \in Pubs, PubStep(p)
    PROVE  IInv'
<1>1. CASE Publish(p)
  BY <1>1, StillInv DEF Publish
<1>2. ASSUME NEW s \in Subs, Send(p, s)
      PROVE  IInv'
  <2>1. UNCHANGED <<subs, subCount, done, chan, watch, down>>
    BY <1>2 DEF Send
  <2>2. ClosedOnce'
    <3>1. SUFFICES ASSUME NEW x \in Subs \cup Downs PROVE <<x, "sub">> \notin panics'
      BY DEF ClosedOnce
    <3>2. x # p /\ <<x, "sub">> \notin panics
      BY RolesAssumption DEF IInv, ClosedOnce
    <3>3. panics' \subseteq panics \cup {<<p, "sub">>}
      BY <1>2 DEF Send
    <3> QED BY <3>2, <3>3, PanicsApart
  <2> QED BY <2>1, <2>2 DEF IInv, CoreType, OpenIsSubscribed, CountedFinite, WatchedIsOpen,
                            SignalledIsDone, SweptIsEmpty
<1> QED BY <1>1, <1>2 DEF PubStep

LEMMA NextInv == IInv /\ [Next]_vars => IInv'
<1> SUFFICES ASSUME IInv, [Next]_vars PROVE IInv'
  OBVIOUS
<1>1. ASSUME NEW s \in Subs, Read(s) \/ CancelContext(s)
      PROVE  IInv'
  BY <1>1, StillInv DEF Read, CancelContext
<1>2. CASE UNCHANGED vars
  BY <1>2, StillInv DEF vars
<1> QED BY <1>1, <1>2, SubscribeInv, SubscribeLateInv, UnsubscribeInv,
           UnsubscribeLateInv, ShutdownInv, PublisherInv
        DEF Next, SubStep, Watch

LEMMA Invariance == Spec => []IInv
BY InitInv, NextInv, PTL DEF Spec

\* GetSubscriberCount reports the number of open channels, whatever
\* cancellations and shutdowns overlap.
THEOREM CountCorrect == Spec => []CountMatches
<1>1. IInv => CountMatches
  BY DEF IInv, CountMatches, CountedFinite, OpenIsSubscribed
<1> QED BY <1>1, Invariance, PTL

\* Neither a goroutine of Subscribe nor a Shutdown ever closes a subscriber's
\* channel that is closed.
THEOREM NeverClosedTwice == Spec => []ClosedOnce
BY Invariance, PTL DEF IInv

\* After a Shutdown no subscriber's channel is open, then or later.
THEOREM FinalShutdown == Spec => []ShutdownIsFinal
<1>1. IInv => ShutdownIsFinal
  BY DEF IInv, ShutdownIsFinal, SweptIsEmpty, OpenIsSubscribed
<1> QED BY <1>1, Invariance, PTL

-----------------------------------------------------------------------------
(* The streams.                                                            *)

\* TypeOK, in parts that the provers take one at a time.
ChanType ==
    /\ subs \subseteq Subs /\ subCount \in Int /\ done \in BOOLEAN
    /\ chan \in [Subs -> {"none", "open", "closed"}]
    /\ watch \in [Subs -> {"off", "on", "over"}]
    /\ ctxDone \in [Subs -> BOOLEAN]
    /\ down \in [Downs -> {"new", "found", "signalled", "swept", "returned"}]

BufType ==
    /\ buf \in [Subs -> Seq(Event)] /\ \A s \in Subs : Len(buf[s]) <= bufferSize
    /\ got \in [Subs -> Seq(Event)]

PubType ==
    /\ nr \in [Pubs -> Nat] /\ \A p \in Pubs : nr[p] <= MaxEvents[p]
    /\ todo \in [Pubs -> SUBSET Subs]

\* A publisher that is sending has an event to send.
SendingHasEvent == \A p \in Pubs : todo[p] # {} => nr[p] > 0

PanicType == panics \subseteq (Subs \cup Pubs \cup Downs) \X {"sub", "done"}

LEMMA TypeParts == TypeOK <=> ChanType /\ BufType /\ PubType /\ PanicType
BY DEF TypeOK, ChanType, BufType, PubType, PanicType

LEMMA ChanNext == ASSUME ChanType, [Next]_vars PROVE ChanType'
<1>1. ASSUME NEW s \in Subs, Subscribe(s) \/ SubscribeLate(s) PROVE ChanType'
  BY <1>1 DEF ChanType, Subscribe, SubscribeLate
<1>2. ASSUME NEW s \in Subs, Unsubscribe(s) \/ UnsubscribeLate(s) PROVE ChanType'
  BY <1>2 DEF ChanType, Unsubscribe, Remove, UnsubscribeLate
<1>3. ASSUME NEW s \in Subs, CancelContext(s) PROVE ChanType'
  BY <1>3 DEF ChanType, CancelContext
<1>4. ASSUME NEW d \in Downs, ShutdownCheck(d) \/ ShutdownSignal(d) PROVE ChanType'
  BY <1>4 DEF ChanType, ShutdownCheck, ShutdownSignal
<1>5. ASSUME NEW d \in Downs, ShutdownSweep(d) PROVE ChanType'
  BY <1>5 DEF ChanType, ShutdownSweep
<1>6. CASE UNCHANGED <<subs, subCount, done, chan, watch, ctxDone, down>>
  BY <1>6 DEF ChanType
<1> QED BY <1>1, <1>2, <1>3, <1>4, <1>5, <1>6
        DEF Next, SubStep, Watch, PubStep, DownStep, Read, Publish, Send, vars

LEMMA BufNext == ASSUME BufType, PubType, SendingHasEvent, [Next]_vars PROVE BufType'
<1>1. ASSUME NEW s \in Subs, Read(s) PROVE BufType'
  <2>1. /\ Head(buf[s]) \in Event /\ Tail(buf[s]) \in Seq(Event)
        /\ Len(Tail(buf[s])) <= bufferSize
    BY <1>1, BoundAssumption DEF BufType, Read
  <2> QED BY <1>1, <2>1 DEF BufType, Read
<1>2. ASSUME NEW p \in Pubs, NEW s \in Subs, Put(p, s), got' = got,
             [by |-> p, nr |-> nr[p]] \in Event
      PROVE  BufType'
  <2> DEFINE e == [by |-> p, nr |-> nr[p]]
  <2>1. e \in Event
    BY <1>2
  <2>2. CASE ~Room(s)
    BY <1>2, <2>2 DEF BufType, Put
  <2>3. CASE Room(s)
    <3>1. buf' = [buf EXCEPT ![s] = Append(buf[s], e)]
      BY <1>2, <2>3 DEF Put
    <3> HIDE DEF e
    <3>2. /\ Append(buf[s], e) \in Seq(Event)
          /\ Len(Append(buf[s], e)) <= bufferSize
      BY <2>1, <2>3, BoundAssumption DEF BufType, Room
    <3> QED BY <1>2, <3>1, <3>2 DEF BufType
  <2> QED BY <2>2, <2>3
<1>3. CASE UNCHANGED <<buf, got>>
  BY <1>3 DEF BufType
<1>4. ASSUME NEW p \in Pubs, NEW s \in Subs, Send(p, s) PROVE BufType'
  <2>1. nr[p] \in 1..MaxEvents[p]
    BY <1>4, BoundAssumption DEF PubType, SendingHasEvent, Send
  <2>2. [by |-> p, nr |-> nr[p]] \in Event
    BY <2>1 DEF Event
  <2>3. UNCHANGED <<buf, got>> \/ (Put(p, s) /\ got' = got)
    BY <1>4 DEF Send
  <2> QED BY <1>2, <1>3, <2>2, <2>3
<1> QED BY <1>1, <1>3, <1>4
        DEF Next, SubStep, Watch, PubStep, DownStep, Subscribe, SubscribeLate, CancelContext,
            Unsubscribe, Remove, UnsubscribeLate, ShutdownCheck, ShutdownSignal, ShutdownSweep,
            Publish, vars

LEMMA PubNext ==
    ASSUME ChanType, PubType, SendingHasEvent, [Next]_vars
    PROVE  PubType' /\ SendingHasEvent'
<1>1. ASSUME NEW p \in Pubs, Publish(p) PROVE PubType' /\ SendingHasEvent'
  <2>1. /\ nr[p] \in Nat /\ nr[p] < MaxEvents[p] /\ MaxEvents[p] \in Nat
        /\ nr' = [nr EXCEPT ![p] = nr[p] + 1]
        /\ \E T \in SUBSET Subs : todo' = [todo EXCEPT ![p] = T]
    BY <1>1, BoundAssumption DEF ChanType, PubType, Publish
  <2>2. /\ nr[p] + 1 \in Nat /\ nr[p] + 1 <= MaxEvents[p] /\ nr[p] + 1 > 0
    BY <2>1
  <2> QED BY <2>1, <2>2 DEF PubType, SendingHasEvent
<1>2. ASSUME NEW p \in Pubs, NEW s \in Subs, Send(p, s) PROVE PubType' /\ SendingHasEvent'
  BY <1>2 DEF PubType, SendingHasEvent, Send
<1>3. CASE UNCHANGED <<nr, todo>>
  BY <1>3 DEF PubType, SendingHasEvent
<1> QED BY <1>1, <1>2, <1>3
        DEF Next, SubStep, Watch, PubStep, DownStep, Read, Subscribe, SubscribeLate, CancelContext,
            Unsubscribe, Remove, UnsubscribeLate, ShutdownCheck, ShutdownSignal, ShutdownSweep,
            vars

LEMMA PanicNext == ASSUME PanicType, [Next]_vars PROVE PanicType'
<1>1. ASSUME NEW x \in Subs \cup Pubs \cup Downs, NEW k \in {"sub", "done"},
             panics' = panics \/ panics' = panics \cup {<<x, k>>}
      PROVE  PanicType'
  BY <1>1 DEF PanicType
<1>2. \/ panics' = panics
      \/ \E x \in Subs \cup Pubs \cup Downs, k \in {"sub", "done"} : panics' = panics \cup {<<x, k>>}
  BY DEF Next, SubStep, Watch, PubStep, DownStep, Read, Subscribe, SubscribeLate, CancelContext,
         Unsubscribe, Remove, UnsubscribeLate, ShutdownCheck, ShutdownSignal, ShutdownSweep,
         Publish, Send, vars
<1> QED BY <1>1, <1>2 DEF PanicType

Typed == TypeOK /\ SendingHasEvent

LEMMA TypeNext == Typed /\ [Next]_vars => Typed'
<1> SUFFICES ASSUME Typed, [Next]_vars PROVE Typed'
  OBVIOUS
<1>1. ChanType /\ BufType /\ PubType /\ PanicType /\ SendingHasEvent
  BY TypeParts DEF Typed
<1>2. ChanType' /\ BufType' /\ PubType' /\ PanicType' /\ SendingHasEvent'
  BY <1>1, ChanNext, BufNext, PubNext, PanicNext
<1>3. TypeOK'
  BY <1>2 DEF TypeOK, ChanType, BufType, PubType, PanicType
<1> QED BY <1>2, <1>3 DEF Typed

LEMMA TypeInit == Init => Typed
<1> SUFFICES ASSUME Init PROVE Typed
  OBVIOUS
<1>1. ChanType /\ PanicType
  <2>1. subs \subseteq Subs /\ subCount \in Int /\ panics = {}
    BY DEF Init
  <2>4. done \in BOOLEAN
    BY DEF Init
  <2>2. /\ chan \in [Subs -> {"none", "open", "closed"}]
        /\ watch \in [Subs -> {"off", "on", "over"}]
        /\ ctxDone \in [Subs -> BOOLEAN]
    BY DEF Init
  <2>3. down \in [Downs -> {"new", "found", "signalled", "swept", "returned"}]
    BY DEF Init
  <2> QED BY <2>1, <2>2, <2>3, <2>4 DEF ChanType, PanicType
<1>2. BufType
  BY BoundAssumption DEF Init, BufType
<1>3. PubType /\ SendingHasEvent
  <2>1. \A p \in Pubs : MaxEvents[p] \in Nat /\ nr[p] = 0 /\ todo[p] = {}
    BY BoundAssumption DEF Init
  <2>2. nr \in [Pubs -> Nat] /\ todo \in [Pubs -> SUBSET Subs]
    BY DEF Init
  <2> QED BY <2>1, <2>2 DEF PubType, SendingHasEvent
<1> QED BY <1>1, <1>2, <1>3, TypeParts DEF Typed

\* A channel never holds more than it has room for, no publisher goes beyond
\* its events, and every variable keeps its type.
THEOREM BrokerTyped == Spec => []TypeOK
<1>1. Typed => TypeOK
  BY DEF Typed
<1> QED BY <1>1, TypeInit, TypeNext, PTL DEF Spec

LEMMA HeadMoves ==
    ASSUME NEW S, NEW a \in Seq(S), NEW b \in Seq(S), b # <<>>
    PROVE  Append(a, Head(b)) \o Tail(b) = a \o b
<1> DEFINE h == Head(b)
           r == Tail(b)
<1>1. h \in S /\ r \in Seq(S) /\ <<h>> \in Seq(S) /\ Append(a, h) = a \o <<h>>
  BY HeadTailProperties, AppendIsConcat
<1>2. <<h>> \o r = b
  <2>1. /\ Len(b) \in Nat /\ Len(r) = Len(b) - 1 /\ h = b[1]
        /\ \A i \in 1..Len(r) : r[i] = b[i + 1]
    BY HeadTailProperties, LenProperties
  <2> HIDE DEF h, r
  <2>2. Len(<<h>>) = 1 /\ <<h>>[1] = h
    OBVIOUS
  <2>3. /\ <<h>> \o r \in Seq(S) /\ Len(<<h>> \o r) = Len(b)
        /\ \A i \in 1..Len(b) : (<<h>> \o r)[i] = IF i <= 1 THEN <<h>>[i] ELSE r[i - 1]
    BY <1>1, <2>1, <2>2, ConcatProperties
  <2>4. ASSUME NEW i \in 1..Len(b) PROVE (<<h>> \o r)[i] = b[i]
    <3>1. CASE i = 1
      BY <2>1, <2>2, <2>3, <3>1
    <3>2. CASE i # 1
      <4>1. i - 1 \in 1..Len(r) /\ ~(i <= 1) /\ (i - 1) + 1 = i
        BY <2>1, <3>2
      <4>2. (<<h>> \o r)[i] = r[i - 1]
        BY <2>3, <4>1
      <4> QED BY <2>1, <4>1, <4>2
    <3> QED BY <3>1, <3>2
  <2> QED BY <2>3, <2>4, SeqEqual
<1> HIDE DEF h, r
<1>3. (a \o <<h>>) \o r = a \o (<<h>> \o r)
  BY <1>1, ConcatAssociative
<1> QED BY <1>1, <1>2, <1>3 DEF h, r

LEMMA AppendInside ==
    ASSUME NEW S, NEW a \in Seq(S), NEW b \in Seq(S), NEW e \in S
    PROVE  a \o Append(b, e) = Append(a \o b, e)
<1>1. <<e>> \in Seq(S) /\ a \o b \in Seq(S)
  BY ConcatProperties
<1>2. Append(b, e) = b \o <<e>> /\ Append(a \o b, e) = (a \o b) \o <<e>>
  BY <1>1, AppendIsConcat
<1>3. (a \o b) \o <<e>> = a \o (b \o <<e>>)
  BY <1>1, ConcatAssociative
<1> QED BY <1>2, <1>3

\* Everything that ever went into a subscriber's channel.
Sent(s) == got[s] \o buf[s]

\* Of a publisher's events a stream has only published ones, and while the
\* subscriber is among those it still has to send to, not the last one.
Published ==
    \A s \in Subs : \A i \in DOMAIN Sent(s) :
        LET e == Sent(s)[i] IN
        /\ e.by \in Pubs /\ e.nr <= nr[e.by]
        /\ s \in todo[e.by] => e.nr < nr[e.by]

StreamInv == Typed /\ Published

LEMMA SentType ==
    ASSUME TypeOK, NEW s \in Subs
    PROVE  /\ Sent(s) \in Seq(Event) /\ Len(Sent(s)) \in Nat
           /\ \A i \in DOMAIN Sent(s) : Sent(s)[i].by \in Pubs /\ Sent(s)[i].nr \in Nat
<1>1. got[s] \in Seq(Event) /\ buf[s] \in Seq(Event)
  BY DEF TypeOK
<1>2. Sent(s) \in Seq(Event)
  BY <1>1 DEF Sent
<1>3. \A e \in Event : e.by \in Pubs /\ e.nr \in Nat
  BY BoundAssumption DEF Event
<1>4. \A i \in DOMAIN Sent(s) : Sent(s)[i] \in Event
  BY <1>2, LenProperties
<1> QED BY <1>2, <1>3, <1>4, LenProperties

\* Reading moves an event from one part of the stream to the other.
LEMMA ReadSame ==
    ASSUME TypeOK, NEW s \in Subs, Read(s), NEW x \in Subs
    PROVE  Sent(x)' = Sent(x)
<1>1. got[s] \in Seq(Event) /\ buf[s] \in Seq(Event) /\ buf[s] # <<>>
  BY DEF TypeOK, Read
<1>2. Append(got[s], Head(buf[s])) \o Tail(buf[s]) = got[s] \o buf[s]
  BY <1>1, HeadMoves
<1>3. CASE x = s
  <2>1. got'[s] = Append(got[s], Head(buf[s])) /\ buf'[s] = Tail(buf[s])
    BY DEF TypeOK, Read
  <2> QED BY <1>2, <1>3, <2>1 DEF Sent
<1>4. CASE x # s
  BY <1>4 DEF TypeOK, Read, Sent
<1> QED BY <1>3, <1>4

\* Sending adds at the end, when there is room.
LEMMA SendAdds ==
    ASSUME Typed, NEW p \in Pubs, NEW s \in Subs, Send(p, s), chan[s] = "open", Room(s)
    PROVE  /\ [by |-> p, nr |-> nr[p]] \in Event
           /\ Sent(s)' = Append(Sent(s), [by |-> p, nr |-> nr[p]])
           /\ \A x \in Subs : x # s => Sent(x)' = Sent(x)
<1> DEFINE e == [by |-> p, nr |-> nr[p]]
<1>1. got[s] \in Seq(Event) /\ buf[s] \in Seq(Event)
  BY DEF Typed, TypeOK
<1>2. got' = got /\ buf'[s] = Append(buf[s], e) /\ \A x \in Subs : x # s => buf'[x] = buf[x]
  BY DEF Typed, TypeOK, Send, Put
<1>0. e \in Event
  <2>1. PubType /\ SendingHasEvent /\ s \in todo[p]
    BY TypeParts DEF Typed, Send
  <2>2. nr[p] \in 1..MaxEvents[p]
    BY <2>1, BoundAssumption DEF PubType, SendingHasEvent
  <2> QED BY <2>2 DEF Event
<1> HIDE DEF e
<1>3. got[s] \o Append(buf[s], e) = Append(got[s] \o buf[s], e)
  <2> DEFINE g == got[s]
             b == buf[s]
  <2>1. g \in Seq(Event) /\ b \in Seq(Event)
    BY <1>1
  <2> HIDE DEF g, b
  <2>2. g \o Append(b, e) = Append(g \o b, e)
    BY <1>0, <2>1, AppendInside
  <2> QED BY <2>2 DEF g, b
<1>4. Sent(s)' = Append(Sent(s), e)
  BY <1>2, <1>3 DEF Sent
<1>5. \A x \in Subs : x # s => Sent(x)' = Sent(x)
  BY <1>2 DEF Sent
<1> QED BY <1>0, <1>4, <1>5 DEF e

LEMMA StreamSame ==
    ASSUME StreamInv, Typed', \A x \in Subs : Sent(x)' = Sent(x), nr' = nr,
           \A p \in Pubs : todo'[p] \subseteq todo[p]
    PROVE  StreamInv'
BY DEF StreamInv, Published

LEMMA StreamNext == StreamInv /\ [Next]_vars => StreamInv'
<1> SUFFICES ASSUME StreamInv, [Next]_vars PROVE StreamInv'
  OBVIOUS
<1>0. Typed /\ Typed' /\ TypeOK /\ TypeOK'
  BY TypeNext DEF StreamInv, Typed
<1>1. CASE UNCHANGED <<got, buf, nr, todo>>
  BY <1>0, <1>1, StreamSame DEF Sent
<1>2. ASSUME NEW s \in Subs, Read(s)
      PROVE  StreamInv'
  BY <1>0, <1>2, ReadSame, StreamSame DEF Read
<1>3. ASSUME NEW p \in Pubs, Publish(p)
      PROVE  StreamInv'
  <2>1. /\ \A x \in Subs : Sent(x)' = Sent(x)
        /\ todo[p] = {} /\ nr'[p] = nr[p] + 1 /\ nr[p] \in Nat
        /\ \A q \in Pubs : q # p => nr'[q] = nr[q] /\ todo'[q] = todo[q]
    BY <1>0, <1>3 DEF TypeOK, Publish, Sent
  <2>2. ASSUME NEW x \in Subs, NEW i \in DOMAIN Sent(x)
        PROVE  LET e == Sent(x)[i] IN
               /\ e.by \in Pubs /\ e.nr <= nr'[e.by]
               /\ x \in todo'[e.by] => e.nr < nr'[e.by]
    <3>1. /\ Sent(x)[i].by \in Pubs /\ Sent(x)[i].nr \in Nat
          /\ Sent(x)[i].nr <= nr[Sent(x)[i].by]
          /\ x \in todo[Sent(x)[i].by] => Sent(x)[i].nr < nr[Sent(x)[i].by]
      BY <1>0, SentType DEF StreamInv, Published
    <3> QED BY <2>1, <3>1
  <2>3. Published'
    BY <2>1, <2>2 DEF Published
  <2> QED BY <1>0, <2>3 DEF StreamInv
<1>4. ASSUME NEW p \in Pubs, NEW s \in Subs, Send(p, s)
      PROVE  StreamInv'
  <2>1. nr' = nr /\ got' = got /\ s \in todo[p] /\ \A q \in Pubs : todo'[q] \subseteq todo[q]
    BY <1>0, <1>4 DEF TypeOK, Send
  <2>2. CASE buf' = buf
    BY <1>0, <2>1, <2>2, StreamSame DEF Sent
  <2>3. CASE chan[s] = "open" /\ Room(s)
    <3>1. /\ Sent(s)' = Append(Sent(s), [by |-> p, nr |-> nr[p]])
          /\ \A x \in Subs : x # s => Sent(x)' = Sent(x)
      BY <1>0, <1>4, <2>3, SendAdds
    <3>2. s \notin todo'[p] /\ nr[p] \in Nat
      BY <1>0, <1>4, <2>3 DEF TypeOK, Send
    <3>3. /\ Sent(s) \in Seq(Event) /\ Len(Sent(s)) \in Nat
          /\ DOMAIN Sent(s) = 1..Len(Sent(s))
      BY <1>0, SentType, LenProperties
    <3>4. ASSUME NEW x \in Subs, NEW i \in DOMAIN Sent(x)'
          PROVE  LET e == Sent(x)'[i] IN
                 /\ e.by \in Pubs /\ e.nr <= nr'[e.by]
                 /\ x \in todo'[e.by] => e.nr < nr'[e.by]
      <4>1. CASE x # s
        BY <2>1, <3>1, <4>1 DEF StreamInv, Published
      <4>2. CASE x = s /\ i \in DOMAIN Sent(s)
        BY <2>1, <3>1, <3>3, <4>2 DEF StreamInv, Published
      <4>3. CASE x = s /\ i = Len(Sent(s)) + 1
        BY <2>1, <3>1, <3>2, <3>3, <4>3
      <4> QED BY <3>1, <3>3, <4>1, <4>2, <4>3
    <3>5. Published'
      BY <3>4 DEF Published
    <3> QED BY <1>0, <3>5 DEF StreamInv
  <2> QED BY <1>4, <2>2, <2>3 DEF Send, Put
<1> QED
  BY <1>1, <1>2, <1>3, <1>4
     DEF Next, SubStep, Watch, PubStep, DownStep, Subscribe, SubscribeLate, CancelContext,
         Unsubscribe, Remove, UnsubscribeLate, ShutdownCheck, ShutdownSignal, ShutdownSweep, vars

LEMMA StreamHolds == Spec => []StreamInv
<1>1. Init => StreamInv
  <2> SUFFICES ASSUME Init PROVE StreamInv
    OBVIOUS
  <2>1. Typed
    BY TypeInit
  <2>2. ASSUME NEW s \in Subs PROVE Sent(s) = <<>>
    <3>1. got[s] = <<>> /\ buf[s] = <<>>
      BY DEF Init
    <3>2. <<>> \o <<>> = <<>>
      BY EmptySeq, ConcatEmptySeq
    <3> QED BY <3>1, <3>2 DEF Sent
  <2>3. Published
    <3>1. \A s \in Subs : \A i \in DOMAIN Sent(s) : FALSE
      BY <2>2
    <3> QED BY <3>1 DEF Published
  <2> QED BY <2>1, <2>3 DEF StreamInv
<1> QED BY <1>1, StreamNext, PTL DEF Spec

-----------------------------------------------------------------------------
(* Broker implements EventStream.                                          *)

Streams == [s \in Subs |-> got[s] \o buf[s]]

LEMMA StreamsSame ==
    ASSUME \A x \in Subs : Sent(x)' = Sent(x)
    PROVE  Streams' = Streams
BY DEF Streams, Sent

\* What the steps that end subscriptions do to the channels.
LEMMA ClosesStream ==
    ASSUME IInv, NEW gone \in SUBSET Subs, \A s \in gone : chan[s] # "closed",
           chan' = [s \in Subs |-> IF s \in gone THEN "closed" ELSE chan[s]],
           UNCHANGED <<got, buf>>
    PROVE  Stream!Next
<1>1. Streams' = Streams
  BY DEF Streams
<1>2. Stream!Close(gone)
  BY <1>1 DEF Streams, Stream!Close
<1> QED BY <1>2 DEF Stream!Next

LEMMA SubscriberStep ==
    ASSUME IInv, NEW s \in Subs,
           Subscribe(s) \/ SubscribeLate(s) \/ Unsubscribe(s)
    PROVE  Stream!Next
<1>0. UNCHANGED <<got, buf>> /\ chan \in [Subs -> {"none", "open", "closed"}]
  BY DEF IInv, CoreType, Subscribe, SubscribeLate, Unsubscribe, Remove
<1>1. CASE Subscribe(s)
  <2>1. Streams' = Streams
    BY <1>0 DEF Streams
  <2>2. Stream!Open(s)
    BY <1>1, <2>1 DEF Subscribe, Streams, Stream!Open
  <2> QED BY <2>2 DEF Stream!Next
<1>2. CASE SubscribeLate(s) \/ Unsubscribe(s)
  <2>1. chan[s] # "closed"
    BY <1>2 DEF SubscribeLate, Unsubscribe, IInv, WatchedIsOpen
  <2>2. chan' = [chan EXCEPT ![s] = "closed"]
    BY <1>2, <2>1 DEF SubscribeLate, Unsubscribe, Remove
  <2>3. chan' = [x \in Subs |-> IF x \in {s} THEN "closed" ELSE chan[x]]
    BY <1>0, <2>2
  <2>4. {s} \in SUBSET Subs /\ \A x \in {s} : chan[x] # "closed"
    BY <2>1
  <2> QED BY <1>0, <2>3, <2>4, ClosesStream
<1> QED BY <1>1, <1>2

LEMMA SweepStep ==
    ASSUME IInv, NEW d \in Downs, ShutdownSweep(d)
    PROVE  Stream!Next
<1>1. subs \in SUBSET Subs /\ \A s \in subs : chan[s] # "closed"
  BY DEF IInv, OpenIsSubscribed
<1>2. /\ chan' = [s \in Subs |-> IF s \in subs THEN "closed" ELSE chan[s]]
      /\ UNCHANGED <<got, buf>>
  BY <1>1 DEF ShutdownSweep
<1> QED BY <1>1, <1>2, ClosesStream

LEMMA PutsStream ==
    ASSUME NEW s \in Subs, NEW e \in Event, chan[s] = "open", chan' = chan,
           \A i \in DOMAIN Sent(s) : Sent(s)[i].by = e.by => Sent(s)[i].nr < e.nr,
           Streams' = [Streams EXCEPT ![s] = Append(Streams[s], e)]
    PROVE  Stream!Next
<1>1. Stream!Put(s, e)
  BY DEF Streams, Sent, Stream!Put
<1>2. e \in Stream!Event
  BY DEF Event, Stream!Event
<1> QED BY <1>1, <1>2 DEF Stream!Next

LEMMA SendStep ==
    ASSUME StreamInv, NEW p \in Pubs, NEW s \in Subs, Send(p, s)
    PROVE  Stream!Next \/ (chan' = chan /\ Streams' = Streams)
<1>1. chan' = chan /\ got' = got /\ s \in todo[p]
  BY DEF Send
<1>2. CASE buf' = buf
  BY <1>1, <1>2 DEF Streams
<1>3. CASE chan[s] = "open" /\ Room(s)
  <2> DEFINE e == [by |-> p, nr |-> nr[p]]
  <2>1. /\ e \in Event /\ Sent(s)' = Append(Sent(s), e)
        /\ \A x \in Subs : x # s => Sent(x)' = Sent(x)
    BY <1>3, SendAdds DEF StreamInv
  <2>2. \A i \in DOMAIN Sent(s) : Sent(s)[i].by = e.by => Sent(s)[i].nr < e.nr
    BY <1>1 DEF StreamInv, Published
  <2>3. Streams' = [Streams EXCEPT ![s] = Append(Streams[s], e)]
    <3> HIDE DEF e
    <3> QED BY <2>1 DEF Streams, Sent
  <2> HIDE DEF e
  <2> QED BY <1>1, <1>3, <2>1, <2>2, <2>3, PutsStream
<1> QED BY <1>2, <1>3 DEF Send, Put

\* The channels of the broker are streams as EventStream describes them: a
\* step of the broker opens, closes or extends streams as it allows, or
\* leaves them alone, as reading and the rest of Publish and Shutdown do.
THEOREM StreamsImplemented == Spec => ImplementsStream
<1>1. Init => Stream!Init
  <2> SUFFICES ASSUME Init PROVE Stream!Init
    OBVIOUS
  <2>1. <<>> \o <<>> = <<>>
    BY EmptySeq, ConcatEmptySeq
  <2>2. \A s \in Subs : got[s] \o buf[s] = <<>>
    BY <2>1 DEF Init
  <2> QED BY <2>2 DEF Init, Stream!Init
<1>2. IInv /\ StreamInv /\ [Next]_vars => [Stream!Next]_<<chan, Streams>>
  <2> SUFFICES ASSUME IInv, StreamInv, [Next]_vars
               PROVE  Stream!Next \/ (chan' = chan /\ Streams' = Streams)
    OBVIOUS
  <2>1. ASSUME NEW s \in Subs, Read(s)
        PROVE  chan' = chan /\ Streams' = Streams
    BY <2>1, ReadSame, StreamsSame DEF Read, StreamInv, Typed
  <2>2. CASE UNCHANGED <<chan, got, buf>>
    BY <2>2 DEF Streams
  <2> QED
    BY <2>1, <2>2, SubscriberStep, SweepStep, SendStep
       DEF Next, SubStep, Watch, PubStep, DownStep, CancelContext, UnsubscribeLate,
           ShutdownCheck, ShutdownSignal, Publish, vars
<1>3. Spec => []IInv /\ []StreamInv
  BY Invariance, StreamHolds
<1>4. [Stream!Next]_<<chan, Streams>> => [Stream!Next]_<<chan, [s \in Subs |-> got[s] \o buf[s]]>>
  BY DEF Streams
<1> QED BY <1>1, <1>2, <1>3, <1>4, PTL DEF Spec, ImplementsStream, Stream!Spec
=============================================================================
