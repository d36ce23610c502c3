---------------------------- MODULE EventStream ----------------------------
(***************************************************************************)
(* What a subscriber of the broker (pubsub/broker.go) is promised: a       *)
(* channel that is opened once and closed at most once, into which nothing *)
(* goes after it was closed, and which carries, of the events of each      *)
(* publisher, some, in the order they were published, none of them twice.  *)
(* Which events are dropped, and how the events of several publishers      *)
(* interleave, is left open.                                               *)
(***************************************************************************)
EXTENDS Naturals, Sequences

CONSTANTS Subs, Pubs, MaxEvents

VARIABLES
    phase,      \* is the subscriber's channel there, and open?
    stream      \* everything that ever went into it: who published, which one

Event == UNION {[by : {p}, nr : 1..MaxEvents[p]] : p \in Pubs}

TypeOK ==
    /\ phase \in [Subs -> {"none", "open", "closed"}]
    /\ stream \in [Subs -> Seq(Event)]

Init ==
    /\ phase = [s \in Subs |-> "none"]
    /\ stream = [s \in Subs |-> <<>>]

Open(s) ==
    /\ phase[s] = "none"
    /\ phase' = [phase EXCEPT ![s] = "open"]
    /\ UNCHANGED stream

\* A subscription to a broker that was shut down is closed from the start;
\* a shutdown closes the channels of all subscribers at once.
Close(gone) ==
    /\ \A s \in gone : phase[s] # "closed"
    /\ phase' = [s \in Subs |-> IF s \in gone THEN "closed" ELSE phase[s]]
    /\ UNCHANGED stream

Put(s, e) ==
    /\ phase[s] = "open"
    /\ \A i \in DOMAIN stream[s] : stream[s][i].by = e.by => stream[s][i].nr < e.nr
    /\ stream' = [stream EXCEPT ![s] = Append(@, e)]
    /\ UNCHANGED phase

Next ==
    \/ \E s \in Subs : Open(s)
    \/ \E gone \in SUBSET Subs : Close(gone)
    \/ \E s \in Subs, e \in Event : Put(s, e)

Spec == Init /\ [][Next]_<<phase, stream>>
=============================================================================
