------------------------------ MODULE EventHub ------------------------------
(***************************************************************************)
(* webapi/sse.py: the hub that fans job and account events out to the      *)
(* browsers' event streams.  The hub's lock is never held across a         *)
(* suspension, so subscribe, publish and unsubscribe are each one step of  *)
(* the event loop; a stream takes the next event in a step of its own.     *)
(* The keep-alive of an idle stream changes nothing and is left out.       *)
(***************************************************************************)
EXTENDS Naturals, Sequences

CONSTANTS
  Streams,      (* event_stream generators, each opened once               *)
  QueueSize,    (* maxsize of a subscriber's queue                         *)
  MaxEvents     (* bound: events published in a behaviour                  *)

ASSUME HubAssumption == QueueSize \in Nat \ {0} /\ MaxEvents \in Nat

VARIABLES
  published,    (* number of events published; the n-th event is n         *)
  subscribers,  (* SSEHub._subscribers                                     *)
  stream        (* per stream: state, queue, and two histories: the events *)
                (* it has yielded, and `published' when it subscribed      *)

hubVars == <<published, subscribers, stream>>

Stream == [state : {"new", "open", "closed"}, queue : Seq(Nat \ {0}),
           yielded : Seq(Nat \ {0}), since : Nat]

HubTypeOK ==
  /\ published \in Nat
  /\ subscribers \subseteq Streams
  /\ stream \in [Streams -> Stream]

HubInit ==
  /\ published = 0
  /\ subscribers = {}
  /\ stream = [s \in Streams |-> [state |-> "new", queue |-> <<>>,
                                  yielded |-> <<>>, since |-> 0]]

Subscribe(s) ==
  /\ stream[s].state = "new"
  /\ subscribers' = subscribers \cup {s}
  /\ stream' = [stream EXCEPT ![s].state = "open", ![s].since = published]
  /\ UNCHANGED published

Full(s) == Len(stream[s].queue) = QueueSize

(* put_nowait raises QueueFull without touching the queue.                 *)
PutDroppingOldest(s, e) ==           (* mutant of Put: a ring buffer        *)
  Append(IF Full(s) THEN Tail(stream[s].queue) ELSE stream[s].queue, e)

Put(s, e) == IF Full(s) THEN stream[s].queue ELSE Append(stream[s].queue, e)

(* Every subscriber is offered the event; the full ones are dropped, their *)
(* streams are not told.                                                   *)
Publish ==
  /\ published < MaxEvents
  /\ published' = published + 1
  /\ stream' = [s \in Streams |-> IF s \in subscribers
                                  THEN [stream[s] EXCEPT !.queue = Put(s, published')]
                                  ELSE stream[s]]
  /\ subscribers' = {s \in subscribers : ~Full(s)}

(* q.get() returns the oldest event, also of a stream that was dropped.    *)
Yield(s) ==
  /\ stream[s].state = "open" /\ stream[s].queue # <<>>
  /\ stream' = [stream EXCEPT ![s].queue = Tail(@),
                              ![s].yielded = Append(@, Head(stream[s].queue))]
  /\ UNCHANGED <<published, subscribers>>

(* The browser goes away: the generator's finally clause unsubscribes.     *)
Unsubscribe(s) ==
  /\ stream[s].state = "open"
  /\ subscribers' = subscribers \ {s}
  /\ stream' = [stream EXCEPT ![s].state = "closed"]
  /\ UNCHANGED published

HubNext ==
  \/ Publish
  \/ \E s \in Streams : Subscribe(s) \/ Yield(s) \/ Unsubscribe(s)

HubSpec == HubInit /\ [][HubNext]_hubVars

-----------------------------------------------------------------------------
(* What a stream has yielded and still holds, and the last event of it.    *)
Seen(r)        == r.yielded \o r.queue
Latest(r)      == r.since + Len(Seen(r))
Consecutive(r) == \A n \in 1 .. Len(Seen(r)) : Seen(r)[n] = r.since + n

(* A browser applies events as increments to what it shows, so a hole in   *)
(* the middle would be worse than an end: whatever a stream receives is    *)
(* the run of consecutive events after its subscription, in order, and as  *)
(* long as the hub counts it as a subscriber it lacks none of them, also   *)
(* when queues of any length fill and streams are dropped or closed.       *)
StreamsAreGapFree ==
  \A s \in Streams : /\ Consecutive(stream[s])
                     /\ s \in subscribers => Latest(stream[s]) = published
=============================================================================
