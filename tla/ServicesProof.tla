----------------------------- MODULE ServicesProof ---------------------------
(***************************************************************************)
(* Proofs about modules EventHub and RateLimit.                            *)
(***************************************************************************)
EXTENDS EventHub, RateLimit, SequenceTheorems, TLAPS


(***************************************************************************)
(* What a stream has seen, entry by entry: an event that is put comes      *)
(* last, and an event that is yielded keeps its place.                     *)
(***************************************************************************)
LEMMA SeenAfterPut ==
  ASSUME NEW y \in Seq(Nat), NEW q \in Seq(Nat), NEW e \in Nat
  PROVE  /\ Len(y \o Append(q, e)) = Len(y \o q) + 1
         /\ \A n \in 1 .. Len(y \o q) : (y \o Append(q, e))[n] = (y \o q)[n]
         /\ (y \o Append(q, e))[Len(y \o q) + 1] = e
OBVIOUS

LEMMA SeenAfterYield ==
  ASSUME NEW y \in Seq(Nat), NEW q \in Seq(Nat), q # <<>>
  PROVE  Append(y, Head(q)) \o Tail(q) = y \o q
<1> DEFINE s == Append(y, Head(q)) \o Tail(q)
<1>1. Len(q) > 0 /\ Head(q) = q[1] /\ Len(Tail(q)) = Len(q) - 1
  OBVIOUS
<1>2. s \in Seq(Nat) /\ (y \o q) \in Seq(Nat)
  BY <1>1
<1>3. Len(s) = Len(y \o q)
  BY <1>1
<1>4. ASSUME NEW n \in 1 .. Len(s)  PROVE s[n] = (y \o q)[n]
  BY <1>1
<1> QED
  BY <1>2, <1>3, <1>4, SeqEqual

-----------------------------------------------------------------------------
(* StreamsAreGapFree is not inductive alone: a stream subscribes with what *)
(* it saw before, which is nothing, and a new stream is not offered any.   *)
NewAreEmpty ==
  \A s \in Streams : stream[s].state = "new"
                       => /\ s \notin subscribers
                          /\ stream[s].queue = <<>> /\ stream[s].yielded = <<>>

HubInv == HubTypeOK /\ NewAreEmpty /\ StreamsAreGapFree

(* What HubInv says of one stream.                                         *)
Good(s, r, subs, n) ==
  /\ r \in Stream
  /\ r.state = "new" => s \notin subs /\ r.queue = <<>> /\ r.yielded = <<>>
  /\ Consecutive(r)
  /\ s \in subs => Latest(r) = n

LEMMA GoodStreams ==
  ASSUME HubInv, NEW s \in Streams
  PROVE  Good(s, stream[s], subscribers, published)
BY DEF HubInv, HubTypeOK, NewAreEmpty, StreamsAreGapFree, Good

LEMMA GoodStreamsSuffice ==
  ASSUME published' \in Nat, subscribers' \subseteq Streams,
         DOMAIN stream' = Streams, stream' = [s \in Streams |-> stream'[s]],
         \A s \in Streams : Good(s, stream'[s], subscribers', published')
  PROVE  HubInv'
<1>1. HubTypeOK'
  BY DEF HubTypeOK, Good
<1>2. NewAreEmpty'
  BY DEF NewAreEmpty, Good
<1>3. StreamsAreGapFree'
  BY DEF StreamsAreGapFree, Good
<1> QED
  BY <1>1, <1>2, <1>3 DEF HubInv

(* One stream changes to r: the others keep what they have.                *)
LEMMA OneStreamChanges ==
  ASSUME HubInv, NEW s \in Streams, NEW r,
         stream' = [stream EXCEPT ![s] = r], published' = published,
         subscribers' \subseteq Streams, subscribers' \subseteq subscribers \cup {s},
         Good(s, r, subscribers', published)
  PROVE  HubInv'
<1>1. stream \in [Streams -> Stream] /\ published \in Nat
  BY DEF HubInv, HubTypeOK
<1>2. ASSUME NEW t \in Streams  PROVE Good(t, stream'[t], subscribers', published')
  <2>1. CASE t = s
    BY <1>1, <2>1
  <2>2. CASE t # s
    <3>1. stream'[t] = stream[t] /\ (t \in subscribers' => t \in subscribers)
      BY <1>1, <2>2
    <3>2. Good(t, stream[t], subscribers, published)
      BY GoodStreams
    <3> QED
      BY <3>1, <3>2 DEF Good
  <2> QED
    BY <2>1, <2>2
<1> QED
  BY <1>1, <1>2, GoodStreamsSuffice

LEMMA HubInitial == HubInit => HubInv
<1> SUFFICES ASSUME HubInit  PROVE HubInv
  OBVIOUS
<1> USE DEF HubInit
<1>1. HubTypeOK
  BY DEF HubTypeOK, Stream
<1>2. NewAreEmpty
  BY DEF NewAreEmpty
<1>3. ASSUME NEW s \in Streams  PROVE Consecutive(stream[s])
  <2>1. Len(Seen(stream[s])) = 0
    BY DEF Seen
  <2> QED
    BY <2>1 DEF Consecutive
<1> QED
  BY <1>1, <1>2, <1>3 DEF HubInv, StreamsAreGapFree

LEMMA SubscribeKeeps ==
  ASSUME HubInv, NEW s \in Streams, Subscribe(s)  PROVE HubInv'
<1> DEFINE r == [stream[s] EXCEPT !.state = "open", !.since = published]
<1>1. stream[s] \in Stream /\ published \in Nat /\ subscribers \subseteq Streams
  BY DEF HubInv, HubTypeOK
<1>2. r \in Stream /\ r.state = "open" /\ r.since = published
      /\ r.queue = <<>> /\ r.yielded = <<>>
  BY <1>1 DEF Subscribe, HubInv, NewAreEmpty, Stream
<1>3. stream' = [stream EXCEPT ![s] = r]
  BY <1>1 DEF Subscribe, Stream
<1> HIDE DEF r
<1>4. Len(Seen(r)) = 0
  BY <1>2 DEF Seen
<1>5. Good(s, r, subscribers', published)
  BY <1>1, <1>2, <1>4 DEF Good, Consecutive, Latest
<1>6. subscribers' \subseteq Streams /\ subscribers' \subseteq subscribers \cup {s}
      /\ published' = published
  BY <1>1 DEF Subscribe
<1> QED
  BY <1>3, <1>5, <1>6, OneStreamChanges

LEMMA YieldKeeps ==
  ASSUME HubInv, NEW s \in Streams, Yield(s)  PROVE HubInv'
<1> DEFINE y == stream[s].yielded
           q == stream[s].queue
           r == [stream[s] EXCEPT !.queue = Tail(q), !.yielded = Append(y, Head(q))]
<1>1. stream[s] \in Stream /\ q # <<>> /\ stream[s].state = "open"
  BY DEF HubInv, HubTypeOK, Yield
<1>2. y \in Seq(Nat \ {0}) /\ q \in Seq(Nat \ {0}) /\ y \in Seq(Nat) /\ q \in Seq(Nat)
  BY <1>1 DEF Stream
<1>3. Tail(q) \in Seq(Nat \ {0}) /\ Append(y, Head(q)) \in Seq(Nat \ {0})
  BY <1>1, <1>2
<1>4. /\ r \in Stream /\ r.state = "open" /\ r.since = stream[s].since
      /\ r.queue = Tail(q) /\ r.yielded = Append(y, Head(q))
  BY <1>1, <1>3 DEF Stream
<1>5. stream' = [stream EXCEPT ![s] = r]
  BY <1>1 DEF Yield, Stream
<1>6. Seen(r) = Seen(stream[s])
  BY <1>1, <1>2, <1>4, SeenAfterYield DEF Seen
<1>7. subscribers' = subscribers /\ published' = published /\ subscribers \subseteq Streams
  BY DEF Yield, HubInv, HubTypeOK
<1> HIDE DEF r, y, q
<1>8. Good(s, r, subscribers', published)
  BY <1>4, <1>6, <1>7, GoodStreams DEF Good, Consecutive, Latest
<1> QED
  BY <1>5, <1>7, <1>8, OneStreamChanges

LEMMA UnsubscribeKeeps ==
  ASSUME HubInv, NEW s \in Streams, Unsubscribe(s)  PROVE HubInv'
<1> DEFINE r == [stream[s] EXCEPT !.state = "closed"]
<1>1. stream[s] \in Stream /\ subscribers \subseteq Streams
  BY DEF HubInv, HubTypeOK
<1>2. r \in Stream /\ r.state = "closed" /\ r.since = stream[s].since
      /\ r.queue = stream[s].queue /\ r.yielded = stream[s].yielded
  BY <1>1 DEF Stream
<1>3. stream' = [stream EXCEPT ![s] = r]
  BY <1>1 DEF Unsubscribe, Stream
<1>4. subscribers' = subscribers \ {s} /\ published' = published
  BY DEF Unsubscribe
<1> HIDE DEF r
<1>5. Good(s, r, subscribers', published)
  BY <1>2, <1>4, GoodStreams DEF Good, Consecutive, Latest, Seen
<1> QED
  BY <1>1, <1>3, <1>4, <1>5, OneStreamChanges

-----------------------------------------------------------------------------
(* An event that is put extends the run of what the stream has seen.       *)
LEMMA RunExtended ==
  ASSUME NEW y \in Seq(Nat), NEW q \in Seq(Nat), NEW k \in Nat, NEW e \in Nat,
         \A n \in 1 .. Len(y \o q) : (y \o q)[n] = k + n,
         k + Len(y \o q) + 1 = e
  PROVE  /\ \A n \in 1 .. Len(y \o Append(q, e)) : (y \o Append(q, e))[n] = k + n
         /\ k + Len(y \o Append(q, e)) = e
<1> DEFINE x == y \o q
           z == y \o Append(q, e)
<1>1. Len(x) \in Nat
  OBVIOUS
<1>2. /\ Len(z) = Len(x) + 1
      /\ \A n \in 1 .. Len(x) : z[n] = x[n]
      /\ z[Len(x) + 1] = e
  BY SeenAfterPut
<1>3. (\A n \in 1 .. Len(x) : x[n] = k + n) /\ k + Len(x) + 1 = e
  OBVIOUS
<1> HIDE DEF x, z
<1>4. ASSUME NEW n \in 1 .. Len(z)  PROVE z[n] = k + n
  <2>1. CASE n \in 1 .. Len(x)
    BY <1>2, <1>3, <2>1
  <2>2. CASE n = Len(x) + 1
    <3>1. z[n] = e /\ k + n = e
      BY <1>1, <1>2, <1>3, <2>2
    <3> QED
      BY <3>1
  <2> QED
    BY <1>1, <1>2, <2>1, <2>2
<1>5. k + Len(z) = e
  BY <1>1, <1>2, <1>3
<1> QED
  BY <1>4, <1>5 DEF z

LEMMA AppendKeeps ==
  ASSUME NEW a \in Stream, NEW r \in Stream, NEW e \in Nat,
         r.queue = Append(a.queue, e), r.yielded = a.yielded, r.since = a.since,
         Consecutive(a), Latest(a) + 1 = e
  PROVE  Consecutive(r) /\ Latest(r) = e
<1> DEFINE y == a.yielded
           q == a.queue
           k == a.since
<1>1. y \in Seq(Nat) /\ q \in Seq(Nat) /\ k \in Nat
  BY DEF Stream
<1>2. /\ \A n \in 1 .. Len(y \o q) : (y \o q)[n] = k + n
      /\ k + Len(y \o q) + 1 = e
  BY DEF Consecutive, Latest, Seen
<1>3. Seen(r) = y \o Append(q, e) /\ r.since = k
  BY DEF Seen
<1> HIDE DEF y, q, k
<1>4. /\ \A n \in 1 .. Len(y \o Append(q, e)) : (y \o Append(q, e))[n] = k + n
      /\ k + Len(y \o Append(q, e)) = e
  BY <1>1, <1>2, RunExtended, ZenonT(40)
<1> QED
  BY <1>3, <1>4, Zenon DEF Consecutive, Latest

LEMMA PublishKeeps ==
  ASSUME HubInv, Publish  PROVE HubInv'
<1>1. published \in Nat /\ published' = published + 1 /\ subscribers \subseteq Streams
  BY DEF Publish, HubInv, HubTypeOK
<1>2. subscribers' = {s \in subscribers : ~Full(s)}
  BY DEF Publish
<1>3. stream' = [s \in Streams |->
        IF s \in subscribers THEN [stream[s] EXCEPT !.queue = Put(s, published')]
                             ELSE stream[s]]
  BY DEF Publish
<1>4. ASSUME NEW s \in Streams  PROVE Good(s, stream'[s], subscribers', published')
  <2> DEFINE a == stream[s]
             r == stream'[s]
  <2>1. Good(s, a, subscribers, published)
    BY GoodStreams
  <2>2. CASE s \notin subscribers
    <3>1. r = a /\ s \notin subscribers'
      BY <1>2, <1>3, <2>2
    <3> QED
      BY <2>1, <2>2, <3>1 DEF Good
  <2>3. CASE s \in subscribers /\ Full(s)
    <3>1. a \in Stream
      BY <2>1 DEF Good
    <3>2. Put(s, published') = a.queue
      BY <2>3 DEF Put
    <3>3. r = [a EXCEPT !.queue = a.queue]
      BY <1>3, <2>3, <3>2
    <3>4. r = a
      BY <3>1, <3>3 DEF Stream
    <3>5. s \notin subscribers'
      BY <1>2, <2>3
    <3> QED
      BY <2>1, <3>4, <3>5 DEF Good
  <2>4. CASE s \in subscribers /\ ~Full(s)
    <3>1. a \in Stream
      BY <2>1 DEF Good
    <3>2. Put(s, published') = Append(a.queue, published')
      BY <2>4 DEF Put
    <3>3. r = [a EXCEPT !.queue = Append(a.queue, published')]
      BY <1>3, <2>4, <3>2
    <3>4. published' \in Nat \ {0}
      BY <1>1
    <3>5. Append(a.queue, published') \in Seq(Nat \ {0})
      BY <3>1, <3>4 DEF Stream
    <3> HIDE DEF r, a
    <3>6. /\ r \in Stream /\ r.queue = Append(a.queue, published')
          /\ r.yielded = a.yielded /\ r.since = a.since /\ r.state = a.state
      BY <3>1, <3>3, <3>5 DEF Stream
    <3>7. Consecutive(a) /\ Latest(a) + 1 = published' /\ a.state # "new"
      BY <1>1, <2>1, <2>4 DEF Good
    <3>8. Consecutive(r) /\ Latest(r) = published'
      BY <3>1, <3>4, <3>6, <3>7, AppendKeeps
    <3> QED
      BY <3>6, <3>7, <3>8 DEF Good, r
  <2> QED
    BY <2>2, <2>3, <2>4
<1>5. subscribers' \subseteq Streams /\ published' \in Nat
  BY <1>1, <1>2
<1>6. DOMAIN stream' = Streams /\ stream' = [s \in Streams |-> stream'[s]]
  BY <1>3
<1> QED
  BY <1>4, <1>5, <1>6, GoodStreamsSuffice

LEMMA HubStep == HubInv /\ [HubNext]_hubVars => HubInv'
<1> SUFFICES ASSUME HubInv, [HubNext]_hubVars  PROVE HubInv'
  OBVIOUS
<1>1. CASE Publish
  BY <1>1, PublishKeeps
<1>2. ASSUME NEW s \in Streams, Subscribe(s)  PROVE HubInv'
  BY <1>2, SubscribeKeeps
<1>3. ASSUME NEW s \in Streams, Yield(s)  PROVE HubInv'
  BY <1>3, YieldKeeps
<1>4. ASSUME NEW s \in Streams, Unsubscribe(s)  PROVE HubInv'
  BY <1>4, UnsubscribeKeeps
<1>5. CASE UNCHANGED hubVars
  BY <1>5 DEF hubVars, HubInv, HubTypeOK, NewAreEmpty, StreamsAreGapFree
<1> QED
  BY <1>1, <1>2, <1>3, <1>4, <1>5 DEF HubNext

(* Whatever a stream receives is the run of consecutive events after its   *)
(* subscription, for any number of streams, events and any queue size.     *)
THEOREM HubGapFree == HubSpec => []StreamsAreGapFree
<1>1. HubInv => StreamsAreGapFree
  BY DEF HubInv
<1> QED
  BY <1>1, HubInitial, HubStep, PTL DEF HubSpec

-----------------------------------------------------------------------------
(* The rate limiter.                                                       *)

(* What is stored in whole seconds is never longer than what is meant.     *)
LEMMA TruncatedShortens ==
  ASSUME phase \in Nat, NEW ticks \in Nat
  PROVE  Truncated(ticks) \in Nat /\ Truncated(ticks) <= ticks
<1>1. TicksPerSecond \in Nat \ {0}
  BY LimiterAssumption DEF LimiterAssumption
<1>2. Fraction(ticks) \in Nat
  BY <1>1 DEF Fraction
<1> QED
  BY <1>2 DEF Truncated

LimiterInv == LimiterTypeOK /\ CooldownsAreTelegrams

LEMMA LimiterFacts ==
  /\ NoHolder \notin Users /\ Runners \subseteq Users /\ Managers \subseteq Users
  /\ TicksPerSecond \in Nat \ {0} /\ MinInterval \in Nat /\ MaxFloods \in Nat
  /\ FloodSeconds \subseteq Nat
BY LimiterAssumption DEF LimiterAssumption, Users

LEMMA LimiterInitial == LimiterInit => LimiterInv
BY LimiterFacts DEF LimiterInit, LimiterInv, LimiterTypeOK, CooldownsAreTelegrams, NoBlock

(* A process whose block is at most the row's or its own keeps to the      *)
(* cooldown.                                                               *)
LEMMA MemoryKeeps ==
  ASSUME LimiterInv, NEW p \in Users, NEW m \in {NoBlock, stored, memory[p]},
         memory' = [memory EXCEPT ![p] = m],
         stored' \in {0, stored}, cooldown' = cooldown
  PROVE  /\ memory' \in [Users -> {NoBlock} \cup Nat] /\ stored' \in Nat
         /\ cooldown' \in Nat /\ CooldownsAreTelegrams'
BY DEF LimiterInv, LimiterTypeOK, CooldownsAreTelegrams, NoBlock

LEMMA SamePlaces ==
  ASSUME LimiterInv, NEW p \in Users,
         NEW place \in {"idle", "claim", "loop", "acquire", "wait", "interval",
                        "send", "answer"},
         Move(p, place)
  PROVE  at' \in [Users -> {"idle", "claim", "loop", "acquire", "wait", "interval",
                            "send", "answer"}]
BY DEF LimiterInv, LimiterTypeOK, Move

LEMMA ZeroPause ==
  ASSUME LimiterInv, NEW p \in Users, pause' = [pause EXCEPT ![p] = 0]
  PROVE  pause' \in [Users -> 0 .. MinInterval]
BY LimiterFacts DEF LimiterInv, LimiterTypeOK

LEMMA CooldownsKept ==
  ASSUME LimiterInv, UNCHANGED <<memory, stored, cooldown>>
  PROVE  /\ memory' \in [Users -> {NoBlock} \cup Nat] /\ stored' \in Nat
         /\ cooldown' \in Nat /\ CooldownsAreTelegrams'
BY DEF LimiterInv, LimiterTypeOK, CooldownsAreTelegrams

LEMMA ClearKeeps ==
  ASSUME LimiterInv, NEW p \in Users, ClearBlock(p), UNCHANGED cooldown
  PROVE  /\ memory' \in [Users -> {NoBlock} \cup Nat] /\ stored' \in Nat
         /\ cooldown' \in Nat /\ CooldownsAreTelegrams'
<1>1. CASE memory[p] = NoBlock
  BY <1>1, CooldownsKept DEF ClearBlock
<1>2. CASE memory[p] # NoBlock
  BY <1>2, MemoryKeeps DEF ClearBlock
<1> QED
  BY <1>1, <1>2

LEMMA FloodKeeps ==
  ASSUME LimiterInv, NEW p \in Users, NEW s \in FloodSeconds, RegisterRateLimit(p, s)
  PROVE  /\ memory' \in [Users -> {NoBlock} \cup Nat] /\ stored' \in Nat
         /\ cooldown' \in Nat /\ CooldownsAreTelegrams'
<1> DEFINE ticks == s * TicksPerSecond
<1>1. ticks \in Nat /\ phase \in Nat
  BY LimiterFacts DEF LimiterInv, LimiterTypeOK
<1>2. /\ memory' = [memory EXCEPT ![p] = ticks] /\ stored' = Truncated(ticks)
      /\ cooldown' = IF ticks > cooldown THEN ticks ELSE cooldown
  BY DEF RegisterRateLimit
<1>3. Truncated(ticks) \in Nat /\ Truncated(ticks) <= ticks
  BY <1>1, TruncatedShortens
<1> HIDE DEF ticks
<1> QED
  BY <1>1, <1>2, <1>3 DEF LimiterInv, LimiterTypeOK, CooldownsAreTelegrams, NoBlock

LEMMA TickKeeps ==
  ASSUME LimiterInv, LimiterTick  PROVE LimiterInv'
<1>1. phase' \in 0 .. TicksPerSecond - 1
  BY LimiterFacts DEF LimiterTick, LimiterInv, LimiterTypeOK
<1>2. pause' \in [Users -> 0 .. MinInterval]
  BY LimiterFacts DEF LimiterTick, LimiterInv, LimiterTypeOK, Less
<1>3. memory' \in [Users -> {NoBlock} \cup Nat] /\ stored' \in Nat /\ cooldown' \in Nat
  BY DEF LimiterTick, LimiterInv, LimiterTypeOK, Less, NoBlock
<1>4. CooldownsAreTelegrams'
  BY DEF LimiterTick, LimiterInv, LimiterTypeOK, CooldownsAreTelegrams, Less, NoBlock
<1> QED
  BY <1>1, <1>2, <1>3, <1>4 DEF LimiterTick, LimiterInv, LimiterTypeOK

LEMMA LimiterStep == LimiterInv /\ [LimiterNext]_limiterVars => LimiterInv'
<1> SUFFICES ASSUME LimiterInv, [LimiterNext]_limiterVars  PROVE LimiterInv'
  OBVIOUS
<1> USE DEF LimiterInv
<1>1. CASE LimiterTick
  BY <1>1, TickKeeps
<1>2. CASE UNCHANGED limiterVars
  BY <1>2 DEF limiterVars, LimiterTypeOK, CooldownsAreTelegrams
<1>3. ASSUME NEW p \in Users, NewRun(p)  PROVE LimiterInv'
  <2>1. (IF stored > 0 THEN stored ELSE NoBlock) \in {NoBlock, stored, memory[p]}
    OBVIOUS
  <2>2. /\ memory' \in [Users -> {NoBlock} \cup Nat] /\ stored' \in Nat
        /\ cooldown' \in Nat /\ CooldownsAreTelegrams'
    BY <1>3, <2>1, MemoryKeeps DEF NewRun
  <2>3. pause' \in [Users -> 0 .. MinInterval]
    BY <1>3, ZeroPause DEF NewRun
  <2> QED
    BY <1>3, <2>2, <2>3, SamePlaces DEF NewRun, LimiterTypeOK
<1>4. ASSUME NEW p \in Users, NewOperation(p)  PROVE LimiterInv'
  BY <1>4, CooldownsKept, SamePlaces DEF NewOperation, LimiterTypeOK
<1>5. ASSUME NEW p \in Users, ClaimLease(p)  PROVE LimiterInv'
  BY <1>5, CooldownsKept, SamePlaces DEF ClaimLease, LimiterTypeOK
<1>6. ASSUME NEW p \in Users, EndRun(p)  PROVE LimiterInv'
  BY <1>6, CooldownsKept, SamePlaces DEF EndRun, LimiterTypeOK
<1>7. ASSUME NEW p \in Users, IsNotBlocked(p)  PROVE LimiterInv'
  BY <1>7, ClearKeeps, SamePlaces DEF IsNotBlocked, LimiterTypeOK
<1>8. ASSUME NEW p \in Users, StartAcquire(p)  PROVE LimiterInv'
  <2>1. Reloaded(p) \in {NoBlock, stored, memory[p]}
    BY DEF Reloaded
  <2> QED
    BY <1>8, <2>1, MemoryKeeps, SamePlaces DEF StartAcquire, LimiterTypeOK
<1>9. ASSUME NEW p \in Users, WaitedOut(p)  PROVE LimiterInv'
  BY <1>9, ClearKeeps, SamePlaces DEF WaitedOut, LimiterTypeOK
<1>10. ASSUME NEW p \in Users, EndAcquire(p)  PROVE LimiterInv'
  BY <1>10, CooldownsKept, SamePlaces DEF EndAcquire, LimiterTypeOK
<1>11. ASSUME NEW p \in Users, Send(p)  PROVE LimiterInv'
  BY <1>11, CooldownsKept, SamePlaces DEF Send, LimiterTypeOK
<1>12. ASSUME NEW p \in Users, RegisterSuccess(p)  PROVE LimiterInv'
  BY <1>12, CooldownsKept, SamePlaces, LimiterFacts
     DEF RegisterSuccess, AfterAnswer, LimiterTypeOK
<1>13. ASSUME NEW p \in Users, Die(p)  PROVE LimiterInv'
  <2>1. /\ memory' \in [Users -> {NoBlock} \cup Nat] /\ stored' \in Nat
        /\ cooldown' \in Nat /\ CooldownsAreTelegrams'
    BY <1>13, MemoryKeeps DEF Die
  <2>2. pause' \in [Users -> 0 .. MinInterval]
    BY <1>13, ZeroPause DEF Die
  <2>3. holder' \in Users \cup {NoHolder}
    BY <1>13 DEF Die, LimiterTypeOK
  <2> QED
    BY <1>13, <2>1, <2>2, <2>3, SamePlaces DEF Die, LimiterTypeOK
<1>14. ASSUME NEW p \in Users, NEW s \in FloodSeconds, RegisterRateLimit(p, s)
       PROVE  LimiterInv'
  <2>1. /\ memory' \in [Users -> {NoBlock} \cup Nat] /\ stored' \in Nat
        /\ cooldown' \in Nat /\ CooldownsAreTelegrams'
    BY <1>14, FloodKeeps
  <2>2. AfterAnswer(p) /\ UNCHANGED <<pause, phase>>
    BY <1>14 DEF RegisterRateLimit
  <2>3. /\ at' \in [Users -> {"idle", "claim", "loop", "acquire", "wait", "interval",
                              "send", "answer"}]
        /\ holder' \in Users \cup {NoHolder}
    BY <2>2, SamePlaces DEF AfterAnswer, LimiterTypeOK
  <2>4. floods' \in 0 .. MaxFloods
    BY <1>14, LimiterFacts DEF RegisterRateLimit, LimiterTypeOK
  <2> QED
    BY <2>1, <2>2, <2>3, <2>4 DEF LimiterTypeOK
<1> QED
  BY <1>1, <1>2, <1>3, <1>4, <1>5, <1>6, <1>7, <1>8, <1>9, <1>10, <1>11, <1>12, <1>13,
     <1>14 DEF LimiterNext

(* No process ever waits for longer than Telegram asked, for any number of *)
(* workers and management operations, any waits and any resolution.        *)
THEOREM CooldownsNeverGrow == LimiterSpec => []CooldownsAreTelegrams
<1>1. LimiterInv => CooldownsAreTelegrams
  BY DEF LimiterInv
<1> QED
  BY <1>1, LimiterInitial, LimiterStep, PTL DEF LimiterSpec

-----------------------------------------------------------------------------
(* The lease, and what a worker that holds it knows of the row.            *)

HoldsLease(p) ==
  at[p] \in IF p \in Runners THEN {"loop", "acquire", "wait", "interval", "send", "answer"}
                             ELSE {"send", "answer"}

(* Whoever may send has the lease, so nobody else receives a FloodWait; a  *)
(* worker that sleeps sleeps for the row's cooldown, and one that has      *)
(* slept has outlived it.                                                  *)
OneSender ==
  \A p \in Users : (HoldsLease(p) => holder = p) /\ (at[p] = "loop" => p \in Runners)

KnowsTheRow ==
  \A p \in Runners :
    /\ (at[p] = "wait" /\ stored > 0) => memory[p] >= stored
    /\ at[p] \in {"interval", "send"} => stored = 0

HonourInv == LimiterTypeOK /\ OneSender /\ KnowsTheRow

LEMMA HonourInitial == LimiterInit => HonourInv
<1>1. LimiterInit => LimiterTypeOK
  BY LimiterInitial DEF LimiterInv
<1> QED
  BY <1>1, LimiterFacts DEF LimiterInit, HonourInv, OneSender, HoldsLease, KnowsTheRow

(* Steps of one process, and what they leave to the others.               *)
LEMMA LeaseStays ==
  ASSUME HonourInv, NEW p \in Users, NEW place,
         Move(p, place), holder' = holder,
         HoldsLease(p)' => HoldsLease(p), place = "loop" => p \in Runners
  PROVE  OneSender'
<1>1. ASSUME NEW q \in Users, q # p PROVE at'[q] = at[q]
  BY <1>1 DEF HonourInv, LimiterTypeOK, Move
<1>2. at'[p] = place
  BY DEF HonourInv, LimiterTypeOK, Move
<1>3. ASSUME NEW q \in Users
      PROVE  (HoldsLease(q)' => holder' = q) /\ (at'[q] = "loop" => q \in Runners)
  <2>1. CASE q = p
    BY <1>2, <2>1 DEF HonourInv, OneSender
  <2>2. CASE q # p
    BY <1>1, <2>2 DEF HonourInv, OneSender, HoldsLease
  <2> QED BY <2>1, <2>2
<1> QED BY <1>3 DEF OneSender

(* The holder of the lease gives it back, or nobody has it and one takes it.*)
LEMMA LeaseMoves ==
  ASSUME HonourInv, NEW p \in Users, NEW place,
         Move(p, place), holder \in {p, NoHolder}, holder' \in {p, NoHolder},
         holder' = NoHolder => ~HoldsLease(p)', place = "loop" => p \in Runners
  PROVE  OneSender'
<1>1. ASSUME NEW q \in Users, q # p PROVE at'[q] = at[q] /\ ~HoldsLease(q)
  BY <1>1, LimiterFacts DEF HonourInv, LimiterTypeOK, OneSender, Move
<1>2. at'[p] = place
  BY DEF HonourInv, LimiterTypeOK, Move
<1>3. ASSUME NEW q \in Users
      PROVE  (HoldsLease(q)' => holder' = q) /\ (at'[q] = "loop" => q \in Runners)
  <2>1. CASE q = p
    BY <1>2, <2>1
  <2>2. CASE q # p
    BY <1>1, <2>2 DEF HonourInv, OneSender, HoldsLease
  <2> QED BY <2>1, <2>2
<1> QED BY <1>3 DEF OneSender

LEMMA RowKnown ==
  ASSUME HonourInv, NEW p \in Users, NEW place,
         Move(p, place), stored' \in {0, stored},
         \A q \in Users : q # p => memory'[q] = memory[q],
         (p \in Runners /\ place = "wait" /\ stored' > 0) => memory'[p] >= stored',
         (p \in Runners /\ place \in {"interval", "send"}) => stored' = 0
  PROVE  KnowsTheRow'
<1>1. at'[p] = place /\ \A q \in Users : q # p => at'[q] = at[q]
  BY DEF HonourInv, LimiterTypeOK, Move
<1>2. ASSUME NEW q \in Runners
      PROVE  /\ (at'[q] = "wait" /\ stored' > 0) => memory'[q] >= stored'
             /\ at'[q] \in {"interval", "send"} => stored' = 0
  <2>1. CASE q = p
    BY <1>1, <2>1
  <2>2. CASE q # p
    BY <1>1, <2>2, LimiterFacts DEF HonourInv, KnowsTheRow
  <2> QED BY <2>1, <2>2
<1> QED BY <1>2 DEF KnowsTheRow

(* One step of each kind.                                                  *)
LEMMA RunnerOrManager == \A p \in Users : p \in Runners <=> p \notin Managers
BY LimiterAssumption DEF Users

LEMMA Cleared ==
  ASSUME HonourInv, NEW p \in Users, ClearBlock(p)
  PROVE  stored' \in {0, stored} /\ \A q \in Users : q # p => memory'[q] = memory[q]
BY DEF HonourInv, LimiterTypeOK, ClearBlock

LEMMA HonourStep ==
  ASSUME LimiterInv, HonourInv, [LimiterNext]_limiterVars PROVE HonourInv'
<1> USE DEF HoldsLease
<1>t. /\ at \in [Users -> {"idle", "claim", "loop", "acquire", "wait", "interval",
                          "send", "answer"}]
      /\ memory \in [Users -> {NoBlock} \cup Nat] /\ stored \in Nat
  BY DEF HonourInv, LimiterTypeOK
<1>1. LimiterTypeOK'
  BY LimiterStep DEF LimiterInv
<1>2. CASE UNCHANGED limiterVars
  BY <1>1, <1>2 DEF limiterVars, HonourInv, OneSender, KnowsTheRow
<1>3. CASE LimiterTick
  <2>1. OneSender'
    BY <1>3 DEF LimiterTick, HonourInv, OneSender
  <2>2. KnowsTheRow'
    <3> SUFFICES ASSUME NEW p \in Runners
                 PROVE  /\ (at[p] = "wait" /\ stored' > 0) => memory'[p] >= stored'
                        /\ at[p] \in {"interval", "send"} => stored' = 0
      BY <1>3 DEF LimiterTick, KnowsTheRow
    <3>1. p \in Users /\ memory[p] \in {-1} \cup Nat
      BY <1>t, LimiterFacts DEF NoBlock
    <3>2. memory'[p] = Less(memory[p]) /\ stored' = Less(stored)
      BY <1>3, <3>1 DEF LimiterTick
    <3> QED BY <1>t, <3>1, <3>2 DEF HonourInv, KnowsTheRow, Less
  <2> QED BY <1>1, <2>1, <2>2 DEF HonourInv
<1>4. ASSUME NEW p \in Users, NewRun(p) PROVE OneSender' /\ KnowsTheRow'
  BY <1>t, <1>4, LeaseStays, RowKnown DEF NewRun, Move
<1>5. ASSUME NEW p \in Users, NewOperation(p) PROVE OneSender' /\ KnowsTheRow'
  BY <1>t, <1>5, LeaseStays, RowKnown, RunnerOrManager DEF NewOperation, Move
<1>6. ASSUME NEW p \in Users, ClaimLease(p) PROVE OneSender' /\ KnowsTheRow'
  <2>1. CASE holder = NoHolder /\ holder' = p /\ Move(p, IF p \in Runners THEN "loop" ELSE "send")
    <3>1. OneSender'
      BY <2>1, LeaseMoves, LimiterFacts
    <3>2. KnowsTheRow'
      BY <1>6, <2>1, RowKnown DEF ClaimLease
    <3> QED BY <3>1, <3>2
  <2>2. CASE Move(p, "idle") /\ UNCHANGED holder
    BY <1>t, <1>6, <2>2, LeaseStays, RowKnown DEF ClaimLease, Move
  <2> QED BY <1>6, <2>1, <2>2 DEF ClaimLease
<1>7. ASSUME NEW p \in Users, EndRun(p) PROVE OneSender' /\ KnowsTheRow'
  <2>1. holder = p /\ p \in Runners
    BY <1>7 DEF EndRun, HonourInv, OneSender
  <2> QED BY <1>t, <1>7, <2>1, LeaseMoves, RowKnown DEF EndRun, Move
<1>8. ASSUME NEW p \in Users, IsNotBlocked(p) PROVE OneSender' /\ KnowsTheRow'
  <2>1. p \in Runners
    BY <1>8 DEF IsNotBlocked, HonourInv, OneSender
  <2> QED BY <1>t, <1>8, <2>1, LeaseStays, RowKnown, Cleared DEF IsNotBlocked, Move
<1>9. ASSUME NEW p \in Users, StartAcquire(p) PROVE OneSender' /\ KnowsTheRow'
  <2>1. OneSender'
    BY <1>t, <1>9, LeaseStays DEF StartAcquire, Move
  <2>2. /\ stored > 0 => memory'[p] = stored
        /\ \A q \in Users : q # p => memory'[q] = memory[q]
    BY <1>t, <1>9 DEF StartAcquire, Reloaded
  <2>3. KnowsTheRow'
    BY <1>t, <1>9, <2>2, RowKnown DEF StartAcquire
  <2> QED BY <2>1, <2>3
<1>10. ASSUME NEW p \in Users, WaitedOut(p) PROVE OneSender' /\ KnowsTheRow'
  <2>1. OneSender'
    BY <1>t, <1>10, LeaseStays DEF WaitedOut, Move
  <2>2. p \in Runners => stored = 0
    BY <1>t, <1>10 DEF WaitedOut, HonourInv, KnowsTheRow, NoBlock
  <2>3. stored' \in {0, stored} /\ \A q \in Users : q # p => memory'[q] = memory[q]
    BY <1>10, Cleared DEF WaitedOut
  <2>4. KnowsTheRow'
    BY <1>10, <2>2, <2>3, RowKnown DEF WaitedOut
  <2> QED BY <2>1, <2>4
<1>11. ASSUME NEW p \in Users, EndAcquire(p) PROVE OneSender' /\ KnowsTheRow'
  <2>1. OneSender'
    BY <1>t, <1>11, LeaseStays DEF EndAcquire, Move
  <2>2. p \in Runners => stored = 0
    BY <1>11 DEF EndAcquire, HonourInv, KnowsTheRow
  <2>3. KnowsTheRow'
    BY <1>11, <2>2, RowKnown DEF EndAcquire
  <2> QED BY <2>1, <2>3
<1>12. ASSUME NEW p \in Users, Send(p) PROVE OneSender' /\ KnowsTheRow'
  BY <1>t, <1>12, LeaseStays, RowKnown DEF Send, Move
<1>13. ASSUME NEW p \in Users, AfterAnswer(p), at[p] = "answer" PROVE OneSender'
  <2>1. holder = p
    BY <1>13 DEF HonourInv, OneSender
  <2>2. CASE p \in Runners
    BY <1>t, <1>13, <2>2, LeaseStays DEF AfterAnswer, Move
  <2>3. CASE p \notin Runners
    BY <1>t, <1>13, <2>1, <2>3, LeaseMoves DEF AfterAnswer, Move
  <2> QED BY <2>2, <2>3
<1>14. ASSUME NEW p \in Users, RegisterSuccess(p) PROVE OneSender' /\ KnowsTheRow'
  <2>1. KnowsTheRow'
    BY <1>14, RowKnown DEF RegisterSuccess, AfterAnswer
  <2> QED BY <1>13, <1>14, <2>1 DEF RegisterSuccess
<1>15. ASSUME NEW p \in Users, Die(p) PROVE OneSender' /\ KnowsTheRow'
  <2>1. CASE holder = p
    <3>1. OneSender'
      BY <1>t, <1>15, <2>1, LeaseMoves DEF Die, Move
    <3>2. KnowsTheRow'
      BY <1>t, <1>15, RowKnown DEF Die
    <3> QED BY <3>1, <3>2
  <2>2. CASE holder # p
    <3>1. OneSender'
      BY <1>t, <1>15, <2>2, LeaseStays DEF Die, Move
    <3>2. KnowsTheRow'
      BY <1>t, <1>15, RowKnown DEF Die
    <3> QED BY <3>1, <3>2
  <2> QED BY <2>1, <2>2
(* A FloodWait reaches the holder of the lease: no worker is between its   *)
(* reload and its request.                                                 *)
<1>16. ASSUME NEW p \in Users, NEW s \in FloodSeconds, RegisterRateLimit(p, s)
       PROVE  OneSender' /\ KnowsTheRow'
  <2>1. OneSender'
    BY <1>13, <1>16 DEF RegisterRateLimit
  <2>2. ASSUME NEW q \in Runners PROVE at'[q] \notin {"wait", "interval", "send"}
    <3>1. q \in Users /\ holder = p
      BY <1>16, LimiterFacts DEF RegisterRateLimit, HonourInv, OneSender
    <3>2. CASE q = p
      BY <1>t, <1>16, <3>1, <3>2 DEF RegisterRateLimit, AfterAnswer, Move
    <3>3. CASE q # p
      <4>1. at'[q] = at[q]
        BY <1>t, <1>16, <3>1, <3>3 DEF RegisterRateLimit, AfterAnswer, Move
      <4>2. ~HoldsLease(q)
        BY <3>1, <3>3 DEF HonourInv, OneSender
      <4> QED BY <4>1, <4>2
    <3> QED BY <3>2, <3>3
  <2>3. KnowsTheRow'
    BY <2>2 DEF KnowsTheRow
  <2> QED BY <2>1, <2>3
<1> QED
  BY <1>1, <1>2, <1>3, <1>4, <1>5, <1>6, <1>7, <1>8, <1>9, <1>10, <1>11, <1>12, <1>14,
     <1>15, <1>16 DEF HonourInv, LimiterNext

(* No worker sends a request while another process's cooldown is in the    *)
(* row (RateLimitManager.acquire, _reload_from_db).                        *)
THEOREM StoredCooldownsBind == LimiterSpec => WorkersHonourStoredCooldown
<1>1. HonourInv => \A p \in Runners : at[p] = "send" => stored = 0
  BY DEF HonourInv, KnowsTheRow
<1>2. (HonourInv /\ [LimiterNext]_limiterVars)
        => [\A p \in Runners : Sends(p) => stored = 0]_limiterVars
  BY <1>1 DEF Sends
<1> QED
  BY <1>2, LimiterInitial, LimiterStep, HonourInitial, HonourStep, PTL
     DEF LimiterSpec, WorkersHonourStoredCooldown
=============================================================================
