-------------------------- MODULE LiveStreamProofs --------------------------
(***************************************************************************)
(* What holds of LiveStream for every set of accounts, devices and         *)
(* publishers, and for every capacity: its state is well formed, and a     *)
(* replay buffer is bounded and never forgets a message silently.  And of  *)
(* Playlists, whose followers are told of a change by that hub, for every  *)
(* number of guests, devices, tracks and edits in a batch.                 *)
(***************************************************************************)
EXTENDS LiveStream, Playlists, FiniteSetTheorems, SequenceTheorems,
        WellFoundedInduction, TLAPS

ReplayType == [messages : Seq(WsMessage), forgottenThrough : Nat]

LEMMA MessagesTyped ==
  ASSUME NEW r \in ReplayType
  PROVE  \A i \in 1 .. Len(r.messages) :
           r.messages[i] \in WsMessage /\ r.messages[i].seq \in Nat
<1>1. r.messages \in Seq(WsMessage)
  BY DEF ReplayType
<1>2. \A i \in 1 .. Len(r.messages) : r.messages[i] \in WsMessage
  BY <1>1
<1> QED
  BY <1>2 DEF WsMessage

(* Dropping a prefix of a well-formed buffer leaves a well-formed buffer. *)
LEMMA ForgetType ==
  ASSUME NEW r \in ReplayType, NEW k \in 0 .. Len(r.messages),
         NEW q \in Forget(r, k)
  PROVE  /\ q \in ReplayType
         /\ Len(q.messages) = Len(r.messages) - k
<1>1. \A i \in 1 .. k : r.messages[i].seq \in Nat
  BY MessagesTyped
<1>2. q.forgottenThrough \in Nat
  BY <1>1 DEF Forget, ReplayType
<1>3. q.messages = SubSeq(r.messages, k + 1, Len(r.messages))
  BY DEF Forget
<1>4. q = [messages |-> q.messages, forgottenThrough |-> q.forgottenThrough]
  BY DEF Forget
<1>5. q.messages \in Seq(WsMessage) /\ Len(q.messages) = Len(r.messages) - k
  BY <1>3 DEF ReplayType
<1> QED
  BY <1>2, <1>4, <1>5 DEF ReplayType

(* What a dropped prefix held is at or below the position forgotten, which *)
(* never moves back.                                                       *)
LEMMA ForgetKeeps ==
  ASSUME NEW r \in ReplayType, NEW k \in 0 .. Len(r.messages),
         NEW q \in Forget(r, k),
         NEW m \in Elements(r.messages), m.seq > q.forgottenThrough
  PROVE  m \in Elements(q.messages)
<1>1. PICK i \in 1 .. Len(r.messages) : m = r.messages[i]
  BY DEF Elements
<1>2. \A j \in 1 .. k : r.messages[j].seq <= q.forgottenThrough
  <2>1. \A j \in 1 .. k : q.forgottenThrough >= r.messages[j].seq
    BY DEF Forget
  <2>2. \A j \in 1 .. k : r.messages[j].seq \in Nat
    BY MessagesTyped
  <2>3. q.forgottenThrough \in Nat
    BY ForgetType DEF ReplayType
  <2> QED
    BY <2>1, <2>2, <2>3
<1>3. r.messages[i].seq \in Nat /\ q.forgottenThrough \in Nat
  BY ForgetType, MessagesTyped DEF ReplayType
<1>4. i > k
  BY <1>1, <1>2, <1>3
<1>5. q.messages = SubSeq(r.messages, k + 1, Len(r.messages))
  BY DEF Forget
<1>6. r.messages \in Seq(WsMessage)
  BY DEF ReplayType
<1>7. /\ Len(q.messages) = Len(r.messages) - k
      /\ i - k \in 1 .. Len(q.messages)
      /\ q.messages[i - k] = r.messages[i]
  BY <1>4, <1>5, <1>6
<1> QED
  BY <1>1, <1>7 DEF Elements

LEMMA ForgetMonotone ==
  ASSUME NEW r, NEW k, NEW q \in Forget(r, k)
  PROVE  q.forgottenThrough >= r.forgottenThrough
BY DEF Forget

(* Expiry, whatever has grown too old. *)
LEMMA ExpiredFacts ==
  ASSUME NEW r \in ReplayType, NEW q \in Expired(r)
  PROVE  /\ q \in ReplayType
         /\ Len(q.messages) <= Len(r.messages)
         /\ q.forgottenThrough >= r.forgottenThrough
         /\ \A m \in Elements(r.messages) :
              m.seq > q.forgottenThrough => m \in Elements(q.messages)
<1>1. PICK k \in 0 .. Len(r.messages) : q \in Forget(r, k)
  BY DEF Expired
<1>2. Len(r.messages) \in Nat
  BY DEF ReplayType
<1> QED
  BY <1>1, <1>2, ForgetType, ForgetKeeps, ForgetMonotone

(* Pushing keeps the new message, and everything above what is forgotten. *)
LEMMA PushedFacts ==
  ASSUME NEW r \in ReplayType, NEW m \in WsMessage,
         NEW capacity \in Nat \ {0}, NEW q \in Pushed(r, m, capacity)
  PROVE  /\ q \in ReplayType
         /\ Len(q.messages) <= capacity
         /\ q.forgottenThrough >= r.forgottenThrough
         /\ \A n \in Elements(r.messages) \cup {m} :
              n.seq > q.forgottenThrough => n \in Elements(q.messages)
<1> DEFINE grown == [r EXCEPT !.messages = Append(@, m)]
<1>1. PICK k \in 0 .. Len(r.messages) :
        Len(grown.messages) - k <= capacity /\ q \in Forget(grown, k)
  BY DEF Pushed
<1>2. /\ grown \in ReplayType
      /\ grown.messages = Append(r.messages, m)
      /\ grown.forgottenThrough = r.forgottenThrough
      /\ Len(grown.messages) = Len(r.messages) + 1
      /\ Len(r.messages) \in Nat
  <2>1. r.messages \in Seq(WsMessage) /\ r.forgottenThrough \in Nat
    BY DEF ReplayType
  <2>2. /\ grown.messages = Append(r.messages, m)
        /\ grown.forgottenThrough = r.forgottenThrough
    BY DEF ReplayType
  <2>3. /\ Append(r.messages, m) \in Seq(WsMessage)
        /\ Len(Append(r.messages, m)) = Len(r.messages) + 1
        /\ Len(r.messages) \in Nat
    BY <2>1
  <2>4. grown \in ReplayType
    BY <2>1, <2>3 DEF ReplayType
  <2> QED
    BY <2>2, <2>3, <2>4
<1>3. Elements(r.messages) \cup {m} \subseteq Elements(grown.messages)
  <2>1. r.messages \in Seq(WsMessage)
    BY DEF ReplayType
  <2>2. \A i \in 1 .. Len(r.messages) : Append(r.messages, m)[i] = r.messages[i]
    BY <2>1
  <2>3. Append(r.messages, m)[Len(r.messages) + 1] = m
    BY <2>1
  <2> QED
    BY <1>2, <2>1, <2>2, <2>3 DEF Elements
<1>4. k \in 0 .. Len(grown.messages)
  BY <1>2
<1> HIDE DEF grown
<1>5. q \in ReplayType /\ Len(q.messages) = Len(grown.messages) - k
  BY <1>1, <1>2, <1>4, ForgetType
<1>6. q.forgottenThrough >= r.forgottenThrough
  BY <1>1, <1>2, ForgetMonotone
<1>7. \A n \in Elements(grown.messages) :
        n.seq > q.forgottenThrough => n \in Elements(q.messages)
  BY <1>1, <1>2, <1>4, ForgetKeeps
<1> QED
  BY <1>1, <1>3, <1>5, <1>6, <1>7

----------------------------------------------------------------------------
(* Every variable keeps its type. *)

LEMMA CapacityType ==
  /\ \A s \in Streams : ReplayCapacity(s) \in Nat \ {0}
  /\ \A s \in Streams : ChannelCapacity(s) \in Nat \ {0}
BY StreamAssumption DEF ReplayCapacity, ChannelCapacity, Streams

LEMMA OwnerStream == \A d \in Devices : Owner[d] \in Streams /\ Owner[d] \in Users
BY StreamAssumption DEF Streams

RxType == [queue : Seq(WsMessage), lagged : BOOLEAN]

LEMMA EnqueuedType ==
  ASSUME NEW q \in RxType, NEW m \in WsMessage, NEW capacity \in Nat \ {0}
  PROVE  Enqueued(q, m, capacity) \in RxType
<1>1. q.queue \in Seq(WsMessage) /\ Append(q.queue, m) \in Seq(WsMessage)
  BY DEF RxType
<1>2. CASE Len(q.queue) < capacity
  BY <1>1, <1>2 DEF Enqueued, RxType
<1>3. CASE ~(Len(q.queue) < capacity)
  <2>1. q.queue # <<>>
    BY <1>1, <1>3
  <2>2. Append(Tail(q.queue), m) \in Seq(WsMessage)
    BY <1>1, <2>1
  <2> QED
    BY <1>3, <2>2 DEF Enqueued, RxType
<1> QED
  BY <1>2, <1>3

LEMMA InitType == Init => TypeOK
<1> SUFFICES ASSUME Init PROVE TypeOK
  OBVIOUS
<1>1. Empty \in ReplayType /\ NoBacklog \in RxType
  BY DEF Empty, ReplayType, NoBacklog, RxType
<1>2. NoMessage \in Position
  BY DEF NoMessage, Position
<1> QED
  BY <1>1, <1>2
  DEF Init, TypeOK, Quiet, NoResume, ReplayType, RxType, FirstSeq

(* The three steps of publishing. *)
LEMMA PublishType ==
  ASSUME TypeOK, NEW p \in Publishers,
         \/ \E a \in Address : Stamp(p, a[1], a[2])
         \/ Remember(p) \/ Send(p)
  PROVE  TypeOK'
<1>1. ASSUME NEW a \in Address, Stamp(p, a[1], a[2]) PROVE TypeOK'
  <2> DEFINE m == [to |-> a[1], device |-> a[2], seq |-> nextSeq, boot |-> boot]
  <2>1. a[1] \in Streams /\ a[2] \in Devices \cup {AnyDevice}
    BY OwnerStream DEF Address
  <2>2. m \in WsMessage
    BY <2>1 DEF TypeOK, WsMessage
  <2> HIDE DEF m
  <2>3. publisher' = [publisher EXCEPT ![p] = [at |-> "stamped", msg |-> m]]
        /\ published' = published \cup {m}
        /\ nextSeq' = nextSeq + 1
    BY <1>1 DEF Stamp, m
  <2> QED
    BY <1>1, <2>2, <2>3 DEF Stamp, TypeOK, sessionVars
<1>2. ASSUME Remember(p) PROVE TypeOK'
  <2>1. publisher[p] \in [at : {"stamped", "remembered"}, msg : WsMessage]
    BY <1>2 DEF Remember, TypeOK, Idle
  <2> DEFINE m == publisher[p].msg
  <2>2. m \in WsMessage /\ m.to \in Streams
    BY <2>1 DEF WsMessage
  <2>3. PICK r \in Pushed(replay[m.to], m, ReplayCapacity(m.to)) :
          replay' = [replay EXCEPT ![m.to] = r]
    BY <1>2 DEF Remember
  <2>4. r \in ReplayType
    BY <2>2, <2>3, PushedFacts, CapacityType DEF TypeOK, ReplayType
  <2>5. replay' \in [Streams -> ReplayType]
    BY <2>2, <2>3, <2>4 DEF TypeOK, ReplayType
  <2>6. publisher' = [publisher EXCEPT ![p].at = "remembered"]
    BY <1>2 DEF Remember
  <2>7. publisher'[p] \in [at : {"stamped", "remembered"}, msg : WsMessage]
    BY <2>1, <2>6 DEF TypeOK
  <2>8. publisher' \in [Publishers ->
          {Idle} \cup [at : {"stamped", "remembered"}, msg : WsMessage]]
    BY <2>6, <2>7 DEF TypeOK
  <2> QED
    BY <1>2, <2>5, <2>8 DEF Remember, TypeOK, sessionVars, ReplayType
<1>3. ASSUME Send(p) PROVE TypeOK'
  <2> DEFINE m == publisher[p].msg
  <2>1. m \in WsMessage /\ m.to \in Streams
    BY <1>3 DEF Send, TypeOK, Idle, WsMessage
  <2>2. \A d \in Devices :
          Enqueued(rx[d][m.to], m, ChannelCapacity(m.to)) \in RxType
    BY <2>1, EnqueuedType, CapacityType DEF TypeOK, RxType
  <2>3. \A d \in Devices :
          \/ rx'[d] = rx[d]
          \/ rx'[d] = [rx[d] EXCEPT ![m.to] =
                          Enqueued(rx[d][m.to], m, ChannelCapacity(m.to))]
    BY <1>3 DEF Send
  <2>4. ASSUME NEW d \in Devices PROVE rx'[d] \in [Streams -> RxType]
    <3>1. rx[d] \in [Streams -> RxType]
      BY DEF TypeOK, RxType
    <3> HIDE DEF m
    <3> QED
      BY <2>1, <2>2, <2>3, <3>1
  <2>5. rx' \in [Devices -> [Streams -> RxType]]
    BY <1>3, <2>4 DEF Send
  <2>6. publisher' \in [Publishers ->
          {Idle} \cup [at : {"stamped", "remembered"}, msg : WsMessage]]
    BY <1>3 DEF Send, TypeOK
  <2> QED
    BY <1>3, <2>5, <2>6 DEF Send, TypeOK, RxType
<1> QED
  BY <1>1, <1>2, <1>3

(* What a socket's task and its client do. *)
LEMMA SocketType ==
  ASSUME TypeOK, NEW d \in Devices,
         \/ Connect(d) \/ Authenticate(d) \/ Disconnect(d)
         \/ \E s \in {Everyone, Owner[d]} : Take(d, s)
         \/ ReadGlobal(d) \/ ReadOwn(d) \/ Answer(d) \/ SendMissed(d)
         \/ Receive(d)
  PROVE  TypeOK'
<1> DEFINE ResumeType == [step : {"none", "asked", "own", "answer", "missed"},
                          after : Position, found : SUBSET WsMessage,
                          gap : BOOLEAN]
<1>r. resume[d] \in ResumeType /\ rx[d] \in [Streams -> RxType]
      /\ out[d] \in Seq(Frame) /\ Everyone \in Streams /\ Owner[d] \in Streams
  BY OwnerStream DEF TypeOK, RxType, Streams
<1>a. ASSUME NEW after, NEW r \in ReplayType
      PROVE  After(r, after, d) \subseteq WsMessage
  BY MessagesTyped DEF After, Elements
<1>1. CASE Connect(d)
  <2>0. resume \in [Devices -> ResumeType] /\ position[d] \in Position
    BY DEF TypeOK
  <2>1. resume' \in [Devices -> ResumeType]
    <3>1. [resume[d] EXCEPT !.after = position[d]] \in ResumeType
      BY <1>r, <2>0
    <3>2. resume' = [resume EXCEPT ![d] = [resume[d] EXCEPT !.after = position[d]]]
      BY <1>1 DEF Connect
    <3> HIDE DEF ResumeType
    <3> QED
      BY <2>0, <3>1, <3>2
  <2> QED
    BY <1>1, <2>1 DEF Connect, TypeOK, serverVars
<1>2. CASE Authenticate(d)
  <2>0. resume \in [Devices -> ResumeType]
    BY DEF TypeOK
  <2>1. resume' \in [Devices -> ResumeType]
    <3>1. [resume[d] EXCEPT !.step = "asked"] \in ResumeType
      BY <1>r
    <3>2. resume' = [resume EXCEPT ![d] = [resume[d] EXCEPT !.step = "asked"]]
      BY <1>2 DEF Authenticate
    <3> HIDE DEF ResumeType
    <3> QED
      BY <2>0, <3>1, <3>2
  <2>2. channels' \subseteq Users
    BY <1>2, OwnerStream DEF Authenticate, TypeOK
  <2> QED
    BY <1>2, <2>1, <2>2 DEF Authenticate, TypeOK
<1>3. CASE Disconnect(d)
  <2>1. NoResume \in ResumeType /\ Quiet[d] \in [Streams -> RxType]
    BY DEF NoResume, Quiet, NoBacklog, NoMessage, Position, RxType
  <2>2. rx' \in [Devices -> [Streams -> RxType]] /\ resume' \in [Devices -> ResumeType]
    BY <1>3, <2>1 DEF Disconnect, TypeOK, RxType
  <2> QED
    BY <1>3, <2>2 DEF Disconnect, TypeOK, serverVars, RxType
<1>4. ASSUME NEW s \in {Everyone, Owner[d]}, Take(d, s) PROVE TypeOK'
  <2>1. rx[d][s] \in RxType /\ s \in Streams
    BY <1>r
  <2>2. CASE rx[d][s].lagged
    <3>1. rx' = [rx EXCEPT ![d][s].lagged = FALSE]
          /\ out' = [out EXCEPT ![d] =
                       Append(@, [kind |-> "RESUMED", resync |-> TRUE])]
      BY <1>4, <2>2 DEF Take
    <3>2. [kind |-> "RESUMED", resync |-> TRUE] \in Frame
      BY DEF Frame
    <3>3. out' \in [Devices -> Seq(Frame)]
      BY <1>r, <3>1, <3>2 DEF TypeOK
    <3>4. [rx[d][s] EXCEPT !.lagged = FALSE] \in RxType
      BY <2>1 DEF RxType
    <3>5. rx' \in [Devices -> [Streams -> RxType]]
      BY <1>r, <2>1, <3>1, <3>4 DEF TypeOK, RxType
    <3> QED
      BY <1>4, <3>3, <3>5 DEF Take, TypeOK, serverVars, RxType
  <2>3. CASE ~rx[d][s].lagged
    <3> DEFINE m == Head(rx[d][s].queue)
    <3>1. /\ rx[d][s].queue # <<>>
          /\ rx' = [rx EXCEPT ![d][s].queue = Tail(@)]
          /\ out' = IF IsFor(m, d)
                    THEN [out EXCEPT ![d] =
                            Append(@, [kind |-> "message", msg |-> m])]
                    ELSE out
      BY <1>4, <2>3 DEF Take
    <3>2. m \in WsMessage /\ Tail(rx[d][s].queue) \in Seq(WsMessage)
      BY <2>1, <3>1 DEF RxType
    <3> HIDE DEF m
    <3>3. [kind |-> "message", msg |-> m] \in Frame
      BY <3>2 DEF Frame
    <3>4. out' \in [Devices -> Seq(Frame)]
      BY <1>r, <3>1, <3>3 DEF TypeOK
    <3>5. [rx[d][s] EXCEPT !.queue = Tail(@)] \in RxType
      BY <2>1, <3>2 DEF RxType
    <3>6. rx' \in [Devices -> [Streams -> RxType]]
      BY <1>r, <2>1, <3>1, <3>5 DEF TypeOK, RxType
    <3> QED
      BY <1>4, <3>4, <3>6 DEF Take, TypeOK, serverVars, RxType
  <2> QED
    BY <2>2, <2>3
<1>5. CASE ReadGlobal(d)
  <2>1. CASE UNCHANGED replay
             /\ resume' = [resume EXCEPT ![d].step = "answer", ![d].gap = TRUE]
    <3>1. resume' \in [Devices -> ResumeType]
      BY <1>r, <2>1 DEF TypeOK
    <3> QED
      BY <1>5, <2>1, <3>1 DEF ReadGlobal, TypeOK
  <2>2. ASSUME NEW r \in Expired(replay[Everyone]),
               replay' = [replay EXCEPT ![Everyone] = r],
               \/ resume' = [resume EXCEPT ![d].step = "answer", ![d].gap = TRUE]
               \/ resume' = [resume EXCEPT ![d].step = "own",
                               ![d].found = After(r, resume[d].after.seq, d)]
        PROVE  TypeOK'
    <3>1. replay[Everyone] \in ReplayType
      BY <1>r DEF TypeOK, ReplayType
    <3>2. r \in ReplayType
      BY <2>2, <3>1, ExpiredFacts
    <3>3. replay' \in [Streams -> ReplayType]
      BY <1>r, <2>2, <3>2 DEF TypeOK, ReplayType
    <3>4. After(r, resume[d].after.seq, d) \subseteq WsMessage
      BY <1>a, <3>2
    <3>5. resume' \in [Devices -> ResumeType]
      <4> DEFINE found == After(r, resume[d].after.seq, d)
      <4> HIDE DEF found
      <4>1. found \subseteq WsMessage
        BY <3>4 DEF found
      <4>2. CASE resume' = [resume EXCEPT ![d].step = "own", ![d].found = found]
        BY <1>r, <4>1, <4>2 DEF TypeOK
      <4>3. CASE resume' = [resume EXCEPT ![d].step = "answer", ![d].gap = TRUE]
        BY <1>r, <4>3 DEF TypeOK
      <4> QED
        BY <2>2, <4>2, <4>3 DEF found
    <3> QED
      BY <1>5, <3>3, <3>5 DEF ReadGlobal, TypeOK, ReplayType
  <2> QED
    BY <1>5, <2>1, <2>2 DEF ReadGlobal
<1>6. CASE ReadOwn(d)
  <2>1. PICK r \in Expired(replay[Owner[d]]) :
          /\ replay' = [replay EXCEPT ![Owner[d]] = r]
          /\ \/ resume' = [resume EXCEPT ![d].step = "answer", ![d].gap = TRUE,
                                         ![d].found = {}]
             \/ resume' = [resume EXCEPT ![d].step = "answer",
                             ![d].found = @ \cup After(r, resume[d].after.seq, d)]
    BY <1>6 DEF ReadOwn
  <2>2. replay[Owner[d]] \in ReplayType
    BY <1>r DEF TypeOK, ReplayType
  <2>3. r \in ReplayType
    BY <2>1, <2>2, ExpiredFacts
  <2>4. replay' \in [Streams -> ReplayType]
    BY <1>r, <2>1, <2>3 DEF TypeOK, ReplayType
  <2>5. After(r, resume[d].after.seq, d) \subseteq WsMessage
    BY <1>a, <2>3
  <2>6. resume' \in [Devices -> ResumeType]
    <3> DEFINE found == resume[d].found \cup After(r, resume[d].after.seq, d)
    <3> HIDE DEF found
    <3>1. found \subseteq WsMessage
      BY <1>r, <2>5 DEF found
    <3>2. CASE resume' = [resume EXCEPT ![d].step = "answer", ![d].found = found]
      BY <1>r, <3>1, <3>2 DEF TypeOK
    <3>3. CASE resume' = [resume EXCEPT ![d].step = "answer", ![d].gap = TRUE,
                                        ![d].found = {}]
      BY <1>r, <3>3 DEF TypeOK
    <3> QED
      BY <2>1, <3>2, <3>3 DEF found
  <2> QED
    BY <1>6, <2>4, <2>6 DEF ReadOwn, TypeOK, ReplayType
<1>7. CASE Answer(d)
  <2>1. [kind |-> "RESUMED", resync |-> resume[d].gap] \in Frame
    BY <1>r DEF Frame
  <2>2. out' \in [Devices -> Seq(Frame)]
    BY <1>7, <1>r, <2>1 DEF Answer, TypeOK
  <2>3. resume' \in [Devices -> ResumeType]
    BY <1>7, <1>r DEF Answer, TypeOK
  <2> QED
    BY <1>7, <2>2, <2>3 DEF Answer, TypeOK, serverVars
<1>8. CASE SendMissed(d)
  <2>1. PICK m \in resume[d].found :
          /\ out' = [out EXCEPT ![d] = Append(@, [kind |-> "message", msg |-> m])]
          /\ resume' = [resume EXCEPT ![d].found = @ \ {m}]
    BY <1>8 DEF SendMissed
  <2>2. [kind |-> "message", msg |-> m] \in Frame
    BY <1>r, <2>1 DEF Frame
  <2>3. out' \in [Devices -> Seq(Frame)]
    BY <1>r, <2>1, <2>2 DEF TypeOK
  <2>4. resume' \in [Devices -> ResumeType]
    BY <1>r, <2>1 DEF TypeOK
  <2> QED
    BY <1>8, <2>3, <2>4 DEF SendMissed, TypeOK, serverVars
<1>9. CASE Receive(d)
  <2> DEFINE f == Head(out[d])
  <2>1. out' \in [Devices -> Seq(Frame)] /\ f \in Frame
    BY <1>9, <1>r DEF Receive, TypeOK
  <2>2. CASE f.kind = "message"
    <3>1. f.msg \in WsMessage
      BY <2>1, <2>2 DEF Frame
    <3>2. [seq |-> f.msg.seq, boot |-> f.msg.boot] \in Position
      BY <3>1 DEF WsMessage, Position
    <3>3. known' \in [Devices -> SUBSET WsMessage]
      <4>1. known' = [known EXCEPT ![d] = @ \cup {f.msg}]
        BY <1>9, <2>2 DEF Receive
      <4> QED
        BY <3>1, <4>1 DEF TypeOK
    <3>4. position' \in [Devices -> Position]
      BY <1>9, <2>2, <3>2 DEF Receive, TypeOK
    <3> QED
      BY <1>9, <2>1, <3>3, <3>4 DEF Receive, TypeOK, serverVars
  <2>3. CASE f.kind = "RESUMED"
    <3>1. known' \in [Devices -> SUBSET WsMessage]
      <4> DEFINE more == known[d] \cup published
      <4>1. known' = [known EXCEPT ![d] = more] \/ known' = known
        BY <1>9, <2>3 DEF Receive
      <4>2. more \in SUBSET WsMessage
        BY DEF TypeOK
      <4> HIDE DEF more
      <4> QED
        BY <4>1, <4>2 DEF TypeOK
    <3> QED
      BY <1>9, <2>1, <2>3, <3>1 DEF Receive, TypeOK, serverVars
  <2> QED
    BY <2>1, <2>2, <2>3 DEF Frame
<1> QED
  BY <1>1, <1>2, <1>3, <1>4, <1>5, <1>6, <1>7, <1>8, <1>9

(* The sweeper and a restart. *)
LEMMA ServerType ==
  ASSUME TypeOK, (\E s \in Streams : SweepReplay(s)) \/ SweepChannels \/ Restart
  PROVE  TypeOK'
<1>1. ASSUME NEW s \in Streams, SweepReplay(s) PROVE TypeOK'
  <2>1. PICK r \in Expired(replay[s]) : replay' = [replay EXCEPT ![s] = r]
    BY <1>1 DEF SweepReplay
  <2>2. r \in ReplayType
    BY <2>1, ExpiredFacts DEF TypeOK, ReplayType
  <2>3. replay' \in [Streams -> ReplayType]
    BY <2>1, <2>2 DEF TypeOK, ReplayType
  <2> QED
    BY <1>1, <2>3 DEF SweepReplay, TypeOK, sessionVars, ReplayType
<1>2. CASE SweepChannels
  BY <1>2 DEF SweepChannels, TypeOK, sessionVars
<1>3. CASE Restart
  <2>1. Empty \in ReplayType /\ NoBacklog \in RxType /\ NoMessage \in Position
    BY DEF Empty, ReplayType, NoBacklog, RxType, NoMessage, Position
  <2> QED
    BY <1>3, <2>1
    DEF Restart, TypeOK, Quiet, NoResume, ReplayType, RxType, FirstSeq
<1> QED
  BY <1>1, <1>2, <1>3

(* The state is well formed in every reachable state. *)
THEOREM TypeCorrect == Spec => []TypeOK
<1>1. TypeOK /\ [Next]_vars => TypeOK'
  <2> SUFFICES ASSUME TypeOK, [Next]_vars PROVE TypeOK'
    OBVIOUS
  <2>1. CASE UNCHANGED vars
    BY <2>1 DEF vars, TypeOK
  <2>2. CASE Next
    <3>1. Online \subseteq Devices
      BY StreamAssumption
    <3> QED
      BY <2>2, <3>1, PublishType, SocketType, ServerType DEF Next
  <2> QED
    BY <2>1, <2>2
<1> QED
  BY <1>1, InitType, PTL DEF Spec

----------------------------------------------------------------------------
(* Replay buffers. *)

(* A capacity is never exceeded, whoever pushes and whenever it is swept. *)
THEOREM BuffersStayBounded == Spec => []BuffersBounded
<1>1. Init => BuffersBounded
  BY CapacityType DEF Init, BuffersBounded, Empty
<1>2. TypeOK /\ BuffersBounded /\ [Next]_vars => BuffersBounded'
  <2> SUFFICES ASSUME TypeOK, BuffersBounded, [Next]_vars,
                      NEW s \in Streams
               PROVE  Len(replay'[s].messages) <= ReplayCapacity(s)
    BY DEF BuffersBounded
  <2>t. replay \in [Streams -> ReplayType] /\ Everyone \in Streams
        /\ Len(replay[s].messages) <= ReplayCapacity(s)
        /\ Len(replay[s].messages) \in Nat /\ ReplayCapacity(s) \in Nat
    BY CapacityType DEF TypeOK, ReplayType, Streams, BuffersBounded
  <2>e. ASSUME NEW x \in Streams, NEW r \in Expired(replay[x]),
               replay' = [replay EXCEPT ![x] = r]
        PROVE  Len(replay'[s].messages) <= ReplayCapacity(s)
    <3>1. r \in ReplayType /\ Len(r.messages) <= Len(replay[x].messages)
          /\ Len(r.messages) \in Nat
      BY <2>t, ExpiredFacts DEF ReplayType
    <3> QED
      BY <2>t, <2>e, <3>1
  <2>1. ASSUME NEW p \in Publishers, Remember(p)
        PROVE  Len(replay'[s].messages) <= ReplayCapacity(s)
    <3> DEFINE m == publisher[p].msg
    <3>1. m \in WsMessage /\ m.to \in Streams
      BY <2>1 DEF Remember, TypeOK, Idle, WsMessage
    <3>2. PICK r \in Pushed(replay[m.to], m, ReplayCapacity(m.to)) :
            replay' = [replay EXCEPT ![m.to] = r]
      BY <2>1 DEF Remember
    <3>3. Len(r.messages) <= ReplayCapacity(m.to)
      BY <2>t, <3>1, <3>2, PushedFacts, CapacityType
    <3> QED
      BY <2>t, <3>1, <3>2, <3>3
  <2>2. ASSUME NEW d \in Online, ReadGlobal(d) \/ ReadOwn(d)
        PROVE  Len(replay'[s].messages) <= ReplayCapacity(s)
    BY <2>t, <2>e, <2>2, OwnerStream, StreamAssumption DEF ReadGlobal, ReadOwn
  <2>3. ASSUME NEW x \in Streams, SweepReplay(x)
        PROVE  Len(replay'[s].messages) <= ReplayCapacity(s)
    BY <2>e, <2>3 DEF SweepReplay
  <2>4. CASE Restart
    BY <2>4, <2>t DEF Restart, Empty
  <2>5. CASE UNCHANGED replay
    BY <2>5, <2>t
  <2> QED
    BY <2>1, <2>2, <2>3, <2>4, <2>5
    DEF Next, vars, serverVars, Stamp, Send, Connect, Authenticate, Take,
        Disconnect, Answer, SendMissed, Receive, SweepChannels
<1> QED
  BY <1>1, <1>2, TypeCorrect, PTL DEF Spec

(* An expiry, in whichever buffer, forgets nothing silently. *)
LEMMA ExpiryForgetsOpenly ==
  ASSUME TypeOK, RememberedOrForgotten, NEW x \in Streams,
         NEW r \in Expired(replay[x]), replay' = [replay EXCEPT ![x] = r],
         UNCHANGED <<published, publisher, boot>>
  PROVE  RememberedOrForgotten'
<1>1. replay \in [Streams -> ReplayType]
  BY DEF TypeOK, ReplayType
<1> SUFFICES ASSUME NEW s \in Streams, NEW m \in Remembered(s)',
                    m.seq > replay'[s].forgottenThrough
             PROVE  m \in Elements(replay'[s].messages)
  BY DEF RememberedOrForgotten
<1>2. m \in Remembered(s)
  BY DEF Remembered
<1>3. m.seq > replay[s].forgottenThrough => m \in Elements(replay[s].messages)
  BY <1>2 DEF RememberedOrForgotten
<1>4. CASE s # x
  BY <1>1, <1>3, <1>4
<1>5. CASE s = x
  <2>1. replay'[s] = r
    BY <1>1, <1>5
  <2>2. m.seq \in Nat
    BY <1>2 DEF Remembered, TypeOK, WsMessage
  <2>3. r.forgottenThrough >= replay[s].forgottenThrough
        /\ r.forgottenThrough \in Nat /\ replay[s].forgottenThrough \in Nat
    BY <1>1, <1>5, ExpiredFacts DEF ReplayType
  <2>4. m \in Elements(replay[s].messages)
    BY <1>3, <2>1, <2>2, <2>3
  <2> QED
    BY <1>1, <1>5, <2>1, <2>4, ExpiredFacts
<1> QED
  BY <1>4, <1>5

(* No message is of a boot still to come. *)
BootsInOrder == \A m \in published : m.boot <= boot

LEMMA BootsStayInOrder == Spec => []BootsInOrder
<1>1. Init => BootsInOrder
  BY DEF Init, BootsInOrder
<1>2. TypeOK /\ BootsInOrder /\ [Next]_vars => BootsInOrder'
  <2> SUFFICES ASSUME TypeOK, BootsInOrder, [Next]_vars PROVE BootsInOrder'
    OBVIOUS
  <2>t. boot \in Nat /\ \A m \in published : m.boot \in Nat
    BY DEF TypeOK, WsMessage
  <2>1. ASSUME NEW p \in Publishers, NEW a \in Address, Stamp(p, a[1], a[2])
        PROVE  BootsInOrder'
    BY <2>1, <2>t DEF Stamp, BootsInOrder
  <2>2. CASE Restart
    BY <2>2, <2>t DEF Restart, BootsInOrder
  <2>3. CASE UNCHANGED <<published, boot>>
    BY <2>3 DEF BootsInOrder
  <2> QED
    BY <2>1, <2>2, <2>3
    DEF Next, vars, serverVars, Remember, Send, Connect, Authenticate, Take,
        Disconnect, ReadGlobal, ReadOwn, Answer, SendMissed, Receive,
        SweepReplay, SweepChannels
<1> QED
  BY <1>1, <1>2, TypeCorrect, PTL DEF Spec

(* One step of the server keeps every buffer honest about what it forgot. *)
LEMMA RememberedStep ==
  TypeOK /\ BootsInOrder /\ RememberedOrForgotten /\ [Next]_vars
    => RememberedOrForgotten'
<1> SUFFICES ASSUME TypeOK, BootsInOrder, RememberedOrForgotten, [Next]_vars
             PROVE  RememberedOrForgotten'
  OBVIOUS
<1>t. replay \in [Streams -> ReplayType] /\ Everyone \in Streams
  BY DEF TypeOK, ReplayType, Streams
<1>1. ASSUME NEW p \in Publishers, NEW a \in Address, Stamp(p, a[1], a[2])
      PROVE  RememberedOrForgotten'
  <2> DEFINE m == [to |-> a[1], device |-> a[2], seq |-> nextSeq, boot |-> boot]
  <2>1. /\ publisher[p].at = "idle"
        /\ publisher' = [publisher EXCEPT ![p] = [at |-> "stamped", msg |-> m]]
        /\ published' = published \cup {m}
        /\ UNCHANGED <<boot, replay>>
    BY <1>1 DEF Stamp
  <2> HIDE DEF m
  <2>2. publisher'[p] = [at |-> "stamped", msg |-> m]
        /\ \A q \in Publishers : q # p => publisher'[q] = publisher[q]
    BY <2>1 DEF TypeOK
  <2>3. \A s \in Streams : Remembered(s)' \subseteq Remembered(s)
    BY <2>1, <2>2 DEF Remembered
  <2> QED
    BY <2>1, <2>3 DEF RememberedOrForgotten
<1>2. ASSUME NEW p \in Publishers, Remember(p) PROVE RememberedOrForgotten'
  <2> DEFINE m == publisher[p].msg
  <2>1. publisher[p].at = "stamped" /\ UNCHANGED <<published, boot>>
        /\ publisher' = [publisher EXCEPT ![p].at = "remembered"]
    BY <1>2 DEF Remember
  <2>2. m \in WsMessage /\ m.to \in Streams
    BY <2>1 DEF TypeOK, Idle, WsMessage
  <2>3. PICK r \in Pushed(replay[m.to], m, ReplayCapacity(m.to)) :
          replay' = [replay EXCEPT ![m.to] = r]
    BY <1>2 DEF Remember
  <2>4. /\ r.forgottenThrough \in Nat
        /\ r.forgottenThrough >= replay[m.to].forgottenThrough
        /\ \A n \in Elements(replay[m.to].messages) \cup {m} :
             n.seq > r.forgottenThrough => n \in Elements(r.messages)
    BY <1>t, <2>2, <2>3, PushedFacts, CapacityType DEF ReplayType
  <2>5. \A q \in Publishers : q # p => publisher'[q] = publisher[q]
    BY <2>1 DEF TypeOK
  <2> SUFFICES ASSUME NEW s \in Streams, NEW n \in Remembered(s)',
                      n.seq > replay'[s].forgottenThrough
               PROVE  n \in Elements(replay'[s].messages)
    BY DEF RememberedOrForgotten
  <2>6. n \in published /\ n.boot = boot /\ n.to = s /\ n.seq \in Nat
    BY <2>1 DEF Remembered, TypeOK, WsMessage
  <2>7. n = m \/ n \in Remembered(s)
    <3>1. \A q \in Publishers : q # p /\ publisher[q].at = "stamped"
                                => publisher[q].msg # n
      BY <2>5 DEF Remembered
    <3> QED
      BY <2>6, <3>1 DEF Remembered
  <2>8. CASE s = m.to
    <3>1. replay'[s] = r
      BY <1>t, <2>2, <2>3, <2>8
    <3>2. n = m \/ n \in Elements(replay[s].messages)
      BY <1>t, <2>4, <2>6, <2>7, <2>8, <3>1 DEF RememberedOrForgotten, ReplayType
    <3> QED
      BY <2>4, <2>8, <3>1, <3>2
  <2>9. CASE s # m.to
    BY <1>t, <2>3, <2>6, <2>7, <2>9 DEF RememberedOrForgotten
  <2> QED
    BY <2>8, <2>9
<1>3. ASSUME NEW p \in Publishers, Send(p) PROVE RememberedOrForgotten'
  <2>1. /\ publisher[p].at = "remembered" /\ UNCHANGED <<published, boot, replay>>
        /\ publisher' = [publisher EXCEPT ![p] = Idle]
    BY <1>3 DEF Send
  <2>2. publisher'[p].at = "idle"
        /\ \A q \in Publishers : q # p => publisher'[q] = publisher[q]
    BY <2>1 DEF TypeOK, Idle
  <2>3. \A s \in Streams : Remembered(s)' \subseteq Remembered(s)
    BY <2>1, <2>2 DEF Remembered
  <2> QED
    BY <2>1, <2>3 DEF RememberedOrForgotten
<1>4. ASSUME NEW d \in Online, ReadGlobal(d) PROVE RememberedOrForgotten'
  <2>1. UNCHANGED <<published, publisher, boot>>
    BY <1>4 DEF ReadGlobal
  <2>2. CASE UNCHANGED replay
    BY <2>1, <2>2 DEF RememberedOrForgotten, Remembered
  <2> QED
    BY <1>4, <1>t, <2>1, <2>2, ExpiryForgetsOpenly DEF ReadGlobal
<1>5. ASSUME NEW d \in Online, ReadOwn(d) PROVE RememberedOrForgotten'
  BY <1>5, ExpiryForgetsOpenly, OwnerStream, StreamAssumption DEF ReadOwn
<1>6. ASSUME NEW x \in Streams, SweepReplay(x) PROVE RememberedOrForgotten'
  BY <1>6, ExpiryForgetsOpenly DEF SweepReplay
<1>7. CASE Restart
  <2>1. \A s \in Streams : Remembered(s)' = {}
    <3>1. boot' = boot + 1 /\ published' = published
      BY <1>7 DEF Restart
    <3> QED
      BY <3>1 DEF Remembered, BootsInOrder, TypeOK, WsMessage
  <2> QED
    BY <2>1 DEF RememberedOrForgotten
<1>8. CASE UNCHANGED <<published, publisher, boot, replay>>
  BY <1>8 DEF RememberedOrForgotten, Remembered
<1> QED
  BY <1>1, <1>2, <1>3, <1>4, <1>5, <1>6, <1>7, <1>8
  DEF Next, vars, serverVars, Connect, Authenticate, Take,
      Disconnect, Answer, SendMissed, Receive, SweepChannels

(* No message is dropped from a buffer but that forgotten_through says so. *)
THEOREM NothingForgottenSilently == Spec => []RememberedOrForgotten
<1>1. Init => RememberedOrForgotten
  BY DEF Init, RememberedOrForgotten, Remembered
<1> QED
  BY <1>1, RememberedStep, TypeCorrect, BootsStayInOrder, PTL DEF Spec

----------------------------------------------------------------------------
(* Resuming leaves no window between the replayed past and the channel.    *)

(* What joins, and what leaves, a queue. *)
LEMMA AppendElements ==
  ASSUME NEW S, NEW q \in Seq(S), NEW x \in S
  PROVE  Elements(Append(q, x)) = Elements(q) \cup {x}
<1>1. Len(Append(q, x)) = Len(q) + 1 /\ Append(q, x)[Len(q) + 1] = x
      /\ (\A i \in 1 .. Len(q) : Append(q, x)[i] = q[i]) /\ Len(q) \in Nat
  OBVIOUS
<1> QED
  BY <1>1 DEF Elements

LEMMA TailElements ==
  ASSUME NEW S, NEW q \in Seq(S), q # <<>>
  PROVE  Elements(q) = Elements(Tail(q)) \cup {Head(q)}
<1>1. Len(q) \in Nat \ {0} /\ Len(Tail(q)) = Len(q) - 1 /\ Head(q) = q[1]
      /\ \A i \in 1 .. Len(Tail(q)) : Tail(q)[i] = q[i + 1]
  OBVIOUS
<1>2. ASSUME NEW i \in 1 .. Len(q)
      PROVE  q[i] \in Elements(Tail(q)) \cup {Head(q)}
  <2>1. CASE i = 1
    BY <1>1, <2>1
  <2>2. CASE i # 1
    <3>1. i - 1 \in 1 .. Len(Tail(q)) /\ q[(i - 1) + 1] = Tail(q)[i - 1]
      BY <1>1, <2>2
    <3>2. q[i] = Tail(q)[i - 1]
      BY <3>1
    <3> QED
      BY <3>1, <3>2 DEF Elements
  <2> QED
    BY <2>1, <2>2
<1>3. ASSUME NEW i \in 1 .. Len(Tail(q)) PROVE Tail(q)[i] \in Elements(q)
  <2>1. i + 1 \in 1 .. Len(q) /\ Tail(q)[i] = q[i + 1]
    BY <1>1
  <2> QED
    BY <2>1 DEF Elements
<1>4. Head(q) \in Elements(q)
  BY <1>1 DEF Elements
<1> QED
  BY <1>2, <1>3, <1>4 DEF Elements

(* A receiver that is sent m holds it and all it held, or knows it lagged. *)
LEMMA EnqueuedElements ==
  ASSUME NEW q \in RxType, NEW m \in WsMessage, NEW capacity \in Nat \ {0}
  PROVE  \/ Enqueued(q, m, capacity).lagged
         \/ /\ Elements(Enqueued(q, m, capacity).queue) = Elements(q.queue) \cup {m}
            /\ Enqueued(q, m, capacity).lagged = q.lagged
<1>1. q.queue \in Seq(WsMessage) /\ q = [queue |-> q.queue, lagged |-> q.lagged]
  BY DEF RxType
<1>2. CASE Len(q.queue) < capacity
  <2>1. Enqueued(q, m, capacity).queue = Append(q.queue, m)
        /\ Enqueued(q, m, capacity).lagged = q.lagged
    BY <1>1, <1>2 DEF Enqueued
  <2> QED
    BY <1>1, <2>1, AppendElements
<1>3. CASE ~(Len(q.queue) < capacity)
  BY <1>3 DEF Enqueued
<1> QED
  BY <1>2, <1>3

ResyncFrame == [kind |-> "RESUMED", resync |-> TRUE]
MessageFrame(m) == [kind |-> "message", msg |-> m]

(* The strengthening.  Owed(d, m): d's resume has read the buffer m was in  *)
(* (the global one at step "own" already), and found no gap.               *)
Waiting(d, m) ==
  \/ \E s \in {Everyone, Owner[d]} : m \in Elements(rx[d][s].queue)
  \/ m \in resume[d].found
  \/ MessageFrame(m) \in Elements(out[d])
  \/ BeingPublished(m)

Notice(d) ==
  \/ \E s \in {Everyone, Owner[d]} : rx[d][s].lagged
  \/ ResyncFrame \in Elements(out[d])

Owed(d, m) ==
  /\ m.seq > resume[d].after.seq
  /\ CaughtUp(d) \/ (resume[d].step = "own" /\ m.to = Everyone)

EverythingOwedComes ==
  \A d \in Devices : \A m \in Missing(d) : Owed(d, m) => Waiting(d, m) \/ Notice(d)

(* A socket that resumes is subscribed, to a channel the sweeper kept. *)
Listening ==
  \A d \in Devices : resume[d].step # "none" =>
    socket[d] = "live" /\ Owner[d] \in channels

LEMMA ListeningHolds == Spec => []Listening
<1>1. Init => Listening
  BY DEF Init, Listening, NoResume
<1>2. TypeOK /\ Listening /\ [Next]_vars => Listening'
  <2> SUFFICES ASSUME TypeOK, Listening, [Next]_vars PROVE Listening'
    OBVIOUS
  <2>1. ASSUME NEW d \in Online, Connect(d) PROVE Listening'
    BY <2>1, StreamAssumption DEF Connect, Listening, TypeOK, serverVars
  <2>2. ASSUME NEW d \in Online, Authenticate(d) PROVE Listening'
    BY <2>2, StreamAssumption DEF Authenticate, Listening, TypeOK
  <2>3. ASSUME NEW d \in Online, Disconnect(d) PROVE Listening'
    BY <2>3, StreamAssumption DEF Disconnect, Listening, TypeOK, NoResume, serverVars
  <2>4. ASSUME NEW d \in Online,
               ReadGlobal(d) \/ ReadOwn(d) \/ Answer(d) \/ SendMissed(d)
        PROVE  Listening'
    <3>1. /\ resume[d].step # "none" /\ UNCHANGED <<socket, channels>>
          /\ \A e \in Devices : e # d => resume'[e] = resume[e]
      BY <2>4 DEF ReadGlobal, ReadOwn, Answer, SendMissed, serverVars, TypeOK
    <3> QED
      BY <3>1, StreamAssumption DEF Listening
  <2>5. CASE SweepChannels
    BY <2>5, OwnerStream DEF SweepChannels, Listening, Subscribed, sessionVars
  <2>6. CASE Restart
    BY <2>6 DEF Restart, Listening, NoResume
  <2>7. CASE UNCHANGED <<resume, socket, channels>>
    BY <2>7 DEF Listening
  <2> QED
    BY <2>1, <2>2, <2>3, <2>4, <2>5, <2>6, <2>7
    DEF Next, vars, serverVars, sessionVars, Stamp, Remember, Send, Take,
        Receive, SweepReplay
<1> QED
  BY <1>1, <1>2, TypeCorrect, PTL DEF Spec

(* A step that leaves the publishers and all that concerns e alone. *)
LEMMA OthersKeep ==
  ASSUME EverythingOwedComes, NEW e \in Devices,
         UNCHANGED <<published, publisher, boot>>,
         UNCHANGED <<known[e], rx[e], resume[e], out[e]>>,
         NEW m \in Missing(e)', Owed(e, m)'
  PROVE  Waiting(e, m)' \/ Notice(e)'
<1>1. m \in Missing(e) /\ Owed(e, m)
  BY DEF Missing, Owed, CaughtUp
<1>2. Waiting(e, m) \/ Notice(e)
  BY <1>1 DEF EverythingOwedComes
<1> QED
  BY <1>2 DEF Waiting, Notice, BeingPublished

(* Publishing: a message is being published until it is in every queue. *)
LEMMA OwingPublish ==
  ASSUME TypeOK, Listening, EverythingOwedComes, NEW p \in Publishers,
         \/ \E a \in Address : Stamp(p, a[1], a[2])
         \/ Remember(p) \/ Send(p)
  PROVE  EverythingOwedComes'
<1> SUFFICES ASSUME NEW e \in Devices, NEW m \in Missing(e)', Owed(e, m)'
             PROVE  Waiting(e, m)' \/ Notice(e)'
  BY DEF EverythingOwedComes
<1>1. ASSUME NEW a \in Address, Stamp(p, a[1], a[2])
      PROVE  Waiting(e, m)' \/ Notice(e)'
  <2> DEFINE new == [to |-> a[1], device |-> a[2], seq |-> nextSeq, boot |-> boot]
  <2>1. /\ publisher[p].at = "idle"
        /\ publisher' = [publisher EXCEPT ![p] = [at |-> "stamped", msg |-> new]]
        /\ published' = published \cup {new}
        /\ UNCHANGED <<boot, known, resume, rx, out>>
    BY <1>1 DEF Stamp, sessionVars
  <2> HIDE DEF new
  <2>2. CASE m = new
    BY <2>1, <2>2 DEF TypeOK, Waiting, BeingPublished
  <2>3. CASE m # new
    <3>1. m \in Missing(e) /\ Owed(e, m)
      BY <2>1, <2>3 DEF Missing, Owed, CaughtUp
    <3>2. Waiting(e, m) \/ Notice(e)
      BY <3>1 DEF EverythingOwedComes
    <3>3. m \in WsMessage /\ m.seq # 0
      BY <3>1 DEF Missing, TypeOK, WsMessage
    <3>4. publisher[p].msg # m
      <4>1. publisher[p] = Idle
        BY <2>1 DEF TypeOK
      <4>2. publisher[p].msg.seq = 0
        BY <4>1 DEF Idle, NoMessage
      <4> QED
        BY <3>3, <4>2
    <3>5. BeingPublished(m) => BeingPublished(m)'
      BY <2>1, <3>4 DEF BeingPublished, TypeOK
    <3> QED
      BY <2>1, <3>2, <3>5 DEF Waiting, Notice
  <2> QED
    BY <2>2, <2>3
<1>2. ASSUME Remember(p) PROVE Waiting(e, m)' \/ Notice(e)'
  <2>1. /\ publisher[p].at = "stamped"
        /\ publisher' = [publisher EXCEPT ![p].at = "remembered"]
        /\ UNCHANGED <<published, boot, known, resume, rx, out>>
    BY <1>2 DEF Remember, sessionVars
  <2>2. m \in Missing(e) /\ Owed(e, m)
    BY <2>1 DEF Missing, Owed, CaughtUp
  <2>3. \A q \in Publishers : publisher'[q].msg = publisher[q].msg
    <3>1. publisher[p] \in [at : {"stamped", "remembered"}, msg : WsMessage]
      BY <2>1 DEF TypeOK, Idle
    <3> QED
      BY <2>1, <3>1 DEF TypeOK
  <2> QED
    BY <2>1, <2>2, <2>3 DEF EverythingOwedComes, Waiting, Notice, BeingPublished
<1>3. ASSUME Send(p) PROVE Waiting(e, m)' \/ Notice(e)'
  <2> DEFINE n == publisher[p].msg
             sent == Enqueued(rx[e][n.to], n, ChannelCapacity(n.to))
  <2>1. /\ publisher[p].at = "remembered"
        /\ publisher' = [publisher EXCEPT ![p] = Idle]
        /\ UNCHANGED <<published, boot, known, resume, out>>
        /\ rx'[e] = IF n.to \in channels \cup {Everyone} /\ Subscribed(e, n.to)
                    THEN [rx[e] EXCEPT ![n.to] = sent] ELSE rx[e]
    BY <1>3 DEF Send
  <2>2. m \in Missing(e) /\ Owed(e, m)
    BY <2>1 DEF Missing, Owed, CaughtUp
  <2>3. n \in WsMessage /\ n.to \in Streams
    BY <2>1 DEF TypeOK, Idle, WsMessage
  <2>4. rx[e] \in [Streams -> RxType] /\ rx[e][n.to] \in RxType
    BY <2>3 DEF TypeOK, RxType
  <2>5. \/ sent.lagged
        \/ /\ Elements(sent.queue) = Elements(rx[e][n.to].queue) \cup {n}
           /\ sent.lagged = rx[e][n.to].lagged
    BY <2>3, <2>4, CapacityType, EnqueuedElements
  <2>6. socket[e] = "live" /\ Owner[e] \in channels
    BY <2>2 DEF Listening, Owed, CaughtUp
  <2>7. BeingPublished(m) => BeingPublished(m)' \/ n = m
    BY <2>1 DEF BeingPublished, TypeOK
  <2> HIDE DEF n, sent
  <2>8. CASE n.to \in {Everyone, Owner[e]}
    <3>1. rx'[e] = [rx[e] EXCEPT ![n.to] = sent]
      BY <2>1, <2>6, <2>8 DEF Subscribed
    <3>2. rx'[e][n.to] = sent /\ \A s \in Streams : s # n.to => rx'[e][s] = rx[e][s]
      BY <2>3, <2>4, <3>1
    <3>3. CASE sent.lagged
      BY <2>8, <3>2, <3>3 DEF Notice
    <3>4. CASE ~sent.lagged
      <4>1. /\ Elements(sent.queue) = Elements(rx[e][n.to].queue) \cup {n}
            /\ sent.lagged = rx[e][n.to].lagged
        BY <2>5, <3>4
      <4>2. \A s \in {Everyone, Owner[e]} :
              /\ Elements(rx[e][s].queue) \subseteq Elements(rx'[e][s].queue)
              /\ rx[e][s].lagged => rx'[e][s].lagged
        BY <3>2, <4>1, OwnerStream DEF Streams
      <4>3. n \in Elements(rx'[e][n.to].queue)
        BY <3>2, <4>1
      <4>4. Waiting(e, m) \/ Notice(e)
        BY <2>2 DEF EverythingOwedComes
      <4>5. CASE n = m
        BY <2>8, <4>3, <4>5 DEF Waiting
      <4>6. CASE n # m
        BY <2>1, <2>7, <4>2, <4>4, <4>6 DEF Waiting, Notice
      <4> QED
        BY <4>5, <4>6
    <3> QED
      BY <3>3, <3>4
  <2>9. CASE n.to \notin {Everyone, Owner[e]}
    <3>1. rx'[e] = rx[e]
      BY <2>1, <2>9 DEF Subscribed
    <3>2. n # m
      BY <2>2, <2>9 DEF Missing, IsFor
    <3> QED
      BY <2>1, <2>2, <2>7, <3>1, <3>2 DEF EverythingOwedComes, Waiting, Notice
  <2> QED
    BY <2>8, <2>9
<1> QED
  BY <1>1, <1>2, <1>3

(* Resuming: what the buffers are asked for is in them, or they say so.    *)
LEMMA OwingRead ==
  ASSUME TypeOK, RememberedOrForgotten, EverythingOwedComes,
         NEW d \in Devices, ReadGlobal(d) \/ ReadOwn(d)
  PROVE  EverythingOwedComes'
<1> SUFFICES ASSUME NEW e \in Devices, NEW m \in Missing(e)', Owed(e, m)'
             PROVE  Waiting(e, m)' \/ Notice(e)'
  BY DEF EverythingOwedComes
<1>1. /\ UNCHANGED <<published, publisher, boot, known, rx, out>>
      /\ \A x \in Devices : x # d => resume'[x] = resume[x]
      /\ resume'[d].after = resume[d].after
  BY DEF ReadGlobal, ReadOwn, TypeOK
<1>2. CASE e # d
  BY <1>1, <1>2, OthersKeep
<1>3. ASSUME e = d, NEW s \in Streams, m.to = s,
             NEW r \in Expired(replay[s]), ~Gap(r, resume[d].after.seq),
             After(r, resume[d].after.seq, d) \subseteq resume'[d].found
      PROVE  Waiting(e, m)'
  <2>1. CASE \E p \in Publishers : publisher[p].msg = m
    BY <1>1, <2>1 DEF Waiting, BeingPublished
  <2>2. CASE ~ \E p \in Publishers : publisher[p].msg = m
    <3>1. /\ m \in Remembered(s) /\ IsFor(m, d) /\ m.seq \in Nat
          /\ m.seq > resume[d].after.seq /\ resume[d].after.seq \in Nat
      BY <1>1, <1>3, <2>2
      DEF Missing, Remembered, Owed, TypeOK, WsMessage, Position
    <3>2. replay[s] \in ReplayType
      BY DEF TypeOK, ReplayType
    <3>3. /\ r.forgottenThrough >= replay[s].forgottenThrough
          /\ r.forgottenThrough \in Nat /\ replay[s].forgottenThrough \in Nat
          /\ \A n \in Elements(replay[s].messages) :
               n.seq > r.forgottenThrough => n \in Elements(r.messages)
      BY <1>3, <3>2, ExpiredFacts DEF ReplayType
    <3>4. r.forgottenThrough <= resume[d].after.seq
      BY <1>3, <3>1, <3>3 DEF Gap
    <3>5. m \in Elements(replay[s].messages)
      BY <3>1, <3>3, <3>4 DEF RememberedOrForgotten
    <3>6. m \in Elements(r.messages)
      BY <3>1, <3>3, <3>4, <3>5
    <3>7. m \in After(r, resume[d].after.seq, d)
      BY <3>1, <3>6 DEF After
    <3> QED
      BY <1>3, <3>7 DEF Waiting
  <2> QED
    BY <2>1, <2>2
<1>4. CASE e = d /\ ReadGlobal(d)
  <2>1. resume'[d].step = "own" /\ m.to = Everyone
    <3>1. resume'[d].step = "own" \/ resume'[d].gap
      BY <1>4 DEF ReadGlobal, TypeOK
    <3>2. resume'[d].step \in {"own", "answer"}
      BY <1>4 DEF ReadGlobal, TypeOK
    <3> QED
      BY <1>4, <3>1, <3>2 DEF Owed, CaughtUp
  <2>2. PICK r \in Expired(replay[Everyone]) :
          /\ ~Gap(r, resume[d].after.seq)
          /\ resume' = [resume EXCEPT ![d].step = "own",
                          ![d].found = After(r, resume[d].after.seq, d)]
    <3>1. resume \in [Devices -> [step : {"none", "asked", "own", "answer", "missed"},
                                 after : Position, found : SUBSET WsMessage,
                                 gap : BOOLEAN]]
      BY DEF TypeOK
    <3>2. resume' # [resume EXCEPT ![d].step = "answer", ![d].gap = TRUE]
      BY <2>1, <3>1
    <3> QED
      BY <1>4, <3>2 DEF ReadGlobal
  <2>3. After(r, resume[d].after.seq, d) \subseteq resume'[d].found
    BY <2>2 DEF TypeOK
  <2> QED
    BY <1>3, <1>4, <2>1, <2>2, <2>3 DEF Streams
<1>5. CASE e = d /\ ReadOwn(d)
  <2>1. resume[d].step = "own" /\ ~resume'[d].gap /\ resume'[d].step = "answer"
    BY <1>5 DEF ReadOwn, Owed, CaughtUp, TypeOK
  <2>2. PICK r \in Expired(replay[Owner[d]]) :
          /\ ~Gap(r, resume[d].after.seq)
          /\ resume' = [resume EXCEPT ![d].step = "answer",
                          ![d].found = @ \cup After(r, resume[d].after.seq, d)]
    <3>1. resume \in [Devices -> [step : {"none", "asked", "own", "answer", "missed"},
                                 after : Position, found : SUBSET WsMessage,
                                 gap : BOOLEAN]]
      BY DEF TypeOK
    <3>2. resume' # [resume EXCEPT ![d].step = "answer", ![d].gap = TRUE,
                                   ![d].found = {}]
      BY <2>1, <3>1
    <3> QED
      BY <1>5, <3>2 DEF ReadOwn
  <2>3. /\ After(r, resume[d].after.seq, d) \subseteq resume'[d].found
        /\ resume[d].found \subseteq resume'[d].found
    BY <2>2 DEF TypeOK
  <2>4. m.to \in {Everyone, Owner[d]} /\ m \in Missing(d)
    BY <1>1, <1>5 DEF Missing, IsFor
  <2>5. CASE m.to = Owner[d]
    BY <1>3, <1>5, <2>2, <2>3, <2>5, OwnerStream
  <2>6. CASE m.to = Everyone
    <3>1. Owed(d, m)
      BY <1>1, <1>5, <2>1, <2>6 DEF Owed
    <3>2. Waiting(d, m) \/ Notice(d)
      BY <2>4, <3>1 DEF EverythingOwedComes
    <3> QED
      BY <1>1, <1>5, <2>3, <3>2 DEF Waiting, Notice, BeingPublished
  <2> QED
    BY <2>4, <2>5, <2>6
<1> QED
  BY <1>2, <1>4, <1>5

(* The socket's loops and its client: what is taken is passed on. *)
LEMMA OwingSocket ==
  ASSUME TypeOK, Listening, EverythingOwedComes, NEW d \in Devices,
         \/ Connect(d) \/ Authenticate(d) \/ Disconnect(d)
         \/ \E s \in {Everyone, Owner[d]} : Take(d, s)
         \/ Answer(d) \/ SendMissed(d) \/ Receive(d)
  PROVE  EverythingOwedComes'
<1> SUFFICES ASSUME NEW e \in Devices, NEW m \in Missing(e)', Owed(e, m)'
             PROVE  Waiting(e, m)' \/ Notice(e)'
  BY DEF EverythingOwedComes
<1> DEFINE ResumeType == [step : {"none", "asked", "own", "answer", "missed"},
                          after : Position, found : SUBSET WsMessage,
                          gap : BOOLEAN]
<1>t. /\ resume \in [Devices -> ResumeType] /\ out \in [Devices -> Seq(Frame)]
      /\ rx \in [Devices -> [Streams -> RxType]]
      /\ known \in [Devices -> SUBSET WsMessage]
      /\ Everyone \in Streams /\ Owner[d] \in Streams
  BY OwnerStream DEF TypeOK, RxType, Streams
<1>1. UNCHANGED <<published, publisher, boot>>
      /\ \A x \in Devices : x # d =>
           UNCHANGED <<known[x], rx[x], resume[x], out[x]>>
  BY <1>t DEF Connect, Authenticate, Disconnect, Take, Answer, SendMissed,
              Receive, serverVars
<1>2. CASE e # d
  BY <1>1, <1>2, OthersKeep
<1>o. ASSUME e = d, resume'[d].after = resume[d].after, CaughtUp(d)' => CaughtUp(d),
             resume'[d].step = "own" => resume[d].step = "own",
             known[d] \subseteq known'[d]
      PROVE  m \in Missing(d) /\ (Waiting(d, m) \/ Notice(d))
  <2>1. m \in Missing(d) /\ Owed(d, m)
    BY <1>o, <1>1 DEF Missing, Owed
  <2> QED
    BY <2>1 DEF EverythingOwedComes
<1>3. CASE e = d /\ (Connect(d) \/ Authenticate(d) \/ Disconnect(d))
  <2>1. CASE Connect(d)
    <3>1. resume[d].step = resume'[d].step /\ resume[d].gap = resume'[d].gap
          /\ socket[d] = "off"
      BY <1>t, <2>1 DEF Connect
    <3>2. resume[d].step = "none"
      BY <3>1 DEF Listening
    <3> QED
      BY <1>3, <3>1, <3>2 DEF Owed, CaughtUp
  <2>2. CASE Authenticate(d) \/ Disconnect(d)
    <3>1. resume'[d].step \in {"asked", "none"}
      BY <1>t, <2>2 DEF Authenticate, Disconnect, NoResume
    <3> QED
      BY <1>3, <3>1 DEF Owed, CaughtUp
  <2> QED
    BY <1>3, <2>1, <2>2
<1>4. ASSUME e = d, NEW s \in {Everyone, Owner[d]}, Take(d, s)
      PROVE  Waiting(d, m)' \/ Notice(d)'
  <2>1. UNCHANGED <<resume, known>>
    BY <1>4 DEF Take
  <2>2. m \in Missing(d) /\ (Waiting(d, m) \/ Notice(d))
    BY <1>4, <1>o, <2>1 DEF CaughtUp
  <2>3. rx[d][s] \in RxType /\ s \in Streams /\ out[d] \in Seq(Frame)
    BY <1>t
  <2>4. CASE rx[d][s].lagged
    <3>1. out' = [out EXCEPT ![d] = Append(@, ResyncFrame)]
      BY <1>4, <2>4 DEF Take, ResyncFrame
    <3>2. Elements(out'[d]) = Elements(out[d]) \cup {ResyncFrame}
      <4>1. ResyncFrame \in Frame /\ out'[d] = Append(out[d], ResyncFrame)
        BY <1>t, <3>1 DEF Frame, ResyncFrame
      <4> QED
        BY <2>3, <4>1, AppendElements
    <3> QED
      BY <3>2 DEF Notice
  <2>5. CASE ~rx[d][s].lagged
    <3> DEFINE n == Head(rx[d][s].queue)
    <3>1. /\ rx[d][s].queue # <<>>
          /\ rx' = [rx EXCEPT ![d][s].queue = Tail(@)]
          /\ out' = IF IsFor(n, d)
                    THEN [out EXCEPT ![d] = Append(@, MessageFrame(n))] ELSE out
      BY <1>4, <2>5 DEF Take, MessageFrame
    <3>2. /\ n \in WsMessage
          /\ Elements(rx[d][s].queue) = Elements(Tail(rx[d][s].queue)) \cup {n}
      BY <2>3, <3>1, TailElements DEF RxType
    <3> HIDE DEF n
    <3>3. MessageFrame(n) \in Frame
      BY <3>2 DEF MessageFrame, Frame
    <3>4. Elements(out[d]) \subseteq Elements(out'[d])
          /\ (IsFor(n, d) => MessageFrame(n) \in Elements(out'[d]))
      <4>1. CASE IsFor(n, d)
        <5>1. out'[d] = Append(out[d], MessageFrame(n))
          BY <1>t, <3>1, <4>1
        <5> QED
          BY <2>3, <3>3, <5>1, AppendElements
      <4>2. CASE ~IsFor(n, d)
        BY <3>1, <4>2
      <4> QED
        BY <4>1, <4>2
    <3>5. rx'[d][s].queue = Tail(rx[d][s].queue) /\ rx'[d][s].lagged = rx[d][s].lagged
      BY <1>t, <2>3, <3>1 DEF RxType
    <3>6. \A x \in Streams : x # s => rx'[d][x] = rx[d][x]
      BY <1>t, <2>3, <3>1
    <3>7. \A x \in {Everyone, Owner[d]} :
            /\ m \in Elements(rx[d][x].queue) => \/ m \in Elements(rx'[d][x].queue)
                                                \/ m = n
            /\ rx'[d][x].lagged = rx[d][x].lagged
      BY <1>t, <3>2, <3>5, <3>6
    <3>8. IsFor(m, d)
      BY <2>2 DEF Missing
    <3> QED
      BY <1>1, <2>1, <2>2, <3>4, <3>7, <3>8 DEF Waiting, Notice, BeingPublished
  <2> QED
    BY <2>4, <2>5
<1>5. CASE e = d /\ Answer(d)
  <2>1. /\ resume[d].step = "answer" /\ UNCHANGED <<rx, known>>
        /\ resume'[d].step = "missed" /\ resume'[d].after = resume[d].after
        /\ resume'[d].gap = resume[d].gap /\ resume'[d].found = resume[d].found
    BY <1>5, <1>t DEF Answer
  <2>2. m \in Missing(d) /\ (Waiting(d, m) \/ Notice(d))
    BY <1>5, <1>o, <2>1 DEF CaughtUp
  <2>3. Elements(out[d]) \subseteq Elements(out'[d])
    <3> DEFINE f == [kind |-> "RESUMED", resync |-> resume[d].gap]
    <3>1. f \in Frame /\ out'[d] = Append(out[d], f) /\ out[d] \in Seq(Frame)
      BY <1>5, <1>t DEF Answer, Frame
    <3> QED
      BY <3>1, AppendElements
  <2> QED
    BY <1>1, <1>5, <2>1, <2>2, <2>3 DEF Waiting, Notice, BeingPublished
<1>6. CASE e = d /\ SendMissed(d)
  <2>1. PICK n \in resume[d].found :
          /\ out' = [out EXCEPT ![d] = Append(@, MessageFrame(n))]
          /\ resume' = [resume EXCEPT ![d].found = @ \ {n}]
          /\ UNCHANGED <<rx, known>>
    BY <1>6 DEF SendMissed, MessageFrame
  <2>2. /\ resume'[d].step = resume[d].step /\ resume'[d].after = resume[d].after
        /\ resume'[d].gap = resume[d].gap /\ resume'[d].found = resume[d].found \ {n}
    BY <1>t, <2>1
  <2>3. m \in Missing(d) /\ (Waiting(d, m) \/ Notice(d))
    BY <1>6, <1>o, <2>1, <2>2 DEF CaughtUp
  <2>4. MessageFrame(n) \in Frame
    BY <1>t, <2>1 DEF MessageFrame, Frame
  <2>5. Elements(out'[d]) = Elements(out[d]) \cup {MessageFrame(n)}
    <3>1. out[d] \in Seq(Frame) /\ out'[d] = Append(out[d], MessageFrame(n))
      BY <1>t, <2>1
    <3> QED
      BY <2>4, <3>1, AppendElements
  <2> QED
    BY <1>1, <1>6, <2>1, <2>2, <2>3, <2>5 DEF Waiting, Notice, BeingPublished
<1>7. CASE e = d /\ Receive(d)
  <2> DEFINE f == Head(out[d])
  <2>1. /\ out[d] # <<>> /\ out'[d] = Tail(out[d]) /\ UNCHANGED <<rx, resume>>
        /\ known[d] \subseteq known'[d]
        /\ f.kind = "message" => f.msg \in known'[d]
        /\ f.kind = "RESUMED" /\ f.resync => published \subseteq known'[d]
    BY <1>7, <1>t DEF Receive
  <2>2. Elements(out[d]) = Elements(out'[d]) \cup {f}
    BY <1>t, <2>1, TailElements
  <2>3. m \in Missing(d) /\ (Waiting(d, m) \/ Notice(d))
    BY <1>7, <1>o, <2>1 DEF CaughtUp
  <2>4. m \notin known'[d] /\ m \in published
    BY <1>1, <1>7 DEF Missing
  <2>5. f # MessageFrame(m) /\ f # ResyncFrame
    BY <2>1, <2>4 DEF MessageFrame, ResyncFrame
  <2> QED
    BY <1>1, <1>7, <2>1, <2>2, <2>3, <2>5 DEF Waiting, Notice, BeingPublished
<1> QED
  BY <1>2, <1>3, <1>4, <1>5, <1>6, <1>7

LEMMA OwingStep ==
  TypeOK /\ Listening /\ RememberedOrForgotten /\ EverythingOwedComes /\ [Next]_vars
    => EverythingOwedComes'
<1> SUFFICES ASSUME TypeOK, Listening, RememberedOrForgotten, EverythingOwedComes,
                    [Next]_vars
             PROVE  EverythingOwedComes'
  OBVIOUS
<1>1. CASE Restart
  BY <1>1 DEF Restart, EverythingOwedComes, Owed, CaughtUp, NoResume
<1>2. CASE UNCHANGED <<published, publisher, boot, known, rx, resume, out>>
  <2>1. \A e \in Devices : Missing(e)' = Missing(e)
    BY <1>2 DEF Missing
  <2>2. \A e \in Devices : \A m \in Missing(e) :
          Owed(e, m)' = Owed(e, m) /\ Waiting(e, m)' = Waiting(e, m)
          /\ Notice(e)' = Notice(e)
    BY <1>2 DEF Owed, CaughtUp, Waiting, Notice, BeingPublished
  <2> QED
    BY <2>1, <2>2 DEF EverythingOwedComes
<1>3. CASE \E x \in Streams : SweepReplay(x)
  BY <1>2, <1>3 DEF SweepReplay, sessionVars
<1>4. CASE SweepChannels
  BY <1>2, <1>4 DEF SweepChannels, sessionVars
<1>5. CASE UNCHANGED vars
  BY <1>2, <1>5 DEF vars
<1>6. Online \subseteq Devices
  BY StreamAssumption
<1> QED
  BY <1>1, <1>3, <1>4, <1>5, <1>6, OwingPublish, OwingRead, OwingSocket DEF Next

(* After a resume answered without resync, nothing published in this boot  *)
(* past the position asked for can be missed while the socket stays.       *)
THEOREM ResumeIsComplete == Spec => []ResumeLeavesNoGap
<1>1. Init => EverythingOwedComes
  BY DEF Init, EverythingOwedComes, Missing
<1>2. TypeOK /\ EverythingOwedComes => ResumeLeavesNoGap
  <2> SUFFICES ASSUME EverythingOwedComes, NEW d \in Devices, CaughtUp(d),
                      NEW m \in Missing(d), m.seq > resume[d].after.seq
               PROVE  InFlight(d, m) \/ BeingPublished(m) \/ ResyncPending(d)
    BY DEF ResumeLeavesNoGap
  <2>1. Waiting(d, m) \/ Notice(d)
    BY DEF EverythingOwedComes, Owed
  <2> QED
    BY <2>1 DEF Waiting, Notice, InFlight, ResyncPending, CaughtUp,
                MessageFrame, ResyncFrame
<1> QED
  BY <1>1, <1>2, OwingStep, TypeCorrect, ListeningHolds,
     NothingForgottenSilently, PTL DEF Spec

----------------------------------------------------------------------------
(* Frames go only where they are addressed. *)

(* The strengthening: what a resume has found is already d's own.          *)
OwnFindings == \A d \in Devices : \A m \in resume[d].found : IsFor(m, d)

LEMMA AddressedStep ==
  TypeOK /\ OnlyOwnFrames /\ OwnFindings /\ [Next]_vars
    => OnlyOwnFrames' /\ OwnFindings'
<1> SUFFICES ASSUME TypeOK, OnlyOwnFrames, OwnFindings, [Next]_vars
             PROVE  OnlyOwnFrames' /\ OwnFindings'
  OBVIOUS
<1>t. /\ out \in [Devices -> Seq(Frame)] /\ Online \subseteq Devices
      /\ resume \in [Devices -> [step : {"none", "asked", "own", "answer", "missed"},
                                 after : Position, found : SUBSET WsMessage,
                                 gap : BOOLEAN]]
  BY StreamAssumption DEF TypeOK
<1>f. ASSUME NEW d \in Devices, NEW f \in Frame,
             f.kind = "message" => IsFor(f.msg, d),
             out' = [out EXCEPT ![d] = Append(@, f)]
      PROVE  OnlyOwnFrames'
  <2>1. Elements(out'[d]) = Elements(out[d]) \cup {f}
    BY <1>t, <1>f, AppendElements
  <2>2. \A e \in Devices : e # d => out'[e] = out[e]
    BY <1>t, <1>f
  <2> QED
    BY <1>f, <2>1, <2>2 DEF OnlyOwnFrames, IsFor
<1>n. OnlyOwnFrames' \/ ~UNCHANGED out
  BY DEF OnlyOwnFrames, IsFor
<1>r. OwnFindings' \/ ~UNCHANGED resume
  BY DEF OwnFindings, IsFor
<1>1. ASSUME NEW d \in Online, \E s \in {Everyone, Owner[d]} : Take(d, s)
      PROVE  OnlyOwnFrames' /\ OwnFindings'
  <2>1. PICK s \in {Everyone, Owner[d]} : Take(d, s)
    BY <1>1
  <2>2. UNCHANGED resume /\ d \in Devices /\ s \in Streams
    BY <1>t, <2>1, OwnerStream DEF Take, Streams
  <2>3. CASE rx[d][s].lagged
    <3>1. out' = [out EXCEPT ![d] =
                    Append(@, [kind |-> "RESUMED", resync |-> TRUE])]
      BY <2>1, <2>3 DEF Take
    <3>2. [kind |-> "RESUMED", resync |-> TRUE] \in Frame
      BY DEF Frame
    <3> QED
      BY <1>f, <1>r, <2>2, <3>1, <3>2
  <2>4. CASE ~rx[d][s].lagged
    <3> DEFINE m == Head(rx[d][s].queue)
    <3>1. m \in WsMessage
      BY <2>1, <2>2, <2>4 DEF Take, TypeOK
    <3>2. \/ IsFor(m, d) /\ out' = [out EXCEPT ![d] =
                 Append(@, [kind |-> "message", msg |-> m])]
          \/ UNCHANGED out
      BY <2>1, <2>4 DEF Take
    <3>3. [kind |-> "message", msg |-> m] \in Frame
      BY <3>1 DEF Frame
    <3> QED
      BY <1>f, <1>n, <1>r, <2>2, <3>2, <3>3
  <2> QED
    BY <2>3, <2>4
<1>2. ASSUME NEW d \in Online, ReadGlobal(d) \/ ReadOwn(d)
      PROVE  OnlyOwnFrames' /\ OwnFindings'
  <2>1. /\ UNCHANGED out /\ d \in Devices
        /\ \A e \in Devices : e # d => resume'[e] = resume[e]
    BY <1>t, <1>2 DEF ReadGlobal, ReadOwn
  <2>2. \A r, n : \A m \in After(r, n, d) : IsFor(m, d)
    BY DEF After
  <2>3. CASE resume' = [resume EXCEPT ![d].step = "answer", ![d].gap = TRUE]
    <3>1. resume'[d].found = resume[d].found
      BY <1>t, <2>1, <2>3
    <3> QED
      BY <1>n, <2>1, <3>1 DEF OwnFindings, IsFor
  <2>4. ASSUME NEW r, resume' = [resume EXCEPT ![d].step = "own",
                        ![d].found = After(r, resume[d].after.seq, d)]
        PROVE  OnlyOwnFrames' /\ OwnFindings'
    <3> DEFINE found == After(r, resume[d].after.seq, d)
    <3>1. resume' = [resume EXCEPT ![d].step = "own", ![d].found = found]
      BY <2>4
    <3>2. \A m \in found : IsFor(m, d)
      BY <2>2
    <3> HIDE DEF found
    <3>3. resume'[d].found = found
      BY <1>t, <2>1, <3>1
    <3> QED
      BY <1>n, <2>1, <3>2, <3>3 DEF OwnFindings, IsFor
  <2>5. CASE resume' = [resume EXCEPT ![d].step = "answer", ![d].gap = TRUE,
                                      ![d].found = {}]
    <3>1. resume'[d].found = {}
      BY <1>t, <2>1, <2>5
    <3> QED
      BY <1>n, <2>1, <3>1 DEF OwnFindings, IsFor
  <2>6. ASSUME NEW r, resume' = [resume EXCEPT ![d].step = "answer",
                        ![d].found = @ \cup After(r, resume[d].after.seq, d)]
        PROVE  OnlyOwnFrames' /\ OwnFindings'
    <3> DEFINE found == resume[d].found \cup After(r, resume[d].after.seq, d)
    <3>1. resume' = [resume EXCEPT ![d].step = "answer", ![d].found = found]
      BY <2>6
    <3>2. \A m \in found : IsFor(m, d)
      BY <2>1, <2>2 DEF OwnFindings
    <3> HIDE DEF found
    <3>3. resume'[d].found = found
      BY <1>t, <2>1, <3>1
    <3> QED
      BY <1>n, <2>1, <3>2, <3>3 DEF OwnFindings, IsFor
  <2>7. CASE ReadGlobal(d)
    BY <2>3, <2>4, <2>7 DEF ReadGlobal
  <2>8. CASE ReadOwn(d)
    BY <2>5, <2>6, <2>8 DEF ReadOwn
  <2> QED
    BY <1>2, <2>7, <2>8
<1>3. ASSUME NEW d \in Online, Answer(d)
      PROVE  OnlyOwnFrames' /\ OwnFindings'
  <2> DEFINE f == [kind |-> "RESUMED", resync |-> resume[d].gap]
  <2>1. /\ d \in Devices /\ f \in Frame
        /\ out' = [out EXCEPT ![d] = Append(@, f)]
    BY <1>t, <1>3 DEF Answer, Frame
  <2>2. \A e \in Devices : resume'[e].found = resume[e].found
    BY <1>t, <1>3 DEF Answer
  <2> QED
    BY <1>f, <2>1, <2>2 DEF OwnFindings, IsFor
<1>4. ASSUME NEW d \in Online, SendMissed(d)
      PROVE  OnlyOwnFrames' /\ OwnFindings'
  <2>1. PICK m \in resume[d].found :
          /\ out' = [out EXCEPT ![d] = Append(@, [kind |-> "message", msg |-> m])]
          /\ resume' = [resume EXCEPT ![d].found = @ \ {m}]
    BY <1>4 DEF SendMissed
  <2>2. d \in Devices /\ m \in WsMessage /\ IsFor(m, d)
        /\ [kind |-> "message", msg |-> m] \in Frame
    BY <1>t, <2>1 DEF OwnFindings, Frame
  <2>3. \A e \in Devices : resume'[e].found \subseteq resume[e].found
    BY <1>t, <2>1, <2>2
  <2> QED
    BY <1>f, <2>1, <2>2, <2>3 DEF OwnFindings, IsFor
<1>5. ASSUME NEW d \in Online, Receive(d)
      PROVE  OnlyOwnFrames' /\ OwnFindings'
  <2>1. /\ d \in Devices /\ out[d] # <<>> /\ UNCHANGED resume
        /\ out' = [out EXCEPT ![d] = Tail(@)]
    BY <1>t, <1>5 DEF Receive
  <2>2. Elements(out'[d]) \subseteq Elements(out[d])
    BY <1>t, <2>1, TailElements
  <2> QED
    BY <1>t, <1>r, <2>1, <2>2 DEF OnlyOwnFrames, IsFor
<1>6. ASSUME NEW d \in Online, Disconnect(d)
      PROVE  OnlyOwnFrames' /\ OwnFindings'
  BY <1>t, <1>6 DEF Disconnect, OnlyOwnFrames, OwnFindings, IsFor, Elements, NoResume
<1>7. ASSUME NEW d \in Online, Connect(d) \/ Authenticate(d)
      PROVE  OnlyOwnFrames' /\ OwnFindings'
  <2>0. /\ UNCHANGED out /\ d \in Devices
        /\ \/ resume' = [resume EXCEPT ![d].after = position[d]]
           \/ resume' = [resume EXCEPT ![d].step = "asked"]
    BY <1>t, <1>7 DEF Connect, Authenticate
  <2>a. CASE resume' = [resume EXCEPT ![d].after = position[d]]
    <3>1. \A e \in Devices : resume'[e].found = resume[e].found
      BY <1>t, <2>a
    <3> QED
      BY <1>n, <2>0, <3>1 DEF OwnFindings, IsFor
  <2>b. CASE resume' = [resume EXCEPT ![d].step = "asked"]
    <3>1. \A e \in Devices : resume'[e].found = resume[e].found
      BY <1>t, <2>b
    <3> QED
      BY <1>n, <2>0, <3>1 DEF OwnFindings, IsFor
  <2> QED
    BY <2>0, <2>a, <2>b
<1>8. CASE Restart
  BY <1>8 DEF Restart, OnlyOwnFrames, OwnFindings, IsFor, Elements, NoResume
<1>9. CASE UNCHANGED <<out, resume>>
  BY <1>n, <1>r, <1>9
<1> QED
  BY <1>1, <1>2, <1>3, <1>4, <1>5, <1>6, <1>7, <1>8, <1>9
  DEF Next, vars, sessionVars, Stamp, Remember, Send, SweepReplay, SweepChannels

(* No frame for another account or device is ever written to a socket.     *)
THEOREM FramesAreAddressed == Spec => []OnlyOwnFrames
<1>1. Init => OnlyOwnFrames /\ OwnFindings
  BY DEF Init, OnlyOwnFrames, OwnFindings, Elements, NoResume
<1> QED
  BY <1>1, AddressedStep, TypeCorrect, PTL DEF Spec

(* All that the hub keeps in order, as the run checks it. *)
THEOREM HubStaysSound == Spec => []HubIsSound
<1>1. TypeOK /\ BuffersBounded /\ RememberedOrForgotten /\ OnlyOwnFrames
        => HubIsSound
  BY DEF HubIsSound
<1> QED
  BY <1>1, TypeCorrect, BuffersStayBounded, NothingForgottenSilently,
     FramesAreAddressed, PTL

(***************************************************************************)
(* Playlists.  The invariant: what every handler holds, that positions are *)
(* those of a list, that whatever was read of a revision is what the       *)
(* playlist is as long as it has that revision, and that a kept copy is of *)
(* now or its device has heard of a later revision, or is about to.        *)
(***************************************************************************)

PlOps == {"none", "import", "open", "follow", "edit", "details", "visibility",
          "access", "add", "remove", "delete"}
PlSteps == {"idle", "fill", "load", "check", "follow", "items", "write",
            "announce", "reload", "audience", "push"}
PlTies == {"none", "accepted", "blocked"}
PlCalls ==
  [op : PlOps, at : PlSteps, row : Rows, tie : PlTies, base : Copies,
   want : Levels \cup Tracks, users : SUBSET Accounts]

(* What a handler holds at each of its steps. *)
PlFits(r, who) ==
  /\ r.op \in {"visibility", "access"} /\ r.at \in {"load", "write"} => r.want \in Levels
  /\ r.op = "remove" /\ r.at \in {"load", "write"} => r.want \in Tracks
  /\ r.op = "edit" /\ r.at = "write" => CanAdd(Role(r.row, who, r.tie))

PlKinds ==
  /\ PlaylistsTypeOK /\ req \in [Clients -> PlCalls]
  /\ \A c \in Clients : PlFits(req[c], AccountOf[c])

(* Before the playlist there is nothing of it. *)
NothingYet ==
  row.state = "none" =>
    /\ made = 0 /\ kept = {}
    /\ \A c \in Clients : req[c] = NoCall /\ copy[c] = NoCopy

(* Positions are those of a list. *)
Listed ==
  /\ PositionsAreDense /\ Held \subseteq 1..made
  /\ \A i, j \in Held : track[i].pos = track[j].pos => i = j

(* What was read of a revision is what the playlist is as long as it has   *)
(* that revision.                                                          *)
Current(k) == k.rev <= row.rev /\ (Live /\ k.rev = row.rev => k.order = Order)
Reads(r) ==
  /\ Current(r.base) /\ r.row.rev <= row.rev
  /\ r.op = "edit" /\ r.at \in {"check", "write"} =>
       /\ r.base.rev <= r.row.rev
       /\ Live /\ r.row.rev = row.rev =>
            r.row.vis = row.vis /\ r.row.access = row.access
AllCurrent == \A c \in Clients : Current(copy[c]) /\ Reads(req[c])

(* A kept copy is of now, or its device was told of a later revision, or   *)
(* is about to be.                                                         *)
Pending == \E c \in Clients : req[c].at = "announce"
Informed ==
  /\ Live => \A d \in kept :
       /\ AccountOf[d] \in followers \cup {Creator}
       /\ copy[d].order = Order \/ told[d] > copy[d].rev \/ Pending
  /\ kept # {} => \A c \in Clients : req[c].at # "fill"

PlInv == PlKinds /\ NothingYet /\ Listed /\ AllCurrent /\ Informed

(***************************************************************************)
(* Lists of tracks.                                                        *)
(***************************************************************************)
IsList(o, m) ==
  /\ o \in Seq(1..m)
  /\ \A j, k \in 1..Len(o) : o[j] = o[k] => j = k

LEMMA FunctionIsSeq ==
  ASSUME NEW S, NEW n \in Nat, NEW f \in [1..n -> S]
  PROVE  f \in Seq(S) /\ Len(f) = n /\ DOMAIN f = 1..n
OBVIOUS

LEMMA IndexIs ==
  ASSUME NEW m \in Nat, NEW o, IsList(o, m), NEW i, Lists(i, o)
  PROVE  /\ IndexOf(i, o) \in 1..Len(o) /\ o[IndexOf(i, o)] = i
         /\ Len(o) \in Nat /\ o \in [1..Len(o) -> 1..m] /\ DOMAIN o = 1..Len(o)
<1>1. Len(o) \in Nat /\ DOMAIN o = 1..Len(o) /\ o \in [1..Len(o) -> 1..m]
  BY LenProperties DEF IsList
<1>2. \E k \in DOMAIN o : o[k] = i
  BY DEF Lists
<1> QED BY <1>1, <1>2 DEF IndexOf

LEMMA DroppedIs ==
  ASSUME NEW m \in Nat, NEW o, IsList(o, m), NEW i, Lists(i, o)
  PROVE  /\ IsList(Dropped(o, i), m)
         /\ \A j : Lists(j, Dropped(o, i)) <=> Lists(j, o) /\ j # i
<1> DEFINE n == Len(o)
           p == IndexOf(i, o)
           d == Dropped(o, i)
<1>1. n \in Nat /\ p \in 1..n /\ o[p] = i /\ o \in [1..n -> 1..m] /\ DOMAIN o = 1..n
  BY IndexIs
<1>2. d = [k \in 1..(n - 1) |-> o[IF k < p THEN k ELSE k + 1]]
  BY DEF Dropped
<1>3. n - 1 \in Nat /\ \A j, k \in 1..n : o[j] = o[k] => j = k
  BY <1>1 DEF IsList
<1> HIDE DEF n, p, d
<1>4. d \in [1..(n - 1) -> 1..m]
  BY <1>1, <1>2
<1>5. d \in Seq(1..m) /\ Len(d) = n - 1 /\ DOMAIN d = 1..(n - 1)
  BY <1>3, <1>4, FunctionIsSeq
<1>6. \A k \in 1..(n - 1) : d[k] = o[IF k < p THEN k ELSE k + 1]
  BY <1>2
<1>7. ASSUME NEW j \in 1..(n - 1), NEW k \in 1..(n - 1), d[j] = d[k] PROVE j = k
  <2> DEFINE l(x) == IF x < p THEN x ELSE x + 1
  <2>1. d[j] = o[l(j)] /\ d[k] = o[l(k)]
    BY <1>6
  <2>2. l(j) \in 1..n /\ l(k) \in 1..n
    BY <1>1
  <2>3. l(j) = l(k)
    <3> HIDE DEF l
    <3> QED BY <1>3, <1>7, <2>1, <2>2
  <2> QED BY <1>1, <2>3
<1>8. ASSUME NEW j, Lists(j, o), j # i PROVE Lists(j, d)
  <2>1. PICK k \in 1..n : o[k] = j
    BY <1>1, <1>8 DEF Lists
  <2>2. CASE k < p
    <3>1. k \in 1..(n - 1) /\ d[k] = o[k]
      BY <1>1, <1>6, <2>2
    <3> QED BY <1>5, <2>1, <3>1 DEF Lists
  <2>3. CASE k > p
    <3>1. k - 1 \in 1..(n - 1) /\ ~ (k - 1 < p) /\ (k - 1) + 1 = k
      BY <1>1, <2>1, <2>3
    <3>2. d[k - 1] = o[k]
      BY <1>6, <3>1
    <3> QED BY <1>5, <2>1, <3>1, <3>2 DEF Lists
  <2> QED BY <1>1, <1>8, <2>1, <2>2, <2>3
<1>9. ASSUME NEW j, Lists(j, d) PROVE Lists(j, o) /\ j # i
  <2>1. PICK k \in 1..(n - 1) : d[k] = j
    BY <1>5, <1>9 DEF Lists
  <2> DEFINE l == IF k < p THEN k ELSE k + 1
  <2>2. l \in 1..n /\ l # p /\ o[l] = j
    BY <1>1, <1>6, <2>1
  <2> QED BY <1>1, <1>3, <2>2 DEF Lists
<1> QED BY <1>5, <1>7, <1>8, <1>9 DEF IsList, d

LEMMA InsertedIs ==
  ASSUME NEW m \in Nat, NEW o, IsList(o, m), NEW i \in 1..m, ~Lists(i, o),
         NEW p \in 0..Len(o)
  PROVE  IsList(Inserted(o, i, p), m)
<1> DEFINE n == Len(o)
           d == Inserted(o, i, p)
<1>1. n \in Nat /\ o \in [1..n -> 1..m] /\ DOMAIN o = 1..n
  BY LenProperties DEF IsList
<1>2. /\ d = [k \in 1..(n + 1) |-> IF k = p + 1 THEN i ELSE o[IF k <= p THEN k ELSE k - 1]]
      /\ p \in 0..n
  BY DEF Inserted
<1>3. /\ \A j, k \in 1..n : o[j] = o[k] => j = k
      /\ \A k \in 1..n : o[k] # i
  BY <1>1 DEF IsList, Lists
<1> HIDE DEF n, d
<1>4. d \in [1..(n + 1) -> 1..m]
  BY <1>1, <1>2
<1>5. d \in Seq(1..m) /\ Len(d) = n + 1
  BY <1>1, <1>4, FunctionIsSeq
<1>6. /\ \A k \in 1..(n + 1) : k # p + 1 => d[k] = o[IF k <= p THEN k ELSE k - 1]
      /\ d[p + 1] = i
  BY <1>1, <1>2
<1>7. ASSUME NEW j \in 1..(n + 1), NEW k \in 1..(n + 1), d[j] = d[k] PROVE j = k
  <2>1. CASE j # p + 1 /\ k # p + 1
    BY <1>1, <1>2, <1>3, <1>6, <1>7, <2>1
  <2>2. ASSUME NEW l \in 1..(n + 1), l # p + 1 PROVE d[l] # i
    <3>1. (IF l <= p THEN l ELSE l - 1) \in 1..n
      BY <1>1, <1>2, <2>2
    <3> QED BY <1>3, <1>6, <2>2, <3>1
  <2> QED BY <1>6, <1>7, <2>1, <2>2
<1> QED BY <1>5, <1>7 DEF IsList, d

LEMMA PlaceIs ==
  ASSUME NEW m \in Nat, NEW o, IsList(o, m), NEW i \in 1..m, ~Lists(i, o),
         NEW after, after # 0 => Lists(after, o), NEW atEnd \in BOOLEAN
  PROVE  IsList(Place(o, i, after, atEnd), m)
<1>1. Len(o) \in Nat
  BY LenProperties DEF IsList
<1>2. (IF after # 0 THEN IndexOf(after, o) ELSE IF atEnd THEN Len(o) ELSE 0) \in 0..Len(o)
  BY <1>1, IndexIs
<1> QED BY <1>2, InsertedIs DEF Place

(* What a batch works on. *)
Draft(s) ==
  /\ s \in [order : Seq(Tracks), by : [Tracks -> Accounts \cup {Nobody}],
            made : 0..MaxTracks, ok : BOOLEAN]
  /\ IsList(s.order, s.made)

LEMMA ListGrows ==
  ASSUME NEW m \in Nat, NEW o, IsList(o, m)
  PROVE  IsList(o, m + 1) /\ ~Lists(m + 1, o)
<1>1. Len(o) \in Nat /\ o \in [1..Len(o) -> 1..m] /\ DOMAIN o = 1..Len(o)
  BY LenProperties DEF IsList
<1>2. 1..m \subseteq 1..(m + 1) /\ o \in [1..Len(o) -> 1..(m + 1)]
  BY <1>1
<1> QED BY <1>1, <1>2, FunctionIsSeq DEF IsList, Lists

LEMMA EditedIsDraft ==
  ASSUME NEW s, Draft(s), NEW e \in Edits, NEW role, NEW who \in Accounts
  PROVE  Draft(Edited(role, who, s, e))
<1> DEFINE t == Edited(role, who, s, e)
<1>0. /\ MaxTracks \in Nat /\ Tracks = 1..MaxTracks /\ s.made \in 0..MaxTracks
      /\ IsList(s.order, s.made) /\ s.by \in [Tracks -> Accounts \cup {Nobody}]
      /\ s.order \in Seq(Tracks)
      /\ s \in [order : Seq(Tracks), by : [Tracks -> Accounts \cup {Nobody}],
            made : 0..MaxTracks, ok : BOOLEAN]
  BY PlaylistsAssumption DEF Draft, Tracks
<1>a. ASSUME NEW o, NEW k \in 0..MaxTracks, IsList(o, k) PROVE o \in Seq(Tracks)
  <2>1. 1..k \subseteq Tracks
    BY <1>0
  <2> QED BY <1>a, <2>1, SeqMonotonic DEF IsList
<1>1. CASE ~Possible(role, who, s, e)
  <2>1. t = [s EXCEPT !.ok = FALSE]
    BY <1>1 DEF Edited
  <2> HIDE DEF t
  <2> QED BY <1>0, <2>1 DEF Draft, t
<1>2. CASE Possible(role, who, s, e) /\ e.kind = "add"
  <2> DEFINE o == Place(s.order, s.made + 1, e.after, TRUE)
  <2>1. t = [s EXCEPT !.order = o, !.by[s.made + 1] = who, !.made = @ + 1]
    BY <1>2 DEF Edited
  <2>2. s.made + 1 \in 1..MaxTracks /\ s.made + 1 \in Tracks
    BY <1>0, <1>2 DEF Possible
  <2>3. IsList(s.order, s.made + 1) /\ ~Lists(s.made + 1, s.order)
    BY <1>0, ListGrows
  <2>4. IsList(o, s.made + 1)
    <3>1. s.made + 1 \in Nat /\ s.made + 1 \in 1..(s.made + 1)
      BY <1>0
    <3>2. e.after # 0 => Lists(e.after, s.order)
      BY <1>2 DEF Possible
    <3> QED BY <2>3, <3>1, <3>2, PlaceIs
  <2>5. o \in Seq(Tracks)
    <3>1. s.made + 1 \in 0..MaxTracks
      BY <1>0, <2>2
    <3> QED BY <1>a, <2>4, <3>1
  <2> HIDE DEF o, t
  <2>6. [s.by EXCEPT ![s.made + 1] = who] \in [Tracks -> Accounts \cup {Nobody}]
    BY <1>0, <2>2
  <2>7. t = [s EXCEPT !.order = o, !.by = [s.by EXCEPT ![s.made + 1] = who],
                      !.made = s.made + 1]
    BY <1>0, <2>1
  <2>8. t \in [order : Seq(Tracks), by : [Tracks -> Accounts \cup {Nobody}],
               made : 0..MaxTracks, ok : BOOLEAN]
    <3>1. s.made + 1 \in 0..MaxTracks
      BY <1>0, <2>2
    <3>2. PICK by \in [Tracks -> Accounts \cup {Nobody}] :
            t = [s EXCEPT !.order = o, !.by = by, !.made = s.made + 1]
      BY <2>6, <2>7
    <3> QED BY <1>0, <2>5, <3>1, <3>2
  <2>9. t.order = o /\ t.made = s.made + 1
    BY <1>0, <2>7
  <2> QED BY <2>4, <2>8, <2>9 DEF Draft, t
<1>3. CASE Possible(role, who, s, e) /\ e.kind = "remove"
  <2> DEFINE o == Dropped(s.order, e.item)
  <2>1. t = [s EXCEPT !.order = o, !.by = [s.by EXCEPT ![e.item] = Nobody]]
    BY <1>0, <1>3 DEF Edited
  <2>2. IsList(o, s.made)
    BY <1>0, <1>3, DroppedIs DEF Possible
  <2>3. o \in Seq(Tracks)
    BY <1>0, <1>a, <2>2
  <2>4. [s.by EXCEPT ![e.item] = Nobody] \in [Tracks -> Accounts \cup {Nobody}]
    BY <1>0
  <2> HIDE DEF o, t
  <2>5. t \in [order : Seq(Tracks), by : [Tracks -> Accounts \cup {Nobody}],
               made : 0..MaxTracks, ok : BOOLEAN]
    BY <1>0, <2>1, <2>3, <2>4
  <2>6. t.order = o /\ t.made = s.made
    BY <1>0, <2>1
  <2> QED BY <2>2, <2>5, <2>6 DEF Draft, t
<1>4. CASE Possible(role, who, s, e) /\ e.kind = "move"
  <2> DEFINE d == Dropped(s.order, e.item)
             o == Place(d, e.item, e.after, FALSE)
  <2>1. t = [s EXCEPT !.order = o]
    BY <1>0, <1>4 DEF Edited
  <2>2. /\ IsList(d, s.made) /\ ~Lists(e.item, d)
        /\ e.after # 0 => Lists(e.after, d)
    BY <1>0, <1>4, DroppedIs DEF Possible
  <2>3. e.item \in 1..s.made
    <3>1. IndexOf(e.item, s.order) \in 1..Len(s.order)
          /\ s.order[IndexOf(e.item, s.order)] = e.item
          /\ s.order \in [1..Len(s.order) -> 1..s.made]
      BY <1>0, <1>4, IndexIs DEF Possible
    <3> QED BY <3>1
  <2>4. IsList(o, s.made)
    <3>1. s.made \in Nat
      BY <1>0
    <3> QED BY <2>2, <2>3, <3>1, PlaceIs
  <2>5. o \in Seq(Tracks)
    BY <1>0, <1>a, <2>4
  <2> HIDE DEF o, t
  <2>6. t \in [order : Seq(Tracks), by : [Tracks -> Accounts \cup {Nobody}],
               made : 0..MaxTracks, ok : BOOLEAN]
    BY <1>0, <2>1, <2>5
  <2>7. t.order = o /\ t.made = s.made
    BY <1>0, <2>1
  <2> QED BY <2>4, <2>6, <2>7 DEF Draft, t
<1>5. e.kind \in {"add", "remove", "move"}
  BY DEF Edits
<1> QED BY <1>1, <1>2, <1>3, <1>4, <1>5

LEMMA FirstOf ==
  ASSUME NEW T, T \subseteq Nat, T # {}
  PROVE  \E x \in T : \A y \in T : x <= y
<1> DEFINE Less == OpToRel(<, Nat)
<1>1. IsWellFoundedOn(Less, Nat)
  BY NatLessThanWellFounded
<1>2. PICK x \in T : \A y \in T : ~ (<<y, x>> \in Less)
  <2> HIDE DEF Less
  <2> QED BY <1>1, WFMin
<1>3. \A y \in T : ~ (y < x)
  BY <1>2 DEF OpToRel
<1> QED BY <1>3

(* What a batch makes of a list is a list again. *)
LEMMA AfterBatchIsDraft ==
  ASSUME NEW batch \in Batches, NEW role, NEW who \in Accounts,
         Draft([order |-> Order, by |-> Adders, made |-> made, ok |-> TRUE])
  PROVE  Draft(AfterBatch(role, who, batch))
<1> DEFINE s0 == [order |-> Order, by |-> Adders, made |-> made, ok |-> TRUE]
           M == Len(batch)
           Body(f, n) == IF n = 0 THEN s0 ELSE Edited(role, who, f[n - 1], batch[n])
           Runs(f, m) == f = [n \in 0..m |-> Body(f, n)]
           Sound(f, m) == \A n \in 0..m : Draft(f[n])
<1>1. M \in Nat /\ \A n \in 1..M : batch[n] \in Edits
  <2>1. PICK n \in 1..MaxEdits : batch \in [1..n -> Edits]
    BY DEF Batches
  <2>2. n \in Nat
    BY <2>1, PlaylistsAssumption
  <2> QED BY <2>1, <2>2, FunctionIsSeq
<1>2. Draft(s0)
  OBVIOUS
<1>3. \A m \in 0..M : \E f : Runs(f, m) /\ Sound(f, m)
  <2> DEFINE Bad == {m \in 0..M : ~\E f : Runs(f, m) /\ Sound(f, m)}
  <2>1. SUFFICES ASSUME Bad # {} PROVE FALSE
    OBVIOUS
  <2>2. PICK m \in Bad : \A k \in Bad : m <= k
    <3>1. Bad \subseteq Nat
      BY <1>1
    <3> HIDE DEF Bad
    <3> QED BY <2>1, <3>1, FirstOf
  <2>3. m \in 0..M /\ m \in Nat
    BY <1>1
  <2>4. CASE m = 0
    <3> DEFINE f == [n \in 0..0 |-> s0]
    <3>1. \A n \in 0..0 : n = 0
      OBVIOUS
    <3>2. f = [n \in 0..0 |-> Body(f, n)]
      BY <3>1
    <3>3. Runs(f, m) /\ Sound(f, m)
      BY <1>2, <2>4, <3>2
    <3> QED BY <3>3
  <2>5. CASE m # 0
    <3>1. m - 1 \in 0..M /\ m - 1 \notin Bad
      <4> HIDE DEF Bad
      <4>1. m - 1 \in 0..M /\ ~(m <= m - 1)
        BY <1>1, <2>3, <2>5
      <4> QED BY <2>2, <4>1
    <3>2. PICK f : Runs(f, m - 1) /\ Sound(f, m - 1)
      BY <3>1
    <3> DEFINE g == [n \in 0..m |-> IF n = m THEN Edited(role, who, f[m - 1], batch[m])
                                    ELSE f[n]]
    <3> HIDE DEF s0, Bad
    <3>3. \A n \in 0..(m - 1) : g[n] = f[n] /\ f[n] = Body(f, n)
      BY <2>3, <3>2
    <3>4. \A n \in 0..m : g[n] = Body(g, n)
      <4> SUFFICES ASSUME NEW n \in 0..m PROVE g[n] = Body(g, n)
        OBVIOUS
      <4>1. CASE n = m
        BY <2>3, <2>5, <3>3, <4>1
      <4>2. CASE n # m
        <5>1. n \in 0..(m - 1) /\ (n # 0 => n - 1 \in 0..(m - 1))
          BY <2>3, <4>2
        <5> QED BY <3>3, <5>1
      <4> QED BY <4>1, <4>2
    <3>5. Runs(g, m)
      <4>1. DOMAIN g = 0..m
        OBVIOUS
      <4> HIDE DEF g
      <4>2. g = [n \in 0..m |-> g[n]]
        BY DEF g
      <4>3. [n \in 0..m |-> g[n]] = [n \in 0..m |-> Body(g, n)]
        BY <3>4
      <4> QED BY <4>2, <4>3
    <3>6. Sound(g, m)
      <4>1. Draft(f[m - 1]) /\ batch[m] \in Edits
        BY <1>1, <2>3, <2>5, <3>2
      <4>2. Draft(Edited(role, who, f[m - 1], batch[m]))
        BY <4>1, EditedIsDraft
      <4>3. \A n \in 0..m : n # m => Draft(g[n])
        BY <2>3, <3>2, <3>3
      <4> QED BY <2>3, <4>2, <4>3
    <3> QED BY <2>3, <3>5, <3>6 DEF Bad
  <2> QED BY <2>4, <2>5
<1> DEFINE run == CHOOSE f : Runs(f, M)
<1>4. AfterBatch(role, who, batch) = run[M]
  BY DEF AfterBatch
<1>5. Runs(run, M)
  <2>1. M \in 0..M
    BY <1>1
  <2>2. \E f : Runs(f, M)
    BY <1>3, <2>1
  <2> HIDE DEF Runs
  <2> QED BY <2>2
<1>6. PICK f : Runs(f, M) /\ Sound(f, M)
  BY <1>1, <1>3
<1> HIDE DEF s0, run
<1>7. \A n \in 0..M : run[n] = f[n]
  <2> DEFINE Bad == {n \in 0..M : run[n] # f[n]}
  <2>1. SUFFICES ASSUME Bad # {} PROVE FALSE
    OBVIOUS
  <2>2. PICK m \in Bad : \A k \in Bad : m <= k
    <3>1. Bad \subseteq Nat
      BY <1>1
    <3> HIDE DEF Bad
    <3> QED BY <2>1, <3>1, FirstOf
  <2>3. run[m] = Body(run, m) /\ f[m] = Body(f, m)
    BY <1>5, <1>6
  <2>4. m # 0 => m - 1 \in 0..M /\ run[m - 1] = f[m - 1]
    BY <1>1, <2>2
  <2> QED BY <2>3, <2>4
<1> QED BY <1>1, <1>4, <1>6, <1>7

(***************************************************************************)
(* Positions.                                                              *)
(***************************************************************************)
Items == [Tracks -> [pos : {-2} \cup Nat, by : Accounts \cup {Nobody}]]
Lined(items, m) ==
  /\ items \in Items /\ HeldIn(items) \subseteq 1..m
  /\ {items[i].pos : i \in HeldIn(items)} = 0..(Cardinality(HeldIn(items)) - 1)
  /\ \A i, j \in HeldIn(items) : items[i].pos = items[j].pos => i = j

LEMMA HeldIsFinite ==
  ASSUME NEW items, NEW m \in Nat, HeldIn(items) \subseteq 1..m
  PROVE  IsFiniteSet(HeldIn(items)) /\ Cardinality(HeldIn(items)) \in Nat
<1>1. IsFiniteSet(1..m)
  BY FS_Interval
<1>2. IsFiniteSet(HeldIn(items))
  BY <1>1, FS_Subset
<1> QED BY <1>2, FS_CardinalityType

LEMMA OrderIs ==
  ASSUME NEW m \in Nat, NEW items, Lined(items, m)
  PROVE  /\ OrderOf(items) \in [1..Cardinality(HeldIn(items)) -> HeldIn(items)]
         /\ IsList(OrderOf(items), m)
         /\ \A i : Lists(i, OrderOf(items)) <=> i \in HeldIn(items)
<1> DEFINE H == HeldIn(items)
           n == Cardinality(H)
           w == [k \in 1..n |-> CHOOSE i \in H : items[i].pos = k - 1]
<1>1. n \in Nat
  BY HeldIsFinite DEF Lined
<1>2. /\ H \subseteq 1..m /\ {items[i].pos : i \in H} = 0..(n - 1)
      /\ \A i, j \in H : items[i].pos = items[j].pos => i = j
  BY DEF Lined
<1> HIDE DEF n, H
<1>3. ASSUME NEW k \in 1..n PROVE w[k] \in H /\ items[w[k]].pos = k - 1
  <2>1. k - 1 \in 0..(n - 1)
    BY <1>1
  <2>2. \E i \in H : items[i].pos = k - 1
    BY <1>2, <2>1
  <2>3. w[k] = CHOOSE i \in H : items[i].pos = k - 1
    OBVIOUS
  <2> QED BY <2>2, <2>3
<1>4. w \in [1..n -> H]
  BY <1>3
<1>5. DOMAIN w = 1..n
  OBVIOUS
<1> HIDE DEF w
<1>6. ASSUME NEW i \in H PROVE \E k \in DOMAIN w : w[k] = i
  <2>1. items[i].pos \in 0..(n - 1)
    BY <1>2
  <2>2. items[i].pos + 1 \in 1..n /\ items[w[items[i].pos + 1]].pos = items[i].pos
    BY <1>1, <1>3, <2>1
  <2> QED BY <1>2, <1>3, <1>5, <2>2
<1>7. \A j, k \in DOMAIN w : j < k => items[w[j]].pos < items[w[k]].pos
  BY <1>1, <1>3, <1>5
<1>8. InOrder(items, w)
  BY <1>6, <1>7 DEF InOrder, Lists, H
<1> DEFINE o == OrderOf(items)
<1>9. o \in [1..n -> H] /\ InOrder(items, o)
  <2>1. o = CHOOSE order \in [1..n -> H] : InOrder(items, order)
    BY DEF OrderOf, n, H
  <2> HIDE DEF o
  <2> QED BY <1>4, <1>8, <2>1
<1> HIDE DEF o
<1>10. o \in Seq(1..m) /\ Len(o) = n /\ DOMAIN o = 1..n
  <2>1. o \in [1..n -> 1..m]
    BY <1>2, <1>9
  <2> QED BY <1>1, <2>1, FunctionIsSeq
<1>11. \A j, k \in 1..Len(o) : o[j] = o[k] => j = k
  <2> SUFFICES ASSUME NEW j \in 1..n, NEW k \in 1..n, o[j] = o[k], j # k
               PROVE FALSE
    BY <1>10
  <2>1. \A a, b \in 1..n : a < b => items[o[a]].pos < items[o[b]].pos
    BY <1>9, <1>10 DEF InOrder
  <2>2. o[j] \in H /\ items[o[j]].pos \in 0..(n - 1)
    BY <1>2, <1>9
  <2>3. items[o[j]].pos \in Int
    BY <2>2
  <2>4. j < k \/ k < j
    BY <1>1
  <2> QED BY <2>1, <2>3, <2>4
<1>12. \A i : Lists(i, o) <=> i \in H
  BY <1>9, <1>10 DEF InOrder, Lists, H
<1> QED BY <1>9, <1>10, <1>11, <1>12 DEF IsList, H, n, o

LEMMA RenumberedIs ==
  ASSUME NEW m \in 0..MaxTracks, NEW o, IsList(o, m),
         NEW by \in [Tracks -> Accounts \cup {Nobody}]
  PROVE  /\ Lined(Renumbered(o, by), m)
         /\ \A i : i \in HeldIn(Renumbered(o, by)) <=> Lists(i, o)
<1> DEFINE r == Renumbered(o, by)
           n == Len(o)
           H == HeldIn(r)
<1>1. /\ n \in Nat /\ DOMAIN o = 1..n /\ o \in [1..n -> 1..m]
      /\ \A j, k \in 1..n : o[j] = o[k] => j = k
  BY LenProperties DEF IsList
<1>2. MaxTracks \in Nat /\ m \in Nat /\ 1..m \subseteq Tracks
  BY PlaylistsAssumption DEF Tracks
<1>3. \A i \in Tracks :
        r[i] = IF Lists(i, o) THEN [pos |-> IndexOf(i, o) - 1, by |-> by[i]] ELSE Gone
  BY DEF Renumbered
<1>4. ASSUME NEW i, Lists(i, o)
      PROVE  i \in Tracks /\ i \in 1..m /\ IndexOf(i, o) \in 1..n /\ o[IndexOf(i, o)] = i
  BY <1>1, <1>2, <1>4, IndexIs
<1>5. r \in Items
  <2>1. Gone \in [pos : {-2} \cup Nat, by : Accounts \cup {Nobody}]
    BY DEF Gone
  <2>2. \A i \in Tracks : Lists(i, o) => IndexOf(i, o) - 1 \in Nat
    BY <1>1, <1>4
  <2>3. \A i \in Tracks : r[i] \in [pos : {-2} \cup Nat, by : Accounts \cup {Nobody}]
    <3> SUFFICES ASSUME NEW i \in Tracks
                 PROVE  r[i] \in [pos : {-2} \cup Nat, by : Accounts \cup {Nobody}]
      OBVIOUS
    <3>1. by[i] \in Accounts \cup {Nobody}
      OBVIOUS
    <3> HIDE DEF r
    <3>2. CASE Lists(i, o)
      <4>1. r[i] = [pos |-> IndexOf(i, o) - 1, by |-> by[i]] /\ IndexOf(i, o) - 1 \in Nat
        BY <1>3, <2>2, <3>2
      <4> QED BY <3>1, <4>1
    <3>3. CASE ~Lists(i, o)
      BY <1>3, <2>1, <3>3
    <3> QED BY <3>2, <3>3
  <2> QED BY <2>3 DEF Items, Renumbered
<1>6. \A i : i \in H <=> Lists(i, o)
  <2>1. \A i \in Tracks : Lists(i, o) => IndexOf(i, o) - 1 # -2
    BY <1>1, <1>4
  <2>2. H = {i \in Tracks : r[i].pos # -2}
    BY DEF HeldIn
  <2> HIDE DEF r, H
  <2>3. \A i \in Tracks : Lists(i, o) => r[i].pos = IndexOf(i, o) - 1
    <3> SUFFICES ASSUME NEW i \in Tracks, Lists(i, o) PROVE r[i].pos = IndexOf(i, o) - 1
      OBVIOUS
    <3>1. r[i] = [pos |-> IndexOf(i, o) - 1, by |-> by[i]]
      BY <1>3
    <3> QED BY <3>1
  <2>4. \A i \in Tracks : ~Lists(i, o) => r[i].pos = -2
    <3> SUFFICES ASSUME NEW i \in Tracks, ~Lists(i, o) PROVE r[i].pos = -2
      OBVIOUS
    <3>1. r[i] = Gone
      BY <1>3
    <3> QED BY <3>1 DEF Gone
  <2> QED BY <1>4, <2>1, <2>2, <2>3, <2>4
<1> HIDE DEF r, H
<1>7. Cardinality(H) = n
  <2>1. o \in [1..n -> H]
    BY <1>1, <1>6 DEF Lists
  <2>2. \A i \in H : \E k \in 1..n : o[k] = i
    BY <1>1, <1>6 DEF Lists
  <2>3. o \in Bijection(1..n, H)
    BY <1>1, <2>1, <2>2 DEF Bijection, Injection, Surjection, IsInjective
  <2>4. ExistsBijection(1..n, H)
    BY <2>3 DEF ExistsBijection
  <2> QED BY <1>1, <2>4, FS_CountingElements
<1>8. \A i \in H : r[i].pos = IndexOf(i, o) - 1 /\ i \in Tracks
  <2> SUFFICES ASSUME NEW i \in H PROVE r[i].pos = IndexOf(i, o) - 1 /\ i \in Tracks
    OBVIOUS
  <2>1. Lists(i, o) /\ i \in Tracks
    BY <1>4, <1>6
  <2>2. r[i] = [pos |-> IndexOf(i, o) - 1, by |-> by[i]]
    BY <1>3, <2>1
  <2> QED BY <2>1, <2>2
<1>9. {r[i].pos : i \in H} = 0..(n - 1)
  <2>1. ASSUME NEW i \in H PROVE r[i].pos \in 0..(n - 1)
    BY <1>1, <1>4, <1>6, <1>8
  <2>2. ASSUME NEW p \in 0..(n - 1) PROVE \E i \in H : r[i].pos = p
    <3>1. p + 1 \in 1..n
      BY <1>1
    <3>2. o[p + 1] \in H
      BY <1>1, <1>6, <3>1 DEF Lists
    <3>3. IndexOf(o[p + 1], o) = p + 1
      BY <1>1, <1>4, <1>6, <3>1, <3>2
    <3>4. r[o[p + 1]].pos = p
      BY <1>8, <3>2, <3>3
    <3> QED BY <3>2, <3>4
  <2> QED BY <2>1, <2>2
<1>10. ASSUME NEW i \in H, NEW j \in H, r[i].pos = r[j].pos PROVE i = j
  BY <1>1, <1>4, <1>6, <1>8, <1>10
<1>11. H \subseteq 1..m
  BY <1>4, <1>6
<1> QED BY <1>5, <1>6, <1>7, <1>9, <1>10, <1>11 DEF Lined, H, r

LEMMA AppendedIs ==
  ASSUME NEW items, NEW m \in Nat, Lined(items, m), m + 1 \in Tracks,
         NEW who \in Accounts,
         NEW new, new = [items EXCEPT ![m + 1] =
                           [pos |-> Cardinality(HeldIn(items)), by |-> who]]
  PROVE  Lined(new, m + 1)
<1> DEFINE H == HeldIn(items)
           n == Cardinality(H)
<1>1. n \in Nat /\ IsFiniteSet(H)
  BY HeldIsFinite DEF Lined
<1>2. /\ H \subseteq 1..m /\ {items[i].pos : i \in H} = 0..(n - 1)
      /\ \A i, j \in H : items[i].pos = items[j].pos => i = j
      /\ items \in Items
  BY DEF Lined
<1>3. /\ new \in Items /\ new[m + 1].pos = n
      /\ \A i \in Tracks : i # m + 1 => new[i] = items[i]
  BY <1>1, <1>2 DEF Items
<1>4. HeldIn(new) = H \cup {m + 1}
  <2>1. HeldIn(new) = {i \in Tracks : new[i].pos # -2}
    BY DEF HeldIn
  <2>2. H = {i \in Tracks : items[i].pos # -2}
    BY DEF HeldIn
  <2>3. n # -2
    BY <1>1
  <2> HIDE DEF H, n
  <2> QED BY <1>3, <2>1, <2>2, <2>3
<1>5. m + 1 \notin H /\ H \subseteq Tracks
  BY <1>2 DEF HeldIn
<1> HIDE DEF H
<1>6. Cardinality(HeldIn(new)) = n + 1
  BY <1>1, <1>4, <1>5, FS_AddElement
<1>7. \A i \in H : new[i].pos = items[i].pos /\ items[i].pos \in 0..(n - 1)
  BY <1>2, <1>3, <1>5
<1>8. {new[i].pos : i \in H \cup {m + 1}} = 0..n
  <2>1. ASSUME NEW p \in 0..n PROVE \E i \in H \cup {m + 1} : new[i].pos = p
    <3>1. CASE p = n
      BY <1>3, <3>1
    <3>2. CASE p # n
      <4>1. p \in 0..(n - 1)
        BY <1>1, <3>2
      <4>2. \E i \in H : items[i].pos = p
        BY <1>2, <4>1
      <4> QED BY <1>7, <4>2
    <3> QED BY <3>1, <3>2
  <2>2. ASSUME NEW i \in H \cup {m + 1} PROVE new[i].pos \in 0..n
    BY <1>1, <1>3, <1>7
  <2> QED BY <2>1, <2>2
<1>9. \A i, j \in H \cup {m + 1} : new[i].pos = new[j].pos => i = j
  <2>1. \A i \in H : new[i].pos # new[m + 1].pos
    BY <1>1, <1>3, <1>7
  <2> QED BY <1>2, <1>7, <2>1
<1>10. n = (n + 1) - 1 /\ HeldIn(new) \subseteq 1..(m + 1)
  <2>1. 1..m \subseteq 1..(m + 1) /\ m + 1 \in 1..(m + 1)
    OBVIOUS
  <2>2. H \subseteq 1..m
    BY <1>2 DEF H
  <2>3. HeldIn(new) \subseteq 1..(m + 1)
    BY <1>4, <2>1, <2>2
  <2>4. n = (n + 1) - 1
    BY <1>1
  <2> QED BY <2>3, <2>4
<1> QED BY <1>3, <1>4, <1>6, <1>8, <1>9, <1>10 DEF Lined

(* A track more goes to the end. *)
LEMMA NextPositionIs ==
  ASSUME NEW m \in Nat, Lined(track, m)
  PROVE  NextPosition = Cardinality(Held)
<1> DEFINE n == Cardinality(Held)
           P == {track[i].pos : i \in Held}
<1>1. n \in Nat /\ IsFiniteSet(Held) /\ P = 0..(n - 1)
  BY HeldIsFinite DEF Lined, Held
<1>2. CASE Held = {}
  <2>1. n = 0
    BY <1>2, FS_EmptySet
  <2> QED BY <1>2, <2>1 DEF NextPosition
<1>3. CASE Held # {}
  <2>1. n # 0
    BY <1>1, <1>3, FS_EmptySet
  <2>2. n - 1 \in P /\ \A p \in P : p \in Int /\ p <= n - 1
    BY <1>1, <2>1
  <2>3. \A i \in Held : track[i].pos \in P
    OBVIOUS
  <2> HIDE DEF P, n
  <2> DEFINE X == CHOOSE p \in P : \A i \in Held : track[i].pos <= p
  <2>4. X = n - 1
    <3>1. \A i \in Held : track[i].pos <= n - 1
      BY <2>2, <2>3
    <3>2. PICK i \in Held : track[i].pos = n - 1
      BY <2>2 DEF P
    <3>3. \A p \in P : (\A j \in Held : track[j].pos <= p) => p = n - 1
      BY <1>1, <2>2, <3>2
    <3> QED BY <2>2, <3>1, <3>3
  <2>5. NextPosition = 1 + X
    BY <1>3 DEF NextPosition, P
  <2> HIDE DEF X
  <2>6. 1 + (n - 1) = n
    BY <1>1 DEF n
  <2> QED BY <2>4, <2>5, <2>6 DEF n
<1> QED BY <1>2, <1>3

PlState ==
  /\ row \in Rows /\ track \in Items
  /\ followers \subseteq Accounts /\ tie \in [Guests -> PlTies]
  /\ copy \in [Clients -> Copies] /\ kept \subseteq Clients
  /\ told \in [Clients -> Nat \cup {-1}]
  /\ made \in 0..MaxTracks /\ issued \in 0..MaxCalls /\ ties \in 0..MaxTies

LEMMA PlKindsIs ==
  /\ PlKinds <=> /\ PlState /\ req \in [Clients -> PlCalls]
                 /\ \A c \in Clients : PlFits(req[c], AccountOf[c])
  /\ PlKinds' <=> /\ PlState' /\ req' \in [Clients -> PlCalls]
                  /\ \A c \in Clients : PlFits(req'[c], AccountOf[c])
<1>1. ASSUME req \in [Clients -> PlCalls]
      PROVE  \A c \in Clients : /\ req[c].row \in Rows /\ req[c].want \in 0..2 \cup Tracks
                                /\ req[c].base \in Copies /\ req[c].users \subseteq Accounts
  BY <1>1 DEF PlCalls, Levels
<1>2. ASSUME req' \in [Clients -> PlCalls]
      PROVE  \A c \in Clients : /\ req'[c].row \in Rows /\ req'[c].want \in 0..2 \cup Tracks
                                /\ req'[c].base \in Copies /\ req'[c].users \subseteq Accounts
  BY <1>2 DEF PlCalls, Levels
<1>3. PlKinds <=> /\ PlState /\ req \in [Clients -> PlCalls]
                  /\ \A c \in Clients : PlFits(req[c], AccountOf[c])
  BY <1>1 DEF PlKinds, PlState, PlaylistsTypeOK, Items, PlTies
<1>4. PlKinds' <=> /\ PlState' /\ req' \in [Clients -> PlCalls]
                   /\ \A c \in Clients : PlFits(req'[c], AccountOf[c])
  BY <1>2 DEF PlKinds, PlState, PlaylistsTypeOK, Items, PlTies, PlFits, CanAdd, Role, CanView, Clamped
<1> QED BY <1>3, <1>4

LEMMA ListedIs ==
  /\ PlState /\ Listed => Lined(track, made) /\ (~Live => Held = {})
  /\ Lined(track, made)' /\ (~Live => Held = {})' => Listed'
<1>1. PlState /\ Listed => Lined(track, made) /\ (~Live => Held = {})
  BY DEF PlState, Listed, Lined, PositionsAreDense, Held
<1>2. Lined(track, made)' /\ (~Live => Held = {})' => Listed'
  BY DEF Listed, Lined, PositionsAreDense, Held, HeldIn
<1> QED BY <1>1, <1>2

LEMMA PlBlank ==
  /\ NoRow \in Rows /\ NoRow.rev = 0 /\ NoRow.state = "none"
  /\ NoCopy \in Copies /\ NoCopy.rev = -1
  /\ NoCall \in PlCalls /\ NoCall.op = "none" /\ NoCall.at = "idle"
  /\ NoCall.base = NoCopy /\ NoCall.row = NoRow /\ NoCall.users = {}
  /\ NoCall.want = 0 /\ NoCall.tie = "none"
<1>1. NoRow \in Rows /\ NoRow.rev = 0 /\ NoRow.state = "none"
  BY DEF NoRow, Rows, Levels
<1>2. <<>> \in Seq(Tracks)
  OBVIOUS
<1>3. NoCopy \in Copies /\ NoCopy.rev = -1
  BY <1>2 DEF NoCopy, Copies
<1>4. /\ NoCall.op = "none" /\ NoCall.at = "idle"
      /\ NoCall.base = NoCopy /\ NoCall.row = NoRow /\ NoCall.users = {}
      /\ NoCall.want = 0 /\ NoCall.tie = "none"
  BY DEF NoCall
<1>5. NoCall \in PlCalls
  BY <1>1, <1>3 DEF NoCall, PlCalls, PlOps, PlSteps, PlTies, Levels
<1> QED BY <1>1, <1>3, <1>4, <1>5

(* A handler that keeps nothing of what it read. *)
LEMMA PlainCall ==
  ASSUME NEW op \in PlOps, NEW at \in PlSteps, NEW want \in Levels \cup Tracks,
         row \in Rows, NEW who,
         NEW r, r = [NoCall EXCEPT !.op = op, !.at = at, !.want = want],
         op = "edit" => at # "write" /\ at # "check",
         op \in {"visibility", "access"} /\ at \in {"load", "write"} => want \in Levels,
         op = "remove" /\ at \in {"load", "write"} => want \in Tracks
  PROVE  r \in PlCalls /\ PlFits(r, who) /\ Reads(r)
<1>1. /\ r.op = op /\ r.at = at /\ r.want = want /\ r.base = NoCopy /\ r.row = NoRow
      /\ r \in PlCalls
  BY PlBlank DEF PlCalls
<1>2. row.rev \in Nat
  BY DEF Rows
<1>3. Current(NoCopy) /\ NoRow.rev <= row.rev
  BY <1>2, PlBlank DEF Current
<1>4. PlFits(r, who)
  BY <1>1 DEF PlFits
<1>5. Reads(r)
  BY <1>1, <1>3 DEF Reads
<1> QED BY <1>1, <1>4, <1>5

LEMMA ThenIs ==
  ASSUME NEW op \in PlOps, NEW at \in PlSteps, row \in Rows, NEW who,
         op = "edit" => at # "write" /\ at # "check",
         op = "remove" => at # "load" /\ at # "write",
         NEW r, r = [NoCall EXCEPT !.op = op, !.at = at]
  PROVE  r \in PlCalls /\ PlFits(r, who) /\ Reads(r) /\ r.at = at
<1>1. r = [NoCall EXCEPT !.op = op, !.at = at, !.want = 0]
  BY PlBlank DEF PlCalls
<1>2. 0 \in Levels /\ 0 \in Levels \cup Tracks
  BY DEF Levels
<1>3. r \in PlCalls /\ PlFits(r, who) /\ Reads(r)
  <2> HIDE DEF PlOps, PlSteps
  <2> QED BY <1>1, <1>2, PlainCall
<1>4. r.at = at
  BY PlBlank DEF PlCalls
<1> QED BY <1>3, <1>4

LEMMA IdleIs ==
  ASSUME row \in Rows, NEW who
  PROVE  NoCall \in PlCalls /\ PlFits(NoCall, who) /\ Reads(NoCall)
<1>1. row.rev \in Nat
  BY DEF Rows
<1> QED BY <1>1, PlBlank DEF PlFits, Reads, Current

Fresh(c, r) ==
  /\ req' = [req EXCEPT ![c] = r]
  /\ r \in PlCalls /\ PlFits(r, AccountOf[c]) /\ Reads(r)

(* What a handler goes on with is again what a handler may hold. *)
LEMMA RequestsFit ==
  ASSUME PlInv, NEW c \in Clients, Handler(c)
  PROVE  UNCHANGED req \/ \E r : Fresh(c, r)
<1>0. /\ PlState /\ req \in [Clients -> PlCalls] /\ req[c] \in PlCalls
      /\ PlFits(req[c], AccountOf[c]) /\ Reads(req[c]) /\ Current(copy[c])
      /\ row \in Rows /\ row.rev \in Nat /\ copy[c] \in Copies
      /\ req[c].op \in PlOps /\ req[c].row \in Rows /\ req[c].base \in Copies
  <2>1. PlState /\ req \in [Clients -> PlCalls] /\ PlFits(req[c], AccountOf[c])
    BY PlKindsIs DEF PlInv
  <2>2. Reads(req[c]) /\ Current(copy[c])
    BY DEF PlInv, AllCurrent
  <2>3. row \in Rows /\ row.rev \in Nat /\ copy[c] \in Copies
    BY <2>1 DEF PlState, Rows
  <2> QED BY <2>1, <2>2, <2>3 DEF PlCalls
<1> DEFINE Done == UNCHANGED req \/ \E r : Fresh(c, r)
<1>i. ASSUME Finish(c) PROVE Done
  <2>1. Fresh(c, NoCall)
    BY <1>0, <1>i, IdleIs DEF Finish, Go, Fresh
  <2> QED BY <2>1
<1>t. ASSUME NEW step \in PlSteps, Then(c, step),
             req[c].op = "edit" => step # "write" /\ step # "check",
             req[c].op = "remove" => step # "load" /\ step # "write"
      PROVE  Done
  <2> DEFINE r == [NoCall EXCEPT !.op = req[c].op, !.at = step]
  <2>1. r \in PlCalls /\ PlFits(r, AccountOf[c]) /\ Reads(r)
    <3> DEFINE op == req[c].op
               who == AccountOf[c]
    <3>1. op \in PlOps /\ row \in Rows
      BY <1>0
    <3>2. /\ op = "edit" => step # "write" /\ step # "check"
          /\ op = "remove" => step # "load" /\ step # "write"
      BY <1>t
    <3>3. r = [NoCall EXCEPT !.op = op, !.at = step]
      OBVIOUS
    <3> HIDE DEF PlSteps, PlOps, op, who, r
    <3>4. r \in PlCalls /\ PlFits(r, who) /\ Reads(r)
      BY <3>1, <3>2, <3>3, ThenIs
    <3> QED BY <3>4 DEF who
  <2>2. Fresh(c, r)
    BY <1>t, <2>1 DEF Then, Go, Fresh
  <2> QED BY <2>2
<1>b. ASSUME NEW op \in PlOps, NEW step \in PlSteps, NEW want \in Levels \cup Tracks,
             Begin(c, Call(op, step, want)),
             op = "edit" => step # "write" /\ step # "check",
             op \in {"visibility", "access"} /\ step \in {"load", "write"} => want \in Levels,
             op = "remove" /\ step \in {"load", "write"} => want \in Tracks
      PROVE  Done
  <2> DEFINE r == Call(op, step, want)
  <2>1. r = [NoCall EXCEPT !.op = op, !.at = step, !.want = want]
    BY DEF Call
  <2>2. r \in PlCalls /\ PlFits(r, AccountOf[c]) /\ Reads(r)
    <3> DEFINE who == AccountOf[c]
    <3>1. row \in Rows
      BY <1>0
    <3>2. /\ op = "edit" => step # "write" /\ step # "check"
          /\ op \in {"visibility", "access"} /\ step \in {"load", "write"} => want \in Levels
          /\ op = "remove" /\ step \in {"load", "write"} => want \in Tracks
      BY <1>b
    <3> HIDE DEF PlOps, PlSteps, r, who
    <3>3. r \in PlCalls /\ PlFits(r, who) /\ Reads(r)
      BY <2>1, <3>1, <3>2, PlainCall
    <3> QED BY <3>3 DEF who
  <2>3. Fresh(c, r)
    BY <1>b, <2>2 DEF Begin, Go, Fresh
  <2> QED BY <2>3
<1>s. PlSteps = {"idle", "fill", "load", "check", "follow", "items", "write",
                 "announce", "reload", "audience", "push"}
  BY DEF PlSteps
<1>o. PlOps = {"none", "import", "open", "follow", "edit", "details", "visibility",
               "access", "add", "remove", "delete"}
  BY DEF PlOps
<1> HIDE DEF Done
<1>1. CASE Create(c)
  <2> DEFINE r == [NoCall EXCEPT !.op = "import", !.at = "fill"]
  <2>1. "import" \in PlOps /\ "fill" \in PlSteps
    BY DEF PlOps, PlSteps
  <2>2. r \in PlCalls /\ PlFits(r, AccountOf[c]) /\ Reads(r)
    <3> DEFINE op == "import"
               at == "fill"
               who == AccountOf[c]
    <3>1. op \in PlOps /\ at \in PlSteps /\ row \in Rows
      BY <1>0, <2>1
    <3>2. op # "edit" /\ op # "remove" /\ r = [NoCall EXCEPT !.op = op, !.at = at]
      OBVIOUS
    <3> HIDE DEF PlSteps, PlOps, op, at, who, r
    <3>3. r \in PlCalls /\ PlFits(r, who) /\ Reads(r)
      BY <3>1, <3>2, ThenIs
    <3> QED BY <3>3 DEF who
  <2>3. Fresh(c, r)
    BY <1>1, <2>2 DEF Create, Go, Fresh
  <2> QED BY <2>3
<1>2. CASE Fill(c) \/ FillNothing(c) \/ AnswerItems(c) \/ Refuse(c) \/ PushGone(c)
  <2>1. Finish(c)
    BY <1>2 DEF Fill, FillNothing, AnswerItems, Refuse, PushGone
  <2> QED BY <1>i, <2>1 DEF Done
<1>3. CASE Read(c)
  <2>1. PICK op \in {"open", "follow"} : Begin(c, Call(op, "load", 0))
    BY <1>3 DEF Read
  <2>2. op \in PlOps /\ "load" \in PlSteps /\ 0 \in Levels \cup Tracks
    BY <1>o, <1>s DEF Levels
  <2> QED BY <1>b, <2>1, <2>2 DEF Done
<1>4. ASSUME NEW ops, NEW step \in {"check", "write"}, Load(c, ops, step),
             step = "write" => "edit" \notin ops
      PROVE Done
  <2>1. CASE ~Live
    BY <1>4, <1>i, <2>1 DEF Load
  <2>2. CASE Live
    <3> DEFINE r == [req[c] EXCEPT !.row = row, !.at = step]
    <3>1. At(c, ops, "load") /\ req' = [req EXCEPT ![c] = r] /\ req[c].op \in ops
          /\ req[c].at = "load"
      BY <1>4, <2>2 DEF Load, Go, At
    <3>2. step \in PlSteps
      BY <1>s
    <3>3. r \in PlCalls
      BY <1>0, <3>2 DEF PlCalls
    <3>4. /\ r.op = req[c].op /\ r.at = step /\ r.row = row /\ r.base = req[c].base
          /\ r.want = req[c].want /\ r.tie = req[c].tie
      BY <1>0 DEF PlCalls
    <3> HIDE DEF r
    <3>5. PlFits(r, AccountOf[c])
      BY <1>0, <1>4, <3>1, <3>4 DEF PlFits
    <3>6. Reads(r)
      BY <1>0, <3>4 DEF Reads, Current
    <3> QED BY <3>1, <3>3, <3>5, <3>6 DEF Fresh, Done
  <2> QED BY <2>1, <2>2
<1>5. CASE CheckView(c)
  <2>1. CASE ~CanView(req[c].row, AccountOf[c], Tie(c))
    BY <1>5, <1>i, <2>1 DEF CheckView, Done
  <2>2. CASE CanView(req[c].row, AccountOf[c], Tie(c))
    <3> DEFINE nrow == [NoRow EXCEPT !.rev = req[c].row.rev]
               step == IF req[c].op = "follow" THEN "follow" ELSE "items"
               r == [req[c] EXCEPT !.row = nrow, !.at = step]
    <3>1. req' = [req EXCEPT ![c] = r] /\ req[c].op \in {"open", "follow"}
      BY <1>5, <2>2 DEF CheckView, Go, At
    <3>2. nrow \in Rows /\ nrow.rev = req[c].row.rev
      BY <1>0, PlBlank DEF Rows
    <3>3. step \in PlSteps
      BY <1>s
    <3> HIDE DEF nrow, step
    <3>4. r \in PlCalls
      BY <1>0, <3>2, <3>3 DEF PlCalls
    <3>5. r.op = req[c].op /\ r.row = nrow /\ r.base = req[c].base
      BY <1>0 DEF PlCalls
    <3> HIDE DEF r
    <3>6. PlFits(r, AccountOf[c])
      BY <3>1, <3>5 DEF PlFits
    <3>7. Reads(r)
      BY <1>0, <3>1, <3>2, <3>5 DEF Reads
    <3> QED BY <3>1, <3>4, <3>6, <3>7 DEF Fresh, Done
  <2> QED BY <2>1, <2>2
<1>6. CASE Follow(c)
  <2> DEFINE r == [req[c] EXCEPT !.at = "items"]
  <2>1. req' = [req EXCEPT ![c] = r] /\ req[c].op = "follow"
    BY <1>6 DEF Follow, Go, At
  <2>2. r \in PlCalls
    BY <1>0, <1>s DEF PlCalls
  <2>3. r.op = req[c].op /\ r.row = req[c].row /\ r.base = req[c].base
    BY <1>0 DEF PlCalls
  <2> HIDE DEF r
  <2>4. PlFits(r, AccountOf[c]) /\ Reads(r)
    BY <1>0, <2>1, <2>3 DEF PlFits, Reads
  <2> QED BY <2>1, <2>2, <2>4 DEF Fresh, Done
<1>7. CASE Unfollow(c)
  BY <1>7 DEF Unfollow, Done
<1>8. CASE CallEdit(c)
  <2>1. PICK op \in {"edit", "details"}, step \in {"load", "write"} :
          /\ Begin(c, [Call(op, step, 0) EXCEPT !.base = copy[c]])
          /\ op = "edit" => step = "load"
    BY <1>8 DEF CallEdit
  <2> DEFINE p == [NoCall EXCEPT !.op = op, !.at = step, !.want = 0]
             r == [p EXCEPT !.base = copy[c]]
  <2>2. op \in PlOps /\ step \in PlSteps /\ 0 \in Levels \cup Tracks
    BY <1>o, <1>s DEF Levels
  <2>3. p \in PlCalls /\ Reads(p)
    <3> HIDE DEF PlOps, PlSteps
    <3> QED BY <1>0, <2>1, <2>2, PlainCall
  <2>4. p.op = op /\ p.at = step
    BY PlBlank DEF PlCalls
  <2>5. req' = [req EXCEPT ![c] = r]
    BY <2>1 DEF Begin, Go, Call
  <2> HIDE DEF p
  <2>6. r \in PlCalls
    BY <1>0, <2>3 DEF PlCalls
  <2>7. r.op = op /\ r.at = step /\ r.base = copy[c] /\ r.row = p.row
    BY <2>3, <2>4 DEF PlCalls
  <2> HIDE DEF r
  <2>8. PlFits(r, AccountOf[c]) /\ Reads(r)
    BY <1>0, <2>1, <2>3, <2>7 DEF PlFits, Reads
  <2> QED BY <2>5, <2>6, <2>8 DEF Fresh, Done
<1>9. CASE CheckRole(c)
  <2>1. CASE ~CanAdd(Role(req[c].row, AccountOf[c], Tie(c)))
    BY <1>9, <1>i, <2>1 DEF CheckRole, Done
  <2>2. CASE CanAdd(Role(req[c].row, AccountOf[c], Tie(c)))
    <3> DEFINE r == [req[c] EXCEPT !.tie = Tie(c), !.at = "write"]
    <3>1. req' = [req EXCEPT ![c] = r] /\ req[c].op = "edit" /\ req[c].at = "check"
      BY <1>9, <2>2 DEF CheckRole, Go, At
    <3>2. Tie(c) \in PlTies
      <4>1. AccountOf[c] \in Guests \cup {Creator}
        BY PlaylistsAssumption
      <4> QED BY <1>0, <4>1 DEF Tie, Mine, PlState, PlTies
    <3>3. r \in PlCalls
      BY <1>0, <1>s, <3>2 DEF PlCalls
    <3>4. /\ r.op = "edit" /\ r.at = "write" /\ r.row = req[c].row /\ r.base = req[c].base
          /\ r.tie = Tie(c)
      BY <1>0, <3>1 DEF PlCalls
    <3> HIDE DEF r
    <3>5. PlFits(r, AccountOf[c])
      BY <2>2, <3>4 DEF PlFits
    <3>6. Reads(r)
      BY <1>0, <3>1, <3>4 DEF Reads
    <3> QED BY <3>1, <3>3, <3>5, <3>6 DEF Fresh, Done
  <2> QED BY <2>1, <2>2
<1>10. CASE \/ WriteEdits(c) \/ WriteDetails(c) \/ WriteVisibility(c) \/ WriteAccess(c)
            \/ AddTrack(c) \/ RemoveTrack(c) \/ Announce(c)
  <2>1. Finish(c) \/ Then(c, "announce") \/ Then(c, "reload")
    BY <1>10 DEF WriteEdits, WriteDetails, WriteVisibility, WriteAccess, AddTrack,
                 RemoveTrack, Announce
  <2> QED BY <1>i, <1>s, <1>t, <2>1 DEF Done
<1>11. CASE Reload(c)
  <2>1. CASE ~Live
    BY <1>11, <1>i, <2>1 DEF Reload, Done
  <2>2. CASE Live
    <3>1. req' = [req EXCEPT ![c] = [req[c] EXCEPT !.row.rev = row.rev, !.at = "items"]]
          /\ req[c].op \in {"edit", "details"}
      BY <1>11, <2>2 DEF Reload, Go, At
    <3> DEFINE nrow == [req[c].row EXCEPT !.rev = row.rev]
               r == [req[c] EXCEPT !.row = nrow, !.at = "items"]
    <3>2. nrow \in Rows /\ nrow.rev = row.rev
      BY <1>0 DEF Rows
    <3>3. req' = [req EXCEPT ![c] = r]
      BY <1>0, <3>1
    <3> HIDE DEF nrow
    <3>4. r \in PlCalls
      BY <1>0, <1>s, <3>2 DEF PlCalls
    <3>5. r.op = req[c].op /\ r.at = "items" /\ r.row = nrow /\ r.base = req[c].base
      BY <1>0 DEF PlCalls
    <3> HIDE DEF r
    <3>6. PlFits(r, AccountOf[c])
      BY <3>1, <3>5 DEF PlFits
    <3>7. Reads(r)
      BY <1>0, <3>2, <3>5 DEF Reads
    <3> QED BY <3>3, <3>4, <3>6, <3>7 DEF Fresh, Done
  <2> QED BY <2>1, <2>2
<1>12. CASE CallOwner(c)
  <2>1. PICK op \in PlOps, step \in PlSteps, want \in Levels \cup Tracks :
          /\ Begin(c, Call(op, step, want)) /\ op # "edit"
          /\ op \in {"visibility", "access"} => want \in Levels
          /\ op = "remove" => want \in Tracks
    <3>1. \/ \E vis \in Levels : Begin(c, Call("visibility", "write", vis))
          \/ \E access \in Levels : Begin(c, Call("access", "load", access))
          \/ Begin(c, Call("add", "load", 0))
          \/ \E i \in Tracks : Begin(c, Call("remove", "load", i))
          \/ Begin(c, Call("delete", "audience", 0))
      BY <1>12 DEF CallOwner
    <3>2. 0 \in Levels
      BY DEF Levels
    <3> QED BY <1>o, <1>s, <3>1, <3>2
  <2> QED BY <1>b, <2>1 DEF Done
<1>13. CASE ReadAudience(c)
  <2> DEFINE r == [req[c] EXCEPT !.users = Audience, !.at = "write"]
  <2>1. req' = [req EXCEPT ![c] = r] /\ req[c].op = "delete"
    BY <1>13 DEF ReadAudience, Go, At
  <2>2. Audience \in SUBSET Accounts
    BY <1>0 DEF PlState, Audience, Accounts
  <2>3. r \in PlCalls
    BY <1>0, <1>s, <2>2 DEF PlCalls
  <2>4. r.op = req[c].op /\ r.row = req[c].row /\ r.base = req[c].base
    BY <1>0 DEF PlCalls
  <2> HIDE DEF r
  <2>5. PlFits(r, AccountOf[c]) /\ Reads(r)
    BY <1>0, <2>1, <2>4 DEF PlFits, Reads
  <2> QED BY <2>1, <2>3, <2>5 DEF Fresh, Done
<1>14. CASE Delete(c)
  <2>1. CASE ~Live
    BY <1>14, <1>i, <2>1 DEF Delete, Done
  <2>2. CASE Live
    <3> DEFINE r == [req[c] EXCEPT !.at = "push"]
    <3>1. req' = [req EXCEPT ![c] = r] /\ req[c].op = "delete"
      BY <1>14, <2>2 DEF Delete, Go, At
    <3>2. r \in PlCalls
      BY <1>0, <1>s DEF PlCalls
    <3>3. r.op = req[c].op /\ r.row = req[c].row /\ r.base = req[c].base
      BY <1>0 DEF PlCalls
    <3> HIDE DEF r
    <3>4. PlFits(r, AccountOf[c]) /\ Reads(r)
      BY <1>0, <3>1, <3>3 DEF PlFits, Reads
    <3> QED BY <3>1, <3>2, <3>4 DEF Fresh, Done
  <2> QED BY <2>1, <2>2
<1>15. CASE \/ Load(c, {"open", "follow", "edit"}, "check")
            \/ Load(c, {"access", "add", "remove"}, "write")
  BY <1>4, <1>15 DEF Done
<1> QED BY <1>1, <1>2, <1>3, <1>5, <1>6, <1>7, <1>8, <1>9, <1>10, <1>11, <1>12, <1>13,
           <1>14, <1>15 DEF Done, Handler

(* How a step may move the row and the tracks. *)
Written == Live /\ row'.state = "live" /\ row'.rev = row.rev + 1
Moves ==
  /\ row' \in Rows /\ made' \in 0..MaxTracks
  /\ Lined(track', made') /\ (Live' \/ Held' = {})
  /\ \/ UNCHANGED <<row, track, made>>
     \/ Written
     \/ row.state = "none" /\ row'.state = "live" /\ row'.rev = 0
        /\ UNCHANGED <<track, made>>
     \/ row'.state = "gone" /\ row'.rev = row.rev

LEMMA BumpedIs ==
  ASSUME row \in Rows
  PROVE  /\ Bumped \in Rows /\ Bumped.state = row.state /\ Bumped.rev = row.rev + 1
         /\ Bumped.vis = row.vis /\ Bumped.access = row.access
BY DEF Bumped, Rows

LEMMA AddersAre ==
  ASSUME track \in Items
  PROVE  Adders \in [Tracks -> Accounts \cup {Nobody}]
BY DEF Adders, Items

LEMMA HeldPrime == Held' = HeldIn(track')
BY DEF Held, HeldIn

LEMMA TracksStayLined ==
  ASSUME PlInv, NEW c \in Clients, Handler(c)
  PROVE  Moves
<1>0. /\ PlState /\ row \in Rows /\ row.rev \in Nat /\ track \in Items
      /\ made \in Nat /\ made \in 0..MaxTracks /\ MaxTracks \in Nat
      /\ Lined(track, made) /\ (~Live => Held = {}) /\ req[c] \in PlCalls
  <2>1. PlState /\ req \in [Clients -> PlCalls]
    BY PlKindsIs DEF PlInv
  <2>2. row \in Rows /\ row.rev \in Nat /\ track \in Items /\ made \in 0..MaxTracks
    BY <2>1 DEF PlState, Rows
  <2>3. MaxTracks \in Nat
    BY PlaylistsAssumption
  <2>4. made \in Nat
    BY <2>2, <2>3
  <2>5. Lined(track, made) /\ (~Live => Held = {})
    BY <2>1, ListedIs DEF PlInv
  <2> QED BY <2>1, <2>2, <2>3, <2>4, <2>5
<1>b. /\ Bumped \in Rows /\ Bumped.state = row.state /\ Bumped.rev = row.rev + 1
      /\ Bumped.vis = row.vis /\ Bumped.access = row.access
  BY <1>0, BumpedIs
<1>u. ASSUME UNCHANGED <<row, track, made>> PROVE Moves
  <2>1. Held' = Held /\ (Live' <=> Live)
    BY <1>u DEF Held, Live, HeldIn
  <2> QED BY <1>0, <1>u, <2>1 DEF Moves
<1>w. ASSUME Live, row' \in Rows, row'.state = "live", row'.rev = row.rev + 1,
             made' \in 0..MaxTracks, Lined(track', made')
      PROVE  Moves
  BY <1>w DEF Moves, Written, Live
<1>o. /\ IsList(Order, made) /\ \A i : Lists(i, Order) <=> i \in Held
  BY <1>0, OrderIs DEF Order, Held
<1>n. ASSUME made < MaxTracks, made' = made + 1,
             track' = [track EXCEPT ![made + 1] = [pos |-> NextPosition, by |-> Creator]]
      PROVE  made' \in 0..MaxTracks /\ Lined(track', made')
  <2>1. NextPosition = Cardinality(HeldIn(track))
    BY <1>0, NextPositionIs DEF Held
  <2>2. made + 1 \in Tracks /\ made + 1 \in 0..MaxTracks
    BY <1>0, <1>n DEF Tracks
  <2>3. Creator \in Accounts
    BY DEF Accounts
  <2>4. track' = [track EXCEPT ![made + 1] = [pos |-> Cardinality(HeldIn(track)), by |-> Creator]]
    BY <1>n, <2>1
  <2> DEFINE new == track'
  <2> HIDE DEF new
  <2>5. Lined(new, made + 1)
    BY <1>0, <2>2, <2>3, <2>4, AppendedIs DEF new
  <2> QED BY <1>n, <2>2, <2>5 DEF new
<1>1. CASE Create(c)
  <2>1. row.state = "none" /\ UNCHANGED <<track, made>>
        /\ \E vis \in Levels : row' = [NoRow EXCEPT !.state = "live", !.vis = vis]
    BY <1>1 DEF Create
  <2>2. row' \in Rows /\ row'.state = "live" /\ row'.rev = 0
    BY <2>1, PlBlank DEF Rows
  <2> QED BY <1>0, <2>1, <2>2 DEF Moves, Live
<1>2. CASE Fill(c) \/ AddTrack(c)
  <2>1. CASE Live /\ made < MaxTracks
    <3>1. /\ row' = Bumped /\ made' = made + 1
          /\ track' = [track EXCEPT ![made + 1] = [pos |-> NextPosition, by |-> Creator]]
      BY <1>2, <2>1 DEF Fill, AddTrack
    <3> QED BY <1>b, <1>n, <1>w, <2>1, <3>1 DEF Live
  <2>2. CASE ~(Live /\ made < MaxTracks)
    BY <1>2, <1>u, <2>2 DEF Fill, AddTrack
  <2> QED BY <2>1, <2>2
<1>3. CASE WriteEdits(c)
  <2> DEFINE who == AccountOf[c]
             role == Role(req[c].row, who, req[c].tie)
             s0 == [order |-> Order, by |-> Adders, made |-> made, ok |-> TRUE]
  <2>1. PICK batch \in Batches :
          /\ track' = Renumbered(AfterBatch(role, who, batch).order,
                                 AfterBatch(role, who, batch).by)
          /\ made' = AfterBatch(role, who, batch).made
    BY <1>3 DEF WriteEdits
  <2>2. Live /\ row' = Bumped
    BY <1>3 DEF WriteEdits
  <2>3. Draft(s0)
    <3>1. Adders \in [Tracks -> Accounts \cup {Nobody}]
      BY <1>0, AddersAre
    <3>2. 1..made \subseteq Tracks
      BY <1>0 DEF Tracks
    <3>3. Order \in Seq(Tracks)
      BY <1>o, <3>2, SeqMonotonic DEF IsList
    <3>4. s0 \in [order : Seq(Tracks), by : [Tracks -> Accounts \cup {Nobody}],
                  made : 0..MaxTracks, ok : BOOLEAN]
      BY <1>0, <3>1, <3>3
    <3> QED BY <1>o, <3>4 DEF Draft
  <2>4. who \in Accounts
    BY PlaylistsAssumption DEF Accounts
  <2> DEFINE res == AfterBatch(role, who, batch)
  <2> HIDE DEF role, who
  <2>5. Draft(res)
    BY <2>3, <2>4, AfterBatchIsDraft
  <2> HIDE DEF res
  <2>6. res.made \in 0..MaxTracks /\ IsList(res.order, res.made)
        /\ res.by \in [Tracks -> Accounts \cup {Nobody}]
    BY <2>5 DEF Draft
  <2>7. Lined(Renumbered(res.order, res.by), res.made)
    BY <2>6, RenumberedIs
  <2> QED BY <1>b, <1>w, <2>1, <2>2, <2>6, <2>7 DEF res, Live
<1>4. CASE WriteDetails(c)
  <2>1. Live /\ row' = Bumped /\ UNCHANGED <<track, made>>
    BY <1>4 DEF WriteDetails
  <2> QED BY <1>0, <1>b, <1>w, <2>1 DEF Live
<1>5. CASE WriteVisibility(c)
  <2>1. CASE Live
    <3>1. At(c, {"visibility"}, "write") /\ row' = Narrowed(req[c].want)
          /\ UNCHANGED <<track, made>>
      BY <1>5, <2>1 DEF WriteVisibility
    <3>2. req[c].want \in Levels
      <4>1. PlFits(req[c], AccountOf[c])
        BY PlKindsIs DEF PlInv
      <4> QED BY <3>1, <4>1 DEF PlFits, At
    <3>3. Clamped(Bumped.access, req[c].want) \in Levels
      BY <1>b, <3>2 DEF Clamped, Rows
    <3>4. row' = [Bumped EXCEPT !.vis = req[c].want,
                                !.access = Clamped(Bumped.access, req[c].want)]
      BY <1>b, <3>1 DEF Narrowed, Rows
    <3>5. row' \in Rows /\ row'.state = row.state /\ row'.rev = row.rev + 1
      BY <1>b, <3>2, <3>3, <3>4 DEF Rows
    <3> QED BY <1>0, <1>w, <2>1, <3>1, <3>5 DEF Live
  <2>2. CASE ~Live
    BY <1>5, <1>u, <2>2 DEF WriteVisibility
  <2> QED BY <2>1, <2>2
<1>6. CASE WriteAccess(c)
  <2>1. CASE Live
    <3>1. At(c, {"access"}, "write") /\ UNCHANGED <<track, made>>
          /\ row' = [Bumped EXCEPT !.access = Clamped(req[c].want, req[c].row.vis)]
      BY <1>6, <2>1 DEF WriteAccess
    <3>2. req[c].want \in Levels /\ req[c].row.vis \in Levels
      <4>1. PlFits(req[c], AccountOf[c])
        BY PlKindsIs DEF PlInv
      <4> QED BY <1>0, <3>1, <4>1 DEF PlFits, At, PlCalls, Rows
    <3>3. Clamped(req[c].want, req[c].row.vis) \in Levels
      BY <3>2 DEF Clamped
    <3>4. row' \in Rows /\ row'.state = row.state /\ row'.rev = row.rev + 1
      BY <1>b, <3>1, <3>3 DEF Rows
    <3> QED BY <1>0, <1>w, <2>1, <3>1, <3>4 DEF Live
  <2>2. CASE ~Live
    BY <1>6, <1>u, <2>2 DEF WriteAccess
  <2> QED BY <2>1, <2>2
<1>7. CASE RemoveTrack(c)
  <2>1. CASE req[c].want \in Held
    <3>1. row' = Bumped /\ track' = Without(req[c].want) /\ made' = made
      BY <1>7, <2>1 DEF RemoveTrack
    <3>2. Live
      BY <1>0, <2>1
    <3> DEFINE i == req[c].want
               o == Dropped(Order, i)
               by == [Adders EXCEPT ![i] = Nobody]
    <3>3. IsList(o, made)
      BY <1>0, <1>o, <2>1, DroppedIs
    <3>4. by \in [Tracks -> Accounts \cup {Nobody}]
      BY <1>0, AddersAre
    <3>5. track' = Renumbered(o, by)
      BY <3>1 DEF Without
    <3> HIDE DEF o, by
    <3>6. Lined(Renumbered(o, by), made)
      BY <1>0, <3>3, <3>4, RenumberedIs
    <3> QED BY <1>0, <1>b, <1>w, <3>1, <3>2, <3>5, <3>6 DEF Live
  <2>2. CASE req[c].want \notin Held
    BY <1>7, <1>u, <2>2 DEF RemoveTrack
  <2> QED BY <2>1, <2>2
<1>8. CASE Delete(c)
  <2>1. CASE Live
    <3>1. row' = [row EXCEPT !.state = "gone"] /\ track' = [i \in Tracks |-> Gone] /\ made' = made
      BY <1>8, <2>1 DEF Delete
    <3>2. row' \in Rows /\ row'.state = "gone" /\ row'.rev = row.rev
      BY <1>0, <3>1 DEF Rows
    <3>3. HeldIn(track') = {} /\ track' \in Items
      BY <3>1 DEF HeldIn, Gone, Items
    <3>4. Cardinality(HeldIn(track')) = 0
      BY <3>3, FS_EmptySet
    <3>5. 0..(0 - 1) = {}
      OBVIOUS
    <3>6. Lined(track', made')
      BY <3>3, <3>4, <3>5 DEF Lined
    <3> QED BY <1>0, <3>1, <3>2, <3>3, <3>6, HeldPrime DEF Moves
  <2>2. CASE ~Live
    BY <1>8, <1>u, <2>2 DEF Delete
  <2> QED BY <2>1, <2>2
<1>9. CASE \/ FillNothing(c) \/ Read(c) \/ CheckView(c) \/ Follow(c)
           \/ Unfollow(c) \/ AnswerItems(c) \/ CallEdit(c) \/ CheckRole(c)
           \/ Refuse(c) \/ Announce(c) \/ Reload(c) \/ CallOwner(c)
           \/ ReadAudience(c) \/ PushGone(c)
  <2>1. UNCHANGED <<row, track, made>>
    BY <1>9 DEF FillNothing, Read, CheckView, Follow, Unfollow, AnswerItems, CallEdit,
                CheckRole, Refuse, Announce, Reload, CallOwner, ReadAudience, PushGone
  <2> QED BY <1>u, <2>1
<1>10. CASE \/ Load(c, {"open", "follow", "edit"}, "check")
            \/ Load(c, {"access", "add", "remove"}, "write")
  BY <1>10, <1>u DEF Load
<1> QED BY <1>1, <1>2, <1>3, <1>4, <1>5, <1>6, <1>7, <1>8, <1>9, <1>10 DEF Handler

(* The rest of the state keeps its type. *)
LEMMA RestIsTyped ==
  ASSUME PlInv, NEW c \in Clients, Handler(c)
  PROVE  /\ followers' \subseteq Accounts /\ tie' = tie
         /\ copy' \in [Clients -> Copies] /\ kept' \subseteq Clients
         /\ told' \in [Clients -> Nat \cup {-1}]
         /\ issued' \in 0..MaxCalls /\ ties' = ties
<1>0. /\ followers \subseteq Accounts /\ copy \in [Clients -> Copies] /\ kept \subseteq Clients
      /\ told \in [Clients -> Nat \cup {-1}] /\ issued \in 0..MaxCalls /\ MaxCalls \in Nat
      /\ row.rev \in Nat /\ AccountOf[c] \in Accounts /\ req[c] \in PlCalls
  <2>1. PlState /\ req \in [Clients -> PlCalls]
    BY PlKindsIs DEF PlInv
  <2>2. AccountOf[c] \in Accounts /\ MaxCalls \in Nat
    BY PlaylistsAssumption DEF Accounts
  <2> QED BY <2>1, <2>2 DEF PlState, Rows
<1>t. tie' = tie /\ ties' = ties
  BY DEF Handler, Create, Fill, FillNothing, Read, CheckView, Follow,
         Unfollow, AnswerItems, CallEdit, CheckRole, Refuse, Announce, Reload,
         CallOwner, ReadAudience, PushGone, Load, WriteEdits, WriteDetails,
         WriteVisibility, WriteAccess, AddTrack, RemoveTrack, Delete
<1>i. issued' \in 0..MaxCalls
  <2>1. issued' = issued \/ (issued < MaxCalls /\ issued' = issued + 1)
    BY DEF Handler, Create, Fill, FillNothing, Read, CheckView, Follow,
         Unfollow, AnswerItems, CallEdit, CheckRole, Refuse, Announce, Reload,
         CallOwner, ReadAudience, PushGone, Load, WriteEdits, WriteDetails,
         WriteVisibility, WriteAccess, AddTrack, RemoveTrack, Delete, Begin
  <2> QED BY <1>0, <2>1
<1>f. followers' \subseteq Accounts
  <2>1. \/ followers' = followers \/ followers' = followers \cup {AccountOf[c]}
        \/ followers' = followers \ {AccountOf[c]} \/ followers' = {}
    BY DEF Handler, Create, Fill, FillNothing, Read, CheckView, Follow,
         Unfollow, AnswerItems, CallEdit, CheckRole, Refuse, Announce, Reload,
         CallOwner, ReadAudience, PushGone, Load, WriteEdits, WriteDetails,
         WriteVisibility, WriteAccess, AddTrack, RemoveTrack, Delete
  <2> QED BY <1>0, <2>1
<1>c. copy' = copy \/ AnswerItems(c) \/ PushGone(c)
  BY DEF Handler, Create, Fill, FillNothing, Read, CheckView, Follow,
         Unfollow, CallEdit, CheckRole, Refuse, Announce, Reload,
         CallOwner, ReadAudience, Load, WriteEdits, WriteDetails,
         WriteVisibility, WriteAccess, AddTrack, RemoveTrack, Delete
<1>k. kept' = kept \/ AnswerItems(c) \/ PushGone(c) \/ Unfollow(c)
  BY DEF Handler, Create, Fill, FillNothing, Read, CheckView, Follow,
         CallEdit, CheckRole, Refuse, Announce, Reload,
         CallOwner, ReadAudience, Load, WriteEdits, WriteDetails,
         WriteVisibility, WriteAccess, AddTrack, RemoveTrack, Delete
<1>d. told' = told \/ Announce(c)
  BY DEF Handler, Create, Fill, FillNothing, Read, CheckView, Follow,
         Unfollow, AnswerItems, CallEdit, CheckRole, Refuse, Reload,
         CallOwner, ReadAudience, PushGone, Load, WriteEdits, WriteDetails,
         WriteVisibility, WriteAccess, AddTrack, RemoveTrack, Delete
<1>1. copy' \in [Clients -> Copies]
  <2>1. CASE AnswerItems(c)
    <3> DEFINE k == [rev |-> req[c].row.rev, order |-> Order]
    <3>1. copy' = [copy EXCEPT ![c] = k]
      BY <2>1 DEF AnswerItems
    <3>2. Order \in Seq(Tracks)
      <4>1. PlState /\ Listed
        BY PlKindsIs DEF PlInv
      <4>2. Lined(track, made) /\ made \in 0..MaxTracks /\ MaxTracks \in Nat
        BY <4>1, ListedIs, PlaylistsAssumption DEF PlState
      <4>3. IsList(Order, made)
        BY <4>2, OrderIs DEF Order
      <4>4. 1..made \subseteq Tracks
        BY <4>2 DEF Tracks
      <4> QED BY <4>3, <4>4, SeqMonotonic DEF IsList
    <3>3. req[c].row.rev \in Nat
      BY <1>0 DEF PlCalls, Rows
    <3>4. k \in Copies
      BY <3>2, <3>3 DEF Copies
    <3> HIDE DEF k
    <3> QED BY <1>0, <3>1, <3>4
  <2>2. CASE PushGone(c)
    <3>1. copy' = [d \in Clients |-> IF AccountOf[d] \in req[c].users THEN NoCopy ELSE copy[d]]
      BY <2>2 DEF PushGone
    <3> QED BY <1>0, <3>1, PlBlank
  <2> QED BY <1>0, <1>c, <2>1, <2>2
<1>2. kept' \subseteq Clients
  BY <1>0, <1>k DEF AnswerItems, PushGone, Unfollow
<1>3. told' \in [Clients -> Nat \cup {-1}]
  <2>1. CASE Announce(c)
    <3>1. told' = [d \in Clients |-> IF Live /\ AccountOf[d] \in Audience
                                      THEN row.rev ELSE told[d]]
      BY <2>1 DEF Announce
    <3> QED BY <1>0, <3>1
  <2> QED BY <1>0, <1>d, <2>1
<1> QED BY <1>t, <1>i, <1>f, <1>1, <1>2, <1>3

LEMMA PlKindsStep ==
  ASSUME PlInv, NEW c \in Clients, Handler(c)
  PROVE  PlKinds'
<1>1. /\ PlState /\ req \in [Clients -> PlCalls]
      /\ \A d \in Clients : PlFits(req[d], AccountOf[d])
  BY PlKindsIs DEF PlInv
<1>2. PlState'
  BY <1>1, RestIsTyped, TracksStayLined DEF PlState, Moves, Lined
<1>3. req' \in [Clients -> PlCalls] /\ \A d \in Clients : PlFits(req'[d], AccountOf[d])
  <2>1. CASE UNCHANGED req
    BY <1>1, <2>1
  <2>2. CASE \E r : Fresh(c, r)
    <3>1. PICK r : Fresh(c, r)
      BY <2>2
    <3>2. req' = [req EXCEPT ![c] = r] /\ r \in PlCalls /\ PlFits(r, AccountOf[c])
      BY <3>1 DEF Fresh
    <3> QED BY <1>1, <3>2
  <2> QED BY <2>1, <2>2, RequestsFit
<1> QED BY <1>2, <1>3, PlKindsIs

LEMMA ListedStep ==
  ASSUME PlInv, NEW c \in Clients, Handler(c)
  PROVE  Listed'
BY TracksStayLined, ListedIs DEF Moves

LEMMA NothingYetStep ==
  ASSUME PlInv, NEW c \in Clients, Handler(c)
  PROVE  NothingYet'
<1> SUFFICES ASSUME row'.state = "none"
             PROVE  /\ made' = 0 /\ kept' = {}
                    /\ \A d \in Clients : req'[d] = NoCall /\ copy'[d] = NoCopy
  BY DEF NothingYet
<1>1. row.state = "none" /\ UNCHANGED <<row, track, made>>
  BY TracksStayLined DEF Moves, Written
<1>2. /\ made = 0 /\ kept = {}
      /\ \A d \in Clients : req[d] = NoCall /\ copy[d] = NoCopy
  BY <1>1 DEF PlInv, NothingYet
<1>3. NoCall.op = "none"
  BY PlBlank
<1>4. ~Create(c)
  <2>1. ASSUME NEW vis, row' = [NoRow EXCEPT !.state = "live", !.vis = vis] PROVE FALSE
    BY <2>1 DEF NoRow
  <2> QED BY <2>1 DEF Create
<1>5. Unfollow(c)
  BY <1>1, <1>2, <1>3, <1>4 DEF Handler, At, Fill, FillNothing, Read, CheckView, Follow,
         AnswerItems, CallEdit, CheckRole, Refuse, Announce, Reload,
         CallOwner, ReadAudience, PushGone, Load, WriteEdits, WriteDetails,
         WriteVisibility, WriteAccess, AddTrack, RemoveTrack, Delete
<1> QED BY <1>1, <1>2, <1>5 DEF Unfollow

(* What was read keeps being of the past or of now. *)
LEMMA CurrentIsKept ==
  ASSUME PlInv, Moves, row.state # "none", NEW k \in Copies, Current(k)
  PROVE  k.rev <= row'.rev /\ (Live' /\ k.rev = row'.rev => k.order = Order')
<1>1. row.rev \in Nat /\ row'.rev \in Nat /\ k.rev \in Int /\ row' \in Rows
  BY PlKindsIs DEF PlInv, PlState, Rows, Moves, Copies
<1>2. k.rev <= row.rev /\ (Live /\ k.rev = row.rev => k.order = Order)
  BY DEF Current
<1>3. CASE UNCHANGED <<row, track, made>>
  <2>1. Order' = Order /\ (Live' <=> Live)
    BY <1>3 DEF Order, Live, OrderOf, HeldIn, InOrder
  <2> QED BY <1>2, <1>3, <2>1
<1>4. CASE Written
  BY <1>1, <1>2, <1>4 DEF Written
<1>5. CASE row'.state = "gone" /\ row'.rev = row.rev
  BY <1>2, <1>5 DEF Live
<1> QED BY <1>3, <1>4, <1>5 DEF Moves

LEMMA ReadsAreKept ==
  ASSUME PlInv, Moves, row.state # "none", NEW r \in PlCalls, Reads(r)
  PROVE  Reads(r)'
<1>1. row.rev \in Nat /\ row'.rev \in Nat /\ row' \in Rows
  BY PlKindsIs DEF PlInv, PlState, Rows, Moves
<1>2. r.base \in Copies /\ r.row.rev \in Nat
  BY DEF PlCalls, Rows
<1>3. Current(r.base)'
  BY <1>2, CurrentIsKept DEF Reads, Current
<1>4. row'.rev = row.rev \/ row'.rev = row.rev + 1
  BY DEF Moves, Written
<1>5. r.row.rev <= row'.rev
  BY <1>1, <1>2, <1>4 DEF Reads
<1>6. ASSUME r.op = "edit", r.at \in {"check", "write"}
      PROVE  /\ r.base.rev <= r.row.rev
             /\ Live' /\ r.row.rev = row'.rev =>
                  r.row.vis = row'.vis /\ r.row.access = row'.access
  <2>1. /\ r.base.rev <= r.row.rev /\ r.row.rev <= row.rev
        /\ Live /\ r.row.rev = row.rev =>
             r.row.vis = row.vis /\ r.row.access = row.access
    BY <1>6 DEF Reads
  <2>2. CASE UNCHANGED <<row, track, made>>
    BY <2>1, <2>2 DEF Live
  <2>3. CASE Written
    BY <1>1, <1>2, <2>1, <2>3 DEF Written
  <2>4. CASE row'.state = "gone" /\ row'.rev = row.rev
    BY <2>1, <2>4 DEF Live
  <2> QED BY <2>2, <2>3, <2>4 DEF Moves
<1> QED BY <1>3, <1>5, <1>6 DEF Reads

LEMMA AllCurrentStep ==
  ASSUME PlInv, NEW c \in Clients, Handler(c)
  PROVE  AllCurrent'
<1>0. /\ PlState /\ req \in [Clients -> PlCalls] /\ Moves
      /\ row.rev \in Nat /\ copy \in [Clients -> Copies]
      /\ \A d \in Clients : Current(copy[d]) /\ Reads(req[d])
  <2>1. PlState /\ req \in [Clients -> PlCalls]
    BY PlKindsIs DEF PlInv
  <2> QED BY <2>1, TracksStayLined DEF PlInv, AllCurrent, PlState, Rows
<1>1. CASE row.state = "none"
  <2>1. \A d \in Clients : req[d] = NoCall /\ copy[d] = NoCopy
    BY <1>1 DEF PlInv, NothingYet
  <2>2. NoCall.op = "none"
    BY PlBlank
  <2>3. Unfollow(c) \/ Create(c)
    BY <1>1, <2>1, <2>2 DEF Handler, At, Fill, FillNothing, Read, CheckView, Follow,
         AnswerItems, CallEdit, CheckRole, Refuse, Announce, Reload,
         CallOwner, ReadAudience, PushGone, Load, WriteEdits, WriteDetails,
         WriteVisibility, WriteAccess, AddTrack, RemoveTrack, Delete
  <2>4. row' \in Rows /\ row'.rev \in Nat
    BY <1>0 DEF Moves, Rows
  <2>5. Current(NoCopy)' /\ NoRow.rev <= row'.rev
    <3>1. -1 <= row'.rev /\ -1 # row'.rev /\ 0 <= row'.rev
      BY <2>4
    <3> QED BY <3>1, PlBlank DEF Current
  <2>6. copy' = copy
    BY <2>3 DEF Unfollow, Create
  <2>7. ASSUME NEW d \in Clients
        PROVE  req'[d].op # "edit" /\ req'[d].base = NoCopy /\ req'[d].row = NoRow
    <3>1. CASE Unfollow(c)
      BY <2>1, <3>1, PlBlank DEF Unfollow
    <3>2. CASE Create(c)
      <4>1. req' = [req EXCEPT ![c] = [NoCall EXCEPT !.op = "import", !.at = "fill"]]
        BY <3>2 DEF Create, Go
      <4> DEFINE r == [NoCall EXCEPT !.op = "import", !.at = "fill"]
      <4>2. r.op = "import" /\ r.base = NoCopy /\ r.row = NoRow
        BY PlBlank DEF PlCalls
      <4> HIDE DEF r
      <4>3. req'[d] = IF d = c THEN r ELSE NoCall
        BY <1>0, <2>1, <4>1 DEF r
      <4> QED BY <4>2, <4>3, PlBlank
    <3> QED BY <2>3, <3>1, <3>2
  <2> QED BY <2>1, <2>5, <2>6, <2>7 DEF AllCurrent, Reads, Current
<1>2. CASE row.state # "none"
  <2>1. ASSUME NEW d \in Clients PROVE Reads(req[d])'
    <3>1. PICK v : v = req'[d]
      OBVIOUS
    <3>2. v \in PlCalls /\ Reads(v)
      <4>1. CASE UNCHANGED req
        BY <1>0, <3>1, <4>1
      <4>2. CASE \E r : Fresh(c, r)
        <5>1. PICK r : Fresh(c, r)
          BY <4>2
        <5>2. req' = [req EXCEPT ![c] = r] /\ r \in PlCalls /\ Reads(r)
          BY <5>1 DEF Fresh
        <5>3. v = IF d = c THEN r ELSE req[d]
          BY <1>0, <3>1, <5>2
        <5> QED BY <1>0, <5>2, <5>3
      <4> QED BY <4>1, <4>2, RequestsFit
    <3>3. Reads(v)'
      BY <1>0, <1>2, <3>2, ReadsAreKept
    <3> QED BY <3>1, <3>3 DEF Reads, Current
  <2>2. ASSUME NEW d \in Clients PROVE Current(copy[d])'
    <3>1. PICK k : k = copy'[d]
      OBVIOUS
    <3>2. k \in Copies /\ Current(k)
      <4>1. k \in Copies
        BY <3>1, RestIsTyped
      <4>2. CASE AnswerItems(c)
        <5> DEFINE a == [rev |-> req[c].row.rev, order |-> Order]
        <5>1. copy' = [copy EXCEPT ![c] = a]
          BY <4>2 DEF AnswerItems
        <5>2. a.rev <= row.rev /\ a.order = Order
          BY <1>0 DEF Reads
        <5> HIDE DEF a
        <5>3. k = IF d = c THEN a ELSE copy[d]
          BY <1>0, <3>1, <5>1
        <5> QED BY <1>0, <4>1, <5>2, <5>3 DEF Current
      <4>3. CASE PushGone(c)
        <5>1. k = NoCopy \/ k = copy[d]
          BY <1>0, <3>1, <4>3 DEF PushGone
        <5>2. -1 <= row.rev /\ -1 # row.rev
          BY <1>0
        <5> QED BY <1>0, <4>1, <5>1, <5>2, PlBlank DEF Current
      <4>4. CASE copy' = copy
        BY <1>0, <3>1, <4>1, <4>4
      <4>5. copy' = copy \/ AnswerItems(c) \/ PushGone(c)
        BY DEF Handler, Create, Fill, FillNothing, Read, CheckView, Follow,
               Unfollow, CallEdit, CheckRole, Refuse, Announce, Reload,
               CallOwner, ReadAudience, Load, WriteEdits, WriteDetails,
               WriteVisibility, WriteAccess, AddTrack, RemoveTrack, Delete
      <4> QED BY <4>2, <4>3, <4>4, <4>5
    <3>3. k.rev <= row'.rev /\ (Live' /\ k.rev = row'.rev => k.order = Order')
      BY <1>0, <1>2, <3>2, CurrentIsKept
    <3> QED BY <3>1, <3>3 DEF Current
  <2> QED BY <2>1, <2>2 DEF AllCurrent
<1> QED BY <1>1, <1>2

LEMMA InformedStep ==
  ASSUME PlInv, NEW c \in Clients, Handler(c)
  PROVE  Informed'
<1>0. /\ PlState /\ req \in [Clients -> PlCalls] /\ Moves /\ req' \in [Clients -> PlCalls]
      /\ row.rev \in Nat /\ copy \in [Clients -> Copies] /\ kept \subseteq Clients
      /\ told \in [Clients -> Nat \cup {-1}]
      /\ \A d \in Clients : Current(copy[d])
      /\ \A d \in Clients : copy[d].rev \in Int
  <2>1. PlState /\ req \in [Clients -> PlCalls]
    BY PlKindsIs DEF PlInv
  <2>2. req' \in [Clients -> PlCalls]
    BY PlKindsStep, PlKindsIs
  <2> QED BY <2>1, <2>2, TracksStayLined DEF PlInv, AllCurrent, PlState, Rows, Copies
<1>i. /\ Live => \A d \in kept :
           /\ AccountOf[d] \in followers \cup {Creator}
           /\ copy[d].order = Order \/ told[d] > copy[d].rev \/ Pending
      /\ kept # {} => \A d \in Clients : req[d].at # "fill"
  BY DEF PlInv, Informed
(* Steps that write nothing of the playlist. *)
<1>q. ASSUME UNCHANGED <<row, track, made>>, copy' = copy, told' = told, kept' = kept,
             followers \subseteq followers', req[c].at # "announce",
             \A d \in Clients : req'[d] = req[d] \/ (d = c /\ req'[d].at # "fill")
      PROVE  Informed'
  <2>1. Order' = Order /\ (Live' <=> Live)
    BY <1>q DEF Order, Live, OrderOf, HeldIn, InOrder
  <2>2. Pending => Pending'
    BY <1>q DEF Pending
  <2> QED BY <1>i, <1>q, <2>1, <2>2 DEF Informed
(* Steps that write, and are to announce it. *)
<1>w. ASSUME copy' = copy, told' = told, kept' = kept, followers' = followers, Live,
             Then(c, "announce")
      PROVE  Informed'
  <2> DEFINE r == [NoCall EXCEPT !.op = req[c].op, !.at = "announce"]
  <2>1. req' = [req EXCEPT ![c] = r] /\ r.at = "announce"
    BY <1>w, PlBlank DEF Then, Go, PlCalls
  <2> HIDE DEF r
  <2>2. /\ req'[c].at = "announce"
        /\ \A d \in Clients : d # c => req'[d] = req[d]
    BY <1>0, <2>1
  <2>3. Pending'
    BY <2>2 DEF Pending
  <2> QED BY <1>i, <1>w, <2>2, <2>3 DEF Informed
<1>f. ASSUME Finish(c) PROVE /\ req'[c] = NoCall /\ NoCall.at = "idle"
                             /\ \A d \in Clients : d # c => req'[d] = req[d]
  BY <1>0, <1>f, PlBlank DEF Finish, Go
<1>1. CASE Create(c)
  <2>1. kept = {} /\ kept' = kept
    BY <1>1 DEF Create, PlInv, NothingYet
  <2> QED BY <2>1 DEF Informed
<1>2. CASE Fill(c) \/ FillNothing(c)
  <2>1. kept = {} /\ kept' = kept
    BY <1>2, <1>i DEF Fill, FillNothing, At
  <2> QED BY <2>1 DEF Informed
<1>3. CASE Announce(c)
  <2>1. /\ told' = [d \in Clients |-> IF Live /\ AccountOf[d] \in Audience
                                       THEN row.rev ELSE told[d]]
        /\ Then(c, "reload") \/ Finish(c)
        /\ UNCHANGED <<row, track, followers, copy, kept, made>>
    BY <1>3 DEF Announce
  <2>2. Order' = Order /\ (Live' <=> Live)
    BY <2>1 DEF Order, Live, OrderOf, HeldIn, InOrder
  <2>3. \A d \in Clients : req'[d] = req[d] \/ (d = c /\ req'[d].at # "fill")
    <3>1. CASE Finish(c)
      BY <1>f, <3>1
    <3>2. CASE Then(c, "reload")
      <4> DEFINE r == [NoCall EXCEPT !.op = req[c].op, !.at = "reload"]
      <4>1. req' = [req EXCEPT ![c] = r] /\ r.at = "reload"
        BY <3>2, PlBlank DEF Then, Go, PlCalls
      <4> HIDE DEF r
      <4> QED BY <1>0, <4>1
    <3> QED BY <2>1, <3>1, <3>2
  <2>4. ASSUME NEW d \in kept', Live'
        PROVE  /\ AccountOf[d] \in followers' \cup {Creator}
               /\ copy'[d].order = Order' \/ told'[d] > copy'[d].rev
    <3>1. AccountOf[d] \in followers \cup {Creator} /\ d \in Clients /\ Live
      BY <1>0, <1>i, <2>1, <2>2, <2>4
    <3>2. told'[d] = row.rev
      BY <2>1, <3>1 DEF Audience
    <3>3. copy[d].rev <= row.rev /\ (copy[d].rev = row.rev => copy[d].order = Order)
      BY <1>0, <3>1 DEF Current
    <3>4. copy[d].rev \in Int
      BY <1>0, <3>1
    <3> QED BY <1>0, <2>1, <2>2, <3>1, <3>2, <3>3, <3>4
  <2> QED BY <1>i, <2>1, <2>3, <2>4 DEF Informed
<1>4. CASE AnswerItems(c)
  <2> DEFINE a == [rev |-> req[c].row.rev, order |-> Order]
  <2>1. /\ copy' = [copy EXCEPT ![c] = a] /\ a.order = Order
        /\ kept' = IF Follows(c) /\ \A d \in Clients : req[d].at # "fill"
                    THEN kept \cup {c} ELSE kept \ {c}
        /\ Finish(c) /\ UNCHANGED <<row, track, followers, told, made>>
        /\ req[c].at = "items"
    BY <1>4 DEF AnswerItems, At
  <2> HIDE DEF a
  <2>2. Order' = Order /\ (Live' <=> Live)
    BY <2>1 DEF Order, Live, OrderOf, HeldIn, InOrder
  <2>3. Pending => Pending'
    BY <1>f, <2>1 DEF Pending
  <2>4. ASSUME NEW d \in kept', Live'
        PROVE  /\ AccountOf[d] \in followers' \cup {Creator}
               /\ copy'[d].order = Order' \/ told'[d] > copy'[d].rev \/ Pending'
    <3>1. CASE d = c
      <4>1. Follows(c) /\ copy'[c] = a
        BY <1>0, <2>1, <2>4, <3>1
      <4> QED BY <2>1, <2>2, <3>1, <4>1 DEF Follows
    <3>2. CASE d # c
      <4>1. d \in kept /\ d \in Clients
        BY <1>0, <2>1, <2>4, <3>2
      <4>2. copy'[d] = copy[d]
        BY <1>0, <2>1, <3>2, <4>1
      <4> QED BY <1>i, <2>1, <2>2, <2>3, <2>4, <4>1, <4>2
    <3> QED BY <3>1, <3>2
  <2>5. ASSUME kept' # {}, NEW d \in Clients PROVE req'[d].at # "fill"
    <3>1. \A e \in Clients : req[e].at # "fill"
      BY <1>i, <2>1, <2>5
    <3> QED BY <1>f, <2>1, <3>1
  <2> QED BY <2>4, <2>5 DEF Informed
<1>5. CASE Unfollow(c)
  <2>1. /\ followers' = followers \ {AccountOf[c]}
        /\ kept' = {d \in kept : AccountOf[d] # AccountOf[c] \/ Mine(d)}
        /\ UNCHANGED <<row, track, req, copy, told, made>>
    BY <1>5 DEF Unfollow
  <2>2. Order' = Order /\ (Live' <=> Live) /\ (Pending' <=> Pending)
    BY <2>1 DEF Order, Live, OrderOf, HeldIn, InOrder, Pending
  <2> QED BY <1>i, <2>1, <2>2 DEF Informed, Mine
<1>6. CASE WriteEdits(c) \/ WriteDetails(c)
  BY <1>6, <1>w DEF WriteEdits, WriteDetails
<1>7. CASE WriteVisibility(c) \/ WriteAccess(c) \/ AddTrack(c)
  <2>1. CASE Live /\ Then(c, "announce")
    BY <1>7, <1>w, <2>1 DEF WriteVisibility, WriteAccess, AddTrack
  <2>2. CASE ~(Live /\ Then(c, "announce"))
    <3>1. Finish(c) /\ req[c].at = "write" /\ UNCHANGED <<row, followers, copy, kept, told>>
      BY <1>7, <2>2 DEF WriteVisibility, WriteAccess, AddTrack, At
    <3>2. UNCHANGED <<track, made>>
      BY <1>7, <2>2 DEF WriteVisibility, WriteAccess, AddTrack
    <3> QED BY <1>f, <1>q, <3>1, <3>2
  <2> QED BY <2>1, <2>2
<1>8. CASE RemoveTrack(c)
  <2>1. CASE req[c].want \in Held
    <3>1. Live
      BY <2>1 DEF PlInv, Listed, PositionsAreDense
    <3> QED BY <1>8, <1>w, <2>1, <3>1 DEF RemoveTrack
  <2>2. CASE req[c].want \notin Held
    <3>1. /\ Finish(c) /\ req[c].at = "write"
          /\ UNCHANGED <<row, track, made, followers, copy, kept, told>>
      BY <1>8, <2>2 DEF RemoveTrack, At
    <3> QED BY <1>f, <1>q, <3>1
  <2> QED BY <2>1, <2>2
<1>9. CASE Delete(c)
  <2>1. CASE Live
    <3>1. ~Live'
      <4>1. row' = [row EXCEPT !.state = "gone"]
        BY <1>9, <2>1 DEF Delete
      <4>2. row'.state = "gone"
        BY <1>0, <4>1 DEF PlState, Rows
      <4> QED BY <4>2 DEF Live
    <3>2. kept' = kept /\ req' = [req EXCEPT ![c] = [req[c] EXCEPT !.at = "push"]]
      BY <1>9, <2>1 DEF Delete, Go
    <3>3. [req[c] EXCEPT !.at = "push"].at = "push"
      BY <1>0 DEF PlCalls
    <3> DEFINE r == [req[c] EXCEPT !.at = "push"]
    <3> HIDE DEF r
    <3>4. \A d \in Clients : req'[d] = req[d] \/ req'[d].at = "push"
      BY <1>0, <3>2, <3>3 DEF r
    <3> QED BY <1>i, <3>1, <3>2, <3>4 DEF Informed
  <2>2. CASE ~Live
    <3>1. /\ Finish(c) /\ req[c].at = "write"
          /\ UNCHANGED <<row, track, made, followers, copy, kept, told>>
      BY <1>9, <2>2 DEF Delete, At
    <3> QED BY <1>f, <1>q, <3>1
  <2> QED BY <2>1, <2>2
<1>10. CASE PushGone(c)
  <2>1. /\ copy' = [d \in Clients |->
                      IF AccountOf[d] \in req[c].users THEN NoCopy ELSE copy[d]]
        /\ kept' = {d \in kept : AccountOf[d] \notin req[c].users}
        /\ Finish(c) /\ req[c].at = "push"
        /\ UNCHANGED <<row, track, made, followers, told>>
    BY <1>10 DEF PushGone, At
  <2>2. Order' = Order /\ (Live' <=> Live)
    BY <2>1 DEF Order, Live, OrderOf, HeldIn, InOrder
  <2>3. Pending => Pending'
    BY <1>f, <2>1 DEF Pending
  <2>4. \A d \in kept' : d \in kept /\ copy'[d] = copy[d]
    BY <1>0, <2>1
  <2>5. kept' # {} => \A d \in Clients : req'[d].at # "fill"
    BY <1>f, <1>i, <2>1
  <2> QED BY <1>i, <2>1, <2>2, <2>3, <2>4, <2>5 DEF Informed
<1>11. CASE Refuse(c)
  <2>1. /\ Finish(c) /\ req[c].at = "write"
        /\ UNCHANGED <<row, track, made, followers, copy, kept, told>>
    BY <1>11 DEF Refuse, At
  <2> QED BY <1>f, <1>q, <2>1
<1>12. CASE Read(c) \/ CallEdit(c) \/ CallOwner(c)
  <2>1. req[c] = NoCall /\ UNCHANGED <<row, track, made, followers, copy, kept, told>>
    BY <1>12 DEF Read, CallEdit, CallOwner, Begin
  <2>2. req[c].at # "announce"
    BY <2>1, PlBlank
  <2>3. \A d \in Clients : req'[d] = req[d] \/ (d = c /\ req'[d].at # "fill")
    <3>1. \A op, step, want : Call(op, step, want).at = step
      BY DEF Call, NoCall
    <3>2. \A op, step, want, base : [Call(op, step, want) EXCEPT !.base = base].at = step
      BY DEF Call, NoCall
    <3>3. PICK r : req' = [req EXCEPT ![c] = r] /\ r.at # "fill"
      <4>1. CASE Read(c)
        <5>1. PICK op : Begin(c, Call(op, "load", 0))
          BY <4>1 DEF Read
        <5>2. req' = [req EXCEPT ![c] = Call(op, "load", 0)]
          BY <5>1 DEF Begin, Go
        <5>3. Call(op, "load", 0).at = "load"
          BY <3>1
        <5> QED BY <5>2, <5>3
      <4>2. CASE CallEdit(c)
        <5>1. \/ req' = [req EXCEPT ![c] = [Call("edit", "load", 0) EXCEPT !.base = copy[c]]]
              \/ req' = [req EXCEPT ![c] = [Call("details", "write", 0) EXCEPT !.base = copy[c]]]
          BY <4>2 DEF CallEdit, Begin, Go
        <5> DEFINE p == [Call("edit", "load", 0) EXCEPT !.base = copy[c]]
                   q == [Call("details", "write", 0) EXCEPT !.base = copy[c]]
        <5>2. p.at = "load" /\ q.at = "write"
          BY <3>2
        <5> HIDE DEF p, q
        <5> QED BY <5>1, <5>2 DEF p, q
      <4>3. CASE CallOwner(c)
        BY <3>1, <4>3 DEF CallOwner, Begin, Go
      <4> QED BY <1>12, <4>1, <4>2, <4>3
    <3> QED BY <1>0, <3>3
  <2> QED BY <1>q, <2>1, <2>2, <2>3
<1>13. CASE \/ CheckView(c) \/ Follow(c) \/ CheckRole(c) \/ Reload(c) \/ ReadAudience(c)
            \/ Load(c, {"open", "follow", "edit"}, "check")
            \/ Load(c, {"access", "add", "remove"}, "write")
  <2>1. /\ req[c].at # "announce" /\ followers \subseteq followers'
        /\ UNCHANGED <<row, track, made, copy, kept, told>>
    BY <1>13 DEF CheckView, Follow, CheckRole, Reload, ReadAudience, Load, At
  <2>2. CASE Finish(c)
    BY <1>f, <1>q, <2>1, <2>2
  <2>3. CASE ~Finish(c)
    <3>1. PICK r : req' = [req EXCEPT ![c] = r] /\ r.at # "fill"
      <4>1. CASE CheckView(c)
        <5> DEFINE x == [NoRow EXCEPT !.rev = req[c].row.rev]
                   y == IF req[c].op = "follow" THEN "follow" ELSE "items"
                   r == [req[c] EXCEPT !.row = x, !.at = y]
        <5>1. req' = [req EXCEPT ![c] = r]
          BY <2>3, <4>1 DEF CheckView, Go
        <5>2. y # "fill"
          OBVIOUS
        <5> HIDE DEF x, y
        <5>3. r.at = y
          BY <1>0 DEF PlCalls
        <5> HIDE DEF r
        <5> QED BY <5>1, <5>2, <5>3
      <4>2. CASE Follow(c)
        <5> DEFINE r == [req[c] EXCEPT !.at = "items"]
        <5>1. req' = [req EXCEPT ![c] = r]
          BY <4>2 DEF Follow, Go
        <5>2. r.at = "items"
          BY <1>0 DEF PlCalls
        <5> HIDE DEF r
        <5> QED BY <5>1, <5>2
      <4>3. CASE CheckRole(c)
        <5> DEFINE r == [req[c] EXCEPT !.tie = Tie(c), !.at = "write"]
        <5>1. req' = [req EXCEPT ![c] = r]
          BY <2>3, <4>3 DEF CheckRole, Go
        <5>2. r.at = "write"
          BY <1>0 DEF PlCalls
        <5> HIDE DEF r
        <5> QED BY <5>1, <5>2
      <4>4. CASE Reload(c)
        <5> DEFINE r == [req[c] EXCEPT !.row.rev = row.rev, !.at = "items"]
        <5>1. req' = [req EXCEPT ![c] = r]
          BY <2>3, <4>4 DEF Reload, Go
        <5>2. r.at = "items"
          BY <1>0 DEF PlCalls
        <5> HIDE DEF r
        <5> QED BY <5>1, <5>2
      <4>5. CASE ReadAudience(c)
        <5> DEFINE r == [req[c] EXCEPT !.users = Audience, !.at = "write"]
        <5>1. req' = [req EXCEPT ![c] = r]
          BY <4>5 DEF ReadAudience, Go
        <5>2. r.at = "write"
          BY <1>0 DEF PlCalls
        <5> HIDE DEF r
        <5> QED BY <5>1, <5>2
      <4>6. CASE \/ Load(c, {"open", "follow", "edit"}, "check")
                 \/ Load(c, {"access", "add", "remove"}, "write")
        <5>1. PICK step \in {"check", "write"} :
                req' = [req EXCEPT ![c] = [req[c] EXCEPT !.row = row, !.at = step]]
          BY <2>3, <4>6 DEF Load, Go
        <5> DEFINE r == [req[c] EXCEPT !.row = row, !.at = step]
        <5>2. r.at = step
          BY <1>0 DEF PlCalls
        <5> HIDE DEF r
        <5> QED BY <5>1, <5>2 DEF r
      <4> QED BY <1>13, <4>1, <4>2, <4>3, <4>4, <4>5, <4>6
    <3>2. \A d \in Clients : req'[d] = req[d] \/ (d = c /\ req'[d].at # "fill")
      BY <1>0, <3>1
    <3> QED BY <1>q, <2>1, <3>2
  <2> QED BY <2>2, <2>3
<1> QED BY <1>1, <1>2, <1>3, <1>4, <1>5, <1>6, <1>7, <1>8, <1>9, <1>10, <1>11, <1>12, <1>13
        DEF Handler

LEMMA RelateKeeps ==
  ASSUME PlInv, NEW g \in Guests, Relate(g)
  PROVE  PlInv'
<1>1. /\ PlState /\ req \in [Clients -> PlCalls]
      /\ \A d \in Clients : PlFits(req[d], AccountOf[d])
  BY PlKindsIs DEF PlInv
<1>2. /\ UNCHANGED <<row, track, followers, req, copy, kept, told, made, issued>>
      /\ ties < MaxTies /\ ties' = ties + 1
      /\ \E t \in PlTies : tie' = [tie EXCEPT ![g] = t]
  BY DEF Relate, PlTies
<1>3. PlState'
  <2>1. tie' \in [Guests -> PlTies]
    BY <1>1, <1>2 DEF PlState
  <2>2. ties' \in 0..MaxTies
    BY <1>1, <1>2, PlaylistsAssumption DEF PlState
  <2> QED BY <1>1, <1>2, <2>1, <2>2 DEF PlState
<1>4. PlKinds'
  BY <1>1, <1>2, <1>3, PlKindsIs
<1>5. Order' = Order /\ Held' = Held /\ (Live' <=> Live) /\ (Pending' <=> Pending)
  BY <1>2 DEF Order, Live, OrderOf, HeldIn, InOrder, Pending, Held
<1>6. NothingYet'
  BY <1>2 DEF PlInv, NothingYet
<1>7. Listed'
  BY <1>2, <1>5 DEF PlInv, Listed, PositionsAreDense
<1>8. AllCurrent'
  BY <1>2, <1>5 DEF PlInv, AllCurrent, Current, Reads
<1>9. Informed'
  BY <1>2, <1>5 DEF PlInv, Informed
<1> QED BY <1>4, <1>6, <1>7, <1>8, <1>9 DEF PlInv

LEMMA StutterKeeps ==
  ASSUME PlInv, UNCHANGED playlistsVars
  PROVE  PlInv'
<1>1. UNCHANGED <<row, track, followers, tie, req, copy, kept, told, made, issued, ties>>
  BY DEF playlistsVars
<1>2. Order' = Order /\ Held' = Held /\ (Live' <=> Live) /\ (Pending' <=> Pending)
  BY <1>1 DEF Order, Live, OrderOf, HeldIn, InOrder, Pending, Held
<1>3. PlKinds'
  BY <1>1, PlKindsIs DEF PlInv, PlState
<1>4. NothingYet'
  BY <1>1 DEF PlInv, NothingYet
<1>5. Listed'
  BY <1>1, <1>2 DEF PlInv, Listed, PositionsAreDense
<1>6. AllCurrent'
  BY <1>1, <1>2 DEF PlInv, AllCurrent, Current, Reads
<1>7. Informed'
  BY <1>1, <1>2 DEF PlInv, Informed
<1> QED BY <1>3, <1>4, <1>5, <1>6, <1>7 DEF PlInv

LEMMA PlaylistsStart ==
  ASSUME PlaylistsInit
  PROVE  PlInv
<1>0. /\ row = NoRow /\ track = [i \in Tracks |-> Gone] /\ followers = {}
      /\ tie \in [Guests -> {"none", "accepted"}]
      /\ req = [c \in Clients |-> NoCall] /\ copy = [c \in Clients |-> NoCopy]
      /\ kept = {} /\ told = [c \in Clients |-> -1]
      /\ made = 0 /\ issued = 0 /\ ties = 0
  BY DEF PlaylistsInit
<1>1. PlState
  <2>1. track \in Items
    BY <1>0 DEF Gone, Items
  <2>2. /\ copy \in [Clients -> Copies] /\ row \in Rows
        /\ told \in [Clients -> Nat \cup {-1}] /\ tie \in [Guests -> PlTies]
    BY <1>0, PlBlank DEF PlTies
  <2>3. made \in 0..MaxTracks /\ issued \in 0..MaxCalls /\ ties \in 0..MaxTies
    BY <1>0, PlaylistsAssumption
  <2> QED BY <1>0, <2>1, <2>2, <2>3 DEF PlState
<1>2. \A c \in Clients : NoCall \in PlCalls /\ PlFits(NoCall, AccountOf[c]) /\ Reads(NoCall)
  BY <1>1, IdleIs DEF PlState
<1>3. PlKinds
  BY <1>0, <1>1, <1>2, PlKindsIs
<1>4. NothingYet
  BY <1>0 DEF NothingYet
<1>5. Held = {} /\ ~Live
  BY <1>0, PlBlank DEF Held, HeldIn, Gone, Live
<1>6. Listed
  <2>1. Cardinality(Held) = 0 /\ 0..(0 - 1) = {}
    BY <1>5, FS_EmptySet
  <2> QED BY <1>5, <2>1 DEF Listed, PositionsAreDense
<1>7. AllCurrent
  <2>1. row.rev = 0 /\ -1 <= 0 /\ -1 # 0
    BY <1>0, PlBlank
  <2>2. Current(NoCopy)
    BY <2>1, PlBlank DEF Current
  <2> QED BY <1>0, <1>2, <2>2 DEF AllCurrent
<1>8. Informed
  BY <1>0 DEF Informed
<1> QED BY <1>3, <1>4, <1>6, <1>7, <1>8 DEF PlInv

LEMMA PlaylistsStep ==
  ASSUME PlInv, [PlaylistsNext]_playlistsVars
  PROVE  PlInv'
<1>1. ASSUME NEW c \in Clients, Handler(c) PROVE PlInv'
  BY <1>1, PlKindsStep, ListedStep, NothingYetStep, AllCurrentStep, InformedStep DEF PlInv
<1> QED BY <1>1, RelateKeeps, StutterKeeps DEF PlaylistsNext

(* Everything the argument rests on, for every number of accounts, devices, *)
(* tracks and calls.                                                        *)
THEOREM PlaylistsStaySound == PlaylistsSpec => []PlInv
<1>1. PlaylistsInit => PlInv
  BY PlaylistsStart
<1>2. PlInv /\ [PlaylistsNext]_playlistsVars => PlInv'
  BY PlaylistsStep
<1> QED BY <1>1, <1>2, PTL DEF PlaylistsSpec

(* A playlist is one list whatever crosses in writing it: positions without *)
(* gaps or duplicates, and nothing left of one that is gone                 *)
(* (db_playlist_items.rs, db_playlist_edits.rs).                            *)
THEOREM ListsStayWhole == PlaylistsSpec => []PlaylistIsOneList
<1>1. PlInv => PlaylistIsOneList
  BY DEF PlInv, PlKinds, Listed, PlaylistIsOneList
<1> QED BY <1>1, PlaylistsStaySound, PTL

(* Once nothing has still to be announced, whoever keeps an older copy was  *)
(* told of a later revision (schema_playlists/notify.rs).                   *)
THEOREM FollowersComeToKnow == PlaylistsSpec => []FollowersKnowWhenBehind
<1>1. PlInv => FollowersKnowWhenBehind
  BY DEF PlInv, Informed, Pending, FollowersKnowWhenBehind, Announced
<1> QED BY <1>1, PlaylistsStaySound, PTL

(* Only a write that found the revision it names announces an edit. *)
LEMMA AnnouncedEdits ==
  ASSUME PlInv, [PlaylistsNext]_playlistsVars, NEW c \in Clients,
         At(c, {"edit", "details"}, "write"), req'[c].at = "announce"
  PROVE  Live /\ ~Stale(c)
<1>1. req \in [Clients -> PlCalls] /\ req[c].at = "write" /\ req[c].op \in {"edit", "details"}
  BY PlKindsIs DEF PlInv, At
<1>2. req'[c] # req[c]
  BY <1>1
<1>3. PICK d \in Clients : Handler(d)
  BY <1>2 DEF PlaylistsNext, Relate, playlistsVars
<1>4. ASSUME d # c PROVE FALSE
  <2>1. UNCHANGED req \/ \E r : Fresh(d, r)
    BY <1>3, RequestsFit
  <2>2. req'[c] = req[c]
    BY <1>1, <1>4, <2>1 DEF Fresh
  <2> QED BY <1>2, <2>2
<1>5. ASSUME Finish(c) PROVE FALSE
  <2>1. req'[c] = NoCall
    BY <1>1, <1>5 DEF Finish, Go
  <2> QED BY <2>1, PlBlank
<1>6. req[c] # NoCall
  BY <1>1, PlBlank
<1>c. row.state # "none"
  BY <1>6 DEF PlInv, NothingYet
<1>7. WriteEdits(c) \/ WriteDetails(c)
  BY <1>c, <1>1, <1>2, <1>3, <1>4, <1>5, <1>6 DEF Handler, At, Create, Fill, FillNothing, Read,
         CheckView, Follow, Unfollow, Begin,
         AnswerItems, CallEdit, CheckRole, Refuse, Announce, Reload,
         CallOwner, ReadAudience, PushGone, Load,
         WriteVisibility, WriteAccess, AddTrack, RemoveTrack, Delete
<1> QED BY <1>7 DEF WriteEdits, WriteDetails

(* An edit commits only on the list its device saw, and under the role the  *)
(* row still gives it (db_playlist_edits.rs, playlist_access.rs).           *)
THEOREM EditsStaySound == PlaylistsSpec => EditsAreSound
<1>1. ASSUME PlInv, [PlaylistsNext]_playlistsVars, NEW c \in Clients,
             At(c, {"edit", "details"}, "write"), req'[c].at = "announce"
      PROVE  req[c].base.order = Order
  <2>1. Live /\ row.rev = req[c].base.rev
    BY <1>1, AnnouncedEdits DEF Stale
  <2>2. Current(req[c].base)
    BY <1>1 DEF PlInv, AllCurrent, Reads
  <2> QED BY <2>1, <2>2 DEF Current
<1>2. ASSUME PlInv, [PlaylistsNext]_playlistsVars, NEW c \in Clients,
             At(c, {"edit"}, "write"), req'[c].at = "announce"
      PROVE  /\ CanAdd(Role(row, AccountOf[c], req[c].tie))
             /\ Role(row, AccountOf[c], req[c].tie) = Role(req[c].row, AccountOf[c], req[c].tie)
  <2>1. Live /\ row.rev = req[c].base.rev
    BY <1>2, AnnouncedEdits DEF Stale, At
  <2>2. /\ req[c].base.rev <= req[c].row.rev /\ req[c].row.rev <= row.rev
        /\ Live /\ req[c].row.rev = row.rev =>
             req[c].row.vis = row.vis /\ req[c].row.access = row.access
    BY <1>2 DEF PlInv, AllCurrent, Reads, At
  <2>3. row.rev \in Nat /\ req[c].row.rev \in Nat
    BY <1>2, PlKindsIs DEF PlInv, PlState, PlCalls, Rows
  <2>4. req[c].row.vis = row.vis /\ req[c].row.access = row.access
    BY <2>1, <2>2, <2>3
  <2>5. Role(row, AccountOf[c], req[c].tie) = Role(req[c].row, AccountOf[c], req[c].tie)
    BY <2>4 DEF Role, CanView, Clamped
  <2>6. CanAdd(Role(req[c].row, AccountOf[c], req[c].tie))
    BY <1>2, PlKindsIs DEF PlInv, PlFits, At
  <2> QED BY <2>5, <2>6
<1>3. PlInv /\ [PlaylistsNext]_playlistsVars =>
        \A c \in Clients :
          (/\ At(c, {"edit", "details"}, "write")
           /\ req'[c].at = "announce") => req[c].base.order = Order
  BY <1>1
<1>4. PlInv /\ [PlaylistsNext]_playlistsVars =>
        \A c \in Clients :
          (At(c, {"edit"}, "write") /\ req'[c].at = "announce") =>
             LET who == AccountOf[c]
             IN /\ CanAdd(Role(row, who, req[c].tie))
                /\ Role(row, who, req[c].tie) = Role(req[c].row, who, req[c].tie)
  BY <1>2
<1>5. PlaylistsSpec => EditsSeeWhatTheyChange
  BY <1>3, PlaylistsStaySound, PTL DEF PlaylistsSpec, EditsSeeWhatTheyChange
<1>6. PlaylistsSpec => EditsAreAllowedWhenMade
  BY <1>4, PlaylistsStaySound, PTL DEF PlaylistsSpec, EditsAreAllowedWhenMade
<1> QED BY <1>5, <1>6 DEF EditsAreSound
=============================================================================
