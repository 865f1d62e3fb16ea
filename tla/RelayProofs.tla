---------------------------- MODULE RelayProofs ----------------------------
(***************************************************************************)
(* The relay keeps what RelayPromise has it promise, for any number of     *)
(* sessions, devices, chunks and any size of the buffers, and forgets the  *)
(* sessions that are over.                                                 *)
(*                                                                         *)
(* What makes the refinement go through is the relation of the two ends of *)
(* a pipe: what a receiver was given and what is on its way to it are one  *)
(* run of chunks without a hole, which ends with the last one put in.      *)
(*                                                                         *)
(* After it, for any accounts and years of plays, that Listening shows     *)
(* nobody's plays to whom they do not allow it, counts plays once and cuts *)
(* the years alike, and for any accounts and handlers, that Identity's     *)
(* second factor holds and nobody is locked out.                           *)
(***************************************************************************)
EXTENDS Relay, Listening, Identity, FiniteSetTheorems, TLAPS

States == {"free", "pumping", "finished", "broken"}
Standings == {"none", "reading", "ended", "failed", "lagged", "left"}
SessionType == [kind : {"none", "direct", "fanout"},
                from : Devices \cup {NoDevice}, to : Devices \cup {NoDevice}]
FeedType == [by : 0 .. MaxPosts, sent : 0 .. Chunks, state : States]

----------------------------------------------------------------------------
(* The pipe.                                                               *)

(* The chunks in a pipe q: an error, if there is one, comes last.          *)
Broken(q) == q # <<>> /\ q[Len(q)] = Failure
Left(q) == IF Broken(q) THEN Len(q) - 1 ELSE Len(q)

(* Of s chunks put in, q is on the way behind g; a direct receiver has all *)
(* that is not.                                                            *)
Run(direct, s, q, g) ==
  /\ Left(q) <= s
  /\ \A i \in 1 .. Left(q) : q[i] = s - Left(q) + i
  /\ g # <<>> => g[Len(g)] = s - Left(q)
  /\ direct => Len(g) = s - Left(q)

LEMMA NothingRun == ASSUME NEW direct PROVE Run(direct, 0, <<>>, <<>>)
<1>1. Len(<<>>) = 0 /\ ~Broken(<<>>) /\ Left(<<>>) = 0
  BY DEF Left, Broken
<1> QED
  BY <1>1 DEF Run

LEMMA LeftIs ==
  ASSUME NEW q \in Seq(Chunk)
  PROVE  /\ Left(q) \in Nat /\ Left(q) <= Len(q) /\ Len(q) \in Nat
         /\ ~Broken(q) => Left(q) = Len(q)
         /\ Broken(q) => Left(q) = Len(q) - 1
<1>1. Len(q) \in Nat /\ (q # <<>> => Len(q) >= 1)
  OBVIOUS
<1> QED
  BY <1>1 DEF Left, Broken

(* Another chunk goes in. *)
LEMMA PumpRun ==
  ASSUME NEW direct, NEW s \in Nat, NEW q \in Seq(Chunk), NEW g \in Seq(Chunk),
         Run(direct, s, q, g), ~Broken(q), s + 1 \in Chunk
  PROVE  /\ Run(direct, s + 1, Append(q, s + 1), g)
         /\ ~Broken(Append(q, s + 1))
<1> DEFINE r == Append(q, s + 1)
<1>1. /\ r \in Seq(Chunk) /\ Len(r) = Len(q) + 1 /\ r[Len(r)] = s + 1
      /\ \A i \in 1 .. Len(q) : r[i] = q[i]
      /\ Len(q) \in Nat
  OBVIOUS
<1> HIDE DEF r
<1>2. ~Broken(r)
  BY <1>1 DEF Broken, Failure
<1>3. Left(r) = Len(q) + 1 /\ Left(q) = Len(q)
  BY <1>1, <1>2, LeftIs
<1>4. Run(direct, s + 1, r, g)
  <2>1. /\ \A i \in 1 .. Len(q) : q[i] = s - Len(q) + i
        /\ Len(q) <= s /\ (g # <<>> => g[Len(g)] = s - Len(q))
        /\ direct => Len(g) = s - Len(q)
    BY <1>3 DEF Run
  <2>2. ASSUME NEW i \in 1 .. Len(q) + 1
        PROVE  r[i] = (s + 1) - (Len(q) + 1) + i
    <3>1. CASE i \in 1 .. Len(q)
      BY <1>1, <2>1, <3>1
    <3>2. CASE i = Len(q) + 1
      BY <1>1, <3>2
    <3> QED
      BY <1>1, <3>1, <3>2
  <2>3. (s + 1) - (Len(q) + 1) = s - Len(q) /\ Len(q) + 1 <= s + 1
    BY <1>1, <2>1
  <2> QED
    BY <1>3, <2>1, <2>2, <2>3 DEF Run
<1> QED
  BY <1>2, <1>4 DEF r

(* The sender breaks off, and the receiver is sent the error. *)
LEMMA BreakRun ==
  ASSUME NEW direct, NEW s \in Nat, NEW q \in Seq(Chunk), NEW g \in Seq(Chunk),
         Run(direct, s, q, g), ~Broken(q)
  PROVE  Run(direct, s, Append(q, Failure), g)
<1> DEFINE r == Append(q, Failure)
<1>1. /\ r \in Seq(Chunk) /\ Len(r) = Len(q) + 1 /\ r[Len(r)] = Failure
      /\ \A i \in 1 .. Len(q) : r[i] = q[i]
      /\ Len(q) \in Nat /\ r # <<>>
  <2>1. Failure \in Chunk
    BY RelayAssumption DEF Chunk, Failure
  <2> QED
    BY <2>1
<1> HIDE DEF r
<1>2. Left(r) = Len(q) /\ Left(q) = Len(q)
  BY <1>1, LeftIs DEF Broken
<1>3. Run(direct, s, r, g)
  BY <1>1, <1>2 DEF Run
<1> QED
  BY <1>3 DEF r

(* The receiver takes the next chunk: the one after what it has, the first *)
(* of the file for a direct receiver that has none.                        *)
LEMMA ReadRun ==
  ASSUME NEW direct, NEW s \in Nat, NEW q \in Seq(Chunk), NEW g \in Seq(Chunk),
         Run(direct, s, q, g), q # <<>>, Head(q) # Failure
  PROVE  /\ Run(direct, s, Tail(q), Append(g, Head(q)))
         /\ Broken(Tail(q)) => Broken(q)
         /\ Head(q) \in 1 .. s
         /\ g # <<>> => Head(q) = g[Len(g)] + 1
         /\ direct /\ g = <<>> => Head(q) = 1
<1> DEFINE r == Tail(q)
           h == Append(g, Head(q))
<1>1. /\ r \in Seq(Chunk) /\ Len(r) = Len(q) - 1 /\ Len(q) \in Nat \ {0}
      /\ \A i \in 1 .. Len(r) : r[i] = q[i + 1]
      /\ Head(q) = q[1] /\ (r # <<>> => Len(r) >= 1)
      /\ Len(r) \in Nat
  OBVIOUS
<1>2. /\ h # <<>> /\ Len(h) = Len(g) + 1 /\ h[Len(h)] = q[1] /\ Len(g) \in Nat
      /\ (g = <<>> => Len(g) = 0)
  BY <1>1
<1> HIDE DEF r, h
<1>3. Broken(r) <=> Broken(q)
  <2>1. CASE Len(q) = 1
    BY <1>1, <2>1 DEF Broken
  <2>2. CASE Len(q) > 1
    <3>1. r # <<>> /\ r[Len(r)] = q[Len(q)]
      BY <1>1, <2>2
    <3> QED
      BY <3>1 DEF Broken
  <2> QED
    BY <1>1, <2>1, <2>2
<1>4. Left(r) = Left(q) - 1 /\ Left(q) \in Nat /\ Left(q) >= 1
  <2>1. ~(Broken(q) /\ Len(q) = 1)
    BY <1>1 DEF Broken
  <2> QED
    BY <1>1, <1>3, <2>1, LeftIs
<1>5. q[1] = s - Left(q) + 1
  BY <1>4 DEF Run
<1>6. q[1] \in 1 .. s
  BY <1>4, <1>5 DEF Run
<1>7. \A i \in 1 .. Left(r) : r[i] = s - Left(r) + i
  <2> SUFFICES ASSUME NEW i \in 1 .. Left(r) PROVE r[i] = s - Left(r) + i
    OBVIOUS
  <2>1. i \in 1 .. Len(r) /\ i + 1 \in 1 .. Left(q)
    BY <1>1, <1>4, LeftIs
  <2>2. q[i + 1] = s - Left(q) + (i + 1)
    BY <2>1 DEF Run
  <2> QED
    BY <1>1, <1>4, <2>1, <2>2
<1>8. Run(direct, s, r, h)
  BY <1>2, <1>4, <1>5, <1>7 DEF Run
<1>9. /\ g # <<>> => q[1] = g[Len(g)] + 1
      /\ direct /\ g = <<>> => q[1] = 1
  BY <1>2, <1>4, <1>5 DEF Run
<1> QED
  BY <1>1, <1>3, <1>6, <1>8, <1>9 DEF r, h

----------------------------------------------------------------------------
(* The inductive invariant: session by session, device by device.          *)

Carries(id, d) ==
  /\ Kind(id) # "none" /\ reader[id][d] \in {"none", "reading"}
  /\ Kind(id) = "direct" => d = session[id].to

Pipe(id, d) ==
  /\ reader[id][d] = "none" => got[id][d] = <<>>
  /\ Kind(id) = "none" => reader[id][d] = "none" /\ queue[id][d] = <<>>
  /\ Kind(id) = "direct" /\ reader[id][d] # "none" => d = session[id].to
  /\ Carries(id, d) => Run(Kind(id) = "direct", feed[id].sent,
                           queue[id][d], got[id][d])
  /\ Broken(queue[id][d]) => Kind(id) = "direct" /\ feed[id].state = "broken"

Opened(id) ==
  /\ id \in hub => Kind(id) # "none"
  /\ Kind(id) = "none" => feed[id].state = "free"
  /\ Kind(id) = "direct" => session[id].to \in Devices
  /\ feed[id].state = "free" => feed[id].sent = 0

Settled(id) ==
  /\ Kind(id) = "fanout" /\ feed[id].state \in {"finished", "broken"}
       => id \notin hub
  /\ \A d \in Devices :
       Kind(id) = "direct" /\ reader[id][d] \in {"ended", "failed"}
         => id \notin hub

Sound(id) == Opened(id) /\ Settled(id) /\ \A d \in Devices : Pipe(id, d)

IInv == TypeOK /\ \A id \in Ids : Sound(id)

(* What a step does not touch stays sound. *)
LEMMA Untouched ==
  ASSUME NEW id, Sound(id), id \in hub' => id \in hub,
         session'[id] = session[id], feed'[id] = feed[id],
         queue'[id] = queue[id], reader'[id] = reader[id], got'[id] = got[id]
  PROVE  Sound(id)'
<1>1. Kind(id)' = Kind(id)
  BY DEF Kind
<1>2. \A d \in Devices : Pipe(id, d)'
  BY <1>1 DEF Sound, Pipe, Carries, Run, Left, Broken
<1> QED
  BY <1>1, <1>2 DEF Sound, Opened, Settled

LEMMA ChunksAre == Chunks \in Nat /\ MaxPosts \in Nat /\ Failure \in Chunk
BY RelayAssumption DEF Chunk, Failure

(* The fields of a session, its feed and its pipes. *)
LEMMA TypesAre ==
  ASSUME TypeOK, NEW id \in Ids
  PROVE  /\ session[id] \in SessionType /\ feed[id] \in FeedType
         /\ feed[id].sent \in Nat /\ feed[id].sent \in 0 .. Chunks
         /\ \A d \in Devices : /\ queue[id][d] \in Seq(Chunk)
                               /\ got[id][d] \in Seq(Chunk)
                               /\ reader[id][d] \in Standings
         /\ DOMAIN queue[id] = Devices /\ DOMAIN got[id] = Devices
         /\ DOMAIN reader[id] = Devices
         /\ queue[id] \in [Devices -> Seq(Chunk)]
         /\ got[id] \in [Devices -> Seq(Chunk)]
         /\ reader[id] \in [Devices -> Standings]
<1>1. session[id] \in SessionType /\ feed[id] \in FeedType
  BY DEF TypeOK, SessionType, FeedType, States
<1>2. feed[id].sent \in 0 .. Chunks /\ feed[id].sent \in Nat
  BY <1>1, ChunksAre DEF FeedType
<1> QED
  BY <1>1, <1>2 DEF TypeOK, Standings

LEMMA CountsAre ==
  ASSUME TypeOK
  PROVE  posts \in [Ids -> 0 .. MaxPosts] /\ meta \in [Ids -> 0 .. MaxPosts]
BY DEF TypeOK

LEMMA InitIInv == Init => IInv
<1> SUFFICES ASSUME Init PROVE IInv
  OBVIOUS
<1> USE ChunksAre DEF Init
<1>1. /\ \A id \in Ids, d \in Devices :
           queue[id][d] = <<>> /\ reader[id][d] = "none" /\ got[id][d] = <<>>
      /\ \A id \in Ids : Kind(id) = "none" /\ feed[id] = NoFeed
  BY DEF Restarted, Kind, Unopened
<1>2. TypeOK
  BY <1>1, RelayAssumption DEF TypeOK, Restarted, Unopened, NoFeed
<1>3. \A id \in Ids : Sound(id)
  BY <1>1 DEF Sound, Opened, Settled, Pipe, Carries, Broken, NoFeed
<1> QED
  BY <1>2, <1>3 DEF IInv

----------------------------------------------------------------------------
(* Opening, ageing and uploading.                                          *)

LEMMA OpenStep ==
  ASSUME IInv, NEW id \in Ids, NEW s \in SessionType,
         s.kind # "none", s.kind = "direct" => s.to \in Devices, Create(id, s)
  PROVE  IInv'
<1>1. TypeOK /\ Sound(id) /\ Kind(id) = "none"
  BY DEF IInv, Create, Kind, Unopened
<1>2. session'[id] = s
  BY <1>1 DEF Create, TypeOK
<1>3. \A i \in Ids : i # id => Sound(i)'
  <2> SUFFICES ASSUME NEW i \in Ids, i # id PROVE Sound(i)'
    OBVIOUS
  <2>1. session'[i] = session[i] /\ (i \in hub' => i \in hub)
    BY <1>1 DEF Create, TypeOK
  <2> QED
    BY <2>1, Untouched DEF IInv, Create
<1>4. Opened(id)' /\ Settled(id)'
  BY <1>1, <1>2 DEF Create, Sound, Opened, Settled, Kind, Pipe
<1>5. ASSUME NEW d \in Devices PROVE Pipe(id, d)'
  <2>1. /\ reader[id][d] = "none" /\ queue[id][d] = <<>> /\ got[id][d] = <<>>
        /\ feed[id].sent = 0
    BY <1>1 DEF Sound, Pipe, Opened
  <2>2. Run(Kind(id)' = "direct", 0, <<>>, <<>>)
    BY NothingRun
  <2> QED
    BY <2>1, <2>2 DEF Create, Pipe, Carries, Broken
<1>6. TypeOK'
  <2>1. session' \in [Ids -> SessionType] /\ hub' \subseteq Ids
    BY <1>1 DEF Create, TypeOK, SessionType
  <2>2. ASSUME NEW i \in Ids, NEW d \in Devices
        PROVE  Len(queue[i][d]) <= IF Kind(i)' = "fanout"
                    THEN FANOUT_BUFFER_CHUNKS ELSE CHANNEL_BUFFER_CHUNKS
    <3>1. CASE i = id
      BY <1>1, <3>1, RelayAssumption DEF Sound, Pipe
    <3>2. CASE i # id
      <4>1. Kind(i)' = Kind(i)
        BY <1>1, <3>2 DEF Create, Kind, TypeOK
      <4> QED
        BY <1>1, <4>1 DEF TypeOK
    <3> QED
      BY <3>1, <3>2
  <2> QED
    BY <1>1, <2>1, <2>2 DEF Create, TypeOK, SessionType
<1> QED
  BY <1>3, <1>4, <1>5, <1>6 DEF IInv, Sound

LEMMA AgeStep ==
  ASSUME IInv, NEW id \in Ids, Age(id) \/ LookUpAged(id)
  PROVE  IInv'
<1>1. /\ UNCHANGED <<jam, session, posts, meta, feed, queue, reader, got, seen,
                     holdings>>
      /\ hub' \subseteq hub /\ aged' \subseteq Ids
  BY DEF Age, LookUpAged, IInv, TypeOK
<1>2. \A i \in Ids : Sound(i)'
  BY <1>1, Untouched DEF IInv
<1>3. TypeOK'
  BY <1>1 DEF IInv, TypeOK, Kind
<1> QED
  BY <1>2, <1>3 DEF IInv

(* A feed moves, and perhaps its session goes. *)
LEMMA FeedTypes ==
  ASSUME TypeOK, NEW id \in Ids, NEW f \in FeedType,
         feed' = [feed EXCEPT ![id] = f], hub' \subseteq hub,
         UNCHANGED <<jam, session, aged, reader, got, seen, holdings>>,
         posts' \in [Ids -> 0 .. MaxPosts], meta' \in [Ids -> 0 .. MaxPosts],
         queue' \in [Ids -> [Devices -> Seq(Chunk)]],
         \A i \in Ids, d \in Devices :
           Len(queue'[i][d]) <= IF Kind(i) = "fanout" THEN FANOUT_BUFFER_CHUNKS
                                                     ELSE CHANNEL_BUFFER_CHUNKS
  PROVE  TypeOK'
<1>1. feed' \in [Ids -> FeedType]
  BY DEF TypeOK, FeedType, States
<1> QED
  BY <1>1 DEF TypeOK, FeedType, States, Kind

LEMMA PostStep ==
  ASSUME IInv, NEW id \in Ids, Post(id)
  PROVE  IInv'
<1>1. /\ TypeOK /\ Sound(id) /\ Kind(id) # "none" /\ posts[id] \in 0 .. MaxPosts
      /\ posts[id] < MaxPosts /\ feed[id] \in FeedType
  BY TypesAre DEF IInv, Post, Found, Sound, Opened, TypeOK
<1>2. posts[id] + 1 \in 0 .. MaxPosts
  BY <1>1, ChunksAre
<1> DEFINE f == IF feed[id].state = "free"
                THEN [by |-> posts[id] + 1, sent |-> 0, state |-> "pumping"]
                ELSE feed[id]
<1>3. feed' = [feed EXCEPT ![id] = f]
  BY <1>1 DEF Post, TypeOK
<1>4. /\ f \in FeedType /\ f.sent = feed[id].sent /\ f.state # "free"
      /\ f.state # "pumping" => f.state = feed[id].state
      /\ feed[id].state = "broken" => f.state = "broken"
  BY <1>1, <1>2, ChunksAre DEF FeedType, States, Sound, Opened
<1> HIDE DEF f
<1>5. TypeOK'
  BY <1>1, <1>2, <1>3, <1>4, FeedTypes DEF Post, TypeOK
<1>6. feed'[id] = f /\ \A i \in Ids : i # id => feed'[i] = feed[i]
  BY <1>1, <1>3 DEF TypeOK
<1>7. \A i \in Ids : i # id => Sound(i)'
  BY <1>6, Untouched DEF IInv, Post
<1>8. Sound(id)'
  <2>1. Kind(id)' = Kind(id)
    BY DEF Post, Kind
  <2>2. \A d \in Devices : Pipe(id, d)'
    BY <1>1, <1>4, <1>6, <2>1 DEF Post, Sound, Pipe, Carries
  <2> QED
    BY <1>1, <1>4, <1>6, <2>1, <2>2 DEF Post, Sound, Opened, Settled
<1> QED
  BY <1>5, <1>7, <1>8 DEF IInv

----------------------------------------------------------------------------
(* The pump.                                                               *)

LEMMA PumpFanoutStep ==
  ASSUME IInv, NEW id \in Ids, PumpFanout(id)
  PROVE  IInv'
<1> DEFINE q == [d \in Devices |->
             IF reader[id][d] = "reading" /\ Len(queue[id][d]) # FANOUT_BUFFER_CHUNKS
             THEN Append(queue[id][d], feed[id].sent + 1) ELSE <<>>]
           r == [d \in Devices |->
             IF reader[id][d] = "reading" /\ Len(queue[id][d]) = FANOUT_BUFFER_CHUNKS
             THEN "lagged" ELSE reader[id][d]]
           f == [feed[id] EXCEPT !.sent = @ + 1]
<1>1. /\ TypeOK /\ Sound(id) /\ Kind(id) = "fanout" /\ feed[id].state = "pumping"
      /\ feed[id] \in FeedType /\ feed[id].sent + 1 \in 0 .. Chunks
      /\ feed[id].sent + 1 \in Chunk /\ feed[id].sent \in Nat
  BY TypesAre, ChunksAre DEF IInv, PumpFanout, Chunk
<1>2. /\ queue' = [queue EXCEPT ![id] = q] /\ reader' = [reader EXCEPT ![id] = r]
      /\ feed' = [feed EXCEPT ![id] = f]
      /\ UNCHANGED <<jam, session, hub, aged, posts, meta, got, seen, holdings>>
  BY DEF PumpFanout
<1>3. /\ f \in FeedType /\ f.sent = feed[id].sent + 1 /\ f.state = "pumping"
  BY <1>1 DEF FeedType, States
<1>4. q \in [Devices -> Seq(Chunk)] /\ r \in [Devices -> Standings]
  BY <1>1, TypesAre DEF Standings
<1>5. /\ queue'[id] = q /\ reader'[id] = r /\ feed'[id] = f
      /\ \A i \in Ids : i # id => /\ queue'[i] = queue[i] /\ reader'[i] = reader[i]
                                  /\ feed'[i] = feed[i]
  BY <1>1, <1>2 DEF TypeOK
<1>6. ASSUME NEW d \in Devices PROVE Pipe(id, d)' /\ Len(q[d]) <= FANOUT_BUFFER_CHUNKS
  <2>0. /\ queue[id][d] \in Seq(Chunk) /\ got[id][d] \in Seq(Chunk)
        /\ Len(queue[id][d]) <= FANOUT_BUFFER_CHUNKS
        /\ ~Broken(queue[id][d]) /\ Pipe(id, d) /\ Kind(id)' = Kind(id)
        /\ FANOUT_BUFFER_CHUNKS \in Nat
    BY <1>1, <1>2, TypesAre, RelayAssumption DEF TypeOK, Sound, Pipe, Kind
  <2>1. CASE reader[id][d] = "reading" /\ Len(queue[id][d]) # FANOUT_BUFFER_CHUNKS
    <3>1. q[d] = Append(queue[id][d], feed[id].sent + 1) /\ r[d] = "reading"
      BY <2>1
    <3>2. Run(FALSE, feed[id].sent, queue[id][d], got[id][d])
      BY <1>1, <2>0, <2>1 DEF Pipe, Carries
    <3>3. /\ Run(FALSE, feed[id].sent + 1, q[d], got[id][d])
          /\ ~Broken(q[d])
      BY <1>1, <2>0, <3>1, <3>2, PumpRun
    <3>4. Len(q[d]) <= FANOUT_BUFFER_CHUNKS
      BY <2>0, <2>1, <3>1
    <3> QED
      BY <1>1, <1>2, <1>3, <1>5, <2>0, <3>1, <3>3, <3>4 DEF Pipe
  <2>2. CASE ~(reader[id][d] = "reading" /\ Len(queue[id][d]) # FANOUT_BUFFER_CHUNKS)
    <3>1. q[d] = <<>> /\ r[d] # "reading" /\ (r[d] = "none" => reader[id][d] = "none")
      BY <2>2
    <3>2. ~Broken(q[d]) /\ Len(q[d]) <= FANOUT_BUFFER_CHUNKS
      BY <2>0, <3>1 DEF Broken
    <3>3. r[d] = "none" => Run(FALSE, feed[id].sent + 1, q[d], got[id][d])
      BY <1>1, <2>0, <3>1 DEF Pipe, Run, Left, Broken
    <3> QED
      BY <1>1, <1>2, <1>3, <1>5, <2>0, <3>1, <3>2, <3>3 DEF Pipe, Carries
  <2> QED
    BY <2>1, <2>2
<1>7. \A i \in Ids : i # id => Sound(i)'
  BY <1>2, <1>5, Untouched DEF IInv
<1>8. Sound(id)'
  <2>1. Kind(id)' = Kind(id)
    BY <1>2 DEF Kind
  <2> QED
    BY <1>1, <1>2, <1>3, <1>5, <1>6, <2>1 DEF Sound, Opened, Settled
<1>9. TypeOK'
  <2>1. /\ queue' \in [Ids -> [Devices -> Seq(Chunk)]]
        /\ reader' \in [Ids -> [Devices -> Standings]]
        /\ feed' \in [Ids -> FeedType]
    BY <1>1, <1>2, <1>3, <1>4 DEF TypeOK, FeedType, States, Standings
  <2>2. \A i \in Ids, d \in Devices :
          Len(queue'[i][d]) <= IF Kind(i)' = "fanout" THEN FANOUT_BUFFER_CHUNKS
                                                     ELSE CHANNEL_BUFFER_CHUNKS
    BY <1>1, <1>2, <1>5, <1>6 DEF TypeOK, Kind
  <2> QED
    BY <1>1, <1>2, <2>1, <2>2 DEF TypeOK, FeedType, States, Standings
<1> QED
  BY <1>7, <1>8, <1>9 DEF IInv

(* The pump of a direct session, and the end of any upload.  The feed      *)
(* moves alone, or a chunk or the error goes into the receiver's pipe.     *)
LEMMA FeedAlone ==
  ASSUME IInv, NEW id \in Ids, NEW f \in FeedType,
         feed[id].state = "pumping", f.state # "free", f.sent = feed[id].sent,
         feed' = [feed EXCEPT ![id] = f], hub' \subseteq hub,
         Kind(id) = "fanout" /\ f.state \in {"finished", "broken"}
           => id \notin hub',
         UNCHANGED <<jam, session, aged, posts, meta, queue, reader, got, seen,
                     holdings>>
  PROVE  IInv'
<1>1. /\ TypeOK /\ Sound(id) /\ Kind(id)' = Kind(id)
      /\ \A d \in Devices : ~Broken(queue[id][d]) /\ Pipe(id, d)
  BY DEF IInv, Sound, Pipe, Kind
<1>2. feed'[id] = f /\ \A i \in Ids : i # id => feed'[i] = feed[i]
  BY <1>1 DEF TypeOK
<1>3. \A d \in Devices : Pipe(id, d)'
  BY <1>1, <1>2 DEF Pipe, Carries
<1>4. Sound(id)'
  BY <1>1, <1>2, <1>3 DEF Sound, Opened, Settled
<1>5. \A i \in Ids : i # id => Sound(i)'
  BY <1>2, Untouched DEF IInv
<1>6. TypeOK'
  BY <1>1, FeedTypes DEF TypeOK
<1> QED
  BY <1>4, <1>5, <1>6 DEF IInv

LEMMA PipeGrows ==
  ASSUME IInv, NEW id \in Ids, NEW f \in FeedType, NEW to \in Devices,
         NEW c \in Chunk, NEW q \in Seq(Chunk),
         Kind(id) = "direct", to = session[id].to, q = Append(queue[id][to], c),
         feed[id].state = "pumping", f.state # "free",
         Len(queue[id][to]) < CHANNEL_BUFFER_CHUNKS,
         queue' = [queue EXCEPT ![id] = [queue[id] EXCEPT ![to] = q]],
         Broken(q) => f.state = "broken",
         \A g \in Seq(Chunk) : Run(TRUE, feed[id].sent, queue[id][to], g)
                                 => Run(TRUE, f.sent, q, g),
         feed' = [feed EXCEPT ![id] = f],
         UNCHANGED <<jam, session, hub, aged, posts, meta, reader, got, seen,
                     holdings>>
  PROVE  IInv'
<1>1. /\ TypeOK /\ Sound(id) /\ Kind(id)' = Kind(id)
      /\ queue[id] \in [Devices -> Seq(Chunk)] /\ got[id][to] \in Seq(Chunk)
      /\ CHANNEL_BUFFER_CHUNKS \in Nat
      /\ \A d \in Devices : ~Broken(queue[id][d]) /\ Pipe(id, d)
  BY TypesAre, RelayAssumption DEF IInv, Sound, Pipe, Kind
<1>2. feed'[id] = f /\ \A i \in Ids : i # id => feed'[i] = feed[i]
  BY <1>1 DEF TypeOK
<1> DEFINE pipes == [queue[id] EXCEPT ![to] = q]
<1>3. /\ pipes \in [Devices -> Seq(Chunk)] /\ pipes[to] = q
      /\ \A d \in Devices : d # to => pipes[d] = queue[id][d]
  BY <1>1
<1>4. queue' = [queue EXCEPT ![id] = pipes]
  OBVIOUS
<1> HIDE DEF pipes
<1>5. /\ queue' \in [Ids -> [Devices -> Seq(Chunk)]] /\ queue'[id] = pipes
      /\ \A i \in Ids : i # id => queue'[i] = queue[i]
  BY <1>1, <1>3, <1>4 DEF TypeOK
<1>6. Len(q) <= CHANNEL_BUFFER_CHUNKS
  BY <1>1
<1>7. Pipe(id, to)'
  <2>1. /\ queue'[id][to] = q /\ feed'[id] = f /\ got'[id][to] = got[id][to]
        /\ reader'[id][to] = reader[id][to]
        /\ Kind(id)' = "direct" /\ session'[id].to = to
    BY <1>1, <1>2, <1>3, <1>5
  <2>2. /\ Pipe(id, to)
        /\ Carries(id, to) => Run(TRUE, feed[id].sent, queue[id][to], got[id][to])
    BY <1>1 DEF Pipe
  <2>3. Carries(id, to) => Run(TRUE, f.sent, q, got[id][to])
    BY <1>1, <2>2
  <2>4. reader[id][to] \in {"none", "reading"} => Run(TRUE, f.sent, q, got[id][to])
    BY <2>3 DEF Carries
  <2>5. reader[id][to] = "none" => got[id][to] = <<>>
    BY <2>2 DEF Pipe
  <2> QED
    BY <2>1, <2>4, <2>5 DEF Pipe, Carries
<1>8. ASSUME NEW d \in Devices, d # to PROVE Pipe(id, d)'
  <2>1. queue'[id][d] = queue[id][d] /\ Pipe(id, d) /\ ~Broken(queue[id][d])
    BY <1>1, <1>3, <1>5, <1>8
  <2> QED
    BY <1>1, <1>8, <2>1 DEF Pipe, Carries
<1>9. Sound(id)'
  BY <1>1, <1>2, <1>7, <1>8 DEF Sound, Opened, Settled
<1>10. \A i \in Ids : i # id => Sound(i)'
  BY <1>2, <1>5, Untouched DEF IInv
<1>11. \A i \in Ids, d \in Devices :
         Len(queue'[i][d]) <= IF Kind(i) = "fanout" THEN FANOUT_BUFFER_CHUNKS
                                                    ELSE CHANNEL_BUFFER_CHUNKS
  <2>1. ASSUME NEW d \in Devices PROVE Len(queue'[id][d]) <= CHANNEL_BUFFER_CHUNKS
    <3>1. d # to => Len(queue[id][d]) <= CHANNEL_BUFFER_CHUNKS
      BY <1>1 DEF TypeOK
    <3> QED
      BY <1>3, <1>5, <1>6, <3>1
  <2>2. ASSUME NEW i \in Ids, NEW d \in Devices, i # id
        PROVE  Len(queue[i][d]) <= IF Kind(i) = "fanout" THEN FANOUT_BUFFER_CHUNKS
                                                         ELSE CHANNEL_BUFFER_CHUNKS
    BY <1>1 DEF TypeOK
  <2> QED
    BY <1>5, <2>1, <2>2
<1>12. TypeOK'
  <2>1. posts' \in [Ids -> 0 .. MaxPosts] /\ meta' \in [Ids -> 0 .. MaxPosts]
    BY <1>1, CountsAre
  <2>2. hub' \subseteq hub
    OBVIOUS
  <2> QED
    BY <1>1, <1>5, <1>11, <2>1, <2>2, FeedTypes
<1> QED
  BY <1>9, <1>10, <1>12 DEF IInv

LEMMA PumpDirectStep ==
  ASSUME IInv, NEW id \in Ids, PumpDirect(id)
  PROVE  IInv'
<1>1. PICK to : to = session[id].to
  OBVIOUS
<1>2. /\ feed[id].state = "pumping" /\ Kind(id) = "direct" /\ feed[id].sent < Chunks
      /\ UNCHANGED <<jam, session, hub, aged, posts, meta, reader, got, seen, holdings>>
      /\ \/ /\ feed' = [feed EXCEPT ![id].state = "broken"]
            /\ UNCHANGED queue
         \/ /\ Len(queue[id][to]) < CHANNEL_BUFFER_CHUNKS
            /\ queue' = [queue EXCEPT ![id][to] = Append(@, feed[id].sent + 1)]
            /\ feed' = [feed EXCEPT ![id].sent = @ + 1]
  BY <1>1 DEF PumpDirect
<1>3. /\ TypeOK /\ Sound(id) /\ to \in Devices /\ ~Broken(queue[id][to])
  BY <1>1, <1>2 DEF IInv, Sound, Opened, Pipe
<1>4. PICK s \in Nat : s = feed[id].sent /\ s + 1 \in Nat /\ s + 1 \in Chunk
                      /\ s + 1 \in 0 .. Chunks
  BY <1>2, <1>3, TypesAre, ChunksAre DEF Chunk
<1>5. feed[id] \in FeedType /\ queue[id][to] \in Seq(Chunk)
  BY <1>3, TypesAre
<1>6. CASE UNCHANGED queue /\ feed' = [feed EXCEPT ![id].state = "broken"]
  <2>1. PICK f \in FeedType : f = [feed[id] EXCEPT !.state = "broken"]
    BY <1>5 DEF FeedType, States
  <2>2. f \in FeedType /\ f.sent = feed[id].sent /\ f.state = "broken"
    BY <1>5, <2>1 DEF FeedType, States
  <2>3. feed' = [feed EXCEPT ![id] = f]
    BY <1>6, <2>1
  <2> QED
    BY <1>2, <1>6, <2>2, <2>3, FeedAlone
<1>7. CASE /\ Len(queue[id][to]) < CHANNEL_BUFFER_CHUNKS
           /\ queue' = [queue EXCEPT ![id][to] = Append(@, feed[id].sent + 1)]
           /\ feed' = [feed EXCEPT ![id].sent = @ + 1]
  <2>1. PICK f \in FeedType : f = [feed[id] EXCEPT !.sent = @ + 1]
    <3> DEFINE e == [by |-> feed[id].by, sent |-> s + 1, state |-> feed[id].state]
    <3>1. e \in FeedType
      BY <1>4, <1>5 DEF FeedType
    <3>2. e = [feed[id] EXCEPT !.sent = s + 1]
      BY <1>4, <1>5 DEF FeedType
    <3>3. e = [feed[id] EXCEPT !.sent = @ + 1]
      BY <1>4, <3>2
    <3> QED
      BY <3>1, <3>3
  <2>2. f \in FeedType /\ f.sent = s + 1 /\ f.state = "pumping"
    BY <1>2, <1>4, <1>5, <2>1 DEF FeedType, States
  <2>3. PICK q \in Seq(Chunk) : q = Append(queue[id][to], s + 1)
    <3>1. Append(queue[id][to], s + 1) \in Seq(Chunk)
      BY <1>4, <1>5
    <3> QED
      BY <3>1
  <2>4. /\ feed' = [feed EXCEPT ![id] = f]
        /\ queue' = [queue EXCEPT ![id] = [queue[id] EXCEPT ![to] = q]]
    BY <1>4, <1>7, <2>1, <2>3
  <2>5. ~Broken(q)
    BY <1>4, <1>5, <2>3 DEF Broken, Failure
  <2>6. ASSUME NEW g \in Seq(Chunk), Run(TRUE, s, queue[id][to], g)
        PROVE  Run(TRUE, s + 1, q, g)
    BY <1>3, <1>4, <1>5, <2>3, <2>6, PumpRun
  <2>7. ASSUME NEW g \in Seq(Chunk), Run(TRUE, feed[id].sent, queue[id][to], g)
        PROVE  Run(TRUE, f.sent, q, g)
    BY <1>4, <2>2, <2>6, <2>7
  <2>8. q = Append(queue[id][to], s + 1) /\ s + 1 \in Chunk /\ f.state # "free"
    BY <1>4, <2>2, <2>3
  <2> QED
    BY <1>1, <1>2, <1>3, <1>7, <2>4, <2>5, <2>7, <2>8, PipeGrows
<1> QED
  BY <1>2, <1>6, <1>7

LEMMA BodyStep ==
  ASSUME IInv, NEW id \in Ids, BodyEnds(id) \/ BodyFails(id)
  PROVE  IInv'
<1> DEFINE to == session[id].to
<1>1. /\ TypeOK /\ Sound(id) /\ feed[id].state = "pumping" /\ feed[id] \in FeedType
      /\ Kind(id) # "none" /\ feed[id].sent \in Nat
      /\ queue[id] \in [Devices -> Seq(Chunk)] /\ queue \in [Ids -> [Devices -> Seq(Chunk)]]
      /\ Kind(id) = "direct" => to \in Devices /\ ~Broken(queue[id][to])
  BY TypesAre DEF IInv, BodyEnds, BodyFails, Sound, Opened, Pipe, TypeOK
<1>2. CASE BodyEnds(id)
  <2> DEFINE f == [feed[id] EXCEPT !.state = "finished"]
  <2>1. f \in FeedType /\ f.sent = feed[id].sent /\ f.state = "finished"
    BY <1>1 DEF FeedType, States
  <2>2. feed' = [feed EXCEPT ![id] = f] /\ hub' \subseteq hub
        /\ (Kind(id) = "fanout" => id \notin hub')
    BY <1>2 DEF BodyEnds
  <2> QED
    BY <1>1, <1>2, <2>1, <2>2, FeedAlone DEF BodyEnds
<1>3. CASE BodyFails(id)
  <2> DEFINE f == [feed[id] EXCEPT !.state = "broken"]
  <2>1. f \in FeedType /\ f.sent = feed[id].sent /\ f.state = "broken"
    BY <1>1 DEF FeedType, States
  <2>2. feed' = [feed EXCEPT ![id] = f]
    BY <1>3 DEF BodyFails
  <2>3. CASE UNCHANGED queue
    <3>1. hub' \subseteq hub /\ (Kind(id) = "fanout" => id \notin hub')
      BY <1>3 DEF BodyFails
    <3> QED
      BY <1>1, <1>3, <2>1, <2>2, <2>3, <3>1, FeedAlone DEF BodyFails
  <2>4. CASE ~UNCHANGED queue
    <3> DEFINE q == Append(queue[id][to], Failure)
    <3>1. /\ queue' = [queue EXCEPT ![id] = [queue[id] EXCEPT ![to] = q]]
          /\ Len(queue[id][to]) < CHANNEL_BUFFER_CHUNKS
          /\ Kind(id) = "direct" /\ UNCHANGED hub
      BY <1>1, <1>3, <2>4 DEF BodyFails
    <3>2. q \in Seq(Chunk) /\ Failure \in Chunk
      BY <1>1, <3>1, ChunksAre
    <3>3. \A g \in Seq(Chunk) : Run(TRUE, feed[id].sent, queue[id][to], g)
                                   => Run(TRUE, feed[id].sent, q, g)
      BY <1>1, <3>1, BreakRun
    <3> QED
      BY <1>1, <1>3, <2>1, <2>2, <3>1, <3>2, <3>3, PipeGrows DEF BodyFails
  <2> QED
    BY <2>3, <2>4
<1> QED
  BY <1>2, <1>3
----------------------------------------------------------------------------
(* The receivers.  One device's end of a session changes.                  *)

LEMMA EndTypes ==
  ASSUME TypeOK, NEW id \in Ids, NEW d \in Devices,
         NEW r \in Standings, NEW q \in Seq(Chunk), NEW g \in Seq(Chunk),
         Len(q) <= Len(queue[id][d]),
         reader' = [reader EXCEPT ![id][d] = r],
         queue' = [queue EXCEPT ![id][d] = q],
         got' = [got EXCEPT ![id][d] = g],
         seen' \in [Ids -> [Devices -> 0 .. MaxPosts]],
         hub' \subseteq hub, holdings' \subseteq Devices \X Ids,
         UNCHANGED <<jam, session, aged, posts, meta, feed>>
  PROVE  TypeOK'
<1>1. /\ reader' \in [Ids -> [Devices -> Standings]]
      /\ queue' \in [Ids -> [Devices -> Seq(Chunk)]]
      /\ got' \in [Ids -> [Devices -> Seq(Chunk)]]
  BY DEF TypeOK, Standings
<1>2. ASSUME NEW i \in Ids, NEW e \in Devices
      PROVE  Len(queue'[i][e]) <= Len(queue[i][e])
  <2>1. CASE i = id /\ e = d
    BY <2>1 DEF TypeOK
  <2>2. CASE ~(i = id /\ e = d)
    <3>1. queue'[i][e] = queue[i][e] /\ queue[i][e] \in Seq(Chunk)
      BY <2>2 DEF TypeOK
    <3> QED
      BY <3>1
  <2> QED
    BY <2>1, <2>2
<1>3. ASSUME NEW i \in Ids, NEW e \in Devices
      PROVE  Len(queue'[i][e]) <= IF Kind(i)' = "fanout" THEN FANOUT_BUFFER_CHUNKS
                                                        ELSE CHANNEL_BUFFER_CHUNKS
  <2>1. /\ Len(queue[i][e]) <= IF Kind(i) = "fanout" THEN FANOUT_BUFFER_CHUNKS
                                                     ELSE CHANNEL_BUFFER_CHUNKS
        /\ queue[i][e] \in Seq(Chunk)
    BY DEF TypeOK
  <2>2. Len(queue'[i][e]) \in Nat /\ Len(queue[i][e]) \in Nat
    BY <1>1, <2>1
  <2>3. Kind(i)' = Kind(i) /\ Len(queue'[i][e]) <= Len(queue[i][e])
    BY <1>2 DEF Kind
  <2> QED
    BY <2>1, <2>2, <2>3, RelayAssumption
<1> QED
  BY <1>1, <1>3 DEF TypeOK, Standings

LEMMA EndMoves ==
  ASSUME IInv, NEW id \in Ids, NEW d \in Devices,
         NEW r \in Standings, NEW q \in Seq(Chunk), NEW g \in Seq(Chunk),
         Len(q) <= Len(queue[id][d]), Broken(q) => Broken(queue[id][d]),
         reader' = [reader EXCEPT ![id][d] = r],
         queue' = [queue EXCEPT ![id][d] = q],
         got' = [got EXCEPT ![id][d] = g],
         Kind(id) # "none", Kind(id) = "direct" => d = session[id].to,
         r # "none",
         r = "reading" => Run(Kind(id) = "direct", feed[id].sent, q, g),
         r \in {"ended", "failed"} /\ Kind(id) = "direct" => id \notin hub',
         seen' \in [Ids -> [Devices -> 0 .. MaxPosts]],
         hub' \subseteq hub, holdings' \subseteq Devices \X Ids,
         UNCHANGED <<jam, session, aged, posts, meta, feed>>
  PROVE  IInv'
<1>1. TypeOK /\ Sound(id)
  BY DEF IInv
<1>2. /\ reader'[id][d] = r /\ queue'[id][d] = q /\ got'[id][d] = g
      /\ \A e \in Devices : e # d => /\ reader'[id][e] = reader[id][e]
                                     /\ queue'[id][e] = queue[id][e]
                                     /\ got'[id][e] = got[id][e]
      /\ \A i \in Ids : i # id => /\ reader'[i] = reader[i]
                                  /\ queue'[i] = queue[i] /\ got'[i] = got[i]
  BY <1>1 DEF TypeOK
<1>3. Kind(id)' = Kind(id)
  BY DEF Kind
<1>4. Pipe(id, d)'
  BY <1>1, <1>2, <1>3 DEF Sound, Pipe, Carries
<1>5. ASSUME NEW e \in Devices, e # d PROVE Pipe(id, e)'
  BY <1>1, <1>2, <1>3, <1>5 DEF Sound, Pipe, Carries
<1>6. Opened(id)' /\ Settled(id)'
  BY <1>1, <1>2, <1>3 DEF Sound, Opened, Settled
<1>7. \A i \in Ids : i # id => Sound(i)'
  BY <1>2, Untouched DEF IInv
<1>8. TypeOK'
  BY <1>1, EndTypes
<1> QED
  BY <1>4, <1>5, <1>6, <1>7, <1>8 DEF IInv, Sound

LEMMA AsBefore ==
  ASSUME NEW S, NEW x \in [Ids -> [Devices -> S]], NEW id \in Ids, NEW d \in Devices
  PROVE  x = [x EXCEPT ![id][d] = x[id][d]]
OBVIOUS

LEMMA TablesAre ==
  ASSUME TypeOK
  PROVE  /\ queue \in [Ids -> [Devices -> Seq(Chunk)]]
         /\ got \in [Ids -> [Devices -> Seq(Chunk)]]
         /\ reader \in [Ids -> [Devices -> Standings]]
         /\ seen \in [Ids -> [Devices -> 0 .. MaxPosts]]
         /\ holdings \subseteq Devices \X Ids
BY DEF TypeOK, Standings

LEMMA AttachStep ==
  ASSUME IInv, NEW id \in Ids, NEW d \in Devices, Attach(id, d)
  PROVE  IInv'
<1>1. /\ TypeOK /\ Sound(id) /\ Pipe(id, d) /\ id \in hub /\ Kind(id) # "none"
      /\ Kind(id) = "direct" => d = session[id].to
      /\ reader[id][d] = "none"
  BY DEF IInv, Sound, Opened, Attach, Found
<1>2. queue[id][d] \in Seq(Chunk) /\ got[id][d] \in Seq(Chunk)
  BY <1>1, TypesAre
<1>3. Run(Kind(id) = "direct", feed[id].sent, queue[id][d], got[id][d])
  BY <1>1 DEF Pipe, Carries
<1>4. /\ queue' = [queue EXCEPT ![id][d] = queue[id][d]]
      /\ got' = [got EXCEPT ![id][d] = got[id][d]]
  BY <1>1, TablesAre, AsBefore DEF Attach
<1>5. seen' \in [Ids -> [Devices -> 0 .. MaxPosts]]
  BY <1>1, TablesAre, CountsAre DEF Attach
<1>6. Len(queue[id][d]) <= Len(queue[id][d])
  BY <1>2
<1>7. /\ reader' = [reader EXCEPT ![id][d] = "reading"] /\ hub' = hub
      /\ holdings' \subseteq Devices \X Ids
      /\ UNCHANGED <<jam, session, aged, posts, meta, feed>>
  BY <1>1, TablesAre DEF Attach
<1>8. "reading" \in Standings
  BY DEF Standings
<1> QED
  BY <1>1, <1>2, <1>3, <1>4, <1>5, <1>6, <1>7, <1>8, EndMoves

(* Who reads has a sound end of the pipe. *)
LEMMA Reading ==
  ASSUME IInv, NEW id \in Ids, NEW d \in Devices, reader[id][d] = "reading"
  PROVE  /\ TypeOK /\ Kind(id) \in {"direct", "fanout"}
         /\ Kind(id) = "direct" => d = session[id].to
         /\ queue[id][d] \in Seq(Chunk) /\ got[id][d] \in Seq(Chunk)
         /\ feed[id].sent \in Nat
         /\ Run(Kind(id) = "direct", feed[id].sent, queue[id][d], got[id][d])
         /\ Broken(queue[id][d]) => feed[id].state = "broken"
<1>1. TypeOK /\ Pipe(id, d) /\ session[id] \in SessionType
  BY TypesAre DEF IInv, Sound
<1>2. Kind(id) # "none" /\ Kind(id) \in {"none", "direct", "fanout"}
  BY <1>1 DEF Pipe, Kind, SessionType
<1> QED
  BY <1>1, <1>2, TypesAre DEF Pipe, Carries

(* A receiver of a direct session is recorded with what it has moved. *)
LEMMA SettleTypes ==
  ASSUME TypeOK, NEW id \in Ids, NEW d \in Devices, Settle(id, d)
  PROVE  /\ hub' \subseteq hub /\ holdings' \subseteq Devices \X Ids
         /\ Kind(id) = "direct" => id \notin hub'
BY DEF TypeOK, Settle

LEMMA ReadStep ==
  ASSUME IInv, NEW id \in Ids, NEW d \in Devices, Read(id, d)
  PROVE  IInv'
<1>1. reader[id][d] = "reading" /\ queue[id][d] # <<>> /\ TypeOK
  BY DEF Read, IInv
<1>2. PICK q \in Seq(Chunk) : q = Tail(queue[id][d])
  <2>1. Tail(queue[id][d]) \in Seq(Chunk)
    BY <1>1, Reading
  <2> QED
    BY <2>1
<1>3. Len(q) <= Len(queue[id][d])
  BY <1>1, <1>2, Reading
<1>4. /\ queue' = [queue EXCEPT ![id][d] = q]
      /\ UNCHANGED <<jam, session, aged, posts, meta, feed, seen>>
      /\ seen' \in [Ids -> [Devices -> 0 .. MaxPosts]]
  BY <1>1, <1>2, TablesAre DEF Read
<1>5. CASE /\ Head(queue[id][d]) # Failure
           /\ got' = [got EXCEPT ![id][d] = Append(@, Head(queue[id][d]))]
           /\ UNCHANGED <<reader, holdings, hub>>
  <2>1. PICK g \in Seq(Chunk) : g = Append(got[id][d], Head(queue[id][d]))
    <3>1. Append(got[id][d], Head(queue[id][d])) \in Seq(Chunk)
      BY <1>1, Reading
    <3> QED
      BY <3>1
  <2>2. Run(Kind(id) = "direct", feed[id].sent, q, g)
        /\ (Broken(q) => Broken(queue[id][d]))
    BY <1>1, <1>2, <1>5, <2>1, Reading, ReadRun
  <2>3. reader' = [reader EXCEPT ![id][d] = "reading"]
    BY <1>1, <1>5, TablesAre, AsBefore
  <2>4. got' = [got EXCEPT ![id][d] = g]
    BY <1>5, <2>1
  <2>5. "reading" \in Standings /\ holdings' \subseteq Devices \X Ids
    BY <1>1, <1>5, TablesAre DEF Standings
  <2> QED
    BY <1>1, <1>3, <1>4, <1>5, <2>2, <2>3, <2>4, <2>5, Reading, EndMoves
<1>6. CASE /\ Head(queue[id][d]) = Failure
           /\ reader' = [reader EXCEPT ![id][d] = "failed"]
           /\ Settle(id, d)
           /\ UNCHANGED got
  <2>1. Broken(q) => Broken(queue[id][d])
    <3>1. queue[id][d] \in Seq(Chunk)
      BY <1>1, Reading
    <3>2. q # <<>> => q[Len(q)] = queue[id][d][Len(queue[id][d])]
      BY <1>1, <1>2, <3>1
    <3> QED
      BY <1>1, <3>2 DEF Broken
  <2>2. got' = [got EXCEPT ![id][d] = got[id][d]] /\ got[id][d] \in Seq(Chunk)
    BY <1>1, <1>6, TablesAre, AsBefore, Reading
  <2>3. "failed" \in Standings
    BY DEF Standings
  <2> QED
    BY <1>1, <1>3, <1>4, <1>6, <2>1, <2>2, <2>3, SettleTypes, Reading, EndMoves
<1> QED
  BY <1>5, <1>6 DEF Read

LEMMA EndOfStreamStep ==
  ASSUME IInv, NEW id \in Ids, NEW d \in Devices, EndOfStream(id, d)
  PROVE  IInv'
<1>1. /\ reader[id][d] = "reading" /\ TypeOK
      /\ reader' = [reader EXCEPT ![id][d] = "ended"] /\ Settle(id, d)
      /\ UNCHANGED <<jam, session, aged, posts, meta, feed, queue, got, seen>>
  BY DEF EndOfStream, IInv
<1>2. /\ queue' = [queue EXCEPT ![id][d] = queue[id][d]]
      /\ got' = [got EXCEPT ![id][d] = got[id][d]]
      /\ seen' \in [Ids -> [Devices -> 0 .. MaxPosts]]
  BY <1>1, TablesAre, AsBefore
<1>3. "ended" \in Standings /\ Len(queue[id][d]) <= Len(queue[id][d])
  BY <1>1, Reading DEF Standings
<1>4. /\ hub' \subseteq hub /\ holdings' \subseteq Devices \X Ids
      /\ Kind(id) = "direct" => id \notin hub'
  BY <1>1, SettleTypes
<1>5. /\ Kind(id) # "none" /\ (Kind(id) = "direct" => d = session[id].to)
      /\ queue[id][d] \in Seq(Chunk) /\ got[id][d] \in Seq(Chunk)
  BY <1>1, Reading
<1> QED
  BY <1>1, <1>2, <1>3, <1>4, <1>5, EndMoves

LEMMA HangUpStep ==
  ASSUME IInv, NEW id \in Ids, NEW d \in Devices, HangUp(id, d)
  PROVE  IInv'
<1>1. /\ reader[id][d] = "reading" /\ TypeOK
      /\ reader' = [reader EXCEPT ![id][d] = "left"]
      /\ queue' = [queue EXCEPT ![id][d] = <<>>]
      /\ UNCHANGED <<jam, session, hub, aged, posts, meta, feed, got, seen, holdings>>
  BY DEF HangUp, IInv
<1>2. /\ got' = [got EXCEPT ![id][d] = got[id][d]]
      /\ seen' \in [Ids -> [Devices -> 0 .. MaxPosts]]
      /\ holdings' \subseteq Devices \X Ids
  BY <1>1, TablesAre, AsBefore
<1>3. /\ "left" \in Standings /\ <<>> \in Seq(Chunk) /\ ~Broken(<<>>)
      /\ Len(<<>>) <= Len(queue[id][d])
  BY <1>1, Reading DEF Standings, Broken
<1>4. /\ Kind(id) # "none" /\ (Kind(id) = "direct" => d = session[id].to)
      /\ got[id][d] \in Seq(Chunk)
  BY <1>1, Reading
<1>5. PICK r \in Standings : r = "left"
  BY <1>3
<1>6. PICK q \in Seq(Chunk) : q = <<>>
  BY <1>3
<1>7. /\ reader' = [reader EXCEPT ![id][d] = r] /\ queue' = [queue EXCEPT ![id][d] = q]
      /\ r \notin {"none", "reading", "ended", "failed"}
      /\ ~Broken(q) /\ Len(q) <= Len(queue[id][d]) /\ hub' \subseteq hub
  BY <1>1, <1>3, <1>5, <1>6
<1> QED
  BY <1>1, <1>2, <1>4, <1>5, <1>7, EndMoves

----------------------------------------------------------------------------
LEMMA IdleStep ==
  ASSUME IInv, (\E u \in Users : JoinJam(u) \/ LeaveJam(u)) \/ UNCHANGED vars
  PROVE  IInv'
<1>1. /\ jam' \subseteq Users
      /\ UNCHANGED <<session, hub, aged, posts, meta, feed, queue, reader, got,
                     seen, holdings>>
  BY DEF JoinJam, LeaveJam, vars, IInv, TypeOK
<1>2. TypeOK'
  BY <1>1 DEF IInv, TypeOK, Kind
<1>3. \A id \in Ids : Sound(id)'
  BY <1>1, Untouched DEF IInv
<1> QED
  BY <1>2, <1>3 DEF IInv

LEMMA OpenDirectStep ==
  ASSUME IInv, NEW id \in Ids, NEW from \in Devices, NEW to \in Devices,
         OpenDirect(id, from, to)
  PROVE  IInv'
<1>1. PICK s \in SessionType : s = [kind |-> "direct", from |-> from, to |-> to]
  BY DEF SessionType
<1> QED
  BY <1>1, OpenStep DEF OpenDirect

LEMMA OpenJamStep ==
  ASSUME IInv, NEW id \in Ids, NEW from \in Devices, OpenJam(id, from)
  PROVE  IInv'
<1>1. PICK s \in SessionType :
        s = [kind |-> "fanout", from |-> from, to |-> NoDevice]
  BY DEF SessionType
<1> QED
  BY <1>1, OpenStep DEF OpenJam

LEMMA NextIInv == IInv /\ [Next]_vars => IInv'
<1> SUFFICES ASSUME IInv, [Next]_vars PROVE IInv'
  OBVIOUS
<1>1. ASSUME NEW id \in Ids, NEW d \in Devices,
             Attach(id, d) \/ Read(id, d) \/ EndOfStream(id, d) \/ HangUp(id, d)
      PROVE  IInv'
  BY <1>1, AttachStep, ReadStep, EndOfStreamStep, HangUpStep
<1>2. ASSUME NEW id \in Ids,
             \/ Age(id) \/ LookUpAged(id) \/ Post(id) \/ PumpFanout(id)
             \/ PumpDirect(id) \/ BodyEnds(id) \/ BodyFails(id)
      PROVE  IInv'
  BY <1>2, AgeStep, PostStep, PumpFanoutStep, PumpDirectStep, BodyStep
<1> QED
  BY <1>1, <1>2, IdleStep, OpenDirectStep, OpenJamStep DEF Next

(* The two ends of every transfer agree about what was put in, what is on  *)
(* its way and what was given, whatever is refused, lags or hangs up       *)
(* (relay/upload.rs, relay/download.rs).                                   *)
THEOREM EndsStaySound == Spec => []IInv
BY InitIInv, NextIInv, PTL DEF Spec

(* A session whose stream is over can no longer be found, whatever was     *)
(* hung up, broken off, retried or dropped for its age in between          *)
(* (relay/upload.rs, relay/download.rs, relay.rs).                         *)
THEOREM SettledAreGone == Spec => []SettledSessionsAreGone
<1>1. IInv => SettledSessionsAreGone
  BY DEF IInv, Sound, Settled, SettledSessionsAreGone
<1> QED
  BY <1>1, EndsStaySound, PTL

----------------------------------------------------------------------------
(* The refinement: what each step is to RelayPromise.                      *)

IsOver(id) == Kind(id) # "none"
                /\ (\/ feed[id].state \in {"finished", "broken"}
                    \/ feed[id].state = "free" /\ id \notin hub)

LEMMA InitPromise == Init => Promise!Init
<1> SUFFICES ASSUME Init PROVE Promise!Init
  OBVIOUS
<1>1. \A id \in Ids : Kind(id) = "none" /\ feed[id].sent = 0 /\ IsOver(id) = FALSE
  BY DEF Init, Kind, Unopened, NoFeed, IsOver
<1>2. [id \in Ids |-> IsOver(id)] = [id \in Ids |-> FALSE]
  BY <1>1
<1>3. \A id \in Ids, d \in Devices : StreamOf(reader[id][d]) = "out"
  BY DEF Init, Restarted, StreamOf
<1>4. got = [id \in Ids |-> [d \in Devices |-> <<>>]] /\ holdings = {}
  BY DEF Init, Restarted
<1> QED
  BY <1>1, <1>2, <1>3, <1>4 DEF Promise!Init, IsOver

(* A session that is over stays over. *)
OverStays == \A id \in Ids : IsOver(id) => IsOver(id)'

LEMMA EndsIs ==
  ASSUME OverStays
  PROVE  Promise!Ends
BY DEF OverStays, IsOver, Promise!Ends

LEMMA SessionKept ==
  ASSUME UNCHANGED session
  PROVE  \A id \in Ids : Kind(id)' = Kind(id)
BY DEF Kind

(* The steps that change no more than who may be found, or end an upload. *)
LEMMA OnlyEnds ==
  ASSUME UNCHANGED <<session, reader, got, holdings>>, OverStays,
         \A id \in Ids : feed'[id].sent = feed[id].sent
  PROVE  Promise!End
<1>1. \A id \in Ids : Kind(id)' = Kind(id)
  BY SessionKept
<1> QED
  BY <1>1, EndsIs DEF Promise!End

LEMMA OpenIs ==
  ASSUME IInv, NEW id \in Ids, NEW s \in SessionType, s.kind # "none", Create(id, s)
  PROVE  Promise!Open(id)
<1>1. TypeOK /\ Sound(id) /\ Kind(id) = "none" /\ feed[id].state = "free"
  BY DEF IInv, Create, Kind, Unopened, Sound, Opened
<1>2. session'[id] = s /\ \A i \in Ids : i # id => session'[i] = session[i]
  BY <1>1 DEF Create, TypeOK
<1>3. Kind(id)' = s.kind /\ \A i \in Ids : i # id => Kind(i)' = Kind(i)
  BY <1>2 DEF Kind
<1>4. s.kind \in {"direct", "fanout"}
  BY DEF SessionType
<1>5. OverStays
  BY <1>1, <1>3 DEF OverStays, IsOver, Create
<1>6. ~IsOver(id)'
  BY <1>1 DEF IsOver, Create
<1>7. [i \in Ids |-> Kind(i)'] = [[i \in Ids |-> Kind(i)] EXCEPT ![id] = s.kind]
  BY <1>3
<1> QED
  BY <1>1, <1>4, <1>5, <1>6, <1>7, EndsIs DEF Promise!Open, Create, IsOver

(* The pump of a fanout cuts off who is late, that of a direct session     *)
(* nobody.                                                                 *)
LEMMA SendIs ==
  ASSUME IInv, NEW id \in Ids, feed[id].state = "pumping", feed[id].sent < Chunks,
         feed' = [feed EXCEPT ![id].sent = @ + 1],
         UNCHANGED <<session, hub, got, holdings>>,
         NEW late \in SUBSET {d \in Devices : reader[id][d] = "reading"},
         Kind(id) = "direct" => late = {},
         reader' = [reader EXCEPT ![id] = [d \in Devices |->
                      IF d \in late THEN "lagged" ELSE reader[id][d]]]
  PROVE  Promise!Send(id)
<1>1. TypeOK /\ Sound(id) /\ Kind(id) # "none" /\ feed[id] \in FeedType
  BY TypesAre DEF IInv, Sound, Opened
<1>2. \A i \in Ids : Kind(i)' = Kind(i)
  BY SessionKept
<1>3. /\ feed'[id].sent = feed[id].sent + 1 /\ feed'[id].state = feed[id].state
      /\ \A i \in Ids : i # id => feed'[i] = feed[i]
  BY <1>1 DEF TypeOK
<1>4. \A i \in Ids : IsOver(i)' <=> IsOver(i)
  BY <1>2, <1>3 DEF IsOver
<1>5. \A i \in Ids : IsOver(i)' = IsOver(i)
  BY <1>4 DEF IsOver
<1>6. ~IsOver(id)
  BY DEF IsOver
<1>7. /\ reader'[id] = [d \in Devices |->
                          IF d \in late THEN "lagged" ELSE reader[id][d]]
      /\ \A i \in Ids : i # id => reader'[i] = reader[i]
  BY <1>1 DEF TypeOK
<1>8. \A d \in Devices :
        StreamOf(reader'[id][d]) = IF d \in late THEN "done" ELSE StreamOf(reader[id][d])
  BY <1>7 DEF StreamOf
<1> DEFINE sent == [i \in Ids |-> feed[i].sent]
           stream == [i \in Ids |-> [d \in Devices |-> StreamOf(reader[i][d])]]
<1>9. [i \in Ids |-> feed'[i].sent] = [sent EXCEPT ![id] = @ + 1]
  <2>1. \A i \in Ids : feed'[i].sent = IF i = id THEN feed[id].sent + 1 ELSE feed[i].sent
    BY <1>3
  <2> QED
    BY <2>1
<1>10. [i \in Ids |-> [d \in Devices |-> StreamOf(reader'[i][d])]]
         = [stream EXCEPT ![id] = [d \in Devices |-> IF d \in late THEN "done" ELSE @[d]]]
  <2>1. ASSUME NEW i \in Ids
        PROVE  [d \in Devices |-> StreamOf(reader'[i][d])]
                 = IF i = id THEN [d \in Devices |-> IF d \in late THEN "done"
                                                     ELSE stream[id][d]]
                   ELSE stream[i]
    <3>1. CASE i = id
      BY <1>8, <3>1
    <3>2. CASE i # id
      BY <1>7, <3>2
    <3> QED
      BY <3>1, <3>2
  <2> QED
    BY <2>1
<1>11. late \in SUBSET {d \in Devices : stream[id][d] = "in"}
  BY DEF StreamOf
<1>12. [i \in Ids |-> IsOver(i)'] = [i \in Ids |-> IsOver(i)]
  BY <1>5
<1>13. [i \in Ids |-> Kind(i)'] = [i \in Ids |-> Kind(i)]
  BY <1>2
<1> QED
  BY <1>1, <1>6, <1>9, <1>10, <1>11, <1>12, <1>13 DEF Promise!Send, IsOver

LEMMA StreamMoves ==
  ASSUME TypeOK, NEW id \in Ids, NEW d \in Devices, NEW r,
         reader' = [reader EXCEPT ![id][d] = r]
  PROVE  [i \in Ids |-> [e \in Devices |-> StreamOf(reader'[i][e])]]
           = [[i \in Ids |-> [e \in Devices |-> StreamOf(reader[i][e])]]
                EXCEPT ![id][d] = StreamOf(r)]
<1>1. \A i \in Ids, e \in Devices :
        reader'[i][e] = IF i = id /\ e = d THEN r ELSE reader[i][e]
  BY DEF TypeOK
<1>2. \A i \in Ids, e \in Devices :
        StreamOf(reader'[i][e]) = IF i = id /\ e = d THEN StreamOf(r)
                                  ELSE StreamOf(reader[i][e])
  BY <1>1
<1>3. ASSUME NEW i \in Ids
      PROVE  [e \in Devices |-> StreamOf(reader'[i][e])]
               = IF i = id THEN [[e \in Devices |-> StreamOf(reader[id][e])]
                                   EXCEPT ![d] = StreamOf(r)]
                 ELSE [e \in Devices |-> StreamOf(reader[i][e])]
  <2>1. CASE i = id
    BY <1>2, <2>1
  <2>2. CASE i # id
    BY <1>2, <2>2
  <2> QED
    BY <2>1, <2>2
<1> QED
  BY <1>3

LEMMA JoinIs ==
  ASSUME IInv, NEW id \in Ids, NEW d \in Devices, Attach(id, d)
  PROVE  Promise!Join(id, d)
<1>1. /\ TypeOK /\ Sound(id) /\ Kind(id) # "none" /\ reader[id][d] = "none"
      /\ reader' = [reader EXCEPT ![id][d] = "reading"]
      /\ Kind(id) = "direct" => d = session[id].to
      /\ UNCHANGED <<session, hub, feed, got, holdings>>
  BY DEF IInv, Attach, Found, Sound, Opened
<1>2. Kind(id) = "direct" => \A e \in Devices : reader[id][e] = "none"
  BY <1>1 DEF Sound, Pipe
<1>3. /\ StreamOf(reader[id][d]) = "out" /\ StreamOf("reading") = "in"
      /\ Kind(id) = "direct" => \A e \in Devices : StreamOf(reader[id][e]) = "out"
  BY <1>1, <1>2 DEF StreamOf
<1>4. \A i \in Ids : Kind(i)' = Kind(i)
  BY <1>1, SessionKept
<1>5. [i \in Ids |-> [e \in Devices |-> StreamOf(reader'[i][e])]]
        = [[i \in Ids |-> [e \in Devices |-> StreamOf(reader[i][e])]]
             EXCEPT ![id][d] = "in"]
  BY <1>1, <1>3, StreamMoves
<1> QED
  BY <1>1, <1>3, <1>4, <1>5 DEF Promise!Join

(* A chunk a receiver takes follows the one it had (ReadRun). *)
LEMMA GiveIs ==
  ASSUME IInv, NEW id \in Ids, NEW d \in Devices,
         reader[id][d] = "reading", queue[id][d] # <<>>, Head(queue[id][d]) # Failure,
         got' = [got EXCEPT ![id][d] = Append(@, Head(queue[id][d]))],
         UNCHANGED <<session, hub, feed, reader, holdings>>
  PROVE  Promise!Give(id, d)
<1>1. PICK c : c = Head(queue[id][d])
  OBVIOUS
<1>2. TypeOK /\ StreamOf(reader[id][d]) = "in"
  BY DEF IInv, StreamOf
<1>3. /\ c \in 1 .. feed[id].sent
      /\ got[id][d] # <<>> => c = got[id][d][Len(got[id][d])] + 1
      /\ Kind(id) = "direct" /\ got[id][d] = <<>> => c = 1
  <2>1. PICK q \in Seq(Chunk), g \in Seq(Chunk), s \in Nat :
          /\ q = queue[id][d] /\ g = got[id][d] /\ s = feed[id].sent
          /\ Run(Kind(id) = "direct", s, q, g)
    BY Reading
  <2>2. q # <<>> /\ Head(q) # Failure
    BY <2>1
  <2>3. PICK direct \in BOOLEAN : direct <=> Kind(id) = "direct"
    OBVIOUS
  <2>4. Run(direct, s, q, g)
    BY <2>1, <2>3 DEF Run
  <2>5. /\ Head(q) \in 1 .. s
        /\ g # <<>> => Head(q) = g[Len(g)] + 1
        /\ direct /\ g = <<>> => Head(q) = 1
    BY <2>2, <2>4, ReadRun
  <2> QED
    BY <1>1, <2>1, <2>3, <2>5
<1>4. got' = [got EXCEPT ![id][d] = Append(@, c)]
  BY <1>1
<1>5. \A i \in Ids : Kind(i)' = Kind(i)
  BY SessionKept
<1>6. Promise!Follows(id, d, c)
  BY <1>3 DEF Promise!Follows
<1> QED
  BY <1>2, <1>3, <1>4, <1>5, <1>6 DEF Promise!Give

LEMMA CloseIs ==
  ASSUME IInv, NEW id \in Ids, NEW d \in Devices, NEW r,
         r \notin {"none", "reading"}, reader[id][d] = "reading",
         reader' = [reader EXCEPT ![id][d] = r],
         UNCHANGED <<session, feed, got>>,
         \/ UNCHANGED <<hub, holdings>>
         \/ Settle(id, d) /\ IsOver(id)
              /\ (Kind(id) = "direct" => Len(got[id][d]) = feed[id].sent)
  PROVE  Promise!Close(id, d)
<1>1. /\ TypeOK /\ StreamOf(reader[id][d]) = "in" /\ StreamOf(r) = "done"
      /\ \A i \in Ids : Kind(i)' = Kind(i)
      /\ got[id][d] \in Seq(Chunk)
  BY SessionKept, Reading DEF IInv, StreamOf
<1>2. [i \in Ids |-> [e \in Devices |-> StreamOf(reader'[i][e])]]
        = [[i \in Ids |-> [e \in Devices |-> StreamOf(reader[i][e])]]
             EXCEPT ![id][d] = "done"]
  BY <1>1, StreamMoves
<1>3. \A i \in Ids : IsOver(i)' = IsOver(i)
  <2>1. CASE UNCHANGED hub
    BY <1>1, <2>1 DEF IsOver
  <2>2. CASE IsOver(id) /\ hub' = hub \ {id}
    BY <1>1, <2>2 DEF IsOver
  <2> QED
    BY <2>1, <2>2 DEF Settle
<1>4. \/ UNCHANGED holdings
      \/ /\ Kind(id) = "direct" /\ IsOver(id)
         /\ feed[id].sent > 0 /\ Len(got[id][d]) = feed[id].sent
         /\ holdings' = holdings \cup {<<d, id>>}
  <2>1. got[id][d] # <<>> => Len(got[id][d]) > 0
    BY <1>1
  <2> QED
    BY <2>1 DEF Settle
<1>5. /\ [i \in Ids |-> IsOver(i)'] = [i \in Ids |-> IsOver(i)]
      /\ [i \in Ids |-> Kind(i)'] = [i \in Ids |-> Kind(i)]
  BY <1>1, <1>3
<1> QED
  BY <1>1, <1>2, <1>4, <1>5 DEF Promise!Close, IsOver

LEMMA ReadIs ==
  ASSUME IInv, NEW id \in Ids, NEW d \in Devices, Read(id, d)
  PROVE  Promise!Give(id, d) \/ Promise!Close(id, d)
<1>1. CASE Head(queue[id][d]) # Failure
  BY <1>1, GiveIs DEF Read
<1>2. CASE Head(queue[id][d]) = Failure
  <2>1. /\ reader[id][d] = "reading" /\ queue[id][d] # <<>>
        /\ reader' = [reader EXCEPT ![id][d] = "failed"]
        /\ Settle(id, d) /\ UNCHANGED <<session, feed, got>>
    BY <1>2 DEF Read
  <2>2. PICK q \in Seq(Chunk) : q = queue[id][d]
    BY <2>1, Reading
  <2>3. PICK s \in Nat : s = feed[id].sent
    BY <2>1, Reading
  <2>4. /\ Len(q) \in Nat \ {0} /\ q[1] = Failure
        /\ Left(q) \in Nat /\ Left(q) <= s
        /\ \A i \in 1 .. Left(q) : q[i] = s - Left(q) + i
        /\ Kind(id) = "direct" => Len(got[id][d]) = s - Left(q)
    BY <1>2, <2>1, <2>2, <2>3, Reading, LeftIs DEF Run
  <2>5. Left(q) = 0
    <3>1. ASSUME Left(q) >= 1 PROVE FALSE
      <4>1. q[1] = s - Left(q) + 1
        BY <2>4, <3>1
      <4> QED
        BY <2>3, <2>4, <4>1 DEF Failure
    <3> QED
      BY <2>4, <3>1
  <2>6. Broken(q)
    BY <2>2, <2>4, <2>5, LeftIs
  <2>7. IsOver(id)
    BY <2>1, <2>2, <2>6, Reading DEF IsOver
  <2>8. Kind(id) = "direct" => Len(got[id][d]) = feed[id].sent
    BY <2>3, <2>4, <2>5
  <2>9. PICK r : r = "failed" /\ r \notin {"none", "reading"}
    OBVIOUS
  <2>10. reader' = [reader EXCEPT ![id][d] = r] /\ UNCHANGED <<session, feed, got>>
    BY <2>1, <2>9
  <2> QED
    BY <2>1, <2>7, <2>8, <2>9, <2>10, CloseIs
<1> QED
  BY <1>1, <1>2

LEMMA EndOfStreamIs ==
  ASSUME IInv, NEW id \in Ids, NEW d \in Devices, EndOfStream(id, d)
  PROVE  Promise!Close(id, d)
<1>1. /\ reader[id][d] = "reading" /\ queue[id][d] = <<>> /\ NoSender(id)
      /\ reader' = [reader EXCEPT ![id][d] = "ended"]
      /\ Settle(id, d) /\ UNCHANGED <<session, feed, got>>
  BY DEF EndOfStream
<1>2. IsOver(id)
  BY <1>1, Reading DEF IsOver, NoSender
<1>3. Left(<<>>) = 0
  BY DEF Left, Broken
<1>4. Kind(id) = "direct" => Len(got[id][d]) = feed[id].sent
  BY <1>1, <1>3, Reading DEF Run
<1>5. PICK r : r = "ended" /\ r \notin {"none", "reading"}
  OBVIOUS
<1>6. reader' = [reader EXCEPT ![id][d] = r] /\ UNCHANGED <<session, feed, got>>
  BY <1>1, <1>5
<1> QED
  BY <1>1, <1>2, <1>4, <1>5, <1>6, CloseIs

LEMMA HangUpIs ==
  ASSUME IInv, NEW id \in Ids, NEW d \in Devices, HangUp(id, d)
  PROVE  Promise!Close(id, d)
<1>1. /\ reader[id][d] = "reading" /\ reader' = [reader EXCEPT ![id][d] = "left"]
      /\ UNCHANGED <<session, feed, got, hub, holdings>>
  BY DEF HangUp
<1>2. PICK r : r = "left" /\ r \notin {"none", "reading"}
  OBVIOUS
<1>3. reader' = [reader EXCEPT ![id][d] = r] /\ UNCHANGED <<session, feed, got>>
  BY <1>1, <1>2
<1> QED
  BY <1>1, <1>2, <1>3, CloseIs

(* One feed changes how it stands, and its session may go. *)
LEMMA FeedEnds ==
  ASSUME IInv, NEW id \in Ids, feed[id].state = "pumping", NEW x,
         x \in {"finished", "broken"},
         feed' = [feed EXCEPT ![id].state = x], hub' \subseteq hub,
         UNCHANGED <<session, reader, got, holdings>>
  PROVE  Promise!End
<1>1. TypeOK /\ feed[id] \in FeedType /\ \A i \in Ids : Kind(i)' = Kind(i)
  BY SessionKept, TypesAre DEF IInv
<1>2. /\ feed'[id].sent = feed[id].sent /\ feed'[id].state = x
      /\ \A i \in Ids : i # id => feed'[i] = feed[i]
  BY <1>1 DEF TypeOK
<1>3. ASSUME NEW i \in Ids, IsOver(i) PROVE IsOver(i)'
  BY <1>1, <1>2, <1>3 DEF IsOver
<1>4. \A i \in Ids : feed'[i].sent = feed[i].sent
  BY <1>2
<1> QED
  BY <1>3, <1>4, OnlyEnds DEF OverStays

LEMMA BodyIs ==
  ASSUME IInv, NEW id \in Ids, BodyEnds(id) \/ BodyFails(id)
  PROVE  Promise!End
<1>1. CASE BodyEnds(id)
  <2>1. /\ feed[id].state = "pumping" /\ hub' \subseteq hub
        /\ feed' = [feed EXCEPT ![id].state = "finished"]
        /\ UNCHANGED <<session, reader, got, holdings>>
    BY <1>1 DEF BodyEnds
  <2> QED
    BY <2>1, FeedEnds
<1>2. CASE BodyFails(id)
  <2>1. /\ feed[id].state = "pumping" /\ hub' \subseteq hub
        /\ feed' = [feed EXCEPT ![id].state = "broken"]
        /\ UNCHANGED <<session, reader, got, holdings>>
    BY <1>2 DEF BodyFails
  <2> QED
    BY <2>1, FeedEnds
<1> QED
  BY <1>1, <1>2

LEMMA PumpIs ==
  ASSUME IInv, NEW id \in Ids, PumpFanout(id) \/ PumpDirect(id)
  PROVE  Promise!Send(id) \/ Promise!End
<1>1. CASE PumpFanout(id)
  <2>1. PICK late \in SUBSET {d \in Devices : reader[id][d] = "reading"} :
          late = {d \in Devices : reader[id][d] = "reading"
                                     /\ Len(queue[id][d]) = FANOUT_BUFFER_CHUNKS}
    OBVIOUS
  <2>2. /\ feed[id].state = "pumping" /\ Kind(id) = "fanout" /\ feed[id].sent < Chunks
        /\ feed' = [feed EXCEPT ![id].sent = @ + 1]
        /\ UNCHANGED <<session, hub, got, holdings>>
    BY <1>1 DEF PumpFanout
  <2>3. reader' = [reader EXCEPT ![id] = [d \in Devices |->
                     IF d \in late THEN "lagged" ELSE reader[id][d]]]
    BY <1>1, <2>1 DEF PumpFanout
  <2> QED
    BY <2>2, <2>3, SendIs
<1>2. CASE PumpDirect(id)
  <2>1. /\ feed[id].state = "pumping" /\ Kind(id) = "direct" /\ feed[id].sent < Chunks
        /\ UNCHANGED <<session, hub, reader, got, holdings>>
        /\ \/ feed' = [feed EXCEPT ![id].sent = @ + 1]
           \/ feed' = [feed EXCEPT ![id].state = "broken"]
    BY <1>2 DEF PumpDirect
  <2>2. CASE feed' = [feed EXCEPT ![id].sent = @ + 1]
    <3>1. PICK late \in SUBSET {d \in Devices : reader[id][d] = "reading"} : late = {}
      OBVIOUS
    <3>2. reader[id] = [d \in Devices |-> IF d \in late THEN "lagged" ELSE reader[id][d]]
      BY <3>1, TypesAre DEF IInv
    <3>3. reader' = [reader EXCEPT ![id] = [d \in Devices |->
                       IF d \in late THEN "lagged" ELSE reader[id][d]]]
      BY <2>1, <3>2, TablesAre DEF IInv
    <3> QED
      BY <2>1, <2>2, <3>1, <3>3, SendIs
  <2>3. CASE feed' = [feed EXCEPT ![id].state = "broken"]
    BY <2>1, <2>3, FeedEnds
  <2> QED
    BY <2>1, <2>2, <2>3
<1> QED
  BY <1>1, <1>2

(* A session found has a feed that is not over: an upload ends nothing. *)
LEMMA PostIs ==
  ASSUME IInv, NEW id \in Ids, Post(id)
  PROVE  Promise!End
<1>1. /\ TypeOK /\ Opened(id) /\ id \in hub
      /\ UNCHANGED <<session, hub, reader, got, holdings>>
      /\ feed[id].state # "free" => feed' = feed
      /\ feed[id].state = "free" => feed' = [feed EXCEPT ![id] =
            [by |-> posts[id] + 1, sent |-> 0, state |-> "pumping"]]
  BY DEF IInv, Sound, Post, Found
<1>2. \A i \in Ids : Kind(i)' = Kind(i)
  BY <1>1, SessionKept
<1>3. ASSUME NEW i \in Ids
      PROVE  feed'[i].sent = feed[i].sent /\ (IsOver(i) => IsOver(i)')
  <2>1. CASE feed[id].state # "free" \/ i # id
    <3>1. feed'[i] = feed[i]
      BY <1>1, <2>1 DEF TypeOK
    <3> QED
      BY <1>1, <1>2, <3>1 DEF IsOver
  <2>2. CASE feed[id].state = "free" /\ i = id
    <3>1. feed'[i].sent = 0
      BY <1>1, <2>2 DEF TypeOK
    <3> QED
      BY <1>1, <2>2, <3>1 DEF Opened, IsOver
  <2> QED
    BY <2>1, <2>2
<1> QED
  BY <1>1, <1>3, OnlyEnds DEF OverStays

LEMMA AgeIs ==
  ASSUME NEW id,
         Age(id) \/ LookUpAged(id) \/ (\E u \in Users : JoinJam(u) \/ LeaveJam(u))
  PROVE  Promise!End
<1>1. hub' \subseteq hub /\ UNCHANGED <<session, feed, reader, got, holdings>>
  BY DEF Age, LookUpAged, JoinJam, LeaveJam
<1>2. \A i \in Ids : Kind(i)' = Kind(i)
  BY <1>1, SessionKept
<1>3. OverStays
  BY <1>1, <1>2 DEF OverStays, IsOver
<1> QED
  BY <1>1, <1>3, OnlyEnds

LEMMA OpeningIs ==
  ASSUME IInv, NEW id \in Ids,
         \/ \E from, to \in Devices : OpenDirect(id, from, to)
         \/ \E from \in Devices : OpenJam(id, from)
  PROVE  Promise!Open(id)
<1>1. CASE \E from, to \in Devices : OpenDirect(id, from, to)
  <2>1. PICK from \in Devices, to \in Devices : OpenDirect(id, from, to)
    BY <1>1
  <2>2. PICK s \in SessionType : s = [kind |-> "direct", from |-> from, to |-> to]
    BY DEF SessionType
  <2> QED
    BY <2>1, <2>2, OpenIs DEF OpenDirect
<1>2. CASE \E from \in Devices : OpenJam(id, from)
  <2>1. PICK from \in Devices : OpenJam(id, from)
    BY <1>2
  <2>2. PICK s \in SessionType :
          s = [kind |-> "fanout", from |-> from, to |-> NoDevice]
    BY DEF SessionType
  <2> QED
    BY <2>1, <2>2, OpenIs DEF OpenJam
<1> QED
  BY <1>1, <1>2

LEMMA IdleIs ==
  ASSUME UNCHANGED vars
  PROVE  UNCHANGED Promise!vars
<1>1. UNCHANGED <<session, hub, feed, reader, got, holdings>>
  BY DEF vars
<1>2. /\ \A i \in Ids : Kind(i)' = Kind(i)
      /\ \A i \in Ids : IsOver(i)' = IsOver(i)
  BY <1>1 DEF Kind, IsOver
<1>3. [i \in Ids |-> IsOver(i)'] = [i \in Ids |-> IsOver(i)]
  BY <1>2
<1> QED
  BY <1>1, <1>2, <1>3 DEF Promise!vars, IsOver

LEMMA StepIs == IInv /\ [Next]_vars => [Promise!Next]_(Promise!vars)
<1> SUFFICES ASSUME IInv, [Next]_vars PROVE [Promise!Next]_(Promise!vars)
  OBVIOUS
<1>1. CASE UNCHANGED vars
  BY <1>1, IdleIs
<1>2. CASE Next
  <2>1. ASSUME NEW id \in Ids,
               \/ \E from, to \in Devices : OpenDirect(id, from, to)
               \/ \E from \in Devices : OpenJam(id, from)
        PROVE  Promise!Next
    BY <2>1, OpeningIs DEF Promise!Next
  <2>2. ASSUME NEW id \in Ids,
               \/ Age(id) \/ LookUpAged(id) \/ Post(id)
               \/ BodyEnds(id) \/ BodyFails(id)
        PROVE  Promise!Next
    BY <2>2, AgeIs, PostIs, BodyIs DEF Promise!Next
  <2>3. ASSUME NEW id \in Ids, PumpFanout(id) \/ PumpDirect(id)
        PROVE  Promise!Next
    BY <2>3, PumpIs DEF Promise!Next
  <2>4. ASSUME NEW id \in Ids, NEW d \in Devices,
               Attach(id, d) \/ Read(id, d) \/ EndOfStream(id, d) \/ HangUp(id, d)
        PROVE  Promise!Next
    BY <2>4, JoinIs, ReadIs, EndOfStreamIs, HangUpIs DEF Promise!Next
  <2>5. (\E u \in Users : JoinJam(u) \/ LeaveJam(u)) => Promise!Next
    BY AgeIs DEF Promise!Next
  <2>6. Promise!Next
    BY <1>2, <2>1, <2>2, <2>3, <2>4, <2>5 DEF Next
  <2> QED
    BY <2>6
<1> QED
  BY <1>1, <1>2

(* Whatever refuses, lags, fails, hangs up or ages, the relay does what    *)
(* RelayPromise says: a receiver is given a run of the file without a      *)
(* hole, a direct one from its start, a late listener is cut off and a     *)
(* direct receiver never, and what is recorded as held is all that was put *)
(* in (relay/upload.rs, relay/download.rs).                                *)
THEOREM PromiseIsKept == Spec => KeepsItsPromise
<1>1. Init => Promise!Init
  BY InitPromise
<1>2. IInv /\ [Next]_vars => [Promise!Next]_(Promise!vars)
  BY StepIs
<1> QED
  BY <1>1, <1>2, EndsStaySound, PTL DEF Spec, KeepsItsPromise, Promise!Spec

----------------------------------------------------------------------------
(* Listening: who may be read.                                             *)

AskType ==
  [op : {"none", "feed", "circle", "stats"},
   at : {"none", "friends", "gate", "are friends", "rows"},
   by : SUBSET Listeners, todo : SUBSET Listeners, of : SUBSET Listeners,
   ok : BOOLEAN, members : SUBSET Listeners, shown : SUBSET Listeners,
   open : SUBSET Listeners, knew : SUBSET Listeners]

(* What a request goes by was so at some time since it began: whoever is   *)
(* let through, and whoever is to be read next, were a friend and open;    *)
(* whose profile was read, and read as open, was open; and the request is  *)
(* credited with all that is so now.                                       *)
Allowed(q) == q.open \cap q.knew
AskedFor(q) ==
  /\ q.members \cup q.shown \subseteq Allowed(q)
  /\ q.at = "rows" => q.of \subseteq Allowed(q)
  /\ q.at = "are friends" /\ q.ok => q.of \subseteq q.open
UpToDate(q, pairs, settings) ==
  q # Silent =>
    /\ Honest(settings, SurfaceOf(q.op)) \subseteq q.open
    /\ \A a \in q.by : FriendsAmong(a, pairs) \subseteq q.knew
AskInv == ask \in AskType /\ AskedFor(ask) /\ UpToDate(ask, circles, shows)

LEMMA SilentIsSound ==
  /\ Silent \in AskType /\ AskedFor(Silent) /\ Silent.at = "none"
  /\ \A pairs, settings : UpToDate(Silent, pairs, settings)
BY DEF Silent, AskType, AskedFor, Allowed, UpToDate

LEMMA Credited ==
  ASSUME NEW pairs, NEW settings, NEW surface, NEW a \in Listeners
  PROVE  /\ Honest(settings, surface) \subseteq Listeners
         /\ FriendsAmong(a, pairs) \subseteq Listeners
         /\ Shows(settings[a], surface) => a \in Honest(settings, surface)
BY DEF Honest, FriendsAmong, Shows

LEMMA InitAsk == ListeningInit => AskInv
BY SilentIsSound DEF ListeningInit, AskInv

(* A request begins, credited with what is so now. *)
LEMMA OpensIsSound ==
  ASSUME NEW a \in Listeners, NEW op \in {"feed", "circle", "stats"},
         NEW step \in {"friends", "gate"}, NEW todo \in SUBSET Listeners,
         Opens(a, op, step, todo)
  PROVE  AskInv'
<1>1. /\ ask' = [Silent EXCEPT !.op = op, !.at = step, !.by = {a},
                   !.todo = todo, !.open = Honest(shows, SurfaceOf(op)),
                   !.knew = FriendsAmong(a, circles)]
      /\ UNCHANGED <<circles, shows>>
  BY DEF Opens
<1>2. /\ Honest(shows, SurfaceOf(op)) \subseteq Listeners
      /\ FriendsAmong(a, circles) \subseteq Listeners
  BY Credited
<1>3. ask' \in AskType
  BY <1>1, <1>2 DEF Silent, AskType
<1>4. AskedFor(ask')
  BY <1>1 DEF Silent, AskedFor, Allowed
<1>5. UpToDate(ask', circles', shows')
  BY <1>1 DEF Silent, UpToDate
<1> QED
  BY <1>3, <1>4, <1>5 DEF AskInv

(* A switch is turned, or a friendship: what is so from now on is added.   *)
LEMMA RememberIsSound ==
  ASSUME AskInv, Remember(circles', shows')
  PROVE  AskInv'
<1>1. CASE ask = Silent
  <2>1. ask' = Silent
    BY <1>1 DEF Remember
  <2> QED
    BY <2>1, SilentIsSound DEF AskInv
<1>2. CASE ask # Silent
  <2> DEFINE more == Honest(shows', SurfaceOf(ask.op))
             met == UNION {FriendsAmong(a, circles') : a \in ask.by}
  <2>1. ask' = [ask EXCEPT !.open = @ \cup more, !.knew = @ \cup met]
    BY <1>2 DEF Remember
  <2>2. ask \in AskType
    BY DEF AskInv
  <2>3. more \subseteq Listeners /\ met \subseteq Listeners
    BY DEF Honest, FriendsAmong
  <2>4. /\ ask'.open = ask.open \cup more /\ ask'.knew = ask.knew \cup met
        /\ ask'.op = ask.op /\ ask'.by = ask.by /\ ask'.at = ask.at
        /\ ask'.of = ask.of /\ ask'.ok = ask.ok
        /\ ask'.members = ask.members /\ ask'.shown = ask.shown
        /\ ask' \in AskType
    BY <2>1, <2>2, <2>3 DEF AskType
  <2>5. AskedFor(ask')
    BY <2>4 DEF AskInv, AskedFor, Allowed
  <2>6. UpToDate(ask', circles', shows')
    BY <2>4 DEF UpToDate
  <2> QED
    BY <2>4, <2>5, <2>6 DEF AskInv
<1> QED
  BY <1>1, <1>2

(* A request goes on, and what it goes by is kept. *)
LEMMA GoesOnSoundly ==
  ASSUME AskInv, NEW q \in AskType, GoesOn(q), ask # Silent,
         q.op = ask.op, q.by = ask.by, q.open = ask.open, q.knew = ask.knew,
         AskedFor(q)
  PROVE  AskInv'
<1>1. ask' = q /\ UNCHANGED <<circles, shows>>
  BY DEF GoesOn
<1>2. UpToDate(q, circles, shows)
  BY DEF AskInv, UpToDate
<1> QED
  BY <1>1, <1>2 DEF AskInv

LEMMA ReadingIsSound ==
  ASSUME AskInv, NEW a \in Listeners,
         ReadFriends(a) \/ ReadProfile(a) \/ AreFriends(a) \/ ReadRows(a)
           \/ Answer(a)
  PROVE  AskInv'
<1> ask \in AskType /\ AskedFor(ask)
  BY DEF AskInv
<1>1. \A step \in {"friends", "gate", "are friends", "rows"} :
        Asks(a, step) =>
          /\ ask # Silent /\ ask.at = step /\ ask.by = {a}
          /\ Honest(shows, SurfaceOf(ask.op)) \subseteq ask.open
          /\ FriendsAmong(a, circles) \subseteq ask.knew
  BY SilentIsSound DEF Asks, AskInv, UpToDate
<1>2. CASE ReadFriends(a)
  <2> DEFINE q == [ask EXCEPT !.at = "gate", !.todo = FriendsAmong(a, circles)]
  <2>1. Asks(a, "friends") /\ GoesOn(q)
    BY <1>2 DEF ReadFriends
  <2>2. q \in AskType
    BY Credited DEF AskType
  <2>3. /\ q.op = ask.op /\ q.by = ask.by /\ q.open = ask.open
        /\ q.knew = ask.knew /\ AskedFor(q)
    BY DEF AskType, AskedFor, Allowed
  <2> QED
    BY <2>1, <2>2, <2>3, <1>1, GoesOnSoundly
<1>3. CASE ReadProfile(a)
  <2>1. PICK b \in ask.todo :
          /\ Asks(a, "gate")
          /\ GoesOn([ask EXCEPT !.at = "are friends", !.of = {b},
                       !.todo = @ \ {b},
                       !.ok = Shows(shows[b], SurfaceOf(ask.op))])
    BY <1>3 DEF ReadProfile
  <2> DEFINE q == [ask EXCEPT !.at = "are friends", !.of = {b},
                     !.todo = @ \ {b},
                     !.ok = Shows(shows[b], SurfaceOf(ask.op))]
  <2>2. b \in Listeners /\ Shows(shows[b], SurfaceOf(ask.op)) \in BOOLEAN
    BY DEF AskType, Shows
  <2>3. q \in AskType
    BY <2>2 DEF AskType
  <2>4. q.ok => {b} \subseteq ask.open
    BY <2>1, <2>2, <1>1, Credited DEF AskType
  <2>5. /\ q.op = ask.op /\ q.by = ask.by /\ q.open = ask.open
        /\ q.knew = ask.knew /\ AskedFor(q)
    BY <2>4 DEF AskType, AskedFor, Allowed
  <2> QED
    BY <2>1, <2>3, <2>5, <1>1, GoesOnSoundly
<1>4. CASE AreFriends(a)
  <2> DEFINE passed == ask.ok /\ ask.of \subseteq FriendsAmong(a, circles)
             q == [ask EXCEPT
                     !.members = IF passed THEN @ \cup ask.of ELSE @,
                     !.at = IF passed /\ ask.op # "circle" THEN "rows"
                            ELSE "gate"]
  <2>1. Asks(a, "are friends") /\ GoesOn(q)
    BY <1>4 DEF AreFriends
  <2>2. passed => ask.of \subseteq Allowed(ask)
    BY <2>1, <1>1 DEF AskedFor, Allowed
  <2>3. q \in AskType
    BY DEF AskType
  <2>4. /\ q.op = ask.op /\ q.by = ask.by /\ q.open = ask.open
        /\ q.knew = ask.knew /\ AskedFor(q)
    BY <2>2 DEF AskType, AskedFor, Allowed
  <2> QED
    BY <2>1, <2>3, <2>4, <1>1, GoesOnSoundly
<1>5. ASSUME Asks(a, "rows"),
             GoesOn([ask EXCEPT !.at = "gate", !.shown = @ \cup ask.of])
      PROVE  AskInv'
  <2> DEFINE q == [ask EXCEPT !.at = "gate", !.shown = @ \cup ask.of]
  <2>1. q \in AskType
    BY DEF AskType
  <2>2. /\ q.op = ask.op /\ q.by = ask.by /\ q.open = ask.open
        /\ q.knew = ask.knew /\ AskedFor(q)
    BY <1>5, <1>1 DEF AskType, AskedFor, Allowed
  <2> QED
    BY <1>5, <2>1, <2>2, <1>1, GoesOnSoundly
<1>6. ASSUME NEW b \in ask.members \ ask.shown, Asks(a, "gate"),
             GoesOn([ask EXCEPT !.shown = @ \cup {b}, !.todo = {}])
      PROVE  AskInv'
  <2> DEFINE q == [ask EXCEPT !.shown = @ \cup {b}, !.todo = {}]
  <2>1. q \in AskType
    BY DEF AskType
  <2>2. /\ q.op = ask.op /\ q.by = ask.by /\ q.open = ask.open
        /\ q.knew = ask.knew /\ AskedFor(q)
    BY <1>6, <1>1 DEF AskType, AskedFor, Allowed
  <2> QED
    BY <1>6, <2>1, <2>2, <1>1, GoesOnSoundly
<1>7. CASE ReadRows(a)
  BY <1>5, <1>6, <1>7 DEF ReadRows
<1>8. CASE Answer(a)
  <2>1. ask' = Silent
    BY <1>8 DEF Answer, GoesOn
  <2> QED
    BY <2>1, SilentIsSound DEF AskInv
<1> QED
  BY <1>2, <1>3, <1>4, <1>7, <1>8

LEMMA StepAsk == AskInv /\ [ListeningNext]_listeningVars => AskInv'
<1> SUFFICES ASSUME AskInv, [ListeningNext]_listeningVars PROVE AskInv'
  OBVIOUS
<1>1. ASSUME UNCHANGED <<ask, circles, shows>> PROVE AskInv'
  BY <1>1 DEF AskInv
<1>2. ASSUME NEW m \in Machines, Play(m) \/ Drain(m) \/ RenameNode(m)
      PROVE  AskInv'
  BY <1>1, <1>2 DEF Play, Drain, RenameNode
<1>3. ASSUME NEW a \in Listeners, PurgeScrobbles(a) PROVE AskInv'
  BY <1>1, <1>3 DEF PurgeScrobbles
<1>4. ASSUME NEW a \in Listeners,
             FriendActivity(a) \/ CircleRecap(a) \/ ListeningStats(a)
      PROVE  AskInv'
  <2>1. CASE FriendActivity(a)
    BY <2>1, OpensIsSound DEF FriendActivity
  <2>2. CASE CircleRecap(a)
    BY <2>2, OpensIsSound DEF CircleRecap
  <2>3. CASE ListeningStats(a)
    <3>1. PICK b \in Listeners : Opens(a, "stats", "gate", {b})
      BY <2>3 DEF ListeningStats
    <3> QED
      BY <3>1, OpensIsSound
  <2> QED
    BY <1>4, <2>1, <2>2, <2>3
<1>5. ASSUME NEW a \in Listeners, UpdateProfile(a) PROVE AskInv'
  <2>1. UNCHANGED circles /\ Remember(circles, shows')
    BY <1>5 DEF UpdateProfile
  <2> QED
    BY <2>1, RememberIsSound
<1>6. ASSUME NEW a \in Listeners, NEW b \in Listeners, Befriend(a, b)
      PROVE  AskInv'
  <2>1. UNCHANGED shows /\ Remember(circles', shows)
    BY <1>6 DEF Befriend
  <2> QED
    BY <2>1, RememberIsSound
<1>7. CASE RecordScrobbles \/ Pass \/ UNCHANGED listeningVars
  BY <1>1, <1>7 DEF RecordScrobbles, Pass, listeningVars
<1> QED
  BY <1>2, <1>3, <1>4, <1>5, <1>6, <1>7, ReadingIsSound DEF ListeningNext

(* Of whom a feed, a recap of a circle or somebody's figures show anything *)
(* it was read while, at some time since the request began, they were a    *)
(* friend and open to it, whatever switches were turned and friendships    *)
(* ended between its reads (schema_social.rs:36-72).                       *)
THEOREM OnlyWhoAllowsIt == ListeningSpec => []NobodyIsReadUnasked
<1>1. AskInv => NobodyIsReadUnasked
  BY DEF AskInv, AskedFor, Allowed, NobodyIsReadUnasked
<1> QED
  BY <1>1, InitAsk, StepAsk, PTL DEF ListeningSpec

(***************************************************************************)
(* Listening: plays are counted once.                                      *)
(***************************************************************************)
Plays == [by : Machines, track : Tracks, at : Nat, zone : Zones, uid : Nat]
Unsent == UNION {outbox[m] : m \in Machines}
UnderWay == UNION {b.entries : b \in wire}
Made == landed \cup Unsent \cup UnderWay

(* A play has an id of its own, or none. *)
PlaysDiffer ==
  /\ numbered \in Nat
  /\ \A p \in Made : /\ p \in Plays /\ p.at <= MaxTime
                      /\ p.uid <= numbered /\ (p.uid > 0 => p.zone = 0)
  /\ \A p, q \in Made : p.uid = q.uid /\ p.uid > 0 => p = q

(* A device sends plays of its own, under its id or its name. *)
Sending ==
  /\ outbox \in [Machines -> SUBSET Plays]
  /\ \A m \in Machines : IsFiniteSet(outbox[m]) /\ \A p \in outbox[m] : p.by = m
  /\ \A b \in wire : /\ b.by \in Machines /\ b.name \in Machines \cup Petnames
                     /\ IsFiniteSet(b.entries) /\ b.entries \subseteq Plays
                     /\ \A p \in b.entries : p.by = b.by
  /\ IsFiniteSet(landed)

(* A row is that of a play that landed, and there is one of each. *)
StoredRows ==
  [user : Listeners, track : Tracks, stamp : [wall : Int, zone : Zones], uid : Nat,
   device : Machines \cup Petnames]
Reflects(r, p) ==
  /\ r.user = OwnerOf[p.by] /\ r.track = p.track
  /\ r.stamp = Stamped(p) /\ r.uid = p.uid
Reported ==
  /\ scrobbles \subseteq StoredRows
  /\ \A r, s \in scrobbles : Same(r, s) => r = s
  /\ \A r \in scrobbles : \E p \in landed : Reflects(r, p)
  /\ \A p \in landed : \E r \in scrobbles : Reflects(r, p)

(* A circle has room for the one who asks, and for whom is asked about. *)
RoomIn(q) ==
  /\ IsFiniteSet(q.members) /\ IsFiniteSet(q.of) /\ Cardinality(q.of) <= 1
  /\ q.op = "circle" =>
       /\ Cardinality(q.members) < MaxCircle
       /\ q.at = "are friends" => Cardinality(q.members) + 1 < MaxCircle

Named ==
  /\ nodes \in [Machines -> Petnames \cup {Unnamed}]
  /\ shows \in [Listeners -> SUBSET (Surfaces \cup {"incognito"})]
  /\ time \in 0..MaxTime

LsInv == PlaysDiffer /\ Sending /\ Reported /\ RoomIn(ask) /\ Named

LEMMA StampedIs ==
  ASSUME NEW p \in Plays
  PROVE  /\ Stamped(p) \in [wall : Int, zone : Zones]
         /\ p.uid > 0 => Moment(Stamped(p)) = p.at - (p.at % Hour)
         /\ p.uid = 0 => Stamped(p) = [wall |-> p.at + p.zone, zone |-> p.zone]
         /\ p.uid = 0 => Moment(Stamped(p)) = p.at
         /\ Moment(Stamped(p)) \in Int
         /\ Moment(Stamped(p)) <= p.at /\ p.at < Moment(Stamped(p)) + Hour
<1>1. /\ Hour \in Nat \ {0} /\ Zones \subseteq Int /\ 0 \in Zones
      /\ p.at \in Nat /\ p.zone \in Zones /\ p.zone \in Int /\ p.uid \in Nat
  BY ListeningAssumption DEF Plays
<1>2. p.at % Hour \in Int /\ 0 <= p.at % Hour /\ p.at % Hour < Hour
  BY <1>1
<1>3. CASE p.uid > 0
  <2>1. Stamped(p) = [wall |-> p.at - (p.at % Hour), zone |-> 0]
    BY <1>3 DEF Stamped, ToHour
  <2> QED BY <1>1, <1>2, <1>3, <2>1 DEF Moment
<1>4. CASE p.uid = 0
  <2>1. Stamped(p) = [wall |-> p.at + p.zone, zone |-> p.zone]
    BY <1>4 DEF Stamped
  <2> QED BY <1>1, <1>4, <2>1 DEF Moment
<1> QED BY <1>1, <1>3, <1>4

LEMMA RowOfIs ==
  ASSUME NEW p \in Plays, NEW name \in Machines \cup Petnames
  PROVE  RowOf(p, name) \in StoredRows /\ Reflects(RowOf(p, name), p)
<1>1. OwnerOf[p.by] \in Listeners /\ p.track \in Tracks /\ p.uid \in Nat
  BY ListeningAssumption DEF Plays
<1>2. Stamped(p) \in [wall : Int, zone : Zones]
  BY StampedIs
<1> QED BY <1>1, <1>2 DEF RowOf, StoredRows, Reflects

(* Plays without an id that make one row are one play. *)
LEMMA SamePlay ==
  ASSUME NEW p \in Plays, NEW q \in Plays, p.uid = 0, q.uid = 0,
         Stamped(p) = Stamped(q)
  PROVE  p.at = q.at /\ p.zone = q.zone
<1>1. /\ Stamped(p) = [wall |-> p.at + p.zone, zone |-> p.zone]
      /\ Stamped(q) = [wall |-> q.at + q.zone, zone |-> q.zone]
  BY StampedIs
<1> DEFINE x == [wall |-> p.at + p.zone, zone |-> p.zone]
           y == [wall |-> q.at + q.zone, zone |-> q.zone]
<1>2. x = y
  BY <1>1
<1>3. x.wall = y.wall /\ x.zone = y.zone
  BY <1>2
<1>4. p.at + p.zone = q.at + q.zone /\ p.zone = q.zone
  BY <1>3
<1>5. p.at \in Nat /\ q.at \in Nat /\ p.zone \in Zones /\ Zones \subseteq Int
  BY ListeningAssumption DEF Plays
<1> HIDE DEF x, y
<1>6. p.zone \in Int
  BY <1>5
<1>7. p.at = (p.at + p.zone) - p.zone /\ q.at = (q.at + p.zone) - p.zone
  BY <1>5, <1>6
<1> QED BY <1>4, <1>7

LEMMA StoringReports ==
  ASSUME PlaysDiffer, Sending, Reported, NEW b \in wire,
         scrobbles' = Stored(scrobbles, b), landed' = landed \cup b.entries
  PROVE  Reported'
<1>0. /\ b.by \in Machines /\ b.name \in Machines \cup Petnames /\ b.entries \subseteq Plays
      /\ \A p \in b.entries : p.by = b.by
  BY DEF Sending
<1>m. \A p \in landed \cup b.entries : p \in Made /\ p \in Plays
  <2>1. b.entries \subseteq UnderWay
    BY DEF UnderWay
  <2>2. landed \cup b.entries \subseteq Made
    BY <2>1 DEF Made
  <2> QED BY <2>2 DEF PlaysDiffer
<1>1. \A r : r \in scrobbles' <=>
        \/ r \in scrobbles
        \/ \E q \in b.entries : /\ r = RowOf(q, b.name)
                                /\ ~\E s \in scrobbles : Same(s, r)
  BY DEF Stored
<1>2. \A q \in b.entries : RowOf(q, b.name) \in StoredRows /\ Reflects(RowOf(q, b.name), q)
  BY <1>0, RowOfIs
<1>3. scrobbles' \subseteq StoredRows
  BY <1>1, <1>2 DEF Reported
<1>4. \A r, s : Same(r, s) => Same(s, r)
  BY DEF Same
<1>5. ASSUME NEW p \in b.entries, NEW q \in b.entries,
             Same(RowOf(p, b.name), RowOf(q, b.name))
      PROVE  p = q
  <2>1. /\ p \in Plays /\ q \in Plays /\ p.by = q.by /\ p \in Made /\ q \in Made
        /\ p.uid \in Nat /\ q.uid \in Nat
    BY <1>0, <1>m DEF Plays
  <2>2. /\ Reflects(RowOf(p, b.name), p) /\ Reflects(RowOf(q, b.name), q)
    BY <1>2
  <2>3. IF p.uid > 0 \/ q.uid > 0 THEN p.uid = q.uid
        ELSE p.track = q.track /\ Stamped(p) = Stamped(q)
    BY <1>5, <2>2 DEF Same, Reflects
  <2>4. CASE p.uid > 0 \/ q.uid > 0
    BY <2>1, <2>3, <2>4 DEF PlaysDiffer
  <2>5. CASE ~(p.uid > 0 \/ q.uid > 0)
    <3>1. p.uid = 0 /\ q.uid = 0
      BY <2>1, <2>5
    <3>2. p.at = q.at /\ p.zone = q.zone /\ p.track = q.track
      BY <2>1, <2>3, <3>1, SamePlay
    <3> QED BY <2>1, <3>1, <3>2 DEF Plays
  <2> QED BY <2>4, <2>5
<1>6. \A r, s \in scrobbles' : Same(r, s) => r = s
  BY <1>1, <1>4, <1>5 DEF Reported
<1>7. \A r \in scrobbles' : \E p \in landed' : Reflects(r, p)
  BY <1>1, <1>2 DEF Reported
<1>8. ASSUME NEW p \in landed' PROVE \E r \in scrobbles' : Reflects(r, p)
  <2>1. CASE p \in landed
    BY <1>1, <2>1 DEF Reported
  <2>2. CASE p \in b.entries
    <3> DEFINE x == RowOf(p, b.name)
    <3>1. CASE ~\E s \in scrobbles : Same(s, x)
      BY <1>1, <1>2, <2>2, <3>1
    <3>2. CASE \E s \in scrobbles : Same(s, x)
      <4>1. PICK s \in scrobbles : Same(s, x)
        BY <3>2
      <4>2. PICK q \in landed : Reflects(s, q)
        BY DEF Reported
      <4>3. Reflects(x, p)
        BY <1>2, <2>2
      <4>4. p \in Made /\ q \in Made /\ p.uid \in Nat /\ q.uid \in Nat
        BY <1>m, <2>2 DEF Plays
      <4>5. /\ s.user = x.user
            /\ IF s.uid > 0 \/ x.uid > 0 THEN s.uid = x.uid
               ELSE s.track = x.track /\ s.stamp = x.stamp
        BY <4>1 DEF Same
      <4>6. CASE s.uid > 0 \/ x.uid > 0
        <5>1. q.uid = p.uid /\ q.uid > 0
          BY <4>2, <4>3, <4>5, <4>6 DEF Reflects
        <5>2. p = q
          BY <4>4, <5>1 DEF PlaysDiffer
        <5> QED BY <1>1, <4>2, <5>2
      <4>7. CASE ~(s.uid > 0 \/ x.uid > 0)
        <5>1. s.uid = 0 /\ x.uid = 0
          BY <4>2, <4>3, <4>4, <4>7 DEF Reflects
        <5>2. Reflects(s, p)
          BY <4>3, <4>5, <4>7, <5>1 DEF Reflects
        <5> QED BY <1>1, <5>2
      <4> QED BY <4>6, <4>7
    <3> QED BY <3>1, <3>2
  <2> QED BY <2>1, <2>2
<1> QED BY <1>3, <1>6, <1>7, <1>8 DEF Reported, Reflects, Same

LEMMA PurgingReports ==
  ASSUME Reported, NEW a, NEW doomed,
         scrobbles' = {r \in scrobbles : ~(r.user = a /\ r.stamp \in doomed)},
         landed' = {p \in landed : ~(OwnerOf[p.by] = a /\ Stamped(p) \in doomed)}
  PROVE  Reported'
<1>1. \A r, p : Reflects(r, p) =>
        ((r.user = a /\ r.stamp \in doomed) <=> (OwnerOf[p.by] = a /\ Stamped(p) \in doomed))
  BY DEF Reflects
<1>2. scrobbles' \subseteq StoredRows /\ \A r, s \in scrobbles' : Same(r, s) => r = s
  BY DEF Reported
<1>3. \A r \in scrobbles' : \E p \in landed' : Reflects(r, p)
  BY <1>1 DEF Reported
<1>4. \A p \in landed' : \E r \in scrobbles' : Reflects(r, p)
  BY <1>1 DEF Reported
<1> QED BY <1>2, <1>3, <1>4 DEF Reported, Reflects, Same

(***************************************************************************)
(* What is read of a play: with one name to a device, a row is read once,  *)
(* and the rows read match the keys of the plays they are of.              *)
(***************************************************************************)
ReadOf(x, p) ==
  /\ x.track = p.track /\ x.stamp = Stamped(p) /\ x.uid = p.uid
NodesOf(r) == IF Joined(r) = {} THEN {Unnamed} ELSE Joined(r)
ReadingOf(r, m) ==
  [user |-> r.user, track |-> r.track, stamp |-> r.stamp, uid |-> r.uid, node |-> m]
KeyOf(p) == <<p.at, p.zone, p.uid>>
KeysOf(P) == {KeyOf(p) : p \in P}

LEMMA JoinedOnce ==
  ASSUME NEW a, OneName(a), Named, NEW r \in StoredRows, r.user = a,
         NEW m \in Joined(r), NEW n \in Joined(r)
  PROVE  m = n
<1>1. /\ m \in Machines /\ OwnerOf[m] = a /\ r.device \in {m, nodes[m]}
      /\ n \in Machines /\ OwnerOf[n] = a /\ r.device \in {n, nodes[n]}
  BY DEF Joined
<1>2. /\ r.device \in Machines \cup Petnames /\ Unnamed \notin Petnames \cup Machines
      /\ Petnames \cap Machines = {}
      /\ nodes[m] \in Petnames \cup {Unnamed} /\ nodes[n] \in Petnames \cup {Unnamed}
  BY <1>1, ListeningAssumption DEF StoredRows, Named
<1>3. nodes[m] = nodes[n] => m = n \/ nodes[m] = Unnamed
  BY <1>1 DEF OneName
<1> QED BY <1>1, <1>2, <1>3

LEMMA RowsReadIs ==
  ASSUME NEW a, NEW x
  PROVE  x \in ScrobbleRows(a) <=>
           \E r \in scrobbles : /\ r.user = a
             /\ \E m \in NodesOf(r) : x = ReadingOf(r, m)
BY DEF ScrobbleRows, NodesOf, ReadingOf

LEMMA RowIsReadOnce ==
  ASSUME NEW a, OneName(a), Named, Reported, PlaysDiffer,
         NEW x \in ScrobbleRows(a), NEW y \in ScrobbleRows(a),
         x.uid = y.uid, x.track = y.track, x.stamp = y.stamp
  PROVE  x = y
<1>1. PICK r \in scrobbles : \E m \in NodesOf(r) : r.user = a /\ x = ReadingOf(r, m)
  BY RowsReadIs
<1>2. PICK s \in scrobbles : \E n \in NodesOf(s) : s.user = a /\ y = ReadingOf(s, n)
  BY RowsReadIs
<1>m. PICK m \in NodesOf(r) : r.user = a /\ x = ReadingOf(r, m)
  BY <1>1
<1>n. PICK n \in NodesOf(s) : s.user = a /\ y = ReadingOf(s, n)
  BY <1>2
<1>3. x.uid = r.uid /\ x.track = r.track /\ x.stamp = r.stamp
  BY <1>m DEF ReadingOf
<1>4. y.uid = s.uid /\ y.track = s.track /\ y.stamp = s.stamp
  BY <1>n DEF ReadingOf
<1>5. r = s
  BY <1>m, <1>n, <1>3, <1>4 DEF Same, Reported
<1>6. m = n
  <2>1. r \in StoredRows
    BY DEF Reported
  <2>2. CASE Joined(r) = {}
    BY <1>5, <2>2 DEF NodesOf
  <2>3. CASE Joined(r) # {}
    <3>1. m \in Joined(r) /\ n \in Joined(r)
      BY <1>5, <2>3 DEF NodesOf
    <3> QED BY <1>m, <2>1, <3>1, JoinedOnce
  <2> QED BY <2>2, <2>3
<1> QED BY <1>m, <1>n, <1>5, <1>6

LEMMA RowsAreOfPlays ==
  ASSUME NEW a, Reported
  PROVE  /\ \A x \in ScrobbleRows(a) : \E p \in LandedOf(a) : ReadOf(x, p)
         /\ \A p \in LandedOf(a) : \E x \in ScrobbleRows(a) : ReadOf(x, p)
<1>1. ASSUME NEW x \in ScrobbleRows(a) PROVE \E p \in LandedOf(a) : ReadOf(x, p)
  <2>1. PICK r \in scrobbles : \E m \in NodesOf(r) : r.user = a /\ x = ReadingOf(r, m)
    BY RowsReadIs
  <2>2. PICK p \in landed : Reflects(r, p)
    BY DEF Reported
  <2>3. x.uid = r.uid /\ x.track = r.track /\ x.stamp = r.stamp
    BY <2>1 DEF ReadingOf
  <2> QED BY <2>1, <2>2, <2>3 DEF Reflects, ReadOf, LandedOf
<1>2. ASSUME NEW p \in LandedOf(a) PROVE \E x \in ScrobbleRows(a) : ReadOf(x, p)
  <2>1. p \in landed /\ OwnerOf[p.by] = a
    BY DEF LandedOf
  <2>2. PICK r \in scrobbles : Reflects(r, p)
    BY <2>1 DEF Reported
  <2>3. PICK m : m \in NodesOf(r)
    BY DEF NodesOf
  <2> DEFINE x == ReadingOf(r, m)
  <2>4. x \in ScrobbleRows(a)
    BY <2>1, <2>2, <2>3, RowsReadIs DEF Reflects
  <2>5. x.uid = r.uid /\ x.track = r.track /\ x.stamp = r.stamp
    BY DEF ReadingOf
  <2> HIDE DEF x
  <2> QED BY <2>2, <2>4, <2>5 DEF Reflects, ReadOf
<1> QED BY <1>1, <1>2

LEMMA KeysAreFinite ==
  ASSUME NEW P, IsFiniteSet(P)
  PROVE  IsFiniteSet(KeysOf(P))
<1> DEFINE f == [p \in P |-> KeyOf(p)]
<1>1. f \in [P -> KeysOf(P)]
  BY DEF KeysOf
<1>2. \A k \in KeysOf(P) : \E p \in P : f[p] = k
  BY DEF KeysOf
<1>3. f \in Surjection(P, KeysOf(P))
  BY <1>1, <1>2 DEF Surjection
<1> HIDE DEF f
<1>4. PICK h : h \in Surjection(P, KeysOf(P))
  BY <1>3
<1> QED BY <1>4, FS_Surjection

(* Two plays of an account are read as one row just when they have a key.  *)
LEMMA KeysTellApart ==
  ASSUME NEW a, PlaysDiffer, NEW p \in LandedOf(a), NEW q \in LandedOf(a),
         p.track = q.track
  PROVE  /\ KeyOf(p) = KeyOf(q) <=> p.at = q.at /\ p.zone = q.zone /\ p.uid = q.uid
         /\ KeyOf(p) = KeyOf(q) => Stamped(p) = Stamped(q) /\ p.uid = q.uid
         /\ Stamped(p) = Stamped(q) /\ p.uid = q.uid => KeyOf(p) = KeyOf(q)
<1>1. p \in Made /\ q \in Made /\ p \in Plays /\ q \in Plays /\ p.uid \in Nat /\ q.uid \in Nat
  BY DEF LandedOf, Made, PlaysDiffer, Plays
<1>2. KeyOf(p) = KeyOf(q) <=> p.at = q.at /\ p.zone = q.zone /\ p.uid = q.uid
  BY DEF KeyOf
<1>3. KeyOf(p) = KeyOf(q) => Stamped(p) = Stamped(q)
  BY <1>2 DEF Stamped
<1>4. ASSUME Stamped(p) = Stamped(q), p.uid = q.uid PROVE KeyOf(p) = KeyOf(q)
  <2>1. CASE p.uid > 0
    BY <1>1, <1>4, <2>1 DEF PlaysDiffer
  <2>2. CASE p.uid = 0
    BY <1>1, <1>2, <1>4, <2>2, SamePlay
  <2> QED BY <1>1, <2>1, <2>2
<1> QED BY <1>2, <1>3, <1>4

(* Every play has a row among R: then there are as many rows as keys.      *)
LEMMA KeysHaveRows ==
  ASSUME NEW a, PlaysDiffer, NEW t, NEW P \in SUBSET LandedOf(a), NEW R, IsFiniteSet(R),
         \A p \in P : p.track = t /\ \E x \in R : ReadOf(x, p)
  PROVE  IsFiniteSet(KeysOf(P)) /\ Cardinality(KeysOf(P)) <= Cardinality(R)
<1> DEFINE f == [k \in KeysOf(P) |->
                   CHOOSE x \in R : \E p \in P : k = KeyOf(p) /\ ReadOf(x, p)]
<1>1. ASSUME NEW k \in KeysOf(P)
      PROVE  f[k] \in R /\ \E p \in P : k = KeyOf(p) /\ ReadOf(f[k], p)
  <2>1. \E x \in R : \E p \in P : k = KeyOf(p) /\ ReadOf(x, p)
    BY DEF KeysOf
  <2> QED BY <2>1
<1>2. f \in [KeysOf(P) -> R]
  BY <1>1
<1> HIDE DEF f
<1>3. ASSUME NEW k \in KeysOf(P), NEW l \in KeysOf(P), f[k] = f[l] PROVE k = l
  <2>1. PICK p \in P : k = KeyOf(p) /\ ReadOf(f[k], p)
    BY <1>1
  <2>2. PICK q \in P : l = KeyOf(q) /\ ReadOf(f[l], q)
    BY <1>1
  <2>3. Stamped(p) = Stamped(q) /\ p.uid = q.uid /\ p.track = q.track
    BY <1>3, <2>1, <2>2 DEF ReadOf
  <2>4. p \in LandedOf(a) /\ q \in LandedOf(a)
    OBVIOUS
  <2> QED BY <2>1, <2>2, <2>3, <2>4, KeysTellApart
<1>4. f \in Injection(KeysOf(P), R)
  BY <1>2, <1>3 DEF Injection, IsInjective
<1>5. PICK h : h \in Injection(KeysOf(P), R)
  BY <1>4
<1> QED BY <1>5, FS_Injection

(* Every row is of a play among P: then there are as many keys as rows.    *)
LEMMA RowsHaveKeys ==
  ASSUME NEW a, OneName(a), Named, Reported, PlaysDiffer, NEW t,
         NEW P \in SUBSET LandedOf(a), IsFiniteSet(P), NEW R \in SUBSET ScrobbleRows(a),
         \A x \in R : x.track = t /\ \E p \in P : ReadOf(x, p)
  PROVE  IsFiniteSet(R) /\ Cardinality(R) <= Cardinality(KeysOf(P))
<1> DEFINE g == [x \in R |-> CHOOSE k \in KeysOf(P) : \E p \in P : k = KeyOf(p) /\ ReadOf(x, p)]
<1>1. ASSUME NEW x \in R
      PROVE  g[x] \in KeysOf(P) /\ \E p \in P : g[x] = KeyOf(p) /\ ReadOf(x, p)
  <2>1. \E k \in KeysOf(P) : \E p \in P : k = KeyOf(p) /\ ReadOf(x, p)
    BY DEF KeysOf
  <2> QED BY <2>1
<1>2. g \in [R -> KeysOf(P)]
  BY <1>1
<1> HIDE DEF g
<1>3. ASSUME NEW x \in R, NEW y \in R, g[x] = g[y] PROVE x = y
  <2>1. PICK p \in P : g[x] = KeyOf(p) /\ ReadOf(x, p)
    BY <1>1
  <2>2. PICK q \in P : g[y] = KeyOf(q) /\ ReadOf(y, q)
    BY <1>1
  <2>3. x.track = t /\ y.track = t /\ p.track = q.track
    BY <2>1, <2>2 DEF ReadOf
  <2>4. p \in LandedOf(a) /\ q \in LandedOf(a) /\ KeyOf(p) = KeyOf(q)
    BY <1>3, <2>1, <2>2
  <2>5. Stamped(p) = Stamped(q) /\ p.uid = q.uid
    BY <2>3, <2>4, KeysTellApart
  <2>6. x.uid = y.uid /\ x.stamp = y.stamp
    BY <2>1, <2>2, <2>5 DEF ReadOf
  <2>7. x \in ScrobbleRows(a) /\ y \in ScrobbleRows(a)
    OBVIOUS
  <2> QED BY <2>3, <2>6, <2>7, RowIsReadOnce
<1>4. g \in Injection(R, KeysOf(P))
  BY <1>2, <1>3 DEF Injection, IsInjective
<1>5. IsFiniteSet(KeysOf(P))
  BY KeysAreFinite
<1>6. PICK h : h \in Injection(R, KeysOf(P))
  BY <1>4
<1> QED BY <1>5, <1>6, FS_Injection

LEMMA CountingIsRight ==
  ASSUME LsInv
  PROVE  CountedOnce
<1> SUFFICES ASSUME NEW a \in Listeners, OneName(a), NEW t \in Tracks
             PROVE  Cardinality({r \in ScrobbleRows(a) : r.track = t})
                      = Cardinality({<<p.at, p.zone, p.uid>> :
                                       p \in {q \in LandedOf(a) : q.track = t}})
  BY DEF CountedOnce
<1> DEFINE P == {q \in LandedOf(a) : q.track = t}
           R == {r \in ScrobbleRows(a) : r.track = t}
<1>1. PlaysDiffer /\ Named /\ Reported /\ IsFiniteSet(landed)
  BY DEF LsInv, Sending
<1>2. P \in SUBSET LandedOf(a) /\ IsFiniteSet(P) /\ R \in SUBSET ScrobbleRows(a)
  <2>1. P \in SUBSET landed
    BY DEF LandedOf
  <2> QED BY <1>1, <2>1, FS_Subset
<1>3. \A x \in R : x.track = t /\ \E p \in P : ReadOf(x, p)
  BY <1>1, RowsAreOfPlays DEF ReadOf
<1>4. \A p \in P : p.track = t /\ \E x \in R : ReadOf(x, p)
  BY <1>1, RowsAreOfPlays DEF ReadOf
<1>5. {<<p.at, p.zone, p.uid>> : p \in P} = KeysOf(P)
  BY DEF KeysOf, KeyOf
<1> HIDE DEF P, R
<1>6. IsFiniteSet(R) /\ Cardinality(R) <= Cardinality(KeysOf(P))
  BY <1>1, <1>2, <1>3, RowsHaveKeys
<1>7. IsFiniteSet(KeysOf(P)) /\ Cardinality(KeysOf(P)) <= Cardinality(R)
  BY <1>1, <1>2, <1>4, <1>6, KeysHaveRows
<1>8. Cardinality(R) \in Nat /\ Cardinality(KeysOf(P)) \in Nat
  BY <1>6, <1>7, FS_CardinalityType
<1>9. Cardinality(R) = Cardinality({<<p.at, p.zone, p.uid>> : p \in P})
  BY <1>5, <1>6, <1>7, <1>8
<1> QED BY <1>9 DEF P, R

LEMMA BlurringIsSmall ==
  ASSUME LsInv
  PROVE  RepeatIsTrue
<1> SUFFICES ASSUME NEW a \in Listeners, OneName(a), NEW t \in Tracks
    PROVE /\ Cardinality({<<p.at, p.zone, p.uid>> :
               p \in {q \in LandedOf(a) : q.track = t /\ q.at >= time - Day + Hour}})
                 >= OnRepeatPlays
             => Cardinality({r \in Today(ScrobbleRows(a)) : r.track = t}) >= OnRepeatPlays
          /\ Cardinality({r \in Today(ScrobbleRows(a)) : r.track = t}) >= OnRepeatPlays
             => Cardinality({<<p.at, p.zone, p.uid>> :
               p \in {q \in LandedOf(a) : q.track = t /\ q.at >= time - Day}})
                 >= OnRepeatPlays
  BY DEF RepeatIsTrue, OnRepeat
<1> DEFINE P(when) == {q \in LandedOf(a) : q.track = t /\ q.at >= when}
           early == time - Day
           late == time - Day + Hour
           R == {r \in Today(ScrobbleRows(a)) : r.track = t}
<1>1. PlaysDiffer /\ Named /\ Reported /\ IsFiniteSet(landed)
  BY DEF LsInv, Sending
<1>2. \A when : P(when) \in SUBSET LandedOf(a) /\ IsFiniteSet(P(when))
  <2>1. \A when : P(when) \in SUBSET landed /\ P(when) \in SUBSET LandedOf(a)
    BY DEF LandedOf
  <2> QED BY <1>1, <2>1, FS_Subset
<1>3. time \in Int /\ Day \in Int /\ Hour \in Int /\ OnRepeatPlays \in Int
  BY <1>1, ListeningAssumption DEF Named
<1>4. ASSUME NEW p \in LandedOf(a)
      PROVE  /\ p.at \in Int /\ Moment(Stamped(p)) \in Int
             /\ Moment(Stamped(p)) <= p.at /\ p.at < Moment(Stamped(p)) + Hour
  <2>1. p \in Plays
    BY <1>1 DEF LandedOf, Made, PlaysDiffer
  <2> QED BY <2>1, StampedIs DEF Plays
<1>r. R \in SUBSET ScrobbleRows(a)
  BY DEF Today
<1>5. \A x \in R : x.track = t /\ \E p \in P(early) : ReadOf(x, p)
  <2> SUFFICES ASSUME NEW x \in R PROVE x.track = t /\ \E p \in P(early) : ReadOf(x, p)
    OBVIOUS
  <2>1. x.track = t /\ x \in ScrobbleRows(a) /\ Moment(x.stamp) >= early
    BY DEF Today, PlayedAt
  <2>2. PICK p \in LandedOf(a) : ReadOf(x, p)
    BY <1>1, <2>1, RowsAreOfPlays
  <2>3. p.track = t /\ Moment(Stamped(p)) >= early
    BY <2>1, <2>2 DEF ReadOf
  <2>4. p.at >= early
    BY <1>3, <1>4, <2>3
  <2> QED BY <2>1, <2>2, <2>3, <2>4
<1>6. \A p \in P(late) : p.track = t /\ \E x \in R : ReadOf(x, p)
  <2> SUFFICES ASSUME NEW p \in P(late) PROVE p.track = t /\ \E x \in R : ReadOf(x, p)
    OBVIOUS
  <2>1. p \in LandedOf(a) /\ p.track = t /\ p.at >= late
    OBVIOUS
  <2>2. PICK x \in ScrobbleRows(a) : ReadOf(x, p)
    BY <1>1, <2>1, RowsAreOfPlays
  <2>3. Moment(Stamped(p)) >= early
    BY <1>3, <1>4, <2>1
  <2>4. x.track = t /\ PlayedAt(x) >= early
    BY <2>1, <2>2, <2>3 DEF ReadOf, PlayedAt
  <2>5. x \in R
    BY <2>2, <2>4 DEF Today
  <2> QED BY <2>1, <2>2, <2>5
<1>7. \A when : {<<p.at, p.zone, p.uid>> : p \in P(when)} = KeysOf(P(when))
  BY DEF KeysOf, KeyOf
<1>p. P(early) \in SUBSET LandedOf(a) /\ IsFiniteSet(P(early)) /\ P(late) \in SUBSET LandedOf(a)
      /\ IsFiniteSet(P(late))
  BY <1>2
<1>k. /\ {<<p.at, p.zone, p.uid>> : p \in P(early)} = KeysOf(P(early))
      /\ {<<p.at, p.zone, p.uid>> : p \in P(late)} = KeysOf(P(late))
  BY <1>7
<1> DEFINE E == P(early)
           L == P(late)
<1>e. /\ E \in SUBSET LandedOf(a) /\ IsFiniteSet(E) /\ L \in SUBSET LandedOf(a)
      /\ \A x \in R : x.track = t /\ \E p \in E : ReadOf(x, p)
      /\ \A p \in L : p.track = t /\ \E x \in R : ReadOf(x, p)
  BY <1>5, <1>6, <1>p
<1>f. /\ {<<p.at, p.zone, p.uid>> : p \in E} = KeysOf(E)
      /\ {<<p.at, p.zone, p.uid>> : p \in L} = KeysOf(L)
  BY <1>k
<1> HIDE DEF P, E, L, R
<1>8. IsFiniteSet(R) /\ Cardinality(R) <= Cardinality(KeysOf(E))
  BY <1>1, <1>r, <1>e, RowsHaveKeys
<1>9. IsFiniteSet(KeysOf(L)) /\ Cardinality(KeysOf(L)) <= Cardinality(R)
  BY <1>1, <1>e, <1>8, KeysHaveRows
<1>10. /\ Cardinality(R) \in Nat /\ Cardinality(KeysOf(E)) \in Nat
       /\ Cardinality(KeysOf(L)) \in Nat
  BY <1>8, <1>9, <1>e, FS_CardinalityType, KeysAreFinite
<1>11. /\ Cardinality(KeysOf(L)) >= OnRepeatPlays => Cardinality(R) >= OnRepeatPlays
       /\ Cardinality(R) >= OnRepeatPlays => Cardinality(KeysOf(E)) >= OnRepeatPlays
  BY <1>3, <1>8, <1>9, <1>10
<1>12. /\ Cardinality({<<p.at, p.zone, p.uid>> : p \in L}) >= OnRepeatPlays
            => Cardinality(R) >= OnRepeatPlays
       /\ Cardinality(R) >= OnRepeatPlays
            => Cardinality({<<p.at, p.zone, p.uid>> : p \in E}) >= OnRepeatPlays
  BY <1>f, <1>11
<1> QED BY <1>12 DEF E, L, P, R

LEMMA ListeningIsTyped ==
  ASSUME LsInv
  PROVE  ListeningTypeOK
<1>1. \A r \in scrobbles : r.user \in Listeners /\ r.track \in Tracks
  BY DEF LsInv, Reported, StoredRows
<1>2. ask.op = "circle" => Cardinality(ask.members) < MaxCircle
  BY DEF LsInv, RoomIn
<1> QED BY <1>1, <1>2 DEF LsInv, Named, ListeningTypeOK

LEMMA PlaysStayDifferent ==
  ASSUME PlaysDiffer, Made' \subseteq Made, numbered' = numbered
  PROVE  PlaysDiffer'
BY DEF PlaysDiffer, Plays

LEMMA SilentHasRoom == RoomIn(Silent)
<1>1. Silent.members = {} /\ Silent.of = {} /\ Silent.op = "none"
  BY DEF Silent
<1>2. IsFiniteSet({}) /\ Cardinality({}) = 0
  BY FS_EmptySet
<1> QED BY <1>1, <1>2 DEF RoomIn

(* What is stored first is a row of every play, and none of two.           *)
LEMMA InitLs == ListeningInit => LsInv
<1> SUFFICES ASSUME ListeningInit PROVE LsInv
  OBVIOUS
<1>1. PICK s \in Starts :
        /\ landed = s.past /\ time = s.time /\ share = s.share
        /\ scrobbles = {RowOf(p, p.by) : p \in landed}
        /\ numbered = Cardinality(landed)
        /\ nodes = [m \in Machines |-> Unnamed] /\ wire = {}
        /\ shows = [a \in Listeners |-> Surfaces]
        /\ outbox = [m \in Machines |-> {}]
        /\ ask = Silent
  BY DEF ListeningInit
<1>2. /\ s.time \in 0..MaxTime /\ IsFiniteSet(s.past)
      /\ s.past \subseteq [by : Machines, track : Tracks, at : 0..MaxTime, zone : Zones,
                            uid : {0}]
      /\ \A p, q \in s.past :
           p.at = q.at /\ p.zone = q.zone /\ p.track = q.track
             /\ OwnerOf[p.by] = OwnerOf[q.by] => p = q
  BY ListeningAssumption
<1>3. \A p \in landed : /\ p \in Plays /\ p.uid = 0 /\ p.by \in Machines
                        /\ p.at <= MaxTime
  <2> DEFINE Old == [by : Machines, track : Tracks, at : 0..MaxTime, zone : Zones,
                     uid : {0}]
  <2>1. \A p \in Old : /\ p \in Plays /\ p.uid = 0 /\ p.by \in Machines
                       /\ p.at <= MaxTime
    BY ListeningAssumption DEF Plays
  <2>2. landed \subseteq Old
    BY <1>1, <1>2
  <2> QED BY <2>1, <2>2
<1>4. Unsent = {} /\ UnderWay = {}
  BY <1>1 DEF Unsent, UnderWay
<1>5. PlaysDiffer
  <2>1. numbered \in Nat
    BY <1>1, <1>2, FS_CardinalityType
  <2> QED BY <1>3, <1>4, <2>1 DEF PlaysDiffer, Made
<1>6. Sending
  <2>1. \A m \in Machines : outbox[m] = {}
    BY <1>1
  <2>2. IsFiniteSet({})
    BY FS_EmptySet
  <2> QED BY <1>1, <1>2, <2>1, <2>2 DEF Sending
<1>7. \A p \in landed : RowOf(p, p.by) \in StoredRows /\ Reflects(RowOf(p, p.by), p)
  BY <1>3, RowOfIs
<1>8. ASSUME NEW p \in landed, NEW q \in landed, Same(RowOf(p, p.by), RowOf(q, q.by))
      PROVE  RowOf(p, p.by) = RowOf(q, q.by)
  <2>1. Reflects(RowOf(p, p.by), p) /\ Reflects(RowOf(q, q.by), q)
    BY <1>7
  <2> DEFINE r == RowOf(p, p.by)
             y == RowOf(q, q.by)
  <2>a. Same(r, y) /\ Reflects(r, p) /\ Reflects(y, q) /\ p.uid = 0 /\ q.uid = 0
    BY <1>3, <1>8, <2>1
  <2> HIDE DEF r, y
  <2>b. r.uid = 0 /\ y.uid = 0
    BY <2>a DEF Reflects
  <2>c. r.user = y.user /\ r.track = y.track /\ r.stamp = y.stamp
    BY <2>a, <2>b DEF Same
  <2>2. OwnerOf[p.by] = OwnerOf[q.by] /\ p.track = q.track /\ Stamped(p) = Stamped(q)
    BY <2>a, <2>c DEF Reflects
  <2>3. p.at = q.at /\ p.zone = q.zone
    BY <1>3, <2>2, SamePlay
  <2> QED BY <1>1, <1>2, <2>2, <2>3
<1>9. Reported
  BY <1>1, <1>7, <1>8 DEF Reported
<1>10. Named
  BY <1>1, <1>2 DEF Named
<1>11. RoomIn(ask)
  BY <1>1, SilentHasRoom
<1> QED BY <1>5, <1>6, <1>9, <1>10, <1>11 DEF LsInv

LEMMA PlayingKeeps ==
  ASSUME LsInv, NEW m \in Machines, Play(m)
  PROVE  LsInv'
<1>1. PICK t \in Tracks, z \in Zones, named \in BOOLEAN :
        /\ named => z = 0
        /\ outbox' = [outbox EXCEPT ![m] = @ \cup
             {[by |-> m, track |-> t, at |-> time, zone |-> z,
               uid |-> IF named THEN numbered + 1 ELSE 0]}]
  BY DEF Play
<1> DEFINE u == IF named THEN numbered + 1 ELSE 0
           p == [by |-> m, track |-> t, at |-> time, zone |-> z, uid |-> u]
<1>2. /\ numbered' = numbered + 1
      /\ UNCHANGED <<scrobbles, nodes, circles, shows, wire, ask, time, landed>>
  BY DEF Play
<1>3. PlaysDiffer /\ Sending /\ Reported /\ RoomIn(ask) /\ Named
  BY DEF LsInv
<1>4. numbered \in Nat /\ time \in Nat /\ time <= MaxTime
  BY <1>3, ListeningAssumption DEF PlaysDiffer, Named
<1>5. u \in Nat /\ u <= numbered + 1 /\ (u > 0 => u > numbered /\ z = 0)
  BY <1>1, <1>4
<1> HIDE DEF u
<1>6. p \in Plays /\ p.uid = u /\ p.zone = z /\ p.by = m /\ p.at <= MaxTime
  BY <1>4, <1>5 DEF Plays
<1>7. outbox' = [outbox EXCEPT ![m] = @ \cup {p}]
  BY <1>1 DEF u
<1> HIDE DEF p
<1>8. \A n \in Machines : outbox'[n] = IF n = m THEN outbox[n] \cup {p} ELSE outbox[n]
  BY <1>3, <1>7 DEF Sending
<1>9. Made' \subseteq Made \cup {p}
  <2>1. Unsent' \subseteq Unsent \cup {p}
    BY <1>8 DEF Unsent
  <2>2. UnderWay' = UnderWay
    BY <1>2 DEF UnderWay
  <2> QED BY <1>2, <2>1, <2>2 DEF Made
<1>10. PlaysDiffer'
  <2>1. \A q \in Made : /\ q \in Plays /\ q.uid \in Nat /\ q.uid <= numbered
                        /\ q.at <= MaxTime /\ (q.uid > 0 => q.zone = 0)
    BY <1>3 DEF PlaysDiffer, Plays
  <2>2. \A q \in Made' : /\ q \in Plays /\ q.at <= MaxTime /\ q.uid <= numbered'
                         /\ (q.uid > 0 => q.zone = 0)
    <3> SUFFICES ASSUME NEW q \in Made'
                 PROVE  /\ q \in Plays /\ q.at <= MaxTime /\ q.uid <= numbered'
                        /\ (q.uid > 0 => q.zone = 0)
      OBVIOUS
    <3>1. CASE q \in Made
      BY <1>2, <1>4, <2>1, <3>1
    <3>2. CASE q = p
      BY <1>2, <1>5, <1>6, <3>2
    <3> QED BY <1>9, <3>1, <3>2
  <2>3. \A q, r \in Made' : q.uid = r.uid /\ q.uid > 0 => q = r
    <3> SUFFICES ASSUME NEW q \in Made', NEW r \in Made', q.uid = r.uid, q.uid > 0
                 PROVE  q = r
      OBVIOUS
    <3>1. \A x \in Made : x.uid > 0 => x.uid # u
      BY <1>4, <1>5, <2>1
    <3> QED BY <1>3, <1>6, <1>9, <3>1 DEF PlaysDiffer
  <2>4. numbered' \in Nat
    BY <1>2, <1>4
  <2> QED BY <2>2, <2>3, <2>4 DEF PlaysDiffer, Plays
<1>11. Sending'
  <2>1. outbox' \in [Machines -> SUBSET Plays]
    BY <1>3, <1>6, <1>7 DEF Sending
  <2>2. \A n \in Machines : IsFiniteSet(outbox'[n]) /\ \A q \in outbox'[n] : q.by = n
    <3> SUFFICES ASSUME NEW n \in Machines
                 PROVE  IsFiniteSet(outbox'[n]) /\ \A q \in outbox'[n] : q.by = n
      OBVIOUS
    <3>1. IsFiniteSet(outbox[n]) /\ \A q \in outbox[n] : q.by = n
      BY <1>3 DEF Sending
    <3>2. IsFiniteSet(outbox[n] \cup {p})
      BY <3>1, FS_AddElement
    <3> QED BY <1>6, <1>8, <3>1, <3>2
  <2> QED BY <1>2, <1>3, <2>1, <2>2 DEF Sending, Plays
<1>12. Reported'
  BY <1>2, <1>3 DEF Reported, Reflects, Same
<1> QED BY <1>2, <1>3, <1>10, <1>11, <1>12 DEF LsInv, RoomIn, Named

LEMMA DrainingKeeps ==
  ASSUME LsInv, NEW m \in Machines, Drain(m)
  PROVE  LsInv'
<1>1. PICK entries \in SUBSET outbox[m] :
        /\ \E name \in {m, nodes[m]} \ {Unnamed} :
             wire' = wire \cup {[by |-> m, name |-> name, entries |-> entries]}
        /\ UNCHANGED <<scrobbles, nodes, circles, shows, outbox, ask, time,
                       numbered, landed>>
  BY DEF Drain
<1>2. PICK name \in {m, nodes[m]} \ {Unnamed} :
        wire' = wire \cup {[by |-> m, name |-> name, entries |-> entries]}
  BY <1>1
<1>3. PlaysDiffer /\ Sending /\ Reported /\ RoomIn(ask) /\ Named
  BY DEF LsInv
<1> DEFINE b == [by |-> m, name |-> name, entries |-> entries]
<1>4. b.by = m /\ b.name = name /\ b.entries = entries /\ wire' = wire \cup {b}
  BY <1>2
<1> HIDE DEF b
<1>5. name \in Machines \cup Petnames
  BY <1>2, <1>3 DEF Named
<1>6. /\ IsFiniteSet(outbox[m]) /\ outbox[m] \subseteq Plays
      /\ \A p \in outbox[m] : p.by = m
  BY <1>3 DEF Sending
<1>7. Sending'
  <2>1. IsFiniteSet(entries)
    BY <1>6, FS_Subset
  <2> QED BY <1>1, <1>3, <1>4, <1>5, <1>6, <2>1 DEF Sending, Plays
<1>8. Made' \subseteq Made
  <2>1. UnderWay' \subseteq UnderWay \cup Unsent
    BY <1>4 DEF UnderWay, Unsent
  <2>2. Unsent' = Unsent
    BY <1>1 DEF Unsent
  <2> QED BY <1>1, <2>1, <2>2 DEF Made
<1>9. PlaysDiffer'
  BY <1>1, <1>3, <1>8, PlaysStayDifferent
<1>10. Reported'
  BY <1>1, <1>3 DEF Reported, Reflects, Same
<1> QED BY <1>1, <1>3, <1>7, <1>9, <1>10 DEF LsInv, RoomIn, Named

LEMMA RecordingKeeps ==
  ASSUME LsInv, RecordScrobbles
  PROVE  LsInv'
<1>1. PICK b \in wire :
        /\ wire' = wire \ {b}
        /\ \/ /\ scrobbles' = Stored(scrobbles, b)
              /\ landed' = landed \cup b.entries
              /\ outbox' \in {outbox, [outbox EXCEPT ![b.by] = @ \ b.entries]}
           \/ UNCHANGED <<scrobbles, landed, outbox>>
        /\ UNCHANGED <<nodes, circles, shows, ask, time, share, numbered>>
  BY DEF RecordScrobbles
<1>2. PlaysDiffer /\ Sending /\ Reported /\ RoomIn(ask) /\ Named
  BY DEF LsInv
<1>3. /\ b.by \in Machines /\ IsFiniteSet(b.entries) /\ IsFiniteSet(landed)
      /\ outbox \in [Machines -> SUBSET Plays]
  BY <1>2 DEF Sending
<1>4. /\ outbox' \in [Machines -> SUBSET Plays]
      /\ \A m \in Machines : outbox'[m] \subseteq outbox[m]
  <2>1. CASE outbox' = outbox
    BY <1>3, <2>1
  <2>2. CASE outbox' = [outbox EXCEPT ![b.by] = @ \ b.entries]
    BY <1>3, <2>2
  <2> QED BY <1>1, <2>1, <2>2
<1>5. landed' \in {landed, landed \cup b.entries}
  BY <1>1
<1>6. Made' \subseteq Made
  <2>1. Unsent' \subseteq Unsent
    BY <1>4 DEF Unsent
  <2>2. UnderWay' \subseteq UnderWay /\ b.entries \subseteq UnderWay
    BY <1>1 DEF UnderWay
  <2> QED BY <1>5, <2>1, <2>2 DEF Made
<1>7. PlaysDiffer'
  BY <1>1, <1>2, <1>6, PlaysStayDifferent
<1>8. Sending'
  <2>1. IsFiniteSet(landed')
    <3>1. IsFiniteSet(landed \cup b.entries)
      BY <1>3, FS_Union
    <3> QED BY <1>3, <1>5, <3>1
  <2>2. \A m \in Machines : IsFiniteSet(outbox'[m]) /\ \A p \in outbox'[m] : p.by = m
    <3> SUFFICES ASSUME NEW m \in Machines
                 PROVE  IsFiniteSet(outbox'[m]) /\ \A p \in outbox'[m] : p.by = m
      OBVIOUS
    <3>1. IsFiniteSet(outbox[m]) /\ \A p \in outbox[m] : p.by = m
      BY <1>2 DEF Sending
    <3>2. outbox'[m] \in SUBSET outbox[m]
      BY <1>4
    <3> QED BY <3>1, <3>2, FS_Subset
  <2> QED BY <1>1, <1>2, <1>4, <2>1, <2>2 DEF Sending, Plays
<1>9. Reported'
  <2>1. CASE scrobbles' = Stored(scrobbles, b) /\ landed' = landed \cup b.entries
    BY <1>2, <2>1, StoringReports
  <2>2. CASE UNCHANGED <<scrobbles, landed>>
    BY <1>2, <2>2 DEF Reported, Reflects, Same
  <2> QED BY <1>1, <2>1, <2>2
<1> QED BY <1>1, <1>2, <1>7, <1>8, <1>9 DEF LsInv, RoomIn, Named

LEMMA PurgeKeeps ==
  ASSUME LsInv, NEW a \in Listeners, PurgeScrobbles(a)
  PROVE  LsInv'
<1>1. PICK doomed :
        /\ scrobbles' = {r \in scrobbles : ~(r.user = a /\ r.stamp \in doomed)}
        /\ landed' = {p \in landed : ~(OwnerOf[p.by] = a /\ Stamped(p) \in doomed)}
        /\ UNCHANGED <<nodes, circles, shows, outbox, wire, ask, time, numbered>>
  BY DEF PurgeScrobbles
<1>2. PlaysDiffer /\ Sending /\ Reported /\ RoomIn(ask) /\ Named
  BY DEF LsInv
<1>3. landed' \in SUBSET landed
  BY <1>1
<1>4. Made' \subseteq Made
  BY <1>1, <1>3 DEF Made, Unsent, UnderWay
<1>5. PlaysDiffer'
  BY <1>1, <1>2, <1>4, PlaysStayDifferent
<1>6. Sending'
  <2>1. IsFiniteSet(landed')
    BY <1>2, <1>3, FS_Subset DEF Sending
  <2> QED BY <1>1, <1>2, <2>1 DEF Sending, Plays
<1>7. Reported'
  BY <1>1, <1>2, PurgingReports
<1> QED BY <1>1, <1>2, <1>5, <1>6, <1>7 DEF LsInv, RoomIn, Named

(* A step that touches no play. *)
LEMMA RestKeeps ==
  ASSUME LsInv, UNCHANGED <<scrobbles, outbox, wire, numbered, landed>>, RoomIn(ask'), Named'
  PROVE  LsInv'
<1>1. PlaysDiffer /\ Sending /\ Reported
  BY DEF LsInv
<1>2. Made' = Made
  BY DEF Made, Unsent, UnderWay
<1>3. PlaysDiffer'
  BY <1>1, <1>2, PlaysStayDifferent
<1>4. Sending' /\ Reported'
  BY <1>1 DEF Sending, Plays, Reported, Reflects, Same
<1> QED BY <1>3, <1>4 DEF LsInv, RoomIn

LEMMA ACircleHasRoom == MaxCircle \in Nat /\ 0 < MaxCircle /\ 0 <= 1
BY ListeningAssumption

LEMMA OpeningHasRoom ==
  ASSUME NEW a, NEW op, NEW step, NEW todo, step # "are friends", Opens(a, op, step, todo)
  PROVE  RoomIn(ask')
<1>1. ask' = [Silent EXCEPT !.op = op, !.at = step, !.by = {a}, !.todo = todo,
                !.open = Honest(shows, SurfaceOf(op)), !.knew = FriendsAmong(a, circles)]
  BY DEF Opens
<1>2. ask'.members = {} /\ ask'.of = {} /\ ask'.at = step
  BY <1>1 DEF Silent
<1>3. IsFiniteSet({}) /\ Cardinality({}) = 0 /\ MaxCircle \in Nat \ {0}
  BY FS_EmptySet, ListeningAssumption
<1>4. 0 < MaxCircle /\ 0 <= 1
  BY ACircleHasRoom
<1>5. /\ IsFiniteSet(ask'.members) /\ Cardinality(ask'.members) = 0
      /\ IsFiniteSet(ask'.of) /\ Cardinality(ask'.of) = 0 /\ ask'.at # "are friends"
  BY <1>2, <1>3
<1> QED BY <1>4, <1>5 DEF RoomIn

LEMMA RememberingHasRoom ==
  ASSUME ask \in AskType, RoomIn(ask), NEW pairs, NEW settings, Remember(pairs, settings)
  PROVE  RoomIn(ask')
<1>1. CASE ask = Silent
  <2>1. ask' = ask
    BY <1>1 DEF Remember
  <2> QED BY <2>1
<1>2. CASE ask # Silent
  <2> DEFINE more == Honest(settings, SurfaceOf(ask.op))
             met == UNION {FriendsAmong(a, pairs) : a \in ask.by}
  <2>1. ask' = [ask EXCEPT !.open = @ \cup more, !.knew = @ \cup met]
    BY <1>2 DEF Remember
  <2> HIDE DEF more, met
  <2>2. ask'.op = ask.op /\ ask'.at = ask.at /\ ask'.members = ask.members /\ ask'.of = ask.of
    BY <2>1 DEF AskType
  <2> QED BY <2>2 DEF RoomIn
<1> QED BY <1>1, <1>2

LEMMA ReadingHasRoom ==
  ASSUME ask \in AskType, RoomIn(ask), NEW a \in Listeners,
         ReadFriends(a) \/ ReadProfile(a) \/ AreFriends(a) \/ ReadRows(a) \/ Answer(a)
  PROVE  RoomIn(ask')
<1>1. CASE ReadFriends(a)
  <2> DEFINE todo == FriendsAmong(a, circles)
  <2>1. ask' = [ask EXCEPT !.at = "gate", !.todo = todo]
    BY <1>1 DEF ReadFriends, GoesOn
  <2> HIDE DEF todo
  <2>2. ask'.op = ask.op /\ ask'.at = "gate" /\ ask'.members = ask.members /\ ask'.of = ask.of
    BY <2>1 DEF AskType
  <2> QED BY <2>2 DEF RoomIn
<1>2. CASE ReadProfile(a)
  <2>1. PICK b \in ask.todo :
          /\ ask.op = "circle" => Cardinality(ask.members) + 1 < MaxCircle
          /\ ask' = [ask EXCEPT !.at = "are friends", !.of = {b}, !.todo = @ \ {b},
                       !.ok = Shows(shows[b], SurfaceOf(ask.op))]
    BY <1>2 DEF ReadProfile, GoesOn
  <2> DEFINE ok == Shows(shows[b], SurfaceOf(ask.op))
  <2>2. ask' = [ask EXCEPT !.at = "are friends", !.of = {b}, !.todo = @ \ {b}, !.ok = ok]
    BY <2>1
  <2> HIDE DEF ok
  <2>3. ask'.op = ask.op /\ ask'.members = ask.members /\ ask'.of = {b}
    BY <2>2 DEF AskType
  <2>4. IsFiniteSet({b}) /\ Cardinality({b}) = 1
    BY FS_Singleton
  <2>5. IsFiniteSet(ask'.of) /\ Cardinality(ask'.of) <= 1
    BY <2>3, <2>4
  <2> QED BY <2>1, <2>3, <2>5 DEF RoomIn
<1>3. CASE AreFriends(a)
  <2> DEFINE passed == ask.ok /\ ask.of \subseteq FriendsAmong(a, circles)
             members == IF passed THEN ask.members \cup ask.of ELSE ask.members
             next == IF passed /\ ask.op # "circle" THEN "rows" ELSE "gate"
  <2>1. ask.at = "are friends" /\ ask' = [ask EXCEPT !.members = members, !.at = next]
    BY <1>3 DEF AreFriends, Asks, GoesOn
  <2>2. next \in {"rows", "gate"}
    OBVIOUS
  <2>3. members = ask.members \/ members = ask.members \cup ask.of
    OBVIOUS
  <2> HIDE DEF members, next
  <2>4. ask'.op = ask.op /\ ask'.at = next /\ ask'.members = members /\ ask'.of = ask.of
    BY <2>1 DEF AskType
  <2>5. IsFiniteSet(ask.members) /\ IsFiniteSet(ask.of) /\ Cardinality(ask.of) <= 1
    BY DEF RoomIn
  <2>6. /\ Cardinality(ask.members) \in Nat /\ Cardinality(ask.of) \in Nat
        /\ Cardinality(ask.members \cap ask.of) \in Nat
    BY <2>5, FS_CardinalityType, FS_Intersection
  <2>7. /\ IsFiniteSet(ask.members \cup ask.of)
        /\ Cardinality(ask.members \cup ask.of)
             = Cardinality(ask.members) + Cardinality(ask.of)
                 - Cardinality(ask.members \cap ask.of)
    BY <2>5, FS_Union
  <2>8. /\ Cardinality(ask.members \cup ask.of) \in Nat
        /\ Cardinality(ask.members \cup ask.of) <= Cardinality(ask.members) + 1
    BY <2>5, <2>6, <2>7, FS_CardinalityType
  <2>9. IsFiniteSet(members) /\ Cardinality(members) \in Nat
        /\ Cardinality(members) <= Cardinality(ask.members) + 1
    <3>1. CASE members = ask.members
      BY <2>5, <2>6, <3>1
    <3>2. CASE members = ask.members \cup ask.of
      BY <2>7, <2>8, <3>2
    <3> QED BY <2>3, <3>1, <3>2
  <2>10. ask.op = "circle" => Cardinality(ask.members) + 1 < MaxCircle
    BY <2>1 DEF RoomIn
  <2>11. MaxCircle \in Nat
    BY ListeningAssumption
  <2>12. ask.op = "circle" => Cardinality(members) < MaxCircle
    BY <2>6, <2>9, <2>10, <2>11
  <2> QED BY <2>2, <2>4, <2>5, <2>9, <2>12 DEF RoomIn
<1>4. ASSUME Asks(a, "rows"), GoesOn([ask EXCEPT !.at = "gate", !.shown = @ \cup ask.of])
      PROVE  RoomIn(ask')
  <2>1. ask'.op = ask.op /\ ask'.at = "gate" /\ ask'.members = ask.members /\ ask'.of = ask.of
    BY <1>4 DEF AskType, GoesOn
  <2> QED BY <2>1 DEF RoomIn
<1>5. ASSUME NEW b, Asks(a, "gate"), GoesOn([ask EXCEPT !.shown = @ \cup {b}, !.todo = {}])
      PROVE  RoomIn(ask')
  <2>1. ask'.op = ask.op /\ ask'.at = ask.at /\ ask'.members = ask.members /\ ask'.of = ask.of
    BY <1>5 DEF AskType, GoesOn
  <2> QED BY <2>1 DEF RoomIn
<1>6. CASE ReadRows(a)
  BY <1>4, <1>5, <1>6 DEF ReadRows
<1>7. CASE Answer(a)
  BY <1>7, SilentHasRoom DEF Answer, GoesOn
<1> QED BY <1>1, <1>2, <1>3, <1>6, <1>7

LEMMA StepLs == AskInv /\ LsInv /\ [ListeningNext]_listeningVars => LsInv'
<1> SUFFICES ASSUME AskInv, LsInv, [ListeningNext]_listeningVars PROVE LsInv'
  OBVIOUS
<1>0. Named /\ RoomIn(ask) /\ ask \in AskType
  BY DEF LsInv, AskInv
<1>1. ASSUME NEW m \in Machines, Play(m) \/ Drain(m) PROVE LsInv'
  BY <1>1, PlayingKeeps, DrainingKeeps
<1>2. ASSUME NEW m \in Machines, RenameNode(m) PROVE LsInv'
  <2>1. PICK name \in Petnames :
          /\ nodes' = [nodes EXCEPT ![m] = name]
          /\ UNCHANGED <<scrobbles, circles, shows, outbox, wire, ask, time,
                         numbered, landed>>
    BY <1>2 DEF RenameNode
  <2>2. Named'
    BY <1>0, <2>1 DEF Named
  <2>3. RoomIn(ask')
    BY <1>0, <2>1
  <2> QED BY <2>1, <2>2, <2>3, RestKeeps
<1>3. ASSUME NEW a \in Listeners, PurgeScrobbles(a) PROVE LsInv'
  BY <1>3, PurgeKeeps
<1>4. ASSUME NEW a \in Listeners,
             FriendActivity(a) \/ CircleRecap(a) \/ ListeningStats(a)
      PROVE  LsInv'
  <2>1. \E op, step, todo : step # "are friends" /\ Opens(a, op, step, todo)
    <3>1. CASE FriendActivity(a)
      BY <3>1 DEF FriendActivity
    <3>2. CASE CircleRecap(a)
      BY <3>2 DEF CircleRecap
    <3>3. CASE ListeningStats(a)
      BY <3>3 DEF ListeningStats
    <3> QED BY <1>4, <3>1, <3>2, <3>3
  <2>2. RoomIn(ask')
    BY <2>1, OpeningHasRoom
  <2>3. UNCHANGED <<scrobbles, nodes, shows, outbox, wire, time, numbered, landed>>
    BY <2>1 DEF Opens
  <2> QED BY <1>0, <2>2, <2>3, RestKeeps DEF Named
<1>5. ASSUME NEW a \in Listeners, UpdateProfile(a) PROVE LsInv'
  <2>1. /\ \E s \in Surfaces \cup {"incognito"} :
             shows' = [shows EXCEPT ![a] = IF s \in @ THEN @ \ {s} ELSE @ \cup {s}]
        /\ Remember(circles, shows')
        /\ UNCHANGED <<scrobbles, nodes, outbox, wire, time, numbered, landed>>
    BY <1>5 DEF UpdateProfile
  <2>2. Named'
    BY <1>0, <2>1 DEF Named
  <2>3. RoomIn(ask')
    <3>1. PICK settings : settings = shows'
      OBVIOUS
    <3> QED BY <1>0, <2>1, <3>1, RememberingHasRoom
  <2> QED BY <2>1, <2>2, <2>3, RestKeeps
<1>6. ASSUME NEW a \in Listeners, NEW b \in Listeners, Befriend(a, b) PROVE LsInv'
  <2>1. /\ Remember(circles', shows)
        /\ UNCHANGED <<scrobbles, shows, nodes, outbox, wire, time, numbered, landed>>
    BY <1>6 DEF Befriend
  <2>3. RoomIn(ask')
    <3>1. PICK pairs : pairs = circles'
      OBVIOUS
    <3> QED BY <1>0, <2>1, <3>1, RememberingHasRoom
  <2> QED BY <1>0, <2>1, <2>3, RestKeeps DEF Named
<1>7. ASSUME NEW a \in Listeners,
             ReadFriends(a) \/ ReadProfile(a) \/ AreFriends(a) \/ ReadRows(a)
               \/ Answer(a)
      PROVE  LsInv'
  <2>1. RoomIn(ask')
    BY <1>0, <1>7, ReadingHasRoom
  <2>2. UNCHANGED <<scrobbles, nodes, shows, outbox, wire, time, numbered, landed>>
    BY <1>7 DEF ReadFriends, ReadProfile, AreFriends, ReadRows, Answer, GoesOn
  <2> QED BY <1>0, <2>1, <2>2, RestKeeps DEF Named
<1>8. CASE RecordScrobbles
  BY <1>8, RecordingKeeps
<1>9. CASE Pass
  <2>1. /\ time' = time + 1
        /\ UNCHANGED <<scrobbles, nodes, shows, outbox, wire, ask, numbered, landed>>
    BY <1>9 DEF Pass
  <2>2. Named'
    BY <1>0, <1>9, <2>1, ListeningAssumption DEF Named, Pass
  <2>3. RoomIn(ask')
    BY <1>0, <2>1
  <2> QED BY <2>1, <2>2, <2>3, RestKeeps
<1>10. CASE UNCHANGED listeningVars
  <2>1. UNCHANGED <<scrobbles, nodes, shows, outbox, wire, ask, time, numbered, landed>>
    BY <1>10 DEF listeningVars
  <2>2. Named' /\ RoomIn(ask')
    BY <1>0, <2>1 DEF Named
  <2> QED BY <2>1, <2>2, RestKeeps
<1> QED
  BY <1>1, <1>2, <1>3, <1>4, <1>5, <1>6, <1>7, <1>8, <1>9, <1>10 DEF ListeningNext

(***************************************************************************)
(* Listening: years.  Away from the turn of a year by the offset, a play   *)
(* is on one side of it however the two are compared.                      *)
(***************************************************************************)
LEMMA Squares ==
  ASSUME NEW x \in Int, NEW z \in Int, ~(x * x <= z * z)
  PROVE  (x > z /\ x > -z) \/ (x < z /\ x < -z)
<1>1. ASSUME NEW m \in Int, NEW n \in Int, m >= 0, n >= 0 PROVE m * n >= 0
  BY <1>1
<1>2. (z - x) * (z + x) = z * z - x * x /\ (x - z) * (-(x + z)) = z * z - x * x
  OBVIOUS
<1>3. ~(z - x >= 0 /\ z + x >= 0)
  <2>1. ASSUME z - x >= 0, z + x >= 0 PROVE FALSE
    <3>1. (z - x) * (z + x) >= 0
      BY <1>1, <2>1
    <3> QED BY <1>2, <3>1
  <2> QED BY <2>1
<1>4. ~(x - z >= 0 /\ -(x + z) >= 0)
  <2>1. ASSUME x - z >= 0, -(x + z) >= 0 PROVE FALSE
    <3>1. (x - z) * (-(x + z)) >= 0
      BY <1>1, <2>1
    <3> QED BY <1>2, <3>1
  <2> QED BY <2>1
<1> QED BY <1>3, <1>4

LEMMA YearNumber ==
  ASSUME NEW x \in Int, NEW y \in Int
  PROVE  x \div Year = y <=> y * Year <= x /\ x < (y + 1) * Year
<1> DEFINE q == x \div Year
<1>0. Year \in Nat \ {0} /\ q \in Int
  BY ListeningAssumption
<1>1. q * Year <= x /\ x < q * Year + Year
  BY <1>0
<1> HIDE DEF q
<1>2. (q + 1) * Year = q * Year + Year /\ (y + 1) * Year = y * Year + Year
  BY <1>0
<1>3. ASSUME NEW m \in Int, NEW n \in Int, m < n PROVE m * Year + Year <= n * Year
  <2>1. n * Year = m * Year + (n - m) * Year
    BY <1>0
  <2>2. (n - m) * Year >= Year
    <3>1. ASSUME NEW d \in Nat PROVE d * Year >= 0
      BY <1>0
    <3>2. (n - m - 1) \in Nat /\ (n - m) * Year = (n - m - 1) * Year + Year
      BY <1>0, <1>3
    <3>3. (n - m - 1) * Year >= 0
      BY <3>1, <3>2
    <3>4. (n - m - 1) * Year \in Int
      BY <1>0
    <3> QED BY <1>0, <3>2, <3>3, <3>4
  <2>3. m * Year \in Int /\ n * Year \in Int /\ (n - m) * Year \in Int
    BY <1>0
  <2> QED BY <1>0, <2>1, <2>2, <2>3
<1>4. q * Year \in Int /\ y * Year \in Int
  BY <1>0
<1>5. CASE q = y
  BY <1>1, <1>2, <1>5 DEF q
<1>6. CASE q < y
  <2>1. q * Year + Year <= y * Year
    BY <1>0, <1>3, <1>6
  <2> QED BY <1>0, <1>1, <1>4, <1>6, <2>1 DEF q
<1>7. CASE q > y
  <2>1. y * Year + Year <= q * Year
    BY <1>0, <1>3, <1>7
  <2> QED BY <1>0, <1>1, <1>2, <1>4, <1>7, <2>1 DEF q
<1> QED BY <1>0, <1>5, <1>6, <1>7

LEMMA OffsetIs ==
  ASSUME NEW z \in Zones
  PROVE  z \in Int /\ Offset(z) \in Int /\ Offset(z) >= 0 /\ Offset(0) = 0
BY ListeningAssumption DEF Offset

LEMMA TurnIs == ASSUME NEW y \in Years PROVE y \in Int /\ y * Year \in Int
<1>1. Year \in Nat \ {0} /\ MaxTime \in Nat
  BY ListeningAssumption
<1>2. MaxTime \div Year + 1 \in Int
  BY <1>1
<1>3. y \in Int
  BY <1>2 DEF Years
<1> QED BY <1>1, <1>3

LEMMA StampOfRow ==
  ASSUME LsInv, NEW r \in scrobbles
  PROVE  /\ r.stamp \in [wall : Int, zone : Zones] /\ PlayedAt(r) \in Int
         /\ PlayedAt(r) <= MaxTime /\ PlayedAt(r) = r.stamp.wall - r.stamp.zone
<1>1. PICK p \in landed : Reflects(r, p)
  BY DEF LsInv, Reported
<1>2. p \in Plays /\ p.at <= MaxTime /\ p.at \in Int
  BY DEF LsInv, PlaysDiffer, Made, Plays
<1>3. /\ Stamped(p) \in [wall : Int, zone : Zones] /\ Moment(Stamped(p)) \in Int
      /\ Moment(Stamped(p)) <= p.at
  BY <1>2, StampedIs
<1>4. r.stamp = Stamped(p)
  BY <1>1 DEF Reflects
<1>5. MaxTime \in Int
  BY ListeningAssumption
<1>6. Moment(r.stamp) <= MaxTime
  BY <1>2, <1>3, <1>4, <1>5
<1> QED BY <1>3, <1>4, <1>6 DEF PlayedAt, Moment

LEMMA BeforeBound ==
  ASSUME NEW s, NEW y, NEW z
  PROVE  Before(s, Bound(y, z)) <=>
           s.wall < y * Year \/ (s.wall = y * Year /\ Offset(s.zone) < Offset(z))
BY DEF Before, Bound

(* Of a play not near a turn of year, both its moment and its wall clock,  *)
(* and its moment at any offset, are on one side of the turn.              *)
LEMMA OneSide ==
  ASSUME LsInv, NEW r \in scrobbles, ~NearTurn(r), NEW y \in Years, NEW z \in Zones
  PROVE  /\ PlayedAt(r) >= y * Year =>
              PlayedAt(r) + z > y * Year /\ r.stamp.wall > y * Year
         /\ PlayedAt(r) < y * Year =>
              PlayedAt(r) + z < y * Year /\ r.stamp.wall < y * Year
<1> DEFINE P == PlayedAt(r)
           turn == y * Year
           o == r.stamp.zone
           w == r.stamp.wall
<1>1. P \in Int /\ w \in Int /\ o \in Zones /\ P = w - o
  BY StampOfRow
<1>2. turn \in Int /\ z \in Int /\ o \in Int
  BY <1>1, TurnIs, OffsetIs
<1>3. \A v \in Zones : ~((P - turn) * (P - turn) <= v * v)
  BY DEF NearTurn
<1> HIDE DEF P, turn, o, w
<1>4. P - turn \in Int
  BY <1>1, <1>2
<1>5. (P - turn > z /\ P - turn > -z) \/ (P - turn < z /\ P - turn < -z)
  BY <1>2, <1>3, <1>4, Squares
<1>6. (P - turn > o /\ P - turn > -o) \/ (P - turn < o /\ P - turn < -o)
  BY <1>1, <1>2, <1>3, <1>4, Squares
<1>7. /\ P >= turn => P + z > turn /\ w > turn
      /\ P < turn => P + z < turn /\ w < turn
  BY <1>1, <1>2, <1>5, <1>6
<1> QED BY <1>7 DEF P, turn, w

(* No play is later than the years asked about. *)
LEMMA YearsReach ==
  ASSUME NEW x \in Int, x <= MaxTime, NEW y \in Years
  PROVE  y \in Int /\ (y + 1 \in Years \/ x < y * Year)
<1> DEFINE last == MaxTime \div Year
<1>0. Year \in Nat \ {0} /\ MaxTime \in Nat /\ last \in Int
  BY ListeningAssumption
<1>1. MaxTime < (last + 1) * Year
  BY <1>0, YearNumber
<1>2. Years = 0..(last + 1)
  BY DEF Years
<1> HIDE DEF last
<1>3. y \in Int /\ 0 <= y /\ y <= last + 1
  BY <1>0, <1>2
<1>4. CASE y = last + 1
  <2>1. x < (last + 1) * Year
    <3>1. (last + 1) * Year \in Int
      BY <1>0
    <3> QED BY <1>0, <1>1, <3>1
  <2> QED BY <1>3, <1>4, <2>1
<1>5. CASE y # last + 1
  <2>1. y + 1 \in 0..(last + 1)
    BY <1>0, <1>3, <1>5
  <2> QED BY <1>2, <1>3, <2>1
<1> QED BY <1>4, <1>5

LEMMA SidesAgree ==
  ASSUME LsInv, NEW r \in scrobbles, ~NearTurn(r), NEW y \in Years, NEW z \in Zones
  PROVE  /\ InYear(r.stamp, y) <=> r \in OfYear(scrobbles, y, z)
         /\ InCircle(r, y, z) <=> r \in OfYear(scrobbles, y, z)
         /\ r \in Cohort(y, z) <=> r \in OfYear(scrobbles, y, z)
<1> DEFINE P == PlayedAt(r)
           from == y * Year
           till == (y + 1) * Year
           w == r.stamp.wall
           o == r.stamp.zone
<1>1. P \in Int /\ w \in Int /\ P <= MaxTime /\ o \in Zones /\ 0 \in Zones
  BY StampOfRow, ListeningAssumption
<1>2. y \in Int /\ Year \in Int /\ z \in Int /\ from \in Int /\ till \in Int
  BY <1>1, YearsReach, OffsetIs, ListeningAssumption
<1>3. /\ r \in OfYear(scrobbles, y, z) <=> from <= P + z /\ P + z < till
  <2>1. P + z \in Int
    BY <1>1, <1>2
  <2>2. r \in OfYear(scrobbles, y, z) <=> (P + z) \div Year = y
    BY DEF OfYear, Local
  <2> QED BY <1>2, <2>1, <2>2, YearNumber
<1>4. /\ Before(r.stamp, Bound(y, 0)) <=> w < from
      /\ Before(r.stamp, Bound(y + 1, 0)) <=> w < till
  <2>1. Offset(o) \in Int /\ Offset(o) >= 0 /\ Offset(0) = 0
    BY <1>1, OffsetIs
  <2>2. ~(Offset(o) < Offset(0))
    BY <2>1
  <2> QED BY <2>2, BeforeBound
<1>5. /\ w # from => (Before(r.stamp, Bound(y, z)) <=> w < from)
      /\ w # till => (Before(r.stamp, Bound(y + 1, z)) <=> w < till)
  BY BeforeBound
<1>6. Moment(Bound(y + 1, z)) = till - z
  BY DEF Moment, Bound
<1>7. /\ InYear(r.stamp, y) <=> ~(w < from) /\ w < till
  BY <1>4 DEF InYear
<1>8. InCircle(r, y, z) <=> ~Before(r.stamp, Bound(y, z)) /\ P < till - z
  BY <1>6 DEF InCircle
<1>9. r \in Cohort(y, z) <=>
        ~Before(r.stamp, Bound(y, z)) /\ Before(r.stamp, Bound(y + 1, z))
  BY DEF Cohort
<1>10. /\ P >= from => P + z > from /\ w > from
       /\ P < from => P + z < from /\ w < from
  BY OneSide
<1>11. \/ P < from
       \/ /\ P >= till => P + z > till /\ w > till
          /\ P < till => P + z < till /\ w < till
  <2>1. CASE y + 1 \in Years
    BY <2>1, OneSide
  <2>2. CASE P < from
    BY <2>2
  <2> QED BY <1>1, <2>1, <2>2, YearsReach
<1> HIDE DEF P, from, till, w, o
<1>12. w # from
  BY <1>1, <1>2, <1>10
<1>13. CASE P < from
  <2>1. P + z < from /\ w < from
    BY <1>10, <1>13
  <2> QED BY <1>1, <1>2, <1>3, <1>5, <1>7, <1>8, <1>9, <1>12, <2>1
<1>14. CASE ~(P < from)
  <2>1. P + z > from /\ w > from
    BY <1>1, <1>2, <1>10, <1>14
  <2>2. w # till
    BY <1>1, <1>2, <1>11, <1>14
  <2>3. ~(w < from) /\ from <= P + z /\ (P < till - z <=> P + z < till)
    BY <1>1, <1>2, <2>1
  <2>4. (w < till <=> P < till) /\ (P + z < till <=> P < till)
    BY <1>1, <1>2, <1>11, <1>14
  <2> QED BY <1>3, <1>5, <1>7, <1>8, <1>9, <1>12, <2>2, <2>3, <2>4
<1> QED BY <1>13, <1>14

LEMMA YearsDoAgree == ASSUME LsInv PROVE YearsAgree
<1> SUFFICES ASSUME NEW y \in Years, NEW z \in Zones
    PROVE /\ \A r \in scrobbles : NearTurn(r)
               \/ /\ InYear(r.stamp, y) <=> r \in OfYear(scrobbles, y, z)
                  /\ InCircle(r, y, z) <=> r \in OfYear(scrobbles, y, z)
                  /\ r \in Cohort(y, z) <=> r \in OfYear(scrobbles, y, z)
          /\ \A x \in 0..(y - 1) :
               NewBands(scrobbles, x, z) \cap NewBands(scrobbles, y, z) = {}
  BY DEF YearsAgree
<1>1. \A r \in scrobbles : NearTurn(r)
        \/ /\ InYear(r.stamp, y) <=> r \in OfYear(scrobbles, y, z)
           /\ InCircle(r, y, z) <=> r \in OfYear(scrobbles, y, z)
           /\ r \in Cohort(y, z) <=> r \in OfYear(scrobbles, y, z)
  BY SidesAgree
<1>2. ASSUME NEW x \in 0..(y - 1), NEW band,
             band \in NewBands(scrobbles, x, z), band \in NewBands(scrobbles, y, z)
      PROVE  FALSE
  <2>1. PICK r \in scrobbles : Local(r, z) \div Year = x /\ BandOf[r.track] = band
    BY <1>2 DEF NewBands, OfYear
  <2>2. x < y
    BY DEF Years
  <2>3. Local(r, z) \div Year < y
    BY <2>1, <2>2
  <2> QED BY <1>2, <2>1, <2>3 DEF NewBands
<1> QED BY <1>1, <1>2

(* A year is the same plays whoever cuts it, but for those as near to its  *)
(* turn as an offset: the purge and the ranking, which compare texts, the  *)
(* circle's recap, which compares one end as text and the other as an      *)
(* instant, and one's own recap, which compares instants; and no band is   *)
(* new in two years (stats_wrapped.rs:223, schema_feed.rs:101-153).        *)
THEOREM YearsAreOne == ListeningSpec => []YearsAgree
<1>1. ListeningInit => AskInv /\ LsInv
  BY InitAsk, InitLs
<1>2. AskInv /\ LsInv /\ [ListeningNext]_listeningVars => (AskInv /\ LsInv)'
  BY StepAsk, StepLs
<1>3. LsInv => YearsAgree
  BY YearsDoAgree
<1> QED BY <1>1, <1>2, <1>3, PTL DEF ListeningSpec

(* However batches are sent again, late, in part or twice, and whatever is *)
(* purged in between, every play that reached the server and was not       *)
(* purged is stored in one row, and read in one unless two devices of the  *)
(* account go by one name; nobody is moved on or off repeat by more than   *)
(* the hour a time is blurred to; a circle never outgrows its limit; and   *)
(* years agree (db/scrobbles.rs:35-61, schema_feed.rs:101-153).            *)
THEOREM PlaysDoCount == ListeningSpec => []PlaysAreCounted
<1>1. ListeningInit => AskInv /\ LsInv
  BY InitAsk, InitLs
<1>2. AskInv /\ LsInv /\ [ListeningNext]_listeningVars => (AskInv /\ LsInv)'
  BY StepAsk, StepLs
<1>3. LsInv /\ YearsAgree => PlaysAreCounted
  BY ListeningIsTyped, CountingIsRight, BlurringIsSmall DEF PlaysAreCounted
<1> QED BY <1>1, <1>2, <1>3, YearsAreOne, PTL DEF ListeningSpec

----------------------------------------------------------------------------
(* Identity: the second factor and the identities of a provider.           *)
(*                                                                         *)
(* A handler acts on what it read some steps ago, so the invariant says of *)
(* every handler under way what of that is still so (Codes, Enrolments,    *)
(* Consents, WaysIn), or that another one crossed it and the history       *)
(* remembers whose account it was.                                         *)

Rows == [id : UserIds, admin : BOOLEAN, active : BOOLEAN, usable : BOOLEAN,
         shown : BOOLEAN, secret : 0..MaxSecrets,
         confirmed : BOOLEAN, last : 0..MaxStep, codes : SUBSET Recovery]

Calls == [op : Ops, at : Steps, name : Names \cup {Nobody},
          id : 0..MaxAccounts, key : 0..MaxTokens,
          secret : 0..MaxSecrets, step : 0..MaxStep,
          subject : Subjects \cup {Nothing}, factor : BOOLEAN]

(* The steps a handler of each kind goes through. *)
StepOf(op, at) ==
  \/ op = "none" /\ at = "idle"
  \/ op = "begin" /\ at \in {"fresh", "write"}
  \/ op = "confirm" /\ at \in {"sealed", "unconfirmed", "enrol", "signout"}
  \/ op = "disable" /\ at \in {"read", "confirmed", "code", "clear"}
  \/ op = "regenerate" /\ at \in {"read", "confirmed", "code", "reissue"}
  \/ op = "login" /\ at \in {"needs", "read", "confirmed", "code", "mint"}
  \/ op = "unlink" /\ at \in {"count", "usable", "delete"}
  \/ op = "link" /\ at \in {"exchange", "lookup", "insert"}
  \/ op = "callback" /\ at \in {"exchange", "known", "create", "mark", "lookup",
                                "insert", "mint"}

Fits(r) ==
  /\ r \in Calls
  /\ StepOf(r.op, r.at)
  /\ r.op # "none" /\ ~(r.op = "callback" /\ r.at \in {"exchange", "known"})
       => r.name \in Names
  /\ r.op = "unlink" \/ r.at \in {"known", "create", "mark", "lookup", "insert"}
       => r.subject \in Subjects
  /\ r.op = "link" \/ r.at = "mark" => r.id # 0
  /\ r.op = "callback" /\ r.at \in {"lookup", "insert"} => r.id # 0
  /\ r.at \in {"unconfirmed", "enrol", "confirmed", "code"} => r.secret # 0
  /\ r.op = "callback" => r.secret = 0

Remembered ==
  [crossed : SUBSET (0..MaxAccounts), proved : SUBSET (0..MaxSecrets),
   spared : SUBSET (0..MaxTokens), late : SUBSET Tokens,
   torn : SUBSET (0..MaxAccounts), accepted : SUBSET (Secrets \X (0..MaxStep)),
   twice : BOOLEAN, consent : SUBSET (Subjects \X (0..MaxAccounts)),
   strayed : SUBSET Subjects, orphans : SUBSET (0..MaxAccounts),
   parted : SUBSET (0..MaxAccounts)]

Kinds ==
  /\ IdentityTypeOK
  /\ \A c \in Clients : Fits(req[c])
  /\ \A f \in Flows : flow[f].to # Nobody => flow[f].by # 0
  /\ \A n \in Names : user[n].id <= made
  /\ past \in Remembered

(* What a secret stands for: one account's, and a code of it that was      *)
(* accepted is no later than the step its account remembers.               *)
Codes ==
  /\ \A n \in Names : user[n].secret <= used.secrets
  /\ \A m, n \in Names : user[m].secret = user[n].secret /\ user[m].secret # 0 => m = n
  /\ \A c \in Clients : /\ req[c].secret <= used.secrets
                        /\ \A n \in Names : user[n].secret = req[c].secret /\ req[c].secret # 0
                                              => n = Me(c)
  /\ \A e \in past.accepted : e[1] <= used.secrets
  /\ \A n \in Names, s \in 0..MaxStep :
       <<user[n].secret, s>> \in past.accepted
         => user[n].confirmed /\ (s <= user[n].last \/ past.crossed # {})
  /\ \A c \in Clients : req[c].at = "code" /\ user[Me(c)].secret = req[c].secret
                          => user[Me(c)].confirmed
  /\ CodesWorkOnce

(* What a handler of an enrolment has read is still so, unless another one *)
(* crossed it.                                                             *)
Enrolments ==
  /\ \A c \in Clients, n \in Names :
       n = Me(c) /\ Exists(n) /\ user[n].id \notin past.crossed
         => /\ req[c].at \in {"write", "enrol"} => ~user[n].confirmed
            /\ req[c].at \in {"unconfirmed", "enrol"} => user[n].secret = req[c].secret
  /\ \A n \in Names : user[n].confirmed /\ user[n].id \notin past.crossed
                        => user[n].secret \in past.proved

Guarded ==
  /\ SecondFactorGuards
  /\ \A c \in Clients : req[c].at = "signout" => req[c].key \in past.spared

Linking(c) == req[c].op \in {"link", "callback"} /\ req[c].at \in {"mark", "lookup", "insert"}

Consents ==
  /\ LinksAreConsented
  /\ \A c \in Clients : Linking(c) => <<req[c].subject, req[c].id>> \in past.consent

Founding(c) == req[c].op = "callback" /\ Linking(c)

Lost(n) == user[n].id \in past.parted \cup past.orphans

(* An account's way in does not depend on a handler that may yet give up,  *)
(* and one that is about to unlink knows of another.                       *)
WaysIn ==
  /\ \A c \in Clients, n \in Names :
       Founding(c) => req[c].id <= made /\ (user[n].id = req[c].id => n = Me(c))
  /\ \A n \in Names : Exists(n) =>
       \/ user[n].shown \/ Links(n) # {} \/ Lost(n)
       \/ \E c \in Clients : Founding(c) /\ req[c].id = user[n].id
  /\ \A c \in Clients, n \in Names :
       req[c].at = "delete" /\ n = Me(c) /\ Exists(n) =>
         user[n].shown \/ Lost(n) \/ \E s \in Links(n) : s # req[c].subject

IdInv == Kinds /\ Codes /\ Enrolments /\ Guarded /\ Consents /\ WaysIn

----------------------------------------------------------------------------
(* Types *)

LEMMA OpsAre ==
  Ops = {"none", "link", "callback", "login", "begin", "confirm", "disable",
         "regenerate", "unlink"}
BY DEF Ops, FirstStep

LEMMA RestFits == Fits(Idle)
BY OpsAre, IdentityAssumption DEF Fits, Idle, Calls, Steps, StepOf

LEMMA CallOf ==
  ASSUME Kinds, NEW c \in Clients
  PROVE  /\ req \in [Clients -> Calls] /\ req[c] \in Calls /\ Fits(req[c])
BY DEF Kinds, IdentityTypeOK, Fits, Calls

(* A step writes rows of accounts, or others, or none at all.              *)
WritesRows(c) ==
  \/ WriteSecret(c) \/ Enrol(c) \/ Clear(c) \/ Reissue(c) \/ CreateFor(c) \/ MarkUnusable(c)
  \/ (\E k \in Recovery : SpendRecovery(c, k))
  \/ (\E step \in 1..MaxStep : EnterCode(c, step))

WritesOthers(c) ==
  \/ SignOutOthers(c) \/ InsertLink(c) \/ DeleteLink(c)
  \/ (\E t \in Tokens : Mint(c, t)) \/ (\E f \in Flows : Callback(c, f))

Departs(f) == Start(f) \/ ExpireFlow(f) \/ \E t \in Tokens : StartLink(t, f)

LEMMA Effects ==
  ASSUME IdentityNext
  PROVE  \/ UNCHANGED tables
         \/ (\E c \in Clients : WritesRows(c)) \/ (\E c \in Clients : WritesOthers(c))
         \/ (\E f \in Flows : Departs(f)) \/ (\E n \in Names : Erase(n) \/ Join(n))
         \/ Tick \/ Restart
<1> DEFINE Calls1(c) ==
             \/ \E t \in Tokens : \/ \E op \in {"begin", "confirm", "disable", "regenerate"} :
                                       Present(c, t, op, Nothing)
                                  \/ \E s \in Subjects : Present(c, t, "unlink", s)
             \/ (\E n \in Names : Login(c, n))
           Reads1(c) == \/ CheckFresh(c) \/ ReadSealed(c)
                        \/ (\E step \in 1..MaxStep : EnterFirstCode(c, step))
                        \/ ReadSecret(c) \/ ReadConfirmed(c) \/ NeedsCode(c)
           Reads2(c) == \/ (\E s \in Subjects \cup {Nothing} : Exchange(c, s))
                        \/ KnownSubject(c) \/ LookupLink(c) \/ CountLinks(c) \/ CheckUsable(c)
<1>1. ASSUME NEW c \in Clients, Calls1(c) PROVE UNCHANGED tables
  BY <1>1 DEF Present, Login
<1>2. ASSUME NEW c \in Clients, Reads1(c) PROVE UNCHANGED tables
  BY <1>2 DEF CheckFresh, ReadSealed, EnterFirstCode, ReadSecret, ReadConfirmed, NeedsCode
<1>3. ASSUME NEW c \in Clients, Reads2(c) PROVE UNCHANGED tables
  BY <1>3 DEF Exchange, KnownSubject, LookupLink, CountLinks, CheckUsable
<1>4. \/ \E c \in Clients : Calls1(c) \/ Reads1(c) \/ Reads2(c) \/ WritesRows(c) \/ WritesOthers(c)
      \/ (\E f \in Flows : Departs(f)) \/ (\E n \in Names : Erase(n) \/ Join(n))
      \/ Tick \/ Restart
  BY DEF IdentityNext, WritesRows, WritesOthers, Departs
<1> HIDE DEF Calls1, Reads1, Reads2
<1>5. QED
  BY <1>1, <1>2, <1>3, <1>4

LEMMA UserRow ==
  ASSUME Kinds, NEW n \in Names
  PROVE  /\ user \in [Names -> {NoUser} \cup Rows]
         /\ Exists(n) <=> user[n] \in Rows
         /\ Exists(n) <=> user[n].id # 0
         /\ user[n].id \in 0..MaxAccounts /\ user[n].secret \in 0..MaxSecrets
         /\ user[n].confirmed \in BOOLEAN /\ user[n].last \in 0..MaxStep
         /\ user[n].codes \subseteq Recovery /\ user[n].usable \in BOOLEAN
         /\ user[n].shown \in BOOLEAN
<1>1. user \in [Names -> {NoUser} \cup Rows]
  BY DEF Kinds, IdentityTypeOK, Rows
<1>2. ASSUME user[n] \in Rows
      PROVE  /\ user[n].id \in UserIds /\ user[n].secret \in 0..MaxSecrets
             /\ user[n].confirmed \in BOOLEAN /\ user[n].last \in 0..MaxStep
             /\ user[n].codes \subseteq Recovery /\ user[n].usable \in BOOLEAN
             /\ user[n].shown \in BOOLEAN
  BY <1>2 DEF Rows
<1>3. /\ NoUser.id = 0 /\ NoUser.secret = 0 /\ NoUser.last = 0 /\ NoUser.codes = {}
      /\ NoUser.confirmed = FALSE /\ NoUser.usable = FALSE /\ NoUser.shown = FALSE
  BY DEF NoUser
<1>4. 0 \in 0..MaxAccounts /\ 0 \in 0..MaxSecrets /\ 0 \in 0..MaxStep
  BY IdentityAssumption
<1>5. \A i \in UserIds : i # 0 /\ i \in 0..MaxAccounts
  BY IdentityAssumption DEF UserIds
<1>6. CASE user[n] = NoUser
  BY <1>1, <1>2, <1>3, <1>4, <1>5, <1>6 DEF Exists
<1>7. CASE user[n] \in Rows
  BY <1>1, <1>2, <1>3, <1>5, <1>7 DEF Exists
<1>8. QED
  BY <1>1, <1>6, <1>7

LEMMA Went ==
  ASSUME Kinds, NEW c \in Clients, NEW r, Fits(r), Go(c, r)
  PROVE  /\ req' \in [Clients -> Calls] /\ req'[c] = r
         /\ \A d \in Clients : Fits(req'[d]) /\ (d # c => req'[d] = req[d])
BY CallOf DEF Go, Fits, Kinds

(* Wherever a handler goes from where it is, it fits. *)
LEMMA Onward ==
  ASSUME Kinds, NEW c \in Clients, NEW at \in Steps, StepOf(req[c].op, at),
         req[c].op # "none", req[c].name \in Names,
         at \in {"known", "create", "mark", "lookup", "insert"} => req[c].subject \in Subjects,
         at = "mark" \/ (req[c].op = "callback" /\ at \in {"lookup", "insert"}) => req[c].id # 0,
         at \in {"unconfirmed", "enrol", "confirmed", "code"} => req[c].secret # 0
  PROVE  Fits([req[c] EXCEPT !.at = at])
<1>1. req[c] \in Calls /\ Fits(req[c])
  BY CallOf
<1>3. QED
  BY <1>1 DEF Fits, Calls

CallsFit == req \in [Clients -> Calls] /\ \A c \in Clients : Fits(req[c])

LEMMA FinishFits ==
  ASSUME Kinds, NEW c \in Clients, Finish(c)
  PROVE  CallsFit'
BY Went, RestFits DEF Finish, CallsFit

LEMMA OnFits ==
  ASSUME Kinds, NEW c \in Clients, NEW at \in Steps, StepOf(req[c].op, at),
         req[c].op # "none", req[c].name \in Names,
         at \in {"known", "create", "mark", "lookup", "insert"} => req[c].subject \in Subjects,
         at = "mark" \/ (req[c].op = "callback" /\ at \in {"lookup", "insert"}) => req[c].id # 0,
         at \in {"unconfirmed", "enrol", "confirmed", "code"} => req[c].secret # 0,
         On(c, at)
  PROVE  CallsFit'
BY Went, Onward DEF On, CallsFit

LEMMA EnrolmentCallsFit ==
  ASSUME Kinds, NEW c \in Clients,
         \/ CheckFresh(c) \/ WriteSecret(c) \/ ReadSealed(c)
         \/ \E step \in 1..MaxStep : EnterFirstCode(c, step)
         \/ Enrol(c) \/ SignOutOthers(c)
  PROVE  CallsFit'
<1>c. req[c] \in Calls /\ Fits(req[c])
  BY CallOf
<1>1. CASE CheckFresh(c)
  <2>1. req[c].op = "begin" /\ (Finish(c) \/ On(c, "write"))
    BY <1>1 DEF CheckFresh, At
  <2> QED BY <1>c, <2>1, FinishFits, OnFits DEF Fits, StepOf, Steps
<1>2. CASE WriteSecret(c)
  BY <1>2, FinishFits DEF WriteSecret
<1>3. CASE ReadSealed(c)
  <2> DEFINE k == user[Me(c)].secret
             r == [req[c] EXCEPT !.at = "unconfirmed", !.secret = k]
  <2>1. /\ req[c].op = "confirm" /\ req[c].at = "sealed"
        /\ Finish(c) \/ (k # 0 /\ Go(c, r))
    BY <1>3 DEF ReadSealed, At
  <2>2. Me(c) \in Names
    BY <1>c, <2>1 DEF Fits, Me
  <2>3. k \in 0..MaxSecrets
    BY <2>2, UserRow
  <2>4. k # 0 => Fits(r)
    BY <1>c, <2>1, <2>3 DEF Fits, Calls, StepOf, Steps
  <2> HIDE DEF k, r
  <2> QED BY <2>1, <2>4, FinishFits, Went DEF CallsFit
<1>4. ASSUME NEW step \in 1..MaxStep, EnterFirstCode(c, step) PROVE CallsFit'
  <2> DEFINE r == [req[c] EXCEPT !.at = "enrol", !.step = step]
  <2>1. /\ req[c].op = "confirm" /\ req[c].at = "unconfirmed"
        /\ Finish(c) \/ Go(c, r)
    BY <1>4 DEF EnterFirstCode, At
  <2>2. step \in 0..MaxStep
    BY IdentityAssumption
  <2>3. Fits(r)
    BY <1>c, <2>1, <2>2 DEF Fits, Calls, StepOf, Steps
  <2> HIDE DEF r
  <2> QED BY <2>1, <2>3, FinishFits, Went DEF CallsFit
<1>5. CASE Enrol(c)
  <2>1. req[c].op = "confirm" /\ (Finish(c) \/ On(c, "signout"))
    BY <1>5 DEF Enrol, At
  <2> QED BY <1>c, <2>1, FinishFits, OnFits DEF Fits, StepOf, Steps
<1>6. CASE SignOutOthers(c)
  BY <1>6, FinishFits DEF SignOutOthers
<1>7. QED
  BY <1>1, <1>2, <1>3, <1>4, <1>5, <1>6

LEMMA VerifyingCallsFit ==
  ASSUME Kinds, NEW c \in Clients,
         \/ ReadSecret(c) \/ ReadConfirmed(c)
         \/ \E k \in Recovery : SpendRecovery(c, k)
         \/ \E step \in 1..MaxStep : EnterCode(c, step)
         \/ Clear(c) \/ Reissue(c) \/ NeedsCode(c)
         \/ \E t \in Tokens : Mint(c, t)
  PROVE  CallsFit'
<1>c. req[c] \in Calls /\ Fits(req[c])
  BY CallOf
<1>p. ASSUME req[c].op \in Verifying, req[c].at = "code", Proved(c) PROVE CallsFit'
  <2>1. PICK at : at = AfterProof[req[c].op]
    OBVIOUS
  <2>2. at \in Steps /\ StepOf(req[c].op, at) /\ at \in {"mint", "clear", "reissue"}
    BY <1>p, <2>1 DEF AfterProof, Verifying, Steps, StepOf
  <2> DEFINE r == [req[c] EXCEPT !.at = at, !.factor = TRUE]
  <2>3. Fits(r)
    BY <1>c, <1>p, <2>2 DEF Fits, Calls, Verifying
  <2>4. Go(c, r)
    BY <1>p, <2>1 DEF Proved
  <2> HIDE DEF r
  <2> QED BY <2>3, <2>4, Went DEF CallsFit
<1>1. CASE ReadSecret(c)
  <2> DEFINE k == user[Me(c)].secret
             r == [req[c] EXCEPT !.at = "confirmed", !.secret = k]
  <2>1. /\ req[c].op \in Verifying /\ req[c].at = "read"
        /\ Finish(c) \/ (k # 0 /\ Go(c, r))
    BY <1>1 DEF ReadSecret, At
  <2>2. Me(c) \in Names
    BY <1>c, <2>1 DEF Fits, Me, Verifying
  <2>3. k \in 0..MaxSecrets
    BY <2>2, UserRow
  <2>4. k # 0 => Fits(r)
    BY <1>c, <2>1, <2>3 DEF Fits, Calls, StepOf, Steps, Verifying
  <2> HIDE DEF k, r
  <2> QED BY <2>1, <2>4, FinishFits, Went DEF CallsFit
<1>2. CASE ReadConfirmed(c)
  <2>1. /\ req[c].op \in Verifying /\ req[c].at = "confirmed"
        /\ Finish(c) \/ On(c, "code")
    BY <1>2 DEF ReadConfirmed, At
  <2> QED BY <1>c, <2>1, FinishFits, OnFits DEF Fits, StepOf, Steps, Verifying
<1>3. ASSUME NEW k \in Recovery, SpendRecovery(c, k) PROVE CallsFit'
  BY <1>3, <1>p DEF SpendRecovery, At
<1>4. ASSUME NEW step \in 1..MaxStep, EnterCode(c, step) PROVE CallsFit'
  BY <1>4, <1>p, FinishFits DEF EnterCode, At
<1>5. CASE Clear(c)
  BY <1>5, FinishFits DEF Clear
<1>6. CASE Reissue(c)
  BY <1>6, FinishFits DEF Reissue
<1>7. CASE NeedsCode(c)
  <2>1. /\ req[c].op = "login" /\ req[c].at = "needs"
        /\ On(c, "read") \/ On(c, "mint")
    BY <1>7 DEF NeedsCode, At
  <2> QED BY <1>c, <2>1, OnFits DEF Fits, StepOf, Steps
<1>8. ASSUME NEW t \in Tokens, Mint(c, t) PROVE CallsFit'
  BY <1>8, FinishFits DEF Mint
<1>9. QED
  BY <1>1, <1>2, <1>3, <1>4, <1>5, <1>6, <1>7, <1>8

LEMMA BegunCallsFit ==
  ASSUME Kinds, NEW c \in Clients,
         \/ \E t \in Tokens : \/ \E op \in {"begin", "confirm", "disable", "regenerate"} :
                                   Present(c, t, op, Nothing)
                              \/ \E s \in Subjects : Present(c, t, "unlink", s)
         \/ \E n \in Names : Login(c, n)
         \/ \E f \in Flows : Callback(c, f)
  PROVE  CallsFit'
<1>z. /\ 0 \in 0..MaxAccounts /\ 0 \in 0..MaxTokens /\ 0 \in 0..MaxSecrets
      /\ 0 \in 0..MaxStep
  BY IdentityAssumption
<1>p. ASSUME NEW t \in Tokens, NEW s \in Subjects \cup {Nothing},
             NEW op \in {"begin", "confirm", "disable", "regenerate", "unlink"},
             op = "unlink" => s \in Subjects, Present(c, t, op, s)
      PROVE  CallsFit'
  <2>1. PICK n \in Names : Begin(c, [Idle EXCEPT !.op = op, !.at = FirstStep[op], !.name = n,
                                     !.key = t, !.subject = s])
    BY <1>p DEF Present, Holder
  <2>2. PICK at : at = FirstStep[op]
    OBVIOUS
  <2>3. at \in {"fresh", "sealed", "read", "count"} /\ StepOf(op, at)
    BY <1>p, <2>2 DEF FirstStep, StepOf
  <2>4. t \in 0..MaxTokens
    BY IdentityAssumption DEF Tokens
  <2> DEFINE r == [Idle EXCEPT !.op = op, !.at = at, !.name = n, !.key = t, !.subject = s]
  <2>5. Fits(r)
    BY <1>z, <1>p, <2>3, <2>4, OpsAre DEF Fits, Calls, Idle, Steps
  <2>6. Go(c, r)
    BY <2>1, <2>2 DEF Begin
  <2> HIDE DEF r
  <2> QED BY <2>5, <2>6, Went DEF CallsFit
<1>1. ASSUME NEW n \in Names, Login(c, n) PROVE CallsFit'
  <2>1. user[n].id \in 0..MaxAccounts
    BY UserRow
  <2> DEFINE r == [Idle EXCEPT !.op = "login", !.at = "needs", !.name = n, !.id = user[n].id]
  <2>2. Fits(r)
    BY <1>z, <2>1, OpsAre DEF Fits, Calls, Idle, Steps, StepOf
  <2>3. Go(c, r)
    BY <1>1 DEF Login, Begin
  <2> HIDE DEF r
  <2> QED BY <2>2, <2>3, Went DEF CallsFit
<1>2. ASSUME NEW f \in Flows, Callback(c, f) PROVE CallsFit'
  <2>1. /\ flow[f].to \in Names \cup {Nobody} /\ flow[f].by \in 0..MaxAccounts
        /\ flow[f].to # Nobody => flow[f].by # 0
    BY DEF Kinds, IdentityTypeOK
  <2>2. PICK op : op = IF flow[f].to = Nobody THEN "callback" ELSE "link"
    OBVIOUS
  <2> DEFINE r == [Idle EXCEPT !.op = op, !.at = "exchange", !.name = flow[f].to,
                               !.id = flow[f].by]
  <2>3. Fits(r)
    BY <1>z, <2>1, <2>2, OpsAre DEF Fits, Calls, Idle, Steps, StepOf
  <2>4. Go(c, r)
    BY <1>2, <2>2 DEF Callback, Begin
  <2> HIDE DEF r
  <2> QED BY <2>3, <2>4, Went DEF CallsFit
<1>3. QED
  BY <1>p, <1>1, <1>2

LEMMA ProviderCallsFit ==
  ASSUME Kinds, NEW c \in Clients,
         \/ \E s \in Subjects \cup {Nothing} : Exchange(c, s)
         \/ KnownSubject(c) \/ CreateFor(c) \/ MarkUnusable(c)
         \/ LookupLink(c) \/ InsertLink(c)
         \/ CountLinks(c) \/ CheckUsable(c) \/ DeleteLink(c)
  PROVE  CallsFit'
<1>c. req[c] \in Calls /\ Fits(req[c])
  BY CallOf
<1>1. ASSUME NEW s \in Subjects \cup {Nothing}, Exchange(c, s) PROVE CallsFit'
  <2>1. PICK at : at = IF req[c].op = "link" THEN "lookup" ELSE "known"
    OBVIOUS
  <2> DEFINE r == [req[c] EXCEPT !.subject = s, !.at = at]
  <2>2. /\ req[c].op \in {"link", "callback"} /\ req[c].at = "exchange"
        /\ Finish(c) \/ (s \in Subjects /\ Go(c, r))
    BY <1>1, <2>1 DEF Exchange, At
  <2>3. s \in Subjects => Fits(r)
    BY <1>c, <2>1, <2>2 DEF Fits, Calls, StepOf, Steps
  <2> HIDE DEF r
  <2> QED BY <2>2, <2>3, FinishFits, Went DEF CallsFit
<1>2. CASE KnownSubject(c)
  <2>1. req[c].op = "callback" /\ req[c].at = "known"
    BY <1>2 DEF KnownSubject, At
  <2>2. \/ Finish(c)
        \/ \E n \in Names : Go(c, [req[c] EXCEPT !.at = "mint", !.name = n, !.id = user[n].id])
        \/ \E n \in Names : Go(c, [req[c] EXCEPT !.at = "create", !.name = n])
    BY <1>2 DEF KnownSubject, Holder
  <2>3. ASSUME NEW n \in Names
        PROVE  /\ Fits([req[c] EXCEPT !.at = "mint", !.name = n, !.id = user[n].id])
               /\ Fits([req[c] EXCEPT !.at = "create", !.name = n])
    <3>1. user[n].id \in 0..MaxAccounts
      BY UserRow
    <3> QED BY <1>c, <2>1, <3>1 DEF Fits, Calls, StepOf, Steps
  <2> QED BY <2>2, <2>3, FinishFits, Went DEF CallsFit
<1>3. CASE CreateFor(c)
  <2> DEFINE r == [req[c] EXCEPT !.at = "mark", !.id = made + 1]
  <2>1. /\ req[c].op = "callback" /\ req[c].at = "create" /\ made < MaxAccounts
        /\ Finish(c) \/ Go(c, r)
    BY <1>3 DEF CreateFor, At
  <2>2. made + 1 \in 0..MaxAccounts /\ made + 1 # 0
    BY <2>1, IdentityAssumption DEF Kinds, IdentityTypeOK
  <2>3. Fits(r)
    BY <1>c, <2>1, <2>2 DEF Fits, Calls, StepOf, Steps
  <2> HIDE DEF r
  <2> QED BY <2>1, <2>3, FinishFits, Went DEF CallsFit
<1>4. CASE MarkUnusable(c)
  <2>1. req[c].op = "callback" /\ req[c].at = "mark" /\ On(c, "lookup")
    BY <1>4 DEF MarkUnusable, At
  <2> QED BY <1>c, <2>1, OnFits DEF Fits, StepOf, Steps
<1>5. CASE LookupLink(c)
  <2>1. /\ req[c].op \in {"callback", "link"} /\ req[c].at = "lookup"
        /\ Finish(c) \/ On(c, "insert")
    BY <1>5 DEF LookupLink, At
  <2> QED BY <1>c, <2>1, FinishFits, OnFits DEF Fits, StepOf, Steps
<1>6. CASE InsertLink(c)
  <2>1. /\ req[c].at = "insert"
        /\ Finish(c) \/ (req[c].op = "callback" /\ On(c, "mint"))
    BY <1>6 DEF InsertLink, At
  <2> QED BY <1>c, <2>1, FinishFits, OnFits DEF Fits, StepOf, Steps
<1>7. CASE CountLinks(c)
  <2>1. req[c].op = "unlink" /\ (On(c, "usable") \/ On(c, "delete"))
    BY <1>7 DEF CountLinks, At
  <2> QED BY <1>c, <2>1, OnFits DEF Fits, StepOf, Steps
<1>8. CASE CheckUsable(c)
  <2>1. req[c].op = "unlink" /\ (Finish(c) \/ On(c, "delete"))
    BY <1>8 DEF CheckUsable, At
  <2> QED BY <1>c, <2>1, FinishFits, OnFits DEF Fits, StepOf, Steps
<1>9. CASE DeleteLink(c)
  BY <1>9, FinishFits DEF DeleteLink
<1>10. QED
  BY <1>1, <1>2, <1>3, <1>4, <1>5, <1>6, <1>7, <1>8, <1>9

LEMMA NextCallsFit ==
  ASSUME Kinds, IdentityNext
  PROVE  CallsFit'
<1>1. ASSUME UNCHANGED req PROVE CallsFit'
  BY <1>1, CallOf DEF CallsFit, Kinds, IdentityTypeOK, Calls
<1>2. CASE Restart
  BY <1>2, RestFits DEF Restart, CallsFit, Fits
<1>3. ASSUME NEW f \in Flows, Start(f) \/ (\E t \in Tokens : StartLink(t, f)) \/ ExpireFlow(f)
      PROVE  UNCHANGED req
  BY <1>3 DEF Start, StartLink, ExpireFlow
<1>4. ASSUME NEW n \in Names, Erase(n) \/ Join(n) PROVE UNCHANGED req
  BY <1>4 DEF Erase, Join
<1>5. CASE Tick
  BY <1>1, <1>5 DEF Tick
<1>6. QED
  BY <1>1, <1>2, <1>3, <1>4, <1>5, EnrolmentCallsFit, VerifyingCallsFit, BegunCallsFit,
     ProviderCallsFit DEF IdentityNext

UsersFit ==
  /\ user \in [Names -> {NoUser} \cup Rows]
  /\ \A m, n \in Names : Exists(m) /\ user[m].id = user[n].id => m = n
  /\ \A n \in Names : user[n].id <= made
  /\ made \in 0..MaxAccounts

UsedFits == used \in [secrets : 0..MaxSecrets, codes : 0..MaxCodes]

LEMMA UsersAre == ASSUME Kinds PROVE UsersFit /\ UsedFits
BY DEF UsersFit, UsedFits, Kinds, IdentityTypeOK, Rows

(* A row that is written keeps its id, is a new one's or is taken away.    *)
LEMMA RowWritten ==
  ASSUME Kinds, NEW n \in Names, NEW r \in {NoUser} \cup Rows,
         user' = [user EXCEPT ![n] = r],
         \/ r.id = user[n].id /\ made' = made
         \/ r.id = made + 1 /\ made' = made + 1 /\ made < MaxAccounts
         \/ r = NoUser /\ made' = made
  PROVE  UsersFit'
<1>1. UsersFit
  BY UsersAre
<1>2. /\ made \in Int /\ made >= 0 /\ made <= MaxAccounts /\ MaxAccounts \in Nat
      /\ made' \in 0..MaxAccounts /\ made <= made'
  BY <1>1, IdentityAssumption DEF UsersFit
<1>3. /\ user'[n] = r /\ \A m \in Names : m # n => user'[m] = user[m]
      /\ user' \in [Names -> {NoUser} \cup Rows]
  BY <1>1 DEF UsersFit
<1>4. \A m \in Names : user[m].id \in Nat /\ (Exists(m) <=> user[m].id # 0)
  BY UserRow
<1>5. r.id # 0 <=> r # NoUser
  BY DEF Rows, NoUser, UserIds
<1>6. NoUser.id = 0
  BY DEF NoUser
<1>7. \A m \in Names : user'[m].id <= made'
  <2>1. \A m \in Names : user[m].id <= made /\ user[m].id \in Nat
    BY <1>1, <1>4 DEF UsersFit
  <2>2. r.id <= made'
    BY <1>2, <1>6, <2>1
  <2> QED BY <1>2, <1>3, <2>1, <2>2
<1>8. \A m \in Names : Exists(m)' <=> user'[m].id # 0
  BY <1>3, <1>4, <1>5 DEF Exists
<1>9. ASSUME NEW l \in Names, NEW m \in Names, Exists(l)', user'[l].id = user'[m].id
      PROVE  l = m
  BY <1>1, <1>2, <1>3, <1>4, <1>6, <1>8, <1>9 DEF UsersFit
<1>10. QED
  BY <1>2, <1>3, <1>7, <1>9 DEF UsersFit

LEMMA RowEdited ==
  ASSUME Kinds, NEW n \in Names, NEW r, Exists(n) => r \in Rows,
         r.id = user[n].id, made' = made,
         user' = IF Exists(n) THEN [user EXCEPT ![n] = r] ELSE user
  PROVE  UsersFit'
<1>1. CASE Exists(n)
  BY <1>1, RowWritten
<1>2. CASE ~Exists(n)
  BY <1>2, UsersAre DEF UsersFit, Exists
<1>3. QED
  BY <1>1, <1>2

LEMMA NextUsersFit ==
  ASSUME Kinds, IdentityNext
  PROVE  UsersFit' /\ UsedFits'
<1>s. ASSUME UNCHANGED <<user, made>> PROVE UsersFit'
  BY <1>s, UsersAre DEF UsersFit, Exists
<1>u. ASSUME UNCHANGED used PROVE UsedFits'
  BY <1>u, UsersAre DEF UsedFits
<1>m. ASSUME NEW c \in Clients, req[c].op # "none",
             req[c].op = "callback" => req[c].at \notin {"exchange", "known"}
      PROVE  Me(c) \in Names
  BY <1>m, CallOf DEF Fits, Me
<1>1. ASSUME NEW c \in Clients, WriteSecret(c) PROVE UsersFit' /\ UsedFits'
  <2> DEFINE r == [user[Me(c)] EXCEPT !.secret = used.secrets + 1, !.confirmed = FALSE,
                                      !.last = 0]
  <2>1. Me(c) \in Names
    BY <1>1, <1>m DEF WriteSecret, At
  <2>2. used.secrets + 1 \in 0..MaxSecrets /\ 0 \in 0..MaxStep
    BY <1>1, UsersAre, IdentityAssumption DEF WriteSecret, UsedFits
  <2>r. user[Me(c)] \in Rows \/ (user[Me(c)] = NoUser /\ ~Exists(Me(c)))
    BY <2>1, UserRow DEF Exists
  <2>3. r.id = user[Me(c)].id /\ (Exists(Me(c)) => r \in Rows)
    BY <2>1, <2>2, <2>r DEF Rows, NoUser
  <2>4. UsersFit'
    <3>1. made' = made /\ user' = IF Exists(Me(c)) THEN [user EXCEPT ![Me(c)] = r] ELSE user
      BY <1>1 DEF WriteSecret
    <3> HIDE DEF r
    <3> QED BY <2>1, <2>3, <3>1, RowEdited
  <2>5. UsedFits'
    BY <1>1, <2>2, UsersAre DEF WriteSecret, UsedFits
  <2> QED BY <2>4, <2>5
<1>2. ASSUME NEW c \in Clients, Enrol(c) PROVE UsersFit' /\ UsedFits'
  <2> DEFINE r == [user[Me(c)] EXCEPT !.confirmed = TRUE, !.last = req[c].step,
                                      !.codes = {used.codes + 1}]
  <2>1. Me(c) \in Names /\ req[c].step \in 0..MaxStep
    BY <1>2, <1>m, CallOf DEF Enrol, At, Calls
  <2>2. used.codes + 1 \in Recovery /\ used.codes + 1 \in 0..MaxCodes
    BY <1>2, UsersAre, IdentityAssumption DEF Enrol, UsedFits, Recovery
  <2>r. user[Me(c)] \in Rows \/ (user[Me(c)] = NoUser /\ ~Exists(Me(c)))
    BY <2>1, UserRow DEF Exists
  <2>3. r.id = user[Me(c)].id /\ (Exists(Me(c)) => r \in Rows)
    BY <2>1, <2>2, <2>r DEF Rows, NoUser
  <2>4. UsersFit'
    <3>1. made' = made /\ user' = IF Exists(Me(c)) THEN [user EXCEPT ![Me(c)] = r] ELSE user
      BY <1>2 DEF Enrol
    <3> HIDE DEF r
    <3> QED BY <2>1, <2>3, <3>1, RowEdited
  <2>5. UsedFits'
    BY <1>2, <2>2, UsersAre DEF Enrol, UsedFits
  <2> QED BY <2>4, <2>5
<1>3. ASSUME NEW c \in Clients, NEW k \in Recovery, SpendRecovery(c, k)
      PROVE  UsersFit' /\ UsedFits'
  <2> DEFINE r == [user[Me(c)] EXCEPT !.codes = @ \ {k}]
  <2>1. Me(c) \in Names
    BY <1>3, <1>m DEF SpendRecovery, At, Verifying
  <2>2. user[Me(c)] \in Rows
    BY <1>3, <2>1, UserRow DEF SpendRecovery, NoUser
  <2>3. r.id = user[Me(c)].id /\ r \in Rows
    BY <2>2 DEF Rows
  <2>4. made' = made /\ user' = [user EXCEPT ![Me(c)] = r] /\ used' = used
    BY <1>3 DEF SpendRecovery
  <2> HIDE DEF r
  <2> QED BY <1>u, <2>1, <2>3, <2>4, RowWritten
<1>4. ASSUME NEW c \in Clients, NEW step \in 1..MaxStep, EnterCode(c, step)
      PROVE  UsersFit' /\ UsedFits'
  <2> DEFINE r == [user[Me(c)] EXCEPT !.last = step]
  <2>1. Me(c) \in Names
    BY <1>4, <1>m DEF EnterCode, At, Verifying
  <2>2. step \in 0..MaxStep
    BY IdentityAssumption
  <2>r. user[Me(c)] \in Rows \/ (user[Me(c)] = NoUser /\ ~Exists(Me(c)))
    BY <2>1, UserRow DEF Exists
  <2>3. r.id = user[Me(c)].id /\ (Exists(Me(c)) => r \in Rows)
    BY <2>1, <2>2, <2>r DEF Rows, NoUser
  <2>4. /\ made' = made /\ used' = used
        /\ user' = user \/ (Exists(Me(c)) /\ user' = [user EXCEPT ![Me(c)] = r])
    BY <1>4 DEF EnterCode
  <2> HIDE DEF r
  <2> QED BY <1>s, <1>u, <2>1, <2>3, <2>4, RowWritten
<1>5. ASSUME NEW c \in Clients, Clear(c) PROVE UsersFit' /\ UsedFits'
  <2> DEFINE r == [user[Me(c)] EXCEPT !.secret = 0, !.confirmed = FALSE, !.last = 0,
                                      !.codes = {}]
  <2>1. Me(c) \in Names
    BY <1>5, <1>m DEF Clear, At
  <2>2. 0 \in 0..MaxSecrets /\ 0 \in 0..MaxStep
    BY IdentityAssumption
  <2>r. user[Me(c)] \in Rows \/ (user[Me(c)] = NoUser /\ ~Exists(Me(c)))
    BY <2>1, UserRow DEF Exists
  <2>3. r.id = user[Me(c)].id /\ (Exists(Me(c)) => r \in Rows)
    BY <2>1, <2>2, <2>r DEF Rows, NoUser
  <2>4. /\ made' = made /\ used' = used
        /\ user' = IF Exists(Me(c)) THEN [user EXCEPT ![Me(c)] = r] ELSE user
    BY <1>5 DEF Clear
  <2> HIDE DEF r
  <2> QED BY <1>u, <2>1, <2>3, <2>4, RowEdited
<1>6. ASSUME NEW c \in Clients, Reissue(c) PROVE UsersFit' /\ UsedFits'
  <2> DEFINE r == [user[Me(c)] EXCEPT !.codes = {used.codes + 1}]
  <2>1. Me(c) \in Names
    BY <1>6, <1>m DEF Reissue, At
  <2>2. used.codes + 1 \in Recovery /\ used.codes + 1 \in 0..MaxCodes
    BY <1>6, UsersAre, IdentityAssumption DEF Reissue, UsedFits, Recovery
  <2>r. user[Me(c)] \in Rows \/ (user[Me(c)] = NoUser /\ ~Exists(Me(c)))
    BY <2>1, UserRow DEF Exists
  <2>3. r.id = user[Me(c)].id /\ (Exists(Me(c)) => r \in Rows)
    BY <2>1, <2>2, <2>r DEF Rows, NoUser
  <2>4. UsersFit'
    <3>1. /\ made' = made
          /\ user' = IF Exists(Me(c)) THEN [user EXCEPT ![Me(c)] = r] ELSE user
      BY <1>6 DEF Reissue
    <3> HIDE DEF r
    <3> QED BY <2>1, <2>3, <3>1, RowEdited
  <2>5. UsedFits'
    BY <1>6, <2>2, UsersAre DEF Reissue, UsedFits
  <2> QED BY <2>4, <2>5
<1>7. ASSUME NEW a \in BOOLEAN, NEW s \in BOOLEAN, made < MaxAccounts
      PROVE  /\ [NoUser EXCEPT !.id = made + 1, !.active = a, !.usable = TRUE, !.shown = s]
                  \in {r \in Rows : r.id = made + 1}
             /\ [NoUser EXCEPT !.id = made + 1, !.active = a, !.usable = TRUE]
                  \in {r \in Rows : r.id = made + 1}
  <2>1. made + 1 \in UserIds /\ 0 \in 0..MaxSecrets /\ 0 \in 0..MaxStep
    BY <1>7, UsersAre, IdentityAssumption DEF UsersFit, UserIds
  <2> QED BY <2>1 DEF Rows, NoUser
<1>8. ASSUME NEW c \in Clients, CreateFor(c) PROVE UsersFit' /\ UsedFits'
  <2>1. Me(c) \in Names
    BY <1>8, <1>m DEF CreateFor, At
  <2> DEFINE r == [NoUser EXCEPT !.id = made + 1, !.active = (opens = "account"),
                                 !.usable = TRUE]
  <2>2. /\ made < MaxAccounts /\ used' = used
        /\ \/ UNCHANGED <<user, made>>
           \/ made' = made + 1 /\ user' = [user EXCEPT ![Me(c)] = r]
    BY <1>8 DEF CreateFor
  <2>3. r \in Rows /\ r.id = made + 1
    BY <1>7, <2>2
  <2> HIDE DEF r
  <2> QED BY <1>s, <1>u, <2>1, <2>2, <2>3, RowWritten
<1>9. ASSUME NEW c \in Clients, MarkUnusable(c) PROVE UsersFit' /\ UsedFits'
  <2> DEFINE r == [user[Me(c)] EXCEPT !.usable = FALSE]
  <2>1. Me(c) \in Names
    BY <1>9, <1>m DEF MarkUnusable, At
  <2>r. user[Me(c)] \in Rows \/ (user[Me(c)] = NoUser /\ ~Exists(Me(c)))
    BY <2>1, UserRow DEF Exists
  <2>2. r.id = user[Me(c)].id /\ (Exists(Me(c)) => r \in Rows)
    BY <2>1, <2>r DEF Rows, NoUser
  <2>3. /\ made' = made /\ used' = used
        /\ user' = IF Exists(Me(c)) THEN [user EXCEPT ![Me(c)] = r] ELSE user
    BY <1>9 DEF MarkUnusable
  <2> HIDE DEF r
  <2> QED BY <1>u, <2>1, <2>2, <2>3, RowEdited
<1>10. ASSUME NEW n \in Names, Erase(n) PROVE UsersFit' /\ UsedFits'
  BY <1>10, <1>u, RowWritten DEF Erase
<1>11. ASSUME NEW n \in Names, Join(n) PROVE UsersFit' /\ UsedFits'
  <2> DEFINE r == [NoUser EXCEPT !.id = made + 1, !.active = TRUE, !.usable = TRUE,
                                 !.shown = TRUE]
  <2>1. /\ made < MaxAccounts /\ made' = made + 1 /\ used' = used
        /\ user' = [user EXCEPT ![n] = r]
    BY <1>11 DEF Join
  <2>2. r \in Rows /\ r.id = made + 1
    BY <1>7, <2>1
  <2> HIDE DEF r
  <2> QED BY <1>u, <2>1, <2>2, RowWritten
<1>12. ASSUME UNCHANGED <<user, made, used>> PROVE UsersFit' /\ UsedFits'
  BY <1>s, <1>u, <1>12
<1>13. QED
  <2>1. ASSUME NEW c \in Clients, WritesRows(c) PROVE UsersFit' /\ UsedFits'
    BY <1>1, <1>2, <1>3, <1>4, <1>5, <1>6, <1>8, <1>9, <2>1 DEF WritesRows
  <2>2. ASSUME NEW c \in Clients, WritesOthers(c) PROVE UNCHANGED <<user, made, used>>
    BY <2>2 DEF WritesOthers, SignOutOthers, InsertLink, DeleteLink, Mint, Callback
  <2>3. ASSUME NEW f \in Flows, Departs(f) PROVE UNCHANGED <<user, made, used>>
    BY <2>3 DEF Departs, Start, ExpireFlow, StartLink
  <2>4. UNCHANGED tables \/ Tick \/ Restart => UNCHANGED <<user, made, used>>
    BY DEF tables, Tick, Restart
  <2> QED BY <1>10, <1>11, <1>12, <2>1, <2>2, <2>3, <2>4, Effects

(* History only grows. *)
Grown ==
  /\ past.crossed \subseteq past'.crossed /\ past.proved \subseteq past'.proved
  /\ past.spared \subseteq past'.spared /\ past.late \subseteq past'.late
  /\ past.torn \subseteq past'.torn /\ past.accepted \subseteq past'.accepted
  /\ past.consent \subseteq past'.consent /\ past.strayed \subseteq past'.strayed
  /\ past.orphans \subseteq past'.orphans /\ past.parted \subseteq past'.parted

LEMMA TakenFits ==
  ASSUME Kinds, NEW n, NEW c, made < MaxAccounts
  PROVE  /\ Taken(n, c) \in Remembered
         /\ past.crossed \subseteq Taken(n, c).crossed /\ past.proved = Taken(n, c).proved
         /\ past.spared = Taken(n, c).spared /\ past.late = Taken(n, c).late
         /\ past.torn = Taken(n, c).torn /\ past.accepted = Taken(n, c).accepted
         /\ past.twice = Taken(n, c).twice
         /\ past.consent = Taken(n, c).consent /\ past.strayed = Taken(n, c).strayed
         /\ past.orphans = Taken(n, c).orphans
         /\ past.parted \subseteq Taken(n, c).parted
         /\ Enrolling(n, c) => made + 1 \in Taken(n, c).crossed
         /\ Unlinking(n, c) => made + 1 \in Taken(n, c).parted
<1>1. past \in Remembered /\ made + 1 \in 0..MaxAccounts
  BY UsersAre, IdentityAssumption DEF UsersFit, Kinds
<1>2. QED
  BY <1>1 DEF Taken, Remembered

LEMMA NextPastFits ==
  ASSUME Kinds, IdentityNext
  PROVE  past' \in Remembered /\ Grown
<1>p. past \in Remembered
  BY DEF Kinds
<1>0. ASSUME UNCHANGED past PROVE past' \in Remembered /\ Grown
  BY <1>p, <1>0 DEF Grown
<1>n. ASSUME NEW c \in Clients, req[c].op # "none",
             req[c].op = "callback" => req[c].at \notin {"exchange", "known"}
      PROVE  Me(c) \in Names /\ user[Me(c)].id \in 0..MaxAccounts
  BY <1>n, CallOf, UserRow DEF Fits, Me
<1>c. ASSUME NEW c \in Clients, req[c].op \in {"begin", "disable"}, Crossed(c)
      PROVE  past' \in Remembered /\ Grown
  BY <1>c, <1>n, <1>p DEF Crossed, Remembered, Grown
<1>m. made \in 0..MaxAccounts /\ (made < MaxAccounts => made + 1 \in 0..MaxAccounts)
  BY UsersAre, IdentityAssumption DEF UsersFit
<1>1. ASSUME NEW c \in Clients, WriteSecret(c) \/ Clear(c) PROVE past' \in Remembered /\ Grown
  BY <1>1, <1>c DEF WriteSecret, Clear, At
<1>2. ASSUME NEW c \in Clients, Enrol(c) PROVE past' \in Remembered /\ Grown
  <2>1. /\ req[c].secret \in 0..MaxSecrets /\ req[c].key \in 0..MaxTokens
        /\ user[Me(c)].id \in 0..MaxAccounts
    BY <1>2, <1>n, CallOf DEF Enrol, At, Calls
  <2>2. \/ past' = past
        \/ \E ids \in {past.crossed, past.crossed \cup {user[Me(c)].id}} :
             past' = [past EXCEPT !.proved = @ \cup {req[c].secret},
                                  !.spared = @ \cup {req[c].key}, !.crossed = ids]
    BY <1>2 DEF Enrol
  <2>3. ASSUME NEW ids \in SUBSET (0..MaxAccounts), NEW ks \in SUBSET (0..MaxSecrets),
               NEW ts \in SUBSET (0..MaxTokens), past.crossed \subseteq ids,
               past.proved \subseteq ks, past.spared \subseteq ts,
               past' = [past EXCEPT !.proved = ks, !.spared = ts, !.crossed = ids]
        PROVE  past' \in Remembered /\ Grown
    BY <1>p, <2>3 DEF Remembered, Grown
  <2>4. /\ past.crossed \cup {user[Me(c)].id} \in SUBSET (0..MaxAccounts)
        /\ past.crossed \in SUBSET (0..MaxAccounts)
        /\ past.proved \cup {req[c].secret} \in SUBSET (0..MaxSecrets)
        /\ past.spared \cup {req[c].key} \in SUBSET (0..MaxTokens)
    BY <1>p, <2>1 DEF Remembered
  <2>5. CASE past' = past
    BY <1>0, <2>5
  <2>6. ASSUME NEW ids \in {past.crossed, past.crossed \cup {user[Me(c)].id}},
               past' = [past EXCEPT !.proved = @ \cup {req[c].secret},
                                    !.spared = @ \cup {req[c].key}, !.crossed = ids]
        PROVE  past' \in Remembered /\ Grown
    <3>1. PICK ks, ts : /\ ks = past.proved \cup {req[c].secret}
                        /\ ts = past.spared \cup {req[c].key}
      OBVIOUS
    <3>2. past' = [past EXCEPT !.proved = ks, !.spared = ts, !.crossed = ids]
      BY <2>6, <3>1
    <3>3. /\ ks \in SUBSET (0..MaxSecrets) /\ ts \in SUBSET (0..MaxTokens)
          /\ ids \in SUBSET (0..MaxAccounts) /\ past.crossed \subseteq ids
          /\ past.proved \subseteq ks /\ past.spared \subseteq ts
      BY <2>4, <2>6, <3>1
    <3> QED BY <2>3, <3>2, <3>3
  <2> QED BY <2>2, <2>5, <2>6
<1>3. ASSUME NEW c \in Clients, NEW step \in 1..MaxStep, EnterCode(c, step)
      PROVE  past' \in Remembered /\ Grown
  <2>1. /\ req[c].secret \in Secrets /\ step \in 0..MaxStep
    BY <1>3, CallOf, IdentityAssumption DEF EnterCode, At, Calls, Fits, Secrets
  <2>2. Me(c) \in Names /\ user[Me(c)].confirmed \in BOOLEAN /\ past.twice \in BOOLEAN
    BY <1>3, <1>n, <1>p, UserRow DEF EnterCode, At, Verifying, Remembered
  <2>3. \/ past' = past
        \/ \E b \in BOOLEAN :
             past' = [past EXCEPT !.accepted = @ \cup {<<req[c].secret, step>>}, !.twice = b]
    BY <1>3, <2>2 DEF EnterCode
  <2>4. ASSUME NEW cs \in SUBSET (Secrets \X (0..MaxStep)), NEW b \in BOOLEAN,
               past.accepted \subseteq cs,
               past' = [past EXCEPT !.accepted = cs, !.twice = b]
        PROVE  past' \in Remembered /\ Grown
    BY <1>p, <2>4 DEF Remembered, Grown
  <2>5. past.accepted \cup {<<req[c].secret, step>>} \in SUBSET (Secrets \X (0..MaxStep))
    BY <1>p, <2>1 DEF Remembered
  <2> QED BY <1>0, <2>3, <2>4, <2>5
<1>4. ASSUME NEW c \in Clients, NEW t \in Tokens, Mint(c, t) PROVE past' \in Remembered /\ Grown
  BY <1>4, <1>p DEF Mint, Remembered, Grown
<1>5. ASSUME NEW c \in Clients, NEW s \in Subjects \cup {Nothing}, Exchange(c, s)
      PROVE  past' \in Remembered /\ Grown
  <2>1. req[c].id \in 0..MaxAccounts /\ (s # Nothing => s \in Subjects)
    BY CallOf DEF Calls
  <2> QED BY <1>5, <1>p, <2>1 DEF Exchange, Remembered, Grown
<1>t. ASSUME NEW n, NEW c, made < MaxAccounts
      PROVE  /\ Taken(n, c) \in Remembered
             /\ past.crossed \subseteq Taken(n, c).crossed /\ past.proved = Taken(n, c).proved
             /\ past.spared = Taken(n, c).spared /\ past.late = Taken(n, c).late
             /\ past.torn = Taken(n, c).torn /\ past.accepted = Taken(n, c).accepted
             /\ past.consent = Taken(n, c).consent /\ past.strayed = Taken(n, c).strayed
             /\ past.orphans = Taken(n, c).orphans
             /\ past.parted \subseteq Taken(n, c).parted
  BY <1>t, TakenFits
<1>6. ASSUME NEW c \in Clients, CreateFor(c) PROVE past' \in Remembered /\ Grown
  <2>1. /\ made < MaxAccounts
        /\ \/ past' = past
           \/ past' = [Taken(Me(c), c) EXCEPT !.consent = @ \cup {<<req[c].subject, made + 1>>}]
    BY <1>6 DEF CreateFor
  <2>2. PICK q : q = Taken(Me(c), c)
    OBVIOUS
  <2>3. req[c].subject \in Subjects
    BY <1>6, CallOf DEF CreateFor, At, Fits
  <2> QED BY <1>0, <1>m, <1>t, <2>1, <2>2, <2>3 DEF Remembered, Grown
<1>7. ASSUME NEW n \in Names, Join(n) PROVE past' \in Remembered /\ Grown
  <2>1. made < MaxAccounts /\ past' = Taken(n, Nobody)
    BY <1>7 DEF Join
  <2> QED BY <1>t, <2>1 DEF Grown
<1>8. ASSUME NEW c \in Clients, LookupLink(c) \/ InsertLink(c) PROVE past' \in Remembered /\ Grown
  <2>1. req[c].id \in 0..MaxAccounts /\ req[c].subject \in Subjects
    BY <1>8, CallOf DEF LookupLink, InsertLink, At, Calls, Fits
  <2> QED BY <1>8, <1>p, <2>1 DEF LookupLink, InsertLink, Unlinked, Remembered, Grown
<1>9. ASSUME NEW c \in Clients, CheckUsable(c) \/ DeleteLink(c) PROVE past' \in Remembered /\ Grown
  <2>1. user[Me(c)].id \in 0..MaxAccounts
    BY <1>9, <1>n DEF CheckUsable, DeleteLink, At
  <2> QED BY <1>9, <1>p, <2>1 DEF CheckUsable, DeleteLink, Unmarked, Remembered, Grown
<1>10. CASE Restart
  <2>1. {user[Me(c)].id : c \in {d \in Clients : At(d, {"confirm"}, "signout")}}
          \subseteq 0..MaxAccounts
    BY <1>n DEF At
  <2>2. {req[c].id : c \in {d \in Clients : At(d, {"callback"}, req[d].at) /\ req[d].id # 0}}
          \subseteq 0..MaxAccounts
    BY CallOf DEF Calls
  <2> QED BY <1>10, <1>p, <2>1, <2>2 DEF Restart, Remembered, Grown
<1>11. QED
  BY <1>0, <1>1, <1>2, <1>3, <1>4, <1>5, <1>6, <1>7, <1>8, <1>9, <1>10
     DEF IdentityNext, Present, CheckFresh, ReadSealed, EnterFirstCode, SignOutOthers,
         ReadSecret, ReadConfirmed, SpendRecovery, Reissue, Login, NeedsCode, Start, StartLink,
         ExpireFlow, Callback, KnownSubject, MarkUnusable, CountLinks, Erase, Tick

FlowsFit ==
  /\ flow \in [Flows -> [state : {"none", "live", "gone"},
                         to : Names \cup {Nobody}, by : 0..MaxAccounts]]
  /\ \A f \in Flows : flow[f].to # Nobody => flow[f].by # 0

OthersFit ==
  /\ opens \in {"nothing", "account", "pending"} /\ strict \in BOOLEAN
  /\ clock \in 1..MaxStep
  /\ link \in [Subjects -> 0..MaxAccounts]
  /\ token \in [Tokens -> {Unminted} \cup
       [state : {"live", "gone"}, owner : UserIds,
        how : {"plain", "factor", "provider"}]]
  /\ FlowsFit
  /\ issued \in 0..MaxRequests

LEMMA StillTime ==
  ASSUME IdentityNext
  PROVE  (UNCHANGED <<config, clock>> \/ Tick) /\ (UNCHANGED issued \/ Counted)
<1> DEFINE Calm == (UNCHANGED <<config, clock>> \/ Tick) /\ (UNCHANGED issued \/ Counted)
<1>1. ASSUME NEW c \in Clients,
             \/ \E t \in Tokens : \/ \E op \in {"begin", "confirm", "disable", "regenerate"} :
                                       Present(c, t, op, Nothing)
                                  \/ \E s \in Subjects : Present(c, t, "unlink", s)
                                  \/ Mint(c, t)
             \/ (\E n \in Names : Login(c, n)) \/ NeedsCode(c)
             \/ \E f \in Flows : Callback(c, f)
      PROVE  Calm
  BY <1>1 DEF Present, Mint, Login, NeedsCode, Callback, Begin, tables
<1>2. ASSUME NEW c \in Clients,
             \/ CheckFresh(c) \/ WriteSecret(c) \/ ReadSealed(c)
             \/ \E step \in 1..MaxStep : EnterFirstCode(c, step)
             \/ Enrol(c) \/ SignOutOthers(c)
      PROVE  Calm
  BY <1>2 DEF CheckFresh, WriteSecret, ReadSealed, EnterFirstCode, Enrol, SignOutOthers, tables
<1>3. ASSUME NEW c \in Clients,
             \/ ReadSecret(c) \/ ReadConfirmed(c)
             \/ \E k \in Recovery : SpendRecovery(c, k)
             \/ \E step \in 1..MaxStep : EnterCode(c, step)
             \/ Clear(c) \/ Reissue(c)
      PROVE  Calm
  BY <1>3 DEF ReadSecret, ReadConfirmed, SpendRecovery, EnterCode, Clear, Reissue, tables
<1>4. ASSUME NEW c \in Clients,
             \/ \E s \in Subjects \cup {Nothing} : Exchange(c, s)
             \/ KnownSubject(c) \/ CreateFor(c) \/ MarkUnusable(c)
             \/ LookupLink(c) \/ InsertLink(c)
             \/ CountLinks(c) \/ CheckUsable(c) \/ DeleteLink(c)
      PROVE  Calm
  BY <1>4 DEF Exchange, KnownSubject, CreateFor, MarkUnusable, LookupLink, InsertLink,
              CountLinks, CheckUsable, DeleteLink, tables
<1>5. ASSUME NEW f \in Flows, Start(f) \/ (\E t \in Tokens : StartLink(t, f)) \/ ExpireFlow(f)
      PROVE  Calm
  BY <1>5 DEF Start, StartLink, ExpireFlow
<1>6. ASSUME NEW n \in Names, Erase(n) \/ Join(n) PROVE Calm
  BY <1>6 DEF Erase, Join
<1>7. ASSUME Tick \/ Restart PROVE Calm
  BY <1>7 DEF Tick, Restart
<1> HIDE DEF Calm
<1>8. Calm
  BY <1>1, <1>2, <1>3, <1>4, <1>5, <1>6, <1>7 DEF IdentityNext
<1>9. QED
  BY <1>8 DEF Calm

(* Which steps write the tables of tokens and of links.                    *)
LEMMA TokensMove ==
  ASSUME IdentityNext
  PROVE  \/ UNCHANGED token \/ (\E c \in Clients : SignOutOthers(c))
         \/ (\E c \in Clients, t \in Tokens : Mint(c, t)) \/ \E n \in Names : Erase(n)
<1>1. ASSUME NEW c \in Clients, WritesRows(c) PROVE UNCHANGED token
  BY <1>1 DEF WritesRows, WriteSecret, Enrol, Clear, Reissue, CreateFor, MarkUnusable,
              SpendRecovery, EnterCode
<1>2. ASSUME NEW c \in Clients, WritesOthers(c)
      PROVE  UNCHANGED token \/ SignOutOthers(c) \/ \E t \in Tokens : Mint(c, t)
  BY <1>2 DEF WritesOthers, InsertLink, DeleteLink, Callback
<1>3. ASSUME NEW f \in Flows, Departs(f) PROVE UNCHANGED token
  BY <1>3 DEF Departs, Start, ExpireFlow, StartLink
<1>4. UNCHANGED tables \/ Tick \/ Restart \/ (\E n \in Names : Join(n)) => UNCHANGED token
  BY DEF tables, Tick, Restart, Join
<1>5. QED
  BY <1>1, <1>2, <1>3, <1>4, Effects

LEMMA LinksMove ==
  ASSUME IdentityNext
  PROVE  \/ UNCHANGED link \/ (\E c \in Clients : InsertLink(c) \/ DeleteLink(c))
         \/ \E n \in Names : Erase(n)
<1>1. ASSUME NEW c \in Clients, WritesRows(c) PROVE UNCHANGED link
  BY <1>1 DEF WritesRows, WriteSecret, Enrol, Clear, Reissue, CreateFor, MarkUnusable,
              SpendRecovery, EnterCode
<1>2. ASSUME NEW c \in Clients, WritesOthers(c)
      PROVE  UNCHANGED link \/ InsertLink(c) \/ DeleteLink(c)
  BY <1>2 DEF WritesOthers, SignOutOthers, Mint, Callback
<1>3. ASSUME NEW f \in Flows, Departs(f) PROVE UNCHANGED link
  BY <1>3 DEF Departs, Start, ExpireFlow, StartLink
<1>4. UNCHANGED tables \/ Tick \/ Restart \/ (\E n \in Names : Join(n)) => UNCHANGED link
  BY DEF tables, Tick, Restart, Join
<1>5. QED
  BY <1>1, <1>2, <1>3, <1>4, Effects

LEMMA NextOthersFit ==
  ASSUME Kinds, IdentityNext
  PROVE  OthersFit'
<1>o. OthersFit
  BY DEF OthersFit, FlowsFit, Kinds, IdentityTypeOK
<1>1. UNCHANGED config /\ clock' \in 1..MaxStep
  <2>1. ASSUME Tick PROVE UNCHANGED config /\ clock' \in 1..MaxStep
    BY <1>o, <2>1, IdentityAssumption DEF Tick, OthersFit
  <2>2. UNCHANGED <<config, clock>> \/ Tick
    BY StillTime
  <2> QED BY <1>o, <2>1, <2>2 DEF OthersFit
<1>2. issued' \in 0..MaxRequests
  <2>1. UNCHANGED issued \/ Counted
    BY StillTime
  <2> QED BY <1>o, <2>1, IdentityAssumption DEF OthersFit, Counted
<1>3. link' \in [Subjects -> 0..MaxAccounts]
  <2>0. 0 \in 0..MaxAccounts
    BY IdentityAssumption
  <2>1. ASSUME NEW c \in Clients, InsertLink(c) PROVE link' \in [Subjects -> 0..MaxAccounts]
    <3>1. Me(c) \in Names
      BY <2>1, CallOf DEF InsertLink, At, Fits, Me
    <3>2. user[Me(c)].id \in 0..MaxAccounts
      BY <3>1, UserRow
    <3> QED BY <1>o, <2>1, <3>2 DEF InsertLink, OthersFit
  <2>2. ASSUME NEW c \in Clients, DeleteLink(c) PROVE link' \in [Subjects -> 0..MaxAccounts]
    BY <1>o, <2>0, <2>2 DEF DeleteLink, OthersFit
  <2>3. ASSUME NEW n \in Names, Erase(n) PROVE link' \in [Subjects -> 0..MaxAccounts]
    BY <1>o, <2>0, <2>3 DEF Erase, OthersFit
  <2> QED BY <1>o, <2>1, <2>2, <2>3, LinksMove DEF OthersFit
<1>4. token' \in [Tokens -> {Unminted} \cup [state : {"live", "gone"}, owner : UserIds,
                                             how : {"plain", "factor", "provider"}]]
  <2> DEFINE S == [state : {"live", "gone"}, owner : UserIds,
                   how : {"plain", "factor", "provider"}]
  <2>1. ASSUME NEW c \in Clients, SignOutOthers(c) PROVE token' \in [Tokens -> {Unminted} \cup S]
    <3>1. Me(c) \in Names
      BY <2>1, CallOf DEF SignOutOthers, At, Fits, Me
    <3>2. Exists(Me(c)) => user[Me(c)].id # 0
      BY <3>1, UserRow
    <3>3. ASSUME NEW t \in Tokens, token[t].owner # 0
          PROVE  [token[t] EXCEPT !.state = "gone"] \in S
      BY <1>o, <3>3 DEF OthersFit, Unminted
    <3> HIDE DEF S
    <3> QED BY <1>o, <2>1, <3>2, <3>3 DEF SignOutOthers, OthersFit, S
  <2>2. ASSUME NEW c \in Clients, NEW t \in Tokens, Mint(c, t)
        PROVE  token' \in [Tokens -> {Unminted} \cup S]
    <3>1. Me(c) \in Names
      BY <2>2, CallOf DEF Mint, At, Fits, Me
    <3>2. Exists(Me(c)) => user[Me(c)].id \in UserIds
      BY <3>1, UserRow, IdentityAssumption DEF UserIds
    <3>3. PICK how \in {"plain", "factor", "provider"} :
            how = IF req[c].op = "callback" THEN "provider"
                  ELSE IF req[c].factor THEN "factor" ELSE "plain"
      OBVIOUS
    <3> QED BY <1>o, <2>2, <3>2, <3>3 DEF Mint, OthersFit
  <2>3. ASSUME NEW n \in Names, Erase(n) PROVE token' \in [Tokens -> {Unminted} \cup S]
    <3>1. user[n].id # 0
      BY <2>3, UserRow DEF Erase
    <3>2. ASSUME NEW t \in Tokens, token[t].owner # 0
          PROVE  [token[t] EXCEPT !.state = "gone"] \in S
      BY <1>o, <3>2 DEF OthersFit, Unminted
    <3> HIDE DEF S
    <3> QED BY <1>o, <2>3, <3>1, <3>2 DEF Erase, OthersFit, S
  <2> QED BY <1>o, <2>1, <2>2, <2>3, TokensMove DEF OthersFit
<1>5. FlowsFit'
  <2>1. ASSUME NEW f \in Flows, NEW n \in Names, Exists(n),
               flow' = [flow EXCEPT ![f] = [state |-> "live", to |-> n, by |-> user[n].id]]
        PROVE  FlowsFit'
    BY <1>o, <2>1, UserRow DEF OthersFit, FlowsFit
  <2>2. ASSUME NEW f \in Flows, NEW st \in {"live", "gone"},
               flow' = [flow EXCEPT ![f].state = st]
        PROVE  FlowsFit'
    BY <1>o, <2>2 DEF OthersFit, FlowsFit
  <2>3. ASSUME Restart PROVE FlowsFit'
    BY <1>o, <2>3 DEF OthersFit, FlowsFit, Restart, NoFlow
  <2>4. ASSUME NEW f \in Flows, NEW t \in Tokens, StartLink(t, f) PROVE FlowsFit'
    BY <2>1, <2>4, UserRow DEF StartLink, Holder
  <2>5. ASSUME NEW f \in Flows, Start(f) \/ ExpireFlow(f) \/ \E c \in Clients : Callback(c, f)
        PROVE  FlowsFit'
    BY <2>2, <2>5 DEF Start, ExpireFlow, Callback
  <2>6. \/ UNCHANGED flow \/ Restart
        \/ \E f \in Flows : \/ Start(f) \/ ExpireFlow(f) \/ (\E c \in Clients : Callback(c, f))
                            \/ \E t \in Tokens : StartLink(t, f)
    <3>1. ASSUME NEW c \in Clients, WritesRows(c) PROVE UNCHANGED flow
      BY <3>1 DEF WritesRows, WriteSecret, Enrol, Clear, Reissue, CreateFor, MarkUnusable,
                  SpendRecovery, EnterCode
    <3>2. ASSUME NEW c \in Clients, WritesOthers(c)
          PROVE  UNCHANGED flow \/ \E f \in Flows : Callback(c, f)
      BY <3>2 DEF WritesOthers, SignOutOthers, Mint, InsertLink, DeleteLink
    <3>3. UNCHANGED tables \/ Tick \/ (\E n \in Names : Erase(n) \/ Join(n)) => UNCHANGED flow
      BY DEF tables, Tick, Erase, Join
    <3> QED BY <3>1, <3>2, <3>3, Effects DEF Departs
  <2> QED BY <1>o, <2>3, <2>4, <2>5, <2>6 DEF OthersFit, FlowsFit
<1>6. QED
  BY <1>o, <1>1, <1>2, <1>3, <1>4, <1>5 DEF OthersFit, config, Unminted

LEMMA NextKinds ==
  ASSUME Kinds, IdentityNext
  PROVE  Kinds'
<1>1. CallsFit' /\ UsersFit' /\ UsedFits' /\ past' \in Remembered /\ OthersFit'
  BY NextCallsFit, NextUsersFit, NextPastFits, NextOthersFit
<1>2. IdentityTypeOK'
  BY <1>1 DEF IdentityTypeOK, CallsFit, UsersFit, UsedFits, OthersFit, FlowsFit, Calls, Rows
<1>3. QED
  BY <1>1, <1>2 DEF Kinds, CallsFit, UsersFit, OthersFit, FlowsFit, Remembered, Fits

----------------------------------------------------------------------------
(* How handlers and tables move *)

(* Where a handler may have come from, for each part of the invariant.     *)
Moved(d) ==
  /\ \/ req'[d].secret = 0 \/ ReadSealed(d) \/ ReadSecret(d) \/ ReadConfirmed(d)
     \/ /\ req'[d].secret = req[d].secret /\ req'[d].name = req[d].name
        /\ req'[d].at = "code" => req[d].at = "code"
  /\ req'[d].at \in {"write", "unconfirmed", "enrol"} =>
       \/ req'[d] = req[d] \/ CheckFresh(d) \/ ReadSealed(d)
       \/ \E step \in 1..MaxStep : EnterFirstCode(d, step)
  /\ req'[d].at = "signout" => req'[d] = req[d] \/ Enrol(d)
  /\ Linking(d)' => \/ CreateFor(d) \/ \E s \in Subjects \cup {Nothing} : Exchange(d, s)
                    \/ /\ Linking(d) /\ req'[d].op = req[d].op
                       /\ req'[d].name = req[d].name /\ req'[d].id = req[d].id
                       /\ req'[d].subject = req[d].subject
  /\ req'[d].at = "delete" => req'[d] = req[d] \/ CountLinks(d) \/ CheckUsable(d)

LEMMA MovedOne ==
  ASSUME Kinds, IdentityNext, NEW c \in Clients, Go(c, req'[c]), Moved(c)
  PROVE  \A d \in Clients : Moved(d)
<1>1. ASSUME NEW d \in Clients, d # c PROVE Moved(d)
  <2>1. req'[d] = req[d]
    BY <1>1, CallOf DEF Go
  <2> QED BY <2>1 DEF Moved, Linking
<1>2. QED
  BY <1>1

LEMMA MovedToRest ==
  ASSUME Kinds, NEW c \in Clients, Finish(c)
  PROVE  req'[c] = Idle /\ Go(c, req'[c]) /\ Moved(c)
BY CallOf DEF Finish, Go, Idle, Moved, Linking

LEMMA HandlersMove ==
  ASSUME Kinds, IdentityNext
  PROVE  \A d \in Clients : Moved(d)
<1>0. ASSUME UNCHANGED req PROVE \A d \in Clients : Moved(d)
  BY <1>0 DEF Moved, Linking
<1>f. ASSUME NEW c \in Clients, Finish(c) PROVE \A d \in Clients : Moved(d)
  BY <1>f, MovedToRest, MovedOne
<1>g. ASSUME NEW c \in Clients, NEW r, Go(c, r), req'[c] = r => Moved(c)
      PROVE  \A d \in Clients : Moved(d)
  <2>1. req'[c] = r
    BY <1>g, CallOf DEF Go
  <2> QED BY <1>g, <2>1, MovedOne
<1>c. ASSUME NEW c \in Clients PROVE req[c] \in Calls /\ Fits(req[c])
  BY CallOf
<1>o. ASSUME NEW c \in Clients, NEW at, On(c, at),
             at \notin {"write", "unconfirmed", "enrol", "signout", "delete", "code"},
             at \in {"lookup", "insert", "mark"} => Linking(c)
      PROVE  \A d \in Clients : Moved(d)
  <2> DEFINE r == [req[c] EXCEPT !.at = at]
  <2>1. /\ r.op = req[c].op /\ r.at = at /\ r.secret = req[c].secret /\ r.id = req[c].id
        /\ r.name = req[c].name /\ r.subject = req[c].subject
    BY <1>c DEF Calls
  <2>2. Go(c, r)
    BY <1>o DEF On
  <2> HIDE DEF r
  <2>3. req'[c] = r => Moved(c)
    BY <1>o, <2>1 DEF Moved, Linking
  <2> QED BY <1>g, <2>2, <2>3
<1>b. ASSUME NEW c \in Clients, NEW r, Begin(c, r), r.secret = 0,
             r.at \in {"fresh", "sealed", "read", "count", "needs", "exchange"}
      PROVE  \A d \in Clients : Moved(d)
  <2>1. Go(c, r) /\ (req'[c] = r => Moved(c))
    BY <1>b DEF Begin, Moved, Linking
  <2> QED BY <1>g, <2>1
<1>1. ASSUME NEW c \in Clients, NEW t \in Tokens, NEW s,
             NEW op \in {"begin", "confirm", "disable", "regenerate", "unlink"},
             Present(c, t, op, s)
      PROVE  \A d \in Clients : Moved(d)
  <2>1. PICK n : Begin(c, [Idle EXCEPT !.op = op, !.at = FirstStep[op], !.name = n,
                                     !.key = t, !.subject = s])
    BY <1>1 DEF Present
  <2>2. PICK at : at = FirstStep[op]
    OBVIOUS
  <2>3. at \in {"fresh", "sealed", "read", "count"}
    BY <2>2 DEF FirstStep
  <2> QED BY <1>b, <2>1, <2>2, <2>3 DEF Idle
<1>2. ASSUME NEW c \in Clients, NEW n \in Names, Login(c, n)
      PROVE  \A d \in Clients : Moved(d)
  BY <1>b, <1>2 DEF Login, Idle
<1>3. ASSUME NEW c \in Clients, NEW f \in Flows, Callback(c, f)
      PROVE  \A d \in Clients : Moved(d)
  BY <1>b, <1>3 DEF Callback, Idle
<1>4. ASSUME NEW c \in Clients,
             \/ WriteSecret(c) \/ SignOutOthers(c) \/ Clear(c) \/ Reissue(c) \/ DeleteLink(c)
             \/ \E t \in Tokens : Mint(c, t)
      PROVE  \A d \in Clients : Moved(d)
  BY <1>f, <1>4 DEF WriteSecret, SignOutOthers, Clear, Reissue, DeleteLink, Mint
<1>5. ASSUME NEW c \in Clients, CheckFresh(c) PROVE \A d \in Clients : Moved(d)
  <2>1. Finish(c) \/ Go(c, [req[c] EXCEPT !.at = "write"])
    BY <1>5 DEF CheckFresh, On
  <2>2. req'[c] = [req[c] EXCEPT !.at = "write"] => Moved(c)
    BY <1>c, <1>5 DEF Moved, Linking, Calls
  <2> QED BY <1>f, <1>g, <2>1, <2>2
<1>6. ASSUME NEW c \in Clients, ReadSealed(c) PROVE \A d \in Clients : Moved(d)
  <2> DEFINE r == [req[c] EXCEPT !.at = "unconfirmed", !.secret = user[Me(c)].secret]
  <2>1. Finish(c) \/ Go(c, r)
    BY <1>6 DEF ReadSealed
  <2>2. req'[c] = r => Moved(c)
    BY <1>c, <1>6 DEF Moved, Linking, Calls
  <2> HIDE DEF r
  <2> QED BY <1>f, <1>g, <2>1, <2>2
<1>7. ASSUME NEW c \in Clients, NEW step \in 1..MaxStep, EnterFirstCode(c, step)
      PROVE  \A d \in Clients : Moved(d)
  <2> DEFINE r == [req[c] EXCEPT !.at = "enrol", !.step = step]
  <2>1. Finish(c) \/ Go(c, r)
    BY <1>7 DEF EnterFirstCode
  <2>2. req'[c] = r => Moved(c)
    BY <1>c, <1>7 DEF Moved, Linking, Calls
  <2> HIDE DEF r
  <2> QED BY <1>f, <1>g, <2>1, <2>2
<1>8. ASSUME NEW c \in Clients, Enrol(c) PROVE \A d \in Clients : Moved(d)
  <2>1. Finish(c) \/ Go(c, [req[c] EXCEPT !.at = "signout"])
    BY <1>8 DEF Enrol, On
  <2>2. req'[c] = [req[c] EXCEPT !.at = "signout"] => Moved(c)
    BY <1>c, <1>8 DEF Moved, Linking, Calls
  <2> QED BY <1>f, <1>g, <2>1, <2>2
<1>9. ASSUME NEW c \in Clients, ReadSecret(c) PROVE \A d \in Clients : Moved(d)
  <2> DEFINE r == [req[c] EXCEPT !.at = "confirmed", !.secret = user[Me(c)].secret]
  <2>1. Finish(c) \/ Go(c, r)
    BY <1>9 DEF ReadSecret
  <2>2. req'[c] = r => Moved(c)
    BY <1>c, <1>9 DEF Moved, Linking, Calls
  <2> HIDE DEF r
  <2> QED BY <1>f, <1>g, <2>1, <2>2
<1>10. ASSUME NEW c \in Clients, ReadConfirmed(c) PROVE \A d \in Clients : Moved(d)
  <2>1. Finish(c) \/ Go(c, [req[c] EXCEPT !.at = "code"])
    BY <1>10 DEF ReadConfirmed, On
  <2>2. req'[c] = [req[c] EXCEPT !.at = "code"] => Moved(c)
    BY <1>c, <1>10 DEF Moved, Linking, Calls
  <2> QED BY <1>f, <1>g, <2>1, <2>2
<1>p. ASSUME NEW c \in Clients, req[c].op \in Verifying, Proved(c)
      PROVE  \A d \in Clients : Moved(d)
  <2>1. PICK at : at = AfterProof[req[c].op]
    OBVIOUS
  <2>2. at \in {"mint", "clear", "reissue"}
    BY <1>p, <2>1 DEF AfterProof, Verifying
  <2> DEFINE r == [req[c] EXCEPT !.at = at, !.factor = TRUE]
  <2>3. req'[c] = r => Moved(c)
    BY <1>c, <2>2 DEF Moved, Linking, Calls
  <2>4. Go(c, r)
    BY <1>p, <2>1 DEF Proved
  <2> HIDE DEF r
  <2> QED BY <1>g, <2>3, <2>4
<1>11. ASSUME NEW c \in Clients,
              \/ \E k \in Recovery : SpendRecovery(c, k)
              \/ \E step \in 1..MaxStep : EnterCode(c, step)
       PROVE  \A d \in Clients : Moved(d)
  BY <1>f, <1>p, <1>11 DEF SpendRecovery, EnterCode, At
<1>12. ASSUME NEW c \in Clients, NeedsCode(c) PROVE \A d \in Clients : Moved(d)
  BY <1>o, <1>12 DEF NeedsCode
<1>13. ASSUME NEW c \in Clients, NEW s \in Subjects \cup {Nothing}, Exchange(c, s)
       PROVE  \A d \in Clients : Moved(d)
  <2>1. PICK at : at = IF req[c].op = "link" THEN "lookup" ELSE "known"
    OBVIOUS
  <2> DEFINE r == [req[c] EXCEPT !.subject = s, !.at = at]
  <2>2. Finish(c) \/ Go(c, r)
    BY <1>13, <2>1 DEF Exchange
  <2>3. req'[c] = r => Moved(c)
    BY <1>c, <1>13, <2>1 DEF Moved, Linking, Calls
  <2> HIDE DEF r
  <2> QED BY <1>f, <1>g, <2>2, <2>3
<1>14. ASSUME NEW c \in Clients, KnownSubject(c) PROVE \A d \in Clients : Moved(d)
  <2>1. \/ Finish(c)
        \/ \E n \in Names : Go(c, [req[c] EXCEPT !.at = "mint", !.name = n, !.id = user[n].id])
        \/ \E n \in Names : Go(c, [req[c] EXCEPT !.at = "create", !.name = n])
    BY <1>14 DEF KnownSubject, Holder
  <2>2. req[c].secret = 0
    BY <1>c, <1>14 DEF KnownSubject, At, Fits
  <2>3. ASSUME NEW n
        PROVE  /\ req'[c] = [req[c] EXCEPT !.at = "mint", !.name = n, !.id = user[n].id]
                    => Moved(c)
               /\ req'[c] = [req[c] EXCEPT !.at = "create", !.name = n] => Moved(c)
    BY <1>c, <2>2 DEF Moved, Linking, Calls
  <2> QED BY <1>f, <1>g, <2>1, <2>3
<1>15. ASSUME NEW c \in Clients, CreateFor(c) PROVE \A d \in Clients : Moved(d)
  <2>1. Finish(c) \/ Go(c, [req[c] EXCEPT !.at = "mark", !.id = made + 1])
    BY <1>15 DEF CreateFor
  <2>2. req'[c] = [req[c] EXCEPT !.at = "mark", !.id = made + 1] => Moved(c)
    BY <1>c, <1>15 DEF Moved, Linking, Calls
  <2> QED BY <1>f, <1>g, <2>1, <2>2
<1>16. ASSUME NEW c \in Clients, MarkUnusable(c) \/ LookupLink(c) \/ InsertLink(c)
       PROVE  \A d \in Clients : Moved(d)
  BY <1>f, <1>o, <1>16 DEF MarkUnusable, LookupLink, InsertLink, At, Linking
<1>17. ASSUME NEW c \in Clients, CountLinks(c) \/ CheckUsable(c)
       PROVE  \A d \in Clients : Moved(d)
  <2>1. Finish(c) \/ \E at \in {"usable", "delete"} : Go(c, [req[c] EXCEPT !.at = at])
    BY <1>17 DEF CountLinks, CheckUsable, On
  <2>2. ASSUME NEW at \in {"usable", "delete"}
        PROVE  req'[c] = [req[c] EXCEPT !.at = at] => Moved(c)
    BY <1>c, <1>17 DEF Moved, Linking, Calls
  <2> QED BY <1>f, <1>g, <2>1, <2>2
<1>18. CASE Restart
  BY <1>18 DEF Restart, Idle, Moved, Linking
<1>19. QED
  BY <1>0, <1>1, <1>2, <1>3, <1>4, <1>5, <1>6, <1>7, <1>8, <1>9, <1>10, <1>11, <1>12, <1>13,
     <1>14, <1>15, <1>16, <1>17, <1>18
     DEF IdentityNext, Start, StartLink, ExpireFlow, Erase, Join, Tick

(* What a step leaves of a row, as far as the invariant looks at it.       *)
SameRow(n) ==
  /\ user'[n].id = user[n].id /\ user'[n].secret = user[n].secret
  /\ user'[n].confirmed = user[n].confirmed /\ user'[n].last = user[n].last
  /\ user'[n].shown = user[n].shown

LEMMA RowShape ==
  ASSUME NEW u \in {NoUser} \cup Rows
  PROVE  /\ u # NoUser <=> u.id # 0
         /\ u.id \in 0..MaxAccounts /\ u.secret \in 0..MaxSecrets
         /\ u.confirmed \in BOOLEAN /\ u.last \in 0..MaxStep /\ u.shown \in BOOLEAN
         /\ u.codes \subseteq Recovery /\ u.usable \in BOOLEAN
<1>1. CASE u = NoUser
  BY <1>1, IdentityAssumption DEF NoUser
<1>2. CASE u \in Rows
  <2>1. u.id # 0 /\ u.id \in 0..MaxAccounts
    BY <1>2, IdentityAssumption DEF Rows, UserIds
  <2> QED BY <1>2, <2>1 DEF Rows, NoUser
<1>3. QED
  BY <1>1, <1>2

LEMMA UsersMove ==
  ASSUME Kinds, IdentityNext
  PROVE  \A n \in Names :
           \/ SameRow(n) \/ Erase(n) \/ Join(n)
           \/ \E c \in Clients :
                /\ n = Me(c)
                /\ \/ WriteSecret(c) \/ Enrol(c) \/ Clear(c) \/ CreateFor(c)
                   \/ \E step \in 1..MaxStep : EnterCode(c, step)
<1>t. user \in [Names -> {NoUser} \cup Rows]
  BY UsersAre DEF UsersFit
<1>0. ASSUME UNCHANGED user PROVE \A n \in Names : SameRow(n)
  BY <1>0 DEF SameRow
<1>1. ASSUME NEW c, WriteSecret(c) \/ Enrol(c) \/ Clear(c) \/ CreateFor(c)
                    \/ \E step \in 1..MaxStep : EnterCode(c, step)
      PROVE  \A n \in Names : n = Me(c) \/ SameRow(n)
  BY <1>t, <1>1 DEF WriteSecret, Enrol, Clear, CreateFor, EnterCode, SameRow
<1>2. ASSUME NEW m \in Names, Erase(m) \/ Join(m) PROVE \A n \in Names : n = m \/ SameRow(n)
  BY <1>t, <1>2 DEF Erase, Join, SameRow
<1>e. ASSUME NEW n \in Names, NEW r, user' = user \/ user' = [user EXCEPT ![n] = r],
             /\ r.id = user[n].id /\ r.secret = user[n].secret /\ r.last = user[n].last
             /\ r.confirmed = user[n].confirmed /\ r.shown = user[n].shown
      PROVE  \A m \in Names : SameRow(m)
  BY <1>t, <1>e DEF SameRow
<1>m. ASSUME NEW c \in Clients, req[c].op # "none",
             req[c].op = "callback" => req[c].at \notin {"exchange", "known"}
      PROVE  Me(c) \in Names /\ user[Me(c)] \in {NoUser} \cup Rows
  BY <1>t, <1>m, CallOf DEF Fits, Me
<1>3. ASSUME NEW c \in Clients, NEW k \in Recovery, SpendRecovery(c, k)
      PROVE  \A n \in Names : SameRow(n)
  <2> DEFINE r == [user[Me(c)] EXCEPT !.codes = @ \ {k}]
  <2>1. Me(c) \in Names /\ user[Me(c)] \in {NoUser} \cup Rows
    BY <1>3, <1>m DEF SpendRecovery, At, Verifying
  <2>2. user' = [user EXCEPT ![Me(c)] = r]
    BY <1>3 DEF SpendRecovery
  <2>3. /\ r.id = user[Me(c)].id /\ r.secret = user[Me(c)].secret
        /\ r.last = user[Me(c)].last /\ r.confirmed = user[Me(c)].confirmed
        /\ r.shown = user[Me(c)].shown
    BY <2>1 DEF Rows, NoUser
  <2> HIDE DEF r
  <2> QED BY <1>e, <2>1, <2>2, <2>3
<1>4. ASSUME NEW c \in Clients, Reissue(c) PROVE \A n \in Names : SameRow(n)
  <2> DEFINE r == [user[Me(c)] EXCEPT !.codes = {used.codes + 1}]
  <2>1. Me(c) \in Names /\ user[Me(c)] \in {NoUser} \cup Rows
    BY <1>4, <1>m DEF Reissue, At
  <2>2. user' = user \/ user' = [user EXCEPT ![Me(c)] = r]
    BY <1>4 DEF Reissue
  <2>3. /\ r.id = user[Me(c)].id /\ r.secret = user[Me(c)].secret
        /\ r.last = user[Me(c)].last /\ r.confirmed = user[Me(c)].confirmed
        /\ r.shown = user[Me(c)].shown
    BY <2>1 DEF Rows, NoUser
  <2> HIDE DEF r
  <2> QED BY <1>e, <2>1, <2>2, <2>3
<1>5. ASSUME NEW c \in Clients, MarkUnusable(c) PROVE \A n \in Names : SameRow(n)
  <2> DEFINE r == [user[Me(c)] EXCEPT !.usable = FALSE]
  <2>1. Me(c) \in Names /\ user[Me(c)] \in {NoUser} \cup Rows
    BY <1>5, <1>m DEF MarkUnusable, At
  <2>2. user' = user \/ user' = [user EXCEPT ![Me(c)] = r]
    BY <1>5 DEF MarkUnusable
  <2>3. /\ r.id = user[Me(c)].id /\ r.secret = user[Me(c)].secret
        /\ r.last = user[Me(c)].last /\ r.confirmed = user[Me(c)].confirmed
        /\ r.shown = user[Me(c)].shown
    BY <2>1 DEF Rows, NoUser
  <2> HIDE DEF r
  <2> QED BY <1>e, <2>1, <2>2, <2>3
<1>6. \/ \A n \in Names : SameRow(n)
      \/ \E c \in Clients : WriteSecret(c) \/ Enrol(c) \/ Clear(c) \/ CreateFor(c)
                            \/ \E step \in 1..MaxStep : EnterCode(c, step)
      \/ \E m \in Names : Erase(m) \/ Join(m)
  <2>1. ASSUME NEW c \in Clients, WritesOthers(c) PROVE UNCHANGED user
    BY <2>1 DEF WritesOthers, SignOutOthers, InsertLink, DeleteLink, Mint, Callback
  <2>2. ASSUME NEW f \in Flows, Departs(f) PROVE UNCHANGED user
    BY <2>2 DEF Departs, Start, ExpireFlow, StartLink
  <2>3. UNCHANGED tables \/ Tick \/ Restart => UNCHANGED user
    BY DEF tables, Tick, Restart
  <2> QED BY <1>0, <1>3, <1>4, <1>5, <2>1, <2>2, <2>3, Effects DEF WritesRows
<1>7. QED
  BY <1>1, <1>2, <1>6

(* The rows that change by more than a code.                               *)
Blank(u) == u.secret = 0 /\ u.confirmed = FALSE

LEMMA RowsAfter ==
  ASSUME Kinds, NEW n \in Names
  PROVE  /\ Erase(n) => Exists(n) /\ user'[n] = NoUser
         /\ Join(n) => /\ ~Exists(n) /\ user'[n].id = made + 1 /\ user'[n].shown
                       /\ Blank(user'[n])
         /\ \A c \in Clients : n = Me(c) =>
              /\ WriteSecret(c) =>
                   /\ user'[n].id = user[n].id /\ user'[n].shown = user[n].shown
                   /\ user'[n].confirmed = FALSE
              /\ Enrol(c) =>
                   /\ user'[n].id = user[n].id /\ user'[n].shown = user[n].shown
                   /\ user'[n].secret = user[n].secret
                   /\ Exists(n) => user'[n].confirmed
              /\ Clear(c) =>
                   /\ user'[n].id = user[n].id /\ user'[n].shown = user[n].shown
                   /\ Blank(user'[n])
              /\ CreateFor(c) =>
                   \/ Exists(n) /\ user' = user
                   \/ /\ ~Exists(n) /\ user'[n].id = made + 1 /\ ~user'[n].shown
                      /\ Blank(user'[n])
              /\ (\E step \in 1..MaxStep : EnterCode(c, step)) =>
                   /\ user'[n].id = user[n].id /\ user'[n].shown = user[n].shown
                   /\ user'[n].secret = user[n].secret
                   /\ user'[n].confirmed = user[n].confirmed
<1>t. user \in [Names -> {NoUser} \cup Rows] /\ user[n] \in {NoUser} \cup Rows
  BY UsersAre DEF UsersFit
<1>n. Blank(NoUser) /\ ~NoUser.shown
  BY DEF NoUser, Blank
<1>w. ASSUME NEW r, user' = [user EXCEPT ![n] = r] PROVE user'[n] = r
  BY <1>t, <1>w
<1>e. ASSUME NEW r, user' = IF Exists(n) THEN [user EXCEPT ![n] = r] ELSE user
      PROVE  (Exists(n) /\ user'[n] = r) \/ (user[n] = NoUser /\ user'[n] = NoUser)
  BY <1>t, <1>e DEF Exists
<1>1. ASSUME Erase(n) PROVE Exists(n) /\ user'[n] = NoUser
  BY <1>1, <1>w DEF Erase
<1>2. ASSUME Join(n)
      PROVE  ~Exists(n) /\ user'[n].id = made + 1 /\ user'[n].shown /\ Blank(user'[n])
  <2>1. user'[n] = [NoUser EXCEPT !.id = made + 1, !.active = TRUE, !.usable = TRUE,
                                  !.shown = TRUE]
    BY <1>2, <1>w DEF Join
  <2>2. ~Exists(n)
    BY <1>2 DEF Join
  <2>3. user'[n].id = made + 1 /\ user'[n].shown /\ Blank(user'[n])
    BY <2>1 DEF NoUser, Blank
  <2> QED BY <2>2, <2>3
<1>3. ASSUME NEW c \in Clients, n = Me(c), WriteSecret(c)
      PROVE  /\ user'[n].id = user[n].id /\ user'[n].shown = user[n].shown
             /\ user'[n].confirmed = FALSE
  <2> DEFINE r == [user[n] EXCEPT !.secret = used.secrets + 1, !.confirmed = FALSE, !.last = 0]
  <2>1. user' = IF Exists(n) THEN [user EXCEPT ![n] = r] ELSE user
    BY <1>3 DEF WriteSecret
  <2>2. r.id = user[n].id /\ r.shown = user[n].shown /\ r.confirmed = FALSE
    BY <1>t DEF Rows, NoUser
  <2> HIDE DEF r
  <2> QED BY <1>e, <1>n, <2>1, <2>2 DEF Blank
<1>4. ASSUME NEW c \in Clients, n = Me(c), Enrol(c)
      PROVE  /\ user'[n].id = user[n].id /\ user'[n].shown = user[n].shown
             /\ user'[n].secret = user[n].secret
             /\ Exists(n) => user'[n].confirmed
  <2> DEFINE r == [user[n] EXCEPT !.confirmed = TRUE, !.last = req[c].step,
                                  !.codes = {used.codes + 1}]
  <2>1. user' = IF Exists(n) THEN [user EXCEPT ![n] = r] ELSE user
    BY <1>4 DEF Enrol
  <2>2. r.id = user[n].id /\ r.shown = user[n].shown /\ r.secret = user[n].secret /\ r.confirmed
    BY <1>t DEF Rows, NoUser
  <2> HIDE DEF r
  <2> QED BY <1>e, <1>n, <2>1, <2>2 DEF Exists
<1>5. ASSUME NEW c \in Clients, n = Me(c), Clear(c)
      PROVE  user'[n].id = user[n].id /\ user'[n].shown = user[n].shown /\ Blank(user'[n])
  <2> DEFINE r == [user[n] EXCEPT !.secret = 0, !.confirmed = FALSE, !.last = 0, !.codes = {}]
  <2>1. user' = IF Exists(n) THEN [user EXCEPT ![n] = r] ELSE user
    BY <1>5 DEF Clear
  <2>2. r.id = user[n].id /\ r.shown = user[n].shown /\ r.confirmed = FALSE /\ r.secret = 0
    BY <1>t DEF Rows, NoUser
  <2> HIDE DEF r
  <2> QED BY <1>e, <1>n, <2>1, <2>2 DEF Blank
<1>6. ASSUME NEW c \in Clients, n = Me(c), CreateFor(c)
      PROVE  \/ Exists(n) /\ user' = user
             \/ ~Exists(n) /\ user'[n].id = made + 1 /\ ~user'[n].shown /\ Blank(user'[n])
  <2> DEFINE r == [NoUser EXCEPT !.id = made + 1, !.active = (opens = "account"), !.usable = TRUE]
  <2>1. (Exists(n) /\ user' = user) \/ (~Exists(n) /\ user' = [user EXCEPT ![n] = r])
    BY <1>6 DEF CreateFor
  <2>2. r.id = made + 1 /\ ~r.shown /\ Blank(r)
    BY DEF NoUser, Blank
  <2> HIDE DEF r
  <2> QED BY <1>w, <2>1, <2>2
<1>7. ASSUME NEW c \in Clients, n = Me(c), NEW step \in 1..MaxStep, EnterCode(c, step)
      PROVE  /\ user'[n].id = user[n].id /\ user'[n].shown = user[n].shown
             /\ user'[n].secret = user[n].secret /\ user'[n].confirmed = user[n].confirmed
  <2> DEFINE r == [user[n] EXCEPT !.last = step]
  <2>1. user' = user \/ user' = [user EXCEPT ![n] = r]
    BY <1>7 DEF EnterCode
  <2>2. /\ r.id = user[n].id /\ r.shown = user[n].shown
        /\ r.secret = user[n].secret /\ r.confirmed = user[n].confirmed
    BY <1>t DEF Rows, NoUser
  <2> HIDE DEF r
  <2> QED BY <1>w, <2>1, <2>2
<1>8. QED
  BY <1>1, <1>2, <1>3, <1>4, <1>5, <1>6, <1>7

LEMMA HistoryMoves ==
  ASSUME Kinds, IdentityNext
  PROVE  /\ used'.secrets = used.secrets \/ \E c \in Clients : WriteSecret(c)
         /\ \/ past'.accepted = past.accepted /\ past'.twice = past.twice
            \/ \E c \in Clients, step \in 1..MaxStep : EnterCode(c, step)
<1>p. past \in Remembered /\ used \in [secrets : 0..MaxSecrets, codes : 0..MaxCodes]
  BY UsersAre DEF Kinds, UsedFits
<1> DEFINE Kept == past'.accepted = past.accepted /\ past'.twice = past.twice
<1>1. ASSUME NEW c, \/ Crossed(c) \/ Enrol(c) \/ (\E t \in Tokens : Mint(c, t))
                    \/ (\E s \in Subjects \cup {Nothing} : Exchange(c, s))
                    \/ LookupLink(c) \/ InsertLink(c)
      PROVE  Kept
  BY <1>p, <1>1 DEF Crossed, Enrol, Mint, Exchange, LookupLink, InsertLink, Unlinked,
                    Remembered
<1>2. ASSUME NEW c, CheckUsable(c) \/ DeleteLink(c) PROVE Kept
  BY <1>p, <1>2 DEF CheckUsable, DeleteLink, Unmarked, Remembered
<1>4. ASSUME NEW c, CreateFor(c) \/ (\E n \in Names : Join(n)) PROVE Kept
  <2>1. ASSUME NEW n \in Names, Join(n) PROVE Kept
    BY <2>1, TakenFits DEF Join
  <2>2. ASSUME CreateFor(c) PROVE Kept
    <3>1. PICK q : q = Taken(Me(c), c)
      OBVIOUS
    <3>2. \/ past' = past
          \/ past' = [q EXCEPT !.consent = @ \cup {<<req[c].subject, made + 1>>}]
      BY <2>2, <3>1 DEF CreateFor
    <3>3. q \in Remembered /\ q.accepted = past.accepted /\ q.twice = past.twice
      BY <2>2, <3>1, TakenFits DEF CreateFor
    <3> QED BY <3>2, <3>3 DEF Remembered
  <2> QED BY <1>4, <2>1, <2>2
<1>5. ASSUME Restart PROVE Kept
  BY <1>p, <1>5 DEF Restart, Remembered
<1>6. ASSUME UNCHANGED past PROVE Kept
  BY <1>6
<1>7. ASSUME NEW c \in Clients,
             \/ \E t \in Tokens : \/ \E op \in {"begin", "confirm", "disable", "regenerate"} :
                                       Present(c, t, op, Nothing)
                                  \/ \E s \in Subjects : Present(c, t, "unlink", s)
             \/ (\E n \in Names : Login(c, n)) \/ NeedsCode(c)
             \/ (\E f \in Flows : Callback(c, f)) \/ CheckFresh(c) \/ ReadSealed(c)
             \/ (\E step \in 1..MaxStep : EnterFirstCode(c, step)) \/ SignOutOthers(c)
             \/ ReadSecret(c) \/ ReadConfirmed(c)
             \/ (\E k \in Recovery : SpendRecovery(c, k)) \/ Reissue(c)
             \/ KnownSubject(c) \/ MarkUnusable(c) \/ CountLinks(c)
      PROVE  UNCHANGED past
  BY <1>7 DEF Present, Login, NeedsCode, Callback, CheckFresh, ReadSealed, EnterFirstCode,
              SignOutOthers, ReadSecret, ReadConfirmed, SpendRecovery, Reissue, KnownSubject,
              MarkUnusable, CountLinks
<1>10. ASSUME \/ \E f \in Flows : Start(f) \/ (\E t \in Tokens : StartLink(t, f)) \/ ExpireFlow(f)
              \/ (\E n \in Names : Erase(n)) \/ Tick
       PROVE  UNCHANGED past
  BY <1>10 DEF Start, StartLink, ExpireFlow, Erase, Tick
<1>11. ASSUME NEW c, WriteSecret(c) \/ Clear(c) PROVE Kept
  BY <1>1, <1>11 DEF WriteSecret, Clear
<1>12. Kept \/ \E c \in Clients, step \in 1..MaxStep : EnterCode(c, step)
  <2> HIDE DEF Kept
  <2> QED BY <1>1, <1>2, <1>4, <1>5, <1>6, <1>7, <1>10, <1>11 DEF IdentityNext
<1>8. used'.secrets = used.secrets \/ \E c \in Clients : WriteSecret(c)
  <2>1. ASSUME NEW c, Enrol(c) \/ Reissue(c) PROVE used'.secrets = used.secrets
    BY <1>p, <2>1 DEF Enrol, Reissue
  <2>2. \/ UNCHANGED used
        \/ \E c \in Clients : Enrol(c) \/ Reissue(c) \/ WriteSecret(c)
    <3>1. ASSUME NEW c \in Clients, WritesRows(c)
          PROVE  UNCHANGED used \/ Enrol(c) \/ Reissue(c) \/ WriteSecret(c)
      BY <3>1 DEF WritesRows, Clear, CreateFor, MarkUnusable, SpendRecovery, EnterCode
    <3>2. ASSUME NEW c \in Clients, WritesOthers(c) PROVE UNCHANGED used
      BY <3>2 DEF WritesOthers, SignOutOthers, InsertLink, DeleteLink, Mint, Callback
    <3>3. ASSUME NEW f \in Flows, Departs(f) PROVE UNCHANGED used
      BY <3>3 DEF Departs, Start, ExpireFlow, StartLink
    <3>4. UNCHANGED tables \/ Tick \/ Restart \/ (\E n \in Names : Erase(n) \/ Join(n))
            => UNCHANGED used
      BY DEF tables, Tick, Restart, Erase, Join
    <3> QED BY <3>1, <3>2, <3>3, <3>4, Effects
  <2> QED BY <2>1, <2>2
<1>9. QED
  BY <1>8, <1>12

----------------------------------------------------------------------------
(* Codes work once *)

LEMMA CodesKept ==
  ASSUME Kinds, Kinds', Codes, Grown, used.secrets <= used'.secrets,
         past'.accepted = past.accepted, past'.twice = past.twice,
         \A n \in Names :
           \/ user'[n].secret = 0
           \/ /\ user'[n].secret = user[n].secret
              /\ user[n].confirmed => user'[n].confirmed
              /\ ~user[n].confirmed \/ user[n].last <= user'[n].last \/ past'.crossed # {},
         \A d \in Clients :
           \/ req'[d].secret = 0
           \/ /\ req'[d].secret = req[d].secret /\ req'[d].name = req[d].name
              /\ req'[d].at = "code" => req[d].at = "code" \/ user[Me(d)].confirmed
           \/ /\ Me(d) \in Names /\ req'[d].secret = user[Me(d)].secret
              /\ req'[d].name = req[d].name /\ req'[d].at # "code"
  PROVE  Codes'
<1>1. /\ \A n \in Names : user[n].secret \in Nat /\ user[n].last \in Nat
                          /\ user'[n].secret \in Nat /\ user'[n].last \in Nat
      /\ used.secrets \in Nat /\ used'.secrets \in Nat
  <2>1. \A u \in {NoUser} \cup Rows : u.secret \in Nat /\ u.last \in Nat
    BY RowShape
  <2> QED BY <2>1 DEF Kinds, IdentityTypeOK, Rows
<1>2. \A d \in Clients : /\ req[d].secret \in Nat /\ req'[d].secret \in Nat
                         /\ req'[d].at = "code" => req'[d].secret # 0 /\ Me(d)' \in Names
  BY DEF Kinds, Fits, Calls, StepOf, Me
<1>3. \A e \in past.accepted : e[1] # 0
  BY DEF Kinds, Remembered, Secrets
<1>4. \A n \in Names : user'[n].secret = 0 \/ user'[n].secret = user[n].secret
  OBVIOUS
<1>5. \A n \in Names : user'[n].secret <= used'.secrets
  BY <1>1, <1>4 DEF Codes
<1>6. \A m, n \in Names : user'[m].secret = user'[n].secret /\ user'[m].secret # 0 => m = n
  BY <1>4 DEF Codes
<1>7. \A c \in Clients :
        /\ req'[c].secret <= used'.secrets
        /\ \A n \in Names : user'[n].secret = req'[c].secret /\ req'[c].secret # 0
                              => n = Me(c)'
  BY <1>1, <1>2, <1>4 DEF Codes, Me
<1>8. \A e \in past'.accepted : e[1] <= used'.secrets
  <2>1. \A e \in past.accepted : e[1] \in Nat /\ e[1] <= used.secrets
    BY DEF Codes, Kinds, Remembered, Secrets
  <2> QED BY <1>1, <2>1
<1>9. ASSUME NEW n \in Names, NEW s \in 0..MaxStep, <<user'[n].secret, s>> \in past'.accepted
      PROVE  user'[n].confirmed /\ (s <= user'[n].last \/ past'.crossed # {})
  <2>1. user'[n].secret # 0 /\ user'[n].secret = user[n].secret
    BY <1>3, <1>4, <1>9
  <2>2. user[n].confirmed /\ (s <= user[n].last \/ past.crossed # {})
    BY <1>9, <2>1 DEF Codes
  <2>3. past.crossed # {} => past'.crossed # {}
    BY DEF Grown
  <2> QED BY <1>1, <2>1, <2>2, <2>3
<1>10. ASSUME NEW c \in Clients, req'[c].at = "code", user'[Me(c)'].secret = req'[c].secret
       PROVE  user'[Me(c)'].confirmed
  <2>1. Me(c)' = Me(c) /\ Me(c) \in Names /\ req'[c].secret = req[c].secret
    BY <1>2, <1>10 DEF Me
  <2>2. user[Me(c)].secret = req[c].secret /\ user[Me(c)].confirmed
    BY <1>2, <1>4, <1>10, <2>1 DEF Codes
  <2> QED BY <1>2, <1>10, <2>1, <2>2
<1>11. CodesWorkOnce'
  BY DEF Codes, CodesWorkOnce, Grown
<1>12. QED
  BY <1>5, <1>6, <1>7, <1>8, <1>9, <1>10, <1>11 DEF Codes

LEMMA WriteSecretKeepsCodes ==
  ASSUME Kinds, Kinds', Codes, Grown, NEW c \in Clients, WriteSecret(c),
         past'.accepted = past.accepted, past'.twice = past.twice
  PROVE  Codes'
<1>1. /\ \A n \in Names : user[n].secret \in Nat /\ user[n].last \in Nat
      /\ used.secrets \in Nat /\ past \in Remembered
  <2>1. \A u \in {NoUser} \cup Rows : u.secret \in Nat /\ u.last \in Nat
    BY RowShape
  <2> QED BY <2>1 DEF Kinds, IdentityTypeOK, Rows
<1>2. /\ used'.secrets = used.secrets + 1
      /\ \A d \in Clients : req'[d] = IF d = c THEN Idle ELSE req[d]
  BY CallOf DEF WriteSecret, Finish, Go, Kinds, IdentityTypeOK
<1>3. \A d \in Clients : /\ req'[d].secret \in Nat /\ req'[d].secret <= used.secrets
                         /\ req'[d] = req[d] \/ (req'[d].secret = 0 /\ req'[d].at = "idle")
  BY <1>1, <1>2, CallOf DEF Codes, Idle, Calls
<1>4. Me(c) \in Names
  BY CallOf DEF WriteSecret, At, Fits, Me
<1>5. \A n \in Names : user'[n] = user[n] \/ (n = Me(c) /\ user'[n].secret = used.secrets + 1)
  <2>1. user \in [Names -> {NoUser} \cup Rows]
    BY UsersAre DEF UsersFit
  <2> QED BY <2>1, RowShape DEF WriteSecret, Exists, Rows
<1>6. \A e \in past'.accepted : e[1] \in Nat /\ e[1] <= used.secrets
  BY <1>1 DEF Codes, Remembered, Secrets
<1>7. \A n \in Names : user'[n].secret <= used'.secrets
  BY <1>1, <1>2, <1>5 DEF Codes
<1>8. \A m, n \in Names : user'[m].secret = user'[n].secret /\ user'[m].secret # 0 => m = n
  BY <1>1, <1>2, <1>5 DEF Codes
<1>9. \A d \in Clients :
        /\ req'[d].secret <= used'.secrets
        /\ \A n \in Names : user'[n].secret = req'[d].secret /\ req'[d].secret # 0
                              => n = Me(d)'
  BY <1>1, <1>2, <1>3, <1>5 DEF Codes, Me
<1>10. \A n \in Names, s \in 0..MaxStep :
         <<user'[n].secret, s>> \in past'.accepted
           => user'[n].confirmed /\ (s <= user'[n].last \/ past'.crossed # {})
  <2>1. past.crossed # {} => past'.crossed # {}
    BY DEF Grown
  <2>2. \A n \in Names, s \in 0..MaxStep :
          <<user'[n].secret, s>> \in past'.accepted => user'[n] = user[n]
    BY <1>1, <1>5, <1>6
  <2> QED BY <2>1, <2>2 DEF Codes
<1>11. \A d \in Clients : req'[d].at = "code" /\ user'[Me(d)'].secret = req'[d].secret
                            => user'[Me(d)'].confirmed
  <2>1. ASSUME NEW d \in Clients, req'[d].at = "code" PROVE req'[d] = req[d] /\ Me(d) \in Names
    BY <1>3, <2>1, CallOf DEF Fits, Me, StepOf
  <2> QED BY <1>1, <1>3, <1>5, <2>1 DEF Codes, Me
<1>12. CodesWorkOnce'
  BY DEF Codes, CodesWorkOnce, Grown
<1>13. QED
  BY <1>1, <1>2, <1>6, <1>7, <1>8, <1>9, <1>10, <1>11, <1>12 DEF Codes

LEMMA EnterCodeKeepsCodes ==
  ASSUME Kinds, Kinds', Codes, Grown, NEW c \in Clients, NEW step \in 1..MaxStep,
         EnterCode(c, step)
  PROVE  Codes'
<1>1. /\ \A n \in Names : user[n].secret \in Nat /\ user[n].last \in Nat
      /\ used.secrets \in Nat /\ past \in Remembered /\ step \in Nat
  <2>1. \A u \in {NoUser} \cup Rows : u.secret \in Nat /\ u.last \in Nat
    BY RowShape
  <2> QED BY <2>1, IdentityAssumption DEF Kinds, IdentityTypeOK, Rows
<1> DEFINE n == Me(c)
           k == req[c].secret
<1>2. n \in Names /\ k \in Nat /\ k # 0 /\ req[c].op \in Verifying /\ used' = used
  BY CallOf DEF EnterCode, At, Fits, Calls, Me, Verifying
<1>3. \A d \in Clients : \/ req'[d] = req[d]
                         \/ d = c /\ req'[d] = Idle
                         \/ /\ d = c /\ req'[d].secret = k /\ req'[d].name = n
                            /\ req'[d].at # "code"
  <2>1. req[c] \in Calls /\ \A d \in Clients : d # c => req'[d] = req[d]
    BY CallOf DEF EnterCode, Finish, Proved, Go
  <2>2. ASSUME Proved(c) PROVE req'[c].secret = k /\ req'[c].name = n /\ req'[c].at # "code"
    <3>1. PICK at : at = AfterProof[req[c].op]
      OBVIOUS
    <3>2. at \in {"mint", "clear", "reissue"}
      BY <1>2, <3>1 DEF AfterProof, Verifying
    <3>3. req'[c] = [req[c] EXCEPT !.at = at, !.factor = TRUE]
      BY <2>2, <3>1, CallOf DEF Proved, Go
    <3> QED BY <2>1, <3>2, <3>3 DEF Calls, Me
  <2>3. ASSUME Finish(c) PROVE req'[c] = Idle
    BY <2>3, CallOf DEF Finish, Go
  <2> QED BY <2>1, <2>2, <2>3 DEF EnterCode
<1>4. CASE UNCHANGED <<user, past>>
  <2>1. \A d \in Clients :
           \/ req'[d].secret = 0
           \/ /\ req'[d].secret = req[d].secret /\ req'[d].name = req[d].name
              /\ req'[d].at = "code" => req[d].at = "code" \/ user[Me(d)].confirmed
    BY <1>3 DEF Idle, Me
  <2> QED BY <1>1, <1>2, <1>4, <2>1, CodesKept
<1>5. CASE /\ user[n].last < step /\ user' = [user EXCEPT ![n].last = step]
           /\ past'.accepted = past.accepted \cup {<<k, step>>}
           /\ past'.twice = (past.twice \/ /\ user[n].confirmed /\ user[n].secret = k
                                           /\ <<k, step>> \in past.accepted)
           /\ past'.crossed = past.crossed
  <2>1. \A m \in Names : /\ user'[m].secret = user[m].secret
                         /\ user'[m].confirmed = user[m].confirmed
                         /\ user'[m].last = IF m = n THEN step ELSE user[m].last
    <3>1. user \in [Names -> {NoUser} \cup Rows]
      BY UsersAre DEF UsersFit
    <3>2. user[n] \in {NoUser} \cup Rows
      BY <1>2, <3>1
    <3>3. user'[n] = [user[n] EXCEPT !.last = step] /\ \A m \in Names \ {n} : user'[m] = user[m]
      BY <1>2, <1>5, <3>1
    <3> HIDE DEF n
    <3> QED BY <3>2, <3>3 DEF Rows, NoUser
  <2> HIDE DEF n, k
  <2>2. k <= used.secrets /\ \A m \in Names : user[m].secret = k => m = n
    BY <1>2 DEF Codes, n, k
  <2>3. user[n].secret = k => user[n].confirmed
    <3>1. req[c].at = "code"
      BY DEF EnterCode, At
    <3> QED BY <3>1 DEF Codes, n, k
  <2>4. \A m \in Names : user'[m].secret <= used'.secrets
    BY <1>2, <2>1 DEF Codes
  <2>5. \A l, m \in Names : user'[l].secret = user'[m].secret /\ user'[l].secret # 0 => l = m
    BY <2>1 DEF Codes
  <2>6. \A d \in Clients :
          /\ req'[d].secret <= used'.secrets
          /\ \A m \in Names : user'[m].secret = req'[d].secret /\ req'[d].secret # 0
                                => m = Me(d)'
    BY <1>1, <1>2, <1>3, <2>1, <2>2 DEF Codes, Me, Idle
  <2>7. \A e \in past'.accepted : e[1] <= used'.secrets
    BY <1>2, <1>5, <2>2 DEF Codes
  <2>8. ASSUME NEW m \in Names, NEW s \in 0..MaxStep, <<user'[m].secret, s>> \in past'.accepted
        PROVE  user'[m].confirmed /\ (s <= user'[m].last \/ past'.crossed # {})
    <3>1. CASE <<user[m].secret, s>> \in past.accepted
      <4>1. s \in Nat /\ user[m].confirmed /\ (s <= user[m].last \/ past.crossed # {})
        BY <2>8, <3>1, IdentityAssumption DEF Codes
      <4> QED BY <1>1, <1>5, <2>1, <4>1
    <3>2. CASE user[m].secret = k /\ s = step
      BY <1>1, <2>1, <2>2, <2>3, <3>2
    <3> QED BY <1>5, <2>1, <2>8, <3>1, <3>2
  <2>9. ASSUME NEW d \in Clients, req'[d].at = "code", user'[Me(d)'].secret = req'[d].secret
        PROVE  user'[Me(d)'].confirmed
    <3>1. req'[d] = req[d] /\ Me(d) \in Names
      BY <1>3, <2>9, CallOf DEF Idle, Fits, Me, StepOf
    <3> QED BY <2>1, <2>9, <3>1 DEF Codes, Me
  <2>10. CodesWorkOnce'
    <3>1. ASSUME user[n].secret = k, <<k, step>> \in past.accepted PROVE past.crossed # {}
      <4>1. step \in 0..MaxStep
        BY IdentityAssumption
      <4>2. step <= user[n].last \/ past.crossed # {}
        BY <1>2, <3>1, <4>1 DEF Codes, n
      <4> QED BY <1>1, <1>2, <1>5, <4>2 DEF n
    <3> QED BY <1>5, <3>1 DEF Codes, CodesWorkOnce
  <2> QED BY <2>4, <2>5, <2>6, <2>7, <2>8, <2>9, <2>10 DEF Codes
<1>6. QED
  <2>1. ASSUME past' = [past EXCEPT
               !.accepted = @ \cup {<<k, step>>},
               !.twice = @ \/ /\ user[n].confirmed /\ user[n].secret = k
                              /\ <<k, step>> \in past.accepted]
        PROVE  /\ past'.accepted = past.accepted \cup {<<k, step>>}
               /\ past'.twice = (past.twice \/ /\ user[n].confirmed /\ user[n].secret = k
                                               /\ <<k, step>> \in past.accepted)
               /\ past'.crossed = past.crossed
    BY <1>1, <2>1 DEF Remembered
  <2> QED BY <1>4, <1>5, <2>1 DEF EnterCode, Fresh

LEMMA NextKeepsCodes ==
  ASSUME Kinds, Kinds', Codes, Enrolments, IdentityNext
  PROVE  Codes'
<1>g. Grown
  BY NextPastFits
<1>1. ASSUME NEW c \in Clients, WriteSecret(c) PROVE Codes'
  <2>1. past \in Remembered
    BY DEF Kinds
  <2>2. past'.accepted = past.accepted /\ past'.twice = past.twice
    BY <1>1, <2>1 DEF WriteSecret, Crossed, Remembered
  <2> QED BY <1>1, <1>g, <2>2, WriteSecretKeepsCodes
<1>2. ASSUME NEW c \in Clients, NEW step \in 1..MaxStep, EnterCode(c, step) PROVE Codes'
  BY <1>2, <1>g, EnterCodeKeepsCodes
<1>3. CASE /\ ~\E c \in Clients : WriteSecret(c)
           /\ ~\E c \in Clients, step \in 1..MaxStep : EnterCode(c, step)
  <2>1. /\ past'.accepted = past.accepted /\ past'.twice = past.twice
        /\ used'.secrets = used.secrets /\ used.secrets \in Nat
    BY <1>3, HistoryMoves, UsersAre DEF UsedFits
  <2>t. user \in [Names -> {NoUser} \cup Rows] /\ \A d \in Clients : req[d] \in Calls
    BY UsersAre, CallOf DEF UsersFit
  <2>2. ASSUME NEW n \in Names
        PROVE  \/ user'[n].secret = 0
               \/ /\ user'[n].secret = user[n].secret
                  /\ user[n].confirmed => user'[n].confirmed
                  /\ ~user[n].confirmed \/ user[n].last <= user'[n].last \/ past'.crossed # {}
    <3>1. CASE SameRow(n)
      <4>1. user[n].last \in Nat
        BY UserRow
      <4> QED BY <3>1, <4>1 DEF SameRow
    <3>2. CASE Erase(n) \/ Join(n) \/ \E c \in Clients : n = Me(c) /\ (Clear(c) \/ CreateFor(c))
      <4>1. NoUser.secret = 0
        BY DEF NoUser
      <4>2. user' = user \/ user'[n].secret = 0
        BY <3>2, <4>1, RowsAfter DEF Blank
      <4>3. user' = user => user[n].last <= user'[n].last
        BY UserRow
      <4> QED BY <4>2, <4>3
    <3>3. ASSUME NEW c \in Clients, n = Me(c), Enrol(c)
          PROVE  \/ user'[n] = user[n]
                 \/ /\ user'[n].secret = user[n].secret /\ user'[n].confirmed
                    /\ ~user[n].confirmed \/ past'.crossed # {}
      <4>1. Exists(n) => /\ user[n] \in Rows
                         /\ user'[n] = [user[n] EXCEPT !.confirmed = TRUE, !.last = req[c].step,
                                                       !.codes = {used.codes + 1}]
        BY <2>t, <3>3 DEF Enrol, Exists
      <4>2. Exists(n) => ~user[n].confirmed \/ past.crossed # {}
        BY <3>3 DEF Enrolments, Enrol, At
      <4>3. past.crossed # {} => past'.crossed # {}
        BY <1>g DEF Grown
      <4> QED BY <3>3, <4>1, <4>2, <4>3 DEF Enrol, Rows
    <3>4. user'[n] = user[n] => user[n].last <= user'[n].last
      BY UserRow
    <3> QED BY <1>3, <3>1, <3>2, <3>3, <3>4, UsersMove
  <2>3. ASSUME NEW d \in Clients
        PROVE  \/ req'[d].secret = 0
               \/ /\ req'[d].secret = req[d].secret /\ req'[d].name = req[d].name
                  /\ req'[d].at = "code" => req[d].at = "code" \/ user[Me(d)].confirmed
               \/ /\ Me(d) \in Names /\ req'[d].secret = user[Me(d)].secret
                  /\ req'[d].name = req[d].name /\ req'[d].at # "code"
    <3>1. ASSUME ReadSealed(d) \/ ReadSecret(d)
          PROVE  \/ req'[d] = Idle
                 \/ /\ Me(d) \in Names /\ req'[d].secret = user[Me(d)].secret
                    /\ req'[d].name = req[d].name /\ req'[d].at # "code"
      <4>1. Me(d) \in Names
        BY <3>1, CallOf DEF ReadSealed, ReadSecret, At, Verifying, Fits, Me
      <4>2. \/ Finish(d)
            \/ \E at \in {"unconfirmed", "confirmed"} :
                 Go(d, [req[d] EXCEPT !.at = at, !.secret = user[Me(d)].secret])
        BY <3>1 DEF ReadSealed, ReadSecret
      <4>3. Finish(d) => req'[d] = Idle
        BY CallOf DEF Finish, Go
      <4>4. ASSUME NEW at \in {"unconfirmed", "confirmed"},
                   Go(d, [req[d] EXCEPT !.at = at, !.secret = user[Me(d)].secret])
            PROVE  /\ req'[d].secret = user[Me(d)].secret /\ req'[d].name = req[d].name
                   /\ req'[d].at # "code"
        BY <2>t, <4>4, CallOf DEF Go, Calls
      <4> QED BY <4>1, <4>2, <4>3, <4>4
    <3>2. ASSUME ReadConfirmed(d)
          PROVE  \/ req'[d] = Idle
                 \/ /\ req'[d].secret = req[d].secret /\ req'[d].name = req[d].name
                    /\ user[Me(d)].confirmed
      BY <2>t, <3>2, CallOf DEF ReadConfirmed, On, Go, Finish, Calls
    <3>3. req'[d] = Idle => req'[d].secret = 0
      BY DEF Idle
    <3> QED BY <3>1, <3>2, <3>3, HandlersMove DEF Moved
  <2> QED BY <1>g, <2>1, <2>2, <2>3, CodesKept
<1>4. QED
  BY <1>1, <1>2, <1>3

(* What the steps that write a row leave in the history.                   *)
LEMMA MarksMade ==
  ASSUME Kinds, NEW n \in Names
  PROVE  /\ \A c \in Clients : n = Me(c) =>
              /\ (WriteSecret(c) \/ Clear(c)) /\ Enrolling(n, c)
                   => user[n].id \in past'.crossed
              /\ Enrol(c) /\ Exists(n) =>
                   /\ Enrolling(n, c) => user[n].id \in past'.crossed
                   /\ req[c].secret \in past'.proved /\ req[c].key \in past'.spared
              /\ CreateFor(c) /\ ~Exists(n) =>
                   /\ Enrolling(n, c) => made + 1 \in past'.crossed
                   /\ Unlinking(n, c) => made + 1 \in past'.parted
                   /\ <<req[c].subject, made + 1>> \in past'.consent
         /\ Join(n) =>
              /\ Enrolling(n, Nobody) => made + 1 \in past'.crossed
              /\ Unlinking(n, Nobody) => made + 1 \in past'.parted
<1>p. past \in Remembered
  BY DEF Kinds
<1>1. ASSUME NEW c \in Clients, n = Me(c), WriteSecret(c) \/ Clear(c), Enrolling(n, c)
      PROVE  user[n].id \in past'.crossed
  BY <1>p, <1>1 DEF WriteSecret, Clear, Crossed, Remembered
<1>2. ASSUME NEW c \in Clients, n = Me(c), Enrol(c), Exists(n)
      PROVE  /\ Enrolling(n, c) => user[n].id \in past'.crossed
             /\ req[c].secret \in past'.proved /\ req[c].key \in past'.spared
  <2>1. \E ids :
          /\ Enrolling(n, c) => user[n].id \in ids
          /\ past' = [past EXCEPT !.proved = @ \cup {req[c].secret},
                                  !.spared = @ \cup {req[c].key}, !.crossed = ids]
    BY <1>2 DEF Enrol
  <2> QED BY <1>p, <2>1 DEF Remembered
<1>3. ASSUME NEW c \in Clients, n = Me(c), CreateFor(c), ~Exists(n)
      PROVE  /\ Enrolling(n, c) => made + 1 \in past'.crossed
             /\ Unlinking(n, c) => made + 1 \in past'.parted
             /\ <<req[c].subject, made + 1>> \in past'.consent
  <2>1. PICK q : q = Taken(n, c)
    OBVIOUS
  <2>2. /\ made < MaxAccounts
        /\ past' = [q EXCEPT !.consent = @ \cup {<<req[c].subject, made + 1>>}]
    BY <1>3, <2>1 DEF CreateFor
  <2>3. /\ q \in Remembered
        /\ Enrolling(n, c) => made + 1 \in q.crossed
        /\ Unlinking(n, c) => made + 1 \in q.parted
    BY <2>1, <2>2, TakenFits
  <2>4. past'.crossed = q.crossed /\ past'.parted = q.parted
        /\ past'.consent = q.consent \cup {<<req[c].subject, made + 1>>}
    BY <2>2, <2>3 DEF Remembered
  <2> QED BY <2>3, <2>4
<1>4. ASSUME Join(n)
      PROVE  /\ Enrolling(n, Nobody) => made + 1 \in past'.crossed
             /\ Unlinking(n, Nobody) => made + 1 \in past'.parted
  <2>1. made < MaxAccounts /\ past' = Taken(n, Nobody)
    BY <1>4 DEF Join
  <2> QED BY <2>1, TakenFits
<1>5. QED
  BY <1>1, <1>2, <1>3, <1>4

LEMMA NextKeepsEnrolments ==
  ASSUME Kinds, Kinds', Enrolments, IdentityNext
  PROVE  Enrolments'
<1>g. Grown
  BY NextPastFits
<1>i. \A n \in Names : user[n].id # 0 <=> Exists(n)
  BY UserRow
<1>j. \A n \in Names : Exists(n)' => user'[n].id # 0
  <2>1. \A n \in Names : user'[n] \in {NoUser} \cup Rows
    BY UsersAre DEF Kinds, IdentityTypeOK, Rows
  <2> QED BY <2>1, RowShape DEF Exists
<1>n. NoUser.confirmed = FALSE
  BY DEF NoUser
<1> DEFINE Waiting == {"write", "unconfirmed", "enrol"}
           Holds(c, n) ==
             /\ req[c].at \in {"write", "enrol"} => ~user[n].confirmed
             /\ req[c].at \in {"unconfirmed", "enrol"} => user[n].secret = req[c].secret
<1>1. ASSUME NEW c \in Clients, NEW n \in Names, n = Me(c), Exists(n)',
             user'[n].id \notin past'.crossed, req[c].at \in Waiting, req'[c] = req[c]
      PROVE  Holds(c, n)'
  <2>1. Me(c)' = n /\ \A d \in Clients : d # c => Enrolling(n, d)
    BY <1>1 DEF Enrolling, Me
  <2>n. Enrolling(n, Nobody)
    BY <1>1, IdentityAssumption DEF Enrolling
  <2>2. Exists(n) /\ user[n].id \notin past.crossed => Holds(c, n)
    BY <1>1 DEF Enrolments
  <2>3. CASE SameRow(n) \/ \E d \in Clients : n = Me(d) /\ \E step \in 1..MaxStep : EnterCode(d, step)
    <3>1. /\ user'[n].id = user[n].id /\ user'[n].secret = user[n].secret
          /\ user'[n].confirmed = user[n].confirmed
      BY <2>3, RowsAfter DEF SameRow
    <3>2. Exists(n) /\ user[n].id \notin past.crossed
      BY <1>1, <1>g, <1>i, <1>j, <3>1 DEF Grown
    <3> QED BY <1>1, <2>2, <3>1, <3>2
  <2>4. CASE Erase(n)
    BY <1>1, <2>4, RowsAfter DEF Exists
  <2>5. CASE Join(n)
    BY <1>1, <2>n, <2>5, RowsAfter, MarksMade
  <2>6. ASSUME NEW d \in Clients, n = Me(d), WriteSecret(d) \/ Clear(d) \/ Enrol(d) PROVE FALSE
    <3>1. d # c
      <4>1. req[d] \in Calls /\ (Finish(d) \/ On(d, "signout"))
        BY <2>6, CallOf DEF WriteSecret, Clear, Enrol
      <4>2. req'[d].at \in {"idle", "signout"}
        BY <4>1, CallOf DEF Finish, On, Go, Calls, Idle
      <4> QED BY <1>1, <4>2
    <3>2. user'[n].id = user[n].id
      BY <2>6, RowsAfter
    <3>3. Exists(n)
      BY <1>1, <1>i, <1>j, <3>2
    <3> QED BY <1>1, <2>1, <2>6, <3>1, <3>2, <3>3, MarksMade
  <2>7. ASSUME NEW d \in Clients, n = Me(d), CreateFor(d) PROVE SameRow(n)
    <3>1. d # c
      BY <1>1, <2>7 DEF CreateFor, At
    <3>2. CASE ~Exists(n)
      <4>1. user'[n].id = made + 1
        BY <2>7, <3>2, RowsAfter
      <4> QED BY <1>1, <2>1, <2>7, <3>1, <3>2, <4>1, MarksMade
    <3>3. CASE Exists(n)
      BY <2>7, <3>3, RowsAfter DEF SameRow
    <3> QED BY <3>2, <3>3
  <2> QED BY <2>3, <2>4, <2>5, <2>6, <2>7, UsersMove
<1>2. ASSUME NEW c \in Clients, NEW n \in Names, n = Me(c)', Exists(n)',
             user'[n].id \notin past'.crossed,
             \/ CheckFresh(c) \/ ReadSealed(c)
             \/ \E step \in 1..MaxStep : EnterFirstCode(c, step)
      PROVE  Holds(c, n)'
  <2>c. req[c] \in Calls /\ user' = user /\ past' = past
    BY <1>2, CallOf DEF CheckFresh, ReadSealed, EnterFirstCode, tables
  <2>0. CASE req'[c] = Idle
    BY <2>0 DEF Idle
  <2>f. ASSUME Finish(c) PROVE req'[c] = Idle
    BY <2>f, CallOf DEF Finish, Go
  <2>1. CASE CheckFresh(c)
    <3>1. req'[c] = Idle \/ (~user[Me(c)].confirmed /\ req'[c] = [req[c] EXCEPT !.at = "write"])
      BY <2>1, CallOf, <2>f DEF CheckFresh, On, Go
    <3> QED BY <1>2, <2>0, <2>c, <3>1 DEF Calls, Me
  <2>2. CASE ReadSealed(c)
    <3>1. \/ req'[c] = Idle
          \/ req'[c] = [req[c] EXCEPT !.at = "unconfirmed", !.secret = user[Me(c)].secret]
      BY <2>2, CallOf, <2>f DEF ReadSealed, Go
    <3>2. CASE req'[c] = [req[c] EXCEPT !.at = "unconfirmed", !.secret = user[Me(c)].secret]
      <4>1. /\ req'[c].name = req[c].name /\ req'[c].secret = user[Me(c)].secret
            /\ req'[c].at = "unconfirmed"
        BY <2>c, <3>2 DEF Calls
      <4> QED BY <1>2, <2>c, <4>1 DEF Me
    <3> QED BY <2>0, <3>1, <3>2
  <2>3. ASSUME NEW step \in 1..MaxStep, EnterFirstCode(c, step) PROVE Holds(c, n)'
    <3>1. /\ req[c].at = "unconfirmed"
          /\ \/ req'[c] = Idle
             \/ /\ ~user[Me(c)].confirmed
                /\ req'[c] = [req[c] EXCEPT !.at = "enrol", !.step = step]
      BY <2>3, CallOf, <2>f DEF EnterFirstCode, Go, At
    <3>2. n = Me(c) => user[n].secret = req[c].secret
      BY <1>2, <2>c, <3>1 DEF Enrolments, Exists
    <3>3. CASE req'[c] = [req[c] EXCEPT !.at = "enrol", !.step = step] /\ ~user[Me(c)].confirmed
      <4>1. req'[c].name = req[c].name /\ req'[c].secret = req[c].secret
        BY <2>c, <3>3 DEF Calls
      <4> QED BY <1>2, <2>c, <3>2, <3>3, <4>1 DEF Me
    <3> QED BY <2>0, <3>1, <3>3
  <2> QED BY <1>2, <2>1, <2>2, <2>3
<1>3. ASSUME NEW c \in Clients, NEW n \in Names, n = Me(c)', Exists(n)',
             user'[n].id \notin past'.crossed
      PROVE  Holds(c, n)'
  <2>1. CASE req'[c].at \in Waiting
    <3>1. CASE req'[c] = req[c]
      BY <1>1, <1>3, <2>1, <3>1 DEF Me
    <3> QED BY <1>2, <1>3, <2>1, <3>1, HandlersMove DEF Moved
  <2> QED BY <2>1
<1>4. ASSUME NEW n \in Names, user'[n].confirmed, user'[n].id \notin past'.crossed
      PROVE  user'[n].secret \in past'.proved
  <2>1. CASE SameRow(n) \/ \E d \in Clients : n = Me(d) /\ \E step \in 1..MaxStep : EnterCode(d, step)
    <3>1. /\ user'[n].id = user[n].id /\ user'[n].secret = user[n].secret
          /\ user'[n].confirmed = user[n].confirmed
      BY <2>1, RowsAfter DEF SameRow
    <3> QED BY <1>4, <1>g, <3>1 DEF Enrolments, Grown
  <2>2. CASE \/ Erase(n) \/ Join(n)
             \/ \E d \in Clients : n = Me(d) /\ (WriteSecret(d) \/ Clear(d))
    BY <1>4, <1>n, <2>2, RowsAfter DEF Blank
  <2>3. ASSUME NEW d \in Clients, n = Me(d), CreateFor(d) PROVE SameRow(n)
    BY <1>4, <2>3, RowsAfter DEF SameRow, Blank
  <2>4. ASSUME NEW d \in Clients, n = Me(d), Enrol(d) PROVE user'[n].secret \in past'.proved
    <3>1. user'[n].id = user[n].id /\ user'[n].secret = user[n].secret
      BY <2>4, RowsAfter
    <3>2. Exists(n)
      BY <1>4, <1>n, <2>4 DEF Enrol, Exists
    <3>3. user[n].id \notin past.crossed
      BY <1>4, <1>g, <3>1 DEF Grown
    <3>4. user[n].secret = req[d].secret
      BY <2>4, <3>2, <3>3 DEF Enrolments, Enrol, At
    <3> QED BY <2>4, <3>1, <3>2, <3>4, MarksMade
  <2> QED BY <2>1, <2>2, <2>3, <2>4, UsersMove
<1>5. QED
  BY <1>3, <1>4 DEF Enrolments

(* A handler that is under way goes on by a step of its own or is torn.    *)
Walks(c) ==
  \/ CheckFresh(c) \/ WriteSecret(c) \/ ReadSealed(c)
  \/ (\E step \in 1..MaxStep : EnterFirstCode(c, step) \/ EnterCode(c, step))
  \/ Enrol(c) \/ SignOutOthers(c) \/ ReadSecret(c) \/ ReadConfirmed(c)
  \/ (\E k \in Recovery : SpendRecovery(c, k))
  \/ Clear(c) \/ Reissue(c) \/ NeedsCode(c) \/ (\E t \in Tokens : Mint(c, t))
  \/ (\E s \in Subjects \cup {Nothing} : Exchange(c, s))
  \/ KnownSubject(c) \/ CreateFor(c) \/ MarkUnusable(c) \/ LookupLink(c) \/ InsertLink(c)
  \/ CountLinks(c) \/ CheckUsable(c) \/ DeleteLink(c)

LEMMA HandlersWalk ==
  ASSUME Kinds, IdentityNext, NEW c \in Clients
  PROVE  req'[c] = req[c] \/ req[c] = Idle \/ Restart \/ Walks(c)
<1>g. ASSUME NEW d \in Clients, NEW r, Go(d, r), d # c PROVE req'[c] = req[c]
  BY <1>g, CallOf DEF Go
<1>1. ASSUME NEW d \in Clients, d # c, Walks(d) PROVE req'[c] = req[c]
  <2>1. ASSUME Finish(d) \/ Proved(d) \/ \E at : On(d, at) PROVE req'[c] = req[c]
    BY <1>1, <1>g, <2>1 DEF Finish, Proved, On
  <2>2. ASSUME \/ CheckFresh(d) \/ WriteSecret(d) \/ ReadSealed(d)
               \/ (\E step \in 1..MaxStep : EnterFirstCode(d, step) \/ EnterCode(d, step))
               \/ Enrol(d) \/ SignOutOthers(d) \/ ReadSecret(d) \/ ReadConfirmed(d)
        PROVE  req'[c] = req[c]
    BY <1>1, <1>g, <2>1, <2>2
       DEF CheckFresh, WriteSecret, ReadSealed, EnterFirstCode, EnterCode, Enrol,
           SignOutOthers, ReadSecret, ReadConfirmed
  <2>3. ASSUME \/ (\E k \in Recovery : SpendRecovery(d, k))
               \/ Clear(d) \/ Reissue(d) \/ NeedsCode(d) \/ (\E t \in Tokens : Mint(d, t))
        PROVE  req'[c] = req[c]
    BY <1>1, <1>g, <2>1, <2>3 DEF SpendRecovery, Clear, Reissue, NeedsCode, Mint
  <2>4. ASSUME \/ (\E s \in Subjects \cup {Nothing} : Exchange(d, s))
               \/ KnownSubject(d) \/ CreateFor(d) \/ MarkUnusable(d) \/ LookupLink(d)
               \/ InsertLink(d) \/ CountLinks(d) \/ CheckUsable(d) \/ DeleteLink(d)
        PROVE  req'[c] = req[c]
    BY <1>1, <1>g, <2>1, <2>4
       DEF Exchange, KnownSubject, CreateFor, MarkUnusable, LookupLink, InsertLink,
           CountLinks, CheckUsable, DeleteLink
  <2> QED BY <1>1, <2>2, <2>3, <2>4 DEF Walks
<1>2. ASSUME NEW d \in Clients, NEW r, Begin(d, r) PROVE req'[c] = req[c] \/ req[c] = Idle
  BY <1>2, <1>g DEF Begin
<1>3. ASSUME NEW d \in Clients,
             \/ \E t \in Tokens : \/ \E op \in {"begin", "confirm", "disable", "regenerate"} :
                                       Present(d, t, op, Nothing)
                                  \/ \E s \in Subjects : Present(d, t, "unlink", s)
             \/ (\E n \in Names : Login(d, n))
             \/ \E f \in Flows : Callback(d, f)
      PROVE  req'[c] = req[c] \/ req[c] = Idle
  BY <1>2, <1>3 DEF Present, Login, Callback
<1>4. \/ \E d \in Clients :
           \/ Walks(d)
           \/ \E t \in Tokens : \/ \E op \in {"begin", "confirm", "disable", "regenerate"} :
                                     Present(d, t, op, Nothing)
                                \/ \E s \in Subjects : Present(d, t, "unlink", s)
           \/ (\E n \in Names : Login(d, n))
           \/ \E f \in Flows : Callback(d, f)
      \/ UNCHANGED req \/ Restart
  BY DEF IdentityNext, Walks, Start, StartLink, ExpireFlow, Erase, Join, Tick
<1>5. QED
  BY <1>1, <1>3, <1>4

LEMMA NextKeepsGuarded ==
  ASSUME Kinds, Kinds', Guarded, IdentityNext
  PROVE  Guarded'
<1>g. Grown
  BY NextPastFits
<1>n. NoUser.confirmed = FALSE
  BY DEF NoUser
<1>1. ASSUME NEW c \in Clients, req'[c].at = "signout" PROVE req'[c].key \in past'.spared
  <2>1. CASE req'[c] = req[c]
    BY <1>1, <1>g, <2>1 DEF Guarded, Grown
  <2>2. CASE Enrol(c)
    <3>1. Exists(Me(c)) /\ On(c, "signout")
      BY <1>1, <2>2, CallOf DEF Enrol, Finish, Go, Idle
    <3>2. req'[c].key = req[c].key /\ Me(c) \in Names
      BY <2>2, <3>1, CallOf DEF On, Go, Calls, Enrol, At, Fits, Me
    <3> QED BY <2>2, <3>1, <3>2, MarksMade
  <2> QED BY <1>1, <2>1, <2>2, HandlersMove DEF Moved
<1>2. ASSUME NEW n \in Names, user'[n].confirmed
      PROVE  \/ user[n].confirmed /\ user'[n].id = user[n].id
             \/ \E c \in Clients : At(c, {"confirm"}, "signout")' /\ Me(c)' = n
  <2>1. CASE SameRow(n) \/ \E d \in Clients : n = Me(d) /\ \E step \in 1..MaxStep : EnterCode(d, step)
    BY <1>2, <2>1, RowsAfter DEF SameRow
  <2>2. CASE \/ Erase(n) \/ Join(n)
             \/ \E d \in Clients : n = Me(d) /\ (WriteSecret(d) \/ Clear(d))
    BY <1>2, <1>n, <2>2, RowsAfter DEF Blank
  <2>3. ASSUME NEW d \in Clients, n = Me(d), CreateFor(d) PROVE SameRow(n)
    BY <1>2, <2>3, RowsAfter DEF SameRow, Blank
  <2>4. ASSUME NEW d \in Clients, n = Me(d), Enrol(d)
        PROVE  At(d, {"confirm"}, "signout")' /\ Me(d)' = n
    <3>1. Exists(n)
      BY <1>2, <1>n, <2>4 DEF Enrol, Exists
    <3>2. req'[d] = [req[d] EXCEPT !.at = "signout"] /\ req[d].op = "confirm"
      BY <2>4, <3>1, CallOf DEF Enrol, On, Go, At
    <3> QED BY <2>4, <3>2, CallOf DEF At, Me, Calls
  <2> QED BY <2>1, <2>2, <2>3, <2>4, UsersMove
<1>3. ASSUME NEW t \in Tokens, NEW n \in Names, token'[t] = token[t],
             token'[t].state = "live", token'[t].owner = user[n].id, token[t].how = "plain",
             user[n].confirmed
      PROVE  \/ t \in past'.late \cup past'.spared \/ user[n].id \in past'.torn
             \/ \E c \in Clients : At(c, {"confirm"}, "signout")' /\ Me(c)' = n
  <2>1. \/ t \in past.late \cup past.spared \/ user[n].id \in past.torn
        \/ \E c \in Clients : At(c, {"confirm"}, "signout") /\ Me(c) = n
    BY <1>3 DEF Guarded, SecondFactorGuards
  <2>2. ASSUME NEW c \in Clients, At(c, {"confirm"}, "signout"), Me(c) = n
        PROVE  \/ t \in past'.spared \/ user[n].id \in past'.torn
               \/ At(c, {"confirm"}, "signout")' /\ Me(c)' = n
    <3>1. req'[c] = req[c] \/ Restart \/ SignOutOthers(c)
      <4>1. req[c] # Idle
        BY <2>2 DEF At, Idle
      <4>2. Walks(c) => SignOutOthers(c)
        BY <2>2 DEF At, Verifying, Walks, CheckFresh, WriteSecret, ReadSealed, EnterFirstCode,
           EnterCode, Enrol, ReadSecret, ReadConfirmed, SpendRecovery, Clear, Reissue,
           NeedsCode, Mint, Exchange, KnownSubject, CreateFor, MarkUnusable, LookupLink,
           InsertLink, CountLinks, CheckUsable, DeleteLink
      <4> QED BY <4>1, <4>2, HandlersWalk
    <3>2. CASE req'[c] = req[c]
      BY <2>2, <3>2 DEF At, Me
    <3>3. CASE Restart
      <4>1. past \in Remembered
        BY DEF Kinds
      <4>2. user[n].id \in {user[Me(d)].id : d \in {e \in Clients : At(e, {"confirm"}, "signout")}}
        BY <2>2
      <4> QED BY <3>3, <4>1, <4>2 DEF Restart, Remembered
    <3>4. CASE SignOutOthers(c)
      <4>1. Exists(n) /\ req[c].key \in past.spared
        BY <1>3, <1>n, <2>2 DEF Exists, Guarded, At
      <4>2. t = req[c].key
        <5>1. token \in [Tokens -> {Unminted} \cup
                [state : {"live", "gone"}, owner : UserIds,
                 how : {"plain", "factor", "provider"}]]
          BY DEF Kinds, IdentityTypeOK
        <5>2. ASSUME t # req[c].key PROVE token'[t] = [token[t] EXCEPT !.state = "gone"]
          BY <1>3, <2>2, <3>4, <4>1, <5>2 DEF SignOutOthers
        <5> QED BY <1>3, <5>1, <5>2 DEF Unminted
      <4> QED BY <1>g, <4>1, <4>2 DEF Grown
    <3> QED BY <3>1, <3>2, <3>3, <3>4
  <2> QED BY <1>g, <2>1, <2>2 DEF Grown
<1>4. ASSUME NEW t \in Tokens, token'[t] # token[t], token'[t].state = "live",
             token'[t].how = "plain", NEW n \in Names, token'[t].owner = user[n].id,
             user[n].confirmed
      PROVE  t \in past'.late
  <2>t. token \in [Tokens -> {Unminted} \cup
          [state : {"live", "gone"}, owner : UserIds, how : {"plain", "factor", "provider"}]]
    BY DEF Kinds, IdentityTypeOK
  <2>g. [token[t] EXCEPT !.state = "gone"].state = "gone"
    BY <2>t DEF Unminted
  <2>1. PICK c \in Clients : Mint(c, t)
    <3>1. ASSUME NEW c \in Clients, NEW u \in Tokens, Mint(c, u) PROVE u = t
      BY <1>4, <2>t, <3>1 DEF Mint
    <3>2. ASSUME NEW c \in Clients, SignOutOthers(c) PROVE FALSE
      BY <1>4, <2>g, <3>2 DEF SignOutOthers
    <3>3. ASSUME NEW m \in Names, Erase(m) PROVE FALSE
      BY <1>4, <2>g, <3>3 DEF Erase
    <3> QED BY <1>4, <3>1, <3>2, <3>3, TokensMove
  <2>2. Exists(Me(c)) /\ token'[t].owner = user[Me(c)].id
    BY <1>4, <2>1, <2>t DEF Mint
  <2>3. Me(c) \in Names
    BY <2>1, CallOf DEF Mint, At, Fits, Me
  <2>4. n = Me(c)
    <3>1. \A l, m \in Names : Exists(l) /\ user[l].id = user[m].id => l = m
      BY DEF Kinds, IdentityTypeOK
    <3> QED BY <1>4, <2>2, <2>3, <3>1
  <2>5. past' = [past EXCEPT !.late = @ \cup {t}]
    BY <1>4, <2>1, <2>2, <2>4 DEF Mint
  <2> QED BY <2>5 DEF Kinds, Remembered
<1>5. ASSUME NEW t \in Tokens, NEW n \in Names, token'[t].state = "live",
             token'[t].owner = user'[n].id, user'[n].confirmed, token'[t].how = "plain"
      PROVE  \/ t \in past'.late \cup past'.spared \/ user'[n].id \in past'.torn
             \/ \E c \in Clients : At(c, {"confirm"}, "signout")' /\ Me(c)' = n
  <2>1. CASE user[n].confirmed /\ user'[n].id = user[n].id
    <3>1. CASE token'[t] = token[t]
      BY <1>3, <1>5, <2>1, <3>1
    <3>2. CASE token'[t] # token[t]
      BY <1>4, <1>5, <2>1, <3>2
    <3> QED BY <3>1, <3>2
  <2> QED BY <1>2, <1>5, <2>1
<1>6. QED
  BY <1>1, <1>5 DEF Guarded, SecondFactorGuards

LEMMA NextKeepsConsents ==
  ASSUME Kinds, Kinds', Consents, IdentityNext
  PROVE  Consents'
<1>g. Grown
  BY NextPastFits
<1>l. link \in [Subjects -> 0..MaxAccounts] /\ past \in Remembered
  BY DEF Kinds, IdentityTypeOK
<1>1. ASSUME NEW c \in Clients, Linking(c)'
      PROVE  <<req'[c].subject, req'[c].id>> \in past'.consent
  <2>c. req[c] \in Calls
    BY CallOf
  <2>f. ASSUME Finish(c) PROVE FALSE
    BY <1>1, <2>f, CallOf DEF Finish, Go, Idle, Linking
  <2>1. CASE CreateFor(c)
    <3>1. /\ req[c].op = "callback" /\ req[c].at = "create" /\ ~Exists(Me(c))
          /\ Go(c, [req[c] EXCEPT !.at = "mark", !.id = made + 1])
      BY <2>1, <2>f DEF CreateFor, At
    <3>2. req'[c].subject = req[c].subject /\ req'[c].id = made + 1
      BY <2>c, <3>1, CallOf DEF Go, Calls
    <3>3. Me(c) \in Names
      BY <3>1, CallOf DEF Fits, Me
    <3> QED BY <2>1, <3>1, <3>2, <3>3, MarksMade
  <2>2. ASSUME NEW s \in Subjects \cup {Nothing}, Exchange(c, s)
        PROVE  <<req'[c].subject, req'[c].id>> \in past'.consent
    <3>1. PICK at : at = IF req[c].op = "link" THEN "lookup" ELSE "known"
      OBVIOUS
    <3>2. /\ req'[c] = [req[c] EXCEPT !.subject = s, !.at = at]
          /\ past' = IF req[c].op = "link"
                     THEN [past EXCEPT !.consent = @ \cup {<<s, req[c].id>>}] ELSE past
      BY <2>2, <2>f, <3>1, CallOf DEF Exchange, Go
    <3>3. req'[c].subject = s /\ req'[c].id = req[c].id /\ req'[c].at = at
      BY <2>c, <3>2 DEF Calls
    <3>4. req[c].op = "link"
      BY <1>1, <3>1, <3>3 DEF Linking
    <3> QED BY <1>l, <3>2, <3>3, <3>4 DEF Remembered
  <2>3. CASE /\ Linking(c) /\ req'[c].id = req[c].id /\ req'[c].subject = req[c].subject
    BY <1>g, <2>3 DEF Consents, Grown
  <2> QED BY <1>1, <2>1, <2>2, <2>3, HandlersMove DEF Moved
<1>2. ASSUME NEW s \in Subjects
      PROVE  link'[s] = 0 \/ <<s, link'[s]>> \in past'.consent \/ s \in past'.strayed
  <2>1. CASE link'[s] \in {0, link[s]}
    BY <1>g, <2>1 DEF Consents, LinksAreConsented, Grown
  <2>2. ASSUME NEW c \in Clients, DeleteLink(c) PROVE link'[s] \in {0, link[s]}
    BY <1>l, <2>2 DEF DeleteLink
  <2>3. ASSUME NEW n \in Names, Erase(n) PROVE link'[s] \in {0, link[s]}
    BY <2>3 DEF Erase
  <2>4. ASSUME NEW c \in Clients, InsertLink(c), link'[s] # link[s]
        PROVE  <<s, link'[s]>> \in past'.consent \/ s \in past'.strayed
    <3> DEFINE i == user[Me(c)].id
    <3>1. /\ s = req[c].subject /\ link'[s] = i
          /\ past' = IF req[c].id \notin {0, i} THEN [past EXCEPT !.strayed = @ \cup {s}] ELSE past
      BY <1>l, <2>4 DEF InsertLink
    <3>2. req[c].id # 0 /\ Linking(c)
      BY <2>4, CallOf DEF InsertLink, At, Fits, Linking
    <3> HIDE DEF i
    <3>3. CASE req[c].id = i
      BY <1>g, <3>1, <3>2, <3>3 DEF Consents, Grown
    <3>4. CASE req[c].id # i
      BY <1>l, <3>1, <3>2, <3>4 DEF Remembered
    <3> QED BY <3>3, <3>4
  <2> QED BY <2>1, <2>2, <2>3, <2>4, LinksMove
<1>3. QED
  BY <1>1, <1>2 DEF Consents, LinksAreConsented

LEMMA RowsStay ==
  ASSUME Kinds, Kinds', IdentityNext, NEW n \in Names, Exists(n)'
  PROVE  \/ Exists(n) /\ user'[n].id = user[n].id /\ user'[n].shown = user[n].shown
         \/ Join(n)
         \/ \E c \in Clients : n = Me(c) /\ CreateFor(c) /\ ~Exists(n)
<1>i. user[n].id # 0 <=> Exists(n)
  BY UserRow
<1>j. user'[n].id # 0
  <2>1. user'[n] \in {NoUser} \cup Rows
    BY UsersAre DEF Kinds, IdentityTypeOK, Rows
  <2> QED BY <2>1, RowShape DEF Exists
<1>1. ASSUME Erase(n) PROVE FALSE
  <2>1. NoUser.id = 0
    BY DEF NoUser
  <2> QED BY <1>1, <1>j, <2>1, RowsAfter
<1>2. ASSUME NEW c \in Clients, n = Me(c), CreateFor(c), Exists(n) PROVE user' = user
  BY <1>2 DEF CreateFor
<1>3. ASSUME \/ SameRow(n)
             \/ \E c \in Clients :
                  /\ n = Me(c)
                  /\ \/ WriteSecret(c) \/ Enrol(c) \/ Clear(c)
                     \/ \E step \in 1..MaxStep : EnterCode(c, step)
      PROVE  user'[n].id = user[n].id /\ user'[n].shown = user[n].shown
  BY <1>3, RowsAfter DEF SameRow
<1>4. QED
  BY <1>i, <1>j, <1>1, <1>2, <1>3, UsersMove

LEMMA MadeGrows ==
  ASSUME Kinds, IdentityNext
  PROVE  made \in Nat /\ made' \in Nat /\ made <= made'
<1>1. made \in Nat
  BY UsersAre DEF UsersFit
<1>2. ASSUME NEW c, CreateFor(c) PROVE made' \in {made, made + 1}
  BY <1>2 DEF CreateFor
<1>3. ASSUME NEW n, Join(n) PROVE made' = made + 1
  BY <1>3 DEF Join
<1>4. UNCHANGED made \/ (\E c \in Clients : CreateFor(c)) \/ \E n \in Names : Join(n)
  <2>1. ASSUME NEW c \in Clients, WritesRows(c) PROVE UNCHANGED made \/ CreateFor(c)
    BY <2>1 DEF WritesRows, WriteSecret, Enrol, Clear, Reissue, MarkUnusable, SpendRecovery,
                EnterCode
  <2>2. ASSUME NEW c \in Clients, WritesOthers(c) PROVE UNCHANGED made
    BY <2>2 DEF WritesOthers, SignOutOthers, InsertLink, DeleteLink, Mint, Callback
  <2>3. ASSUME NEW f \in Flows, Departs(f) PROVE UNCHANGED made
    BY <2>3 DEF Departs, Start, ExpireFlow, StartLink
  <2>4. UNCHANGED tables \/ Tick \/ Restart \/ (\E n \in Names : Erase(n)) => UNCHANGED made
    BY DEF tables, Tick, Restart, Erase
  <2> QED BY <2>1, <2>2, <2>3, <2>4, Effects
<1>5. QED
  BY <1>1, <1>2, <1>3, <1>4

(* A link of an account that stays goes by one handler only.               *)
LEMMA LinkStays ==
  ASSUME Kinds, IdentityNext, NEW n \in Names, NEW s \in Links(n), Exists(n)'
  PROVE  \/ link'[s] = link[s]
         \/ \E c \in Clients : DeleteLink(c) /\ Me(c) = n /\ req[c].subject = s
<1>l. link \in [Subjects -> 0..MaxAccounts]
  BY DEF Kinds, IdentityTypeOK
<1>n. s \in Subjects /\ Exists(n) /\ link[s] = user[n].id /\ user[n].id # 0
  BY UserRow DEF Links
<1>u. \A m \in Names : user[m].id = user[n].id => m = n
  BY <1>n DEF Kinds, IdentityTypeOK
<1>1. ASSUME NEW c \in Clients, InsertLink(c) PROVE link'[s] = link[s]
  BY <1>l, <1>n, <1>1 DEF InsertLink
<1>2. ASSUME NEW m \in Names, Erase(m) PROVE link'[s] = link[s]
  <2>1. m # n
    BY <1>2, RowsAfter DEF Exists
  <2> QED BY <1>n, <1>u, <1>2, <2>1 DEF Erase
<1>3. ASSUME NEW c \in Clients, DeleteLink(c), link'[s] # link[s]
      PROVE  Me(c) = n /\ req[c].subject = s
  <2>1. Me(c) \in Names
    BY <1>3, CallOf DEF DeleteLink, At, Fits, Me
  <2>2. s = req[c].subject /\ s \in Links(Me(c))
    BY <1>l, <1>n, <1>3 DEF DeleteLink
  <2> QED BY <1>n, <1>u, <2>1, <2>2 DEF Links
<1>4. QED
  BY <1>1, <1>2, <1>3, LinksMove

(* A founding handler goes on, or gives up and leaves its account alone,   *)
(* or links it.                                                            *)
LEMMA FoundersWalk ==
  ASSUME Kinds, IdentityNext, NEW c \in Clients, Founding(c)
  PROVE  \/ Founding(c)' /\ req'[c].id = req[c].id
         \/ req[c].id \in past'.orphans
         \/ /\ req[c].subject \in Subjects /\ Exists(Me(c)) /\ UNCHANGED user
            /\ link'[req[c].subject] = user[Me(c)].id
<1>c. req[c] \in Calls /\ Fits(req[c]) /\ req[c].id # 0 /\ past \in Remembered
  BY CallOf DEF Fits, Founding, Linking, Kinds
<1>1. req'[c] = req[c] \/ Restart \/ MarkUnusable(c) \/ LookupLink(c) \/ InsertLink(c)
  <2>1. req[c] # Idle
    BY DEF Founding, Idle
  <2>2. Walks(c) => MarkUnusable(c) \/ LookupLink(c) \/ InsertLink(c)
    BY DEF Founding, Linking, At, Verifying, Walks, CheckFresh, WriteSecret, ReadSealed,
       EnterFirstCode, EnterCode, Enrol, SignOutOthers, ReadSecret, ReadConfirmed,
       SpendRecovery, Clear, Reissue, NeedsCode, Mint, Exchange, KnownSubject, CreateFor,
       CountLinks, CheckUsable, DeleteLink
  <2> QED BY <2>1, <2>2, HandlersWalk
<1>2. ASSUME NEW at \in {"lookup", "insert"}, On(c, at)
      PROVE  Founding(c)' /\ req'[c].id = req[c].id
  BY <1>c, <1>2, CallOf DEF On, Go, Calls, Founding, Linking
<1>3. ASSUME past' = Unlinked(c) PROVE req[c].id \in past'.orphans
  BY <1>c, <1>3 DEF Unlinked, Founding, Remembered
<1>4. CASE req'[c] = req[c]
  BY <1>4 DEF Founding, Linking
<1>5. CASE Restart
  <2>1. req[c].id \in {req[d].id : d \in {e \in Clients :
                                     At(e, {"callback"}, req[e].at) /\ req[e].id # 0}}
    BY <1>c DEF At, Founding
  <2> QED BY <1>c, <1>5, <2>1 DEF Restart, Remembered
<1>6. CASE MarkUnusable(c)
  BY <1>2, <1>6 DEF MarkUnusable
<1>7. CASE LookupLink(c)
  BY <1>2, <1>3, <1>7 DEF LookupLink
<1>8. CASE InsertLink(c)
  <2>1. req[c].subject \in Subjects /\ link \in [Subjects -> 0..MaxAccounts]
    BY <1>c, <1>8 DEF InsertLink, At, Fits, Kinds, IdentityTypeOK
  <2>2. \/ past' = Unlinked(c)
        \/ Exists(Me(c)) /\ link' = [link EXCEPT ![req[c].subject] = user[Me(c)].id]
           /\ UNCHANGED user
    BY <1>8 DEF InsertLink
  <2> QED BY <1>3, <2>1, <2>2
<1>9. QED
  BY <1>1, <1>4, <1>5, <1>6, <1>7, <1>8

LEMMA NextKeepsFounders ==
  ASSUME Kinds, Kinds', WaysIn, IdentityNext, NEW c \in Clients, NEW n \in Names, Founding(c)'
  PROVE  req'[c].id <= made' /\ (user'[n].id = req'[c].id => n = Me(c)')
<1>m. made \in Nat /\ made' \in Nat /\ made <= made'
  BY MadeGrows
<1>c. req[c] \in Calls /\ req'[c].id \in Nat /\ req'[c].id # 0
  BY CallOf DEF Kinds, Fits, Calls, Founding, Linking
<1>f. ASSUME Finish(c) PROVE FALSE
  BY <1>f, CallOf DEF Finish, Go, Idle, Founding
<1>1. CASE CreateFor(c)
  <2>1. /\ req[c].op = "callback" /\ req[c].at = "create" /\ ~Exists(Me(c)) /\ made' = made + 1
        /\ Go(c, [req[c] EXCEPT !.at = "mark", !.id = made + 1])
    BY <1>1, <1>f DEF CreateFor, At
  <2>2. req'[c].id = made + 1 /\ Me(c)' = Me(c) /\ Me(c) \in Names
    BY <1>c, <2>1, CallOf DEF Go, Calls, Me, Fits
  <2>3. user'[Me(c)].id = made + 1
    BY <1>1, <2>1, <2>2, RowsAfter
  <2>4. Exists(Me(c))'
    <3>1. NoUser.id = 0
      BY DEF NoUser
    <3> QED BY <1>m, <2>2, <2>3, <3>1 DEF Exists
  <2>5. user'[n].id = made + 1 => n = Me(c)
    BY <2>2, <2>3, <2>4 DEF Kinds, IdentityTypeOK
  <2> QED BY <1>m, <2>1, <2>2, <2>5
<1>2. ASSUME NEW s \in Subjects \cup {Nothing}, Exchange(c, s) PROVE FALSE
  <2>1. PICK at : at = IF req[c].op = "link" THEN "lookup" ELSE "known"
    OBVIOUS
  <2>2. req'[c] = [req[c] EXCEPT !.subject = s, !.at = at]
    BY <1>2, <1>f, <2>1, CallOf DEF Exchange, Go
  <2> QED BY <1>c, <2>1, <2>2 DEF Calls, Founding, Linking
<1>3. CASE /\ Linking(c) /\ req'[c].op = req[c].op /\ req'[c].name = req[c].name
           /\ req'[c].id = req[c].id
  <2>1. Founding(c) /\ Me(c)' = Me(c)
    BY <1>3 DEF Founding, Me
  <2>2. req[c].id <= made /\ (user[n].id = req[c].id => n = Me(c))
    BY <2>1 DEF WaysIn
  <2>3. user'[n].id = req'[c].id => user[n].id = req[c].id
    <3>1. user'[n].id # 0 => Exists(n)'
      BY DEF Exists, NoUser
    <3>2. Join(n) \/ (\E d \in Clients : n = Me(d) /\ CreateFor(d) /\ ~Exists(n))
            => user'[n].id = made + 1
      BY RowsAfter
    <3> QED BY <1>c, <1>m, <1>3, <2>2, <3>1, <3>2, RowsStay
  <2> QED BY <1>c, <1>m, <1>3, <2>1, <2>2, <2>3
<1>4. QED
  <2>1. Linking(c)'
    BY DEF Founding
  <2> QED BY <1>1, <1>2, <1>3, <2>1, HandlersMove DEF Moved

LEMMA NextKeepsAWay ==
  ASSUME Kinds, Kinds', WaysIn, IdentityNext, NEW n \in Names, Exists(n)'
  PROVE  \/ user'[n].shown \/ Links(n)' # {} \/ Lost(n)'
         \/ \E c \in Clients : Founding(c)' /\ req'[c].id = user'[n].id
<1>g. Grown
  BY NextPastFits
<1>1. CASE Join(n)
  BY <1>1, RowsAfter
<1>2. ASSUME NEW d \in Clients, n = Me(d), CreateFor(d), ~Exists(n)
      PROVE  Founding(d)' /\ req'[d].id = user'[n].id
  <2>1. /\ req[d].op = "callback" /\ req[d] \in Calls
        /\ req'[d] = [req[d] EXCEPT !.at = "mark", !.id = made + 1]
    BY <1>2, CallOf DEF CreateFor, At, Go
  <2>2. user'[n].id = made + 1
    BY <1>2, RowsAfter
  <2> QED BY <2>1, <2>2 DEF Founding, Linking, Calls
<1>3. CASE Exists(n) /\ user'[n].id = user[n].id /\ user'[n].shown = user[n].shown
  <2>0. Lost(n) => Lost(n)'
    BY <1>g, <1>3 DEF Lost, Grown
  <2>l. \A s \in Links(n) : link'[s] = link[s] => s \in Links(n)'
    BY <1>3 DEF Links
  <2>1. ASSUME NEW s \in Links(n) PROVE user'[n].shown \/ Links(n)' # {} \/ Lost(n)'
    <3>1. ASSUME NEW c \in Clients, DeleteLink(c), Me(c) = n, req[c].subject = s
          PROVE  user'[n].shown \/ Links(n)' # {} \/ Lost(n)'
      <4>1. user[n].shown \/ Lost(n) \/ \E r \in Links(n) : r # s
        BY <1>3, <3>1 DEF WaysIn, DeleteLink, At
      <4>2. ASSUME NEW r \in Links(n), r # s PROVE link'[r] = link[r]
        BY <3>1, <4>2 DEF DeleteLink, Links, Kinds, IdentityTypeOK
      <4> QED BY <1>3, <2>0, <2>l, <4>1, <4>2
    <3> QED BY <2>l, <3>1, LinkStays
  <2>2. ASSUME NEW c \in Clients, Founding(c), req[c].id = user[n].id
        PROVE  \/ Links(n)' # {} \/ Lost(n)'
               \/ (Founding(c)' /\ req'[c].id = user'[n].id)
    <3>1. n = Me(c)
      BY <2>2 DEF WaysIn
    <3>2. req[c].id \in past'.orphans => Lost(n)'
      BY <1>3, <2>2 DEF Lost
    <3>3. ASSUME req[c].subject \in Subjects, link'[req[c].subject] = user[n].id
          PROVE  req[c].subject \in Links(n)'
      BY <1>3, <3>3 DEF Links
    <3>4. \/ Founding(c)' /\ req'[c].id = req[c].id
          \/ req[c].id \in past'.orphans
          \/ req[c].subject \in Subjects /\ link'[req[c].subject] = user[Me(c)].id
      BY <2>2, FoundersWalk
    <3>5. CASE Founding(c)' /\ req'[c].id = req[c].id
      BY <1>3, <2>2, <3>5
    <3>6. CASE req[c].subject \in Subjects /\ link'[req[c].subject] = user[Me(c)].id
      BY <3>1, <3>3, <3>6
    <3> QED BY <3>2, <3>4, <3>5, <3>6
  <2> QED BY <1>3, <2>0, <2>1, <2>2 DEF WaysIn
<1>4. QED
  BY <1>1, <1>2, <1>3, RowsStay

LEMMA NextKeepsUnlinkers ==
  ASSUME Kinds, Kinds', WaysIn, IdentityNext, NEW c \in Clients, NEW n \in Names,
         req'[c].at = "delete", n = Me(c)', Exists(n)'
  PROVE  user'[n].shown \/ Lost(n)' \/ \E s \in Links(n)' : s # req'[c].subject
<1>g. Grown
  BY NextPastFits
<1>c. req[c] \in Calls /\ Fits(req[c]) /\ past \in Remembered
  BY CallOf DEF Kinds
<1>f. ASSUME Finish(c) PROVE FALSE
  BY <1>f, CallOf DEF Finish, Go, Idle
<1>1. CASE CountLinks(c)
  <2>1. /\ ~(Cardinality(Links(Me(c))) <= 1)
        /\ req'[c] = [req[c] EXCEPT !.at = "delete"] /\ UNCHANGED <<user, link>>
    <3>1. PICK at : at = IF Cardinality(Links(Me(c))) <= 1 THEN "usable" ELSE "delete"
      OBVIOUS
    <3>2. req'[c] = [req[c] EXCEPT !.at = at] /\ UNCHANGED <<user, link>>
      BY <1>1, <3>1, CallOf DEF CountLinks, On, Go, tables
    <3>3. at = "delete"
      BY <1>c, <3>2 DEF Calls
    <3> QED BY <3>1, <3>2, <3>3
  <2>2. n = Me(c) /\ req'[c].subject = req[c].subject
    BY <1>c, <2>1 DEF Me, Calls
  <2>3. \E s \in Links(n) : s # req[c].subject
    <3>1. ASSUME Links(n) \subseteq {req[c].subject} PROVE FALSE
      <4>1. IsFiniteSet({req[c].subject}) /\ Cardinality({req[c].subject}) = 1
        BY FS_Singleton
      <4>2. Cardinality(Links(n)) <= 1
        BY <3>1, <4>1, FS_Subset
      <4> QED BY <2>1, <2>2, <4>2
    <3> QED BY <3>1
  <2> QED BY <2>1, <2>2, <2>3 DEF Links, Exists
<1>2. CASE CheckUsable(c)
  <2>1. /\ user[Me(c)].usable \/ ~Exists(Me(c))
        /\ req'[c] = [req[c] EXCEPT !.at = "delete"] /\ user' = user /\ past' = Unmarked(c)
    BY <1>2, <1>f, CallOf DEF CheckUsable, On, Go, tables
  <2>2. n = Me(c)
    BY <1>c, <2>1 DEF Me, Calls
  <2>3. user[n].usable
    BY <2>1, <2>2 DEF Exists
  <2>4. user'[n].shown \/ user'[n].id \in past'.parted
    BY <1>c, <2>1, <2>2, <2>3 DEF Unmarked, Remembered
  <2> QED BY <2>4 DEF Lost
<1>3. CASE req'[c] = req[c]
  <2>c. req[c].at = "delete" /\ n = Me(c)
    BY <1>3 DEF Me
  <2>d. ASSUME NEW d, d # c PROVE Unlinking(n, d)
    BY <2>c, <2>d DEF Unlinking
  <2>1. CASE Join(n)
    <3>1. Unlinking(n, Nobody)
      BY <2>d, IdentityAssumption
    <3> QED BY <2>1, <3>1, MarksMade, RowsAfter DEF Lost
  <2>2. ASSUME NEW d \in Clients, n = Me(d), CreateFor(d), ~Exists(n) PROVE Lost(n)'
    <3>1. d # c
      BY <2>c, <2>2 DEF CreateFor, At
    <3>2. made + 1 \in past'.parted /\ user'[n].id = made + 1
      BY <2>2, <2>d, <3>1, MarksMade, RowsAfter
    <3> QED BY <3>2 DEF Lost
  <2>3. CASE Exists(n) /\ user'[n].id = user[n].id /\ user'[n].shown = user[n].shown
    <3>0. Lost(n) => Lost(n)'
      BY <1>g, <2>3 DEF Lost, Grown
    <3>1. ASSUME NEW s \in Links(n), s # req[c].subject PROVE s \in Links(n)' \/ Lost(n)'
      <4>1. link'[s] = link[s] => s \in Links(n)'
        BY <2>3 DEF Links
      <4>2. ASSUME NEW d \in Clients, DeleteLink(d), Me(d) = n PROVE Lost(n)'
        <5>1. d # c
          BY <4>2, <1>f DEF DeleteLink
        <5>2. past' = [past EXCEPT !.parted = @ \cup {user[n].id}]
          BY <2>d, <4>2, <5>1 DEF DeleteLink
        <5>3. user[n].id \in past'.parted
          BY <1>c, <5>2 DEF Remembered
        <5> QED BY <2>3, <5>3 DEF Lost
      <4> QED BY <4>1, <4>2, LinkStays
    <3>2. user[n].shown \/ Lost(n) \/ \E s \in Links(n) : s # req[c].subject
      BY <2>3, <2>c DEF WaysIn
    <3> QED BY <1>3, <2>3, <3>0, <3>1, <3>2
  <2> QED BY <2>1, <2>2, <2>3, RowsStay
<1>4. QED
  BY <1>1, <1>2, <1>3, HandlersMove DEF Moved

LEMMA NextKeepsWaysIn ==
  ASSUME Kinds, Kinds', WaysIn, IdentityNext
  PROVE  WaysIn'
<1>1. \A c \in Clients, n \in Names :
        Founding(c)' => req'[c].id <= made' /\ (user'[n].id = req'[c].id => n = Me(c)')
  BY NextKeepsFounders
<1>2. \A n \in Names : Exists(n)' =>
        \/ user'[n].shown \/ Links(n)' # {} \/ Lost(n)'
        \/ \E c \in Clients : Founding(c)' /\ req'[c].id = user'[n].id
  BY NextKeepsAWay
<1>3. \A c \in Clients, n \in Names :
        req'[c].at = "delete" /\ n = Me(c)' /\ Exists(n)' =>
          user'[n].shown \/ Lost(n)' \/ \E s \in Links(n)' : s # req'[c].subject
  BY NextKeepsUnlinkers
<1>4. QED
  BY <1>1, <1>2, <1>3 DEF WaysIn

LEMMA NextKeepsIdInv ==
  ASSUME IdInv, [IdentityNext]_identityVars
  PROVE  IdInv'
<1>1. CASE IdentityNext
  <2>1. Kinds'
    BY <1>1, NextKinds DEF IdInv
  <2> QED BY <1>1, <2>1, NextKeepsCodes, NextKeepsEnrolments, NextKeepsGuarded,
             NextKeepsConsents, NextKeepsWaysIn DEF IdInv
<1>2. CASE UNCHANGED identityVars
  <2>v. /\ opens' = opens /\ strict' = strict /\ clock' = clock /\ user' = user /\ link' = link
        /\ token' = token /\ flow' = flow /\ used' = used /\ made' = made /\ req' = req
        /\ issued' = issued /\ past' = past
    BY <1>2 DEF identityVars, tables, config
  <2>1. Kinds'
    BY <2>v DEF IdInv, Kinds, IdentityTypeOK, Exists
  <2>2. Codes'
    BY <2>v DEF IdInv, Codes, CodesWorkOnce, Me
  <2>3. Enrolments' /\ Guarded'
    BY <2>v DEF IdInv, Enrolments, Guarded, SecondFactorGuards, Me, Exists, At
  <2>4. Consents'
    BY <2>v DEF IdInv, Consents, LinksAreConsented, Linking
  <2>5. WaysIn'
    BY <2>v DEF IdInv, WaysIn, Founding, Linking, Links, Lost, Exists, Me
  <2> QED BY <2>1, <2>2, <2>3, <2>4, <2>5 DEF IdInv
<1>3. QED
  BY <1>1, <1>2

LEMMA InitIdInv ==
  ASSUME IdentityInit
  PROVE  IdInv
<1>0. /\ 0 \in 0..MaxAccounts /\ 1 \in 0..MaxAccounts /\ 1 \in UserIds /\ 0 \in 0..MaxSecrets
      /\ 1 \in 0..MaxSecrets /\ 0 \in 0..MaxCodes /\ 1 \in 0..MaxCodes /\ 1 \in Recovery
      /\ 0 \in 0..MaxStep /\ 1 \in 1..MaxStep /\ 0 \in 0..MaxTokens /\ 0 \in 0..MaxRequests
  BY IdentityAssumption DEF UserIds, Recovery
<1> PICK n \in Names, shown \in BOOLEAN, on \in BOOLEAN, own \in SUBSET Subjects :
       /\ strict => shown
       /\ shown \/ own # {}
       /\ user = [m \in Names |-> IF m # n THEN NoUser
            ELSE [NoUser EXCEPT !.id = 1, !.admin = strict, !.active = TRUE,
                                !.usable = shown, !.shown = shown,
                                !.secret = IF on THEN 1 ELSE 0,
                                !.confirmed = on,
                                !.codes = IF on THEN {1} ELSE {}]]
       /\ link = [s \in Subjects |-> IF s \in own THEN 1 ELSE 0]
       /\ token = [t \in Tokens |-> IF t = 1
            THEN [state |-> "live", owner |-> 1,
                  how |-> IF on THEN "factor" ELSE "plain"]
            ELSE Unminted]
       /\ used = [secrets |-> IF on THEN 1 ELSE 0,
                  codes |-> IF on THEN 1 ELSE 0]
       /\ past = [crossed |-> {}, proved |-> IF on THEN {1} ELSE {},
                  spared |-> {}, late |-> {}, torn |-> {},
                  accepted |-> {}, twice |-> FALSE,
                  consent |-> own \X {1}, strayed |-> {}, orphans |-> {},
                  parted |-> {}]
  BY DEF IdentityInit
<1> PICK sec, cs : sec = (IF on THEN 1 ELSE 0) /\ cs = (IF on THEN {1} ELSE {})
  OBVIOUS
<1> DEFINE u == [NoUser EXCEPT !.id = 1, !.admin = strict, !.active = TRUE,
                               !.usable = shown, !.shown = shown,
                               !.secret = sec, !.confirmed = on, !.codes = cs]
<1>1. user = [m \in Names |-> IF m = n THEN u ELSE NoUser]
  <2>1. user = [m \in Names |-> IF m # n THEN NoUser ELSE u]
    OBVIOUS
  <2> HIDE DEF u
  <2> QED BY <2>1
<1>2. /\ opens \in {"nothing", "account", "pending"} /\ strict \in BOOLEAN /\ clock = 1
      /\ flow = [f \in Flows |-> NoFlow] /\ req = [c \in Clients |-> Idle]
      /\ made = 1 /\ issued = 0
  BY DEF IdentityInit
<1>3. /\ u \in Rows /\ u.id = 1 /\ u.secret \in {0, 1} /\ u.shown = shown /\ u.confirmed = on
      /\ u.secret = (IF on THEN 1 ELSE 0)
  <2>1. sec \in {0, 1} /\ sec \in 0..MaxSecrets /\ cs \in SUBSET Recovery /\ strict \in BOOLEAN
    BY <1>0, <1>2
  <2>2. /\ u \in Rows /\ u.id = 1 /\ u.secret = sec /\ u.shown = shown /\ u.confirmed = on
    BY <1>0, <2>1 DEF Rows, NoUser
  <2> QED BY <2>1, <2>2
<1>4. NoUser.id = 0 /\ NoUser.secret = 0 /\ NoUser.confirmed = FALSE
  BY DEF NoUser
<1> HIDE DEF u
<1>5. \A c \in Clients : req[c] = Idle
  BY <1>2
<1>6. \A m \in Names : user[m] = IF m = n THEN u ELSE NoUser
  BY <1>1
<1>7. Kinds
  <2>1. past \in Remembered
    BY <1>0 DEF Remembered
  <2>2. /\ user \in [Names -> {NoUser} \cup Rows]
        /\ link \in [Subjects -> 0..MaxAccounts]
        /\ used \in [secrets : 0..MaxSecrets, codes : 0..MaxCodes]
    BY <1>0, <1>1, <1>3
  <2>3. token \in [Tokens -> {Unminted} \cup
          [state : {"live", "gone"}, owner : UserIds, how : {"plain", "factor", "provider"}]]
    BY <1>0
  <2>4. flow \in [Flows -> [state : {"none", "live", "gone"},
                            to : Names \cup {Nobody}, by : 0..MaxAccounts]]
        /\ \A f \in Flows : flow[f].to = Nobody
    BY <1>0, <1>2 DEF NoFlow
  <2>5. req \in [Clients -> Calls] /\ \A c \in Clients : Fits(req[c])
    BY <1>2, <1>5, RestFits DEF Fits
  <2>6. \A l, m \in Names : Exists(l) /\ user[l].id = user[m].id => l = m
    BY <1>3, <1>4, <1>6 DEF Exists
  <2>7. \A m \in Names : user[m].id <= made
    BY <1>2, <1>3, <1>4, <1>6
  <2>8. IdentityTypeOK
    BY <1>0, <1>2, <2>2, <2>3, <2>4, <2>5, <2>6 DEF IdentityTypeOK, Rows, Calls
  <2> QED BY <2>1, <2>4, <2>5, <2>7, <2>8 DEF Kinds
<1>8. Codes
  <2>1. /\ \A m \in Names : user[m].secret <= used.secrets
        /\ \A l, m \in Names : user[l].secret = user[m].secret /\ user[l].secret # 0 => l = m
    BY <1>3, <1>4, <1>6
  <2>2. Idle.secret = 0 /\ Idle.at = "idle" /\ 0 <= used.secrets
    BY DEF Idle
  <2>3. past.accepted = {} /\ past.twice = FALSE
    OBVIOUS
  <2> QED BY <1>5, <2>1, <2>2, <2>3 DEF Codes, CodesWorkOnce
<1>9. Enrolments /\ Guarded
  <2>1. Idle.at = "idle"
    BY DEF Idle
  <2>2. \A m \in Names : user[m].confirmed => user[m].secret \in past.proved
    BY <1>3, <1>4, <1>6
  <2>3. \A m \in Names, t \in Tokens : ~(user[m].confirmed /\ token[t].how = "plain")
    <3>1. Unminted.how = "none"
      BY DEF Unminted
    <3> QED BY <1>3, <1>4, <1>6, <3>1
  <2> QED BY <1>5, <2>1, <2>2, <2>3 DEF Enrolments, Guarded, SecondFactorGuards
<1>10. Consents
  BY <1>5 DEF Consents, LinksAreConsented, Linking, Idle
<1>11. WaysIn
  <2>1. Idle.at = "idle"
    BY DEF Idle
  <2>2. ASSUME NEW m \in Names, Exists(m) PROVE user[m].shown \/ Links(m) # {}
    <3>1. m = n /\ user[m] = u
      BY <1>6, <2>2 DEF Exists
    <3>2. ASSUME own # {} PROVE Links(m) # {}
      BY <1>3, <2>2, <3>1, <3>2 DEF Links
    <3> QED BY <1>3, <3>1, <3>2
  <2> QED BY <1>5, <2>1, <2>2 DEF WaysIn, Founding, Linking
<1>12. QED
  BY <1>7, <1>8, <1>9, <1>10, <1>11 DEF IdInv

(* Every reachable state satisfies the invariant of the ways in.           *)
THEOREM WaysInAreKept == IdentitySpec => []IdInv
<1>1. IdentityInit => IdInv
  BY InitIdInv
<1>2. IdInv /\ [IdentityNext]_identityVars => IdInv'
  BY NextKeepsIdInv
<1>3. QED
  BY <1>1, <1>2, PTL DEF IdentitySpec

(* Whose account it is: identities are linked only where their owner asked *)
(* (totp.rs:263-267), and every account has a way in (federated.rs:74-76). *)
THEOREM OwnersAreKept == IdentitySpec => []AccountsKeepTheirOwner
<1>1. IdInv => AccountsKeepTheirOwner
  <2>1. ASSUME IdInv PROVE IdentityTypeOK /\ LinksAreConsented
    BY <2>1 DEF IdInv, Kinds, Consents
  <2>2. ASSUME IdInv PROVE SomeWayIn
    BY <2>2 DEF IdInv, WaysIn, SomeWayIn, Lost, Founding
  <2> QED BY <2>1, <2>2 DEF AccountsKeepTheirOwner
<1>2. QED
  BY <1>1, WaysInAreKept, PTL

(* Of a step from a state of the invariant: whose factor is confirmed      *)
(* keeps it, unless it is switched off or the account ends.                *)
LEMMA StepKeepsFactor ==
  ASSUME IdInv, IdentityNext, NEW n \in Names, user[n].confirmed,
         user[n].id \notin past'.crossed
  PROVE  /\ user[n].secret \in past.proved
         /\ \/ user'[n].confirmed /\ user'[n].secret = user[n].secret
            \/ user'[n].id # user[n].id
            \/ \E c \in Clients : At(c, {"disable"}, "clear") /\ Me(c) = n
<1>k. Kinds /\ Enrolments
  BY DEF IdInv
<1>g. user[n].id \notin past.crossed
  BY <1>k, NextPastFits DEF Grown
<1>e. Exists(n) /\ user[n].id # 0
  <2>1. NoUser.confirmed = FALSE
    BY DEF NoUser
  <2> QED BY <1>k, <2>1, UserRow DEF Exists
<1>1. user[n].secret \in past.proved
  BY <1>k, <1>g DEF Enrolments
<1>2. CASE \/ SameRow(n)
           \/ \E c \in Clients : /\ n = Me(c)
                                 /\ \/ CreateFor(c) \/ Enrol(c)
                                    \/ \E step \in 1..MaxStep : EnterCode(c, step)
  BY <1>k, <1>e, <1>1, <1>2, RowsAfter DEF SameRow
<1>3. CASE Erase(n) \/ Join(n)
  <2>1. NoUser.id = 0
    BY DEF NoUser
  <2> QED BY <1>k, <1>e, <1>1, <1>3, <2>1, RowsAfter
<1>4. ASSUME NEW c \in Clients, n = Me(c), Clear(c) PROVE At(c, {"disable"}, "clear")
  BY <1>4 DEF Clear
<1>5. ASSUME NEW c \in Clients, n = Me(c), WriteSecret(c) PROVE FALSE
  BY <1>k, <1>g, <1>e, <1>5 DEF Enrolments, WriteSecret, At
<1>6. QED
  BY <1>k, <1>1, <1>2, <1>3, <1>4, <1>5, UsersMove

(* A second factor stays on, with the secret whose code was seen, until a  *)
(* handler that proved it switches it off (totp.rs:11-12).                 *)
THEOREM FactorIsNotLost == IdentitySpec => FactorStands
<1>1. IdInv /\ [IdentityNext]_identityVars => [FactorIsKept]_identityVars
  BY StepKeepsFactor DEF FactorIsKept
<1>2. IdentitySpec => [][FactorIsKept]_identityVars
  BY <1>1, WaysInAreKept, PTL DEF IdentitySpec
<1>3. QED
  BY <1>2 DEF FactorStands

(* A second factor guards against whoever lacks it (totp.rs:30-33), no     *)
(* code of it works twice (totp.rs:134-136), and it stays until somebody   *)
(* who proved it ends it.                                                  *)
THEOREM FactorDoesHold == IdentitySpec => FactorHolds
<1>1. IdInv => SecondFactorHolds
  BY DEF IdInv, Guarded, Codes, SecondFactorHolds
<1>2. IdentitySpec => []SecondFactorHolds
  BY <1>1, WaysInAreKept, PTL
<1>3. QED
  BY <1>2, FactorIsNotLost DEF FactorHolds

=============================================================================
