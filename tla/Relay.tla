------------------------------- MODULE Relay -------------------------------
(***************************************************************************)
(* The in-memory audio relay: relay.rs (sessions), relay/open.rs (who may  *)
(* open one), relay/upload.rs (the sender) and relay/download.rs (the      *)
(* receivers).  A direct session is a bounded channel with one sender and  *)
(* one receiver; a fanout copies each chunk to every attached listener of  *)
(* a jam and drops a listener that falls a whole buffer behind.            *)
(*                                                                         *)
(* Chunks are numbered by their place in the file.  A session's age is     *)
(* reduced to whether it has passed SESSION_TTL.                           *)
(***************************************************************************)
EXTENDS Integers, Sequences, FiniteSets

CONSTANTS
  Users, Devices, Owner,    \* Owner \in [Devices -> Users]
  Friends,                  \* accepted friendships, as a symmetric relation
  Blocked,                  \* pairs with a block between them, symmetric
  NoDevice,
  Ids,                      \* session ids, never used twice
  Chunks,                   \* bound: chunks in the file
  MaxPosts,                 \* bound: uploads attempted per session
  CHANNEL_BUFFER_CHUNKS, FANOUT_BUFFER_CHUNKS

ASSUME RelayAssumption ==
  /\ Owner \in [Devices -> Users]
  /\ NoDevice \notin Devices
  /\ {Chunks, MaxPosts} \subseteq Nat
  /\ {CHANNEL_BUFFER_CHUNKS, FANOUT_BUFFER_CHUNKS} \subseteq Nat \ {0}

VARIABLES
  jam,       \* members of the one jam there is
  session,   \* what each id was opened for
  hub,       \* RelayHub.sessions
  aged,      \* sessions older than SESSION_TTL
  posts,     \* uploads attempted
  meta,      \* the upload whose encryption headers the session holds
  feed,      \* the sender: which upload, how much of it, and how it stands
  queue,     \* chunks on the way to a receiver
  reader,    \* how each receiver stands
  got,       \* chunks a receiver was given
  seen,      \* the encryption headers a receiver was given
  holdings   \* device_holdings, with the session that recorded each

vars == <<jam, session, hub, aged, posts, meta, feed, queue, reader, got, seen,
          holdings>>

----------------------------------------------------------------------------
Unopened == [kind |-> "none", from |-> NoDevice, to |-> NoDevice]
NoFeed == [by |-> 0, sent |-> 0, state |-> "free"]
Failure == 0

Kind(id) == session[id].kind
Found(id) == id \in hub \ aged

Restarted(x) == [id \in Ids |-> [d \in Devices |-> x]]

Init ==
  /\ jam = {}
  /\ session = [id \in Ids |-> Unopened]
  /\ hub = {} /\ aged = {}
  /\ posts = [id \in Ids |-> 0]
  /\ meta = [id \in Ids |-> 0]
  /\ feed = [id \in Ids |-> NoFeed]
  /\ queue = Restarted(<<>>)
  /\ reader = Restarted("none")
  /\ got = Restarted(<<>>)
  /\ seen = Restarted(0)
  /\ holdings = {}

----------------------------------------------------------------------------
(* POST /relay/open.  Opening one session drops those that have aged. *)

MayAsk(user, from) ==
  LET sender == Owner[from] IN
  \/ sender = user
  \/ /\ <<user, sender>> \notin Blocked
     /\ <<user, sender>> \in Friends \/ {user, sender} \subseteq jam

Create(id, s) ==
  /\ session[id] = Unopened
  /\ session' = [session EXCEPT ![id] = s]
  /\ hub' = (hub \ aged) \cup {id}
  /\ UNCHANGED <<jam, aged, posts, meta, feed, queue, reader, got, seen, holdings>>

OpenDirect(id, from, to) ==
  /\ MayAsk(Owner[to], from)
  /\ Create(id, [kind |-> "direct", from |-> from, to |-> to])

OpenJam(id, from) ==
  /\ Owner[from] \in jam
  /\ Create(id, [kind |-> "fanout", from |-> from, to |-> NoDevice])

(* SESSION_TTL passes; whoever looks an aged session up drops it. *)
Age(id) ==
  /\ id \in hub \ aged
  /\ aged' = aged \cup {id}
  /\ UNCHANGED <<jam, session, hub, posts, meta, feed, queue, reader, got, seen,
                 holdings>>

LookUpAged(id) ==
  /\ id \in hub \cap aged
  /\ hub' = hub \ {id}
  /\ UNCHANGED <<jam, session, aged, posts, meta, feed, queue, reader, got, seen,
                 holdings>>

----------------------------------------------------------------------------
(* POST /relay/{id}/send.  The headers are stored before the sender's end  *)
(* of the pipe is taken, so an upload refused with 409 leaves its own.     *)

Post(id) ==
  /\ Found(id) /\ posts[id] < MaxPosts
  /\ posts' = [posts EXCEPT ![id] = @ + 1]
  /\ meta' = [meta EXCEPT ![id] = posts[id] + 1]
  /\ feed' = IF feed[id].state = "free"
             THEN [feed EXCEPT ![id] = [by |-> posts[id] + 1, sent |-> 0,
                                        state |-> "pumping"]]
             ELSE feed
  /\ UNCHANGED <<jam, session, hub, aged, queue, reader, got, seen, holdings>>

(* A direct receiver that has gone makes the send fail. *)
Gone(id) == reader[id][session[id].to] \in {"left", "failed", "ended"}

(* Mutant: waits for the slowest listener, as a bounded channel would. *)
PumpFanout_Mutant(id) ==
  /\ feed[id].state = "pumping" /\ Kind(id) = "fanout" /\ feed[id].sent < Chunks
  /\ \A d \in Devices : Len(queue[id][d]) < FANOUT_BUFFER_CHUNKS
  /\ queue' = [queue EXCEPT ![id] = [d \in Devices |->
                 IF reader[id][d] = "reading"
                 THEN Append(queue[id][d], feed[id].sent + 1) ELSE <<>>]]
  /\ feed' = [feed EXCEPT ![id].sent = @ + 1]
  /\ UNCHANGED <<jam, session, hub, aged, posts, meta, reader, got, seen, holdings>>

(* Mutant: a listener that falls behind misses a chunk and stays. *)
PumpFanout_Skips_Mutant(id) ==
  /\ feed[id].state = "pumping" /\ Kind(id) = "fanout" /\ feed[id].sent < Chunks
  /\ queue' = [queue EXCEPT ![id] = [d \in Devices |->
                 IF reader[id][d] # "reading" THEN <<>>
                 ELSE IF Len(queue[id][d]) < FANOUT_BUFFER_CHUNKS
                 THEN Append(queue[id][d], feed[id].sent + 1) ELSE queue[id][d]]]
  /\ feed' = [feed EXCEPT ![id].sent = @ + 1]
  /\ UNCHANGED <<jam, session, hub, aged, posts, meta, reader, got, seen, holdings>>

PumpFanout(id) ==
  /\ feed[id].state = "pumping" /\ Kind(id) = "fanout" /\ feed[id].sent < Chunks
  /\ LET attached == {d \in Devices : reader[id][d] = "reading"}
         late == {d \in attached : Len(queue[id][d]) = FANOUT_BUFFER_CHUNKS}
     IN /\ queue' = [queue EXCEPT ![id] = [d \in Devices |->
                       IF d \in attached \ late
                       THEN Append(queue[id][d], feed[id].sent + 1) ELSE <<>>]]
        /\ reader' = [reader EXCEPT ![id] = [d \in Devices |->
                       IF d \in late THEN "lagged" ELSE reader[id][d]]]
  /\ feed' = [feed EXCEPT ![id].sent = @ + 1]
  /\ UNCHANGED <<jam, session, hub, aged, posts, meta, got, seen, holdings>>

PumpDirect(id) ==
  LET to == session[id].to IN
  /\ feed[id].state = "pumping" /\ Kind(id) = "direct" /\ feed[id].sent < Chunks
  /\ \/ /\ Gone(id)
        /\ feed' = [feed EXCEPT ![id].state = "broken"]
        /\ UNCHANGED queue
     \/ /\ ~Gone(id)
        /\ Len(queue[id][to]) < CHANNEL_BUFFER_CHUNKS
        /\ queue' = [queue EXCEPT ![id][to] = Append(@, feed[id].sent + 1)]
        /\ feed' = [feed EXCEPT ![id].sent = @ + 1]
  /\ UNCHANGED <<jam, session, hub, aged, posts, meta, reader, got, seen, holdings>>

(* The whole body has been read: the sender's end is dropped. *)
BodyEnds(id) ==
  /\ feed[id].state = "pumping" /\ feed[id].sent = Chunks
  /\ feed' = [feed EXCEPT ![id].state = "finished"]
  /\ hub' = IF Kind(id) = "fanout" THEN hub \ {id} ELSE hub
  /\ UNCHANGED <<jam, session, aged, posts, meta, queue, reader, got, seen, holdings>>

(* The sender's connection breaks.  A direct receiver is sent the error. *)
BodyFails(id) ==
  LET to == session[id].to IN
  /\ feed[id].state = "pumping"
  /\ \/ /\ Kind(id) = "fanout"
        /\ hub' = hub \ {id}
        /\ UNCHANGED queue
     \/ /\ Kind(id) = "direct"
        /\ \/ Gone(id) /\ UNCHANGED queue
           \/ /\ ~Gone(id) /\ Len(queue[id][to]) < CHANNEL_BUFFER_CHUNKS
              /\ queue' = [queue EXCEPT ![id][to] = Append(@, Failure)]
        /\ UNCHANGED hub
  /\ feed' = [feed EXCEPT ![id].state = "broken"]
  /\ UNCHANGED <<jam, session, aged, posts, meta, reader, got, seen, holdings>>

----------------------------------------------------------------------------
(* GET /relay/{id}/receive. *)

Attach(id, d) ==
  /\ Found(id) /\ reader[id][d] = "none"
  /\ \/ Kind(id) = "direct" /\ d = session[id].to
     \/ Kind(id) = "fanout" /\ Owner[d] \in jam
  /\ reader' = [reader EXCEPT ![id][d] = "reading"]
  /\ seen' = [seen EXCEPT ![id][d] = meta[id]]
  /\ UNCHANGED <<jam, session, hub, aged, posts, meta, feed, queue, got, holdings>>

(* The stream of a direct receiver is over, well or not: anything that was *)
(* moved is recorded as held, and the session goes.                        *)
(* Mutant: the session is removed only when something was moved. *)
Settle_Mutant(id, d) ==
  IF Kind(id) = "direct" /\ got[id][d] # <<>>
  THEN holdings' = holdings \cup {<<d, id>>} /\ hub' = hub \ {id}
  ELSE UNCHANGED <<holdings, hub>>

Settle(id, d) ==
  IF Kind(id) = "direct"
  THEN /\ holdings' = IF got[id][d] # <<>> THEN holdings \cup {<<d, id>>} ELSE holdings
       /\ hub' = hub \ {id}
  ELSE UNCHANGED <<holdings, hub>>

Read(id, d) ==
  /\ reader[id][d] = "reading" /\ queue[id][d] # <<>>
  /\ queue' = [queue EXCEPT ![id][d] = Tail(@)]
  /\ \/ /\ Head(queue[id][d]) # Failure
        /\ got' = [got EXCEPT ![id][d] = Append(@, Head(queue[id][d]))]
        /\ UNCHANGED <<reader, holdings, hub>>
     \/ /\ Head(queue[id][d]) = Failure
        /\ reader' = [reader EXCEPT ![id][d] = "failed"]
        /\ Settle(id, d)
        /\ UNCHANGED got
  /\ UNCHANGED <<jam, session, aged, posts, meta, feed, seen>>

(* No sender is left: it has finished, or the session that still held the  *)
(* sender's end was dropped before anyone took it.                         *)
NoSender(id) == \/ feed[id].state \in {"finished", "broken"}
                \/ feed[id].state = "free" /\ id \notin hub

EndOfStream(id, d) ==
  /\ reader[id][d] = "reading" /\ NoSender(id) /\ queue[id][d] = <<>>
  /\ reader' = [reader EXCEPT ![id][d] = "ended"]
  /\ Settle(id, d)
  /\ UNCHANGED <<jam, session, aged, posts, meta, feed, queue, got, seen>>

(* The receiver hangs up.  Its end cannot be taken a second time. *)
HangUp(id, d) ==
  /\ reader[id][d] = "reading"
  /\ reader' = [reader EXCEPT ![id][d] = "left"]
  /\ queue' = [queue EXCEPT ![id][d] = <<>>]
  /\ UNCHANGED <<jam, session, hub, aged, posts, meta, feed, got, seen, holdings>>

----------------------------------------------------------------------------
(* Membership changes while sessions are open. *)

JoinJam(u) == /\ u \notin jam /\ jam' = jam \cup {u}
              /\ UNCHANGED <<session, hub, aged, posts, meta, feed, queue, reader,
                             got, seen, holdings>>

LeaveJam(u) == /\ u \in jam /\ jam' = jam \ {u}
               /\ UNCHANGED <<session, hub, aged, posts, meta, feed, queue, reader,
                              got, seen, holdings>>

Next ==
  \/ \E id \in Ids :
       \/ \E from, to \in Devices : OpenDirect(id, from, to)
       \/ \E from \in Devices : OpenJam(id, from)
       \/ Age(id) \/ LookUpAged(id)
       \/ Post(id) \/ PumpFanout(id) \/ PumpDirect(id) \/ BodyEnds(id) \/ BodyFails(id)
       \/ \E d \in Devices :
            Attach(id, d) \/ Read(id, d) \/ EndOfStream(id, d) \/ HangUp(id, d)
  \/ \E u \in Users : JoinJam(u) \/ LeaveJam(u)

Spec == Init /\ [][Next]_vars

(* The pump runs while there is something to pump.  A direct receiver      *)
(* reads what has arrived; a jam listener may stop reading for ever.       *)
Fairness ==
  \A id \in Ids :
    /\ WF_vars(PumpFanout(id)) /\ WF_vars(PumpDirect(id)) /\ WF_vars(BodyEnds(id))
    /\ \A d \in Devices : /\ WF_vars(Kind(id) = "direct" /\ Read(id, d))
                          /\ WF_vars(Kind(id) = "direct" /\ EndOfStream(id, d))

FairSpec == Spec /\ Fairness

----------------------------------------------------------------------------
(* Properties. *)

Chunk == 0 .. Chunks

TypeOK ==
  /\ jam \subseteq Users
  /\ session \in [Ids -> [kind : {"none", "direct", "fanout"},
                          from : Devices \cup {NoDevice}, to : Devices \cup {NoDevice}]]
  /\ hub \subseteq Ids /\ aged \subseteq Ids
  /\ posts \in [Ids -> 0 .. MaxPosts] /\ meta \in [Ids -> 0 .. MaxPosts]
  /\ feed \in [Ids -> [by : 0 .. MaxPosts, sent : 0 .. Chunks,
                       state : {"free", "pumping", "finished", "broken"}]]
  /\ queue \in [Ids -> [Devices -> Seq(Chunk)]]
  /\ \A id \in Ids, d \in Devices :
       Len(queue[id][d]) <= IF Kind(id) = "fanout" THEN FANOUT_BUFFER_CHUNKS
                                                  ELSE CHANNEL_BUFFER_CHUNKS
  /\ reader \in [Ids -> [Devices ->
                   {"none", "reading", "ended", "failed", "lagged", "left"}]]
  /\ got \in [Ids -> [Devices -> Seq(Chunk)]]
  /\ seen \in [Ids -> [Devices -> 0 .. MaxPosts]]
  /\ holdings \subseteq Devices \X Ids

(* A session whose stream is over can no longer be found: a direct one     *)
(* once its receiver has settled, a fanout once its upload has ended.      *)
SettledSessionsAreGone ==
  /\ TypeOK
  /\ \A id \in Ids :
       /\ Kind(id) = "fanout" /\ feed[id].state \in {"finished", "broken"}
            => id \notin hub
       /\ \A d \in Devices :
            Kind(id) = "direct" /\ reader[id][d] \in {"ended", "failed"}
              => id \notin hub

(* The relay as RelayPromise has it.  A sender that never came is over     *)
(* when the session is dropped.                                            *)
StreamOf(r) == IF r = "none" THEN "out" ELSE IF r = "reading" THEN "in" ELSE "done"

Promise == INSTANCE RelayPromise WITH
  kind <- [id \in Ids |-> Kind(id)],
  sent <- [id \in Ids |-> feed[id].sent],
  over <- [id \in Ids |-> Kind(id) # "none"
                           /\ (\/ feed[id].state \in {"finished", "broken"}
                               \/ feed[id].state = "free" /\ id \notin hub)],
  stream <- [id \in Ids |-> [d \in Devices |-> StreamOf(reader[id][d])]],
  given <- got,
  kept <- holdings

(* Through refusals, slow listeners, failures, hang-ups and ageing, every  *)
(* receiver is given a run of the file without a hole, a direct one from   *)
(* its start; a listener that fell behind is cut off instead of being      *)
(* resumed past what it missed (download.rs:62-66); and what is recorded   *)
(* as held is all that the sender put in (download.rs:122-141).            *)
KeepsItsPromise == Promise!Spec

(* An upload comes to an end if a direct receiver ever attached to it, and *)
(* in a jam whether or not any listener keeps up; and a direct receiver    *)
(* whose sender has come is not left hanging.                              *)
SenderFinishes ==
  \A id \in Ids :
    /\ feed[id].state = "pumping"
    /\ Kind(id) = "fanout" \/ \E d \in Devices : reader[id][d] # "none"
    ~> feed[id].state # "pumping"

ReceiverFinishes ==
  \A id \in Ids, d \in Devices :
    Kind(id) = "direct" /\ feed[id].state # "free" /\ reader[id][d] = "reading"
      ~> reader[id][d] # "reading"

BothEndsFinish == SenderFinishes /\ ReceiverFinishes
=============================================================================
