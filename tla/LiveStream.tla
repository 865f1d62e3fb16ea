----------------------------- MODULE LiveStream -----------------------------
(***************************************************************************)
(* The live push hub: src/ws_channels.rs (routing and replay buffers),     *)
(* src/ws/hub.rs (publishing) and src/ws/session.rs (one connected socket).*)
(*                                                                         *)
(* Any request handler may publish, so publishing is split at the points   *)
(* where another thread can run: a publisher takes a sequence number,      *)
(* then puts the message in a replay buffer under that buffer's lock, then *)
(* sends it on a broadcast channel.  A socket subscribes first to the      *)
(* channel for everyone and, once its account is known, to the account's;  *)
(* one loop forwards what arrives while another answers RESUME from the    *)
(* replay buffers.                                                         *)
(*                                                                         *)
(* Time is abstracted to its only effect here, expiry: wherever the code   *)
(* compares ages, any prefix of a buffer may have grown too old.           *)
(***************************************************************************)
EXTENDS Integers, Sequences, FiniteSets

CONSTANTS
  Users,                    \* accounts (lowercased names, as key() makes them)
  Devices,                  \* client devices; each holds at most one socket
  Online,                   \* bound: the devices that ever connect
  Owner,                    \* [Devices -> Users]
  Everyone,                 \* stands for user_id = None
  AnyDevice,                \* stands for target_device = None
  Publishers,               \* server threads that may be publishing
  REPLAY_CAPACITY, USER_REPLAY_CAPACITY,
  GLOBAL_CHANNEL_CAPACITY, USER_CHANNEL_CAPACITY,
  OutCapacity,              \* frames queued for a socket's writer
  MaxMessages,              \* bound: messages ever published
  MaxBoot                   \* bound: boots of the server

ASSUME StreamAssumption ==
  /\ Owner \in [Devices -> Users]
  /\ Online \subseteq Devices
  /\ Everyone \notin Users
  /\ AnyDevice \notin Devices
  /\ {REPLAY_CAPACITY, USER_REPLAY_CAPACITY, GLOBAL_CHANNEL_CAPACITY,
      USER_CHANNEL_CAPACITY, OutCapacity} \subseteq Nat \ {0}
  /\ {MaxMessages, MaxBoot} \subseteq Nat

Streams == Users \cup {Everyone}

ReplayCapacity(s) ==
  IF s = Everyone THEN REPLAY_CAPACITY ELSE USER_REPLAY_CAPACITY

ChannelCapacity(s) ==
  IF s = Everyone THEN GLOBAL_CHANNEL_CAPACITY ELSE USER_CHANNEL_CAPACITY

(* boot is not on the wire: it tells apart equal numbers of two boots. *)
WsMessage == [to : Streams, device : Devices \cup {AnyDevice},
              seq : Nat \ {0}, boot : Nat \ {0}]

Position == [seq : Nat, boot : Nat]

NoMessage == [seq |-> 0, boot |-> 0]

Frame == [kind : {"message"}, msg : WsMessage]
           \cup [kind : {"RESUMED"}, resync : BOOLEAN]

VARIABLES
  nextSeq,      \* Channels.next_seq
  boot,         \* how often the server has started
  publisher,    \* what each publishing thread holds, and how far it is
  replay,       \* per stream: Replay { messages, forgotten_through }
  channels,     \* Channels.users: accounts whose channel exists
  socket,       \* "off" | "greeting" (global only) | "live"
  rx,           \* rx[d][s]: what the receiver of d on s has not taken yet
  resume,       \* the RESUME a socket's receive loop is answering
  out,          \* the mpsc queue of frames, writer task and wire included
  position,     \* client: the highest position it has seen
  known,        \* history: messages a client received or refetched past
  published     \* history: every message that was given a number

vars == <<nextSeq, boot, publisher, replay, channels, socket, rx, resume, out,
          position, known, published>>

serverVars == <<nextSeq, publisher, replay, channels, published>>
sessionVars == <<socket, rx, resume, out>>

----------------------------------------------------------------------------
(* Who a message is for, and what a buffer gives back. *)

IsFor(m, d) == /\ m.to \in {Everyone, Owner[d]}
               /\ m.device \in {AnyDevice, d}

Elements(seq) == {seq[i] : i \in 1 .. Len(seq)}

Idle == [at |-> "idle", msg |-> NoMessage]

Empty == [messages |-> <<>>, forgottenThrough |-> 0]

(* Definitions whose name ends in _Mutant are the definition that follows  *)
(* them with one mistake; the runs are repeated with each, to see that the *)
(* property it is meant for can fail.                                      *)

(* Mutant: keeps the position forgotten last, not the newest. *)
Forget_Mutant(r, k) ==
  {[messages |-> SubSeq(r.messages, k + 1, Len(r.messages)),
    forgottenThrough |->
      IF k = 0 THEN r.forgottenThrough ELSE r.messages[k].seq]}

(* forget_front, k times: the newest forgotten position is kept.  The set  *)
(* has one element; it is a set so that no maximum has to be chosen.       *)
Forget(r, k) ==
  LET gone == {r.messages[i].seq : i \in 1 .. k} IN
  {[messages |-> SubSeq(r.messages, k + 1, Len(r.messages)),
    forgottenThrough |-> f] :
      f \in {n \in gone \cup {r.forgottenThrough} :
               n >= r.forgottenThrough /\ \A g \in gone : n >= g}}

(* Replay::expire, whatever the ages are. *)
Expired(r) == UNION {Forget(r, k) : k \in 0 .. Len(r.messages)}

(* Replay::push: the new message is never too old itself; then capacity. *)
Pushed(r, m, capacity) ==
  LET grown == [r EXCEPT !.messages = Append(@, m)] IN
  UNION {Forget(grown, k) :
           k \in {n \in 0 .. Len(r.messages) : Len(grown.messages) - n <= capacity}}

(* Mutant: a hole directly after the position goes unnoticed. *)
Gap_Mutant(r, after) == r.forgottenThrough > after + 1

(* Replay::after answers None when it has forgotten some of what is asked. *)
Gap(r, after) == r.forgottenThrough > after

After(r, after, d) ==
  {m \in Elements(r.messages) : m.seq > after /\ IsFor(m, d)}

(* A broadcast receiver that falls a whole channel behind loses the oldest. *)
NoBacklog == [queue |-> <<>>, lagged |-> FALSE]

Enqueued(q, m, capacity) ==
  IF Len(q.queue) < capacity
  THEN [q EXCEPT !.queue = Append(@, m)]
  ELSE [queue |-> Append(Tail(q.queue), m), lagged |-> TRUE]

Subscribed(d, s) == \/ s = Everyone /\ socket[d] # "off"
                    \/ s = Owner[d] /\ socket[d] = "live"

NoResume == [step |-> "none", after |-> NoMessage, found |-> {}, gap |-> FALSE]

Quiet == [d \in Devices |-> [s \in Streams |-> NoBacklog]]

FirstSeq == 1

Init ==
  /\ nextSeq = FirstSeq /\ boot = 1
  /\ publisher = [p \in Publishers |-> Idle]
  /\ replay = [s \in Streams |-> Empty]
  /\ channels = {}
  /\ socket = [d \in Devices |-> "off"]
  /\ rx = Quiet
  /\ resume = [d \in Devices |-> NoResume]
  /\ out = [d \in Devices |-> <<>>]
  /\ position = [d \in Devices |-> NoMessage]
  /\ known = [d \in Devices |-> {}]
  /\ published = {}

----------------------------------------------------------------------------
(* Channels::publish, in its three steps. *)

Stamp(p, to, device) ==
  /\ publisher[p].at = "idle"
  /\ Cardinality(published) < MaxMessages
  /\ LET m == [to |-> to, device |-> device, seq |-> nextSeq, boot |-> boot] IN
     /\ publisher' = [publisher EXCEPT ![p] = [at |-> "stamped", msg |-> m]]
     /\ published' = published \cup {m}
  /\ nextSeq' = nextSeq + 1
  /\ UNCHANGED <<boot, replay, channels, sessionVars, position, known>>

Remember(p) ==
  /\ publisher[p].at = "stamped"
  /\ LET m == publisher[p].msg IN
     \E r \in Pushed(replay[m.to], m, ReplayCapacity(m.to)) :
        replay' = [replay EXCEPT ![m.to] = r]
  /\ publisher' = [publisher EXCEPT ![p].at = "remembered"]
  /\ UNCHANGED <<nextSeq, boot, channels, sessionVars, position, known, published>>

Send(p) ==
  /\ publisher[p].at = "remembered"
  /\ LET m == publisher[p].msg
         reached == {d \in Devices : /\ m.to \in channels \cup {Everyone}
                                     /\ Subscribed(d, m.to)}
     IN rx' = [d \in Devices |->
                 IF d \in reached
                 THEN [rx[d] EXCEPT ![m.to] =
                         Enqueued(@, m, ChannelCapacity(m.to))]
                 ELSE rx[d]]
  /\ publisher' = [publisher EXCEPT ![p] = Idle]
  /\ UNCHANGED <<nextSeq, boot, replay, channels, socket, resume, out,
                 position, known, published>>

----------------------------------------------------------------------------
(* handle_socket: connecting, and the loop that forwards what arrives.     *)
(* The client asks to resume, from where it stood when it connected, as    *)
(* soon as it is let in; "asked" is its RESUME frame on the way.           *)

Connect(d) ==
  /\ socket[d] = "off"
  /\ socket' = [socket EXCEPT ![d] = "greeting"]
  /\ resume' = [resume EXCEPT ![d].after = position[d]]
  /\ UNCHANGED <<serverVars, boot, rx, out, position, known>>

(* The account is known, from the request's token or from an AUTH frame. *)
Authenticate(d) ==
  /\ socket[d] = "greeting"
  /\ socket' = [socket EXCEPT ![d] = "live"]
  /\ channels' = channels \cup {Owner[d]}
  /\ resume' = [resume EXCEPT ![d].step = "asked"]
  /\ UNCHANGED <<nextSeq, publisher, replay, published, boot, rx, out,
                 position, known>>

(* Mutant: a lag ends the forwarding loop only, not the connection. *)
Take_Mutant(d, s) ==
  /\ socket[d] = "live"
  /\ Len(out[d]) < OutCapacity
  /\ ~rx[d][s].lagged /\ rx[d][s].queue # <<>>
  /\ rx' = [rx EXCEPT ![d][s].queue = Tail(@)]
  /\ LET m == Head(rx[d][s].queue) IN
     out' = IF IsFor(m, d)
            THEN [out EXCEPT ![d] = Append(@, [kind |-> "message", msg |-> m])]
            ELSE out
  /\ UNCHANGED <<serverVars, boot, socket, resume, position, known>>

(* select! over the two receivers is unordered.  A lag is reported before  *)
(* what is left of the queue; a message for another device is dropped.     *)
Take(d, s) ==
  /\ socket[d] = "live"
  /\ Len(out[d]) < OutCapacity
  /\ \/ /\ rx[d][s].lagged
        /\ rx' = [rx EXCEPT ![d][s].lagged = FALSE]
        /\ out' = [out EXCEPT ![d] =
                     Append(@, [kind |-> "RESUMED", resync |-> TRUE])]
     \/ /\ ~rx[d][s].lagged
        /\ rx[d][s].queue # <<>>
        /\ rx' = [rx EXCEPT ![d][s].queue = Tail(@)]
        /\ LET m == Head(rx[d][s].queue) IN
           out' = IF IsFor(m, d)
                  THEN [out EXCEPT ![d] =
                          Append(@, [kind |-> "message", msg |-> m])]
                  ELSE out
  /\ UNCHANGED <<serverVars, boot, socket, resume, position, known>>

(* Leaving drops what was queued: writer.abort() does not drain. *)
Disconnect(d) ==
  /\ socket[d] # "off"
  /\ socket' = [socket EXCEPT ![d] = "off"]
  /\ rx' = [rx EXCEPT ![d] = Quiet[d]]
  /\ resume' = [resume EXCEPT ![d] = NoResume]
  /\ out' = [out EXCEPT ![d] = <<>>]
  /\ UNCHANGED <<serverVars, boot, position, known>>

----------------------------------------------------------------------------
(* RESUME: Channels::replay_after reads one buffer, then the other, each   *)
(* under its own lock; the answer is written before what was missed.       *)

ReadGlobal(d) ==
  /\ resume[d].step = "asked"
  /\ \/ /\ resume[d].after.seq >= nextSeq
        /\ resume' = [resume EXCEPT ![d].step = "answer", ![d].gap = TRUE]
        /\ UNCHANGED replay
     \/ /\ resume[d].after.seq < nextSeq
        /\ \E r \in Expired(replay[Everyone]) :
             /\ replay' = [replay EXCEPT ![Everyone] = r]
             /\ \/ /\ Gap(r, resume[d].after.seq)
                   /\ resume' = [resume EXCEPT ![d].step = "answer", ![d].gap = TRUE]
                \/ /\ ~Gap(r, resume[d].after.seq)
                   /\ resume' = [resume EXCEPT ![d].step = "own",
                                   ![d].found = After(r, resume[d].after.seq, d)]
  /\ UNCHANGED <<nextSeq, publisher, channels, published, boot, socket, rx, out,
                 position, known>>

ReadOwn(d) ==
  /\ resume[d].step = "own"
  /\ \E r \in Expired(replay[Owner[d]]) :
       /\ replay' = [replay EXCEPT ![Owner[d]] = r]
       /\ \/ /\ Gap(r, resume[d].after.seq)
             /\ resume' = [resume EXCEPT ![d].step = "answer", ![d].gap = TRUE,
                                         ![d].found = {}]
          \/ /\ ~Gap(r, resume[d].after.seq)
             /\ resume' = [resume EXCEPT ![d].step = "answer",
                             ![d].found = @ \cup After(r, resume[d].after.seq, d)]
  /\ UNCHANGED <<nextSeq, publisher, channels, published, boot, socket, rx, out,
                 position, known>>

Answer(d) ==
  /\ resume[d].step = "answer"
  /\ Len(out[d]) < OutCapacity
  /\ out' = [out EXCEPT ![d] =
               Append(@, [kind |-> "RESUMED", resync |-> resume[d].gap])]
  /\ resume' = [resume EXCEPT ![d].step = "missed"]
  /\ UNCHANGED <<serverVars, boot, socket, rx, position, known>>

(* Sorted by position: the lowest goes next. *)
SendMissed(d) ==
  /\ resume[d].step = "missed"
  /\ Len(out[d]) < OutCapacity
  /\ \E m \in resume[d].found :
       /\ \A n \in resume[d].found : m.seq <= n.seq
       /\ out' = [out EXCEPT ![d] = Append(@, [kind |-> "message", msg |-> m])]
       /\ resume' = [resume EXCEPT ![d].found = @ \ {m}]
  /\ UNCHANGED <<serverVars, boot, socket, rx, position, known>>

----------------------------------------------------------------------------
(* The client, as ws.rs describes it: it remembers the highest position it *)
(* has seen, and refetches everything when told to resynchronise.          *)

Receive(d) ==
  /\ out[d] # <<>>
  /\ out' = [out EXCEPT ![d] = Tail(@)]
  /\ LET f == Head(out[d]) IN
     \/ /\ f.kind = "message"
        /\ known' = [known EXCEPT ![d] = @ \cup {f.msg}]
        /\ position' =
             IF f.msg.seq > position[d].seq
             THEN [position EXCEPT ![d] = [seq |-> f.msg.seq, boot |-> f.msg.boot]]
             ELSE position
     \/ /\ f.kind = "RESUMED"
        /\ known' = IF f.resync THEN [known EXCEPT ![d] = @ \cup published] ELSE known
        /\ UNCHANGED position
  /\ UNCHANGED <<serverVars, boot, socket, rx, resume>>

----------------------------------------------------------------------------
(* The sweeper: one buffer at a time, then the channels. *)

SweepReplay(s) ==
  /\ \E r \in Expired(replay[s]) : replay' = [replay EXCEPT ![s] = r]
  /\ UNCHANGED <<nextSeq, publisher, channels, published, boot, sessionVars,
                 position, known>>

SweepChannels ==
  /\ channels' = {u \in channels : \E d \in Devices : Subscribed(d, u)}
  /\ UNCHANGED <<nextSeq, publisher, replay, published, boot, sessionVars,
                 position, known>>

(* Everything above is memory; only what clients hold outlives a restart. *)
Restart ==
  /\ boot < MaxBoot
  /\ boot' = boot + 1
  /\ nextSeq' = FirstSeq
  /\ publisher' = [p \in Publishers |-> Idle]
  /\ replay' = [s \in Streams |-> Empty]
  /\ channels' = {}
  /\ socket' = [d \in Devices |-> "off"]
  /\ rx' = Quiet
  /\ resume' = [d \in Devices |-> NoResume]
  /\ out' = [d \in Devices |-> <<>>]
  /\ UNCHANGED <<position, known, published>>

Address == {<<s, AnyDevice>> : s \in Streams} \cup {<<Owner[d], d>> : d \in Devices}

Next ==
  \/ \E p \in Publishers :
       \/ \E a \in Address : Stamp(p, a[1], a[2])
       \/ Remember(p) \/ Send(p)
  \/ \E d \in Online :
       \/ Connect(d) \/ Authenticate(d) \/ Disconnect(d)
       \/ \E s \in {Everyone, Owner[d]} : Take(d, s)
       \/ ReadGlobal(d) \/ ReadOwn(d) \/ Answer(d) \/ SendMissed(d)
       \/ Receive(d)
  \/ \E s \in Streams : SweepReplay(s)
  \/ SweepChannels
  \/ Restart

Spec == Init /\ [][Next]_vars

(* tokio runs every ready task, and a connected client reads its socket.   *)
(* Nothing makes anyone publish, connect, ask to resume or disconnect.     *)
Fairness ==
  /\ \A p \in Publishers : WF_vars(Remember(p)) /\ WF_vars(Send(p))
  /\ \A d \in Online :
       /\ \A s \in {Everyone, Owner[d]} : WF_vars(Take(d, s))
       /\ WF_vars(ReadGlobal(d)) /\ WF_vars(ReadOwn(d))
       /\ WF_vars(Answer(d)) /\ WF_vars(SendMissed(d)) /\ WF_vars(Receive(d))

FairSpec == Spec /\ Fairness

----------------------------------------------------------------------------
(* Properties. *)

TypeOK ==
  /\ nextSeq \in Nat \ {0}
  /\ boot \in Nat \ {0}
  /\ publisher \in [Publishers ->
       {Idle} \cup [at : {"stamped", "remembered"}, msg : WsMessage]]
  /\ replay \in [Streams -> [messages : Seq(WsMessage), forgottenThrough : Nat]]
  /\ channels \subseteq Users
  /\ socket \in [Devices -> {"off", "greeting", "live"}]
  /\ rx \in [Devices -> [Streams -> [queue : Seq(WsMessage), lagged : BOOLEAN]]]
  /\ resume \in [Devices -> [step : {"none", "asked", "own", "answer", "missed"},
                             after : Position, found : SUBSET WsMessage,
                             gap : BOOLEAN]]
  /\ out \in [Devices -> Seq(Frame)]
  /\ position \in [Devices -> Position]
  /\ known \in [Devices -> SUBSET WsMessage]
  /\ published \subseteq WsMessage

(* What has been put in stream s's buffer since the server started. *)
Remembered(s) ==
  {m \in published : /\ m.boot = boot /\ m.to = s
                     /\ \A p \in Publishers : publisher[p].at = "stamped"
                                              => publisher[p].msg # m}

(* A buffer never drops a message without moving forgotten_through to it   *)
(* or past it, in whatever order publishers that raced reached the lock:   *)
(* this is what lets Replay::after trust a single number.                  *)
RememberedOrForgotten ==
  \A s \in Streams : \A m \in Remembered(s) :
    m.seq > replay[s].forgottenThrough => m \in Elements(replay[s].messages)

(* A burst cannot grow a buffer past its capacity. *)
BuffersBounded ==
  \A s \in Streams : Len(replay[s].messages) <= ReplayCapacity(s)

(* On its way to d: taken by neither loop yet, or handed to the writer. *)
InFlight(d, m) ==
  \/ \E s \in {Everyone, Owner[d]} : m \in Elements(rx[d][s].queue)
  \/ resume[d].step \in {"answer", "missed"} /\ m \in resume[d].found
  \/ [kind |-> "message", msg |-> m] \in Elements(out[d])

(* d is about to be told to refetch. *)
ResyncPending(d) ==
  \/ \E s \in {Everyone, Owner[d]} : rx[d][s].lagged
  \/ resume[d].step = "answer" /\ resume[d].gap
  \/ [kind |-> "RESUMED", resync |-> TRUE] \in Elements(out[d])

BeingPublished(m) == \E p \in Publishers : publisher[p].msg = m

(* The buffers have answered this connection's RESUME, with no gap. *)
CaughtUp(d) == resume[d].step \in {"answer", "missed"} /\ ~resume[d].gap

Missing(d) == {m \in published : m.boot = boot /\ IsFor(m, d) /\ m \notin known[d]}

(* Between the replayed past and the live channel there is no window:      *)
(* after a resume answered without resync, every message of this boot past *)
(* the position asked for has arrived, is on its way, is still being       *)
(* published, or will be covered by a resync the socket is about to get.   *)
ResumeLeavesNoGap ==
  \A d \in Devices : CaughtUp(d) =>
    \A m \in Missing(d) : m.seq > resume[d].after.seq =>
      InFlight(d, m) \/ BeingPublished(m) \/ ResyncPending(d)

(* No frame for another account, or another device, is written to a        *)
(* socket, whether it comes from a channel or from a replay buffer.        *)
OnlyOwnFrames ==
  \A d \in Devices : \A f \in Elements(out[d]) :
    f.kind = "message" => IsFor(f.msg, d)

(* What the hub keeps in order however publishers, sockets and the sweep   *)
(* cross: its state is well formed, its buffers are bounded and admit to   *)
(* what they forgot (ws_channels.rs:40-67), and frames go where they are   *)
(* addressed (ws/session.rs:220-225).                                      *)
HubIsSound ==
  TypeOK /\ BuffersBounded /\ RememberedOrForgotten /\ OnlyOwnFrames

(* A resumed socket that stays connected receives, or refetches past,      *)
(* everything published for it after the position it resumed from.         *)
Behind(d) == CaughtUp(d) /\ \E m \in Missing(d) : m.seq > resume[d].after.seq

EventuallyCaughtUp == \A d \in Devices : Behind(d) ~> ~Behind(d)
=============================================================================
