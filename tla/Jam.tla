-------------------------------- MODULE Jam --------------------------------
(***************************************************************************)
(* Jams: rooms with one shared queue.  The handlers of schema_jam/, the    *)
(* tables behind them (db_jam/), the recap a member leaves with            *)
(* (schema_jam_recap.rs, db_jam_recap.rs) and the server's clock           *)
(* (jam_clock.rs), which decides what a room hears.                        *)
(*                                                                         *)
(* A handler is several database calls, each under the lock by itself, so  *)
(* other handlers and the clock run between them on what was read before.  *)
(* Here the reads a handler makes one after another are one step and each  *)
(* write is one step; `call` and `clock` hold what was read.               *)
(*                                                                         *)
(* Rooms and tracks are numbered in order of creation, which is the order  *)
(* of created_at and added_at.  end_jam has no caller: a room is live      *)
(* until it is deleted.  The feature switch is left out: off, every        *)
(* handler refuses and the clock does nothing.  So is who may see a room:  *)
(* a code finds any live room, and a friend's door only fewer of them.     *)
(* An account that is erased (db/erasure.rs) is not made again.            *)
(***************************************************************************)
EXTENDS Integers, FiniteSets

CONSTANTS
  Users,
  Clients, AccountOf,   \* the connections acting for each account
  Nobody,
  MaxJams, MaxTracks,   \* bounds: rooms opened and tracks added in all
  MaxCalls              \* bound: handlers called in all

ASSUME JamAssumption ==
  /\ AccountOf \in [Clients -> Users]
  /\ Nobody \notin Users
  /\ IsFiniteSet(Users) /\ IsFiniteSet(Clients)
  /\ {MaxJams, MaxTracks, MaxCalls} \subseteq Nat

VARIABLES
  jams,      \* the rows of jams
  made,      \* rooms ever opened
  members,   \* jam_members
  tracks,    \* jam_tracks
  added,     \* tracks ever added
  votes,     \* jam_votes
  skips,     \* jam_skips
  recaps,    \* jam_recaps; `ending` marks those written for a room's end
  erased,    \* the accounts that were deleted
  calls,     \* handlers called so far
  call,      \* the handler each client is in, and what it has read
  clock,     \* the pass of the clock, and what it has read
  late       \* what a property remembers: the accounts that were deleted
             \* while a handler that could still name them was under way

vars == <<jams, made, members, tracks, added, votes, skips, recaps, erased,
          calls, call, clock, late>>

room == <<jams, made, members>>
gone == <<erased, late>>
queue == <<tracks, added, votes, skips>>
handlers == <<calls, call>>

----------------------------------------------------------------------------
JamIds == 1..MaxJams
TrackIds == 1..MaxTracks
None == 0

NoJam == [host |-> Nobody, mode |-> "democracy", playing |-> None]
NoTrack == [jam |-> None, by |-> Nobody, state |-> "none", live |-> FALSE,
            asked |-> FALSE]
NoCall == [op |-> "none", at |-> "idle", jam |-> None, seen |-> NoJam,
           to |-> None, track |-> None, need |-> 0, rest |-> {},
           recap |-> {}]
Asleep == [at |-> "idle", jam |-> None, playing |-> None, track |-> None]

Live == {j \in JamIds : jams[j] # NoJam}
MembersOf(j) == {u \in Users : <<j, u>> \in members}
TracksOf(j) == {t \in TrackIds : tracks[t].jam = j}

Newest(J) == IF J = {} THEN None ELSE CHOOSE j \in J : \A k \in J : k <= j
Earliest(T) == IF T = {} THEN None ELSE CHOOSE t \in T : \A k \in T : t <= k

(* The newest live room the account is in. *)
JamForMember(u) == Newest({j \in Live : <<j, u>> \in members})

----------------------------------------------------------------------------
(* What the room has agreed to *)

Proposes(seen, j) ==
  seen.mode = "democracy" /\ Cardinality(MembersOf(j)) > 1

ApprovalsNeeded(j) ==
  LET others == Cardinality(MembersOf(j)) - 1 IN
  (IF others > 0 THEN others \div 2 ELSE 0) + 1

SkipsNeeded(j) == Cardinality(MembersOf(j)) \div 2 + 1

VotersFor(t, ballots) == {u \in Users : \E j \in JamIds : <<j, t, u>> \in ballots}

(* Approvals by anyone but whoever proposed the track; none if it is gone. *)
Approvals(t, ballots) ==
  IF tracks[t] = NoTrack THEN 0
  ELSE Cardinality(VotersFor(t, ballots) \ {tracks[t].by})

Played(j, t) ==
  [tracks EXCEPT ![t].state = IF @ # "none" /\ tracks[t].jam = j
                              THEN "played" ELSE @]

(* An UPDATE of a room's row does nothing once the room has been deleted.  *)
NowPlaying(j, t) ==
  [jams EXCEPT ![j] = IF j \in Live THEN [@ EXCEPT !.playing = t] ELSE @]

DeleteJam(j) ==
  /\ votes' = {v \in votes : v[1] # j}
  /\ skips' = {s \in skips : s[1] # j}
  /\ tracks' = [t \in TrackIds |-> IF tracks[t].jam = j THEN NoTrack ELSE tracks[t]]
  /\ members' = {m \in members : m[1] # j}
  /\ jams' = [jams EXCEPT ![j] = NoJam]
  /\ UNCHANGED <<made, added, recaps>>

----------------------------------------------------------------------------
(* Handlers: how one starts, goes on and ends.  Every client is in at most *)
(* one at a time.                                                          *)

Me(c) == AccountOf[c]
At(c, at) == call[c].at = at
Ready(c) == At(c, "idle")

Turn(c, new) == call' = [call EXCEPT ![c] = new] /\ UNCHANGED calls
GoTo(c, at) == Turn(c, [call[c] EXCEPT !.at = at])
Return(c) == Turn(c, NoCall)

(* A call that changes nothing after its reads is not made. *)
Start(c, new) ==
  /\ calls < MaxCalls /\ Me(c) \notin erased
  /\ calls' = calls + 1
  /\ call' = [call EXCEPT ![c] = new]

(* current_jam: the caller's room, or a refusal. *)
CurrentJam(c) == JamForMember(Me(c))
HasJam(c) == Ready(c) /\ CurrentJam(c) # None

InJam(c, op, at) == [NoCall EXCEPT !.op = op, !.at = at, !.jam = CurrentJam(c)]

InFlight(ops) == Cardinality({c \in Clients : call[c].op \in ops})

----------------------------------------------------------------------------
(* Recaps: written for a member from the room's rows, as the snapshot's    *)
(* reader sees them.  Nothing played, or nobody else there: no recap.      *)

(* A bug: the track on air does not count. *)
Heard_Mutant(j, seen) == {t \in TracksOf(j) : tracks[t].state = "played"}

Heard(j, seen) ==
  {t \in TracksOf(j) : tracks[t].state = "played" \/ t = seen.playing}

People(j, seen) == MembersOf(j) \cup {tracks[t].by : t \in Heard(j, seen)}

Queued(u, j, seen) == Cardinality({t \in Heard(j, seen) : tracks[t].by = u})

(* Who queued the most of what was played; CHOOSE stands for whoever is    *)
(* alphabetically first.                                                   *)
TopContributor(queued) ==
  LET named == {u \in Users : queued[u] > 0} IN
  IF named = {} THEN Nobody
  ELSE CHOOSE u \in named : \A v \in named : queued[v] <= queued[u]

RecapOf(u, j, seen, ending) ==
  LET queued == [v \in Users |-> Queued(v, j, seen)] IN
  IF Heard(j, seen) = {} \/ Cardinality(People(j, seen)) < 2 THEN {}
  ELSE {[of |-> u, people |-> People(j, seen), queued |-> queued,
         top |-> TopContributor(queued), ending |-> ending]}

(* Somebody else's recap, with a deleted account struck from it.           *)
Forgotten(r, u) ==
  LET queued == [r.queued EXCEPT ![u] = 0] IN
  IF u \notin r.people /\ r.queued[u] = 0 THEN r
  ELSE [r EXCEPT !.people = @ \ {u}, !.queued = queued,
                 !.top = TopContributor(queued)]

(* dismiss_jam_recap, and the sweep of those nobody dismissed. *)
Dismiss(r) ==
  /\ r \in recaps
  /\ recaps' = recaps \ {r}
  /\ UNCHANGED <<room, queue, handlers, clock, gone>>

----------------------------------------------------------------------------
(* Opening and joining a room: the one the account was in is left first.   *)

(* Leaving `old` on the way to another room, or going straight there. *)
Moving(c, op, old, to) ==
  IF old = None
  THEN [NoCall EXCEPT !.op = op, !.at = op, !.to = to]
  ELSE [NoCall EXCEPT !.op = op, !.at = "remember", !.jam = old,
                      !.seen = jams[old], !.to = to]

CreateJam(c) ==
  /\ Ready(c) /\ made + InFlight({"create"}) < MaxJams
  /\ Start(c, Moving(c, "create", CurrentJam(c), None))
  /\ UNCHANGED <<room, queue, recaps, clock, gone>>

InsertJam(c, mode) ==
  /\ At(c, "create")
  /\ made' = made + 1
  /\ jams' = [jams EXCEPT ![made'] = [NoJam EXCEPT !.host = Me(c), !.mode = mode]]
  /\ members' = members \cup {<<made', Me(c)>>}
  /\ Return(c)
  /\ UNCHANGED <<queue, recaps, clock, gone>>

(* A bug: the account is not taken out of its old room. *)
Elsewhere_Mutant(c, j) == None

(* The room to leave on the way to room j: none if the account is in j. *)
Elsewhere(c, j) == IF CurrentJam(c) = j THEN None ELSE CurrentJam(c)

JoinJam(c, j) ==
  /\ Ready(c) /\ j \in Live
  /\ Start(c, Moving(c, "join", Elsewhere(c, j), j))
  /\ UNCHANGED <<room, queue, recaps, clock, gone>>

(* Nothing here asks whether the room is still there. *)
InsertMember(c) ==
  /\ At(c, "join")
  /\ members' = members \cup {<<call[c].to, Me(c)>>}
  /\ Return(c)
  /\ UNCHANGED <<jams, made, queue, recaps, clock, gone>>

----------------------------------------------------------------------------
(* Leaving a room.  Its creator leaving ends it: everyone's recap first,   *)
(* then the creator's row, then the room.                                  *)

LeaveJam(c) ==
  /\ HasJam(c)
  /\ LET j == CurrentJam(c) IN
     Start(c, IF jams[j].host = Me(c)
              THEN [InJam(c, "leave", "rememberAll") EXCEPT
                      !.seen = jams[j], !.rest = MembersOf(j)]
              ELSE [InJam(c, "leave", "remember") EXCEPT !.seen = jams[j]])
  /\ UNCHANGED <<room, queue, recaps, clock, gone>>

(* A recap is made from the room's rows and then kept.                     *)
Remember(c) ==
  /\ At(c, "remember")
  /\ Turn(c, [call[c] EXCEPT !.at = "keep",
                 !.recap = RecapOf(Me(c), call[c].jam, call[c].seen, FALSE)])
  /\ UNCHANGED <<room, queue, recaps, clock, gone>>

RememberOne(c, u) ==
  /\ At(c, "rememberAll") /\ u \in call[c].rest
  /\ Turn(c, [call[c] EXCEPT !.at = "keep", !.rest = @ \ {u},
                 !.recap = RecapOf(u, call[c].jam, call[c].seen, TRUE)])
  /\ UNCHANGED <<room, queue, recaps, clock, gone>>

Keep(c) ==
  /\ At(c, "keep")
  /\ recaps' = recaps \cup call[c].recap
  /\ Turn(c, [call[c] EXCEPT !.recap = {},
       !.at = IF call[c].rest = {} THEN "part" ELSE "rememberAll"])
  /\ UNCHANGED <<room, queue, clock, gone>>

(* Where a handler goes once the account is out of the room. *)
AfterParting(c) == IF call[c].op = "leave" THEN "left" ELSE call[c].op

Part(c) ==
  /\ At(c, "part")
  /\ members' = members \ {<<call[c].jam, Me(c)>>}
  /\ GoTo(c, AfterParting(c))
  /\ UNCHANGED <<jams, made, queue, recaps, clock, gone>>

IsOver(c) == call[c].seen.host = Me(c) \/ MembersOf(call[c].jam) = {}

Left(c) ==
  /\ At(c, "left")
  /\ IF IsOver(c) THEN GoTo(c, "delete") ELSE Return(c)
  /\ UNCHANGED <<room, queue, recaps, clock, gone>>

Delete(c) ==
  /\ At(c, "delete")
  /\ DeleteJam(call[c].jam)
  /\ Return(c)
  /\ UNCHANGED <<clock, gone>>

----------------------------------------------------------------------------
(* The creator's switch.  The check cannot go stale: a room's host never   *)
(* changes, and the write to a deleted room does nothing.                  *)

SetJamMode(c, mode) ==
  /\ HasJam(c)
  /\ LET j == CurrentJam(c) IN
     jams[j].host = Me(c) /\ jams' = [jams EXCEPT ![j].mode = mode]
  /\ Start(c, NoCall)
  /\ UNCHANGED <<made, members, queue, recaps, clock, gone>>

----------------------------------------------------------------------------
(* The queue.  A track's state is decided by the mode and the room that    *)
(* were read before it is inserted.                                        *)

AddJamTrack(c) ==
  /\ HasJam(c) /\ added + InFlight({"propose", "queue"}) < MaxTracks
  /\ LET j == CurrentJam(c) IN
     Start(c, InJam(c, IF Proposes(jams[j], j) THEN "propose" ELSE "queue", "add"))
  /\ UNCHANGED <<room, queue, recaps, clock, gone>>

InsertTrack(c, alive) ==
  /\ At(c, "add")
  /\ added' = added + 1
  /\ LET asked == call[c].op = "propose" IN
     tracks' = [tracks EXCEPT ![added'] =
                  [jam |-> call[c].jam, by |-> Me(c), live |-> alive, asked |-> asked,
                   state |-> IF asked THEN "proposed" ELSE "queued"]]
  /\ Return(c)
  /\ UNCHANGED <<room, votes, skips, recaps, clock, gone>>

ApproveJamTrack(c, t) ==
  /\ HasJam(c) /\ t \in TracksOf(CurrentJam(c))
  /\ Start(c, [InJam(c, "approve", "approve") EXCEPT
                 !.track = t, !.need = ApprovalsNeeded(CurrentJam(c))])
  /\ UNCHANGED <<room, queue, recaps, clock, gone>>

(* Only a proposal can be promoted. *)
Promoted(t) ==
  [tracks EXCEPT ![t].state = IF @ = "proposed" THEN "queued" ELSE @]

Approve(c) ==
  /\ At(c, "approve")
  /\ LET t == call[c].track IN
     /\ votes' = votes \cup {<<call[c].jam, t, Me(c)>>}
     /\ tracks' = IF Approvals(t, votes') >= call[c].need THEN Promoted(t) ELSE tracks
  /\ Return(c)
  /\ UNCHANGED <<room, added, skips, recaps, clock, gone>>

RemoveJamTrack(c, t) ==
  /\ HasJam(c) /\ t \in TracksOf(CurrentJam(c))
  /\ Me(c) \in {jams[CurrentJam(c)].host, tracks[t].by}
  /\ Start(c, [InJam(c, "remove", "remove") EXCEPT !.track = t])
  /\ UNCHANGED <<room, queue, recaps, clock, gone>>

(* The skip votes of a removed track stay until its room goes. *)
Remove(c) ==
  /\ At(c, "remove")
  /\ LET t == call[c].track IN
     /\ votes' = {v \in votes : v[2] # t}
     /\ tracks' = [tracks EXCEPT ![t] = NoTrack]
  /\ Return(c)
  /\ UNCHANGED <<room, added, skips, recaps, clock, gone>>

----------------------------------------------------------------------------
(* Skipping what is on air, as it was when the caller's room was read      *)

VoteSkipJamTrack(c) ==
  /\ HasJam(c)
  /\ LET j == CurrentJam(c) IN
     /\ jams[j].playing # None
     /\ Start(c, [InJam(c, "skip", "skip") EXCEPT
                    !.track = jams[j].playing, !.need = SkipsNeeded(j)])
  /\ UNCHANGED <<room, queue, recaps, clock, gone>>

VoteSkip(c) ==
  /\ At(c, "skip")
  /\ LET t == call[c].track IN
     /\ skips' = skips \cup {<<call[c].jam, t, Me(c)>>}
     /\ IF Cardinality(VotersFor(t, skips')) >= call[c].need
        THEN GoTo(c, "retire") ELSE Return(c)
  /\ UNCHANGED <<room, tracks, added, votes, recaps, clock, gone>>

RetireSkipped(c) ==
  /\ At(c, "retire")
  /\ tracks' = Played(call[c].jam, call[c].track)
  /\ GoTo(c, "clear")
  /\ UNCHANGED <<room, added, votes, skips, recaps, clock, gone>>

ClearSkipped(c) ==
  /\ At(c, "clear")
  /\ jams' = NowPlaying(call[c].jam, None)
  /\ Return(c)
  /\ UNCHANGED <<made, members, queue, recaps, clock, gone>>

----------------------------------------------------------------------------
(* The clock looks at every live room on every pass.  Rooms have nothing   *)
(* in common, so a room's look is taken by itself; it starts from the      *)
(* room's row, its members and the row of its track, read together.  A     *)
(* look that leaves the room alone -- an empty one not yet old, a track    *)
(* whose time is not up -- is no step.                                     *)

Done == clock' = Asleep

LookAt(j, at) ==
  /\ clock = Asleep /\ j \in Live
  /\ clock' = [Asleep EXCEPT !.at = at, !.jam = j, !.playing = jams[j].playing]
  /\ UNCHANGED <<room, queue, recaps, handlers, gone>>

OnAir(t) == t # None /\ tracks[t] # NoTrack

(* Nobody in it for ABANDONED_AFTER_MS. *)
FindAbandoned(j) == MembersOf(j) = {} /\ LookAt(j, "sweep")

Sweep ==
  /\ clock.at = "sweep"
  /\ DeleteJam(clock.jam)
  /\ Done
  /\ UNCHANGED <<handlers, gone>>

(* A bug: a track of unknown length holds the room for good. *)
Ends_Mutant(t) == FALSE

(* A track with an end has come to it.  One of unknown length ends too,    *)
(* after UNKNOWN_DURATION_LEASE_MS; a stream never does.                   *)
Ends(t) == ~tracks[t].live

TimeUp(j) ==
  /\ MembersOf(j) # {} /\ OnAir(jams[j].playing) /\ Ends(jams[j].playing)
  /\ LookAt(j, "played")

MarkPlayed ==
  /\ clock.at = "played"
  /\ tracks' = Played(clock.jam, clock.playing)
  /\ clock' = [clock EXCEPT !.at = "next"]
  /\ UNCHANGED <<room, added, votes, skips, recaps, handlers, gone>>

FindSilent(j) ==
  MembersOf(j) # {} /\ ~OnAir(jams[j].playing) /\ LookAt(j, "next")

(* jam_tracks in the queued state, the first of them. *)
Waiting(j) == {t \in TracksOf(j) : tracks[t].state = "queued"}

PickNext ==
  /\ clock.at = "next"
  /\ LET next == Earliest(Waiting(clock.jam)) IN
     clock' = IF next # None THEN [clock EXCEPT !.at = "start", !.track = next]
              ELSE IF clock.playing # None THEN [clock EXCEPT !.at = "stop"]
              ELSE Asleep
  /\ UNCHANGED <<room, queue, recaps, handlers, gone>>

StartNext ==
  /\ clock.at = "start"
  /\ jams' = NowPlaying(clock.jam, clock.track)
  /\ clock' = [clock EXCEPT !.at = "announce"]
  /\ UNCHANGED <<made, members, queue, recaps, handlers, gone>>

(* Each member is sent the new track, and as its holder whoever added the  *)
(* track of the snapshot; a room takes no other notice of it.              *)
AnnounceNext ==
  /\ clock.at = "announce"
  /\ Done
  /\ UNCHANGED <<room, queue, recaps, handlers, gone>>

StopPlaying ==
  /\ clock.at = "stop"
  /\ jams' = NowPlaying(clock.jam, None)
  /\ Done
  /\ UNCHANGED <<made, members, queue, recaps, handlers, gone>>

----------------------------------------------------------------------------
(* An account is deleted, in one transaction: the rooms it opened with all *)
(* that is in them, its part in other rooms, its own recaps, and its name  *)
(* in everybody else's.                                                    *)

EraseJams(u) ==
  LET hosted == {j \in Live : jams[j].host = u} IN
  /\ jams' = [j \in JamIds |-> IF j \in hosted THEN NoJam ELSE jams[j]]
  /\ members' = {m \in members : m[1] \notin hosted /\ m[2] # u}
  /\ votes' = {v \in votes : v[1] \notin hosted /\ v[3] # u}
  /\ skips' = {v \in skips : v[1] \notin hosted /\ v[3] # u}
  /\ tracks' = [t \in TrackIds |->
                  IF tracks[t].jam \in hosted \/ tracks[t].by = u
                  THEN NoTrack ELSE tracks[t]]
  /\ UNCHANGED <<made, added>>

(* The handlers that may write the name afterwards.                        *)
Names(h, u) ==
  u \in h.rest \/ \E r \in h.recap : r.of = u \/ u \in r.people
Naming(u) ==
  {c \in Clients : call[c] # NoCall /\ (Me(c) = u \/ Names(call[c], u))}

EraseAccount(u) ==
  /\ u \notin erased
  /\ EraseJams(u)
  /\ recaps' = {Forgotten(r, u) : r \in {q \in recaps : q.of # u}}
  /\ erased' = erased \cup {u}
  /\ late' = IF Naming(u) = {} THEN late ELSE late \cup {u}
  /\ UNCHANGED <<handlers, clock>>

----------------------------------------------------------------------------
Init ==
  /\ jams = [j \in JamIds |-> NoJam] /\ made = 0 /\ members = {}
  /\ tracks = [t \in TrackIds |-> NoTrack] /\ added = 0
  /\ votes = {} /\ skips = {} /\ recaps = {} /\ erased = {} /\ late = {}
  /\ calls = 0 /\ call = [c \in Clients |-> NoCall]
  /\ clock = Asleep

Modes == {"open", "democracy"}

Ask(c) ==
  \/ CreateJam(c) \/ LeaveJam(c) \/ AddJamTrack(c) \/ VoteSkipJamTrack(c)
  \/ \E j \in JamIds : JoinJam(c, j)
  \/ \E mode \in Modes : SetJamMode(c, mode)
  \/ \E t \in TrackIds : ApproveJamTrack(c, t) \/ RemoveJamTrack(c, t)

(* What a handler does after its first reads. *)
GoOn(c) ==
  \/ \E mode \in Modes : InsertJam(c, mode)
  \/ \E u \in Users : RememberOne(c, u)
  \/ \E alive \in BOOLEAN : InsertTrack(c, alive)
  \/ InsertMember(c) \/ Remember(c) \/ Keep(c) \/ Part(c) \/ Left(c) \/ Delete(c)
  \/ Approve(c) \/ Remove(c)
  \/ VoteSkip(c) \/ RetireSkipped(c) \/ ClearSkipped(c)

Look(j) == FindAbandoned(j) \/ TimeUp(j) \/ FindSilent(j)

ActOnIt ==
  Sweep \/ MarkPlayed \/ PickNext \/ StartNext \/ AnnounceNext \/ StopPlaying

Next ==
  \/ ActOnIt \/ \E j \in JamIds : Look(j)
  \/ \E c \in Clients : Ask(c) \/ GoOn(c)
  \/ \E u \in Users : EraseAccount(u)
  \/ \E r \in recaps : Dismiss(r)

Spec == Init /\ [][Next]_vars

(* A handler that was called runs to its end, and so does a look of the    *)
(* clock.  A pass comes every TICK_SECS and looks at every room; of ever   *)
(* more looks at one track, one comes after its length, and of ever more   *)
(* at an empty room, one after ABANDONED_AFTER_MS.                         *)
FairSpec ==
  /\ Spec
  /\ WF_vars(ActOnIt)
  /\ \A c \in Clients : WF_vars(GoOn(c))
  /\ \A j \in JamIds : SF_vars(Look(j))

----------------------------------------------------------------------------
JamRows == [host : Users \cup {Nobody}, mode : Modes,
            playing : TrackIds \cup {None}]
TrackRows ==
  [jam : JamIds \cup {None}, by : Users \cup {Nobody}, live : BOOLEAN, asked : BOOLEAN,
   state : {"none", "proposed", "queued", "played"}]

(* Every table holds rows of its kind, and there is no row before it was   *)
(* made or after it was deleted.                                           *)
TypeOK ==
  /\ jams \in [JamIds -> JamRows] /\ made \in 0..MaxJams
  /\ members \subseteq JamIds \X Users
  /\ tracks \in [TrackIds -> TrackRows] /\ added \in 0..MaxTracks
  /\ votes \subseteq JamIds \X TrackIds \X Users
  /\ skips \subseteq JamIds \X TrackIds \X Users
  /\ recaps \subseteq
       [of : Users, people : SUBSET Users, queued : [Users -> 0..MaxTracks],
        top : Users \cup {Nobody}, ending : BOOLEAN]
  /\ \A j \in JamIds : j > made => jams[j] = NoJam /\ MembersOf(j) = {}
  /\ \A j \in JamIds : jams[j].host = Nobody => jams[j] = NoJam
  /\ \A t \in TrackIds : t > added \/ tracks[t].state = "none" => tracks[t] = NoTrack

(* What a room hears is a track of its own, and one it has accepted: what  *)
(* is on air, if its row is still there, was queued (jam_clock.rs).        *)
RoomHearsOnlyWhatItAccepted ==
  \A j \in Live :
    LET t == jams[j].playing IN
    t # None /\ tracks[t] # NoTrack
      => tracks[t].jam = j /\ tracks[t].state \in {"queued", "played"}

VotedBy(u) == {v \in votes \cup skips : v[3] = u}

Connections(u) == {c \in Clients : AccountOf[c] = u}

(* "The live jam this account is in, if any.  One at a time"               *)
(* (db_jam/lifecycle.rs:43), for an account acting from one device: two    *)
(* devices joining at once can each miss the other's row.                  *)
OneJamAtATime ==
  \A u \in Users :
    Cardinality(Connections(u)) <= 1
      => Cardinality({j \in Live : <<j, u>> \in members}) <= 1

(* The creator leaving writes everyone's recap while their own row is      *)
(* still there (jam_lifecycle.rs:157-159), and a track on air counts       *)
(* (db_jam_recap.rs:25): whoever is still in the room when the ending      *)
(* reaches them, and heard what was on air when it began, is left a recap  *)
(* that names the creator.  Again for a creator acting from one device.    *)
EndingIsRemembered ==
  [][\A c \in Clients :
       LET creator == Me(c)  j == call[c].jam IN
       At(c, "rememberAll") /\ Connections(creator) = {c} /\ OnAir(call[c].seen.playing)
         => \A u \in (MembersOf(j) \ {creator}) \cap (call[c].rest \ call'[c].rest) :
              \E r \in call'[c].recap : r.of = u /\ creator \in r.people]_vars

(* Nothing can still say who a deleted account was (erasure.rs:1-10): no   *)
(* room, queue or vote has it, and no recap names it, not as the one who   *)
(* queued the most either, unless a handler that had its name was under    *)
(* way when it was deleted.                                                *)
ErasedAreForgotten ==
  \A u \in erased \ late :
    /\ \A j \in JamIds : jams[j].host # u /\ <<j, u>> \notin members
    /\ \A t \in TrackIds : tracks[t].by # u
    /\ VotedBy(u) = {}
    /\ \A r \in recaps : u \notin {r.of, r.top} \cup r.people /\ r.queued[u] = 0

(* Whatever handlers, votes and the clock cross, the tables stay what they *)
(* are, an account is in one room (db_jam/lifecycle.rs:43), a room hears   *)
(* what it accepted (jam_clock.rs), and a deleted account is in none.      *)
RoomsKeepTheirRules ==
  /\ TypeOK /\ OneJamAtATime /\ RoomHearsOnlyWhatItAccepted
  /\ ErasedAreForgotten

HeldByStream(j) ==
  jams[j].playing # None /\ tracks[jams[j].playing].live

(* The room moves on: a queued track has its turn and is retired, unless   *)
(* it is removed, the room goes or stands empty, or a stream holds the air *)
(* (jam_clock.rs:65-95).                                                   *)
QueueMoves ==
  \A t \in TrackIds :
    tracks[t].state = "queued"
      ~> \/ tracks[t].state # "queued"
         \/ LET j == tracks[t].jam IN
            j \notin Live \/ MembersOf(j) = {} \/ HeldByStream(j)
=============================================================================
