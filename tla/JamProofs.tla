------------------------------ MODULE JamProofs ------------------------------
(***************************************************************************)
(* Rooms keep their rules and an ending is remembered, for any accounts,   *)
(* connections, rooms and tracks.  What is kept of a device is true of it, *)
(* and a grant serves whoever was handed it, for any devices and keys.     *)
(*                                                                         *)
(* What a handler or the clock of a room has read may be long over when it *)
(* is written.  It stays good enough because a room and a track are        *)
(* numbered once, a track stays in its room and accepted until it is gone, *)
(* and a room that is gone has taken its tracks with it.                   *)
(*                                                                         *)
(* A token stands for one set of keys wherever it is held: in the server's *)
(* table, in the hands of a handler, with the app of the host.  So it does *)
(* not matter whose hand-out told the app of it last.                      *)
(***************************************************************************)
EXTENDS Jam, Devices, FiniteSetTheorems, NaturalsInduction, WellFoundedInduction,
        TLAPS

Ops == {"none", "create", "join", "leave", "propose", "queue", "approve",
        "remove", "skip"}
Places == {"idle", "create", "join", "remember", "rememberAll", "keep", "part",
           "left", "delete", "add", "approve", "remove", "skip", "retire", "clear"}

(* A recap names who queued a track, and as top only one who did.          *)
Recaps ==
  {r \in [of : Users, people : SUBSET Users, queued : [Users -> 0..MaxTracks],
          top : Users \cup {Nobody}, ending : BOOLEAN] :
     /\ \A u \in Users : r.queued[u] > 0 => u \in r.people
     /\ r.top # Nobody => r.queued[r.top] > 0}

Calls ==
  [op : Ops, at : Places, jam : JamIds \cup {None}, seen : JamRows,
   to : JamIds \cup {None}, track : TrackIds \cup {None}, need : Nat,
   rest : SUBSET Users, recap : SUBSET Recaps]

Leaving == {"remember", "rememberAll", "keep", "part", "left", "delete"}
OnTrack == {"approve", "remove", "skip", "retire", "clear"}

(* What kind of handler is at which of its steps. *)
Fits(h) ==
  /\ h \in Calls
  /\ h.at = "idle" => h = NoCall
  /\ h.at \in {"create", "join"} => h.op = h.at
  /\ h.op = "join" => h.to \in 1..made
  /\ h.at \in Leaving => h.jam \in JamIds /\ h.op \in {"create", "join", "leave"}
  /\ h.at \in {"rememberAll", "left", "delete"} \/ h.rest # {} => h.op = "leave"
  /\ h.at = "add" => h.jam \in JamIds /\ h.op \in {"propose", "queue"}
  /\ h.at \in OnTrack => h.jam \in JamIds /\ h.track \in TrackIds

ClockFits ==
  /\ clock \in [at : {"idle", "sweep", "played", "next", "start", "announce",
                      "stop"},
                jam : JamIds \cup {None}, playing : TrackIds \cup {None},
                track : TrackIds \cup {None}]
  /\ clock.at # "idle" => clock.jam \in JamIds
  /\ clock.at = "start" => clock.track \in TrackIds

(* Rooms and tracks that are there and those that are yet to be made.      *)
InBounds ==
  /\ made + InFlight({"create"}) <= MaxJams
  /\ added + InFlight({"propose", "queue"}) <= MaxTracks

(* Every track has its author. *)
Authored == \A t \in TrackIds : tracks[t] # NoTrack =>
              tracks[t].jam \in JamIds /\ tracks[t].by \in Users

Tables == TypeOK /\ recaps \subseteq Recaps /\ Authored

Sound ==
  /\ Tables
  /\ call \in [Clients -> Calls] /\ \A c \in Clients : Fits(call[c])
  /\ ClockFits /\ InBounds

(***************************************************************************)
(* One room at a time: the rooms of an account that acts from one device,  *)
(* as far as its handler has come.                                         *)
(***************************************************************************)
RoomsOf(u) == {j \in Live : <<j, u>> \in members}
Moved(h) ==
  CASE h.at = "create" -> {}
    [] h.at = "join" -> {h.to}
    [] h.at \in {"remember", "keep", "part"} /\ h.op # "leave" -> {h.jam}
    [] OTHER -> Live
InOneRoom ==
  \A u \in Users : \A c \in Clients : Connections(u) = {c} =>
    /\ \A j, k \in RoomsOf(u) : j = k
    /\ RoomsOf(u) \subseteq Moved(call[c])
(* Who has no connection is in no room. *)
Unconnected == \A u \in Users : Connections(u) = {} => \A j \in JamIds : <<j, u>> \notin members

(***************************************************************************)
(* What a room hears.                                                      *)
(***************************************************************************)
Accepted(j, t) ==
  /\ t \in 1..added
  /\ tracks[t] # NoTrack => tracks[t].jam = j /\ tracks[t].state \in {"queued", "played"}
OnlyAccepted ==
  /\ \A j \in Live : jams[j].playing # None => Accepted(j, jams[j].playing)
  /\ clock.at = "start" => Accepted(clock.jam, clock.track)

(***************************************************************************)
(* Who was deleted.                                                        *)
(***************************************************************************)
Nameless(u) ==
  \A c \in Clients : call[c] # NoCall =>
    /\ Me(c) # u /\ u \notin call[c].rest
    /\ \A r \in call[c].recap : r.of # u /\ u \notin r.people
Forgets ==
  /\ ErasedAreForgotten /\ erased \subseteq Users
  /\ \A u \in erased \ late : Nameless(u)

(***************************************************************************)
(* An ending: what was on air is of the room as long as it is there, and   *)
(* as long as it is the creator is in the room.                            *)
(***************************************************************************)
Holds(c, j, t) ==
  /\ t \in 1..added
  /\ tracks[t] # NoTrack =>
       /\ tracks[t].jam = j /\ jams[j].host = Me(c)
       /\ Connections(Me(c)) = {c} => <<j, Me(c)>> \in members
EndsOf(c, h) ==
  /\ h.at \in {"rememberAll", "keep"} /\ h.op = "leave" /\ h.seen.host = Me(c)
       /\ h.seen.playing # None
     => Holds(c, h.jam, h.seen.playing)
  /\ h.at = "rememberAll" \/ h.rest # {} => h.seen.host = Me(c)
  /\ h.at = "remember" /\ h.op = "leave" => h.seen.host # Me(c)
EndsWell == \A c \in Clients : EndsOf(c, call[c])

IInv == Sound /\ InOneRoom /\ Unconnected /\ OnlyAccepted /\ Forgets /\ EndsWell

----------------------------------------------------------------------------
(* Greatest and least, and counting. *)

LEMMA ConstantsAre ==
  /\ AccountOf \in [Clients -> Users] /\ Nobody \notin Users
  /\ IsFiniteSet(Users) /\ IsFiniteSet(Clients)
  /\ MaxJams \in Nat /\ MaxTracks \in Nat /\ MaxCalls \in Nat
BY JamAssumption

LEMMA LeastOf ==
  ASSUME NEW T, T \subseteq Nat, T # {}
  PROVE  \E x \in T : \A y \in T : x <= y
<1> DEFINE Less == OpToRel(<, Nat)
<1>1. IsWellFoundedOn(Less, Nat)
  BY NatLessThanWellFounded
<1>2. PICK x \in T : \A y \in T : ~ (<<y, x>> \in Less)
  <2> HIDE DEF Less
  <2> QED
    BY <1>1, WFMin
<1>3. \A y \in T : ~ (y < x)
  BY <1>2 DEF OpToRel
<1>4. \A y \in T : x <= y
  BY <1>3
<1> QED
  BY <1>4

LEMMA GreatestOf ==
  ASSUME NEW n \in Nat, NEW T, T \subseteq 0..n, T # {}
  PROVE  \E x \in T : \A y \in T : y <= x
<1> DEFINE D == {n - y : y \in T}
<1>1. D \subseteq Nat /\ D # {}
  <2>1. \A y \in T : n - y \in Nat
    <3>1. \A y \in 0..n : n - y \in Nat
      OBVIOUS
    <3> QED
      BY <3>1
  <2> QED
    BY <2>1
<1>2. PICK d \in D : \A e \in D : d <= e
  <2> HIDE DEF D
  <2> QED
    BY <1>1, LeastOf
<1>3. PICK x \in T : d = n - x
  BY <1>2
<1>4. ASSUME NEW y \in T PROVE y <= x
  <2>1. n - y \in D
    OBVIOUS
  <2>2. d <= n - y
    BY <1>2, <2>1
  <2>3. x \in 0..n /\ y \in 0..n
    OBVIOUS
  <2> QED
    BY <1>3, <2>2, <2>3
<1> QED
  BY <1>4

LEMMA NewestIs ==
  ASSUME NEW J, J \subseteq JamIds
  PROVE  /\ J = {} => Newest(J) = None
         /\ J # {} => Newest(J) \in J
<1>1. ASSUME J # {} PROVE \E j \in J : \A k \in J : k <= j
  <2>1. J \subseteq 0..MaxJams /\ MaxJams \in Nat
    BY ConstantsAre DEF JamIds
  <2> QED
    BY <1>1, <2>1, GreatestOf
<1> QED
  BY <1>1 DEF Newest

LEMMA EarliestIs ==
  ASSUME NEW T, T \subseteq TrackIds
  PROVE  /\ T = {} => Earliest(T) = None
         /\ T # {} => Earliest(T) \in T
<1>1. ASSUME T # {} PROVE \E t \in T : \A k \in T : t <= k
  <2>1. T \subseteq Nat
    BY ConstantsAre DEF TrackIds
  <2> QED
    BY <1>1, <2>1, LeastOf
<1> QED
  BY <1>1 DEF Earliest

LEMMA FewerOf ==
  ASSUME NEW S, NEW T, IsFiniteSet(S), T \subseteq S
  PROVE  /\ IsFiniteSet(T) /\ Cardinality(T) <= Cardinality(S)
         /\ Cardinality(T) \in Nat /\ Cardinality(S) \in Nat
BY FS_Subset, FS_CardinalityType

LEMMA TracksAreFew ==
  ASSUME NEW T, T \subseteq TrackIds
  PROVE  IsFiniteSet(T) /\ Cardinality(T) \in 0..MaxTracks
<1>1. IsFiniteSet(TrackIds) /\ Cardinality(TrackIds) = MaxTracks
  BY ConstantsAre, FS_Interval DEF TrackIds
<1>2. IsFiniteSet(T) /\ Cardinality(T) <= MaxTracks /\ Cardinality(T) \in Nat
  BY <1>1, FewerOf
<1> QED
  BY <1>2, ConstantsAre

LEMMA UsersAreFinite ==
  ASSUME NEW S, S \subseteq Users
  PROVE  IsFiniteSet(S) /\ Cardinality(S) \in Nat
BY ConstantsAre, FewerOf

(* The handlers under way, when one goes on. *)
Flying(f, ops) == {c \in Clients : f[c].op \in ops}

LEMMA FlyingMoves ==
  ASSUME NEW f, NEW g, NEW ops, NEW c \in Clients,
         \A e \in Clients \ {c} : g[e].op = f[e].op
  PROVE  /\ Cardinality(Flying(f, ops)) \in Nat
         /\ Cardinality(Flying(g, ops)) \in Nat
         /\ Cardinality(Flying(g, ops)) <= Cardinality(Flying(f, ops)) + 1
         /\ f[c].op \in ops
              => Cardinality(Flying(g, ops)) <= Cardinality(Flying(f, ops))
         /\ g[c].op \notin ops
              => Cardinality(Flying(g, ops)) <= Cardinality(Flying(f, ops))
         /\ g[c].op \notin ops /\ f[c].op \in ops
              => Cardinality(Flying(g, ops)) + 1 <= Cardinality(Flying(f, ops))
<1> DEFINE A == Flying(f, ops)
           B == Flying(g, ops)
<1>1. A \subseteq Clients /\ B \subseteq Clients
  BY DEF Flying
<1>2. IsFiniteSet(A) /\ IsFiniteSet(B) /\ Cardinality(A) \in Nat /\ Cardinality(B) \in Nat
  BY <1>1, ConstantsAre, FewerOf
<1>3. B \subseteq A \cup {c}
  BY DEF Flying
<1>4. /\ c \in A <=> f[c].op \in ops
      /\ c \in B <=> g[c].op \in ops
  BY DEF Flying
<1> HIDE DEF A, B
<1>5. /\ IsFiniteSet(A \cup {c})
      /\ Cardinality(A \cup {c}) = IF c \in A THEN Cardinality(A) ELSE Cardinality(A) + 1
  BY <1>2, FS_AddElement
<1>6. Cardinality(B) <= Cardinality(A \cup {c})
  BY <1>3, <1>5, FewerOf
<1>7. c \notin B => B \subseteq A \ {c}
  BY <1>3
<1>8. /\ IsFiniteSet(A \ {c})
      /\ Cardinality(A \ {c}) = IF c \in A THEN Cardinality(A) - 1 ELSE Cardinality(A)
  BY <1>2, FS_RemoveElement
<1>9. c \notin B => Cardinality(B) <= Cardinality(A \ {c})
  BY <1>7, <1>8, FewerOf
<1>10. /\ Cardinality(B) <= Cardinality(A) + 1
       /\ c \in A => Cardinality(B) <= Cardinality(A)
       /\ c \notin B => Cardinality(B) <= Cardinality(A)
       /\ c \notin B /\ c \in A => Cardinality(B) + 1 <= Cardinality(A)
  BY <1>2, <1>5, <1>6, <1>8, <1>9
<1> QED
  BY <1>2, <1>4, <1>10 DEF A, B

----------------------------------------------------------------------------
(* Rooms and recaps. *)

LEMMA NothingIs ==
  /\ NoJam \in JamRows /\ NoJam.host = Nobody /\ NoJam.playing = None
  /\ NoTrack \in TrackRows /\ NoTrack.jam = None /\ NoTrack.by = Nobody
  /\ NoTrack.state = "none"
  /\ None \notin JamIds /\ None \notin TrackIds
BY DEF NoJam, JamRows, Modes, NoTrack, TrackRows, None, JamIds, TrackIds

LEMMA NoCallFits ==
  /\ Fits(NoCall) /\ NoCall.at = "idle" /\ NoCall.op = "none"
  /\ NoCall.rest = {} /\ NoCall.recap = {} /\ NoCall \in Calls
<1>1. NoCall \in Calls
  BY NothingIs DEF NoCall, Calls, Ops, Places
<1>2. /\ NoCall.at = "idle" /\ NoCall.op = "none" /\ NoCall.rest = {}
      /\ NoCall.recap = {}
  BY DEF NoCall
<1> QED
  BY <1>1, <1>2 DEF Fits, Leaving, OnTrack

LEMMA TypesAre ==
  ASSUME TypeOK
  PROVE  /\ jams \in [JamIds -> JamRows] /\ made \in Nat /\ made <= MaxJams
         /\ members \subseteq JamIds \X Users
         /\ tracks \in [TrackIds -> TrackRows] /\ added \in Nat /\ added <= MaxTracks
         /\ votes \subseteq JamIds \X TrackIds \X Users
         /\ skips \subseteq JamIds \X TrackIds \X Users
         /\ \A j \in JamIds : j > made => jams[j] = NoJam /\ MembersOf(j) = {}
         /\ \A j \in JamIds : jams[j].host = Nobody => jams[j] = NoJam
         /\ \A t \in TrackIds : t > added \/ tracks[t].state = "none"
                                  => tracks[t] = NoTrack
         /\ \A j \in JamIds : MembersOf(j) \subseteq Users
BY ConstantsAre DEF TypeOK, MembersOf

LEMMA LiveAre ==
  ASSUME TypeOK
  PROVE  /\ Live \subseteq JamIds /\ Live \subseteq 1..made /\ None \notin Live
         /\ \A j \in Live : /\ jams[j] \in JamRows /\ jams[j].host \in Users
                            /\ jams[j].playing \in TrackIds \cup {None}
<1>1. Live \subseteq JamIds /\ None \notin Live
  BY NothingIs DEF Live
<1>2. ASSUME NEW j \in Live
      PROVE /\ j \in 1..made /\ jams[j] \in JamRows /\ jams[j].host \in Users
            /\ jams[j].playing \in TrackIds \cup {None}
  <2>1. j \in JamIds /\ jams[j] # NoJam
    BY DEF Live
  <2>2. ~ (j > made) /\ jams[j].host # Nobody /\ jams[j] \in JamRows /\ made \in Nat
    BY <2>1, TypesAre
  <2>3. j \in 1..made
    BY <2>1, <2>2, ConstantsAre DEF JamIds
  <2> QED
    BY <2>2, <2>3 DEF JamRows
<1> QED
  BY <1>1, <1>2

LEMMA RoomIs ==
  ASSUME TypeOK, NEW u \in Users
  PROVE  /\ RoomsOf(u) = {} => JamForMember(u) = None
         /\ RoomsOf(u) # {} => JamForMember(u) \in RoomsOf(u)
         /\ JamForMember(u) # None => JamForMember(u) \in RoomsOf(u)
         /\ RoomsOf(u) \subseteq Live
<1>1. RoomsOf(u) \subseteq JamIds /\ JamForMember(u) = Newest(RoomsOf(u))
      /\ RoomsOf(u) \subseteq Live
  BY LiveAre DEF RoomsOf, JamForMember
<1> QED
  BY <1>1, NewestIs

LEMMA TopIs ==
  ASSUME NEW q \in [Users -> 0..MaxTracks]
  PROVE  \/ TopContributor(q) = Nobody
         \/ TopContributor(q) \in Users /\ q[TopContributor(q)] > 0
<1> DEFINE named == {u \in Users : q[u] > 0}
           amounts == {q[u] : u \in named}
<1>1. CASE named = {}
  BY <1>1 DEF TopContributor
<1>2. CASE named # {}
  <2>1. amounts \subseteq 0..MaxTracks /\ amounts # {} /\ MaxTracks \in Nat
    BY <1>2, ConstantsAre
  <2>2. PICK x \in amounts : \A y \in amounts : y <= x
    <3> HIDE DEF amounts
    <3> QED
      BY <2>1, GreatestOf
  <2>3. PICK u \in named : x = q[u]
    BY <2>2
  <2>4. \A v \in named : q[v] <= q[u]
    BY <2>2, <2>3
  <2>5. \E w \in named : \A v \in named : q[v] <= q[w]
    BY <2>4
  <2> HIDE DEF amounts
  <2>6. (CHOOSE w \in named : \A v \in named : q[v] <= q[w]) \in named
    BY <2>5
  <2>7. TopContributor(q) \in named
    BY <1>2, <2>6 DEF TopContributor
  <2> QED
    BY <2>7
<1> QED
  BY <1>1, <1>2

LEMMA HeardAre ==
  ASSUME TypeOK, Authored, NEW j \in JamIds, NEW seen
  PROVE  /\ Heard(j, seen) \subseteq TracksOf(j) /\ TracksOf(j) \subseteq TrackIds
         /\ \A t \in TracksOf(j) : tracks[t] # NoTrack /\ tracks[t].by \in Users
         /\ People(j, seen) \subseteq Users
<1>1. /\ Heard(j, seen) \subseteq TracksOf(j) /\ TracksOf(j) \subseteq TrackIds
  BY DEF Heard, TracksOf
<1>2. \A t \in TracksOf(j) : tracks[t] # NoTrack /\ tracks[t].by \in Users
  BY NothingIs DEF TracksOf, Authored
<1>3. People(j, seen) \subseteq Users
  BY <1>1, <1>2 DEF People, MembersOf
<1> QED
  BY <1>1, <1>2, <1>3

(* Recaps are of their kind. *)
LEMMA RecapIsOne ==
  ASSUME TypeOK, Authored, NEW j \in JamIds, NEW seen, NEW u \in Users,
         NEW ending \in BOOLEAN
  PROVE  /\ RecapOf(u, j, seen, ending) \subseteq Recaps
         /\ \A r \in RecapOf(u, j, seen, ending) :
              r.of = u /\ r.people = People(j, seen)
<1> DEFINE queued == [v \in Users |-> Queued(v, j, seen)]
<1>1. queued \in [Users -> 0..MaxTracks]
  <2>1. ASSUME NEW v \in Users PROVE Queued(v, j, seen) \in 0..MaxTracks
    <3>1. {t \in Heard(j, seen) : tracks[t].by = v} \subseteq TrackIds
      BY HeardAre
    <3> QED
      BY <3>1, TracksAreFew DEF Queued
  <2> QED
    BY <2>1
<1>2. \A v \in Users : queued[v] > 0 => v \in People(j, seen)
  <2> SUFFICES ASSUME NEW v \in Users, v \notin People(j, seen) PROVE ~ (queued[v] > 0)
    OBVIOUS
  <2>1. {t \in Heard(j, seen) : tracks[t].by = v} = {}
    BY DEF People
  <2>2. Queued(v, j, seen) = 0
    BY <2>1, FS_EmptySet DEF Queued
  <2> QED
    BY <2>2
<1>3. People(j, seen) \subseteq Users
  BY HeardAre
<1>4. PICK r : r = [of |-> u, people |-> People(j, seen), queued |-> queued,
                    top |-> TopContributor(queued), ending |-> ending]
  OBVIOUS
<1>5. RecapOf(u, j, seen, ending) \subseteq {r}
  BY <1>4 DEF RecapOf
<1>6. /\ r.of = u /\ r.people = People(j, seen) /\ r.queued = queued
      /\ r.top = TopContributor(queued)
  BY <1>4
<1> HIDE DEF queued
<1>7. /\ TopContributor(queued) \in Users \cup {Nobody}
      /\ TopContributor(queued) # Nobody => queued[TopContributor(queued)] > 0
  BY <1>1, TopIs, ConstantsAre
<1>8. r \in [of : Users, people : SUBSET Users, queued : [Users -> 0..MaxTracks],
             top : Users \cup {Nobody}, ending : BOOLEAN]
  BY <1>1, <1>3, <1>4, <1>7
<1>9. r \in Recaps
  BY <1>2, <1>6, <1>7, <1>8 DEF Recaps
<1> QED
  BY <1>5, <1>6, <1>9

(* Struck from a recap, an account is nowhere in it. *)
LEMMA ForgottenIs ==
  ASSUME NEW r \in Recaps, NEW u \in Users
  PROVE  /\ Forgotten(r, u) \in Recaps /\ Forgotten(r, u).of = r.of
         /\ Forgotten(r, u).people = r.people \ {u}
         /\ Forgotten(r, u).queued[u] = 0 /\ Forgotten(r, u).top # u
         /\ \A v \in Users : r.queued[v] = 0 => Forgotten(r, u).queued[v] = 0
         /\ \A v \in Users : r.top # v /\ r.queued[v] = 0 => Forgotten(r, u).top # v
<1>1. /\ r.of \in Users /\ r.people \subseteq Users
      /\ r.queued \in [Users -> 0..MaxTracks]
      /\ r.top \in Users \cup {Nobody}
      /\ \A v \in Users : r.queued[v] > 0 => v \in r.people
      /\ r.top # Nobody => r.queued[r.top] > 0
      /\ r \in [of : Users, people : SUBSET Users, queued : [Users -> 0..MaxTracks],
             top : Users \cup {Nobody}, ending : BOOLEAN]
  BY DEF Recaps
<1>2. CASE u \notin r.people /\ r.queued[u] = 0
  <2>1. Forgotten(r, u) = r
    BY <1>2 DEF Forgotten
  <2>2. r.top # u /\ r.people = r.people \ {u}
    BY <1>1, <1>2, ConstantsAre
  <2> QED
    BY <1>2, <2>1, <2>2
<1>3. CASE ~ (u \notin r.people /\ r.queued[u] = 0)
  <2>1. PICK q : q = [r.queued EXCEPT ![u] = 0]
    OBVIOUS
  <2>2. /\ q \in [Users -> 0..MaxTracks] /\ q[u] = 0
        /\ \A v \in Users : v # u => q[v] = r.queued[v]
    BY <1>1, <2>1, ConstantsAre
  <2>3. PICK x : x = TopContributor(q)
    OBVIOUS
  <2>4. x = Nobody \/ (x \in Users /\ q[x] > 0)
    BY <2>2, <2>3, TopIs
  <2>5. PICK s : s = [r EXCEPT !.people = @ \ {u}, !.queued = q, !.top = x]
    OBVIOUS
  <2>6. Forgotten(r, u) = s
    BY <1>3, <2>1, <2>3, <2>5 DEF Forgotten
  <2>7. /\ s \in [of : Users, people : SUBSET Users, queued : [Users -> 0..MaxTracks],
                  top : Users \cup {Nobody}, ending : BOOLEAN]
        /\ s.of = r.of /\ s.people = r.people \ {u} /\ s.queued = q /\ s.top = x
    BY <1>1, <2>2, <2>4, <2>5
  <2>8. \A v \in Users : q[v] > 0 => v \in s.people
    BY <1>1, <2>2, <2>7
  <2>9. s \in Recaps
    BY <2>4, <2>7, <2>8, ConstantsAre DEF Recaps
  <2>10. \A v \in Users : r.queued[v] = 0 => q[v] = 0
    BY <2>2
  <2>11. \A v \in Users : q[v] = 0 => x # v
    BY <2>2, <2>4, ConstantsAre
  <2> QED
    BY <2>2, <2>6, <2>7, <2>9, <2>10, <2>11
<1> QED
  BY <1>2, <1>3

----------------------------------------------------------------------------
(* Tables, handlers and the clock hold what they are made to hold. *)

LEMMA FitsLater ==
  ASSUME made <= made', made \in Nat, made' \in Nat, NEW g, Fits(g)
  PROVE  Fits(g)'
<1>1. g.to \in 1..made => g.to \in 1..made'
  OBVIOUS
<1> QED
  BY <1>1 DEF Fits

(* One handler goes on to h: what is made takes one from those under way.  *)
LEMMA CallsAfter ==
  ASSUME Sound, NEW c \in Clients, NEW h, call' = [call EXCEPT ![c] = h], Fits(h),
         \/ /\ made' = made
            /\ \/ h.op # "create" \/ call[c].op = "create"
               \/ made + InFlight({"create"}) < MaxJams
         \/ made' = made + 1 /\ call[c].op = "create" /\ h.op # "create",
         \/ /\ added' = added
            /\ \/ h.op \notin {"propose", "queue"} \/ call[c].op \in {"propose", "queue"}
               \/ added + InFlight({"propose", "queue"}) < MaxTracks
         \/ /\ added' = added + 1 /\ call[c].op \in {"propose", "queue"}
            /\ h.op \notin {"propose", "queue"}
  PROVE  /\ call' \in [Clients -> Calls] /\ \A e \in Clients : Fits(call[e])'
         /\ InBounds'
         /\ made' \in 0..MaxJams /\ added' \in 0..MaxTracks
<1>1. /\ made \in Nat /\ added \in Nat /\ MaxJams \in Nat /\ MaxTracks \in Nat
      /\ call \in [Clients -> Calls] /\ \A e \in Clients : Fits(call[e])
  BY TypesAre, ConstantsAre DEF Sound, Tables
<1>2. \A e \in Clients : call'[e] = IF e = c THEN h ELSE call[e]
  BY <1>1
<1>3. made <= made' /\ made' \in Nat /\ added' \in Nat
  BY <1>1
<1>4. h \in Calls
  BY DEF Fits
<1>5. ASSUME NEW e \in Clients PROVE Fits(call[e])'
  <2>1. PICK g : g = call'[e]
    OBVIOUS
  <2>2. Fits(g)
    BY <1>1, <1>2, <2>1
  <2>3. Fits(g)'
    BY <1>1, <1>3, <2>2, FitsLater
  <2> QED
    BY <2>1, <2>3 DEF Fits
<1>6. PICK f : f = call
  OBVIOUS
<1>7. PICK g : g = call'
  OBVIOUS
<1>8. /\ \A e \in Clients \ {c} : g[e].op = f[e].op
      /\ f[c].op = call[c].op /\ g[c].op = h.op
  BY <1>2, <1>6, <1>7
<1>9. /\ \A ops : InFlight(ops) = Cardinality(Flying(f, ops))
      /\ InFlight({"create"})' = Cardinality(Flying(g, {"create"}))
      /\ InFlight({"propose", "queue"})' = Cardinality(Flying(g, {"propose", "queue"}))
  BY <1>6, <1>7 DEF InFlight, Flying
<1>10. made' + Cardinality(Flying(g, {"create"})) <= MaxJams /\ made' <= MaxJams
  <2> DEFINE m == Cardinality(Flying(f, {"create"}))
             n == Cardinality(Flying(g, {"create"}))
  <2>1. /\ m \in Nat /\ n \in Nat /\ n <= m + 1
        /\ f[c].op \in {"create"} => n <= m
        /\ g[c].op \notin {"create"} => n <= m
        /\ g[c].op \notin {"create"} /\ f[c].op \in {"create"} => n + 1 <= m
    BY <1>8, FlyingMoves
  <2>2. made + m <= MaxJams
    BY <1>9 DEF Sound, InBounds
  <2>3. InFlight({"create"}) = m
    BY <1>9
  <2> HIDE DEF m, n
  <2>4. made' + n <= MaxJams /\ made' <= MaxJams
    BY <1>1, <1>8, <2>1, <2>2, <2>3
  <2> QED
    BY <2>4 DEF n
<1>11. added' + Cardinality(Flying(g, {"propose", "queue"})) <= MaxTracks
       /\ added' <= MaxTracks
  <2> DEFINE m == Cardinality(Flying(f, {"propose", "queue"}))
             n == Cardinality(Flying(g, {"propose", "queue"}))
  <2>1. /\ m \in Nat /\ n \in Nat /\ n <= m + 1
        /\ f[c].op \in {"propose", "queue"} => n <= m
        /\ g[c].op \notin {"propose", "queue"} => n <= m
        /\ g[c].op \notin {"propose", "queue"} /\ f[c].op \in {"propose", "queue"}
             => n + 1 <= m
    BY <1>8, FlyingMoves
  <2>2. added + m <= MaxTracks
    BY <1>9 DEF Sound, InBounds
  <2>3. InFlight({"propose", "queue"}) = m
    BY <1>9
  <2> HIDE DEF m, n
  <2>4. added' + n <= MaxTracks /\ added' <= MaxTracks
    BY <1>1, <1>8, <2>1, <2>2, <2>3
  <2> QED
    BY <2>4 DEF n
<1>12. InBounds'
  BY <1>9, <1>10, <1>11 DEF InBounds
<1>13. made' \in 0..MaxJams /\ added' \in 0..MaxTracks
  BY <1>1, <1>3, <1>10, <1>11
<1> QED
  BY <1>1, <1>4, <1>5, <1>12, <1>13

LEMMA TablesStay ==
  ASSUME Tables,
         UNCHANGED <<jams, made, members, tracks, added, votes, skips, recaps>>
  PROVE  Tables'
BY DEF Tables, TypeOK, Authored, MembersOf

(* A handler goes on, and writes nothing. *)
LEMMA SoundAlone ==
  ASSUME Sound, NEW c \in Clients, NEW h, call' = [call EXCEPT ![c] = h], Fits(h),
         UNCHANGED <<jams, made, members, tracks, added, votes, skips, recaps, clock>>,
         \/ h.op # "create" \/ call[c].op = "create"
         \/ made + InFlight({"create"}) < MaxJams,
         \/ h.op \notin {"propose", "queue"} \/ call[c].op \in {"propose", "queue"}
         \/ added + InFlight({"propose", "queue"}) < MaxTracks
  PROVE  Sound'
<1>1. /\ call' \in [Clients -> Calls] /\ \A e \in Clients : Fits(call[e])'
      /\ InBounds'
  BY CallsAfter
<1>2. Tables'
  BY TablesStay DEF Sound
<1>3. ClockFits'
  BY DEF Sound, ClockFits
<1> QED
  BY <1>1, <1>2, <1>3 DEF Sound

(* The clock or somebody else writes, and no handler goes on. *)
LEMMA SoundAround ==
  ASSUME Sound, UNCHANGED <<call, made, added>>, Tables', ClockFits'
  PROVE  Sound'
<1>1. \A e \in Clients : Fits(call[e])'
  BY DEF Sound, Fits
<1>2. InBounds'
  BY DEF Sound, InBounds, InFlight
<1> QED
  BY <1>1, <1>2 DEF Sound

(* A handler begins. *)
LEMMA MovingFits ==
  ASSUME TypeOK, NEW c \in Clients, NEW op \in {"create", "join"},
         NEW to \in JamIds \cup {None}, op = "join" => to \in 1..made,
         NEW old, old = None \/ old \in Live, NEW h, h = Moving(c, op, old, to)
  PROVE  /\ Fits(h) /\ h.op = op /\ h.to = to /\ h.rest = {} /\ h.recap = {}
         /\ h # NoCall
         /\ \/ h.at = op /\ old = None
            \/ h.at = "remember" /\ h.jam = old /\ old \in Live
<1>1. CASE old = None
  <2>1. h = [op |-> op, at |-> op, jam |-> None, seen |-> NoJam, to |-> to,
             track |-> None, need |-> 0, rest |-> {}, recap |-> {}]
    BY <1>1 DEF Moving, NoCall
  <2>2. h \in Calls
    BY <2>1, NothingIs DEF Calls, Ops, Places
  <2>3. h.op = op /\ h.at = op /\ h.to = to /\ h.rest = {} /\ h.recap = {}
    BY <2>1
  <2> QED
    BY <1>1, <2>2, <2>3, NoCallFits DEF Fits, Leaving, OnTrack
<1>2. CASE old # None
  <2>1. h = [op |-> op, at |-> "remember", jam |-> old, seen |-> jams[old], to |-> to,
             track |-> None, need |-> 0, rest |-> {}, recap |-> {}]
    BY <1>2 DEF Moving, NoCall
  <2>2. old \in JamIds /\ jams[old] \in JamRows
    BY <1>2, LiveAre
  <2>3. h \in Calls
    BY <2>1, <2>2, NothingIs DEF Calls, Ops, Places
  <2>4. /\ h.op = op /\ h.at = "remember" /\ h.to = to /\ h.rest = {} /\ h.recap = {}
        /\ h.jam = old
    BY <2>1
  <2> QED
    BY <1>2, <2>2, <2>3, <2>4, NoCallFits DEF Fits, Leaving, OnTrack
<1> QED
  BY <1>1, <1>2

tables == <<jams, made, members, tracks, added, votes, skips, recaps>>

(* What a handler begins with: it has read the room its account is in.     *)
Begins(c, h) ==
  /\ call[c] = NoCall /\ Me(c) \notin erased
  /\ Fits(h) /\ h.recap = {}
  /\ h.op = "create" => made + InFlight({"create"}) < MaxJams
  /\ h.op \in {"propose", "queue"} => added + InFlight({"propose", "queue"}) < MaxTracks
  /\ \/ h.at = "create" /\ h.rest = {} /\ CurrentJam(c) = None
     \/ h.at = "join" /\ h.rest = {} /\ CurrentJam(c) \in {None, h.to}
     \/ /\ h.at = "remember" /\ h.op \in {"create", "join"} /\ h.rest = {}
        /\ h.jam = CurrentJam(c) /\ h.jam \in RoomsOf(Me(c))
     \/ /\ h.at = "remember" /\ h.op = "leave" /\ h.rest = {}
        /\ h.jam \in RoomsOf(Me(c)) /\ h.seen = jams[h.jam] /\ h.seen.host # Me(c)
     \/ /\ h.at = "rememberAll" /\ h.rest = MembersOf(h.jam)
        /\ h.jam \in RoomsOf(Me(c)) /\ h.seen = jams[h.jam] /\ h.seen.host = Me(c)
     \/ h.at \in OnTrack \cup {"add"} /\ h.rest = {}

Begun(c) ==
  /\ \E h : Begins(c, h) /\ call' = [call EXCEPT ![c] = h]
  /\ UNCHANGED <<tables, clock, gone>>

(* The creator's switch is one step. *)
Switched(c) ==
  /\ UNCHANGED <<call, made, members, tracks, added, votes, skips, recaps, clock, gone>>
  /\ \E j \in Live, mode \in Modes : jams' = [jams EXCEPT ![j].mode = mode]

LEMMA AskedIs ==
  ASSUME Sound, NEW c \in Clients, Ask(c)
  PROVE  Begun(c) \/ Switched(c)
<1>1. TypeOK /\ call \in [Clients -> Calls] /\ Fits(call[c]) /\ Me(c) \in Users
  BY ConstantsAre DEF Sound, Tables, Me
<1>2. Ready(c) => call[c] = NoCall
  BY <1>1 DEF Ready, At, Fits
<1>3. HasJam(c) => /\ CurrentJam(c) \in RoomsOf(Me(c)) /\ CurrentJam(c) \in Live
                   /\ CurrentJam(c) # None /\ call[c] = NoCall
  BY <1>1, <1>2, RoomIs DEF HasJam, CurrentJam
<1>4. CurrentJam(c) # None =>
        CurrentJam(c) \in RoomsOf(Me(c)) /\ CurrentJam(c) \in Live
  BY <1>1, RoomIs DEF CurrentJam
<1>5. /\ 0 \in Nat /\ NoJam \in JamRows
      /\ CurrentJam(c) # None => CurrentJam(c) \in JamIds
  BY <1>1, <1>4, LiveAre, NothingIs
<1>6. ASSUME CreateJam(c) PROVE Begun(c)
  <2>1. PICK h : h = Moving(c, "create", CurrentJam(c), None)
    OBVIOUS
  <2>2. /\ call[c] = NoCall /\ Me(c) \notin erased /\ call' = [call EXCEPT ![c] = h]
        /\ made + InFlight({"create"}) < MaxJams
        /\ UNCHANGED <<tables, clock, gone>>
    BY <1>2, <1>6, <2>1 DEF CreateJam, Start, room, queue, tables, gone
  <2>3. /\ Fits(h) /\ h.op = "create" /\ h.rest = {} /\ h.recap = {}
        /\ \/ h.at = "create" /\ CurrentJam(c) = None
           \/ h.at = "remember" /\ h.jam = CurrentJam(c) /\ h.jam \in Live
    <3>1. /\ None \in JamIds \cup {None} /\ "create" \in {"create", "join"}
          /\ "create" = "join" => None \in 1..made
          /\ CurrentJam(c) = None \/ CurrentJam(c) \in Live
      BY <1>4
    <3> QED
      BY <1>1, <2>1, <3>1, MovingFits
  <2>4. Begins(c, h)
    BY <1>4, <2>2, <2>3, NothingIs, LiveAre, <1>1 DEF Begins
  <2> QED
    BY <2>2, <2>4 DEF Begun
<1>7. ASSUME NEW j \in JamIds, JoinJam(c, j) PROVE Begun(c)
  <2>1. PICK h : h = Moving(c, "join", Elsewhere(c, j), j)
    OBVIOUS
  <2>2. /\ call[c] = NoCall /\ Me(c) \notin erased /\ call' = [call EXCEPT ![c] = h]
        /\ j \in Live
        /\ UNCHANGED <<tables, clock, gone>>
    BY <1>2, <1>7, <2>1 DEF JoinJam, Start, room, queue, tables, gone
  <2>3. j \in 1..made /\ None \notin Live
    BY <1>1, <2>2, LiveAre
  <2>4. \/ Elsewhere(c, j) = None /\ CurrentJam(c) \in {None, j}
        \/ Elsewhere(c, j) = CurrentJam(c) /\ CurrentJam(c) \in Live
    BY <1>4 DEF Elsewhere
  <2>5. /\ Fits(h) /\ h.op = "join" /\ h.rest = {} /\ h.recap = {} /\ h.to = j
        /\ \/ h.at = "join" /\ Elsewhere(c, j) = None
           \/ h.at = "remember" /\ h.jam = Elsewhere(c, j) /\ h.jam \in Live
    BY <1>1, <2>1, <2>3, <2>4, MovingFits
  <2>6. Begins(c, h)
    BY <1>4, <2>2, <2>3, <2>4, <2>5 DEF Begins
  <2> QED
    BY <2>2, <2>6 DEF Begun
<1>8. ASSUME LeaveJam(c) PROVE Begun(c)
  <2>1. PICK j : j = CurrentJam(c)
    OBVIOUS
  <2>2. /\ j \in RoomsOf(Me(c)) /\ j \in Live /\ j # None /\ call[c] = NoCall
        /\ jams[j] \in JamRows /\ MembersOf(j) \in SUBSET Users
    BY <1>1, <1>3, <1>8, <2>1, LiveAre, TypesAre DEF LeaveJam
  <2>3. Me(c) \notin erased /\ UNCHANGED <<tables, clock, gone>>
    BY <1>8 DEF LeaveJam, Start, room, queue, tables, gone
  <2>4. CASE jams[j].host = Me(c)
    <3>0. PICK h : h = [InJam(c, "leave", "rememberAll") EXCEPT
                          !.seen = jams[j], !.rest = MembersOf(j)]
      OBVIOUS
    <3>1. h = [op |-> "leave", at |-> "rememberAll", jam |-> CurrentJam(c),
               seen |-> jams[j], to |-> None, track |-> None,
               need |-> 0, rest |-> MembersOf(j), recap |-> {}]
      BY <3>0 DEF InJam, NoCall
    <3>2. call' = [call EXCEPT ![c] = h]
      BY <1>8, <2>1, <2>4, <3>0 DEF LeaveJam, Start
    <3>3. Fits(h)
      <4>1. h \in Calls
        BY <1>5, <2>1, <2>2, <3>1 DEF Calls, Ops, Places
      <4> QED
        BY <1>5, <2>1, <2>2, <3>1, <4>1 DEF Fits, Leaving, OnTrack
    <3>4. Begins(c, h)
      BY <2>1, <2>2, <2>3, <2>4, <3>1, <3>3 DEF Begins
    <3> QED
      BY <2>3, <3>2, <3>4 DEF Begun
  <2>5. CASE jams[j].host # Me(c)
    <3>0. PICK h : h = [InJam(c, "leave", "remember") EXCEPT !.seen = jams[j]]
      OBVIOUS
    <3>1. h = [op |-> "leave", at |-> "remember", jam |-> CurrentJam(c),
               seen |-> jams[j], to |-> None, track |-> None,
               need |-> 0, rest |-> {}, recap |-> {}]
      BY <3>0 DEF InJam, NoCall
    <3>2. call' = [call EXCEPT ![c] = h]
      BY <1>8, <2>1, <2>5, <3>0 DEF LeaveJam, Start
    <3>3. Fits(h)
      <4>1. h \in Calls
        BY <1>5, <2>1, <2>2, <3>1 DEF Calls, Ops, Places
      <4> QED
        BY <1>5, <2>1, <2>2, <3>1, <4>1 DEF Fits, Leaving, OnTrack
    <3>4. Begins(c, h)
      BY <2>1, <2>2, <2>3, <2>5, <3>1, <3>3 DEF Begins
    <3> QED
      BY <2>3, <3>2, <3>4 DEF Begun
  <2> QED
    BY <2>4, <2>5
<1>9. ASSUME AddJamTrack(c) PROVE Begun(c)
  <2>1. PICK op \in {"propose", "queue"} :
          call' = [call EXCEPT ![c] = InJam(c, op, "add")]
    BY <1>9 DEF AddJamTrack, Start
  <2>2. /\ added + InFlight({"propose", "queue"}) < MaxTracks
        /\ Me(c) \notin erased /\ UNCHANGED <<tables, clock, gone>>
        /\ CurrentJam(c) # None /\ call[c] = NoCall
    BY <1>3, <1>9 DEF AddJamTrack, Start, room, queue, tables, gone
  <2>0. PICK h : h = InJam(c, op, "add")
    OBVIOUS
  <2>3. h = [op |-> op, at |-> "add", jam |-> CurrentJam(c),
             seen |-> NoJam, to |-> None, track |-> None,
             need |-> 0, rest |-> {}, recap |-> {}]
    BY <2>0 DEF InJam, NoCall
  <2>4. call' = [call EXCEPT ![c] = h]
    BY <2>0, <2>1
  <2>5. Fits(h)
    <3>1. h \in Calls
      BY <1>5, <2>2, <2>3 DEF Calls, Ops, Places
    <3> QED
      BY <1>5, <2>2, <2>3, <3>1 DEF Fits, Leaving, OnTrack
  <2>6. Begins(c, h)
    BY <2>2, <2>3, <2>5 DEF Begins
  <2> QED
    BY <2>2, <2>4, <2>6 DEF Begun
<1>10. ASSUME NEW op \in {"approve", "remove", "skip"}, NEW t \in TrackIds, NEW n \in Nat,
              HasJam(c),
              Start(c, [InJam(c, op, op) EXCEPT !.track = t, !.need = n]),
              UNCHANGED <<tables, clock, gone>>
       PROVE  Begun(c)
  <2>1. Me(c) \notin erased /\ CurrentJam(c) # None /\ call[c] = NoCall
    BY <1>3, <1>10 DEF Start
  <2>0. PICK h : h = [InJam(c, op, op) EXCEPT !.track = t, !.need = n]
    OBVIOUS
  <2>2. h = [op |-> op, at |-> op, jam |-> CurrentJam(c),
             seen |-> NoJam, to |-> None, track |-> t,
             need |-> n, rest |-> {}, recap |-> {}]
    BY <2>0 DEF InJam, NoCall
  <2>3. call' = [call EXCEPT ![c] = h]
    BY <1>10, <2>0 DEF Start
  <2>4. Fits(h)
    <3>1. h \in Calls
      BY <1>5, <1>10, <2>1, <2>2 DEF Calls, Ops, Places
    <3> QED
      BY <1>5, <1>10, <2>1, <2>2, <3>1 DEF Fits, Leaving, OnTrack
  <2>5. Begins(c, h)
    BY <2>1, <2>2, <2>4 DEF Begins, OnTrack
  <2> QED
    BY <1>10, <2>3, <2>5 DEF Begun
<1>11. ASSUME NEW t \in TrackIds, ApproveJamTrack(c, t) PROVE Begun(c)
  <2>1. /\ HasJam(c) /\ UNCHANGED <<tables, clock, gone>>
        /\ Start(c, [InJam(c, "approve", "approve") EXCEPT
                       !.track = t, !.need = ApprovalsNeeded(CurrentJam(c))])
    BY <1>11 DEF ApproveJamTrack, room, queue, tables, gone
  <2>2. ApprovalsNeeded(CurrentJam(c)) \in Nat
    <3>1. MembersOf(CurrentJam(c)) \subseteq Users
      BY DEF MembersOf
    <3>2. PICK n \in Nat : n = Cardinality(MembersOf(CurrentJam(c)))
      BY <3>1, UsersAreFinite
    <3>3. (IF n - 1 > 0 THEN (n - 1) \div 2 ELSE 0) + 1 \in Nat
      OBVIOUS
    <3> QED
      BY <3>2, <3>3 DEF ApprovalsNeeded
  <2> QED
    BY <1>10, <2>1, <2>2
<1>12. ASSUME NEW t \in TrackIds, RemoveJamTrack(c, t) PROVE Begun(c)
  <2>1. /\ HasJam(c) /\ UNCHANGED <<tables, clock, gone>>
        /\ Start(c, [InJam(c, "remove", "remove") EXCEPT !.track = t])
    BY <1>12 DEF RemoveJamTrack, room, queue, tables, gone
  <2>2. [InJam(c, "remove", "remove") EXCEPT !.track = t]
          = [InJam(c, "remove", "remove") EXCEPT !.track = t, !.need = 0]
    <3>1. PICK h : h = InJam(c, "remove", "remove")
      OBVIOUS
    <3>2. h = [op |-> "remove", at |-> "remove", jam |-> CurrentJam(c),
               seen |-> NoJam, to |-> None, track |-> None, need |-> 0,
               rest |-> {}, recap |-> {}]
      BY <3>1 DEF InJam, NoCall
    <3>3. PICK g : g = [h EXCEPT !.track = t]
      OBVIOUS
    <3>4. PICK k : k = [h EXCEPT !.track = t, !.need = 0]
      OBVIOUS
    <3>5. g = [op |-> "remove", at |-> "remove", jam |-> CurrentJam(c),
               seen |-> NoJam, to |-> None, track |-> t, need |-> 0,
               rest |-> {}, recap |-> {}]
      BY <3>2, <3>3
    <3>6. k = [op |-> "remove", at |-> "remove", jam |-> CurrentJam(c),
               seen |-> NoJam, to |-> None, track |-> t, need |-> 0,
               rest |-> {}, recap |-> {}]
      BY <3>2, <3>4
    <3> QED
      BY <3>1, <3>3, <3>4, <3>5, <3>6
  <2> QED
    BY <1>5, <1>10, <2>1, <2>2
<1>13. ASSUME VoteSkipJamTrack(c) PROVE Begun(c)
  <2>1. PICK j : j = CurrentJam(c)
    OBVIOUS
  <2>2. /\ HasJam(c) /\ UNCHANGED <<tables, clock, gone>>
        /\ jams[j].playing # None
        /\ Start(c, [InJam(c, "skip", "skip") EXCEPT
                       !.track = jams[j].playing, !.need = SkipsNeeded(j)])
    BY <1>13, <2>1 DEF VoteSkipJamTrack, room, queue, tables, gone
  <2>3. jams[j].playing \in TrackIds
    BY <1>1, <1>3, <2>1, <2>2, LiveAre
  <2>4. SkipsNeeded(j) \in Nat
    <3>1. MembersOf(j) \subseteq Users
      BY DEF MembersOf
    <3>2. PICK n \in Nat : n = Cardinality(MembersOf(j))
      BY <3>1, UsersAreFinite
    <3>3. n \div 2 + 1 \in Nat
      OBVIOUS
    <3> QED
      BY <3>2, <3>3 DEF SkipsNeeded
  <2> QED
    BY <1>10, <2>2, <2>3, <2>4
<1>14. ASSUME NEW mode \in Modes, SetJamMode(c, mode) PROVE Switched(c)
  <2>1. /\ call' = [call EXCEPT ![c] = NoCall] /\ call[c] = NoCall
        /\ CurrentJam(c) \in Live
        /\ jams' = [jams EXCEPT ![CurrentJam(c)].mode = mode]
        /\ UNCHANGED <<made, members, tracks, added, votes, skips, recaps, clock, gone>>
    BY <1>3, <1>14 DEF SetJamMode, Start, queue, gone
  <2>2. call' = call
    BY <1>1, <2>1
  <2> QED
    BY <2>1, <2>2 DEF Switched
<1> QED
  BY <1>6, <1>7, <1>8, <1>9, <1>11, <1>12, <1>13, <1>14 DEF Ask

----------------------------------------------------------------------------
(* How tracks and rooms move. *)

Moves(t) ==
  \/ tracks'[t] = tracks[t]
  \/ tracks'[t] = NoTrack
  \/ /\ tracks[t] # NoTrack /\ tracks'[t] \in TrackRows
     /\ tracks'[t].jam = tracks[t].jam /\ tracks'[t].by = tracks[t].by
     /\ tracks'[t].state \in {"queued", "played"}
  \/ /\ t = added + 1 /\ added' = added + 1 /\ tracks'[t] \in TrackRows
     /\ tracks'[t].jam \in JamIds /\ tracks'[t].by \in Users
     /\ tracks'[t].state # "none"
TracksMove ==
  /\ added' \in {added, added + 1}
  /\ tracks' = [t \in TrackIds |-> tracks'[t]]
  /\ \A t \in TrackIds : Moves(t)

RoomMoves(j) ==
  \/ jams'[j] = jams[j]
  \/ jams'[j] = NoJam
  \/ /\ jams[j] # NoJam /\ jams'[j] \in JamRows
     /\ jams'[j].host = jams[j].host
     /\ \/ jams'[j].playing \in {jams[j].playing, None}
        \/ clock.at = "start" /\ j = clock.jam /\ jams'[j].playing = clock.track
  \/ /\ j = made + 1 /\ made' = made + 1 /\ jams'[j] \in JamRows
     /\ jams'[j].host \in Users /\ jams'[j].playing = None
RoomsMove ==
  /\ made' \in {made, made + 1}
  /\ jams' = [j \in JamIds |-> jams'[j]]
  /\ \A j \in JamIds : RoomMoves(j)

LEMMA StateMoves ==
  ASSUME TypeOK, NEW t \in TrackIds, NEW s, NEW s2 \in {"queued", "played"},
         s2 = s \/ s = tracks[t].state, tracks[t] # NoTrack \/ s = tracks[t].state,
         tracks' = [tracks EXCEPT ![t].state = s], added' = added
  PROVE  TracksMove
<1>1. tracks \in [TrackIds -> TrackRows]
  BY TypesAre
<1>2. tracks' = [k \in TrackIds |-> tracks'[k]]
  BY <1>1
<1>3. \A k \in TrackIds \ {t} : tracks'[k] = tracks[k]
  BY <1>1
<1>4. PICK r \in TrackRows : r = tracks[t]
  BY <1>1
<1>5. tracks'[t] = [r EXCEPT !.state = s]
  BY <1>1, <1>4
<1>6. CASE s = tracks[t].state
  <2>1. [r EXCEPT !.state = s] = r
    BY <1>4, <1>6 DEF TrackRows
  <2> QED
    BY <1>2, <1>3, <1>4, <1>5, <2>1 DEF TracksMove, Moves
<1>7. CASE s = s2 /\ tracks[t] # NoTrack
  <2>1. PICK q : q = [r EXCEPT !.state = s]
    OBVIOUS
  <2>2. q \in TrackRows /\ q.jam = r.jam /\ q.by = r.by /\ q.state = s
    BY <1>7, <2>1 DEF TrackRows
  <2>3. Moves(t)
    BY <1>4, <1>5, <1>7, <2>1, <2>2 DEF Moves
  <2> QED
    BY <1>2, <1>3, <2>3 DEF TracksMove, Moves
<1> QED
  BY <1>6, <1>7

LEMMA PlayedMoves ==
  ASSUME TypeOK, NEW t \in TrackIds, NEW j, tracks' = Played(j, t), added' = added
  PROVE  TracksMove
<1>1. tracks[t].state # "none" => tracks[t] # NoTrack
  BY NothingIs
<1>2. PICK s : s = IF tracks[t].state # "none" /\ tracks[t].jam = j
                   THEN "played" ELSE tracks[t].state
  OBVIOUS
<1>3. tracks' = [tracks EXCEPT ![t].state = s]
  BY <1>2 DEF Played
<1> QED
  BY <1>1, <1>2, <1>3, StateMoves

LEMMA ElsewhereUnplayed ==
  ASSUME TypeOK, NEW t, t \notin TrackIds, NEW j, tracks' = Played(j, t), added' = added
  PROVE  TracksMove
<1>1. tracks' = tracks
  BY TypesAre DEF Played
<1> QED
  BY <1>1, TypesAre DEF TracksMove, Moves

LEMMA StillThere ==
  ASSUME TypeOK
  PROVE  /\ UNCHANGED <<tracks, added>> => TracksMove
         /\ UNCHANGED <<jams, made>> => RoomsMove
BY TypesAre DEF TracksMove, Moves, RoomsMove, RoomMoves

LEMMA DeleteMoves ==
  ASSUME TypeOK, NEW j, DeleteJam(j)
  PROVE  TracksMove /\ RoomsMove
<1>1. TracksMove
  BY TypesAre DEF DeleteJam, TracksMove, Moves
<1>2. RoomsMove
  BY TypesAre, NothingIs DEF DeleteJam, RoomsMove, RoomMoves
<1> QED
  BY <1>1, <1>2

LEMMA EraseMoves ==
  ASSUME TypeOK, NEW u, EraseJams(u)
  PROVE  TracksMove /\ RoomsMove
<1>1. TracksMove
  BY TypesAre DEF EraseJams, TracksMove, Moves
<1>2. RoomsMove
  BY TypesAre DEF EraseJams, RoomsMove, RoomMoves
<1> QED
  BY <1>1, <1>2

LEMMA PlayingMoves ==
  ASSUME TypeOK, NEW j, NEW t,
         t = None \/ (clock.at = "start" /\ j = clock.jam /\ t = clock.track /\ t \in TrackIds),
         jams' = NowPlaying(j, t), made' = made
  PROVE  RoomsMove
<1>1. jams \in [JamIds -> JamRows]
  BY TypesAre
<1>2. CASE j \in Live
  <2>1. j \in JamIds /\ jams[j] # NoJam
    BY <1>2 DEF Live
  <2>2. PICK r \in JamRows : r = jams[j]
    BY <1>1, <2>1
  <2>3. PICK q : q = [r EXCEPT !.playing = t]
    OBVIOUS
  <2>4. q \in JamRows /\ q.host = r.host /\ q.playing = t
    BY <2>3, NothingIs DEF JamRows
  <2>5. jams' = [jams EXCEPT ![j] = q]
    BY <1>2, <2>2, <2>3 DEF NowPlaying
  <2>6. jams' = [k \in JamIds |-> jams'[k]] /\ jams'[j] = q
        /\ \A k \in JamIds \ {j} : jams'[k] = jams[k]
    BY <1>1, <2>1, <2>5
  <2>7. RoomMoves(j)
    BY <2>1, <2>2, <2>4, <2>6 DEF RoomMoves
  <2> QED
    BY <2>6, <2>7 DEF RoomsMove, RoomMoves
<1>3. CASE j \notin Live
  <2>1. jams' = jams
    BY <1>1, <1>3 DEF NowPlaying
  <2> QED
    BY <2>1, StillThere
<1> QED
  BY <1>2, <1>3

LEMMA HandlersMoveTracks ==
  ASSUME Sound, NEW c \in Clients, GoOn(c)
  PROVE  TracksMove
<1>1. TypeOK /\ Fits(call[c]) /\ call[c] \in Calls
  BY DEF Sound, Tables
<1>2. CASE UNCHANGED <<tracks, added>>
  BY <1>1, <1>2, StillThere
<1>3. ASSUME NEW mode \in Modes, InsertJam(c, mode) PROVE TracksMove
  BY <1>2, <1>3 DEF InsertJam, queue
<1>4. ASSUME NEW u \in Users, RememberOne(c, u) PROVE TracksMove
  BY <1>2, <1>4 DEF RememberOne, queue
<1>5. CASE \/ InsertMember(c) \/ Remember(c) \/ Keep(c) \/ Part(c) \/ Left(c)
           \/ VoteSkip(c) \/ ClearSkipped(c)
  BY <1>2, <1>5
  DEF InsertMember, Remember, Keep, Part, Left, VoteSkip, ClearSkipped, queue
<1>6. CASE Delete(c)
  BY <1>1, <1>6, DeleteMoves DEF Delete
<1>7. ASSUME NEW alive \in BOOLEAN, InsertTrack(c, alive) PROVE TracksMove
  <2>1. /\ tracks \in [TrackIds -> TrackRows] /\ added \in Nat
        /\ call[c].jam \in JamIds /\ Me(c) \in Users
    BY <1>1, <1>7, TypesAre, ConstantsAre DEF InsertTrack, At, Fits, Me
  <2>2. PICK r : r = [jam |-> call[c].jam, by |-> Me(c), live |-> alive,
                      asked |-> call[c].op = "propose",
                      state |-> IF call[c].op = "propose" THEN "proposed" ELSE "queued"]
    OBVIOUS
  <2>3. r \in TrackRows /\ r.jam \in JamIds /\ r.by \in Users /\ r.state # "none"
    BY <2>1, <2>2 DEF TrackRows
  <2>4. added' = added + 1 /\ tracks' = [tracks EXCEPT ![added + 1] = r]
    BY <1>7, <2>2 DEF InsertTrack
  <2>5. /\ tracks' = [t \in TrackIds |-> tracks'[t]]
        /\ \A t \in TrackIds : tracks'[t] = IF t = added + 1 THEN r ELSE tracks[t]
    BY <2>1, <2>4
  <2> QED
    BY <2>3, <2>4, <2>5 DEF TracksMove, Moves
<1>8. CASE Approve(c)
  <2>1. call[c].track \in TrackIds /\ added' = added
    BY <1>1, <1>8 DEF Approve, At, Fits, OnTrack
  <2>2. CASE tracks' = tracks
    BY <1>2, <2>1, <2>2
  <2>3. CASE tracks' = Promoted(call[c].track)
    <3>1. PICK t \in TrackIds : t = call[c].track
      BY <2>1
    <3>2. PICK s : s = IF tracks[t].state = "proposed" THEN "queued" ELSE tracks[t].state
      OBVIOUS
    <3>3. tracks' = [tracks EXCEPT ![t].state = s]
      BY <2>3, <3>1, <3>2 DEF Promoted
    <3>4. tracks[t].state = "proposed" => tracks[t] # NoTrack
      BY NothingIs
    <3> QED
      BY <1>1, <2>1, <3>2, <3>3, <3>4, StateMoves
  <2> QED
    BY <1>8, <2>2, <2>3 DEF Approve
<1>9. CASE Remove(c)
  <2>1. tracks' = [tracks EXCEPT ![call[c].track] = NoTrack] /\ added' = added
    BY <1>9 DEF Remove
  <2> QED
    BY <1>1, <2>1, TypesAre DEF TracksMove, Moves
<1>10. CASE RetireSkipped(c)
  <2>1. call[c].track \in TrackIds
    BY <1>1, <1>10 DEF RetireSkipped, At, Fits, OnTrack
  <2> QED
    BY <1>1, <1>10, <2>1, PlayedMoves DEF RetireSkipped
<1> QED
  BY <1>3, <1>4, <1>5, <1>6, <1>7, <1>8, <1>9, <1>10 DEF GoOn

LEMMA HandlersMoveRooms ==
  ASSUME Sound, NEW c \in Clients, GoOn(c)
  PROVE  RoomsMove
<1>1. TypeOK /\ Fits(call[c]) /\ call[c] \in Calls
  BY DEF Sound, Tables
<1>2. CASE UNCHANGED <<jams, made>>
  BY <1>1, <1>2, StillThere
<1>3. ASSUME NEW mode \in Modes, InsertJam(c, mode) PROVE RoomsMove
  <2>1. jams \in [JamIds -> JamRows] /\ made \in Nat /\ Me(c) \in Users
    BY <1>1, TypesAre, ConstantsAre DEF Me
  <2>2. PICK r : r = [NoJam EXCEPT !.host = Me(c), !.mode = mode]
    OBVIOUS
  <2>3. r \in JamRows /\ r.host \in Users /\ r.playing = None
    BY <2>1, <2>2 DEF NoJam, JamRows
  <2>4. made' = made + 1 /\ jams' = [jams EXCEPT ![made + 1] = r]
    BY <1>3, <2>2 DEF InsertJam
  <2>5. /\ jams' = [j \in JamIds |-> jams'[j]]
        /\ \A j \in JamIds : jams'[j] = IF j = made + 1 THEN r ELSE jams[j]
    BY <2>1, <2>4
  <2> QED
    BY <2>3, <2>4, <2>5 DEF RoomsMove, RoomMoves
<1>4. ASSUME NEW u \in Users, RememberOne(c, u) PROVE RoomsMove
  BY <1>2, <1>4 DEF RememberOne, room
<1>5. ASSUME NEW alive \in BOOLEAN, InsertTrack(c, alive) PROVE RoomsMove
  BY <1>2, <1>5 DEF InsertTrack, room
<1>6. CASE \/ InsertMember(c) \/ Remember(c) \/ Keep(c) \/ Part(c) \/ Left(c)
           \/ Approve(c) \/ Remove(c) \/ VoteSkip(c) \/ RetireSkipped(c)
  BY <1>2, <1>6
  DEF InsertMember, Remember, Keep, Part, Left, Approve, Remove, VoteSkip,
      RetireSkipped, room
<1>7. CASE Delete(c)
  BY <1>1, <1>7, DeleteMoves DEF Delete
<1>8. CASE ClearSkipped(c)
  BY <1>1, <1>8, PlayingMoves DEF ClearSkipped
<1> QED
  BY <1>3, <1>4, <1>5, <1>6, <1>7, <1>8 DEF GoOn

LEMMA ClockMovesOn ==
  ASSUME Sound, ActOnIt
  PROVE  TracksMove /\ RoomsMove /\ ClockFits' /\ UNCHANGED <<calls, call, gone>>
<1>1. TypeOK /\ ClockFits
  BY DEF Sound, Tables
<1>2. Asleep.at = "idle" /\ Asleep \in
        [at : {"idle", "sweep", "played", "next", "start", "announce", "stop"},
         jam : JamIds \cup {None}, playing : TrackIds \cup {None},
         track : TrackIds \cup {None}]
  BY DEF Asleep
<1>3. ASSUME clock' = Asleep PROVE ClockFits'
  BY <1>2, <1>3 DEF ClockFits
<1>4. ASSUME NEW at \in {"next", "stop", "announce"}, clock.at # "idle",
             clock' = [clock EXCEPT !.at = at]
      PROVE ClockFits'
  BY <1>1, <1>4 DEF ClockFits
<1>5. CASE Sweep
  BY <1>1, <1>3, <1>5, DeleteMoves DEF Sweep, Done, handlers
<1>6. CASE MarkPlayed
  <2>1. ClockFits' /\ UNCHANGED <<calls, call, gone>>
    BY <1>4, <1>6 DEF MarkPlayed, handlers
  <2>2. RoomsMove
    BY <1>1, <1>6, StillThere DEF MarkPlayed, room
  <2>3. TracksMove
    BY <1>1, <1>6, PlayedMoves, ElsewhereUnplayed DEF MarkPlayed
  <2> QED
    BY <2>1, <2>2, <2>3
<1>7. CASE PickNext
  <2>1. TracksMove /\ RoomsMove /\ UNCHANGED <<calls, call, gone>>
    BY <1>1, <1>7, StillThere DEF PickNext, room, queue, handlers
  <2>2. PICK next : next = Earliest(Waiting(clock.jam))
    OBVIOUS
  <2>3. next # None => next \in TrackIds
    <3>1. Waiting(clock.jam) \subseteq TrackIds
      BY DEF Waiting, TracksOf
    <3> QED
      BY <2>2, <3>1, EarliestIs
  <2>4. CASE next # None
    <3>1. clock' = [clock EXCEPT !.at = "start", !.track = next] /\ clock.at = "next"
      BY <1>7, <2>2, <2>4 DEF PickNext
    <3>2. ClockFits'
      BY <1>1, <2>3, <2>4, <3>1 DEF ClockFits
    <3> QED
      BY <2>1, <3>2
  <2>5. CASE next = None
    <3>1. clock' = [clock EXCEPT !.at = "stop"] \/ clock' = Asleep
      BY <1>7, <2>2, <2>5 DEF PickNext
    <3>2. clock.at # "idle"
      BY <1>7 DEF PickNext
    <3> QED
      BY <1>3, <1>4, <2>1, <3>1, <3>2
  <2> QED
    BY <2>4, <2>5
<1>8. CASE StartNext
  <2>1. ClockFits' /\ UNCHANGED <<calls, call, gone>>
    BY <1>4, <1>8 DEF StartNext, handlers
  <2>2. TracksMove
    BY <1>1, <1>8, StillThere DEF StartNext, queue
  <2>3. RoomsMove
    BY <1>1, <1>8, PlayingMoves DEF StartNext, ClockFits
  <2> QED
    BY <2>1, <2>2, <2>3
<1>9. CASE AnnounceNext
  BY <1>1, <1>3, <1>9, StillThere DEF AnnounceNext, Done, room, queue, handlers
<1>10. CASE StopPlaying
  <2>1. ClockFits' /\ UNCHANGED <<calls, call, gone>>
    BY <1>3, <1>10 DEF StopPlaying, Done, handlers
  <2>2. TracksMove
    BY <1>1, <1>10, StillThere DEF StopPlaying, queue
  <2>3. RoomsMove
    BY <1>1, <1>10, PlayingMoves DEF StopPlaying
  <2> QED
    BY <2>1, <2>2, <2>3
<1> QED
  BY <1>5, <1>6, <1>7, <1>8, <1>9, <1>10 DEF ActOnIt

LEMMA ClockLooks ==
  ASSUME Sound, NEW j \in JamIds, Look(j)
  PROVE  /\ UNCHANGED <<tables, calls, call, gone>>
         /\ ClockFits' /\ clock'.at \in {"sweep", "played", "next"}
         /\ clock = Asleep
<1>1. PICK at \in {"sweep", "played", "next"} : LookAt(j, at)
  BY DEF Look, FindAbandoned, TimeUp, FindSilent
<1>2. /\ UNCHANGED <<tables, calls, call, gone>>
      /\ clock' = [Asleep EXCEPT !.at = at, !.jam = j, !.playing = jams[j].playing]
      /\ j \in Live /\ clock = Asleep
  BY <1>1 DEF LookAt, tables, room, queue, handlers, gone
<1>3. jams[j].playing \in TrackIds \cup {None}
  BY <1>2, LiveAre DEF Sound, Tables
<1>4. PICK p : p = jams[j].playing
  OBVIOUS
<1>5. clock' = [at |-> at, jam |-> j, playing |-> p, track |-> None]
  BY <1>2, <1>4 DEF Asleep
<1>6. ClockFits' /\ clock'.at \in {"sweep", "played", "next"}
  BY <1>3, <1>4, <1>5 DEF ClockFits
<1> QED
  BY <1>2, <1>6

(* Every step. *)
LEMMA StepsMove ==
  ASSUME Sound, [Next]_vars
  PROVE  TracksMove /\ RoomsMove
<1>1. TypeOK
  BY DEF Sound, Tables
<1>2. CASE UNCHANGED tables
  BY <1>1, <1>2, StillThere DEF tables
<1>3. ASSUME NEW c \in Clients, Ask(c) PROVE TracksMove /\ RoomsMove
  <2>1. CASE Begun(c)
    BY <1>2, <2>1 DEF Begun
  <2>2. CASE Switched(c)
    <3>1. PICK j \in Live, mode \in Modes : jams' = [jams EXCEPT ![j].mode = mode]
      BY <2>2 DEF Switched
    <3>2. jams \in [JamIds -> JamRows] /\ j \in JamIds /\ jams[j] # NoJam /\ made' = made
      BY <1>1, <2>2, TypesAre DEF Live, Switched
    <3>3. PICK r \in JamRows : r = jams[j]
      BY <3>2
    <3>4. PICK q : q = [r EXCEPT !.mode = mode]
      OBVIOUS
    <3>5. q \in JamRows /\ q.host = r.host /\ q.playing = r.playing
      BY <3>4 DEF JamRows
    <3>6. jams' = [jams EXCEPT ![j] = q]
      BY <3>1, <3>3, <3>4
    <3>7. jams' = [k \in JamIds |-> jams'[k]] /\ jams'[j] = q
          /\ \A k \in JamIds \ {j} : jams'[k] = jams[k]
      BY <3>2, <3>6
    <3>8. RoomMoves(j)
      BY <3>2, <3>3, <3>5, <3>7 DEF RoomMoves
    <3>9. RoomsMove
      BY <3>2, <3>7, <3>8 DEF RoomsMove, RoomMoves
    <3>10. TracksMove
      BY <1>1, <2>2, StillThere DEF Switched
    <3> QED
      BY <3>9, <3>10
  <2> QED
    BY <1>3, <2>1, <2>2, AskedIs
<1>4. ASSUME NEW c \in Clients, GoOn(c) PROVE TracksMove /\ RoomsMove
  BY <1>4, HandlersMoveTracks, HandlersMoveRooms
<1>5. CASE ActOnIt
  BY <1>5, ClockMovesOn
<1>6. ASSUME NEW j \in JamIds, Look(j) PROVE TracksMove /\ RoomsMove
  BY <1>2, <1>6, ClockLooks
<1>7. ASSUME NEW u \in Users, EraseAccount(u) PROVE TracksMove /\ RoomsMove
  BY <1>1, <1>7, EraseMoves DEF EraseAccount
<1>8. ASSUME NEW r \in recaps, Dismiss(r) PROVE TracksMove /\ RoomsMove
  BY <1>1, <1>8, StillThere DEF Dismiss, room, queue
<1>9. CASE UNCHANGED vars
  BY <1>2, <1>9 DEF vars, tables
<1> QED
  BY <1>3, <1>4, <1>5, <1>6, <1>7, <1>8, <1>9 DEF Next

----------------------------------------------------------------------------
(* How a handler goes on. *)

Onward(c, h) ==
  LET q == call[c] IN
  \/ h = NoCall
  \/ /\ h.op = q.op /\ h.jam = q.jam /\ h.seen = q.seen /\ h.to = q.to
     /\ \/ /\ q.at = "remember" /\ h.at = "keep" /\ h.rest = q.rest
           /\ h.recap = RecapOf(Me(c), q.jam, q.seen, FALSE)
        \/ /\ q.at = "rememberAll" /\ h.at = "keep"
           /\ \E u \in q.rest : /\ h.rest = q.rest \ {u}
                                /\ h.recap = RecapOf(u, q.jam, q.seen, TRUE)
        \/ /\ q.at = "keep" /\ h.recap = {} /\ h.rest = q.rest
           /\ h.at = IF q.rest = {} THEN "part" ELSE "rememberAll"
        \/ /\ q.at = "part" /\ h.rest = q.rest /\ h.recap = q.recap
           /\ h.at = IF q.op = "leave" THEN "left" ELSE q.op
        \/ /\ q.at \in {"left", "skip", "retire"} /\ h.rest = q.rest /\ h.recap = q.recap
           /\ h.at \in {"delete", "retire", "clear"}

(* What is counted as under way is made, or is not.                         *)
Counts(c, h) ==
  /\ h.op \in {call[c].op, "none"}
  /\ \/ made' = made
     \/ made' = made + 1 /\ call[c].op = "create" /\ h.op # "create"
  /\ \/ added' = added
     \/ /\ added' = added + 1 /\ call[c].op \in {"propose", "queue"}
        /\ h.op \notin {"propose", "queue"}

LEMMA HandlersGoOn ==
  ASSUME Sound, NEW c \in Clients, GoOn(c)
  PROVE  /\ UNCHANGED <<clock, gone>>
         /\ \E h : /\ call' = [call EXCEPT ![c] = h] /\ Fits(h)
                   /\ Onward(c, h) /\ Counts(c, h)
<1> DEFINE Goal == /\ UNCHANGED <<clock, gone>>
                   /\ \E h : /\ call' = [call EXCEPT ![c] = h] /\ Fits(h)
                             /\ Onward(c, h) /\ Counts(c, h)
<1>1. /\ TypeOK /\ Authored /\ Fits(call[c]) /\ call[c] \in Calls /\ Me(c) \in Users
      /\ made \in Nat /\ added \in Nat
  BY TypesAre, ConstantsAre DEF Sound, Tables, Me
<1>2. PICK q \in Calls : q = call[c]
  BY <1>1
<1>3. Fits(q)
  BY <1>1, <1>2
<1>4. ASSUME call' = [call EXCEPT ![c] = NoCall], UNCHANGED <<clock, gone>>,
             Counts(c, NoCall)
      PROVE  Goal
  BY <1>4, NoCallFits DEF Onward
<1>5. ASSUME call' = [call EXCEPT ![c] = NoCall], UNCHANGED <<clock, gone, made, added>>
      PROVE  Goal
  BY <1>4, <1>5, NoCallFits DEF Counts
<1>6. ASSUME NEW at \in Places, call' = [call EXCEPT ![c] = [q EXCEPT !.at = at]],
             UNCHANGED <<clock, gone, made, added>>,
             \/ /\ q.at = "part" /\ at = IF q.op = "leave" THEN "left" ELSE q.op
             \/ q.at = "left" /\ at = "delete"
             \/ q.at = "skip" /\ at = "retire"
             \/ q.at = "retire" /\ at = "clear"
      PROVE  Goal
  <2>1. PICK h : h = [q EXCEPT !.at = at]
    OBVIOUS
  <2>2. h \in Calls
    BY <2>1 DEF Calls
  <2>3. /\ h.op = q.op /\ h.jam = q.jam /\ h.seen = q.seen /\ h.to = q.to
        /\ h.track = q.track /\ h.rest = q.rest /\ h.recap = q.recap /\ h.at = at
    BY <2>1 DEF Calls
  <2>4. Fits(h)
    BY <1>3, <1>6, <2>2, <2>3 DEF Fits, Leaving, OnTrack
  <2>5. Onward(c, h) /\ Counts(c, h)
    BY <1>2, <1>6, <2>3 DEF Onward, Counts
  <2> QED
    BY <1>6, <2>1, <2>4, <2>5
<1>7. ASSUME NEW at \in {"keep", "part", "rememberAll"}, NEW R \in SUBSET q.rest,
             NEW S \in SUBSET Recaps,
             call' = [call EXCEPT ![c] = [q EXCEPT !.at = at, !.rest = R, !.recap = S]],
             UNCHANGED <<clock, gone, made, added>>,
             \/ /\ q.at = "remember" /\ at = "keep" /\ R = q.rest
                /\ S = RecapOf(Me(c), q.jam, q.seen, FALSE)
             \/ /\ q.at = "rememberAll" /\ at = "keep"
                /\ \E u \in q.rest : /\ R = q.rest \ {u}
                                     /\ S = RecapOf(u, q.jam, q.seen, TRUE)
             \/ /\ q.at = "keep" /\ S = {} /\ R = q.rest
                /\ at = IF q.rest = {} THEN "part" ELSE "rememberAll"
      PROVE  Goal
  <2>1. PICK h : h = [q EXCEPT !.at = at, !.rest = R, !.recap = S]
    OBVIOUS
  <2>2. R \in SUBSET Users /\ at \in Places
    BY DEF Calls, Places
  <2>3. h \in Calls
    BY <2>1, <2>2 DEF Calls
  <2>4. /\ h.op = q.op /\ h.jam = q.jam /\ h.seen = q.seen /\ h.to = q.to
        /\ h.track = q.track /\ h.rest = R /\ h.recap = S /\ h.at = at
    BY <2>1 DEF Calls
  <2>5. Fits(h)
    BY <1>3, <1>7, <2>3, <2>4 DEF Fits, Leaving, OnTrack
  <2>6. Onward(c, h) /\ Counts(c, h)
    BY <1>2, <1>7, <2>4 DEF Onward, Counts
  <2> QED
    BY <1>7, <2>1, <2>5, <2>6
<1>8. ASSUME NEW mode \in Modes, InsertJam(c, mode) PROVE Goal
  <2>1. call' = [call EXCEPT ![c] = NoCall] /\ made' = made + 1 /\ added' = added
        /\ UNCHANGED <<clock, gone>>
    BY <1>8 DEF InsertJam, Return, Turn, queue
  <2>2. call[c].op = "create"
    BY <1>1, <1>8 DEF InsertJam, At, Fits
  <2>3. Counts(c, NoCall)
    BY <2>1, <2>2, NoCallFits DEF Counts
  <2> QED
    BY <1>4, <2>1, <2>3
<1>9. ASSUME NEW alive \in BOOLEAN, InsertTrack(c, alive) PROVE Goal
  <2>1. call' = [call EXCEPT ![c] = NoCall] /\ added' = added + 1 /\ made' = made
        /\ UNCHANGED <<clock, gone>>
    BY <1>9 DEF InsertTrack, Return, Turn, room
  <2>2. call[c].op \in {"propose", "queue"}
    BY <1>1, <1>9 DEF InsertTrack, At, Fits
  <2>3. Counts(c, NoCall)
    BY <2>1, <2>2, NoCallFits DEF Counts
  <2> QED
    BY <1>4, <2>1, <2>3
<1>10. CASE InsertMember(c) \/ Delete(c) \/ Approve(c) \/ Remove(c) \/ ClearSkipped(c)
  BY <1>5, <1>10
  DEF InsertMember, Delete, DeleteJam, Approve, Remove, ClearSkipped, Return, Turn,
      room, queue
<1>11. CASE Remember(c)
  <2>1. /\ q.at = "remember" /\ q.jam \in JamIds
    BY <1>2, <1>3, <1>11 DEF Remember, At, Fits, Leaving
  <2>2. PICK S \in SUBSET Recaps : S = RecapOf(Me(c), q.jam, q.seen, FALSE)
    BY <1>1, <2>1, RecapIsOne
  <2>3. call' = [call EXCEPT ![c] = [q EXCEPT !.at = "keep", !.recap = S]]
        /\ UNCHANGED <<clock, gone, made, added>>
    BY <1>2, <1>11, <2>2 DEF Remember, Turn, room, queue
  <2>4. [q EXCEPT !.at = "keep", !.recap = S]
          = [q EXCEPT !.at = "keep", !.rest = q.rest, !.recap = S]
    BY DEF Calls
  <2> QED
    BY <1>7, <2>1, <2>2, <2>3, <2>4
<1>12. ASSUME NEW u \in Users, RememberOne(c, u) PROVE Goal
  <2>1. /\ q.at = "rememberAll" /\ q.jam \in JamIds /\ u \in q.rest
    BY <1>2, <1>3, <1>12 DEF RememberOne, At, Fits, Leaving
  <2>2. PICK S \in SUBSET Recaps : S = RecapOf(u, q.jam, q.seen, TRUE)
    BY <1>1, <2>1, RecapIsOne
  <2>3. PICK R \in SUBSET q.rest : R = q.rest \ {u}
    OBVIOUS
  <2>4. call' = [call EXCEPT ![c] = [q EXCEPT !.at = "keep", !.rest = R, !.recap = S]]
        /\ UNCHANGED <<clock, gone, made, added>>
    BY <1>2, <1>12, <2>2, <2>3 DEF RememberOne, Turn, room, queue
  <2> QED
    BY <1>7, <2>1, <2>2, <2>3, <2>4
<1>13. CASE Keep(c)
  <2>1. q.at = "keep"
    BY <1>2, <1>13 DEF Keep, At
  <2>2. PICK at : at = IF q.rest = {} THEN "part" ELSE "rememberAll"
    OBVIOUS
  <2>3. call' = [call EXCEPT ![c] = [q EXCEPT !.recap = {}, !.at = at]]
        /\ UNCHANGED <<clock, gone, made, added>>
    BY <1>2, <1>13, <2>2 DEF Keep, Turn, room, queue
  <2>4. [q EXCEPT !.recap = {}, !.at = at]
          = [q EXCEPT !.at = at, !.rest = q.rest, !.recap = {}]
    BY DEF Calls
  <2> QED
    BY <1>7, <2>1, <2>2, <2>3, <2>4
<1>14. CASE Part(c)
  <2>1. q.at = "part"
    BY <1>2, <1>14 DEF Part, At
  <2>2. PICK at : at = IF q.op = "leave" THEN "left" ELSE q.op
    OBVIOUS
  <2>3. call' = [call EXCEPT ![c] = [q EXCEPT !.at = at]]
        /\ UNCHANGED <<clock, gone, made, added>>
    BY <1>2, <1>14, <2>2 DEF Part, GoTo, Turn, AfterParting, queue
  <2>4. at \in Places
    BY <1>3, <2>1, <2>2 DEF Fits, Leaving, Places
  <2> QED
    BY <1>6, <2>1, <2>2, <2>3, <2>4
<1>15. CASE Left(c)
  <2>1. q.at = "left" /\ UNCHANGED <<clock, gone, made, added>>
    BY <1>2, <1>15 DEF Left, At, room, queue
  <2>2. \/ call' = [call EXCEPT ![c] = [q EXCEPT !.at = "delete"]]
        \/ call' = [call EXCEPT ![c] = NoCall]
    BY <1>2, <1>15 DEF Left, GoTo, Return, Turn
  <2> QED
    BY <1>5, <1>6, <2>1, <2>2 DEF Places
<1>16. CASE VoteSkip(c)
  <2>1. q.at = "skip" /\ UNCHANGED <<clock, gone, made, added>>
    BY <1>2, <1>16 DEF VoteSkip, At, room
  <2>2. \/ call' = [call EXCEPT ![c] = [q EXCEPT !.at = "retire"]]
        \/ call' = [call EXCEPT ![c] = NoCall]
    BY <1>2, <1>16 DEF VoteSkip, GoTo, Return, Turn
  <2> QED
    BY <1>5, <1>6, <2>1, <2>2 DEF Places
<1>17. CASE RetireSkipped(c)
  <2>1. /\ q.at = "retire" /\ UNCHANGED <<clock, gone, made, added>>
        /\ call' = [call EXCEPT ![c] = [q EXCEPT !.at = "clear"]]
    BY <1>2, <1>17 DEF RetireSkipped, At, room, GoTo, Turn
  <2> QED
    BY <1>6, <2>1 DEF Places
<1> QED
  BY <1>8, <1>9, <1>10, <1>11, <1>12, <1>13, <1>14, <1>15, <1>16, <1>17 DEF GoOn

----------------------------------------------------------------------------
(* The tables stay sound. *)

Rows ==
  /\ members \subseteq (1..made) \X Users
  /\ votes \subseteq JamIds \X TrackIds \X Users
  /\ skips \subseteq JamIds \X TrackIds \X Users
  /\ recaps \subseteq Recaps

LEMMA RowsAre ==
  ASSUME Tables
  PROVE  Rows /\ made \in 0..MaxJams /\ added \in 0..MaxTracks
<1>1. /\ TypeOK /\ recaps \subseteq Recaps /\ MaxJams \in Nat
      /\ members \subseteq JamIds \X Users /\ made \in 0..MaxJams
      /\ \A j \in JamIds : j > made => MembersOf(j) = {}
  BY ConstantsAre DEF Tables, TypeOK
<1>2. ASSUME NEW m \in members PROVE m \in (1..made) \X Users
  <2>1. PICK j \in JamIds, u \in Users : m = <<j, u>>
    BY <1>1
  <2>2. u \in MembersOf(j)
    BY <2>1 DEF MembersOf
  <2>3. ~ (j > made)
    BY <1>1, <2>2
  <2>4. j \in 1..made
    BY <1>1, <2>3 DEF JamIds
  <2> QED
    BY <2>1, <2>4
<1> QED
  BY <1>1, <1>2 DEF Rows, TypeOK

LEMMA TablesMove ==
  ASSUME Tables, TracksMove, RoomsMove, Rows',
         made' \in 0..MaxJams, added' \in 0..MaxTracks
  PROVE  Tables'
<1>1. /\ TypeOK /\ Authored /\ made \in Nat /\ added \in Nat
      /\ MaxJams \in Nat /\ MaxTracks \in Nat
      /\ jams \in [JamIds -> JamRows] /\ tracks \in [TrackIds -> TrackRows]
  BY ConstantsAre, TypesAre DEF Tables
<1>2. /\ made' \in {made, made + 1}
      /\ jams' = [j \in JamIds |-> jams'[j]]
      /\ \A j \in JamIds : RoomMoves(j)
  BY DEF RoomsMove
<1>3. ASSUME NEW j \in JamIds
      PROVE  /\ jams'[j] \in JamRows
             /\ j > made' => jams'[j] = NoJam
             /\ jams'[j].host = Nobody => jams'[j] = NoJam
  <2>1. /\ j \in Nat
        /\ j > made => jams[j] = NoJam
        /\ jams[j].host = Nobody => jams[j] = NoJam
        /\ jams[j] \in JamRows
    BY <1>1, TypesAre DEF JamIds
  <2>2. RoomMoves(j)
    BY <1>2
  <2>3. NoJam \in JamRows /\ Nobody \notin Users
    BY NothingIs, ConstantsAre
  <2>7. made' \in Nat /\ made <= made'
    BY <1>1, <1>2
  <2>4. CASE jams'[j] = jams[j] \/ jams'[j] = NoJam
    BY <1>1, <2>1, <2>3, <2>4, <2>7
  <2>5. CASE jams[j] # NoJam /\ jams'[j] \in JamRows /\ jams'[j].host = jams[j].host
    BY <1>1, <2>1, <2>5, <2>7
  <2>6. CASE /\ j = made + 1 /\ made' = made + 1 /\ jams'[j] \in JamRows
             /\ jams'[j].host \in Users
    BY <1>1, <2>3, <2>6
  <2> QED
    BY <2>2, <2>4, <2>5, <2>6 DEF RoomMoves
<1>4. /\ added' \in {added, added + 1}
      /\ tracks' = [t \in TrackIds |-> tracks'[t]]
      /\ \A t \in TrackIds : Moves(t)
  BY DEF TracksMove
<1>5. ASSUME NEW t \in TrackIds
      PROVE  /\ tracks'[t] \in TrackRows
             /\ t > added' \/ tracks'[t].state = "none" => tracks'[t] = NoTrack
             /\ tracks'[t] # NoTrack => tracks'[t].jam \in JamIds /\ tracks'[t].by \in Users
  <2>1. /\ t \in Nat
        /\ t > added \/ tracks[t].state = "none" => tracks[t] = NoTrack
        /\ tracks[t] \in TrackRows
        /\ tracks[t] # NoTrack => tracks[t].jam \in JamIds /\ tracks[t].by \in Users
    BY <1>1, TypesAre DEF TrackIds, Authored
  <2>2. Moves(t)
    BY <1>4
  <2>3. NoTrack \in TrackRows
    BY NothingIs
  <2> QED
    BY <1>1, <1>4, <2>1, <2>2, <2>3 DEF Moves
<1>6. jams' \in [JamIds -> JamRows] /\ tracks' \in [TrackIds -> TrackRows]
  BY <1>2, <1>3, <1>4, <1>5
<1>7. /\ members' \subseteq JamIds \X Users
      /\ \A j \in JamIds : j > made' => MembersOf(j)' = {}
  <2>1. members' \subseteq (1..made') \X Users
    BY DEF Rows
  <2>2. 1..made' \subseteq JamIds
    BY <1>1 DEF JamIds
  <2>3. ASSUME NEW j \in JamIds, j > made', NEW u \in Users, <<j, u>> \in members'
        PROVE  FALSE
    <3>1. j \in 1..made'
      BY <2>1, <2>3
    <3> QED
      BY <1>1, <2>3, <3>1
  <2>4. \A j \in JamIds : j > made' => MembersOf(j)' = {}
    BY <2>3 DEF MembersOf
  <2> QED
    BY <2>1, <2>2, <2>4
<1>8. /\ recaps' \subseteq Recaps
      /\ recaps' \subseteq
           [of : Users, people : SUBSET Users, queued : [Users -> 0..MaxTracks],
            top : Users \cup {Nobody}, ending : BOOLEAN]
      /\ votes' \subseteq JamIds \X TrackIds \X Users
      /\ skips' \subseteq JamIds \X TrackIds \X Users
  BY DEF Rows, Recaps
<1>9. TypeOK'
  BY <1>3, <1>5, <1>6, <1>7, <1>8 DEF TypeOK
<1>10. Authored'
  BY <1>5 DEF Authored
<1> QED
  BY <1>8, <1>9, <1>10 DEF Tables

(* Rows only go. *)
LEMMA RowsGo ==
  ASSUME Rows, made \in Nat, made' \in {made, made + 1},
         members' \subseteq members, votes' \subseteq votes, skips' \subseteq skips,
         recaps' \subseteq Recaps
  PROVE  Rows'
<1>1. 1..made \subseteq 1..made'
  OBVIOUS
<1> QED
  BY <1>1 DEF Rows

LEMMA HandlersKeepRows ==
  ASSUME Sound, NEW c \in Clients, GoOn(c), made' \in {made, made + 1}
  PROVE  Rows'
<1>1. /\ Rows /\ made \in Nat /\ Fits(call[c]) /\ Me(c) \in Users
  BY RowsAre, ConstantsAre DEF Sound, Me
<1>2. PICK q \in Calls : q = call[c]
  BY DEF Sound
<1>3. Fits(q) /\ recaps \subseteq Recaps
  BY <1>1, <1>2 DEF Rows
<1>4. CASE UNCHANGED <<members, votes, skips, recaps>>
  BY <1>1, <1>3, <1>4, RowsGo
<1>5. ASSUME NEW mode \in Modes, InsertJam(c, mode) PROVE Rows'
  <2>1. /\ made' = made + 1 /\ UNCHANGED <<votes, skips, recaps>>
        /\ members' = members \cup {<<made + 1, Me(c)>>}
    BY <1>5 DEF InsertJam, queue
  <2>2. 1..made \subseteq 1..made' /\ made + 1 \in 1..made'
    BY <1>1, <2>1
  <2> QED
    BY <1>1, <2>1, <2>2 DEF Rows
<1>6. ASSUME NEW u \in Users, RememberOne(c, u) PROVE Rows'
  BY <1>4, <1>6 DEF RememberOne, room, queue
<1>7. ASSUME NEW alive \in BOOLEAN, InsertTrack(c, alive) PROVE Rows'
  BY <1>4, <1>7 DEF InsertTrack, room
<1>8. CASE InsertMember(c)
  <2>1. /\ made' = made /\ UNCHANGED <<votes, skips, recaps>>
        /\ members' = members \cup {<<q.to, Me(c)>>}
    BY <1>2, <1>8 DEF InsertMember, queue
  <2>2. q.to \in 1..made
    BY <1>2, <1>3, <1>8 DEF InsertMember, At, Fits
  <2> QED
    BY <1>1, <2>1, <2>2 DEF Rows
<1>9. CASE Remember(c) \/ Left(c) \/ RetireSkipped(c) \/ ClearSkipped(c)
  BY <1>4, <1>9 DEF Remember, Left, RetireSkipped, ClearSkipped, room, queue
<1>10. CASE Keep(c)
  <2>1. /\ UNCHANGED <<members, votes, skips>> /\ recaps' = recaps \cup q.recap
    BY <1>2, <1>10 DEF Keep, room, queue
  <2>2. q.recap \subseteq Recaps
    BY DEF Calls
  <2> QED
    BY <1>1, <1>3, <2>1, <2>2, RowsGo
<1>11. CASE Part(c)
  BY <1>1, <1>3, <1>11, RowsGo DEF Part, queue
<1>12. CASE Delete(c)
  BY <1>1, <1>3, <1>12, RowsGo DEF Delete, DeleteJam
<1>13. CASE Approve(c)
  <2>1. /\ UNCHANGED <<made, members, skips, recaps>>
        /\ votes' = votes \cup {<<q.jam, q.track, Me(c)>>}
    BY <1>2, <1>13 DEF Approve, room
  <2>2. q.jam \in JamIds /\ q.track \in TrackIds
    BY <1>2, <1>3, <1>13 DEF Approve, At, Fits, OnTrack
  <2> QED
    BY <1>1, <2>1, <2>2 DEF Rows
<1>14. CASE Remove(c)
  BY <1>1, <1>3, <1>14, RowsGo DEF Remove, room
<1>15. CASE VoteSkip(c)
  <2>1. /\ UNCHANGED <<made, members, votes, recaps>>
        /\ skips' = skips \cup {<<q.jam, q.track, Me(c)>>}
    BY <1>2, <1>15 DEF VoteSkip, room
  <2>2. q.jam \in JamIds /\ q.track \in TrackIds
    BY <1>2, <1>3, <1>15 DEF VoteSkip, At, Fits, OnTrack
  <2> QED
    BY <1>1, <2>1, <2>2 DEF Rows
<1> QED
  BY <1>5, <1>6, <1>7, <1>8, <1>9, <1>10, <1>11, <1>12, <1>13, <1>14, <1>15 DEF GoOn

LEMMA ClockKeepsRows ==
  ASSUME Sound, ActOnIt, made' \in {made, made + 1}
  PROVE  Rows' /\ UNCHANGED <<made, added>>
<1>1. Rows /\ made \in Nat /\ recaps \subseteq Recaps
  BY RowsAre DEF Sound, Rows
<1>2. CASE Sweep
  BY <1>1, <1>2, RowsGo DEF Sweep, DeleteJam
<1>3. CASE MarkPlayed \/ PickNext \/ StartNext \/ AnnounceNext \/ StopPlaying
  BY <1>1, <1>3, RowsGo
  DEF MarkPlayed, PickNext, StartNext, AnnounceNext, StopPlaying, room, queue
<1> QED
  BY <1>2, <1>3 DEF ActOnIt

LEMMA ErasureKeepsRows ==
  ASSUME Sound, NEW u \in Users, EraseAccount(u)
  PROVE  Rows' /\ UNCHANGED <<made, added>>
<1>1. Rows /\ made \in Nat /\ recaps \subseteq Recaps
  BY RowsAre DEF Sound, Rows
<1>2. /\ recaps' = {Forgotten(r, u) : r \in {q \in recaps : q.of # u}}
      /\ members' \subseteq members /\ votes' \subseteq votes /\ skips' \subseteq skips
      /\ UNCHANGED <<made, added>>
  BY DEF EraseAccount, EraseJams
<1>3. \A r \in recaps : Forgotten(r, u) \in Recaps
  BY <1>1, ForgottenIs
<1>4. recaps' \subseteq Recaps
  BY <1>2, <1>3
<1> QED
  BY <1>1, <1>2, <1>4, RowsGo

LEMMA StaysSound ==
  ASSUME Sound, [Next]_vars
  PROVE  Sound'
<1>1. /\ TracksMove /\ RoomsMove /\ made' \in {made, made + 1} /\ added' \in {added, added + 1}
  BY StepsMove DEF RoomsMove, TracksMove
<1>2. /\ Tables /\ TypeOK /\ Rows /\ made \in 0..MaxJams /\ added \in 0..MaxTracks
      /\ recaps \subseteq Recaps /\ ClockFits
  BY RowsAre DEF Sound, Tables
<1>3. ASSUME Rows', UNCHANGED <<made, added, call>>, ClockFits' PROVE Sound'
  BY <1>1, <1>2, <1>3, TablesMove, SoundAround
<1>4. ASSUME UNCHANGED <<tables, call>>, ClockFits' PROVE Sound'
  <2>1. UNCHANGED <<jams, made, members, tracks, added, votes, skips, recaps>>
    BY <1>4 DEF tables
  <2>2. Tables'
    BY <1>2, <2>1, TablesStay
  <2> QED
    BY <1>4, <2>1, <2>2, SoundAround
<1>5. ASSUME NEW c \in Clients, Ask(c) PROVE Sound'
  <2>1. CASE Begun(c)
    <3>1. PICK h : Begins(c, h) /\ call' = [call EXCEPT ![c] = h]
      BY <2>1 DEF Begun
    <3>2. UNCHANGED <<jams, made, members, tracks, added, votes, skips, recaps, clock>>
      BY <2>1 DEF Begun, tables
    <3> QED
      BY <3>1, <3>2, SoundAlone DEF Begins
  <2>2. CASE Switched(c)
    <3>1. UNCHANGED <<call, made, members, added, votes, skips, recaps, clock>>
      BY <2>2 DEF Switched
    <3>2. Rows' /\ ClockFits'
      BY <1>2, <3>1 DEF Rows, ClockFits
    <3> QED
      BY <1>3, <3>1, <3>2
  <2> QED
    BY <1>5, <2>1, <2>2, AskedIs
<1>6. ASSUME NEW c \in Clients, GoOn(c) PROVE Sound'
  <2>1. UNCHANGED <<clock, gone>>
    BY <1>6, HandlersGoOn
  <2>2. PICK h : call' = [call EXCEPT ![c] = h] /\ Fits(h) /\ Counts(c, h)
    BY <1>6, HandlersGoOn
  <2>3. /\ call' \in [Clients -> Calls] /\ \A e \in Clients : Fits(call[e])'
        /\ InBounds'
        /\ made' \in 0..MaxJams /\ added' \in 0..MaxTracks
    <3>1. h.op # "create" \/ call[c].op = "create"
      BY <2>2 DEF Counts
    <3>2. h.op \notin {"propose", "queue"} \/ call[c].op \in {"propose", "queue"}
      BY <2>2 DEF Counts
    <3> QED
      BY <2>2, <3>1, <3>2, CallsAfter DEF Counts
  <2>4. Rows'
    BY <1>1, <1>6, HandlersKeepRows
  <2>5. Tables'
    BY <1>1, <1>2, <2>3, <2>4, TablesMove
  <2>6. ClockFits'
    BY <1>2, <2>1 DEF ClockFits
  <2> QED
    BY <2>3, <2>5, <2>6 DEF Sound
<1>7. CASE ActOnIt
  BY <1>1, <1>3, <1>7, ClockMovesOn, ClockKeepsRows
<1>8. ASSUME NEW j \in JamIds, Look(j) PROVE Sound'
  BY <1>4, <1>8, ClockLooks
<1>9. ASSUME NEW u \in Users, EraseAccount(u) PROVE Sound'
  <2>1. UNCHANGED <<call, clock>>
    BY <1>9 DEF EraseAccount, handlers
  <2>2. ClockFits'
    BY <1>2, <2>1 DEF ClockFits
  <2> QED
    BY <1>3, <1>9, <2>1, <2>2, ErasureKeepsRows
<1>10. ASSUME NEW r \in recaps, Dismiss(r) PROVE Sound'
  <2>1. /\ UNCHANGED <<call, clock, made, added, members, votes, skips>>
        /\ recaps' \subseteq recaps
    BY <1>10 DEF Dismiss, handlers, room, queue
  <2>2. ClockFits' /\ Rows'
    BY <1>2, <2>1, RowsGo DEF ClockFits
  <2> QED
    BY <1>3, <2>1, <2>2
<1>11. CASE UNCHANGED vars
  <2>1. UNCHANGED <<tables, call, clock>>
    BY <1>11 DEF vars, tables
  <2>2. ClockFits'
    BY <1>2, <2>1 DEF ClockFits
  <2> QED
    BY <1>4, <2>1, <2>2
<1> QED
  BY <1>5, <1>6, <1>7, <1>8, <1>9, <1>10, <1>11 DEF Next

----------------------------------------------------------------------------
(* What a room hears stays accepted. *)

LEMMA AcceptedStays ==
  ASSUME Sound, TracksMove, NEW j, NEW t, Accepted(j, t)
  PROVE  Accepted(j, t)'
<1>1. /\ added \in Nat /\ added <= MaxTracks /\ MaxTracks \in Nat
      /\ added' \in {added, added + 1}
  BY TypesAre, ConstantsAre DEF Sound, Tables, TracksMove
<1>2. /\ t \in 1..added /\ t \in TrackIds /\ t # added + 1 /\ t \in 1..added'
  <2>1. t \in 1..added
    BY DEF Accepted
  <2> QED
    BY <1>1, <2>1 DEF TrackIds
<1>3. Moves(t)
  BY <1>2 DEF TracksMove
<1> QED
  BY <1>2, <1>3 DEF Moves, Accepted

(* The first of those that wait is queued in the room. *)
LEMMA PicksAccepted ==
  ASSUME Sound, PickNext, clock'.at = "start"
  PROVE  Accepted(clock'.jam, clock'.track)
<1>1. /\ TypeOK /\ ClockFits /\ clock.at = "next"
  BY DEF Sound, Tables, PickNext
<1>2. PICK next : next = Earliest(Waiting(clock.jam))
  OBVIOUS
<1>3. clock'.at = "start" => next # None
  <2>1. [clock EXCEPT !.at = "stop"].at = "stop" /\ Asleep.at = "idle"
    BY <1>1 DEF ClockFits, Asleep
  <2> QED
    BY <1>2, <2>1 DEF PickNext
<1>4. clock' = [clock EXCEPT !.at = "start", !.track = next]
  BY <1>2, <1>3 DEF PickNext
<1>5. clock'.jam = clock.jam /\ clock'.track = next
  BY <1>1, <1>4 DEF ClockFits
<1>6. next \in Waiting(clock.jam)
  <2>1. Waiting(clock.jam) \subseteq TrackIds
    BY DEF Waiting, TracksOf
  <2> QED
    BY <1>2, <1>3, <2>1, EarliestIs
<1>7. /\ next \in TrackIds /\ tracks[next].jam = clock.jam
      /\ tracks[next].state = "queued"
  BY <1>6 DEF Waiting, TracksOf
<1>8. next \in 1..added
  <2>1. tracks[next] # NoTrack
    BY <1>7, NothingIs
  <2>2. added \in Nat /\ ~ (next > added) /\ next \in Nat /\ next >= 1
    BY <1>1, <1>7, <2>1, TypesAre DEF TrackIds
  <2> QED
    BY <2>2
<1> QED
  BY <1>5, <1>7, <1>8 DEF Accepted

LEMMA StaysAccepted ==
  ASSUME Sound, OnlyAccepted, [Next]_vars
  PROVE  OnlyAccepted'
<1>1. /\ TracksMove /\ RoomsMove /\ TypeOK
  BY StepsMove DEF Sound, Tables
<1>2. ASSUME NEW j \in Live', jams'[j].playing # None
      PROVE  Accepted(j, jams[j].playing)'
  <2>1. PICK t : t = jams'[j].playing
    OBVIOUS
  <2>2. j \in JamIds /\ jams'[j] # NoJam
    BY <1>2 DEF Live
  <2>3. RoomMoves(j)
    BY <1>1, <2>2 DEF RoomsMove
  <2>4. CASE jams[j] # NoJam /\ t = jams[j].playing
    <3>1. j \in Live
      BY <2>2, <2>4 DEF Live
    <3>2. Accepted(j, t)
      BY <1>2, <2>1, <2>4, <3>1 DEF OnlyAccepted
    <3>3. Accepted(j, t)'
      BY <1>1, <3>2, AcceptedStays
    <3> QED
      BY <2>1, <3>3 DEF Accepted
  <2>5. CASE clock.at = "start" /\ j = clock.jam /\ t = clock.track
    <3>1. Accepted(j, t)
      BY <2>5 DEF OnlyAccepted
    <3>2. Accepted(j, t)'
      BY <1>1, <3>1, AcceptedStays
    <3> QED
      BY <2>1, <3>2 DEF Accepted
  <2> QED
    BY <1>2, <2>1, <2>2, <2>3, <2>4, <2>5 DEF RoomMoves
<1>3. ASSUME clock'.at = "start" PROVE Accepted(clock.jam, clock.track)'
  <2>1. PICK j : j = clock'.jam
    OBVIOUS
  <2>2. PICK t : t = clock'.track
    OBVIOUS
  <2>3. Accepted(j, t)
    <3>1. CASE clock' = clock
      BY <1>3, <2>1, <2>2, <3>1 DEF OnlyAccepted
    <3>2. CASE PickNext
      BY <1>3, <2>1, <2>2, <3>2, PicksAccepted
    <3>3. ASSUME NEW k \in JamIds, Look(k) PROVE FALSE
      BY <1>3, <3>3, ClockLooks
    <3>4. CASE Sweep \/ MarkPlayed \/ StartNext \/ AnnounceNext \/ StopPlaying
      <4>1. ClockFits
        BY DEF Sound
      <4>2. clock'.at # "start"
        BY <3>4, <4>1
        DEF Sweep, MarkPlayed, StartNext, AnnounceNext, StopPlaying, Done, Asleep,
            ClockFits
      <4> QED
        BY <1>3, <4>2
    <3>5. ASSUME NEW c \in Clients, Ask(c) \/ GoOn(c) PROVE clock' = clock
      BY <3>5, AskedIs, HandlersGoOn DEF Begun, Switched
    <3>6. ASSUME NEW u \in Users, EraseAccount(u) PROVE clock' = clock
      BY <3>6 DEF EraseAccount
    <3>7. ASSUME NEW r \in recaps, Dismiss(r) PROVE clock' = clock
      BY <3>7 DEF Dismiss
    <3>8. CASE UNCHANGED vars
      BY <3>1, <3>8 DEF vars
    <3> QED
      BY <3>1, <3>2, <3>3, <3>4, <3>5, <3>6, <3>7, <3>8 DEF Next, ActOnIt
  <2>4. Accepted(j, t)'
    BY <1>1, <2>3, AcceptedStays
  <2> QED
    BY <2>1, <2>2, <2>4 DEF Accepted
<1> QED
  BY <1>2, <1>3 DEF OnlyAccepted, Accepted

----------------------------------------------------------------------------
(* Who acts from one device stays in one room. *)

Inserts(c) == InsertMember(c) \/ \E mode \in Modes : InsertJam(c, mode)

(* A step is of one client, or of none. *)
LEMMA StepsAre ==
  ASSUME Sound, [Next]_vars
  PROVE  \/ call' = call /\ members' \subseteq members
         \/ \E c \in Clients : Begun(c)
         \/ \E c \in Clients : GoOn(c)
<1>1. ASSUME NEW c \in Clients, Ask(c)
      PROVE  Begun(c) \/ (call' = call /\ members' \subseteq members)
  BY <1>1, AskedIs DEF Switched
<1>2. CASE ActOnIt
  <2>1. call' = call
    BY <1>2, ClockMovesOn
  <2>2. members' \subseteq members
    BY <1>2
    DEF ActOnIt, Sweep, DeleteJam, MarkPlayed, PickNext, StartNext, AnnounceNext,
        StopPlaying, room
  <2> QED
    BY <2>1, <2>2
<1>3. ASSUME NEW j \in JamIds, Look(j) PROVE call' = call /\ members' = members
  BY <1>3, ClockLooks DEF tables
<1>4. ASSUME NEW u \in Users, EraseAccount(u)
      PROVE  call' = call /\ members' \subseteq members
  BY <1>4 DEF EraseAccount, EraseJams, handlers
<1>5. ASSUME NEW r \in recaps, Dismiss(r) PROVE call' = call /\ members' = members
  BY <1>5 DEF Dismiss, handlers, room
<1>6. CASE UNCHANGED vars
  BY <1>6 DEF vars
<1> QED
  BY <1>1, <1>2, <1>3, <1>4, <1>5, <1>6 DEF Next

LEMMA MembersGo ==
  ASSUME NEW c \in Clients, GoOn(c)
  PROVE  members' \subseteq members \/ Inserts(c)
BY DEF GoOn, Inserts, RememberOne, InsertTrack, Remember, Keep, Part, Left, Delete,
       DeleteJam, Approve, Remove, VoteSkip, RetireSkipped, ClearSkipped, room

LEMMA InsertsFor ==
  ASSUME Sound, NEW c \in Clients, Inserts(c)
  PROVE  /\ call' = [call EXCEPT ![c] = NoCall]
         /\ \/ /\ call[c].at = "create"
               /\ members' = members \cup {<<made + 1, Me(c)>>}
            \/ /\ call[c].at = "join"
               /\ members' = members \cup {<<call[c].to, Me(c)>>}
BY DEF Inserts, InsertMember, InsertJam, Return, Turn, At

LEMMA RoomsGo ==
  ASSUME Sound, RoomsMove, NEW u \in Users,
         \A j \in JamIds : <<j, u>> \in members' => <<j, u>> \in members
  PROVE  RoomsOf(u)' \subseteq RoomsOf(u)
<1> SUFFICES ASSUME NEW j \in RoomsOf(u)' PROVE j \in RoomsOf(u)
  OBVIOUS
<1>1. j \in JamIds /\ jams'[j] # NoJam /\ <<j, u>> \in members' /\ <<j, u>> \in members
  BY DEF RoomsOf, Live
<1>2. j \in 1..made /\ made \in Nat
  BY <1>1, RowsAre DEF Sound, Rows
<1>3. j # made + 1
  BY <1>2
<1>4. RoomMoves(j)
  BY <1>1 DEF RoomsMove
<1>5. jams[j] # NoJam
  BY <1>1, <1>3, <1>4 DEF RoomMoves
<1> QED
  BY <1>1, <1>5 DEF RoomsOf, Live

(* Somebody else's step, or none of a handler. *)
LEMMA OthersLeaveAlone ==
  ASSUME Sound, RoomsMove, NEW u \in Users, NEW c \in Clients, Connections(u) = {c},
         RoomsOf(u) \subseteq Moved(call[c]), call'[c] = call[c],
         RoomsOf(u)' \subseteq RoomsOf(u)
  PROVE  RoomsOf(u)' \subseteq Moved(call[c])'
<1>1. RoomsOf(u)' \subseteq Live'
  BY DEF RoomsOf
<1>2. PICK q : q = call[c]
  OBVIOUS
<1>3. RoomsOf(u)' \subseteq Moved(q)
  BY <1>2
<1>4. RoomsOf(u)' \subseteq Moved(q)'
  <2>1. CASE q.at = "create" \/ q.at = "join"
              \/ (q.at \in {"remember", "keep", "part"} /\ q.op # "leave")
    BY <1>3, <2>1 DEF Moved
  <2>2. CASE ~(q.at = "create" \/ q.at = "join"
               \/ (q.at \in {"remember", "keep", "part"} /\ q.op # "leave"))
    BY <1>1, <2>2 DEF Moved
  <2> QED
    BY <2>1, <2>2
<1> QED
  BY <1>2, <1>4 DEF Moved

(* What a handler that has begun takes the account's room to be. *)
LEMMA BegunInOneRoom ==
  ASSUME Sound, NEW c \in Clients, NEW h, Begins(c, h),
         \A j, k \in RoomsOf(Me(c)) : j = k
  PROVE  RoomsOf(Me(c)) \subseteq Moved(h)
<1>1. TypeOK /\ Me(c) \in Users
  BY ConstantsAre DEF Sound, Tables, Me
<1>2. PICK j : j = CurrentJam(c)
  OBVIOUS
<1>3. /\ RoomsOf(Me(c)) # {} => j \in RoomsOf(Me(c))
      /\ RoomsOf(Me(c)) \subseteq Live /\ None \notin Live
  BY <1>1, <1>2, RoomIs, LiveAre DEF CurrentJam
<1>4. CASE h.at = "create" /\ j = None
  <2>1. RoomsOf(Me(c)) = {}
    BY <1>3, <1>4
  <2> QED
    BY <2>1
<1>5. CASE h.at = "join" /\ j \in {None, h.to}
  <2>1. RoomsOf(Me(c)) \subseteq {h.to}
    BY <1>3, <1>5
  <2>2. Moved(h) = {h.to}
    BY <1>5 DEF Moved
  <2> QED
    BY <2>1, <2>2
<1>6. CASE h.at = "remember" /\ h.op \in {"create", "join"} /\ h.jam \in RoomsOf(Me(c))
  <2>1. RoomsOf(Me(c)) \subseteq {h.jam}
    BY <1>6
  <2>2. Moved(h) = {h.jam}
    BY <1>6 DEF Moved
  <2> QED
    BY <2>1, <2>2
<1>7. CASE \/ h.at = "remember" /\ h.op = "leave"
           \/ h.at \in {"rememberAll", "add"} \cup OnTrack
  <2>1. Moved(h) = Live
    BY <1>7 DEF Moved, OnTrack
  <2> QED
    BY <1>3, <2>1
<1> QED
  BY <1>2, <1>4, <1>5, <1>6, <1>7 DEF Begins

(* What a handler that goes on takes it to be: out of the room it left, in *)
(* the one it went to.                                                     *)
LEMMA OnwardInOneRoom ==
  ASSUME Sound, RoomsMove, NEW c \in Clients, NEW u \in Users, NEW h \in Calls,
         GoOn(c), call' = [call EXCEPT ![c] = h], Onward(c, h), Fits(h), u = Me(c),
         \A j, k \in RoomsOf(u) : j = k,
         RoomsOf(u) \subseteq Moved(call[c])
  PROVE  /\ \A j, k \in RoomsOf(u)' : j = k
         /\ RoomsOf(u)' \subseteq Moved(h)'
<1>1. TypeOK /\ u \in Users /\ RoomsOf(u)' \subseteq Live'
  BY ConstantsAre DEF Sound, Tables, Me, RoomsOf
<1>2. PICK q \in Calls : q = call[c]
  BY DEF Sound
<1>3. Fits(q) /\ RoomsOf(u) \subseteq Moved(q)
  BY <1>2 DEF Sound
<1>4. ASSUME NEW j, RoomsOf(u)' \subseteq {j}, h = NoCall
      PROVE  /\ \A i, k \in RoomsOf(u)' : i = k
             /\ RoomsOf(u)' \subseteq Moved(h)'
  <2>1. Moved(h)' = Live'
    BY <1>4, NoCallFits DEF Moved
  <2> QED
    BY <1>1, <1>4, <2>1
<1>5. CASE Inserts(c)
  <2>1. h = NoCall
    BY <1>5, InsertsFor DEF Sound
  <2>2. CASE q.at = "create" /\ members' = members \cup {<<made + 1, u>>}
    <3>1. RoomsOf(u) = {}
      BY <1>3, <2>2 DEF Moved
    <3>2. \A j \in JamIds \ {made + 1} : <<j, u>> \in members' => <<j, u>> \in members
      BY <2>2
    <3>3. ASSUME NEW j \in RoomsOf(u)', j # made + 1 PROVE FALSE
      <4>1. j \in JamIds /\ jams'[j] # NoJam /\ <<j, u>> \in members
        BY <3>2, <3>3 DEF RoomsOf, Live
      <4>2. RoomMoves(j)
        BY <4>1 DEF RoomsMove
      <4>3. j \in RoomsOf(u)
        BY <3>3, <4>1, <4>2 DEF RoomMoves, RoomsOf, Live
      <4> QED
        BY <3>1, <4>3
    <3> QED
      BY <1>4, <2>1, <3>3
  <2>3. CASE q.at = "join" /\ members' = members \cup {<<q.to, u>>}
    <3>1. RoomsOf(u) \subseteq {q.to} /\ q.to \in 1..made /\ made \in Nat
      BY <1>1, <1>3, <2>3, TypesAre DEF Moved, Fits
    <3>2. ASSUME NEW j \in RoomsOf(u)', j # q.to PROVE FALSE
      <4>1. j \in JamIds /\ jams'[j] # NoJam /\ <<j, u>> \in members
        BY <2>3, <3>2 DEF RoomsOf, Live
      <4>2. RoomMoves(j) /\ j \in 1..made
        BY <4>1, RowsAre DEF RoomsMove, Sound, Rows
      <4>3. j # made + 1
        BY <3>1, <4>2
      <4>4. j \in RoomsOf(u)
        BY <4>1, <4>2, <4>3 DEF RoomMoves, RoomsOf, Live
      <4> QED
        BY <3>1, <3>2, <4>4
    <3> QED
      BY <1>4, <2>1, <3>2
  <2> QED
    BY <1>2, <1>5, <2>2, <2>3, InsertsFor
<1>6. CASE members' \subseteq members
  <2>1. RoomsOf(u)' \subseteq RoomsOf(u)
    BY <1>1, <1>6, RoomsGo
  <2>2. \A j, k \in RoomsOf(u)' : j = k
    BY <2>1
  <2>3. CASE h = NoCall \/ h.at \in {"rememberAll", "delete", "left", "retire", "clear"}
    <3>1. Moved(h)' = Live'
      BY <2>3, NoCallFits DEF Moved
    <3> QED
      BY <1>1, <2>2, <3>1
  <2>4. CASE h.op = "leave" /\ h.at \in {"keep", "part"}
    <3>1. Moved(h)' = Live'
      BY <2>4 DEF Moved
    <3> QED
      BY <1>1, <2>2, <3>1
  <2>5. CASE /\ q.at \in {"remember", "keep"} /\ h.at \in {"keep", "part"}
             /\ h.op # "leave" /\ q.op = h.op /\ q.jam = h.jam
    <3>1. Moved(h)' = {q.jam} /\ Moved(q) = {q.jam}
      BY <2>5 DEF Moved
    <3> QED
      BY <1>3, <2>1, <2>2, <3>1
  <2>6. CASE q.at = "part" /\ q.op # "leave" /\ h.at = q.op
    <3>1. RoomsOf(u) \subseteq {q.jam}
      BY <1>3, <2>6 DEF Moved
    <3>2. members' = members \ {<<q.jam, u>>}
      <4>1. Part(c)
        BY <1>2, <2>6
        DEF GoOn, InsertJam, RememberOne, InsertTrack, InsertMember, Remember, Keep,
            Left, Delete, Approve, Remove, VoteSkip, RetireSkipped, ClearSkipped, At
      <4> QED
        BY <1>2, <4>1 DEF Part
    <3>3. q.jam \notin RoomsOf(u)'
      BY <3>2 DEF RoomsOf
    <3>4. RoomsOf(u)' = {}
      BY <2>1, <3>1, <3>3
    <3> QED
      BY <3>4
  <2>7. q.at = "rememberAll" => q.op = "leave"
    BY <1>3 DEF Fits
  <2> QED
    BY <1>2, <2>3, <2>4, <2>5, <2>6, <2>7 DEF Onward
<1> QED
  BY <1>5, <1>6, MembersGo

LEMMA StaysInOneRoom ==
  ASSUME Sound, InOneRoom, Unconnected, [Next]_vars
  PROVE  InOneRoom' /\ Unconnected'
<1>1. RoomsMove /\ call \in [Clients -> Calls]
  BY StepsMove DEF Sound
<1>2. ASSUME NEW u \in Users, NEW c \in Clients, Connections(u) = {c}
      PROVE  /\ \A j, k \in RoomsOf(u)' : j = k
             /\ RoomsOf(u)' \subseteq Moved(call[c])'
  <2>1. /\ \A j, k \in RoomsOf(u) : j = k
        /\ RoomsOf(u) \subseteq Moved(call[c])
        /\ u = Me(c)
    BY <1>2 DEF InOneRoom, Connections, Me
  <2>2. ASSUME call'[c] = call[c],
               \A j \in JamIds : <<j, u>> \in members' => <<j, u>> \in members
        PROVE  /\ \A j, k \in RoomsOf(u)' : j = k
               /\ RoomsOf(u)' \subseteq Moved(call[c])'
    <3>1. RoomsOf(u)' \subseteq RoomsOf(u)
      BY <1>1, <2>2, RoomsGo
    <3> QED
      BY <1>1, <1>2, <2>1, <2>2, <3>1, OthersLeaveAlone
  <2>3. ASSUME NEW e \in Clients, e # c, GoOn(e) \/ Begun(e)
        PROVE  /\ call'[c] = call[c]
               /\ \A j \in JamIds : <<j, u>> \in members' => <<j, u>> \in members
    <3>1. Me(e) # u
      BY <1>2, <2>3 DEF Connections, Me
    <3>2. call'[c] = call[c]
      <4>1. PICK h : call' = [call EXCEPT ![e] = h]
        BY <2>3, HandlersGoOn DEF Begun
      <4> QED
        BY <1>1, <2>3, <4>1
    <3>3. CASE Begun(e)
      BY <3>2, <3>3 DEF Begun, tables
    <3>4. CASE GoOn(e)
      BY <3>1, <3>2, <3>4, MembersGo, InsertsFor
    <3> QED
      BY <2>3, <3>3, <3>4
  <2>4. CASE Begun(c)
    <3>1. PICK h : Begins(c, h) /\ call' = [call EXCEPT ![c] = h]
      BY <2>4 DEF Begun
    <3>2. RoomsOf(u)' = RoomsOf(u) /\ Live' = Live
      BY <2>4 DEF Begun, tables, RoomsOf, Live
    <3>3. RoomsOf(u) \subseteq Moved(h)
      BY <2>1, <3>1, BegunInOneRoom
    <3>4. call'[c] = h
      BY <1>1, <3>1
    <3>5. Moved(h)' = Moved(h)
      BY <3>2 DEF Moved
    <3>6. Moved(call[c])' = Moved(h)'
      BY <3>4 DEF Moved
    <3> QED
      BY <2>1, <3>2, <3>3, <3>5, <3>6
  <2>5. CASE GoOn(c)
    <3>1. PICK h \in Calls : call' = [call EXCEPT ![c] = h] /\ Fits(h) /\ Onward(c, h)
      BY <2>5, HandlersGoOn DEF Fits
    <3>2. call'[c] = h
      BY <1>1, <3>1
    <3>3. /\ \A j, k \in RoomsOf(u)' : j = k
          /\ RoomsOf(u)' \subseteq Moved(h)'
      BY <1>1, <2>1, <2>5, <3>1, OnwardInOneRoom
    <3>4. Moved(call[c])' = Moved(h)'
      BY <3>2 DEF Moved
    <3> QED
      BY <3>3, <3>4
  <2> QED
    BY <2>2, <2>3, <2>4, <2>5, StepsAre
<1>3. InOneRoom'
  BY <1>2 DEF InOneRoom
<1>4. Unconnected'
  <2>1. ASSUME NEW u \in Users, Connections(u) = {}, NEW j \in JamIds, <<j, u>> \in members'
        PROVE  FALSE
    <3>1. <<j, u>> \notin members
      BY <2>1 DEF Unconnected
    <3>2. PICK c \in Clients : GoOn(c) /\ Inserts(c)
      BY <2>1, <3>1, StepsAre, MembersGo DEF Begun, tables
    <3>3. u = Me(c)
      BY <2>1, <3>1, <3>2, InsertsFor
    <3> QED
      BY <2>1, <3>3 DEF Connections, Me
  <2> QED
    BY <2>1 DEF Unconnected, Connections
<1> QED
  BY <1>3, <1>4

----------------------------------------------------------------------------
(* Who was deleted stays forgotten. *)

NoName(r, u) == u \notin {r.of, r.top} \cup r.people /\ r.queued[u] = 0
Struck(u) == \A r \in recaps : NoName(r, u)
Absent(u) ==
  /\ \A j \in JamIds : jams[j].host # u /\ <<j, u>> \notin members
  /\ \A t \in TrackIds : tracks[t].by # u
  /\ VotedBy(u) = {}

LEMMA ForgetsIs ==
  Forgets <=> /\ erased \subseteq Users
              /\ \A u \in erased \ late : Absent(u) /\ Struck(u) /\ Nameless(u)
BY DEF Forgets, ErasedAreForgotten, Absent, Struck, NoName

(* A step writes no name but that of the account it acts for. *)
WritesAs(S) ==
  /\ \A j \in JamIds : jams'[j].host \in {jams[j].host, Nobody} \cup S
  /\ \A j \in JamIds, u \in Users :
       <<j, u>> \in members' => <<j, u>> \in members \/ u \in S
  /\ \A t \in TrackIds : tracks'[t].by \in {tracks[t].by, Nobody} \cup S
  /\ \A u \in Users \ S : VotedBy(u)' \subseteq VotedBy(u)

LEMMA VotesGo ==
  ASSUME votes' \subseteq votes, skips' \subseteq skips
  PROVE  \A u : VotedBy(u)' \subseteq VotedBy(u)
BY DEF VotedBy

LEMMA RowsOfNoOne ==
  ASSUME TypeOK, NEW S,
         \A j \in JamIds : jams'[j] \in {jams[j], NoJam} \/ jams'[j].host = jams[j].host,
         members' \subseteq members,
         \A t \in TrackIds : tracks'[t] \in {tracks[t], NoTrack} \/ tracks'[t].by = tracks[t].by,
         votes' \subseteq votes, skips' \subseteq skips
  PROVE  WritesAs(S)
<1>1. \A u \in Users \ S : VotedBy(u)' \subseteq VotedBy(u)
  BY VotesGo
<1> QED
  BY <1>1, NothingIs DEF WritesAs

(* Tracks and rooms that move without a new one. *)
LEMMA NoneIsNew ==
  ASSUME Sound, RoomsMove, TracksMove, NEW S,
         made' = made, added' = added, members' \subseteq members,
         votes' \subseteq votes, skips' \subseteq skips
  PROVE  WritesAs(S)
<1>1. TypeOK /\ made \in Nat /\ added \in Nat
  BY TypesAre DEF Sound, Tables
<1>2. \A j \in JamIds : jams'[j] \in {jams[j], NoJam} \/ jams'[j].host = jams[j].host
  BY <1>1 DEF RoomsMove, RoomMoves
<1>3. \A t \in TrackIds : tracks'[t] \in {tracks[t], NoTrack} \/ tracks'[t].by = tracks[t].by
  BY <1>1 DEF TracksMove, Moves
<1> QED
  BY <1>1, <1>2, <1>3, RowsOfNoOne

LEMMA HandlersWriteAs ==
  ASSUME Sound, NEW c \in Clients, GoOn(c)
  PROVE  WritesAs({Me(c)}) /\ recaps' \subseteq recaps \cup call[c].recap
<1>1. /\ TypeOK /\ RoomsMove /\ TracksMove /\ made \in Nat /\ added \in Nat
      /\ Me(c) \in Users
  BY HandlersMoveRooms, HandlersMoveTracks, TypesAre, ConstantsAre DEF Sound, Tables, Me
<1>2. ASSUME made' = made, added' = added, members' \subseteq members,
             votes' \subseteq votes, skips' \subseteq skips
      PROVE  WritesAs({Me(c)})
  BY <1>1, <1>2, NoneIsNew
<1>3. ASSUME NEW mode \in Modes, InsertJam(c, mode)
      PROVE  WritesAs({Me(c)}) /\ recaps' = recaps
  <2>1. /\ UNCHANGED <<tracks, votes, skips, recaps>> /\ made' = made + 1
        /\ members' = members \cup {<<made + 1, Me(c)>>}
        /\ jams' = [jams EXCEPT ![made + 1] = [NoJam EXCEPT !.host = Me(c), !.mode = mode]]
    BY <1>3 DEF InsertJam, queue
  <2>2. PICK r : r = [NoJam EXCEPT !.host = Me(c), !.mode = mode]
    OBVIOUS
  <2>3. r.host = Me(c) /\ jams' = [jams EXCEPT ![made + 1] = r]
    BY <2>1, <2>2 DEF NoJam
  <2>4. \A j \in JamIds : jams'[j].host \in {jams[j].host, Me(c)}
    BY <1>1, <2>3, TypesAre
  <2>5. \A u \in Users : VotedBy(u)' \subseteq VotedBy(u)
    BY <2>1, VotesGo
  <2> QED
    BY <2>1, <2>4, <2>5 DEF WritesAs
<1>4. ASSUME NEW alive \in BOOLEAN, InsertTrack(c, alive)
      PROVE  WritesAs({Me(c)}) /\ recaps' = recaps
  <2>1. UNCHANGED <<jams, members, votes, skips, recaps>>
    BY <1>4 DEF InsertTrack, room
  <2>2. PICK asked : asked = (call[c].op = "propose")
    OBVIOUS
  <2>3. PICK r : r = [jam |-> call[c].jam, by |-> Me(c), live |-> alive, asked |-> asked,
                      state |-> IF asked THEN "proposed" ELSE "queued"]
    OBVIOUS
  <2>4. r.by = Me(c) /\ tracks' = [tracks EXCEPT ![added + 1] = r]
    BY <1>4, <2>2, <2>3 DEF InsertTrack
  <2>5. \A t \in TrackIds : tracks'[t].by \in {tracks[t].by, Me(c)}
    BY <1>1, <2>4, TypesAre
  <2>6. \A u \in Users : VotedBy(u)' \subseteq VotedBy(u)
    BY <2>1, VotesGo
  <2> QED
    BY <2>1, <2>5, <2>6 DEF WritesAs
<1>5. CASE InsertMember(c)
  <2>1. /\ UNCHANGED <<jams, tracks, votes, skips, recaps>>
        /\ members' = members \cup {<<call[c].to, Me(c)>>}
    BY <1>5 DEF InsertMember, queue
  <2>2. \A u \in Users : VotedBy(u)' \subseteq VotedBy(u)
    BY <2>1, VotesGo
  <2> QED
    BY <2>1, <2>2 DEF WritesAs
<1>6. ASSUME NEW u \in Users, RememberOne(c, u)
      PROVE  WritesAs({Me(c)}) /\ recaps' = recaps
  BY <1>2, <1>6 DEF RememberOne, room, queue
<1>7. CASE Remember(c) \/ Left(c) \/ RetireSkipped(c) \/ ClearSkipped(c)
  BY <1>2, <1>7 DEF Remember, Left, RetireSkipped, ClearSkipped, room, queue
<1>8. CASE Keep(c)
  BY <1>2, <1>8 DEF Keep, room, queue
<1>9. CASE Part(c)
  BY <1>2, <1>9 DEF Part, queue
<1>10. CASE Delete(c)
  BY <1>2, <1>10 DEF Delete, DeleteJam
<1>11. CASE Remove(c)
  <2>1. /\ UNCHANGED <<made, members, added, skips, recaps>>
        /\ votes' \subseteq votes
    BY <1>11 DEF Remove, room
  <2> QED
    BY <1>2, <2>1
<1>12. CASE Approve(c) \/ VoteSkip(c)
  <2>1. /\ UNCHANGED <<made, jams, members, added, recaps>>
        /\ \E t : /\ votes' \subseteq votes \cup {<<call[c].jam, t, Me(c)>>}
                  /\ skips' \subseteq skips \cup {<<call[c].jam, t, Me(c)>>}
    BY <1>12 DEF Approve, VoteSkip, room
  <2>2. \A t \in TrackIds : tracks'[t] \in {tracks[t], NoTrack} \/ tracks'[t].by = tracks[t].by
    BY <1>1, <2>1 DEF TracksMove, Moves
  <2>3. \A u \in Users \ {Me(c)} : VotedBy(u)' \subseteq VotedBy(u)
    BY <2>1 DEF VotedBy
  <2> QED
    BY <2>1, <2>2, <2>3, NothingIs DEF WritesAs
<1> QED
  BY <1>3, <1>4, <1>5, <1>6, <1>7, <1>8, <1>9, <1>10, <1>11, <1>12 DEF GoOn

(* Everybody else's steps. *)
LEMMA OthersWriteNothing ==
  ASSUME Sound, [Next]_vars
  PROVE  \/ WritesAs({}) /\ call' = call /\ recaps' \subseteq recaps /\ UNCHANGED gone
         \/ \E u \in Users : EraseAccount(u)
         \/ \E c \in Clients : Begun(c)
         \/ \E c \in Clients : GoOn(c)
<1>1. TypeOK /\ RoomsMove /\ TracksMove
  BY StepsMove DEF Sound, Tables
<1>2. ASSUME made' = made, added' = added, members' \subseteq members,
             votes' \subseteq votes, skips' \subseteq skips
      PROVE  WritesAs({})
  BY <1>1, <1>2, NoneIsNew
<1>3. ASSUME NEW c \in Clients, Ask(c)
      PROVE  Begun(c) \/ (WritesAs({}) /\ call' = call /\ recaps' = recaps /\ UNCHANGED gone)
  BY <1>2, <1>3, AskedIs DEF Switched
<1>4. CASE ActOnIt
  <2>1. UNCHANGED <<made, added, recaps>> /\ members' \subseteq members
        /\ votes' \subseteq votes /\ skips' \subseteq skips
    BY <1>4
    DEF ActOnIt, Sweep, DeleteJam, MarkPlayed, PickNext, StartNext, AnnounceNext,
        StopPlaying, room, queue
  <2> QED
    BY <1>2, <1>4, <2>1, ClockMovesOn
<1>5. ASSUME NEW j \in JamIds, Look(j)
      PROVE  WritesAs({}) /\ call' = call /\ recaps' = recaps /\ UNCHANGED gone
  BY <1>2, <1>5, ClockLooks DEF tables
<1>6. ASSUME NEW r \in recaps, Dismiss(r)
      PROVE  WritesAs({}) /\ call' = call /\ recaps' \subseteq recaps /\ UNCHANGED gone
  BY <1>2, <1>6 DEF Dismiss, handlers, room, queue
<1>7. CASE UNCHANGED vars
  BY <1>2, <1>7 DEF vars, gone
<1> QED
  BY <1>3, <1>4, <1>5, <1>6, <1>7 DEF Next

LEMMA StaysAbsent ==
  ASSUME NEW u \in Users, NEW S, u \notin S, Absent(u), WritesAs(S)
  PROVE  Absent(u)'
<1>1. u # Nobody
  BY ConstantsAre
<1>2. \A j \in JamIds : jams'[j].host # u /\ <<j, u>> \notin members'
  BY <1>1 DEF Absent, WritesAs
<1>3. \A t \in TrackIds : tracks'[t].by # u
  BY <1>1 DEF Absent, WritesAs
<1>4. VotedBy(u)' = {}
  BY DEF Absent, WritesAs
<1> QED
  BY <1>2, <1>3, <1>4 DEF Absent

(* A recap that was made without the name is without it altogether. *)
LEMMA RecapWithout ==
  ASSUME NEW r \in Recaps, NEW u \in Users, r.of # u, u \notin r.people
  PROVE  NoName(r, u)
<1>1. /\ r.queued \in [Users -> 0..MaxTracks] /\ (r.queued[u] > 0 => u \in r.people)
      /\ r.top # Nobody => r.queued[r.top] > 0
      /\ MaxTracks \in Nat
  BY ConstantsAre DEF Recaps
<1>2. r.queued[u] \in 0..MaxTracks
  BY <1>1
<1>3. r.queued[u] = 0
  BY <1>1, <1>2
<1>4. r.top # u
  BY <1>1, <1>3, ConstantsAre
<1> QED
  BY <1>3, <1>4 DEF NoName

(* No handler's recap, once made of a room without the account, names it.  *)
LEMMA RecapOfOthers ==
  ASSUME Sound, NEW u \in Users, Absent(u), NEW v \in Users, v # u, NEW j \in JamIds,
         NEW seen \in JamRows, NEW ending \in BOOLEAN
  PROVE  \A r \in RecapOf(v, j, seen, ending) : r.of # u /\ u \notin r.people
<1>1. \A r \in RecapOf(v, j, seen, ending) : r.of = v /\ r.people = People(j, seen)
  BY RecapIsOne DEF Sound, Tables
<1>2. u \notin MembersOf(j)
  BY DEF Absent, MembersOf
<1>3. \A t \in Heard(j, seen) : tracks[t].by # u
  BY HeardAre DEF Sound, Tables, Absent
<1> QED
  BY <1>1, <1>2, <1>3 DEF People

LEMMA StaysNameless ==
  ASSUME Sound, NEW u \in Users, Absent(u), Nameless(u), u \in erased,
         NEW c \in Clients, Begun(c) \/ GoOn(c)
  PROVE  Nameless(u)'
<1>1. call \in [Clients -> Calls]
  BY DEF Sound
<1> DEFINE Clear(e, h) ==
      h # NoCall => /\ Me(e) # u /\ u \notin h.rest
                    /\ \A r \in h.recap : r.of # u /\ u \notin r.people
<1>2. \A e \in Clients : Clear(e, call[e])
  BY DEF Nameless
<1>3. ASSUME NEW h, call' = [call EXCEPT ![c] = h], Clear(c, h) PROVE Nameless(u)'
  <2>1. \A e \in Clients : call'[e] = IF e = c THEN h ELSE call[e]
    BY <1>1, <1>3
  <2>2. \A e \in Clients : Clear(e, call'[e])
    BY <1>2, <1>3, <2>1
  <2> QED
    BY <2>2 DEF Nameless, Me
<1>4. CASE Begun(c)
  <2>1. PICK h : Begins(c, h) /\ call' = [call EXCEPT ![c] = h]
    BY <1>4 DEF Begun
  <2>2. Me(c) # u /\ h.recap = {}
    BY <2>1 DEF Begins
  <2>3. h.rest = {} \/ (h.rest = MembersOf(h.jam) /\ h.jam \in RoomsOf(Me(c)))
    BY <2>1 DEF Begins
  <2>4. u \notin h.rest
    BY <2>3 DEF Absent, MembersOf, RoomsOf, Live
  <2> QED
    BY <1>3, <2>1, <2>2, <2>4
<1>5. CASE GoOn(c)
  <2>1. PICK h : call' = [call EXCEPT ![c] = h] /\ Onward(c, h)
    BY <1>5, HandlersGoOn
  <2>2. PICK q \in Calls : q = call[c]
    BY <1>1
  <2>3. Fits(q) /\ Me(c) \in Users
    BY <2>2, ConstantsAre DEF Sound, Me
  <2>4. CASE q = NoCall
    <3>1. h = NoCall
      BY <2>1, <2>2, <2>4, NoCallFits DEF Onward
    <3> QED
      BY <1>3, <2>1, <3>1
  <2>5. CASE q # NoCall
    <3>1. /\ Me(c) # u /\ u \notin q.rest
          /\ \A r \in q.recap : r.of # u /\ u \notin r.people
      BY <1>2, <2>2, <2>5
    <3>2. CASE h = NoCall
      BY <1>3, <2>1, <3>2
    <3>3. CASE /\ q.at = "remember" /\ h.rest = q.rest
               /\ h.recap = RecapOf(Me(c), q.jam, q.seen, FALSE)
      <4>1. q.jam \in JamIds /\ q.seen \in JamRows
        BY <2>3, <3>3 DEF Fits, Leaving, Calls
      <4>2. \A r \in h.recap : r.of # u /\ u \notin r.people
        <5>1. PICK v \in Users : v = Me(c)
          BY <2>3
        <5>2. \A r \in RecapOf(v, q.jam, q.seen, FALSE) : r.of # u /\ u \notin r.people
          BY <3>1, <4>1, <5>1, RecapOfOthers
        <5> QED
          BY <3>3, <5>1, <5>2
      <4> QED
        BY <1>3, <2>1, <3>1, <3>3, <4>2
    <3>4. CASE /\ q.at = "rememberAll"
               /\ \E v \in q.rest : /\ h.rest = q.rest \ {v}
                                    /\ h.recap = RecapOf(v, q.jam, q.seen, TRUE)
      <4>1. q.jam \in JamIds /\ q.seen \in JamRows /\ q.rest \subseteq Users
        BY <2>3, <3>4 DEF Fits, Leaving, Calls
      <4>2. PICK v \in q.rest : /\ h.rest = q.rest \ {v}
                                /\ h.recap = RecapOf(v, q.jam, q.seen, TRUE)
        BY <3>4
      <4>3. v \in Users /\ v # u
        BY <3>1, <4>1
      <4>4. \A r \in RecapOf(v, q.jam, q.seen, TRUE) : r.of # u /\ u \notin r.people
        BY <4>1, <4>3, RecapOfOthers
      <4> QED
        BY <1>3, <2>1, <3>1, <4>2, <4>4
    <3>5. CASE h.rest = q.rest /\ (h.recap = {} \/ h.recap = q.recap)
      BY <1>3, <2>1, <3>1, <3>5
    <3> QED
      BY <2>1, <2>2, <3>2, <3>3, <3>4, <3>5 DEF Onward
  <2> QED
    BY <2>4, <2>5
<1> QED
  BY <1>4, <1>5

LEMMA ErasureForgets ==
  ASSUME Sound, Forgets, NEW v \in Users, EraseAccount(v)
  PROVE  Forgets'
<1>1. /\ TypeOK /\ recaps \subseteq Recaps /\ Nobody \notin Users
  BY ConstantsAre DEF Sound, Tables
<1>2. /\ erased' = erased \cup {v} /\ UNCHANGED call
      /\ late' = IF Naming(v) = {} THEN late ELSE late \cup {v}
      /\ recaps' = {Forgotten(r, v) : r \in {q \in recaps : q.of # v}}
  BY DEF EraseAccount, handlers
<1>3. ASSUME NEW u \in erased' \ late' PROVE Nameless(u)
  <2>1. CASE u = v
    <3>1. Naming(v) = {}
      BY <1>2, <1>3, <2>1
    <3>2. \A c \in Clients : call[c] # NoCall => Me(c) # v /\ ~ Names(call[c], v)
      BY <3>1 DEF Naming
    <3> QED
      BY <2>1, <3>2 DEF Names, Nameless
  <2>2. CASE u # v
    BY <1>2, <1>3, <2>2 DEF Forgets
  <2> QED
    BY <2>1, <2>2
<1>4. Absent(v)'
  <2>1. \A j \in JamIds : jams'[j].host # v /\ <<j, v>> \notin members'
    <3>1. \A j \in JamIds : <<j, v>> \notin members'
      BY DEF EraseAccount, EraseJams
    <3>2. ASSUME NEW j \in JamIds PROVE jams'[j].host # v
      <4>1. jams'[j] = IF j \in Live /\ jams[j].host = v THEN NoJam ELSE jams[j]
        BY DEF EraseAccount, EraseJams
      <4> QED
        BY <1>1, <4>1, NothingIs DEF Live
    <3> QED
      BY <3>1, <3>2
  <2>2. \A t \in TrackIds : tracks'[t].by # v
    BY <1>1, NothingIs DEF EraseAccount, EraseJams
  <2>3. VotedBy(v)' = {}
    BY DEF EraseAccount, EraseJams, VotedBy
  <2> QED
    BY <2>1, <2>2, <2>3 DEF Absent
<1>5. ASSUME NEW u \in erased \ late PROVE Absent(u)'
  <2>1. WritesAs({})
    <3>1. TracksMove /\ RoomsMove
      BY <1>1, EraseMoves DEF EraseAccount
    <3>2. /\ made' = made /\ added' = added /\ members' \subseteq members
          /\ votes' \subseteq votes /\ skips' \subseteq skips
      BY DEF EraseAccount, EraseJams
    <3> QED
      BY <3>1, <3>2, NoneIsNew
  <2>2. Absent(u) /\ u \in Users
    BY <1>5, ForgetsIs
  <2> QED
    BY <2>1, <2>2, StaysAbsent
<1>6. ASSUME NEW u \in erased' \ late' PROVE Struck(u)'
  <2>1. u \in Users /\ (u = v \/ u \in erased \ late)
    BY <1>2, <1>3, <1>6 DEF Forgets
  <2>2. ASSUME NEW s \in recaps' PROVE NoName(s, u)
    <3>1. PICK r \in recaps : r.of # v /\ s = Forgotten(r, v)
      BY <1>2
    <3>2. r \in Recaps
      BY <1>1
    <3>3. /\ s.of = r.of /\ s.people = r.people \ {v} /\ s.queued[v] = 0 /\ s.top # v
          /\ \A w \in Users : r.queued[w] = 0 => s.queued[w] = 0
          /\ \A w \in Users : r.top # w /\ r.queued[w] = 0 => s.top # w
      BY <3>1, <3>2, ForgottenIs
    <3>4. CASE u = v
      BY <3>1, <3>3, <3>4 DEF NoName
    <3>5. CASE u \in erased \ late
      <4>1. NoName(r, u)
        BY <3>5, ForgetsIs DEF Struck
      <4> QED
        BY <2>1, <3>3, <4>1 DEF NoName
    <3> QED
      BY <2>1, <3>4, <3>5
  <2> QED
    BY <2>2 DEF Struck, NoName
<1>7. ASSUME NEW u \in erased' \ late' PROVE Absent(u)' /\ Struck(u)' /\ Nameless(u)'
  <2>1. u = v \/ u \in erased \ late
    BY <1>2, <1>7
  <2>2. Nameless(u)'
    BY <1>2, <1>3, <1>7 DEF Nameless, Me
  <2> QED
    BY <1>4, <1>5, <1>6, <1>7, <2>1, <2>2
<1>8. erased' \subseteq Users
  BY <1>2, ForgetsIs
<1> QED
  BY <1>7, <1>8
  DEF Forgets, ErasedAreForgotten, Absent, Struck, NoName

LEMMA StaysForgotten ==
  ASSUME Sound, Forgets, [Next]_vars
  PROVE  Forgets'
<1>1. ASSUME UNCHANGED gone,
             \A u \in erased \ late : Absent(u)' /\ Struck(u)' /\ Nameless(u)'
      PROVE  Forgets'
  BY <1>1, ForgetsIs
  DEF gone, Forgets, ErasedAreForgotten, Absent, Struck, NoName
<1>2. \A u \in erased \ late : u \in Users /\ Absent(u) /\ Struck(u) /\ Nameless(u)
  BY ForgetsIs
<1>3. CASE WritesAs({}) /\ call' = call /\ recaps' \subseteq recaps /\ UNCHANGED gone
  <2>1. ASSUME NEW u \in erased \ late
        PROVE  Absent(u)' /\ Struck(u)' /\ Nameless(u)'
    <3>1. Absent(u)'
      BY <1>2, <1>3, <2>1, StaysAbsent
    <3>2. Struck(u)' /\ Nameless(u)'
      BY <1>2, <1>3, <2>1 DEF Struck, NoName, Nameless, Me
    <3> QED
      BY <3>1, <3>2
  <2> QED
    BY <1>1, <1>3, <2>1
<1>4. ASSUME NEW u \in Users, EraseAccount(u) PROVE Forgets'
  BY <1>4, ErasureForgets
<1>5. ASSUME NEW c \in Clients, Begun(c) PROVE Forgets'
  <2>1. ASSUME NEW u \in erased \ late
        PROVE  Absent(u)' /\ Struck(u)' /\ Nameless(u)'
    <3>1. Nameless(u)'
      BY <1>2, <1>5, <2>1, StaysNameless
    <3>2. Absent(u)' /\ Struck(u)'
      BY <1>2, <1>5, <2>1 DEF Begun, tables, Absent, Struck, NoName, VotedBy
    <3> QED
      BY <3>1, <3>2
  <2> QED
    BY <1>1, <1>5, <2>1 DEF Begun
<1>6. ASSUME NEW c \in Clients, GoOn(c) PROVE Forgets'
  <2>1. UNCHANGED gone /\ WritesAs({Me(c)}) /\ recaps' \subseteq recaps \cup call[c].recap
    BY <1>6, HandlersGoOn, HandlersWriteAs
  <2>2. call[c] \in Calls /\ call[c] # NoCall
    <3>1. call[c].at # "idle"
      BY <1>6
      DEF GoOn, InsertJam, RememberOne, InsertTrack, InsertMember, Remember, Keep,
          Part, Left, Delete, Approve, Remove, VoteSkip, RetireSkipped, ClearSkipped, At
    <3> QED
      BY <3>1, NoCallFits DEF Sound
  <2>3. ASSUME NEW u \in erased \ late
        PROVE  Absent(u)' /\ Struck(u)' /\ Nameless(u)'
    <3>1. Nameless(u)'
      BY <1>2, <1>6, <2>3, StaysNameless
    <3>2. /\ Me(c) # u
          /\ \A r \in call[c].recap : r.of # u /\ u \notin r.people
      BY <1>2, <2>2, <2>3 DEF Nameless
    <3>3. Absent(u)'
      BY <1>2, <2>1, <2>3, <3>2, StaysAbsent
    <3>4. \A r \in call[c].recap : NoName(r, u)
      <4>1. call[c].recap \subseteq Recaps
        BY <2>2 DEF Calls
      <4> QED
        BY <1>2, <2>3, <3>2, <4>1, RecapWithout
    <3>5. \A r \in recaps' : NoName(r, u)
      BY <1>2, <2>1, <2>3, <3>4 DEF Struck
    <3>6. Struck(u)'
      BY <3>5 DEF Struck, NoName
    <3> QED
      BY <3>1, <3>3, <3>6
  <2> QED
    BY <1>1, <2>1, <2>3
<1> QED
  BY <1>3, <1>4, <1>5, <1>6, OthersWriteNothing

----------------------------------------------------------------------------
(* An ending keeps what it read. *)

LEMMA HostOnAir ==
  ASSUME TypeOK, NEW j \in JamIds, NEW k, NEW t, jams' = NowPlaying(k, t)
  PROVE  jams'[j].host = jams[j].host
<1>1. jams \in [JamIds -> JamRows]
  BY TypesAre
<1>2. CASE k \in Live
  <2>1. k \in JamIds
    BY <1>2 DEF Live
  <2>2. PICK r \in JamRows : r = jams[k]
    BY <1>1, <2>1
  <2>3. PICK q : q = [r EXCEPT !.playing = t]
    OBVIOUS
  <2>4. q.host = r.host
    BY <2>3 DEF JamRows
  <2>5. jams' = [jams EXCEPT ![k] = q]
    BY <1>2, <2>2, <2>3 DEF NowPlaying
  <2> QED
    BY <1>1, <2>1, <2>2, <2>4, <2>5
<1>3. CASE k \notin Live
  BY <1>1, <1>3 DEF NowPlaying
<1> QED
  BY <1>2, <1>3

HostStays(j, u) ==
  \/ \A t \in TrackIds : tracks[t].jam = j => tracks'[t] = NoTrack
  \/ /\ jams'[j].host = u
     /\ <<j, u>> \in members =>
          <<j, u>> \in members' \/ \E c \in Clients : Me(c) = u /\ Part(c)

LEMMA DeleteTakesAll ==
  ASSUME TypeOK, NEW j \in JamIds, NEW u, jams[j].host = u, NEW k, DeleteJam(k)
  PROVE  HostStays(j, u)
<1>1. CASE k = j
  BY <1>1 DEF DeleteJam, HostStays
<1>2. CASE k # j
  BY <1>2, TypesAre DEF DeleteJam, HostStays
<1> QED
  BY <1>1, <1>2

LEMMA HostsStay ==
  ASSUME Sound, [Next]_vars, NEW j \in JamIds, NEW u \in Users, jams[j].host = u
  PROVE  HostStays(j, u)
<1>1. TypeOK /\ jams \in [JamIds -> JamRows] /\ made \in Nat
  BY TypesAre DEF Sound, Tables
<1>2. j \in Live
  BY NothingIs, ConstantsAre DEF Live
<1>3. ASSUME jams' = jams, members \subseteq members' PROVE HostStays(j, u)
  BY <1>3 DEF HostStays
<1>4. ASSUME NEW k, NEW t, jams' = NowPlaying(k, t), members' = members
      PROVE  HostStays(j, u)
  BY <1>1, <1>4, HostOnAir DEF HostStays
<1>5. ASSUME NEW c \in Clients, Ask(c) PROVE HostStays(j, u)
  <2>1. CASE Begun(c)
    BY <1>3, <2>1 DEF Begun, tables
  <2>2. CASE Switched(c)
    <3>1. PICK k \in Live, mode \in Modes : jams' = [jams EXCEPT ![k].mode = mode]
      BY <2>2 DEF Switched
    <3>2. k \in JamIds
      BY DEF Live
    <3>3. PICK r \in JamRows : r = jams[k]
      BY <1>1, <3>2
    <3>4. PICK q : q = [r EXCEPT !.mode = mode]
      OBVIOUS
    <3>5. q.host = r.host
      BY <3>4 DEF JamRows
    <3>6. jams' = [jams EXCEPT ![k] = q]
      BY <3>1, <3>3, <3>4
    <3>7. jams'[j].host = u
      BY <1>1, <3>2, <3>3, <3>5, <3>6
    <3> QED
      BY <2>2, <3>7 DEF Switched, HostStays
  <2> QED
    BY <1>5, <2>1, <2>2, AskedIs
<1>6. ASSUME NEW c \in Clients, GoOn(c) PROVE HostStays(j, u)
  <2>1. ASSUME NEW mode \in Modes, InsertJam(c, mode) PROVE HostStays(j, u)
    <3>1. j # made + 1
      BY <1>1, <1>2, LiveAre
    <3>2. PICK r : r = [NoJam EXCEPT !.host = Me(c), !.mode = mode]
      OBVIOUS
    <3>3. jams' = [jams EXCEPT ![made + 1] = r] /\ members \subseteq members'
      BY <2>1, <3>2 DEF InsertJam
    <3>4. jams'[j] = jams[j]
      BY <1>1, <3>1, <3>3
    <3> QED
      BY <3>3, <3>4 DEF HostStays
  <2>2. ASSUME NEW v \in Users, RememberOne(c, v) PROVE HostStays(j, u)
    BY <1>3, <2>2 DEF RememberOne, room
  <2>3. ASSUME NEW alive \in BOOLEAN, InsertTrack(c, alive) PROVE HostStays(j, u)
    BY <1>3, <2>3 DEF InsertTrack, room
  <2>4. CASE \/ InsertMember(c) \/ Remember(c) \/ Keep(c) \/ Left(c) \/ Approve(c)
             \/ Remove(c) \/ VoteSkip(c) \/ RetireSkipped(c)
    BY <1>3, <2>4
    DEF InsertMember, Remember, Keep, Left, Approve, Remove, VoteSkip, RetireSkipped,
        room
  <2>5. CASE Part(c)
    <3>1. jams' = jams /\ members' = members \ {<<call[c].jam, Me(c)>>}
      BY <2>5 DEF Part
    <3> QED
      BY <2>5, <3>1 DEF HostStays
  <2>6. CASE Delete(c)
    BY <1>1, <2>6, DeleteTakesAll DEF Delete
  <2>7. CASE ClearSkipped(c)
    BY <1>4, <2>7 DEF ClearSkipped
  <2> QED
    BY <1>6, <2>1, <2>2, <2>3, <2>4, <2>5, <2>6, <2>7 DEF GoOn
<1>7. CASE Sweep
  BY <1>1, <1>7, DeleteTakesAll DEF Sweep
<1>8. CASE StartNext \/ StopPlaying
  BY <1>4, <1>8 DEF StartNext, StopPlaying
<1>9. CASE MarkPlayed \/ PickNext \/ AnnounceNext
  BY <1>3, <1>9 DEF MarkPlayed, PickNext, AnnounceNext, room
<1>10. ASSUME NEW k \in JamIds, Look(k) PROVE HostStays(j, u)
  BY <1>3, <1>10, ClockLooks DEF tables
<1>11. ASSUME NEW v \in Users, EraseAccount(v) PROVE HostStays(j, u)
  <2>1. CASE v = u
    BY <1>2, <1>11, <2>1 DEF EraseAccount, EraseJams, HostStays
  <2>2. CASE v # u
    <3>1. jams'[j] = jams[j]
      BY <1>11, <2>2 DEF EraseAccount, EraseJams
    <3>2. <<j, u>> \in members => <<j, u>> \in members'
      BY <1>11, <2>2 DEF EraseAccount, EraseJams
    <3> QED
      BY <3>1, <3>2 DEF HostStays
  <2> QED
    BY <2>1, <2>2
<1>12. ASSUME NEW r \in recaps, Dismiss(r) PROVE HostStays(j, u)
  BY <1>3, <1>12 DEF Dismiss, room
<1>13. CASE UNCHANGED vars
  BY <1>3, <1>13 DEF vars
<1> QED
  BY <1>5, <1>6, <1>7, <1>8, <1>9, <1>10, <1>11, <1>12, <1>13 DEF Next, ActOnIt

(* While a handler stays where it is, what it read holds. *)
LEMMA StaysHeld ==
  ASSUME Sound, [Next]_vars, NEW c \in Clients, NEW j \in JamIds, NEW t,
         Holds(c, j, t), ~ Part(c)
  PROVE  Holds(c, j, t)'
<1>1. /\ added \in Nat /\ added <= MaxTracks /\ MaxTracks \in Nat
      /\ added' \in {added, added + 1} /\ TracksMove /\ Me(c) \in Users
  BY StepsMove, TypesAre, ConstantsAre DEF Sound, Tables, TracksMove, Me
<1>2. /\ t \in 1..added /\ t \in TrackIds /\ t # added + 1 /\ t \in 1..added'
  <2>1. t \in 1..added
    BY DEF Holds
  <2> QED
    BY <1>1, <2>1 DEF TrackIds
<1>3. Moves(t)
  BY <1>1, <1>2 DEF TracksMove
<1>4. CASE tracks'[t] = NoTrack
  BY <1>2, <1>4 DEF Holds
<1>5. CASE tracks'[t] # NoTrack
  <2>1. tracks[t] # NoTrack /\ tracks'[t].jam = tracks[t].jam
    BY <1>2, <1>3, <1>5 DEF Moves
  <2>2. /\ tracks[t].jam = j /\ jams[j].host = Me(c)
        /\ Connections(Me(c)) = {c} => <<j, Me(c)>> \in members
    BY <2>1 DEF Holds
  <2>3. HostStays(j, Me(c))
    BY <1>1, <2>2, HostsStay
  <2>4. /\ jams'[j].host = Me(c)
        /\ <<j, Me(c)>> \in members =>
             <<j, Me(c)>> \in members' \/ \E e \in Clients : Me(e) = Me(c) /\ Part(e)
    BY <1>2, <1>5, <2>2, <2>3 DEF HostStays
  <2>5. Connections(Me(c)) = {c} => <<j, Me(c)>> \in members'
    <3>1. ASSUME Connections(Me(c)) = {c}, NEW e \in Clients, Me(e) = Me(c) PROVE e = c
      BY <3>1 DEF Connections, Me
    <3> QED
      BY <2>2, <2>4, <3>1
  <2> QED
    BY <1>2, <2>1, <2>2, <2>4, <2>5 DEF Holds, Me, Connections
<1> QED
  BY <1>4, <1>5

LEMMA EndsStayWell ==
  ASSUME Sound, OnlyAccepted, EndsWell, [Next]_vars
  PROVE  EndsWell'
<1>1. TypeOK /\ call \in [Clients -> Calls] /\ Sound'
  BY StaysSound DEF Sound, Tables
<1>2. ASSUME NEW c \in Clients PROVE EndsOf(c, call[c])'
  <2>1. PICK q \in Calls : q = call[c]
    BY <1>1
  <2>2. EndsOf(c, q) /\ Fits(q)
    BY <2>1 DEF EndsWell, Sound
  <2>3. ASSUME NEW h, call'[c] = h, EndsOf(c, h)' PROVE EndsOf(c, call[c])'
    BY <2>3 DEF EndsOf, Holds
  <2>4. CASE call'[c] = q /\ ~ Part(c)
    <3>1. ASSUME q.at \in {"rememberAll", "keep"}, q.op = "leave", q.seen.host = Me(c),
                 q.seen.playing # None
          PROVE  Holds(c, q.jam, q.seen.playing)'
      <4>1. Holds(c, q.jam, q.seen.playing) /\ q.jam \in JamIds
        BY <2>2, <3>1 DEF EndsOf, Fits, Leaving
      <4> QED
        BY <2>4, <4>1, StaysHeld
    <3>2. EndsOf(c, q)'
      BY <2>2, <3>1 DEF EndsOf, Me
    <3> QED
      BY <2>3, <2>4, <3>2
  <2>5. CASE Begun(c)
    <3>1. PICK h \in Calls : Begins(c, h) /\ call' = [call EXCEPT ![c] = h]
      BY <2>5 DEF Begun, Begins, Fits
    <3>2. call'[c] = h /\ UNCHANGED <<jams, members, tracks, added>>
      BY <1>1, <2>5, <3>1 DEF Begun, tables
    <3>3. CASE /\ h.at = "rememberAll" /\ h.jam \in RoomsOf(Me(c))
               /\ h.seen = jams[h.jam] /\ h.seen.host = Me(c)
      <4>1. h.jam \in Live /\ <<h.jam, Me(c)>> \in members
        BY <3>3 DEF RoomsOf
      <4>2. h.seen.playing # None => Accepted(h.jam, h.seen.playing)
        BY <3>3, <4>1 DEF OnlyAccepted
      <4>3. h.seen.playing # None => Holds(c, h.jam, h.seen.playing)
        BY <3>3, <4>1, <4>2 DEF Accepted, Holds
      <4>4. EndsOf(c, h)'
        BY <3>2, <3>3, <4>3 DEF EndsOf, Holds, Me, Connections
      <4> QED
        BY <2>3, <3>2, <4>4
    <3>4. CASE /\ h.rest = {} /\ h.at \notin {"rememberAll", "keep"}
               /\ h.at = "remember" /\ h.op = "leave" => h.seen.host # Me(c)
      <4>1. EndsOf(c, h)'
        BY <3>4 DEF EndsOf, Me
      <4> QED
        BY <2>3, <3>2, <4>1
    <3> QED
      BY <3>1, <3>3, <3>4 DEF Begins, OnTrack
  <2>6. CASE GoOn(c)
    <3>1. PICK h \in Calls : call' = [call EXCEPT ![c] = h] /\ Onward(c, h) /\ Fits(h)
      BY <2>6, HandlersGoOn DEF Fits
    <3>2. call'[c] = h
      BY <1>1, <3>1
    <3>3. CASE h = NoCall
      <4>1. EndsOf(c, h)'
        BY <3>3, NoCallFits DEF EndsOf
      <4> QED
        BY <2>3, <3>2, <4>1
    <3>4. CASE /\ h.op = q.op /\ h.jam = q.jam /\ h.seen = q.seen
               /\ q.at \in {"rememberAll", "keep"} /\ h.at \in {"rememberAll", "keep"}
               /\ h.rest \subseteq q.rest
               /\ h.at = "rememberAll" => q.rest # {}
      <4>1. ASSUME h.op = "leave", h.seen.host = Me(c), h.seen.playing # None
            PROVE  Holds(c, h.jam, h.seen.playing)'
        <5>1. Holds(c, h.jam, h.seen.playing) /\ h.jam \in JamIds
          BY <2>2, <3>4, <4>1 DEF EndsOf, Fits, Leaving
        <5>2. ~ Part(c)
          BY <2>1, <3>4 DEF Part, At
        <5> QED
          BY <5>1, <5>2, StaysHeld
      <4>2. EndsOf(c, h)'
        BY <2>2, <3>4, <4>1 DEF EndsOf, Me
      <4> QED
        BY <2>3, <3>2, <4>2
    <3>5. CASE /\ h.op = q.op /\ h.seen = q.seen /\ h.rest = q.rest
               /\ q.at = "remember" /\ h.at = "keep"
      <4>1. EndsOf(c, h)'
        BY <2>2, <3>5 DEF EndsOf, Me
      <4> QED
        BY <2>3, <3>2, <4>1
    <3>6. CASE /\ h.op = q.op /\ h.seen = q.seen /\ h.rest = q.rest
               /\ h.at \notin {"remember", "rememberAll", "keep"}
      <4>1. EndsOf(c, h)'
        BY <2>2, <3>6 DEF EndsOf, Me
      <4> QED
        BY <2>3, <3>2, <4>1
    <3>7. q.at = "part" => h = NoCall \/ h.at \notin {"remember", "rememberAll", "keep"}
      BY <2>1, <2>2, <3>1 DEF Onward, Fits, Leaving
    <3> QED
      BY <2>1, <3>1, <3>3, <3>4, <3>5, <3>6, <3>7 DEF Onward
  <2>7. ASSUME NEW e \in Clients, e # c, Begun(e) \/ GoOn(e) PROVE call'[c] = q
    <3>1. PICK h : call' = [call EXCEPT ![e] = h]
      BY <2>7, HandlersGoOn DEF Begun
    <3> QED
      BY <1>1, <2>1, <2>7, <3>1
  <2>8. Part(c) => GoOn(c)
    BY DEF GoOn
  <2> QED
    BY <2>1, <2>4, <2>5, <2>6, <2>7, <2>8, StepsAre
<1> QED
  BY <1>2 DEF EndsWell

----------------------------------------------------------------------------
(* The invariant, and what follows from it. *)

LEMMA InitIsSound ==
  ASSUME Init
  PROVE  IInv
<1>1. /\ jams = [j \in JamIds |-> NoJam] /\ made = 0 /\ members = {}
      /\ tracks = [t \in TrackIds |-> NoTrack] /\ added = 0
      /\ votes = {} /\ skips = {} /\ recaps = {} /\ erased = {} /\ late = {}
      /\ call = [c \in Clients |-> NoCall] /\ clock = Asleep
  BY DEF Init
<1>2. MaxJams \in Nat /\ MaxTracks \in Nat
  BY ConstantsAre
<1>3. TypeOK
  BY <1>1, <1>2, NothingIs DEF TypeOK, MembersOf
<1>4. Tables
  BY <1>1, <1>3 DEF Tables, Authored
<1>5. call \in [Clients -> Calls] /\ \A c \in Clients : Fits(call[c])
  <2>1. \A c \in Clients : call[c] = NoCall
    BY <1>1
  <2>2. \A c \in Clients : Fits(call[c])
    BY <2>1, NoCallFits DEF Fits
  <2> QED
    BY <1>1, <2>2, NoCallFits
<1>6. ClockFits
  BY <1>1 DEF ClockFits, Asleep
<1>7. InBounds
  <2>1. \A c \in Clients : call[c].op = "none"
    BY <1>1, NoCallFits
  <2>2. /\ {c \in Clients : call[c].op \in {"create"}} = {}
        /\ {c \in Clients : call[c].op \in {"propose", "queue"}} = {}
    BY <2>1
  <2>3. InFlight({"create"}) = 0 /\ InFlight({"propose", "queue"}) = 0
    BY <2>2, FS_EmptySet DEF InFlight
  <2> QED
    BY <1>1, <1>2, <2>3 DEF InBounds
<1>8. Sound
  BY <1>4, <1>5, <1>6, <1>7 DEF Sound
<1>9. Live = {}
  BY <1>1 DEF Live
<1>10. InOneRoom /\ Unconnected
  BY <1>1, <1>9 DEF InOneRoom, Unconnected, RoomsOf
<1>11. OnlyAccepted
  BY <1>1, <1>9 DEF OnlyAccepted, Asleep
<1>12. Forgets
  BY <1>1 DEF Forgets, ErasedAreForgotten
<1>13. EndsWell
  <2>1. \A c \in Clients : call[c] = NoCall
    BY <1>1
  <2>2. \A c \in Clients : EndsOf(c, NoCall)
    BY NoCallFits DEF EndsOf
  <2> QED
    BY <2>1, <2>2 DEF EndsWell
<1> QED
  BY <1>8, <1>10, <1>11, <1>12, <1>13 DEF IInv

(* The invariant holds throughout: the tables and what every handler and   *)
(* the clock has read are of their kinds and within bounds; who acts from  *)
(* one device has one room, as far as its handler has come; what plays or  *)
(* is about to was accepted; a deleted account is nowhere, in no handler   *)
(* either; and what an ending read of its room is so until it is gone.     *)
THEOREM RoomsStaySound == Spec => []IInv
<1>1. Init => IInv
  BY InitIsSound
<1>2. IInv /\ [Next]_vars => IInv'
  <2> SUFFICES ASSUME IInv, [Next]_vars PROVE IInv'
    OBVIOUS
  <2>1. Sound /\ InOneRoom /\ Unconnected /\ OnlyAccepted /\ Forgets /\ EndsWell
    BY DEF IInv
  <2>2. Sound' /\ OnlyAccepted' /\ Forgets' /\ EndsWell'
    BY <2>1, StaysSound, StaysAccepted, StaysForgotten, EndsStayWell
  <2>3. InOneRoom' /\ Unconnected'
    BY <2>1, StaysInOneRoom
  <2> QED
    BY <2>2, <2>3 DEF IInv
<1> QED
  BY <1>1, <1>2, PTL DEF Spec

LEMMA OneRoomOnly ==
  ASSUME Sound, InOneRoom, Unconnected
  PROVE  OneJamAtATime
<1> SUFFICES ASSUME NEW u \in Users, Cardinality(Connections(u)) <= 1
             PROVE  Cardinality(RoomsOf(u)) <= 1
  BY DEF OneJamAtATime, RoomsOf
<1>1. \A j, k \in RoomsOf(u) : j = k
  <2>1. Connections(u) \subseteq Clients /\ IsFiniteSet(Connections(u))
    BY ConstantsAre, FS_Subset DEF Connections
  <2>2. CASE Connections(u) = {}
    BY <2>2 DEF Unconnected, RoomsOf, Live
  <2>3. CASE Connections(u) # {}
    <3>1. PICK c \in Clients : c \in Connections(u)
      BY <2>1, <2>3
    <3>2. Connections(u) = {c}
      <4> SUFFICES ASSUME NEW e \in Connections(u), e # c PROVE FALSE
        BY <3>1
      <4>1. Cardinality({c}) = 1 /\ IsFiniteSet({c}) /\ e \notin {c}
        BY FS_Singleton
      <4>2. Cardinality({c} \cup {e}) = 2
        <5>1. PICK S : S = {c}
          OBVIOUS
        <5>2. Cardinality(S \cup {e}) = Cardinality(S) + 1
          BY <4>1, <5>1, FS_AddElement
        <5> QED
          BY <4>1, <5>1, <5>2
      <4>3. {c} \cup {e} \subseteq Connections(u)
        BY <3>1
      <4>4. Cardinality({c} \cup {e}) <= Cardinality(Connections(u))
        BY <2>1, <4>3, FS_Subset
      <4>5. Cardinality(Connections(u)) \in Nat
        BY <2>1, FS_CardinalityType
      <4> QED
        BY <4>2, <4>4, <4>5
    <3> QED
      BY <3>2 DEF InOneRoom
  <2> QED
    BY <2>2, <2>3
<1>2. CASE RoomsOf(u) = {}
  BY <1>2, FS_EmptySet
<1>3. CASE RoomsOf(u) # {}
  <2>1. PICK j : RoomsOf(u) = {j}
    BY <1>1, <1>3
  <2>2. Cardinality({j}) = 1
    BY FS_Singleton
  <2> QED
    BY <2>1, <2>2
<1> QED
  BY <1>2, <1>3

(* Whatever handlers, votes and the clock cross, the tables stay what they *)
(* are, an account acting from one device is in one room                   *)
(* (db_jam/lifecycle.rs:43), a room hears what it accepted (jam_clock.rs), *)
(* and an account that was deleted while no handler held its name is       *)
(* nowhere again (erasure.rs:1-10).                                        *)
THEOREM RulesAreKept == Spec => []RoomsKeepTheirRules
<1>1. IInv => RoomsKeepTheirRules
  <2> SUFFICES ASSUME IInv PROVE RoomsKeepTheirRules
    OBVIOUS
  <2>1. TypeOK /\ ErasedAreForgotten
    BY DEF IInv, Sound, Tables, Forgets
  <2>2. OneJamAtATime
    BY OneRoomOnly DEF IInv
  <2>3. RoomHearsOnlyWhatItAccepted
    BY DEF IInv, OnlyAccepted, Accepted, RoomHearsOnlyWhatItAccepted
  <2> QED
    BY <2>1, <2>2, <2>3 DEF RoomsKeepTheirRules
<1> QED
  BY <1>1, RoomsStaySound, PTL

LEMMA RemembersTheCreator ==
  ASSUME IInv, NEW c \in Clients, NEW u \in Users, RememberOne(c, u),
         Connections(Me(c)) = {c}, OnAir(call[c].seen.playing),
         u \in MembersOf(call[c].jam), u # Me(c)
  PROVE  \E r \in RecapOf(u, call[c].jam, call[c].seen, TRUE) :
            r.of = u /\ Me(c) \in r.people
<1>1. TypeOK /\ Authored /\ EndsWell /\ Fits(call[c]) /\ Me(c) \in Users
  BY ConstantsAre DEF IInv, Sound, Tables, Me
<1>2. PICK q \in Calls : q = call[c]
  BY DEF IInv, Sound
<1>3. q.at = "rememberAll" /\ q.op = "leave" /\ q.jam \in JamIds
  BY <1>1, <1>2 DEF RememberOne, At, Fits, Leaving
<1>4. PICK j \in JamIds : j = q.jam
  BY <1>3
<1>5. PICK t : t = q.seen.playing
  OBVIOUS
<1>6. t # None /\ tracks[t] # NoTrack
  BY <1>2, <1>5 DEF OnAir
<1>7. Holds(c, j, t)
  BY <1>1, <1>2, <1>3, <1>4, <1>5, <1>6 DEF EndsWell, EndsOf
<1>8. /\ tracks[t].jam = j /\ t \in 1..added /\ <<j, Me(c)>> \in members
  BY <1>6, <1>7 DEF Holds
<1>9. t \in TrackIds
  BY <1>1, <1>8, TypesAre, ConstantsAre DEF TrackIds
<1>10. t \in Heard(j, q.seen)
  BY <1>5, <1>8, <1>9 DEF Heard, TracksOf
<1>11. Me(c) \in People(j, q.seen) /\ u \in People(j, q.seen)
  BY <1>1, <1>2, <1>4, <1>8 DEF People, MembersOf
<1>12. ~ (Cardinality(People(j, q.seen)) < 2)
  <2>1. People(j, q.seen) \subseteq Users
    BY <1>1, HeardAre
  <2>2. IsFiniteSet(People(j, q.seen)) /\ Cardinality(People(j, q.seen)) \in Nat
    BY <2>1, UsersAreFinite
  <2>3. Cardinality({u}) = 1 /\ IsFiniteSet({u})
    BY FS_Singleton
  <2>4. Cardinality({u} \cup {Me(c)}) = 2
    <3>1. Me(c) \notin {u}
      BY <1>1, <1>2, <1>4, <1>8
    <3>2. Cardinality({u} \cup {Me(c)}) = Cardinality({u}) + 1
      BY <2>3, <3>1, FS_AddElement
    <3> QED BY <2>3, <3>2
  <2>5. {u} \cup {Me(c)} \subseteq People(j, q.seen)
    BY <1>11
  <2>6. Cardinality({u} \cup {Me(c)}) <= Cardinality(People(j, q.seen))
    BY <2>2, <2>5, FS_Subset
  <2> QED
    BY <2>2, <2>4, <2>6
<1>13. RecapOf(u, j, q.seen, TRUE) # {}
  BY <1>10, <1>12 DEF RecapOf
<1>14. \A r \in RecapOf(u, j, q.seen, TRUE) : r.of = u /\ r.people = People(j, q.seen)
  BY <1>1, RecapIsOne
<1> QED
  BY <1>2, <1>4, <1>11, <1>13, <1>14

(* The creator leaving writes everyone's recap while their own row is      *)
(* still there (jam_lifecycle.rs:157-159): whoever is still in the room    *)
(* when the ending reaches them is left a recap that names the creator,    *)
(* if what was on air when it began is there, whatever happened to the     *)
(* room and its queue in between.                                          *)
THEOREM EndingsAreRemembered == Spec => EndingIsRemembered
<1> DEFINE A == \A c \in Clients :
       LET creator == Me(c)  j == call[c].jam IN
       At(c, "rememberAll") /\ Connections(creator) = {c} /\ OnAir(call[c].seen.playing)
         => \A u \in (MembersOf(j) \ {creator}) \cap (call[c].rest \ call'[c].rest) :
              \E r \in call'[c].recap : r.of = u /\ creator \in r.people
<1>1. IInv /\ [Next]_vars => A
  <2> SUFFICES ASSUME IInv, [Next]_vars, NEW c \in Clients, At(c, "rememberAll"),
                      Connections(Me(c)) = {c}, OnAir(call[c].seen.playing),
                      NEW u \in MembersOf(call[c].jam) \ {Me(c)},
                      u \in call[c].rest, u \notin call'[c].rest
               PROVE  \E r \in call'[c].recap : r.of = u /\ Me(c) \in r.people
    BY DEF Me
  <2>1. Sound /\ call \in [Clients -> Calls] /\ u \in Users
    BY DEF IInv, Sound, MembersOf
  <2>2. call'[c] # call[c]
    OBVIOUS
  <2>3. ~ Begun(c)
    BY NoCallFits DEF Begun, Begins, At
  <2>4. \A e \in Clients : Begun(e) \/ GoOn(e) => e = c
    <3>1. ASSUME NEW e \in Clients, Begun(e) \/ GoOn(e), e # c PROVE FALSE
      <4>1. PICK h : call' = [call EXCEPT ![e] = h]
        BY <2>1, <3>1, HandlersGoOn DEF Begun
      <4> QED
        BY <2>1, <2>2, <3>1, <4>1
    <3> QED
      BY <3>1
  <2>5. GoOn(c)
    BY <2>1, <2>2, <2>3, <2>4, StepsAre
  <2>6. PICK v \in Users : RememberOne(c, v)
    BY <2>5
    DEF GoOn, InsertJam, InsertTrack, InsertMember, Remember, Keep, Part, Left,
        Delete, Approve, Remove, VoteSkip, RetireSkipped, ClearSkipped, At
  <2>7. PICK q \in Calls : q = call[c]
    BY <2>1
  <2>8. PICK S : S = RecapOf(v, q.jam, q.seen, TRUE)
    OBVIOUS
  <2>9. PICK h : h = [q EXCEPT !.at = "keep", !.rest = q.rest \ {v}, !.recap = S]
    OBVIOUS
  <2>10. h.rest = q.rest \ {v} /\ h.recap = S
    BY <2>9 DEF Calls
  <2>11. call'[c] = h
    BY <2>1, <2>6, <2>7, <2>8, <2>9 DEF RememberOne, Turn
  <2>12. u = v
    BY <2>7, <2>10, <2>11
  <2>13. \E r \in RecapOf(u, call[c].jam, call[c].seen, TRUE) :
            r.of = u /\ Me(c) \in r.people
    BY <2>1, <2>6, <2>12, RemembersTheCreator
  <2> QED
    BY <2>7, <2>8, <2>10, <2>11, <2>12, <2>13
<1>2. Spec => []IInv
  BY RoomsStaySound
<1> QED
  BY <1>1, <1>2, PTL DEF Spec, EndingIsRemembered

-----------------------------------------------------------------------------
(***************************************************************************)
(* Devices: what is true between the steps of its handlers.                *)
(***************************************************************************)
DevSteps == {"idle", "write", "row", "wipe", "copies", "node", "now", "share",
             "lan", "keys", "reuse", "mint", "announce", "frame", "answer",
             "hold", "note"}
Sharing == {"share", "lan", "keys", "reuse", "mint", "announce", "frame", "answer"}

DevCalls ==
  [op : {"none", "register", "report", "ask", "hold"}, at : DevSteps,
   track : Tracks \cup {Blank}, seal : {"keep", "seal", "clear"},
   to : SUBSET Devices, name : Petnames \cup {Invented, Blank}, custom : BOOLEAN,
   hash : Hashes \cup {Blank}, host : Devices \cup {Blank},
   for : Accounts \cup {Blank}, rest : SUBSET Accounts, bound : SUBSET Devices,
   token : 0..MaxTokens, deaf : BOOLEAN, gone : SUBSET Devices, added : SUBSET Devices]

(* What a handler holds at each of its steps. *)
DevFits(r) ==
  /\ r \in DevCalls
  /\ r.at \in Sharing => r.host \in Devices /\ r.for \in Accounts
  /\ r.at = "hold" => r.hash \in Hashes
  /\ r.custom => r.name \in Petnames
  /\ r.at = "announce" => r.token # 0
  /\ r.token # 0 => r.at \in {"announce", "frame", "answer"}
  /\ r.to # {} => r.seal = "seal"
  /\ r.at \in {"wipe", "copies"} => r.seal # "keep"

DevKinds ==
  /\ DevicesTypeOK /\ req \in [Devices -> DevCalls]
  /\ \A c \in Devices : DevFits(req[c])
  /\ \A x \in Devices \X Accounts : grants[x].reusable => grants[x].token # 0

(* A registration without a name holds the one the account chose, unless   *)
(* it was overtaken.                                                       *)
NamesHeld ==
  /\ NamesAreKept
  /\ \A c \in Devices \ overtaken :
       /\ Stands(c, "write") /\ ~req[c].custom /\ chosen[c] # Blank
       => req[c].name = chosen[c]

(* What a report has written of the row is what it is about to write of    *)
(* the copies.                                                             *)
Reported(c) ==
  /\ Stands(c, "row") /\ req[c].seal = "keep"
       => rows[c] = NoRow \/ rows[c].track = req[c].track
  /\ Stands(c, "wipe") \/ Stands(c, "copies")
       => /\ rows[c].track = req[c].track
          /\ rows[c].sealed <=> req[c].seal = "seal"
  /\ Stands(c, "copies") => copies[c].to = {}
Written == CopiesDescribeTheTrack /\ \A c \in Devices : Reported(c)

(* A token stands for one set of keys wherever it is held.                 *)
OneMeaning ==
  /\ \A x, y \in Devices \X Accounts :
       grants[x].token = grants[y].token /\ grants[x].token # 0
         => grants[x].bound = grants[y].bound
  /\ \A c \in Devices : req[c].token # 0 =>
       /\ \A x \in Devices \X Accounts :
            grants[x].token = req[c].token => grants[x].bound = req[c].bound
       /\ \A e \in Devices :
            req[e].token = req[c].token => req[e].bound = req[c].bound

(* A hand-out under way is bound to the keys there are, give or take what  *)
(* it saw come and go, and once announced the host's app knows it.         *)
HandOut(c) ==
  /\ req[c].token # 0 \/ req[c].at \in {"reuse", "mint"} =>
       /\ req[c].bound \ KeysOf(req[c].for) \subseteq req[c].gone
       /\ KeysOf(req[c].for) \ req[c].bound \subseteq req[c].added
  /\ req[c].token # 0 /\ req[c].at # "announce" /\ ~req[c].deaf =>
       [token |-> req[c].token, bound |-> req[c].bound] \in accepts[req[c].host]

HandedOut == OneMeaning /\ \A c \in Devices : HandOut(c)

DevInv == DevKinds /\ NamesHeld /\ Written /\ HandedOut

(* The tables of each part of the state. *)
NodeType ==
  /\ nodes \in [Devices -> Petnames \cup {Invented, Blank}]
  /\ chosen \in [Devices -> Petnames \cup {Blank}] /\ overtaken \subseteq Devices
PeerType ==
  /\ sockets \in [Devices -> SUBSET {1, 2}]
  /\ cur \in [Devices -> 0..2]
  /\ \A d \in Devices : cur[d] \in sockets[d] \cup {0}
  /\ live \in [Devices -> [lan : BOOLEAN, egress : Nets \cup {Blank}]]
GrantType ==
  /\ grants \in [Devices \X Accounts -> Grant]
  /\ accepts \in [Devices -> SUBSET [token : 1..MaxTokens, bound : SUBSET Devices]]
  /\ keys \subseteq Devices
  /\ \A x \in Devices \X Accounts : grants[x].reusable => grants[x].token # 0
PlayType ==
  /\ rows \in [Devices -> [track : Tracks \cup {Blank}, sealed : BOOLEAN,
                           at : 0..MaxNow]]
  /\ recent \subseteq Devices \X Devices
  /\ copies \in [Devices -> [track : Tracks \cup {Blank}, to : SUBSET Devices,
                             at : 0..MaxNow]]
  /\ torn \subseteq Devices /\ heard \in [Accounts -> Tracks \cup {Blank}]
OfferType ==
  /\ holdings \subseteq Devices \X Hashes /\ inbox \subseteq Accounts
  /\ stage \in {"wait", "collect", "announce"} /\ batch \subseteq Accounts
  /\ todo \subseteq Devices /\ diff \subseteq Devices \X Hashes
  /\ offered \in [Devices -> SUBSET Hashes]
ReqsFit == req \in [Devices -> DevCalls] /\ \A c \in Devices : DevFits(req[c])

LEMMA KindsAre ==
  /\ DevKinds <=> /\ NodeType /\ PeerType /\ GrantType /\ PlayType /\ OfferType
                  /\ ReqsFit /\ now \in 0..MaxNow
  /\ DevKinds' <=> /\ NodeType' /\ PeerType' /\ GrantType' /\ PlayType' /\ OfferType'
                   /\ ReqsFit' /\ now' \in 0..MaxNow
BY DEF DevKinds, DevicesTypeOK, NodeType, PeerType, GrantType, PlayType, OfferType,
       ReqsFit

LEMMA IdleFits ==
  /\ DevFits(Idle) /\ Idle \in DevCalls /\ Idle.at = "idle" /\ Idle.token = 0 /\ Idle.deaf = FALSE
  /\ Idle.to = {} /\ Idle.custom = FALSE
BY DevicesAssumption DEF DevFits, Idle, DevCalls, DevSteps, Sharing

LEMMA GoFits ==
  ASSUME ReqsFit, NEW c \in Devices, NEW r, DevFits(r), Go(c, r)
  PROVE  ReqsFit' /\ req'[c] = r /\ \A e \in Devices \ {c} : req'[e] = req[e]
BY DEF ReqsFit, Go, DevFits

LEMMA FinishFits ==
  ASSUME ReqsFit, NEW c \in Devices, Finish(c)
  PROVE  ReqsFit' /\ req'[c] = Idle /\ \A e \in Devices \ {c} : req'[e] = req[e]
BY GoFits, IdleFits DEF Finish

(* On to a step that asks nothing of what is held. *)
LEMMA ThenFits ==
  ASSUME ReqsFit, NEW c \in Devices, NEW step \in DevSteps, Then(c, step),
         step # "hold", step \in {"wipe", "copies"} => req[c].seal # "keep",
         step \in Sharing => req[c].host \in Devices /\ req[c].for \in Accounts,
         req[c].token # 0 => step \in {"announce", "frame", "answer"},
         step # "announce"
  PROVE  /\ ReqsFit' /\ req'[c].at = step
         /\ req'[c] = [req[c] EXCEPT !.at = step]
         /\ \A e \in Devices \ {c} : req'[e] = req[e]
<1> DEFINE r == [req[c] EXCEPT !.at = step]
<1>1. req[c] \in DevCalls /\ DevFits(req[c])
  BY DEF ReqsFit
<1>2. /\ r \in DevCalls /\ r.at = step /\ r.host = req[c].host /\ r.for = req[c].for
      /\ r.hash = req[c].hash /\ r.custom = req[c].custom /\ r.name = req[c].name
      /\ r.token = req[c].token /\ r.to = req[c].to /\ r.seal = req[c].seal
  BY <1>1 DEF DevCalls
<1>3. Go(c, r)
  BY DEF Then
<1> HIDE DEF r
<1>4. DevFits(r)
  BY <1>1, <1>2 DEF DevFits
<1>5. QED
  BY <1>2, <1>3, <1>4, GoFits DEF r

(* On to the next listener, with no token yet, or done.                     *)
LEMMA ServeFits ==
  ASSUME ReqsFit, NEW c \in Devices, NEW q \in DevCalls, NEW rest \in SUBSET Accounts,
         q.host \in Devices, q.custom => q.name \in Petnames, q.to # {} => q.seal = "seal",
         Serve(c, q, rest)
  PROVE  /\ ReqsFit' /\ req'[c].token = 0 /\ req'[c].at \in {"idle", "share"}
         /\ \A e \in Devices \ {c} : req'[e] = req[e]
<1>1. CASE Finish(c)
  BY <1>1, FinishFits, IdleFits
<1>2. CASE ~Finish(c)
  <2>1. PICK v \in rest :
          Go(c, [q EXCEPT !.at = "share", !.for = v, !.rest = rest \ {v},
                          !.token = 0, !.deaf = FALSE])
    BY <1>2 DEF Serve
  <2> DEFINE r == [q EXCEPT !.at = "share", !.for = v, !.rest = rest \ {v},
                            !.token = 0, !.deaf = FALSE]
  <2>2. 0 \in 0..MaxTokens /\ v \in Accounts /\ rest \ {v} \in SUBSET Accounts
    BY DevicesAssumption
  <2>3. r \in DevCalls
    BY <2>2, ZenonT(60) DEF DevCalls, DevSteps
  <2>4. /\ r.at = "share" /\ r.host = q.host /\ r.for = v /\ r.token = 0
        /\ r.custom = q.custom /\ r.name = q.name /\ r.to = q.to /\ r.seal = q.seal
    BY DEF DevCalls
  <2> HIDE DEF r
  <2>5. DevFits(r)
    BY <2>2, <2>3, <2>4 DEF DevFits, Sharing
  <2> QED BY <2>1, <2>4, <2>5, GoFits DEF r
<1> QED BY <1>1, <1>2

(***************************************************************************)
(* Steps that only move their handler on, and steps of the collector.      *)
(***************************************************************************)
Talks(c) ==
  \/ Register(c) \/ Play(c) \/ Heartbeat(c) \/ AskPlaying(c) \/ Report(c)
  \/ ReadNow(c) \/ FindRoute(c) \/ FindAddress(c) \/ ReadKeys(c) \/ Reuse(c)
  \/ Answer(c)
Collects == Take \/ Collect \/ \E d \in Devices : OfferSync(d) \/ Forget(d)

LEMMA TalksKeep ==
  ASSUME NEW c \in Devices, Talks(c)
  PROVE  UNCHANGED <<nodeVars, peerVars, grantVars, playVars, offerVars, now>>
BY DEF Talks, Register, Play, Heartbeat, AskPlaying, Report, ReadNow, FindRoute,
       FindAddress, ReadKeys, Reuse, Answer

LEMMA CollectsKeep ==
  ASSUME Collects
  PROVE  UNCHANGED <<nodeVars, peerVars, grantVars, playVars, req, now>>
BY DEF Collects, Take, Collect, Deadline, ListDevices, Diff, Offer, Rest, OfferSync, Forget

LEMMA StepIs ==
  ASSUME [DevicesNext]_devicesVars
  PROVE  \/ UNCHANGED devicesVars
         \/ \E c \in Devices :
              \/ Talks(c) \/ WriteRegistration(c) \/ RenameNode(c)
              \/ DeleteNode(c) \/ ExpireNode(c) \/ Connect(c) \/ UpgradeFails(c)
              \/ Lose(c) \/ Close(c) \/ WriteRow(c) \/ WipeCopies(c) \/ WriteCopies(c)
              \/ SeeNode(c) \/ SendFrame(c) \/ MintGrant(c) \/ Announce(c)
              \/ WriteHolding(c) \/ NoteHolding(c) \/ PublishKey(c) \/ ForgetKey(c)
         \/ Collects \/ AgeGrant \/ SweepPlayback \/ Tick \/ Crash
BY DEF DevicesNext, Handle, Talks, Collects

----------------------------------------------------------------------------
LEMMA TalksFit ==
  ASSUME DevKinds, NEW c \in Devices, Talks(c)
  PROVE  ReqsFit' /\ \A e \in Devices \ {c} : req'[e] = req[e]
<1>0. /\ ReqsFit /\ req[c] \in DevCalls /\ DevFits(req[c]) /\ OwnerOf[c] \in Accounts
      /\ rows \in [Devices -> [track : Tracks \cup {Blank}, sealed : BOOLEAN,
                               at : 0..MaxNow]]
      /\ nodes \in [Devices -> Petnames \cup {Invented, Blank}] /\ keys \subseteq Devices
      /\ grants \in [Devices \X Accounts -> Grant]
      /\ \A x \in Devices \X Accounts : grants[x].reusable => grants[x].token # 0
      /\ MaxTokens \in Nat
  BY KindsAre, DevicesAssumption DEF ReqsFit, NodeType, PlayType, GrantType
<1>1. CASE Register(c)
  <2>1. PICK n \in Petnames \cup {Blank} :
          Go(c, [Idle EXCEPT !.op = "register", !.at = "write", !.custom = n # Blank,
                             !.name = IF n # Blank THEN n ELSE Kept(c)[c]])
    BY <1>1 DEF Register, Begin
  <2>2. Kept(c)[c] \in Petnames \cup {Invented, Blank}
    BY <1>0 DEF Kept
  <2> DEFINE r == [Idle EXCEPT !.op = "register", !.at = "write", !.custom = n # Blank,
                             !.name = IF n # Blank THEN n ELSE Kept(c)[c]]
  <2>3. DevFits(r)
    <3>b. Idle \in DevCalls
      BY IdleFits
    <3>c. PICK m \in Petnames \cup {Invented, Blank} :
            m = IF n # Blank THEN n ELSE Kept(c)[c]
      BY <2>2
    <3>d. PICK b \in BOOLEAN : b <=> n # Blank
      OBVIOUS
    <3>e. r = [Idle EXCEPT !.op = "register", !.at = "write", !.custom = b, !.name = m]
      BY <3>c, <3>d
    <3>f. "write" \in DevSteps
      BY DEF DevSteps
    <3>1. r \in DevCalls
      <4> HIDE DEF r
      <4> QED BY <3>b, <3>e, <3>f, ZenonT(60) DEF DevCalls
    <3>2. /\ r.at = "write" /\ r.token = 0 /\ r.to = {}
          /\ r.custom => r.name \in Petnames
      BY <1>0 DEF Idle
    <3> HIDE DEF r
    <3> QED BY <3>1, <3>2 DEF DevFits, Sharing
  <2> QED BY <1>0, <2>1, <2>3, GoFits
<1>2. CASE Play(c)
  <2>1. PICK t \in Tracks, s \in {"seal", "clear"} :
          Go(c, [Idle EXCEPT !.op = "report", !.at = "row", !.track = t, !.seal = s,
                  !.to = IF s = "seal" THEN {e \in keys : OwnerOf[e] \in Audience(OwnerOf[c])}
                                       ELSE {}])
    BY <1>2 DEF Play, Begin
  <2> DEFINE r == [Idle EXCEPT !.op = "report", !.at = "row", !.track = t, !.seal = s,
                  !.to = IF s = "seal" THEN {e \in keys : OwnerOf[e] \in Audience(OwnerOf[c])}
                                       ELSE {}]
  <2>3. DevFits(r)
    <3>a. {e \in keys : OwnerOf[e] \in Audience(OwnerOf[c])} \subseteq Devices
      BY <1>0
    <3>b. Idle \in DevCalls
      BY IdleFits
    <3>1. r \in DevCalls
      BY <3>a, <3>b, ZenonT(60) DEF DevCalls, DevSteps
    <3>2. /\ r.at \in {"row", "share", "hold"} /\ r.custom = FALSE /\ r.token = 0
          /\ r.at = "share" => r.host \in Devices /\ r.for \in Accounts
          /\ r.at = "hold" => r.hash \in Hashes
          /\ r.to # {} => r.seal = "seal"
      BY <1>0 DEF Idle
    <3> HIDE DEF r
    <3> QED BY <3>1, <3>2 DEF DevFits, Sharing
  <2> QED BY <1>0, <2>1, <2>3, GoFits
<1>3. CASE Heartbeat(c)
  <2> DEFINE r == [Idle EXCEPT !.op = "report", !.at = "row", !.track = rows[c].track]
  <2>3. DevFits(r)
    <3>a. rows[c].track \in Tracks \cup {Blank}
      BY <1>0
    <3>b. Idle \in DevCalls
      BY IdleFits
    <3>1. r \in DevCalls
      BY <3>a, <3>b DEF DevCalls, DevSteps
    <3>2. /\ r.at \in {"row", "share", "hold"} /\ r.custom = FALSE /\ r.token = 0
          /\ r.at = "share" => r.host \in Devices /\ r.for \in Accounts
          /\ r.at = "hold" => r.hash \in Hashes
          /\ r.to # {} => r.seal = "seal"
      BY <1>0 DEF Idle
    <3> HIDE DEF r
    <3> QED BY <3>1, <3>2 DEF DevFits, Sharing
  <2>4. Go(c, r)
    BY <1>3 DEF Heartbeat
  <2> QED BY <1>0, <2>4, <2>3, GoFits
<1>4. CASE AskPlaying(c)
  <2>1. PICK a \in Accounts : \E d \in Latest(a) :
          Go(c, [Idle EXCEPT !.op = "ask", !.at = "share", !.host = d,
                             !.for = OwnerOf[c]])
    BY <1>4 DEF AskPlaying, Begin
  <2>2. PICK d \in Devices : 
          Go(c, [Idle EXCEPT !.op = "ask", !.at = "share", !.host = d,
                             !.for = OwnerOf[c]])
    BY <2>1 DEF Latest, Playing, DevicesOf
  <2> DEFINE r == [Idle EXCEPT !.op = "ask", !.at = "share", !.host = d,
                               !.for = OwnerOf[c]]
  <2>3. DevFits(r)
    <3>a. OwnerOf[c] \in Accounts
      BY <1>0
    <3>b. Idle \in DevCalls
      BY IdleFits
    <3>1. r \in DevCalls
      BY <3>a, <3>b DEF DevCalls, DevSteps
    <3>2. /\ r.at \in {"row", "share", "hold"} /\ r.custom = FALSE /\ r.token = 0
          /\ r.at = "share" => r.host \in Devices /\ r.for \in Accounts
          /\ r.at = "hold" => r.hash \in Hashes
          /\ r.to # {} => r.seal = "seal"
      BY <1>0 DEF Idle
    <3> HIDE DEF r
    <3> QED BY <3>1, <3>2 DEF DevFits, Sharing
  <2> QED BY <1>0, <2>2, <2>3, GoFits
<1>5. CASE Report(c)
  <2>1. PICK h \in Hashes : Go(c, [Idle EXCEPT !.op = "hold", !.at = "hold", !.hash = h])
    BY <1>5 DEF Report, Begin
  <2> DEFINE r == [Idle EXCEPT !.op = "hold", !.at = "hold", !.hash = h]
  <2>3. DevFits(r)
    <3>b. Idle \in DevCalls
      BY IdleFits
    <3>1. r \in DevCalls
      BY <3>b DEF DevCalls, DevSteps
    <3>2. /\ r.at \in {"row", "share", "hold"} /\ r.custom = FALSE /\ r.token = 0
          /\ r.at = "share" => r.host \in Devices /\ r.for \in Accounts
          /\ r.at = "hold" => r.hash \in Hashes
          /\ r.to # {} => r.seal = "seal"
      BY <1>0 DEF Idle
    <3> HIDE DEF r
    <3> QED BY <3>1, <3>2 DEF DevFits, Sharing
  <2> QED BY <1>0, <2>1, <2>3, GoFits
<1>6. CASE ReadNow(c)
  <2>1. CASE Finish(c)
    BY <2>1, <1>0, FinishFits
  <2>2. ASSUME NEW d \in Devices, Serve(c, Found(c, d), Audience(OwnerOf[c]))
        PROVE ReqsFit' /\ \A e \in Devices \ {c} : req'[e] = req[e]
    <3>1. rows[d].track \in Tracks \cup {Blank} /\ Audience(OwnerOf[c]) \in SUBSET Accounts
      BY <1>0 DEF Audience
    <3>2. /\ Found(c, d) \in DevCalls /\ Found(c, d).host = d
          /\ Found(c, d).custom = req[c].custom /\ Found(c, d).name = req[c].name
          /\ Found(c, d).to = req[c].to /\ Found(c, d).seal = req[c].seal
      BY <1>0, <3>1 DEF DevCalls, Found
    <3> QED BY <1>0, <2>2, <3>1, <3>2, ServeFits DEF DevFits
  <2> QED
    BY <1>6, <2>1, <2>2 DEF ReadNow, Latest, Playing, DevicesOf
<1>7. CASE FindRoute(c) \/ FindAddress(c)
  BY <1>0, <1>7, ThenFits
     DEF FindRoute, FindAddress, After, Stands, DevFits, DevSteps, Sharing
<1>8. CASE ReadKeys(c)
  <2> DEFINE r == [req[c] EXCEPT !.at = "reuse", !.bound = KeysOf(req[c].for),
                                 !.gone = {}, !.added = {}]
  <2>1. req[c].at = "keys" /\ KeysOf(req[c].for) \in SUBSET Devices
    BY <1>0, <1>8 DEF ReadKeys, Stands, KeysOf
  <2>2. r \in DevCalls
    BY <1>0, <2>1, ZenonT(60) DEF DevCalls, DevSteps
  <2>3. DevFits(r)
    <3>1. /\ r.at = "reuse" /\ r.host = req[c].host /\ r.for = req[c].for
          /\ r.custom = req[c].custom /\ r.name = req[c].name
          /\ r.token = req[c].token /\ r.to = req[c].to /\ r.seal = req[c].seal
      BY <1>0 DEF DevCalls
    <3>2. req[c].host \in Devices /\ req[c].for \in Accounts /\ req[c].token = 0
      BY <1>0, <2>1 DEF DevFits, Sharing
    <3> HIDE DEF r
    <3> QED BY <1>0, <2>2, <3>1, <3>2 DEF DevFits, Sharing
  <2>4. Go(c, r)
    BY <1>8 DEF ReadKeys
  <2> QED BY <1>0, <2>4, <2>3, GoFits
<1>9. CASE Reuse(c)
  <2>1. CASE Then(c, "mint")
    BY <1>0, <1>9, <2>1, ThenFits DEF Reuse, Stands, DevFits, DevSteps, Sharing
  <2>2. CASE /\ Go(c, [req[c] EXCEPT !.at = "announce", !.token = grants[Key(c)].token])
             /\ grants[Key(c)].reusable
    <3> DEFINE r == [req[c] EXCEPT !.at = "announce", !.token = grants[Key(c)].token]
    <3>1. Key(c) \in Devices \X Accounts
      BY <1>0, <1>9 DEF Key, DevFits, Sharing, Reuse, Stands
    <3>2. grants[Key(c)].token \in 0..MaxTokens /\ grants[Key(c)].token # 0
      BY <1>0, <2>2, <3>1 DEF Grant
    <3>3. r \in DevCalls
      BY <1>0, <3>2, ZenonT(60) DEF DevCalls, DevSteps
    <3>4. /\ r.at = "announce" /\ r.host = req[c].host /\ r.for = req[c].for
          /\ r.custom = req[c].custom /\ r.name = req[c].name
          /\ r.token = grants[Key(c)].token /\ r.to = req[c].to /\ r.seal = req[c].seal
      BY <1>0 DEF DevCalls
    <3>5. req[c].host \in Devices /\ req[c].for \in Accounts
      BY <1>0, <1>9 DEF DevFits, Sharing, Reuse, Stands
    <3>6. DevFits(r)
      <4> HIDE DEF r
      <4> QED BY <1>0, <3>2, <3>3, <3>4, <3>5 DEF DevFits, Sharing
    <3> QED BY <1>0, <2>2, <3>6, GoFits
  <2> QED BY <1>9, <2>1, <2>2 DEF Reuse
<1>10. CASE Answer(c)
  BY <1>0, <1>10, FinishFits DEF Answer
<1> QED
  BY <1>1, <1>2, <1>3, <1>4, <1>5, <1>6, <1>7, <1>8, <1>9, <1>10 DEF Talks

----------------------------------------------------------------------------
(* The other steps, table by table.                                        *)
LEMMA ReqsGoOn ==
  ASSUME DevKinds, NEW c \in Devices
  PROVE  /\ WriteRegistration(c) \/ WriteHolding(c) \/ NoteHolding(c) => ReqsFit'
         /\ WriteRow(c) \/ WipeCopies(c) \/ WriteCopies(c) \/ SeeNode(c) => ReqsFit'
         /\ SendFrame(c) => ReqsFit'
<1>0. ReqsFit /\ req[c] \in DevCalls /\ DevFits(req[c])
  BY KindsAre DEF ReqsFit
<1>1. WriteRegistration(c) \/ NoteHolding(c) => ReqsFit'
  BY <1>0, FinishFits DEF WriteRegistration, NoteHolding
<1>2. WriteHolding(c) => ReqsFit'
  BY <1>0, ThenFits DEF WriteHolding, Stands, DevSteps, Sharing, DevFits
<1>3. WriteRow(c) => ReqsFit'
  BY <1>0, ThenFits DEF WriteRow, Stands, DevSteps, Sharing, DevFits
<1>4. WipeCopies(c) \/ WriteCopies(c) \/ SeeNode(c) => ReqsFit'
  BY <1>0, ThenFits DEF WipeCopies, WriteCopies, SeeNode, Stands, DevSteps, Sharing, DevFits
<1>5. SendFrame(c) => ReqsFit'
  BY <1>0, ServeFits DEF SendFrame, Stands, DevCalls, DevFits, Sharing
<1> QED BY <1>1, <1>2, <1>3, <1>4, <1>5

LEMMA MintFits ==
  ASSUME DevKinds, NEW c \in Devices, NEW k \in 1..MaxTokens, req[c].at = "mint",
         Go(c, [req[c] EXCEPT !.at = "announce", !.token = k])
  PROVE  /\ ReqsFit' /\ req'[c] = [req[c] EXCEPT !.at = "announce", !.token = k]
         /\ \A e \in Devices \ {c} : req'[e] = req[e]
<1>0. ReqsFit /\ req[c] \in DevCalls /\ DevFits(req[c]) /\ k \in 0..MaxTokens
  BY KindsAre, DevicesAssumption DEF ReqsFit
<1> DEFINE r == [req[c] EXCEPT !.at = "announce", !.token = k]
<1>1. r \in DevCalls
  BY <1>0 DEF DevCalls, DevSteps
<1>2. /\ r.at = "announce" /\ r.token = k /\ k # 0
      /\ r.host = req[c].host /\ r.for = req[c].for
      /\ r.custom = req[c].custom /\ r.name = req[c].name
      /\ r.to = req[c].to /\ r.seal = req[c].seal
  BY <1>0 DEF DevCalls
<1>3. Go(c, r)
  OBVIOUS
<1> HIDE DEF r
<1>4. DevFits(r)
  BY <1>0, <1>1, <1>2 DEF DevFits, Sharing
<1>5. QED
  BY <1>0, <1>3, <1>4, GoFits DEF r

LEMMA AnnounceFits ==
  ASSUME DevKinds, NEW c \in Devices, Announce(c)
  PROVE  /\ ReqsFit'
         /\ \A e \in Devices \ {c} : req'[e] = req[e]
<1>0. ReqsFit /\ req[c] \in DevCalls /\ DevFits(req[c]) /\ req[c].at = "announce"
  BY KindsAre DEF ReqsFit, Announce, Stands
<1>1. CASE Then(c, After(c))
  BY <1>0, <1>1, ThenFits DEF After, DevSteps, Sharing, DevFits
<1>2. CASE Go(c, [req[c] EXCEPT !.at = After(c), !.deaf = TRUE])
  <2> DEFINE r == [req[c] EXCEPT !.at = After(c), !.deaf = TRUE]
  <2>1. After(c) \in {"frame", "answer"}
    BY DEF After
  <2>2. r \in DevCalls
    BY <1>0, <2>1 DEF DevCalls, DevSteps
  <2>3. /\ r.at = After(c) /\ r.host = req[c].host /\ r.for = req[c].for
        /\ r.custom = req[c].custom /\ r.name = req[c].name /\ r.token = req[c].token
        /\ r.to = req[c].to /\ r.seal = req[c].seal
    BY <1>0 DEF DevCalls
  <2>4. Go(c, r)
    BY <1>2
  <2> HIDE DEF r
  <2>5. DevFits(r)
    BY <1>0, <2>1, <2>2, <2>3 DEF DevFits, Sharing
  <2> QED BY <1>0, <2>4, <2>5, GoFits
<1> QED BY <1>1, <1>2 DEF Announce

(* What is noted in a request from outside changes nothing else of it.     *)
LEMMA DeafenedFits ==
  ASSUME ReqsFit, NEW d \in Devices, req' = Deafened(d)
  PROVE  /\ ReqsFit'
         /\ \A c \in Devices : \/ req'[c] = req[c] /\ req[c].host # d
                               \/ req'[c] = [req[c] EXCEPT !.deaf = TRUE]
<1>1. ASSUME NEW c \in Devices
      PROVE  DevFits([req[c] EXCEPT !.deaf = TRUE])
  <2>1. req[c] \in DevCalls /\ DevFits(req[c])
    BY DEF ReqsFit
  <2> DEFINE r == [req[c] EXCEPT !.deaf = TRUE]
  <2>2. r \in DevCalls
    BY <2>1 DEF DevCalls
  <2>3. /\ r.at = req[c].at /\ r.host = req[c].host /\ r.for = req[c].for
        /\ r.custom = req[c].custom /\ r.name = req[c].name /\ r.token = req[c].token
        /\ r.to = req[c].to /\ r.seal = req[c].seal /\ r.hash = req[c].hash
    BY <2>1 DEF DevCalls
  <2> HIDE DEF r
  <2>4. DevFits(r)
    BY <2>1, <2>2, <2>3 DEF DevFits
  <2> QED BY <2>4 DEF r
<1>2. \A c \in Devices : req'[c] = IF req[c].host = d THEN [req[c] EXCEPT !.deaf = TRUE]
                                                      ELSE req[c]
  BY DEF Deafened
<1>3. \A c \in Devices : DevFits(req'[c]) /\ req'[c] \in DevCalls
  <2>1. \A c \in Devices : DevFits(req'[c])
    BY <1>1, <1>2 DEF ReqsFit
  <2> QED BY <2>1 DEF DevFits
<1>4. req' \in [Devices -> DevCalls]
  BY <1>3 DEF Deafened
<1> QED BY <1>2, <1>3, <1>4 DEF ReqsFit

LEMMA SeenFits ==
  ASSUME ReqsFit, NEW e \in Devices, NEW field \in {"added", "gone"}, req' = Seen(e, field)
  PROVE  /\ ReqsFit'
         /\ \A c \in Devices :
              \/ req'[c] = req[c] /\ req[c].for # OwnerOf[e]
              \/ field = "added" /\ req'[c] = [req[c] EXCEPT !.added = @ \cup {e}]
              \/ field = "gone" /\ req'[c] = [req[c] EXCEPT !.gone = @ \cup {e}]
<1>1. ASSUME NEW c \in Devices
      PROVE  /\ DevFits([req[c] EXCEPT !.added = @ \cup {e}])
             /\ DevFits([req[c] EXCEPT !.gone = @ \cup {e}])
  <2>1. req[c] \in DevCalls /\ DevFits(req[c])
    BY DEF ReqsFit
  <2> DEFINE r == [req[c] EXCEPT !.added = @ \cup {e}]
             q == [req[c] EXCEPT !.gone = @ \cup {e}]
  <2>2. DevFits(r)
    BY <2>1 DEF DevFits, DevCalls
  <2>3. DevFits(q)
    BY <2>1 DEF DevFits, DevCalls
  <2> QED BY <2>2, <2>3
<1>2. \A c \in Devices : req'[c] =
        IF req[c].for # OwnerOf[e] THEN req[c]
        ELSE IF field = "added" THEN [req[c] EXCEPT !.added = @ \cup {e}]
        ELSE [req[c] EXCEPT !.gone = @ \cup {e}]
  BY DEF Seen
<1>3. \A c \in Devices : DevFits(req'[c]) /\ req'[c] \in DevCalls
  <2>1. \A c \in Devices : DevFits(req'[c])
    BY <1>1, <1>2 DEF ReqsFit
  <2> QED BY <2>1 DEF DevFits
<1>4. req' \in [Devices -> DevCalls]
  BY <1>3 DEF Seen
<1> QED BY <1>2, <1>3, <1>4 DEF ReqsFit

(* Two requests that agree on all but where they stand and what was seen.  *)
Alike(q, r) ==
  /\ q.host = r.host /\ q.for = r.for /\ q.custom = r.custom /\ q.name = r.name
  /\ q.token = r.token /\ q.bound = r.bound /\ q.seal = r.seal /\ q.to = r.to
  /\ q.track = r.track

LEMMA DeafenedIs ==
  ASSUME ReqsFit, NEW d \in Devices, req' = Deafened(d), NEW c \in Devices
  PROVE  /\ Alike(req'[c], req[c]) /\ req'[c].at = req[c].at
         /\ req'[c].gone = req[c].gone /\ req'[c].added = req[c].added
         /\ req'[c].deaf \/ (req'[c].deaf = req[c].deaf /\ req[c].host # d)
<1>1. req[c] \in DevCalls
  BY DEF ReqsFit
<1>2. CASE req'[c] = [req[c] EXCEPT !.deaf = TRUE]
  BY <1>1, <1>2 DEF DevCalls, Alike
<1> QED BY <1>2, DeafenedFits DEF Alike

LEMMA SeenIs ==
  ASSUME ReqsFit, NEW e \in Devices, NEW field \in {"added", "gone"}, req' = Seen(e, field),
         NEW c \in Devices
  PROVE  /\ Alike(req'[c], req[c]) /\ req'[c].at = req[c].at /\ req'[c].deaf = req[c].deaf
         /\ req[c].gone \subseteq req'[c].gone /\ req[c].added \subseteq req'[c].added
         /\ req[c].for = OwnerOf[e] =>
              /\ field = "added" => e \in req'[c].added
              /\ field = "gone" => e \in req'[c].gone
<1>1. req[c] \in DevCalls
  BY DEF ReqsFit
<1>2. CASE field = "added" /\ req'[c] = [req[c] EXCEPT !.added = @ \cup {e}]
  BY <1>1, <1>2 DEF DevCalls, Alike
<1>3. CASE field = "gone" /\ req'[c] = [req[c] EXCEPT !.gone = @ \cup {e}]
  BY <1>1, <1>3 DEF DevCalls, Alike
<1> QED BY <1>2, <1>3, SeenFits DEF Alike

LEMMA AnnounceIs ==
  ASSUME DevKinds, NEW c \in Devices, Announce(c)
  PROVE  /\ Alike(req'[c], req[c]) /\ req'[c].at \in {"frame", "answer"}
         /\ req'[c].gone = req[c].gone /\ req'[c].added = req[c].added
         /\ \/ req'[c].deaf = TRUE /\ UNCHANGED accepts
            \/ accepts' = [accepts EXCEPT ![req[c].host] =
                             Told(req[c].host, req[c].token, req[c].bound)]
<1>1. req[c] \in DevCalls /\ After(c) \in {"frame", "answer"} /\ req \in [Devices -> DevCalls]
  BY KindsAre DEF ReqsFit, After
<1>2. CASE Then(c, After(c))
  <2>1. req'[c] = [req[c] EXCEPT !.at = After(c)]
    BY <1>1, <1>2 DEF Then, Go
  <2>2. /\ Alike(req'[c], req[c]) /\ req'[c].at = After(c)
        /\ req'[c].gone = req[c].gone /\ req'[c].added = req[c].added
    BY <1>1, <2>1 DEF DevCalls, Alike
  <2>3. \/ accepts' = [accepts EXCEPT ![req[c].host] =
                             Told(req[c].host, req[c].token, req[c].bound)]
        \/ Go(c, [req[c] EXCEPT !.at = After(c), !.deaf = TRUE]) /\ UNCHANGED accepts
    BY DEF Announce
  <2>4. ASSUME Go(c, [req[c] EXCEPT !.at = After(c), !.deaf = TRUE])
        PROVE  req'[c].deaf = TRUE
    BY <1>1, <2>4 DEF Go, DevCalls
  <2> QED BY <1>1, <2>2, <2>3, <2>4
<1>3. CASE Go(c, [req[c] EXCEPT !.at = After(c), !.deaf = TRUE]) /\ UNCHANGED accepts
  <2>1. req'[c] = [req[c] EXCEPT !.at = After(c), !.deaf = TRUE]
    BY <1>1, <1>3 DEF Go
  <2>2. /\ Alike(req'[c], req[c]) /\ req'[c].at = After(c) /\ req'[c].deaf = TRUE
        /\ req'[c].gone = req[c].gone /\ req'[c].added = req[c].added
    BY <1>1, <2>1 DEF DevCalls, Alike
  <2> QED BY <1>1, <1>3, <2>2
<1> QED BY <1>2, <1>3 DEF Announce

LEMMA TablesKept ==
  /\ NodeType /\ UNCHANGED nodeVars => NodeType'
  /\ PeerType /\ UNCHANGED peerVars => PeerType'
  /\ GrantType /\ UNCHANGED grantVars => GrantType'
  /\ PlayType /\ UNCHANGED playVars => PlayType'
  /\ OfferType /\ UNCHANGED offerVars => OfferType'
  /\ ReqsFit /\ UNCHANGED req => ReqsFit'
BY DEF NodeType, PeerType, GrantType, PlayType, OfferType, ReqsFit, nodeVars, peerVars,
       grantVars, playVars, offerVars

LEMMA DevKindsStep ==
  ASSUME DevKinds, [DevicesNext]_devicesVars
  PROVE  DevKinds'
<1>0. /\ NodeType /\ PeerType /\ GrantType /\ PlayType /\ OfferType /\ ReqsFit
      /\ now \in 0..MaxNow /\ MaxNow \in Nat /\ MaxTokens \in Nat
      /\ OwnerOf \in [Devices -> Accounts]
  BY KindsAre, DevicesAssumption
<1> USE <1>0
<1>1. CASE UNCHANGED devicesVars
  BY <1>1, KindsAre, TablesKept DEF devicesVars
<1>2. ASSUME NEW c \in Devices, Talks(c) PROVE DevKinds'
  BY <1>2, TalksFit, TalksKeep, TablesKept, KindsAre
<1>3. ASSUME NEW c \in Devices,
             WriteRegistration(c) \/ RenameNode(c) \/ DeleteNode(c) \/ ExpireNode(c)
      PROVE DevKinds'
  <2>1. NodeType'
    <3>1. DevFits(req[c]) /\ req[c].name \in Petnames \cup {Invented, Blank}
      BY DEF ReqsFit, DevFits, DevCalls
    <3> QED BY <1>3, <3>1
          DEF NodeType, WriteRegistration, RenameNode, DeleteNode, ExpireNode, NoLonger, DevFits
  <2>2. PeerType'
    <3>1. CASE UNCHANGED peerVars
      BY <3>1, TablesKept
    <3>2. CASE live' = [live EXCEPT ![c].lan = TRUE] /\ UNCHANGED <<sockets, cur>>
      <4>a. PICK p \in [lan : BOOLEAN, egress : Nets \cup {Blank}] : p = live[c]
        BY DEF PeerType
      <4>b. [p EXCEPT !.lan = TRUE] \in [lan : BOOLEAN, egress : Nets \cup {Blank}]
        OBVIOUS
      <4>1. [live[c] EXCEPT !.lan = TRUE] \in [lan : BOOLEAN, egress : Nets \cup {Blank}]
        BY <4>a, <4>b
      <4>2. live' = [live EXCEPT ![c] = [live[c] EXCEPT !.lan = TRUE]]
        BY <3>2
      <4>3. live' \in [Devices -> [lan : BOOLEAN, egress : Nets \cup {Blank}]]
        BY <4>1, <4>2 DEF PeerType
      <4> QED BY <3>2, <4>3 DEF PeerType
    <3> QED BY <1>3, <3>1, <3>2
          DEF WriteRegistration, RenameNode, DeleteNode, ExpireNode, peerVars
  <2>3. OfferType'
    BY <1>3 DEF OfferType, WriteRegistration, RenameNode, DeleteNode, ExpireNode, offerVars
  <2>4. ReqsFit'
    <3>1. CASE WriteRegistration(c)
      BY <3>1, ReqsGoOn
    <3>2. CASE RenameNode(c) \/ DeleteNode(c) \/ ExpireNode(c)
      BY <3>2, TablesKept DEF RenameNode, DeleteNode, ExpireNode
    <3> QED BY <1>3, <3>1, <3>2
  <2>5. UNCHANGED <<grantVars, playVars, now>>
    BY <1>3 DEF WriteRegistration, RenameNode, DeleteNode, ExpireNode, playVars, grantVars
  <2> QED BY <2>1, <2>2, <2>3, <2>4, <2>5, TablesKept, KindsAre
<1>4. ASSUME NEW c \in Devices, Connect(c) \/ UpgradeFails(c)
      PROVE DevKinds'
  <2>1. Greet(c)
    BY <1>4 DEF Connect, UpgradeFails
  <2>2. NodeType'
    BY <1>4, <2>1 DEF NodeType, Greet, Kept, Connect, UpgradeFails
  <2>3. PeerType'
    <3>1. live' \in [Devices -> [lan : BOOLEAN, egress : Nets \cup {Blank}]]
      BY <2>1 DEF PeerType, Greet, Reached
    <3>2. CASE UpgradeFails(c)
      BY <3>1, <3>2 DEF PeerType, UpgradeFails
    <3>3. CASE Connect(c)
      BY <3>1, <3>3 DEF PeerType, Connect
    <3> QED BY <1>4, <3>2, <3>3
  <2>4. OfferType'
    BY <1>4, <2>1 DEF OfferType, Greet, Note, Connect, UpgradeFails
  <2>5. UNCHANGED <<grantVars, playVars, req, now>>
    BY <1>4 DEF Connect, UpgradeFails, playVars, grantVars
  <2> QED BY <2>2, <2>3, <2>4, <2>5, TablesKept, KindsAre
<1>5. ASSUME NEW c \in Devices, Lose(c) PROVE DevKinds'
  <2>1. PeerType'
    BY <1>5 DEF PeerType, Lose
  <2>2. GrantType'
    BY <1>5 DEF GrantType, Lose
  <2>3. ReqsFit'
    BY <1>5, DeafenedFits, TablesKept DEF Lose
  <2>4. UNCHANGED <<nodeVars, playVars, offerVars, now>>
    BY <1>5 DEF Lose
  <2> QED BY <2>1, <2>2, <2>3, <2>4, TablesKept, KindsAre
<1>6. ASSUME NEW c \in Devices, Close(c) PROVE DevKinds'
  <2>1. PeerType'
    <3>1. NoPeer \in [lan : BOOLEAN, egress : Nets \cup {Blank}]
      BY DEF NoPeer
    <3>2. PICK s \in sockets[c] \ {cur[c]} : sockets' = [sockets EXCEPT ![c] = @ \ {s}]
      BY <1>6 DEF Close
    <3> QED BY <1>6, <3>1, <3>2 DEF PeerType, Close
  <2>2. GrantType'
    <3>1. NoGrant \in Grant
      BY DEF NoGrant, Grant
    <3>2. grants' \in [Devices \X Accounts -> Grant]
      BY <1>6, <3>1 DEF GrantType, Close
    <3>3. \A x \in Devices \X Accounts : grants'[x].reusable => grants'[x].token # 0
      BY <1>6 DEF GrantType, Close, NoGrant
    <3> QED BY <1>6, <3>2, <3>3 DEF GrantType, Close
  <2>4. UNCHANGED <<nodeVars, playVars, offerVars, req, now>>
    BY <1>6 DEF Close
  <2> QED BY <2>1, <2>2, <2>4, TablesKept, KindsAre
<1>7. ASSUME NEW c \in Devices, WriteRow(c) \/ WipeCopies(c) \/ WriteCopies(c)
      PROVE DevKinds'
  <2>0. req[c].track \in Tracks \cup {Blank} /\ req[c].to \subseteq Devices
    BY DEF ReqsFit, DevCalls
  <2>1. ASSUME WriteRow(c) PROVE PlayType'
    <3>1. Session(c) \in [track : Tracks \cup {Blank}, sealed : BOOLEAN, at : 0..MaxNow]
      BY <2>0 DEF Session, PlayType
    <3>2. /\ rows' = [rows EXCEPT ![c] = Session(c)]
          /\ recent' = {x \in recent : x[2] # c} \cup {<<c, d>> : d \in Devices \ {c}}
          /\ UNCHANGED <<copies, torn, heard>>
      BY <2>1 DEF WriteRow
    <3> QED BY <3>1, <3>2 DEF PlayType
  <2>2. ASSUME WipeCopies(c) PROVE PlayType'
    <3>1. NoCopies \in [track : Tracks \cup {Blank}, to : SUBSET Devices, at : 0..MaxNow]
      BY DEF NoCopies
    <3> QED BY <2>2, <3>1 DEF PlayType, WipeCopies
  <2>3. ASSUME WriteCopies(c) PROVE PlayType'
    BY <2>0, <2>3 DEF PlayType, WriteCopies
  <2>4. ReqsFit'
    BY <1>7, ReqsGoOn
  <2>5. UNCHANGED <<nodeVars, peerVars, grantVars, offerVars, now>>
    BY <1>7 DEF WriteRow, WipeCopies, WriteCopies
  <2> QED BY <1>7, <2>1, <2>2, <2>3, <2>4, <2>5, TablesKept, KindsAre
<1>8. ASSUME NEW c \in Devices, SeeNode(c) PROVE DevKinds'
  <2>1. NodeType'
    BY <1>8 DEF NodeType, SeeNode, Kept
  <2>2. ReqsFit'
    BY <1>8, ReqsGoOn
  <2>3. UNCHANGED <<peerVars, grantVars, playVars, offerVars, now>>
    BY <1>8 DEF SeeNode
  <2> QED BY <2>1, <2>2, <2>3, TablesKept, KindsAre
<1>9. ASSUME NEW c \in Devices, SendFrame(c) PROVE DevKinds'
  <2>1. PlayType'
    <3>1. req[c].track \in Tracks \cup {Blank}
      BY DEF ReqsFit, DevCalls
    <3> QED BY <1>9, <3>1 DEF PlayType, SendFrame
  <2>2. ReqsFit'
    BY <1>9, ReqsGoOn
  <2>3. UNCHANGED <<nodeVars, peerVars, grantVars, offerVars, now>>
    BY <1>9 DEF SendFrame
  <2> QED BY <2>1, <2>2, <2>3, TablesKept, KindsAre
<1>10. ASSUME NEW c \in Devices, MintGrant(c) PROVE DevKinds'
  <2>1. PICK k \in 1..MaxTokens :
          /\ grants' = [grants EXCEPT ![Key(c)] =
               [token |-> k, bound |-> req[c].bound, reusable |-> TRUE]]
          /\ accepts' = [d \in Devices |-> {g \in accepts[d] : g.token # k}]
          /\ Go(c, [req[c] EXCEPT !.at = "announce", !.token = k])
    BY <1>10 DEF MintGrant
  <2>2. req[c].at = "mint" /\ UNCHANGED keys
    BY <1>10 DEF MintGrant, Stands
  <2>3. ReqsFit'
    BY <2>1, <2>2, MintFits
  <2>4. GrantType'
    <3>1. [token |-> k, bound |-> req[c].bound, reusable |-> TRUE] \in Grant
      BY DEF Grant, ReqsFit, DevCalls
    <3>2. grants' \in [Devices \X Accounts -> Grant]
      BY <2>1, <3>1 DEF GrantType
    <3>3. \A x \in Devices \X Accounts : grants'[x].reusable => grants'[x].token # 0
      BY <2>1 DEF GrantType
    <3>4. accepts' \in [Devices -> SUBSET [token : 1..MaxTokens, bound : SUBSET Devices]]
      BY <2>1 DEF GrantType
    <3> QED BY <2>2, <3>2, <3>3, <3>4 DEF GrantType
  <2>5. UNCHANGED <<nodeVars, peerVars, playVars, offerVars, now>>
    BY <1>10 DEF MintGrant
  <2> QED BY <2>3, <2>4, <2>5, TablesKept, KindsAre
<1>11. ASSUME NEW c \in Devices, Announce(c) PROVE DevKinds'
  <2>1. ReqsFit'
    BY <1>11, AnnounceFits
  <2>2. GrantType'
    <3>1. req[c].bound \subseteq Devices /\ req[c].token \in 0..MaxTokens
      BY DEF ReqsFit, DevCalls
    <3>2. UNCHANGED <<grants, keys>>
      BY <1>11 DEF Announce
    <3>3. CASE UNCHANGED accepts
      BY <3>2, <3>3 DEF GrantType
    <3>4. CASE accepts' = [accepts EXCEPT ![req[c].host] =
                             Told(req[c].host, req[c].token, req[c].bound)]
      <4>1. req[c].token # 0 => req[c].token \in 1..MaxTokens
        BY <3>1
      <4>2. req[c].at = "announce" 
        BY <1>11 DEF Announce, Stands
      <4> DEFINE h == req[c].host
      <4>3. h \in Devices
        BY <4>2 DEF ReqsFit, DevFits, Sharing
      <4>4. accepts[h] \subseteq [token : 1..MaxTokens, bound : SUBSET Devices]
        BY <4>3 DEF GrantType
      <4>5. Told(h, req[c].token, req[c].bound) \subseteq
              [token : 1..MaxTokens, bound : SUBSET Devices]
        BY <3>1, <4>1, <4>2, <4>4 DEF Told, ReqsFit, DevFits
      <4> QED BY <3>2, <3>4, <4>3, <4>5 DEF GrantType
    <3> QED BY <1>11, <3>3, <3>4 DEF Announce
  <2>3. UNCHANGED <<nodeVars, peerVars, playVars, offerVars, now>>
    BY <1>11 DEF Announce
  <2> QED BY <2>1, <2>2, <2>3, TablesKept, KindsAre
<1>12. ASSUME NEW c \in Devices, WriteHolding(c) \/ NoteHolding(c) PROVE DevKinds'
  <2>1. ReqsFit'
    BY <1>12, ReqsGoOn
  <2>2. OfferType'
    <3>1. DevFits(req[c])
      BY DEF ReqsFit
    <3> QED BY <1>12, <3>1 DEF OfferType, WriteHolding, NoteHolding, Note, Stands, DevFits
  <2>3. UNCHANGED <<nodeVars, peerVars, grantVars, playVars, now>>
    BY <1>12 DEF WriteHolding, NoteHolding
  <2> QED BY <2>1, <2>2, <2>3, TablesKept, KindsAre
<1>13. ASSUME NEW c \in Devices, PublishKey(c) PROVE DevKinds'
  <2>1. ReqsFit'
    BY <1>13, SeenFits DEF PublishKey
  <2>2. GrantType'
    BY <1>13 DEF GrantType, PublishKey
  <2>3. UNCHANGED <<nodeVars, peerVars, playVars, offerVars, now>>
    BY <1>13 DEF PublishKey
  <2> QED BY <2>1, <2>2, <2>3, TablesKept, KindsAre
<1>14. ASSUME NEW c \in Devices, ForgetKey(c) PROVE DevKinds'
  <2>1. ReqsFit'
    BY <1>14, SeenFits DEF ForgetKey
  <2>2. GrantType'
    BY <1>14 DEF GrantType, ForgetKey
  <2>3. PlayType'
    <3>1. ASSUME NEW d \in Devices
          PROVE Without(d, c) \in [track : Tracks \cup {Blank}, to : SUBSET Devices,
                                   at : 0..MaxNow]
      BY DEF Without, NoCopies, PlayType
    <3> QED BY <1>14, <3>1 DEF PlayType, ForgetKey
  <2>4. UNCHANGED <<nodeVars, peerVars, offerVars, now>>
    BY <1>14 DEF ForgetKey
  <2> QED BY <2>1, <2>2, <2>3, <2>4, TablesKept, KindsAre
<1>15. CASE Collects
  <2>1. OfferType'
    <3>1. CASE Take
      BY <3>1 DEF OfferType, Take
    <3>2. CASE Deadline \/ Rest
      BY <3>2 DEF OfferType, Deadline, Rest
    <3>3. CASE ListDevices
      BY <3>3 DEF OfferType, ListDevices, DevicesOf
    <3>4. CASE Diff
      <4>1. PICK d \in todo : \/ todo' = todo \ {d} /\ UNCHANGED diff
                              \/ diff' = {<<d, h>> : h \in Missing(d)} /\ UNCHANGED todo
        BY <3>4 DEF Diff
      <4>2. Missing(d) \subseteq Hashes
        BY DEF Missing
      <4> QED BY <3>4, <4>1, <4>2 DEF OfferType, Diff
    <3>5. ASSUME NEW pairs \in SUBSET (Devices \X Hashes), Hear(pairs)
          PROVE offered' \in [Devices -> SUBSET Hashes]
      BY <3>5 DEF Hear, OfferType
    <3>6. CASE Offer
      BY <3>5, <3>6 DEF OfferType, Offer
    <3>7. ASSUME NEW d \in Devices, OfferSync(d) PROVE OfferType'
      <4>1. {<<d, h>> : h \in Missing(d)} \in SUBSET (Devices \X Hashes)
        BY DEF Missing
      <4> QED BY <3>5, <3>7, <4>1 DEF OfferType, OfferSync
    <3>8. ASSUME NEW d \in Devices, Forget(d) PROVE OfferType'
      BY <3>8 DEF OfferType, Forget
    <3> QED BY <1>15, <3>1, <3>2, <3>3, <3>4, <3>6, <3>7, <3>8 DEF Collects, Collect
  <2> QED BY <1>15, <2>1, CollectsKeep, TablesKept, KindsAre
<1>16. CASE AgeGrant
  <2>1. GrantType'
    <3>1. PICK x \in DOMAIN grants : grants' = [grants EXCEPT ![x].reusable = FALSE]
      BY <1>16 DEF AgeGrant
    <3>2. x \in Devices \X Accounts /\ grants[x] \in Grant
      BY <3>1 DEF GrantType
    <3>3. [grants[x] EXCEPT !.reusable = FALSE] \in Grant
      BY <3>2 DEF Grant
    <3>4. grants' = [grants EXCEPT ![x] = [grants[x] EXCEPT !.reusable = FALSE]]
      BY <3>1
    <3>5. [grants[x] EXCEPT !.reusable = FALSE].reusable = FALSE
      BY <3>2 DEF Grant
    <3>6. grants' \in [Devices \X Accounts -> Grant]
      BY <3>2, <3>3, <3>4 DEF GrantType
    <3>7. \A y \in Devices \X Accounts : grants'[y].reusable => grants'[y].token # 0
      BY <3>2, <3>4, <3>5 DEF GrantType
    <3> QED BY <1>16, <3>6, <3>7 DEF GrantType, AgeGrant
  <2> QED BY <1>16, <2>1, TablesKept, KindsAre DEF AgeGrant
<1>17. CASE SweepPlayback
  <2>1. NoRow \in [track : Tracks \cup {Blank}, sealed : BOOLEAN, at : 0..MaxNow]
    BY DEF NoRow
  <2>2. NoCopies \in [track : Tracks \cup {Blank}, to : SUBSET Devices, at : 0..MaxNow]
    BY DEF NoCopies
  <2>3. PlayType'
    BY <1>17, <2>1, <2>2 DEF PlayType, SweepPlayback, Swept
  <2> QED BY <1>17, <2>3, TablesKept, KindsAre DEF SweepPlayback
<1>18. CASE Tick
  BY <1>18, TablesKept, KindsAre DEF Tick
<1>19. CASE Crash
  <2>1. PeerType'
    <3>1. NoPeer \in [lan : BOOLEAN, egress : Nets \cup {Blank}]
      BY DEF NoPeer
    <3> QED BY <1>19, <3>1 DEF PeerType, Crash
  <2>2. GrantType'
    <3>1. NoGrant \in Grant
      BY DEF NoGrant, Grant
    <3>2. grants' \in [Devices \X Accounts -> Grant]
      BY <1>19, <3>1 DEF GrantType, Crash
    <3>3. \A x \in Devices \X Accounts : ~grants'[x].reusable
      BY <1>19 DEF GrantType, Crash, NoGrant
    <3> QED BY <1>19, <3>2, <3>3 DEF GrantType, Crash
  <2>3. PlayType' /\ OfferType'
    BY <1>19 DEF PlayType, OfferType, Crash, Writing
  <2>4. ReqsFit'
    BY <1>19, IdleFits DEF ReqsFit, Crash
  <2>5. UNCHANGED <<nodeVars, now>>
    BY <1>19 DEF Crash
  <2> QED BY <2>1, <2>2, <2>3, <2>4, <2>5, TablesKept, KindsAre
<1> QED
  BY <1>1, <1>2, <1>3, <1>4, <1>5, <1>6, <1>7, <1>8, <1>9, <1>10, <1>11, <1>12,
     <1>13, <1>14, <1>15, <1>16, <1>17, <1>18, <1>19, StepIs

----------------------------------------------------------------------------
(* Where a handler that only moves on comes to stand.                      *)
LEMMA TalksTo ==
  ASSUME DevKinds, NEW c \in Devices, Talks(c)
  PROVE  /\ req'[c].at = "write" => Register(c)
         /\ req'[c].at = "row" => Play(c) \/ Heartbeat(c)
         /\ req'[c].at \notin {"wipe", "copies"}
         /\ req'[c].token # 0 => Reuse(c)
         /\ req'[c].at \in {"reuse", "mint"} => ReadKeys(c) \/ Reuse(c)
<1>0. /\ req \in [Devices -> DevCalls] /\ req[c] \in DevCalls /\ DevFits(req[c])
      /\ ReqsFit /\ OwnerOf \in [Devices -> Accounts]
      /\ rows \in [Devices -> [track : Tracks \cup {Blank}, sealed : BOOLEAN,
                               at : 0..MaxNow]]
  BY KindsAre, DevicesAssumption DEF ReqsFit, PlayType
<1>1. CASE Register(c)
  <2>1. PICK n \in Petnames \cup {Blank} :
          Go(c, [Idle EXCEPT !.op = "register", !.at = "write", !.custom = n # Blank,
                             !.name = IF n # Blank THEN n ELSE Kept(c)[c]])
    BY <1>1 DEF Register, Begin
  <2>2. req'[c].at = "write" /\ req'[c].token = 0
    BY <1>0, <2>1 DEF Go, Idle
  <2> QED BY <1>1, <2>2
<1>2. CASE Play(c) \/ Heartbeat(c)
  <2>1. req'[c].at = "row" /\ req'[c].token = 0
    <3>1. CASE Play(c)
      <4>1. PICK t \in Tracks, s \in {"seal", "clear"} :
          Go(c, [Idle EXCEPT !.op = "report", !.at = "row", !.track = t, !.seal = s,
                  !.to = IF s = "seal" THEN {e \in keys : OwnerOf[e] \in Audience(OwnerOf[c])}
                                       ELSE {}])
        BY <3>1 DEF Play, Begin
      <4> DEFINE to == IF s = "seal" THEN {e \in keys : OwnerOf[e] \in Audience(OwnerOf[c])}
                                     ELSE {}
                 r == [Idle EXCEPT !.op = "report", !.at = "row", !.track = t, !.seal = s,
                                   !.to = to]
      <4>2. req'[c] = r
        BY <1>0, <4>1 DEF Go
      <4>3. r.at = "row" /\ r.token = 0
        BY DEF Idle
      <4> QED BY <4>2, <4>3
    <3>2. CASE Heartbeat(c)
      BY <1>0, <3>2 DEF Heartbeat, Go, Idle
    <3> QED BY <1>2, <3>1, <3>2
  <2> QED BY <1>2, <2>1
<1>3. CASE AskPlaying(c)
  <2>1. req'[c].at = "share" /\ req'[c].token = 0
    BY <1>0, <1>3 DEF AskPlaying, Begin, Go, Idle
  <2> QED BY <2>1
<1>4. CASE Report(c)
  <2>1. req'[c].at = "hold" /\ req'[c].token = 0
    BY <1>0, <1>4 DEF Report, Begin, Go, Idle
  <2> QED BY <2>1
<1>5. CASE ReadNow(c)
  <2>1. ASSUME NEW d \in Devices, Serve(c, Found(c, d), Audience(OwnerOf[c]))
        PROVE req'[c].at \in {"idle", "share"} /\ req'[c].token = 0
    <3>1. rows[d].track \in Tracks \cup {Blank} /\ Audience(OwnerOf[c]) \in SUBSET Accounts
      BY <1>0 DEF Audience
    <3>2. /\ Found(c, d) \in DevCalls /\ Found(c, d).host = d
          /\ Found(c, d).custom = req[c].custom /\ Found(c, d).name = req[c].name
          /\ Found(c, d).to = req[c].to /\ Found(c, d).seal = req[c].seal
      BY <1>0, <3>1 DEF DevCalls, Found
    <3> QED BY <1>0, <2>1, <3>1, <3>2, ServeFits DEF DevFits
  <2>2. ASSUME Finish(c) PROVE req'[c].at = "idle" /\ req'[c].token = 0
    BY <1>0, <2>2, FinishFits, IdleFits
  <2> QED BY <1>5, <2>1, <2>2 DEF ReadNow, Latest, Playing, DevicesOf
<1>6. CASE FindRoute(c) \/ FindAddress(c)
  <2>1. req[c].token = 0
    BY <1>0, <1>6 DEF FindRoute, FindAddress, Stands, DevFits
  <2>2. /\ req'[c].at \in {"lan", "keys", "frame", "answer"}
        /\ req'[c].token = req[c].token
    BY <1>0, <1>6 DEF FindRoute, FindAddress, Then, Go, After, DevCalls
  <2> QED BY <2>1, <2>2
<1>7. CASE ReadKeys(c)
  <2>1. req[c].token = 0
    BY <1>0, <1>7 DEF ReadKeys, Stands, DevFits
  <2>2. req'[c].at = "reuse" /\ req'[c].token = req[c].token
    BY <1>0, <1>7 DEF ReadKeys, Go, DevCalls
  <2> QED BY <1>7, <2>1, <2>2
<1>8. CASE Reuse(c)
  <2>1. req'[c].at \in {"announce", "mint"}
    <3>1. CASE Then(c, "mint")
      BY <1>0, <3>1 DEF Then, Go, DevCalls
    <3>2. CASE Go(c, [req[c] EXCEPT !.at = "announce", !.token = grants[Key(c)].token])
      BY <1>0, <3>2 DEF Go, DevCalls
    <3> QED BY <1>8, <3>1, <3>2 DEF Reuse
  <2> QED BY <1>8, <2>1
<1>9. CASE Answer(c)
  BY <1>0, <1>9, FinishFits, IdleFits DEF Answer
<1> QED
  BY <1>1, <1>2, <1>3, <1>4, <1>5, <1>6, <1>7, <1>8, <1>9 DEF Talks

(* Steps of a handler that go on to none of those.                         *)
LEMMA HandlersTo ==
  ASSUME DevKinds, NEW c \in Devices
  PROVE  /\ WriteRegistration(c) \/ NoteHolding(c) =>
              /\ req'[c] = Idle
              /\ \A e \in Devices \ {c} : req'[e] = req[e]
         /\ WriteHolding(c) =>
              /\ req'[c].at = "note" /\ req'[c].token = 0
              /\ \A e \in Devices \ {c} : req'[e] = req[e]
         /\ SeeNode(c) =>
              /\ req'[c].at = "now" /\ req'[c].token = 0
              /\ \A e \in Devices \ {c} : req'[e] = req[e]
         /\ SendFrame(c) =>
              /\ req'[c].at \in {"idle", "share"} /\ req'[c].token = 0
              /\ \A e \in Devices \ {c} : req'[e] = req[e]
<1>0. ReqsFit /\ req[c] \in DevCalls /\ DevFits(req[c])
  BY KindsAre DEF ReqsFit
<1>1. ASSUME WriteRegistration(c) \/ NoteHolding(c)
      PROVE  /\ req'[c] = Idle
             /\ \A e \in Devices \ {c} : req'[e] = req[e]
  BY <1>0, <1>1, FinishFits DEF WriteRegistration, NoteHolding
<1>2. ASSUME WriteHolding(c)
      PROVE  /\ req'[c].at = "note" /\ req'[c].token = 0
             /\ \A e \in Devices \ {c} : req'[e] = req[e]
  <2>1. req[c].at = "hold" /\ req[c].token = 0
    BY <1>0, <1>2 DEF WriteHolding, Stands, DevFits
  <2> QED BY <1>0, <1>2, <2>1 DEF WriteHolding, Then, Go, DevCalls, ReqsFit
<1>3. ASSUME SeeNode(c)
      PROVE  /\ req'[c].at = "now" /\ req'[c].token = 0
             /\ \A e \in Devices \ {c} : req'[e] = req[e]
  <2>1. req[c].at = "node" /\ req[c].token = 0
    BY <1>0, <1>3 DEF SeeNode, Stands, DevFits
  <2> QED BY <1>0, <1>3, <2>1 DEF SeeNode, Then, Go, DevCalls, ReqsFit
<1>4. ASSUME SendFrame(c)
      PROVE  /\ req'[c].at \in {"idle", "share"} /\ req'[c].token = 0
             /\ \A e \in Devices \ {c} : req'[e] = req[e]
  BY <1>0, <1>4, ServeFits DEF SendFrame, Stands, DevCalls, DevFits, Sharing
<1> QED BY <1>1, <1>2, <1>3, <1>4

(* The steps of a report, and those that come from outside, leave a        *)
(* handler where it is or take it on to a step of its own.                 *)
LEMMA ReportsTo ==
  ASSUME DevKinds, NEW c \in Devices, WriteRow(c) \/ WipeCopies(c) \/ WriteCopies(c)
  PROVE  /\ Alike(req'[c], req[c]) /\ req'[c].token = 0
         /\ WriteRow(c) => req'[c].at = IF req[c].seal = "keep" THEN "node" ELSE "wipe"
         /\ WipeCopies(c) => req'[c].at = "copies"
         /\ WriteCopies(c) => req'[c].at = "node"
         /\ req'[c].at \in {"wipe", "copies", "node"}
         /\ \A e \in Devices \ {c} : req'[e] = req[e]
<1>0. req \in [Devices -> DevCalls] /\ DevFits(req[c]) /\ req[c] \in DevCalls
  BY KindsAre DEF ReqsFit
<1>1. req[c].token = 0
  BY <1>0 DEF WriteRow, WipeCopies, WriteCopies, Stands, DevFits
<1>2. ASSUME NEW at, Then(c, at)
      PROVE  /\ Alike(req'[c], req[c]) /\ req'[c].at = at
             /\ \A e \in Devices \ {c} : req'[e] = req[e]
  <2>1. req'[c] = [req[c] EXCEPT !.at = at] /\ \A e \in Devices \ {c} : req'[e] = req[e]
    BY <1>0, <1>2 DEF Then, Go
  <2> QED BY <1>0, <2>1 DEF DevCalls, Alike
<1>3. /\ WriteRow(c) => req[c].at = "row"
      /\ WipeCopies(c) => req[c].at = "wipe"
      /\ WriteCopies(c) => req[c].at = "copies"
  BY DEF WriteRow, WipeCopies, WriteCopies, Stands
<1>4. CASE WriteRow(c)
  BY <1>1, <1>2, <1>3, <1>4 DEF Alike, WriteRow
<1>5. CASE WipeCopies(c)
  BY <1>1, <1>2, <1>3, <1>5 DEF Alike, WipeCopies
<1>6. CASE WriteCopies(c)
  BY <1>1, <1>2, <1>3, <1>6 DEF Alike, WriteCopies
<1> QED
  BY <1>4, <1>5, <1>6

LEMMA NamesHold ==
  ASSUME NamesHeld, UNCHANGED <<chosen, overtaken>>,
         \A d \in Devices : nodes[d] # Blank => nodes'[d] = nodes[d],
         \A d \in Devices : req'[d].at = "write" =>
           req[d].at = "write" /\ req'[d].custom = req[d].custom /\ req'[d].name = req[d].name
  PROVE  NamesHeld'
BY DEF NamesHeld, NamesAreKept, Stands

LEMMA NamesStep ==
  ASSUME DevKinds, NamesHeld, [DevicesNext]_devicesVars
  PROVE  NamesHeld'
<1>0. /\ ReqsFit /\ NodeType /\ req \in [Devices -> DevCalls]
      /\ Blank \notin Petnames \cup {Invented}
      /\ \A d \in Devices : DevFits(req[d])
  BY KindsAre, DevicesAssumption DEF ReqsFit
<1>a. ASSUME UNCHANGED <<nodeVars, req>> PROVE NamesHeld'
  BY <1>a DEF NamesHeld, NamesAreKept, Stands, nodeVars
<1>1. CASE UNCHANGED devicesVars
  BY <1>1, <1>a DEF devicesVars
<1>2. ASSUME NEW c \in Devices, Register(c) PROVE NamesHeld'
  <2>1. PICK n \in Petnames \cup {Blank} :
          Go(c, [Idle EXCEPT !.op = "register", !.at = "write", !.custom = n # Blank,
                             !.name = IF n # Blank THEN n ELSE Kept(c)[c]])
    BY <1>2 DEF Register, Begin
  <2> DEFINE r == [Idle EXCEPT !.op = "register", !.at = "write", !.custom = n # Blank,
                               !.name = IF n # Blank THEN n ELSE Kept(c)[c]]
  <2>2. r.custom = (n # Blank) /\ (n = Blank => r.name = Kept(c)[c])
    BY DEF Idle
  <2>3. req'[c] = r /\ \A e \in Devices \ {c} : req'[e] = req[e]
    BY <1>0, <2>1 DEF Go
  <2> HIDE DEF r
  <2>4. UNCHANGED nodeVars
    BY <1>2 DEF Register
  <2>5. ASSUME c \notin overtaken, chosen[c] # Blank PROVE Kept(c)[c] = chosen[c]
    BY <1>0, <2>5 DEF NamesHeld, NamesAreKept, Kept, NodeType
  <2> QED BY <2>2, <2>3, <2>4, <2>5 DEF NamesHeld, NamesAreKept, Stands, nodeVars
<1>3. ASSUME NEW c \in Devices, Talks(c), ~Register(c) PROVE NamesHeld'
  <2>1. req'[c].at # "write" /\ \A e \in Devices \ {c} : req'[e] = req[e]
    BY <1>3, TalksTo, TalksFit
  <2> QED BY <1>3, <2>1, TalksKeep, NamesHold DEF nodeVars
<1>4. ASSUME NEW c \in Devices, WriteRegistration(c) PROVE NamesHeld'
  <2>1. req'[c] = Idle /\ \A e \in Devices \ {c} : req'[e] = req[e]
    BY <1>4, HandlersTo
  <2>2. /\ nodes' = [nodes EXCEPT ![c] = req[c].name] /\ req[c].at = "write"
        /\ IF req[c].custom THEN /\ chosen' = [chosen EXCEPT ![c] = req[c].name]
                                 /\ overtaken' = overtaken \ {c}
                            ELSE UNCHANGED <<chosen, overtaken>>
    BY <1>4 DEF WriteRegistration, Stands
  <2> QED BY <1>0, <2>1, <2>2, IdleFits DEF NamesHeld, NamesAreKept, Stands, NodeType
<1>5. ASSUME NEW c \in Devices, RenameNode(c) PROVE NamesHeld'
  <2>1. PICK n \in Petnames : /\ nodes' = [nodes EXCEPT ![c] = n]
                              /\ chosen' = [chosen EXCEPT ![c] = n]
    BY <1>5 DEF RenameNode
  <2>2. /\ UNCHANGED req
        /\ overtaken' = IF Stands(c, "write") /\ ~req[c].custom
                          THEN overtaken \cup {c} ELSE overtaken \ {c}
    BY <1>5 DEF RenameNode
  <2> QED BY <1>0, <2>1, <2>2 DEF NamesHeld, NamesAreKept, Stands, NodeType
<1>6. ASSUME NEW c \in Devices, DeleteNode(c) \/ ExpireNode(c) PROVE NamesHeld'
  BY <1>0, <1>6
     DEF DeleteNode, ExpireNode, NoLonger, NamesHeld, NamesAreKept, Stands, NodeType
<1>7. ASSUME NEW c \in Devices, Connect(c) \/ UpgradeFails(c) PROVE NamesHeld'
  <2>1. nodes' = Kept(c) /\ UNCHANGED <<chosen, overtaken, req>>
    BY <1>7 DEF Connect, UpgradeFails, Greet
  <2>2. \A d \in Devices : nodes[d] # Blank => nodes'[d] = nodes[d]
    BY <1>0, <2>1 DEF Kept, NodeType
  <2> QED BY <2>1, <2>2, NamesHold
<1>8. ASSUME NEW c \in Devices, SeeNode(c) PROVE NamesHeld'
  <2>1. nodes' = Kept(c) /\ UNCHANGED <<chosen, overtaken>>
    BY <1>8 DEF SeeNode
  <2>2. \A d \in Devices : nodes[d] # Blank => nodes'[d] = nodes[d]
    BY <1>0, <2>1 DEF Kept, NodeType
  <2>3. req'[c].at # "write" /\ \A e \in Devices \ {c} : req'[e] = req[e]
    BY <1>8, HandlersTo
  <2> QED BY <2>1, <2>2, <2>3, NamesHold
<1>9. ASSUME NEW c \in Devices,
             SendFrame(c) \/ NoteHolding(c) \/ WriteHolding(c)
      PROVE NamesHeld'
  <2>1. req'[c].at # "write" /\ \A e \in Devices \ {c} : req'[e] = req[e]
    BY <1>9, HandlersTo, IdleFits
  <2>2. UNCHANGED nodeVars
    BY <1>9 DEF SendFrame, NoteHolding, WriteHolding
  <2> QED BY <2>1, <2>2, NamesHold DEF nodeVars
<1>10. ASSUME NEW c \in Devices, WriteRow(c) \/ WipeCopies(c) \/ WriteCopies(c)
       PROVE NamesHeld'
  <2>1. req'[c].at # "write" /\ \A e \in Devices \ {c} : req'[e] = req[e]
    BY <1>10, ReportsTo
  <2>2. UNCHANGED nodeVars
    BY <1>10 DEF WriteRow, WipeCopies, WriteCopies
  <2> QED BY <2>1, <2>2, NamesHold DEF nodeVars
<1>11. ASSUME NEW c \in Devices, Lose(c) PROVE NamesHeld'
  <2>1. \A d \in Devices : req'[d].at = "write" =>
           req[d].at = "write" /\ req'[d].custom = req[d].custom /\ req'[d].name = req[d].name
    <3>1. CASE UNCHANGED req
      BY <3>1
    <3>2. CASE req' = Deafened(c)
      BY <1>0, <3>2, DeafenedIs DEF Alike
    <3> QED BY <1>11, <3>1, <3>2 DEF Lose
  <2>2. UNCHANGED nodeVars
    BY <1>11 DEF Lose
  <2> QED BY <2>1, <2>2, NamesHold DEF nodeVars
<1>12. ASSUME NEW c \in Devices, PublishKey(c) \/ ForgetKey(c) PROVE NamesHeld'
  <2>1. \A d \in Devices : req'[d].at = "write" =>
           req[d].at = "write" /\ req'[d].custom = req[d].custom /\ req'[d].name = req[d].name
    BY <1>0, <1>12, SeenIs DEF PublishKey, ForgetKey, Alike
  <2>2. UNCHANGED nodeVars
    BY <1>12 DEF PublishKey, ForgetKey
  <2> QED BY <2>1, <2>2, NamesHold DEF nodeVars
<1>13. ASSUME NEW c \in Devices, MintGrant(c) PROVE NamesHeld'
  <2>1. PICK k \in 1..MaxTokens : Go(c, [req[c] EXCEPT !.at = "announce", !.token = k])
    BY <1>13 DEF MintGrant
  <2>2. req'[c].at # "write" /\ \A e \in Devices \ {c} : req'[e] = req[e]
    BY <1>0, <2>1 DEF Go, DevCalls
  <2>3. UNCHANGED nodeVars
    BY <1>13 DEF MintGrant
  <2> QED BY <2>2, <2>3, NamesHold DEF nodeVars
<1>14. ASSUME NEW c \in Devices, Announce(c) PROVE NamesHeld'
  <2>1. req'[c].at # "write"
    BY <1>14, AnnounceIs
  <2>2. UNCHANGED nodeVars
    BY <1>14 DEF Announce
  <2> QED BY <1>14, <2>1, <2>2, AnnounceFits, NamesHold DEF nodeVars
<1>15. ASSUME NEW c \in Devices, Close(c) PROVE NamesHeld'
  BY <1>15, <1>a DEF Close
<1>16. CASE Collects \/ AgeGrant \/ SweepPlayback \/ Tick
  BY <1>16, <1>a, CollectsKeep DEF AgeGrant, SweepPlayback, Tick
<1>17. CASE Crash
  <2>1. UNCHANGED nodeVars /\ \A d \in Devices : req'[d] = Idle
    BY <1>17 DEF Crash
  <2> QED BY <2>1, NamesHold, IdleFits DEF nodeVars
<1> QED
  BY <1>1, <1>2, <1>3, <1>4, <1>5, <1>6, <1>7, <1>8, <1>9, <1>10, <1>11, <1>12,
     <1>13, <1>14, <1>15, <1>16, <1>17, StepIs

----------------------------------------------------------------------------
(* A session and its copies.                                               *)
LEMMA RecordsHold ==
  ASSUME DevKinds, Written,
         \A d \in Devices : /\ d \notin torn' => d \notin torn
                            /\ req'[d].at \in {"row", "wipe", "copies"} =>
                                 req'[d].at = req[d].at /\ Alike(req'[d], req[d])
                            /\ req[d].at = "wipe" => req'[d].at = "wipe" \/ d \in torn'
                            /\ \/ rows'[d] = rows[d]
                               \/ /\ rows'[d] = NoRow
                                  /\ req'[d].at \notin {"wipe", "copies"}
                                  /\ copies'[d].to = {}
                            /\ \/ copies'[d].to = {}
                               \/ copies'[d].track = copies[d].track /\ copies[d].to # {}
                                  /\ req'[d].at # "copies"
  PROVE  Written'
<1>1. CopiesDescribeTheTrack'
  BY DEF Written, CopiesDescribeTheTrack, Stands
<1>2. ASSUME NEW c \in Devices PROVE Reported(c)'
  BY DEF Written, Reported, Stands, Alike
<1> QED BY <1>1, <1>2 DEF Written

LEMMA QuietRecords ==
  ASSUME DevKinds, Written, UNCHANGED <<rows, copies, torn>>,
         \A d \in Devices :
           \/ req'[d].at = req[d].at /\ Alike(req'[d], req[d])
           \/ req[d].at # "wipe" /\ req'[d].at \notin {"row", "wipe", "copies"}
  PROVE  Written'
<1>1. CopiesDescribeTheTrack'
  BY DEF Written, CopiesDescribeTheTrack, Stands
<1>2. ASSUME NEW c \in Devices PROVE Reported(c)'
  BY DEF Written, Reported, Stands, Alike
<1> QED BY <1>1, <1>2 DEF Written

LEMMA PlaysWrite ==
  ASSUME DevKinds, Written, NEW c \in Devices, Play(c) \/ Heartbeat(c)
  PROVE  Written'
<1>0. ReqsFit /\ req \in [Devices -> DevCalls] /\ UNCHANGED <<rows, copies, torn>>
      /\ req[c] = Idle
  BY KindsAre DEF ReqsFit, Play, Heartbeat, Begin, playVars
<1>1. /\ req'[c].at = "row" /\ \A e \in Devices \ {c} : req'[e] = req[e]
      /\ req'[c].seal = "keep" => req'[c].track = rows[c].track
  <2>1. CASE Heartbeat(c)
    BY <1>0, <2>1 DEF Heartbeat, Go, Idle
  <2>2. CASE Play(c)
    <3>1. PICK t \in Tracks, s \in {"seal", "clear"} :
          Go(c, [Idle EXCEPT !.op = "report", !.at = "row", !.track = t, !.seal = s,
                  !.to = IF s = "seal" THEN {e \in keys : OwnerOf[e] \in Audience(OwnerOf[c])}
                                       ELSE {}])
      BY <2>2 DEF Play, Begin
    <3> DEFINE to == IF s = "seal" THEN {e \in keys : OwnerOf[e] \in Audience(OwnerOf[c])}
                                   ELSE {}
               r == [Idle EXCEPT !.op = "report", !.at = "row", !.track = t, !.seal = s,
                                 !.to = to]
    <3>2. req'[c] = r /\ \A e \in Devices \ {c} : req'[e] = req[e]
      BY <1>0, <3>1 DEF Go
    <3>3. r.at = "row" /\ r.seal = s
      BY DEF Idle
    <3> QED BY <3>2, <3>3
  <2> QED BY <2>1, <2>2
<1>2. CopiesDescribeTheTrack'
  BY <1>0, <1>1, IdleFits DEF Written, CopiesDescribeTheTrack, Stands
<1>3. ASSUME NEW d \in Devices PROVE Reported(d)'
  BY <1>0, <1>1 DEF Written, Reported, Stands
<1> QED BY <1>2, <1>3 DEF Written

LEMMA ReportsWrite ==
  ASSUME DevKinds, Written, NEW c \in Devices,
         WriteRow(c) \/ WipeCopies(c) \/ WriteCopies(c)
  PROVE  Written'
<1>0. /\ PlayType /\ Alike(req'[c], req[c]) /\ DevFits(req[c])
      /\ \A e \in Devices \ {c} : req'[e] = req[e]
      /\ \A d \in Devices \ {c} : Reported(d)
      /\ Reported(c)
  BY KindsAre, ReportsTo DEF ReqsFit, Written
<1>1. CASE WriteRow(c)
  <2>1. /\ rows' = [rows EXCEPT ![c] = Session(c)] /\ UNCHANGED <<copies, torn>>
        /\ req[c].at = "row"
        /\ req'[c].at = IF req[c].seal = "keep" THEN "node" ELSE "wipe"
    BY <1>1, ReportsTo DEF WriteRow, Stands
  <2>2. /\ Session(c).track = req[c].track
        /\ Session(c).sealed = IF req[c].seal = "keep" THEN rows[c].sealed
                               ELSE req[c].seal = "seal"
    BY DEF Session
  <2>3. rows'[c] = Session(c) /\ \A d \in Devices \ {c} : rows'[d] = rows[d]
    BY <1>0, <2>1 DEF PlayType
  <2>4. ~NoRow.sealed
    BY DEF NoRow
  <2>5. c \notin torn /\ copies[c].to # {} /\ req[c].seal = "keep" =>
          copies[c].track = rows[c].track /\ rows[c].sealed /\ rows[c].track = req[c].track
    BY <1>0, <2>1, <2>4 DEF Written, CopiesDescribeTheTrack, Stands, Reported
  <2>6. CopiesDescribeTheTrack'
    BY <1>0, <2>1, <2>2, <2>3, <2>5 DEF Written, CopiesDescribeTheTrack, Stands
  <2>7. ASSUME NEW d \in Devices \ {c} PROVE Reported(d)'
    BY <1>0, <2>1, <2>3 DEF Reported, Stands
  <2>8. Reported(c)'
    BY <1>0, <2>1, <2>2, <2>3 DEF Reported, Stands, Alike
  <2> QED BY <2>6, <2>7, <2>8 DEF Written
<1>2. CASE WipeCopies(c)
  <2>1. /\ copies' = [copies EXCEPT ![c] = NoCopies] /\ UNCHANGED <<rows, torn>>
        /\ req[c].at = "wipe" /\ req'[c].at = "copies"
    BY <1>2, ReportsTo DEF WipeCopies, Stands
  <2>2. copies'[c].to = {} /\ \A d \in Devices \ {c} : copies'[d] = copies[d]
    BY <1>0, <2>1 DEF PlayType, NoCopies
  <2>6. CopiesDescribeTheTrack'
    BY <1>0, <2>1, <2>2 DEF Written, CopiesDescribeTheTrack, Stands
  <2>7. ASSUME NEW d \in Devices \ {c} PROVE Reported(d)'
    BY <1>0, <2>1, <2>2 DEF Reported, Stands
  <2>8. Reported(c)'
    BY <1>0, <2>1, <2>2 DEF Reported, Stands, Alike
  <2> QED BY <2>6, <2>7, <2>8 DEF Written
<1>3. CASE WriteCopies(c)
  <2>1. /\ copies' = IF req[c].to = {} THEN copies
                     ELSE [copies EXCEPT ![c] =
                             [track |-> req[c].track, to |-> req[c].to, at |-> now]]
        /\ UNCHANGED rows /\ torn' = torn \ {c}
        /\ req[c].at = "copies" /\ req'[c].at = "node"
    BY <1>3, ReportsTo DEF WriteCopies, Stands
  <2>2. \A d \in Devices \ {c} : copies'[d] = copies[d]
    BY <1>0, <2>1 DEF PlayType
  <2>3. copies'[c].to # {} => req[c].to # {} /\ copies'[c].track = req[c].track
    BY <1>0, <2>1 DEF PlayType, Reported, Stands
  <2>4. /\ rows[c].track = req[c].track
        /\ rows[c].sealed <=> req[c].seal = "seal"
    BY <1>0, <2>1 DEF Reported, Stands
  <2>5. req[c].to # {} => req[c].seal = "seal"
    BY <1>0 DEF DevFits
  <2>6. CopiesDescribeTheTrack'
    BY <1>0, <2>1, <2>2, <2>3, <2>4, <2>5 DEF Written, CopiesDescribeTheTrack, Stands
  <2>7. ASSUME NEW d \in Devices \ {c} PROVE Reported(d)'
    BY <1>0, <2>1, <2>2 DEF Reported, Stands
  <2>8. Reported(c)'
    BY <1>0, <2>1 DEF Reported, Stands
  <2> QED BY <2>6, <2>7, <2>8 DEF Written
<1> QED BY <1>1, <1>2, <1>3

LEMMA WrittenStep ==
  ASSUME DevKinds, Written, [DevicesNext]_devicesVars
  PROVE  Written'
<1>0. ReqsFit /\ req \in [Devices -> DevCalls] /\ PlayType
  BY KindsAre DEF ReqsFit
<1>a. ASSUME UNCHANGED <<rows, copies, torn, req>> PROVE Written'
  BY <1>a, QuietRecords DEF Alike
<1>b. ASSUME NEW c \in Devices, req'[c].at \notin {"row", "wipe", "copies"},
             req[c].at # "wipe", \A e \in Devices \ {c} : req'[e] = req[e],
             UNCHANGED <<rows, copies, torn>>
      PROVE  Written'
  BY <1>b, QuietRecords DEF Alike
<1>1. CASE UNCHANGED devicesVars
  BY <1>1, <1>a DEF devicesVars, playVars
<1>2. ASSUME NEW c \in Devices, Talks(c) PROVE Written'
  <2>1. req[c].at # "wipe"
    BY <1>2, IdleFits
       DEF Talks, Register, Play, Heartbeat, AskPlaying, Report, ReadNow, FindRoute,
           FindAddress, ReadKeys, Reuse, Answer, Begin, Stands
  <2> QED BY <1>2, <1>b, <2>1, TalksTo, TalksKeep, TalksFit, PlaysWrite DEF playVars
<1>3. ASSUME NEW c \in Devices, WriteRow(c) \/ WipeCopies(c) \/ WriteCopies(c)
      PROVE Written'
  BY <1>3, ReportsWrite
<1>4. ASSUME NEW c \in Devices,
             WriteRegistration(c) \/ SeeNode(c) \/ SendFrame(c) \/ WriteHolding(c)
               \/ NoteHolding(c)
      PROVE Written'
  <2>1. /\ req'[c].at \notin {"row", "wipe", "copies"}
        /\ \A e \in Devices \ {c} : req'[e] = req[e]
    BY <1>4, HandlersTo, IdleFits
  <2>2. req[c].at # "wipe"
    BY <1>4 DEF WriteRegistration, SeeNode, SendFrame, WriteHolding, NoteHolding, Stands
  <2>3. UNCHANGED <<rows, copies, torn>>
    BY <1>4
       DEF WriteRegistration, SeeNode, SendFrame, WriteHolding, NoteHolding, playVars
  <2> QED BY <2>1, <2>2, <2>3, <1>b
<1>5. ASSUME NEW c \in Devices, RenameNode(c) \/ DeleteNode(c) \/ ExpireNode(c)
                                  \/ Connect(c) \/ UpgradeFails(c) \/ Close(c)
      PROVE Written'
  BY <1>5, <1>a
     DEF RenameNode, DeleteNode, ExpireNode, Connect, UpgradeFails, Close, playVars
<1>6. ASSUME NEW c \in Devices, Lose(c) PROVE Written'
  <2>1. \A d \in Devices : req'[d].at = req[d].at /\ Alike(req'[d], req[d])
    <3>1. CASE UNCHANGED req
      BY <3>1 DEF Alike
    <3>2. CASE req' = Deafened(c)
      BY <1>0, <3>2, DeafenedIs
    <3> QED BY <1>6, <3>1, <3>2 DEF Lose
  <2> QED BY <1>6, <2>1, QuietRecords DEF Lose, playVars
<1>7. ASSUME NEW c \in Devices, PublishKey(c) PROVE Written'
  <2>1. \A d \in Devices : req'[d].at = req[d].at /\ Alike(req'[d], req[d])
    BY <1>0, <1>7, SeenIs DEF PublishKey
  <2> QED BY <1>7, <2>1, QuietRecords DEF PublishKey, playVars
<1>8. ASSUME NEW c \in Devices, ForgetKey(c) PROVE Written'
  <2>1. \A d \in Devices : req'[d].at = req[d].at /\ Alike(req'[d], req[d])
    BY <1>0, <1>8, SeenIs DEF ForgetKey
  <2>2. /\ Writing = {} /\ copies' = [d \in Devices |-> Without(d, c)]
        /\ UNCHANGED <<rows, torn>>
    BY <1>8 DEF ForgetKey
  <2>3. \A d \in Devices : ~Stands(d, "wipe") /\ ~Stands(d, "copies")
    BY <2>2 DEF Writing
  <2>4. \A d \in Devices : \/ copies'[d].to = {}
                           \/ copies'[d].track = copies[d].track /\ copies[d].to # {}
    BY <1>0, <2>2 DEF Without, NoCopies, PlayType
  <2> QED BY <2>1, <2>2, <2>3, <2>4, RecordsHold DEF Stands
<1>9. ASSUME NEW c \in Devices, MintGrant(c) PROVE Written'
  <2>1. PICK k \in 1..MaxTokens : Go(c, [req[c] EXCEPT !.at = "announce", !.token = k])
    BY <1>9 DEF MintGrant
  <2>2. req'[c].at = "announce" /\ \A e \in Devices \ {c} : req'[e] = req[e]
    BY <1>0, <2>1 DEF Go, DevCalls
  <2>3. req[c].at # "wipe" /\ UNCHANGED <<rows, copies, torn>>
    BY <1>9 DEF MintGrant, Stands, playVars
  <2> QED BY <2>2, <2>3, <1>b
<1>10. ASSUME NEW c \in Devices, Announce(c) PROVE Written'
  <2>1. req'[c].at \in {"frame", "answer"} /\ \A e \in Devices \ {c} : req'[e] = req[e]
    BY <1>10, AnnounceIs, AnnounceFits
  <2>3. req[c].at # "wipe" /\ UNCHANGED <<rows, copies, torn>>
    BY <1>10 DEF Announce, Stands, playVars
  <2> QED BY <2>1, <2>3, <1>b
<1>11. CASE Collects \/ AgeGrant \/ Tick
  BY <1>11, <1>a, CollectsKeep DEF AgeGrant, Tick, playVars
<1>12. CASE SweepPlayback
  <2>1. /\ Writing = {} /\ UNCHANGED <<req, torn>>
        /\ rows' = [d \in Devices |-> Swept(d)]
        /\ copies' = [d \in Devices |->
             IF copies[d].at < now - CopyTtl \/ Swept(d) = NoRow THEN NoCopies
             ELSE copies[d]]
    BY <1>12 DEF SweepPlayback
  <2>2. \A d \in Devices : req[d].at \notin {"wipe", "copies"}
    BY <2>1 DEF Writing, Stands
  <2>3. NoCopies.to = {}
    BY DEF NoCopies
  <2>4. \A d \in Devices :
          /\ \/ rows'[d] = rows[d]
             \/ rows'[d] = NoRow /\ copies'[d].to = {}
          /\ copies'[d].to = {} \/ (copies'[d] = copies[d] /\ copies[d].to # {})
    BY <2>1, <2>3 DEF Swept
  <2> QED BY <2>1, <2>2, <2>4, RecordsHold DEF Alike
<1>13. CASE Crash
  <2>1. /\ UNCHANGED <<rows, copies>> /\ torn' = torn \cup Writing
        /\ \A d \in Devices : req'[d].at = "idle"
    BY <1>13, IdleFits DEF Crash
  <2>2. CopiesDescribeTheTrack'
    BY <2>1 DEF Written, CopiesDescribeTheTrack, Stands, Writing
  <2>3. \A d \in Devices : Reported(d)'
    BY <2>1 DEF Reported, Stands
  <2> QED BY <2>2, <2>3 DEF Written
<1> QED
  BY <1>1, <1>2, <1>3, <1>4, <1>5, <1>6, <1>7, <1>8, <1>9, <1>10, <1>11, <1>12,
     <1>13, StepIs

----------------------------------------------------------------------------
(* Grants.                                                                 *)
LEMMA QuietGrants ==
  ASSUME DevKinds, HandedOut, UNCHANGED grantVars,
         \A d \in Devices :
           \/ /\ req'[d].at = req[d].at /\ Alike(req'[d], req[d])
              /\ req'[d].gone = req[d].gone /\ req'[d].added = req[d].added
              /\ req'[d].deaf \/ ~req[d].deaf
           \/ req'[d].token = 0 /\ req'[d].at \notin {"reuse", "mint"}
  PROVE  HandedOut'
<1>1. OneMeaning'
  BY DEF HandedOut, OneMeaning, Alike, grantVars
<1>2. ASSUME NEW c \in Devices PROVE HandOut(c)'
  BY DEF HandedOut, HandOut, Alike, grantVars, KeysOf
<1> QED BY <1>1, <1>2 DEF HandedOut

LEMMA GrantsStep ==
  ASSUME DevKinds, HandedOut, [DevicesNext]_devicesVars
  PROVE  HandedOut'
<1>0. /\ ReqsFit /\ req \in [Devices -> DevCalls] /\ GrantType
      /\ OneMeaning /\ \A c \in Devices : HandOut(c)
  BY KindsAre DEF ReqsFit, HandedOut
<1>a. ASSUME UNCHANGED <<grantVars, req>> PROVE HandedOut'
  BY <1>a, QuietGrants DEF Alike
<1>b. ASSUME NEW c \in Devices, req'[c].token = 0, req'[c].at \notin {"reuse", "mint"},
             \A e \in Devices \ {c} : req'[e] = req[e], UNCHANGED grantVars
      PROVE  HandedOut'
  BY <1>b, QuietGrants DEF Alike
<1>1. CASE UNCHANGED devicesVars
  BY <1>1, <1>a DEF devicesVars
<1>2. ASSUME NEW c \in Devices, Talks(c), ~ReadKeys(c), ~Reuse(c) PROVE HandedOut'
  BY <1>2, <1>b, TalksTo, TalksKeep, TalksFit
<1>3. ASSUME NEW c \in Devices, ReadKeys(c) PROVE HandedOut'
  <2>1. /\ req'[c] = [req[c] EXCEPT !.at = "reuse", !.bound = KeysOf(req[c].for),
                                    !.gone = {}, !.added = {}]
        /\ \A e \in Devices \ {c} : req'[e] = req[e]
        /\ UNCHANGED grantVars
    BY <1>0, <1>3 DEF ReadKeys, Go
  <2>2. req[c].token = 0 /\ req[c] \in DevCalls
    BY <1>0, <1>3 DEF ReadKeys, Stands, ReqsFit, DevFits
  <2>3. /\ req'[c].token = 0 /\ req'[c].for = req[c].for
        /\ req'[c].bound = KeysOf(req[c].for)
    BY <2>1, <2>2 DEF DevCalls
  <2>4. OneMeaning'
    <3>1. ASSUME NEW e \in Devices, req'[e].token # 0 PROVE req'[e] = req[e]
      BY <2>1, <2>3, <3>1
    <3> QED BY <1>0, <2>1, <3>1 DEF OneMeaning, grantVars
  <2>5. HandOut(c)'
    BY <2>1, <2>3 DEF HandOut, grantVars, KeysOf
  <2>6. ASSUME NEW e \in Devices \ {c} PROVE HandOut(e)'
    BY <1>0, <2>1 DEF HandOut, grantVars, KeysOf
  <2> QED BY <2>4, <2>5, <2>6 DEF HandedOut
<1>4. ASSUME NEW c \in Devices, Reuse(c) PROVE HandedOut'
  <2>0. req[c].at = "reuse" /\ req[c].token = 0 /\ req[c] \in DevCalls /\ UNCHANGED grantVars
    BY <1>0, <1>4 DEF Reuse, Stands, ReqsFit, DevFits
  <2>1. CASE Then(c, "mint")
    <3>1. /\ req'[c].token = 0 /\ req'[c].for = req[c].for /\ req'[c].bound = req[c].bound
          /\ req'[c].gone = req[c].gone /\ req'[c].added = req[c].added
          /\ \A e \in Devices \ {c} : req'[e] = req[e]
      BY <1>0, <2>0, <2>1 DEF Then, Go, DevCalls
    <3>2. OneMeaning'
      BY <1>0, <2>0, <3>1 DEF OneMeaning, grantVars
    <3>3. HandOut(c)'
      BY <1>0, <2>0, <3>1 DEF HandOut, grantVars, KeysOf
    <3>4. ASSUME NEW e \in Devices \ {c} PROVE HandOut(e)'
      BY <1>0, <2>0, <3>1 DEF HandOut, grantVars, KeysOf
    <3> QED BY <3>2, <3>3, <3>4 DEF HandedOut
  <2>2. CASE /\ Go(c, [req[c] EXCEPT !.at = "announce", !.token = grants[Key(c)].token])
             /\ grants[Key(c)].bound = req[c].bound
    <3>0. Key(c) \in Devices \X Accounts
      BY <1>0, <2>0 DEF Key, ReqsFit, DevFits, Sharing
    <3> DEFINE k == grants[Key(c)].token
    <3>1. /\ req'[c].token = k /\ req'[c].for = req[c].for /\ req'[c].bound = req[c].bound
          /\ req'[c].gone = req[c].gone /\ req'[c].added = req[c].added
          /\ req'[c].at = "announce"
          /\ \A e \in Devices \ {c} : req'[e] = req[e]
      BY <1>0, <2>0, <2>2 DEF Go, DevCalls
    <3>2. OneMeaning'
      BY <1>0, <2>0, <2>2, <3>0, <3>1 DEF OneMeaning, grantVars
    <3>3. HandOut(c)'
      BY <1>0, <2>0, <3>1 DEF HandOut, grantVars, KeysOf
    <3>4. ASSUME NEW e \in Devices \ {c} PROVE HandOut(e)'
      BY <1>0, <2>0, <3>1 DEF HandOut, grantVars, KeysOf
    <3> QED BY <3>2, <3>3, <3>4 DEF HandedOut
  <2> QED BY <1>4, <2>1, <2>2 DEF Reuse
<1>5. ASSUME NEW c \in Devices, MintGrant(c) PROVE HandedOut'
  <2>1. PICK k \in 1..MaxTokens :
          /\ Expired(k)
          /\ grants' = [grants EXCEPT ![Key(c)] =
               [token |-> k, bound |-> req[c].bound, reusable |-> TRUE]]
          /\ accepts' = [d \in Devices |-> {g \in accepts[d] : g.token # k}]
          /\ Go(c, [req[c] EXCEPT !.at = "announce", !.token = k])
    BY <1>5 DEF MintGrant
  <2>0. /\ req[c].at = "mint" /\ req[c].token = 0 /\ req[c] \in DevCalls /\ UNCHANGED keys
        /\ Key(c) \in Devices \X Accounts /\ k # 0
    BY <1>0, <1>5 DEF MintGrant, Stands, ReqsFit, DevFits, Key, Sharing
  <2>2. /\ req'[c].token = k /\ req'[c].for = req[c].for /\ req'[c].bound = req[c].bound
        /\ req'[c].gone = req[c].gone /\ req'[c].added = req[c].added
        /\ req'[c].at = "announce"
        /\ \A e \in Devices \ {c} : req'[e] = req[e]
    BY <1>0, <2>0, <2>1 DEF Go, DevCalls
  <2>3. /\ \A e \in Devices : req[e].token # k
        /\ \A x \in Devices \X Accounts : grants[x].token # k
    BY <1>0, <2>1 DEF Expired, GrantType
  <2>4. /\ grants'[Key(c)].token = k /\ grants'[Key(c)].bound = req[c].bound
        /\ \A x \in (Devices \X Accounts) \ {Key(c)} : grants'[x] = grants[x]
    BY <1>0, <2>0, <2>1 DEF GrantType
  <2>5. OneMeaning'
    <3>1. ASSUME NEW x \in Devices \X Accounts, NEW y \in Devices \X Accounts,
                 grants'[x].token = grants'[y].token, grants'[x].token # 0
          PROVE  grants'[x].bound = grants'[y].bound
      BY <1>0, <2>3, <2>4, <3>1 DEF OneMeaning
    <3>2. ASSUME NEW e \in Devices, req'[e].token # 0, NEW x \in Devices \X Accounts,
                 grants'[x].token = req'[e].token
          PROVE  grants'[x].bound = req'[e].bound
      BY <1>0, <2>2, <2>3, <2>4, <3>2 DEF OneMeaning
    <3>3. ASSUME NEW e \in Devices, req'[e].token # 0, NEW f \in Devices,
                 req'[f].token = req'[e].token
          PROVE  req'[f].bound = req'[e].bound
      BY <1>0, <2>2, <2>3, <3>3 DEF OneMeaning
    <3> QED BY <3>1, <3>2, <3>3 DEF OneMeaning
  <2>6. HandOut(c)'
    BY <1>0, <2>0, <2>2 DEF HandOut, KeysOf
  <2>7. ASSUME NEW e \in Devices \ {c} PROVE HandOut(e)'
    <3>1. [token |-> req[e].token, bound |-> req[e].bound].token = req[e].token
      OBVIOUS
    <3>2. req[e].token # 0 => req[e].host \in Devices
      BY <1>0 DEF ReqsFit, DevFits, Sharing
    <3>3. ASSUME req[e].token # 0, NEW g \in accepts[req[e].host], g.token = req[e].token
          PROVE  g \in accepts'[req[e].host]
      BY <2>1, <2>3, <3>2, <3>3
    <3> QED BY <1>0, <2>0, <2>2, <3>1, <3>3 DEF HandOut, KeysOf
  <2> QED BY <2>5, <2>6, <2>7 DEF HandedOut
<1>6. ASSUME NEW c \in Devices, Announce(c) PROVE HandedOut'
  <2>0. /\ req[c].at = "announce" /\ req[c].token # 0 /\ req[c].host \in Devices
        /\ UNCHANGED <<grants, keys>>
    BY <1>0, <1>6 DEF Announce, Stands, ReqsFit, DevFits, Sharing
  <2>1. /\ Alike(req'[c], req[c]) /\ req'[c].at \in {"frame", "answer"}
        /\ req'[c].gone = req[c].gone /\ req'[c].added = req[c].added
        /\ \A e \in Devices \ {c} : req'[e] = req[e]
    BY <1>6, AnnounceIs, AnnounceFits
  <2>2. OneMeaning'
    BY <1>0, <2>0, <2>1 DEF OneMeaning, Alike
  <2> DEFINE h == req[c].host
  <2>3. CASE req'[c].deaf = TRUE /\ UNCHANGED accepts
    <3>1. HandOut(c)'
      BY <1>0, <2>0, <2>1, <2>3 DEF HandOut, Alike, KeysOf
    <3>2. ASSUME NEW e \in Devices \ {c} PROVE HandOut(e)'
      BY <1>0, <2>0, <2>1, <2>3 DEF HandOut, KeysOf
    <3> QED BY <2>2, <3>1, <3>2 DEF HandedOut
  <2>4. CASE accepts' = [accepts EXCEPT ![h] = Told(h, req[c].token, req[c].bound)]
    <3>1. /\ accepts'[h] = {g \in accepts[h] : g.token # req[c].token}
               \cup {[token |-> req[c].token, bound |-> req[c].bound]}
          /\ \A d \in Devices \ {h} : accepts'[d] = accepts[d]
      BY <1>0, <2>0, <2>4 DEF GrantType, Told
    <3>2. HandOut(c)'
      BY <1>0, <2>0, <2>1, <3>1 DEF HandOut, Alike, KeysOf
    <3>3. ASSUME NEW e \in Devices \ {c} PROVE HandOut(e)'
      <4>1. ASSUME req[e].token # 0,
                   [token |-> req[e].token, bound |-> req[e].bound] \in accepts[req[e].host]
            PROVE  [token |-> req[e].token, bound |-> req[e].bound] \in accepts'[req[e].host]
        <5>1. req[e].host \in Devices
          BY <1>0, <4>1 DEF ReqsFit, DevFits, Sharing
        <5>2. CASE req[e].token = req[c].token
          BY <1>0, <2>0, <3>1, <4>1, <5>1, <5>2 DEF OneMeaning
        <5>3. CASE req[e].token # req[c].token
          BY <3>1, <4>1, <5>1, <5>3
        <5> QED BY <5>2, <5>3
      <4> QED BY <1>0, <2>0, <2>1, <4>1 DEF HandOut, KeysOf
    <3> QED BY <2>2, <3>2, <3>3 DEF HandedOut
  <2> QED BY <1>6, <2>3, <2>4, AnnounceIs
<1>7. ASSUME NEW c \in Devices, Lose(c) PROVE HandedOut'
  <2>0. UNCHANGED <<grants, keys>>
    BY <1>7 DEF Lose
  <2>1. CASE UNCHANGED <<accepts, req>>
    BY <1>a, <2>0, <2>1 DEF grantVars
  <2>2. CASE accepts' = [accepts EXCEPT ![c] = {}] /\ req' = Deafened(c)
    <3>1. \A e \in Devices :
            /\ Alike(req'[e], req[e]) /\ req'[e].at = req[e].at
            /\ req'[e].gone = req[e].gone /\ req'[e].added = req[e].added
            /\ req'[e].deaf \/ (req'[e].deaf = req[e].deaf /\ req[e].host # c)
      BY <1>0, <2>2, DeafenedIs
    <3>2. OneMeaning'
      BY <1>0, <2>0, <3>1 DEF OneMeaning, Alike
    <3>3. ASSUME NEW e \in Devices PROVE HandOut(e)'
      <4>1. req[e].token # 0 => req[e].host \in Devices
        BY <1>0 DEF ReqsFit, DevFits, Sharing
      <4>2. req[e].token # 0 /\ ~req'[e].deaf => accepts'[req[e].host] = accepts[req[e].host]
        BY <1>0, <2>2, <3>1, <4>1 DEF GrantType
      <4> QED BY <1>0, <2>0, <3>1, <4>2 DEF HandOut, Alike, KeysOf
    <3> QED BY <3>2, <3>3 DEF HandedOut
  <2> QED BY <1>7, <2>1, <2>2 DEF Lose
<1>8. ASSUME NEW c \in Devices, Close(c) PROVE HandedOut'
  <2>1. /\ \A x \in Devices \X Accounts : grants'[x] = grants[x] \/ grants'[x].token = 0
        /\ UNCHANGED <<accepts, keys, req>>
    BY <1>0, <1>8 DEF Close, GrantType, NoGrant
  <2>2. OneMeaning'
    BY <1>0, <2>1 DEF OneMeaning
  <2>3. ASSUME NEW e \in Devices PROVE HandOut(e)'
    BY <1>0, <2>1 DEF HandOut, KeysOf
  <2> QED BY <2>2, <2>3 DEF HandedOut
<1>9. CASE AgeGrant
  <2>1. PICK x \in DOMAIN grants : grants' = [grants EXCEPT ![x].reusable = FALSE]
    BY <1>9 DEF AgeGrant
  <2>2. \A y \in Devices \X Accounts :
          grants'[y].token = grants[y].token /\ grants'[y].bound = grants[y].bound
    BY <1>0, <2>1 DEF GrantType, Grant
  <2>3. UNCHANGED <<accepts, keys, req>>
    BY <1>9 DEF AgeGrant
  <2>4. OneMeaning'
    BY <1>0, <2>2, <2>3 DEF OneMeaning
  <2>5. ASSUME NEW e \in Devices PROVE HandOut(e)'
    BY <1>0, <2>3 DEF HandOut, KeysOf
  <2> QED BY <2>4, <2>5 DEF HandedOut
<1>10. ASSUME NEW c \in Devices, PublishKey(c) \/ ForgetKey(c) PROVE HandedOut'
  <2>1. UNCHANGED <<grants, accepts>>
    BY <1>10 DEF PublishKey, ForgetKey
  <2>2. ASSUME NEW e \in Devices
        PROVE  /\ Alike(req'[e], req[e]) /\ req'[e].at = req[e].at
               /\ req'[e].deaf = req[e].deaf
               /\ req[e].gone \subseteq req'[e].gone /\ req[e].added \subseteq req'[e].added
               /\ KeysOf(req[e].for)' \ KeysOf(req[e].for) \subseteq req'[e].added
               /\ KeysOf(req[e].for) \ KeysOf(req[e].for)' \subseteq req'[e].gone
    <3>1. CASE PublishKey(c)
      <4>1. keys' = keys \cup {c} /\ req' = Seen(c, "added")
        BY <3>1 DEF PublishKey
      <4>2. /\ Alike(req'[e], req[e]) /\ req'[e].at = req[e].at /\ req'[e].deaf = req[e].deaf
            /\ req[e].gone \subseteq req'[e].gone /\ req[e].added \subseteq req'[e].added
            /\ req[e].for = OwnerOf[c] => c \in req'[e].added
        BY <1>0, <4>1, SeenIs
      <4> QED BY <4>1, <4>2 DEF KeysOf, DevicesOf, Alike
    <3>2. CASE ForgetKey(c)
      <4>1. keys' = keys \ {c} /\ req' = Seen(c, "gone")
        BY <3>2 DEF ForgetKey
      <4>2. /\ Alike(req'[e], req[e]) /\ req'[e].at = req[e].at /\ req'[e].deaf = req[e].deaf
            /\ req[e].gone \subseteq req'[e].gone /\ req[e].added \subseteq req'[e].added
            /\ req[e].for = OwnerOf[c] => c \in req'[e].gone
        BY <1>0, <4>1, SeenIs
      <4> QED BY <4>1, <4>2 DEF KeysOf, DevicesOf, Alike
    <3> QED BY <1>10, <3>1, <3>2
  <2>3. OneMeaning'
    BY <1>0, <2>1, <2>2 DEF OneMeaning, Alike
  <2>4. ASSUME NEW e \in Devices PROVE HandOut(e)'
    <3>1. /\ Alike(req'[e], req[e]) /\ req'[e].at = req[e].at
          /\ req'[e].deaf = req[e].deaf
          /\ req[e].gone \subseteq req'[e].gone /\ req[e].added \subseteq req'[e].added
          /\ KeysOf(req[e].for)' \ KeysOf(req[e].for) \subseteq req'[e].added
          /\ KeysOf(req[e].for) \ KeysOf(req[e].for)' \subseteq req'[e].gone
      BY <2>2
    <3> QED BY <1>0, <2>1, <3>1 DEF HandOut, Alike
  <2> QED BY <2>3, <2>4 DEF HandedOut
<1>11. ASSUME NEW c \in Devices, WriteRow(c) \/ WipeCopies(c) \/ WriteCopies(c)
       PROVE HandedOut'
  <2>1. UNCHANGED grantVars
    BY <1>11 DEF WriteRow, WipeCopies, WriteCopies
  <2> QED BY <1>11, <2>1, <1>b, ReportsTo
<1>12. ASSUME NEW c \in Devices,
             WriteRegistration(c) \/ SeeNode(c) \/ SendFrame(c) \/ WriteHolding(c)
               \/ NoteHolding(c)
      PROVE HandedOut'
  <2>1. /\ req'[c].at \notin {"reuse", "mint"} /\ req'[c].token = 0
        /\ \A e \in Devices \ {c} : req'[e] = req[e]
    BY <1>12, HandlersTo, IdleFits
  <2>2. UNCHANGED grantVars
    BY <1>12 DEF WriteRegistration, SeeNode, SendFrame, WriteHolding, NoteHolding
  <2> QED BY <2>1, <2>2, <1>b
<1>13. ASSUME NEW c \in Devices, RenameNode(c) \/ DeleteNode(c) \/ ExpireNode(c)
                                   \/ Connect(c) \/ UpgradeFails(c)
       PROVE HandedOut'
  BY <1>13, <1>a DEF RenameNode, DeleteNode, ExpireNode, Connect, UpgradeFails
<1>14. CASE Collects \/ SweepPlayback \/ Tick
  BY <1>14, <1>a, CollectsKeep DEF SweepPlayback, Tick
<1>15. CASE Crash
  <2>1. /\ \A x \in Devices \X Accounts : grants'[x].token = 0
        /\ \A e \in Devices : req'[e].token = 0 /\ req'[e].at = "idle"
    BY <1>0, <1>15, IdleFits DEF Crash, GrantType, NoGrant
  <2>2. OneMeaning'
    BY <2>1 DEF OneMeaning
  <2>3. \A e \in Devices : HandOut(e)'
    BY <2>1 DEF HandOut
  <2> QED BY <2>2, <2>3 DEF HandedOut
<1> QED
  BY <1>1, <1>2, <1>3, <1>4, <1>5, <1>6, <1>7, <1>8, <1>9, <1>10, <1>11, <1>12,
     <1>13, <1>14, <1>15, StepIs

----------------------------------------------------------------------------
(* The whole of it.                                                        *)
LEMMA DevInvStarts == DevicesInit => DevInv
<1> SUFFICES ASSUME DevicesInit PROVE DevInv
  OBVIOUS
<1>0. /\ Blank \notin Petnames \cup Tracks /\ MaxNow \in Nat /\ MaxTokens \in Nat
      /\ NoRow \in [track : Tracks \cup {Blank}, sealed : BOOLEAN, at : 0..MaxNow]
      /\ NoCopies \in [track : Tracks \cup {Blank}, to : SUBSET Devices, at : 0..MaxNow]
      /\ NoGrant \in Grant /\ NoGrant.token = 0 /\ NoGrant.reusable = FALSE
      /\ NoCopies.to = {}
  BY DevicesAssumption DEF NoRow, NoCopies, NoGrant, Grant
<1>1. /\ req = [c \in Devices |-> Idle] /\ \A c \in Devices : req[c] = Idle
  BY DEF DevicesInit
<1>2. ReqsFit
  BY <1>1, IdleFits DEF ReqsFit
<1>3. NodeType
  BY DEF DevicesInit, NodeType
<1>4. PeerType
  BY DEF DevicesInit, PeerType
<1>5. GrantType
  BY <1>0 DEF DevicesInit, GrantType
<1>6. PlayType
  BY <1>0 DEF DevicesInit, PlayType
<1>7. OfferType
  BY DEF DevicesInit, OfferType
<1>8. DevKinds
  BY <1>0, <1>2, <1>3, <1>4, <1>5, <1>6, <1>7, KindsAre DEF DevicesInit
<1>9. NamesHeld
  BY DEF DevicesInit, NamesHeld, NamesAreKept
<1>10. Written
  BY <1>0, <1>1, IdleFits
     DEF DevicesInit, Written, CopiesDescribeTheTrack, Reported, Stands
<1>11. HandedOut
  BY <1>0, <1>1, IdleFits DEF DevicesInit, HandedOut, OneMeaning, HandOut
<1> QED BY <1>8, <1>9, <1>10, <1>11 DEF DevInv

LEMMA DevInvGoesOn == DevInv /\ [DevicesNext]_devicesVars => DevInv'
BY DevKindsStep, NamesStep, WrittenStep, GrantsStep DEF DevInv

(* The tables keep their type, and so does what every handler holds at     *)
(* each of its steps (ws/network.rs, db/nodes.rs, db_presence.rs).         *)
THEOREM DevicesStaySound == DevicesSpec => []DevInv
BY DevInvStarts, DevInvGoesOn, PTL DEF DevicesSpec

(* What is kept of a device is true of it: its copies are of the track in  *)
(* its row, and it bears the name it was given.                            *)
THEOREM RecordsStayTrue == DevicesSpec => []RecordsAreTrue
<1>1. DevInv => RecordsAreTrue
  BY DEF DevInv, DevKinds, NamesHeld, Written, RecordsAreTrue
<1> QED BY <1>1, DevicesStaySound, PTL

(* Whoever is handed a token can use it: the host's app knows it, bound to *)
(* the keys the listener has, give or take what changed meanwhile.         *)
THEOREM GrantsDoServe == DevicesSpec => []GrantsServeTheListener
<1>1. DevInv => GrantsServeTheListener
  <2> SUFFICES ASSUME DevInv, NEW c \in Devices, req[c].token # 0,
                      req[c].at # "announce", ~req[c].deaf
               PROVE  \E g \in accepts[req[c].host] :
                        /\ g.token = req[c].token
                        /\ g.bound \ KeysOf(req[c].for) \subseteq req[c].gone
                        /\ KeysOf(req[c].for) \ g.bound \subseteq req[c].added
    BY DEF GrantsServeTheListener, Stands
  <2> DEFINE g == [token |-> req[c].token, bound |-> req[c].bound]
  <2>1. g \in accepts[req[c].host]
    BY DEF DevInv, HandedOut, HandOut
  <2>2. /\ g.token = req[c].token /\ g.bound = req[c].bound
        /\ req[c].bound \ KeysOf(req[c].for) \subseteq req[c].gone
        /\ KeysOf(req[c].for) \ req[c].bound \subseteq req[c].added
    BY DEF DevInv, HandedOut, HandOut
  <2> QED BY <2>1, <2>2
<1> QED BY <1>1, DevicesStaySound, PTL

=============================================================================
