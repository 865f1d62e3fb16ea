-------------------------- MODULE CatalogueProofs --------------------------
(***************************************************************************)
(* Proofs about Catalogue and, after them, about Vault: for any clients,   *)
(* recordings, spellings, songs and retention, and for any devices,        *)
(* passphrases and bounds.                                                 *)
(*                                                                         *)
(* What the catalogue rests on is CatInv: what every handler carries is    *)
(* still so when it comes to use it, no row is at or behind the cursor of  *)
(* a device that was neither given it nor passed over with it, no day is   *)
(* pruned that a chart may still be read from, and songs measured often    *)
(* enough are as far apart as was answered.                                *)
(***************************************************************************)
EXTENDS Catalogue, Vault, FiniteSetTheorems, NaturalsInduction,
        WellFoundedInduction, TLAPS

----------------------------------------------------------------------------
(* Catalogue: recordings, their artists, cursors, charts and measurements. *)

Rows == [take : Takes, name : Names, words : Clients \cup {Nobody},
         credit : Clients \cup {Nobody}, updated : 0..MaxNow,
         artist : Artists \cup {Nobody}]
Entries == [take : Takes, name : Names, words : BOOLEAN, credit : BOOLEAN,
            source : BOOLEAN]
Requests ==
  [op : {"none", "publish", "follow", "plays", "chart"},
   at : {"idle", "entry", "match", "file", "source", "read", "upsert", "join",
         "count", "tracks", "ranks"},
   n : Int, entry : Entries \cup {Nobody}, id : Ids \cup {0}, name : Names,
   known : BOOLEAN, stamp : Int, days : Int, named : SUBSET Songs]

RowShapes ==
  /\ rows \in [Ids -> Rows \cup {NoRow}]
  /\ sources \in [Takes -> {0} \cup Live]
  /\ artists \in [Artists -> [shown : Names, known : BOOLEAN]]
  /\ follows \in [Clients -> [Artists -> {Never} \cup 0..MaxNow]]
  /\ cut \subseteq Ids
  /\ now \in 0..MaxNow /\ today \in Days

(* Neither of two encodings lacks as much as a quarter of the other.       *)
Close(t, u) ==
  /\ 4 * Found(Sound[t], Sound[u]) >= 3 * Len(Sound[t])
  /\ 4 * Found(Sound[u], Sound[t]) >= 3 * Len(Sound[u])

(* What a handler r carries is still so: the recording it matched or made  *)
(* sounds like what it publishes, the name it read back is the one in the  *)
(* row and that of an artist, and no more than one midnight has passed     *)
(* since it asked for the day.                                             *)
Filing(r) == r.op = "publish" /\ r.at \in {"source", "read", "upsert", "join"}
Holds(r) ==
  /\ r \in Requests
  /\ r.op = "publish" /\ r.at # "entry" =>
       r.entry \in Entries /\ r.stamp \in 0..now
  /\ Filing(r) \/ (r.op = "publish" /\ r.at = "file" /\ r.id # 0) =>
       r.id \in Live /\ Close(r.entry.take, rows[r.id].take)
  /\ r.at \in {"upsert", "join"} =>
       r.name \in Spellings /\ Norm[r.name] # Nobody
  /\ r.op = "publish" /\ r.at \in {"upsert", "join"} =>
       r.name = rows[r.id].name
  /\ r.op = "plays" => r.stamp \in 0..today
  /\ r.op = "chart" =>
       r.stamp \in {today - 1, today} /\ r.stamp \in Days /\ r.days \in 1..Retention

PubInv ==
  /\ RowShapes
  /\ req = [c \in Clients |-> req[c]] /\ \A c \in Clients : Holds(req[c])

(* What the properties of recordings rest on. *)
Recordings == PubInv /\ RecordingsBelongToTheirArtist /\ SourcesSoundAlike

Skipping ==
  /\ cursor \in [Clients -> Int] /\ watermark \in [Clients -> Int]
  /\ copies = [v \in Clients |-> copies[v]]
  /\ missed \in [Clients -> SUBSET Ids] /\ unheard \in [Clients -> SUBSET Ids]
  /\ told \in [Clients -> SUBSET Ids]
  /\ NothingIsSkippedOver

(* No day is pruned that a chart may still be read from.                   *)
Unpruned == \A d \in Days : d >= today - Retention => counters[d] = reported[d]
OftenIn(table, named, at, days) ==
  \E day \in {at, at - 1} : named \subseteq NamedIn(table, Current(day, days))
Counting ==
  /\ counters \in [Days -> [Songs -> Nat]] /\ reported \in [Days -> [Songs -> Nat]]
  /\ Unpruned
  /\ answer = [c \in Clients |-> answer[c]]
  /\ \A c \in Clients :
       /\ At(c, "chart", "ranks") =>
            OftenIn(reported, req[c].named, req[c].stamp, req[c].days)
       /\ OftenIn(reported, answer[c].named, answer[c].day, answer[c].days)

(* How far apart songs measured often enough are is what was answered.     *)
Settled(a) ==
  a.seen = MaxObservations =>
    /\ a.seed \in Songs /\ vectors[a.seed].seen = MaxObservations
    /\ \A s \in DOMAIN a.songs :
         /\ s \in Songs
         /\ a.songs[s].seen = MaxObservations =>
              /\ vectors[s].seen = MaxObservations
              /\ a.songs[s].far = Distance(vectors[a.seed], vectors[s])
Measuring ==
  /\ vectors \in [Songs -> [sum : Nat, seen : 0..MaxObservations]]
  /\ near = [c \in Clients |-> near[c]]
  /\ \A c \in Clients : Settled(near[c])

CatInv == Recordings /\ Skipping /\ Counting /\ Measuring

(* What the first to publish said stays, and so does the recording.        *)
Lasting ==
  \A i \in Live :
    /\ i \in Live' /\ rows'[i].take = rows[i].take
    /\ rows[i].name # Nobody => rows'[i].name = rows[i].name

LEMMA BlankRow ==
  /\ NoRow \notin Rows /\ NoRow.take = Nobody /\ NoRow.name = Nobody
  /\ NoRow.artist = Nobody /\ NoRow.updated = Never
  /\ Nobody \notin Artists /\ Nobody \notin Spellings
  /\ \A r \in Rows : r.updated \in 0..MaxNow
<1>1. MaxNow \in Nat
  BY CatalogueAssumption
<1>2. NoRow.updated = -1 /\ \A r \in Rows : r.updated >= 0
  BY <1>1 DEF NoRow, Never, Rows
<1> QED
  BY <1>2, CatalogueAssumption DEF NoRow, Rows, Artists, Never

LEMMA LiveRows ==
  ASSUME RowShapes
  PROVE  \A i \in Ids : (i \in Live <=> rows[i] \in Rows) /\ (i \notin Live <=> rows[i] = NoRow)
BY BlankRow DEF RowShapes, Live

LEMMA IdleHolds ==
  ASSUME TRUE PROVE Holds(Idle) /\ Idle.at = "idle" /\ Idle.op = "none"
BY CatalogueAssumption DEF Holds, Idle, Requests, Names, Filing

LEMMA NextEntryHolds ==
  ASSUME NEW c \in Clients, Holds(req[c])
  PROVE  Holds(NextEntry(c)) /\ NextEntry(c).at \in {"idle", "entry"}
<1>1. CASE req[c].n = 1
  BY <1>1, IdleHolds DEF NextEntry
<1>2. CASE req[c].n # 1
  <2>1. NextEntry(c) = [Idle EXCEPT !.op = "publish", !.at = "entry",
                                    !.n = req[c].n - 1]
    BY <1>2 DEF NextEntry
  <2>2. req[c].n \in Int
    BY DEF Holds, Requests
  <2> DEFINE q == NextEntry(c)
  <2>3. Idle \in Requests
    BY IdleHolds DEF Holds
  <2>4. /\ q \in Requests /\ q.op = "publish" /\ q.at = "entry"
    <3> HIDE DEF q
    <3>1. q = [[[Idle EXCEPT !.op = "publish"] EXCEPT !.at = "entry"]
                 EXCEPT !.n = req[c].n - 1]
      BY <2>1 DEF q
    <3>2. req[c].n - 1 \in Int
      BY <2>2
    <3> QED
      BY <3>1, <3>2, <2>3 DEF Requests
  <2> QED
    BY <2>4 DEF Holds, Filing
<1> QED
  BY <1>1, <1>2

(* What a handler carries survives what others do. *)
LEMMA HoldsOn ==
  ASSUME NEW r, Holds(r), Lasting, now \in Nat, now' \in Nat, now' >= now,
         today' = today
  PROVE  Holds(r)'
<1>1. r.op = "publish" /\ r.at # "entry" => r.entry \in Entries /\ r.stamp \in 0..now'
  BY DEF Holds
<1>2. Filing(r) \/ (r.op = "publish" /\ r.at = "file" /\ r.id # 0) =>
        r.id \in Live' /\ Close(r.entry.take, rows'[r.id].take)
  BY DEF Holds, Lasting
<1>3. r.op = "publish" /\ r.at \in {"upsert", "join"} => r.name = rows'[r.id].name
  BY BlankRow DEF Holds, Lasting, Filing
<1> QED
  BY <1>1, <1>2, <1>3 DEF Holds, Filing, Close

LEMMA Moves ==
  ASSUME PubInv, NEW c \in Clients, NEW r, Go(c, r), RowShapes', Lasting,
         now' >= now, today' = today, Holds(r)'
  PROVE  PubInv'
<1>1. /\ req' = [d \in Clients |-> req'[d]] /\ req'[c] = r
      /\ \A d \in Clients : d # c => req'[d] = req[d]
  BY DEF PubInv, Go
<1>2. now \in Nat /\ now' \in Nat
  BY CatalogueAssumption DEF PubInv, RowShapes
<1>3. ASSUME NEW d \in Clients PROVE Holds(req[d])'
  <2>1. CASE d = c
    BY <1>1, <2>1 DEF Holds
  <2>2. CASE d # c
    <3>1. Holds(req[d])
      BY DEF PubInv
    <3>2. \A q : Holds(q) => Holds(q)'
      BY <1>2, HoldsOn
    <3> QED
      BY <1>1, <2>2, <3>1, <3>2 DEF Holds
  <2> QED
    BY <2>1, <2>2
<1> QED
  BY <1>1, <1>3 DEF PubInv

(* A step that leaves the tables as they are. *)
LEMMA OnlyMoves ==
  ASSUME PubInv, NEW c \in Clients, NEW r, Go(c, r), Holds(r),
         UNCHANGED <<catalogVars, cut, clocks>>
  PROVE  PubInv'
<1>1. UNCHANGED <<rows, sources, artists, follows, cut, now, today>>
  BY DEF catalogVars, clocks
<1>2. Live' = Live
  BY <1>1 DEF Live
<1>3. RowShapes' /\ Lasting
  BY <1>1, <1>2 DEF PubInv, RowShapes, Lasting
<1>4. now' >= now
  BY <1>1, CatalogueAssumption DEF PubInv, RowShapes
<1>5. Holds(r)'
  BY <1>1, <1>2 DEF Holds, Close
<1> QED
  BY <1>1, <1>3, <1>4, <1>5, Moves

LEMMA RequestsStay ==
  ASSUME PubInv, UNCHANGED <<rows, cut, req, now, today>>, RowShapes'
  PROVE  PubInv'
<1>1. Live' = Live
  BY DEF Live
<1> QED
  BY <1>1 DEF PubInv, Holds, Close

----------------------------------------------------------------------------
(* How recordings sound.                                                   *)

LEMMA FoundIs ==
  ASSUME NEW a \in Seq(Nat), NEW b
  PROVE  /\ Found(a, b) \in Nat /\ Found(a, b) <= Len(a) /\ Len(a) \in Nat
         /\ Found(a, a) = Len(a)
<1> DEFINE S == {j \in DOMAIN a : \E k \in DOMAIN b : a[j] = b[k]}
<1>1. /\ DOMAIN a = 1..Len(a) /\ Len(a) \in Nat
  OBVIOUS
<1>2. IsFiniteSet(1..Len(a)) /\ Cardinality(1..Len(a)) = Len(a)
  <2>1. \A n \in Nat : IsFiniteSet(1..n) /\ Cardinality(1..n) = n
    <3> SUFFICES ASSUME NEW n \in Nat
                 PROVE  IsFiniteSet(1..n) /\ Cardinality(1..n) = n
      OBVIOUS
    <3>1. /\ IsFiniteSet(1..n)
          /\ Cardinality(1..n) = IF 1 > n THEN 0 ELSE n - 1 + 1
      BY FS_Interval
    <3> QED
      BY <3>1
  <2> QED
    BY <1>1, <2>1
<1>3. IsFiniteSet(S) /\ Cardinality(S) <= Len(a) /\ Cardinality(S) \in Nat
  <2>1. S \subseteq 1..Len(a)
    BY <1>1
  <2> QED
    BY <1>2, <2>1, FS_Subset, FS_CardinalityType
<1>4. {j \in DOMAIN a : \E k \in DOMAIN a : a[j] = a[k]} = 1..Len(a)
  BY <1>1
<1> QED
  BY <1>1, <1>2, <1>3, <1>4 DEF Found

LEMMA MostOf ==
  ASSUME NEW f \in Nat, NEW g \in Nat, NEW m \in Nat \ {0}, NEW n \in Nat \ {0},
         g <= n, 100 * (f * n + g * m) >= 88 * 2 * m * n
  PROVE  4 * f >= 3 * m
<1>1. g * m <= n * m
  BY Z3
<1>2. SUFFICES ASSUME 4 * f + 1 <= 3 * m PROVE FALSE
  OBVIOUS
<1>3. (4 * f + 1) * n <= (3 * m) * n
  BY <1>2, Z3
<1> DEFINE fn == f * n
           gm == g * m
           mn == m * n
<1>4. fn \in Nat /\ gm \in Nat /\ mn \in Nat /\ mn > 0
  BY Z3
<1>5. gm <= mn
  BY <1>1, Z3
<1>6. 4 * fn + n <= 3 * mn
  BY <1>3, Z3
<1>7. 100 * (fn + gm) >= 176 * mn
  BY Z3
<1> HIDE DEF fn, gm, mn
<1> QED
  BY <1>4, <1>5, <1>6, <1>7

(* What is matched is close, and an encoding is close to itself. *)
LEMMA AlikeIsClose ==
  ASSUME NEW t \in Takes, NEW u \in Takes, SameRecording(Sound[t], Sound[u])
  PROVE  Close(t, u)
<1> DEFINE a == Sound[t]  b == Sound[u]
<1>1. a \in Seq(Nat) /\ b \in Seq(Nat) /\ a # <<>> /\ b # <<>>
  BY CatalogueAssumption
<1>2. /\ Found(a, b) \in Nat /\ Found(a, b) <= Len(a) /\ Len(a) \in Nat \ {0}
      /\ Found(b, a) \in Nat /\ Found(b, a) <= Len(b) /\ Len(b) \in Nat \ {0}
  BY <1>1, FoundIs
<1>3. 100 * (Found(a, b) * Len(b) + Found(b, a) * Len(a))
        >= 88 * 2 * Len(a) * Len(b)
  BY DEF SameRecording, Similarity
<1>4. 4 * Found(a, b) >= 3 * Len(a)
  BY <1>2, <1>3, MostOf
<1>5. 100 * (Found(b, a) * Len(a) + Found(a, b) * Len(b))
        >= 88 * 2 * Len(b) * Len(a)
  <2> DEFINE x == Found(a, b) * Len(b)
             y == Found(b, a) * Len(a)
  <2>1. x \in Nat /\ y \in Nat
    BY <1>2, Z3
  <2>2. x + y = y + x
    BY <2>1
  <2>3. 88 * 2 * Len(a) * Len(b) = 88 * 2 * Len(b) * Len(a)
    <3>1. \A m, n \in Nat : 88 * 2 * m * n = 88 * 2 * n * m
      <4>1. \A m, n \in Nat : m * n = n * m
        BY Z3
      <4>2. \A m, n \in Nat : 88 * 2 * m * n = 88 * 2 * (m * n)
        BY Z3
      <4> QED
        BY <4>1, <4>2
    <3> QED
      BY <1>2, <3>1
  <2> QED
    BY <1>3, <2>2, <2>3
<1>6. 4 * Found(b, a) >= 3 * Len(b)
  BY <1>2, <1>5, MostOf
<1> QED
  BY <1>4, <1>6 DEF Close

LEMMA SelfIsClose == \A t \in Takes : Close(t, t)
<1>1. \A t \in Takes : Sound[t] \in Seq(Nat)
  BY CatalogueAssumption
<1>2. \A t \in Takes : Found(Sound[t], Sound[t]) = Len(Sound[t]) /\ Len(Sound[t]) \in Nat
  BY <1>1, FoundIs
<1> QED
  BY <1>2 DEF Close

LEMMA LeastOf ==
  ASSUME NEW S \in SUBSET Nat, S # {}
  PROVE  Least(S) \in S /\ \A y \in S : Least(S) <= y
<1> DEFINE Less == OpToRel(<, Nat)
<1>1. PICK x \in S : \A y \in S : ~ (<<y, x>> \in Less)
  <2> HIDE DEF Less
  <2>1. IsWellFoundedOn(Less, Nat)
    BY NatLessThanWellFounded DEF Less
  <2> QED
    BY <2>1, WFMin
<1>2. \A y \in S : ~ (y < x)
  BY <1>1 DEF OpToRel
<1>3. \A y \in S : x <= y
  BY <1>2
<1> QED
  BY <1>3 DEF Least

----------------------------------------------------------------------------
(* Recordings and their artists.                                           *)

ArtistOf(i) == IF rows[i].name = Nobody THEN Nobody ELSE Norm[rows[i].name]

LEMMA BelongsIs ==
  RecordingsBelongToTheirArtist <=>
    \A i \in Live :
      \/ rows[i].artist = ArtistOf(i)
      \/ /\ rows[i].artist = Nobody
         /\ i \in cut \/ \E d \in Clients : Filing(req[d]) /\ req[d].id = i
BY DEF RecordingsBelongToTheirArtist, ArtistOf, Filing, Unfinished

(* What a step finds of the tables and of its handler. *)
LEMMA HereNow ==
  ASSUME Recordings, NEW c \in Clients
  PROVE  /\ Holds(req[c]) /\ req[c] \in Requests /\ RowShapes
         /\ now \in Nat /\ today \in Days /\ today \in Int /\ MaxNow \in Nat
<1>1. Holds(req[c]) /\ RowShapes
  BY DEF Recordings, PubInv
<1>2. req[c] \in Requests
  BY <1>1 DEF Holds
<1>3. MaxNow \in Nat /\ MaxDay \in Nat
  BY CatalogueAssumption
<1>4. now \in Nat /\ today \in Days
  BY <1>1, <1>3 DEF RowShapes
<1> QED
  BY <1>1, <1>2, <1>3, <1>4 DEF Days

(* A handler moves on, and leaves no recording without its artist.         *)
LEMMA MovesSettled ==
  ASSUME Recordings, NEW c \in Clients, NEW r, Go(c, r),
         UNCHANGED <<rows, cut>>,
         Filing(req[c]) => (Filing(r) /\ r.id = req[c].id)
                             \/ rows[req[c].id].artist = ArtistOf(req[c].id)
  PROVE  RecordingsBelongToTheirArtist'
<1>1. /\ req'[c] = r /\ \A d \in Clients : d # c => req'[d] = req[d]
  BY DEF Recordings, PubInv, Go
<1>2. Live' = Live /\ \A i : ArtistOf(i)' = ArtistOf(i)
  BY DEF Live, ArtistOf
<1>3. ASSUME NEW i \in Live
      PROVE  \/ rows[i].artist = ArtistOf(i)
             \/ /\ rows[i].artist = Nobody
                /\ i \in cut \/ \E d \in Clients : Filing(req'[d]) /\ req'[d].id = i
  <2>1. CASE rows[i].artist = ArtistOf(i)
    BY <2>1
  <2>2. CASE rows[i].artist # ArtistOf(i) /\ i \in cut
    BY <2>2, BelongsIs DEF Recordings
  <2>3. CASE rows[i].artist # ArtistOf(i) /\ i \notin cut
    <3>1. rows[i].artist = Nobody
      BY <2>3, BelongsIs DEF Recordings
    <3>2. PICK d \in Clients : Filing(req[d]) /\ req[d].id = i
      BY <2>3, BelongsIs DEF Recordings
    <3>3. Filing(req'[d]) /\ req'[d].id = i
      BY <1>1, <2>3, <3>2
    <3> QED
      BY <3>1, <3>3
  <2> QED
    BY <2>1, <2>2, <2>3
<1> QED
  BY <1>2, <1>3 DEF RecordingsBelongToTheirArtist, ArtistOf, Filing, Unfinished

LEMMA SourcesStay ==
  ASSUME SourcesSoundAlike, RowShapes, UNCHANGED sources, Lasting
  PROVE  SourcesSoundAlike'
<1>1. \A t \in Takes : sources[t] # 0 => sources[t] \in Live
  BY DEF RowShapes
<1> QED
  BY <1>1 DEF SourcesSoundAlike, Lasting

LEMMA LastsUnchanged ==
  ASSUME UNCHANGED rows PROVE Lasting /\ Live' = Live
BY DEF Lasting, Live

(* A step that leaves the tables as they are. *)
LEMMA OnlyMovesSoundly ==
  ASSUME Recordings, NEW c \in Clients, NEW r, Go(c, r), Holds(r),
         UNCHANGED <<catalogVars, cut, clocks>>,
         Filing(req[c]) => (Filing(r) /\ r.id = req[c].id)
                             \/ rows[req[c].id].artist = ArtistOf(req[c].id)
  PROVE  Recordings'
<1>1. PubInv'
  BY OnlyMoves DEF Recordings
<1>2. UNCHANGED <<rows, cut, sources>>
  BY DEF catalogVars
<1>3. RecordingsBelongToTheirArtist'
  BY <1>2, MovesSettled
<1>4. SourcesSoundAlike'
  BY <1>2, LastsUnchanged, SourcesStay DEF Recordings, PubInv
<1> QED
  BY <1>1, <1>3, <1>4 DEF Recordings

(* A step that leaves the tables and the handlers as they are. *)
LEMMA RecordingsStay ==
  ASSUME Recordings, UNCHANGED <<rows, sources, cut, req, now, today>>, RowShapes'
  PROVE  Recordings'
<1>1. PubInv'
  BY RequestsStay DEF Recordings
<1>2. Live' = Live /\ \A i : ArtistOf(i)' = ArtistOf(i)
  BY DEF Live, ArtistOf
<1>3. RecordingsBelongToTheirArtist'
  BY <1>2 DEF Recordings, RecordingsBelongToTheirArtist, Unfinished
<1>4. SourcesSoundAlike'
  BY LastsUnchanged, SourcesStay DEF Recordings, PubInv
<1> QED
  BY <1>1, <1>3, <1>4 DEF Recordings

(* Handlers that begin, or only read. *)
LEMMA ReadingRecords ==
  ASSUME Recordings, NEW c \in Clients,
         CallPublish(c) \/ Entry(c) \/ Match(c) \/ ReadName(c)
           \/ CallFollow(c) \/ CallPlays(c) \/ CallChart(c) \/ ReadTracks(c)
  PROVE  Recordings'
<1>h. /\ Holds(req[c]) /\ RowShapes /\ req[c] \in Requests
      /\ today \in Days /\ now \in Nat
  BY HereNow
<1>i. Holds(Idle) /\ Idle \in Requests /\ ~Filing(Idle)
  BY IdleHolds DEF Filing, Holds
<1>1. CASE CallPublish(c)
  <2>1. PICK n \in 1..MaxBatch :
          /\ req[c] = Idle
          /\ UNCHANGED <<rows, sources, artists, follows, cut, clocks>>
          /\ \/ Go(c, [Idle EXCEPT !.op = "publish", !.at = "entry", !.n = n])
             \/ UNCHANGED req
    BY <1>1 DEF CallPublish
  <2> DEFINE r == [Idle EXCEPT !.op = "publish", !.at = "entry", !.n = n]
  <2>2. CASE UNCHANGED req
    <3>1. RowShapes'
      BY <2>1, <1>h, LastsUnchanged DEF RowShapes, clocks
    <3> QED
      BY <2>1, <2>2, <3>1, RecordingsStay DEF clocks
  <2>3. CASE Go(c, r)
    <3>1. Holds(r)
      <4>1. n \in Int
        BY CatalogueAssumption
      <4>2. r \in Requests /\ r.op = "publish" /\ r.at = "entry"
        BY <1>i, <4>1 DEF Requests
      <4> QED
        BY <4>2 DEF Holds, Filing
    <3>2. PubInv'
      <4>1. RowShapes' /\ Lasting
        BY <2>1, <1>h, LastsUnchanged DEF RowShapes, clocks
      <4>2. Holds(r)'
        BY <2>1, <3>1, LastsUnchanged DEF Holds, Close, clocks
      <4> QED
        BY <2>1, <2>3, <4>1, <4>2, <1>h, Moves DEF Recordings, clocks
    <3>3. RecordingsBelongToTheirArtist'
      BY <2>1, <2>3, <1>i, MovesSettled
    <3>4. SourcesSoundAlike'
      BY <2>1, LastsUnchanged, SourcesStay DEF Recordings, PubInv
    <3> QED
      BY <3>2, <3>3, <3>4 DEF Recordings
  <2> QED
    BY <2>1, <2>2, <2>3
<1>2. CASE Entry(c)
  <2>1. At(c, "publish", "entry") /\ UNCHANGED <<catalogVars, cut, clocks>>
        /\ ~Filing(req[c])
    BY <1>2 DEF Entry, At, Filing
  <2>2. CASE Go(c, NextEntry(c))
    BY <2>1, <2>2, <1>h, NextEntryHolds, OnlyMovesSoundly
  <2>3. ASSUME NEW e \in Published,
               Go(c, [req[c] EXCEPT !.at = "match", !.stamp = now,
                        !.entry = [e EXCEPT !.credit = @ /\ e.words]])
        PROVE  Recordings'
    <3> DEFINE f == [e EXCEPT !.credit = @ /\ e.words]
               r == [req[c] EXCEPT !.at = "match", !.stamp = now, !.entry = f]
    <3>1. e \in [take : Takes, name : Names, words : BOOLEAN, credit : BOOLEAN,
                 source : BOOLEAN]
      BY CatalogueAssumption
    <3>2. f \in Entries
      BY <3>1 DEF Entries
    <3> HIDE DEF f
    <3>n. now \in Int /\ f \in Entries \cup {Nobody}
      BY <3>2, <1>h
    <3>3. /\ r \in Requests /\ r.op = "publish" /\ r.at = "match"
          /\ r.entry = f /\ r.stamp = now
      BY <3>n, <1>h, <2>1 DEF Requests, At
    <3>4. Holds(r) /\ ~Filing(r)
      BY <3>2, <3>3, <1>h DEF Holds, Filing
    <3> QED
      BY <2>1, <2>3, <3>4, OnlyMovesSoundly DEF f
  <2> QED
    BY <1>2, <2>2, <2>3 DEF Entry
<1>3. CASE Match(c)
  <2>1. At(c, "publish", "match") /\ UNCHANGED <<catalogVars, cut, clocks>>
        /\ ~Filing(req[c]) /\ req[c].entry \in Entries /\ req[c].stamp \in 0..now
    BY <1>3, <1>h DEF Match, At, Filing, Holds
  <2>2. PICK i \in {0} \cup Best(req[c].entry.take) :
          /\ Go(c, [req[c] EXCEPT !.at = "file", !.id = i])
          /\ i # 0 => i \in Best(req[c].entry.take)
    BY <1>3 DEF Match
  <2> DEFINE r == [req[c] EXCEPT !.at = "file", !.id = i]
  <2>3. i # 0 => i \in Live /\ Close(req[c].entry.take, rows[i].take)
    <3>1. SUFFICES ASSUME i # 0
                   PROVE  i \in Live /\ Close(req[c].entry.take, rows[i].take)
      OBVIOUS
    <3>2. i \in Live /\ SameRecording(Sound[req[c].entry.take], Sound[rows[i].take])
      BY <2>2, <3>1 DEF Best, Alike, Candidates
    <3>3. req[c].entry.take \in Takes /\ rows[i].take \in Takes
      BY <2>1, <3>2, <1>h, LiveRows DEF Entries, Rows, Live
    <3> QED
      BY <3>2, <3>3, AlikeIsClose
  <2>4. /\ r \in Requests /\ r.op = "publish" /\ r.at = "file"
        /\ r.entry = req[c].entry /\ r.stamp = req[c].stamp /\ r.id = i
    BY <2>1, <2>3, <1>h DEF Requests, At, Live
  <2>5. Holds(r)
    BY <2>1, <2>3, <2>4 DEF Holds, Filing
  <2> QED
    BY <2>1, <2>2, <2>5, OnlyMovesSoundly
<1>4. CASE ReadName(c)
  <2>1. /\ At(c, "publish", "read") /\ UNCHANGED <<catalogVars, cut, clocks>>
        /\ Filing(req[c])
    BY <1>4 DEF ReadName, At, Filing
  <2>2. /\ req[c].id \in Live /\ Close(req[c].entry.take, rows[req[c].id].take)
        /\ req[c].entry \in Entries /\ req[c].stamp \in 0..now
    BY <1>h, <2>1 DEF Holds, At
  <2>3. CASE Stuck(c) = Nobody \/ Norm[Stuck(c)] = Nobody
    <3>1. Go(c, NextEntry(c))
      BY <1>4, <2>3 DEF ReadName
    <3>2. rows[req[c].id].artist = ArtistOf(req[c].id)
      BY <2>2, <2>3, BelongsIs DEF Recordings, ArtistOf, Stuck
    <3> QED
      BY <2>1, <3>1, <3>2, <1>h, NextEntryHolds, OnlyMovesSoundly
  <2>4. CASE ~(Stuck(c) = Nobody \/ Norm[Stuck(c)] = Nobody)
    <3> DEFINE r == [req[c] EXCEPT !.at = "upsert", !.name = Stuck(c)]
    <3>1. Go(c, r)
      BY <1>4, <2>4 DEF ReadName
    <3>2. Stuck(c) \in Spellings /\ Stuck(c) \in Names
      BY <2>2, <2>4, <1>h, LiveRows DEF Stuck, Rows, Names, Live
    <3>3. /\ r \in Requests /\ r.op = "publish" /\ r.at = "upsert"
          /\ r.entry = req[c].entry /\ r.stamp = req[c].stamp
          /\ r.id = req[c].id /\ r.name = Stuck(c)
      BY <2>1, <3>2, <1>h DEF Requests, At
    <3>4. Holds(r) /\ Filing(r)
      BY <2>2, <2>4, <3>2, <3>3 DEF Holds, Filing, Stuck
    <3> QED
      BY <2>1, <3>1, <3>3, <3>4, OnlyMovesSoundly
  <2> QED
    BY <2>3, <2>4
<1>5. CASE CallFollow(c)
  <2>1. PICK a \in Asked :
          /\ Norm[a.name] # Nobody /\ req[c] = Idle
          /\ Go(c, [Idle EXCEPT !.op = "follow", !.at = "upsert",
                      !.name = a.name, !.known = a.known])
          /\ UNCHANGED <<catalogVars, cut, clocks>>
    BY <1>5 DEF CallFollow, Begin
  <2> DEFINE r == [Idle EXCEPT !.op = "follow", !.at = "upsert",
                     !.name = a.name, !.known = a.known]
  <2>2. a.name \in Spellings /\ a.name \in Names /\ a.known \in BOOLEAN
    BY CatalogueAssumption DEF Names
  <2>3. /\ r \in Requests /\ r.op = "follow" /\ r.at = "upsert"
        /\ r.name = a.name
    BY <2>2, <1>i DEF Requests
  <2>4. Holds(r)
    BY <2>1, <2>2, <2>3 DEF Holds, Filing
  <2> QED
    BY <2>1, <2>4, <1>i, OnlyMovesSoundly
<1>6. CASE CallPlays(c)
  <2> DEFINE r == [Idle EXCEPT !.op = "plays", !.at = "count", !.stamp = today]
  <2>1. req[c] = Idle /\ Go(c, r) /\ UNCHANGED <<catalogVars, cut, clocks>>
    BY <1>6 DEF CallPlays, Begin
  <2>2. today \in 0..today /\ today \in Int
    BY <1>h, CatalogueAssumption DEF Days
  <2>3. r \in Requests /\ r.op = "plays" /\ r.at = "count" /\ r.stamp = today
    BY <2>2, <1>i DEF Requests
  <2>4. Holds(r)
    BY <2>2, <2>3 DEF Holds, Filing
  <2> QED
    BY <2>1, <2>4, <1>i, OnlyMovesSoundly
<1>7. CASE CallChart(c)
  <2>1. PICK days \in 1..Retention :
          /\ req[c] = Idle
          /\ Go(c, [Idle EXCEPT !.op = "chart", !.at = "tracks",
                      !.stamp = today, !.days = days])
          /\ UNCHANGED <<catalogVars, cut, clocks>>
    BY <1>7 DEF CallChart, Begin
  <2> DEFINE r == [Idle EXCEPT !.op = "chart", !.at = "tracks",
                     !.stamp = today, !.days = days]
  <2>2. today \in Int /\ days \in Int
    BY <1>h, CatalogueAssumption DEF Days
  <2>3. /\ r \in Requests /\ r.op = "chart" /\ r.at = "tracks"
        /\ r.stamp = today /\ r.days = days
    BY <2>2, <1>i DEF Requests
  <2>4. Holds(r)
    BY <2>1, <2>3, <1>h DEF Holds, Filing
  <2> QED
    BY <2>1, <2>4, <1>i, OnlyMovesSoundly
<1>8. CASE ReadTracks(c)
  <2> DEFINE s == NamedIn(counters, Current(req[c].stamp, req[c].days))
             r == [req[c] EXCEPT !.at = "ranks", !.stamp = today, !.named = s]
  <2>1. /\ At(c, "chart", "tracks") /\ Go(c, r) /\ ~Filing(req[c])
        /\ UNCHANGED <<catalogVars, cut, clocks>>
    BY <1>8 DEF ReadTracks, Filing, At
  <2>2. s \in SUBSET Songs
    BY DEF NamedIn
  <2>3. today \in Int /\ req[c].days \in 1..Retention
    BY <1>h, <2>1, CatalogueAssumption DEF Days, Holds, At
  <2> HIDE DEF s
  <2>4. /\ r \in Requests /\ r.op = "chart" /\ r.at = "ranks"
        /\ r.stamp = today /\ r.days = req[c].days
    BY <2>1, <2>2, <2>3, <1>h DEF Requests, At
  <2>5. Holds(r)
    BY <2>3, <2>4, <1>h DEF Holds, Filing
  <2> QED
    BY <2>1, <2>5, OnlyMovesSoundly DEF s
<1> QED
  BY <1>1, <1>2, <1>3, <1>4, <1>5, <1>6, <1>7, <1>8

(* Publishing inserts a row or fills in what one lacks. *)
LEMMA FileIs ==
  ASSUME Recordings, NEW c \in Clients, File(c)
  PROVE  \E i \in Ids, x \in Rows :
           /\ rows' = [rows EXCEPT ![i] = x]
           /\ x.updated = req[c].stamp
           /\ Close(req[c].entry.take, x.take)
           /\ i \in Live =>
                /\ x.take = rows[i].take /\ x.artist = rows[i].artist
                /\ rows[i].name # Nobody => x.name = rows[i].name
                /\ rows[i].words # Nobody =>
                     x.words = rows[i].words /\ x.credit = rows[i].credit
           /\ i \notin Live => x.artist = Nobody
           /\ Go(c, [req[c] EXCEPT !.id = i,
                       !.at = IF req[c].entry.source THEN "source" ELSE "read"])
           /\ missed' = With(missed, Pulled(req[c].stamp), {i})
           /\ unheard' = With(unheard, Told(i, req[c].stamp), {i})
<1>h. /\ Holds(req[c]) /\ RowShapes /\ req[c] \in Requests
      /\ At(c, "publish", "file") /\ MaxNow \in Nat
  BY HereNow DEF File
<1>e. /\ req[c].entry \in Entries /\ req[c].stamp \in 0..now
      /\ req[c].id # 0 => req[c].id \in Live
                          /\ Close(req[c].entry.take, rows[req[c].id].take)
  BY <1>h DEF Holds, At
<1>s. req[c].stamp \in 0..MaxNow
  BY <1>h, <1>e DEF RowShapes
<1>w. Words(c) \in Clients \cup {Nobody} /\ Credit(c) \in Clients \cup {Nobody}
  BY DEF Words, Credit
<1>1. CASE req[c].id = 0
  <2> DEFINE i == Least(Ids \ Live)
             x == Inserted(c)
  <2>1. i \in Ids \ Live
    BY <1>1, <1>h, LeastOf, CatalogueAssumption DEF File
  <2>2. /\ x \in Rows /\ x.updated = req[c].stamp /\ x.artist = Nobody
        /\ x.take = req[c].entry.take
    BY <1>e, <1>s, <1>w DEF Inserted, Rows, Entries
  <2>3. Close(req[c].entry.take, x.take)
    BY <2>2, <1>e, SelfIsClose DEF Entries
  <2>4. /\ rows' = [rows EXCEPT ![i] = x]
        /\ Go(c, [req[c] EXCEPT !.id = i,
                    !.at = IF req[c].entry.source THEN "source" ELSE "read"])
        /\ missed' = With(missed, Pulled(req[c].stamp), {i})
        /\ unheard' = With(unheard, Told(i, req[c].stamp), {i})
    BY <1>1 DEF File
  <2> HIDE DEF i, x
  <2> QED
    BY <2>1, <2>2, <2>3, <2>4
<1>2. CASE req[c].id # 0
  <2> DEFINE i == req[c].id
             x == Filled(rows[i], c)
  <2>1. i \in Live /\ i \in Ids /\ rows[i] \in Rows
    BY <1>2, <1>e, <1>h, LiveRows DEF Live
  <2>2. /\ x \in Rows /\ x.updated = req[c].stamp
        /\ x.take = rows[i].take /\ x.artist = rows[i].artist
        /\ rows[i].name # Nobody => x.name = rows[i].name
        /\ rows[i].words # Nobody =>
             x.words = rows[i].words /\ x.credit = rows[i].credit
    <3>1. Or(rows[i].name, req[c].entry.name) \in Names
      BY <2>1, <1>e DEF Or, Rows, Entries
    <3>2. Or(rows[i].words, Words(c)) \in Clients \cup {Nobody}
      BY <2>1, <1>w DEF Or, Rows
    <3>3. (IF rows[i].words = Nobody THEN Credit(c) ELSE rows[i].credit)
             \in Clients \cup {Nobody}
      BY <2>1, <1>w DEF Rows
    <3>4. x = [rows[i] EXCEPT !.name = Or(rows[i].name, req[c].entry.name),
                 !.words = Or(rows[i].words, Words(c)),
                 !.credit = IF rows[i].words = Nobody THEN Credit(c)
                            ELSE rows[i].credit,
                 !.updated = req[c].stamp]
      BY <2>1 DEF Filled, Rows
    <3> HIDE DEF x, i
    <3>5. /\ x.take = rows[i].take /\ x.artist = rows[i].artist
          /\ x.name = Or(rows[i].name, req[c].entry.name)
          /\ x.words = Or(rows[i].words, Words(c))
          /\ x.credit = IF rows[i].words = Nobody THEN Credit(c)
                        ELSE rows[i].credit
          /\ x.updated = req[c].stamp /\ x \in Rows
      BY <2>1, <3>1, <3>2, <3>3, <3>4, <1>s DEF Rows
    <3> QED
      BY <3>5 DEF Or
  <2>3. Close(req[c].entry.take, x.take)
    BY <2>2, <1>2, <1>e
  <2>4. /\ rows' = [rows EXCEPT ![i] = x]
        /\ Go(c, [req[c] EXCEPT !.id = i,
                    !.at = IF req[c].entry.source THEN "source" ELSE "read"])
        /\ missed' = With(missed, Pulled(req[c].stamp), {i})
        /\ unheard' = With(unheard, Told(i, req[c].stamp), {i})
    BY <1>2 DEF File
  <2> HIDE DEF x
  <2> QED
    BY <2>1, <2>2, <2>3, <2>4
<1> QED
  BY <1>1, <1>2

(* A row is put. *)
LEMMA PutIs ==
  ASSUME RowShapes, NEW i \in Ids, NEW x \in Rows, rows' = [rows EXCEPT ![i] = x],
         i \in Live => x.take = rows[i].take
                       /\ (rows[i].name # Nobody => x.name = rows[i].name)
  PROVE  /\ Live' = Live \cup {i} /\ Lasting /\ rows'[i] = x
         /\ \A j \in Ids : j # i => rows'[j] = rows[j]
         /\ rows' \in [Ids -> Rows \cup {NoRow}]
<1>1. /\ rows'[i] = x /\ \A j \in Ids : j # i => rows'[j] = rows[j]
      /\ rows' \in [Ids -> Rows \cup {NoRow}]
  BY DEF RowShapes
<1>2. x # NoRow
  BY BlankRow
<1>3. Live' = Live \cup {i}
  BY <1>1, <1>2 DEF Live
<1> QED
  BY <1>1, <1>3 DEF Lasting, Live

LEMMA FileRecords ==
  ASSUME Recordings, NEW c \in Clients, File(c)
  PROVE  Recordings'
<1>1. PICK i \in Ids, x \in Rows :
           /\ rows' = [rows EXCEPT ![i] = x]
           /\ x.updated = req[c].stamp
           /\ Close(req[c].entry.take, x.take)
           /\ i \in Live =>
                /\ x.take = rows[i].take /\ x.artist = rows[i].artist
                /\ rows[i].name # Nobody => x.name = rows[i].name
           /\ i \notin Live => x.artist = Nobody
           /\ Go(c, [req[c] EXCEPT !.id = i,
                       !.at = IF req[c].entry.source THEN "source" ELSE "read"])
  BY FileIs
<1>r. PICK r : r = [req[c] EXCEPT !.id = i,
                   !.at = IF req[c].entry.source THEN "source" ELSE "read"]
  OBVIOUS
<1>h. /\ Go(c, r) /\ Holds(req[c]) /\ RowShapes /\ req[c] \in Requests
      /\ At(c, "publish", "file") /\ now \in Nat
      /\ UNCHANGED <<sources, artists, follows, cut, now, today>>
  BY <1>1, <1>r, HereNow DEF File, clocks
<1>2. /\ Live' = Live \cup {i} /\ Lasting /\ rows'[i] = x
      /\ \A j \in Ids : j # i => rows'[j] = rows[j]
      /\ rows' \in [Ids -> Rows \cup {NoRow}]
  BY <1>1, <1>h, PutIs
<1>3. /\ r \in Requests /\ r.op = "publish" /\ r.at \in {"source", "read"}
      /\ r.entry = req[c].entry /\ r.stamp = req[c].stamp /\ r.id = i
  BY <1>r, <1>h DEF Requests, At
<1>4. Holds(r)'
  BY <1>1, <1>2, <1>3, <1>h DEF Holds, At, Close
<1>5. RowShapes'
  BY <1>h, <1>2 DEF RowShapes
<1>6. PubInv'
  BY <1>2, <1>4, <1>5, <1>h, Moves DEF Recordings
<1>7. SourcesSoundAlike'
  BY <1>2, <1>h, SourcesStay DEF Recordings
<1>8. RecordingsBelongToTheirArtist'
  <2>1. /\ req'[c] = r /\ \A d \in Clients : d # c => req'[d] = req[d]
    BY <1>h DEF Recordings, PubInv, Go
  <2>2. Filing(req'[c]) /\ req'[c].id = i /\ ~Filing(req[c])
    BY <1>3, <1>h, <2>1 DEF Filing, At
  <2>3. ASSUME NEW j \in Live, j # i
        PROVE  \/ rows[j].artist = ArtistOf(j)
               \/ /\ rows[j].artist = Nobody
                  /\ j \in cut \/ \E d \in Clients : Filing(req'[d]) /\ req'[d].id = j
    BY <2>1, <2>2, <2>3, BelongsIs DEF Recordings
  <2>4. \/ x.artist = IF x.name = Nobody THEN Nobody ELSE Norm[x.name]
        \/ x.artist = Nobody
    <3>1. CASE i \notin Live
      BY <3>1, <1>1
    <3>2. CASE i \in Live
      BY <3>2, <1>1, BelongsIs DEF Recordings, ArtistOf
    <3> QED
      BY <3>1, <3>2
  <2>5. ASSUME NEW j \in Live'
        PROVE  \/ rows'[j].artist = ArtistOf(j)'
               \/ /\ rows'[j].artist = Nobody
                  /\ j \in cut' \/ \E d \in Clients : Filing(req'[d]) /\ req'[d].id = j
    <3>1. CASE j = i
      BY <3>1, <2>2, <2>4, <1>2 DEF ArtistOf
    <3>2. CASE j # i
      <4>1. j \in Live /\ rows'[j] = rows[j]
        BY <3>2, <1>2, <2>5 DEF Live
      <4> QED
        BY <4>1, <3>2, <2>3, <1>h DEF ArtistOf
    <3> QED
      BY <3>1, <3>2
  <2> QED
    BY <2>5 DEF RecordingsBelongToTheirArtist, ArtistOf, Filing, Unfinished
<1> QED
  BY <1>6, <1>7, <1>8 DEF Recordings

LEMMA FileSourceRecords ==
  ASSUME Recordings, NEW c \in Clients, FileSource(c)
  PROVE  Recordings'
<1>r. PICK r : r = [req[c] EXCEPT !.at = "read"]
  OBVIOUS
<1>h. /\ Holds(req[c]) /\ RowShapes /\ req[c] \in Requests
      /\ At(c, "publish", "source") /\ now \in Nat /\ Go(c, r)
      /\ UNCHANGED <<rows, artists, follows, cut, now, today>>
      /\ sources' = [sources EXCEPT ![req[c].entry.take] = req[c].id]
  BY <1>r, HereNow DEF FileSource, clocks, Then
<1>1. /\ Filing(req[c]) /\ req[c].id \in Live /\ req[c].entry \in Entries
      /\ Close(req[c].entry.take, rows[req[c].id].take)
  BY <1>h DEF Holds, At, Filing
<1>2. /\ r \in Requests /\ r.op = "publish" /\ r.at = "read" /\ r.id = req[c].id
      /\ r.entry = req[c].entry /\ r.stamp = req[c].stamp
  BY <1>r, <1>h DEF Requests, At
<1>3. Lasting /\ Live' = Live
  BY <1>h, LastsUnchanged
<1>4. Holds(r)'
  BY <1>1, <1>2, <1>3, <1>h DEF Holds, At, Close
<1>5. RowShapes'
  BY <1>h, <1>1, <1>3 DEF RowShapes
<1>6. PubInv'
  BY <1>3, <1>4, <1>5, <1>h, Moves DEF Recordings
<1>7. RecordingsBelongToTheirArtist'
  BY <1>h, <1>2, MovesSettled DEF Filing
<1>8. SourcesSoundAlike'
  <2>1. req[c].entry.take \in Takes
    BY <1>1 DEF Entries
  <2>2. ASSUME NEW t \in Takes, sources'[t] # 0
        PROVE  Close(t, rows[sources'[t]].take)
    <3>1. CASE t = req[c].entry.take
      BY <3>1, <1>h, <1>1 DEF RowShapes
    <3>2. CASE t # req[c].entry.take
      <4>1. sources'[t] = sources[t]
        BY <3>2, <1>h DEF RowShapes
      <4> QED
        BY <4>1, <2>2 DEF Recordings, SourcesSoundAlike, Close
    <3> QED
      BY <3>1, <3>2
  <2> QED
    BY <2>2, <1>h DEF SourcesSoundAlike, Close
<1> QED
  BY <1>6, <1>7, <1>8 DEF Recordings

LEMMA UpsertRecords ==
  ASSUME Recordings, NEW c \in Clients, Upsert(c)
  PROVE  Recordings'
<1>r. PICK r : r = [req[c] EXCEPT !.at = "join"]
  OBVIOUS
<1> DEFINE a == Norm[req[c].name]
<1>h. /\ Holds(req[c]) /\ RowShapes /\ req[c] \in Requests
      /\ req[c].at = "upsert" /\ now \in Nat /\ Go(c, r)
      /\ UNCHANGED <<rows, sources, follows, cut, now, today>>
      /\ artists' = [artists EXCEPT ![a] =
                       Upserted(@, req[c].name, req[c].known)]
  BY <1>r, HereNow DEF Upsert, clocks, Then
<1>1. /\ req[c].name \in Spellings /\ a \in Artists
      /\ Filing(req[c]) <=> req[c].op = "publish"
  BY <1>h DEF Holds, Filing, Artists
<1>2. /\ r \in Requests /\ r.op = req[c].op /\ r.at = "join" /\ r.id = req[c].id
      /\ r.entry = req[c].entry /\ r.stamp = req[c].stamp
      /\ r.name = req[c].name /\ r.days = req[c].days
  BY <1>r, <1>h DEF Requests
<1>3. Lasting /\ Live' = Live
  BY <1>h, LastsUnchanged
<1>4. Holds(r)'
  BY <1>2, <1>3, <1>h DEF Holds, Close, Filing
<1>5. RowShapes'
  <2>1. \A x \in [shown : Names, known : BOOLEAN] :
          Upserted(x, req[c].name, req[c].known) \in [shown : Names, known : BOOLEAN]
    BY <1>1, <1>h DEF Upserted, Names, Requests
  <2>2. artists' \in [Artists -> [shown : Names, known : BOOLEAN]]
    BY <1>1, <2>1, <1>h DEF RowShapes
  <2> QED
    BY <1>h, <1>3, <2>2 DEF RowShapes
<1>6. PubInv'
  BY <1>3, <1>4, <1>5, <1>h, Moves DEF Recordings
<1>7. RecordingsBelongToTheirArtist'
  BY <1>h, <1>2, MovesSettled DEF Filing
<1>8. SourcesSoundAlike'
  BY <1>h, <1>3, SourcesStay DEF Recordings
<1> QED
  BY <1>6, <1>7, <1>8 DEF Recordings

LEMMA LinkRecords ==
  ASSUME Recordings, NEW c \in Clients, Link(c)
  PROVE  /\ Recordings' /\ Live' = Live
         /\ req[c].id \in Live /\ Norm[req[c].name] \in Artists
         /\ rows' = [rows EXCEPT ![req[c].id].artist = Norm[req[c].name]]
<1> DEFINE i == req[c].id
           a == Norm[req[c].name]
           x == [rows[i] EXCEPT !.artist = a]
<1>r. PICK r : r = NextEntry(c)
  OBVIOUS
<1>h. /\ Go(c, r) /\ Holds(req[c]) /\ RowShapes /\ req[c] \in Requests
      /\ At(c, "publish", "join") /\ now \in Nat
      /\ UNCHANGED <<sources, artists, follows, cut, now, today>>
      /\ rows' = [rows EXCEPT ![i].artist = a]
  BY <1>r, HereNow DEF Link, clocks
<1>1. /\ Filing(req[c]) /\ i \in Live /\ i \in Ids /\ rows[i] \in Rows
      /\ req[c].name \in Spellings /\ a \in Artists /\ req[c].name = rows[i].name
  BY <1>h, LiveRows DEF Holds, At, Filing, Artists, Live
<1>2. /\ x \in Rows /\ x.take = rows[i].take /\ x.name = rows[i].name
      /\ x.artist = a
  BY <1>1 DEF Rows
<1>3. rows' = [rows EXCEPT ![i] = x]
  BY <1>h
<1>4. /\ Live' = Live \cup {i} /\ Lasting /\ rows'[i] = x
      /\ \A j \in Ids : j # i => rows'[j] = rows[j]
      /\ rows' \in [Ids -> Rows \cup {NoRow}]
  <2> HIDE DEF i, x
  <2> QED
    BY <1>1, <1>2, <1>3, <1>h, PutIs
<1>5. Holds(r) /\ r.at \in {"idle", "entry"}
  BY <1>r, <1>h, NextEntryHolds
<1>6. Holds(r)'
  BY <1>4, <1>5, <1>h, HoldsOn
<1>7. RowShapes'
  BY <1>h, <1>1, <1>4 DEF RowShapes
<1>8. PubInv'
  BY <1>4, <1>6, <1>7, <1>h, Moves DEF Recordings
<1>9. SourcesSoundAlike'
  BY <1>4, <1>h, SourcesStay DEF Recordings
<1>10. RecordingsBelongToTheirArtist'
  <2>1. /\ req'[c] = r /\ \A d \in Clients : d # c => req'[d] = req[d]
    BY <1>h DEF Recordings, PubInv, Go
  <2>2. ASSUME NEW j \in Live'
        PROVE  \/ rows'[j].artist = ArtistOf(j)'
               \/ /\ rows'[j].artist = Nobody
                  /\ j \in cut' \/ \E d \in Clients : Filing(req'[d]) /\ req'[d].id = j
    <3>1. CASE j = i
      <4>1. ArtistOf(j)' = a
        BY <3>1, <1>1, <1>2, <1>4, BlankRow DEF ArtistOf
      <4> QED
        BY <3>1, <4>1, <1>2, <1>4
    <3>2. CASE j # i
      <4>1. j \in Live /\ rows'[j] = rows[j]
        BY <3>2, <1>1, <1>4, <2>2 DEF Live
      <4> QED
        BY <4>1, <3>2, <2>1, <1>h, BelongsIs DEF Recordings, ArtistOf
    <3> QED
      BY <3>1, <3>2
  <2> QED
    BY <2>2 DEF RecordingsBelongToTheirArtist, ArtistOf, Filing, Unfinished
<1> QED
  BY <1>1, <1>4, <1>8, <1>9, <1>10, <1>h DEF Recordings

LEMMA FollowIs ==
  ASSUME RowShapes, NEW c \in Clients, NEW a \in Artists,
         NEW f \in {Never} \cup 0..MaxNow,
         follows' = [follows EXCEPT ![c][a] = f],
         UNCHANGED <<rows, sources, artists, cut, now, today>>
  PROVE  /\ RowShapes' /\ follows'[c][a] = f
         /\ \A d \in Clients, b \in Artists :
              d # c \/ b # a => follows'[d][b] = follows[d][b]
BY LastsUnchanged DEF RowShapes

LEMMA FollowingRecords ==
  ASSUME Recordings, NEW c \in Clients, Follow(c) \/ Unfollow(c)
  PROVE  Recordings'
<1>1. CASE Follow(c)
  <2> DEFINE a == Norm[req[c].name]
             f == IF follows[c][a] = Never THEN now ELSE follows[c][a]
  <2>1. /\ Go(c, Idle) /\ Holds(req[c]) /\ RowShapes
        /\ At(c, "follow", "join") /\ now \in Nat /\ ~Filing(req[c])
        /\ UNCHANGED <<rows, sources, artists, cut, now, today>>
        /\ follows' = [follows EXCEPT ![c][a] = f]
    BY <1>1, HereNow DEF Follow, clocks, Filing, At
  <2>2. a \in Artists
    BY <2>1 DEF Holds, At, Artists
  <2>3. f \in {Never} \cup 0..MaxNow
    BY <2>1, <2>2 DEF RowShapes
  <2>4. RowShapes'
    <3> HIDE DEF a, f
    <3> QED
      BY <2>1, <2>2, <2>3, FollowIs
  <2>5. Holds(Idle)'
    BY <2>1, IdleHolds, LastsUnchanged DEF Holds, Close
  <2>6. PubInv'
    BY <2>1, <2>4, <2>5, LastsUnchanged, Moves DEF Recordings
  <2>7. RecordingsBelongToTheirArtist' /\ SourcesSoundAlike'
    BY <2>1, MovesSettled, LastsUnchanged, SourcesStay DEF Recordings
  <2> QED
    BY <2>6, <2>7 DEF Recordings
<1>2. CASE Unfollow(c)
  <2>1. PICK a \in Artists : follows' = [follows EXCEPT ![c][a] = Never]
    BY <1>2 DEF Unfollow
  <2>2. UNCHANGED <<rows, sources, artists, cut, req, now, today>>
    BY <1>2 DEF Unfollow, clocks
  <2>3. RowShapes'
    BY <2>1, <2>2, FollowIs DEF Recordings, PubInv
  <2> QED
    BY <2>2, <2>3, RecordingsStay
<1> QED
  BY <1>1, <1>2

(* Steps of the other parts, and time. *)
LEMMA OtherRecords ==
  ASSUME Recordings,
         \/ \E c \in Clients :
              \/ Pull(c) \/ Watch(c) \/ Count(c) \/ ReadRanks(c)
              \/ PopularTracks(c) \/ Agree(c) \/ Submit(c) \/ Similar(c)
         \/ Toggle \/ Second \/ Midnight \/ Restart \/ UNCHANGED vars
  PROVE  Recordings'
<1>h. /\ RowShapes /\ now \in Nat /\ MaxNow \in Nat /\ today \in Days
      /\ MaxDay \in Nat
  BY CatalogueAssumption DEF Recordings, PubInv, RowShapes
<1>1. ASSUME NEW c \in Clients, Count(c) \/ ReadRanks(c) PROVE Recordings'
  <2>1. /\ Go(c, Idle) /\ ~Filing(req[c])
        /\ UNCHANGED <<catalogVars, cut, clocks>>
    BY <1>1 DEF Count, ReadRanks, At, Filing
  <2> QED
    BY <2>1, IdleHolds, OnlyMovesSoundly
<1>2. ASSUME UNCHANGED <<catalogVars, cut, req, clocks>> PROVE Recordings'
  <2>1. UNCHANGED <<rows, sources, artists, follows, cut, req, now, today>>
    BY <1>2 DEF catalogVars, clocks
  <2>2. RowShapes'
    BY <2>1, <1>h, LastsUnchanged DEF RowShapes
  <2> QED
    BY <2>1, <2>2, RecordingsStay
<1>3. ASSUME NEW c \in Clients,
             \/ Pull(c) \/ Watch(c) \/ PopularTracks(c) \/ Agree(c)
             \/ Submit(c) \/ Similar(c)
      PROVE  Recordings'
  BY <1>2, <1>3 DEF Pull, Watch, PopularTracks, Agree, Submit, Similar
<1>4. CASE Toggle \/ UNCHANGED vars
  BY <1>2, <1>4 DEF Toggle, vars
<1>5. CASE Second \/ Midnight
  <2>1. /\ UNCHANGED <<rows, sources, artists, follows, cut, req>>
        /\ now' \in 0..MaxNow /\ now' >= now /\ today' \in Days /\ today' >= today
        /\ \A c \in Clients : req[c].op \in {"plays", "chart"} =>
             today' = today \/ (req[c].stamp = today /\ today' = today + 1)
    BY <1>5, <1>h DEF Second, Midnight, catalogVars, Days, RowShapes
  <2>2. RowShapes' /\ Live' = Live
    BY <2>1, <1>h, LastsUnchanged DEF RowShapes
  <2>3. ASSUME NEW c \in Clients PROVE Holds(req[c])'
    <3>1. Holds(req[c])
      BY DEF Recordings, PubInv
    <3>2. req[c].op = "publish" /\ req[c].at # "entry" => req[c].stamp \in 0..now'
      BY <3>1, <2>1, <1>h DEF Holds
    <3>3. req[c].op = "plays" => req[c].stamp \in 0..today'
      BY <3>1, <2>1, <1>h DEF Holds, Days
    <3>4. req[c].op = "chart" => req[c].stamp \in {today' - 1, today'}
      BY <3>1, <2>1, <1>h DEF Holds, Days
    <3> QED
      BY <3>1, <3>2, <3>3, <3>4, <2>1, <2>2 DEF Holds, Close
  <2>4. PubInv'
    BY <2>1, <2>2, <2>3 DEF Recordings, PubInv
  <2>5. RecordingsBelongToTheirArtist'
    BY <2>1, <2>2 DEF Recordings, RecordingsBelongToTheirArtist, Unfinished
  <2>6. SourcesSoundAlike'
    BY <2>1, <1>h, LastsUnchanged, SourcesStay DEF Recordings
  <2> QED
    BY <2>4, <2>5, <2>6 DEF Recordings
<1>6. CASE Restart
  <2>1. /\ UNCHANGED <<rows, sources, artists, follows, now, today>>
        /\ cut' = cut \cup {req[c].id : c \in {d \in Clients : Unfinished(d)}}
        /\ req' = [c \in Clients |-> Idle]
    BY <1>6 DEF Restart, clocks
  <2>2. \A d \in Clients : Unfinished(d) => Filing(req[d]) /\ req[d].id \in Live
    BY DEF Unfinished, Filing, Recordings, PubInv, Holds
  <2>3. Live' = Live /\ cut' \subseteq Ids
    BY <2>1, <2>2, <1>h, LastsUnchanged DEF RowShapes, Live
  <2>4. RowShapes'
    BY <2>1, <2>3, <1>h DEF RowShapes
  <2>5. Holds(Idle)'
    BY <2>1, <2>3, IdleHolds DEF Holds, Close
  <2>6. PubInv'
    <3>1. \A c \in Clients : req'[c] = Idle
      BY <2>1
    <3> QED
      BY <2>1, <3>1, <2>4, <2>5 DEF PubInv, Holds
  <2>7. RecordingsBelongToTheirArtist'
    <3>1. ASSUME NEW i \in Live
          PROVE  rows[i].artist = ArtistOf(i) \/ (rows[i].artist = Nobody /\ i \in cut')
      BY <3>1, <2>1, BelongsIs DEF Recordings, Unfinished, Filing
    <3> QED
      BY <3>1, <2>1, <2>3 DEF RecordingsBelongToTheirArtist, ArtistOf
  <2>8. SourcesSoundAlike'
    BY <2>1, <1>h, LastsUnchanged, SourcesStay DEF Recordings
  <2> QED
    BY <2>6, <2>7, <2>8 DEF Recordings
<1> QED
  BY <1>1, <1>3, <1>4, <1>5, <1>6

LEMMA InitRecordings == Init => Recordings
<1> SUFFICES ASSUME Init PROVE Recordings
  OBVIOUS
<1>0. MaxNow \in Nat /\ MaxDay \in Nat
  BY CatalogueAssumption
<1>1. Live = {}
  BY DEF Init, Live
<1>2. RowShapes
  BY <1>0, CatalogueAssumption DEF Init, RowShapes, NoArtist, Names, Never, Days
<1>3. PubInv
  BY <1>2, IdleHolds DEF Init, PubInv
<1>4. RecordingsBelongToTheirArtist
  BY <1>1 DEF RecordingsBelongToTheirArtist
<1>5. SourcesSoundAlike
  BY DEF Init, SourcesSoundAlike
<1> QED
  BY <1>3, <1>4, <1>5 DEF Recordings

LEMMA StepRecordings == Recordings /\ [Next]_vars => Recordings'
<1> SUFFICES ASSUME Recordings, [Next]_vars PROVE Recordings'
  OBVIOUS
<1>1. ASSUME NEW c \in Clients,
             \/ CallPublish(c) \/ Entry(c) \/ Match(c) \/ ReadName(c)
             \/ CallFollow(c) \/ CallPlays(c) \/ CallChart(c) \/ ReadTracks(c)
      PROVE  Recordings'
  BY <1>1, ReadingRecords
<1>2. ASSUME NEW c \in Clients,
             \/ File(c) \/ FileSource(c) \/ Upsert(c) \/ Link(c)
             \/ Follow(c) \/ Unfollow(c)
      PROVE  Recordings'
  BY <1>2, FileRecords, FileSourceRecords, UpsertRecords, LinkRecords,
     FollowingRecords
<1>3. CASE \/ \E c \in Clients :
                \/ Pull(c) \/ Watch(c) \/ Count(c) \/ ReadRanks(c)
                \/ PopularTracks(c) \/ Agree(c) \/ Submit(c) \/ Similar(c)
           \/ Toggle \/ Second \/ Midnight \/ Restart \/ UNCHANGED vars
  BY <1>3, OtherRecords
<1> QED
  BY <1>1, <1>2, <1>3 DEF Next

----------------------------------------------------------------------------
(* Walking the catalogue.                                                  *)

(* What device v does not hold of row i, or was not told of it, it was     *)
(* passed over with.                                                       *)
Held(v, i) ==
  rows[i].updated <= cursor[v] => copies[v][i] = Copy(i) \/ i \in missed[v]
Heard(v, i) ==
  IsNews(v, i) /\ rows[i].updated <= watermark[v]
    => i \in told[v] \cup unheard[v]
Readers ==
  /\ cursor \in [Clients -> Int] /\ watermark \in [Clients -> Int]
  /\ copies = [v \in Clients |-> copies[v]]
  /\ missed \in [Clients -> SUBSET Ids] /\ unheard \in [Clients -> SUBSET Ids]
  /\ told \in [Clients -> SUBSET Ids]

LEMMA SkippingIs ==
  Skipping <=> Readers /\ \A v \in Clients, i \in Live : Held(v, i) /\ Heard(v, i)
BY DEF Skipping, Readers, NothingIsSkippedOver, Held, Heard

LEMMA WithIs ==
  ASSUME NEW past \in [Clients -> SUBSET Ids], NEW devices,
         NEW ids \in SUBSET Ids
  PROVE  /\ With(past, devices, ids) \in [Clients -> SUBSET Ids]
         /\ \A v \in Clients :
              /\ past[v] \subseteq With(past, devices, ids)[v]
              /\ v \in devices => ids \subseteq With(past, devices, ids)[v]
BY DEF With

(* A row that stays as it is, with who it is by and who follows that, is   *)
(* still held and heard of by a device that loses nothing.                 *)
LEMMA RowHeld ==
  ASSUME NEW v \in Clients, NEW i \in Live, Held(v, i), rows'[i] = rows[i],
         UNCHANGED <<cursor, copies>>, missed[v] \subseteq missed'[v]
  PROVE  Held(v, i)'
BY DEF Held, Copy

LEMMA RowHeard ==
  ASSUME NEW v \in Clients, NEW i \in Live, Heard(v, i), rows'[i] = rows[i],
         UNCHANGED <<watermark, told>>, unheard[v] \subseteq unheard'[v],
         follows'[v] = follows[v]
  PROVE  Heard(v, i)'
BY DEF Heard, IsNews, Follows

LEMMA SkippingStays ==
  ASSUME Skipping, UNCHANGED <<rows, follows, readerVars>>
  PROVE  Skipping'
<1>1. UNCHANGED <<rows, follows, cursor, copies, watermark, told, missed, unheard>>
  BY DEF readerVars
<1>2. Live' = Live
  BY <1>1, LastsUnchanged
<1> QED
  BY <1>1, <1>2 DEF Skipping, NothingIsSkippedOver, Copy, IsNews, Follows

LEMMA FileSkips ==
  ASSUME Recordings, Skipping, NEW c \in Clients, File(c)
  PROVE  Skipping'
<1>1. PICK i \in Ids, x \in Rows :
           /\ rows' = [rows EXCEPT ![i] = x]
           /\ x.updated = req[c].stamp
           /\ i \in Live =>
                /\ x.take = rows[i].take /\ x.artist = rows[i].artist
                /\ rows[i].name # Nobody => x.name = rows[i].name
           /\ i \notin Live => x.artist = Nobody
           /\ missed' = With(missed, Pulled(req[c].stamp), {i})
           /\ unheard' = With(unheard, Told(i, req[c].stamp), {i})
  BY FileIs
<1>h. /\ RowShapes /\ Readers
      /\ \A v \in Clients, j \in Live : Held(v, j) /\ Heard(v, j)
      /\ UNCHANGED <<follows, cursor, copies, watermark, told>>
  BY SkippingIs DEF Recordings, PubInv, File
<1>2. /\ Live' = Live \cup {i} /\ rows'[i] = x
      /\ \A j \in Ids : j # i => rows'[j] = rows[j]
  BY <1>1, <1>h, PutIs
<1>3. /\ missed' \in [Clients -> SUBSET Ids] /\ unheard' \in [Clients -> SUBSET Ids]
      /\ \A v \in Clients :
           /\ missed[v] \subseteq missed'[v] /\ unheard[v] \subseteq unheard'[v]
           /\ v \in Pulled(req[c].stamp) => i \in missed'[v]
           /\ v \in Told(i, req[c].stamp) => i \in unheard'[v]
  <2>1. missed \in [Clients -> SUBSET Ids] /\ unheard \in [Clients -> SUBSET Ids]
        /\ {i} \in SUBSET Ids
    BY <1>h DEF Readers
  <2> QED
    BY <1>1, <2>1, WithIs
<1>4. Readers'
  BY <1>h, <1>3 DEF Readers
<1>5. ASSUME NEW v \in Clients, NEW j \in Live' PROVE Held(v, j)' /\ Heard(v, j)'
  <2>1. CASE j # i
    <3>1. j \in Live /\ rows'[j] = rows[j] /\ Held(v, j) /\ Heard(v, j)
      BY <2>1, <1>2, <1>5, <1>h DEF Live
    <3> QED
      BY <3>1, <1>3, <1>h, RowHeld, RowHeard
  <2>2. CASE j = i
    <3>1. req[c].stamp = rows'[i].updated /\ cursor[v] \in Int /\ watermark[v] \in Int
          /\ rows'[i].updated \in Int
      BY <1>1, <1>2, <1>h DEF Readers, Rows
    <3>2. Held(v, i)'
      BY <3>1, <1>3, <1>h DEF Held, Pulled
    <3>3. rows'[i].artist # Nobody => rows'[i].artist = rows[i].artist
      BY <1>1, <1>2
    <3>4. IsNews(v, i)' => Follows(v, i)
      BY <3>3, <1>h DEF IsNews, Follows
    <3>5. Heard(v, i)'
      BY <3>1, <3>4, <1>3, <1>h DEF Heard, Told
    <3> QED
      BY <2>2, <3>2, <3>5
  <2> QED
    BY <2>1, <2>2
<1> QED
  BY <1>4, <1>5, SkippingIs DEF Skipping, Readers, NothingIsSkippedOver, Held, Heard

LEMMA LinkSkips ==
  ASSUME Recordings, Skipping, NEW c \in Clients, Link(c)
  PROVE  Skipping'
<1>r. PICK i, a : i = req[c].id /\ a = Norm[req[c].name]
  OBVIOUS
<1> DEFINE D == {v \in Clients : follows[v][a] # Never
                                   /\ watermark[v] >= rows[i].updated}
<1>1. /\ Live' = Live /\ i \in Live /\ a \in Artists
      /\ rows' = [rows EXCEPT ![i].artist = a]
  BY <1>r, LinkRecords
<1>h. /\ RowShapes /\ Readers
      /\ \A v \in Clients, j \in Live : Held(v, j) /\ Heard(v, j)
      /\ UNCHANGED <<follows, cursor, copies, watermark, told, missed>>
      /\ unheard' = With(unheard, D, {i})
  BY <1>r, SkippingIs DEF Recordings, PubInv, Link
<1>2. /\ i \in Ids /\ rows[i] \in Rows
      /\ rows'[i] = [rows[i] EXCEPT !.artist = a]
      /\ \A j \in Ids : j # i => rows'[j] = rows[j]
  BY <1>1, <1>h, LiveRows DEF RowShapes, Live
<1>3. /\ unheard' \in [Clients -> SUBSET Ids]
      /\ \A v \in Clients : /\ unheard[v] \subseteq unheard'[v]
                            /\ v \in D => i \in unheard'[v]
  <2>1. unheard \in [Clients -> SUBSET Ids] /\ {i} \in SUBSET Ids
    BY <1>h, <1>2 DEF Readers
  <2> HIDE DEF D
  <2> QED
    BY <1>h, <2>1, WithIs
<1>4. Readers'
  BY <1>h, <1>3 DEF Readers
<1>5. ASSUME NEW v \in Clients, NEW j \in Live PROVE Held(v, j)' /\ Heard(v, j)'
  <2>1. CASE j # i
    <3>1. rows'[j] = rows[j] /\ Held(v, j) /\ Heard(v, j)
      BY <2>1, <1>2, <1>h DEF Live
    <3> QED
      BY <3>1, <1>3, <1>h, RowHeld, RowHeard
  <2>2. CASE j = i
    <3>1. /\ rows'[i].artist = a /\ rows'[i].updated = rows[i].updated
          /\ Copy(i)' = Copy(i) /\ rows[i].updated \in Int /\ watermark[v] \in Int
      BY <1>2, <1>h DEF Rows, Copy, Readers
    <3>2. Held(v, i)'
      BY <3>1, <1>h, <2>2 DEF Held
    <3>3. Heard(v, i)'
      BY <3>1, <1>3, <1>h DEF Heard, IsNews, Follows
    <3> QED
      BY <2>2, <3>2, <3>3
  <2> QED
    BY <2>1, <2>2
<1> QED
  BY <1>1, <1>4, <1>5, SkippingIs DEF Skipping, Readers, NothingIsSkippedOver, Held, Heard

LEMMA FollowSkips ==
  ASSUME Recordings, Skipping, NEW c \in Clients, Follow(c) \/ Unfollow(c)
  PROVE  Skipping'
<1>h. /\ RowShapes /\ Readers /\ Holds(req[c])
      /\ \A v \in Clients, j \in Live : Held(v, j) /\ Heard(v, j)
      /\ UNCHANGED <<rows, sources, artists, cut, now, today, cursor, copies,
                     watermark, told, missed>>
  BY SkippingIs DEF Recordings, PubInv, Follow, Unfollow, readerVars, clocks
<1>l. Live' = Live
  BY <1>h, LastsUnchanged
<1>1. CASE Follow(c)
  <2> DEFINE a == Norm[req[c].name]
             f == IF follows[c][a] = Never THEN now ELSE follows[c][a]
             N == {i \in Live : /\ rows[i].artist = a
                                /\ rows[i].updated >= follows'[c][a]
                                /\ rows[i].updated <= watermark[c]}
  <2>1. /\ follows' = [follows EXCEPT ![c][a] = f]
        /\ unheard' = With(unheard, {c}, N) /\ At(c, "follow", "join")
    BY <1>1 DEF Follow
  <2>2. a \in Artists
    BY <1>h, <2>1 DEF Holds, At, Artists
  <2>3. f \in {Never} \cup 0..MaxNow
    BY <1>h, <2>2 DEF RowShapes
  <2>4. \A d \in Clients, b \in Artists :
          d # c \/ b # a => follows'[d][b] = follows[d][b]
    <3> HIDE DEF a, f
    <3> QED
      BY <1>h, <2>1, <2>2, <2>3, FollowIs
  <2>5. /\ unheard' \in [Clients -> SUBSET Ids]
        /\ \A v \in Clients : unheard[v] \subseteq unheard'[v]
        /\ N \subseteq unheard'[c]
    <3>1. unheard \in [Clients -> SUBSET Ids] /\ N \in SUBSET Ids
      BY <1>h DEF Readers, Live
    <3> HIDE DEF N
    <3> QED
      BY <2>1, <3>1, WithIs
  <2>6. Readers'
    BY <1>h, <2>5 DEF Readers
  <2>7. ASSUME NEW v \in Clients, NEW j \in Live PROVE Held(v, j)' /\ Heard(v, j)'
    <3>1. Held(v, j)'
      BY <1>h, RowHeld
    <3>2. rows[j].artist = Nobody \/ rows[j].artist \in Artists
      BY <1>h, LiveRows DEF Live, Rows
    <3>3. CASE v = c /\ rows[j].artist = a
      <4>1. j \in N => j \in unheard'[c]
        BY <2>5
      <4>2. IsNews(v, j)' /\ rows'[j].updated <= watermark'[v] => j \in N
        BY <3>3, <1>h DEF IsNews
      <4> HIDE DEF N
      <4> QED
        BY <3>1, <3>3, <4>1, <4>2, <1>h DEF Heard
    <3>4. CASE ~(v = c /\ rows[j].artist = a)
      <4>1. rows[j].artist # Nobody =>
              follows'[v][rows[j].artist] = follows[v][rows[j].artist]
        BY <3>2, <3>4, <2>4
      <4>2. IsNews(v, j)' => IsNews(v, j)
        BY <4>1, <1>h DEF IsNews, Follows
      <4> QED
        BY <3>1, <4>2, <1>h, <2>5 DEF Heard
    <3> QED
      BY <3>3, <3>4
  <2> QED
    BY <1>l, <2>6, <2>7 DEF Skipping, Readers, NothingIsSkippedOver, Held, Heard
<1>2. CASE Unfollow(c)
  <2>1. PICK a \in Artists : follows' = [follows EXCEPT ![c][a] = Never]
    BY <1>2 DEF Unfollow
  <2>2. unheard' = unheard
    BY <1>2 DEF Unfollow, readerVars
  <2>3. /\ follows'[c][a] = Never
        /\ \A d \in Clients, b \in Artists :
             d # c \/ b # a => follows'[d][b] = follows[d][b]
    BY <1>h, <2>1 DEF RowShapes
  <2>4. Readers'
    BY <1>h, <2>2 DEF Readers
  <2>5. ASSUME NEW v \in Clients, NEW j \in Live PROVE Held(v, j)' /\ Heard(v, j)'
    <3>1. Held(v, j)'
      BY <1>h, RowHeld
    <3>2. rows[j].artist = Nobody \/ rows[j].artist \in Artists
      BY <1>h, LiveRows DEF Live, Rows
    <3>3. IsNews(v, j)' => IsNews(v, j)
      BY <3>2, <2>3, <1>h DEF IsNews, Follows
    <3> QED
      BY <3>1, <3>3, <1>h, <2>2 DEF Heard
  <2> QED
    BY <1>l, <2>4, <2>5 DEF Skipping, Readers, NothingIsSkippedOver, Held, Heard
<1> QED
  BY <1>1, <1>2

(* A page is of the oldest rows, and is not empty. *)
LEMMA PageIs ==
  ASSUME RowShapes, NEW all \in SUBSET Live, all # {}, NEW page \in SUBSET all,
         IsPage(page, all)
  PROVE  /\ Latest(page) \in 0..MaxNow
         /\ \A i \in page : rows[i].updated <= Latest(page)
         /\ \A j \in all \ page : Latest(page) <= rows[j].updated
<1>0. IsFiniteSet(Ids) /\ PageSize \in Nat \ {0} /\ MaxNow \in Nat
  BY CatalogueAssumption
<1>1. page # {}
  <2>1. IsFiniteSet(all)
    BY <1>0, FS_Subset DEF Live
  <2>2. Cardinality(all) \in Nat /\ Cardinality(all) # 0
    BY <2>1, FS_CardinalityType, FS_EmptySet
  <2>3. Cardinality(page) # 0
    BY <2>2, <1>0 DEF IsPage
  <2> QED
    BY <2>3, FS_EmptySet
<1>2. \A i \in all : rows[i].updated \in 0..MaxNow
  BY LiveRows DEF Rows, Live
<1> DEFINE T == {rows[i].updated : i \in page}
           S == {MaxNow - t : t \in T}
<1>3. S \in SUBSET Nat /\ S # {} /\ T \subseteq 0..MaxNow
  BY <1>0, <1>1, <1>2
<1>4. PICK m \in S : \A y \in S : m <= y
  <2> HIDE DEF S
  <2> QED
    BY <1>3, LeastOf
<1>5. PICK t \in T : m = MaxNow - t
  BY <1>4
<1>6. \A i \in page : rows[i].updated <= t
  <2> SUFFICES ASSUME NEW i \in page PROVE rows[i].updated <= t
    OBVIOUS
  <2>1. MaxNow - rows[i].updated \in S
    OBVIOUS
  <2>2. m <= MaxNow - rows[i].updated
    BY <1>4, <2>1
  <2>3. rows[i].updated \in 0..MaxNow /\ t \in 0..MaxNow
    BY <1>2, <1>3, <1>5
  <2> QED
    BY <2>2, <2>3, <1>5, <1>0
<1>7. Latest(page) \in T /\ \A i \in page : rows[i].updated <= Latest(page)
  <2> HIDE DEF S
  <2>1. \E u \in T : \A i \in page : rows[i].updated <= u
    BY <1>5, <1>6
  <2> QED
    BY <2>1 DEF Latest
<1>8. \A j \in all \ page : Latest(page) <= rows[j].updated
  BY <1>7 DEF IsPage
<1> QED
  BY <1>3, <1>7, <1>8

LEMMA PullSkips ==
  ASSUME Recordings, Skipping, NEW c \in Clients, Pull(c)
  PROVE  Skipping'
<1>h. /\ RowShapes /\ Readers /\ MaxNow \in Nat
      /\ \A v \in Clients, j \in Live : Held(v, j) /\ Heard(v, j)
      /\ UNCHANGED <<rows, follows, watermark, told, unheard>> /\ Since(c) # {}
  BY SkippingIs, CatalogueAssumption DEF Recordings, PubInv, Pull, catalogVars
<1>1. PICK page \in SUBSET Since(c) :
        /\ IsPage(page, Since(c))
        /\ cursor' = [cursor EXCEPT ![c] = Latest(page)]
        /\ copies' = [copies EXCEPT ![c] =
                        [i \in Ids |-> IF i \in page THEN Copy(i) ELSE @[i]]]
        /\ missed' = [missed EXCEPT ![c] =
                        (@ \ page) \cup {i \in Since(c) \ page :
                                           rows[i].updated = Latest(page)}]
  BY DEF Pull
<1>2. /\ Latest(page) \in 0..MaxNow
      /\ \A i \in page : rows[i].updated <= Latest(page)
      /\ \A j \in Since(c) \ page : Latest(page) <= rows[j].updated
  <2>1. Since(c) \in SUBSET Live
    BY DEF Since
  <2> QED
    BY <1>h, <1>1, <2>1, PageIs
<1>3. /\ cursor'[c] = Latest(page) /\ \A v \in Clients : v # c => cursor'[v] = cursor[v]
      /\ \A i \in Ids : copies'[c][i] = IF i \in page THEN Copy(i) ELSE copies[c][i]
      /\ \A v \in Clients : v # c => copies'[v] = copies[v]
      /\ missed'[c] = (missed[c] \ page)
                        \cup {i \in Since(c) \ page : rows[i].updated = Latest(page)}
      /\ \A v \in Clients : v # c => missed'[v] = missed[v]
  BY <1>1, <1>h DEF Readers
<1>4. Readers'
  <2>1. cursor' \in [Clients -> Int]
    BY <1>1, <1>2, <1>h DEF Readers
  <2>2. copies' = [v \in Clients |-> copies'[v]]
    BY <1>1, <1>h DEF Readers
  <2>3. missed' \in [Clients -> SUBSET Ids]
    BY <1>1, <1>h DEF Readers, Since, Live
  <2> QED
    BY <1>h, <2>1, <2>2, <2>3 DEF Readers
<1>5. Live' = Live
  BY <1>h, LastsUnchanged
<1>6. ASSUME NEW v \in Clients, NEW j \in Live PROVE Held(v, j)' /\ Heard(v, j)'
  <2>1. Heard(v, j)'
    BY <1>h, RowHeard
  <2>2. j \in Ids /\ rows[j].updated \in Int /\ cursor[v] \in Int /\ Copy(j)' = Copy(j)
    BY <1>h, LiveRows DEF Live, Rows, Readers, Copy
  <2>3. Held(v, j)'
    <3>1. CASE v # c
      BY <3>1, <1>h, <1>3, <2>2 DEF Held
    <3>2. CASE v = c /\ j \in page
      BY <3>2, <1>3, <2>2 DEF Held
    <3>3. CASE v = c /\ j \in Since(c) \ page
      BY <3>3, <1>2, <1>3, <1>h, <2>2 DEF Held
    <3>4. CASE v = c /\ j \notin Since(c)
      <4>1. j \notin page /\ rows[j].updated <= cursor[c]
        BY <3>4, <1>1, <2>2 DEF Since
      <4>2. copies[c][j] = Copy(j) \/ j \in missed[c]
        BY <4>1, <1>h DEF Held
      <4> QED
        BY <3>4, <4>1, <4>2, <1>3, <2>2 DEF Held
    <3> QED
      BY <3>1, <3>2, <3>3, <3>4
  <2> QED
    BY <2>1, <2>3
<1> QED
  BY <1>4, <1>5, <1>6 DEF Skipping, Readers, NothingIsSkippedOver, Held, Heard

LEMMA WatchSkips ==
  ASSUME Recordings, Skipping, NEW c \in Clients, Watch(c)
  PROVE  Skipping'
<1>h. /\ RowShapes /\ Readers /\ MaxNow \in Nat
      /\ \A v \in Clients, j \in Live : Held(v, j) /\ Heard(v, j)
      /\ UNCHANGED <<rows, follows, cursor, copies, missed>> /\ News(c) # {}
  BY SkippingIs, CatalogueAssumption DEF Recordings, PubInv, Watch, catalogVars
<1>1. PICK page \in SUBSET News(c) :
        /\ IsPage(page, News(c))
        /\ watermark' = [watermark EXCEPT ![c] = Latest(page)]
        /\ told' = [told EXCEPT ![c] = @ \cup page]
        /\ unheard' = [unheard EXCEPT ![c] =
                         @ \cup {i \in News(c) \ page :
                                   rows[i].updated = Latest(page)}]
  BY DEF Watch
<1>2. /\ Latest(page) \in 0..MaxNow
      /\ \A j \in News(c) \ page : Latest(page) <= rows[j].updated
  <2>1. News(c) \in SUBSET Live
    BY DEF News
  <2> QED
    BY <1>h, <1>1, <2>1, PageIs
<1>3. /\ watermark'[c] = Latest(page)
      /\ \A v \in Clients : v # c => watermark'[v] = watermark[v]
      /\ told'[c] = told[c] \cup page /\ \A v \in Clients : v # c => told'[v] = told[v]
      /\ unheard'[c] = unheard[c] \cup {i \in News(c) \ page :
                                          rows[i].updated = Latest(page)}
      /\ \A v \in Clients : v # c => unheard'[v] = unheard[v]
  BY <1>1, <1>h DEF Readers
<1>4. Readers'
  <2>1. watermark' \in [Clients -> Int]
    BY <1>1, <1>2, <1>h DEF Readers
  <2>2. told' \in [Clients -> SUBSET Ids] /\ unheard' \in [Clients -> SUBSET Ids]
    BY <1>1, <1>h DEF Readers, News, Live
  <2> QED
    BY <1>h, <2>1, <2>2 DEF Readers
<1>5. Live' = Live
  BY <1>h, LastsUnchanged
<1>6. ASSUME NEW v \in Clients, NEW j \in Live PROVE Held(v, j)' /\ Heard(v, j)'
  <2>1. Held(v, j)'
    BY <1>h, RowHeld
  <2>2. rows[j].updated \in Int /\ watermark[v] \in Int
    BY <1>h, LiveRows DEF Live, Rows, Readers
  <2>n. IsNews(v, j)' <=> IsNews(v, j)
    BY <1>h DEF IsNews, Follows
  <2>3. Heard(v, j)'
    <3>1. CASE v # c
      BY <3>1, <2>n, <1>h, <1>3 DEF Heard
    <3>2. CASE v = c /\ j \in page
      BY <3>2, <1>3 DEF Heard
    <3>3. CASE v = c /\ j \in News(c) \ page
      BY <3>3, <1>2, <1>3, <1>h, <2>2 DEF Heard
    <3>4. CASE v = c /\ j \notin News(c)
      <4>1. IsNews(c, j) => rows[j].updated <= watermark[c]
        BY <3>4, <2>2 DEF News
      <4>2. IsNews(c, j) => j \in told[c] \cup unheard[c]
        BY <4>1, <1>h DEF Heard
      <4> QED
        BY <3>4, <4>2, <2>n, <1>3 DEF Heard
    <3> QED
      BY <3>1, <3>2, <3>3, <3>4
  <2> QED
    BY <2>1, <2>3
<1> QED
  BY <1>4, <1>5, <1>6 DEF Skipping, Readers, NothingIsSkippedOver, Held, Heard

LEMMA InitSkipping == Init => Skipping
<1> SUFFICES ASSUME Init PROVE Skipping
  OBVIOUS
<1>1. Live = {}
  BY DEF Init, Live
<1>2. Readers
  BY DEF Init, Readers, Never
<1> QED
  BY <1>1, <1>2, SkippingIs

LEMMA StepSkipping == Recordings /\ Skipping /\ [Next]_vars => Skipping'
<1> SUFFICES ASSUME Recordings, Skipping, [Next]_vars PROVE Skipping'
  OBVIOUS
<1>1. ASSUME NEW c \in Clients,
             \/ File(c) \/ Link(c) \/ Follow(c) \/ Unfollow(c)
             \/ Pull(c) \/ Watch(c)
      PROVE  Skipping'
  BY <1>1, FileSkips, LinkSkips, FollowSkips, PullSkips, WatchSkips
<1>2. ASSUME UNCHANGED <<catalogVars, readerVars>> PROVE Skipping'
  BY <1>2, SkippingStays DEF catalogVars
<1>3. ASSUME UNCHANGED <<rows, follows, readerVars>> PROVE Skipping'
  BY <1>3, SkippingStays
<1>4. ASSUME NEW c \in Clients,
             \/ Entry(c) \/ Match(c) \/ ReadName(c)
             \/ CallFollow(c) \/ CallPlays(c) \/ CallChart(c) \/ ReadTracks(c)
             \/ Count(c) \/ ReadRanks(c) \/ PopularTracks(c) \/ Agree(c)
             \/ Submit(c) \/ Similar(c)
      PROVE  Skipping'
  BY <1>2, <1>4 DEF Entry, Match, ReadName, CallFollow, CallPlays, CallChart,
     ReadTracks, Count, ReadRanks, PopularTracks, Agree, Submit, Similar
<1>5. ASSUME NEW c \in Clients, CallPublish(c) \/ FileSource(c) \/ Upsert(c)
      PROVE  Skipping'
  BY <1>3, <1>5 DEF CallPublish, FileSource, Upsert
<1>6. CASE Toggle \/ Second \/ Midnight \/ UNCHANGED vars
  BY <1>2, <1>6 DEF Toggle, Second, Midnight, vars
<1>7. CASE Restart
  BY <1>3, <1>7 DEF Restart
<1> QED
  BY <1>1, <1>4, <1>5, <1>6, <1>7 DEF Next

----------------------------------------------------------------------------
(* Plays added up.  The sum is a function by recursion on the days, and    *)
(* what is to be known of it follows from a least day on which it fails.   *)

SumOf(f, N, W) ==
  f = [d \in -1..N |-> IF d = -1 THEN 0 ELSE f[d - 1] + W[d]]

LEMMA SumExists ==
  ASSUME NEW N \in Nat, NEW W \in [0..N -> Nat]
  PROVE  \E f \in [-1..N -> Nat] : SumOf(f, N, W)
<1> DEFINE Fails == {n \in 0..(N + 1) :
                       ~\E f \in [-1..(n - 1) -> Nat] : SumOf(f, n - 1, W)}
<1>1. ASSUME Fails # {} PROVE FALSE
  <2>1. PICK m \in Fails : \A n \in Fails : m <= n
    <3>1. Fails \in SUBSET Nat
      OBVIOUS
    <3> HIDE DEF Fails
    <3> QED
      BY <1>1, <3>1, LeastOf
  <2>2. m \in 0..(N + 1)
    OBVIOUS
  <2>3. CASE m = 0
    <3> DEFINE f == [d \in -1..(m - 1) |-> 0]
    <3>1. f \in [-1..(m - 1) -> Nat]
      OBVIOUS
    <3>2. \A d \in -1..(m - 1) : d = -1
      BY <2>3
    <3>3. SumOf(f, m - 1, W)
      BY <3>2 DEF SumOf
    <3> QED
      BY <3>1, <3>3
  <2>4. CASE m > 0
    <3>1. m - 1 \notin Fails /\ m - 1 \in 0..(N + 1)
      <4>1. m - 1 \in 0..(N + 1) /\ ~(m <= m - 1)
        BY <2>2, <2>4
      <4> HIDE DEF Fails
      <4> QED
        BY <2>1, <4>1
    <3>2. PICK f \in [-1..((m - 1) - 1) -> Nat] : SumOf(f, (m - 1) - 1, W)
      BY <3>1
    <3> DEFINE k == m - 1
               g == [d \in -1..k |-> IF d = k THEN f[k - 1] + W[k] ELSE f[d]]
    <3>3. /\ k \in 0..N /\ k - 1 \in -1..(k - 1) /\ W[k] \in Nat
          /\ f \in [-1..(k - 1) -> Nat] /\ SumOf(f, k - 1, W)
      BY <2>2, <2>4, <3>2
    <3>4. g \in [-1..k -> Nat]
      <4> HIDE DEF k
      <4> QED
        BY <3>3
    <3>5. \A d \in -1..k : g[d] = IF d = -1 THEN 0 ELSE g[d - 1] + W[d]
      <4> HIDE DEF k
      <4>1. SUFFICES ASSUME NEW d \in -1..k
                     PROVE  g[d] = IF d = -1 THEN 0 ELSE g[d - 1] + W[d]
        OBVIOUS
      <4>2. CASE d = k
        BY <4>2, <3>3
      <4>3. CASE d # k
        <5>1. d \in -1..(k - 1) /\ g[d] = f[d]
          BY <4>3, <3>3
        <5>2. f[d] = IF d = -1 THEN 0 ELSE f[d - 1] + W[d]
          BY <5>1, <3>3 DEF SumOf
        <5>3. d # -1 => g[d - 1] = f[d - 1]
          BY <5>1, <3>3
        <5> QED
          BY <5>1, <5>2, <5>3
      <4> QED
        BY <4>2, <4>3
    <3>6. SumOf(g, m - 1, W)
      BY <3>5 DEF SumOf
    <3> QED
      BY <3>4, <3>6
  <2> QED
    BY <2>2, <2>3, <2>4
<1>2. N + 1 \notin Fails
  BY <1>1
<1>3. N + 1 \in 0..(N + 1) /\ (N + 1) - 1 = N
  OBVIOUS
<1> QED
  BY <1>2, <1>3

(* Where more is added, the sum is no less. *)
LEMMA SumsGrow ==
  ASSUME NEW N \in Nat, NEW V \in [0..N -> Nat], NEW W \in [0..N -> Nat],
         \A d \in 0..N : V[d] <= W[d],
         NEW f \in [-1..N -> Nat], SumOf(f, N, V),
         NEW g \in [-1..N -> Nat], SumOf(g, N, W)
  PROVE  f[N] <= g[N]
<1> DEFINE Fails == {n \in 0..(N + 1) : ~(f[n - 1] <= g[n - 1])}
<1>1. ASSUME Fails # {} PROVE FALSE
  <2>1. PICK m \in Fails : \A n \in Fails : m <= n
    <3>1. Fails \in SUBSET Nat
      OBVIOUS
    <3> HIDE DEF Fails
    <3> QED
      BY <1>1, <3>1, LeastOf
  <2>2. m \in 0..(N + 1) /\ ~(f[m - 1] <= g[m - 1])
    OBVIOUS
  <2>3. CASE m = 0
    <3>1. f[m - 1] = 0 /\ g[m - 1] = 0
      BY <2>3 DEF SumOf
    <3> QED
      BY <2>2, <3>1
  <2>4. CASE m > 0
    <3>1. m - 1 \notin Fails /\ m - 1 \in 0..(N + 1)
      <4>1. m - 1 \in 0..(N + 1) /\ ~(m <= m - 1)
        BY <2>2, <2>4
      <4> HIDE DEF Fails
      <4> QED
        BY <2>1, <4>1
    <3>2. f[(m - 1) - 1] <= g[(m - 1) - 1]
      BY <3>1
    <3>3. m - 1 \in 0..N /\ m - 1 # -1 /\ m - 1 \in -1..N /\ (m - 1) - 1 \in -1..N
      BY <2>2, <2>4
    <3>4. /\ f[m - 1] = f[(m - 1) - 1] + V[m - 1]
          /\ g[m - 1] = g[(m - 1) - 1] + W[m - 1]
      BY <3>3 DEF SumOf
    <3>5. /\ f[(m - 1) - 1] \in Nat /\ g[(m - 1) - 1] \in Nat
          /\ V[m - 1] \in Nat /\ W[m - 1] \in Nat /\ V[m - 1] <= W[m - 1]
      BY <3>3
    <3>6. \A p, q, x, y \in Nat : p <= q /\ x <= y => p + x <= q + y
      OBVIOUS
    <3>7. f[m - 1] <= g[m - 1]
      BY <3>2, <3>4, <3>5, <3>6
    <3> QED
      BY <2>2, <3>7
  <2> QED
    BY <2>2, <2>3, <2>4
<1>2. N + 1 \in 0..(N + 1) /\ (N + 1) - 1 = N
  OBVIOUS
<1>3. f[(N + 1) - 1] <= g[(N + 1) - 1]
  <2>1. N + 1 \notin Fails
    BY <1>1
  <2> QED
    BY <1>2, <2>1
<1> QED
  BY <1>2, <1>3

Tables == [Days -> [Songs -> Nat]]
Share(table, song, days) ==
  [d \in Days |-> IF d \in days THEN table[d][song] ELSE 0]
Sum(table, song, days) == CHOOSE f : SumOf(f, MaxDay, Share(table, song, days))

LEMMA PlaysAre ==
  ASSUME NEW table, NEW song, NEW days
  PROVE  PlaysIn(table, song, days) = Sum(table, song, days)[MaxDay]
<1> DEFINE Body(f) == [d \in -1..MaxDay |->
    IF d = -1 THEN 0
    ELSE f[d - 1] + (IF d \in days THEN table[d][song] ELSE 0)]
<1>1. ASSUME NEW f
      PROVE  Body(f) = [d \in -1..MaxDay |-> IF d = -1 THEN 0
                        ELSE f[d - 1] + Share(table, song, days)[d]]
  <2>1. ASSUME NEW d \in -1..MaxDay, d # -1
        PROVE  Share(table, song, days)[d] = IF d \in days THEN table[d][song] ELSE 0
    <3>1. d \in Days
      BY <2>1, CatalogueAssumption DEF Days
    <3> QED
      BY <3>1 DEF Share
  <2> QED
    BY <2>1
<1>2. \A f : f = Body(f) <=> SumOf(f, MaxDay, Share(table, song, days))
  BY <1>1 DEF SumOf
<1>3. PlaysIn(table, song, days) = (CHOOSE f : f = Body(f))[MaxDay]
  BY DEF PlaysIn
<1> HIDE DEF Body
<1>4. (CHOOSE f : f = Body(f))
        = (CHOOSE f : SumOf(f, MaxDay, Share(table, song, days)))
  BY <1>2, Zenon
<1> QED
  BY <1>3, <1>4 DEF Sum

LEMMA SumIs ==
  ASSUME NEW table \in Tables, NEW song \in Songs, NEW days
  PROVE  /\ Share(table, song, days) \in [0..MaxDay -> Nat] /\ MaxDay \in Nat
         /\ Sum(table, song, days) \in [-1..MaxDay -> Nat]
         /\ SumOf(Sum(table, song, days), MaxDay, Share(table, song, days))
         /\ PlaysIn(table, song, days) \in Nat
<1>1. Share(table, song, days) \in [0..MaxDay -> Nat] /\ MaxDay \in Nat
  BY CatalogueAssumption DEF Share, Tables, Days
<1>2. PICK f \in [-1..MaxDay -> Nat] : SumOf(f, MaxDay, Share(table, song, days))
  BY <1>1, SumExists
<1>3. SumOf(Sum(table, song, days), MaxDay, Share(table, song, days))
  BY <1>2 DEF Sum
<1>4. Sum(table, song, days) \in [-1..MaxDay -> Nat]
  <2> DEFINE g == Sum(table, song, days)
             W == Share(table, song, days)
  <2>1. SUFFICES ASSUME NEW N \in Nat, NEW h, NEW e \in [-1..N -> Nat],
                        NEW U \in [0..N -> Nat], SumOf(h, N, U), SumOf(e, N, U)
                 PROVE  h = e
    <3>1. g = f
      BY <1>1, <1>2, <1>3, <2>1
    <3> QED
      BY <3>1
  <2>2. DOMAIN h = -1..N /\ h = [d \in -1..N |-> h[d]]
    BY <2>1 DEF SumOf
  <2> DEFINE Fails == {n \in 0..(N + 1) : h[n - 1] # e[n - 1]}
  <2>3. ASSUME Fails # {} PROVE FALSE
    <3>1. PICK m \in Fails : \A n \in Fails : m <= n
      <4>1. Fails \in SUBSET Nat
        OBVIOUS
      <4> HIDE DEF Fails
      <4> QED
        BY <2>3, <4>1, LeastOf
    <3>2. m \in 0..(N + 1) /\ h[m - 1] # e[m - 1] /\ m - 1 \in -1..N
      OBVIOUS
    <3>3. CASE m = 0
      <4>1. h[m - 1] = 0 /\ e[m - 1] = 0
        BY <2>1, <3>2, <3>3 DEF SumOf
      <4> QED
        BY <3>2, <4>1
    <3>4. CASE m > 0
      <4>1. m - 1 \notin Fails /\ m - 1 \in 0..(N + 1) /\ m - 1 # -1
        <5>1. m - 1 \in 0..(N + 1) /\ ~(m <= m - 1) /\ m - 1 # -1
          BY <3>2, <3>4
        <5> HIDE DEF Fails
        <5> QED
          BY <3>1, <5>1
      <4>2. h[(m - 1) - 1] = e[(m - 1) - 1]
        BY <4>1
      <4>3. /\ h[m - 1] = h[(m - 1) - 1] + U[m - 1]
            /\ e[m - 1] = e[(m - 1) - 1] + U[m - 1]
        BY <2>1, <3>2, <4>1 DEF SumOf
      <4> QED
        BY <3>2, <4>2, <4>3
    <3> QED
      BY <3>2, <3>3, <3>4
  <2>4. ASSUME NEW d \in -1..N PROVE h[d] = e[d]
    <3>1. d + 1 \in 0..(N + 1) /\ (d + 1) - 1 = d
      BY <2>4
    <3> QED
      BY <2>3, <3>1
  <2> QED
    BY <2>2, <2>4
<1>5. PlaysIn(table, song, days) = Sum(table, song, days)[MaxDay]
  BY PlaysAre
<1>6. PlaysIn(table, song, days) \in Nat
  BY <1>1, <1>4, <1>5
<1> QED
  BY <1>1, <1>3, <1>4, <1>6

LEMMA NamedGrow ==
  ASSUME NEW table \in Tables, NEW other \in Tables, NEW days,
         \A d \in Days, s \in Songs : table[d][s] <= other[d][s]
  PROVE  NamedIn(table, days) \subseteq NamedIn(other, days)
<1>1. ASSUME NEW s \in Songs PROVE PlaysIn(table, s, days) <= PlaysIn(other, s, days)
  <2> DEFINE V == Share(table, s, days)
             W == Share(other, s, days)
  <2>1. \A d \in 0..MaxDay : V[d] <= W[d]
    BY DEF Share, Days, Tables
  <2>2. Sum(table, s, days)[MaxDay] <= Sum(other, s, days)[MaxDay]
    <3> HIDE DEF V, W
    <3>1. /\ V \in [0..MaxDay -> Nat] /\ W \in [0..MaxDay -> Nat] /\ MaxDay \in Nat
          /\ Sum(table, s, days) \in [-1..MaxDay -> Nat]
          /\ Sum(other, s, days) \in [-1..MaxDay -> Nat]
          /\ SumOf(Sum(table, s, days), MaxDay, V)
          /\ SumOf(Sum(other, s, days), MaxDay, W)
      BY SumIs DEF V, W
    <3> QED
      BY <2>1, <3>1, SumsGrow
  <2> QED
    BY <2>2, PlaysAre
<1>2. ASSUME NEW s \in Songs
      PROVE  PlaysIn(table, s, days) \in Nat /\ PlaysIn(other, s, days) \in Nat
  BY SumIs
<1>3. Floor \in Nat
  BY CatalogueAssumption
<1> QED
  BY <1>1, <1>2, <1>3 DEF NamedIn

LEMMA PlaysSame ==
  ASSUME NEW table, NEW other, NEW days,
         \A d \in Days : d \in days => table[d] = other[d]
  PROVE  /\ \A s \in Songs : PlaysIn(table, s, days) = PlaysIn(other, s, days)
         /\ NamedIn(table, days) = NamedIn(other, days)
<1>1. ASSUME NEW s \in Songs PROVE PlaysIn(table, s, days) = PlaysIn(other, s, days)
  <2>1. Share(table, s, days) = Share(other, s, days)
    BY DEF Share
  <2> QED
    BY <2>1, PlaysAre DEF Sum
<1> QED
  BY <1>1 DEF NamedIn

----------------------------------------------------------------------------
(* Charts.                                                                 *)

Ranking(r) == r.op = "chart" /\ r.at = "ranks"

LEMMA CountingIs ==
  Counting <=>
    /\ counters \in Tables /\ reported \in Tables /\ Unpruned
    /\ answer = [c \in Clients |-> answer[c]]
    /\ \A c \in Clients :
         /\ Ranking(req[c]) => OftenIn(reported, req[c].named, req[c].stamp, req[c].days)
         /\ OftenIn(reported, answer[c].named, answer[c].day, answer[c].days)
BY DEF Counting, Tables, At, Ranking

(* No handler but one that has read the tracks is about to read the ranks. *)
LEMMA CountingStays ==
  ASSUME Counting, UNCHANGED <<counters, reported, answer>>, today' >= today,
         today \in Int, today' \in Int,
         \A c \in Clients : Ranking(req'[c]) => req'[c] = req[c]
  PROVE  Counting'
<1>1. /\ counters \in Tables /\ reported \in Tables /\ Unpruned
      /\ answer = [c \in Clients |-> answer[c]]
      /\ \A c \in Clients :
           /\ Ranking(req[c]) => OftenIn(reported, req[c].named, req[c].stamp, req[c].days)
           /\ OftenIn(reported, answer[c].named, answer[c].day, answer[c].days)
  BY CountingIs
<1>2. Unpruned'
  <2>1. \A d \in Days : d >= today' - Retention => d >= today - Retention
    <3>1. Retention \in Nat /\ MaxDay \in Nat
      BY CatalogueAssumption
    <3>2. \A d, k, m, n \in Int : d >= n - k /\ n >= m => d >= m - k
      OBVIOUS
    <3>3. \A d \in Days : d \in Int
      BY <3>1 DEF Days
    <3> QED
      BY <3>1, <3>2, <3>3
  <2> QED
    BY <1>1, <2>1 DEF Unpruned
<1>4. ASSUME NEW c \in Clients
      PROVE  /\ Ranking(req'[c]) =>
                  OftenIn(reported', req'[c].named, req'[c].stamp, req'[c].days)
             /\ OftenIn(reported', answer'[c].named, answer'[c].day, answer'[c].days)
  BY <1>1
<1> QED
  BY <1>1, <1>2, <1>4 DEF Counting, Tables, At, Ranking, OftenIn

LEMMA MovesCounting ==
  ASSUME Recordings, Counting, NEW c \in Clients, NEW r, Go(c, r), ~Ranking(r),
         UNCHANGED <<counters, reported, answer, today>>
  PROVE  Counting'
<1>1. \A d \in Clients : Ranking(req'[d]) => req'[d] = req[d]
  BY DEF Recordings, PubInv, Go
<1>2. today \in Int /\ today' = today
  BY CatalogueAssumption DEF Recordings, PubInv, RowShapes, Days
<1> QED
  BY <1>1, <1>2, CountingStays

LEMMA PublishingCounts ==
  ASSUME Recordings, Counting, NEW c \in Clients,
         \/ CallPublish(c) \/ Entry(c) \/ Match(c) \/ File(c) \/ FileSource(c)
         \/ ReadName(c) \/ Upsert(c) \/ Link(c) \/ CallFollow(c) \/ Follow(c)
         \/ CallPlays(c) \/ CallChart(c)
  PROVE  Counting'
<1>h. /\ req[c] \in Requests /\ Holds(req[c]) /\ today \in Int
      /\ UNCHANGED <<counters, reported, answer, today>>
  <2>1. req[c] \in Requests /\ Holds(req[c]) /\ today \in Int
    BY HereNow
  <2>2. UNCHANGED <<chartVars, clocks>>
    BY DEF CallPublish, Entry, Match, File, FileSource, ReadName, Upsert, Link,
           CallFollow, Follow, CallPlays, CallChart
  <2> QED
    BY <2>1, <2>2 DEF chartVars, clocks
<1>1. ~Ranking(Idle) /\ ~Ranking(NextEntry(c))
  BY <1>h, IdleHolds, NextEntryHolds DEF Ranking
<1>2. UNCHANGED req => Counting'
  BY <1>h, CountingStays
<1>3. ASSUME NEW r, Go(c, r), ~Ranking(r) PROVE Counting'
  BY <1>3, <1>h, MovesCounting
<1>4. ASSUME NEW q, q \in Requests, NEW step, NEW r, r.at = step, step # "ranks"
      PROVE  ~Ranking(r)
  BY <1>4 DEF Ranking
<1>5. CASE CallPublish(c)
  <2>1. PICK n \in 1..MaxBatch :
          \/ Go(c, [Idle EXCEPT !.op = "publish", !.at = "entry", !.n = n])
          \/ UNCHANGED req
    BY <1>5 DEF CallPublish
  <2>2. ~Ranking([Idle EXCEPT !.op = "publish", !.at = "entry", !.n = n])
    BY DEF Ranking, Idle
  <2> QED
    BY <1>2, <1>3, <2>1, <2>2
<1>6. CASE Entry(c)
  <2>1. ASSUME NEW e \in Published,
               Go(c, [req[c] EXCEPT !.at = "match", !.stamp = now,
                        !.entry = [e EXCEPT !.credit = @ /\ e.words]])
        PROVE  Counting'
    <3>1. ~Ranking([req[c] EXCEPT !.at = "match", !.stamp = now,
                      !.entry = [e EXCEPT !.credit = @ /\ e.words]])
      BY <1>h DEF Ranking, Requests
    <3> QED
      BY <1>3, <2>1, <3>1
  <2> QED
    BY <1>1, <1>3, <1>6, <2>1 DEF Entry
<1>7. CASE Match(c)
  <2>1. PICK i : Go(c, [req[c] EXCEPT !.at = "file", !.id = i])
    BY <1>7 DEF Match
  <2>2. ~Ranking([req[c] EXCEPT !.at = "file", !.id = i])
    BY <1>h DEF Ranking, Requests
  <2> QED
    BY <1>3, <2>1, <2>2
<1>8. CASE File(c)
  <2>1. PICK i : Go(c, [req[c] EXCEPT !.id = i,
                   !.at = IF req[c].entry.source THEN "source" ELSE "read"])
    BY <1>8 DEF File
  <2>2. ~Ranking([req[c] EXCEPT !.id = i,
                   !.at = IF req[c].entry.source THEN "source" ELSE "read"])
    BY <1>h DEF Ranking, Requests
  <2> QED
    BY <1>3, <2>1, <2>2
<1>9. CASE FileSource(c) \/ Upsert(c)
  <2>1. ~Ranking([req[c] EXCEPT !.at = "read"]) /\ ~Ranking([req[c] EXCEPT !.at = "join"])
    BY <1>h DEF Ranking, Requests
  <2> QED
    BY <1>3, <1>9, <2>1 DEF FileSource, Upsert, Then
<1>10. CASE ReadName(c)
  <2>1. ~Ranking([req[c] EXCEPT !.at = "upsert", !.name = Stuck(c)])
    BY <1>h DEF Ranking, Requests
  <2> QED
    BY <1>1, <1>3, <1>10, <2>1 DEF ReadName
<1>11. CASE Link(c) \/ Follow(c)
  BY <1>1, <1>3, <1>11 DEF Link, Follow
<1>12. CASE CallFollow(c)
  <2>1. PICK a \in Asked : Go(c, [Idle EXCEPT !.op = "follow", !.at = "upsert",
                                    !.name = a.name, !.known = a.known])
    BY <1>12 DEF CallFollow, Begin
  <2>2. ~Ranking([Idle EXCEPT !.op = "follow", !.at = "upsert",
                    !.name = a.name, !.known = a.known])
    BY DEF Ranking, Idle
  <2> QED
    BY <1>3, <2>1, <2>2
<1>13. CASE CallPlays(c)
  <2>1. ~Ranking([Idle EXCEPT !.op = "plays", !.at = "count", !.stamp = today])
    BY DEF Ranking, Idle
  <2> QED
    BY <1>3, <1>13, <2>1 DEF CallPlays, Begin
<1>14. CASE CallChart(c)
  <2>1. PICK days \in 1..Retention :
          Go(c, [Idle EXCEPT !.op = "chart", !.at = "tracks", !.stamp = today,
                   !.days = days])
    BY <1>14 DEF CallChart, Begin
  <2>2. ~Ranking([Idle EXCEPT !.op = "chart", !.at = "tracks", !.stamp = today,
                    !.days = days])
    BY DEF Ranking, Idle
  <2> QED
    BY <1>3, <2>1, <2>2
<1> QED
  BY <1>5, <1>6, <1>7, <1>8, <1>9, <1>10, <1>11, <1>12, <1>13, <1>14

(* Plays are counted, and days too old for any chart deleted. *)
LEMMA CountCounts ==
  ASSUME Recordings, Counting, NEW c \in Clients, Count(c)
  PROVE  Counting'
<1>d. PICK day : day = req[c].stamp
  OBVIOUS
<1>1. PICK plays \in Played :
        /\ counters' = Pruned(Add(counters, day, plays), day)
        /\ reported' = Add(reported, day, plays)
  BY <1>d DEF Count
<1>h. /\ counters \in Tables /\ reported \in Tables /\ Unpruned
      /\ answer = [d \in Clients |-> answer[d]]
      /\ \A d \in Clients :
           /\ Ranking(req[d]) => OftenIn(reported, req[d].named, req[d].stamp, req[d].days)
           /\ OftenIn(reported, answer[d].named, answer[d].day, answer[d].days)
      /\ At(c, "plays", "count") /\ Go(c, Idle) /\ UNCHANGED <<answer, today>>
      /\ today \in Int /\ Retention \in Nat /\ plays \in [Songs -> Nat]
      /\ Holds(req[c])
  BY CountingIs, CatalogueAssumption
     DEF Recordings, PubInv, RowShapes, Days, Count, clocks
<1>2. day \in 0..today /\ day \in Days
  BY <1>d, <1>h, CatalogueAssumption
     DEF Holds, At, Recordings, PubInv, RowShapes, Days
<1>3. \A T \in Tables :
        /\ Add(T, day, plays) \in Tables /\ Pruned(Add(T, day, plays), day) \in Tables
        /\ \A d \in Days :
             /\ d >= day - Retention =>
                  Pruned(Add(T, day, plays), day)[d] = Add(T, day, plays)[d]
             /\ d # day => Add(T, day, plays)[d] = T[d]
        /\ Add(T, day, plays)[day] = [s \in Songs |-> T[day][s] + plays[s]]
  <2> SUFFICES ASSUME NEW T \in Tables
      PROVE  /\ Add(T, day, plays) \in Tables
             /\ Pruned(Add(T, day, plays), day) \in Tables
             /\ \A d \in Days :
                  /\ d >= day - Retention =>
                       Pruned(Add(T, day, plays), day)[d] = Add(T, day, plays)[d]
                  /\ d # day => Add(T, day, plays)[d] = T[d]
             /\ Add(T, day, plays)[day] = [s \in Songs |-> T[day][s] + plays[s]]
    OBVIOUS
  <2> DEFINE row == [s \in Songs |-> T[day][s] + plays[s]]
             A == Add(T, day, plays)
  <2>1. row \in [Songs -> Nat]
    BY <1>h, <1>2 DEF Tables
  <2>2. A = [T EXCEPT ![day] = row]
    BY DEF Add
  <2>3. A \in Tables /\ A[day] = row /\ \A d \in Days : d # day => A[d] = T[d]
    <3> HIDE DEF row, A
    <3> QED
      BY <1>2, <2>1, <2>2 DEF Tables
  <2>4. /\ Pruned(A, day) \in Tables
        /\ \A d \in Days : d >= day - Retention => Pruned(A, day)[d] = A[d]
    <3> HIDE DEF A
    <3>1. \A d \in Days : d >= day - Retention => ~(d < day - Retention)
      BY <1>2, <1>h DEF Days
    <3> QED
      BY <2>3, <3>1 DEF Pruned, Tables
  <2> QED
    BY <2>3, <2>4
<1>4. /\ counters' \in Tables /\ reported' \in Tables
      /\ \A d \in Days :
           /\ d >= day - Retention =>
                counters'[d] = Add(counters, day, plays)[d]
           /\ d # day => Add(counters, day, plays)[d] = counters[d]
           /\ d # day => reported'[d] = reported[d]
      /\ Add(counters, day, plays)[day] = [s \in Songs |-> counters[day][s] + plays[s]]
      /\ reported'[day] = [s \in Songs |-> reported[day][s] + plays[s]]
  <2>1. counters \in Tables /\ reported \in Tables
    BY <1>h
  <2> QED
    BY <1>1, <2>1, <1>3
<1>5. Unpruned'
  <2>1. ASSUME NEW d \in Days, d >= today - Retention
        PROVE  counters'[d] = reported'[d]
    <3>1. counters[d] = reported[d] /\ d >= day - Retention
      BY <2>1, <1>h, <1>2 DEF Unpruned, Days
    <3>2. counters'[d] = Add(counters, day, plays)[d]
      BY <2>1, <3>1, <1>4
    <3>3. CASE d = day
      BY <3>1, <3>2, <3>3, <1>4
    <3>4. CASE d # day
      BY <2>1, <3>1, <3>2, <3>4, <1>4
    <3> QED
      BY <3>3, <3>4
  <2> QED
    BY <2>1, <1>h DEF Unpruned
<1>6. \A days : NamedIn(reported, days) \subseteq NamedIn(reported', days)
  <2>1. ASSUME NEW d \in Days, NEW s \in Songs PROVE reported[d][s] <= reported'[d][s]
    <3>1. reported[d][s] \in Nat /\ plays[s] \in Nat
      BY <2>1, <1>h DEF Tables
    <3>2. CASE d = day
      <4>1. reported'[d][s] = reported[d][s] + plays[s]
        BY <2>1, <3>2, <1>4
      <4> QED
        BY <3>1, <4>1
    <3>3. CASE d # day
      BY <2>1, <3>1, <3>3, <1>4
    <3> QED
      BY <3>2, <3>3
  <2> QED
    BY <2>1, <1>4, <1>h, NamedGrow
<1>7. \A named, at, days :
        OftenIn(reported, named, at, days) => OftenIn(reported', named, at, days)
  BY <1>6 DEF OftenIn
<1>8. \A d \in Clients : Ranking(req'[d]) => req'[d] = req[d]
  BY <1>h, IdleHolds DEF Recordings, PubInv, Go, Ranking
<1>9. ASSUME NEW d \in Clients
      PROVE  /\ Ranking(req'[d]) =>
                  OftenIn(reported', req'[d].named, req'[d].stamp, req'[d].days)
             /\ OftenIn(reported', answer'[d].named, answer'[d].day, answer'[d].days)
  BY <1>h, <1>7, <1>8
<1> QED
  BY <1>4, <1>5, <1>9, <1>h DEF Counting, Tables, At, Ranking, OftenIn

(* What a chart is read from is all there. *)
LEMMA CurrentKept ==
  ASSUME Recordings, Counting, NEW at \in {today - 1, today},
         NEW days \in 1..Retention
  PROVE  /\ \A s \in Songs : PlaysIn(counters, s, Current(at, days))
                               = PlaysIn(reported, s, Current(at, days))
         /\ NamedIn(counters, Current(at, days))
              = NamedIn(reported, Current(at, days))
         /\ Comparable(at, days) =>
              NamedIn(counters, Earlier(at, days))
                = NamedIn(reported, Earlier(at, days))
<1>1. /\ today \in Int /\ Retention \in Nat /\ Retention % 2 = 0 /\ MaxDay \in Nat
      /\ Unpruned
  BY CatalogueAssumption DEF Recordings, PubInv, RowShapes, Days, Counting
<1>2. \A d \in Days : d \in Int
  BY <1>1 DEF Days
<1>3. \A d \in Days : d \in Current(at, days) => d >= today - Retention
  BY <1>1, <1>2 DEF Current
<1>4. \A d \in Days : d \in Current(at, days) => counters[d] = reported[d]
  BY <1>1, <1>3 DEF Unpruned
<1>5. ASSUME Comparable(at, days)
      PROVE  \A d \in Days : d \in Earlier(at, days) => d >= today - Retention
  <2>1. at - 2 * days + 1 >= at - Retention
    BY <1>5 DEF Comparable
  <2>2. PICK k \in Int : Retention = 2 * k
    BY <1>1
  <2>3. 2 * days <= Retention
    BY <1>1, <2>1, <2>2
  <2>4. at - 2 * days + 1 >= today - Retention
    BY <1>1, <2>3
  <2> QED
    BY <1>1, <1>2, <2>4 DEF Earlier
<1>6. ASSUME Comparable(at, days)
      PROVE  \A d \in Days : d \in Earlier(at, days) => counters[d] = reported[d]
  BY <1>1, <1>5, <1>6 DEF Unpruned
<1> QED
  BY <1>4, <1>6, PlaysSame

LEMMA ChartCounts ==
  ASSUME Recordings, Counting, NEW c \in Clients,
         ReadTracks(c) \/ ReadRanks(c) \/ PopularTracks(c)
  PROVE  Counting'
<1>h. /\ counters \in Tables /\ reported \in Tables /\ Unpruned
      /\ answer = [d \in Clients |-> answer[d]]
      /\ \A d \in Clients :
           /\ Ranking(req[d]) => OftenIn(reported, req[d].named, req[d].stamp, req[d].days)
           /\ OftenIn(reported, answer[d].named, answer[d].day, answer[d].days)
      /\ UNCHANGED <<counters, reported, today>>
      /\ today \in Int /\ Holds(req[c]) /\ req[c] \in Requests
  BY CountingIs, CatalogueAssumption
     DEF Recordings, PubInv, RowShapes, Days, ReadTracks, ReadRanks,
         PopularTracks, clocks, Holds, chartVars
<1>u. counters' \in Tables /\ reported' \in Tables /\ Unpruned'
  BY <1>h DEF Unpruned, Tables
<1>1. CASE ReadTracks(c)
  <2> DEFINE s == NamedIn(counters, Current(req[c].stamp, req[c].days))
             r == [req[c] EXCEPT !.at = "ranks", !.stamp = today, !.named = s]
  <2>1. At(c, "chart", "tracks") /\ Go(c, r) /\ UNCHANGED answer
    BY <1>1 DEF ReadTracks, chartVars
  <2>2. /\ req[c].stamp \in {today - 1, today} /\ req[c].days \in 1..Retention
        /\ r.named = s /\ r.stamp = today /\ r.days = req[c].days
    BY <1>h, <2>1 DEF Holds, At, Requests
  <2>3. s = NamedIn(reported, Current(req[c].stamp, req[c].days))
    BY <2>2, CurrentKept
  <2>4. OftenIn(reported, r.named, r.stamp, r.days)
    BY <2>2, <2>3 DEF OftenIn
  <2>5. req'[c] = r /\ \A d \in Clients : d # c => req'[d] = req[d]
    BY <2>1 DEF Recordings, PubInv, Go
  <2>6. ASSUME NEW d \in Clients
        PROVE  /\ Ranking(req'[d]) =>
                    OftenIn(reported, req'[d].named, req'[d].stamp, req'[d].days)
               /\ OftenIn(reported, answer'[d].named, answer'[d].day, answer'[d].days)
    <3> HIDE DEF r
    <3> QED
      BY <1>h, <2>1, <2>4, <2>5
  <2> QED
    BY <1>h, <1>u, <2>1, <2>6 DEF Counting, Tables, At, Ranking, OftenIn
<1>2. CASE ReadRanks(c)
  <2> DEFINE a == [day |-> req[c].stamp, days |-> req[c].days,
                   named |-> req[c].named,
                   ranked |-> Ranked(counters, req[c].stamp, req[c].days)]
  <2>1. /\ At(c, "chart", "ranks") /\ Go(c, Idle)
        /\ answer' = [answer EXCEPT ![c] = a]
    BY <1>2 DEF ReadRanks
  <2>2. OftenIn(reported, a.named, a.day, a.days)
    BY <1>h, <2>1 DEF At, Ranking
  <2>3. \A d \in Clients : Ranking(req'[d]) => req'[d] = req[d]
    BY <2>1, IdleHolds DEF Recordings, PubInv, Go, Ranking
  <2>4. /\ answer'[c] = a /\ \A d \in Clients : d # c => answer'[d] = answer[d]
        /\ answer' = [d \in Clients |-> answer'[d]]
    <3> HIDE DEF a
    <3> QED
      BY <1>h, <2>1
  <2>5. ASSUME NEW d \in Clients
        PROVE  /\ Ranking(req'[d]) =>
                    OftenIn(reported, req'[d].named, req'[d].stamp, req'[d].days)
               /\ OftenIn(reported, answer'[d].named, answer'[d].day, answer'[d].days)
    <3> HIDE DEF a
    <3> QED
      BY <1>h, <2>2, <2>3, <2>4
  <2> QED
    BY <1>h, <1>u, <2>4, <2>5 DEF Counting, Tables, At, Ranking, OftenIn
<1>3. CASE PopularTracks(c)
  <2>1. PICK days \in 1..Retention :
          /\ answer' = [answer EXCEPT ![c] =
                    [day |-> today, days |-> days, ranked |-> {},
                     named |-> NamedIn(counters, Current(today, days))]]
          /\ UNCHANGED req
    BY <1>3 DEF PopularTracks
  <2> DEFINE a == [day |-> today, days |-> days, ranked |-> {},
                   named |-> NamedIn(counters, Current(today, days))]
  <2>2. NamedIn(counters, Current(today, days)) = NamedIn(reported, Current(today, days))
    BY CurrentKept
  <2>3. OftenIn(reported, a.named, a.day, a.days)
    BY <2>2 DEF OftenIn
  <2>4. /\ answer'[c] = a /\ \A d \in Clients : d # c => answer'[d] = answer[d]
        /\ answer' = [d \in Clients |-> answer'[d]]
    <3> HIDE DEF a
    <3> QED
      BY <1>h, <2>1 DEF a
  <2>5. ASSUME NEW d \in Clients
        PROVE  /\ Ranking(req'[d]) =>
                    OftenIn(reported, req'[d].named, req'[d].stamp, req'[d].days)
               /\ OftenIn(reported, answer'[d].named, answer'[d].day, answer'[d].days)
    <3> HIDE DEF a
    <3> QED
      BY <1>h, <2>1, <2>3, <2>4
  <2> QED
    BY <1>h, <1>u, <2>4, <2>5 DEF Counting, Tables, At, Ranking, OftenIn
<1> QED
  BY <1>1, <1>2, <1>3

LEMMA OtherCounts ==
  ASSUME Recordings, Counting,
         \/ \E c \in Clients :
              \/ Unfollow(c) \/ Pull(c) \/ Watch(c) \/ Agree(c) \/ Submit(c)
              \/ Similar(c)
         \/ Toggle \/ Second \/ Midnight \/ Restart \/ UNCHANGED vars
  PROVE  Counting'
<1>1. /\ UNCHANGED <<counters, reported, answer>>
      /\ req' = req \/ req' = [c \in Clients |-> Idle]
      /\ today' = today \/ today' = today + 1
  BY DEF Unfollow, Pull, Watch, Agree, Submit, Similar, Toggle, Second,
     Midnight, Restart, vars, chartVars, clocks
<1>2. \A c \in Clients : Ranking(req'[c]) => req'[c] = req[c]
  BY <1>1, IdleHolds DEF Ranking
<1>3. today \in Int /\ today' \in Int /\ today' >= today
  BY <1>1, CatalogueAssumption DEF Recordings, PubInv, RowShapes, Days
<1> QED
  BY <1>1, <1>2, <1>3, CountingStays

LEMMA InitCounting == Init => Counting
<1> SUFFICES ASSUME Init PROVE Counting
  OBVIOUS
<1>1. counters \in Tables /\ reported = counters /\ Unpruned
  BY DEF Init, Tables, Unpruned
<1>2. \A c \in Clients : answer[c].named = {} /\ ~Ranking(req[c])
  BY IdleHolds DEF Init, NoAnswer, Ranking
<1>3. answer = [c \in Clients |-> answer[c]]
  BY DEF Init
<1> QED
  BY <1>1, <1>2, <1>3, CountingIs DEF OftenIn

LEMMA StepCounting == Recordings /\ Counting /\ [Next]_vars => Counting'
<1> SUFFICES ASSUME Recordings, Counting, [Next]_vars PROVE Counting'
  OBVIOUS
<1>1. ASSUME NEW c \in Clients,
             \/ CallPublish(c) \/ Entry(c) \/ Match(c) \/ File(c)
             \/ FileSource(c) \/ ReadName(c) \/ Upsert(c) \/ Link(c)
             \/ CallFollow(c) \/ Follow(c) \/ CallPlays(c) \/ CallChart(c)
      PROVE  Counting'
  BY <1>1, PublishingCounts
<1>2. ASSUME NEW c \in Clients, Count(c) PROVE Counting'
  BY <1>2, CountCounts
<1>3. ASSUME NEW c \in Clients, ReadTracks(c) \/ ReadRanks(c) \/ PopularTracks(c)
      PROVE  Counting'
  BY <1>3, ChartCounts
<1>4. CASE \/ \E c \in Clients :
                \/ Unfollow(c) \/ Pull(c) \/ Watch(c) \/ Agree(c) \/ Submit(c)
                \/ Similar(c)
           \/ Toggle \/ Second \/ Midnight \/ Restart \/ UNCHANGED vars
  BY <1>4, OtherCounts
<1> QED
  BY <1>1, <1>2, <1>3, <1>4 DEF Next

----------------------------------------------------------------------------
(* Measurements.                                                           *)

Vectors == [Songs -> [sum : Nat, seen : 0..MaxObservations]]

LEMMA MeasuringStays ==
  ASSUME Measuring, UNCHANGED <<vectors, near>>
  PROVE  Measuring'
BY DEF Measuring, Settled, Distance

LEMMA SubmitMeasures ==
  ASSUME Measuring, NEW c \in Clients, Submit(c)
  PROVE  /\ Measuring'
         /\ \A s \in Songs :
              vectors[s].seen = MaxObservations => vectors'[s] = vectors[s]
<1>0. MaxObservations \in Nat \ {0} /\ Marks \subseteq Nat
      /\ vectors \in Vectors /\ near' = near
  BY CatalogueAssumption DEF Measuring, Vectors, Submit
<1>1. PICK s \in Songs, mark \in Marks :
        vectors' = [vectors EXCEPT ![s] = Measured(@, mark)]
  BY DEF Submit
<1>2. /\ Measured(vectors[s], mark) \in [sum : Nat, seen : 0..MaxObservations]
      /\ vectors[s].seen = MaxObservations => Measured(vectors[s], mark) = vectors[s]
  BY <1>0 DEF Measured, Vectors
<1>3. /\ vectors' \in Vectors
      /\ \A t \in Songs :
           vectors[t].seen = MaxObservations => vectors'[t] = vectors[t]
  BY <1>0, <1>1, <1>2 DEF Vectors
<1>4. ASSUME NEW d \in Clients PROVE Settled(near[d])'
  <2>1. PICK a : a = near[d]
    OBVIOUS
  <2>2. Settled(a)
    BY <2>1 DEF Measuring
  <2>3. ASSUME a.seen = MaxObservations
        PROVE  /\ a.seed \in Songs /\ vectors'[a.seed].seen = MaxObservations
               /\ \A t \in DOMAIN a.songs :
                    /\ t \in Songs
                    /\ a.songs[t].seen = MaxObservations =>
                         /\ vectors'[t].seen = MaxObservations
                         /\ a.songs[t].far = Distance(vectors'[a.seed], vectors'[t])
    BY <1>3, <2>2, <2>3 DEF Settled
  <2> QED
    BY <1>0, <2>1, <2>3 DEF Settled
<1> QED
  BY <1>0, <1>3, <1>4 DEF Measuring, Vectors

LEMMA SimilarMeasures ==
  ASSUME Measuring, NEW c \in Clients, Similar(c)
  PROVE  Measuring' /\ UNCHANGED vectors
<1>0. UNCHANGED vectors /\ MaxObservations # 0
  BY CatalogueAssumption DEF Similar
<1>1. PICK seed \in Songs, S \in SUBSET Songs :
        near' = [near EXCEPT ![c] =
                   [seed |-> seed, seen |-> vectors[seed].seen,
                    songs |-> [s \in S |->
                      [far |-> Distance(vectors[seed], vectors[s]),
                       seen |-> vectors[s].seen]]]]
  <2>1. MeasuredSongs \subseteq Songs
    BY DEF MeasuredSongs
  <2> QED
    BY <2>1 DEF Similar
<1> DEFINE a == [seed |-> seed, seen |-> vectors[seed].seen,
                 songs |-> [s \in S |->
                   [far |-> Distance(vectors[seed], vectors[s]),
                    seen |-> vectors[s].seen]]]
<1>2. Settled(a)
  BY DEF Settled
<1>3. /\ near'[c] = a /\ \A d \in Clients : d # c => near'[d] = near[d]
      /\ near' = [d \in Clients |-> near'[d]]
  <2> HIDE DEF a
  <2> QED
    BY <1>1 DEF Measuring, a
<1>4. ASSUME NEW d \in Clients PROVE Settled(near'[d])
  <2> HIDE DEF a
  <2> QED
    BY <1>2, <1>3 DEF Measuring
<1> QED
  BY <1>0, <1>3, <1>4 DEF Measuring, Settled, Distance

LEMMA InitMeasuring == Init => Measuring
BY CatalogueAssumption
   DEF Init, Measuring, Settled, Unmeasured, NoNeighbours

LEMMA StepMeasuring ==
  ASSUME Measuring, [Next]_vars
  PROVE  /\ Measuring'
         /\ \A s \in Songs :
              vectors[s].seen = MaxObservations => vectors'[s] = vectors[s]
<1>1. ASSUME UNCHANGED <<vectors, near>>
      PROVE  /\ Measuring'
             /\ \A s \in Songs :
                  vectors[s].seen = MaxObservations => vectors'[s] = vectors[s]
  BY <1>1, MeasuringStays
<1>2. ASSUME NEW c \in Clients, Submit(c) \/ Similar(c)
      PROVE  /\ Measuring'
             /\ \A s \in Songs :
                  vectors[s].seen = MaxObservations => vectors'[s] = vectors[s]
  BY <1>2, SubmitMeasures, SimilarMeasures
<1>3. ASSUME NEW c \in Clients,
             \/ CallPublish(c) \/ Entry(c) \/ Match(c) \/ File(c)
             \/ FileSource(c) \/ ReadName(c) \/ Upsert(c) \/ Link(c)
             \/ CallFollow(c) \/ Follow(c) \/ Unfollow(c) \/ Pull(c) \/ Watch(c)
             \/ CallPlays(c) \/ Count(c) \/ CallChart(c) \/ ReadTracks(c)
             \/ ReadRanks(c) \/ PopularTracks(c) \/ Agree(c)
      PROVE  UNCHANGED <<vectors, near>>
  BY <1>3
     DEF CallPublish, Entry, Match, File, FileSource, ReadName, Upsert, Link,
         CallFollow, Follow, Unfollow, Pull, Watch, CallPlays, Count, CallChart,
         ReadTracks, ReadRanks, PopularTracks, Agree, vectorVars
<1>4. Toggle \/ Second \/ Midnight \/ Restart \/ UNCHANGED vars
        => UNCHANGED <<vectors, near>>
  BY DEF Toggle, Second, Midnight, Restart, vars, vectorVars
<1> QED
  BY <1>1, <1>2, <1>3, <1>4 DEF Next

----------------------------------------------------------------------------
(* What follows of recordings, cursors, charts and measurements.           *)

LEMMA HoldTogether ==
  ASSUME Recordings, Counting, Measuring PROVE RecordingsHoldTogether
<1>1. RowShapes /\ RecordingsBelongToTheirArtist /\ SourcesSoundAlike
  BY DEF Recordings, PubInv
<1>2. \A i \in Live : rows[i].take \in Takes /\ rows[i].updated \in 0..MaxNow
  BY <1>1, LiveRows DEF Live, Rows
<1>3. TypeOK
  BY <1>1, <1>2 DEF TypeOK, RowShapes, Counting, Measuring
<1> QED
  BY <1>1, <1>3 DEF RecordingsHoldTogether

LEMMA HonestNow == ASSUME Recordings, Counting PROVE ChartsAreHonest
<1> SUFFICES ASSUME NEW c \in Clients
             PROVE  /\ At(c, "chart", "tracks") =>
                         \A s \in Songs :
                           PlaysIn(counters, s, Current(req[c].stamp, req[c].days))
                             = PlaysIn(reported, s, Current(req[c].stamp, req[c].days))
                    /\ At(c, "chart", "ranks") /\ Comparable(req[c].stamp, req[c].days) =>
                         NamedIn(counters, Earlier(req[c].stamp, req[c].days))
                           = NamedIn(reported, Earlier(req[c].stamp, req[c].days))
                    /\ \E day \in {answer[c].day, answer[c].day - 1} :
                         answer[c].named
                           \subseteq NamedIn(reported, Current(day, answer[c].days))
  BY DEF ChartsAreHonest
<1>1. req[c].op = "chart" =>
        req[c].stamp \in {today - 1, today} /\ req[c].days \in 1..Retention
  BY DEF Recordings, PubInv, Holds
<1>2. OftenIn(reported, answer[c].named, answer[c].day, answer[c].days)
  BY CountingIs
<1> QED
  BY <1>1, <1>2, CurrentKept DEF OftenIn, At

(* What is filed under a recording keeps what was there.                   *)
LEMMA WordsStand ==
  ASSUME Recordings, [Next]_vars
  PROVE  \A i \in Live :
           /\ rows'[i].take = rows[i].take
           /\ rows[i].name # Nobody => rows'[i].name = rows[i].name
           /\ rows[i].words # Nobody => /\ rows'[i].words = rows[i].words
                                        /\ rows'[i].credit = rows[i].credit
<1>h. /\ rows \in [Ids -> Rows \cup {NoRow}] /\ Live \subseteq Ids
      /\ \A i \in Live : rows[i] \in Rows
  BY LiveRows DEF Recordings, PubInv, RowShapes, Live
<1>1. ASSUME NEW c \in Clients, File(c)
      PROVE  \A i \in Live :
               /\ rows'[i].take = rows[i].take
               /\ rows[i].name # Nobody => rows'[i].name = rows[i].name
               /\ rows[i].words # Nobody => /\ rows'[i].words = rows[i].words
                                            /\ rows'[i].credit = rows[i].credit
  <2>1. PICK k \in Ids, x \in Rows :
           /\ rows' = [rows EXCEPT ![k] = x]
           /\ k \in Live =>
                /\ x.take = rows[k].take
                /\ rows[k].name # Nobody => x.name = rows[k].name
                /\ rows[k].words # Nobody =>
                     x.words = rows[k].words /\ x.credit = rows[k].credit
    BY <1>1, FileIs
  <2>2. rows'[k] = x /\ \A i \in Ids : i # k => rows'[i] = rows[i]
    BY <1>h, <2>1
  <2> QED
    BY <1>h, <2>1, <2>2
<1>2. ASSUME NEW c \in Clients, Link(c)
      PROVE  \A i \in Live :
               /\ rows'[i].take = rows[i].take
               /\ rows'[i].name = rows[i].name
               /\ rows'[i].words = rows[i].words
               /\ rows'[i].credit = rows[i].credit
  <2>1. /\ req[c].id \in Live
        /\ rows' = [rows EXCEPT ![req[c].id].artist = Norm[req[c].name]]
    BY <1>2, LinkRecords
  <2>2. ASSUME NEW i \in Live
        PROVE  rows'[i] = rows[i]
               \/ rows'[i] = [rows[i] EXCEPT !.artist = Norm[req[c].name]]
    BY <1>h, <2>1, <2>2
  <2> QED
    BY <1>h, <2>2 DEF Rows
<1>3. ASSUME NEW c \in Clients,
             \/ CallPublish(c) \/ Entry(c) \/ Match(c) \/ FileSource(c)
             \/ ReadName(c) \/ Upsert(c) \/ CallFollow(c) \/ Follow(c)
             \/ Unfollow(c) \/ Pull(c) \/ Watch(c) \/ CallPlays(c) \/ Count(c)
             \/ CallChart(c) \/ ReadTracks(c) \/ ReadRanks(c)
             \/ PopularTracks(c) \/ Agree(c) \/ Submit(c) \/ Similar(c)
      PROVE  UNCHANGED rows
  BY <1>3
     DEF CallPublish, Entry, Match, FileSource, ReadName, Upsert, CallFollow,
         Follow, Unfollow, Pull, Watch, CallPlays, Count, CallChart, ReadTracks,
         ReadRanks, PopularTracks, Agree, Submit, Similar, catalogVars
<1>4. Toggle \/ Second \/ Midnight \/ Restart \/ UNCHANGED vars => UNCHANGED rows
  BY DEF Toggle, Second, Midnight, Restart, vars, catalogVars
<1> QED
  BY <1>1, <1>2, <1>3, <1>4 DEF Next

LEMMA SpellingsStand ==
  ASSUME Recordings, [Next]_vars
  PROVE  \A a \in Artists :
           /\ artists[a].shown # Nobody => artists'[a].shown = artists[a].shown
           /\ artists[a].known => artists'[a].known
<1>h. artists \in [Artists -> [shown : Names, known : BOOLEAN]]
  BY DEF Recordings, PubInv, RowShapes
<1>1. ASSUME NEW c \in Clients, Upsert(c), NEW a \in Artists
      PROVE  /\ artists[a].shown # Nobody => artists'[a].shown = artists[a].shown
             /\ artists[a].known => artists'[a].known
  <2>1. artists'[a] = artists[a]
          \/ artists'[a] = Upserted(artists[a], req[c].name, req[c].known)
    BY <1>1, <1>h DEF Upsert
  <2>2. req[c].known \in BOOLEAN
    BY DEF Recordings, PubInv, Holds, Requests
  <2>3. artists[a] \in [shown : Names, known : BOOLEAN]
    BY <1>h
  <2>4. artists[a] = NoArtist => artists[a].shown = Nobody /\ ~artists[a].known
    BY DEF NoArtist
  <2>5. artists[a] # NoArtist =>
          LET b == Upserted(artists[a], req[c].name, req[c].known)
          IN  b.shown = artists[a].shown /\ (artists[a].known => b.known)
    BY <2>2, <2>3 DEF Upserted
  <2> QED
    BY <2>1, <2>4, <2>5
<1>2. ASSUME NEW c \in Clients,
             \/ CallPublish(c) \/ Entry(c) \/ Match(c) \/ File(c)
             \/ FileSource(c) \/ ReadName(c) \/ Link(c) \/ CallFollow(c)
             \/ Follow(c) \/ Unfollow(c) \/ Pull(c) \/ Watch(c) \/ CallPlays(c)
             \/ Count(c) \/ CallChart(c) \/ ReadTracks(c) \/ ReadRanks(c)
             \/ PopularTracks(c) \/ Agree(c) \/ Submit(c) \/ Similar(c)
      PROVE  UNCHANGED artists
  BY <1>2
     DEF CallPublish, Entry, Match, File, FileSource, ReadName, Link, CallFollow,
         Follow, Unfollow, Pull, Watch, CallPlays, Count, CallChart, ReadTracks,
         ReadRanks, PopularTracks, Agree, Submit, Similar, catalogVars
<1>3. Toggle \/ Second \/ Midnight \/ Restart \/ UNCHANGED vars
        => UNCHANGED artists
  BY DEF Toggle, Second, Midnight, Restart, vars, catalogVars
<1> QED
  BY <1>1, <1>2, <1>3 DEF Next

(* The steps that FirstWordStands allows. *)
FirstWordKept ==
  /\ \A i \in Live :
       /\ rows'[i].take = rows[i].take
       /\ rows[i].name # Nobody => rows'[i].name = rows[i].name
       /\ rows[i].words # Nobody => /\ rows'[i].words = rows[i].words
                                    /\ rows'[i].credit = rows[i].credit
  /\ \A a \in Artists :
       /\ artists[a].shown # Nobody => artists'[a].shown = artists[a].shown
       /\ artists[a].known => artists'[a].known
  /\ \A s \in Songs :
       vectors[s].seen = MaxObservations => vectors'[s] = vectors[s]
  /\ \A c \in Clients : LET a == near'[c] IN
       a.seen = MaxObservations =>
         \A s \in DOMAIN a.songs : a.songs[s].seen = MaxObservations =>
           a.songs[s].far = Distance(vectors'[a.seed], vectors'[s])

LEMMA Stands == ASSUME Recordings, Measuring, [Next]_vars PROVE FirstWordKept
<1>1. /\ \A c \in Clients : Settled(near[c])'
      /\ \A s \in Songs : vectors[s].seen = MaxObservations => vectors'[s] = vectors[s]
  BY StepMeasuring DEF Measuring
<1>2. \A c \in Clients : LET a == near'[c] IN
          a.seen = MaxObservations =>
            \A s \in DOMAIN a.songs : a.songs[s].seen = MaxObservations =>
              a.songs[s].far = Distance(vectors'[a.seed], vectors'[s])
  BY <1>1 DEF Settled, Distance
<1> QED
  BY <1>1, <1>2, WordsStand, SpellingsStand DEF FirstWordKept

----------------------------------------------------------------------------
LEMMA InitCatInv == Init => CatInv
BY InitRecordings, InitSkipping, InitCounting, InitMeasuring DEF CatInv

LEMMA StepCatInv == CatInv /\ [Next]_vars => CatInv'
BY StepRecordings, StepSkipping, StepCounting, StepMeasuring DEF CatInv

(* What the theorems about the catalogue rest on holds in every state:     *)
(* recordings and their handlers (db_catalog/publish.rs:41-130), cursors   *)
(* (db_catalog.rs), counters (db_popularity.rs), vectors (db_acoustic.rs). *)
THEOREM CatalogueHolds == Spec => []CatInv
<1> QED
  BY InitCatInv, StepCatInv, PTL DEF Spec

(* However encodings are matched, merged and credited, every recording     *)
(* belongs to the artist its name is of, unless it is being published or a *)
(* crash ended that, and every source sounds like the recording it leads   *)
(* to (db_catalog/publish.rs:41-130).                                      *)
THEOREM RecordingsAreSound == Spec => []RecordingsHoldTogether
<1>1. CatInv => RecordingsHoldTogether
  BY HoldTogether DEF CatInv
<1> QED
  BY <1>1, CatalogueHolds, PTL

(* A device that walks the catalogue by the highest time it was answered   *)
(* holds every row behind it, and was told of all news there, but for what *)
(* was put there after it had passed.                                      *)
THEOREM NothingIsMissed == Spec => []NothingIsSkippedOver
<1>1. CatInv => NothingIsSkippedOver
  BY DEF CatInv, Skipping
<1> QED
  BY <1>1, CatalogueHolds, PTL

(* A chart is read from every play of its window, and what it names was    *)
(* played often enough, though days end and are pruned as it is read       *)
(* (db_popularity.rs:126, db_popularity_movement.rs).                      *)
THEOREM ChartsStayHonest == Spec => []ChartsAreHonest
<1>1. CatInv => ChartsAreHonest
  BY HonestNow DEF CatInv
<1> QED
  BY <1>1, CatalogueHolds, PTL

(* What the first to know said stands: a recording's name, words and       *)
(* credit, an artist's spelling and source, and how a song measured often  *)
(* enough sounds (db_catalog/publish.rs:41-130, db_artists.rs,             *)
(* db_acoustic.rs).                                                        *)
THEOREM FirstWordsStand == Spec => FirstWordStands
<1>1. CatInv /\ [Next]_vars => [FirstWordKept]_vars
  BY Stands DEF CatInv
<1>2. Spec => [][FirstWordKept]_vars
  BY <1>1, CatalogueHolds, PTL DEF Spec
<1> QED
  BY <1>2 DEF FirstWordStands, FirstWordKept

---------------------------------------------------------------------------
(* Vault: the passphrase, the key it seals and the backups under it.       *)

Sealed == {NoEnvelope} \cup [key : Phones, phrase : Phrases]

Handlers ==
  [op : {"none", "sign in", "enrol", "change", "backup"},
   at : {"none", "verify", "envelope", "mint", "enrol", "write", "revoke",
         "store"},
   old : Phrases \cup {NoKey}, new : Phrases \cup {NoKey},
   found : Sealed, stamp : Nat]

Shapes ==
  /\ phrase \in Phrases
  /\ envelope \in Sealed
  /\ settings \in Phones \cup {NoKey}
  /\ signedIn \subseteq Phones
  /\ typed \in [Phones -> Phrases \cup {NoKey}]
  /\ holds \in [Phones -> Phones \cup {NoKey}]
  /\ instant \in Nat
  /\ backups \subseteq [at : 1..instant, key : Phones]
  /\ strayed \in BOOLEAN

(* What device d's handler h carries fits what is stored: an envelope that *)
(* it was handed, or means to write, holds the key that was enrolled; one  *)
(* that it means to write is sealed under the new passphrase; a backup was *)
(* sealed by a device that has a key, at a time that has been.             *)
Fits(d, h) ==
  /\ h \in Handlers
  /\ h.found # NoEnvelope =>
       envelope # NoEnvelope /\ h.found.key = envelope.key
  /\ h.op = "change" =>
       h.new \in Phrases /\ (h.found # NoEnvelope => h.found.phrase = h.new)
  /\ h.op = "enrol" => h.new \in Phrases
  /\ h.op = "sign in" => h.old \in Phrases
  /\ h.op = "backup" => holds[d] # NoKey /\ h.stamp \in 1..instant

Carried ==
  /\ handler = [d \in Phones |-> handler[d]]
  /\ \A d \in Phones : Fits(d, handler[d])

IInv == Shapes /\ OneKey /\ Carried /\ PassphraseOpens

LEMMA Nobodys ==
  /\ NoEnvelope.key = NoKey /\ NoEnvelope.phrase = NoKey
  /\ NoEnvelope \in Sealed
BY DEF NoEnvelope, Sealed

LEMMA SealedFields ==
  ASSUME NEW e \in Sealed, e # NoEnvelope
  PROVE  e.key \in Phones /\ e.phrase \in Phrases
BY DEF Sealed

(* A device at rest carries nothing. *)
LEMMA RestingFits == \A d \in Phones : Fits(d, Resting)
BY Nobodys DEF Fits, Resting, Handlers

(* A step of one device's handler, when what the others' may rely on is as *)
(* it was or more so.                                                      *)
LEMMA OthersFit ==
  ASSUME Carried, NEW d \in Phones, NEW h, Step(d, h), Fits(d, h)',
         \A e \in Phones, g \in Handlers : e # d /\ Fits(e, g) => Fits(e, g)'
  PROVE  Carried'
<1>1. handler' = [e \in Phones |-> handler'[e]]
  BY DEF Step, Carried
<1>2. ASSUME NEW e \in Phones PROVE Fits(e, handler[e])'
  <2>1. CASE e = d
    <3>1. handler'[e] = h
      BY <2>1 DEF Step, Carried
    <3> QED
      BY <2>1, <3>1 DEF Fits
  <2>2. CASE e # d
    <3>1. handler'[e] = handler[e] /\ handler[e] \in Handlers
      BY <2>2 DEF Step, Carried, Fits
    <3>2. Fits(e, handler[e])
      BY DEF Carried
    <3> QED
      BY <2>2, <3>1, <3>2 DEF Fits
  <2> QED
    BY <2>1, <2>2
<1> QED
  BY <1>1, <1>2 DEF Carried

LEMMA HandlerFits ==
  ASSUME Carried, NEW d \in Phones, NEW h, Step(d, h), Fits(d, h),
         UNCHANGED <<envelope, holds, instant>>
  PROVE  Carried'
<1>1. Fits(d, h)'
  BY DEF Fits
<1>2. \A e \in Phones, g \in Handlers : e # d /\ Fits(e, g) => Fits(e, g)'
  BY DEF Fits
<1> QED
  BY <1>1, <1>2, OthersFit

LEMMA InitIInv == VaultInit => IInv
<1> SUFFICES ASSUME VaultInit PROVE IInv
  OBVIOUS
<1> USE VaultAssumption DEF VaultInit
<1>1. Shapes
  BY Nobodys DEF Shapes
<1>2. OneKey
  BY Nobodys DEF OneKey
<1>3. Carried
  BY RestingFits DEF Carried
<1>4. PassphraseOpens
  BY DEF PassphraseOpens
<1> QED
  BY <1>1, <1>2, <1>3, <1>4 DEF IInv

(* Nothing but a handler and what no invariant reads changes. *)
LEMMA OnlyHandler ==
  ASSUME IInv, NEW d \in Phones, NEW h, Step(d, h), Fits(d, h),
         UNCHANGED <<phrase, envelope, settings, holds, instant, strayed>>,
         signedIn' \subseteq Phones, typed' = typed,
         backups' \subseteq [at : 1..instant, key : Phones],
         \A b \in backups' : b.key = envelope.key
  PROVE  IInv'
<1>1. Carried'
  BY HandlerFits DEF IInv
<1>2. Shapes'
  BY DEF IInv, Shapes
<1>3. OneKey' /\ PassphraseOpens'
  BY DEF IInv, OneKey, PassphraseOpens
<1> QED
  BY <1>1, <1>2, <1>3 DEF IInv

LEMMA StepIInv == IInv /\ [VaultNext]_vaultVars => IInv'
<1> SUFFICES ASSUME IInv, [VaultNext]_vaultVars PROVE IInv'
  OBVIOUS
<1> USE VaultAssumption, Nobodys
<1>0. /\ Shapes /\ OneKey /\ Carried /\ PassphraseOpens
      /\ \A d \in Phones : Fits(d, handler[d]) /\ handler[d] \in Handlers
  BY DEF IInv, Carried, Fits
<1>b. /\ backups \subseteq [at : 1..instant, key : Phones]
      /\ \A b \in backups : b.key = envelope.key
      /\ signedIn \subseteq Phones
  BY <1>0 DEF Shapes, OneKey
<1>1. ASSUME NEW d \in Phones, CallSignIn(d) PROVE IInv'
  <2> DEFINE h == [Resting EXCEPT !.op = "sign in", !.at = "verify",
                                   !.old = phrase]
  <2>1. Step(d, h) /\ UNCHANGED <<phrase, envelope, settings, holds, instant,
                                  strayed, typed, backups>>
        /\ signedIn' \subseteq Phones
    BY <1>1, <1>b DEF CallSignIn, server, client, history, Counted, Enter, Leave
  <2>2. Fits(d, h)
    BY <1>1, <1>0, RestingFits DEF CallSignIn, Fits, Handlers, Resting, In, Shapes, Counted, Bearer
  <2> QED
    BY <2>1, <2>2, <1>b, OnlyHandler
<1>2. ASSUME NEW d \in Phones, Verify(d) PROVE IInv'
  <2> DEFINE h == IF handler[d].old = phrase
                  THEN [handler[d] EXCEPT !.at = "envelope"] ELSE Resting
  <2>1. Step(d, h) /\ UNCHANGED <<phrase, envelope, settings, holds, instant,
                                  strayed, typed, backups>>
        /\ signedIn' \subseteq Phones
    BY <1>2, <1>b DEF Verify, server, client, history, Counted, Enter, Leave
  <2>2. Fits(d, h)
    BY <1>2, <1>0, RestingFits DEF Verify, Fits, Handlers, Resting, In, Shapes, Counted, Bearer
  <2> QED
    BY <2>1, <2>2, <1>b, OnlyHandler
<1>3. ASSUME NEW d \in Phones, VaultEnvelope(d) PROVE IInv'
  <2> DEFINE h == [handler[d] EXCEPT !.at = "mint", !.found = envelope]
  <2>1. Step(d, h) /\ UNCHANGED <<phrase, envelope, settings, holds, instant,
                                  strayed, typed, backups>>
        /\ signedIn' \subseteq Phones
    BY <1>3, <1>b DEF VaultEnvelope, server, client, history, Counted, Enter, Leave
  <2>2. Fits(d, h)
    BY <1>3, <1>0, RestingFits DEF VaultEnvelope, Fits, Handlers, Resting, In, Shapes, Counted, Bearer
  <2> QED
    BY <2>1, <2>2, <1>b, OnlyHandler
<1>4. ASSUME NEW d \in Phones, CallEnrol(d) PROVE IInv'
  <2> DEFINE h == [Resting EXCEPT !.op = "enrol", !.at = "enrol",
                                   !.new = typed[d]]
  <2>1. Step(d, h) /\ UNCHANGED <<phrase, envelope, settings, holds, instant,
                                  strayed, typed, backups>>
        /\ signedIn' \subseteq Phones
    BY <1>4, <1>b DEF CallEnrol, server, client, history, Counted, Enter, Leave
  <2>2. Fits(d, h)
    <3>1. typed[d] \in Phrases
      BY <1>4, <1>0 DEF CallEnrol, Shapes
    <3>2. h \in Handlers
      BY <3>1 DEF Handlers, Resting
    <3> QED
      BY <3>1, <3>2 DEF Fits, Resting
  <2> QED
    BY <2>1, <2>2, <1>b, OnlyHandler
<1>5. ASSUME NEW d \in Phones, VerifyCurrent(d) PROVE IInv'
  <2> DEFINE h == IF handler[d].old = phrase
                  THEN [handler[d] EXCEPT !.at = "write"] ELSE Resting
  <2>1. Step(d, h) /\ UNCHANGED <<phrase, envelope, settings, holds, instant,
                                  strayed, typed, backups>>
        /\ signedIn' \subseteq Phones
    BY <1>5, <1>b DEF VerifyCurrent, server, client, history, Counted, Enter, Leave
  <2>2. Fits(d, h)
    BY <1>5, <1>0, RestingFits DEF VerifyCurrent, Fits, Handlers, Resting, In, Shapes, Counted, Bearer
  <2> QED
    BY <2>1, <2>2, <1>b, OnlyHandler
<1>6. ASSUME NEW d \in Phones, RevokeAll(d) PROVE IInv'
  <2> DEFINE h == Resting
  <2>1. Step(d, h) /\ UNCHANGED <<phrase, envelope, settings, holds, instant,
                                  strayed, typed, backups>>
        /\ signedIn' \subseteq Phones
    BY <1>6, <1>b DEF RevokeAll, server, client, history, Counted, Enter, Leave
  <2>2. Fits(d, h)
    BY <1>6, <1>0, RestingFits DEF RevokeAll, Fits, Handlers, Resting, In, Shapes, Counted, Bearer
  <2> QED
    BY <2>1, <2>2, <1>b, OnlyHandler
<1>7. ASSUME NEW d \in Phones, CallChange(d) PROVE IInv'
  <2>1. PICK p \in Phrases :
          /\ Counted([Resting EXCEPT !.op = "change", !.at = "verify",
                        !.old = phrase, !.new = p,
                        !.found = IF holds[d] = NoKey THEN NoEnvelope
                                  ELSE [key |-> holds[d], phrase |-> p]], d)
          /\ UNCHANGED <<server, client, history>>
    BY <1>7 DEF CallChange
  <2> DEFINE f == IF holds[d] = NoKey THEN NoEnvelope
                  ELSE [key |-> holds[d], phrase |-> p]
             h == [Resting EXCEPT !.op = "change", !.at = "verify",
                                  !.old = phrase, !.new = p, !.found = f]
  <2>2. Step(d, h) /\ UNCHANGED <<phrase, envelope, settings, holds, instant,
                                  strayed, typed, backups, signedIn>>
    BY <2>1 DEF server, client, history, Counted
  <2>3. f \in Sealed /\ (f # NoEnvelope => f.phrase = p)
    BY <1>0 DEF Shapes, Sealed
  <2>4. f # NoEnvelope => envelope # NoEnvelope /\ f.key = envelope.key
    BY <1>0 DEF Shapes, OneKey
  <2>5. Fits(d, h)
    <3> HIDE DEF f
    <3> QED
      BY <1>0, <2>3, <2>4 DEF Fits, Handlers, Resting, Shapes
  <2> QED
    BY <2>2, <2>5, <1>b, OnlyHandler
<1>8. ASSUME NEW d \in Phones, StoreVaultBackup(d) PROVE IInv'
  <2> DEFINE new == [at |-> handler[d].stamp, key |-> holds[d]]
  <2>1. /\ Step(d, Resting)
        /\ UNCHANGED <<phrase, envelope, settings, holds, instant, strayed,
                       typed, signedIn>>
        /\ backups' \subseteq backups \cup {new}
    BY <1>8 DEF StoreVaultBackup, Newest, Leave, client
  <2>2. holds[d] # NoKey /\ handler[d].stamp \in 1..instant
    BY <1>0, <1>8 DEF StoreVaultBackup, In, Fits
  <2>3. new \in [at : 1..instant, key : Phones] /\ new.key = envelope.key
    BY <1>0, <2>2 DEF Shapes, OneKey
  <2> HIDE DEF new
  <2>4. /\ backups' \subseteq [at : 1..instant, key : Phones]
        /\ \A b \in backups' : b.key = envelope.key
    BY <1>b, <2>1, <2>3
  <2> QED
    BY <2>1, <2>4, <1>b, RestingFits, OnlyHandler
<1>9. ASSUME NEW d \in Phones, DeleteVaultBackup(d) PROVE IInv'
  <2>1. /\ UNCHANGED <<phrase, envelope, settings, holds, instant, strayed,
                       typed, signedIn, handler>>
        /\ backups' \subseteq backups
    BY <1>9 DEF DeleteVaultBackup, client
  <2>2. Step(d, handler[d])
    BY <1>0, <2>1 DEF Step, Carried
  <2>3. /\ backups' \subseteq [at : 1..instant, key : Phones]
        /\ \A b \in backups' : b.key = envelope.key
    BY <1>b, <2>1
  <2> QED
    BY <1>0, <2>1, <2>2, <2>3, <1>b, OnlyHandler
<1>10. ASSUME NEW d \in Phones, PutBackup(d) PROVE IInv'
  <2>1. PICK h : h = [Resting EXCEPT !.op = "backup", !.at = "store",
                                     !.stamp = instant + 1]
    OBVIOUS
  <2>2. /\ Step(d, h) /\ holds[d] # NoKey /\ instant' = instant + 1
        /\ UNCHANGED <<phrase, envelope, settings, backups, signedIn, typed,
                       holds, strayed>>
    BY <1>10, <2>1 DEF PutBackup, Counted, client, history
  <2>3. instant \in Nat
    BY <1>0 DEF Shapes
  <2>4. /\ h \in Handlers /\ h.op = "backup" /\ h.found = NoEnvelope
        /\ h.stamp = instant + 1
    <3>1. h = [op |-> "backup", at |-> "store", old |-> NoKey, new |-> NoKey,
               found |-> NoEnvelope, stamp |-> instant + 1]
      BY <2>1 DEF Resting
    <3>2. instant + 1 \in Nat /\ NoEnvelope \in Sealed
      BY <2>3, Nobodys
    <3> QED
      BY <3>1, <3>2 DEF Handlers
  <2>5. Fits(d, h)'
    BY <2>2, <2>3, <2>4 DEF Fits
  <2>6. ASSUME NEW e \in Phones, NEW g \in Handlers, Fits(e, g)
        PROVE  Fits(e, g)'
    <3>1. g.stamp \in 1..instant => g.stamp \in 1..instant'
      BY <2>2, <2>3
    <3>2. envelope' = envelope /\ holds' = holds
      BY <2>2
    <3> QED
      BY <2>6, <3>1, <3>2 DEF Fits
  <2>7. Carried'
    BY <1>0, <2>2, <2>5, <2>6, OthersFit
  <2>8. backups' \subseteq [at : 1..instant', key : Phones]
    BY <1>b, <2>2, <2>3
  <2>9. Shapes' /\ OneKey' /\ PassphraseOpens'
    BY <1>0, <2>2, <2>3, <2>8 DEF Shapes, OneKey, PassphraseOpens
  <2> QED
    BY <2>7, <2>9 DEF IInv
<1>11. ASSUME NEW d \in Phones, NEW k \in {NoKey, envelope.key},
              handler[d].op # "backup" \/ k # NoKey,
              holds' = [holds EXCEPT ![d] = k],
              handler' = [handler EXCEPT ![d] = Resting] \/ handler' = handler,
              UNCHANGED <<phrase, envelope, settings, backups, instant, strayed>>,
              signedIn' \subseteq Phones,
              typed' \in [Phones -> Phrases \cup {NoKey}]
       PROVE  IInv'
  <2>1. k \in Phones \cup {NoKey}
    BY <1>0 DEF Shapes, Sealed
  <2>2. holds' \in [Phones -> Phones \cup {NoKey}]
    BY <1>0, <1>11, <2>1 DEF Shapes
  <2>3. \A e \in Phones : holds'[e] \in {NoKey, envelope.key}
    BY <1>0, <1>11 DEF OneKey, Shapes
  <2>4. Shapes' /\ OneKey' /\ PassphraseOpens'
    BY <1>0, <1>11, <2>2, <2>3 DEF Shapes, OneKey, PassphraseOpens
  <2>5. \A e \in Phones, g \in Handlers : e # d /\ Fits(e, g) => Fits(e, g)'
    BY <1>0, <1>11 DEF Fits, Shapes
  <2>6. Carried'
    <3>1. CASE handler' = [handler EXCEPT ![d] = Resting]
      <4>1. Fits(d, Resting)'
        BY Nobodys DEF Fits, Resting, Handlers
      <4> QED
        BY <1>0, <2>5, <3>1, <4>1, OthersFit DEF Step
    <3>2. CASE handler' = handler
      <4>1. Step(d, handler[d])
        BY <1>0, <3>2 DEF Step, Carried
      <4>2. Fits(d, handler[d]) /\ holds'[d] = k
        BY <1>0, <1>11 DEF Shapes
      <4>3. Fits(d, handler[d])'
        BY <1>11, <3>2, <4>2 DEF Fits
      <4>4. ASSUME NEW e \in Phones PROVE Fits(e, handler[e])'
        <5>1. e # d => Fits(e, handler[e])'
          BY <1>0, <2>5, <3>2 DEF Fits
        <5> QED
          BY <4>3, <5>1
      <4> QED
        BY <1>0, <3>2, <4>4 DEF Carried
    <3> QED
      BY <1>11, <3>1, <3>2
  <2> QED
    BY <2>4, <2>6 DEF IInv
<1>12. ASSUME NEW d \in Phones, Mint(d) PROVE IInv'
  <2>1. Fits(d, handler[d]) /\ handler[d].op = "sign in"
    BY <1>0, <1>12 DEF Mint, In
  <2>2. handler[d].old \in Phrases
    BY <2>1 DEF Fits
  <2>3. \/ holds' = [holds EXCEPT ![d] = handler[d].found.key]
        \/ holds' = [holds EXCEPT ![d] = holds[d]]
    BY <1>0, <1>12 DEF Mint, Shapes
  <2>4. handler[d].found.key \in {NoKey, envelope.key}
    BY <2>1 DEF Fits
  <2>5. holds[d] \in {NoKey, envelope.key}
    BY <1>0 DEF OneKey
  <2>6. signedIn' \subseteq Phones /\ typed' \in [Phones -> Phrases \cup {NoKey}]
    BY <1>0, <1>b, <1>12, <2>2 DEF Mint, Shapes
  <2>7. /\ handler' = [handler EXCEPT ![d] = Resting]
        /\ UNCHANGED <<phrase, envelope, settings, backups, instant, strayed>>
    BY <1>12 DEF Mint, Leave, Step, history
  <2> QED
    BY <1>11, <2>1, <2>3, <2>4, <2>5, <2>6, <2>7
<1>13. ASSUME NEW d \in Phones, Fetch(d) PROVE IInv'
  <2>1. /\ holds' = [holds EXCEPT ![d] = envelope.key] /\ handler' = handler
        /\ handler[d].op = "none"
        /\ UNCHANGED <<phrase, envelope, settings, backups, instant, strayed,
                       signedIn, typed>>
    BY <1>13 DEF Fetch, server, history, Resting
  <2> QED
    BY <1>0, <1>b, <1>11, <2>1 DEF Shapes
<1>14. ASSUME NEW d \in Phones, UpsertSettings(d) PROVE IInv'
  <2>1. /\ settings' = holds[d] /\ handler' = handler
        /\ UNCHANGED <<phrase, envelope, backups, instant, strayed, signedIn,
                       typed, holds>>
    BY <1>14 DEF UpsertSettings, client, history
  <2>2. Shapes' /\ OneKey' /\ PassphraseOpens'
    BY <1>0, <2>1 DEF Shapes, OneKey, PassphraseOpens
  <2>3. Carried'
    BY <1>0, <2>1 DEF Carried, Fits
  <2> QED
    BY <2>2, <2>3 DEF IInv
<1>15. ASSUME NEW d \in Phones, EnrolVaultKey(d) PROVE IInv'
  <2>1. /\ handler[d].op = "enrol" /\ handler[d].new \in Phrases
        /\ handler' = [handler EXCEPT ![d] = Resting]
        /\ UNCHANGED <<phrase, settings, backups, instant, signedIn, typed>>
    BY <1>0, <1>15 DEF EnrolVaultKey, In, Fits, Leave, Step
  <2>2. CASE envelope # NoEnvelope
    <3>1. UNCHANGED <<envelope, strayed>>
      BY <1>15, <2>2 DEF EnrolVaultKey, Enrolled
    <3>2. \/ holds' = [holds EXCEPT ![d] = holds[d]]
          \/ holds' = [holds EXCEPT ![d] = NoKey]
      BY <1>0, <1>15, <2>2 DEF EnrolVaultKey, Shapes
    <3>3. holds[d] \in {NoKey, envelope.key}
      BY <1>0 DEF OneKey
    <3> QED
      BY <1>0, <1>b, <1>11, <2>1, <3>1, <3>2, <3>3 DEF Shapes
  <2>3. CASE envelope = NoEnvelope
    <3>1. /\ envelope' = [key |-> d, phrase |-> handler[d].new]
          /\ envelope' \in Sealed /\ envelope' # NoEnvelope
          /\ holds' \in {holds, [holds EXCEPT ![d] = d]}
          /\ strayed' = IF handler[d].new # phrase THEN TRUE ELSE strayed
      BY <1>15, <2>1, <2>3 DEF EnrolVaultKey, Enrolled, Sealed, NoEnvelope
    <3>2. /\ \A e \in Phones : holds[e] = NoKey
          /\ settings = NoKey
          /\ \A b \in backups : b.key = NoKey
      BY <1>0, <2>3 DEF OneKey
    <3>3. \A b \in backups : b.key \in Phones
      BY <1>b
    <3>4. backups = {}
      BY <3>2, <3>3
    <3>5. \A e \in Phones : holds'[e] \in {NoKey, d}
      BY <1>0, <3>1, <3>2 DEF Shapes
    <3>6. Shapes' /\ OneKey'
      <4>1. holds' \in [Phones -> Phones \cup {NoKey}]
        BY <1>0, <3>1 DEF Shapes
      <4>2. envelope'.key = d
        BY <3>1
      <4>3. strayed' \in BOOLEAN
        BY <1>0, <3>1 DEF Shapes
      <4>4. Shapes'
        BY <1>0, <2>1, <3>1, <4>1, <4>3 DEF Shapes
      <4> QED
        BY <2>1, <3>2, <3>4, <3>5, <4>2, <4>4 DEF OneKey
    <3>7. PassphraseOpens'
      BY <2>1, <3>1 DEF PassphraseOpens
    <3>8. \A e \in Phones, g \in Handlers :
            Fits(e, g) => g.found = NoEnvelope /\ g.op # "backup"
      BY <2>3, <3>2 DEF Fits
    <3>9. \A e \in Phones, g \in Handlers : e # d /\ Fits(e, g) => Fits(e, g)'
      BY <3>8 DEF Fits
    <3>10. Fits(d, Resting)'
      BY Nobodys DEF Fits, Resting, Handlers
    <3>11. Carried'
      BY <1>0, <2>1, <3>9, <3>10, OthersFit DEF Step
    <3> QED
      BY <3>6, <3>7, <3>11 DEF IInv
  <2> QED
    BY <2>2, <2>3
<1>16. ASSUME NEW d \in Phones, ChangePassphrase(d) PROVE IInv'
  <2>1. PICK f : f = handler[d].found
    OBVIOUS
  <2>2. PICK h : h = [handler[d] EXCEPT !.at = "revoke"]
    OBVIOUS
  <2>3. /\ handler[d].op = "change" /\ handler[d].new \in Phrases
        /\ f \in Sealed /\ (f # NoEnvelope => f.phrase = handler[d].new)
        /\ f # NoEnvelope => envelope # NoEnvelope /\ f.key = envelope.key
    BY <1>0, <1>16, <2>1 DEF ChangePassphrase, In, Fits, Handlers
  <2>4. /\ phrase' = handler[d].new /\ Step(d, h)
        /\ envelope' = IF f = NoEnvelope THEN envelope ELSE f
        /\ strayed' = IF f = NoEnvelope /\ envelope # NoEnvelope
                      THEN TRUE ELSE strayed
        /\ UNCHANGED <<settings, backups, instant, signedIn, typed, holds>>
    BY <1>16, <2>1, <2>2 DEF ChangePassphrase, Resealed, Enter, client
  <2>5. /\ envelope'.key = envelope.key
        /\ envelope' \in Sealed
        /\ envelope # NoEnvelope => envelope' # NoEnvelope
    BY <1>0, <2>3, <2>4 DEF Shapes
  <2>6. Shapes' /\ OneKey'
    BY <1>0, <2>3, <2>4, <2>5 DEF Shapes, OneKey
  <2>7. PassphraseOpens'
    <3>1. CASE f = NoEnvelope
      BY <2>4, <3>1 DEF PassphraseOpens
    <3>2. CASE f # NoEnvelope
      BY <2>3, <2>4, <3>2 DEF PassphraseOpens
    <3> QED
      BY <3>1, <3>2
  <2>8. \A e \in Phones, g \in Handlers : Fits(e, g) => Fits(e, g)'
    BY <2>4, <2>5 DEF Fits
  <2>9. h \in Handlers /\ Fits(d, h)
    BY <1>0, <2>2 DEF Fits, Handlers
  <2>10. Carried'
    BY <1>0, <2>4, <2>8, <2>9, OthersFit
  <2> QED
    BY <2>6, <2>7, <2>10 DEF IInv
<1>17. CASE Turn
  BY <1>0, <1>17
  DEF Turn, client, history, IInv, Shapes, OneKey, Carried, Fits, PassphraseOpens
<1>18. CASE Reboot
  <2>1. /\ handler' = [d \in Phones |-> Resting]
        /\ UNCHANGED <<phrase, envelope, settings, backups, instant, signedIn,
                       typed, holds, strayed>>
    BY <1>18 DEF Reboot, server, client, history
  <2>2. Carried'
    BY <2>1, RestingFits DEF Carried, Fits
  <2> QED
    BY <1>0, <2>1, <2>2 DEF IInv, Shapes, OneKey, PassphraseOpens
<1>19. CASE UNCHANGED vaultVars
  BY <1>0, <1>19
  DEF vaultVars, server, client, history, IInv, Shapes, OneKey, Carried, Fits,
      PassphraseOpens
<1> QED
  BY <1>1, <1>2, <1>3, <1>4, <1>5, <1>6, <1>7, <1>8, <1>9, <1>10, <1>12,
     <1>13, <1>14, <1>15, <1>16, <1>17, <1>18, <1>19 DEF VaultNext

(* Whatever the devices of an account seal, it is sealed under the one key *)
(* that was enrolled, and whoever signs in with the passphrase is handed   *)
(* an envelope that it opens, however sign-ins, enrolments and changes of  *)
(* the passphrase cross (db_identity/vault.rs:31-46, accounts.rs:158-210). *)
THEOREM KeyIsAlwaysFoundAgain == VaultSpec => []KeyIsFoundAgain
<1>1. IInv => KeyIsFoundAgain
  BY DEF IInv, Shapes, Sealed, KeyIsFoundAgain, VaultTypeOK
<1> QED
  BY <1>1, InitIInv, StepIInv, PTL DEF VaultSpec

(***************************************************************************)
(* What is kept.  No two readings of the clock are the same, so that of    *)
(* any finite set of backups the newest are as many as were asked for, and *)
(* those that are not among them have that many before them, then and ever *)
(* after, since an accepted backup stays accepted.                         *)
(***************************************************************************)
Apart(S) == \A b, c \in S : b.at = c.at => b = c

Waiting == {d \in Phones : handler[d].op = "backup"}

(* A backup under way has a time that none of the stored has, nor of the   *)
(* others under way.                                                       *)
Untaken ==
  \A d \in Waiting :
    /\ \A b \in backups : b.at # handler[d].stamp
    /\ \A e \in Waiting \ {d} : handler[e].stamp # handler[d].stamp

Kept ==
  /\ IsFiniteSet(accepted) /\ backups \subseteq accepted
  /\ Apart(backups) /\ Untaken
  /\ BackupsAreKept

LEMMA FewerOf ==
  ASSUME NEW S, NEW T, IsFiniteSet(S), T \subseteq S
  PROVE  /\ IsFiniteSet(T) /\ Cardinality(T) <= Cardinality(S)
         /\ Cardinality(T) \in Nat /\ Cardinality(S) \in Nat
BY FS_Subset, FS_CardinalityType

(* Of backups at different times one is the oldest. *)
LEMMA OldestOf ==
  ASSUME NEW S, S # {}, \A b \in S : b.at \in Nat, Apart(S)
  PROVE  \E m \in S : \A b \in S : b # m => b.at > m.at
<1> DEFINE A == {b.at : b \in S}
           Less == OpToRel(<, Nat)
<1>1. A \subseteq Nat /\ A # {}
  OBVIOUS
<1>2. IsWellFoundedOn(Less, Nat)
  BY NatLessThanWellFounded
<1>3. PICK x \in A : \A y \in A : ~ (<<y, x>> \in Less)
  <2> HIDE DEF A, Less
  <2> QED
    BY <1>1, <1>2, WFMin
<1>4. \A y \in A : ~ (y < x)
  BY <1>1, <1>3 DEF OpToRel
<1>5. PICK m \in S : m.at = x
  BY <1>3
<1>6. ASSUME NEW b \in S, b # m PROVE b.at > m.at
  <2>1. b.at \in A /\ b.at \in Nat /\ m.at \in Nat
    OBVIOUS
  <2>2. ~ (b.at < m.at)
    BY <1>4, <1>5, <2>1
  <2>3. b.at # m.at
    BY <1>6 DEF Apart
  <2> QED
    BY <2>1, <2>2, <2>3
<1> QED
  BY <1>6

(* The oldest of the newest has fewer than Keep before it, which are all   *)
(* the others.                                                             *)
LEMMA NewestAreFew ==
  ASSUME NEW S, IsFiniteSet(S), \A b \in S : b.at \in Nat, Apart(S)
  PROVE  Cardinality(Newest(S)) <= Keep
<1> DEFINE N == Newest(S)
<1> USE VaultAssumption
<1>1. N \subseteq S /\ IsFiniteSet(N) /\ Cardinality(N) \in Nat
  BY FewerOf DEF Newest
<1>2. CASE N = {}
  BY <1>2, FS_EmptySet
<1>3. CASE N # {}
  <2>1. PICK m \in N : \A b \in N : b # m => b.at > m.at
    <3>1. Apart(N) /\ \A b \in N : b.at \in Nat
      BY <1>1 DEF Apart
    <3> HIDE DEF N
    <3> QED
      BY <1>3, <3>1, OldestOf
  <2>2. Cardinality(Newer(S, m)) < Keep
    BY DEF Newest
  <2>3. N \ {m} \subseteq Newer(S, m) /\ Newer(S, m) \subseteq S
    BY <1>1, <2>1 DEF Newer
  <2>4. /\ Cardinality(N \ {m}) <= Cardinality(Newer(S, m))
        /\ Cardinality(Newer(S, m)) \in Nat
    BY <2>3, FewerOf
  <2>5. Cardinality(N \ {m}) = Cardinality(N) - 1
    BY <1>1, FS_RemoveElement
  <2> HIDE DEF N
  <2>6. Cardinality(N) <= Keep
    BY <1>1, <2>2, <2>4, <2>5
  <2> QED
    BY <2>6 DEF N
<1> QED
  BY <1>2, <1>3

(* Who has newer ones before it has them still among more. *)
LEMMA StillBehind ==
  ASSUME NEW S, NEW T, IsFiniteSet(T), S \subseteq T, NEW b,
         ~ (Cardinality(Newer(S, b)) < Keep)
  PROVE  Cardinality(Newer(T, b)) >= Keep
<1>1. Newer(S, b) \subseteq Newer(T, b) /\ Newer(T, b) \subseteq T
  BY DEF Newer
<1>2. /\ IsFiniteSet(Newer(T, b)) /\ Cardinality(Newer(T, b)) \in Nat
  BY <1>1, FewerOf
<1>3. /\ Cardinality(Newer(S, b)) <= Cardinality(Newer(T, b))
      /\ Cardinality(Newer(S, b)) \in Nat
  BY <1>1, <1>2, FewerOf
<1> QED
  BY <1>2, <1>3, VaultAssumption

(* Nothing is stored or deleted, and no backup is begun. *)
LEMMA KeptAsItWas ==
  ASSUME Kept, UNCHANGED <<backups, accepted, deleted>>,
         \A d \in Phones : handler'[d].op = "backup" => handler'[d] = handler[d]
  PROVE  Kept'
<1>1. Waiting' \subseteq Waiting
      /\ \A d \in Waiting' : handler'[d] = handler[d]
  BY DEF Waiting
<1>2. Untaken'
  BY <1>1 DEF Kept, Untaken
<1> QED
  BY <1>2 DEF Kept, Apart, BackupsAreKept, Newer

(* One device's handler goes on, or is done, with something else. *)
LEMMA KeptByOthers ==
  ASSUME Kept, Carried, NEW d \in Phones, NEW h, Step(d, h), h.op # "backup",
         UNCHANGED <<backups, accepted, deleted>>
  PROVE  Kept'
<1>1. \A e \in Phones : handler'[e] = IF e = d THEN h ELSE handler[e]
  BY DEF Step, Carried
<1> QED
  BY <1>1, KeptAsItWas

LEMMA InitKept == VaultInit => Kept
<1> SUFFICES ASSUME VaultInit PROVE Kept
  OBVIOUS
<1> USE VaultAssumption, FS_EmptySet DEF VaultInit
<1>1. \A d \in Phones : handler[d].op = "none"
  BY DEF Resting
<1>2. Apart(backups) /\ Untaken
  BY <1>1 DEF Apart, Untaken, Waiting
<1> QED
  BY <1>2 DEF Kept, BackupsAreKept

LEMMA StepKept == IInv /\ Kept /\ [VaultNext]_vaultVars => Kept'
<1> SUFFICES ASSUME IInv, Kept, [VaultNext]_vaultVars PROVE Kept'
  OBVIOUS
<1> USE VaultAssumption
<1>0. /\ Carried /\ Shapes
      /\ \A d \in Phones : Fits(d, handler[d]) /\ handler[d] \in Handlers
  BY DEF IInv, Carried, Fits
<1>s. \A d \in Phones : handler[d].op = "backup" =>
        handler[d].stamp \in 1..instant
  BY <1>0 DEF Fits
<1>b. \A b \in backups : b.at \in 1..instant
  BY <1>0 DEF Shapes
<1>r. Resting.op # "backup"
  BY DEF Resting
<1>1. ASSUME NEW d \in Phones, CallSignIn(d) PROVE Kept'
  <2> DEFINE h == [Resting EXCEPT !.op = "sign in", !.at = "verify",
                                   !.old = phrase]
  <2>1. Step(d, h) /\ h.op # "backup" /\ UNCHANGED <<backups, accepted, deleted>>
    BY <1>1 DEF CallSignIn, Counted, server, history, Resting
  <2> QED
    BY <1>0, <2>1, KeptByOthers
<1>2. ASSUME NEW d \in Phones, Verify(d) \/ VerifyCurrent(d) PROVE Kept'
  <2>1. PICK h : Step(d, h) /\ h.op # "backup"
                 /\ UNCHANGED <<backups, accepted, deleted>>
    BY <1>0, <1>2, <1>r
    DEF Verify, VerifyCurrent, In, Enter, Leave, server, history, Handlers
  <2> QED
    BY <1>0, <2>1, KeptByOthers
<1>3. ASSUME NEW d \in Phones, VaultEnvelope(d) PROVE Kept'
  <2> DEFINE h == [handler[d] EXCEPT !.at = "mint", !.found = envelope]
  <2>1. Step(d, h) /\ h.op # "backup" /\ UNCHANGED <<backups, accepted, deleted>>
    BY <1>0, <1>3 DEF VaultEnvelope, In, server, history, Handlers
  <2> QED
    BY <1>0, <2>1, KeptByOthers
<1>4. ASSUME NEW d \in Phones, Mint(d) \/ EnrolVaultKey(d) \/ RevokeAll(d)
      PROVE  Kept'
  <2>1. Step(d, Resting) /\ UNCHANGED <<backups, accepted, deleted>>
    BY <1>4 DEF Mint, EnrolVaultKey, RevokeAll, Leave, history
  <2> QED
    BY <1>0, <1>r, <2>1, KeptByOthers
<1>5. ASSUME NEW d \in Phones, CallEnrol(d) PROVE Kept'
  <2> DEFINE h == [Resting EXCEPT !.op = "enrol", !.at = "enrol",
                                   !.new = typed[d]]
  <2>1. Step(d, h) /\ h.op # "backup" /\ UNCHANGED <<backups, accepted, deleted>>
    BY <1>5 DEF CallEnrol, Counted, server, history, Resting
  <2> QED
    BY <1>0, <2>1, KeptByOthers
<1>6. ASSUME NEW d \in Phones, CallChange(d) PROVE Kept'
  <2>1. PICK h : Step(d, h) /\ h.op # "backup"
                 /\ UNCHANGED <<backups, accepted, deleted>>
    BY <1>6 DEF CallChange, Counted, server, history, Resting
  <2> QED
    BY <1>0, <2>1, KeptByOthers
<1>7. ASSUME NEW d \in Phones, ChangePassphrase(d) PROVE Kept'
  <2> DEFINE h == [handler[d] EXCEPT !.at = "revoke"]
  <2>1. Step(d, h) /\ h.op # "backup" /\ UNCHANGED <<backups, accepted, deleted>>
    BY <1>0, <1>7 DEF ChangePassphrase, Enter, In, Handlers
  <2> QED
    BY <1>0, <2>1, KeptByOthers
<1>8. CASE UNCHANGED <<handler, backups, accepted, deleted>>
  BY <1>8, KeptAsItWas
<1>9. ASSUME NEW d \in Phones, PutBackup(d) PROVE Kept'
  <2>1. PICK h : h = [Resting EXCEPT !.op = "backup", !.at = "store",
                                     !.stamp = instant + 1]
    OBVIOUS
  <2>2. /\ Step(d, h) /\ h.stamp = instant + 1
        /\ UNCHANGED <<backups, accepted, deleted>>
    BY <1>9, <2>1 DEF PutBackup, Counted, history, Resting
  <2>3. \A e \in Phones : handler'[e] = IF e = d THEN h ELSE handler[e]
    BY <1>0, <2>2 DEF Step, Carried
  <2>4. Waiting' \subseteq Waiting \cup {d}
    BY <2>3 DEF Waiting
  <2>5. \A e \in Waiting \ {d} :
          /\ handler'[e].stamp = handler[e].stamp
          /\ handler[e].stamp # instant + 1
    <3>1. instant \in Nat
      BY <1>0 DEF Shapes
    <3> QED
      BY <1>s, <2>3, <3>1 DEF Waiting
  <2>6. \A b \in backups : b.at # instant + 1
    <3>1. instant \in Nat
      BY <1>0 DEF Shapes
    <3> QED
      BY <1>b, <3>1
  <2>7. d \in Phones => handler'[d].stamp = instant + 1
    BY <2>2, <2>3
  <2>8. Untaken'
    BY <2>2, <2>4, <2>5, <2>6, <2>7 DEF Kept, Untaken
  <2> QED
    BY <2>2, <2>8 DEF Kept, Apart, BackupsAreKept, Newer
<1>10. ASSUME NEW d \in Phones, StoreVaultBackup(d) PROVE Kept'
  <2>1. PICK new : new = [at |-> handler[d].stamp, key |-> holds[d]]
    OBVIOUS
  <2> DEFINE S == backups \cup {new}
  <2>2. CASE new \in Newest(S)
    <3>1. /\ Step(d, Resting) /\ deleted' = deleted
          /\ backups' = Newest(S) /\ accepted' = accepted \cup {new}
      BY <1>10, <2>1, <2>2 DEF StoreVaultBackup, Leave
    <3>2. d \in Waiting /\ new.at = handler[d].stamp /\ new.at \in Nat
      BY <1>10, <1>s, <2>1 DEF StoreVaultBackup, In, Waiting
    <3>3. /\ IsFiniteSet(accepted') /\ S \subseteq accepted'
          /\ Newest(S) \subseteq S /\ IsFiniteSet(S)
      BY <3>1, FS_AddElement, FewerOf DEF Kept, Newest
    <3>4. Apart(S) /\ \A b \in S : b.at \in Nat
      BY <1>b, <3>2 DEF Kept, Apart, Untaken
    <3>5. Cardinality(backups') <= Keep
      BY <3>1, <3>3, <3>4, NewestAreFew
    <3>6. \A e \in Phones : handler'[e] = IF e = d THEN Resting ELSE handler[e]
      BY <1>0, <3>1 DEF Step, Carried
    <3>7. /\ Waiting' \subseteq Waiting \ {d}
          /\ \A e \in Waiting' : handler'[e] = handler[e]
      BY <1>r, <3>6 DEF Waiting
    <3>8. \A e \in Waiting' : \A b \in S : b.at # handler'[e].stamp
      BY <3>2, <3>7 DEF Kept, Untaken
    <3>9. Untaken'
      BY <3>1, <3>3, <3>7, <3>8 DEF Kept, Untaken
    <3>10. Apart(backups')
      BY <3>1, <3>3, <3>4 DEF Apart
    <3>11. ASSUME NEW b \in accepted' \ backups'
           PROVE  b \in deleted' \/ Cardinality(Newer(accepted', b)) >= Keep
      <4>1. CASE b \in S
        <5>1. ~ (Cardinality(Newer(S, b)) < Keep)
          BY <3>1, <4>1 DEF Newest
        <5> HIDE DEF S
        <5> QED
          BY <3>3, <5>1, StillBehind
      <4>2. CASE b \notin S
        <5>1. b \in accepted \ backups
          BY <3>1, <4>2
        <5>2. \/ b \in deleted
              \/ Cardinality(Newer(accepted, b)) >= Keep
          BY <5>1 DEF Kept, BackupsAreKept
        <5>3. CASE b \in deleted
          BY <3>1, <5>3
        <5>4. CASE Cardinality(Newer(accepted, b)) >= Keep
          <6>1. Newer(accepted, b) \subseteq accepted
            BY DEF Newer
          <6>2. Cardinality(Newer(accepted, b)) \in Nat
            BY <6>1, FewerOf DEF Kept
          <6>3. ~ (Cardinality(Newer(accepted, b)) < Keep)
            BY <5>4, <6>2
          <6> QED
            BY <3>1, <3>3, <6>3, StillBehind
        <5> QED
          BY <5>2, <5>3, <5>4
      <4> QED
        BY <4>1, <4>2
    <3>12. BackupsAreKept'
      BY <3>5, <3>11 DEF BackupsAreKept, Newer
    <3> QED
      BY <3>1, <3>3, <3>9, <3>10, <3>12 DEF Kept, Apart
  <2>3. CASE new \notin Newest(S)
    <3>1. Step(d, Resting) /\ UNCHANGED <<backups, accepted, deleted>>
      BY <1>10, <2>1, <2>3 DEF StoreVaultBackup, Leave
    <3> QED
      BY <1>0, <1>r, <3>1, KeptByOthers
  <2> QED
    BY <2>2, <2>3
<1>11. ASSUME NEW d \in Phones, DeleteVaultBackup(d) PROVE Kept'
  <2>1. PICK b \in backups :
          /\ backups' = backups \ {b} /\ deleted' = deleted \cup {b}
          /\ UNCHANGED <<accepted, handler>>
    BY <1>11 DEF DeleteVaultBackup
  <2>2. Cardinality(backups') <= Keep
    <3>1. IsFiniteSet(backups) /\ Cardinality(backups) \in Nat
      BY FewerOf DEF Kept
    <3>2. /\ Cardinality(backups') <= Cardinality(backups)
          /\ Cardinality(backups') \in Nat
      BY <2>1, <3>1, FewerOf
    <3> QED
      BY <3>1, <3>2 DEF Kept, BackupsAreKept
  <2>3. Apart(backups') /\ Untaken' /\ backups' \subseteq accepted'
    BY <2>1 DEF Kept, Apart, Untaken, Waiting
  <2>4. \A c \in accepted' \ backups' :
          c \in deleted' \/ Cardinality(Newer(accepted', c)) >= Keep
    BY <2>1 DEF Kept, BackupsAreKept
  <2> QED
    BY <2>1, <2>2, <2>3, <2>4 DEF Kept, BackupsAreKept, Apart, Newer
<1>12. CASE Reboot
  <2>1. /\ handler' = [d \in Phones |-> Resting]
        /\ UNCHANGED <<backups, accepted, deleted>>
    BY <1>12 DEF Reboot, server, history
  <2> QED
    BY <1>r, <2>1, KeptAsItWas
<1>13. ASSUME NEW d \in Phones, Fetch(d) \/ UpsertSettings(d) PROVE Kept'
  <2>1. UNCHANGED <<handler, backups, accepted, deleted>>
    BY <1>13 DEF Fetch, UpsertSettings, server, history
  <2> QED
    BY <1>8, <2>1
<1>14. CASE Turn \/ UNCHANGED vaultVars
  <2>1. UNCHANGED <<handler, backups, accepted, deleted>>
    BY <1>14 DEF Turn, vaultVars, server, history
  <2> QED
    BY <1>8, <2>1
<1> QED
  BY <1>1, <1>2, <1>3, <1>4, <1>5, <1>6, <1>7, <1>9, <1>10, <1>11, <1>12,
     <1>13, <1>14 DEF VaultNext

(* A backup that was answered with 201 is there until a device of the      *)
(* account deletes it or as many newer ones were accepted as are kept,     *)
(* however stores cross each other, and no more than that are kept         *)
(* (db_vault.rs:79-127).                                                   *)
THEOREM BackupsStay == VaultSpec => []BackupsAreKept
<1>1. Kept => BackupsAreKept
  BY DEF Kept
<1> QED
  BY <1>1, InitIInv, StepIInv, InitKept, StepKept, PTL DEF VaultSpec
=============================================================================
