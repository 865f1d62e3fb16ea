----------------------------- MODULE Catalogue -----------------------------
(***************************************************************************)
(* What every account contributes to and none owns.  Recordings, each      *)
(* found by the sound of it, with the artists they are by, who follows     *)
(* those, and the cursors that devices walk the catalogue with             *)
(* (db_catalog/, schema_catalog.rs, db_artists.rs, schema_artists.rs).     *)
(* Plays counted by day, and the charts of them (db_popularity.rs,         *)
(* db_popularity_movement.rs, popular.rs).  Measurements of how songs      *)
(* sound (db_acoustic.rs).                                                 *)
(*                                                                         *)
(* A publish is a chain of statements, each with its own hold of the       *)
(* database; its time is taken before the first.  A segment of audio is    *)
(* equal to another or nothing like it, so that dot products are counts;   *)
(* more candidates than are ever compared in full (MAX_CANDIDATES) are     *)
(* left out.  An id stands for a uuid, and they are used in order.         *)
(* A row and its embedding are inserted under one hold and are always read *)
(* together: a crash between them leaves a row nobody reads.  Title and    *)
(* album are treated as the artist's name is, and left out.  The key a     *)
(* name is stored under stands for the artist.  `now` counts seconds and   *)
(* `today` days; no handler lasts two midnights.                           *)
(***************************************************************************)
EXTENDS Integers, FiniteSets, Sequences

CONSTANTS
  Clients, Nobody,
  Takes, Sound,      \* encodings of performances: the segments of each
  Length, Model,     \* how long each plays, and by what it was measured
  DurationTolerance,
  Ids,               \* ids of recordings
  Spellings, Norm,   \* names, and normalize_artist: the artist or Nobody
  Published, Asked,  \* what clients publish, and whom they follow
  PageSize,          \* rows in one answer
  MaxBatch,          \* entries in one request
  MaxPublishes, Window,
  Songs, Played,     \* recordings, and the batches of plays of them
  Retention, Floor,
  Marks, MaxObservations, \* what a measurement of a song can say
  MaxNeighbours,          \* songs in one answer
  MaxNow, MaxDay,    \* bounds: ticks of the clocks
  Budgets            \* bounds: how much of each part a behaviour has;
                     \* publishes are counted by their entries

Parts == {"publishes", "pulls", "follows", "plays", "charts", "settings",
          "vectors", "similar", "seconds", "days", "crashes"}
Names == Spellings \cup {Nobody}
Artists == {Norm[s] : s \in Spellings} \ {Nobody}

ASSUME CatalogueAssumption ==
  /\ Nobody \notin Clients \cup Spellings
  /\ \A t \in Takes : Sound[t] \in Seq(Nat) /\ Sound[t] # <<>>
  /\ Length \in [Takes -> Nat] /\ DurationTolerance \in Nat
  /\ Ids \subseteq Nat /\ IsFiniteSet(Ids)
  /\ Published \subseteq [take : Takes, name : Names, words : BOOLEAN,
                          credit : BOOLEAN, source : BOOLEAN]
  /\ Asked \subseteq [name : Spellings, known : BOOLEAN]
  /\ PageSize \in Nat \ {0} /\ MaxBatch \in Nat /\ MaxPublishes \in Nat
  /\ Window \in Nat /\ Played \subseteq [Songs -> Nat]
  /\ Retention \in Nat \ {0} /\ Floor \in Nat \ {0}
  /\ Retention % 2 = 0 \* 30: were it odd, a chart's earlier window could
                        \* begin on the day that the next day's writes delete
  /\ Marks \subseteq Nat /\ MaxObservations \in Nat \ {0}
  /\ MaxNeighbours \in Nat \ {0}
  /\ MaxNow \in Nat /\ MaxDay \in Nat /\ Budgets \subseteq [Parts -> Nat]

VARIABLES
  rows,      \* catalog_recordings with catalog_embeddings
  sources,   \* catalog_sources: the recording of a take's id at its source
  artists,   \* artists: the spelling shown, and whether the source is known
  follows,   \* artist_subscriptions: since when
  windows,   \* PublishQuota
  cursor,    \* the highest updated_at every device has pulled
  copies,    \* what every device holds of every recording
  watermark, \* the highest updated_at every device was told of as news
  told,      \* recordings every device was told of as news
  missed,    \* history: rows put at or behind a device's cursor
  unheard,   \* history: news put at or behind a device's watermark
  cut,       \* history: recordings whose publishing a crash ended
  counters,  \* popularity_counters: plays of every song by day
  reported,  \* history: the same, never pruned
  agrees,    \* accounts whose plays are to be counted
  charts,    \* Feature::PopularCharts
  answer,    \* the chart every device was last answered
  vectors,   \* acoustic_vectors: the sum and number of measurements
  acoustic,  \* Feature::AcousticSearch
  near,      \* the songs near another every device was last answered
  req,       \* the handler every client is in
  now, today, left

catalogVars == <<rows, sources, artists, follows, windows>>
readerVars == <<cursor, copies, watermark, told, missed, unheard>>
chartVars == <<counters, reported, agrees, charts, answer>>
vectorVars == <<vectors, acoustic, near>>
clocks == <<now, today>>
vars == <<catalogVars, readerVars, cut, chartVars, vectorVars, req, clocks,
          left>>

Never == -1
Least(S) == CHOOSE x \in S : \A y \in S : x <= y
Idle == [op |-> "none", at |-> "idle", n |-> 0, entry |-> Nobody, id |-> 0,
         name |-> Nobody, known |-> FALSE, stamp |-> 0, days |-> 0,
         named |-> {}]
At(c, op, step) == req[c].op = op /\ req[c].at = step
Go(c, r) == req' = [req EXCEPT ![c] = r]
Then(c, step) == Go(c, [req[c] EXCEPT !.at = step])
Spend(part) == left[part] > 0 /\ left' = [left EXCEPT ![part] = @ - 1]
Begin(c, part, r) == req[c] = Idle /\ Spend(part) /\ Go(c, r)

(***************************************************************************)
(* Publishing.                                                             *)
(***************************************************************************)
(* FixedWindow::charge: what does not fit is charged too *)
Charged(c, n) ==
  IF now - windows[c].started >= Window
    THEN [started |-> now, units |-> n]
    ELSE [windows[c] EXCEPT !.units = @ + n]

(* spend_publish_quota *)
Affordable(window) == window.units <= MaxPublishes

(* publishRecording, publishRecordings: a batch is charged as a whole *)
CallPublish(c) ==
  \E n \in 1..MaxBatch :
    /\ req[c] = Idle /\ left["publishes"] >= n
    /\ left' = [left EXCEPT !["publishes"] = @ - n]
    /\ windows' = [windows EXCEPT ![c] = Charged(c, n)]
    /\ IF Affordable(windows'[c])
         THEN Go(c, [Idle EXCEPT !.op = "publish", !.at = "entry", !.n = n])
         ELSE UNCHANGED req
    /\ UNCHANGED <<rows, sources, artists, follows, readerVars, cut, chartVars,
                   vectorVars, clocks>>

(* validate: an entry refused is answered for alone.  A source that is a   *)
(* path on a device is dropped, and so is a credit for no words            *)
NextEntry(c) ==
  IF req[c].n = 1 THEN Idle
    ELSE [Idle EXCEPT !.op = "publish", !.at = "entry", !.n = req[c].n - 1]
Entry(c) ==
  /\ At(c, "publish", "entry")
  /\ \/ Go(c, NextEntry(c))
     \/ \E e \in Published :
          Go(c, [req[c] EXCEPT !.at = "match", !.stamp = now,
                   !.entry = [e EXCEPT !.credit = @ /\ e.words]])
  /\ UNCHANGED <<catalogVars, readerVars, cut, chartVars, vectorVars, clocks,
                 left>>

NoRow == [take |-> Nobody, name |-> Nobody, words |-> Nobody,
          credit |-> Nobody, updated |-> Never, artist |-> Nobody]
Live == {i \in Ids : rows[i] # NoRow}

(* mean_vector, dot: the cosine of two means is at least 0.75 *)
Pairs(a, b) ==
  Cardinality({p \in (DOMAIN a) \X (DOMAIN b) : a[p[1]] = b[p[2]]})
NearMeans(a, b) ==
  16 * Pairs(a, b) * Pairs(a, b) >= 9 * Pairs(a, a) * Pairs(b, b)

(* sequence_similarity, as a fraction of 2 * Len(a) * Len(b): the best     *)
(* match of every segment, averaged both ways                              *)
Found(a, b) == Cardinality({j \in DOMAIN a : \E k \in DOMAIN b : a[j] = b[k]})
Similarity_Mutant(a, b) == 2 * Found(a, b) * Len(b)
Similarity(a, b) == Found(a, b) * Len(b) + Found(b, a) * Len(a)
SameRecording(a, b) == 100 * Similarity(a, b) >= 88 * 2 * Len(a) * Len(b)

(* candidate_recordings *)
Candidates(t) ==
  {i \in Live : LET it == rows[i].take
                IN /\ Model[it] = Model[t]
                   /\ Length[it] - Length[t] \in
                        -DurationTolerance..DurationTolerance}
(* match_recording: of those alike enough, one that is the most alike *)
Alike(t) ==
  {i \in Candidates(t) : /\ NearMeans(Sound[t], Sound[rows[i].take])
                         /\ SameRecording(Sound[t], Sound[rows[i].take])}
Best(t) ==
  {i \in Alike(t) : \A j \in Alike(t) :
     LET a == Sound[t]  b == Sound[rows[i].take]  d == Sound[rows[j].take]
     IN Similarity(a, b) * Len(d) >= Similarity(a, d) * Len(b)}
Match(c) ==
  /\ At(c, "publish", "match")
  /\ LET t == req[c].entry.take
     IN IF Best(t) = {} THEN Go(c, [req[c] EXCEPT !.at = "file", !.id = 0])
        ELSE \E i \in Best(t) : Go(c, [req[c] EXCEPT !.at = "file", !.id = i])
  /\ UNCHANGED <<catalogVars, readerVars, cut, chartVars, vectorVars, clocks,
                 left>>

(* What the words are is who published them *)
Words(c) == IF req[c].entry.words THEN c ELSE Nobody
Credit(c) == IF req[c].entry.credit THEN c ELSE Nobody
Or(old, new) == IF old = Nobody THEN new ELSE old
(* COALESCE on every column, the credit with the words it describes *)
Filled_Mutant(row, c) ==
  [row EXCEPT !.name = Or(@, req[c].entry.name),
              !.words = Or(@, Words(c)),
              !.credit = Or(@, Credit(c)),
              !.updated = req[c].stamp]
Filled(row, c) ==
  [row EXCEPT !.name = Or(@, req[c].entry.name),
              !.words = Or(@, Words(c)),
              !.credit = IF row.words = Nobody THEN Credit(c) ELSE @,
              !.updated = req[c].stamp]
Inserted(c) ==
  [take |-> req[c].entry.take, name |-> req[c].entry.name, words |-> Words(c),
   credit |-> Credit(c), updated |-> req[c].stamp, artist |-> Nobody]

Follows(v, i) == rows[i].artist # Nobody /\ follows[v][rows[i].artist] # Never
(* Devices that have walked past a time already *)
Pulled(t) == {v \in Clients : cursor[v] >= t}
Told(i, t) == {v \in Clients : watermark[v] >= t /\ Follows(v, i)}
With(history, devices, ids) ==
  [v \in Clients |-> history[v] \cup (IF v \in devices THEN ids ELSE {})]

(* publish_recording: fill in the match, or insert *)
File(c) ==
  /\ At(c, "publish", "file")
  /\ req[c].id = 0 => Ids \ Live # {}
  /\ LET i == IF req[c].id = 0 THEN Least(Ids \ Live) ELSE req[c].id
     IN /\ rows' = [rows EXCEPT ![i] = IF req[c].id = 0 THEN Inserted(c)
                                                       ELSE Filled(@, c)]
        /\ missed' = With(missed, Pulled(req[c].stamp), {i})
        /\ unheard' = With(unheard, Told(i, req[c].stamp), {i})
        /\ Go(c, [req[c] EXCEPT !.id = i,
                    !.at = IF req[c].entry.source THEN "source" ELSE "read"])
  /\ UNCHANGED <<sources, artists, follows, windows, cursor, copies, watermark, told,
                 cut, chartVars, vectorVars, clocks, left>>

(* publish_recording: a source moves to where its audio was filed last *)
FileSource(c) ==
  /\ At(c, "publish", "source")
  /\ sources' = [sources EXCEPT ![req[c].entry.take] = req[c].id]
  /\ Then(c, "read")
  /\ UNCHANGED <<rows, artists, follows, windows, readerVars, cut, chartVars,
                 vectorVars, clocks, left>>

(* The name is read back: the one that stuck may be an earlier client's *)
Stuck(c) == rows[req[c].id].name
ReadName(c) ==
  /\ At(c, "publish", "read")
  /\ Go(c, IF Stuck(c) = Nobody \/ Norm[Stuck(c)] = Nobody THEN NextEntry(c)
           ELSE [req[c] EXCEPT !.at = "upsert", !.name = Stuck(c)])
  /\ UNCHANGED <<catalogVars, readerVars, cut, chartVars, vectorVars, clocks,
                 left>>

(* upsert_artist: the first spelling stays, the first source is filled in *)
NoArtist == [shown |-> Nobody, known |-> FALSE]
Upserted(a, name, known) ==
  IF a = NoArtist THEN [shown |-> name, known |-> known]
    ELSE [a EXCEPT !.known = @ \/ known]
Upsert(c) ==
  /\ req[c].at = "upsert"
  /\ artists' = [artists EXCEPT ![Norm[req[c].name]] =
                   Upserted(@, req[c].name, req[c].known)]
  /\ Then(c, "join")
  /\ UNCHANGED <<rows, sources, follows, windows, readerVars, cut, chartVars,
                 vectorVars, clocks, left>>

(* link_recording_artist: the recording can be news from here on *)
Link(c) ==
  /\ At(c, "publish", "join")
  /\ LET i == req[c].id
         a == Norm[req[c].name]
     IN /\ rows' = [rows EXCEPT ![i].artist = a]
        /\ unheard' =
             With(unheard,
                  {v \in Clients : follows[v][a] # Never
                                     /\ watermark[v] >= rows[i].updated}, {i})
  /\ Go(c, NextEntry(c))
  /\ UNCHANGED <<sources, artists, follows, windows, cursor, copies, watermark, told,
                 missed, cut, chartVars, vectorVars, clocks, left>>

(***************************************************************************)
(* Following, and what devices are answered.                               *)
(***************************************************************************)
(* subscribeArtist: null for a name that normalises to nothing *)
CallFollow(c) ==
  \E a \in Asked :
    /\ Norm[a.name] # Nobody
    /\ Begin(c, "follows", [Idle EXCEPT !.op = "follow", !.at = "upsert",
                              !.name = a.name, !.known = a.known])
    /\ UNCHANGED <<catalogVars, readerVars, cut, chartVars, vectorVars, clocks>>

(* INSERT OR IGNORE: what there is of the artist in this second is news too *)
Follow(c) ==
  /\ At(c, "follow", "join")
  /\ LET a == Norm[req[c].name]
     IN /\ follows' = [follows EXCEPT ![c][a] = IF @ = Never THEN now ELSE @]
        /\ unheard' = With(unheard, {c},
                           {i \in Live : /\ rows[i].artist = a
                                        /\ rows[i].updated >= follows'[c][a]
                                        /\ rows[i].updated <= watermark[c]})
  /\ Go(c, Idle)
  /\ UNCHANGED <<rows, sources, artists, windows, cursor, copies, watermark, told,
                 missed, cut, chartVars, vectorVars, clocks, left>>

(* unsubscribeArtist *)
Unfollow(c) ==
  /\ req[c] = Idle /\ Spend("follows")
  /\ \E a \in {a \in Artists : follows[c][a] # Never} :
       follows' = [follows EXCEPT ![c][a] = Never]
  /\ UNCHANGED <<rows, sources, artists, windows, readerVars, cut, chartVars,
                 vectorVars, req, clocks>>

(* ORDER BY updated_at LIMIT: a page of the oldest, ties in any order *)
IsPage_Mutant(page, all) ==
  /\ Cardinality(page) = IF Cardinality(all) < PageSize THEN Cardinality(all)
                                                         ELSE PageSize
  /\ \A i \in page, j \in all \ page : rows[i].updated >= rows[j].updated
IsPage(page, all) ==
  /\ Cardinality(page) = IF Cardinality(all) < PageSize THEN Cardinality(all)
                                                         ELSE PageSize
  /\ \A i \in page, j \in all \ page : rows[i].updated <= rows[j].updated
Latest(page) == CHOOSE t \in {rows[i].updated : i \in page} :
                  \A i \in page : rows[i].updated <= t

Copy(i) == [take |-> rows[i].take, name |-> rows[i].name,
            words |-> rows[i].words, credit |-> rows[i].credit,
            updated |-> rows[i].updated]
NoCopy == [take |-> Nobody, name |-> Nobody, words |-> Nobody,
           credit |-> Nobody, updated |-> Never]

(* catalogSince: what is left of the last second of a page is passed over *)
Since(v) == {i \in Live : rows[i].updated > cursor[v]}
Pull(v) ==
  /\ Since(v) # {} /\ Spend("pulls")
  /\ \E page \in SUBSET Since(v) :
       /\ IsPage(page, Since(v))
       /\ cursor' = [cursor EXCEPT ![v] = Latest(page)]
       /\ copies' = [copies EXCEPT ![v] =
                       [i \in Ids |-> IF i \in page THEN Copy(i) ELSE @[i]]]
       /\ missed' = [missed EXCEPT ![v] =
                       (@ \ page) \cup {i \in Since(v) \ page :
                                          rows[i].updated = Latest(page)}]
  /\ UNCHANGED <<catalogVars, watermark, told, unheard, cut, chartVars,
                 vectorVars, req, clocks>>

(* newReleases: of artists the account follows, from when it followed them *)
IsNews(v, i) == Follows(v, i) /\ rows[i].updated >= follows[v][rows[i].artist]
News(v) == {i \in Live : IsNews(v, i) /\ rows[i].updated > watermark[v]}
Watch(v) ==
  /\ News(v) # {} /\ Spend("pulls")
  /\ \E page \in SUBSET News(v) :
       /\ IsPage(page, News(v))
       /\ watermark' = [watermark EXCEPT ![v] = Latest(page)]
       /\ told' = [told EXCEPT ![v] = @ \cup page]
       /\ unheard' = [unheard EXCEPT ![v] =
                        @ \cup {i \in News(v) \ page :
                                  rows[i].updated = Latest(page)}]
  /\ UNCHANGED <<catalogVars, cursor, copies, missed, cut, chartVars,
                 vectorVars, req, clocks>>

(***************************************************************************)
(* Plays, and the charts of them.                                          *)
(***************************************************************************)
Days == 0..MaxDay
PlaysIn(table, song, days) ==
  LET Sum[d \in -1..MaxDay] ==
        IF d = -1 THEN 0 ELSE Sum[d - 1] + (IF d \in days THEN table[d][song]
                                                           ELSE 0)
  IN Sum[MaxDay]
(* HAVING total >= MIN_EXPOSURE_COUNT *)
NamedIn(table, days) == {s \in Songs : PlaysIn(table, s, days) >= Floor}

(* submitPlayCounts: agreed to as it is asked, the day taken on the way *)
CallPlays(c) ==
  /\ charts /\ agrees[c]
  /\ Begin(c, "plays", [Idle EXCEPT !.op = "plays", !.at = "count",
                          !.stamp = today])
  /\ UNCHANGED <<catalogVars, readerVars, cut, chartVars, vectorVars, clocks>>

(* add_play_counts: one transaction, old days deleted as others are written *)
Pruned_Mutant(table, day) ==
  [d \in Days |-> IF d <= day - Retention THEN [s \in Songs |-> 0]
                                          ELSE table[d]]
Pruned(table, day) ==
  [d \in Days |-> IF d < day - Retention THEN [s \in Songs |-> 0]
                                         ELSE table[d]]
Add(table, day, plays) ==
  [table EXCEPT ![day] = [s \in Songs |-> @[s] + plays[s]]]
Count(c) ==
  /\ At(c, "plays", "count")
  /\ \E plays \in Played :
       /\ counters' = Pruned(Add(counters, req[c].stamp, plays), req[c].stamp)
       /\ reported' = Add(reported, req[c].stamp, plays)
  /\ Go(c, Idle)
  /\ UNCHANGED <<catalogVars, readerVars, cut, agrees, charts, answer,
                 vectorVars, clocks, left>>

(* popular_handler: off, and the answer is an empty one *)
CallChart(c) ==
  /\ charts
  /\ \E days \in 1..Retention :
       Begin(c, "charts", [Idle EXCEPT !.op = "chart", !.at = "tracks",
                             !.stamp = today, !.days = days])
  /\ UNCHANGED <<catalogVars, readerVars, cut, chartVars, vectorVars, clocks>>

(* popular_tracks; the day is then asked for again *)
Current(day, days) == (day - days + 1)..MaxDay
ReadTracks(c) ==
  /\ At(c, "chart", "tracks")
  /\ Go(c, [req[c] EXCEPT !.at = "ranks", !.stamp = today,
              !.named = NamedIn(counters, Current(req[c].stamp, req[c].days))])
  /\ UNCHANGED <<catalogVars, readerVars, cut, chartVars, vectorVars, clocks,
                 left>>

(* popularTracks: the same tracks, with no ranks and in one reading *)
PopularTracks(c) ==
  /\ charts /\ req[c] = Idle /\ Spend("charts")
  /\ \E days \in 1..Retention :
       answer' = [answer EXCEPT ![c] =
                    [day |-> today, days |-> days, ranked |-> {},
                     named |-> NamedIn(counters, Current(today, days))]]
  /\ UNCHANGED <<catalogVars, readerVars, cut, counters, reported, agrees,
                 charts, vectorVars, req, clocks>>

(* previous_popular_ranks: none when the window before is not all kept *)
Earlier(day, days) == (day - 2 * days + 1)..(day - days)
Comparable(day, days) == day - 2 * days + 1 >= day - Retention
Ranked(table, day, days) ==
  IF Comparable(day, days) THEN NamedIn(table, Earlier(day, days)) ELSE {}
NoAnswer == [day |-> Never, days |-> 0, named |-> {}, ranked |-> {}]
ReadRanks(c) ==
  /\ At(c, "chart", "ranks")
  /\ answer' = [answer EXCEPT ![c] =
                  [day |-> req[c].stamp, days |-> req[c].days,
                   named |-> req[c].named,
                   ranked |-> Ranked(counters, req[c].stamp, req[c].days)]]
  /\ Go(c, Idle)
  /\ UNCHANGED <<catalogVars, readerVars, cut, counters, reported, agrees,
                 charts, vectorVars, clocks, left>>

(* profile.popular_opt_in and incognito; toggle_plugin *)
Agree(c) ==
  /\ Spend("settings") /\ agrees' = [agrees EXCEPT ![c] = ~@]
  /\ UNCHANGED <<catalogVars, readerVars, cut, counters, reported, charts,
                 answer, vectorVars, req, clocks>>
Toggle ==
  /\ Spend("settings")
  /\ \/ charts' = ~charts /\ UNCHANGED acoustic
     \/ acoustic' = ~acoustic /\ UNCHANGED charts
  /\ UNCHANGED <<catalogVars, readerVars, cut, counters, reported, agrees,
                 answer, vectors, near, req, clocks>>

(***************************************************************************)
(* Measurements.  A mean is its sum and the number of measurements in it.  *)
(***************************************************************************)
Unmeasured == [sum |-> 0, seen |-> 0]
(* ON CONFLICT DO UPDATE WHERE observations < MAX_OBSERVATIONS *)
Measured(v, mark) ==
  IF v.seen < MaxObservations THEN [sum |-> v.sum + mark, seen |-> v.seen + 1]
                              ELSE v
(* submitAcousticVectors, submit_vectors *)
Submit(c) ==
  /\ acoustic /\ req[c] = Idle /\ Spend("vectors")
  /\ \E s \in Songs, mark \in Marks :
       vectors' = [vectors EXCEPT ![s] = Measured(@, mark)]
  /\ UNCHANGED <<catalogVars, readerVars, cut, chartVars, acoustic, near, req,
                 clocks>>

(* distance_to, on the one axis there is here, as a fraction *)
Distance(v, w) ==
  LET d == v.sum * w.seen - w.sum * v.seen
  IN [over |-> IF d < 0 THEN -d ELSE d, under |-> v.seen * w.seen]
Nearer(d, e) == d.over * e.under <= e.over * d.under
MeasuredSongs == {s \in Songs : vectors[s] # Unmeasured}

NoNeighbours == [seed |-> Nobody, seen |-> 0, songs |-> <<>>]

(* similarRecordings, similar_recordings: one reading, the nearest first   *)
(* and so many of them; nobody measured the seed, and it is near nothing   *)
Similar(c) ==
  /\ acoustic /\ Spend("similar")
  /\ \E seed \in Songs :
       LET others == MeasuredSongs \ {seed}
           to(s) == Distance(vectors[seed], vectors[s])
       IN \E S \in SUBSET others :
            /\ IF seed \notin MeasuredSongs THEN S = {}
               ELSE /\ S = others \/ Cardinality(S) = MaxNeighbours
                    /\ Cardinality(S) <= MaxNeighbours
                    /\ \A s \in S, u \in others \ S : Nearer(to(s), to(u))
            /\ near' = [near EXCEPT ![c] =
                 [seed |-> seed, seen |-> vectors[seed].seen,
                  songs |-> [s \in S |->
                    [far |-> to(s), seen |-> vectors[s].seen]]]]
  /\ UNCHANGED <<catalogVars, readerVars, cut, chartVars, vectors, acoustic, req,
                 clocks>>

(***************************************************************************)
(* Time and restarts.                                                      *)
(***************************************************************************)
Second ==
  /\ now < MaxNow /\ Spend("seconds") /\ now' = now + 1
  /\ UNCHANGED <<catalogVars, readerVars, cut, chartVars, vectorVars, req,
                 today>>
Midnight ==
  /\ today < MaxDay /\ Spend("days") /\ today' = today + 1
  /\ \A c \in Clients : req[c].op \in {"plays", "chart"} => req[c].stamp = today
  /\ UNCHANGED <<catalogVars, readerVars, cut, chartVars, vectorVars, req, now>>

(* What is in memory goes: the handlers, and what was charged *)
Unfinished(c) ==
  req[c].op = "publish" /\ req[c].at \in {"source", "read", "upsert", "join"}
Restart ==
  /\ Spend("crashes")
  /\ cut' = cut \cup {req[c].id : c \in {d \in Clients : Unfinished(d)}}
  /\ req' = [c \in Clients |-> Idle]
  /\ windows' = [c \in Clients |-> [started |-> -Window, units |-> 0]]
  /\ UNCHANGED <<rows, sources, artists, follows, readerVars, chartVars, vectorVars,
                 clocks>>

Init ==
  /\ rows = [i \in Ids |-> NoRow] /\ sources = [t \in Takes |-> 0]
  /\ artists = [a \in Artists |-> NoArtist]
  /\ follows = [c \in Clients |-> [a \in Artists |-> Never]]
  /\ windows = [c \in Clients |-> [started |-> -Window, units |-> 0]]
  /\ cursor = [c \in Clients |-> Never] /\ watermark = cursor
  /\ copies = [c \in Clients |-> [i \in Ids |-> NoCopy]]
  /\ told = [c \in Clients |-> {}] /\ missed = told /\ unheard = told
  /\ cut = {}
  /\ counters = [d \in Days |-> [s \in Songs |-> 0]] /\ reported = counters
  /\ agrees \in [Clients -> {TRUE}] /\ charts = TRUE
  /\ answer = [c \in Clients |-> NoAnswer]
  /\ vectors = [s \in Songs |-> Unmeasured] /\ acoustic = TRUE
  /\ near = [c \in Clients |-> NoNeighbours]
  /\ req = [c \in Clients |-> Idle] /\ now = 0 /\ today = 0
  /\ left \in Budgets

Next ==
  \/ \E c \in Clients :
       \/ CallPublish(c) \/ Entry(c) \/ Match(c) \/ File(c) \/ FileSource(c)
       \/ ReadName(c) \/ Upsert(c) \/ Link(c)
       \/ CallFollow(c) \/ Follow(c) \/ Unfollow(c) \/ Pull(c) \/ Watch(c)
       \/ CallPlays(c) \/ Count(c) \/ CallChart(c) \/ ReadTracks(c)
       \/ ReadRanks(c) \/ PopularTracks(c) \/ Agree(c) \/ Submit(c)
       \/ Similar(c)
  \/ Toggle \/ Second \/ Midnight \/ Restart

Spec == Init /\ [][Next]_vars

(***************************************************************************)
(* Properties.                                                             *)
(***************************************************************************)
TypeOK ==
  /\ \A i \in Live : rows[i].take \in Takes /\ rows[i].updated \in 0..MaxNow
  /\ sources \in [Takes -> {0} \cup Live]
  /\ artists \in [Artists -> [shown : Names, known : BOOLEAN]]
  /\ follows \in [Clients -> [Artists -> {Never} \cup 0..MaxNow]]
  /\ counters \in [Days -> [Songs -> Nat]]
  /\ vectors \in [Songs -> [sum : Nat, seen : 0..MaxObservations]]
  /\ cut \subseteq Ids

(* A recording belongs to the artist that the name in its row normalises   *)
(* to, whoever published it last and under whatever name; and it belongs   *)
(* to one unless it is being published or a crash ended that.              *)
RecordingsBelongToTheirArtist ==
  \A i \in Live :
    LET a == IF rows[i].name = Nobody THEN Nobody ELSE Norm[rows[i].name]
    IN \/ rows[i].artist = a
       \/ /\ rows[i].artist = Nobody
          /\ i \in cut \/ \E c \in Clients : Unfinished(c) /\ req[c].id = i

(* The recording a source leads to sounds like it: neither lacks as much   *)
(* as a quarter of the other, so that no excerpt leads to the whole.       *)
SourcesSoundAlike ==
  \A t \in {u \in Takes : sources[u] # 0} :
    LET a == Sound[t]  b == Sound[rows[sources[t]].take]
    IN 4 * Found(a, b) >= 3 * Len(a) /\ 4 * Found(b, a) >= 3 * Len(b)

(* However encodings are matched, merged and credited by those who publish *)
(* them, a recording has its artist and the sources that sound like it     *)
(* (db_catalog/publish.rs:41-130).                                         *)
RecordingsHoldTogether ==
  TypeOK /\ RecordingsBelongToTheirArtist /\ SourcesSoundAlike

(* What the first to know said stands: a name, words and the credit they   *)
(* came with, an artist's spelling and source; and a song measured often   *)
(* enough sounds as it does, however many measure it again, so that two    *)
(* such songs stay as far apart as a device was once answered.             *)
FirstWordStands ==
  [][/\ \A i \in Live :
          /\ rows'[i].take = rows[i].take
          /\ rows[i].name # Nobody => rows'[i].name = rows[i].name
          /\ rows[i].words # Nobody => /\ rows'[i].words = rows[i].words
                                       /\ rows'[i].credit = rows[i].credit
     /\ \A a \in Artists :
          /\ artists[a].shown # Nobody => artists'[a].shown = artists[a].shown
          /\ artists[a].known => artists'[a].known
     /\ \A s \in Songs :
          vectors[s].seen = MaxObservations => vectors'[s] = vectors[s]
     /\ \A c \in Clients : LET a == near'[c] IN
          a.seen = MaxObservations =>
            \A s \in DOMAIN a.songs : a.songs[s].seen = MaxObservations =>
              a.songs[s].far = Distance(vectors'[a.seed], vectors'[s])]_vars

(* A device that walks the catalogue by the highest time it has seen holds *)
(* every row at or behind it as it is, and has been told of all news there,*)
(* but for what was put there after it had passed: under a time taken      *)
(* before, or in the second a page ended in.                               *)
NothingIsSkippedOver ==
  \A v \in Clients, i \in Live :
    /\ rows[i].updated <= cursor[v] => copies[v][i] = Copy(i) \/ i \in missed[v]
    /\ IsNews(v, i) /\ rows[i].updated <= watermark[v]
         => i \in told[v] \cup unheard[v]

(* What a chart is about to be read from holds every play of its window,   *)
(* and of the window before if that is to be compared with, though the day *)
(* may have ended and another's write deleted old days since it was asked; *)
(* and what it named was played often enough.                              *)
ChartsAreHonest ==
  \A c \in Clients :
    /\ At(c, "chart", "tracks") =>
         \A s \in Songs :
           PlaysIn(counters, s, Current(req[c].stamp, req[c].days))
             = PlaysIn(reported, s, Current(req[c].stamp, req[c].days))
    /\ At(c, "chart", "ranks") /\ Comparable(req[c].stamp, req[c].days) =>
         NamedIn(counters, Earlier(req[c].stamp, req[c].days))
           = NamedIn(reported, Earlier(req[c].stamp, req[c].days))
    /\ \E day \in {answer[c].day, answer[c].day - 1} :
         answer[c].named \subseteq NamedIn(reported, Current(day, answer[c].days))
=============================================================================
