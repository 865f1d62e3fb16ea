----------------------------- MODULE Listening -----------------------------
(***************************************************************************)
(* What accounts have played: reported by their devices and purged         *)
(* (db/scrobbles.rs, schema/scrobbles.rs), read by themselves and by       *)
(* friends (schema_social.rs, schema/stats.rs, schema_feed.rs), and the    *)
(* figures worked out of it (stats.rs, stats_wrapped.rs, db_feed.rs,       *)
(* schema_feed/circle.rs, db_replay.rs).                                   *)
(*                                                                         *)
(* Time is counted in ticks, of which several make an hour.  A stamp is a  *)
(* wall clock and its offset, as RFC 3339 writes it; it is compared as     *)
(* text by the database and as an instant in Rust.  Reads of a handler are *)
(* steps of their own, and as one reader changes nothing for another one   *)
(* is followed at a time; storing a batch and purging are one transaction  *)
(* each.  Friendships and switches change in one step here and are         *)
(* modelled in Social.  Albums, genres, durations but for the standing,    *)
(* stamps that do not parse, months of a year and the lengths of lists are *)
(* left out.                                                               *)
(***************************************************************************)
EXTENDS Integers, FiniteSets, SequencesExt

CONSTANTS
  Listeners,
  Machines, OwnerOf,   \* devices and whose they are
  Petnames, Unnamed,   \* names for devices, and that of one without
  Tracks, BandOf, Secs,
  Zones,               \* offsets from UTC, in ticks
  Hour, Day, Year,     \* in ticks
  Milestones, OnRepeatPlays, MinCohort, MaxCircle, MaxEntries,
  MaxTime,             \* bound: the clock
  Starts               \* where a behaviour begins: what was played and has
                       \* landed, the time, and a bound of everything else

Surfaces == {"stats", "activity"}
Pieces == {"plays", "drains", "purges", "renames", "turns", "asks"}

ASSUME ListeningAssumption ==
  /\ OwnerOf \in [Machines -> Listeners] /\ Unnamed \notin Petnames \cup Machines
  /\ Petnames \cap Machines = {}
  /\ Zones \subseteq Int /\ 0 \in Zones /\ Secs \in [Tracks -> Nat]
  /\ {Hour, Day, Year} \subseteq Nat \ {0} /\ Day % Hour = 0 /\ Year % Day = 0
  /\ \A z \in Zones : z % Hour = 0 /\ -Day < z /\ z < Day
  /\ Milestones \subseteq Nat \ {0} /\ OnRepeatPlays \in Nat \ {0}
  /\ MinCohort \in Nat /\ MaxCircle \in Nat \ {0} /\ MaxEntries \in Nat \ {0}
  /\ MaxTime \in Nat
  /\ \A s \in Starts :
       /\ s.share \in [Pieces -> Nat] /\ s.time \in 0..MaxTime /\ IsFiniteSet(s.past)
       /\ s.past \subseteq [by : Machines, track : Tracks, at : 0..MaxTime,
                            zone : Zones, uid : {0}]
       /\ \A p, q \in s.past :
            p.at = q.at /\ p.zone = q.zone /\ p.track = q.track
              /\ OwnerOf[p.by] = OwnerOf[q.by] => p = q

VARIABLES
  scrobbles,   \* scrobbles
  nodes,       \* registered_nodes.petname
  circles,     \* accepted friendships, as pairs of accounts
  shows,       \* show_stats, show_activity and incognito of every account
  outbox,      \* plays a device does not know to have landed
  wire,        \* batches under way
  ask,         \* the request under way
  time,
  share,       \* how much of everything is left
  numbered,    \* plays made so far
  landed       \* history: plays that reached the server and were not purged

listeningVars == <<scrobbles, nodes, circles, shows, outbox, wire, ask, time,
                   share, numbered, landed>>
Spare(piece) == share[piece] > 0 /\ share' = [share EXCEPT ![piece] = @ - 1]

(***************************************************************************)
(* Stamps.                                                                 *)
(***************************************************************************)
Moment(stamp) == stamp.wall - stamp.zone

(* "+00:00" < "+02:00" < "-02:00" *)
Offset(zone) == IF zone >= 0 THEN zone ELSE Year - zone

(* one text before another *)
Before(s, t) ==
  \/ s.wall < t.wall
  \/ s.wall = t.wall /\ Offset(s.zone) < Offset(t.zone)

(* to_hour *)
ToHour(at) == [wall |-> at - (at % Hour), zone |-> 0]

(* A bug: every play is blurred, whether or not it names itself. *)
Stamped_Mutant(p) == ToHour(p.at)

(* only a play that names itself is blurred *)
Stamped(p) ==
  IF p.uid > 0 THEN ToHour(p.at)
  ELSE [wall |-> p.at + p.zone, zone |-> p.zone]

RowOf(p, name) ==
  [user |-> OwnerOf[p.by], track |-> p.track, stamp |-> Stamped(p),
   uid |-> p.uid, device |-> name]

(* the unique indexes: of the ids, and of what has none by track and text *)
Same(r, s) ==
  r.user = s.user /\ IF r.uid > 0 \/ s.uid > 0 THEN r.uid = s.uid
                     ELSE r.track = s.track /\ r.stamp = s.stamp

(* year_bounds: midnight of 1 January *)
Bound(year, zone) == [wall |-> year * Year, zone |-> zone]

(***************************************************************************)
(* Reporting plays, and purging them.                                      *)
(***************************************************************************)
Play(m) ==
  /\ Spare("plays")
  /\ \E t \in Tracks, z \in Zones, named \in BOOLEAN :
       /\ named => z = 0
       /\ outbox' = [outbox EXCEPT ![m] = @ \cup
            {[by |-> m, track |-> t, at |-> time, zone |-> z,
              uid |-> IF named THEN numbered + 1 ELSE 0]}]
  /\ numbered' = numbered + 1
  /\ UNCHANGED <<scrobbles, nodes, circles, shows, wire, ask, time, landed>>

(* a client sends what it is not sure of, again if need be *)
Drain(m) ==
  \E entries \in SUBSET outbox[m] :
    /\ Spare("drains")
    /\ Cardinality(entries) \in 1..MaxEntries
    /\ \E name \in {m, nodes[m]} \ {Unnamed} :
         wire' = wire \cup {[by |-> m, name |-> name, entries |-> entries]}
    /\ UNCHANGED <<scrobbles, nodes, circles, shows, outbox, ask, time,
                   numbered, landed>>

(* INSERT OR IGNORE, entry after entry *)
Stored(rows, b) ==
  rows \cup {RowOf(p, b.name) : p \in
    {q \in b.entries : ~\E r \in rows : Same(r, RowOf(q, b.name))}}

(* record_scrobbles.  The answer, or the request, may be lost. *)
RecordScrobbles ==
  \E b \in wire :
    /\ wire' = wire \ {b}
    /\ \/ /\ scrobbles' = Stored(scrobbles, b)
          /\ landed' = landed \cup b.entries
          /\ outbox' \in {outbox, [outbox EXCEPT ![b.by] = @ \ b.entries]}
       \/ UNCHANGED <<scrobbles, landed, outbox>>
    /\ UNCHANGED <<nodes, circles, shows, ask, time, share, numbered>>

(* WHERE played_at >= start AND played_at < end *)
InYear(stamp, year) ==
  ~Before(stamp, Bound(year, 0)) /\ Before(stamp, Bound(year + 1, 0))

(* purge_scrobbles: a year, what is before a time, or everything *)
PurgeScrobbles(a) ==
  \E doomed \in {{s \in {r.stamp : r \in scrobbles} : InYear(s, y)} :
                   y \in 0..(MaxTime \div Year)}
              \cup {{s \in {r.stamp : r \in scrobbles} :
                       Before(s, [wall |-> time, zone |-> 0])}}
              \cup {{r.stamp : r \in scrobbles}} :
    /\ Spare("purges")
    /\ scrobbles' = {r \in scrobbles : ~(r.user = a /\ r.stamp \in doomed)}
    /\ landed' = {p \in landed : ~(OwnerOf[p.by] = a /\ Stamped(p) \in doomed)}
    /\ UNCHANGED <<nodes, circles, shows, outbox, wire, ask, time, numbered>>

RenameNode(m) ==
  \E name \in Petnames \ {nodes[m]} :
    /\ Spare("renames")
    /\ nodes' = [nodes EXCEPT ![m] = name]
    /\ UNCHANGED <<scrobbles, circles, shows, outbox, wire, ask, time,
                   numbered, landed>>

(* LEFT JOIN registered_nodes, by the device's id or its name *)
Joined(r) ==
  {m \in Machines : OwnerOf[m] = r.user /\ r.device \in {m, nodes[m]}}

(* scrobble_rows: a row for every node it is joined with, or one *)
ScrobbleRows(a) ==
  UNION {{[user |-> r.user, track |-> r.track, stamp |-> r.stamp,
           uid |-> r.uid, node |-> m] :
            m \in IF Joined(r) = {} THEN {Unnamed} ELSE Joined(r)} :
         r \in {s \in scrobbles : s.user = a}}

(***************************************************************************)
(* Reading somebody else's.                                                *)
(***************************************************************************)
FriendsAmong(a, pairs) == {b \in Listeners \ {a} : {a, b} \in pairs}
Silent == [op |-> "none", at |-> "none", by |-> {}, todo |-> {}, of |-> {},
           ok |-> FALSE, members |-> {}, shown |-> {}, open |-> {},
           knew |-> {}]
SurfaceOf(op) == IF op = "feed" THEN "activity" ELSE "stats"
Asks(a, step) == ask.by = {a} /\ ask.at = step

(* A bug: incognito is not asked about. *)
Shows_Mutant(settings, surface) == surface \in settings

(* shows_stats, shows_activity *)
Shows(settings, surface) == surface \in settings /\ "incognito" \notin settings

(* for the properties: what was so at some time since the request began *)
Honest(settings, surface) ==
  {b \in Listeners : surface \in settings[b] /\ "incognito" \notin settings[b]}
Remember(pairs, settings) ==
  ask' = IF ask = Silent THEN ask
         ELSE [ask EXCEPT
           !.open = @ \cup Honest(settings, SurfaceOf(ask.op)),
           !.knew = @ \cup UNION {FriendsAmong(a, pairs) : a \in ask.by}]
Opens(a, op, step, todo) ==
  /\ Spare("asks") /\ ask = Silent
  /\ ask' = [Silent EXCEPT !.op = op, !.at = step, !.by = {a}, !.todo = todo,
                           !.open = Honest(shows, SurfaceOf(op)),
                           !.knew = FriendsAmong(a, circles)]
  /\ UNCHANGED <<scrobbles, nodes, circles, shows, outbox, wire, time,
                 numbered, landed>>
GoesOn(q) ==
  /\ ask' = q
  /\ UNCHANGED <<scrobbles, nodes, circles, shows, outbox, wire, time, share,
                 numbered, landed>>

(* friendActivity, circleRecap *)
FriendActivity(a) == Opens(a, "feed", "friends", {})
CircleRecap(a) == Opens(a, "circle", "friends", {})

(* listeningStats, agroWrapped, tasteMatch: of one account *)
ListeningStats(a) == \E b \in Listeners \ {a} : Opens(a, "stats", "gate", {b})

ReadFriends(a) ==
  /\ Asks(a, "friends")
  /\ GoesOn([ask EXCEPT !.at = "gate", !.todo = FriendsAmong(a, circles)])

(* require_visible reads the profile, and then whether they are friends *)
ReadProfile(a) ==
  \E b \in ask.todo :
    /\ Asks(a, "gate")
    /\ ask.op = "circle" => Cardinality(ask.members) + 1 < MaxCircle
    /\ GoesOn([ask EXCEPT !.at = "are friends", !.of = {b}, !.todo = @ \ {b},
                          !.ok = Shows(shows[b], SurfaceOf(ask.op))])

AreFriends(a) ==
  /\ Asks(a, "are friends")
  /\ LET passed == ask.ok /\ ask.of \subseteq FriendsAmong(a, circles)
     IN GoesOn([ask EXCEPT
          !.members = IF passed THEN @ \cup ask.of ELSE @,
          !.at = IF passed /\ ask.op # "circle" THEN "rows" ELSE "gate"])

(* the rows: in a feed as soon as a friend is let through, in a recap when *)
(* all have been asked about                                               *)
ReadRows(a) ==
  \/ /\ Asks(a, "rows")
     /\ GoesOn([ask EXCEPT !.at = "gate", !.shown = @ \cup ask.of])
  \/ \E b \in ask.members \ ask.shown :
       /\ ask.op = "circle" /\ Asks(a, "gate")
       /\ ask.todo = {} \/ Cardinality(ask.members) + 1 >= MaxCircle
       /\ GoesOn([ask EXCEPT !.shown = @ \cup {b}, !.todo = {}])

Answer(a) ==
  /\ Asks(a, "gate") /\ ask.todo = {} /\ ask.members = ask.shown
  /\ GoesOn(Silent)

(* a friendship begins or ends *)
Befriend(a, b) ==
  /\ Spare("turns") /\ a # b
  /\ circles' = IF {a, b} \in circles THEN circles \ {{a, b}}
                ELSE circles \cup {{a, b}}
  /\ UNCHANGED shows /\ Remember(circles', shows)
  /\ UNCHANGED <<scrobbles, nodes, outbox, wire, time, numbered, landed>>

(* a switch of a profile is turned *)
UpdateProfile(a) ==
  /\ Spare("turns")
  /\ \E s \in Surfaces \cup {"incognito"} :
       shows' = [shows EXCEPT ![a] = IF s \in @ THEN @ \ {s} ELSE @ \cup {s}]
  /\ UNCHANGED circles /\ Remember(circles, shows')
  /\ UNCHANGED <<scrobbles, nodes, outbox, wire, time, numbered, landed>>

Pass ==
  /\ time < MaxTime /\ share["plays"] + share["drains"] > 0
  /\ time' = time + 1
  /\ UNCHANGED <<scrobbles, nodes, circles, shows, outbox, wire, ask, share,
                 numbered, landed>>

(***************************************************************************)
(* Figures.                                                                *)
(***************************************************************************)
PlayedAt(row) == Moment(row.stamp)
Local(row, zone) == PlayedAt(row) + zone

(* compute: what is of today, and the bar of a day some days ago *)
Today(rows) == {r \in rows : PlayedAt(r) >= time - Day}
Bar(rows, ago) == {r \in rows : (time - PlayedAt(r)) \div Day = ago}

(* on_repeat *)
OnRepeat(rows) ==
  {t \in Tracks : Cardinality({r \in Today(rows) : r.track = t})
                    >= OnRepeatPlays}

InOrder(rows) == SetToSortSeq(rows, LAMBDA r, s : PlayedAt(r) < PlayedAt(s))

(* milestones: the plays that bring a band's count to a round number *)
Crossings(rows, band, since) ==
  FoldLeft(LAMBDA acc, r :
             IF BandOf[r.track] # band THEN acc
             ELSE [count |-> acc.count + 1,
                   items |-> IF acc.count + 1 \in Milestones /\ PlayedAt(r) >= since
                             THEN acc.items \cup {acc.count + 1} ELSE acc.items],
           [count |-> 0, items |-> {}], InOrder(rows)).items

(* compute_wrapped: which plays are of a year, and which bands are new in  *)
(* it                                                                      *)
OfYear(rows, year, zone) == {r \in rows : Local(r, zone) \div Year = year}

NewBands(rows, year, zone) ==
  {BandOf[r.track] : r \in OfYear(rows, year, zone)}
    \ {BandOf[r.track] : r \in {s \in rows : Local(s, zone) \div Year < year}}

(* A bug: a run goes on over a day without a play. *)
LongestStreak_Mutant(days) ==
  FoldLeft(LAMBDA acc, d :
             LET run == IF d - acc.last <= 2 THEN acc.run + 1 ELSE 1
             IN [last |-> d, run |-> run,
                 best |-> IF run > acc.best THEN run ELSE acc.best],
           [last |-> -2, run |-> 0, best |-> 0],
           SetToSortSeq(days, LAMBDA d, e : d < e)).best

(* longest_streak *)
LongestStreak(days) ==
  FoldLeft(LAMBDA acc, d :
             LET run == IF d = acc.last + 1 THEN acc.run + 1 ELSE 1
             IN [last |-> d, run |-> run,
                 best |-> IF run > acc.best THEN run ELSE acc.best],
           [last |-> -2, run |-> 0, best |-> 0],
           SetToSortSeq(days, LAMBDA d, e : d < e)).best

(* circle_recap: from the text of one end to the moment of the other *)
InCircle(r, year, zone) ==
  /\ ~Before(r.stamp, Bound(year, zone))
  /\ PlayedAt(r) < Moment(Bound(year + 1, zone))

(* trendsetter, for one track, with the members asked in some order *)
First(members, track) ==
  FoldLeft(LAMBDA acc, a :
             LET plays == {PlayedAt(r) : r \in {s \in ScrobbleRows(a) :
                                             s.track = track}}
                 first == CHOOSE t \in plays : \A u \in plays : t <= u
             IN IF plays = {} THEN acc
                ELSE IF acc.who = {} \/ first < acc.at
                  THEN [who |-> {a}, at |-> first, tied |-> FALSE]
                ELSE IF first = acc.at THEN [acc EXCEPT !.tied = TRUE] ELSE acc,
           [who |-> {}, at |-> 0, tied |-> FALSE], members)
Winner(members, track) ==
  IF First(members, track).tied THEN {} ELSE First(members, track).who

(* year_cohort and standing_in: seconds by account, and the rank among them *)
Cohort(year, zone) ==
  {r \in scrobbles : /\ ~Before(r.stamp, Bound(year, zone))
                     /\ Before(r.stamp, Bound(year + 1, zone))}
Listened(a, rows) ==
  FoldLeft(LAMBDA acc, r : acc + Secs[r.track], 0,
           SetToSeq({r \in rows : r.user = a}))
Percentile(a, year, zone) ==
  LET rows == Cohort(year, zone)
      all == {r.user : r \in rows}
      below == {b \in all : Listened(b, rows) < Listened(a, rows)}
  IN IF a \notin all \/ Cardinality(all) < MinCohort THEN {}
     ELSE {(Cardinality(below) * 100) \div Cardinality(all)}

ListeningInit ==
  \E s \in Starts :
    /\ landed = s.past /\ time = s.time /\ share = s.share
    /\ scrobbles = {RowOf(p, p.by) : p \in landed}
    /\ numbered = Cardinality(landed)
    /\ nodes = [m \in Machines |-> Unnamed]
    /\ circles = {{a, b} : a, b \in Listeners} /\ wire = {}
    /\ shows = [a \in Listeners |-> Surfaces]
    /\ outbox = [m \in Machines |-> {}]
    /\ ask = Silent

ListeningNext ==
  \/ \E m \in Machines : Play(m) \/ Drain(m) \/ RenameNode(m)
  \/ \E a \in Listeners :
       \/ PurgeScrobbles(a) \/ UpdateProfile(a)
       \/ FriendActivity(a) \/ CircleRecap(a) \/ ListeningStats(a)
       \/ ReadFriends(a) \/ ReadProfile(a) \/ AreFriends(a) \/ ReadRows(a)
       \/ Answer(a)
  \/ \E a, b \in Listeners : Befriend(a, b)
  \/ RecordScrobbles \/ Pass

ListeningSpec == ListeningInit /\ [][ListeningNext]_listeningVars

(***************************************************************************)
(* Properties.                                                             *)
(***************************************************************************)
ListeningTypeOK ==
  /\ \A r \in scrobbles : r.user \in Listeners /\ r.track \in Tracks
  /\ nodes \in [Machines -> Petnames \cup {Unnamed}]
  /\ shows \in [Listeners -> SUBSET (Surfaces \cup {"incognito"})]
  /\ ask.op = "circle" => Cardinality(ask.members) < MaxCircle

OneName(a) ==
  \A m, n \in {x \in Machines : OwnerOf[x] = a} :
    nodes[m] = nodes[n] => m = n \/ nodes[m] = Unnamed
LandedOf(a) == {p \in landed : OwnerOf[p.by] = a}

(* However often a batch is sent again, late, in part or by a client that  *)
(* never heard that it landed, every play that reached the server is read  *)
(* once until it is purged, whether or not its time was blurred, unless    *)
(* two devices of the account go by one name; of plays without an id, one  *)
(* at one time (db/scrobbles.rs:35-39, 55-61).                             *)
CountedOnce ==
  \A a \in Listeners : OneName(a) =>
    \A t \in Tracks :
      Cardinality({r \in ScrobbleRows(a) : r.track = t})
        = Cardinality({<<p.at, p.zone, p.uid>> :
                         p \in {q \in LandedOf(a) : q.track = t}})

(* And blurring it moves nobody on or off repeat by more than the hour.    *)
RepeatIsTrue ==
  \A a \in Listeners : OneName(a) =>
    LET since(when) == {t \in Tracks :
          Cardinality({<<p.at, p.zone, p.uid>> :
             p \in {q \in LandedOf(a) : q.track = t /\ q.at >= when}})
            >= OnRepeatPlays}
    IN /\ since(time - Day + Hour) \subseteq OnRepeat(ScrobbleRows(a))
       /\ OnRepeat(ScrobbleRows(a)) \subseteq since(time - Day)

(* Of whom something is shown it was read while, at some time since the    *)
(* request began, they were a friend, and they had the surface open and    *)
(* were not incognito (schema_social.rs:36-72).                            *)
NobodyIsReadUnasked ==
  ask.shown \subseteq ask.open \cap ask.knew

Years == 0..(MaxTime \div Year + 1)
NearTurn(r) ==
  \E y \in Years, z \in Zones :
    LET off == PlayedAt(r) - y * Year IN off * off <= z * z

(* Away from the turn of a year by the offset, what is purged with a year, *)
(* shown in its recap, in the circle's and ranked in it is the same,       *)
(* whichever way the three compare times; and in one zone every band is    *)
(* new in one year only (stats_wrapped.rs:223, db/scrobbles.rs:131-146).   *)
YearsAgree ==
  \A y \in Years, z \in Zones :
    /\ \A r \in scrobbles : NearTurn(r)
         \/ /\ InYear(r.stamp, y) <=> r \in OfYear(scrobbles, y, z)
            /\ InCircle(r, y, z) <=> r \in OfYear(scrobbles, y, z)
            /\ r \in Cohort(y, z) <=> r \in OfYear(scrobbles, y, z)
    /\ \A x \in 0..(y - 1) :
         NewBands(scrobbles, x, z) \cap NewBands(scrobbles, y, z) = {}

(* Every play that landed counts once, and in one year, and a circle keeps *)
(* to its limit (db/scrobbles.rs:35-61, schema_feed.rs:120-132).           *)
PlaysAreCounted ==
  /\ ListeningTypeOK
  /\ scrobbles \cup landed # {} => CountedOnce /\ RepeatIsTrue
  /\ YearsAgree

(* A streak is the longest run of days with a play; a day's bar misses of  *)
(* today's total only what is a whole day old or of the future; a band     *)
(* crosses a milestone once, at the play that many before it; who was      *)
(* first does not depend on the order of the circle, and a tie has no      *)
(* winner; and one who listened more never stands lower.                   *)
FiguresAreRight ==
  /\ \A z \in Zones :
       LET days == {Local(r, z) \div Day : r \in scrobbles}
           runs == {n \in 0..Cardinality(days) :
                      n = 0 \/ \E d \in days : d..(d + n - 1) \subseteq days}
       IN LongestStreak(days) \in runs /\ \A n \in runs : n <= LongestStreak(days)
  /\ Bar(scrobbles, 0) \subseteq Today(scrobbles)
  /\ \A r \in Today(scrobbles) \ Bar(scrobbles, 0) :
       PlayedAt(r) = time - Day \/ PlayedAt(r) > time
  /\ \A a \in Listeners, t \in Tracks, since \in {0, time - Day} :
       LET rows == {r \in ScrobbleRows(a) : BandOf[r.track] = BandOf[t]}
           recent == {r \in rows : PlayedAt(r) >= since}
       IN Crossings(ScrobbleRows(a), BandOf[t], since)
            = {n \in Milestones : n \in
                 (Cardinality(rows \ recent) + 1)..Cardinality(rows)}
  /\ \A members \in SetToSeqs(Listeners), t \in Tracks :
       Winner(members, t) =
         {r.user : r \in {q \in scrobbles :
            /\ q.track = t
            /\ \A s \in scrobbles : s.track = t =>
                 s.user = q.user \/ PlayedAt(q) < PlayedAt(s)}}
  /\ \A y \in Years, a, b \in Listeners :
       \A p \in Percentile(a, y, 0), q \in Percentile(b, y, 0) :
         /\ p < 100
         /\ Listened(a, Cohort(y, 0)) > Listened(b, Cohort(y, 0)) => p > q

(* So it is of what is stored when nothing is on its way.                  *)
NumbersAddUp == scrobbles # {} /\ wire = {} => FiguresAreRight
=============================================================================
