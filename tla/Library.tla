------------------------------ MODULE Library ------------------------------
(***************************************************************************)
(* Uploading music: library/begin.rs, put.rs, archive.rs, spool.rs,        *)
(* fetch.rs, schema/holdings.rs (reclaimable, forgetHoldings) and the      *)
(* tables behind them in db_library/.  A device declares a file, sends its *)
(* bytes resumably into a part file, and the server verifies the hash and  *)
(* either files it in the library or parks it in the spool, whose rows are *)
(* evicted oldest first to keep each account within its budget.            *)
(*                                                                         *)
(* A file is the sequence of its chunks, <<hash, 1>> to <<hash, Size>>; a  *)
(* chunk that arrives wrong is <<hash, 0>>.  Only one request is in flight *)
(* for an upload: a client that gives up closes the connection, and the    *)
(* server then drops the handler at the await it has reached, which is     *)
(* also what a crash does to it.                                           *)
(***************************************************************************)
EXTENDS Integers, Sequences, FiniteSets, FiniteSetsExt, SequencesExt, Functions

CONSTANTS
  Uploaders,            \* the accounts
  Devices, Owner,       \* Owner \in [Devices -> Uploaders]
  Hashes, Size,         \* Size \in [Hashes -> Nat \ {0}], in chunks
  Position,             \* where relative_path files each hash, before a suffix
  Wants,                \* the <<device, hash>> pairs that will be uploaded
  Quota,                \* users.quota_bytes of a member
  SpoolMax,             \* AGRO_SPOOL_MAX_BYTES, the budget of an admin
  MaxUploads,           \* bound: upload sessions ever created
  MaxHandlers,          \* bound: PUT requests served at once
  MaxFaults,            \* bound: drops, interruptions, failures, deletions
  None

ASSUME LibraryAssumption ==
  /\ Owner \in [Devices -> Uploaders]
  /\ Size \in [Hashes -> Nat \ {0}]
  /\ DOMAIN Position = Hashes
  /\ Wants \subseteq Devices \X Hashes
  /\ {Quota, SpoolMax, MaxUploads, MaxHandlers, MaxFaults} \subseteq Nat
  /\ Quota > 0                         \* a quota of nothing means no quota
  /\ None \notin Range(Position) \X Nat

VARIABLES
  Admins,    \* who is an admin, and so has no quota; never changes here
  Archivers, \* who may archive: nobody on a server without a library root
  client,    \* how far each wanted upload has got, as its device knows it
  session,   \* upload_sessions
  part,      \* the .part files
  put,       \* the PUT handlers
  indexed,   \* library_tracks
  filed,     \* library_tracks.archived_path
  shelf,     \* the files under the library root, by path
  spool,     \* spool_items in created_at order
  stale,     \* rows of spool_items past expires_at
  bin,       \* the spool's .bin files
  evict,     \* evictions under way, of handlers and of the sweeper
  sweep,     \* the storage sweep
  holds,     \* device_holdings
  faults     \* faults so far

libraryVars == <<Admins, Archivers, client, session, part, put, indexed, filed, shelf, spool, stale, bin,
          evict, sweep, holds, faults>>

config == <<Admins, Archivers>>

----------------------------------------------------------------------------
Uploads == 1..MaxUploads
Sweeper == 0
Paths == Range(Position) \X (Nat \ {0})
Absent == None                         \* no such file
Whole(h) == [i \in 1..Size[h] |-> <<h, i>>]
Wrong(h) == <<h, 0>>
By(w) == Owner[w[1]]

NoSession == [for |-> None, received |-> 0, state |-> "new"]
NoHandler == [for |-> None, at |-> "none", off |-> 0, sent |-> 0, room |-> 0,
              path |-> None, answer |-> "start"]
NoEviction == [list |-> <<>>, unlinked |-> FALSE]
Resting == [at |-> "rest", users |-> {}, ups |-> {}, unlinked |-> FALSE]
Start == [at |-> "start", up |-> 0, off |-> 0]

LibraryInit ==
  /\ Admins \in SUBSET Uploaders
  /\ Archivers \in {{}} \cup {users \in SUBSET Uploaders : Admins \subseteq users}
  /\ client = [w \in Wants |-> Start]
  /\ session = [u \in Uploads |-> NoSession]
  /\ part = [u \in Uploads |-> Absent]
  /\ put = [u \in Uploads |-> NoHandler]
  /\ indexed = {}
  /\ filed = [h \in Hashes |-> None]
  /\ shelf = [p \in {} |-> Absent]
  /\ spool = <<>> /\ stale = {}
  /\ bin = [h \in Hashes |-> Absent]
  /\ evict = [e \in Uploads \cup {Sweeper} |-> NoEviction]
  /\ sweep = Resting
  /\ holds = {}
  /\ faults = 0

----------------------------------------------------------------------------
(* The tables. *)

Stored(u) == session[u].state \in {"live", "expired"}
Length(f) == IF f = Absent THEN 0 ELSE Len(f)

Staged(user) == SelectSeq(spool, LAMBDA row : row.by = user)

SpoolBytes(user) == MapThenSumSet(LAMBDA row : Size[row.hash], Range(Staged(user)))

Spooled(h) == \E row \in Range(spool) : row.hash = h

SpooledFor(h, user) == [hash |-> h, by |-> user] \in Range(spool)

\* spool_insert: a hash that is already staged keeps its row, and its owner.
SpoolInsert(h, user) ==
  /\ spool' = IF Spooled(h) THEN spool
              ELSE Append(spool, [hash |-> h, by |-> user])
  /\ stale' = stale \ {h}

Budget(user) == IF user \in Admins THEN SpoolMax ELSE Quota

Evictable_Mutant(user) ==              \* only the TTL, not the quota
  LET expired == SelectSeq(Staged(user), LAMBDA row : row.hash \in stale)
  IN [i \in DOMAIN expired |-> expired[i].hash]

\* spool_evictable_for: expired rows, and the oldest ones until the rest fit.
Evictable(user) ==
  FoldLeft(LAMBDA acc, row :
             IF row.hash \in stale \/ acc.total > Budget(user)
             THEN [total |-> acc.total - Size[row.hash],
                   doomed |-> Append(acc.doomed, row.hash)]
             ELSE acc,
           [total |-> SpoolBytes(user), doomed |-> <<>>], Staged(user)).doomed

----------------------------------------------------------------------------
(* POST /library/upload: declare a file.  The index and the holding are    *)
(* written whatever the answer is.                                         *)

Known(h, user) ==
  \/ user \in Admins /\ filed[h] # None
  \/ SpooledFor(h, user)

Resumable(w) == {u \in Uploads : session[u].for = w /\ session[u].state = "live"}

ResumeOffset_Mutant(u) == session[u].received     \* trust the bookkeeping

\* The smaller of what is on disk and what was acknowledged.
ResumeOffset(u) ==
  LET onDisk == Length(part[u]) IN
  IF onDisk < session[u].received THEN onDisk ELSE session[u].received

OverQuota(h, user) ==
  /\ user \notin Admins
  /\ SpoolBytes(user) + Size[h] > Quota

NextUpload == CHOOSE u \in Uploads : /\ session[u].state = "new"
                                     /\ \A v \in 1..u - 1 : session[v].state # "new"

Told(w, u, off) == client' = [client EXCEPT ![w] = [at |-> "told", up |-> u, off |-> off]]

Answered(w, answer) ==
  client' = [client EXCEPT ![w] = [Start EXCEPT !.at = answer]]

BeginUpload(w) ==
  LET h == w[2] IN
  /\ client[w].at = "start"
  /\ indexed' = indexed \cup {h}
  /\ holds' = holds \cup {w}
  /\ IF Known(h, By(w)) THEN Answered(w, "have") /\ UNCHANGED session
     ELSE IF Resumable(w) # {}
     THEN /\ \E u \in Resumable(w) : Told(w, u, ResumeOffset(u))
          /\ UNCHANGED session
     ELSE IF OverQuota(h, By(w)) THEN Answered(w, "refused") /\ UNCHANGED session
     ELSE /\ \E u \in Uploads : session[u].state = "new"
          /\ session' = [session EXCEPT ![NextUpload] =
                           [for |-> w, received |-> 0, state |-> "live"]]
          /\ Told(w, NextUpload, 0)
  /\ UNCHANGED <<config, part, put, filed, shelf, spool, stale, bin, evict, sweep, faults>>

----------------------------------------------------------------------------
(* PUT /library/upload/{id}: receive bytes. *)

\* The handler ends and its client hears the answer, or hears nothing.
Ended(u, answer) ==
  /\ put' = [put EXCEPT ![u] = NoHandler]
  /\ Answered(put[u].for, answer)

Goto(u, at) == put' = [put EXCEPT ![u].at = at]

\* The rest of a handler's work is to close the session and give this answer.
Closing(u, answer) == put' = [put EXCEPT ![u].at = "close", ![u].answer = answer]

PutUpload(w) ==
  LET u == client[w].up IN
  /\ client[w].at = "told"
  /\ Cardinality({v \in Uploads : put[v].at # "none"}) < MaxHandlers
  /\ IF Stored(u)
     THEN /\ client' = [client EXCEPT ![w].at = "sending"]
          /\ put' = [put EXCEPT ![u] = [NoHandler EXCEPT !.for = w, !.at = "open",
                                                         !.off = client[w].off]]
     ELSE Answered(w, "start") /\ UNCHANGED put
  /\ UNCHANGED <<config, session, part, indexed, filed, shelf, spool, stale, bin, evict,
                 sweep, holds, faults>>

\* How many more bytes this request may write.
Allowance(u) ==
  LET off == put[u].off
      left == Size[put[u].for[2]] - off
      who == By(put[u].for)
      spare == Quota - SpoolBytes(who) - off
  IN IF who \in Admins \/ spare >= left THEN left
     ELSE IF spare < 0 THEN 0 ELSE spare

OpenPart_Mutant(u) ==                  \* opened to append, not truncated
  /\ put[u].at = "open"
  /\ IF put[u].off > Length(part[u])
     THEN Ended(u, "start") /\ UNCHANGED part
     ELSE /\ part' = [part EXCEPT ![u] = IF @ = Absent THEN <<>> ELSE @]
          /\ put' = [put EXCEPT ![u].at = "copy", ![u].room = Allowance(u)]
          /\ UNCHANGED client
  /\ UNCHANGED <<config, session, indexed, filed, shelf, spool, stale, bin, evict, sweep,
                 holds, faults>>

\* Create the part file or truncate it to the agreed offset.
OpenPart(u) ==
  /\ put[u].at = "open"
  /\ IF put[u].off > Length(part[u])
     THEN Ended(u, "start") /\ UNCHANGED part
     ELSE /\ part' = [part EXCEPT ![u] =
                        IF @ = Absent THEN <<>> ELSE SubSeq(@, 1, put[u].off)]
          /\ put' = [put EXCEPT ![u].at = "copy", ![u].room = Allowance(u)]
          /\ UNCHANGED client
  /\ UNCHANGED <<config, session, indexed, filed, shelf, spool, stale, bin, evict, sweep,
                 holds, faults>>

Received(u) == put[u].off + put[u].sent

\* A part file removed under the handler takes the bytes with it.
Chunk(u, c) ==
  /\ put[u].at = "copy"
  /\ put[u].sent <= put[u].room
  /\ Received(u) < Size[put[u].for[2]]
  /\ part' = [part EXCEPT ![u] = IF @ = Absent THEN @ ELSE Append(@, c)]
  /\ put' = [put EXCEPT ![u].sent = @ + 1]
  /\ UNCHANGED <<config, client, session, indexed, filed, shelf, spool, stale, bin, evict,
                 sweep, holds>>

GoodChunk(u) == Chunk(u, <<put[u].for[2], Received(u) + 1>>) /\ UNCHANGED faults

Fault == faults < MaxFaults /\ faults' = faults + 1

BadChunk(u) == Chunk(u, Wrong(put[u].for[2])) /\ Fault

\* More than was declared or than the quota leaves: nothing of it is kept.
Overrun(u) ==
  /\ put[u].at = "copy"
  /\ put[u].sent > put[u].room
  /\ part' = [part EXCEPT ![u] = Absent]
  /\ Closing(u, "refused")
  /\ UNCHANGED <<config, client, session, indexed, filed, shelf, spool, stale, bin, evict,
                 sweep, holds, faults>>

\* The body ended.  A partial write is a success: the client sends the rest.
Flush(u) ==
  LET whole == Received(u) >= Size[put[u].for[2]] IN
  /\ put[u].at = "copy"
  /\ put[u].sent <= put[u].room
  /\ put[u].sent > 0 \/ whole
  /\ session' = IF Stored(u) THEN [session EXCEPT ![u].received = Received(u)]
                ELSE session
  /\ IF whole THEN Goto(u, "verify") /\ UNCHANGED client
     ELSE /\ put' = [put EXCEPT ![u] = NoHandler]
          /\ Told(put[u].for, u, Received(u))
  /\ UNCHANGED <<config, part, indexed, filed, shelf, spool, stale, bin, evict, sweep,
                 holds, faults>>

----------------------------------------------------------------------------
(* finish_upload: verify, then archive or spool, then forget the session. *)

\* unique_path: the first suffix nothing is filed under.
UniquePath(h) ==
  LET free == {n \in 1..Cardinality(DOMAIN shelf) + 1 :
                 <<Position[h], n>> \notin DOMAIN shelf}
  IN <<Position[h], Min(free)>>

\* Hash what arrived.  Archiving begins by choosing a free path.
Verify(u) ==
  LET h == put[u].for[2] IN
  /\ put[u].at = "verify"
  /\ IF ~Stored(u) \/ part[u] = Absent
     THEN Ended(u, "start") /\ UNCHANGED part
     ELSE IF part[u] # Whole(h)
     THEN /\ part' = [part EXCEPT ![u] = Absent]
          /\ Closing(u, "start")
          /\ UNCHANGED client
     ELSE /\ IF By(put[u].for) \in Archivers
             THEN put' = [put EXCEPT ![u].at = "shelve", ![u].path = UniquePath(h)]
             ELSE Goto(u, "stage")
          /\ UNCHANGED <<client, part>>
  /\ UNCHANGED <<config, session, indexed, filed, shelf, spool, stale, bin, evict, sweep,
                 holds, faults>>

\* rename replaces whatever is there.  Without a part file it fails.
Shelve(u) ==
  /\ put[u].at = "shelve"
  /\ IF part[u] = Absent THEN Closing(u, "start") /\ UNCHANGED <<part, shelf>>
     ELSE /\ shelf' = [p \in DOMAIN shelf \cup {put[u].path} |->
                         IF p = put[u].path THEN part[u] ELSE shelf[p]]
          /\ part' = [part EXCEPT ![u] = Absent]
          /\ Goto(u, "index")
  /\ UNCHANGED <<config, client, session, indexed, filed, spool, stale, bin, evict, sweep,
                 holds, faults>>

\* set_archived_path updates the row, when there still is one.
Index(u) ==
  LET h == put[u].for[2] IN
  /\ put[u].at = "index"
  /\ filed' = IF h \in indexed THEN [filed EXCEPT ![h] = put[u].path] ELSE filed
  /\ Closing(u, "have")
  /\ UNCHANGED <<config, client, session, part, indexed, shelf, spool, stale, bin, evict,
                 sweep, holds, faults>>

Stage(u) ==
  LET h == put[u].for[2] IN
  /\ put[u].at = "stage"
  /\ IF part[u] = Absent THEN Closing(u, "start") /\ UNCHANGED <<part, bin>>
     ELSE /\ bin' = [bin EXCEPT ![h] = part[u]]
          /\ part' = [part EXCEPT ![u] = Absent]
          /\ Goto(u, "record")
  /\ UNCHANGED <<config, client, session, indexed, filed, shelf, spool, stale, evict,
                 sweep, holds, faults>>

Record(u) ==
  /\ put[u].at = "record"
  /\ SpoolInsert(put[u].for[2], By(put[u].for))
  /\ Goto(u, "list")
  /\ UNCHANGED <<config, client, session, part, indexed, filed, shelf, bin, evict, sweep,
                 holds, faults>>

\* The disk refuses: an error for the client, and the session goes anyway.
Unplaced(u) ==
  /\ put[u].at \in {"shelve", "stage"}
  /\ Fault
  /\ Closing(u, "start")
  /\ UNCHANGED <<config, client, session, part, indexed, filed, shelf, spool, stale, bin,
                 evict, sweep, holds>>

List(u) ==
  /\ put[u].at = "list"
  /\ evict' = [evict EXCEPT ![u].list = Evictable(By(put[u].for))]
  /\ Closing(u, "have")
  /\ UNCHANGED <<config, client, session, part, indexed, filed, shelf, spool, stale, bin,
                 sweep, holds, faults>>

Close(u) ==
  /\ put[u].at = "close"
  /\ evict[u].list = <<>>
  /\ session' = [session EXCEPT ![u].state = "gone"]
  /\ Ended(u, put[u].answer)
  /\ UNCHANGED <<config, part, indexed, filed, shelf, spool, stale, bin, evict, sweep,
                 holds, faults>>

----------------------------------------------------------------------------
(* Eviction: remove the file, then the row, for each doomed hash.  Then    *)
(* the storage sweep: every account's spool, then every expired upload.    *)

Unlink(e) ==
  /\ evict[e].list # <<>> /\ ~evict[e].unlinked
  /\ bin' = [bin EXCEPT ![Head(evict[e].list)] = Absent]
  /\ evict' = [evict EXCEPT ![e].unlinked = TRUE]
  /\ UNCHANGED <<config, client, session, part, put, indexed, filed, shelf, spool, stale,
                 sweep, holds, faults>>

SpoolDelete(e) ==
  LET h == Head(evict[e].list) IN
  /\ evict[e].unlinked
  /\ spool' = IF Spooled(h) THEN RemoveAt(spool, CHOOSE i \in DOMAIN spool : spool[i].hash = h)
              ELSE spool
  /\ stale' = stale \ {h}
  /\ evict' = [evict EXCEPT ![e] = [list |-> Tail(@.list), unlinked |-> FALSE]]
  /\ UNCHANGED <<config, client, session, part, put, indexed, filed, shelf, bin, sweep,
                 holds, faults>>

Expired == {u \in Uploads : session[u].state = "expired"}

\* A sweep that finds nothing changes nothing.
SweepStart ==
  /\ sweep.at = "rest"
  /\ Expired # {} \/ \E user \in Uploaders : Evictable(user) # <<>>
  /\ sweep' = [sweep EXCEPT !.at = "spools", !.users = {row.by : row \in Range(spool)}]
  /\ UNCHANGED <<config, client, session, part, put, indexed, filed, shelf, spool, stale,
                 bin, evict, holds, faults>>

SweepAccount ==
  /\ sweep.at = "spools" /\ evict[Sweeper].list = <<>>
  /\ \E user \in sweep.users :
       /\ evict' = [evict EXCEPT ![Sweeper].list = Evictable(user)]
       /\ sweep' = [sweep EXCEPT !.users = @ \ {user}]
  /\ UNCHANGED <<config, client, session, part, put, indexed, filed, shelf, spool, stale,
                 bin, holds, faults>>

SweepUploads ==
  /\ sweep.at = "spools" /\ evict[Sweeper].list = <<>> /\ sweep.users = {}
  /\ sweep' = [sweep EXCEPT !.at = "uploads", !.ups = Expired]
  /\ UNCHANGED <<config, client, session, part, put, indexed, filed, shelf, spool, stale,
                 bin, evict, holds, faults>>

RemovePart ==
  /\ sweep.at = "uploads" /\ sweep.ups # {} /\ ~sweep.unlinked
  /\ part' = [part EXCEPT ![Min(sweep.ups)] = Absent]
  /\ sweep' = [sweep EXCEPT !.unlinked = TRUE]
  /\ UNCHANGED <<config, client, session, put, indexed, filed, shelf, spool, stale, bin,
                 evict, holds, faults>>

DeleteUpload ==
  /\ sweep.unlinked
  /\ session' = [session EXCEPT ![Min(sweep.ups)].state = "gone"]
  /\ sweep' = [sweep EXCEPT !.unlinked = FALSE, !.ups = @ \ {Min(@)}]
  /\ UNCHANGED <<config, client, part, put, indexed, filed, shelf, spool, stale, bin,
                 evict, holds, faults>>

SweepDone ==
  /\ sweep.at = "uploads" /\ sweep.ups = {}
  /\ sweep' = Resting
  /\ UNCHANGED <<config, client, session, part, put, indexed, filed, shelf, spool, stale,
                 bin, evict, holds, faults>>

----------------------------------------------------------------------------
(* What else happens to these tables and files. *)

\* The connection breaks, or the process: the handler stops where it is, and
\* what it wrote stays.
Drop(u) ==
  /\ put[u].at # "none"
  /\ Fault
  /\ Ended(u, "start")
  /\ evict' = [evict EXCEPT ![u] = NoEviction]
  /\ UNCHANGED <<config, session, part, indexed, filed, shelf, spool, stale, bin, sweep,
                 holds>>

DropSweep ==
  /\ sweep.at # "rest"
  /\ Fault
  /\ sweep' = Resting
  /\ evict' = [evict EXCEPT ![Sweeper] = NoEviction]
  /\ UNCHANGED <<config, client, session, part, put, indexed, filed, shelf, spool, stale,
                 bin, holds>>

ExpireUpload(u) ==
  /\ session[u].state = "live"
  /\ Fault
  /\ session' = [session EXCEPT ![u].state = "expired"]
  /\ UNCHANGED <<config, client, part, put, indexed, filed, shelf, spool, stale, bin,
                 evict, sweep, holds>>

ExpireSpooled(h) ==
  /\ Spooled(h) /\ h \notin stale
  /\ Fault
  /\ stale' = stale \cup {h}
  /\ UNCHANGED <<config, client, session, part, put, indexed, filed, shelf, spool, bin,
                 evict, sweep, holds>>

\* deleteLibraryItem: the index forgets the track; its file stays.
DeleteTrack(h) ==
  /\ h \in indexed
  /\ Fault
  /\ indexed' = indexed \ {h}
  /\ filed' = [filed EXCEPT ![h] = None]
  /\ holds' = {w \in holds : w[2] # h}
  /\ UNCHANGED <<config, client, session, part, put, shelf, spool, stale, bin, evict,
                 sweep>>

\* reclaimable: the index names a file and the file has the size of the track.
Reclaimable(d) ==
  {h \in indexed : /\ <<d, h>> \in holds
                   /\ filed[h] \in DOMAIN shelf
                   /\ Len(shelf[filed[h]]) = Size[h]}

\* The device deletes what it was told it can, and calls forgetHoldings.
Reclaim(d, h) ==
  /\ h \in Reclaimable(d)
  /\ holds' = holds \ {<<d, h>>}
  /\ UNCHANGED <<config, client, session, part, put, indexed, filed, shelf, spool, stale,
                 bin, evict, sweep, faults>>

Handler(u) ==
  \/ OpenPart(u) \/ GoodChunk(u) \/ Overrun(u) \/ Flush(u) \/ Verify(u)
  \/ Shelve(u) \/ Index(u)
  \/ Stage(u) \/ Record(u) \/ List(u) \/ Close(u)

Sweep ==
  \/ SweepStart \/ SweepAccount \/ SweepUploads
  \/ RemovePart \/ DeleteUpload \/ SweepDone

Evict(e) == Unlink(e) \/ SpoolDelete(e)

LibraryNext ==
  \/ \E w \in Wants : BeginUpload(w) \/ PutUpload(w)
  \/ \E u \in Uploads : \/ Handler(u) \/ BadChunk(u)
                        \/ Unplaced(u) \/ Drop(u) \/ ExpireUpload(u)
  \/ \E e \in {Sweeper} \cup Uploads : Evict(e)
  \/ Sweep \/ DropSweep
  \/ \E h \in Hashes : ExpireSpooled(h) \/ DeleteTrack(h)
  \/ \E d \in Devices, h \in Hashes : Reclaim(d, h)

LibrarySpec == LibraryInit /\ [][LibraryNext]_libraryVars

\* The runtime polls every task and the sweeper's interval keeps firing; a
\* device keeps trying until it is told that the server has the file, or that
\* there is no room.
FairSpec ==
  /\ LibrarySpec
  /\ \A w \in Wants : WF_libraryVars(BeginUpload(w)) /\ WF_libraryVars(PutUpload(w))
  /\ \A u \in Uploads : WF_libraryVars(Handler(u))
  /\ \A e \in {Sweeper} \cup Uploads : WF_libraryVars(Evict(e))
  /\ WF_libraryVars(Sweep)

----------------------------------------------------------------------------
(* Properties. *)

Files == Seq(Hashes \X Nat)

\* Every table, file and handler has the shape the code gives it; a row that is
\* gone from library_tracks or spool_items takes its columns with it, even when
\* a handler that knew it writes later (tracks.rs:73-80, spool.rs:22-48).
LibraryTypeOK ==
  /\ client \in [Wants -> [at : {"start", "told", "sending", "have", "refused"},
                           up : {0} \cup Uploads, off : Nat]]
  /\ session \in [Uploads -> [for : Wants \cup {None}, received : Nat,
                              state : {"new", "live", "expired", "gone"}]]
  /\ \A w \in Wants : client[w].off <= Size[w[2]]
  /\ part \in [Uploads -> {Absent} \cup Files]
  /\ shelf \in [DOMAIN shelf -> Files] /\ DOMAIN shelf \subseteq Paths
  /\ bin \in [Hashes -> {Absent} \cup Files]
  /\ indexed \subseteq Hashes
  /\ filed \in [Hashes -> {None} \cup DOMAIN shelf]
  /\ \A h \in Hashes : filed[h] # None => h \in indexed
  /\ spool \in Seq([hash : Hashes, by : Uploaders])
  /\ \A i, j \in DOMAIN spool : i # j => spool[i].hash # spool[j].hash
  /\ \A h \in stale : Spooled(h)
  /\ holds \subseteq Wants /\ faults \in 0..MaxFaults

\* fetch.rs, holdings.rs:58-60.  What is staged under a hash is that file, and
\* a device is only told to delete its copy when the library holds a whole file
\* of that length where this one was filed: its own, whatever was filed at the
\* same place in the meantime, or another's with the same tags and length.
ServedBytesAreTheFile ==
  /\ \A h \in Hashes : bin[h] \in {Absent, Whole(h)}
  /\ \A d \in Devices : \A h \in Reclaimable(d) :
       \E g \in Hashes : /\ Position[g] = Position[h] /\ Size[g] = Size[h]
                        /\ shelf[filed[h]] = Whole(g)

\* begin.rs:156-162, put.rs:89-91.  However a transfer was cut up, resumed and
\* retried, a part file that reaches verification holds the whole file in
\* order, unless a chunk of it arrived wrong.
ResumedFilesAreWhole ==
  \A u \in Uploads :
    put[u].at = "verify" /\ part[u] # Absent /\ Wrong(put[u].for[2]) \notin Range(part[u])
    => part[u] = Whole(put[u].for[2])

\* begin.rs:147-148 and put.rs:105-110.  A device that keeps trying ends up
\* with its file on the server, or is told there is no room for it.
UploadsSettle ==
  \A w \in Wants : client[w].at \notin {"have", "refused"} ~>
                   client[w].at \in {"have", "refused"}

\* spool.rs:68-74.  An account over its budget is brought back within it, also
\* when the handler that staged the last file was dropped before it evicted.
OverBudgetIsTrimmed ==
  \A user \in Uploaders : SpoolBytes(user) > Budget(user) ~>
                      SpoolBytes(user) <= Budget(user)

\* However uploads of the same files are cut off, resumed, filed, staged and
\* swept, what is verified, served or counted on is the whole file
\* (begin.rs:156-162, fetch.rs, holdings.rs:58-60).
FilesAreWhole == LibraryTypeOK /\ ServedBytesAreTheFile /\ ResumedFilesAreWhole
=============================================================================
