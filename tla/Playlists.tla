----------------------------- MODULE Playlists -----------------------------
(***************************************************************************)
(* A playlist people write: its tracks and their positions, who may open   *)
(* it and who may change it, the edits that name the revision they were    *)
(* made against, and the followers who are told of every change            *)
(* (db_playlists.rs, db_playlist_items.rs, db_playlist_edits.rs,           *)
(* db_playlist_followers.rs, playlist_access.rs, playlist_visibility.rs,   *)
(* schema_playlists/).                                                     *)
(*                                                                         *)
(* Playlists share no state, so there is one, of one owner.  A handler is  *)
(* a chain of separate holds of the database, and the steps of one run     *)
(* between those of another: the row is read first, then the friendship,   *)
(* then one transaction writes.  The friendship is read twice by the code  *)
(* and once here: a friendship ended between the two gives Viewer where    *)
(* one step gives Editor or None, and Viewer may no more write than None.  *)
(* A title and a description are a change of nothing but the revision; a   *)
(* push arrives (LiveStream is about how).                                 *)
(***************************************************************************)
EXTENDS Integers, FiniteSets, Sequences

CONSTANTS
  Creator, Guests,       \* accounts
  Clients,             \* devices, each in at most one handler
  AccountOf,           \* the account of every device
  Nobody,              \* no account
  MaxTracks,           \* bound: tracks added in all
  MaxEdits,            \* bound: edits in one batch (MAX_EDITS of the code)
  MaxCalls,            \* bound: handlers called once there is a playlist
  MaxTies              \* bound: friendships made, ended and blocked in all

ASSUME PlaylistsAssumption ==
  /\ Creator \notin Guests /\ Nobody \notin Guests \cup {Creator}
  /\ AccountOf \in [Clients -> Guests \cup {Creator}]
  /\ MaxTracks \in Nat /\ MaxEdits \in Nat \ {0}
  /\ MaxCalls \in Nat /\ MaxTies \in Nat

VARIABLES
  row,        \* the row of playlists
  track,      \* playlist_items: the position of every track and who added it
  followers,  \* playlist_followers
  tie,        \* friendships: where every guest stands with the owner
  req,        \* the handler every device is in
  copy,       \* what every device was last answered: a revision and an order
  kept,       \* history: devices answered the whole of it while their account
              \* followed, which it has done since
  told,       \* the highest revision pushed to every device
  made,       \* tracks added so far
  issued,     \* handlers called so far
  ties        \* friendships changed so far

playlistsVars ==
  <<row, track, followers, tie, req, copy, kept, told, made, issued, ties>>

Accounts == Guests \cup {Creator}
Tracks == 1..MaxTracks

(* EditAccess and PlaylistVisibility by their rank: nobody but the owner,  *)
(* the owner's friends, everyone.                                          *)
Levels == 0..2

NoRow == [state |-> "none", vis |-> 0, access |-> 0, rev |-> 0]
Live == row.state = "live"
Gone == [pos |-> -2, by |-> Nobody]
NoCopy == [rev |-> -1, order |-> <<>>]
NoCall == [op |-> "none", at |-> "idle", row |-> NoRow, tie |-> "none",
         base |-> NoCopy, want |-> 0, users |-> {}]

At(c, ops, step) == req[c].op \in ops /\ req[c].at = step
Go(c, r) == req' = [req EXCEPT ![c] = r]
(* A step that needs nothing of what was read before it. *)
Then(c, step) == Go(c, [NoCall EXCEPT !.op = req[c].op, !.at = step])
Finish(c) == Go(c, NoCall)
Mine(c) == AccountOf[c] = Creator

(***************************************************************************)
(* Who may do what.                                                        *)
(***************************************************************************)
(* EditAccess::clamped_to: nobody edits what they cannot open. *)
Clamped(access, vis) == IF vis < access THEN vis ELSE access

CanView(r, who, t) ==
  \/ who = Creator
  \/ r.vis = 2
  \/ r.vis = 1 /\ t = "accepted"

Role(r, who, t) ==
  LET access == Clamped(r.access, r.vis)
  IN IF who = Creator THEN "owner"
     ELSE IF ~CanView(r, who, t) THEN "none"
     ELSE IF access = 0 \/ t = "blocked" THEN "viewer"
     ELSE IF t = "accepted" THEN "editor"
     ELSE IF access = 2 THEN "contributor" ELSE "viewer"

CanAdd(role) == role \in {"owner", "editor", "contributor"}
CanRearrange(role) == role \in {"owner", "editor"}

Tie(c) == IF Mine(c) THEN "none" ELSE tie[AccountOf[c]]

(***************************************************************************)
(* The tracks.                                                             *)
(***************************************************************************)
HeldIn(items) == {i \in Tracks : items[i].pos # -2}
Held == HeldIn(track)
Lists(i, order) == \E k \in DOMAIN order : order[k] = i
(* item_ids: in order of position *)
InOrder(items, order) ==
  /\ \A i \in HeldIn(items) : Lists(i, order)
  /\ \A j, k \in DOMAIN order :
       j < k => items[order[j]].pos < items[order[k]].pos
OrderOf(items) ==
  CHOOSE order \in [1..Cardinality(HeldIn(items)) -> HeldIn(items)] :
    InOrder(items, order)
Order == OrderOf(track)

IndexOf(i, order) == CHOOSE k \in DOMAIN order : order[k] = i

(* renumber: positions 0, 1, 2... of a list, with who added each track *)
Renumbered(order, by) ==
  [i \in Tracks |->
     IF Lists(i, order) THEN [pos |-> IndexOf(i, order) - 1, by |-> by[i]]
                        ELSE Gone]
Adders == [i \in Tracks |-> track[i].by]

NextPosition ==
  IF Held = {} THEN 0
  ELSE 1 + (CHOOSE p \in {track[i].pos : i \in Held} :
              \A i \in Held : track[i].pos <= p)

Dropped(order, i) ==
  [k \in 1..(Len(order) - 1) |-> order[IF k < IndexOf(i, order) THEN k ELSE k + 1]]
(* place: after a track, or first or last when none is named *)
Inserted(order, i, n) ==
  [k \in 1..(Len(order) + 1) |->
     IF k = n + 1 THEN i ELSE order[IF k <= n THEN k ELSE k - 1]]
Place(order, i, after, atEnd) ==
  Inserted(order, i, IF after # 0 THEN IndexOf(after, order)
                     ELSE IF atEnd THEN Len(order) ELSE 0)

Edits ==
       [kind : {"add"}, item : {0}, after : {0} \cup Tracks]
  \cup [kind : {"remove"}, item : Tracks, after : {0}]
  \cup [kind : {"move"}, item : Tracks, after : {0} \cup Tracks]
Batches == UNION {[1..n -> Edits] : n \in 1..MaxEdits}

(* One edit of a batch, on the list so far; a batch that failed stays so. *)
Possible(role, who, s, e) ==
  /\ s.ok /\ (e.after # 0 => Lists(e.after, s.order))
  /\ \/ e.kind = "add" /\ s.made < MaxTracks
     \/ /\ e.kind = "remove" /\ Lists(e.item, s.order)
        /\ CanRearrange(role) \/ s.by[e.item] = who
     \/ /\ e.kind = "move" /\ Lists(e.item, s.order)
        /\ CanRearrange(role) /\ e.after # e.item
Edited(role, who, s, e) ==
  IF ~Possible(role, who, s, e) THEN [s EXCEPT !.ok = FALSE]
  ELSE CASE e.kind = "add" ->
              [s EXCEPT !.order = Place(s.order, s.made + 1, e.after, TRUE),
                        !.by[s.made + 1] = who, !.made = @ + 1]
         [] e.kind = "remove" ->
              [s EXCEPT !.order = Dropped(@, e.item), !.by[e.item] = Nobody]
         [] e.kind = "move" ->
              [s EXCEPT !.order = Place(Dropped(@, e.item), e.item, e.after, FALSE)]

AfterBatch(role, who, batch) ==
  LET run[n \in 0..Len(batch)] ==
        IF n = 0 THEN [order |-> Order, by |-> Adders, made |-> made, ok |-> TRUE]
        ELSE Edited(role, who, run[n - 1], batch[n])
  IN run[Len(batch)]

(***************************************************************************)
(* The steps handlers share.                                               *)
(***************************************************************************)
Begin(c, r) ==
  /\ req[c] = NoCall /\ issued < MaxCalls
  /\ issued' = issued + 1
  /\ Go(c, r)
Call(op, step, want) ==
  [NoCall EXCEPT !.op = op, !.at = step, !.want = want]

(* bump_revision, inside the transaction of the write *)
Bumped == [row EXCEPT !.rev = @ + 1]

(* get_playlist: the row, or an answer that there is none *)
Load(c, ops, step) ==
  /\ At(c, ops, "load")
  /\ IF Live
       THEN Go(c, [req[c] EXCEPT !.row = row, !.at = step]) ELSE Finish(c)
  /\ UNCHANGED <<row, track, followers, tie, copy, kept, told, made, issued, ties>>

Follows(c) == AccountOf[c] \in followers \cup {Creator}
(* The answer of a read: the row as loaded and the tracks as they are now. *)
AnswerItems(c) ==
  /\ At(c, {"open", "edit", "details", "follow"}, "items")
  /\ copy' = [copy EXCEPT ![c] = [rev |-> req[c].row.rev, order |-> Order]]
  /\ kept' = IF Follows(c) /\ \A d \in Clients : req[d].at # "fill"
               THEN kept \cup {c} ELSE kept \ {c}
  /\ Finish(c)
  /\ UNCHANGED <<row, track, followers, tie, told, made, issued, ties>>

Audience_Mutant == followers
(* audience: the followers, and the owner's own devices *)
Audience == followers \cup {Creator}

(* announce_change reads the playlist and its followers again, after the   *)
(* write, and pushes what the revision is by then.  An edit answers with   *)
(* the playlist as it now stands.                                          *)
Announce(c) ==
  /\ At(c, {"edit", "details", "visibility", "access", "add", "remove"},
        "announce")
  /\ told' = [d \in Clients |-> IF Live /\ AccountOf[d] \in Audience
                                 THEN row.rev ELSE told[d]]
  /\ IF req[c].op \in {"edit", "details"} THEN Then(c, "reload") ELSE Finish(c)
  /\ UNCHANGED <<row, track, followers, tie, copy, kept, made, issued, ties>>

Reload(c) ==
  /\ At(c, {"edit", "details"}, "reload")
  /\ IF Live THEN Go(c, [req[c] EXCEPT !.row.rev = row.rev, !.at = "items"])
             ELSE Finish(c)
  /\ UNCHANGED <<row, track, followers, tie, copy, kept, told, made, issued, ties>>

(***************************************************************************)
(* Making, reading and following.                                          *)
(***************************************************************************)
Create(c) ==
  /\ Mine(c) /\ row.state = "none"
  /\ \E vis \in Levels : row' = [NoRow EXCEPT !.state = "live", !.vis = vis]
  /\ Go(c, [NoCall EXCEPT !.op = "import", !.at = "fill"])
  /\ UNCHANGED <<track, followers, tie, copy, kept, told, made, issued, ties>>

(* import_external_playlist fills what it has just made, in a transaction  *)
(* of its own that fails when the playlist is gone, and announces nothing. *)
(* An import of no track is create_playlist.                               *)
Fill(c) ==
  /\ At(c, {"import"}, "fill")
  /\ IF Live /\ made < MaxTracks
       THEN /\ row' = Bumped
            /\ track' = [track EXCEPT ![made + 1] =
                           [pos |-> NextPosition, by |-> Creator]]
            /\ made' = made + 1
       ELSE UNCHANGED <<row, track, made>>
  /\ Finish(c)
  /\ UNCHANGED <<followers, tie, copy, kept, told, issued, ties>>

FillNothing(c) ==
  /\ At(c, {"import"}, "fill")
  /\ Finish(c)
  /\ UNCHANGED <<row, track, followers, tie, copy, kept, told, made, issued, ties>>

Read(c) ==
  /\ row.state # "none"
  /\ \E op \in {"open", "follow"} : Begin(c, Call(op, "load", 0))
  /\ UNCHANGED <<row, track, followers, tie, copy, kept, told, made, ties>>

(* can_view_playlist, of the row that was loaded *)
CheckView(c) ==
  /\ At(c, {"open", "follow"}, "check")
  /\ IF CanView(req[c].row, AccountOf[c], Tie(c))
       THEN Go(c, [req[c] EXCEPT !.row = [NoRow EXCEPT !.rev = req[c].row.rev],
                                 !.at = IF req[c].op = "follow" THEN "follow"
                                        ELSE "items"])
       ELSE Finish(c)
  /\ UNCHANGED <<row, track, followers, tie, copy, kept, told, made, issued, ties>>

(* The row of the follower goes in whatever happened since. *)
Follow(c) ==
  /\ At(c, {"follow"}, "follow")
  /\ followers' = followers \cup {AccountOf[c]}
  /\ Go(c, [req[c] EXCEPT !.at = "items"])
  /\ UNCHANGED <<row, track, tie, copy, kept, told, made, issued, ties>>

Unfollow(c) ==
  /\ req[c] = NoCall /\ issued < MaxCalls
  /\ AccountOf[c] \in followers
  /\ issued' = issued + 1
  /\ followers' = followers \ {AccountOf[c]}
  /\ kept' = {d \in kept : AccountOf[d] # AccountOf[c] \/ Mine(d)}
  /\ UNCHANGED <<row, track, tie, req, copy, told, made, ties>>

(***************************************************************************)
(* Edits that name the revision they were made against.                    *)
(***************************************************************************)
(* A device edits the copy it was last answered. *)
CallEdit(c) ==
  /\ copy[c] # NoCopy
  /\ \/ Begin(c, [Call("edit", "load", 0) EXCEPT !.base = copy[c]])
     \/ Mine(c) /\ Begin(c, [Call("details", "write", 0) EXCEPT !.base = copy[c]])
  /\ UNCHANGED <<row, track, followers, tie, copy, kept, told, made, ties>>

(* playlist_role: None and Viewer are refused *)
CheckRole(c) ==
  /\ At(c, {"edit"}, "check")
  /\ IF CanAdd(Role(req[c].row, AccountOf[c], Tie(c)))
       THEN Go(c, [req[c] EXCEPT !.tie = Tie(c), !.at = "write"])
       ELSE Finish(c)
  /\ UNCHANGED <<row, track, followers, tie, copy, kept, told, made, issued, ties>>

Stale(c) == row.rev # req[c].base.rev

(* The transaction of apply_playlist_edits: all of a batch, or none. *)
WriteEdits(c) ==
  /\ At(c, {"edit"}, "write")
  /\ Live /\ ~Stale(c)
  /\ LET who == AccountOf[c]
         role == Role(req[c].row, who, req[c].tie)
     IN \E batch \in Batches :
          LET out == AfterBatch(role, who, batch)
          IN /\ out.ok
             /\ track' = Renumbered(out.order, out.by)
             /\ made' = out.made
  /\ row' = Bumped
  /\ Then(c, "announce")
  /\ UNCHANGED <<followers, tie, copy, kept, told, issued, ties>>

(* update_playlist_details checks all it needs inside its transaction. *)
WriteDetails(c) ==
  /\ At(c, {"details"}, "write")
  /\ Live /\ ~Stale(c)
  /\ row' = Bumped
  /\ Then(c, "announce")
  /\ UNCHANGED <<track, followers, tie, copy, kept, told, made, issued, ties>>

(* Stale, gone, or a batch that is refused: nothing is written. *)
Refuse(c) ==
  /\ At(c, {"edit", "details"}, "write")
  /\ req[c].op = "edit" \/ ~Live \/ Stale(c)
  /\ Finish(c)
  /\ UNCHANGED <<row, track, followers, tie, copy, kept, told, made, issued, ties>>

(***************************************************************************)
(* What only the owner does.                                               *)
(***************************************************************************)
CallOwner(c) ==
  /\ Mine(c) /\ row.state # "none"
  /\ \/ \E vis \in Levels : Begin(c, Call("visibility", "write", vis))
     \/ \E access \in Levels : Begin(c, Call("access", "load", access))
     \/ Begin(c, Call("add", "load", 0))
     \/ \E i \in Tracks : i <= made /\ Begin(c, Call("remove", "load", i))
     \/ Begin(c, Call("delete", "audience", 0))
  /\ UNCHANGED <<row, track, followers, tie, copy, kept, told, made, ties>>

Narrowed_Mutant(vis) ==
  [row EXCEPT !.vis = vis, !.access = Clamped(@, vis)]
(* update_playlist_visibility narrows edit_access in the same transaction. *)
Narrowed(vis) ==
  [Bumped EXCEPT !.vis = vis, !.access = Clamped(@, vis)]

WriteVisibility(c) ==
  /\ At(c, {"visibility"}, "write")
  /\ IF Live
       THEN /\ row' = Narrowed(req[c].want)
            /\ Then(c, "announce")
       ELSE row' = row /\ Finish(c)
  /\ UNCHANGED <<track, followers, tie, copy, kept, told, made, issued, ties>>

(* update_playlist_edit_access clamps by the visibility it loaded before.  *)
(* The row gone, bump_revision fails and the transaction with it.          *)
WriteAccess(c) ==
  /\ At(c, {"access"}, "write")
  /\ IF Live
       THEN /\ row' = [Bumped EXCEPT
                         !.access = Clamped(req[c].want, req[c].row.vis)]
            /\ Then(c, "announce")
       ELSE row' = row /\ Finish(c)
  /\ UNCHANGED <<track, followers, tie, copy, kept, told, made, issued, ties>>

AddTrack(c) ==
  /\ At(c, {"add"}, "write")
  /\ IF Live /\ made < MaxTracks
       THEN /\ row' = Bumped
            /\ track' = [track EXCEPT ![made + 1] =
                           [pos |-> NextPosition, by |-> Creator]]
            /\ made' = made + 1
            /\ Then(c, "announce")
       ELSE UNCHANGED <<row, track, made>> /\ Finish(c)
  /\ UNCHANGED <<followers, tie, copy, kept, told, issued, ties>>

Without_Mutant(i) == [track EXCEPT ![i] = Gone]
(* remove_playlist_item: the rest moves up *)
Without(i) ==
  Renumbered(Dropped(Order, i), [Adders EXCEPT ![i] = Nobody])

RemoveTrack(c) ==
  /\ At(c, {"remove"}, "write")
  /\ IF req[c].want \in Held
       THEN /\ row' = Bumped
            /\ track' = Without(req[c].want)
            /\ Then(c, "announce")
       ELSE UNCHANGED <<row, track>> /\ Finish(c)
  /\ UNCHANGED <<followers, tie, copy, kept, told, made, issued, ties>>

(* The followers are read before the delete, which takes their rows. *)
ReadAudience(c) ==
  /\ At(c, {"delete"}, "audience")
  /\ Go(c, [req[c] EXCEPT !.users = Audience, !.at = "write"])
  /\ UNCHANGED <<row, track, followers, tie, copy, kept, told, made, issued, ties>>

(* A device that is told the playlist is gone drops its copy. *)
Delete(c) ==
  /\ At(c, {"delete"}, "write")
  /\ IF Live
       THEN /\ row' = [row EXCEPT !.state = "gone"]
            /\ track' = [i \in Tracks |-> Gone]
            /\ followers' = {}
            /\ Go(c, [req[c] EXCEPT !.at = "push"])
       ELSE UNCHANGED <<row, track, followers>> /\ Finish(c)
  /\ UNCHANGED <<tie, copy, kept, told, made, issued, ties>>

PushGone(c) ==
  /\ At(c, {"delete"}, "push")
  /\ copy' = [d \in Clients |->
                IF AccountOf[d] \in req[c].users THEN NoCopy ELSE copy[d]]
  /\ kept' = {d \in kept : AccountOf[d] \notin req[c].users}
  /\ Finish(c)
  /\ UNCHANGED <<row, track, followers, tie, told, made, issued, ties>>

(* Friendships, which Social is about. *)
Relate(g) ==
  /\ ties < MaxTies /\ ties' = ties + 1
  /\ \E t \in {"none", "accepted", "blocked"} \ {tie[g]} :
       tie' = [tie EXCEPT ![g] = t]
  /\ UNCHANGED <<row, track, followers, req, copy, kept, told, made, issued>>

PlaylistsInit ==
  /\ row = NoRow
  /\ track = [i \in Tracks |-> Gone]
  /\ followers = {}
  /\ tie \in [Guests -> {"none", "accepted"}]
  /\ req = [c \in Clients |-> NoCall]
  /\ copy = [c \in Clients |-> NoCopy]
  /\ kept = {} /\ told = [c \in Clients |-> -1]
  /\ made = 0 /\ issued = 0 /\ ties = 0

Handler(c) ==
  \/ Create(c) \/ Fill(c) \/ FillNothing(c) \/ Read(c) \/ CheckView(c) \/ Follow(c)
  \/ Unfollow(c) \/ AnswerItems(c)
  \/ Load(c, {"open", "follow", "edit"}, "check")
  \/ Load(c, {"access", "add", "remove"}, "write")
  \/ CallEdit(c) \/ CheckRole(c) \/ WriteEdits(c) \/ WriteDetails(c)
  \/ Refuse(c) \/ Announce(c) \/ Reload(c)
  \/ CallOwner(c) \/ WriteVisibility(c) \/ WriteAccess(c)
  \/ AddTrack(c) \/ RemoveTrack(c)
  \/ ReadAudience(c) \/ Delete(c) \/ PushGone(c)

PlaylistsNext == (\E c \in Clients : Handler(c)) \/ (\E g \in Guests : Relate(g))

PlaylistsSpec == PlaylistsInit /\ [][PlaylistsNext]_playlistsVars

(***************************************************************************)
(* Properties.                                                             *)
(***************************************************************************)
Rows == [state : {"none", "live", "gone"}, vis : Levels, access : Levels,
         rev : Nat]
Copies == [rev : Nat \cup {-1}, order : Seq(Tracks)]

(* The type of the state. *)
PlaylistsTypeOK ==
  /\ row \in Rows
  /\ track \in [Tracks -> [pos : {-2} \cup Nat, by : Accounts \cup {Nobody}]]
  /\ followers \subseteq Accounts
  /\ tie \in [Guests -> {"none", "accepted", "blocked"}]
  /\ \A c \in Clients :
       /\ req[c].row \in Rows /\ req[c].want \in 0..2 \cup Tracks
       /\ req[c].base \in Copies /\ req[c].users \subseteq Accounts
  /\ copy \in [Clients -> Copies] /\ kept \subseteq Clients
  /\ told \in [Clients -> Nat \cup {-1}]
  /\ made \in 0..MaxTracks /\ issued \in 0..MaxCalls /\ ties \in 0..MaxTies

(* Positions have no gaps and no duplicates whatever mix of appends,       *)
(* removals and batches wrote them (db_playlist_items.rs), and a playlist  *)
(* that is gone has left no track behind, however late a write came.       *)
PositionsAreDense ==
  /\ {track[i].pos : i \in Held} = 0..(Cardinality(Held) - 1)
  /\ ~Live => Held = {}

(* Two people editing at once never silently undo each other: an edit that *)
(* commits was made on a copy whose order is the order it finds, although  *)
(* the row and the tracks of that copy were read one after the other       *)
(* (db_playlist_edits.rs).                                                 *)
EditsSeeWhatTheyChange ==
  [][\A c \in Clients :
       (/\ At(c, {"edit", "details"}, "write")
        /\ req'[c].at = "announce") => req[c].base.order = Order]_playlistsVars

(* The role an edit was given, from a row read before the transaction, is  *)
(* the role the row gives when the edit commits: opening or narrowing the  *)
(* playlist in between makes the edit stale.  Only the friendship may be   *)
(* older (db_playlist_edits.rs, playlist_access.rs).                       *)
EditsAreAllowedWhenMade ==
  [][\A c \in Clients :
       (At(c, {"edit"}, "write") /\ req'[c].at = "announce") =>
          LET who == AccountOf[c]
          IN /\ CanAdd(Role(row, who, req[c].tie))
             /\ Role(row, who, req[c].tie)
                  = Role(req[c].row, who, req[c].tie)]_playlistsVars

(* Whoever keeps a live copy learns that it is behind: once no write has   *)
(* still to announce itself, a follower whose tracks are not the           *)
(* playlist's was told of a later revision than its copy has               *)
(* (schema_playlists/notify.rs, follow.rs).  An import announces nothing:  *)
(* a copy taken before it has filled the playlist is left out, and so is   *)
(* one taken before its account followed, on whichever of its devices: a   *)
(* device that hears of a follow takes another (announce_follow).          *)
Announced == \A c \in Clients : req[c].at # "announce"
FollowersKnowWhenBehind ==
  Live /\ Announced =>
    \A c \in kept : copy[c].order # Order => told[c] > copy[c].rev

(* A playlist is one list whatever crosses in writing it: its state is     *)
(* well formed and its positions are dense (db_playlist_items.rs).         *)
PlaylistIsOneList == PlaylistsTypeOK /\ PositionsAreDense

(* An edit is only ever made of what its device saw and by who may make it *)
(* (db_playlist_edits.rs, playlist_access.rs).                             *)
EditsAreSound == EditsSeeWhatTheyChange /\ EditsAreAllowedWhenMade
=============================================================================
