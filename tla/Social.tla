------------------------------- MODULE Social -------------------------------
(***************************************************************************)
(* The friend graph and what hangs off it: requests, codes, removal and    *)
(* blocks (db_social/friends.rs, schema_social/friends_mutation.rs), the   *)
(* now-playing switch and the listeners it cuts off                        *)
(* (schema_social/profile_mutation.rs), listen-along                       *)
(* (db_social/listen_along.rs, schema_social/sharing.rs) and the presence  *)
(* frames of a handoff with the copies sealed to friends                   *)
(* (schema_social/presence.rs, db_presence.rs).                            *)
(*                                                                         *)
(* A handler is several database calls.  Each call is one step, since each *)
(* takes the writer or a reader for itself; `req` is the handler every     *)
(* session is in, with what it has read.  A friendship is two rows, one    *)
(* from each side, and friend_state looks at both.                         *)
(*                                                                         *)
(* Accounts are active, discoverable and have one device each; the feature *)
(* switches are on; `shown` is show_now_playing without incognito, since   *)
(* either switch hides and cuts off alike.  Notifications that carry no    *)
(* playback are left out.                                                  *)
(***************************************************************************)
EXTENDS Integers, FiniteSets

CONSTANTS
  Users,
  Sessions, Account,   \* the clients, and the account each is signed in to
  Nobody,
  Codes,               \* friend codes that can be minted, each one once
  MaxRequests          \* bound: handlers called in all

ASSUME SocialAssumption ==
  /\ Account \in [Sessions -> Users]
  /\ Nobody \notin Users
  /\ MaxRequests \in Nat

VARIABLES
  edge,     \* friendships: the state of the row from one account to another
  code,     \* friend_codes, and the codes deleted from it
  listen,   \* listen_along: whom each account is tuned in to
  shown,    \* whether friends may see what an account is playing
  copies,   \* whom the sealed copies of each account's session are for
  req,      \* the handler each session is in
  issued,   \* handlers called so far
  seen      \* history: see Observed

vars == <<edge, code, listen, shown, copies, req, issued, seen>>

tables == <<edge, code, listen, shown, copies>>

----------------------------------------------------------------------------
EdgeStates == {"none", "pending", "accepted", "blocked"}

NoCode == [state |-> "absent", owner |-> Nobody, uses |-> 0]
Idle == [op |-> "none", at |-> "idle", peer |-> Nobody, todo |-> {},
         allowed |-> {}]

(* How two accounts stand with each other, looking at both rows. *)
StateOf(e, a, b) ==
  LET rows == {e[<<a, b>>], e[<<b, a>>]} IN
  IF "blocked" \in rows THEN "blocked"
  ELSE IF "accepted" \in rows THEN "accepted"
  ELSE IF "pending" \in rows THEN "pending"
  ELSE "none"

FriendState(a, b) == StateOf(edge, a, b)
AreFriends(a, b) == FriendState(a, b) = "accepted"

(* The list behind a friends page reads the rows of one side only. *)
Friends(a) == {b \in Users : edge[<<a, b>>] = "accepted"}

Listeners(h) == {l \in Users : listen[l] = h}

Visible(viewer, host) == AreFriends(viewer, host) /\ shown[host]

----------------------------------------------------------------------------
(* What each call of the database leaves in the tables *)

(* A bug: only a friendship keeps the row from being written over. *)
Requested_Mutant(e, from, to) ==
  IF e[<<from, to>>] # "accepted" THEN [e EXCEPT ![<<from, to>>] = "pending"]
  ELSE e

(* INSERT OR IGNORE: a row already there stands. *)
Requested(e, from, to) ==
  IF e[<<from, to>>] = "none" THEN [e EXCEPT ![<<from, to>>] = "pending"]
  ELSE e

(* A bug: the mirror row is not written. *)
Accepted_Mutant(e, to, from) ==
  IF e[<<from, to>>] = "pending" THEN [e EXCEPT ![<<from, to>>] = "accepted"]
  ELSE e

(* Both rows in one transaction, and only where a request stands. *)
Accepted(e, to, from) ==
  IF e[<<from, to>>] = "pending"
  THEN [e EXCEPT ![<<from, to>>] = "accepted", ![<<to, from>>] = "accepted"]
  ELSE e

Removed(e, a, b) == [e EXCEPT ![<<a, b>>] = "none", ![<<b, a>>] = "none"]

Forgotten(a, b) == [copies EXCEPT ![a] = @ \ {b}, ![b] = @ \ {a}]

Untuned(l) == [listen EXCEPT ![l] = Nobody]

(* The codes of an account are deleted together. *)
WithoutCodesOf(u) ==
  [c \in Codes |-> IF code[c].owner = u /\ code[c].state # "absent"
                   THEN [code[c] EXCEPT !.state = "deleted"] ELSE code[c]]

----------------------------------------------------------------------------
(* Handlers: Begin calls one, At is a step of the one the session is in.   *)
(* Observed is the last conjunct of every step and only keeps history:     *)
(* the pairs a block has ever stood between, the copies that were sealed   *)
(* to someone who was no friend, and, for a fan-out under way, who has     *)
(* been a friend of its account at any time since it began.                *)

Begin(s) ==
  /\ req[s] = Idle
  /\ issued < MaxRequests
  /\ issued' = issued + 1

At(s, ops, at) ==
  /\ req[s].op \in ops
  /\ req[s].at = at
  /\ UNCHANGED issued

Go(s, r) == req' = [req EXCEPT ![s] = r]
On(s, at) == Go(s, [req[s] EXCEPT !.at = at])
Finish(s) == Go(s, Idle)

Call(op, at, peer) == [Idle EXCEPT !.op = op, !.at = at, !.peer = peer]

MetSince(s) == IF req[s].op = "publish" THEN seen.met[s] ELSE {}
Observed == seen' =
  [blocked |-> {p \in Users \X Users : p \in seen.blocked
                  \/ "blocked" \in {edge'[p], edge'[<<p[2], p[1]>>]}},
   loose |-> {p \in Users \X Users : p[2] \in copies'[p[1]] /\
                (p \in seen.loose \/ (p[2] \notin copies[p[1]] /\
                 StateOf(edge', p[1], p[2]) # "accepted"))},
   met |-> [s \in Sessions |->
              IF req'[s].op # "publish" THEN {} ELSE MetSince(s) \cup
                {u \in Users : StateOf(edge', Account[s], u) = "accepted"}]]

----------------------------------------------------------------------------
(* Requests *)

(* The resolver's own look at the pair; a refusal changes nothing. *)
SendRequest(s, u) ==
  /\ Begin(s)
  /\ u # Account[s]
  /\ FriendState(Account[s], u) = "none"
  /\ Go(s, Call("send", "check", u))
  /\ UNCHANGED tables /\ Observed

(* Who asks whom: a code makes its owner the one who asked. *)
From(s) == IF req[s].op = "redeem" THEN req[s].peer ELSE Account[s]
To(s) == IF req[s].op = "redeem" THEN Account[s] ELSE req[s].peer

CheckEdge(s) ==
  /\ At(s, {"send", "redeem"}, "check")
  /\ \/ FriendState(From(s), To(s)) = "none" /\ On(s, "insert")
     \/ /\ FriendState(From(s), To(s)) # "none"
        /\ IF req[s].op = "redeem" THEN On(s, "accept") ELSE Finish(s)
  /\ UNCHANGED tables /\ Observed

InsertRequest(s) ==
  /\ At(s, {"send", "redeem"}, "insert")
  /\ edge' = Requested(edge, From(s), To(s))
  /\ IF req[s].op = "redeem" THEN On(s, "accept") ELSE Finish(s)
  /\ UNCHANGED <<code, listen, shown, copies>> /\ Observed

AcceptRequest(s, u) ==
  /\ Begin(s)
  /\ edge' = Accepted(edge, Account[s], u)
  /\ UNCHANGED <<req, code, listen, shown, copies>> /\ Observed

----------------------------------------------------------------------------
(* Codes *)

MintCode(s, c) ==
  /\ Begin(s)
  /\ code[c] = NoCode
  /\ code' = [WithoutCodesOf(Account[s]) EXCEPT
                ![c] = [state |-> "live", owner |-> Account[s], uses |-> 0]]
  /\ UNCHANGED <<req, edge, listen, shown, copies>> /\ Observed

RevokeCodes(s) ==
  /\ Begin(s)
  /\ code' = WithoutCodesOf(Account[s])
  /\ UNCHANGED <<req, edge, listen, shown, copies>> /\ Observed

(* Unused and not expired. *)
Claimable(c) == code[c].state = "live" /\ code[c].uses = 0

(* Five minutes pass. *)
ExpireCode(c) ==
  /\ Claimable(c)
  /\ code' = [code EXCEPT ![c].state = "expired"]
  /\ UNCHANGED <<req, issued, edge, listen, shown, copies>>
  /\ Observed

(* The claim is one transaction.  One's own code is spent for nothing. *)
RedeemCode(s, c) ==
  /\ Begin(s)
  /\ Claimable(c)
  /\ code' = [code EXCEPT ![c].uses = @ + 1]
  /\ IF code[c].owner = Account[s] THEN UNCHANGED req
     ELSE Go(s, Call("redeem", "blocked", code[c].owner))
  /\ UNCHANGED <<edge, listen, shown, copies>> /\ Observed

CheckBlocked(s) ==
  /\ At(s, {"redeem"}, "blocked")
  /\ IF FriendState(Account[s], req[s].peer) = "blocked"
     THEN Finish(s) ELSE On(s, "check")
  /\ UNCHANGED tables /\ Observed

AcceptByCode(s) ==
  /\ At(s, {"redeem"}, "accept")
  /\ edge' = Accepted(edge, To(s), From(s))
  /\ Finish(s)
  /\ UNCHANGED <<code, listen, shown, copies>> /\ Observed

----------------------------------------------------------------------------
(* Removal and blocks *)

(* Both tune the two accounts out of whatever they follow, then part them. *)
Part(s, op, u) ==
  /\ Begin(s)
  /\ listen' = Untuned(Account[s])
  /\ Go(s, Call(op, "untune", u))
  /\ UNCHANGED <<edge, code, shown, copies>> /\ Observed

RemoveFriend(s, u) == Part(s, "remove", u)
BlockUser(s, u) == Part(s, "block", u)

UntunePeer(s) ==
  /\ At(s, {"remove", "block"}, "untune")
  /\ listen' = Untuned(req[s].peer)
  /\ IF req[s].op = "block" /\ req[s].peer = Account[s]
     THEN Finish(s) ELSE On(s, "part")
  /\ UNCHANGED <<edge, code, shown, copies>> /\ Observed

(* Rows and copies go under one hold of the writer. *)
RemoveRows(s) ==
  /\ At(s, {"remove", "block"}, "part")
  /\ edge' = Removed(edge, Account[s], req[s].peer)
  /\ copies' = Forgotten(Account[s], req[s].peer)
  /\ IF req[s].op = "block" THEN On(s, "block") ELSE Finish(s)
  /\ UNCHANGED <<code, listen, shown>> /\ Observed

(* INSERT OR REPLACE, after the writer has been let go. *)
InsertBlock(s) ==
  /\ At(s, {"block"}, "block")
  /\ edge' = [edge EXCEPT ![<<Account[s], req[s].peer>>] = "blocked"]
  /\ Finish(s)
  /\ UNCHANGED <<code, listen, shown, copies>> /\ Observed

UnblockUser(s, u) ==
  /\ Begin(s)
  /\ edge' = IF edge[<<Account[s], u>>] = "blocked"
             THEN [edge EXCEPT ![<<Account[s], u>>] = "none"] ELSE edge
  /\ UNCHANGED <<req, code, listen, shown, copies>> /\ Observed

----------------------------------------------------------------------------
(* Listen-along *)

StartListenAlong(s, h) ==
  /\ Begin(s)
  /\ h # Account[s]
  /\ Visible(Account[s], h)
  /\ Go(s, Call("listen", "tune", h))
  /\ UNCHANGED tables /\ Observed

TuneIn(s) ==
  /\ At(s, {"listen"}, "tune")
  /\ listen' = [listen EXCEPT ![Account[s]] = req[s].peer]
  /\ Finish(s)
  /\ UNCHANGED <<edge, code, shown, copies>> /\ Observed

StopListenAlong(s) ==
  /\ Begin(s)
  /\ listen' = Untuned(Account[s])
  /\ UNCHANGED <<req, edge, code, shown, copies>> /\ Observed

(* Asking for one's own session ends it when the host is out of sight. *)
AskSession(s) ==
  /\ Begin(s)
  /\ listen[Account[s]] # Nobody
  /\ Go(s, Call("session", "verify", listen[Account[s]]))
  /\ UNCHANGED tables /\ Observed

VerifySession(s) ==
  /\ At(s, {"session"}, "verify")
  /\ IF Visible(Account[s], req[s].peer) THEN Finish(s) ELSE On(s, "drop")
  /\ UNCHANGED tables /\ Observed

DropSession(s) ==
  /\ At(s, {"session"}, "drop")
  /\ listen' = Untuned(Account[s])
  /\ Finish(s)
  /\ UNCHANGED <<edge, code, shown, copies>> /\ Observed

----------------------------------------------------------------------------
(* The switch, and a report of what is playing *)

Show(s) ==
  /\ Begin(s)
  /\ shown' = [shown EXCEPT ![Account[s]] = TRUE]
  /\ UNCHANGED <<req, edge, code, listen, copies>> /\ Observed

Hide(s) ==
  /\ Begin(s)
  /\ shown' = [shown EXCEPT ![Account[s]] = FALSE]
  /\ Go(s, Call("hide", "rows", Nobody))
  /\ UNCHANGED <<edge, code, listen, copies>> /\ Observed

(* The other switches come with this one as it was when they were read. *)
SetOther(s) ==
  /\ Begin(s)
  /\ Go(s, Call("visibility", IF shown[Account[s]] THEN "on" ELSE "off",
               Nobody))
  /\ UNCHANGED tables /\ Observed

KeepShown(s) ==
  /\ At(s, {"visibility"}, "on")
  /\ shown' = [shown EXCEPT ![Account[s]] = TRUE]
  /\ Finish(s)
  /\ UNCHANGED <<edge, code, listen, copies>> /\ Observed

KeepHidden(s) ==
  /\ At(s, {"visibility"}, "off")
  /\ shown' = [shown EXCEPT ![Account[s]] = FALSE]
  /\ Go(s, Call("hide", "rows", Nobody))
  /\ UNCHANGED <<edge, code, listen, copies>> /\ Observed

(* A heartbeat leaves the copies; anything else replaces them wholesale,   *)
(* by the friends its client knows of.                                     *)
UpdateHandoff(s) ==
  /\ Begin(s)
  /\ \/ UNCHANGED copies
     \/ \E to \in SUBSET (Users \ {Account[s]}) :
          copies' = [copies EXCEPT ![Account[s]] = to]
  /\ Go(s, Call("publish", "friends", Nobody))
  /\ UNCHANGED <<edge, code, listen, shown>> /\ Observed

FriendsToTell(u) == IF shown[u] THEN Friends(u) ELSE {}

FanOut(s) ==
  /\ At(s, {"publish"}, "friends")
  /\ IF FriendsToTell(Account[s]) = {} THEN On(s, "rows")
     ELSE Go(s, [req[s] EXCEPT !.at = "tell",
                               !.todo = FriendsToTell(Account[s])])
  /\ UNCHANGED tables /\ Observed

TellFriend(s, u) ==
  /\ At(s, {"publish"}, "tell")
  /\ u \in req[s].todo
  /\ Go(s, [req[s] EXCEPT !.todo = @ \ {u},
                          !.at = IF req[s].todo = {u} THEN "rows" ELSE "tell"])
  /\ UNCHANGED tables /\ Observed

(* listeners_of: the rows first, then the friendship with each. *)
ReadListeners(s) ==
  /\ At(s, {"publish", "hide"}, "rows")
  /\ IF Listeners(Account[s]) = {} THEN Finish(s)
     ELSE Go(s, [req[s] EXCEPT !.at = "sift", !.todo = Listeners(Account[s])])
  /\ UNCHANGED tables /\ Observed

(* A bug: the row alone decides. *)
MayListen_Mutant(h, l) == TRUE

MayListen(h, l) == AreFriends(h, l)

Sift(s, l) ==
  /\ At(s, {"publish", "hide"}, "sift")
  /\ l \in req[s].todo
  /\ LET kept == IF MayListen(Account[s], l) THEN req[s].allowed \cup {l}
                 ELSE req[s].allowed
         left == req[s].todo \ {l}
     IN IF left = {} /\ kept = {} THEN Finish(s)
        ELSE Go(s, [req[s] EXCEPT !.todo = left, !.allowed = kept,
                      !.at = IF left = {} THEN "reach" ELSE "sift"])
  /\ UNCHANGED tables /\ Observed

Reached(s, l) ==
  IF req[s].allowed = {l} THEN Finish(s)
  ELSE Go(s, [req[s] EXCEPT !.allowed = @ \ {l}])

CutListener(s, l) ==
  /\ At(s, {"hide"}, "reach")
  /\ l \in req[s].allowed
  /\ listen' = Untuned(l)
  /\ Reached(s, l)
  /\ UNCHANGED <<edge, code, shown, copies>> /\ Observed

FeedListener(s, l) ==
  /\ At(s, {"publish"}, "reach")
  /\ l \in req[s].allowed
  /\ Reached(s, l)
  /\ UNCHANGED tables /\ Observed

----------------------------------------------------------------------------
(* The process stops: the tables stay, the handlers are gone. *)
Restart ==
  /\ \E s \in Sessions : req[s] # Idle
  /\ req' = [s \in Sessions |-> Idle]
  /\ UNCHANGED <<issued, edge, code, listen, shown, copies>>
  /\ Observed

Next ==
  \/ \E s \in Sessions, u \in Users : SendRequest(s, u)
  \/ \E s \in Sessions : CheckEdge(s)
  \/ \E s \in Sessions : InsertRequest(s)
  \/ \E s \in Sessions, u \in Users : AcceptRequest(s, u)
  \/ \E s \in Sessions, c \in Codes : MintCode(s, c)
  \/ \E s \in Sessions : RevokeCodes(s)
  \/ \E c \in Codes : ExpireCode(c)
  \/ \E s \in Sessions, c \in Codes : RedeemCode(s, c)
  \/ \E s \in Sessions : CheckBlocked(s)
  \/ \E s \in Sessions : AcceptByCode(s)
  \/ \E s \in Sessions, u \in Users : RemoveFriend(s, u)
  \/ \E s \in Sessions, u \in Users : BlockUser(s, u)
  \/ \E s \in Sessions : UntunePeer(s)
  \/ \E s \in Sessions : RemoveRows(s)
  \/ \E s \in Sessions : InsertBlock(s)
  \/ \E s \in Sessions, u \in Users : UnblockUser(s, u)
  \/ \E s \in Sessions, u \in Users : StartListenAlong(s, u)
  \/ \E s \in Sessions : TuneIn(s)
  \/ \E s \in Sessions : StopListenAlong(s)
  \/ \E s \in Sessions : AskSession(s)
  \/ \E s \in Sessions : VerifySession(s)
  \/ \E s \in Sessions : DropSession(s)
  \/ \E s \in Sessions : Show(s)
  \/ \E s \in Sessions : Hide(s)
  \/ \E s \in Sessions : SetOther(s)
  \/ \E s \in Sessions : KeepShown(s)
  \/ \E s \in Sessions : KeepHidden(s)
  \/ \E s \in Sessions : UpdateHandoff(s)
  \/ \E s \in Sessions : FanOut(s)
  \/ \E s \in Sessions, u \in Users : TellFriend(s, u)
  \/ \E s \in Sessions : ReadListeners(s)
  \/ \E s \in Sessions, u \in Users : Sift(s, u)
  \/ \E s \in Sessions, u \in Users : CutListener(s, u)
  \/ \E s \in Sessions, u \in Users : FeedListener(s, u)
  \/ Restart

(* Any friendships may stand when the run begins. *)
Init ==
  /\ \E F \in SUBSET {{p[1], p[2]} : p \in {q \in Users \X Users : q[1] # q[2]}} :
       edge = [p \in Users \X Users |->
                 IF {p[1], p[2]} \in F THEN "accepted" ELSE "none"]
  /\ code = [c \in Codes |-> NoCode]
  /\ listen = [u \in Users |-> Nobody]
  /\ shown = [u \in Users |-> TRUE]
  /\ copies = [u \in Users |-> {}]
  /\ req = [s \in Sessions |-> Idle]
  /\ issued = 0
  /\ seen = [blocked |-> {}, loose |-> {}, met |-> [s \in Sessions |-> {}]]

Spec == Init /\ [][Next]_vars

----------------------------------------------------------------------------
Ops == {"none", "send", "redeem", "remove", "block", "listen", "session",
        "hide", "visibility", "publish"}

Aimed == {"send", "redeem", "remove", "block", "listen"}

Steps == {"idle", "check", "insert", "blocked", "accept", "untune", "part",
          "block", "tune", "verify", "drop", "rows", "friends", "tell", "sift",
          "reach", "on", "off"}

Someone == Users \cup {Nobody}

Requests == [op : Ops, at : Steps, peer : Someone, todo : SUBSET Users,
             allowed : SUBSET Users]

CodeRows == {NoCode} \cup
  [state : {"live", "expired", "deleted"}, owner : Users, uses : Nat]

(* The tables and handlers keep their types; a redemption, removal or      *)
(* block under way is always about some account.                           *)
TypeOK ==
  /\ edge \in [Users \X Users -> EdgeStates]
  /\ code \in [Codes -> CodeRows]
  /\ listen \in [Users -> Someone]
  /\ shown \in [Users -> BOOLEAN]
  /\ copies \in [Users -> SUBSET Users]
  /\ req \in [Sessions -> Requests]
  /\ \A s \in Sessions : req[s].op \in Aimed => req[s].peer \in Users
  /\ issued \in 0..MaxRequests
  /\ seen \in [blocked : SUBSET (Users \X Users),
               loose : SUBSET (Users \X Users),
               met : [Sessions -> SUBSET Users]]

(* A friendship is held from both sides, on every pair that no block has   *)
(* ever stood between (friends.rs:70-72): no order of requests, codes and  *)
(* removals leaves one account with a friend who does not have it back.    *)
FriendshipMutual ==
  \A a, b \in Users :
    edge[<<a, b>>] = "accepted" /\ <<a, b>> \notin seen.blocked
      => edge[<<b, a>>] = "accepted"

(* Nobody but the blocker talks past a block (friends_mutation.rs:126-130): *)
(* a request, an acceptance or a code of someone else, however long ago its *)
(* own checks were made, leaves every block standing.                       *)
BlockStands ==
  [][\A s \in Sessions :
       InsertRequest(s) \/ AcceptByCode(s)
         \/ (\E u \in Users : AcceptRequest(s, u))
       => \A a \in Users \ {Account[s]}, b \in Users :
            edge[<<a, b>>] = "blocked" => edge'[<<a, b>>] = "blocked"]_vars

(* A code is spent once, whoever scans it at the same moment, and an       *)
(* account has one live code at most (friends.rs:221-222, 257-258).        *)
CodesSpentOnce ==
  /\ \A c \in Codes : code[c].uses <= 1
  /\ \A c, d \in Codes :
       code[c].state = "live" /\ code[d].state = "live"
         /\ code[c].owner = code[d].owner => c = d

(* Sealed presence outlives nothing (friends.rs:104-110): a copy sealed to *)
(* a friend is there only as long as the friendship.  Not so for a copy    *)
(* sealed to someone who was no friend, which update_handoff accepts, nor  *)
(* between accounts one of which has blocked the other.                    *)
CopiesWithinFriendship ==
  \A a, b \in Users :
    b \in copies[a] /\ <<a, b>> \notin seen.loose \cup seen.blocked
      => AreFriends(a, b)

(* What an account plays reaches only those who have been its friends at   *)
(* some time since it reported it (presence.rs:200-203): a removal that    *)
(* was over before the report is never overtaken by a frame.  The presence *)
(* list reads one side's rows, so pairs with a block behind them are out.  *)
FramesToFriends ==
  [][\A s \in Sessions, u \in Users :
       /\ FeedListener(s, u) => u \in seen.met[s]
       /\ TellFriend(s, u) =>
            u \in seen.met[s] \/ <<Account[s], u>> \in seen.blocked]_vars

----------------------------------------------------------------------------

(* What the friend graph keeps whatever handlers cross: its state is well  *)
(* formed, friendships are held from both sides (friends.rs:70-72), sealed *)
(* copies go with them (friends.rs:104-110) and codes are spent once       *)
(* (friends.rs:221-222, 257-258).                                          *)
FriendGraphIsSound ==
  /\ TypeOK
  /\ FriendshipMutual /\ CopiesWithinFriendship
  /\ CodesSpentOnce
=============================================================================
