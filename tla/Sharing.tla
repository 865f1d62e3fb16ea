------------------------------ MODULE Sharing ------------------------------
(***************************************************************************)
(* What accounts hand out and hand over.  Links anyone may open: short     *)
(* links that forward to a target, kept one per target and only as long as *)
(* they are used, and ephemeral shares that end at a deadline (db/links.rs,*)
(* db/shares.rs, db_short_links.rs, schema/links.rs, listen/, share.rs).   *)
(* Drops: a track handed to a friend, with a note sealed once per device   *)
(* of theirs (db_drops/, schema_drops.rs).  And what takes both away:      *)
(* sweeper.rs, db/retention.rs, db/erasure.rs.                             *)
(*                                                                         *)
(* Every handler is a chain of holds of the database and the steps of one  *)
(* run between those of another.  One clock serves the periods of the      *)
(* code, a month, a year, an hour: they are constants, and only their      *)
(* order matters.  A handler sees at most one tick.  An id of 7 random     *)
(* characters is never that of a live link; it may be that of a deleted    *)
(* one.  made, last_clicked_at and last_shared_at only ever take the       *)
(* current time, so their latest is one field, `used`.  Titles, notes and  *)
(* urls are left out.                                                      *)
(***************************************************************************)
EXTENDS Integers, FiniteSets

CONSTANTS
  Accounts, Clients,   \* accounts, and devices, each in at most one handler
  AccountOf,           \* the account of every device
  Nobody,              \* no account
  Ids,                 \* ids of links and tokens of shares
  Targets, Listed,     \* what links forward to; those on a default host
  IdleDays,            \* a link unused for longer is deleted
  TombstoneDays,       \* a deleted link is remembered this long
  Ttl,                 \* the lifetime of a link asked for with a deadline
  Window, MaxPerWindow,\* drops to one account in one window
  Copies,              \* sealed copies of a note
  MaxNow,              \* bound: ticks of the clock
  MaxDrops,            \* bound: drops in all
  Budgets              \* bounds: how many calls about links, calls about
                       \* drops, calls about the rest and crashes a
                       \* behaviour has; it is given one of these

Parts == {"links", "drops", "rest", "crashes"}

ASSUME SharingAssumption ==
  /\ AccountOf \in [Clients -> Accounts] /\ Nobody \notin Accounts
  /\ Listed \subseteq Targets
  /\ IdleDays \in Nat \ {0} /\ TombstoneDays \in Nat /\ Ttl \in Nat
  /\ Window \in Nat /\ MaxPerWindow \in Nat \ {0} /\ Copies \in Nat
  /\ MaxNow \in Nat /\ MaxDrops \in Nat
  /\ IsFiniteSet(Clients) /\ IsFiniteSet(Ids)
  /\ Budgets \subseteq [Parts -> Nat]

VARIABLES
  now,        \* the clock
  exists,     \* the accounts there are
  friends,    \* friendships: pairs, both ways
  switch,     \* Feature::ShareLinks
  forwarding, \* accounts whose settings allow the hosts not on the list
  links,      \* short_links and ephemeral_shares
  retired,    \* retired_short_links: when every id was, -1 for never
  drops,      \* track_drops, with how many copies of the note each has
  req,        \* the handler every device is in
  shown,      \* the drops every device was last answered, and who read them
  pass,       \* when the pass the sweeper is in began, -1 for none
  promised,   \* history: when every id was last handed to who shared it
  withdrawn,  \* history: ids their owner, a deadline or an erasure ended
  late,       \* history: handlers under way when every account was erased
  left        \* what is left of the budget

vars == <<now, exists, friends, switch, forwarding, links, retired, drops,
          req, shown, pass, promised, withdrawn, late, left>>
tables == <<exists, friends, switch, forwarding, links, retired, drops>>
history == <<promised, withdrawn, late>>

Never == -1
Idle == [op |-> "none", at |-> "idle", id |-> Nobody, target |-> Nobody,
         bounded |-> FALSE, to |-> Nobody, n |-> 0, since |-> 0]

At(c, ops, step) == req[c].op \in ops /\ req[c].at = step
Go(c, r) == req' = [req EXCEPT ![c] = r]
Then(c, step) == Go(c, [req[c] EXCEPT !.at = step])
Finish(c) == Go(c, Idle)
Me(c) == AccountOf[c]
(* authorize, as the handler starts: a token of an erased account is none *)
Spend(part) == left[part] > 0 /\ left' = [left EXCEPT ![part] = @ - 1]
Begin(c, part, r) ==
  /\ req[c] = Idle /\ Me(c) \in exists /\ Spend(part)
  /\ Go(c, [r EXCEPT !.since = now])
  /\ UNCHANGED <<now, tables, shown, pass, history>>

(***************************************************************************)
(* Links.                                                                  *)
(***************************************************************************)
NoLink == [kind |-> "none", owner |-> Nobody, target |-> Nobody,
           made |-> 0, used |-> 0, until |-> Never]
Live(i) == links[i].kind # "none"

(* get_short_link, get_ephemeral_share: a deadline is enforced at the read *)
Readable(i, kind) ==
  /\ links[i].kind = kind
  /\ links[i].until = Never \/ links[i].until > now

CallShare(c) ==
  \E t \in Targets, b \in BOOLEAN, kind \in {"short", "ephemeral"} :
    /\ kind = "ephemeral" => switch /\ b
    /\ Begin(c, "links", [Idle EXCEPT !.op = kind, !.target = t, !.bounded = b,
                   !.at = IF b THEN "mint" ELSE "reuse"])

(* reuse_short_link: the newest open-ended link to the target is used *)
Reusable(who, t) ==
  {i \in Ids : links[i].kind = "short" /\ links[i].owner = who
                 /\ links[i].target = t /\ links[i].until = Never}
Newest(ids) == {i \in ids : \A j \in ids : links[j].made <= links[i].made}
Reuse(c) ==
  /\ At(c, {"short"}, "reuse")
  /\ \/ /\ Reusable(Me(c), req[c].target) = {}
        /\ Then(c, "mint") /\ UNCHANGED links
     \/ \E i \in Newest(Reusable(Me(c), req[c].target)) :
          /\ links' = [links EXCEPT ![i].used = now]
          /\ Go(c, [req[c] EXCEPT !.at = "answer", !.id = i])
  /\ UNCHANGED <<now, exists, friends, switch, forwarding, retired, drops,
                 shown, pass, history, left>>

(* create_short_link, create_ephemeral_share: a row of its own; the id of  *)
(* a deleted link is a live one now                                        *)
Minted(c) ==
  [kind |-> req[c].op, owner |-> Me(c), target |-> req[c].target, made |-> now,
   used |-> now, until |-> IF req[c].bounded THEN now + Ttl ELSE Never]
Revived(i, kind) ==
  IF kind = "short" THEN [retired EXCEPT ![i] = Never] ELSE retired
Mint(c) ==
  /\ At(c, {"short", "ephemeral"}, "mint")
  /\ \E i \in {j \in Ids : ~Live(j)} :
       /\ links' = [links EXCEPT ![i] = Minted(c)]
       /\ retired' = Revived(i, req[c].op)
       /\ promised' = [promised EXCEPT ![i] = Never]
       /\ withdrawn' = withdrawn \ {i}
       /\ Go(c, [req[c] EXCEPT !.at = "answer", !.id = i])
  /\ UNCHANGED <<now, exists, friends, switch, forwarding, drops, shown,
                 pass, late, left>>

(* set_short_link_preview, of a row that may be gone, and the answer *)
HandOut(c) ==
  /\ At(c, {"short", "ephemeral"}, "answer")
  /\ promised' = [promised EXCEPT ![req[c].id] = now]
  /\ Finish(c)
  /\ UNCHANGED <<now, tables, shown, pass, withdrawn, late, left>>

(* list_links, and delete_link: scoped to the owner in the statement; no   *)
(* tombstone                                                               *)
OwnLinks(who) == {i \in Ids : Live(i) /\ links[i].owner = who}
DeleteLink(c) ==
  /\ req[c] = Idle /\ Me(c) \in exists /\ Spend("links")
  /\ \E i \in OwnLinks(Me(c)) :
       /\ links' = [links EXCEPT ![i] = NoLink]
       /\ withdrawn' = withdrawn \cup {i}
  /\ UNCHANGED <<now, exists, friends, switch, forwarding, retired, drops,
                 req, shown, pass, promised, late>>

(* /listen?id= and /share/<token>: a stranger's, with no token, who was    *)
(* sent the address                                                        *)
SaysRetired(i) == retired[i] # Never
Open(c) ==
  \E i \in {j \in Ids : Live(j) \/ SaysRetired(j)}, kind \in {"visit", "play"} :
    /\ Live(i) => (kind = "visit") = (links[i].kind = "short")
    /\ req[c] = Idle /\ Spend("links")
    /\ kind = "play" => switch
    /\ Go(c, [Idle EXCEPT !.op = kind, !.at = "lookup", !.id = i,
                          !.since = now])
    /\ UNCHANGED <<now, tables, shown, pass, history>>

(* The host of a link's target is on the list, or in somebody's settings. *)
Allowed(t) == t \in Listed \/ forwarding # {}
LookupLink(c) ==
  /\ At(c, {"visit"}, "lookup")
  /\ Go(c, IF Readable(req[c].id, "short")
             THEN [req[c] EXCEPT !.at = "host",
                                 !.target = links[req[c].id].target]
             ELSE [req[c] EXCEPT !.at = "refused"])
  /\ UNCHANGED <<now, tables, shown, pass, history, left>>
PlayShare(c) ==
  /\ At(c, {"play"}, "lookup")
  /\ IF Readable(req[c].id, "ephemeral") THEN Then(c, "click") ELSE Finish(c)
  /\ UNCHANGED <<now, tables, shown, pass, history, left>>
CheckHost(c) ==
  /\ At(c, {"visit"}, "host")
  /\ Then(c, IF Allowed(req[c].target) THEN "click" ELSE "refused")
  /\ UNCHANGED <<now, tables, shown, pass, history, left>>
(* record_short_link_click, record_share_click: a hold of their own, and a *)
(* click is a use.  The page goes out whatever became of the row.          *)
Click(c) ==
  /\ At(c, {"visit", "play"}, "click")
  /\ links' = IF Live(req[c].id) THEN [links EXCEPT ![req[c].id].used = now]
                                 ELSE links
  /\ Finish(c)
  /\ UNCHANGED <<now, exists, friends, switch, forwarding, retired, drops,
                 shown, pass, history, left>>
(* short_link_retired: the page that says so, or the plain refusal *)
Refuse(c) ==
  /\ At(c, {"visit"}, "refused")
  /\ Finish(c)
  /\ UNCHANGED <<now, tables, shown, pass, history, left>>

(***************************************************************************)
(* A pass of the sweeper: unused links leave a tombstone; the expired ones *)
(* after them do not.                                                      *)
(***************************************************************************)
Unused(i) == links[i].kind = "short" /\ links[i].used < now - IdleDays
Expired(i) == links[i].until # Never /\ links[i].until < now
(* A bug: of an unused link that has a deadline too the name is not kept. *)
SweepIdle_Mutant ==
  /\ pass = Never /\ pass' = now /\ \E i \in Ids : Live(i) \/ retired[i] # Never
  /\ links' = [i \in Ids |-> IF Unused(i) THEN NoLink ELSE links[i]]
  /\ retired' = [i \in Ids |->
       IF Unused(i) /\ ~Expired(i) THEN now
       ELSE IF retired[i] < now - TombstoneDays THEN Never ELSE retired[i]]
  /\ UNCHANGED <<now, exists, friends, switch, forwarding, drops, req, shown,
                 history, left>>
SweepIdle ==
  /\ pass = Never /\ pass' = now /\ \E i \in Ids : Live(i) \/ retired[i] # Never
  /\ links' = [i \in Ids |-> IF Unused(i) THEN NoLink ELSE links[i]]
  /\ retired' = [i \in Ids |->
       IF Unused(i) THEN now
       ELSE IF retired[i] < now - TombstoneDays THEN Never ELSE retired[i]]
  /\ UNCHANGED <<now, exists, friends, switch, forwarding, drops, req, shown,
                 history, left>>
SweepExpired ==
  /\ pass # Never /\ pass' = Never
  /\ links' = [i \in Ids |-> IF Expired(i) THEN NoLink ELSE links[i]]
  /\ withdrawn' = withdrawn \cup {i \in Ids : Expired(i)}
  /\ UNCHANGED <<now, exists, friends, switch, forwarding, retired, drops,
                 req, shown, promised, late, left>>

(***************************************************************************)
(* Drops.                                                                  *)
(***************************************************************************)
NoDrop == [from |-> Nobody, to |-> Nobody, at |-> 0, copies |-> 0,
           read |-> Never, archived |-> FALSE, reaction |-> FALSE]
(* A row that was erased; its id is not used again. *)
GoneDrop == [NoDrop EXCEPT !.at = Never]
Sent == {d \in 1..MaxDrops : drops[d].from # Nobody}
SentTo(who, to, since) ==
  {d \in Sent : drops[d].from = who /\ drops[d].to = to /\ drops[d].at >= since}

(* dropTrack: not to oneself, then the friendship, then the limit *)
CallDrop(c) ==
  \E to \in Accounts \ {Me(c)} :
    Begin(c, "drops", [Idle EXCEPT !.op = "drop", !.at = "friends", !.to = to])
CheckFriends(c) ==
  /\ At(c, {"drop"}, "friends")
  /\ IF <<Me(c), req[c].to>> \in friends THEN Then(c, "limit") ELSE Finish(c)
  /\ UNCHANGED <<now, tables, shown, pass, history, left>>
CheckLimit(c) ==
  /\ At(c, {"drop"}, "limit")
  /\ IF Cardinality(SentTo(Me(c), req[c].to, now - Window)) >= MaxPerWindow
       THEN Finish(c) ELSE Then(c, "insert")
  /\ UNCHANGED <<now, tables, shown, pass, history, left>>

(* create_drop: the drop and then its sealed copies, in one hold and no    *)
(* transaction, so that the server may go down with some of them written   *)
Insert(c, d, copies) ==
  /\ At(c, {"drop"}, "insert")
  /\ drops[d] = NoDrop /\ \A e \in 1..(d - 1) : drops[e] # NoDrop
  /\ drops' = [drops EXCEPT ![d] =
       [NoDrop EXCEPT !.from = Me(c), !.to = req[c].to, !.at = now,
                      !.copies = copies]]
CreateDrop(c) ==
  \E d \in 1..MaxDrops :
    /\ Insert(c, d, Copies)
    /\ Go(c, [req[c] EXCEPT !.at = "back", !.n = d])
    /\ UNCHANGED <<now, exists, friends, switch, forwarding, links, retired,
                   shown, pass, history, left>>
Down ==
  /\ Spend("crashes")
  /\ req' = [c \in Clients |-> Idle] /\ pass' = Never
  /\ UNCHANGED <<now, exists, friends, switch, forwarding, links, retired,
                 shown, history>>
Crash == Down /\ UNCHANGED drops
CrashSealing ==
  \E c \in Clients, d \in 1..MaxDrops, k \in 0..(Copies - 1) :
    Insert(c, d, k) /\ Down

(* The payloads: whoever sent a drop is not told whether it was read. *)
ForRecipient(d) == [n |-> d, read |-> drops[d].read # Never]
ForSender(d) == [n |-> d, read |-> FALSE]
(* drop_for, and the push: refused when the row is gone again *)
ReadBack(c) ==
  /\ At(c, {"drop"}, "back")
  /\ shown' = IF drops[req[c].n].from = Me(c)
                THEN [shown EXCEPT ![c] = {ForSender(req[c].n)}] ELSE shown
  /\ Finish(c)
  /\ UNCHANGED <<now, tables, pass, history, left>>

(* One statement each: scoped to the recipient, the first read counts. *)
OwnDrop(c, d) == d \in Sent /\ drops[d].to = Me(c)
Receive(c) ==
  /\ req[c] = Idle /\ Me(c) \in exists /\ Spend("drops")
  /\ \E d \in 1..MaxDrops :
       /\ OwnDrop(c, d)
       /\ \/ drops[d].read = Never
               /\ drops' = [drops EXCEPT ![d].read = now]        \* mark_drop_read
          \/ drops' = [drops EXCEPT ![d].archived = TRUE]        \* archive_drop
          \/ drops' = [drops EXCEPT ![d].reaction = ~@]          \* react_to_drop
  /\ UNCHANGED <<now, exists, friends, switch, forwarding, links, retired,
                 req, shown, pass, history>>

Inbox(who) == {d \in Sent : drops[d].to = who /\ ~drops[d].archived}
Outbox(who) == {d \in Sent : drops[d].from = who}
Conversation(who) ==
  {IF drops[d].from = who THEN ForSender(d) ELSE ForRecipient(d) :
     d \in {e \in Sent : who \in {drops[e].from, drops[e].to}}}
Look(c) ==
  /\ req[c] = Idle /\ Me(c) \in exists /\ Spend("drops")
  /\ shown' \in {[shown EXCEPT ![c] = s] :
       s \in {{ForRecipient(d) : d \in Inbox(Me(c))},
              {ForSender(d) : d \in Outbox(Me(c))},
              Conversation(Me(c))}}
  /\ UNCHANGED <<now, tables, req, pass, history>>

(***************************************************************************)
(* Everything else: time, friendships, switches, settings, erasure.        *)
(***************************************************************************)
Tick ==
  /\ now < MaxNow /\ now' = now + 1
  /\ \A c \in Clients : req[c] = Idle \/ req[c].since = now
  /\ pass \in {Never, now}
  /\ UNCHANGED <<tables, req, shown, pass, history, left>>
Relate ==
  /\ Spend("rest")
  /\ \/ \E a, b \in exists : a # b /\ <<a, b>> \notin friends
          /\ friends' = friends \cup {<<a, b>>, <<b, a>>}
     \/ \E p \in friends : friends' = friends \ {p, <<p[2], p[1]>>}
  /\ UNCHANGED <<now, exists, switch, forwarding, links, retired, drops, req,
                 shown, pass, history>>
Configure ==
  /\ Spend("rest")
  /\ \/ switch' = ~switch /\ UNCHANGED forwarding
     \/ \E a \in exists : /\ forwarding' = IF a \in forwarding
                               THEN forwarding \ {a} ELSE forwarding \cup {a}
                          /\ UNCHANGED switch
  /\ UNCHANGED <<now, exists, friends, links, retired, drops, req, shown,
                 pass, history>>
(* erase_owned, erase_social: one transaction *)
OwnedBy_Mutant(a) == {i \in Ids : links[i].owner = a /\ links[i].kind = "short"}
OwnedBy(a) == {i \in Ids : links[i].owner = a}
Erase ==
  /\ Spend("rest")
  /\ \E a \in exists :
       /\ exists' = exists \ {a}
       /\ friends' = {p \in friends : a \notin {p[1], p[2]}}
       /\ forwarding' = forwarding \ {a}
       /\ links' = [i \in Ids |-> IF i \in OwnedBy(a) THEN NoLink ELSE links[i]]
       /\ drops' = [d \in 1..MaxDrops |->
            IF a \in {drops[d].from, drops[d].to} THEN GoneDrop ELSE drops[d]]
       /\ withdrawn' = withdrawn \cup OwnedBy(a)
       /\ late' = [late EXCEPT ![a] = Cardinality({c \in Clients : req[c] # Idle})]
  /\ UNCHANGED <<now, switch, retired, req, shown, pass, promised>>

Init ==
  /\ now = 0 /\ exists = Accounts /\ switch = TRUE
  /\ friends = {p \in Accounts \X Accounts : p[1] # p[2]}
  /\ forwarding = {} /\ links = [i \in Ids |-> NoLink]
  /\ retired = [i \in Ids |-> Never]
  /\ drops = [d \in 1..MaxDrops |-> NoDrop]
  /\ req = [c \in Clients |-> Idle] /\ shown = [c \in Clients |-> {}]
  /\ pass = Never /\ promised = [i \in Ids |-> Never] /\ withdrawn = {}
  /\ late = [a \in Accounts |-> 0]
  /\ left \in Budgets

Handle(c) ==
  \/ Reuse(c) \/ Mint(c) \/ HandOut(c) \/ LookupLink(c) \/ PlayShare(c) \/ CheckHost(c) \/ Click(c)
  \/ Refuse(c) \/ CheckFriends(c) \/ CheckLimit(c) \/ CreateDrop(c)
  \/ ReadBack(c)
Next ==
  \/ \E c \in Clients : Handle(c) \/ CallShare(c) \/ DeleteLink(c) \/ Open(c)
       \/ CallDrop(c) \/ Receive(c) \/ Look(c)
  \/ SweepIdle \/ SweepExpired \/ Tick \/ Relate \/ Configure \/ Erase
  \/ Crash \/ CrashSealing
Spec == Init /\ [][Next]_vars

(***************************************************************************)
(* Properties.                                                             *)
(***************************************************************************)
(* Every table holds the rows the code can put there, and every handler    *)
(* names a row, an account and a step there is.                            *)
Times == Never..MaxNow
Links == [kind : {"none", "short", "ephemeral"}, owner : Accounts \cup {Nobody},
          target : Targets \cup {Nobody}, made : Times, used : Times,
          until : Never..(MaxNow + Ttl)]
Drops == [from : Accounts \cup {Nobody}, to : Accounts \cup {Nobody},
          at : Times, copies : 0..Copies, read : Times, archived : BOOLEAN,
          reaction : BOOLEAN]
Steps == {"idle", "reuse", "mint", "answer", "lookup", "host", "click",
          "refused", "friends", "limit", "insert", "back"}
Requests == [op : {"none", "short", "ephemeral", "visit", "play", "drop"},
             at : Steps, id : Ids \cup {Nobody}, target : Targets \cup {Nobody},
             bounded : BOOLEAN, to : Accounts \cup {Nobody},
             n : 0..MaxDrops, since : Times]
TypeOK ==
  /\ now \in 0..MaxNow /\ exists \subseteq Accounts
  /\ friends \subseteq Accounts \X Accounts /\ switch \in BOOLEAN
  /\ forwarding \subseteq Accounts /\ links \in [Ids -> Links]
  /\ retired \in [Ids -> Times] /\ drops \in [1..MaxDrops -> Drops]
  /\ req \in [Clients -> Requests]
  /\ shown \in [Clients -> SUBSET [n : 1..MaxDrops, read : BOOLEAN]]
  /\ pass \in Times /\ promised \in [Ids -> Times]
  /\ withdrawn \subseteq Ids
  /\ late \in [Accounts -> 0..Cardinality(Clients)] /\ left \in [Parts -> Nat]

(* A link that was handed to somebody to send works for IdleDays from then *)
(* on, whatever the sweeper was doing while it was found or minted, unless *)
(* its owner, its deadline or an erasure ended it.                         *)
HandedOutLinksLast ==
  \A i \in Ids :
    (promised[i] # Never /\ i \notin withdrawn /\ now < promised[i] + IdleDays)
      => Live(i)

DevicesOf(a) == Cardinality({c \in Clients : AccountOf[c] = a})
(* One link per target, db_short_links.rs says; devices sharing it at the  *)
(* same moment each mint one, and no more than that ever pile up.          *)
LinksAreFew ==
  \A a \in Accounts, t \in Targets :
    Cardinality(Reusable(a, t)) <= DevicesOf(a)

(* A link that was already unused when the pass began never goes without   *)
(* leaving its id, though its deadline be past too (sweeper.rs:48).        *)
UnusedLinksLeaveTheirName ==
  [][\A i \in Ids :
       (pass' # pass /\ Live(i) /\ links[i].kind = "short" /\ ~Live(i)'
          /\ links[i].used < (IF pass = Never THEN now ELSE pass) - IdleDays)
         => retired'[i] # Never]_vars

(* However many devices send at once, one account fills another's inbox    *)
(* with no more than the limit and one for every other device.             *)
InboxIsBounded ==
  \A a \in exists, b \in exists :
    Cardinality(SentTo(a, b, now - Window)) <= MaxPerWindow + DevicesOf(a) - 1

(* Nothing an account is ever answered, push, list or conversation, says   *)
(* whether a drop it sent was read.                                        *)
SendersSeeNoReceipts ==
  \A c \in Clients : \A s \in shown[c] :
    s.read => drops[s.n].from # AccountOf[c]

(* Of an account that was erased nothing is left, in either direction, but *)
(* what handlers already past their checks still wrote, one row each.      *)
ErasureLeavesOnlyTheLate ==
  \A a \in Accounts \ exists :
    Cardinality({i \in Ids : links[i].owner = a})
      + Cardinality({d \in Sent : a \in {drops[d].from, drops[d].to}})
      <= late[a]

(* A link lasts as long as it was promised to whoever it was handed to    *)
(* (db_short_links.rs), and one that goes because nobody used it leaves    *)
(* its name (sweeper.rs:48), however sweeps and handlers cross.            *)
LinksKeepTheirWord == []HandedOutLinksLast /\ UnusedLinksLeaveTheirName

(* A race costs one row each and tells nobody anything: handlers that      *)
(* passed their checks together mint at most one link per device too many  *)
(* (db_short_links.rs:1-9), pass the hourly limit by at most one drop per  *)
(* device (schema_drops/limits.rs), and leave behind an erasure at most    *)
(* what they were already writing (db/erasure.rs:76-81); and senders never *)
(* see what was read.                                                      *)
RacesCostOneRowEach ==
  /\ TypeOK /\ LinksAreFew /\ InboxIsBounded /\ ErasureLeavesOnlyTheLate
  /\ SendersSeeNoReceipts
=============================================================================
