------------------------------ MODULE Devices ------------------------------
(***************************************************************************)
(* What the server keeps of the devices of an account: that they are there *)
(* and by what name (db/nodes.rs, schema/nodes.rs), where each can be      *)
(* reached and who was granted to reach it (ws/network.rs,                 *)
(* ws/handshake.rs), what each is playing, with copies of that sealed to   *)
(* devices of friends (db/handoff.rs, db_presence.rs, schema/handoff.rs),  *)
(* and which files it holds and is offered (db_library/holdings.rs,        *)
(* offers.rs).  A report of playback goes through all of them but the      *)
(* last: the row, its copies, the node, and a frame to each listener with  *)
(* an address and a grant (schema_social/presence.rs).                     *)
(*                                                                         *)
(* The devices' ends are part of the model: a device has at most one       *)
(* connection it uses, while the server may still have an older one, and   *)
(* its app forgets its grants when it is started again.  A frame to a      *)
(* device that is not connected is lost here; what RESUME brings back is   *)
(* LiveStream's.  A device id belongs to one account, which is only what   *)
(* clients make of it.  The key a device publishes is the device.  Who may *)
(* listen is Social's.                                                     *)
(***************************************************************************)
EXTENDS Integers, FiniteSets

CONSTANTS
  Accounts, Devices,
  OwnerOf,       \* the account of every device
  Listeners,     \* <<v, a>>: account v is listening along with a
  InBand,        \* devices that authenticate by a frame, not by a header
  Nets,          \* addresses that connections reach the server from
  Tracks, Hashes,
  RecordingOf,   \* files of one recording are the same to missing_on_device
  Petnames, Blank,
  CopyTtl, RowTtl, \* how old a sealed copy and a row get
  MaxNow,        \* bound: ticks of the clock
  MaxTokens,     \* bound: tokens at one time
  Budgets        \* bounds: how much of each part a behaviour has

Parts == {"plays", "asks", "links", "keys", "names", "files", "ticks",
          "crashes", "tears"}
Invented == "invented"   \* generate_random_petname, or the token's label

ASSUME DevicesAssumption ==
  /\ OwnerOf \in [Devices -> Accounts] /\ Listeners \subseteq Accounts \X Accounts
  /\ InBand \subseteq Devices
  /\ RecordingOf \in [Hashes -> Hashes]
  /\ Blank \notin Accounts \cup Devices \cup Nets \cup Tracks \cup Petnames
  /\ Blank # Invented
  /\ CopyTtl \in Nat /\ RowTtl \in Nat
  /\ MaxNow \in Nat /\ MaxTokens \in Nat /\ Budgets \subseteq [Parts -> Nat]

VARIABLES
  nodes,      \* registered_nodes: the petname of every device, Blank for no row
  chosen,     \* history: the name the account last gave a device
  overtaken,  \* history: devices renamed while a registration held a name
  sockets,    \* the connections the server has with every device
  cur,        \* the one the device uses, 0 for none
  live,       \* WsHub.live_peers
  grants,     \* WsHub.p2p_grants, by device of the host and listener
  accepts,    \* the grants the app on every device knows
  keys,       \* user_device_keys: devices that have published theirs
  rows,       \* handoff_state
  recent,     \* updated_at: <<d, e>> if the row of d was written after e's
  copies,     \* handoff_presence_ciphertexts of every device
  torn,       \* history: devices whose copies a crash kept from the row
  heard,      \* the frame that last reached every account as a listener
  holdings,   \* device_holdings
  inbox,      \* OfferBatcher: what was sent to the collector
  stage,      \* what the collector is doing
  batch,      \* the accounts in its hand
  todo,       \* devices of the account it is announcing to
  diff,       \* what it found missing on one of them
  offered,    \* what the app on every device was told it could have
  req,        \* the handler every device is in
  now, left

nodeVars == <<nodes, chosen, overtaken>>
peerVars == <<sockets, cur, live>>
grantVars == <<grants, accepts, keys>>
playVars == <<rows, recent, copies, torn, heard>>
offerVars == <<holdings, inbox, stage, batch, todo, diff, offered>>
devicesVars ==
  <<nodeVars, peerVars, grantVars, playVars, offerVars, req, now, left>>

DevicesOf(a) == {d \in Devices : OwnerOf[d] = a}
Idle == [op |-> "none", at |-> "idle", track |-> Blank, seal |-> "keep",
         to |-> {}, name |-> Blank, custom |-> FALSE,
         hash |-> Blank, host |-> Blank, for |-> Blank, rest |-> {},
         bound |-> {}, token |-> 0, deaf |-> FALSE, gone |-> {}, added |-> {}]
Stands(c, step) == req[c].at = step
Go(c, r) == req' = [req EXCEPT ![c] = r]
Then(c, step) == Go(c, [req[c] EXCEPT !.at = step])
Finish(c) == Go(c, Idle)
Spend(part) == left[part] > 0 /\ left' = [left EXCEPT ![part] = @ - 1]
Begin(c, part, r) == req[c] = Idle /\ Spend(part) /\ Go(c, r)

(***************************************************************************)
(* Nodes.  upsert_node either sets the name or keeps the one there is.     *)
(***************************************************************************)
Registered(d) == nodes[d] # Blank
Kept(d) == [nodes EXCEPT ![d] = IF @ = Blank THEN Invented ELSE @]

(* registerNode: the name there is is read first, and written back if the  *)
(* call has none of its own; then the address, if it carries one           *)
Register(c) ==
  /\ \E n \in Petnames \cup {Blank} :
       Begin(c, "names",
         [Idle EXCEPT !.op = "register", !.at = "write", !.custom = n # Blank,
                      !.name = IF n # Blank THEN n ELSE Kept(c)[c]])
  /\ UNCHANGED <<nodeVars, peerVars, grantVars, playVars, offerVars, now>>
WriteRegistration(c) ==
  /\ Stands(c, "write") /\ Finish(c)
  /\ nodes' = [nodes EXCEPT ![c] = req[c].name]
  /\ IF req[c].custom
       THEN chosen' = [chosen EXCEPT ![c] = req[c].name]
            /\ overtaken' = overtaken \ {c}
       ELSE UNCHANGED <<chosen, overtaken>>
  /\ live' \in {live, [live EXCEPT ![c].lan = TRUE]}
  /\ UNCHANGED <<sockets, cur, grantVars, playVars, offerVars, now, left>>

(* renameNode and unregisterNode, of any device of the account *)
RenameNode(d) ==
  /\ Registered(d) /\ Spend("names")
  /\ \E n \in Petnames : /\ nodes' = [nodes EXCEPT ![d] = n]
                         /\ chosen' = [chosen EXCEPT ![d] = n]
  /\ overtaken' = IF Stands(d, "write") /\ ~req[d].custom
                    THEN overtaken \cup {d} ELSE overtaken \ {d}
  /\ UNCHANGED <<peerVars, grantVars, playVars, offerVars, req, now>>
NoLonger(d) ==
  /\ nodes' = [nodes EXCEPT ![d] = Blank] /\ chosen' = [chosen EXCEPT ![d] = Blank]
  /\ overtaken' = overtaken \ {d}
DeleteNode(d) ==
  /\ Registered(d) /\ Spend("names") /\ NoLonger(d)
  /\ holdings' = {x \in holdings : x[1] # d}
  /\ UNCHANGED <<peerVars, grantVars, playVars, inbox, stage, batch, todo, diff,
                 offered, req, now>>
(* the sweeper, of a device unseen for 90 days; its holdings stay *)
ExpireNode(d) ==
  /\ Registered(d) /\ cur[d] = 0 /\ req[d] = Idle /\ Spend("names") /\ NoLonger(d)
  /\ UNCHANGED <<peerVars, grantVars, playVars, offerVars, req, now>>

(***************************************************************************)
(* Connections.                                                            *)
(***************************************************************************)
NoPeer == [lan |-> FALSE, egress |-> Blank]
NoGrant == [token |-> 0, bound |-> {}, reusable |-> FALSE]
Note(a) == inbox' = inbox \cup {a}

(* ws_handler: the observed address, the claimed one, the node, and a word *)
(* to the collector, all before the socket is one.  A socket that          *)
(* authenticates in band says where it is and is not observed.             *)
Reached(d, n) ==
  [lan |-> TRUE, egress |-> IF d \in InBand THEN live[d].egress ELSE n]
Greet_Mutant(d) ==
  /\ \E n \in Nets : live' = [live EXCEPT ![d] = Reached(d, n)]
  /\ nodes' = Kept(d) /\ UNCHANGED inbox
Greet(d) ==
  /\ \E n \in Nets : live' = [live EXCEPT ![d] = Reached(d, n)]
  /\ nodes' = Kept(d) /\ Note(OwnerOf[d])
Connect(d) ==
  /\ cur[d] = 0 /\ Greet(d)
  /\ \E s \in {1, 2} \ sockets[d] :
       /\ sockets' = [sockets EXCEPT ![d] = @ \cup {s}]
       /\ cur' = [cur EXCEPT ![d] = s]
  /\ UNCHANGED <<chosen, overtaken, grantVars, playVars, holdings, stage, batch,
                 todo, diff, offered, req, now, left>>
(* The upgrade comes to nothing after that. *)
UpgradeFails(d) ==
  /\ cur[d] = 0 /\ Spend("links") /\ Greet(d)
  /\ UNCHANGED <<chosen, overtaken, sockets, cur, grantVars, playVars, holdings,
                 stage, batch, todo, diff, offered, req, now>>

(* The device loses its connection, and its app may have been stopped:     *)
(* grants are in its memory only.                                          *)
Deafened(d) ==
  [c \in Devices |->
     IF req[c].host = d THEN [req[c] EXCEPT !.deaf = TRUE] ELSE req[c]]
Lose(d) ==
  /\ cur[d] # 0 /\ Spend("links") /\ cur' = [cur EXCEPT ![d] = 0]
  /\ \/ UNCHANGED <<accepts, req>>
     \/ accepts' = [accepts EXCEPT ![d] = {}] /\ req' = Deafened(d)
  /\ UNCHANGED <<nodeVars, sockets, live, grants, keys, playVars,
                 offerVars, now>>
(* clear_lan_address: the server is done with a connection, whatever else  *)
(* it has with the device                                                  *)
Close(d) ==
  /\ \E s \in sockets[d] \ {cur[d]} : sockets' = [sockets EXCEPT ![d] = @ \ {s}]
  /\ live' = [live EXCEPT ![d] = NoPeer]
  /\ grants' = [x \in DOMAIN grants |-> IF x[1] = d THEN NoGrant ELSE grants[x]]
  /\ UNCHANGED <<nodeVars, cur, accepts, keys, playVars, offerVars, req,
                 now, left>>

(***************************************************************************)
(* Playback.                                                               *)
(***************************************************************************)
NoRow == [track |-> Blank, sealed |-> FALSE, at |-> 0]
NoCopies == [track |-> Blank, to |-> {}, at |-> 0]
Playing(a) == {d \in DevicesOf(a) : rows[d] # NoRow}
Latest(a) == {d \in Playing(a) : \A e \in Playing(a) : <<e, d>> \notin recent}
Audience(a) == {v \in Accounts : <<v, a>> \in Listeners}

(* updateHandoff: another track, with copies sealed to the keys there were *)
(* or with none, or the same track again                                   *)
Play(c) ==
  /\ \E t \in Tracks, s \in {"seal", "clear"} :
       Begin(c, "plays",
         [Idle EXCEPT !.op = "report", !.at = "row", !.track = t, !.seal = s,
                      !.to = IF s = "seal"
                               THEN {e \in keys : OwnerOf[e] \in Audience(OwnerOf[c])}
                               ELSE {}])
  /\ UNCHANGED <<nodeVars, peerVars, grantVars, playVars, offerVars, now>>
Heartbeat(c) ==
  /\ req[c] = Idle /\ rows[c] # NoRow
  /\ Go(c, [Idle EXCEPT !.op = "report", !.at = "row", !.track = rows[c].track])
  /\ UNCHANGED <<nodeVars, peerVars, grantVars, playVars, offerVars, now, left>>

(* update_handoff: the row, then the copies it is sealed in, in one hold   *)
(* but statement by statement, which is how readers see it; a heartbeat    *)
(* leaves the copies.  Position, queue and artwork are left out.           *)
Session(c) ==
  [track |-> req[c].track, at |-> now,
   sealed |-> IF req[c].seal = "keep" THEN rows[c].sealed ELSE req[c].seal = "seal"]
WriteRow(c) ==
  /\ Stands(c, "row")
  /\ rows' = [rows EXCEPT ![c] = Session(c)]
  /\ recent' = {x \in recent : x[2] # c} \cup {<<c, d>> : d \in Devices \ {c}}
  /\ Then(c, IF req[c].seal = "keep" THEN "node" ELSE "wipe")
  /\ UNCHANGED <<nodeVars, peerVars, grantVars, copies, torn, heard, offerVars,
                 now, left>>
WipeCopies_Mutant(c) ==
  /\ Stands(c, "wipe")
  /\ copies' = IF req[c].to = {} THEN copies ELSE [copies EXCEPT ![c] = NoCopies]
  /\ Then(c, "copies")
  /\ UNCHANGED <<nodeVars, peerVars, grantVars, rows, recent, torn, heard,
                 offerVars, now, left>>
WipeCopies(c) ==
  /\ Stands(c, "wipe") /\ copies' = [copies EXCEPT ![c] = NoCopies] /\ Then(c, "copies")
  /\ UNCHANGED <<nodeVars, peerVars, grantVars, rows, recent, torn, heard,
                 offerVars, now, left>>
WriteCopies(c) ==
  /\ Stands(c, "copies") /\ Then(c, "node")
  /\ copies' = IF req[c].to = {} THEN copies
               ELSE [copies EXCEPT ![c] =
                       [track |-> req[c].track, to |-> req[c].to, at |-> now]]
  /\ torn' = torn \ {c}
  /\ UNCHANGED <<nodeVars, peerVars, grantVars, rows, recent, heard, offerVars,
                 now, left>>
SeeNode(c) ==
  /\ Stands(c, "node") /\ nodes' = Kept(c) /\ Then(c, "now")
  /\ UNCHANGED <<chosen, overtaken, peerVars, grantVars, playVars, offerVars, now,
                 left>>

(* fan_out_presence: the account's latest row, which may be another        *)
(* device's by now, then a frame to each listener                          *)
Serve(c, r, rest) ==
  IF rest = {} THEN Finish(c)
  ELSE \E v \in rest :
         Go(c, [r EXCEPT !.at = "share", !.for = v, !.rest = rest \ {v},
                         !.token = 0, !.deaf = FALSE])
Found(c, d) == [req[c] EXCEPT !.host = d, !.track = rows[d].track]
ReadNow(c) ==
  /\ Stands(c, "now")
  /\ IF Latest(OwnerOf[c]) = {} THEN Finish(c)
     ELSE \E d \in Latest(OwnerOf[c]) : Serve(c, Found(c, d), Audience(OwnerOf[c]))
  /\ UNCHANGED <<nodeVars, peerVars, grantVars, playVars, offerVars, now, left>>
SendFrame(c) ==
  /\ Stands(c, "frame") /\ Serve(c, req[c], req[c].rest)
  /\ heard' = IF \A d \in DevicesOf(req[c].for) : cur[d] = 0 THEN heard
              ELSE [heard EXCEPT ![req[c].for] = req[c].track]
  /\ UNCHANGED <<nodeVars, peerVars, grantVars, rows, recent, copies, torn,
                 offerVars, now, left>>

(* A listener asks for itself: now_playing_for_viewer. *)
AskPlaying(c) ==
  /\ \E a \in Accounts : \E d \in Latest(a) :
       /\ OwnerOf[c] \in Audience(a)
       /\ Begin(c, "asks", [Idle EXCEPT !.op = "ask", !.at = "share", !.host = d,
                                        !.for = OwnerOf[c]])
  /\ UNCHANGED <<nodeVars, peerVars, grantVars, playVars, offerVars, now>>
Answer(c) ==
  /\ Stands(c, "answer") /\ Finish(c)
  /\ UNCHANGED <<nodeVars, peerVars, grantVars, playVars, offerVars, now, left>>

(* What goes of itself: cold copies, rows, copies without a row.   *)
(* The sweeper waits for a hold of the database.                           *)
Writing == {c \in Devices : Stands(c, "wipe") \/ Stands(c, "copies")}
Swept(d) ==
  IF rows[d].at < now - RowTtl THEN NoRow ELSE rows[d]
SweepPlayback ==
  /\ Writing = {}
  /\ rows' = [d \in Devices |-> Swept(d)]
  /\ copies' = [d \in Devices |->
       IF copies[d].at < now - CopyTtl \/ Swept(d) = NoRow THEN NoCopies
       ELSE copies[d]]
  /\ UNCHANGED <<nodeVars, peerVars, grantVars, recent, torn, heard, offerVars,
                 req, now, left>>
Tick ==
  /\ now < MaxNow /\ now' = now + 1 /\ Spend("ticks")
  /\ Writing = {}
  /\ UNCHANGED <<nodeVars, peerVars, grantVars, playVars, offerVars, req>>

(***************************************************************************)
(* Where a listener can reach the host, and the grant to present there:    *)
(* shares_network_with_user, get_lan_address, published_keys,              *)
(* grant_p2p_token, each a hold of its own.                                *)
(***************************************************************************)
Shares(d, v) ==
  /\ live[d].egress # Blank
  /\ \E e \in DevicesOf(v) : e # d /\ live[e].egress = live[d].egress
After(c) == IF req[c].op = "report" THEN "frame" ELSE "answer"
FindRoute(c) ==
  /\ Stands(c, "share")
  /\ Then(c, IF Shares(req[c].host, req[c].for) THEN "lan" ELSE After(c))
  /\ UNCHANGED <<nodeVars, peerVars, grantVars, playVars, offerVars, now, left>>
FindAddress(c) ==
  /\ Stands(c, "lan")
  /\ Then(c, IF live[req[c].host].lan THEN "keys" ELSE After(c))
  /\ UNCHANGED <<nodeVars, peerVars, grantVars, playVars, offerVars, now, left>>
KeysOf(v) == keys \cap DevicesOf(v)
ReadKeys(c) ==
  /\ Stands(c, "keys")
  /\ Go(c, [req[c] EXCEPT !.at = "reuse", !.bound = KeysOf(req[c].for),
                          !.gone = {}, !.added = {}])
  /\ UNCHANGED <<nodeVars, peerVars, grantVars, playVars, offerVars, now, left>>

Key(c) == <<req[c].host, req[c].for>>
Told(d, token, bound) ==
  {g \in accepts[d] : g.token # token} \cup {[token |-> token, bound |-> bound]}
Reuse_Mutant(c) ==
  /\ Stands(c, "reuse")
  /\ IF grants[Key(c)].reusable
       THEN Go(c, [req[c] EXCEPT !.at = "announce", !.token = grants[Key(c)].token])
       ELSE Then(c, "mint")
  /\ UNCHANGED <<nodeVars, peerVars, grantVars, playVars, offerVars, now, left>>
Reuse(c) ==
  /\ Stands(c, "reuse")
  /\ IF grants[Key(c)].reusable /\ grants[Key(c)].bound = req[c].bound
       THEN Go(c, [req[c] EXCEPT !.at = "announce", !.token = grants[Key(c)].token])
       ELSE Then(c, "mint")
  /\ UNCHANGED <<nodeVars, peerVars, grantVars, playVars, offerVars, now, left>>
(* a token of no grant and in nobody's hands is one that has expired, with *)
(* the apps too                                                            *)
Expired(k) ==
  /\ \A x \in DOMAIN grants : grants[x].token # k
  /\ \A c \in Devices : req[c].token # k
MintGrant(c) ==
  /\ Stands(c, "mint")
  /\ \E k \in 1..MaxTokens :
       /\ Expired(k) /\ \A i \in 1..(k - 1) : ~Expired(i)
       /\ grants' = [grants EXCEPT ![Key(c)] =
            [token |-> k, bound |-> req[c].bound, reusable |-> TRUE]]
       /\ accepts' = [d \in Devices |-> {g \in accepts[d] : g.token # k}]
       /\ Go(c, [req[c] EXCEPT !.at = "announce", !.token = k])
  /\ UNCHANGED <<nodeVars, peerVars, keys, playVars, offerVars, now, left>>
(* on every hand-out, for the host may have been started again since; the  *)
(* app puts it in place of what it had under the token                     *)
Announce(c) ==
  /\ Stands(c, "announce")
  /\ IF cur[req[c].host] = 0
       THEN /\ Go(c, [req[c] EXCEPT !.at = After(c), !.deaf = TRUE])
            /\ UNCHANGED accepts
       ELSE /\ Then(c, After(c))
            /\ accepts' = [accepts EXCEPT ![req[c].host] =
                             Told(req[c].host, req[c].token, req[c].bound)]
  /\ UNCHANGED <<nodeVars, peerVars, grants, keys, playVars, offerVars,
                 now, left>>
AgeGrant ==
  /\ Spend("keys")
  /\ \E x \in DOMAIN grants : grants[x].reusable
                           /\ grants' = [grants EXCEPT ![x].reusable = FALSE]
  /\ UNCHANGED <<nodeVars, peerVars, accepts, keys, playVars, offerVars,
                 req, now>>

(* registerDeviceKey, and forgetDeviceKey with what was sealed to it *)
Seen(e, field) ==
  [c \in Devices |->
     IF req[c].for # OwnerOf[e] THEN req[c]
     ELSE IF field = "added" THEN [req[c] EXCEPT !.added = @ \cup {e}]
     ELSE [req[c] EXCEPT !.gone = @ \cup {e}]]
PublishKey(e) ==
  /\ e \notin keys /\ Spend("keys") /\ keys' = keys \cup {e}
  /\ req' = Seen(e, "added")
  /\ UNCHANGED <<nodeVars, peerVars, grants, accepts, playVars, offerVars, now>>
Without(d, e) ==
  IF d = e \/ copies[d].to = {e} THEN NoCopies
  ELSE [copies[d] EXCEPT !.to = @ \ {e}]
ForgetKey(e) ==
  /\ e \in keys /\ Spend("keys") /\ keys' = keys \ {e} /\ req' = Seen(e, "gone")
  /\ Writing = {}
  /\ copies' = [d \in Devices |-> Without(d, e)]
  /\ UNCHANGED <<nodeVars, peerVars, grants, accepts, rows, recent, torn,
                 heard, offerVars, now>>

(***************************************************************************)
(* Holdings, and what the devices are offered.                             *)
(***************************************************************************)
Sources(d, h) ==
  {e \in DevicesOf(OwnerOf[d]) \ {d} : <<e, h>> \in holdings /\ Registered(e)}
HasRecording(d, h) ==
  \E g \in Hashes : <<d, g>> \in holdings /\ RecordingOf[g] = RecordingOf[h]
Missing(d) == {h \in Hashes : Sources(d, h) # {} /\ ~HasRecording(d, h)}

(* reportHoldings, of any device id, and forgetHoldings, of a device there *)
(* is                                                                      *)
Report(c) ==
  /\ \E h \in Hashes :
       Begin(c, "files", [Idle EXCEPT !.op = "hold", !.at = "hold", !.hash = h])
  /\ UNCHANGED <<nodeVars, peerVars, grantVars, playVars, offerVars, now>>
WriteHolding(c) ==
  /\ Stands(c, "hold") /\ Then(c, "note")
  /\ holdings' = holdings \cup {<<c, req[c].hash>>}
  /\ UNCHANGED <<nodeVars, peerVars, grantVars, playVars, inbox, stage, batch,
                 todo, diff, offered, now, left>>
NoteHolding(c) ==
  /\ Stands(c, "note") /\ Finish(c) /\ Note(OwnerOf[c])
  /\ UNCHANGED <<nodeVars, peerVars, grantVars, playVars, holdings, stage, batch,
                 todo, diff, offered, now, left>>
Forget(c) ==
  /\ req[c] = Idle /\ Registered(c) /\ Spend("files")
  /\ \E h \in Hashes : <<c, h>> \in holdings /\ holdings' = holdings \ {<<c, h>>}
  /\ UNCHANGED <<nodeVars, peerVars, grantVars, playVars, inbox, stage, batch,
                 todo, diff, offered, req, now>>

(* The collector: one account, and whoever comes before the deadline; then *)
(* account by account, device by device.                                   *)
Take ==
  /\ stage \in {"wait", "collect"} /\ stage' = "collect"
  /\ \E a \in inbox : inbox' = inbox \ {a} /\ batch' = batch \cup {a}
  /\ UNCHANGED <<nodeVars, peerVars, grantVars, playVars, holdings, todo, diff,
                 offered, req, now, left>>
Deadline ==
  /\ stage = "collect" /\ stage' = "announce"
  /\ UNCHANGED <<nodeVars, peerVars, grantVars, playVars, holdings, inbox, batch,
                 todo, diff, offered, req, now, left>>
ListDevices ==
  /\ stage = "announce" /\ todo = {}
  /\ \E a \in batch :
       /\ batch' = batch \ {a}
       /\ todo' = {d \in DevicesOf(a) : Registered(d) \/ \E x \in holdings : x[1] = d}
  /\ UNCHANGED <<nodeVars, peerVars, grantVars, playVars, holdings, inbox, stage,
                 diff, offered, req, now, left>>
Diff ==
  /\ stage = "announce" /\ diff = {}
  /\ \E d \in todo :
       IF Missing(d) = {} THEN todo' = todo \ {d} /\ UNCHANGED diff
                          ELSE diff' = {<<d, h>> : h \in Missing(d)} /\ UNCHANGED todo
  /\ UNCHANGED <<nodeVars, peerVars, grantVars, playVars, holdings, inbox, stage,
                 batch, offered, req, now, left>>
Hear(pairs) ==
  offered' = [d \in Devices |-> IF cur[d] = 0 THEN offered[d]
                ELSE offered[d] \cup {x[2] : x \in {y \in pairs : y[1] = d}}]
Offer ==
  /\ diff # {} /\ diff' = {} /\ todo' = todo \ {x[1] : x \in diff} /\ Hear(diff)
  /\ UNCHANGED <<nodeVars, peerVars, grantVars, playVars, holdings, inbox, stage,
                 batch, req, now, left>>
Rest ==
  /\ stage = "announce" /\ batch = {} /\ todo = {} /\ stage' = "wait"
  /\ UNCHANGED <<nodeVars, peerVars, grantVars, playVars, holdings, inbox, batch,
                 todo, diff, offered, req, now, left>>
(* offerSync: the same, for one device, when somebody asks *)
OfferSync(d) ==
  /\ Missing(d) # {} /\ Spend("files") /\ Hear({<<d, h>> : h \in Missing(d)})
  /\ UNCHANGED <<nodeVars, peerVars, grantVars, playVars, holdings, inbox, stage,
                 batch, todo, diff, req, now>>

(***************************************************************************)
(* The server goes down: what was memory is gone, and so are connections.  *)
(***************************************************************************)
Crash ==
  /\ Spend("crashes") \/ (Writing # {} /\ Spend("tears"))
  /\ sockets' = [d \in Devices |-> {}] /\ cur' = [d \in Devices |-> 0]
  /\ live' = [d \in Devices |-> NoPeer]
  /\ grants' = [x \in DOMAIN grants |-> NoGrant]
  /\ inbox' = {} /\ stage' = "wait" /\ batch' = {} /\ todo' = {} /\ diff' = {}
  /\ torn' = torn \cup Writing
  /\ req' = [c \in Devices |-> Idle]
  /\ UNCHANGED <<nodeVars, accepts, keys, rows, recent, copies, heard,
                 holdings, offered, now>>

DevicesInit ==
  /\ nodes = [d \in Devices |-> Invented] /\ chosen = [d \in Devices |-> Blank]
  /\ overtaken = {}
  /\ sockets = [d \in Devices |-> {1}] /\ cur = [d \in Devices |-> 1]
  /\ \E n \in Nets : live = [d \in Devices |->
       [lan |-> TRUE, egress |-> IF d \in InBand THEN Blank ELSE n]]
  /\ grants = [x \in Devices \X Accounts |-> NoGrant]
  /\ accepts = [d \in Devices |-> {}] /\ keys = Devices
  /\ rows = [d \in Devices |-> NoRow] /\ recent = {}
  /\ copies = [d \in Devices |-> NoCopies] /\ torn = {}
  /\ heard = [v \in Accounts |-> Blank]
  /\ holdings = {} /\ inbox = {} /\ stage = "wait" /\ batch = {} /\ todo = {}
  /\ diff = {} /\ offered = [d \in Devices |-> {}]
  /\ req = [c \in Devices |-> Idle] /\ now = 0 /\ left \in Budgets

Handle(c) ==
  \/ WriteRegistration(c) \/ WriteRow(c) \/ WipeCopies(c) \/ WriteCopies(c)
  \/ SeeNode(c) \/ ReadNow(c) \/ SendFrame(c) \/ Answer(c)
  \/ FindRoute(c) \/ FindAddress(c) \/ ReadKeys(c) \/ Reuse(c) \/ MintGrant(c)
  \/ Announce(c) \/ WriteHolding(c) \/ NoteHolding(c)
Collect == Deadline \/ ListDevices \/ Diff \/ Offer \/ Rest
DevicesNext ==
  \/ \E c \in Devices :
       \/ Handle(c) \/ Register(c) \/ RenameNode(c) \/ DeleteNode(c)
       \/ ExpireNode(c) \/ Connect(c) \/ UpgradeFails(c) \/ Lose(c) \/ Close(c)
       \/ Play(c) \/ Heartbeat(c) \/ AskPlaying(c) \/ PublishKey(c) \/ ForgetKey(c)
       \/ Report(c) \/ Forget(c) \/ OfferSync(c)
  \/ SweepPlayback \/ Tick \/ AgeGrant \/ Take \/ Collect \/ Crash
(* Handlers and the collector run; clients reconnect with backoff and      *)
(* republish what they play every ten seconds.                             *)
DevicesSpec ==
  /\ DevicesInit /\ [][DevicesNext]_devicesVars
  /\ WF_devicesVars(Take) /\ WF_devicesVars(Collect)
  /\ \A c \in Devices : /\ WF_devicesVars(Handle(c)) /\ WF_devicesVars(Connect(c))
                        /\ WF_devicesVars(Heartbeat(c))

(***************************************************************************)
(* Properties.                                                             *)
(***************************************************************************)
(* Every table and map keeps its type, and a device has no connection the  *)
(* server does not.                                                        *)
Grant == [token : 0..MaxTokens, bound : SUBSET Devices, reusable : BOOLEAN]
DevicesTypeOK ==
  /\ nodes \in [Devices -> Petnames \cup {Invented, Blank}]
  /\ chosen \in [Devices -> Petnames \cup {Blank}] /\ overtaken \subseteq Devices
  /\ sockets \in [Devices -> SUBSET {1, 2}]
  /\ cur \in [Devices -> 0..2]
  /\ \A d \in Devices : cur[d] \in sockets[d] \cup {0}
  /\ live \in [Devices -> [lan : BOOLEAN, egress : Nets \cup {Blank}]]
  /\ grants \in [Devices \X Accounts -> Grant]
  /\ accepts \in [Devices -> SUBSET [token : 1..MaxTokens, bound : SUBSET Devices]]
  /\ keys \subseteq Devices
  /\ rows \in [Devices -> [track : Tracks \cup {Blank}, sealed : BOOLEAN,
                           at : 0..MaxNow]]
  /\ recent \subseteq Devices \X Devices
  /\ copies \in [Devices -> [track : Tracks \cup {Blank}, to : SUBSET Devices,
                             at : 0..MaxNow]]
  /\ torn \subseteq Devices /\ heard \in [Accounts -> Tracks \cup {Blank}]
  /\ holdings \subseteq Devices \X Hashes /\ inbox \subseteq Accounts
  /\ stage \in {"wait", "collect", "announce"} /\ batch \subseteq Accounts
  /\ todo \subseteq Devices /\ diff \subseteq Devices \X Hashes
  /\ offered \in [Devices -> SUBSET Hashes] /\ now \in 0..MaxNow
  /\ DOMAIN req = Devices

(* Whenever a listener is handed a token, the host's app knows it already, *)
(* bound to the keys the listener publishes, give or take what changed     *)
(* while the hand-out was under way, unless the app was away or was        *)
(* started again meanwhile.                                                *)
GrantsServeTheListener ==
  \A c \in Devices :
    LET knows == KeysOf(req[c].for) IN
      (req[c].token # 0 /\ (Stands(c, "frame") \/ Stands(c, "answer")) /\ ~req[c].deaf) =>
        \E g \in accepts[req[c].host] :
          /\ g.token = req[c].token
          /\ g.bound \ knows \subseteq req[c].gone
          /\ knows \ g.bound \subseteq req[c].added

(* The copies kept of a session are of the track in its row, and of one    *)
(* that was sealed, except while they are being written and where a crash  *)
(* came in between.                                                        *)
CopiesDescribeTheTrack ==
  \A d \in Devices \ torn :
    (copies[d].to # {} /\ ~Stands(d, "wipe")) =>
      copies[d].track = rows[d].track /\ rows[d].sealed

(* A name the account gave a device stays, whatever reconnects and         *)
(* heartbeats come in between, until the account gives another, except     *)
(* where a registration had read the one before.                           *)
NamesAreKept ==
  \A d \in Devices \ overtaken : chosen[d] # Blank => nodes[d] = chosen[d]

(* Whatever order their frames were sent in, once the devices of an        *)
(* account stop changing tracks its listeners come to hear one of those.   *)
ListenersCatchUp ==
  \A p \in Listeners :
    <>[](Playing(p[2]) # {} => heard[p[1]] \in {rows[d].track : d \in Playing(p[2])})

(* What is missing on a device when its account is noted comes to be       *)
(* offered to it, through reconnects and restarts of the server, unless it *)
(* is no longer missing or the device is no longer there.                  *)
Owed(d, h) ==
  OwnerOf[d] \in inbox \cup batch /\ h \in Missing(d) /\ Registered(d)
NewsReachesDevices ==
  \A d \in Devices, h \in Hashes :
    Owed(d, h) ~> (h \in offered[d] \/ h \notin Missing(d) \/ ~Registered(d))

(* What is kept of a device is true of it: the copies of its session are   *)
(* of the track in its row (db/handoff.rs, db_presence.rs), and it bears   *)
(* the name it was given (db/nodes.rs).                                    *)
RecordsAreTrue == DevicesTypeOK /\ CopiesDescribeTheTrack /\ NamesAreKept

(* Those who are behind come up to date: a listener with what its host     *)
(* plays, a device with the recordings it lacks (offers.rs).               *)
DevicesCatchUp == ListenersCatchUp /\ NewsReachesDevices
=============================================================================
