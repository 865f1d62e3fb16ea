------------------------------- MODULE Blends -------------------------------
(***************************************************************************)
(* A blend: a playlist the server writes from the listening of those who   *)
(* joined it (db_blend.rs, db_blend_refresh.rs, schema_blend.rs, and the   *)
(* part of db/erasure.rs and db_playlists.rs that takes one away).         *)
(*                                                                         *)
(* Nothing is written by a timer: every read of a blend, every answer to   *)
(* an invitation and every leaving runs refresh_blend_if_due, which reads  *)
(* the recipe, then the members, then what each of them consents to and    *)
(* has listened to, and only then opens the transaction that writes.  The  *)
(* listening of all the members is read in one step here, and of the       *)
(* tracks chosen from it only whose listening they are is kept: every      *)
(* member has listened to something.  How they are chosen is left out.     *)
(***************************************************************************)
EXTENDS Integers, FiniteSets

CONSTANTS
  Owner, Friends,      \* the creator, and whom it may ask
  Readers,             \* bound: whose apps read the blend
  MaxCalls,            \* bound: answers, departures and changes of recipe
  MaxEvents            \* bound: consents changed, erasures and restarts

ASSUME BlendsAssumption ==
  /\ Owner \notin Friends /\ Readers \subseteq Friends \cup {Owner}
  /\ MaxCalls \in Nat /\ MaxEvents \in Nat

VARIABLES
  row,        \* the row of playlists: none yet, live or gone
  recipe,     \* blends: how it refreshes and when it was refreshed
  member,     \* blend_members
  from,       \* whose listening playlist_items holds
  followers,  \* playlist_followers
  shares,     \* profiles: who shows their stats
  alive,      \* users
  req,        \* the handler every account is in
  agreed,     \* who ever joined; the code does not keep it
  issued,     \* handlers called so far
  events      \* events so far

blend == <<row, recipe, member, from, followers>>
vars == <<blend, shares, alive, req, agreed, issued, events>>

Accounts == Friends \cup {Owner}

(* BlendRefresh: written again daily or weekly, or only on a change.       *)
(* refreshed_at: null, within the period, or older than it.                *)
Recipes == [refresh : {"timed", "frozen"}, at : {"null", "new", "old"}]
Unwritten == [refresh |-> "timed", at |-> "null"]

Idle == [op |-> "none", at |-> "idle", recipe |-> Unwritten,
         asked |-> {}, consent |-> {}]

At(c, ops, step) == req[c].op \in ops /\ req[c].at = step
Go(c, r) == req' = [req EXCEPT ![c] = r]
Step(c, step) == Go(c, [req[c] EXCEPT !.at = step])
Finish(c) == Go(c, Idle)

Live == row = "live"
Joined == {a \in Accounts : member[a] = "joined"}
Invited == {a \in Accounts : member[a] = "invited"}
(* can_view_playlist of a blend *)
Opens(c) == Live /\ (c = Owner \/ c \in Joined)
(* profile(...).shows_stats(): an account that is gone has no profile *)
Consents(a) == alive[a] /\ shares[a]

Due_Mutant(r) == r.at = "null"
(* Blend::is_due *)
Due(r) == r.at = "null" \/ (r.at = "old" /\ r.refresh = "timed")

Begin(c, r) ==
  /\ req[c] = Idle /\ alive[c] /\ issued < MaxCalls
  /\ issued' = issued + 1
  /\ Go(c, r)
Call(op, step) == [Idle EXCEPT !.op = op, !.at = step]

(***************************************************************************)
(* Making one.                                                             *)
(***************************************************************************)
(* Consent and friendship are read before the rows are written: whoever is *)
(* asked may be gone by then.                                              *)
CallCreate ==
  /\ row = "none" /\ Consents(Owner)
  /\ \E asked \in SUBSET {f \in Friends : alive[f]},
       how \in {"timed", "frozen"} :
       /\ asked # {}
       /\ req[Owner] = Idle
       /\ Go(Owner, [Call("create", "write") EXCEPT
                       !.asked = asked, !.recipe.refresh = how])
  /\ UNCHANGED <<blend, shares, alive, agreed, issued, events>>

Create ==
  /\ At(Owner, {"create"}, "write")
  /\ row' = "live"
  /\ recipe' = req[Owner].recipe
  /\ member' = [a \in Accounts |-> IF a = Owner THEN "joined"
                                   ELSE IF a \in req[Owner].asked
                                     THEN "invited" ELSE "no"]
  /\ agreed' = {Owner}
  /\ Finish(Owner)
  /\ UNCHANGED <<from, followers, shares, alive, issued, events>>

(***************************************************************************)
(* refresh_blend_if_due, which all the others end with.                    *)
(***************************************************************************)
Refreshing == {"read", "answer", "leave", "update"}

(* The read of a blend: open, and then the refresh. *)
Read(c) ==
  /\ c \in Readers
  /\ req[c] = Idle /\ alive[c] /\ Opens(c)
  /\ Go(c, Call("read", "recipe"))
  /\ UNCHANGED <<blend, shares, alive, agreed, issued, events>>

ReadRecipe(c) ==
  /\ At(c, Refreshing, "recipe")
  /\ IF Live THEN Go(c, [req[c] EXCEPT !.recipe = recipe, !.at = "members"])
             ELSE Finish(c)
  /\ UNCHANGED <<blend, shares, alive, agreed, issued, events>>

(* mark_due *)
MarkedDue == [recipe EXCEPT !.at = "null"]

Members_Mutant == Joined
(* blend_members: those who joined and those who have not answered *)
Members == Joined \cup Invited

(* "Not written until everyone asked has answered" *)
Waiting == \E a \in Members : member[a] # "joined"

ReadMembers(c) ==
  /\ At(c, Refreshing, "members")
  /\ IF Waiting THEN Go(c, Call(req[c].op, "empty"))
     ELSE IF Due(req[c].recipe)
       THEN Go(c, [req[c] EXCEPT !.recipe = Unwritten, !.asked = Members,
                                  !.at = "tastes"])
       ELSE Finish(c)
  /\ UNCHANGED <<blend, shares, alive, agreed, issued, events>>

(* empty_waiting_blend *)
Empty(c) ==
  /\ At(c, Refreshing, "empty")
  /\ from' = {}
  /\ recipe' = IF from # {} THEN [recipe EXCEPT !.at = "null"] ELSE recipe
  /\ Finish(c)
  /\ UNCHANGED <<row, member, followers, shares, alive, agreed, issued, events>>

(* What the members consent to is asked at every refresh. *)
Listening(c) == {a \in req[c].asked : Consents(a)}

ReadTastes(c) ==
  /\ At(c, Refreshing, "tastes")
  /\ Go(c, [req[c] EXCEPT !.asked = {}, !.consent = Listening(c),
                          !.at = "picked"])
  /\ UNCHANGED <<blend, shares, alive, agreed, issued, events>>

Written_Mutant(c) == req[c].consent
(* The row gone, bump_revision fails and the tracks go with it. *)
Written(c) == IF Live THEN req[c].consent ELSE from

Write(c) ==
  /\ At(c, Refreshing, "picked")
  /\ from' = Written(c)
  /\ recipe' = IF Live THEN [recipe EXCEPT !.at = "new"] ELSE recipe
  /\ Finish(c)
  /\ UNCHANGED <<row, member, followers, shares, alive, agreed, issued, events>>

(***************************************************************************)
(* Answering, leaving, changing.                                           *)
(***************************************************************************)
(* Joining asks for the consent first and writes under another hold. *)
CallAnswer(c) ==
  /\ member[c] = "invited"
  /\ \/ Consents(c) /\ Begin(c, Call("answer", "accept"))
     \/ Begin(c, Call("answer", "decline"))
  /\ UNCHANGED <<blend, shares, alive, agreed, events>>

(* A declined invitation is deleted. *)
Answering(accept) == IF accept THEN "joined" ELSE "no"

Answer(c) ==
  \/ /\ At(c, {"answer"}, "accept")
     /\ IF member[c] = "invited"
          THEN /\ member' = [member EXCEPT ![c] = Answering(TRUE)]
               /\ followers' = followers \cup {c}
               /\ recipe' = MarkedDue
               /\ agreed' = agreed \cup {c}
               /\ Step(c, "recipe")
          ELSE UNCHANGED <<member, followers, recipe, agreed>> /\ Finish(c)
     /\ UNCHANGED <<row, from, shares, alive, issued, events>>
  \/ /\ At(c, {"answer"}, "decline")
     /\ IF member[c] = "invited"
          THEN member' = [member EXCEPT ![c] = Answering(FALSE)] /\ Step(c, "recipe")
          ELSE member' = member /\ Finish(c)
     /\ UNCHANGED <<row, recipe, from, followers, shares, alive, agreed,
                    issued, events>>

(* open, and then what was asked *)
CallMember(c) ==
  /\ Opens(c)
  /\ \/ Begin(c, Call("leave", "write"))
     \/ c = Owner /\ Begin(c, Call("update", "write"))
  /\ UNCHANGED <<blend, shares, alive, agreed, events>>

TakenAway ==
  /\ row' = "gone"
  /\ from' = {} /\ followers' = {}
  /\ member' = [a \in Accounts |-> "no"]
  /\ recipe' = Unwritten

(* The creator leaving ends it for everyone. *)
Leave(c) ==
  /\ At(c, {"leave"}, "write")
  /\ IF c = Owner
       THEN /\ IF Live THEN TakenAway ELSE UNCHANGED blend
            /\ Finish(c)
       ELSE /\ member' = [member EXCEPT ![c] = "no"]
            /\ followers' = followers \ {c}
            /\ recipe' = IF Live THEN MarkedDue ELSE recipe
            /\ Step(c, "recipe")
            /\ UNCHANGED <<row, from>>
  /\ UNCHANGED <<shares, alive, agreed, issued, events>>

Update(c) ==
  /\ At(c, {"update"}, "write")
  /\ \E how \in {"timed", "frozen"} :
       recipe' = IF Live THEN [MarkedDue EXCEPT !.refresh = how] ELSE recipe
  /\ IF Live THEN Step(c, "recipe") ELSE Finish(c)
  /\ UNCHANGED <<row, member, from, followers, shares, alive, agreed,
                 issued, events>>

(***************************************************************************)
(* What happens around it.                                                 *)
(***************************************************************************)
Event == events < MaxEvents /\ events' = events + 1

(* set_visibility, or going incognito *)
ChangeConsent(a) ==
  /\ Event
  /\ shares' = [shares EXCEPT ![a] = ~@]
  /\ UNCHANGED <<blend, alive, req, agreed, issued>>

(* delete_user, in one transaction *)
Erase(a) ==
  /\ Event /\ alive[a]
  /\ alive' = [alive EXCEPT ![a] = FALSE]
  /\ IF a = Owner /\ Live THEN TakenAway
     ELSE /\ recipe' = IF member[a] # "no" THEN MarkedDue ELSE recipe
          /\ member' = [member EXCEPT ![a] = "no"]
          /\ followers' = followers \ {a}
          /\ UNCHANGED <<row, from>>
  /\ UNCHANGED <<shares, req, agreed, issued>>

(* A handler does not survive the process, what it committed does. *)
Restart ==
  /\ Event
  /\ req' = [c \in Accounts |-> Idle]
  /\ UNCHANGED <<blend, shares, alive, agreed, issued>>

(* A day, or a week, goes by. *)
Age ==
  /\ recipe.at = "new"
  /\ recipe' = [recipe EXCEPT !.at = "old"]
  /\ UNCHANGED <<row, member, from, followers, shares, alive, req, agreed,
                 issued, events>>

Init ==
  /\ row = "none" /\ recipe = Unwritten
  /\ member = [a \in Accounts |-> "no"]
  /\ from = {} /\ followers = {}
  /\ shares \in [Accounts -> BOOLEAN]
  /\ alive = [a \in Accounts |-> TRUE]
  /\ req = [c \in Accounts |-> Idle]
  /\ agreed = {} /\ issued = 0 /\ events = 0

Refresh(c) ==
  ReadRecipe(c) \/ ReadMembers(c) \/ Empty(c) \/ ReadTastes(c) \/ Write(c)

Handler(c) == Refresh(c) \/ Answer(c) \/ Leave(c) \/ Update(c)

Next ==
  \/ CallCreate \/ Create
  \/ \E c \in Accounts : Read(c) \/ CallAnswer(c) \/ CallMember(c) \/ Handler(c)
  \/ \E a \in Accounts : ChangeConsent(a) \/ Erase(a)
  \/ Restart \/ Age

(* Handlers run to their end; time passes; and the app of somebody who is  *)
(* in the blend keeps asking for its revision ("Polling is how a follower  *)
(* notices a blend's daily rewrite", schema_playlists/query.rs).           *)
Fairness ==
  /\ WF_vars(Create) /\ WF_vars(Age)
  /\ \A c \in Accounts : WF_vars(Handler(c)) /\ WF_vars(Read(c))

Spec == Init /\ [][Next]_vars /\ Fairness

(***************************************************************************)
(* Properties.                                                             *)
(***************************************************************************)
(* The type of the state. *)
TypeOK ==
  /\ row \in {"none", "live", "gone"}
  /\ recipe \in Recipes
  /\ member \in [Accounts -> {"no", "invited", "joined"}]
  /\ from \subseteq Accounts /\ followers \subseteq Accounts
  /\ shares \in [Accounts -> BOOLEAN] /\ alive \in [Accounts -> BOOLEAN]
  /\ \A c \in Accounts :
       /\ req[c].op \in {"none", "create"} \cup Refreshing
       /\ req[c].recipe \in Recipes
       /\ req[c].asked \subseteq Accounts /\ req[c].consent \subseteq Accounts
  /\ agreed \subseteq Accounts
  /\ issued \in 0..MaxCalls /\ events \in 0..MaxEvents

(* Nobody's listening is in a blend they never joined, however the answers *)
(* and the refreshes of the others cross (schema_blend.rs).                *)
NothingBeforeAgreeing == from \subseteq agreed

(* A blend stays unwritten until everyone asked has answered, so that it   *)
(* does not change under those who came first (db_blend_refresh.rs).       *)
WaitsForEveryAnswer == from # {} => Invited = {}

(* A blend that was taken away leaves no track, member or follower behind, *)
(* although a refresh that had read it may write afterwards                *)
(* (db_playlists.rs, db_blend_refresh.rs).                                 *)
GoneLeavesNothing ==
  row = "gone" => /\ from = {} /\ followers = {}
                  /\ Joined \cup Invited = {}

(* A blend that refreshes by itself comes to hold the listening of exactly *)
(* those who are in it and consent, whatever a late write put there: those *)
(* who left, were erased or went incognito drop out, and the last answer   *)
(* has it written (db_blend_refresh.rs, blend_recipe.rs).                  *)
Answered == /\ Live /\ alive[Owner]
            /\ Invited = {} /\ recipe.refresh = "timed"
HoldsItsMembers ==
  <>[]Answered => <>[](from = {a \in Joined : Consents(a)})

(* Nobody is read too soon: not before they agreed (schema_blend.rs), and  *)
(* not before everyone asked has answered (db_blend_refresh.rs).           *)
NobodyIsReadTooSoon ==
  TypeOK /\ NothingBeforeAgreeing /\ WaitsForEveryAnswer
=============================================================================
