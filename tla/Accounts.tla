------------------------------ MODULE Accounts ------------------------------
(***************************************************************************)
(* Accounts and the tokens that speak for them: the first administrator    *)
(* (login/bootstrap.rs), signing up with or without an invite              *)
(* (login/signup.rs, db_social/invites.rs), signing in (login/sign_in.rs), *)
(* the bearer check in front of every other call (auth.rs), device tokens  *)
(* and their end (db_identity/tokens.rs, schema/app_passwords.rs,          *)
(* schema/pairing.rs, schema/security.rs), and an administrator's hand     *)
(* over accounts (schema/accounts.rs).                                     *)
(*                                                                         *)
(* Every database call takes the connection for itself, so a handler is a  *)
(* chain of steps and `req` is the handler of every client with what it    *)
(* has read.  Rows are found by name, and a name can be taken again once   *)
(* its account is erased: an account is its id, counted up from one.       *)
(*                                                                         *)
(* A passphrase is the number of times it was changed; a wrong one gets no *)
(* further than the first read.  Throttling is left out, since it only     *)
(* delays or refuses; the second factor is module Identity.                *)
(***************************************************************************)
EXTENDS Integers, FiniteSets

CONSTANTS
  Names, Clients,
  Tokens,              \* device tokens that can be minted, each one once
  Codes,               \* invite codes, likewise
  Nobody,              \* no name
  Nothing,             \* no token, no code
  MaxRequests,         \* bound: handlers called in all
  MaxAccounts,         \* bound: accounts created in all, two at first perhaps
  MaxUses,             \* bound: uses an invite is made for
  MaxChanges           \* bound: passphrase changes of an account

ASSUME AccountsAssumption ==
  /\ Nobody \notin Names
  /\ Nothing \notin Tokens \cup Codes
  /\ MaxRequests \in Nat /\ MaxAccounts \in Nat \ {0, 1}
  /\ MaxUses \in Nat \ {0} /\ MaxChanges \in Nat
  /\ IsFiniteSet(Clients)

VARIABLES
  mode,     \* AGRO_SIGNUP
  setup,    \* whether the one-time setup token is live
  user,     \* users: the row of every name
  token,    \* app_passwords: the row of every token
  invite,   \* invites: the row of every code
  req,      \* the handler every client is in
  made,     \* accounts created so far, which is the last id given out
  issued,   \* handlers called so far
  seen      \* what the properties remember; the code does not

tables == <<mode, setup, user, token, invite, made>>
vars == <<tables, req, issued, seen>>

Ids == 1..MaxAccounts
Versions == 0..MaxChanges

NoUser == [id |-> 0, admin |-> FALSE, state |-> "none", pass |-> 0]
Exists(n) == user[n] # NoUser
Holder(i) == {n \in Names : user[n].id = i}
Admins == {n \in Names : Exists(n) /\ user[n].admin}

(* `owner` is the account's id; `pass`, which no column holds, is the      *)
(* version of the passphrase the sign-in behind the token had proved.      *)
Unminted == [state |-> "unminted", owner |-> 0, pass |-> 0]
NoInvite == [state |-> "none", used |-> 0, max |-> 0, by |-> Nobody]

Idle == [op |-> "none", at |-> "idle", name |-> Nobody, id |-> 0,
         pass |-> 0, key |-> Nothing, aim |-> Nothing, active |-> FALSE]

At(c, ops, step) == req[c].op \in ops /\ req[c].at = step
Go(c, r) == req' = [req EXCEPT ![c] = r]
Finish(c) == Go(c, Idle)

Begin(c, r) ==
  /\ req[c] = Idle
  /\ issued < MaxRequests
  /\ issued' = issued + 1
  /\ Go(c, r)

----------------------------------------------------------------------------
(* The bearer check: the token's row is found, then its account by name.   *)
(* `aim` is the account or the invite the call is about, if it names one.  *)
Calls == {"device", "revoke", "revokeall", "change", "state", "delete",
          "invite", "endinvite"}

Live(t) == token[t].state = "live"

Present(c, t, op, aim) ==
  /\ Live(t)
  /\ \E m \in Holder(token[t].owner) :
       Begin(c, [Idle EXCEPT !.op = op, !.at = "authorize", !.name = m,
                             !.key = t, !.pass = token[t].pass,
                             !.aim = aim])
  /\ UNCHANGED <<tables, seen>>

(* require_token and the resolver's own guard, on the account just read.   *)
Authorize(c) ==
  /\ At(c, Calls, "authorize")
  /\ LET u == user[req[c].name]
     IN IF u.state # "active"
          \/ (req[c].op \in {"state", "invite", "endinvite"} /\ ~u.admin)
          \/ (req[c].op = "delete" /\ ~u.admin /\ req[c].aim # req[c].name)
        THEN Finish(c)
        ELSE Go(c, [req[c] EXCEPT !.at = "act", !.id = u.id])
  /\ UNCHANGED <<tables, issued, seen>>

----------------------------------------------------------------------------
(* A token for whichever account now has the name.                         *)
Mint(c, t) ==
  /\ token[t] = Unminted
  /\ LET u == user[req[c].name]
     IN IF u = NoUser THEN UNCHANGED <<token, seen>>
        ELSE /\ token' = [token EXCEPT ![t] =
                  [state |-> "live", owner |-> u.id, pass |-> req[c].pass]]
             /\ seen' = IF u.id = req[c].id /\ u.pass = req[c].pass THEN seen
                        ELSE [seen EXCEPT !.late = @ \cup {t}]

(* create_app_password, pair_device. *)
AddDevice(c, t) ==
  /\ At(c, {"device"}, "act")
  /\ Mint(c, t)
  /\ Finish(c)
  /\ UNCHANGED <<mode, setup, user, invite, made, issued>>

Without(owner, kept) ==
  [t \in Tokens |->
     IF token[t].owner = owner /\ token[t].state # "gone" /\ t \notin kept
     THEN [token[t] EXCEPT !.state = "gone"] ELSE token[t]]

RevokeDevice(c, t) ==
  /\ At(c, {"revoke"}, "act")
  /\ token' = IF token[t].owner = user[req[c].name].id /\ Exists(req[c].name)
              THEN [token EXCEPT ![t].state = "gone"] ELSE token
  /\ Finish(c)
  /\ UNCHANGED <<mode, setup, user, invite, made, issued, seen>>

RevokeAll(c) ==
  /\ At(c, {"revokeall"}, "act")
  /\ token' = IF Exists(req[c].name)
              THEN Without(user[req[c].name].id, {req[c].key}) ELSE token
  /\ Finish(c)
  /\ UNCHANGED <<mode, setup, user, invite, made, issued, seen>>

(* A token past its lifetime, or unused for too long, stops working at     *)
(* once and is swept later.                                                *)
OutliveToken(t) ==
  /\ Live(t)
  /\ token' = [token EXCEPT ![t].state = "expired"]
  /\ UNCHANGED <<mode, setup, user, invite, made, req, issued, seen>>

SweepTokens ==
  /\ \E t \in Tokens : token[t].state = "expired"
  /\ token' = [t \in Tokens |-> IF token[t].state = "expired"
                 THEN [token[t] EXCEPT !.state = "gone"] ELSE token[t]]
  /\ UNCHANGED <<mode, setup, user, invite, made, req, issued, seen>>

----------------------------------------------------------------------------
(* Accounts come into being: the name must be free, and the id is new.     *)
Created(n, admin, active) ==
  /\ made' = made + 1
  /\ user' = [user EXCEPT ![n] =
       [id |-> made + 1, admin |-> admin, pass |-> 0,
        state |-> IF active THEN "active" ELSE "pending"]]

Bootstrap(c, n) ==
  /\ setup
  /\ Begin(c, [Idle EXCEPT !.op = "bootstrap", !.at = "count", !.name = n])
  /\ UNCHANGED <<tables, seen>>

CountUsers(c) ==
  /\ At(c, {"bootstrap"}, "count")
  /\ IF \E n \in Names : Exists(n) THEN Finish(c)
     ELSE Go(c, [req[c] EXCEPT !.at = "create"])
  /\ UNCHANGED <<tables, issued, seen>>

CreateAdmin(c) ==
  /\ At(c, {"bootstrap"}, "create")
  /\ made < MaxAccounts
  /\ IF Exists(req[c].name)
     THEN Finish(c) /\ UNCHANGED <<user, made, seen>>
     ELSE /\ Created(req[c].name, TRUE, TRUE)
          /\ Go(c, [req[c] EXCEPT !.at = "mint", !.id = made + 1])
          /\ seen' = [seen EXCEPT !.twins = @ \/ Admins # {},
                                  !.vouched = @ \cup {made + 1}]
  /\ UNCHANGED <<mode, setup, token, invite, issued>>

FirstDevice(c, t) ==
  /\ At(c, {"bootstrap"}, "mint")
  /\ Mint(c, t)
  /\ Go(c, [req[c] EXCEPT !.at = "consume"])
  /\ UNCHANGED <<mode, setup, user, invite, made, issued>>

ConsumeSetup(c) ==
  /\ At(c, {"bootstrap"}, "consume")
  /\ setup' = FALSE
  /\ Finish(c)
  /\ UNCHANGED <<mode, user, token, invite, made, issued, seen>>

(* Signing up, which must not come before the administrator. *)
Signup(c, n, code) ==
  /\ mode # "closed"
  /\ mode = "invite" => code # Nothing
  /\ \E m \in Names : Exists(m)
  /\ Begin(c, [Idle EXCEPT !.op = "signup", !.at = "taken", !.name = n,
                           !.aim = code])
  /\ UNCHANGED <<tables, seen>>

CheckTaken(c) ==
  /\ At(c, {"signup"}, "taken")
  /\ IF Exists(req[c].name) THEN Finish(c)
     ELSE Go(c, [req[c] EXCEPT !.at = IF req[c].aim = Nothing
                                      THEN "create" ELSE "redeem"])
  /\ UNCHANGED <<tables, issued, seen>>

Redeemable(code) ==
  invite[code].state = "live" /\ invite[code].used < invite[code].max

RedeemInvite(c) ==
  /\ At(c, {"signup"}, "redeem")
  /\ IF Redeemable(req[c].aim)
     THEN /\ invite' = [invite EXCEPT ![req[c].aim].used = @ + 1]
          /\ Go(c, [req[c] EXCEPT !.at = "create", !.active = TRUE])
     ELSE /\ IF mode = "invite" THEN Finish(c)
             ELSE Go(c, [req[c] EXCEPT !.at = "create"])
          /\ UNCHANGED invite
  /\ UNCHANGED <<mode, setup, user, token, made, issued, seen>>

CreateMember(c) ==
  /\ At(c, {"signup"}, "create")
  /\ made < MaxAccounts
  /\ IF ~Exists(req[c].name)
     THEN /\ Created(req[c].name, FALSE, req[c].active)
          /\ Finish(c)
          /\ seen' = IF req[c].active
                     THEN [seen EXCEPT !.joined[req[c].aim] = @ + 1,
                                       !.vouched = @ \cup {made + 1}]
                     ELSE seen
     ELSE /\ IF req[c].active
             THEN Go(c, [req[c] EXCEPT !.at = "refund"]) ELSE Finish(c)
          /\ UNCHANGED <<user, made, seen>>
  /\ UNCHANGED <<mode, setup, token, invite, issued>>

(* A bug: the use is not handed back. *)
RefundInvite_Mutant(c) ==
  /\ At(c, {"signup"}, "refund")
  /\ Finish(c)
  /\ UNCHANGED <<tables, issued, seen>>

RefundInvite(c) ==
  /\ At(c, {"signup"}, "refund")
  /\ invite' = IF /\ invite[req[c].aim].state # "gone"
                 /\ invite[req[c].aim].used > 0
               THEN [invite EXCEPT ![req[c].aim].used = @ - 1] ELSE invite
  /\ Finish(c)
  /\ UNCHANGED <<mode, setup, user, token, made, issued, seen>>

----------------------------------------------------------------------------
(* Signing in, and the proof of the passphrase that a change of it asks    *)
(* for too: the hash is read and compared, then the account is read.       *)
Login(c, n) ==
  /\ Exists(n)
  /\ Begin(c, [Idle EXCEPT !.op = "login", !.at = "load", !.name = n,
                           !.id = user[n].id, !.pass = user[n].pass])
  /\ UNCHANGED <<tables, seen>>

ProvePassphrase(c) ==
  /\ At(c, {"change"}, "act")
  /\ IF ~Exists(req[c].name) THEN Finish(c)
     ELSE Go(c, [req[c] EXCEPT !.at = "load",
                   !.pass = user[req[c].name].pass])
  /\ UNCHANGED <<tables, issued, seen>>

LoadAccount(c) ==
  /\ At(c, {"login", "change"}, "load")
  /\ IF \/ ~Exists(req[c].name)
        \/ req[c].op = "login" /\ user[req[c].name].state # "active"
     THEN Finish(c)
     ELSE Go(c, [req[c] EXCEPT !.at = IF req[c].op = "login" THEN "mint"
                                      ELSE "write"])
  /\ UNCHANGED <<tables, issued, seen>>

SignIn(c, t) ==
  /\ At(c, {"login"}, "mint")
  /\ Mint(c, t)
  /\ Finish(c)
  /\ UNCHANGED <<mode, setup, user, invite, made, issued>>

WritePassphrase(c) ==
  /\ At(c, {"change"}, "write")
  /\ user[req[c].name].pass < MaxChanges
  /\ user' = IF Exists(req[c].name)
             THEN [user EXCEPT ![req[c].name].pass = @ + 1] ELSE user
  /\ Go(c, [req[c] EXCEPT !.at = "signout"])
  /\ UNCHANGED <<mode, setup, token, invite, made, issued, seen>>

(* A bug: the device that asked is spared. *)
SignOutDevices_Mutant(c) ==
  /\ At(c, {"change"}, "signout")
  /\ token' = IF Exists(req[c].name)
              THEN Without(user[req[c].name].id, {req[c].key}) ELSE token
  /\ Finish(c)
  /\ UNCHANGED <<mode, setup, user, invite, made, issued, seen>>

SignOutDevices(c) ==
  /\ At(c, {"change"}, "signout")
  /\ token' = IF Exists(req[c].name)
              THEN Without(user[req[c].name].id, {}) ELSE token
  /\ Finish(c)
  /\ UNCHANGED <<mode, setup, user, invite, made, issued, seen>>

----------------------------------------------------------------------------
(* Approving, suspending and restoring. *)
SetState(c, s) ==
  /\ At(c, {"state"}, "act")
  /\ LET n == req[c].aim
     IN IF n = req[c].name /\ s # "active"
        THEN UNCHANGED <<user, seen>>
        ELSE /\ user' = IF Exists(n) THEN [user EXCEPT ![n].state = s]
                        ELSE user
             /\ seen' = IF Exists(n) /\ s = "active"
                        THEN [seen EXCEPT !.vouched = @ \cup {user[n].id}]
                        ELSE seen
  /\ Finish(c)
  /\ UNCHANGED <<mode, setup, token, invite, made, issued>>

(* Removing an account: what it is is read, then how many administrators   *)
(* there are, then it is erased with its tokens and invites.               *)
ReadTarget(c) ==
  /\ At(c, {"delete"}, "act")
  /\ LET u == user[req[c].aim]
     IN IF u = NoUser THEN Finish(c)
        ELSE Go(c, [req[c] EXCEPT !.at = IF u.admin THEN "admins"
                                         ELSE "erase"])
  /\ UNCHANGED <<tables, issued, seen>>

(* A bug: one administrator is taken for enough. *)
CountAdmins_Mutant(c) ==
  /\ At(c, {"delete"}, "admins")
  /\ IF Cardinality(Admins) < 1 THEN Finish(c)
     ELSE Go(c, [req[c] EXCEPT !.at = "erase"])
  /\ UNCHANGED <<tables, issued, seen>>

CountAdmins(c) ==
  /\ At(c, {"delete"}, "admins")
  /\ IF Cardinality(Admins) <= 1 THEN Finish(c)
     ELSE Go(c, [req[c] EXCEPT !.at = "erase"])
  /\ UNCHANGED <<tables, issued, seen>>

Erase(c) ==
  /\ At(c, {"delete"}, "erase")
  /\ LET n == req[c].aim
     IN IF ~Exists(n) THEN UNCHANGED <<user, token, invite>>
        ELSE /\ user' = [user EXCEPT ![n] = NoUser]
             /\ token' = Without(user[n].id, {})
             /\ invite' = [k \in Codes |->
                  IF invite[k].by = n /\ invite[k].state # "gone"
                  THEN [invite[k] EXCEPT !.state = "gone"] ELSE invite[k]]
  /\ Finish(c)
  /\ UNCHANGED <<mode, setup, made, issued, seen>>

CreateInvite(c, k, uses) ==
  /\ At(c, {"invite"}, "act")
  /\ invite[k] = NoInvite
  /\ invite' = [invite EXCEPT ![k] = [state |-> "live", used |-> 0,
                  max |-> uses, by |-> req[c].name]]
  /\ Finish(c)
  /\ UNCHANGED <<mode, setup, user, token, made, issued, seen>>

(* Revoking keeps the row, deleting does not. *)
EndInvite(c, k, end) ==
  /\ At(c, {"endinvite"}, "act")
  /\ invite[k].state \in {"live", "dead"}
  /\ invite' = [invite EXCEPT ![k].state = end]
  /\ Finish(c)
  /\ UNCHANGED <<mode, setup, user, token, made, issued, seen>>

OutliveInvite(k) ==
  /\ invite[k].state = "live"
  /\ invite' = [invite EXCEPT ![k].state = "dead"]
  /\ UNCHANGED <<mode, setup, user, token, made, req, issued, seen>>

----------------------------------------------------------------------------
(* The process stops: handlers are gone, and a setup token is minted if    *)
(* there is nobody to sign in.                                             *)
Restart ==
  /\ \E c \in Clients : req[c] # Idle
  /\ req' = [c \in Clients |-> Idle]
  /\ setup' = (\A n \in Names : ~Exists(n))
  /\ seen' = [seen EXCEPT
       !.torn = @ \cup {user[req[c].name].id :
                          c \in {d \in Clients : At(d, {"change"}, "signout")}},
       !.burnt = [k \in Codes |-> @[k] + Cardinality(
          {c \in Clients : req[c].aim = k /\ req[c].active})]]
  /\ UNCHANGED <<mode, user, token, invite, made, issued>>

Next ==
  \/ \E c \in Clients, t \in Tokens :
       \/ \E op \in Calls \ {"state", "delete"} : Present(c, t, op, Nothing)
       \/ \E op \in {"state", "delete"}, n \in Names : Present(c, t, op, n)
       \/ AddDevice(c, t)
       \/ RevokeDevice(c, t)
       \/ FirstDevice(c, t)
       \/ SignIn(c, t)
  \/ \E c \in Clients, n \in Names :
       \/ Bootstrap(c, n)
       \/ Login(c, n)
       \/ \E k \in Codes \cup {Nothing} : Signup(c, n, k)
  \/ \E c \in Clients :
       \/ Authorize(c)
       \/ RevokeAll(c)
       \/ CountUsers(c)
       \/ CreateAdmin(c)
       \/ ConsumeSetup(c)
       \/ CheckTaken(c)
       \/ RedeemInvite(c)
       \/ CreateMember(c)
       \/ RefundInvite(c)
       \/ ProvePassphrase(c)
       \/ LoadAccount(c)
       \/ WritePassphrase(c)
       \/ SignOutDevices(c)
       \/ \E s \in {"active", "pending", "suspended"} : SetState(c, s)
       \/ ReadTarget(c)
       \/ CountAdmins(c)
       \/ Erase(c)
       \/ \E k \in Codes, uses \in 1..MaxUses : CreateInvite(c, k, uses)
       \/ \E k \in Codes, end \in {"dead", "gone"} : EndInvite(c, k, end)
  \/ \E t \in Tokens : OutliveToken(t)
  \/ SweepTokens
  \/ \E k \in Codes : OutliveInvite(k)
  \/ Restart

(* A server nobody has set up, or one with its administrator, who has a    *)
(* device, and perhaps a member, who has another.                          *)
Fresh ==
  /\ setup = TRUE
  /\ user = [n \in Names |-> NoUser]
  /\ token = [t \in Tokens |-> Unminted]
  /\ made = 0

Row(i) == [id |-> i, admin |-> i = 1, state |-> "active", pass |-> 0]

Running ==
  /\ setup = FALSE
  /\ \E m \in 1..2 : \E name \in [1..m -> Names], key \in [1..m -> Tokens] :
       /\ \A i, j \in 1..m : i # j => name[i] # name[j] /\ key[i] # key[j]
       /\ made = m
       /\ user = [n \in Names |->
            IF \E i \in 1..m : name[i] = n
            THEN Row(CHOOSE i \in 1..m : name[i] = n) ELSE NoUser]
       /\ token = [t \in Tokens |->
            IF \E i \in 1..m : key[i] = t
            THEN [state |-> "live", pass |-> 0,
                  owner |-> CHOOSE i \in 1..m : key[i] = t] ELSE Unminted]

Init ==
  /\ mode \in {"approval", "invite", "closed"}
  /\ Fresh \/ Running
  /\ invite = [k \in Codes |-> NoInvite]
  /\ req = [c \in Clients |-> Idle]
  /\ issued = 0
  /\ seen = [late |-> {}, twins |-> FALSE, torn |-> {}, vouched |-> 1..made,
             joined |-> [k \in Codes |-> 0], burnt |-> [k \in Codes |-> 0]]

Spec == Init /\ [][Next]_vars

----------------------------------------------------------------------------
Ops == {"none", "bootstrap", "signup", "login"} \cup Calls

Steps == {"idle", "authorize", "act", "count", "create", "mint", "consume",
          "taken", "redeem", "refund", "load", "write", "signout", "admins",
          "erase"}

Requests == [op : Ops, at : Steps, name : Names \cup {Nobody},
             id : 0..MaxAccounts, pass : Versions,
             key : Tokens \cup {Nothing},
             aim : Names \cup Codes \cup {Nothing}, active : BOOLEAN]

(* The tables keep their types, and no two names share an account. *)
TypeOK ==
  /\ mode \in {"approval", "invite", "closed"}
  /\ setup \in BOOLEAN
  /\ user \in [Names -> {NoUser} \cup
       [id : Ids, admin : BOOLEAN, pass : Versions,
        state : {"active", "pending", "suspended"}]]
  /\ token \in [Tokens -> {Unminted} \cup
       [state : {"live", "expired", "gone"}, owner : Ids, pass : Versions]]
  /\ invite \in [Codes -> {NoInvite} \cup
       [state : {"live", "dead", "gone"}, used : 0..MaxUses,
        max : 1..MaxUses, by : Names]]
  /\ req \in [Clients -> Requests]
  /\ made \in 0..MaxAccounts /\ issued \in 0..MaxRequests
  /\ \A n \in Names : user[n].id <= made
  /\ \A m, n \in Names : Exists(m) /\ user[m].id = user[n].id => m = n

(* Where there are accounts there is someone to administer them            *)
(* (signup.rs:96-100, accounts.rs:189-191): no order of setting up,        *)
(* signing up and removing strands a server, unless it was set up twice at *)
(* once and so had two administrators to remove each other.                *)
AdministratorRemains ==
  (\E n \in Names : Exists(n)) /\ ~seen.twins => Admins # {}

(* A new passphrase ends what the old one bought (security.rs:170-171): a  *)
(* live token bought with an earlier one belongs to a change that is not   *)
(* over, or that the process did not live to finish, or was minted by a    *)
(* handler that had proved the old one before.                             *)
RotationSignsOut ==
  \A t \in Tokens, n \in Names :
    Live(t) /\ token[t].owner = user[n].id /\ token[t].pass < user[n].pass
      => \/ t \in seen.late
         \/ user[n].id \in seen.torn
         \/ \E c \in Clients : At(c, {"change"}, "signout") /\ req[c].name = n

(* Every use of an invite is an account that came in by it, a signup still *)
(* under way, or one the process did not live to finish: a lost race for a *)
(* name hands the use back (signup.rs:150-160), and none is sold twice.    *)
InviteUsesAddUp ==
  \A k \in Codes : invite[k].state \in {"live", "dead"} =>
    /\ invite[k].used = seen.joined[k] + seen.burnt[k] +
         Cardinality({c \in Clients : req[c].aim = k /\ req[c].active})
    /\ invite[k].used <= invite[k].max

(* A device is only ever given to an account that was let in, by the setup *)
(* token, an invite or an administrator, unless the account a handler had  *)
(* checked was erased and its name taken before the token was minted.      *)
TokensNeedAdmission ==
  \A t \in Tokens :
    token[t] # Unminted =>
      token[t].owner \in seen.vouched \/ t \in seen.late

(* Erasure leaves nothing behind (erasure.rs:40-42): no token without an *)
(* account, and no invite without its maker while there is one             *)
(* administrator, whatever was under way when the account went.            *)
ErasureIsComplete ==
  /\ \A t \in Tokens :
       token[t].state \in {"live", "expired"} => Holder(token[t].owner) # {}
  /\ \A k \in Codes :
       invite[k].state \in {"live", "dead"} /\ ~seen.twins
         => Exists(invite[k].by)

(* Nobody is let in but by the setup token, an invite or an administrator  *)
(* (signup.rs:96-160, sign_in.rs), every use of an invite is somebody, and *)
(* whoever is erased is out (erasure.rs:40-42): however signups,           *)
(* approvals, erasures and restarts cross, tokens go to accounts that were *)
(* let in and are there, and invites are neither lost nor sold twice.      *)
AdmissionIsEarned ==
  TypeOK /\ TokensNeedAdmission /\ InviteUsesAddUp /\ ErasureIsComplete
=============================================================================
