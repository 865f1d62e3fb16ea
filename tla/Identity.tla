------------------------------ MODULE Identity ------------------------------
(***************************************************************************)
(* The ways into an account besides its passphrase: the second factor with *)
(* its recovery codes (db_identity/totp.rs, schema_social/second_factor.rs *)
(* and the step of login/sign_in.rs that asks for it), and identities of   *)
(* an outside provider (oidc/, db_identity/federated.rs).                  *)
(*                                                                         *)
(* As in Accounts a handler is a chain of database calls, and rows are     *)
(* found by name.  The bearer check and the guards that only read the same *)
(* account are one step here.  A code of the authenticator is its secret   *)
(* and its time step; a set of recovery codes, of which each works once,   *)
(* has one member.  What the provider answers is a subject or a failure.   *)
(* change_passphrase, which would mark a passphrase usable, needs the old  *)
(* one proved and so changes nothing here.                                 *)
(***************************************************************************)
EXTENDS Integers, FiniteSets

CONSTANTS
  Names, Clients, Subjects,
  Nobody,              \* no name
  Nothing,             \* no subject
  MaxTokens,           \* bound: device tokens minted in all
  MaxSecrets,          \* bound: secrets of an authenticator
  MaxCodes,            \* bound: recovery codes
  MaxFlows,            \* bound: sign-ins started with the provider
  MaxRequests,         \* bound: handlers called, erasures and signups in all
  MaxAccounts,         \* bound: accounts created in all
  MaxStep              \* bound: time steps of thirty seconds

ASSUME IdentityAssumption ==
  /\ Nobody \notin Names \cup Clients
  /\ Nothing \notin Subjects
  /\ MaxTokens \in Nat \ {0} /\ MaxSecrets \in Nat \ {0}
  /\ MaxCodes \in Nat \ {0} /\ MaxFlows \in Nat
  /\ MaxRequests \in Nat /\ MaxAccounts \in Nat \ {0} /\ MaxStep \in Nat \ {0}

VARIABLES
  opens,    \* what a new identity gets: nothing while signups are closed,
            \* an account at once, or one that waits for approval
  strict,   \* AGRO_REQUIRE_TOTP_ADMIN
  clock,    \* the current time step
  user,     \* users, with the unspent recovery codes of every account
  link,     \* federated_identities: the account of every subject, or 0
  token,    \* app_passwords
  flow,     \* FlowStore, in memory
  req,      \* the handler every client is in
  used,     \* how many secrets and recovery codes were minted so far
  made,     \* accounts created so far, which is the last id given out
  issued,   \* handlers called so far
  past      \* what the properties remember; the code does not

config == <<opens, strict>>
tables == <<config, clock, user, link, token, flow, used, made>>
identityVars == <<tables, req, issued, past>>

UserIds == 1..MaxAccounts
Tokens == 1..MaxTokens
Secrets == 1..MaxSecrets
Recovery == 1..MaxCodes
Flows == 1..MaxFlows
Window == {s \in 1..MaxStep : s \in (clock - 1)..(clock + 1)}

(* `shown`, which no column holds: somebody was told the passphrase. *)
NoUser == [id |-> 0, admin |-> FALSE, active |-> FALSE, usable |-> FALSE,
           shown |-> FALSE, secret |-> 0, confirmed |-> FALSE,
           last |-> 0, codes |-> {}]
Exists(n) == user[n] # NoUser
Holder(i) == {n \in Names : user[n].id = i /\ i # 0}
Links(n) == {s \in Subjects : Exists(n) /\ link[s] = user[n].id}
Owes(n) == strict /\ user[n].admin /\ ~user[n].confirmed

Unminted == [state |-> "unminted", owner |-> 0, how |-> "none"]
NoFlow == [state |-> "none", to |-> Nobody, by |-> 0]

Idle == [op |-> "none", at |-> "idle", name |-> Nobody, id |-> 0,
         key |-> 0, secret |-> 0, step |-> 0,
         subject |-> Nothing, factor |-> FALSE]

At(c, ops, step) == req[c].op \in ops /\ req[c].at = step
Go(c, r) == req' = [req EXCEPT ![c] = r]
On(c, step) == Go(c, [req[c] EXCEPT !.at = step])
Finish(c) == Go(c, Idle)
Me(c) == req[c].name

Counted == issued < MaxRequests /\ issued' = issued + 1
Begin(c, r) == req[c] = Idle /\ Counted /\ Go(c, r)

(* A handler of n's enrolment, other than c's, that has checked and not    *)
(* written, and one of an unlinking: what the properties allow for.        *)
Enrolling(n, c) == \E d \in Clients \ {c} :
  Me(d) = n /\ req[d].at \in {"write", "unconfirmed", "enrol"}
Unlinking(n, c) == \E d \in Clients \ {c} :
  Me(d) = n /\ req[d].at \in {"usable", "delete"}
Crossed(c) == past' = IF Enrolling(Me(c), c)
  THEN [past EXCEPT !.crossed = @ \cup {user[Me(c)].id}] ELSE past

(* A new account takes the name that such a handler was called with.       *)
Taken(n, c) == [past EXCEPT
  !.crossed = IF Enrolling(n, c) THEN @ \cup {made + 1} ELSE @,
  !.parted = IF Unlinking(n, c) THEN @ \cup {made + 1} ELSE @]

----------------------------------------------------------------------------
(* A call with a device token.  An administrator who owes a second factor  *)
(* may only enrol one, and may not switch it off where it is required.     *)
FirstStep == [begin |-> "fresh", confirm |-> "sealed", disable |-> "read",
              regenerate |-> "read", unlink |-> "count"]

Present(c, t, op, s) ==
  /\ token[t].state = "live"
  /\ \E n \in Holder(token[t].owner) :
       /\ user[n].active
       /\ Owes(n) => op \in {"begin", "confirm"}
       /\ ~(op = "disable" /\ strict /\ user[n].admin)
       /\ Begin(c, [Idle EXCEPT !.op = op, !.at = FirstStep[op], !.name = n,
                                !.key = t, !.subject = s])
  /\ UNCHANGED <<tables, past>>

(* A bug: a second factor that is on is not looked at. *)
CheckFresh_Mutant(c) ==
  /\ At(c, {"begin"}, "fresh")
  /\ On(c, "write")
  /\ UNCHANGED <<tables, issued, past>>

(* begin_totp_enrolment: a confirmed one is refused, then the secret is    *)
(* written over whatever is there.                                         *)
CheckFresh(c) ==
  /\ At(c, {"begin"}, "fresh")
  /\ IF user[Me(c)].confirmed THEN Finish(c) ELSE On(c, "write")
  /\ UNCHANGED <<tables, issued, past>>

WriteSecret(c) ==
  /\ At(c, {"begin"}, "write")
  /\ used.secrets < MaxSecrets
  /\ used' = [used EXCEPT !.secrets = @ + 1]
  /\ user' = IF Exists(Me(c))
             THEN [user EXCEPT ![Me(c)] = [@ EXCEPT !.secret = used.secrets + 1,
                                 !.confirmed = FALSE, !.last = 0]]
             ELSE user
  /\ Finish(c)
  /\ Crossed(c)
  /\ UNCHANGED <<config, clock, link, token, flow, made, issued>>

(* confirm_totp_enrolment: the secret is read, then that it is not         *)
(* confirmed, and a code of the secret that was read is checked.           *)
ReadSealed(c) ==
  /\ At(c, {"confirm"}, "sealed")
  /\ LET k == user[Me(c)].secret
     IN IF k = 0 THEN Finish(c)
        ELSE Go(c, [req[c] EXCEPT !.at = "unconfirmed", !.secret = k])
  /\ UNCHANGED <<tables, issued, past>>

EnterFirstCode(c, step) ==
  /\ At(c, {"confirm"}, "unconfirmed")
  /\ step \in Window
  /\ IF user[Me(c)].confirmed THEN Finish(c)
     ELSE Go(c, [req[c] EXCEPT !.at = "enrol", !.step = step])
  /\ UNCHANGED <<tables, issued, past>>

Enrol(c) ==
  /\ At(c, {"confirm"}, "enrol")
  /\ used.codes < MaxCodes
  /\ IF Exists(Me(c))
     THEN /\ used' = [used EXCEPT !.codes = @ + 1]
          /\ user' = [user EXCEPT ![Me(c)] = [@ EXCEPT !.confirmed = TRUE,
                        !.last = req[c].step, !.codes = {used.codes + 1}]]
          /\ On(c, "signout")
          /\ past' = [past EXCEPT
               !.proved = @ \cup {req[c].secret},
               !.spared = @ \cup {req[c].key},
               !.crossed = IF Enrolling(Me(c), c)
                           THEN @ \cup {user[Me(c)].id} ELSE @]
     ELSE Finish(c) /\ UNCHANGED <<used, user, past>>
  /\ UNCHANGED <<config, clock, link, token, flow, made, issued>>

SignOutOthers(c) ==
  /\ At(c, {"confirm"}, "signout")
  /\ token' = [t \in Tokens |->
       IF Exists(Me(c)) /\ token[t].owner = user[Me(c)].id /\ t # req[c].key
       THEN [token[t] EXCEPT !.state = "gone"] ELSE token[t]]
  /\ Finish(c)
  /\ UNCHANGED <<config, clock, user, link, flow, used, made, issued, past>>

----------------------------------------------------------------------------
(* verify_totp, which signing in, switching off and reissuing all go       *)
(* through: the secret, then whether it is confirmed, then the code.       *)
Verifying == {"login", "disable", "regenerate"}
AfterProof == [login |-> "mint", disable |-> "clear",
               regenerate |-> "reissue"]

ReadSecret(c) ==
  /\ At(c, Verifying, "read")
  /\ LET k == user[Me(c)].secret
     IN IF k = 0 THEN Finish(c)
        ELSE Go(c, [req[c] EXCEPT !.at = "confirmed", !.secret = k])
  /\ UNCHANGED <<tables, issued, past>>

ReadConfirmed(c) ==
  /\ At(c, Verifying, "confirmed")
  /\ IF user[Me(c)].confirmed THEN On(c, "code") ELSE Finish(c)
  /\ UNCHANGED <<tables, issued, past>>

Proved(c) == Go(c, [req[c] EXCEPT !.at = AfterProof[req[c].op],
                                  !.factor = TRUE])

SpendRecovery(c, k) ==
  /\ At(c, Verifying, "code")
  /\ k \in user[Me(c)].codes
  /\ user' = [user EXCEPT ![Me(c)].codes = @ \ {k}]
  /\ Proved(c)
  /\ UNCHANGED <<config, clock, link, token, flow, used, made, issued, past>>

Fresh(n, step) == user[n].last < step

(* The step must be later than the one accepted last, which the same       *)
(* statement checks and writes.                                            *)
EnterCode(c, step) ==
  /\ At(c, Verifying, "code")
  /\ step \in Window
  /\ LET n == Me(c) IN
     IF Exists(n) /\ Fresh(n, step)
     THEN /\ user' = [user EXCEPT ![n].last = step]
          /\ Proved(c)
          /\ past' = [past EXCEPT
               !.accepted = @ \cup {<<req[c].secret, step>>},
               !.twice = @ \/ /\ user[n].confirmed
                              /\ user[n].secret = req[c].secret
                              /\ <<req[c].secret, step>> \in past.accepted]
     ELSE Finish(c) /\ UNCHANGED <<user, past>>
  /\ UNCHANGED <<config, clock, link, token, flow, used, made, issued>>

(* disable_totp and regenerate_recovery_codes, the code proved. *)
Clear(c) ==
  /\ At(c, {"disable"}, "clear")
  /\ user' = IF Exists(Me(c))
             THEN [user EXCEPT ![Me(c)] = [@ EXCEPT !.secret = 0,
                     !.confirmed = FALSE, !.last = 0, !.codes = {}]]
             ELSE user
  /\ Finish(c)
  /\ Crossed(c)
  /\ UNCHANGED <<config, clock, link, token, flow, used, made, issued>>

Reissue(c) ==
  /\ At(c, {"regenerate"}, "reissue")
  /\ used.codes < MaxCodes
  /\ IF Exists(Me(c))
     THEN /\ user' = [user EXCEPT ![Me(c)].codes = {used.codes + 1}]
          /\ used' = [used EXCEPT !.codes = @ + 1]
     ELSE UNCHANGED <<user, used>>
  /\ Finish(c)
  /\ UNCHANGED <<config, clock, link, token, flow, made, issued, past>>

----------------------------------------------------------------------------
(* Signing in with the passphrase: it is proved and the account is active, *)
(* then a confirmed second factor is asked for.                            *)
Login(c, n) ==
  /\ user[n].shown /\ user[n].active
  /\ Begin(c, [Idle EXCEPT !.op = "login", !.at = "needs", !.name = n,
                           !.id = user[n].id])
  /\ UNCHANGED <<tables, past>>

NeedsCode(c) ==
  /\ At(c, {"login"}, "needs")
  /\ On(c, IF user[Me(c)].confirmed THEN "read" ELSE "mint")
  /\ UNCHANGED <<tables, issued, past>>

Mint(c, t) ==
  /\ At(c, {"login", "callback"}, "mint")
  /\ token[t] = Unminted /\ \A u \in 1..(t - 1) : token[u] # Unminted
  /\ IF Exists(Me(c))
     THEN /\ token' = [token EXCEPT ![t] = [state |-> "live",
               owner |-> user[Me(c)].id,
               how |-> IF req[c].op = "callback" THEN "provider"
                       ELSE IF req[c].factor THEN "factor" ELSE "plain"]]
          /\ past' = IF user[Me(c)].confirmed
                     THEN [past EXCEPT !.late = @ \cup {t}] ELSE past
     ELSE UNCHANGED <<token, past>>
  /\ Finish(c)
  /\ UNCHANGED <<config, clock, user, link, flow, used, made, issued>>

----------------------------------------------------------------------------
(* The provider.  A flow is remembered with the account it is to link, if  *)
(* it was started from a session; `by`, that account's id, is not kept.    *)
Unstarted(f) == flow[f] = NoFlow /\ \A g \in 1..(f - 1) : flow[g] # NoFlow

Start(f) ==
  /\ Unstarted(f)
  /\ Counted
  /\ flow' = [flow EXCEPT ![f].state = "live"]
  /\ UNCHANGED <<config, clock, user, link, token, used, made, req, past>>

StartLink(t, f) ==
  /\ token[t].state = "live"
  /\ Unstarted(f)
  /\ Counted
  /\ \E n \in Holder(token[t].owner) :
       /\ user[n].active
       /\ flow' = [flow EXCEPT ![f] =
            [state |-> "live", to |-> n, by |-> user[n].id]]
  /\ UNCHANGED <<config, clock, user, link, token, used, made, req, past>>

ExpireFlow(f) ==
  /\ flow[f].state = "live"
  /\ flow' = [flow EXCEPT ![f].state = "gone"]
  /\ UNCHANGED <<config, clock, user, link, token, used, made, req, issued,
                 past>>

(* The flow is taken before the provider is asked, and works once. *)
Callback(c, f) ==
  /\ flow[f].state = "live"
  /\ Begin(c, [Idle EXCEPT
       !.op = IF flow[f].to = Nobody THEN "callback" ELSE "link",
       !.at = "exchange", !.name = flow[f].to, !.id = flow[f].by])
  /\ flow' = [flow EXCEPT ![f].state = "gone"]
  /\ UNCHANGED <<config, clock, user, link, token, used, made, past>>

Exchange(c, s) ==
  /\ At(c, {"callback", "link"}, "exchange")
  /\ IF s = Nothing THEN Finish(c) /\ UNCHANGED past
     ELSE /\ Go(c, [req[c] EXCEPT !.subject = s,
                      !.at = IF req[c].op = "link" THEN "lookup"
                             ELSE "known"])
          /\ past' = IF req[c].op = "link"
                     THEN [past EXCEPT !.consent = @ \cup {<<s, req[c].id>>}]
                     ELSE past
  /\ UNCHANGED <<tables, issued>>

(* finish_sign_in: a linked subject signs its account in, any other one    *)
(* becomes a new account under a name nobody has.                          *)
KnownSubject(c) ==
  /\ At(c, {"callback"}, "known")
  /\ IF Holder(link[req[c].subject]) # {}
     THEN \E n \in Holder(link[req[c].subject]) :
            IF user[n].active
            THEN Go(c, [req[c] EXCEPT !.at = "mint", !.name = n,
                                      !.id = user[n].id])
            ELSE Finish(c)
     ELSE IF opens = "nothing" THEN Finish(c)
     ELSE \/ \E n \in Names :
               ~Exists(n) /\ Go(c, [req[c] EXCEPT !.at = "create",
                                                  !.name = n])
          \/ (\A n \in Names : Exists(n)) /\ Finish(c)
  /\ UNCHANGED <<tables, issued, past>>

(* create_account_for: the account, that nobody was told its passphrase,   *)
(* then the link, each by itself.                                          *)
CreateFor(c) ==
  /\ At(c, {"callback"}, "create")
  /\ made < MaxAccounts
  /\ IF Exists(Me(c)) THEN Finish(c) /\ UNCHANGED <<user, made, past>>
     ELSE /\ made' = made + 1
          /\ user' = [user EXCEPT ![Me(c)] = [NoUser EXCEPT !.id = made + 1,
                        !.active = (opens = "account"), !.usable = TRUE]]
          /\ Go(c, [req[c] EXCEPT !.at = "mark", !.id = made + 1])
          /\ past' = [Taken(Me(c), c) EXCEPT
               !.consent = @ \cup {<<req[c].subject, made + 1>>}]
  /\ UNCHANGED <<config, clock, link, token, flow, used, issued>>

MarkUnusable(c) ==
  /\ At(c, {"callback"}, "mark")
  /\ user' = IF Exists(Me(c)) THEN [user EXCEPT ![Me(c)].usable = FALSE]
             ELSE user
  /\ On(c, "lookup")
  /\ UNCHANGED <<config, clock, link, token, flow, used, made, issued, past>>

Unlinked(c) == [past EXCEPT !.orphans =
  IF req[c].op = "callback" THEN @ \cup {req[c].id} ELSE @]

LookupLink(c) ==
  /\ At(c, {"callback", "link"}, "lookup")
  /\ IF Holder(link[req[c].subject]) = {}
     THEN On(c, "insert") /\ UNCHANGED past
     ELSE Finish(c) /\ past' = Unlinked(c)
  /\ UNCHANGED <<tables, issued>>

(* The insert fails when the subject is linked by now. *)
InsertLink(c) ==
  /\ At(c, {"callback", "link"}, "insert")
  /\ LET s == req[c].subject
         u == user[Me(c)]
     IN IF link[s] # 0 \/ ~Exists(Me(c))
        THEN Finish(c) /\ UNCHANGED link /\ past' = Unlinked(c)
        ELSE /\ link' = [link EXCEPT ![s] = u.id]
             /\ IF req[c].op = "callback" /\ opens = "account"
                THEN On(c, "mint")
                ELSE Finish(c)
             /\ past' = IF req[c].id \notin {0, u.id}
                  THEN [past EXCEPT !.strayed = @ \cup {s}] ELSE past
  /\ UNCHANGED <<config, clock, user, token, flow, used, made, issued>>

(* unlink_federated_identity: the identities are counted, the passphrase   *)
(* is looked at if this is the last, and the row goes.                     *)
CountLinks(c) ==
  /\ At(c, {"unlink"}, "count")
  /\ On(c, IF Cardinality(Links(Me(c))) <= 1 THEN "usable" ELSE "delete")
  /\ UNCHANGED <<tables, issued, past>>

(* A passphrase nobody was told is usable until its account is marked.     *)
Unmarked(c) == IF user[Me(c)].usable /\ ~user[Me(c)].shown
  THEN [past EXCEPT !.parted = @ \cup {user[Me(c)].id}] ELSE past

(* A bug: the last identity may go whatever the passphrase. *)
CheckUsable_Mutant(c) ==
  /\ At(c, {"unlink"}, "usable")
  /\ On(c, "delete")
  /\ UNCHANGED <<tables, issued, past>>

CheckUsable(c) ==
  /\ At(c, {"unlink"}, "usable")
  /\ IF user[Me(c)].usable \/ ~Exists(Me(c)) THEN On(c, "delete")
     ELSE Finish(c)
  /\ past' = Unmarked(c)
  /\ UNCHANGED <<tables, issued>>

DeleteLink(c) ==
  /\ At(c, {"unlink"}, "delete")
  /\ link' = IF req[c].subject \in Links(Me(c))
             THEN [link EXCEPT ![req[c].subject] = 0] ELSE link
  /\ Finish(c)
  /\ past' = IF Unlinking(Me(c), c)
             THEN [past EXCEPT !.parted = @ \cup {user[Me(c)].id}] ELSE past
  /\ UNCHANGED <<config, clock, user, token, flow, used, made, issued>>

----------------------------------------------------------------------------
(* What Accounts does to these tables: an account is erased with all that  *)
(* is its, or somebody signs up and is told a passphrase.                  *)
Erase(n) ==
  /\ Exists(n)
  /\ Counted
  /\ user' = [user EXCEPT ![n] = NoUser]
  /\ link' = [s \in Subjects |->
                IF link[s] = user[n].id THEN 0 ELSE link[s]]
  /\ token' = [t \in Tokens |-> IF token[t].owner = user[n].id
                 THEN [token[t] EXCEPT !.state = "gone"] ELSE token[t]]
  /\ UNCHANGED <<config, clock, flow, used, made, req, past>>

Join(n) ==
  /\ ~Exists(n) /\ made < MaxAccounts
  /\ Counted
  /\ made' = made + 1
  /\ user' = [user EXCEPT ![n] = [NoUser EXCEPT !.id = made + 1,
                !.active = TRUE, !.usable = TRUE, !.shown = TRUE]]
  /\ past' = Taken(n, Nobody)
  /\ UNCHANGED <<config, clock, link, token, flow, used, req>>

Tick ==
  /\ clock < MaxStep
  /\ clock' = clock + 1
  /\ UNCHANGED <<config, user, link, token, flow, used, made, req, issued,
                 past>>

(* The process stops: handlers and started flows are gone. *)
Restart ==
  /\ \E c \in Clients : req[c] # Idle
  /\ req' = [c \in Clients |-> Idle]
  /\ flow' = [f \in Flows |-> IF flow[f] = NoFlow THEN NoFlow
                              ELSE [flow[f] EXCEPT !.state = "gone"]]
  /\ past' = [past EXCEPT
       !.torn = @ \cup {user[Me(c)].id : c \in {d \in Clients :
                          At(d, {"confirm"}, "signout")}},
       !.orphans = @ \cup {req[c].id : c \in {d \in Clients :
                   At(d, {"callback"}, req[d].at) /\ req[d].id # 0}}]
  /\ UNCHANGED <<config, clock, user, link, token, used, made, issued>>

IdentityNext ==
  \/ \E c \in Clients, t \in Tokens :
       \/ \E op \in {"begin", "confirm", "disable", "regenerate"} :
            Present(c, t, op, Nothing)
       \/ \E s \in Subjects : Present(c, t, "unlink", s)
       \/ Mint(c, t)
  \/ \E c \in Clients :
       \/ CheckFresh(c)
       \/ WriteSecret(c)
       \/ ReadSealed(c)
       \/ \E step \in 1..MaxStep : EnterFirstCode(c, step)
       \/ Enrol(c)
       \/ SignOutOthers(c)
       \/ ReadSecret(c)
       \/ ReadConfirmed(c)
       \/ \E k \in Recovery : SpendRecovery(c, k)
       \/ \E step \in 1..MaxStep : EnterCode(c, step)
       \/ Clear(c)
       \/ Reissue(c)
       \/ \E n \in Names : Login(c, n)
       \/ NeedsCode(c)
       \/ \E f \in Flows : Callback(c, f)
       \/ \E s \in Subjects \cup {Nothing} : Exchange(c, s)
       \/ KnownSubject(c)
       \/ CreateFor(c)
       \/ MarkUnusable(c)
       \/ LookupLink(c)
       \/ InsertLink(c)
       \/ CountLinks(c)
       \/ CheckUsable(c)
       \/ DeleteLink(c)
  \/ \E f \in Flows :
       \/ Start(f)
       \/ \E t \in Tokens : StartLink(t, f)
       \/ ExpireFlow(f)
  \/ \E n \in Names : Erase(n) \/ Join(n)
  \/ Tick
  \/ Restart

(* One account: its owner knows the passphrase or came by the provider,    *)
(* has a session, and may have a second factor and any identities linked.  *)
(* It is an administrator where those have to have a second factor; where  *)
(* they need not they are like anyone else here.                           *)
IdentityInit ==
  /\ opens \in {"nothing", "account", "pending"}
  /\ strict \in BOOLEAN
  /\ clock = 1
  /\ \E n \in Names, shown, on \in BOOLEAN, own \in SUBSET Subjects :
       /\ strict => shown
       /\ shown \/ own # {}
       /\ user = [m \in Names |-> IF m # n THEN NoUser
            ELSE [NoUser EXCEPT !.id = 1, !.admin = strict, !.active = TRUE,
                                !.usable = shown, !.shown = shown,
                                !.secret = IF on THEN 1 ELSE 0,
                                !.confirmed = on,
                                !.codes = IF on THEN {1} ELSE {}]]
       /\ link = [s \in Subjects |-> IF s \in own THEN 1 ELSE 0]
       /\ token = [t \in Tokens |-> IF t = 1
            THEN [state |-> "live", owner |-> 1,
                  how |-> IF on THEN "factor" ELSE "plain"]
            ELSE Unminted]
       /\ used = [secrets |-> IF on THEN 1 ELSE 0,
                  codes |-> IF on THEN 1 ELSE 0]
       /\ past = [crossed |-> {}, proved |-> IF on THEN {1} ELSE {},
                  spared |-> {}, late |-> {}, torn |-> {},
                  accepted |-> {}, twice |-> FALSE,
                  consent |-> own \X {1}, strayed |-> {}, orphans |-> {},
                  parted |-> {}]
  /\ flow = [f \in Flows |-> NoFlow]
  /\ req = [c \in Clients |-> Idle]
  /\ made = 1 /\ issued = 0

IdentitySpec == IdentityInit /\ [][IdentityNext]_identityVars

----------------------------------------------------------------------------
Ops == {"none", "link", "callback", "login"} \cup DOMAIN FirstStep

Steps == {"idle", "fresh", "write", "sealed", "unconfirmed", "enrol",
          "signout", "read", "confirmed", "code", "clear", "reissue",
          "needs", "mint", "exchange", "known", "create", "mark", "lookup",
          "insert", "count", "usable", "delete"}

(* The tables and every handler keep their types, and an id is one name's. *)
IdentityTypeOK ==
  /\ opens \in {"nothing", "account", "pending"} /\ strict \in BOOLEAN
  /\ clock \in 1..MaxStep
  /\ user \in [Names -> {NoUser} \cup
       [id : UserIds, admin : BOOLEAN, active : BOOLEAN, usable : BOOLEAN,
        shown : BOOLEAN, secret : 0..MaxSecrets,
        confirmed : BOOLEAN, last : 0..MaxStep, codes : SUBSET Recovery]]
  /\ link \in [Subjects -> 0..MaxAccounts]
  /\ token \in [Tokens -> {Unminted} \cup
       [state : {"live", "gone"}, owner : UserIds,
        how : {"plain", "factor", "provider"}]]
  /\ flow \in [Flows -> [state : {"none", "live", "gone"},
                         to : Names \cup {Nobody}, by : 0..MaxAccounts]]
  /\ req \in [Clients -> [op : Ops, at : Steps, name : Names \cup {Nobody},
       id : 0..MaxAccounts, key : 0..MaxTokens,
       secret : 0..MaxSecrets, step : 0..MaxStep,
       subject : Subjects \cup {Nothing}, factor : BOOLEAN]]
  /\ used \in [secrets : 0..MaxSecrets, codes : 0..MaxCodes]
  /\ made \in 0..MaxAccounts /\ issued \in 0..MaxRequests
  /\ \A m, n \in Names : Exists(m) /\ user[m].id = user[n].id => m = n

(* A second factor shuts out whoever had only the passphrase               *)
(* (totp.rs:30-33): once it is confirmed a live token was minted with it   *)
(* or by the provider, or is the one that enrolled, or was under way while *)
(* the factor was being confirmed.                                         *)
SecondFactorGuards ==
  \A t \in Tokens, n \in Names :
    /\ token[t].state = "live" /\ token[t].owner = user[n].id
    /\ user[n].confirmed /\ token[t].how = "plain"
    => \/ t \in past.late \cup past.spared
       \/ user[n].id \in past.torn
       \/ \E c \in Clients : At(c, {"confirm"}, "signout") /\ Me(c) = n

(* No code of the authenticator in force works twice (totp.rs:134-136),    *)
(* whichever handlers present it and when, unless two enrolments of the    *)
(* account crossed and one wrote over the other's step.                    *)
CodesWorkOnce == past.twice => past.crossed # {}

(* A second factor stays on, with the secret whose code was seen, until a  *)
(* handler that proved it switches it off or the account goes, unless two  *)
(* enrolments crossed, or one crossed with the end of an account of the    *)
(* same name (totp.rs:11-12).                                              *)
FactorIsKept == \A n \in Names :
  user[n].confirmed /\ user[n].id \notin past'.crossed
    => /\ user[n].secret \in past.proved
       /\ \/ user'[n].confirmed /\ user'[n].secret = user[n].secret
          \/ user'[n].id # user[n].id
          \/ \E c \in Clients : At(c, {"disable"}, "clear") /\ Me(c) = n

FactorStands == [][FactorIsKept]_identityVars

(* A subject is linked only to an account made for it or from whose        *)
(* session the linking was started (totp.rs:263-267), unless that account  *)
(* was erased and its name taken while the provider was being asked.       *)
LinksAreConsented ==
  \A s \in Subjects :
    link[s] = 0 \/ <<s, link[s]>> \in past.consent \/ s \in past.strayed

(* An account always has a way in, a passphrase somebody was told or a     *)
(* linked identity (federated.rs:74-76), unless two of its identities were *)
(* unlinked at once, it was made under an unlinking or its creation did    *)
(* not get as far as the link.                                             *)
SomeWayIn ==
  \A n \in Names : Exists(n) =>
    \/ user[n].shown \/ Links(n) # {}
    \/ user[n].id \in past.parted \cup past.orphans
    \/ \E c \in Clients : req[c].op = "callback" /\ req[c].id = user[n].id

(* A second factor holds against whoever lacks it: it shuts out the tokens *)
(* bought without it (totp.rs:30-33) and no code of it works twice         *)
(* (totp.rs:134-136).                                                      *)
SecondFactorHolds == SecondFactorGuards /\ CodesWorkOnce

(* It guards, and it stays until somebody who proved it ends it.           *)
FactorHolds == []SecondFactorHolds /\ FactorStands

(* Whose account it is: identities are linked only where their owner asked *)
(* (totp.rs:263-267), and every account has a way in (federated.rs:74-76). *)
AccountsKeepTheirOwner == IdentityTypeOK /\ LinksAreConsented /\ SomeWayIn
=============================================================================
