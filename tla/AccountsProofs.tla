--------------------------- MODULE AccountsProofs ---------------------------
(***************************************************************************)
(* Whoever holds a token was let in, a new passphrase signs the others     *)
(* out, and a server keeps its administrator, for any number of names,     *)
(* handlers, tokens and invites.                                           *)
(*                                                                         *)
(* A handler acts on what it read one or more steps ago, so the invariant  *)
(* says what is still true of it: that an id is never given out twice,     *)
(* that whoever was active when it was read had been let in, and that, of  *)
(* one administrator, nobody is about to erase it.                         *)
(***************************************************************************)
EXTENDS Accounts, FiniteSetTheorems, TLAPS

Rows == {NoUser} \cup [id : Ids, admin : BOOLEAN, pass : Versions,
                       state : {"active", "pending", "suspended"}]
TokenRows == {Unminted} \cup
  [state : {"live", "expired", "gone"}, owner : Ids, pass : Versions]
InviteRows == {NoInvite} \cup
  [state : {"live", "dead", "gone"}, used : 0..MaxUses, max : 1..MaxUses, by : Names]
Memory == [late : SUBSET Tokens, twins : BOOLEAN, torn : SUBSET Nat,
           vouched : SUBSET Nat, joined : [Codes -> Nat], burnt : [Codes -> Nat]]

(* Handlers that have taken a use of an invite. *)
Using(k) == {c \in Clients : req[c].aim = k /\ req[c].active}

(* What is true of a handler r, whenever it read what it holds. *)
WellFormed(r) ==
  /\ r \in Requests
  /\ r.op # "none" => r.name \in Names
  /\ r.op \in {"state", "delete"} => r.aim \in Names
  /\ r.op = "signup" => r.aim \in Codes \cup {Nothing}
  /\ r.op = "signup" /\ r.at = "redeem" => r.aim \in Codes
  /\ r.op = "signup" /\ r.at = "refund" => r.active
  /\ r.active => r.op = "signup" /\ r.at \in {"create", "refund"} /\ r.aim \in Codes

Fit(r) ==
  /\ WellFormed(r)
  /\ r.op \in Calls \cup {"signup"} => made > 0
  /\ r.id <= made
  /\ r.op = "login" => r.id > 0
  /\ \/ r.op = "device" /\ r.at = "act"
     \/ r.op = "bootstrap" /\ r.at = "mint"
     \/ r.op = "login" /\ r.at = "mint" /\ user[r.name].id = r.id
     => r.id \in seen.vouched
  /\ ~seen.twins => /\ r.op = "delete" /\ r.at = "erase" => r.aim \notin Admins
                    /\ r.op = "invite" /\ r.at = "act" => r.name \in Admins

Handlers == \A c \in Clients : Fit(req[c])

Vouching == \A n \in Names : user[n].state = "active" => user[n].id \in seen.vouched

OneAdmin == ~seen.twins => made = 0 \/ \E a \in Names : Admins = {a}

Unsold == \A k \in Codes : invite[k] = NoInvite =>
            seen.joined[k] = 0 /\ seen.burnt[k] = 0 /\ Using(k) = {}

IInv == /\ TypeOK /\ seen \in Memory /\ Handlers /\ Vouching /\ OneAdmin
        /\ Unsold /\ InviteUsesAddUp
        /\ TokensNeedAdmission /\ RotationSignsOut /\ ErasureIsComplete

----------------------------------------------------------------------------
LEMMA ConstantsAre ==
  /\ MaxRequests \in Nat /\ MaxAccounts \in Nat /\ MaxAccounts >= 2 /\ MaxUses \in Nat \ {0}
  /\ MaxChanges \in Nat /\ IsFiniteSet(Clients)
  /\ Nobody \notin Names /\ Nothing \notin Codes /\ Nothing \notin Tokens
BY AccountsAssumption

LEMMA TypesAre ==
  ASSUME TypeOK
  PROVE  /\ user \in [Names -> Rows] /\ token \in [Tokens -> TokenRows]
         /\ invite \in [Codes -> InviteRows] /\ req \in [Clients -> Requests]
         /\ made \in Nat /\ made \in 0..MaxAccounts
         /\ \A n \in Names : /\ user[n].id \in Nat /\ user[n].pass \in Nat
                             /\ user[n].id <= made
                             /\ Exists(n) <=> user[n].id > 0
                             /\ user[n].pass \in Versions
                             /\ user[n].state = "active" => Exists(n)
         /\ \A t \in Tokens : /\ token[t].owner \in Nat /\ token[t].pass \in Nat
                              /\ token[t] # Unminted <=> token[t].owner > 0
                              /\ token[t].state = "unminted" <=> token[t] = Unminted
         /\ \A m, n \in Names : Exists(m) /\ user[m].id = user[n].id => m = n
<1>1. /\ user \in [Names -> Rows] /\ token \in [Tokens -> TokenRows]
      /\ invite \in [Codes -> InviteRows] /\ req \in [Clients -> Requests]
      /\ made \in 0..MaxAccounts
      /\ \A n \in Names : user[n].id <= made
      /\ \A m, n \in Names : Exists(m) /\ user[m].id = user[n].id => m = n
  BY DEF TypeOK, Rows, TokenRows, InviteRows
<1>2. made \in Nat
  BY <1>1, ConstantsAre
<1>3. ASSUME NEW n \in Names
      PROVE  /\ user[n].id \in Nat /\ user[n].pass \in Nat
             /\ Exists(n) <=> user[n].id > 0
             /\ user[n].pass \in Versions
             /\ user[n].state = "active" => Exists(n)
  <2>1. user[n] = NoUser \/ user[n] \in [id : Ids, admin : BOOLEAN, pass : Versions,
                                       state : {"active", "pending", "suspended"}]
    BY <1>1 DEF Rows
  <2>2. CASE user[n] = NoUser
    BY <2>2, ConstantsAre DEF NoUser, Exists, Versions
  <2>3. CASE user[n] \in [id : Ids, admin : BOOLEAN, pass : Versions,
                         state : {"active", "pending", "suspended"}]
    <3>1. user[n].id \in Ids /\ user[n].pass \in Versions
      BY <2>3
    <3>2. user[n].id > 0 /\ user[n].id \in Nat /\ user[n].pass \in Nat
      BY <3>1, ConstantsAre DEF Ids, Versions
    <3>3. Exists(n)
      BY <3>2 DEF Exists, NoUser
    <3> QED
      BY <3>1, <3>2, <3>3
  <2> QED
    BY <2>1, <2>2, <2>3
<1>4. ASSUME NEW t \in Tokens
      PROVE  /\ token[t].owner \in Nat /\ token[t].pass \in Nat
             /\ token[t] # Unminted <=> token[t].owner > 0
             /\ token[t].state = "unminted" <=> token[t] = Unminted
  <2>1. token[t] \in TokenRows
    BY <1>1
  <2> QED
    BY <2>1, ConstantsAre DEF TokenRows, Unminted, Ids, Versions
<1> QED
  BY <1>1, <1>2, <1>3, <1>4

(* The other way round. *)
LEMMA TypesMake ==
  ASSUME mode' \in {"approval", "invite", "closed"}, setup' \in BOOLEAN,
         user' \in [Names -> Rows], token' \in [Tokens -> TokenRows],
         invite' \in [Codes -> InviteRows], req' \in [Clients -> Requests],
         made' \in 0..MaxAccounts, issued' \in 0..MaxRequests,
         \A n \in Names : user'[n].id <= made',
         \A m, n \in Names : user'[m] # NoUser /\ user'[m].id = user'[n].id => m = n
  PROVE  TypeOK'
BY DEF TypeOK, Rows, TokenRows, InviteRows, Exists

LEMMA IdleIs == WellFormed(Idle) /\ ~Idle.active /\ Idle.op = "none" /\ Idle \in Requests
                /\ Idle.id = 0 /\ Idle.at = "idle"
<1>1. 0 \in 0..MaxAccounts /\ 0 \in Versions
  BY ConstantsAre DEF Versions
<1> QED
  BY <1>1 DEF WellFormed, Idle, Requests, Ops, Steps

LEMMA FitIdle == ASSUME TypeOK PROVE Fit(Idle) /\ ~Idle.active
<1>1. Idle.op \notin Calls \cup {"device", "bootstrap", "login", "delete", "invite"}
  BY IdleIs DEF Calls
<1>2. Idle.op # "signup"
  BY IdleIs
<1> QED
  BY <1>1, <1>2, IdleIs, TypesAre DEF Fit

(* What a handler holds stays true while accounts come and go. *)
LEMMA FitStays ==
  ASSUME NEW r, Fit(r), TypeOK, made' \in Nat, made <= made',
         seen.vouched \subseteq seen'.vouched, seen.twins => seen'.twins,
         \A n \in Names : user'[n].id \in {user[n].id, 0, made + 1},
         seen'.twins \/ Admins' = Admins \/ made = 0
  PROVE  Fit(r)'
<1>1. r.id \in Nat /\ made \in Nat /\ (r.op # "none" => r.name \in Names)
  <2>1. r \in Requests /\ MaxAccounts \in Nat
    BY ConstantsAre DEF Fit, WellFormed
  <2> QED
    BY <2>1, TypesAre DEF Fit, WellFormed, Requests
<1>2. /\ WellFormed(r) /\ r.id <= made /\ (r.op = "login" => r.id > 0)
      /\ r.op \in Calls \cup {"signup"} => made > 0
  BY DEF Fit
<1>5. r.id <= made' /\ (r.op \in Calls \cup {"signup"} => made' > 0)
  BY <1>1, <1>2
<1>3. \/ r.op = "device" /\ r.at = "act"
      \/ r.op = "bootstrap" /\ r.at = "mint"
      \/ r.op = "login" /\ r.at = "mint" /\ user'[r.name].id = r.id
      => r.id \in seen'.vouched
  <2>1. CASE r.op = "login" /\ r.at = "mint" /\ user'[r.name].id = r.id
    <3>1. r.name \in Names /\ r.id > 0
      BY <1>1, <1>2, <2>1
    <3>2. user[r.name].id = r.id
      BY <1>1, <1>2, <2>1, <3>1
    <3> QED
      BY <2>1, <3>2 DEF Fit
  <2> QED
    BY <2>1 DEF Fit
<1>4. ASSUME ~seen'.twins
      PROVE  /\ r.op = "delete" /\ r.at = "erase" => r.aim \notin Admins'
             /\ r.op = "invite" /\ r.at = "act" => r.name \in Admins'
  BY <1>1, <1>2, <1>4 DEF Fit, Calls
<1> QED
  BY <1>2, <1>3, <1>4, <1>5 DEF Fit, WellFormed

LEMMA HandlerMoves ==
  ASSUME TypeOK, Handlers, NEW c \in Clients, NEW r \in Requests, Go(c, r), Fit(r)',
         \A g : Fit(g) => Fit(g)'
  PROVE  Handlers' /\ req' \in [Clients -> Requests]
<1>1. req \in [Clients -> Requests]
  BY TypesAre
<1>2. ASSUME NEW d \in Clients PROVE Fit(req[d])'
  <2>1. CASE d = c
    <3>1. req'[d] = r
      BY <1>1, <2>1 DEF Go
    <3> QED
      BY <3>1 DEF Fit, WellFormed
  <2>2. CASE d # c
    <3>1. PICK g : g = req[d]
      OBVIOUS
    <3>2. req'[d] = g /\ Fit(g)'
      BY <1>1, <2>2, <3>1 DEF Go, Handlers
    <3> QED
      BY <3>2 DEF Fit, WellFormed
  <2> QED
    BY <2>1, <2>2
<1> QED
  BY <1>1, <1>2 DEF Handlers, Go

----------------------------------------------------------------------------
(* The uses of an invite that handlers hold.                               *)

LEMMA UsingIs ==
  \A k \in Codes : IsFiniteSet(Using(k)) /\ Cardinality(Using(k)) \in Nat
<1> SUFFICES ASSUME NEW k \in Codes
             PROVE  IsFiniteSet(Using(k)) /\ Cardinality(Using(k)) \in Nat
  OBVIOUS
<1>1. Using(k) \subseteq Clients
  BY DEF Using
<1> QED
  BY <1>1, ConstantsAre, FS_Subset, FS_CardinalityType

LEMMA UsingStays ==
  ASSUME TypeOK, NEW c \in Clients, NEW r \in Requests, Go(c, r),
         r.active <=> req[c].active, r.active => r.aim = req[c].aim,
         NEW k \in Codes
  PROVE  Using(k)' = Using(k)
<1>1. \A d \in Clients : req'[d] = IF d = c THEN r ELSE req[d]
  BY TypesAre DEF Go
<1> QED
  BY <1>1 DEF Using

LEMMA UsingGrows ==
  ASSUME TypeOK, NEW c \in Clients, NEW r \in Requests, Go(c, r),
         ~req[c].active, r.active, NEW k \in Codes
  PROVE  IF r.aim = k
         THEN /\ Using(k)' = Using(k) \cup {c}
              /\ Cardinality(Using(k)') = Cardinality(Using(k)) + 1
         ELSE Using(k)' = Using(k)
<1>1. \A d \in Clients : req'[d] = IF d = c THEN r ELSE req[d]
  BY TypesAre DEF Go
<1>2. Using(k)' = IF r.aim = k THEN Using(k) \cup {c} ELSE Using(k)
  BY <1>1 DEF Using
<1>3. c \notin Using(k)
  BY DEF Using
<1>4. PICK U : U = Using(k)
  OBVIOUS
<1>5. IsFiniteSet(U) /\ c \notin U
  BY <1>3, <1>4, UsingIs
<1>6. Cardinality(U \cup {c}) = Cardinality(U) + 1
  BY <1>5, FS_AddElement
<1> QED
  BY <1>2, <1>4, <1>6

LEMMA UsingShrinks ==
  ASSUME TypeOK, NEW c \in Clients, NEW r \in Requests, Go(c, r),
         req[c].active, ~r.active, NEW k \in Codes
  PROVE  IF req[c].aim = k
         THEN /\ Using(k)' = Using(k) \ {c}
              /\ Cardinality(Using(k)') = Cardinality(Using(k)) - 1
              /\ Cardinality(Using(k)) > 0
         ELSE Using(k)' = Using(k)
<1>1. \A d \in Clients : req'[d] = IF d = c THEN r ELSE req[d]
  BY TypesAre DEF Go
<1>2. Using(k)' = IF req[c].aim = k THEN Using(k) \ {c} ELSE Using(k)
  BY <1>1 DEF Using
<1>3. req[c].aim = k => c \in Using(k)
  BY DEF Using
<1>4. PICK U : U = Using(k)
  OBVIOUS
<1>5. IsFiniteSet(U) /\ Cardinality(U) \in Nat /\ Cardinality(U \ {c}) \in Nat
  BY <1>4, UsingIs, FS_RemoveElement, FS_CardinalityType
<1>6. c \in U => Cardinality(U \ {c}) = Cardinality(U) - 1
  BY <1>5, FS_RemoveElement
<1> QED
  BY <1>2, <1>3, <1>4, <1>5, <1>6

(* An invite that is not touched, with a handler that holds no more of it. *)
LEMMA UsesStay ==
  ASSUME Unsold, InviteUsesAddUp, UNCHANGED invite,
         \A k \in Codes : /\ Using(k)' = Using(k)
                          /\ seen'.joined[k] = seen.joined[k]
                          /\ seen'.burnt[k] = seen.burnt[k]
  PROVE  Unsold' /\ InviteUsesAddUp'
BY DEF Unsold, InviteUsesAddUp, Using

----------------------------------------------------------------------------
(* The parts of the invariant that only some steps touch.                  *)

LEMMA AccountsStay ==
  ASSUME Vouching, OneAdmin, UNCHANGED <<user, made>>,
         seen.vouched \subseteq seen'.vouched, seen'.twins = seen.twins
  PROVE  Vouching' /\ OneAdmin' /\ Admins' = Admins
BY DEF Vouching, OneAdmin, Admins, Exists

(* Whoever has changed the passphrase has still to sign the others out. *)
StillOut == \A c \in Clients :
  At(c, {"change"}, "signout") => At(c, {"change"}, "signout")' /\ req'[c] = req[c]

Weaker(t) ==
  \/ token'[t] = token[t]
  \/ /\ token[t] # Unminted /\ token'[t].state \in {"expired", "gone"}
     /\ token'[t] = [token[t] EXCEPT !.state = token'[t].state]
     /\ token'[t].state = "expired" => Live(t)

(* No token is minted, and no account gets a new passphrase or a new token. *)
LEMMA TokensStay ==
  ASSUME TypeOK, seen \in Memory, TokensNeedAdmission,
         \A t \in Tokens : Weaker(t),
         seen.late \subseteq seen'.late, seen.vouched \subseteq seen'.vouched
  PROVE  TokensNeedAdmission'
<1>1. ASSUME NEW t \in Tokens
      PROVE  token'[t] # Unminted => token[t] # Unminted /\ token'[t].owner = token[t].owner
  <2>1. token[t] # Unminted => token[t] \in [state : {"live", "expired", "gone"},
                                            owner : Ids, pass : Versions]
    BY TypesAre DEF TokenRows
  <2> QED
    BY <2>1 DEF Weaker
<1> QED
  BY <1>1 DEF TokensNeedAdmission

LEMMA RotationStays ==
  ASSUME TypeOK, RotationSignsOut, StillOut,
         \A t \in Tokens : Weaker(t),
         \A n \in Names : \/ user'[n].id = user[n].id /\ user'[n].pass = user[n].pass
                          \/ user'[n].id = 0 \/ user'[n].pass = 0,
         seen.late \subseteq seen'.late, seen.torn \subseteq seen'.torn
  PROVE  RotationSignsOut'
<1> SUFFICES ASSUME NEW t \in Tokens, NEW n \in Names,
                    Live(t)', token'[t].owner = user'[n].id,
                    token'[t].pass < user'[n].pass
             PROVE  \/ t \in seen'.late \/ user'[n].id \in seen'.torn
                    \/ \E c \in Clients : At(c, {"change"}, "signout")' /\ req'[c].name = n
  BY DEF RotationSignsOut
<1>1. token'[t] = token[t] /\ Live(t)
  BY DEF Weaker, Live
<1>2. token[t].owner > 0 /\ token[t].pass \in Nat
  BY <1>1, TypesAre DEF Live, Unminted
<1>3. user'[n].id = user[n].id /\ user'[n].pass = user[n].pass
  BY <1>1, <1>2
<1>4. \/ t \in seen.late \/ user[n].id \in seen.torn
      \/ \E c \in Clients : At(c, {"change"}, "signout") /\ req[c].name = n
  BY <1>1, <1>3 DEF RotationSignsOut
<1> QED
  BY <1>3, <1>4 DEF StillOut

(* Nobody is erased, and no invite comes back. *)
LEMMA ErasureStays ==
  ASSUME TypeOK, ErasureIsComplete, \A t \in Tokens : Weaker(t),
         \A n \in Names : Exists(n) => Exists(n)' /\ user'[n].id = user[n].id,
         seen.twins => seen'.twins,
         \A k \in Codes : invite'[k].state \in {"live", "dead"} =>
           invite[k].state \in {"live", "dead"} /\ invite'[k].by = invite[k].by
  PROVE  ErasureIsComplete'
<1>1. ASSUME NEW t \in Tokens, token'[t].state \in {"live", "expired"}
      PROVE  \E n \in Names : user'[n].id = token'[t].owner
  <2>1. token[t].state \in {"live", "expired"} /\ token'[t].owner = token[t].owner
    <3>1. token[t] # Unminted => token[t] \in [state : {"live", "expired", "gone"},
                                              owner : Ids, pass : Versions]
      BY TypesAre DEF TokenRows
    <3> QED
      BY <1>1, <3>1 DEF Weaker, Live
  <2>2. PICK n \in Names : user[n].id = token[t].owner
    BY <2>1 DEF ErasureIsComplete, Holder
  <2>3. token[t].owner > 0
    BY <2>1, TypesAre DEF Unminted
  <2>4. user'[n].id = token'[t].owner
    BY <2>1, <2>2, <2>3, TypesAre
  <2> QED
    BY <2>4
<1>2. ASSUME NEW k \in Codes, invite'[k].state \in {"live", "dead"}, ~seen'.twins
      PROVE  user'[invite'[k].by] # NoUser
  <2>1. invite[k].state \in {"live", "dead"} /\ invite'[k].by = invite[k].by
        /\ Exists(invite[k].by)
    BY <1>2 DEF ErasureIsComplete
  <2>2. invite[k].by \in Names
    <3>1. invite[k] \in InviteRows /\ invite[k] # NoInvite
      BY <2>1, TypesAre DEF NoInvite
    <3> QED
      BY <3>1 DEF InviteRows
  <2> QED
    BY <2>1, <2>2 DEF Exists
<1> QED
  BY <1>1, <1>2 DEF ErasureIsComplete, Holder, Exists

----------------------------------------------------------------------------
(* The steps, one kind after another.                                      *)

(* Only a handler moves, and perhaps the setup token is spent. *)
LEMMA OnlyHandler ==
  ASSUME IInv, NEW c \in Clients, NEW r, Go(c, r), Fit(r),
         r.active <=> req[c].active, r.active => r.aim = req[c].aim,
         ~At(c, {"change"}, "signout"),
         UNCHANGED <<mode, user, token, invite, made, seen>>,
         setup' \in BOOLEAN, issued' \in 0..MaxRequests
  PROVE  IInv'
<1>1. TypeOK /\ Handlers /\ r \in Requests
  BY DEF IInv, Fit, WellFormed
<1>2. made' \in Nat /\ Admins' = Admins
  BY <1>1, TypesAre DEF Admins, Exists
<1>3. \A g : Fit(g) => Fit(g)'
  BY <1>2 DEF Fit, WellFormed
<1>4. Handlers' /\ req' \in [Clients -> Requests]
  BY <1>1, <1>3, HandlerMoves
<1>5. TypeOK'
  BY <1>1, <1>4 DEF TypeOK, Exists
<1>6. \A k \in Codes : Using(k)' = Using(k)
  BY <1>1, UsingStays
<1>7. Unsold' /\ InviteUsesAddUp'
  BY <1>6, UsesStay DEF IInv
<1>8. \A t \in Tokens : Weaker(t)
  BY DEF Weaker
<1>9. StillOut
  BY <1>1, TypesAre DEF StillOut, Go, At
<1>10. RotationSignsOut'
  BY <1>1, <1>8, <1>9, RotationStays DEF IInv
<1>11. TokensNeedAdmission' /\ ErasureIsComplete'
  BY <1>1 DEF IInv, TokensNeedAdmission, ErasureIsComplete, Holder, Exists
<1>12. Vouching' /\ OneAdmin'
  BY AccountsStay DEF IInv
<1> QED
  BY <1>4, <1>5, <1>7, <1>10, <1>11, <1>12 DEF IInv

(* A handler goes on to its next step, with what it read. *)
LEMMA Onward ==
  ASSUME NEW q, Fit(q), NEW r \in Requests,
         r.op = q.op, r.name = q.name, r.aim = q.aim, r.active = q.active,
         r.id <= made, r.op = "login" => r.id > 0,
         r.op = "signup" => /\ r.at = "redeem" => r.aim \in Codes
                            /\ r.at = "refund" => r.active
                            /\ r.active => r.at \in {"create", "refund"},
         \/ r.op = "device" /\ r.at = "act"
         \/ r.op = "bootstrap" /\ r.at = "mint"
         \/ r.op = "login" /\ r.at = "mint" /\ user[r.name].id = r.id
         => r.id \in seen.vouched,
         ~seen.twins => /\ r.op = "delete" /\ r.at = "erase" => r.aim \notin Admins
                        /\ r.op = "invite" /\ r.at = "act" => r.name \in Admins
  PROVE  Fit(r)
BY DEF Fit, WellFormed

(* A handler that has nothing of an invite and is not about to sign out. *)
LEMMA ReaderIs ==
  ASSUME IInv, NEW c \in Clients, NEW ops, NEW step, At(c, ops, step),
         "none" \notin ops, step \notin {"create", "refund", "signout"}
  PROVE  /\ TypeOK /\ Fit(req[c]) /\ req[c] \in Requests /\ req[c].name \in Names
         /\ ~req[c].active /\ ~At(c, {"change"}, "signout")
         /\ issued \in 0..MaxRequests /\ setup \in BOOLEAN
BY DEF IInv, Handlers, TypeOK, Fit, WellFormed, At

LEMMA MoveReader ==
  ASSUME IInv, NEW c \in Clients, NEW ops, NEW step, At(c, ops, step),
         "none" \notin ops, step \notin {"create", "refund", "signout"},
         NEW r, Fit(r), ~r.active, Go(c, r),
         UNCHANGED <<mode, user, token, invite, made, seen, issued>>,
         setup' \in BOOLEAN
  PROVE  IInv'
BY ReaderIs, OnlyHandler

LEMMA AuthorizeStep ==
  ASSUME IInv, NEW c \in Clients, Authorize(c)
  PROVE  IInv'
<1>1. At(c, Calls, "authorize") /\ UNCHANGED <<tables, issued, seen>>
  BY DEF Authorize
<1>2. "none" \notin Calls
  BY DEF Calls
<1>3. PICK q \in Requests : q = req[c] /\ q.op \in Calls /\ q.name \in Names
                          /\ Fit(q) /\ ~q.active /\ TypeOK /\ setup \in BOOLEAN
  BY <1>1, <1>2, ReaderIs DEF At
<1>4. CASE Finish(c)
  BY <1>1, <1>2, <1>3, <1>4, FitIdle, MoveReader DEF Finish, tables
<1>5. CASE ~Finish(c)
  <2>1. /\ user[q.name].state = "active"
        /\ q.op = "invite" => user[q.name].admin
        /\ Go(c, [q EXCEPT !.at = "act", !.id = user[q.name].id])
    BY <1>3, <1>5 DEF Authorize
  <2>2. user[q.name].id \in 0..MaxAccounts /\ user[q.name].id <= made /\ Exists(q.name)
    BY <1>3, <2>1, TypesAre, ConstantsAre
  <2>3. PICK r \in Requests : r = [q EXCEPT !.at = "act", !.id = user[q.name].id]
    BY <1>3, <2>2 DEF Requests, Steps
  <2>4. /\ r.op = q.op /\ r.name = q.name /\ r.aim = q.aim /\ r.active = q.active
        /\ r.id = user[q.name].id /\ r.at = "act"
    BY <2>3 DEF Requests
  <2>5. r.id \in seen.vouched
    BY <1>3, <2>1, <2>4 DEF IInv, Vouching
  <2>6. r.op = "invite" => r.name \in Admins
    BY <1>3, <2>1, <2>2, <2>4 DEF Admins
  <2>7. r.op \notin {"login", "signup"}
    BY <1>3, <2>4 DEF Calls
  <2>8. Fit(r)
    BY <1>3, <2>2, <2>4, <2>5, <2>6, <2>7, Onward
  <2> QED
    BY <1>1, <1>2, <1>3, <2>1, <2>3, <2>4, <2>8, MoveReader DEF tables
<1> QED
  BY <1>4, <1>5

(* A reader that goes on: a fixed change of where it is, or the end of it. *)
LEMMA NextStep ==
  ASSUME NEW q \in Requests, NEW s \in Steps
  PROVE  \E r \in Requests : r = [q EXCEPT !.at = s] /\ r.op = q.op /\ r.name = q.name
           /\ r.aim = q.aim /\ r.active = q.active /\ r.id = q.id /\ r.at = s
<1> DEFINE e == [q EXCEPT !.at = s]
<1>1. e \in Requests
  BY DEF Requests
<1>2. /\ e.op = q.op /\ e.name = q.name /\ e.aim = q.aim /\ e.active = q.active
      /\ e.id = q.id /\ e.at = s
  BY DEF Requests
<1> QED
  BY <1>1, <1>2

LEMMA EndReader ==
  ASSUME IInv, NEW c \in Clients, NEW ops, NEW step, At(c, ops, step),
         "none" \notin ops, step \notin {"create", "refund", "signout"}, Finish(c),
         UNCHANGED <<mode, user, token, invite, made, seen, issued>>,
         setup' \in BOOLEAN
  PROVE  IInv'
<1>1. Fit(Idle) /\ ~Idle.active
  BY FitIdle DEF IInv
<1> QED
  BY <1>1, MoveReader DEF Finish

LEMMA BootstrapStep ==
  ASSUME IInv, NEW c \in Clients, CountUsers(c) \/ ConsumeSetup(c)
  PROVE  IInv'
<1>1. PICK s \in {"count", "consume"} :
        At(c, {"bootstrap"}, s) /\ "none" \notin {"bootstrap"}
        /\ s \notin {"create", "refund", "signout"}
        /\ UNCHANGED <<mode, user, token, invite, made, issued, seen>>
  BY DEF CountUsers, ConsumeSetup, tables
<1>2. PICK q \in Requests : q = req[c] /\ q.op = "bootstrap" /\ Fit(q) /\ ~q.active
                          /\ setup \in BOOLEAN
  BY <1>1, ReaderIs DEF At
<1>3. CASE Finish(c)
  BY <1>1, <1>2, <1>3, EndReader DEF CountUsers, ConsumeSetup, tables
<1>4. CASE ~Finish(c)
  <2>1. Go(c, [q EXCEPT !.at = "create"]) /\ UNCHANGED setup
    BY <1>2, <1>4 DEF CountUsers, ConsumeSetup, tables
  <2>2. PICK r \in Requests : r = [q EXCEPT !.at = "create"] /\ r.op = q.op
          /\ r.name = q.name /\ r.aim = q.aim /\ r.active = q.active /\ r.id = q.id
          /\ r.at = "create"
    BY NextStep DEF Steps
  <2>3. r.id <= made
    BY <1>2, <2>2 DEF Fit
  <2>4. Fit(r)
    BY <1>2, <2>2, <2>3, Onward
  <2> QED
    BY <1>1, <1>2, <2>1, <2>2, <2>4, MoveReader
<1> QED
  BY <1>3, <1>4

LEMMA CheckTakenStep ==
  ASSUME IInv, NEW c \in Clients, CheckTaken(c)
  PROVE  IInv'
<1>1. At(c, {"signup"}, "taken") /\ UNCHANGED <<tables, issued, seen>>
      /\ "none" \notin {"signup"}
  BY DEF CheckTaken
<1>2. PICK q \in Requests : q = req[c] /\ q.op = "signup" /\ Fit(q) /\ ~q.active
                          /\ setup \in BOOLEAN
  BY <1>1, ReaderIs DEF At
<1>3. CASE Finish(c)
  BY <1>1, <1>2, <1>3, EndReader DEF tables
<1>4. CASE ~Finish(c)
  <2>1. PICK s \in Steps :
          /\ s = IF q.aim = Nothing THEN "create" ELSE "redeem"
          /\ Go(c, [q EXCEPT !.at = s])
    BY <1>2, <1>4 DEF CheckTaken, Steps
  <2>2. PICK r \in Requests : r = [q EXCEPT !.at = s] /\ r.op = q.op
          /\ r.name = q.name /\ r.aim = q.aim /\ r.active = q.active /\ r.id = q.id
          /\ r.at = s
    BY NextStep
  <2>3. r.id <= made /\ r.aim \in Codes \cup {Nothing}
    BY <1>2, <2>2 DEF Fit, WellFormed
  <2>4. r.at \in {"create", "redeem"} /\ (r.at = "redeem" => r.aim \in Codes)
    BY <2>1, <2>2, <2>3
  <2>5. Fit(r)
    BY <1>2, <2>1, <2>2, <2>3, <2>4, Onward
  <2> QED
    <3>1. Go(c, r) /\ ~r.active
      BY <1>2, <2>1, <2>2
    <3>2. UNCHANGED <<mode, user, token, invite, made, seen, issued>> /\ setup' \in BOOLEAN
      BY <1>1, <1>2 DEF tables
    <3> QED
      BY <1>1, <2>5, <3>1, <3>2, MoveReader
<1> QED
  BY <1>3, <1>4

LEMMA ProveStep ==
  ASSUME IInv, NEW c \in Clients, ProvePassphrase(c)
  PROVE  IInv'
<1>1. At(c, {"change"}, "act") /\ UNCHANGED <<tables, issued, seen>>
      /\ "none" \notin {"change"}
  BY DEF ProvePassphrase
<1>2. PICK q \in Requests : q = req[c] /\ q.op = "change" /\ Fit(q) /\ ~q.active
                          /\ setup \in BOOLEAN /\ q.name \in Names /\ TypeOK
  BY <1>1, ReaderIs DEF At
<1>3. CASE Finish(c)
  BY <1>1, <1>2, <1>3, EndReader DEF tables
<1>4. CASE ~Finish(c)
  <2>1. Go(c, [q EXCEPT !.at = "load", !.pass = user[q.name].pass])
    BY <1>2, <1>4 DEF ProvePassphrase
  <2>2. user[q.name].pass \in Versions
    BY <1>2, TypesAre
  <2>3. PICK r \in Requests : r = [q EXCEPT !.at = "load", !.pass = user[q.name].pass]
    BY <2>2 DEF Requests, Steps
  <2>4. /\ r.op = q.op /\ r.name = q.name /\ r.aim = q.aim /\ r.active = q.active
        /\ r.id = q.id /\ r.at = "load"
    BY <2>3 DEF Requests
  <2>5. r.id <= made
    BY <1>2, <2>4 DEF Fit
  <2>6. Fit(r)
    BY <1>2, <2>4, <2>5, Onward
  <2> QED
    BY <1>1, <1>2, <2>1, <2>3, <2>4, <2>6, MoveReader DEF tables
<1> QED
  BY <1>3, <1>4

LEMMA LoadStep ==
  ASSUME IInv, NEW c \in Clients, LoadAccount(c)
  PROVE  IInv'
<1>1. At(c, {"login", "change"}, "load") /\ UNCHANGED <<tables, issued, seen>>
      /\ "none" \notin {"login", "change"}
  BY DEF LoadAccount
<1>2. PICK q \in Requests : q = req[c] /\ q.op \in {"login", "change"} /\ Fit(q)
        /\ ~q.active /\ setup \in BOOLEAN /\ q.name \in Names /\ TypeOK
  BY <1>1, ReaderIs DEF At
<1>3. CASE Finish(c)
  BY <1>1, <1>2, <1>3, EndReader DEF tables
<1>4. CASE ~Finish(c)
  <2>1. PICK s \in Steps :
          /\ s = IF q.op = "login" THEN "mint" ELSE "write"
          /\ Go(c, [q EXCEPT !.at = s])
          /\ q.op = "login" => user[q.name].state = "active"
    BY <1>2, <1>4 DEF LoadAccount, Steps
  <2>2. PICK r \in Requests : r = [q EXCEPT !.at = s] /\ r.op = q.op
          /\ r.name = q.name /\ r.aim = q.aim /\ r.active = q.active /\ r.id = q.id
          /\ r.at = s
    BY NextStep
  <2>3. r.id <= made /\ (r.op = "login" => r.id > 0)
    BY <1>2, <2>2 DEF Fit
  <2>4. ASSUME r.op = "login", user[r.name].id = r.id PROVE r.id \in seen.vouched
    <3>1. Vouching
      BY DEF IInv
    <3>2. user[q.name].state = "active" /\ r.name = q.name
      BY <2>1, <2>2, <2>4
    <3> QED
      BY <1>2, <2>4, <3>1, <3>2 DEF Vouching
  <2>5. Fit(r)
    BY <1>2, <2>1, <2>2, <2>3, <2>4, Onward
  <2> QED
    <3>1. Go(c, r) /\ ~r.active
      BY <1>2, <2>1, <2>2
    <3>2. UNCHANGED <<mode, user, token, invite, made, seen, issued>> /\ setup' \in BOOLEAN
      BY <1>1, <1>2 DEF tables
    <3> QED
      BY <1>1, <2>5, <3>1, <3>2, MoveReader
<1> QED
  BY <1>3, <1>4

(* Of one administrator nobody comes to the point of erasing it.           *)
LEMMA DeleteStep ==
  ASSUME IInv, NEW c \in Clients, ReadTarget(c) \/ CountAdmins(c)
  PROVE  IInv'
<1>1. PICK step \in {"act", "admins"} :
        /\ At(c, {"delete"}, step) /\ UNCHANGED <<tables, issued, seen>>
        /\ "none" \notin {"delete"} /\ step \notin {"create", "refund", "signout"}
  BY DEF ReadTarget, CountAdmins
<1>2. PICK q \in Requests : q = req[c] /\ q.op = "delete" /\ Fit(q)
        /\ ~q.active /\ setup \in BOOLEAN /\ q.name \in Names /\ TypeOK
  BY <1>1, ReaderIs DEF At
<1>3. CASE Finish(c)
  BY <1>1, <1>2, <1>3, EndReader DEF tables
<1>4. CASE ~Finish(c)
  <2>1. PICK s \in Steps :
          /\ Go(c, [q EXCEPT !.at = s]) /\ s \in {"admins", "erase"}
          /\ s = "erase" => ~user[q.aim].admin \/ ~(Cardinality(Admins) <= 1)
    BY <1>2, <1>4 DEF ReadTarget, CountAdmins, Steps
  <2>2. PICK r \in Requests : r = [q EXCEPT !.at = s] /\ r.op = q.op
          /\ r.name = q.name /\ r.aim = q.aim /\ r.active = q.active /\ r.id = q.id
          /\ r.at = s
    BY NextStep
  <2>3. r.id <= made /\ made > 0
    BY <1>2, <2>2 DEF Fit, Calls
  <2>4. ASSUME ~seen.twins, s = "erase" PROVE r.aim \notin Admins
    <3>0. ~user[q.aim].admin \/ ~(Cardinality(Admins) <= 1)
      BY <2>1, <2>4
    <3>1. CASE ~user[q.aim].admin
      BY <2>2, <3>1 DEF Admins
    <3>2. CASE ~(Cardinality(Admins) <= 1)
      <4>1. PICK a \in Names : Admins = {a}
        BY <1>2, <2>3, <2>4, TypesAre DEF IInv, OneAdmin
      <4>2. Cardinality(Admins) = 1
        BY <4>1, FS_Singleton
      <4> QED
        BY <3>2, <4>2
    <3> QED
      BY <3>0, <3>1, <3>2
  <2>5. Fit(r)
    BY <1>2, <2>1, <2>2, <2>3, <2>4, Onward
  <2> QED
    <3>1. Go(c, r) /\ ~r.active
      BY <1>2, <2>1, <2>2
    <3>2. UNCHANGED <<mode, user, token, invite, made, seen, issued>> /\ setup' \in BOOLEAN
      BY <1>1, <1>2 DEF tables
    <3> QED
      BY <1>1, <2>5, <3>1, <3>2, MoveReader
<1> QED
  BY <1>3, <1>4

----------------------------------------------------------------------------
(* Handlers begin. *)

LEMMA BeginStep ==
  ASSUME IInv, NEW c \in Clients, NEW r, Fit(r), ~r.active, Begin(c, r),
         UNCHANGED <<tables, seen>>
  PROVE  IInv'
<1>1. /\ req[c] = Idle /\ Go(c, r) /\ issued \in 0..MaxRequests
      /\ issued < MaxRequests /\ issued' = issued + 1 /\ setup \in BOOLEAN
  BY DEF Begin, IInv, TypeOK
<1>2. ~req[c].active /\ ~At(c, {"change"}, "signout")
  BY <1>1, IdleIs DEF At
<1>3. issued' \in 0..MaxRequests
  BY <1>1, ConstantsAre
<1>4. UNCHANGED <<mode, user, token, invite, made, seen>> /\ setup' \in BOOLEAN
  BY <1>1 DEF tables
<1> QED
  BY <1>1, <1>2, <1>3, <1>4, OnlyHandler

LEMMA PresentStep ==
  ASSUME IInv, NEW c \in Clients, NEW t \in Tokens, NEW op, NEW aim,
         \/ op \in Calls \ {"state", "delete"} /\ aim = Nothing
         \/ op \in {"state", "delete"} /\ aim \in Names,
         Present(c, t, op, aim)
  PROVE  IInv'
<1>1. PICK m \in Names :
        /\ user[m].id = token[t].owner /\ Live(t)
        /\ Begin(c, [Idle EXCEPT !.op = op, !.at = "authorize", !.name = m,
                                 !.key = t, !.pass = token[t].pass, !.aim = aim])
        /\ UNCHANGED <<tables, seen>>
  BY DEF Present, Holder
<1>2. TypeOK /\ made \in Nat /\ made > 0 /\ token[t].pass \in Versions
  <2>1. TypeOK
    BY DEF IInv
  <2>2. token[t] # Unminted /\ token[t] \in TokenRows
    BY <1>1, <2>1, TypesAre DEF Live, Unminted
  <2>3. token[t].pass \in Versions
    BY <2>2 DEF TokenRows
  <2> QED
    BY <1>1, <2>1, <2>2, <2>3, TypesAre
<1> DEFINE e == [Idle EXCEPT !.op = op, !.at = "authorize", !.name = m,
                             !.key = t, !.pass = token[t].pass, !.aim = aim]
<1>3. op \in Calls /\ op \in Ops /\ "authorize" \in Steps
      /\ aim \in Names \cup Codes \cup {Nothing}
      /\ op \notin {"none", "signup", "login", "bootstrap"}
      /\ (op \in {"state", "delete"} => aim \in Names)
  BY DEF Calls, Ops, Steps
<1>4. /\ e \in Requests /\ e.op = op /\ e.at = "authorize" /\ e.name = m
      /\ e.aim = aim /\ e.active = FALSE /\ e.id = 0
  BY <1>2, <1>3, IdleIs DEF Idle, Requests
<1> HIDE DEF e
<1>5. PICK r \in Requests : r = e
  BY <1>4
<1>6. Fit(r)
  BY <1>2, <1>3, <1>4, <1>5 DEF Fit, WellFormed
<1>7. Begin(c, r)
  BY <1>1, <1>5 DEF e
<1> QED
  BY <1>1, <1>4, <1>5, <1>6, <1>7, BeginStep

LEMMA BeginBare ==
  ASSUME IInv, NEW c \in Clients, NEW r \in Requests, Begin(c, r),
         UNCHANGED <<tables, seen>>, r.name \in Names, ~r.active, r.id <= made,
         \/ r.op = "bootstrap" /\ r.at = "count"
         \/ r.op = "signup" /\ r.at = "taken" /\ r.aim \in Codes \cup {Nothing}
              /\ made > 0
         \/ r.op = "login" /\ r.at = "load" /\ r.id > 0
  PROVE  IInv'
<1>1. r.op \notin Calls /\ r.op \in {"bootstrap", "signup", "login"}
  BY DEF Calls
<1>2. Fit(r)
  BY <1>1 DEF Fit, WellFormed
<1> QED
  BY <1>2, BeginStep

LEMMA CallingStep ==
  ASSUME IInv, NEW c \in Clients, NEW n \in Names,
         \/ Bootstrap(c, n) \/ Login(c, n)
         \/ \E k \in Codes \cup {Nothing} : Signup(c, n, k)
  PROVE  IInv'
<1>1. TypeOK /\ made \in Nat /\ UNCHANGED <<tables, seen>>
  BY TypesAre DEF IInv, Bootstrap, Login, Signup
<1>2. CASE Bootstrap(c, n)
  <2> DEFINE e == [Idle EXCEPT !.op = "bootstrap", !.at = "count", !.name = n]
  <2>1. /\ e \in Requests /\ e.op = "bootstrap" /\ e.at = "count" /\ e.name = n
        /\ e.active = FALSE /\ e.id = 0
    BY IdleIs DEF Idle, Requests, Ops, Steps
  <2>2. Begin(c, e)
    BY <1>2 DEF Bootstrap
  <2> HIDE DEF e
  <2>3. PICK r \in Requests : r = e
    BY <2>1
  <2> QED
    BY <1>1, <2>1, <2>2, <2>3, BeginBare
<1>3. CASE Login(c, n)
  <2> DEFINE e == [Idle EXCEPT !.op = "login", !.at = "load", !.name = n,
                               !.id = user[n].id, !.pass = user[n].pass]
  <2>1. /\ user[n].id > 0 /\ user[n].id <= made /\ user[n].id \in 0..MaxAccounts
        /\ user[n].pass \in Versions
    BY <1>1, <1>3, TypesAre, ConstantsAre DEF Login
  <2>2. /\ e \in Requests /\ e.op = "login" /\ e.at = "load" /\ e.name = n
        /\ e.active = FALSE /\ e.id = user[n].id
    BY <2>1, IdleIs DEF Idle, Requests, Ops, Steps
  <2>3. Begin(c, e)
    BY <1>3 DEF Login
  <2> HIDE DEF e
  <2>4. PICK r \in Requests : r = e
    BY <2>2
  <2> QED
    BY <1>1, <2>1, <2>2, <2>3, <2>4, BeginBare
<1>4. CASE \E k \in Codes \cup {Nothing} : Signup(c, n, k)
  <2>1. PICK k \in Codes \cup {Nothing} : Signup(c, n, k)
    BY <1>4
  <2> DEFINE e == [Idle EXCEPT !.op = "signup", !.at = "taken", !.name = n, !.aim = k]
  <2>2. /\ e \in Requests /\ e.op = "signup" /\ e.at = "taken" /\ e.name = n
        /\ e.active = FALSE /\ e.id = 0 /\ e.aim = k
    BY IdleIs DEF Idle, Requests, Ops, Steps
  <2>3. Begin(c, e)
    BY <2>1 DEF Signup
  <2>5. made > 0
    <3>1. PICK m \in Names : Exists(m)
      BY <2>1 DEF Signup
    <3> QED
      BY <1>1, <3>1, TypesAre
  <2> HIDE DEF e
  <2>4. PICK r \in Requests : r = e
    BY <2>2
  <2> QED
    BY <1>1, <2>2, <2>3, <2>4, <2>5, BeginBare
<1> QED
  BY <1>2, <1>3, <1>4

----------------------------------------------------------------------------
(* Tokens come, and tokens go. *)

LEMMA MintStep ==
  ASSUME IInv, NEW c \in Clients, NEW t \in Tokens, Mint(c, t),
         NEW r, Go(c, r), Fit(r), ~r.active, ~req[c].active,
         ~At(c, {"change"}, "signout"), req[c].name \in Names,
         user[req[c].name].id = req[c].id => req[c].id \in seen.vouched,
         UNCHANGED <<mode, setup, user, invite, made, issued>>
  PROVE  IInv'
<1>1. TypeOK /\ Handlers /\ r \in Requests /\ req[c] \in Requests
      /\ setup' \in BOOLEAN /\ issued' \in 0..MaxRequests
  BY DEF IInv, Fit, WellFormed, TypeOK
<1>2. PICK n \in Names : n = req[c].name
  OBVIOUS
<1>3. CASE user[n] = NoUser
  BY <1>1, <1>2, <1>3, OnlyHandler DEF Mint
<1>4. CASE user[n] # NoUser
  <2>1. /\ token[t] = Unminted
        /\ token' = [token EXCEPT ![t] = [state |-> "live", owner |-> user[n].id,
                                          pass |-> req[c].pass]]
        /\ seen' = IF user[n].id = req[c].id /\ user[n].pass = req[c].pass THEN seen
                   ELSE [seen EXCEPT !.late = @ \cup {t}]
    BY <1>2, <1>4 DEF Mint
  <2>2. /\ seen' \in Memory /\ seen'.late \subseteq seen.late \cup {t}
        /\ seen.late \subseteq seen'.late
        /\ ~(user[n].id = req[c].id /\ user[n].pass = req[c].pass) => t \in seen'.late
        /\ seen'.vouched = seen.vouched /\ seen'.twins = seen.twins
        /\ seen'.torn = seen.torn /\ seen'.joined = seen.joined
        /\ seen'.burnt = seen.burnt
    BY <2>1 DEF IInv, Memory
  <2>3. /\ user[n].id > 0 /\ user[n].id \in Nat /\ req[c].pass \in Versions
        /\ user[n].id \in Ids
    <3>1. user[n] \in Rows
      BY <1>1, TypesAre
    <3> QED
      BY <1>1, <1>4, <3>1, TypesAre DEF Rows, Requests, Exists
  <2>4. /\ token' \in [Tokens -> TokenRows]
        /\ token'[t].owner = user[n].id /\ token'[t].pass = req[c].pass
        /\ \A s \in Tokens : s # t => token'[s] = token[s]
    <3>1. [state |-> "live", owner |-> user[n].id, pass |-> req[c].pass] \in TokenRows
      BY <2>3 DEF TokenRows
    <3> QED
      BY <1>1, <2>1, <3>1, TypesAre
  <2>5. Admins' = Admins /\ made' \in Nat
    BY <1>1, TypesAre DEF Admins, Exists
  <2>6. \A g : Fit(g) => Fit(g)'
    BY <2>2, <2>5 DEF Fit, WellFormed
  <2>7. Handlers' /\ req' \in [Clients -> Requests]
    BY <1>1, <2>6, HandlerMoves
  <2>8. TypeOK'
    <3>1. /\ user' \in [Names -> Rows] /\ invite' \in [Codes -> InviteRows]
          /\ made' \in 0..MaxAccounts /\ mode' \in {"approval", "invite", "closed"}
          /\ \A m \in Names : user'[m].id <= made'
          /\ \A m, k \in Names : user'[m] # NoUser /\ user'[m].id = user'[k].id => m = k
      BY <1>1, TypesAre DEF Exists, TypeOK
    <3> QED
      BY <1>1, <2>4, <2>7, <3>1, TypesMake
  <2>9. \A k \in Codes : Using(k)' = Using(k)
    BY <1>1, UsingStays
  <2>10. Unsold' /\ InviteUsesAddUp'
    BY <2>2, <2>9, UsesStay DEF IInv
  <2>11. Vouching' /\ OneAdmin'
    BY <2>2, AccountsStay DEF IInv
  <2>12. TokensNeedAdmission'
    BY <1>2, <2>2, <2>4 DEF IInv, TokensNeedAdmission
  <2>13. ErasureIsComplete'
    <3>1. Holder(user[n].id) # {}
      BY DEF Holder
    <3> QED
      BY <2>2, <2>4, <3>1 DEF IInv, ErasureIsComplete, Holder, Exists
  <2>14. RotationSignsOut'
    <3>1. StillOut
      BY <1>1, TypesAre DEF StillOut, Go, At
    <3>2. ASSUME NEW s \in Tokens, NEW m \in Names, token'[s].state = "live",
                 token'[s].owner = user[m].id, token'[s].pass < user[m].pass
          PROVE  \/ s \in seen'.late \/ user[m].id \in seen'.torn
                 \/ \E d \in Clients : At(d, {"change"}, "signout") /\ req[d].name = m
      <4>1. CASE s = t
        <5>1. m = n
          BY <1>1, <1>4, <2>4, <3>2, <4>1, TypesAre DEF Exists
        <5>2. req[c].pass # user[n].pass
          BY <2>3, <2>4, <3>2, <4>1, <5>1, ConstantsAre DEF Versions
        <5> QED
          BY <2>2, <4>1, <5>2
      <4>2. CASE s # t
        BY <2>2, <2>4, <3>2, <4>2 DEF IInv, RotationSignsOut, Live
      <4> QED
        BY <4>1, <4>2
    <3> QED
      BY <3>1, <3>2 DEF RotationSignsOut, StillOut, Live
  <2> QED
    BY <2>2, <2>7, <2>8, <2>10, <2>11, <2>12, <2>13, <2>14 DEF IInv
<1> QED
  BY <1>2, <1>3, <1>4

LEMMA TokensEnd ==
  ASSUME IInv, token' \in [Tokens -> TokenRows], \A t \in Tokens : Weaker(t),
         UNCHANGED <<mode, setup, user, invite, made, issued, seen>>,
         Handlers', req' \in [Clients -> Requests],
         \A k \in Codes : Using(k)' = Using(k), RotationSignsOut'
  PROVE  IInv'
<1>1. TypeOK
  BY DEF IInv
<1>2. TypeOK'
  <2>1. /\ user' \in [Names -> Rows] /\ invite' \in [Codes -> InviteRows]
        /\ made' \in 0..MaxAccounts /\ mode' \in {"approval", "invite", "closed"}
        /\ setup' \in BOOLEAN /\ issued' \in 0..MaxRequests
        /\ \A m \in Names : user'[m].id <= made'
        /\ \A m, k \in Names : user'[m] # NoUser /\ user'[m].id = user'[k].id => m = k
    BY <1>1, TypesAre DEF Exists, TypeOK
  <2> QED
    BY <2>1, TypesMake
<1>3. Unsold' /\ InviteUsesAddUp'
  BY UsesStay DEF IInv
<1>4. TokensNeedAdmission'
  BY <1>1, TokensStay DEF IInv
<1>5. ErasureIsComplete'
  BY <1>1, ErasureStays DEF IInv, Exists
<1>6. Vouching' /\ OneAdmin'
  BY AccountsStay DEF IInv
<1> QED
  BY <1>2, <1>3, <1>4, <1>5, <1>6 DEF IInv

LEMMA DeviceStep ==
  ASSUME IInv, NEW c \in Clients, NEW t \in Tokens,
         AddDevice(c, t) \/ SignIn(c, t) \/ FirstDevice(c, t)
  PROVE  IInv'
<1>1. /\ Mint(c, t) /\ UNCHANGED <<mode, setup, user, invite, made, issued>>
      /\ TypeOK /\ Fit(req[c]) /\ req[c] \in Requests
  BY DEF AddDevice, SignIn, FirstDevice, IInv, Handlers, Fit, WellFormed
<1>2. PICK q \in Requests : q = req[c] /\ Fit(q)
  BY <1>1
<1>3. /\ \/ q.op = "device" /\ q.at = "act"
         \/ q.op = "login" /\ q.at = "mint"
         \/ q.op = "bootstrap" /\ q.at = "mint"
      /\ ~At(c, {"change"}, "signout")
  BY <1>2 DEF AddDevice, SignIn, FirstDevice, At
<1>4. /\ q.name \in Names /\ ~q.active
      /\ user[q.name].id = q.id => q.id \in seen.vouched
  BY <1>2, <1>3 DEF Fit, WellFormed
<1>5. CASE Finish(c)
  BY <1>1, <1>2, <1>3, <1>4, <1>5, FitIdle, MintStep DEF Finish
<1>6. CASE FirstDevice(c, t)
  <2>1. Go(c, [q EXCEPT !.at = "consume"]) /\ q.op = "bootstrap"
    BY <1>2, <1>6 DEF FirstDevice, At
  <2>2. PICK r \in Requests : r = [q EXCEPT !.at = "consume"] /\ r.op = q.op
          /\ r.name = q.name /\ r.aim = q.aim /\ r.active = q.active /\ r.id = q.id
          /\ r.at = "consume"
    BY NextStep DEF Steps
  <2>3. r.id <= made
    BY <1>2, <2>2 DEF Fit
  <2>4. Fit(r)
    BY <1>2, <1>4, <2>1, <2>2, <2>3, Onward
  <2>5. Go(c, r) /\ ~r.active
    BY <1>4, <2>1, <2>2
  <2> QED
    BY <1>1, <1>2, <1>3, <1>4, <2>4, <2>5, MintStep
<1> QED
  BY <1>5, <1>6 DEF AddDevice, SignIn

(* A handler that holds no invite ends. *)
LEMMA HandlerEnds ==
  ASSUME IInv, NEW c \in Clients, Finish(c), ~req[c].active, \A g : Fit(g) => Fit(g)'
  PROVE  /\ Handlers' /\ req' \in [Clients -> Requests]
         /\ \A k \in Codes : Using(k)' = Using(k)
         /\ ~At(c, {"change"}, "signout") => StillOut
<1>1. TypeOK /\ Handlers /\ Fit(Idle) /\ ~Idle.active /\ Idle \in Requests
  BY FitIdle, IdleIs DEF IInv
<1>2. PICK r \in Requests : r = Idle
  BY <1>1
<1>3. Go(c, r) /\ Fit(r)' /\ ~r.active
  BY <1>1, <1>2 DEF Finish, Fit, WellFormed
<1>4. ~At(c, {"change"}, "signout") => StillOut
  BY <1>1, TypesAre DEF StillOut, Finish, Go, At
<1> QED
  BY <1>1, <1>3, <1>4, HandlerMoves, UsingStays

LEMMA TablesFit ==
  ASSUME UNCHANGED <<user, made, seen>>
  PROVE  \A g : Fit(g) => Fit(g)'
<1>1. Admins' = Admins
  BY DEF Admins, Exists
<1> QED
  BY <1>1 DEF Fit, WellFormed

LEMMA WithoutIs ==
  ASSUME TypeOK, NEW n \in Names, Exists(n), NEW kept,
         token' = Without(user[n].id, kept)
  PROVE  /\ token' \in [Tokens -> TokenRows] /\ \A t \in Tokens : Weaker(t)
         /\ \A t \in Tokens : token[t].owner = user[n].id /\ t \notin kept
                             => token'[t].state = "gone"
         /\ \A t \in Tokens : token[t].owner # user[n].id => token'[t] = token[t]
<1>1. user[n].id > 0
  BY TypesAre
<1>2. ASSUME NEW t \in Tokens
      PROVE  /\ token'[t] \in TokenRows /\ Weaker(t)
             /\ token[t].owner = user[n].id /\ t \notin kept => token'[t].state = "gone"
             /\ token[t].owner # user[n].id => token'[t] = token[t]
  <2>1. token'[t] = IF token[t].owner = user[n].id /\ token[t].state # "gone" /\ t \notin kept
                    THEN [token[t] EXCEPT !.state = "gone"] ELSE token[t]
    BY DEF Without
  <2>2. CASE token[t].owner = user[n].id /\ token[t].state # "gone" /\ t \notin kept
    <3>1. token[t] # Unminted /\ token[t] \in TokenRows
      BY <1>1, <2>2, TypesAre
    <3>2. token[t] \in [state : {"live", "expired", "gone"}, owner : Ids, pass : Versions]
      BY <3>1 DEF TokenRows
    <3>3. token'[t] = [token[t] EXCEPT !.state = "gone"] /\ token'[t].state = "gone"
      BY <2>1, <2>2, <3>2
    <3>4. token'[t] \in TokenRows
      BY <3>2, <3>3 DEF TokenRows
    <3> QED
      BY <2>2, <3>1, <3>3, <3>4 DEF Weaker
  <2>3. CASE ~(token[t].owner = user[n].id /\ token[t].state # "gone" /\ t \notin kept)
    BY <2>1, <2>3, TypesAre DEF Weaker
  <2> QED
    BY <2>2, <2>3
<1>3. token' = [t \in Tokens |-> token'[t]]
  BY DEF Without
<1> QED
  BY <1>2, <1>3

LEMMA RevokeStep ==
  ASSUME IInv, NEW c \in Clients,
         RevokeAll(c) \/ \E t \in Tokens : RevokeDevice(c, t)
  PROVE  IInv'
<1>1. /\ TypeOK /\ Finish(c) /\ req[c].op \in {"revoke", "revokeall"}
      /\ UNCHANGED <<mode, setup, user, invite, made, issued, seen>>
      /\ ~At(c, {"change"}, "signout") /\ Fit(req[c])
  BY DEF IInv, RevokeAll, RevokeDevice, At, Handlers
<1>2. req[c].name \in Names /\ ~req[c].active
  BY <1>1 DEF Fit, WellFormed
<1>3. /\ Handlers' /\ req' \in [Clients -> Requests] /\ StillOut
      /\ \A k \in Codes : Using(k)' = Using(k)
  BY <1>1, <1>2, HandlerEnds, TablesFit
<1>4. token' \in [Tokens -> TokenRows] /\ \A t \in Tokens : Weaker(t)
  <2>1. CASE UNCHANGED token
    BY <1>1, <2>1, TypesAre DEF Weaker
  <2>2. CASE RevokeAll(c) /\ ~UNCHANGED token
    <3>1. Exists(req[c].name) /\ token' = Without(user[req[c].name].id, {req[c].key})
      BY <2>2 DEF RevokeAll
    <3> QED
      BY <1>1, <1>2, <3>1, WithoutIs
  <2>3. CASE (\E t \in Tokens : RevokeDevice(c, t)) /\ ~UNCHANGED token
    <3>1. PICK t \in Tokens : RevokeDevice(c, t)
      BY <2>3
    <3>2. /\ token' = [token EXCEPT ![t].state = "gone"]
          /\ token[t].owner = user[req[c].name].id /\ Exists(req[c].name)
      BY <2>3, <3>1 DEF RevokeDevice
    <3>3. token[t] # Unminted /\ token \in [Tokens -> TokenRows]
      BY <1>1, <1>2, <3>2, TypesAre
    <3>4. token[t] \in [state : {"live", "expired", "gone"}, owner : Ids, pass : Versions]
      BY <3>3 DEF TokenRows
    <3>5. PICK x : x = [token[t] EXCEPT !.state = "gone"] /\ x.state = "gone"
                    /\ x \in TokenRows
      <4> DEFINE e == [token[t] EXCEPT !.state = "gone"]
      <4>1. e.state = "gone" /\ e \in TokenRows
        BY <3>4 DEF TokenRows
      <4> QED
        BY <4>1
    <3>6. token' = [token EXCEPT ![t] = x]
      BY <3>2, <3>5
    <3> QED
      BY <3>3, <3>5, <3>6 DEF Weaker
  <2> QED
    BY <2>1, <2>2, <2>3
<1>5. RotationSignsOut'
  BY <1>1, <1>3, <1>4, RotationStays DEF IInv
<1> QED
  BY <1>1, <1>3, <1>4, <1>5, TokensEnd

LEMMA LifetimeStep ==
  ASSUME IInv, SweepTokens \/ \E t \in Tokens : OutliveToken(t)
  PROVE  IInv'
<1>1. TypeOK /\ UNCHANGED <<mode, setup, user, invite, made, req, issued, seen>>
  BY DEF IInv, SweepTokens, OutliveToken
<1>2. ASSUME NEW t \in Tokens, NEW s, token[t].state \in {"live", "expired"},
             s \in {"expired", "gone"},
             token'[t] = [token[t] EXCEPT !.state = s], s = "expired" => Live(t)
      PROVE  token'[t] \in TokenRows /\ Weaker(t)
  <2>1. token[t] # Unminted /\ token[t] \in TokenRows
    BY <1>1, <1>2, TypesAre DEF Unminted
  <2>2. token[t] \in [state : {"live", "expired", "gone"}, owner : Ids, pass : Versions]
    BY <2>1 DEF TokenRows
  <2> QED
    BY <1>2, <2>1, <2>2 DEF Weaker, TokenRows
<1>3. token' \in [Tokens -> TokenRows] /\ \A t \in Tokens : Weaker(t)
  <2>1. CASE SweepTokens
    <3>1. token' = [t \in Tokens |-> IF token[t].state = "expired"
                      THEN [token[t] EXCEPT !.state = "gone"] ELSE token[t]]
      BY <2>1 DEF SweepTokens
    <3>2. ASSUME NEW t \in Tokens PROVE token'[t] \in TokenRows /\ Weaker(t)
      <4>1. CASE token[t].state = "expired"
        BY <1>2, <3>1, <4>1
      <4>2. CASE token[t].state # "expired"
        BY <1>1, <3>1, <4>2, TypesAre DEF Weaker
      <4> QED
        BY <4>1, <4>2
    <3> QED
      BY <3>1, <3>2
  <2>2. CASE \E t \in Tokens : OutliveToken(t)
    <3>1. PICK t \in Tokens : Live(t) /\ token' = [token EXCEPT ![t].state = "expired"]
      BY <2>2 DEF OutliveToken
    <3>2. token \in [Tokens -> TokenRows] /\ token[t].state = "live"
      BY <1>1, <3>1, TypesAre DEF Live
    <3>3. token' = [token EXCEPT ![t] = [token[t] EXCEPT !.state = "expired"]]
      BY <3>1
    <3>4. token'[t] = [token[t] EXCEPT !.state = "expired"]
          /\ \A s \in Tokens : s # t => token'[s] = token[s]
      BY <3>2, <3>3
    <3>5. token'[t] \in TokenRows /\ Weaker(t)
      BY <1>2, <3>1, <3>2, <3>4
    <3> QED
      BY <3>2, <3>3, <3>4, <3>5 DEF Weaker
  <2> QED
    BY <2>1, <2>2
<1>4. /\ Handlers' /\ req' \in [Clients -> Requests] /\ StillOut
      /\ \A k \in Codes : Using(k)' = Using(k)
  <2>1. \A g : Fit(g) => Fit(g)'
    BY <1>1, TablesFit
  <2> QED
    BY <1>1, <2>1, TypesAre DEF IInv, Handlers, Fit, WellFormed, StillOut, At, Using
<1>5. RotationSignsOut'
  BY <1>1, <1>3, <1>4, RotationStays DEF IInv
<1> QED
  BY <1>1, <1>3, <1>4, <1>5, TokensEnd

(* The change of a passphrase ends: nothing the old one bought is live. *)
LEMMA SignOutStep ==
  ASSUME IInv, NEW c \in Clients, SignOutDevices(c)
  PROVE  IInv'
<1>1. /\ TypeOK /\ Finish(c) /\ req[c].op = "change"
      /\ UNCHANGED <<mode, setup, user, invite, made, issued, seen>>
      /\ Fit(req[c])
  BY DEF IInv, SignOutDevices, At, Handlers
<1>2. PICK n \in Names : n = req[c].name
  BY <1>1 DEF Fit, WellFormed
<1>3. ~req[c].active
  BY <1>1 DEF Fit, WellFormed
<1>4. /\ Handlers' /\ req' \in [Clients -> Requests]
      /\ \A k \in Codes : Using(k)' = Using(k)
      /\ \A d \in Clients : d # c => req'[d] = req[d]
  BY <1>1, <1>3, HandlerEnds, TablesFit, TypesAre DEF Finish, Go
<1>5. /\ token' \in [Tokens -> TokenRows] /\ \A t \in Tokens : Weaker(t)
      /\ Exists(n) => \A t \in Tokens : token[t].owner = user[n].id
                                          => token'[t].state = "gone"
  <2>1. CASE Exists(n)
    <3>1. token' = Without(user[n].id, {})
      BY <1>2, <2>1 DEF SignOutDevices
    <3>2. PICK kept : kept = {}
      OBVIOUS
    <3>3. \A t \in Tokens : token[t].owner = user[n].id /\ t \notin kept
                            => token'[t].state = "gone"
      BY <1>1, <2>1, <3>1, <3>2, WithoutIs
    <3>4. token' \in [Tokens -> TokenRows] /\ \A t \in Tokens : Weaker(t)
      BY <1>1, <2>1, <3>1, <3>2, WithoutIs
    <3> QED
      BY <3>2, <3>3, <3>4
  <2>2. CASE ~Exists(n)
    BY <1>1, <1>2, <2>2, TypesAre DEF SignOutDevices, Weaker
  <2> QED
    BY <2>1, <2>2
<1>6. ASSUME NEW t \in Tokens, NEW m \in Names, token'[t].state = "live",
             token'[t].owner = user[m].id, token'[t].pass < user[m].pass
      PROVE  \/ t \in seen.late \/ user[m].id \in seen.torn
             \/ \E d \in Clients : req'[d].op = "change" /\ req'[d].at = "signout"
                                    /\ req'[d].name = m
  <2>1. token'[t] = token[t] /\ Live(t)
    BY <1>5, <1>6 DEF Weaker, Live
  <2>2. token[t].owner > 0
    BY <1>1, <2>1, TypesAre DEF Live, Unminted
  <2>3. Exists(m)
    BY <1>1, <1>6, <2>1, <2>2, TypesAre
  <2>4. m # n
    BY <1>5, <1>6, <2>1, <2>3
  <2>5. \/ t \in seen.late \/ user[m].id \in seen.torn
        \/ \E d \in Clients : At(d, {"change"}, "signout") /\ req[d].name = m
    BY <1>6, <2>1 DEF IInv, RotationSignsOut
  <2> QED
    BY <1>2, <1>4, <2>4, <2>5 DEF At
<1>7. RotationSignsOut'
  BY <1>1, <1>6 DEF RotationSignsOut, Live, At
<1> QED
  BY <1>1, <1>4, <1>5, <1>7, TokensEnd

----------------------------------------------------------------------------
(* Accounts come, change and go. *)

LEMMA CreatedIs ==
  ASSUME TypeOK, NEW n \in Names, ~Exists(n), made < MaxAccounts,
         NEW admin \in BOOLEAN, NEW active \in BOOLEAN, Created(n, admin, active)
  PROVE  /\ user' \in [Names -> Rows] /\ made' = made + 1 /\ made' \in 0..MaxAccounts
         /\ user'[n].id = made + 1 /\ user'[n].pass = 0 /\ user'[n].admin = admin
         /\ user'[n] # NoUser
         /\ user'[n].state = "active" => active
         /\ \A m \in Names : m # n => user'[m] = user[m]
         /\ \A m \in Names : user'[m].id <= made'
         /\ \A m, k \in Names : user'[m] # NoUser /\ user'[m].id = user'[k].id => m = k
         /\ user[n].id = 0
<1>1. /\ user \in [Names -> Rows] /\ made \in Nat /\ made + 1 \in 0..MaxAccounts
      /\ made + 1 \in Ids /\ 0 \in Versions
  BY TypesAre, ConstantsAre DEF Ids, Versions
<1>2. PICK row : row = [id |-> made + 1, admin |-> admin, pass |-> 0,
                        state |-> IF active THEN "active" ELSE "pending"]
  OBVIOUS
<1>3. /\ row \in Rows /\ row.id = made + 1 /\ row.pass = 0 /\ row.admin = admin
      /\ row # NoUser /\ (row.state = "active" => active)
  BY <1>1, <1>2 DEF Rows, NoUser
<1>4. user' = [user EXCEPT ![n] = row] /\ made' = made + 1
  BY <1>2 DEF Created
<1>5. /\ user' \in [Names -> Rows] /\ user'[n] = row
      /\ \A m \in Names : m # n => user'[m] = user[m]
  BY <1>1, <1>3, <1>4
<1>6. \A m \in Names : user[m].id \in Nat /\ user[m].id <= made
  BY TypesAre
<1>7. \A m \in Names : user'[m].id <= made'
  BY <1>1, <1>3, <1>4, <1>5, <1>6
<1>8. ASSUME NEW m \in Names, NEW k \in Names, user'[m] # NoUser,
             user'[m].id = user'[k].id
      PROVE  m = k
  <2>1. CASE m # n /\ k # n
    BY <1>5, <1>8, <2>1, TypesAre DEF Exists
  <2>2. CASE ~(m # n /\ k # n)
    BY <1>1, <1>3, <1>5, <1>6, <1>8, <2>2
  <2> QED
    BY <2>1, <2>2
<1>9. user[n].id = 0
  BY DEF Exists, NoUser
<1> QED
  BY <1>1, <1>3, <1>4, <1>5, <1>7, <1>8, <1>9

LEMMA JoinStep ==
  ASSUME IInv, NEW c \in Clients, NEW n \in Names, ~Exists(n), made < MaxAccounts,
         NEW admin \in BOOLEAN, NEW active \in BOOLEAN, Created(n, admin, active),
         NEW r \in Requests, Go(c, r), Fit(r)', ~At(c, {"change"}, "signout"),
         seen' \in Memory, seen'.late = seen.late, seen'.torn = seen.torn,
         seen.vouched \subseteq seen'.vouched, active => made + 1 \in seen'.vouched,
         seen'.twins <=> seen.twins \/ (admin /\ Admins # {}),
         ~admin => made > 0, Unsold', InviteUsesAddUp',
         UNCHANGED <<mode, setup, token, invite, issued>>
  PROVE  IInv'
<1>1. TypeOK /\ Handlers
  BY DEF IInv
<1>2. /\ user' \in [Names -> Rows] /\ made' = made + 1 /\ made' \in 0..MaxAccounts
      /\ user'[n].id = made + 1 /\ user'[n].pass = 0 /\ user'[n].admin = admin
      /\ user'[n] # NoUser /\ (user'[n].state = "active" => active)
      /\ \A m \in Names : m # n => user'[m] = user[m]
      /\ \A m \in Names : user'[m].id <= made'
      /\ \A m, k \in Names : user'[m] # NoUser /\ user'[m].id = user'[k].id => m = k
      /\ user[n].id = 0
  BY <1>1, CreatedIs
<1>3. made \in Nat /\ made' \in Nat /\ made <= made'
  BY <1>1, <1>2, TypesAre
<1>4. Admins' = IF admin THEN Admins \cup {n} ELSE Admins
  BY <1>2 DEF Admins, Exists
<1>5. OneAdmin'
  <2>1. CASE admin
    BY <1>4, <2>1 DEF OneAdmin
  <2>2. CASE ~admin
    BY <1>3, <1>4, <2>2 DEF IInv, OneAdmin
  <2> QED
    BY <2>1, <2>2
<1>6. seen'.twins \/ Admins' = Admins \/ made = 0
  BY <1>3, <1>4 DEF IInv, OneAdmin
<1>7. \A m \in Names : user'[m].id \in {user[m].id, 0, made + 1}
  BY <1>2
<1>8. \A g : Fit(g) => Fit(g)'
  BY <1>1, <1>3, <1>6, <1>7, FitStays
<1>9. Handlers' /\ req' \in [Clients -> Requests]
  BY <1>1, <1>8, HandlerMoves
<1>10. TypeOK'
  <2>1. /\ invite' \in [Codes -> InviteRows] /\ token' \in [Tokens -> TokenRows]
        /\ setup' \in BOOLEAN /\ mode' \in {"approval", "invite", "closed"}
        /\ issued' \in 0..MaxRequests
    BY <1>1, TypesAre DEF TypeOK
  <2> QED
    BY <1>2, <1>9, <2>1, TypesMake
<1>11. Vouching'
  BY <1>2 DEF IInv, Vouching
<1>12. \A t \in Tokens : Weaker(t)
  BY DEF Weaker
<1>13. StillOut
  BY <1>1, TypesAre DEF StillOut, Go, At
<1>14. RotationSignsOut'
  BY <1>1, <1>2, <1>12, <1>13, RotationStays DEF IInv
<1>15. TokensNeedAdmission'
  BY <1>1, <1>12, TokensStay DEF IInv
<1>16. ErasureIsComplete'
  BY <1>1, <1>2, <1>12, ErasureStays DEF IInv, Exists
<1> QED
  BY <1>5, <1>9, <1>10, <1>11, <1>14, <1>15, <1>16 DEF IInv

LEMMA CreateAdminStep ==
  ASSUME IInv, NEW c \in Clients, CreateAdmin(c)
  PROVE  IInv'
<1>1. /\ TypeOK /\ seen \in Memory /\ setup \in BOOLEAN /\ issued \in 0..MaxRequests
      /\ UNCHANGED <<mode, setup, token, invite, issued>> /\ made < MaxAccounts
  BY DEF IInv, TypeOK, CreateAdmin
<1>2. PICK q \in Requests : q = req[c] /\ Fit(q) /\ q.op = "bootstrap" /\ q.at = "create"
  BY DEF IInv, Handlers, Fit, WellFormed, CreateAdmin, At
<1>3. PICK n \in Names : n = q.name
  BY <1>2 DEF Fit, WellFormed
<1>4. ~req[c].active /\ ~At(c, {"change"}, "signout")
  BY <1>2 DEF Fit, WellFormed, At
<1>5. CASE Exists(n)
  <2>1. Finish(c) /\ UNCHANGED <<user, made, seen>>
    BY <1>2, <1>3, <1>5 DEF CreateAdmin
  <2> QED
    BY <1>1, <1>4, <2>1, FitIdle, OnlyHandler DEF Finish
<1>6. CASE ~Exists(n)
  <2>1. /\ Created(n, TRUE, TRUE)
        /\ Go(c, [q EXCEPT !.at = "mint", !.id = made + 1])
        /\ seen' = [seen EXCEPT !.twins = @ \/ Admins # {}, !.vouched = @ \cup {made + 1}]
    BY <1>2, <1>3, <1>6 DEF CreateAdmin
  <2>2. made \in Nat /\ made + 1 \in 0..MaxAccounts /\ made' = made + 1
    BY <1>1, <2>1, TypesAre, ConstantsAre DEF Created
  <2>3. PICK r \in Requests : r = [q EXCEPT !.at = "mint", !.id = made + 1]
    BY <2>2 DEF Requests, Steps
  <2>4. /\ r.op = "bootstrap" /\ r.at = "mint" /\ r.id = made + 1 /\ r.name = q.name
        /\ r.aim = q.aim /\ r.active = q.active
    BY <1>2, <2>3 DEF Requests
  <2>5. /\ seen' \in Memory /\ seen'.late = seen.late /\ seen'.torn = seen.torn
        /\ seen'.joined = seen.joined /\ seen'.burnt = seen.burnt
        /\ seen'.vouched = seen.vouched \cup {made + 1}
        /\ seen'.twins <=> seen.twins \/ Admins # {}
    <3>1. PICK b \in BOOLEAN : b <=> seen.twins \/ Admins # {}
      OBVIOUS
    <3>2. PICK v \in SUBSET Nat : v = seen.vouched \cup {made + 1}
      <4>1. seen.vouched \in SUBSET Nat /\ made + 1 \in Nat
        BY <1>1, <2>2 DEF Memory
      <4> QED
        BY <4>1
    <3>3. seen.twins \in BOOLEAN
      BY <1>1 DEF Memory
    <3>4. b = (seen.twins \/ Admins # {})
      BY <3>1, <3>3
    <3>5. seen' = [seen EXCEPT !.twins = b, !.vouched = v]
      BY <2>1, <3>2, <3>4
    <3>6. /\ seen' \in Memory /\ seen'.late = seen.late /\ seen'.torn = seen.torn
          /\ seen'.joined = seen.joined /\ seen'.burnt = seen.burnt
          /\ seen'.vouched = v /\ seen'.twins = b
      BY <1>1, <3>5 DEF Memory
    <3> QED
      BY <3>1, <3>2, <3>6
  <2>6. Fit(r)'
    <3>1. r.op \notin Calls \cup {"signup", "login", "device"}
      BY <2>4 DEF Calls
    <3>2. WellFormed(r)
      BY <1>2, <2>4 DEF Fit, WellFormed
    <3> QED
      BY <2>2, <2>4, <2>5, <3>1, <3>2 DEF Fit, WellFormed
  <2>7. \A k \in Codes : Using(k)' = Using(k)
    <3>1. r.active <=> req[c].active
      BY <1>2, <2>4
    <3> QED
      BY <1>1, <1>4, <2>1, <2>3, <3>1, UsingStays
  <2>8. Unsold' /\ InviteUsesAddUp'
    BY <1>1, <2>5, <2>7, UsesStay DEF IInv
  <2>9. Go(c, r)
    BY <2>1, <2>3
  <2>10. PICK admin \in BOOLEAN, active \in BOOLEAN : admin /\ active
    OBVIOUS
  <2>11. Created(n, admin, active)
    BY <2>1, <2>10 DEF Created
  <2> QED
    BY <1>1, <1>4, <1>6, <2>5, <2>6, <2>8, <2>9, <2>10, <2>11, JoinStep
<1> QED
  BY <1>5, <1>6

(* A use of an invite that a handler held is one of somebody who joined.   *)
LEMMA CreateMemberStep ==
  ASSUME IInv, NEW c \in Clients, CreateMember(c)
  PROVE  IInv'
<1>1. /\ TypeOK /\ seen \in Memory /\ setup \in BOOLEAN /\ issued \in 0..MaxRequests
      /\ UNCHANGED <<mode, setup, token, invite, issued>> /\ made < MaxAccounts
  BY DEF IInv, TypeOK, CreateMember
<1>2. PICK q \in Requests : q = req[c] /\ Fit(q) /\ q.op = "signup" /\ q.at = "create"
  BY DEF IInv, Handlers, Fit, WellFormed, CreateMember, At
<1>3. PICK n \in Names : n = q.name
  BY <1>2 DEF Fit, WellFormed
<1>4. /\ ~At(c, {"change"}, "signout") /\ (q.active => q.aim \in Codes)
      /\ made > 0 /\ made \in Nat /\ q.active \in BOOLEAN
  BY <1>1, <1>2, TypesAre DEF Fit, WellFormed, At, Requests
<1>5. CASE Exists(n) /\ ~q.active
  <2>1. Finish(c) /\ UNCHANGED <<user, made, seen>>
    BY <1>2, <1>3, <1>5 DEF CreateMember
  <2> QED
    BY <1>1, <1>2, <1>4, <1>5, <2>1, FitIdle, OnlyHandler DEF Finish
<1>6. CASE Exists(n) /\ q.active
  <2>1. Go(c, [q EXCEPT !.at = "refund"]) /\ UNCHANGED <<user, made, seen>>
    BY <1>2, <1>3, <1>6 DEF CreateMember
  <2>2. PICK r \in Requests : r = [q EXCEPT !.at = "refund"] /\ r.op = q.op
          /\ r.name = q.name /\ r.aim = q.aim /\ r.active = q.active /\ r.id = q.id
          /\ r.at = "refund"
    BY NextStep DEF Steps
  <2>3. r.id <= made
    BY <1>2, <2>2 DEF Fit
  <2>4. Fit(r)
    BY <1>2, <1>6, <2>2, <2>3, Onward
  <2>5. Go(c, r)
    BY <2>1, <2>2
  <2> QED
    BY <1>1, <1>2, <1>4, <2>1, <2>2, <2>4, <2>5, OnlyHandler
<1>7. CASE ~Exists(n)
  <2>1. /\ Created(n, FALSE, q.active) /\ Finish(c)
        /\ seen' = IF q.active THEN [seen EXCEPT !.joined[q.aim] = @ + 1,
                                                !.vouched = @ \cup {made + 1}]
                   ELSE seen
    BY <1>2, <1>3, <1>7 DEF CreateMember
  <2>2. /\ seen' \in Memory /\ seen'.late = seen.late /\ seen'.torn = seen.torn
        /\ seen'.burnt = seen.burnt /\ seen'.twins = seen.twins
        /\ seen.vouched \subseteq seen'.vouched
        /\ q.active => made + 1 \in seen'.vouched
        /\ \A k \in Codes : seen'.joined[k] = seen.joined[k]
                              + IF q.active /\ k = q.aim THEN 1 ELSE 0
    <3>1. CASE q.active
      <4>1. seen' = [seen EXCEPT !.joined = [seen.joined EXCEPT ![q.aim] = @ + 1],
                                 !.vouched = @ \cup {made + 1}]
        BY <2>1, <3>1
      <4>2. seen.joined \in [Codes -> Nat] /\ q.aim \in Codes
        BY <1>1, <1>4, <3>1 DEF Memory
      <4>3. PICK j \in [Codes -> Nat] : j = [seen.joined EXCEPT ![q.aim] = @ + 1]
        <5>1. PICK f \in [Codes -> Nat] : f = seen.joined
          BY <4>2
        <5>2. f[q.aim] + 1 \in Nat
          BY <4>2
        <5>3. PICK m \in Nat : m = f[q.aim] + 1
          BY <5>2
        <5>4. [f EXCEPT ![q.aim] = m] \in [Codes -> Nat]
          BY <4>2
        <5> QED
          BY <5>1, <5>3, <5>4
      <4>6. PICK v \in SUBSET Nat : v = seen.vouched \cup {made + 1}
        <5>1. seen.vouched \in SUBSET Nat /\ made + 1 \in Nat
          BY <1>1, <1>4 DEF Memory
        <5> QED
          BY <5>1
      <4>7. seen' = [seen EXCEPT !.joined = j, !.vouched = v]
        BY <4>1, <4>3, <4>6
      <4>4. \A k \in Codes : j[k] = seen.joined[k] + IF k = q.aim THEN 1 ELSE 0
        BY <4>2, <4>3
      <4>5. /\ seen' \in Memory /\ seen'.late = seen.late /\ seen'.torn = seen.torn
            /\ seen'.burnt = seen.burnt /\ seen'.twins = seen.twins
            /\ seen'.vouched = v /\ seen'.joined = j
        BY <1>1, <4>7 DEF Memory
      <4> QED
        BY <3>1, <4>4, <4>5, <4>6
    <3>2. CASE ~q.active
      BY <1>1, <2>1, <3>2 DEF Memory
    <3> QED
      BY <3>1, <3>2
  <2>3. PICK r \in Requests : r = Idle /\ ~r.active
    BY IdleIs
  <2>4. Go(c, r) /\ Fit(r)'
    <3>1. Fit(Idle) /\ made' = made + 1
      BY <1>1, <2>1, FitIdle DEF Created
    <3>2. r.id = 0 /\ WellFormed(r)
          /\ r.op \notin Calls \cup {"signup", "login", "device", "bootstrap",
                                    "delete", "invite"}
      BY <2>3, IdleIs DEF Calls
    <3> QED
      BY <1>4, <2>1, <2>3, <3>1, <3>2 DEF Finish, Fit, WellFormed
  <2>5. Unsold' /\ InviteUsesAddUp'
    <3>1. CASE ~q.active
      <4>1. \A k \in Codes : Using(k)' = Using(k)
        BY <1>1, <1>2, <2>3, <2>4, <3>1, UsingStays
      <4> QED
        BY <1>1, <2>1, <3>1, <4>1, UsesStay DEF IInv
    <3>2. CASE q.active
      <4>1. ASSUME NEW k \in Codes
            PROVE  /\ Using(k)' \subseteq Using(k)
                   /\ Cardinality(Using(k)') + (IF k = q.aim THEN 1 ELSE 0)
                        = Cardinality(Using(k))
                   /\ k = q.aim => Using(k) # {}
        BY <1>1, <1>2, <2>3, <2>4, <3>2, UsingShrinks, UsingIs, FS_EmptySet
      <4>2. ASSUME NEW k \in Codes, invite[k] = NoInvite
            PROVE  seen'.joined[k] = 0 /\ seen'.burnt[k] = 0 /\ Using(k)' = {}
        BY <2>2, <4>1, <4>2 DEF IInv, Unsold
      <4>3. ASSUME NEW k \in Codes, invite[k].state \in {"live", "dead"}
            PROVE  /\ invite[k].used = seen'.joined[k] + seen'.burnt[k]
                                          + Cardinality(Using(k)')
                   /\ invite[k].used <= invite[k].max
        <5>1. /\ invite[k].used = seen.joined[k] + seen.burnt[k] + Cardinality(Using(k))
              /\ invite[k].used <= invite[k].max
          BY <4>3 DEF IInv, InviteUsesAddUp, Using
        <5>2. /\ seen.joined[k] \in Nat /\ seen.burnt[k] \in Nat
              /\ Cardinality(Using(k)) \in Nat
          BY <1>1, UsingIs DEF Memory
        <5>3. Cardinality(Using(k)') \in Nat
          <6>1. IsFiniteSet(Using(k)')
            BY <4>1, UsingIs, FS_Subset
          <6> QED
            BY <6>1, FS_CardinalityType
        <5> QED
          BY <2>2, <3>2, <4>1, <5>1, <5>2, <5>3
      <4> QED
        BY <1>1, <4>2, <4>3 DEF Unsold, InviteUsesAddUp, Using
    <3> QED
      BY <3>1, <3>2
  <2>6. PICK admin \in BOOLEAN, active \in BOOLEAN : ~admin /\ (active <=> q.active)
    OBVIOUS
  <2>7. Created(n, admin, active)
    BY <1>4, <2>1, <2>6 DEF Created
  <2> QED
    BY <1>1, <1>4, <1>7, <2>2, <2>4, <2>5, <2>6, <2>7, JoinStep
<1> QED
  BY <1>5, <1>6, <1>7

(* An account's row changes, and it stays the account it is.               *)
LEMMA EditStep ==
  ASSUME IInv, NEW c \in Clients, NEW r \in Requests, Go(c, r), Fit(r),
         ~r.active, ~req[c].active,
         NEW n \in Names, Exists(n), NEW x \in Rows, user' = [user EXCEPT ![n] = x],
         x.id = user[n].id, x.admin <=> user[n].admin,
         x.state = "active" => x.id \in seen'.vouched,
         seen' \in Memory, seen.vouched \subseteq seen'.vouched,
         seen'.late = seen.late, seen'.torn = seen.torn, seen'.twins = seen.twins,
         seen'.joined = seen.joined, seen'.burnt = seen.burnt,
         UNCHANGED <<mode, setup, token, invite, made, issued>>,
         RotationSignsOut'
  PROVE  IInv'
<1>1. TypeOK /\ Handlers /\ made \in Nat /\ user \in [Names -> Rows]
  BY TypesAre DEF IInv
<1>2. /\ user' \in [Names -> Rows] /\ user'[n] = x
      /\ \A m \in Names : m # n => user'[m] = user[m]
  BY <1>1
<1>3. \A m \in Names : user'[m].id = user[m].id
  BY <1>2
<1>4. x # NoUser
  BY <1>1, TypesAre DEF NoUser
<1>5. \A m \in Names : user'[m] # NoUser <=> user[m] # NoUser
  BY <1>2, <1>4 DEF Exists
<1>6. Admins' = Admins
  BY <1>2, <1>4 DEF Admins, Exists
<1>7. \A g : Fit(g) => Fit(g)'
  BY <1>1, <1>3, <1>6, FitStays
<1>8. Handlers' /\ req' \in [Clients -> Requests]
  BY <1>1, <1>7, HandlerMoves
<1>9. TypeOK'
  <2>1. /\ token' \in [Tokens -> TokenRows] /\ invite' \in [Codes -> InviteRows]
        /\ made' \in 0..MaxAccounts /\ mode' \in {"approval", "invite", "closed"}
        /\ setup' \in BOOLEAN /\ issued' \in 0..MaxRequests
    BY <1>1, TypesAre DEF TypeOK
  <2>2. /\ \A m \in Names : user'[m].id <= made'
        /\ \A m, k \in Names : user'[m] # NoUser /\ user'[m].id = user'[k].id => m = k
    BY <1>1, <1>3, <1>5, TypesAre DEF Exists
  <2> QED
    BY <1>2, <1>8, <2>1, <2>2, TypesMake
<1>10. Vouching' /\ OneAdmin'
  BY <1>2, <1>6 DEF IInv, Vouching, OneAdmin
<1>11. \A k \in Codes : Using(k)' = Using(k)
  BY <1>1, UsingStays
<1>12. Unsold' /\ InviteUsesAddUp'
  BY <1>11, UsesStay DEF IInv
<1>13. \A t \in Tokens : Weaker(t)
  BY DEF Weaker
<1>14. TokensNeedAdmission'
  BY <1>1, <1>13, TokensStay DEF IInv
<1>15. ErasureIsComplete'
  BY <1>1, <1>3, <1>5, <1>13, ErasureStays DEF IInv, Exists
<1> QED
  BY <1>8, <1>9, <1>10, <1>12, <1>14, <1>15 DEF IInv

LEMMA WritePassphraseStep ==
  ASSUME IInv, NEW c \in Clients, WritePassphrase(c)
  PROVE  IInv'
<1>1. At(c, {"change"}, "write") /\ "none" \notin {"change"}
      /\ UNCHANGED <<mode, setup, token, invite, made, issued, seen>>
  BY DEF WritePassphrase
<1>2. PICK q \in Requests : q = req[c] /\ q.op = "change" /\ q.at = "write" /\ Fit(q)
        /\ ~q.active /\ q.name \in Names /\ TypeOK /\ setup \in BOOLEAN
        /\ issued \in 0..MaxRequests
  BY <1>1, ReaderIs DEF At
<1>3. PICK n \in Names : n = q.name
  BY <1>2
<1>4. PICK r \in Requests : r = [q EXCEPT !.at = "signout"] /\ r.op = q.op
        /\ r.name = q.name /\ r.aim = q.aim /\ r.active = q.active /\ r.id = q.id
        /\ r.at = "signout"
  BY NextStep DEF Steps
<1>5. Fit(r)
  <2>1. r.id <= made
    BY <1>2, <1>4 DEF Fit
  <2> QED
    BY <1>2, <1>4, <2>1, Onward
<1>6. Go(c, r) /\ ~At(c, {"change"}, "signout")
  BY <1>2, <1>4 DEF WritePassphrase, At
<1>7. CASE ~Exists(n)
  <2>1. user' = user
    BY <1>2, <1>3, <1>7 DEF WritePassphrase
  <2> QED
    BY <1>1, <1>2, <1>4, <1>5, <1>6, <2>1, OnlyHandler
<1>8. CASE Exists(n)
  <2>1. /\ user' = [user EXCEPT ![n] = [user[n] EXCEPT !.pass = user[n].pass + 1]]
        /\ user[n].pass < MaxChanges
    BY <1>2, <1>3, <1>8 DEF WritePassphrase
  <2>2. /\ user[n] \in [id : Ids, admin : BOOLEAN, pass : Versions,
                        state : {"active", "pending", "suspended"}]
        /\ user[n].pass + 1 \in Versions /\ user \in [Names -> Rows]
    BY <1>2, <1>8, <2>1, TypesAre, ConstantsAre DEF Rows, Exists, Versions
  <2>3. PICK x \in Rows : /\ x = [user[n] EXCEPT !.pass = user[n].pass + 1]
                          /\ x.id = user[n].id /\ x.admin = user[n].admin
                          /\ x.state = user[n].state
    <3>1. PICK u : u = user[n]
      OBVIOUS
    <3>2. PICK p \in Versions : p = u.pass + 1
      BY <2>2, <3>1
    <3> DEFINE e == [u EXCEPT !.pass = p]
    <3>3. /\ e \in Rows /\ e.id = u.id /\ e.admin = u.admin /\ e.state = u.state
      BY <2>2, <3>1 DEF Rows
    <3> QED
      BY <3>1, <3>2, <3>3
  <2>4. user' = [user EXCEPT ![n] = x]
    BY <2>1, <2>3
  <2>5. \A d \in Clients : req'[d] = IF d = c THEN r ELSE req[d]
    BY <1>2, <1>6, TypesAre DEF Go
  <2>6. ASSUME NEW t \in Tokens, NEW m \in Names, token[t].state = "live",
               token[t].owner = user'[m].id, token[t].pass < user'[m].pass
        PROVE  \/ t \in seen.late \/ user'[m].id \in seen.torn
               \/ \E d \in Clients : req'[d].op = "change" /\ req'[d].at = "signout"
                                      /\ req'[d].name = m
    <3>1. CASE m = n
      BY <1>2, <1>3, <1>4, <2>5, <3>1
    <3>2. CASE m # n
      <4>1. user'[m] = user[m]
        BY <2>2, <2>4, <3>2
      <4>2. \/ t \in seen.late \/ user[m].id \in seen.torn
            \/ \E d \in Clients : At(d, {"change"}, "signout") /\ req[d].name = m
        BY <2>6, <4>1 DEF IInv, RotationSignsOut, Live
      <4> QED
        BY <1>6, <2>5, <4>1, <4>2 DEF At
    <3> QED
      BY <3>1, <3>2
  <2>7. RotationSignsOut'
    BY <1>1, <2>6 DEF RotationSignsOut, Live, At
  <2>8. x.state = "active" => x.id \in seen'.vouched
    BY <1>1, <2>3 DEF IInv, Vouching
  <2>9. seen' \in Memory /\ seen' = seen
    BY <1>1 DEF IInv
  <2> QED
    BY <1>1, <1>2, <1>4, <1>5, <1>6, <1>8, <2>3, <2>4, <2>7, <2>8, <2>9, EditStep
<1> QED
  BY <1>7, <1>8

LEMMA SetStateStep ==
  ASSUME IInv, NEW c \in Clients, NEW s \in {"active", "pending", "suspended"},
         SetState(c, s)
  PROVE  IInv'
<1>1. At(c, {"state"}, "act") /\ "none" \notin {"state"} /\ Finish(c)
      /\ UNCHANGED <<mode, setup, token, invite, made, issued>>
  BY DEF SetState
<1>2. PICK q \in Requests : q = req[c] /\ q.op = "state" /\ Fit(q) /\ ~q.active
        /\ q.name \in Names /\ TypeOK /\ setup \in BOOLEAN
  BY <1>1, ReaderIs DEF At
<1>3. PICK n \in Names : n = q.aim
  BY <1>2 DEF Fit, WellFormed
<1>4. CASE UNCHANGED <<user, seen>>
  BY <1>1, <1>2, <1>4, EndReader
<1>5. CASE ~UNCHANGED <<user, seen>>
  <2>1. /\ Exists(n) /\ user' = [user EXCEPT ![n] = [user[n] EXCEPT !.state = s]]
        /\ seen' = IF s = "active" THEN [seen EXCEPT !.vouched = @ \cup {user[n].id}]
                   ELSE seen
    BY <1>2, <1>3, <1>5 DEF SetState
  <2>2. /\ user[n] \in [id : Ids, admin : BOOLEAN, pass : Versions,
                        state : {"active", "pending", "suspended"}]
        /\ user \in [Names -> Rows] /\ user[n].id \in Nat
    BY <1>2, <2>1, TypesAre DEF Rows, Exists
  <2>3. PICK x \in Rows : /\ x = [user[n] EXCEPT !.state = s]
                          /\ x.id = user[n].id /\ x.admin = user[n].admin
                          /\ x.state = s /\ x.pass = user[n].pass
    <3>1. PICK u : u = user[n]
      OBVIOUS
    <3> DEFINE e == [u EXCEPT !.state = s]
    <3>2. /\ e \in Rows /\ e.id = u.id /\ e.admin = u.admin /\ e.state = s
          /\ e.pass = u.pass
      BY <2>2, <3>1 DEF Rows
    <3> QED
      BY <3>1, <3>2
  <2>4. user' = [user EXCEPT ![n] = x]
    BY <2>1, <2>3
  <2>5. /\ seen' \in Memory /\ seen.vouched \subseteq seen'.vouched
        /\ seen'.late = seen.late /\ seen'.torn = seen.torn /\ seen'.twins = seen.twins
        /\ seen'.joined = seen.joined /\ seen'.burnt = seen.burnt
        /\ s = "active" => user[n].id \in seen'.vouched
    <3>1. seen \in Memory
      BY DEF IInv
    <3>2. CASE s = "active"
      <4>1. PICK v \in SUBSET Nat : v = seen.vouched \cup {user[n].id}
        <5>1. seen.vouched \in SUBSET Nat
          BY <3>1 DEF Memory
        <5> QED
          BY <2>2, <5>1
      <4>2. seen' = [seen EXCEPT !.vouched = v]
        BY <2>1, <3>2, <4>1
      <4> QED
        BY <3>1, <4>1, <4>2 DEF Memory
    <3>3. CASE s # "active"
      BY <2>1, <3>1, <3>3
    <3> QED
      BY <3>2, <3>3
  <2>6. PICK r \in Requests : r = Idle /\ Fit(r) /\ ~r.active
    BY <1>2, FitIdle, IdleIs
  <2>7. Go(c, r)
    BY <1>1, <2>6 DEF Finish
  <2>8. RotationSignsOut'
    <3>1. StillOut
      BY <1>1, <1>2, TypesAre DEF StillOut, Finish, Go, At
    <3>2. \A m \in Names : user'[m].id = user[m].id /\ user'[m].pass = user[m].pass
      BY <2>2, <2>3, <2>4
    <3>3. \A t \in Tokens : Weaker(t)
      BY <1>1 DEF Weaker
    <3> QED
      BY <1>2, <2>5, <3>1, <3>2, <3>3, RotationStays DEF IInv
  <2> QED
    BY <1>1, <1>2, <2>1, <2>3, <2>4, <2>5, <2>6, <2>7, <2>8, EditStep
<1> QED
  BY <1>4, <1>5
(* An account goes, with every token it has and every invite it made.      *)
LEMMA EraseStep ==
  ASSUME IInv, NEW c \in Clients, Erase(c)
  PROVE  IInv'
<1>1. At(c, {"delete"}, "erase") /\ "none" \notin {"delete"} /\ Finish(c)
      /\ UNCHANGED <<mode, setup, made, issued, seen>>
  BY DEF Erase
<1>2. PICK q \in Requests : q = req[c] /\ q.op = "delete" /\ q.at = "erase" /\ Fit(q)
        /\ ~q.active /\ TypeOK /\ setup \in BOOLEAN /\ ~At(c, {"change"}, "signout")
  BY <1>1, ReaderIs DEF At
<1>3. PICK n \in Names : n = q.aim
  BY <1>2 DEF Fit, WellFormed
<1>4. CASE ~Exists(n)
  <2>1. UNCHANGED <<user, token, invite>>
    BY <1>2, <1>3, <1>4 DEF Erase
  <2> QED
    BY <1>1, <1>2, <2>1, EndReader
<1>5. CASE Exists(n)
  <2>1. /\ user' = [user EXCEPT ![n] = NoUser] /\ token' = Without(user[n].id, {})
        /\ invite' = [k \in Codes |->
             IF invite[k].by = n /\ invite[k].state # "gone"
             THEN [invite[k] EXCEPT !.state = "gone"] ELSE invite[k]]
    BY <1>2, <1>3, <1>5 DEF Erase
  <2>2. /\ user \in [Names -> Rows] /\ made \in Nat
        /\ \A m \in Names : user[m].id \in Nat /\ user[m].id <= made
    BY <1>2, TypesAre
  <2>3. NoUser \in Rows /\ NoUser.id = 0 /\ NoUser.state = "none"
    BY DEF Rows, NoUser
  <2>4. /\ user' \in [Names -> Rows] /\ user'[n] = NoUser
        /\ \A m \in Names : m # n => user'[m] = user[m]
    BY <2>1, <2>2, <2>3
  <2>5. seen'.twins \/ Admins' = Admins
    <3>1. ~seen.twins => n \notin Admins
      BY <1>2, <1>3 DEF Fit
    <3> QED
      BY <1>1, <2>4, <3>1 DEF Admins, Exists
  <2>6. \A g : Fit(g) => Fit(g)'
    <3>1. \A m \in Names : user'[m].id \in {user[m].id, 0, made + 1}
      BY <2>3, <2>4
    <3> QED
      BY <1>1, <1>2, <2>2, <2>5, <3>1, FitStays
  <2>7. /\ Handlers' /\ req' \in [Clients -> Requests] /\ StillOut
        /\ \A k \in Codes : Using(k)' = Using(k)
    BY <1>1, <1>2, <2>6, HandlerEnds
  <2>8. /\ token' \in [Tokens -> TokenRows] /\ \A t \in Tokens : Weaker(t)
        /\ \A t \in Tokens : token[t].owner = user[n].id => token'[t].state = "gone"
    <3>1. PICK kept : kept = {}
      OBVIOUS
    <3>2. token' = Without(user[n].id, kept)
      BY <2>1, <3>1
    <3>3. \A t \in Tokens : token[t].owner = user[n].id /\ t \notin kept
                            => token'[t].state = "gone"
      BY <1>2, <1>5, <3>2, WithoutIs
    <3>4. token' \in [Tokens -> TokenRows] /\ \A t \in Tokens : Weaker(t)
      BY <1>2, <1>5, <3>2, WithoutIs
    <3> QED
      BY <3>1, <3>3, <3>4
  <2>9. ASSUME NEW k \in Codes
        PROVE  /\ invite'[k] \in InviteRows
               /\ invite'[k].state \in {"live", "dead"} => /\ invite'[k] = invite[k]
                                                           /\ invite[k].by # n
               /\ invite'[k] = NoInvite => invite[k] = NoInvite
    <3>1. PICK i \in InviteRows : i = invite[k]
      BY <1>2, TypesAre
    <3>2. invite'[k] = IF i.by = n /\ i.state # "gone"
                       THEN [i EXCEPT !.state = "gone"] ELSE i
      BY <2>1, <3>1
    <3>3. CASE i.by = n /\ i.state # "gone"
      <4>1. i \in [state : {"live", "dead", "gone"}, used : 0..MaxUses,
                   max : 1..MaxUses, by : Names]
        BY <3>3, ConstantsAre DEF InviteRows, NoInvite
      <4>2. [i EXCEPT !.state = "gone"] \in InviteRows
            /\ [i EXCEPT !.state = "gone"].state = "gone"
        BY <4>1 DEF InviteRows
      <4> QED
        BY <3>2, <3>3, <4>2 DEF NoInvite
    <3>4. CASE ~(i.by = n /\ i.state # "gone")
      BY <3>1, <3>2, <3>4
    <3> QED
      BY <3>3, <3>4
  <2>10. TypeOK'
    <3>1. /\ made' \in 0..MaxAccounts /\ mode' \in {"approval", "invite", "closed"}
          /\ setup' \in BOOLEAN /\ issued' \in 0..MaxRequests
      BY <1>1, <1>2, TypesAre DEF TypeOK
    <3>2. invite' \in [Codes -> InviteRows]
      <4>1. invite' = [k \in Codes |-> invite'[k]]
        BY <2>1
      <4> QED
        BY <2>9, <4>1
    <3>3. /\ \A m \in Names : user'[m].id <= made'
          /\ \A m, k \in Names : user'[m] # NoUser /\ user'[m].id = user'[k].id => m = k
      <4>1. \A m \in Names : user'[m].id <= made'
        BY <1>1, <2>2, <2>3, <2>4
      <4>2. ASSUME NEW m \in Names, NEW k \in Names, user'[m] # NoUser,
                   user'[m].id = user'[k].id
            PROVE  m = k
        <5>1. m # n /\ user'[m] = user[m] /\ Exists(m) /\ user[m].id > 0
          BY <1>2, <2>4, <4>2, TypesAre DEF Exists
        <5>2. k # n /\ user'[k] = user[k]
          BY <2>3, <2>4, <4>2, <5>1
        <5> QED
          BY <1>2, <4>2, <5>1, <5>2, TypesAre
      <4> QED
        BY <4>1, <4>2
    <3> QED
      BY <2>4, <2>7, <2>8, <3>1, <3>2, <3>3, TypesMake
  <2>11. Vouching' /\ OneAdmin'
    BY <1>1, <2>3, <2>4, <2>5 DEF IInv, Vouching, OneAdmin
  <2>12. Unsold' /\ InviteUsesAddUp'
    <3>1. Unsold'
      BY <1>1, <2>7, <2>9 DEF IInv, Unsold
    <3>2. InviteUsesAddUp'
      BY <1>1, <2>7, <2>9 DEF IInv, InviteUsesAddUp, Using
    <3> QED
      BY <3>1, <3>2
  <2>13. TokensNeedAdmission'
    BY <1>1, <1>2, <2>8, TokensStay DEF IInv
  <2>14. RotationSignsOut'
    <3>1. \A m \in Names : \/ user'[m].id = user[m].id /\ user'[m].pass = user[m].pass
                           \/ user'[m].id = 0 \/ user'[m].pass = 0
      BY <2>3, <2>4
    <3> QED
      BY <1>1, <1>2, <2>7, <2>8, <3>1, RotationStays DEF IInv
  <2>15. ErasureIsComplete'
    <3>1. ASSUME NEW t \in Tokens, token'[t].state \in {"live", "expired"}
          PROVE  \E m \in Names : user'[m].id = token'[t].owner
      <4>1. token[t].owner # user[n].id
        BY <2>8, <3>1
      <4>2. token'[t] = token[t]
        BY <1>2, <1>5, <2>1, <4>1, WithoutIs
      <4>3. PICK m \in Names : user[m].id = token[t].owner
        BY <3>1, <4>2 DEF IInv, ErasureIsComplete, Holder
      <4> QED
        BY <2>4, <4>1, <4>2, <4>3
    <3>2. ASSUME NEW k \in Codes, invite'[k].state \in {"live", "dead"}, ~seen'.twins
          PROVE  user'[invite'[k].by] # NoUser
      <4>1. invite'[k] = invite[k] /\ invite[k].by # n
        BY <2>9, <3>2
      <4>2. Exists(invite[k].by)
        BY <1>1, <3>2, <4>1 DEF IInv, ErasureIsComplete
      <4>3. invite[k].by \in Names
        <5>1. invite[k] \in InviteRows /\ invite[k] # NoInvite
          BY <1>2, <3>2, <4>1, TypesAre DEF NoInvite
        <5> QED
          BY <5>1 DEF InviteRows
      <4> QED
        BY <2>4, <4>1, <4>2, <4>3 DEF Exists
    <3> QED
      BY <3>1, <3>2 DEF ErasureIsComplete, Holder, Exists
  <2> QED
    BY <1>1, <2>7, <2>10, <2>11, <2>12, <2>13, <2>14, <2>15 DEF IInv
<1> QED
  BY <1>4, <1>5

----------------------------------------------------------------------------
(* Invites come, are used, and go. *)

LEMMA InvitesMove ==
  ASSUME IInv, invite' \in [Codes -> InviteRows], Handlers',
         req' \in [Clients -> Requests], StillOut,
         UNCHANGED <<mode, setup, user, token, made, issued, seen>>,
         \A k \in Codes : invite'[k].state \in {"live", "dead"} =>
           \/ invite[k].state \in {"live", "dead"} /\ invite'[k].by = invite[k].by
           \/ ~seen.twins => Exists(invite'[k].by),
         Unsold', InviteUsesAddUp'
  PROVE  IInv'
<1>1. TypeOK
  BY DEF IInv
<1>2. TypeOK'
  <2>1. /\ user' \in [Names -> Rows] /\ token' \in [Tokens -> TokenRows]
        /\ made' \in 0..MaxAccounts /\ mode' \in {"approval", "invite", "closed"}
        /\ setup' \in BOOLEAN /\ issued' \in 0..MaxRequests
        /\ \A m \in Names : user'[m].id <= made'
        /\ \A m, k \in Names : user'[m] # NoUser /\ user'[m].id = user'[k].id => m = k
    BY <1>1, TypesAre DEF Exists, TypeOK
  <2> QED
    BY <2>1, TypesMake
<1>3. \A t \in Tokens : Weaker(t)
  BY DEF Weaker
<1>4. TokensNeedAdmission' /\ RotationSignsOut'
  BY <1>1, <1>3, TokensStay, RotationStays DEF IInv
<1>5. ErasureIsComplete'
  <2>1. \A t \in Tokens : token'[t].state \in {"live", "expired"}
                            => \E m \in Names : user'[m].id = token'[t].owner
    BY DEF IInv, ErasureIsComplete, Holder
  <2>2. \A k \in Codes : invite'[k].state \in {"live", "dead"} /\ ~seen'.twins
                           => user'[invite'[k].by] # NoUser
    BY DEF IInv, ErasureIsComplete, Exists
  <2> QED
    BY <2>1, <2>2 DEF ErasureIsComplete, Holder, Exists
<1>6. Vouching' /\ OneAdmin'
  BY AccountsStay DEF IInv
<1> QED
  BY <1>2, <1>4, <1>5, <1>6 DEF IInv

(* A use is taken by a signup, which holds it from then on. *)
LEMMA RedeemStep ==
  ASSUME IInv, NEW c \in Clients, RedeemInvite(c)
  PROVE  IInv'
<1>1. At(c, {"signup"}, "redeem") /\ "none" \notin {"signup"}
      /\ UNCHANGED <<mode, setup, user, token, made, issued, seen>>
  BY DEF RedeemInvite
<1>2. PICK q \in Requests : q = req[c] /\ q.op = "signup" /\ q.at = "redeem" /\ Fit(q)
        /\ ~q.active /\ TypeOK /\ setup \in BOOLEAN /\ ~At(c, {"change"}, "signout")
  BY <1>1, ReaderIs DEF At
<1>3. PICK k \in Codes : k = q.aim
  BY <1>2 DEF Fit, WellFormed
<1>4. CASE ~Redeemable(k)
  <2>1. /\ Finish(c) \/ Go(c, [q EXCEPT !.at = "create"])
        /\ UNCHANGED invite
    BY <1>2, <1>3, <1>4 DEF RedeemInvite
  <2>2. CASE Finish(c)
    BY <1>1, <1>2, <2>1, <2>2, EndReader
  <2>3. CASE Go(c, [q EXCEPT !.at = "create"])
    <3>1. PICK r \in Requests : r = [q EXCEPT !.at = "create"] /\ r.op = q.op
            /\ r.name = q.name /\ r.aim = q.aim /\ r.active = q.active /\ r.id = q.id
            /\ r.at = "create"
      BY NextStep DEF Steps
    <3>2. r.id <= made
      BY <1>2, <3>1 DEF Fit
    <3>3. Fit(r)
      BY <1>2, <3>1, <3>2, Onward
    <3>4. Go(c, r) /\ ~r.active
      BY <1>2, <2>3, <3>1
    <3> QED
      BY <1>1, <1>2, <2>1, <3>3, <3>4, MoveReader
  <2> QED
    BY <2>1, <2>2, <2>3
<1>5. CASE Redeemable(k)
  <2>1. /\ invite' = [invite EXCEPT ![k].used = @ + 1]
        /\ Go(c, [q EXCEPT !.at = "create", !.active = TRUE])
        /\ invite[k].state = "live" /\ invite[k].used < invite[k].max
    BY <1>2, <1>3, <1>5 DEF RedeemInvite, Redeemable
  <2>2. /\ invite[k] \in [state : {"live", "dead", "gone"}, used : 0..MaxUses,
                          max : 1..MaxUses, by : Names]
        /\ invite \in [Codes -> InviteRows]
    <3>1. invite[k] \in InviteRows /\ invite[k] # NoInvite
      BY <1>2, <2>1, TypesAre DEF NoInvite
    <3> QED
      BY <1>2, <3>1, TypesAre DEF InviteRows
  <2>3. PICK x \in InviteRows : /\ x = [invite[k] EXCEPT !.used = @ + 1]
          /\ x.state = "live" /\ x.used = invite[k].used + 1 /\ x.max = invite[k].max
          /\ x.by = invite[k].by /\ x.used <= x.max
    <3>1. PICK i : i = invite[k]
      OBVIOUS
    <3>2. PICK u \in 0..MaxUses : u = i.used + 1 /\ u <= i.max
      <4>1. /\ i.used \in 0..MaxUses /\ i.max \in 1..MaxUses /\ i.used < i.max
            /\ MaxUses \in Nat
        BY <2>1, <2>2, <3>1, ConstantsAre
      <4> QED
        BY <4>1
    <3> DEFINE e == [i EXCEPT !.used = u]
    <3>3. e \in InviteRows /\ e.state = i.state /\ e.used = u /\ e.max = i.max /\ e.by = i.by
      BY <2>2, <3>1 DEF InviteRows
    <3> QED
      BY <2>1, <3>1, <3>2, <3>3
  <2>4. /\ invite' \in [Codes -> InviteRows] /\ invite'[k] = x
        /\ \A h \in Codes : h # k => invite'[h] = invite[h]
    <3>1. invite' = [invite EXCEPT ![k] = x]
      BY <2>1, <2>3
    <3> QED
      BY <2>2, <2>3, <3>1
  <2>5. PICK r \in Requests : r = [q EXCEPT !.at = "create", !.active = TRUE]
          /\ r.op = q.op /\ r.name = q.name /\ r.aim = q.aim /\ r.active /\ r.id = q.id
          /\ r.at = "create"
    <3> DEFINE e == [q EXCEPT !.at = "create", !.active = TRUE]
    <3>1. /\ e \in Requests /\ e.op = q.op /\ e.name = q.name /\ e.aim = q.aim
          /\ e.active = TRUE /\ e.id = q.id /\ e.at = "create"
      BY DEF Requests, Steps
    <3> QED
      BY <3>1
  <2>6. Fit(r)
    <3>1. r.op = "signup" /\ r.aim \in Codes /\ r.name \in Names /\ r.id <= made /\ made > 0
      BY <1>2, <1>3, <2>5 DEF Fit, WellFormed
    <3> QED
      BY <2>5, <3>1 DEF Fit, WellFormed
  <2>7. Go(c, r) /\ \A g : Fit(g) => Fit(g)'
    BY <1>1, <2>1, <2>5, TablesFit
  <2>8. Handlers' /\ req' \in [Clients -> Requests]
    <3>1. Fit(r)'
      BY <2>6, <2>7 DEF Fit, WellFormed
    <3> QED
      BY <1>2, <2>7, <3>1, HandlerMoves DEF IInv
  <2>9. StillOut
    BY <1>2, <2>7, TypesAre DEF StillOut, Go, At
  <2>10. \A h \in Codes : IF h = k THEN Cardinality(Using(h)') = Cardinality(Using(h)) + 1
                          ELSE Using(h)' = Using(h)
    BY <1>2, <1>3, <2>5, <2>7, UsingGrows
  <2>11. Unsold'
    <3>1. x # NoInvite
      BY <2>3 DEF NoInvite
    <3> QED
      BY <1>1, <2>4, <2>10, <3>1 DEF IInv, Unsold
  <2>12. InviteUsesAddUp'
    <3>1. ASSUME NEW h \in Codes, invite'[h].state \in {"live", "dead"}
          PROVE  /\ invite'[h].used = seen.joined[h] + seen.burnt[h]
                                        + Cardinality(Using(h)')
                 /\ invite'[h].used <= invite'[h].max
      <4>1. /\ seen.joined[h] \in Nat /\ seen.burnt[h] \in Nat
            /\ Cardinality(Using(h)) \in Nat
        BY UsingIs DEF IInv, Memory
      <4>2. invite[h].state \in {"live", "dead"} =>
              /\ invite[h].used = seen.joined[h] + seen.burnt[h] + Cardinality(Using(h))
              /\ invite[h].used <= invite[h].max
        BY DEF IInv, InviteUsesAddUp, Using
      <4>3. CASE h = k
        BY <2>1, <2>3, <2>4, <2>10, <4>1, <4>2, <4>3
      <4>4. CASE h # k
        BY <2>4, <2>10, <3>1, <4>2, <4>4
      <4> QED
        BY <4>3, <4>4
    <3> QED
      BY <1>1, <3>1 DEF InviteUsesAddUp, Using
  <2> QED
    <3>1. \A h \in Codes : invite'[h].state \in {"live", "dead"} =>
            invite[h].state \in {"live", "dead"} /\ invite'[h].by = invite[h].by
      BY <2>1, <2>3, <2>4
    <3> QED
      BY <1>1, <2>4, <2>8, <2>9, <2>11, <2>12, <3>1, InvitesMove
<1> QED
  BY <1>4, <1>5
(* A signup that lost the race for its name hands its use back.            *)
LEMMA RefundStep ==
  ASSUME IInv, NEW c \in Clients, RefundInvite(c)
  PROVE  IInv'
<1>1. /\ Finish(c) /\ UNCHANGED <<mode, setup, user, token, made, issued, seen>>
      /\ TypeOK /\ seen \in Memory /\ req[c].op = "signup"
  BY DEF RefundInvite, IInv, At
<1>2. PICK q \in Requests : q = req[c] /\ q.op = "signup" /\ q.active /\ q.aim \in Codes
  BY DEF RefundInvite, IInv, Handlers, Fit, WellFormed, At
<1>3. PICK k \in Codes : k = q.aim
  BY <1>2
<1>4. PICK r \in Requests : r = Idle /\ ~r.active
  BY IdleIs
<1>5. Go(c, r) /\ \A g : Fit(g) => Fit(g)'
  BY <1>1, <1>4, TablesFit DEF Finish
<1>6. Handlers' /\ req' \in [Clients -> Requests]
  <2>1. Fit(r)'
    BY <1>1, <1>4, <1>5, FitIdle DEF Fit, WellFormed
  <2> QED
    BY <1>1, <1>5, <2>1, HandlerMoves DEF IInv
<1>7. StillOut
  BY <1>1, TypesAre DEF StillOut, Finish, Go, At
<1>8. \A h \in Codes : IF h = k THEN /\ Cardinality(Using(h)') = Cardinality(Using(h)) - 1
                                     /\ Cardinality(Using(h)) > 0
                                     /\ Using(h) # {}
                       ELSE Using(h)' = Using(h)
  <2>1. c \in Using(k)
    BY <1>2, <1>3 DEF Using
  <2> QED
    BY <1>1, <1>2, <1>3, <1>4, <1>5, <2>1, UsingShrinks
<1>9. invite[k] # NoInvite /\ invite[k] \in InviteRows /\ invite \in [Codes -> InviteRows]
  BY <1>1, <1>8, TypesAre DEF IInv, Unsold
<1>10. /\ invite' \in [Codes -> InviteRows]
       /\ \A h \in Codes : h # k => invite'[h] = invite[h]
       /\ invite'[k].state = invite[k].state /\ invite'[k].by = invite[k].by
       /\ invite'[k].max = invite[k].max /\ invite[k].max \in Nat
       /\ invite[k].used \in Nat /\ invite'[k] # NoInvite
       /\ invite'[k].used = IF invite[k].state # "gone" /\ invite[k].used > 0
                            THEN invite[k].used - 1 ELSE invite[k].used
  <2>1. PICK i : i = invite[k]
    OBVIOUS
  <2>2. /\ i \in [state : {"live", "dead", "gone"}, used : 0..MaxUses,
                  max : 1..MaxUses, by : Names]
        /\ i.max \in Nat /\ i.used \in Nat
    BY <1>9, <2>1, ConstantsAre DEF InviteRows
  <2>3. CASE i.state # "gone" /\ i.used > 0
    <3>1. PICK u \in 0..MaxUses : u = i.used - 1
      BY <2>2, <2>3, ConstantsAre
    <3> DEFINE e == [i EXCEPT !.used = u]
    <3>2. /\ e \in InviteRows /\ e.state = i.state /\ e.used = u /\ e.max = i.max
          /\ e.by = i.by
      BY <2>2 DEF InviteRows
    <3>3. e # NoInvite
      BY <2>2, <3>2 DEF NoInvite
    <3>4. PICK x \in InviteRows : x = e
      BY <3>2
    <3>5. invite' = [invite EXCEPT ![k] = x]
      <4>1. invite' = [invite EXCEPT ![k].used = @ - 1]
        BY <1>2, <1>3, <2>1, <2>3 DEF RefundInvite
      <4> QED
        BY <2>1, <3>1, <3>4, <4>1
    <3>6. invite'[k] = x /\ invite' \in [Codes -> InviteRows]
          /\ \A h \in Codes : h # k => invite'[h] = invite[h]
      BY <1>9, <3>4, <3>5
    <3> HIDE DEF e
    <3> QED
      BY <2>1, <2>2, <2>3, <3>1, <3>2, <3>3, <3>4, <3>6
  <2>4. CASE ~(i.state # "gone" /\ i.used > 0)
    <3>1. invite' = invite
      BY <1>2, <1>3, <2>1, <2>4 DEF RefundInvite
    <3> QED
      BY <1>9, <2>1, <2>2, <2>4, <3>1
  <2> QED
    BY <2>3, <2>4
<1>11. Unsold'
  BY <1>1, <1>8, <1>10 DEF IInv, Unsold
<1>12. InviteUsesAddUp'
  <2>1. ASSUME NEW h \in Codes, invite'[h].state \in {"live", "dead"}
        PROVE  /\ invite'[h].used = seen.joined[h] + seen.burnt[h]
                                      + Cardinality(Using(h)')
               /\ invite'[h].used <= invite'[h].max
    <3>1. /\ seen.joined[h] \in Nat /\ seen.burnt[h] \in Nat
          /\ Cardinality(Using(h)) \in Nat
      BY <1>1, UsingIs DEF Memory
    <3>2. invite[h].state \in {"live", "dead"} =>
            /\ invite[h].used = seen.joined[h] + seen.burnt[h] + Cardinality(Using(h))
            /\ invite[h].used <= invite[h].max
      BY DEF IInv, InviteUsesAddUp, Using
    <3>3. CASE h = k
      BY <1>8, <1>10, <2>1, <3>1, <3>2, <3>3
    <3>4. CASE h # k
      BY <1>8, <1>10, <2>1, <3>2, <3>4
    <3> QED
      BY <3>3, <3>4
  <2> QED
    BY <1>1, <2>1 DEF InviteUsesAddUp, Using
<1>13. \A h \in Codes : invite'[h].state \in {"live", "dead"} =>
         invite[h].state \in {"live", "dead"} /\ invite'[h].by = invite[h].by
  BY <1>10
<1> QED
  BY <1>1, <1>6, <1>7, <1>10, <1>11, <1>12, <1>13, InvitesMove

LEMMA CreateInviteStep ==
  ASSUME IInv, NEW c \in Clients, NEW k \in Codes, NEW uses \in 1..MaxUses,
         CreateInvite(c, k, uses)
  PROVE  IInv'
<1>1. /\ At(c, {"invite"}, "act") /\ "none" \notin {"invite"} /\ Finish(c)
      /\ UNCHANGED <<mode, setup, user, token, made, issued, seen>>
      /\ invite[k] = NoInvite /\ seen \in Memory
  BY DEF CreateInvite, IInv
<1>2. PICK q \in Requests : q = req[c] /\ q.op = "invite" /\ q.at = "act" /\ Fit(q)
        /\ ~q.active /\ TypeOK /\ q.name \in Names /\ ~At(c, {"change"}, "signout")
  BY <1>1, ReaderIs DEF At
<1>3. PICK x \in InviteRows : /\ x = [state |-> "live", used |-> 0, max |-> uses,
                                      by |-> q.name]
                              /\ x.used = 0 /\ x.max = uses /\ x.by = q.name
                              /\ x.state = "live" /\ x # NoInvite
  <2>1. 0 \in 0..MaxUses
    BY ConstantsAre
  <2> DEFINE e == [state |-> "live", used |-> 0, max |-> uses, by |-> q.name]
  <2>2. e \in InviteRows
    BY <1>2, <2>1 DEF InviteRows
  <2>3. e.used = 0 /\ e.max = uses /\ e.by = q.name /\ e.state = "live"
    OBVIOUS
  <2>4. e # NoInvite
    BY <2>3 DEF NoInvite
  <2> QED
    BY <2>2, <2>3, <2>4
<1>4. /\ invite' \in [Codes -> InviteRows] /\ invite'[k] = x
      /\ \A h \in Codes : h # k => invite'[h] = invite[h]
  <2>1. invite' = [invite EXCEPT ![k] = x] /\ invite \in [Codes -> InviteRows]
    BY <1>2, <1>3, TypesAre DEF CreateInvite
  <2> QED
    BY <1>3, <2>1
<1>5. /\ Handlers' /\ req' \in [Clients -> Requests] /\ StillOut
      /\ \A h \in Codes : Using(h)' = Using(h)
  BY <1>1, <1>2, HandlerEnds, TablesFit
<1>6. Unsold'
  BY <1>1, <1>3, <1>4, <1>5 DEF IInv, Unsold
<1>7. InviteUsesAddUp'
  <2>1. seen.joined[k] = 0 /\ seen.burnt[k] = 0 /\ Using(k) = {}
    BY <1>1 DEF IInv, Unsold
  <2>2. ASSUME NEW h \in Codes, invite'[h].state \in {"live", "dead"}
        PROVE  /\ invite'[h].used = seen.joined[h] + seen.burnt[h]
                                      + Cardinality(Using(h)')
               /\ invite'[h].used <= invite'[h].max
    <3>1. CASE h = k
      <4>1. Cardinality(Using(h)') = 0
        BY <1>5, <2>1, <3>1, FS_EmptySet
      <4> QED
        BY <1>3, <1>4, <2>1, <3>1, <4>1
    <3>2. CASE h # k
      BY <1>4, <1>5, <2>2, <3>2 DEF IInv, InviteUsesAddUp, Using
    <3> QED
      BY <3>1, <3>2
  <2> QED
    BY <1>1, <2>2 DEF InviteUsesAddUp, Using
<1>8. \A h \in Codes : invite'[h].state \in {"live", "dead"} =>
        \/ invite[h].state \in {"live", "dead"} /\ invite'[h].by = invite[h].by
        \/ ~seen.twins => Exists(invite'[h].by)
  <2>1. ~seen.twins => Exists(q.name)
    BY <1>2 DEF Fit, Admins
  <2> QED
    BY <1>3, <1>4, <2>1
<1> QED
  BY <1>1, <1>4, <1>5, <1>6, <1>7, <1>8, InvitesMove

LEMMA InviteEnds ==
  ASSUME IInv, \/ \E k \in Codes : OutliveInvite(k)
               \/ \E c \in Clients, k \in Codes, end \in {"dead", "gone"} :
                    EndInvite(c, k, end)
  PROVE  IInv'
<1>1. /\ TypeOK /\ UNCHANGED <<mode, setup, user, token, made, issued, seen>>
      /\ \A g : Fit(g) => Fit(g)'
  BY TablesFit DEF IInv, OutliveInvite, EndInvite
<1>2. PICK k \in Codes, end \in {"dead", "gone"} :
        /\ invite[k].state \in {"live", "dead"}
        /\ invite' = [invite EXCEPT ![k].state = end]
  BY DEF OutliveInvite, EndInvite
<1>3. /\ Handlers' /\ req' \in [Clients -> Requests] /\ StillOut
      /\ \A h \in Codes : Using(h)' = Using(h)
  <2>1. CASE req' = req
    BY <1>1, <2>1, TypesAre DEF IInv, Handlers, Fit, WellFormed, StillOut, At, Using
  <2>2. CASE req' # req
    <3>1. PICK c \in Clients : Finish(c) /\ req[c].op = "endinvite"
      BY <2>2 DEF OutliveInvite, EndInvite, At
    <3>2. ~req[c].active /\ ~At(c, {"change"}, "signout")
      BY <3>1 DEF IInv, Handlers, Fit, WellFormed, At
    <3> QED
      BY <1>1, <3>1, <3>2, HandlerEnds
  <2> QED
    BY <2>1, <2>2
<1>4. /\ invite' \in [Codes -> InviteRows]
      /\ \A h \in Codes : h # k => invite'[h] = invite[h]
      /\ invite'[k].by = invite[k].by /\ invite'[k].used = invite[k].used
      /\ invite'[k].max = invite[k].max /\ invite'[k] # NoInvite
  <2>1. PICK i : i = invite[k]
    OBVIOUS
  <2>2. /\ i \in [state : {"live", "dead", "gone"}, used : 0..MaxUses,
                  max : 1..MaxUses, by : Names]
        /\ invite \in [Codes -> InviteRows]
    <3>1. i \in InviteRows /\ i # NoInvite
      BY <1>1, <1>2, <2>1, TypesAre DEF NoInvite
    <3> QED
      BY <1>1, <3>1, TypesAre DEF InviteRows
  <2> DEFINE e == [i EXCEPT !.state = end]
  <2>3. /\ e \in InviteRows /\ e.state = end /\ e.used = i.used /\ e.max = i.max
        /\ e.by = i.by
    BY <2>2 DEF InviteRows
  <2>4. e # NoInvite
    BY <2>3 DEF NoInvite
  <2>5. PICK x \in InviteRows : x = e
    BY <2>3
  <2>6. invite' = [invite EXCEPT ![k] = x]
    BY <1>2, <2>1, <2>5
  <2>7. invite'[k] = x /\ invite' \in [Codes -> InviteRows]
        /\ \A h \in Codes : h # k => invite'[h] = invite[h]
    BY <2>2, <2>5, <2>6
  <2> HIDE DEF e
  <2> QED
    BY <2>1, <2>3, <2>4, <2>5, <2>7
<1>5. \A h \in Codes : invite'[h].state \in {"live", "dead"} =>
        invite[h].state \in {"live", "dead"} /\ invite'[h].by = invite[h].by
  BY <1>2, <1>4
<1>6. Unsold'
  BY <1>1, <1>3, <1>4 DEF IInv, Unsold
<1>7. InviteUsesAddUp'
  <2>1. \A h \in Codes : invite'[h].used = invite[h].used /\ invite'[h].max = invite[h].max
    BY <1>4
  <2> QED
    BY <1>1, <1>3, <1>5, <2>1 DEF IInv, InviteUsesAddUp, Using
<1> QED
  BY <1>1, <1>3, <1>4, <1>5, <1>6, <1>7, InvitesMove

----------------------------------------------------------------------------
(* The process stops, and what handlers held is remembered. *)
LEMMA RestartStep ==
  ASSUME IInv, Restart
  PROVE  IInv'
<1>1. /\ TypeOK /\ seen \in Memory /\ req' = [c \in Clients |-> Idle]
      /\ setup' = (\A n \in Names : ~Exists(n))
      /\ UNCHANGED <<mode, user, token, invite, made, issued>>
  BY DEF IInv, Restart
<1>2. PICK B \in [Codes -> Nat] :
        \A k \in Codes : B[k] = seen.burnt[k] + Cardinality(Using(k))
  <2>1. \A k \in Codes : seen.burnt[k] + Cardinality(Using(k)) \in Nat
    BY <1>1, UsingIs DEF Memory
  <2>2. [k \in Codes |-> seen.burnt[k] + Cardinality(Using(k))] \in [Codes -> Nat]
    BY <2>1
  <2> QED
    BY <2>2
<1>3. PICK T \in SUBSET Nat :
        T = seen.torn \cup {user[req[c].name].id :
                              c \in {d \in Clients : At(d, {"change"}, "signout")}}
  <2>1. \A c \in Clients : At(c, {"change"}, "signout") => user[req[c].name].id \in Nat
    BY <1>1, TypesAre DEF IInv, Handlers, Fit, WellFormed, At
  <2>2. seen.torn \in SUBSET Nat
    BY <1>1 DEF Memory
  <2> QED
    BY <2>1, <2>2
<1>4. seen' = [seen EXCEPT !.torn = T, !.burnt = B]
  <2>1. B = [k \in Codes |-> seen.burnt[k] + Cardinality(Using(k))]
    BY <1>2
  <2>2. B = [k \in Codes |-> seen.burnt[k] +
              Cardinality({c \in Clients : req[c].aim = k /\ req[c].active})]
    BY <2>1 DEF Using
  <2> QED
    BY <1>3, <2>2 DEF Restart
<1>5. /\ seen' \in Memory /\ seen'.late = seen.late /\ seen'.twins = seen.twins
      /\ seen'.vouched = seen.vouched /\ seen'.joined = seen.joined
      /\ seen'.torn = T /\ seen'.burnt = B
  BY <1>1, <1>2, <1>3, <1>4 DEF Memory
<1>6. Admins' = Admins /\ made' \in Nat
  BY <1>1, TypesAre DEF Admins, Exists
<1>7. Fit(Idle)'
  <2>1. Fit(Idle)
    BY <1>1, FitIdle
  <2> QED
    BY <1>1, <1>5, <1>6, <2>1 DEF Fit, WellFormed
<1>8. Handlers' /\ req' \in [Clients -> Requests]
  <2>1. \A c \in Clients : req'[c] = Idle
    BY <1>1
  <2> QED
    BY <1>1, <1>7, <2>1, IdleIs DEF Handlers, Fit, WellFormed
<1>9. TypeOK'
  BY <1>1, <1>8 DEF TypeOK, Exists
<1>10. \A k \in Codes : Using(k)' = {} /\ Cardinality(Using(k)') = 0
  <2>1. \A k \in Codes : Using(k)' = {}
    BY <1>1, IdleIs DEF Using
  <2> QED
    BY <2>1, FS_EmptySet
<1>11. Vouching' /\ OneAdmin'
  BY <1>1, <1>5, AccountsStay DEF IInv
<1>12. Unsold'
  <2>1. ASSUME NEW k \in Codes, invite[k] = NoInvite
        PROVE  seen.joined[k] = 0 /\ B[k] = 0
    <3>1. seen.joined[k] = 0 /\ seen.burnt[k] = 0 /\ Using(k) = {}
      BY <2>1 DEF IInv, Unsold
    <3>2. Cardinality(Using(k)) = 0
      BY <3>1, FS_EmptySet
    <3> QED
      BY <1>2, <3>1, <3>2
  <2> QED
    BY <1>1, <1>5, <1>10, <2>1 DEF Unsold
<1>13. InviteUsesAddUp'
  <2>1. ASSUME NEW k \in Codes, invite[k].state \in {"live", "dead"}
        PROVE  /\ invite[k].used = seen.joined[k] + B[k] + Cardinality(Using(k)')
               /\ invite[k].used <= invite[k].max
    <3>1. /\ seen.joined[k] \in Nat /\ seen.burnt[k] \in Nat
          /\ Cardinality(Using(k)) \in Nat
      BY <1>1, UsingIs DEF Memory
    <3>2. /\ invite[k].used = seen.joined[k] + seen.burnt[k] + Cardinality(Using(k))
          /\ invite[k].used <= invite[k].max
      BY <2>1 DEF IInv, InviteUsesAddUp, Using
    <3> QED
      BY <1>2, <1>10, <3>1, <3>2
  <2> QED
    BY <1>1, <1>5, <2>1 DEF InviteUsesAddUp, Using
<1>14. TokensNeedAdmission' /\ ErasureIsComplete'
  BY <1>1, <1>5 DEF IInv, TokensNeedAdmission, ErasureIsComplete, Holder, Exists
<1>15. RotationSignsOut'
  <2>1. ASSUME NEW t \in Tokens, NEW n \in Names, Live(t), token[t].owner = user[n].id,
               token[t].pass < user[n].pass
        PROVE  t \in seen.late \/ user[n].id \in T
    <3>1. \/ t \in seen.late \/ user[n].id \in seen.torn
          \/ \E c \in Clients : At(c, {"change"}, "signout") /\ req[c].name = n
      BY <2>1 DEF IInv, RotationSignsOut
    <3> QED
      BY <1>3, <3>1
  <2> QED
    BY <1>1, <1>5, <2>1 DEF RotationSignsOut, Live
<1> QED
  BY <1>5, <1>8, <1>9, <1>11, <1>12, <1>13, <1>14, <1>15 DEF IInv
----------------------------------------------------------------------------
(* A server starts with nobody, or with one administrator and perhaps one  *)
(* more, each with a device.                                               *)

LEMMA FreshIs ==
  ASSUME Fresh
  PROVE  /\ setup \in BOOLEAN /\ made \in 0..MaxAccounts
         /\ user \in [Names -> Rows] /\ token \in [Tokens -> TokenRows]
         /\ \A n \in Names : user[n] = NoUser
         /\ \A t \in Tokens : token[t] = Unminted
<1>1. 0 \in 0..MaxAccounts
  BY ConstantsAre
<1> QED
  BY <1>1 DEF Fresh, Rows, TokenRows

FirstToken(i) == [state |-> "live", pass |-> 0, owner |-> i]

LEMMA RunningIs ==
  ASSUME Running
  PROVE  /\ setup \in BOOLEAN /\ made \in 0..MaxAccounts /\ made \in Nat /\ made > 0
         /\ user \in [Names -> Rows] /\ token \in [Tokens -> TokenRows]
         /\ \A n \in Names : /\ user[n] = NoUser \/ user[n].id \in 1..made
                             /\ user[n].pass = 0
         /\ \A m, n \in Names : Exists(m) /\ user[m].id = user[n].id => m = n
         /\ \A t \in Tokens : token[t] # Unminted =>
              token[t].owner \in 1..made /\ Holder(token[t].owner) # {}
         /\ \E a \in Names : Admins = {a}
<1>0. PICK m \in 1..2 : \E name \in [1..m -> Names], key \in [1..m -> Tokens] :
        /\ \A i, j \in 1..m : i # j => name[i] # name[j] /\ key[i] # key[j]
        /\ made = m
        /\ user = [n \in Names |->
             IF \E i \in 1..m : name[i] = n
             THEN Row(CHOOSE i \in 1..m : name[i] = n) ELSE NoUser]
        /\ token = [t \in Tokens |->
             IF \E i \in 1..m : key[i] = t
             THEN [state |-> "live", pass |-> 0,
                   owner |-> CHOOSE i \in 1..m : key[i] = t] ELSE Unminted]
  BY DEF Running
<1>1. PICK name \in [1..m -> Names], key \in [1..m -> Tokens] :
        /\ made = m
        /\ \A i, j \in 1..m : i # j => name[i] # name[j] /\ key[i] # key[j]
        /\ user = [n \in Names |->
             IF \E i \in 1..m : name[i] = n
             THEN Row(CHOOSE i \in 1..m : name[i] = n) ELSE NoUser]
        /\ token = [t \in Tokens |->
             IF \E i \in 1..m : key[i] = t
             THEN [state |-> "live", pass |-> 0,
                   owner |-> CHOOSE i \in 1..m : key[i] = t] ELSE Unminted]
  BY <1>0
<1>2. /\ m \in 0..MaxAccounts /\ m \in Nat /\ m > 0 /\ 1..m \subseteq Ids
      /\ 0 \in Versions /\ 1 \in 1..m
  BY ConstantsAre DEF Ids, Versions
<1>3. \A i \in 1..m : /\ Row(i) \in Rows /\ Row(i).id = i /\ Row(i).pass = 0
                      /\ Row(i).admin <=> i = 1
                      /\ Row(i) # NoUser
  BY <1>2 DEF Row, Rows, NoUser
<1>4. \A i \in 1..m : user[name[i]] = Row(i)
  <2> TAKE i \in 1..m
  <2>1. name[i] \in Names /\ (CHOOSE j \in 1..m : name[j] = name[i]) = i
    BY <1>1
  <2> QED
    BY <1>1, <2>1
<1>5. \A i \in 1..m : token[key[i]] = FirstToken(i)
  <2> TAKE i \in 1..m
  <2>1. key[i] \in Tokens /\ (CHOOSE j \in 1..m : key[j] = key[i]) = i
    BY <1>1
  <2> QED
    BY <1>1, <2>1 DEF FirstToken
<1>6. \A n \in Names : (\E i \in 1..m : name[i] = n) \/ user[n] = NoUser
  BY <1>1
<1>7. \A t \in Tokens : (\E i \in 1..m : key[i] = t) \/ token[t] = Unminted
  BY <1>1
<1>8. NoUser \in Rows /\ NoUser.id = 0 /\ NoUser.pass = 0
  BY DEF Rows, NoUser
<1>9. user \in [Names -> Rows]
  <2>1. \A n \in Names : user[n] \in Rows
    BY <1>3, <1>4, <1>6, <1>8
  <2> QED
    BY <1>1, <2>1
<1>10. token \in [Tokens -> TokenRows]
  <2>1. \A i \in 1..m : FirstToken(i) \in TokenRows
    BY <1>2 DEF TokenRows, FirstToken
  <2>2. Unminted \in TokenRows
    BY DEF TokenRows
  <2>3. \A t \in Tokens : token[t] \in TokenRows
    BY <1>5, <1>7, <2>1, <2>2
  <2> QED
    BY <1>1, <2>3
<1>11. \A n \in Names : (user[n] = NoUser \/ user[n].id \in 1..m) /\ user[n].pass = 0
  BY <1>3, <1>4, <1>6, <1>8
<1>12. ASSUME NEW a \in Names, NEW b \in Names, Exists(a), user[a].id = user[b].id
       PROVE  a = b
  <2>1. PICK i \in 1..m : name[i] = a
    BY <1>6, <1>12 DEF Exists
  <2>2. user[b].id = i /\ i # 0
    BY <1>3, <1>4, <1>12, <2>1
  <2>3. PICK j \in 1..m : name[j] = b
    BY <1>6, <1>8, <2>2
  <2> QED
    BY <1>3, <1>4, <2>1, <2>2, <2>3
<1>13. ASSUME NEW t \in Tokens, token[t] # Unminted
       PROVE  token[t].owner \in 1..m /\ Holder(token[t].owner) # {}
  <2>1. PICK i \in 1..m : key[i] = t
    BY <1>7, <1>13
  <2>4. token[t] = FirstToken(i)
    BY <1>5, <2>1
  <2>2. token[t].owner = i
    BY <2>4 DEF FirstToken
  <2>3. name[i] \in Names /\ user[name[i]].id = i
    BY <1>3, <1>4
  <2> QED
    BY <2>2, <2>3 DEF Holder
<1>14. \E a \in Names : Admins = {a}
  <2>1. PICK a \in Names : a = name[1]
    BY <1>2
  <2>2. a \in Admins
    BY <1>2, <1>3, <1>4, <2>1 DEF Admins, Exists
  <2>3. ASSUME NEW b \in Admins PROVE b = a
    <3>1. PICK i \in 1..m : name[i] = b
      BY <1>6 DEF Admins, Exists
    <3> QED
      BY <1>3, <1>4, <2>1, <3>1 DEF Admins
  <2> QED
    BY <2>2, <2>3
<1>15. setup \in BOOLEAN
  BY DEF Running
<1> QED
  BY <1>1, <1>2, <1>9, <1>10, <1>11, <1>12, <1>13, <1>14, <1>15

LEMMA InitIInv == Init => IInv
<1> SUFFICES ASSUME Init PROVE IInv
  OBVIOUS
<1>1. /\ mode \in {"approval", "invite", "closed"} /\ (Fresh \/ Running)
      /\ invite = [k \in Codes |-> NoInvite] /\ req = [c \in Clients |-> Idle]
      /\ issued = 0
      /\ seen = [late |-> {}, twins |-> FALSE, torn |-> {}, vouched |-> 1..made,
                 joined |-> [k \in Codes |-> 0], burnt |-> [k \in Codes |-> 0]]
  BY DEF Init
<1>2. /\ setup \in BOOLEAN /\ made \in 0..MaxAccounts /\ made \in Nat
      /\ user \in [Names -> Rows] /\ token \in [Tokens -> TokenRows]
      /\ \A n \in Names : user[n] = NoUser \/ user[n].id \in 1..made
      /\ \A n \in Names : user[n].pass = 0
      /\ \A m, n \in Names : Exists(m) /\ user[m].id = user[n].id => m = n
      /\ \A t \in Tokens : token[t] # Unminted =>
           token[t].owner \in 1..made /\ Holder(token[t].owner) # {}
  <2>1. CASE Fresh
    <3>1. \A n \in Names : user[n] = NoUser /\ ~Exists(n) /\ user[n].pass = 0
      BY <2>1, FreshIs DEF NoUser, Exists
    <3>2. made \in Nat
      BY <2>1, FreshIs, ConstantsAre
    <3> QED
      BY <2>1, <3>1, <3>2, FreshIs
  <2>2. CASE Running
    BY <2>2, RunningIs
  <2> QED
    BY <1>1, <2>1, <2>2
<1>3. /\ seen \in Memory /\ seen.twins = FALSE /\ seen.vouched = 1..made
      /\ \A k \in Codes : seen.joined[k] = 0 /\ seen.burnt[k] = 0
  BY <1>1, <1>2 DEF Memory
<1>4. /\ \A c \in Clients : req[c] = Idle
      /\ \A k \in Codes : invite[k] = NoInvite
      /\ req \in [Clients -> Requests] /\ invite \in [Codes -> InviteRows]
      /\ issued \in 0..MaxRequests
  BY <1>1, IdleIs, ConstantsAre DEF InviteRows
<1>5. TypeOK
  <2>1. \A n \in Names : user[n].id <= made
    BY <1>2 DEF NoUser
  <2>2. user \in [Names -> Rows] /\ token \in [Tokens -> TokenRows]
        /\ invite \in [Codes -> InviteRows]
    BY <1>2, <1>4
  <2>3. mode \in {"approval", "invite", "closed"} /\ setup \in BOOLEAN
        /\ req \in [Clients -> Requests] /\ made \in 0..MaxAccounts
        /\ issued \in 0..MaxRequests
    BY <1>1, <1>2, <1>4
  <2>4. \A m, n \in Names : Exists(m) /\ user[m].id = user[n].id => m = n
    BY <1>2
  <2> QED
    BY <2>1, <2>2, <2>3, <2>4 DEF TypeOK, Rows, TokenRows, InviteRows
<1>6. Handlers
  <2>1. Fit(Idle)
    BY <1>5, FitIdle
  <2> QED
    BY <1>4, <2>1 DEF Handlers, Fit, WellFormed
<1>7. Vouching
  BY <1>2, <1>3 DEF Vouching, NoUser
<1>8. OneAdmin
  <2>1. CASE Fresh
    BY <2>1 DEF Fresh, OneAdmin
  <2>2. CASE Running
    BY <2>2, RunningIs DEF OneAdmin
  <2> QED
    BY <1>1, <2>1, <2>2
<1>9. Unsold
  BY <1>3, <1>4, IdleIs DEF Unsold, Using
<1>10. InviteUsesAddUp /\ TokensNeedAdmission /\ ErasureIsComplete
  BY <1>2, <1>3, <1>4 DEF InviteUsesAddUp, TokensNeedAdmission, ErasureIsComplete,
     NoInvite, Unminted
<1>11. RotationSignsOut
  <2>1. \A t \in Tokens : token[t].pass \in Nat
    BY <1>5, TypesAre
  <2> QED
    BY <1>2, <2>1 DEF RotationSignsOut
<1> QED
  BY <1>3, <1>5, <1>6, <1>7, <1>8, <1>9, <1>10, <1>11 DEF IInv

LEMMA NextIInv == IInv /\ [Next]_vars => IInv'
<1> SUFFICES ASSUME IInv, [Next]_vars PROVE IInv'
  OBVIOUS
<1>1. ASSUME NEW c \in Clients, NEW t \in Tokens,
             \/ \E op \in Calls \ {"state", "delete"} : Present(c, t, op, Nothing)
             \/ \E op \in {"state", "delete"}, n \in Names : Present(c, t, op, n)
             \/ AddDevice(c, t) \/ RevokeDevice(c, t)
             \/ FirstDevice(c, t) \/ SignIn(c, t)
      PROVE  IInv'
  <2>1. CASE \E op \in Calls \ {"state", "delete"} : Present(c, t, op, Nothing)
    <3>1. PICK op \in Calls \ {"state", "delete"} : Present(c, t, op, Nothing)
      BY <2>1
    <3>2. PICK aim : aim = Nothing
      OBVIOUS
    <3>3. Present(c, t, op, aim)
      BY <3>1, <3>2
    <3> QED
      BY <3>1, <3>2, <3>3, PresentStep
  <2>2. CASE \E op \in {"state", "delete"}, n \in Names : Present(c, t, op, n)
    BY <2>2, PresentStep
  <2>3. CASE RevokeDevice(c, t)
    BY <2>3, RevokeStep
  <2> QED
    BY <1>1, <2>1, <2>2, <2>3, DeviceStep
<1>2. ASSUME NEW c \in Clients, NEW n \in Names,
             \/ Bootstrap(c, n) \/ Login(c, n)
             \/ \E k \in Codes \cup {Nothing} : Signup(c, n, k)
      PROVE  IInv'
  BY <1>2, CallingStep
<1>3. ASSUME NEW c \in Clients,
             \/ Authorize(c) \/ CountUsers(c) \/ ConsumeSetup(c) \/ CheckTaken(c)
             \/ ProvePassphrase(c) \/ LoadAccount(c) \/ ReadTarget(c) \/ CountAdmins(c)
      PROVE  IInv'
  BY <1>3, AuthorizeStep, BootstrapStep, CheckTakenStep, ProveStep, LoadStep, DeleteStep
<1>4. ASSUME NEW c \in Clients,
             \/ RevokeAll(c) \/ CreateAdmin(c) \/ RedeemInvite(c) \/ CreateMember(c)
             \/ RefundInvite(c) \/ WritePassphrase(c) \/ SignOutDevices(c) \/ Erase(c)
      PROVE  IInv'
  BY <1>4, RevokeStep, CreateAdminStep, RedeemStep, CreateMemberStep, RefundStep,
     WritePassphraseStep, SignOutStep, EraseStep
<1>5. ASSUME NEW c \in Clients,
             \/ \E s \in {"active", "pending", "suspended"} : SetState(c, s)
             \/ \E k \in Codes, uses \in 1..MaxUses : CreateInvite(c, k, uses)
             \/ \E k \in Codes, end \in {"dead", "gone"} : EndInvite(c, k, end)
      PROVE  IInv'
  BY <1>5, SetStateStep, CreateInviteStep, InviteEnds
<1>6. CASE \/ \E t \in Tokens : OutliveToken(t)
           \/ SweepTokens
           \/ \E k \in Codes : OutliveInvite(k)
           \/ Restart
  BY <1>6, LifetimeStep, InviteEnds, RestartStep
<1>7. CASE UNCHANGED vars
  <2>1. /\ Admins' = Admins
        /\ \A k \in Codes : Using(k)' = Using(k)
        /\ UNCHANGED <<mode, setup, user, token, invite, made, req, issued, seen>>
    BY <1>7 DEF vars, tables, Admins, Exists, Using
  <2>2. Handlers'
    BY <2>1, TablesFit DEF IInv, Handlers, Fit, WellFormed
  <2>3. TypeOK' /\ Vouching' /\ OneAdmin' /\ Unsold'
    BY <2>1 DEF IInv, TypeOK, Exists, Vouching, OneAdmin, Unsold
  <2>4. InviteUsesAddUp' /\ TokensNeedAdmission' /\ ErasureIsComplete'
    BY <2>1 DEF IInv, InviteUsesAddUp, TokensNeedAdmission, ErasureIsComplete,
       Holder, Exists
  <2>5. RotationSignsOut'
    BY <2>1 DEF IInv, RotationSignsOut, Live, At
  <2> QED
    BY <2>1, <2>2, <2>3, <2>4, <2>5 DEF IInv
<1> QED
  BY <1>1, <1>2, <1>3, <1>4, <1>5, <1>6, <1>7 DEF Next

(* What the invariant says is true in every state the server can be in:    *)
(* in particular, no handler acts on an id that is somebody else's by now. *)
THEOREM HandlersKnow == Spec => []IInv
BY InitIInv, NextIInv, PTL DEF Spec

(* A token belongs to an account that was let in, every use of an invite   *)
(* is somebody, and what is erased leaves nothing behind (signup.rs:96-160,*)
(* erasure.rs:40-42), however the handlers interleave.                     *)
THEOREM OnlyTheAdmitted == Spec => []AdmissionIsEarned
<1>1. IInv => AdmissionIsEarned
  BY DEF IInv, AdmissionIsEarned
<1> QED
  BY <1>1, HandlersKnow, PTL

(* A new passphrase ends what the old one bought (security.rs:170-171).    *)
THEOREM OldPassphrasesEnd == Spec => []RotationSignsOut
<1>1. IInv => RotationSignsOut
  BY DEF IInv
<1> QED
  BY <1>1, HandlersKnow, PTL

(* Where there are accounts there is an administrator (accounts.rs:189-191)*)
(* unless the server was set up twice at once.                             *)
THEOREM NeverStranded == Spec => []AdministratorRemains
<1>1. IInv => AdministratorRemains
  <2> SUFFICES ASSUME IInv, \E n \in Names : Exists(n), ~seen.twins
               PROVE  Admins # {}
    BY DEF AdministratorRemains
  <2>1. made > 0 /\ made \in Nat
    BY TypesAre DEF IInv
  <2> QED
    BY <2>1 DEF IInv, OneAdmin
<1> QED
  BY <1>1, HandlersKnow, PTL
=============================================================================
