---------------------------- MODULE BlendsProofs ----------------------------
(***************************************************************************)
(* Nobody's listening gets into a blend too soon, and a blend taken away   *)
(* leaves nothing behind, for any number of friends, readers and calls.    *)
(*                                                                         *)
(* Neither is inductive: a refresh reads the members in one hold of the    *)
(* database and writes their tracks in another, so what a handler carries  *)
(* from the first to the second has to be described.  Whose listening it   *)
(* carries has agreed, because it only goes on when nobody is left to      *)
(* answer; and nobody is asked again later, because a blend is made once.  *)
(***************************************************************************)
EXTENDS Blends, TLAPS

Steps == {"idle", "write", "recipe", "members", "empty", "tastes", "picked",
          "accept", "decline"}
Handlers == [op : {"none", "create"} \cup Refreshing, at : Steps,
             recipe : Recipes, asked : SUBSET Accounts,
             consent : SUBSET Accounts]

(* What c's handler h carries, against what is stored. *)
Fits(c, h) ==
  /\ h \in Handlers
  /\ h.op = "create" => c = Owner /\ row = "none" /\ h.at = "write"
  /\ row = "none" => h = Idle \/ h.op = "create"
  /\ h.at = "tastes" => h.asked \subseteq agreed
  /\ h.at = "picked" => h.consent \subseteq agreed
  /\ h.at \in {"tastes", "picked"} => Invited = {}

Carried == /\ req = [c \in Accounts |-> req[c]]
           /\ \A c \in Accounts : Fits(c, req[c])

Stored ==
  /\ Joined \subseteq agreed
  /\ from \subseteq agreed
  /\ from # {} => Invited = {}
  /\ ~Live => from = {} /\ followers = {} /\ Joined \cup Invited = {}

IInv == TypeOK /\ Carried /\ Stored

LEMMA IdleFits == Idle \in Handlers /\ \A c \in Accounts : Fits(c, Idle)
BY DEF Fits, Handlers, Idle, Steps, Recipes, Unwritten

(* One handler moves, and what the others carry stays true. *)
LEMMA OthersFit ==
  ASSUME Carried, NEW c \in Accounts, NEW h, Go(c, h), Fits(c, h)',
         \A e \in Accounts, g \in Handlers : e # c /\ Fits(e, g) => Fits(e, g)'
  PROVE  Carried'
<1>1. req' = [e \in Accounts |-> req'[e]]
  BY DEF Go, Carried
<1>2. ASSUME NEW e \in Accounts PROVE Fits(e, req[e])'
  <2>1. CASE e = c
    <3>1. req'[e] = h
      BY <2>1 DEF Go, Carried
    <3> QED
      BY <2>1, <3>1 DEF Fits
  <2>2. CASE e # c
    <3>1. req'[e] = req[e] /\ req[e] \in Handlers /\ Fits(e, req[e])
      BY <2>2 DEF Go, Carried, Fits
    <3> QED
      BY <2>2, <3>1 DEF Fits
  <2> QED
    BY <2>1, <2>2
<1> QED
  BY <1>1, <1>2 DEF Carried

(* Whatever leaves the row, and lets nobody be asked or forgets who agreed, *)
(* keeps what the handlers carry true.                                      *)
LEMMA StaysFitting ==
  ASSUME Invited' \subseteq Invited, agreed \subseteq agreed',
         row' = row \/ (row = "live" /\ row' = "gone"),
         NEW e, NEW g, Fits(e, g)
  PROVE  Fits(e, g)'
BY DEF Fits

(* Only a handler moves, and what no invariant reads. *)
LEMMA OnlyHandler ==
  ASSUME IInv, NEW c \in Accounts, NEW h, Go(c, h), Fits(c, h),
         UNCHANGED <<blend, shares, alive, agreed, events>>,
         issued' \in 0..MaxCalls
  PROVE  IInv'
<1>1. Invited' = Invited /\ Joined' = Joined
  BY DEF Invited, Joined, blend
<1>2. Carried'
  BY <1>1, OthersFit, StaysFitting DEF IInv, blend
<1>3. TypeOK'
  <2>1. \A e \in Accounts : req'[e] \in Handlers
    BY <1>2 DEF Carried, Fits
  <2> QED
    BY <2>1 DEF IInv, TypeOK, Handlers, blend
<1> QED
  BY <1>1, <1>2, <1>3 DEF IInv, Stored, Live, blend

LEMMA InitIInv == Init => IInv
<1> SUFFICES ASSUME Init PROVE IInv
  OBVIOUS
<1>1. Joined = {} /\ Invited = {}
  BY DEF Init, Joined, Invited
<1> QED
  BY <1>1, IdleFits, BlendsAssumption
  DEF Init, IInv, TypeOK, Carried, Stored, Live, Handlers, Recipes, Unwritten

(* A step of a handler that also writes: what is stored, and what that      *)
(* leaves true of the handlers.                                             *)
LEMMA Writes ==
  ASSUME IInv, NEW c \in Accounts, NEW h, Go(c, h), Fits(c, h)', Stored',
         Invited' \subseteq Invited, agreed \subseteq agreed',
         row' = row \/ (row = "live" /\ row' = "gone"),
         recipe' \in Recipes, agreed' \subseteq Accounts,
         member' \in [Accounts -> {"no", "invited", "joined"}],
         from' \subseteq Accounts, followers' \subseteq Accounts,
         UNCHANGED <<shares, alive, issued, events>>
  PROVE  IInv'
<1>1. Carried'
  BY OthersFit, StaysFitting DEF IInv
<1>2. \A e \in Accounts : req'[e] \in Handlers
  BY <1>1 DEF Carried, Fits
<1>3. TypeOK'
  BY <1>2 DEF IInv, TypeOK, Handlers
<1> QED
  BY <1>1, <1>3 DEF IInv

LEMMA RefreshStep ==
  ASSUME IInv, NEW c \in Accounts, Refresh(c)
  PROVE  IInv'
<1>0. /\ TypeOK /\ Stored /\ Fits(c, req[c]) /\ req[c] \in Handlers
      /\ issued \in 0..MaxCalls /\ Fits(c, Idle)
      /\ req[c].op \in Refreshing => row # "none"
  BY IdleFits DEF IInv, Carried, Fits, TypeOK, Refreshing, Idle
<1>1. CASE ReadRecipe(c)
  <2>1. CASE Live
    <3> DEFINE h == [req[c] EXCEPT !.recipe = recipe, !.at = "members"]
    <3>1. Go(c, h)
      BY <1>1, <2>1 DEF ReadRecipe
    <3>2. h \in Handlers /\ h.at = "members" /\ h.op = req[c].op
      BY <1>0 DEF Handlers, Steps, TypeOK
    <3>3. Fits(c, h)
      BY <1>0, <1>1, <3>2 DEF Fits, ReadRecipe, At, Refreshing
    <3> QED
      BY <1>0, <1>1, <3>1, <3>3, OnlyHandler DEF ReadRecipe
  <2>2. CASE ~Live
    BY <1>0, <1>1, <2>2, OnlyHandler DEF ReadRecipe, Finish
  <2> QED
    BY <2>1, <2>2
<1>2. CASE ReadMembers(c)
  <2>1. CASE Waiting
    <3> DEFINE h == Call(req[c].op, "empty")
    <3>1. h \in Handlers /\ h.at = "empty" /\ h.op = req[c].op
      BY <1>0 DEF Handlers, Steps, Call, Idle, Recipes, Unwritten
    <3>2. Fits(c, h)
      BY <1>0, <1>2, <3>1 DEF Fits, ReadMembers, At, Refreshing
    <3> QED
      BY <1>0, <1>2, <2>1, <3>2, OnlyHandler DEF ReadMembers
  <2>2. CASE ~Waiting /\ Due(req[c].recipe)
    <3> DEFINE h == [req[c] EXCEPT !.recipe = Unwritten, !.asked = Members,
                                   !.at = "tastes"]
    <3>1. /\ h \in Handlers /\ h.at = "tastes" /\ h.op = req[c].op
          /\ h.asked = Members
      BY <1>0 DEF Handlers, Steps, Recipes, Unwritten, Members, Joined, Invited
    <3>2. Invited = {} /\ Members \subseteq agreed
      BY <1>0, <2>2 DEF Waiting, Members, Invited, Stored
    <3>3. Fits(c, h)
      BY <1>0, <1>2, <3>1, <3>2 DEF Fits, ReadMembers, At, Refreshing
    <3> QED
      BY <1>0, <1>2, <2>2, <3>3, OnlyHandler DEF ReadMembers
  <2>3. CASE ~Waiting /\ ~Due(req[c].recipe)
    BY <1>0, <1>2, <2>3, OnlyHandler DEF ReadMembers, Finish
  <2> QED
    BY <2>1, <2>2, <2>3
<1>3. CASE Empty(c)
  <2>1. /\ Invited' = Invited /\ Joined' = Joined /\ Live' = Live
        /\ from' = {} /\ UNCHANGED <<row, followers, agreed>>
    BY <1>3 DEF Empty, Invited, Joined, Live
  <2>2. Stored' /\ Fits(c, Idle)'
    BY <1>0, <2>1, StaysFitting DEF Stored
  <2>3. recipe' \in Recipes
    BY <1>0, <1>3 DEF Empty, TypeOK, Recipes
  <2> QED
    BY <1>0, <1>3, <2>1, <2>2, <2>3, Writes DEF Empty, Finish, TypeOK
<1>4. CASE ReadTastes(c)
  <2> DEFINE h == [req[c] EXCEPT !.asked = {}, !.consent = Listening(c),
                                 !.at = "picked"]
  <2>1. /\ h \in Handlers /\ h.at = "picked" /\ h.op = req[c].op
        /\ h.consent \subseteq req[c].asked
    BY <1>0 DEF Handlers, Steps, Listening
  <2>2. Fits(c, h)
    BY <1>0, <1>4, <2>1 DEF Fits, ReadTastes, At, Refreshing
  <2> QED
    BY <1>0, <1>4, <2>2, OnlyHandler DEF ReadTastes
<1>5. CASE Write(c)
  <2>1. /\ Invited' = Invited /\ Joined' = Joined /\ Live' = Live
        /\ UNCHANGED <<row, followers, agreed>>
    BY <1>5 DEF Write, Invited, Joined, Live
  <2>2. /\ Live => from' = req[c].consent /\ Invited = {}
        /\ ~Live => from' = from
        /\ req[c].consent \subseteq agreed
    BY <1>0, <1>5 DEF Write, Written, Fits, At
  <2>3. Stored' /\ Fits(c, Idle)'
    BY <1>0, <2>1, <2>2, StaysFitting DEF Stored
  <2>4. recipe' \in Recipes /\ from' \subseteq Accounts
    BY <1>0, <1>5, <2>2 DEF Write, TypeOK, Recipes
  <2> QED
    BY <1>0, <1>5, <2>1, <2>3, <2>4, Writes DEF Write, Finish, TypeOK
<1> QED
  BY <1>1, <1>2, <1>3, <1>4, <1>5 DEF Refresh

(* Answering, leaving and changing the recipe, which a refresh follows. *)
LEMMA AnswerStep ==
  ASSUME IInv, NEW c \in Accounts, Answer(c) \/ Leave(c) \/ Update(c)
  PROVE  IInv'
<1>p. PICK next : next = [req[c] EXCEPT !.at = "recipe"]
  OBVIOUS
<1>0. /\ TypeOK /\ Stored /\ Fits(c, req[c]) /\ req[c] \in Handlers
      /\ Fits(c, Idle) /\ (req[c].op \in Refreshing => row # "none")
  BY IdleFits DEF IInv, Carried, Fits, Refreshing, Idle
<1>n. req[c].op \in Refreshing => Fits(c, next)
  <2>1. next \in Handlers /\ next.at = "recipe" /\ next.op = req[c].op
    BY <1>0, <1>p DEF Handlers, Steps
  <2> QED
    BY <1>0, <2>1 DEF Fits, Refreshing
<1>1. CASE At(c, {"answer"}, "accept") /\ Answer(c)
  <2>1. CASE member[c] = "invited"
    <3>1. /\ Go(c, next) /\ recipe' = MarkedDue /\ UNCHANGED <<row, from>>
          /\ member' = [member EXCEPT ![c] = "joined"]
          /\ followers' = followers \cup {c} /\ agreed' = agreed \cup {c}
          /\ UNCHANGED <<shares, alive, issued, events>>
      BY <1>1, <1>p, <2>1 DEF Answer, At, Step, Answering
    <3>2. /\ Invited' = Invited \ {c} /\ Joined' = Joined \cup {c}
          /\ member' \in [Accounts -> {"no", "invited", "joined"}]
          /\ c \in Invited
      BY <1>0, <2>1, <3>1 DEF Invited, Joined, TypeOK
    <3>3. Stored'
      BY <1>0, <3>1, <3>2 DEF Stored, Live
    <3>4. Fits(c, next)'
      BY <1>1, <1>n, <3>1, <3>2, StaysFitting DEF At, Refreshing
    <3>5. recipe' \in Recipes /\ followers' \subseteq Accounts
          /\ agreed' \subseteq Accounts /\ from' \subseteq Accounts
      BY <1>0, <3>1 DEF MarkedDue, Recipes, TypeOK
    <3> QED
      BY <1>0, <3>1, <3>2, <3>3, <3>4, <3>5, Writes
  <2>2. CASE member[c] # "invited"
    BY <1>0, <1>1, <2>2, OnlyHandler DEF Answer, At, Finish, blend, TypeOK
  <2> QED
    BY <2>1, <2>2
<1>2. CASE At(c, {"answer"}, "decline") /\ Answer(c)
  <2>1. CASE member[c] = "invited"
    <3>1. /\ Go(c, next)
          /\ member' = [member EXCEPT ![c] = "no"]
          /\ UNCHANGED <<row, recipe, from, followers, agreed, shares, alive,
                         issued, events>>
      BY <1>2, <1>p, <2>1 DEF Answer, At, Step, Answering
    <3>2. /\ Invited' = Invited \ {c} /\ Joined' = Joined
          /\ member' \in [Accounts -> {"no", "invited", "joined"}]
      BY <1>0, <2>1, <3>1 DEF Invited, Joined, TypeOK
    <3>3. Stored'
      BY <1>0, <3>1, <3>2 DEF Stored, Live
    <3>4. Fits(c, next)'
      BY <1>2, <1>n, <3>1, <3>2, StaysFitting DEF At, Refreshing
    <3> QED
      BY <1>0, <3>1, <3>2, <3>3, <3>4, Writes DEF TypeOK
  <2>2. CASE member[c] # "invited"
    BY <1>0, <1>2, <2>2, OnlyHandler DEF Answer, At, Finish, blend, TypeOK
  <2> QED
    BY <2>1, <2>2
<1>3. CASE Leave(c)
  <2>1. CASE c = Owner /\ Live
    <3>1. /\ Go(c, Idle) /\ TakenAway
          /\ UNCHANGED <<shares, alive, agreed, issued, events>>
      BY <1>3, <2>1 DEF Leave, Finish
    <3>2. Invited' = {} /\ Joined' = {}
      BY <3>1 DEF TakenAway, Invited, Joined
    <3>3. Stored' /\ Fits(c, Idle)'
      BY <1>0, <2>1, <3>1, <3>2, StaysFitting DEF Stored, TakenAway, Live
    <3> QED
      BY <1>0, <2>1, <3>1, <3>2, <3>3, Writes
      DEF TakenAway, TypeOK, Live, Recipes, Unwritten
  <2>2. CASE c = Owner /\ ~Live
    BY <1>0, <1>3, <2>2, OnlyHandler DEF Leave, Finish, TypeOK
  <2>3. CASE c # Owner
    <3>1. /\ Go(c, next)
          /\ member' = [member EXCEPT ![c] = "no"]
          /\ followers' = followers \ {c}
          /\ recipe' \in {MarkedDue, recipe}
          /\ UNCHANGED <<row, from, agreed, shares, alive, issued, events>>
      BY <1>3, <1>p, <2>3 DEF Leave, Step
    <3>2. /\ Invited' = Invited \ {c} /\ Joined' = Joined \ {c}
          /\ member' \in [Accounts -> {"no", "invited", "joined"}]
      BY <1>0, <3>1 DEF Invited, Joined, TypeOK
    <3>3. Stored'
      BY <1>0, <3>1, <3>2 DEF Stored, Live
    <3>4. Fits(c, next)'
      BY <1>3, <1>n, <3>1, <3>2, StaysFitting DEF Leave, At, Refreshing
    <3>5. recipe' \in Recipes
      BY <1>0, <3>1 DEF MarkedDue, Recipes, TypeOK
    <3> QED
      BY <1>0, <3>1, <3>2, <3>3, <3>4, <3>5, Writes DEF TypeOK
  <2> QED
    BY <2>1, <2>2, <2>3
<1>4. CASE Update(c)
  <2>1. /\ Invited' = Invited /\ Joined' = Joined /\ Live' = Live
        /\ UNCHANGED <<row, member, from, followers, agreed, shares, alive,
                       issued, events>>
    BY <1>4 DEF Update, Invited, Joined, Live
  <2>2. recipe' \in Recipes
    BY <1>0, <1>4 DEF Update, MarkedDue, Recipes, TypeOK
  <2>3. Stored'
    BY <1>0, <2>1 DEF Stored
  <2>4. Go(c, next) \/ Go(c, Idle)
    BY <1>4, <1>p DEF Update, Step, Finish
  <2>5. Fits(c, next)' /\ Fits(c, Idle)'
    BY <1>0, <1>4, <1>n, <2>1, StaysFitting DEF Update, At, Refreshing
  <2> QED
    BY <1>0, <2>1, <2>2, <2>3, <2>4, <2>5, Writes DEF TypeOK
<1> QED
  BY <1>1, <1>2, <1>3, <1>4 DEF Answer

(* Calls, and the making of a blend. *)
LEMMA CallStep ==
  ASSUME IInv, NEW c \in Accounts, Read(c) \/ CallAnswer(c) \/ CallMember(c)
  PROVE  IInv'
<1>0. TypeOK /\ Stored /\ MaxCalls \in Nat
  BY BlendsAssumption DEF IInv
<1>1. Live \/ c \in Invited
  BY DEF Read, CallAnswer, CallMember, Opens, Invited
<1>2. row # "none"
  BY <1>0, <1>1 DEF Stored, Live
<1>3. ASSUME NEW op \in Refreshing, NEW at \in Steps \ {"tastes", "picked"}
      PROVE  Fits(c, Call(op, at))
  BY <1>2, <1>3 DEF Fits, Call, Handlers, Idle, Recipes, Unwritten, Refreshing
<1>4. \E op \in Refreshing, at \in {"recipe", "accept", "decline", "write"} :
        Go(c, Call(op, at))
  BY DEF Read, CallAnswer, CallMember, Begin, Refreshing
<1>5. /\ UNCHANGED <<blend, shares, alive, agreed, events>>
      /\ issued' \in 0..MaxCalls
  BY <1>0 DEF Read, CallAnswer, CallMember, Begin, TypeOK
<1> QED
  BY <1>3, <1>4, <1>5, OnlyHandler DEF Steps

LEMMA CreateStep == IInv /\ (CallCreate \/ Create) => IInv'
<1> SUFFICES ASSUME IInv, CallCreate \/ Create PROVE IInv'
  OBVIOUS
<1>0. /\ TypeOK /\ Stored /\ Owner \in Accounts
      /\ Fits(Owner, req[Owner]) /\ req[Owner] \in Handlers
  BY DEF IInv, Carried, Fits, Accounts
<1>1. CASE CallCreate
  <2>1. PICK asked \in SUBSET {f \in Friends : alive[f]}, how \in {"timed", "frozen"} :
          Go(Owner, [Call("create", "write") EXCEPT
                       !.asked = asked, !.recipe.refresh = how])
    BY <1>1 DEF CallCreate
  <2> DEFINE h == [Call("create", "write") EXCEPT
                     !.asked = asked, !.recipe.refresh = how]
  <2>2. h \in Handlers /\ h.op = "create" /\ h.at = "write"
    BY DEF Handlers, Call, Idle, Steps, Recipes, Unwritten, Accounts
  <2>3. Fits(Owner, h)
    BY <1>1, <2>2 DEF CallCreate, Fits
  <2> QED
    BY <1>0, <1>1, <2>1, <2>3, OnlyHandler DEF CallCreate, TypeOK
<1>2. CASE Create
  <2>1. row = "none"
    BY <1>0, <1>2 DEF Create, At, Fits
  <2>2. /\ row' = "live" /\ agreed' = {Owner} /\ from' = from /\ from = {}
        /\ followers' = followers
        /\ member' \in [Accounts -> {"no", "invited", "joined"}]
        /\ Joined' = {Owner} /\ recipe' \in Recipes
        /\ Go(Owner, Idle) /\ UNCHANGED <<shares, alive, issued, events>>
    <3>1. from = {}
      BY <1>0, <2>1 DEF Stored, Live
    <3>2. recipe' \in Recipes
      BY <1>0, <1>2 DEF Create, Handlers
    <3>3. member' \in [Accounts -> {"no", "invited", "joined"}]
      BY <1>2 DEF Create
    <3>4. Joined' = {Owner}
      BY <1>0, <1>2 DEF Create, Joined
    <3> QED
      BY <1>2, <3>1, <3>2, <3>3, <3>4 DEF Create, Finish
  <2>3. Stored'
    BY <2>2 DEF Stored, Live
  <2>4. \A c \in Accounts : req'[c] = Idle
    BY <1>0, <2>1, <2>2 DEF IInv, Carried, Fits, Go, Idle
  <2>5. Carried'
    <3>1. req' = [c \in Accounts |-> req'[c]]
      BY <2>2 DEF IInv, Carried, Go
    <3>2. \A c \in Accounts : Fits(c, Idle)'
      BY <2>2, IdleFits DEF Fits, Idle
    <3> QED
      BY <2>4, <3>1, <3>2 DEF Carried, Fits
  <2>6. TypeOK'
    BY <1>0, <2>2, <2>4, IdleFits DEF TypeOK, Handlers
  <2> QED
    BY <2>3, <2>5, <2>6 DEF IInv
<1> QED
  BY <1>1, <1>2

(* What happens around it: consents, erasures, restarts, time. *)
LEMMA EventStep ==
  ASSUME IInv,
         \/ \E a \in Accounts : ChangeConsent(a) \/ Erase(a)
         \/ Restart \/ Age \/ UNCHANGED vars
  PROVE  IInv'
<1>0. /\ TypeOK /\ Stored /\ Carried /\ MaxEvents \in Nat
      /\ Event => events' \in 0..MaxEvents
  BY BlendsAssumption DEF IInv, TypeOK, Event
<1>k. ASSUME UNCHANGED req, Invited' \subseteq Invited, agreed' = agreed,
             row' = row \/ (row = "live" /\ row' = "gone")
      PROVE  Carried'
  <2>1. \A c \in Accounts : Fits(c, req[c])'
    BY <1>0, <1>k, StaysFitting DEF Carried
  <2> QED
    BY <1>0, <1>k, <2>1 DEF Carried
<1>1. ASSUME NEW a \in Accounts, ChangeConsent(a) PROVE IInv'
  <2>1. /\ Invited' = Invited /\ Joined' = Joined /\ Live' = Live
        /\ UNCHANGED <<row, recipe, member, from, followers, alive, req,
                       agreed, issued>>
        /\ shares' \in [Accounts -> BOOLEAN] /\ events' \in 0..MaxEvents
    BY <1>0, <1>1 DEF ChangeConsent, blend, Invited, Joined, Live, TypeOK
  <2>2. TypeOK' /\ Stored'
    BY <1>0, <2>1 DEF TypeOK, Stored
  <2> QED
    BY <1>k, <2>1, <2>2 DEF IInv
<1>2. ASSUME NEW a \in Accounts, Erase(a) PROVE IInv'
  <2>0. /\ alive' \in [Accounts -> BOOLEAN] /\ events' \in 0..MaxEvents
        /\ UNCHANGED <<shares, req, agreed, issued>>
    BY <1>0, <1>2 DEF Erase, TypeOK
  <2>1. CASE a = Owner /\ Live
    <3>1. TakenAway
      BY <1>2, <2>1 DEF Erase
    <3>2. Invited' = {} /\ Joined' = {} /\ row' = "gone" /\ row = "live"
      BY <2>1, <3>1 DEF TakenAway, Invited, Joined, Live
    <3>3. Stored'
      BY <3>1, <3>2 DEF TakenAway, Stored
    <3>4. TypeOK'
      BY <1>0, <2>0, <3>1 DEF TakenAway, TypeOK, Recipes, Unwritten
    <3> QED
      BY <1>k, <2>0, <3>2, <3>3, <3>4 DEF IInv
  <2>2. CASE ~(a = Owner /\ Live)
    <3>1. /\ member' = [member EXCEPT ![a] = "no"]
          /\ followers' = followers \ {a} /\ recipe' \in {MarkedDue, recipe}
          /\ UNCHANGED <<row, from>>
      BY <1>2, <2>2 DEF Erase
    <3>2. Invited' = Invited \ {a} /\ Joined' = Joined \ {a}
      BY <1>0, <3>1 DEF Invited, Joined, TypeOK
    <3>3. Stored'
      BY <1>0, <2>0, <3>1, <3>2 DEF Stored, Live
    <3>4. recipe' \in Recipes
      BY <1>0, <3>1 DEF TypeOK, Recipes, MarkedDue
    <3>5. TypeOK'
      BY <1>0, <2>0, <3>1, <3>4 DEF TypeOK
    <3> QED
      BY <1>k, <2>0, <3>1, <3>2, <3>3, <3>5 DEF IInv
  <2> QED
    BY <2>1, <2>2
<1>3. CASE Restart
  <2>1. /\ Invited' = Invited /\ Joined' = Joined /\ Live' = Live
        /\ UNCHANGED <<row, recipe, member, from, followers, alive, shares,
                       agreed, issued>>
        /\ events' \in 0..MaxEvents /\ req' = [c \in Accounts |-> Idle]
    BY <1>0, <1>3 DEF Restart, blend, Invited, Joined, Live
  <2>2. \A c \in Accounts : req'[c] = Idle /\ Fits(c, Idle)'
    BY <2>1, IdleFits DEF Fits
  <2>3. TypeOK' /\ Stored'
    BY <1>0, <2>1, <2>2, IdleFits DEF TypeOK, Stored, Handlers
  <2>4. Carried'
    BY <2>1, <2>2 DEF Carried, Fits
  <2> QED
    BY <2>3, <2>4 DEF IInv
<1>4. CASE Age
  <2>1. /\ Invited' = Invited /\ Joined' = Joined /\ Live' = Live
        /\ UNCHANGED <<row, member, from, followers, alive, shares, req,
                       agreed, issued, events>>
    BY <1>4 DEF Age, Invited, Joined, Live
  <2>2. recipe' \in Recipes
    BY <1>0, <1>4 DEF Age, TypeOK, Recipes
  <2>3. TypeOK' /\ Stored'
    BY <1>0, <2>1, <2>2 DEF TypeOK, Stored
  <2> QED
    BY <1>k, <2>1, <2>3 DEF IInv
<1>5. CASE UNCHANGED vars
  <2>1. /\ Invited' = Invited /\ Joined' = Joined
        /\ UNCHANGED <<row, recipe, member, from, followers, alive, shares,
                       req, agreed, issued, events>>
    BY <1>5 DEF vars, blend, Invited, Joined
  <2>2. TypeOK' /\ Stored'
    BY <1>0, <2>1 DEF TypeOK, Stored, Live
  <2> QED
    BY <1>k, <2>1, <2>2 DEF IInv
<1> QED
  BY <1>1, <1>2, <1>3, <1>4, <1>5

LEMMA NextIInv == IInv /\ [Next]_vars => IInv'
BY RefreshStep, AnswerStep, CallStep, CreateStep, EventStep DEF Next, Handler

(* What the two invariants rest on, in every state.                        *)
THEOREM HandlersFit == Spec => []IInv
BY InitIInv, NextIInv, PTL DEF Spec

(* A blend holds nobody's listening before they have joined it, nor before *)
(* everyone who was asked has answered (db_blend_refresh.rs).              *)
THEOREM NobodyReadTooSoon == Spec => []NobodyIsReadTooSoon
<1>1. IInv => NobodyIsReadTooSoon
  BY DEF IInv, Stored, NobodyIsReadTooSoon, NothingBeforeAgreeing,
         WaitsForEveryAnswer
<1> QED
  BY <1>1, HandlersFit, PTL

(* Once a blend was taken away nothing of it is left, whatever refresh was *)
(* under way then (db_playlists.rs, db_blend_refresh.rs).                  *)
THEOREM TakenAwayForGood == Spec => []GoneLeavesNothing
<1>1. IInv => GoneLeavesNothing
  BY DEF IInv, Stored, Live, GoneLeavesNothing
<1> QED
  BY <1>1, HandlersFit, PTL
=============================================================================
