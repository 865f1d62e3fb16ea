---------------------------- MODULE SocialProofs ----------------------------
(***************************************************************************)
(* What holds of Social for every set of accounts, sessions and codes: the *)
(* tables keep their types, friendships are mutual where no block has      *)
(* interfered, a code is spent once, sealed copies go with the friendship, *)
(* and a block falls to nobody else's request.                             *)
(***************************************************************************)
EXTENDS Social, Library, FiniteSetTheorems, FunctionTheorems, SequenceTheorems,
        WellFoundedInduction, TLAPS

----------------------------------------------------------------------------
(* Types *)

ReqOK ==
  /\ req \in [Sessions -> Requests]
  /\ \A s \in Sessions : req[s].op \in Aimed => req[s].peer \in Users

LEMMA IdleType == Idle \in Requests /\ Idle.op \notin Aimed
BY DEF Idle, Requests, Ops, Steps, Someone, Aimed

(* Whatever well-formed request a step leaves its session in. *)
LEMMA GoType ==
  ASSUME ReqOK, NEW s \in Sessions, NEW r \in Requests,
         r.op \in Aimed => r.peer \in Users, Go(s, r)
  PROVE  ReqOK'
BY DEF ReqOK, Go

LEMMA FinishType ==
  ASSUME ReqOK, NEW s \in Sessions, Finish(s)
  PROVE  ReqOK'
BY GoType, IdleType DEF Finish

LEMMA OnType ==
  ASSUME ReqOK, NEW s \in Sessions, NEW at \in Steps, On(s, at)
  PROVE  ReqOK'
<1> DEFINE r == [req[s] EXCEPT !.at = at]
<1>1. req[s] \in Requests /\ (req[s].op \in Aimed => req[s].peer \in Users)
  BY DEF ReqOK
<1>2. r \in Requests /\ r.op = req[s].op /\ r.peer = req[s].peer
  BY <1>1 DEF Requests
<1>3. Go(s, r)
  BY DEF On
<1> HIDE DEF r
<1> QED
  BY <1>1, <1>2, <1>3, GoType

LEMMA CallType ==
  ASSUME ReqOK, NEW s \in Sessions, NEW op \in Ops, NEW at \in Steps,
         NEW u \in Someone, op \in Aimed => u \in Users,
         Go(s, Call(op, at, u))
  PROVE  ReqOK'
<1>1. /\ Call(op, at, u) \in Requests
      /\ Call(op, at, u).op = op
      /\ Call(op, at, u).peer = u
  BY DEF Call, Idle, Requests
<1> QED
  BY <1>1, GoType

(* A step that moves its handler on, whatever else of it changes. *)
LEMMA KeepType ==
  ASSUME ReqOK, NEW s \in Sessions, NEW r \in Requests,
         r.op = req[s].op, r.peer = req[s].peer, Go(s, r)
  PROVE  ReqOK'
BY GoType DEF ReqOK

SeenType == [blocked : SUBSET (Users \X Users),
             loose : SUBSET (Users \X Users),
             met : [Sessions -> SUBSET Users]]

LEMMA HistoryType ==
  ASSUME TypeOK, Observed
  PROVE  seen' \in SeenType
<1>1. \A s \in Sessions : MetSince(s) \in SUBSET Users
  BY DEF MetSince, TypeOK
<1>2. seen'.met \in [Sessions -> SUBSET Users]
  BY <1>1 DEF Observed
<1>4. /\ seen'.blocked \in SUBSET (Users \X Users)
      /\ seen'.loose \in SUBSET (Users \X Users)
  BY DEF Observed
<1>5. seen' = [blocked |-> seen'.blocked, loose |-> seen'.loose,
               met |-> seen'.met]
  BY DEF Observed
<1> QED
  BY <1>2, <1>4, <1>5 DEF SeenType

EdgeType == [Users \X Users -> EdgeStates]

LEMMA TablesType ==
  ASSUME TypeOK, NEW a \in Users, NEW b \in Users
  PROVE  /\ Requested(edge, a, b) \in EdgeType
         /\ Accepted(edge, a, b) \in EdgeType
         /\ Removed(edge, a, b) \in EdgeType
         /\ Forgotten(a, b) \in [Users -> SUBSET Users]
         /\ Untuned(a) \in [Users -> Someone]
BY DEF TypeOK, EdgeType, EdgeStates, Requested, Accepted, Removed, Forgotten,
       Untuned, Someone

LEMMA CodesType ==
  ASSUME TypeOK, NEW u \in Users
  PROVE  WithoutCodesOf(u) \in [Codes -> CodeRows]
<1>1. ASSUME NEW c \in Codes PROVE WithoutCodesOf(u)[c] \in CodeRows
  <2>1. code[c] \in CodeRows
    BY DEF TypeOK
  <2>2. CASE code[c] = NoCode
    BY <2>2, <2>1 DEF WithoutCodesOf, NoCode
  <2>3. CASE code[c] # NoCode
    BY <2>1, <2>3 DEF WithoutCodesOf, CodeRows
  <2> QED BY <2>2, <2>3
<1> QED BY <1>1 DEF WithoutCodesOf

(* The two ends of a request under way are accounts. *)
LEMMA EndsType ==
  ASSUME TypeOK, NEW s \in Sessions, req[s].op \in {"send", "redeem"}
  PROVE  From(s) \in Users /\ To(s) \in Users
BY SocialAssumption DEF TypeOK, From, To, Aimed

(* What is left to show of a step, once its handler and tables are typed. *)
LEMMA Assemble ==
  ASSUME TypeOK, ReqOK', Observed,
         edge' \in EdgeType, code' \in [Codes -> CodeRows],
         listen' \in [Users -> Someone], shown' \in [Users -> BOOLEAN],
         copies' \in [Users -> SUBSET Users], issued' \in 0..MaxRequests
  PROVE  TypeOK'
BY HistoryType DEF TypeOK, ReqOK, EdgeType, SeenType

LEMMA BeginType ==
  ASSUME TypeOK, NEW s \in Sessions, Begin(s)
  PROVE  issued' \in 0..MaxRequests
BY SocialAssumption DEF TypeOK, Begin

LEMMA AtType ==
  ASSUME TypeOK, NEW s \in Sessions, NEW O, NEW at, At(s, O, at)
  PROVE  issued' \in 0..MaxRequests /\ req[s].op \in O /\ req[s].at = at
BY DEF TypeOK, At

LEMMA TypeInit == Init => TypeOK
BY SocialAssumption, IdleType
   DEF Init, TypeOK, EdgeStates, CodeRows, NoCode, Someone, Idle

LEMMA TypeNext == TypeOK /\ [Next]_vars => TypeOK'
<1> SUFFICES ASSUME TypeOK, [Next]_vars PROVE TypeOK'
  OBVIOUS
<1> USE DEF Observed, tables, EdgeType
<1>t. /\ ReqOK
      /\ edge \in EdgeType /\ code \in [Codes -> CodeRows]
      /\ listen \in [Users -> Someone] /\ shown \in [Users -> BOOLEAN]
      /\ copies \in [Users -> SUBSET Users] /\ issued \in 0..MaxRequests
  BY DEF TypeOK, ReqOK
<1>a. \A s \in Sessions : Account[s] \in Users
  BY SocialAssumption
<1>n. \A u \in Users : u \in Someone
  BY DEF Someone
<1>m. Nobody \in Someone
  BY DEF Someone
<1> USE DEF Ops, Steps, Aimed
<1>1. ASSUME NEW s \in Sessions, NEW u \in Users, SendRequest(s, u)
      PROVE  TypeOK'
  <2>1. ReqOK'
    BY <1>1, <1>t, <1>n, CallType DEF SendRequest
  <2> QED BY <1>1, <1>t, <2>1, BeginType, Assemble DEF SendRequest
<1>2. ASSUME NEW s \in Sessions, CheckEdge(s) PROVE TypeOK'
  <2>1. ReqOK'
    BY <1>2, <1>t, OnType, FinishType DEF CheckEdge
  <2> QED BY <1>2, <1>t, <2>1, AtType, Assemble DEF CheckEdge
<1>3. ASSUME NEW s \in Sessions, InsertRequest(s) PROVE TypeOK'
  <2>1. ReqOK'
    BY <1>3, <1>t, OnType, FinishType DEF InsertRequest
  <2>2. edge' \in EdgeType
    BY <1>3, EndsType, TablesType DEF InsertRequest, At
  <2> QED BY <1>3, <1>t, <2>1, <2>2, AtType, Assemble DEF InsertRequest
<1>4. ASSUME NEW s \in Sessions, NEW u \in Users, AcceptRequest(s, u)
      PROVE  TypeOK'
  <2>1. edge' \in EdgeType
    BY <1>4, <1>a, TablesType DEF AcceptRequest
  <2>2. ReqOK'
    BY <1>4, <1>t DEF AcceptRequest, ReqOK
  <2> QED BY <1>4, <1>t, <2>1, <2>2, BeginType, Assemble DEF AcceptRequest
<1>5. ASSUME NEW s \in Sessions, NEW c \in Codes, MintCode(s, c) PROVE TypeOK'
  <2>1. code' \in [Codes -> CodeRows]
    <3>1. [state |-> "live", owner |-> Account[s], uses |-> 0] \in CodeRows
      BY <1>a, <1>n DEF CodeRows
    <3> QED BY <1>5, <1>a, <3>1, CodesType DEF MintCode
  <2>2. ReqOK'
    BY <1>5, <1>t DEF MintCode, ReqOK
  <2> QED BY <1>5, <1>t, <2>1, <2>2, BeginType, Assemble DEF MintCode
<1>6. ASSUME NEW s \in Sessions, RevokeCodes(s) PROVE TypeOK'
  <2>1. code' \in [Codes -> CodeRows]
    BY <1>6, <1>a, CodesType DEF RevokeCodes
  <2>2. ReqOK'
    BY <1>6, <1>t DEF RevokeCodes, ReqOK
  <2> QED BY <1>6, <1>t, <2>1, <2>2, BeginType, Assemble DEF RevokeCodes
<1>7. ASSUME NEW c \in Codes, ExpireCode(c) PROVE TypeOK'
  <2>1. code' \in [Codes -> CodeRows]
    BY <1>7, <1>t DEF ExpireCode, Claimable, CodeRows, NoCode
  <2>2. ReqOK'
    BY <1>7, <1>t DEF ExpireCode, ReqOK
  <2> QED BY <1>7, <1>t, <2>1, <2>2, Assemble DEF ExpireCode
<1>8. ASSUME NEW s \in Sessions, NEW c \in Codes, RedeemCode(s, c)
      PROVE  TypeOK'
  <2>1. code' \in [Codes -> CodeRows]
    BY <1>8, <1>t DEF RedeemCode, Claimable, CodeRows, NoCode
  <2>2. code[c].owner \in Users
    BY <1>8, <1>t DEF RedeemCode, Claimable, CodeRows, NoCode
  <2>3. ReqOK'
    <3>1. CASE UNCHANGED req
      BY <3>1, <1>t DEF ReqOK
    <3>2. CASE Go(s, Call("redeem", "blocked", code[c].owner))
      BY <3>2, <2>2, <1>t, <1>n, CallType
    <3> QED BY <1>8, <3>1, <3>2 DEF RedeemCode
  <2> QED BY <1>8, <1>t, <2>1, <2>3, BeginType, Assemble DEF RedeemCode
<1>9. ASSUME NEW s \in Sessions, CheckBlocked(s) PROVE TypeOK'
  <2>1. ReqOK'
    BY <1>9, <1>t, OnType, FinishType DEF CheckBlocked
  <2> QED BY <1>9, <1>t, <2>1, AtType, Assemble DEF CheckBlocked
<1>10. ASSUME NEW s \in Sessions, AcceptByCode(s) PROVE TypeOK'
  <2>1. ReqOK'
    BY <1>10, <1>t, FinishType DEF AcceptByCode
  <2>2. edge' \in EdgeType
    BY <1>10, EndsType, TablesType DEF AcceptByCode, At
  <2> QED BY <1>10, <1>t, <2>1, <2>2, AtType, Assemble DEF AcceptByCode
<1>11. ASSUME NEW s \in Sessions, NEW u \in Users,
              RemoveFriend(s, u) \/ BlockUser(s, u)
       PROVE  TypeOK'
  <2>1. PICK op \in {"remove", "block"} : Part(s, op, u)
    BY <1>11 DEF RemoveFriend, BlockUser
  <2>2. ReqOK'
    BY <2>1, <1>t, <1>n, CallType DEF Part
  <2>3. listen' \in [Users -> Someone]
    BY <2>1, <1>a, TablesType DEF Part
  <2> QED BY <2>1, <1>t, <2>2, <2>3, BeginType, Assemble DEF Part
<1>12. ASSUME NEW s \in Sessions, UntunePeer(s) PROVE TypeOK'
  <2>1. ReqOK'
    BY <1>12, <1>t, OnType, FinishType DEF UntunePeer
  <2>2. listen' \in [Users -> Someone]
    <3>1. req[s].peer \in Users
      BY <1>12, <1>t DEF UntunePeer, At, ReqOK
    <3> QED BY <1>12, <3>1, TablesType DEF UntunePeer
  <2> QED BY <1>12, <1>t, <2>1, <2>2, AtType, Assemble DEF UntunePeer
<1>13. ASSUME NEW s \in Sessions, RemoveRows(s) PROVE TypeOK'
  <2>1. ReqOK'
    BY <1>13, <1>t, OnType, FinishType DEF RemoveRows
  <2>2. req[s].peer \in Users
    BY <1>13, <1>t DEF RemoveRows, At, ReqOK
  <2>3. edge' \in EdgeType /\ copies' \in [Users -> SUBSET Users]
    BY <1>13, <2>2, <1>a, TablesType DEF RemoveRows
  <2> QED BY <1>13, <1>t, <2>1, <2>3, AtType, Assemble DEF RemoveRows
<1>14. ASSUME NEW s \in Sessions, InsertBlock(s) PROVE TypeOK'
  <2>1. ReqOK'
    BY <1>14, <1>t, FinishType DEF InsertBlock
  <2>2. edge' \in EdgeType
    BY <1>14, <1>t DEF InsertBlock, EdgeStates
  <2> QED BY <1>14, <1>t, <2>1, <2>2, AtType, Assemble DEF InsertBlock
<1>15. ASSUME NEW s \in Sessions, NEW u \in Users, UnblockUser(s, u)
       PROVE  TypeOK'
  <2>1. ReqOK'
    BY <1>15, <1>t DEF UnblockUser, ReqOK
  <2>2. edge' \in EdgeType
    BY <1>15, <1>t DEF UnblockUser, EdgeStates
  <2> QED BY <1>15, <1>t, <2>1, <2>2, BeginType, Assemble DEF UnblockUser
<1>16. ASSUME NEW s \in Sessions, NEW u \in Users, StartListenAlong(s, u)
       PROVE  TypeOK'
  <2>1. ReqOK'
    BY <1>16, <1>t, <1>n, CallType DEF StartListenAlong
  <2> QED BY <1>16, <1>t, <2>1, BeginType, Assemble DEF StartListenAlong
<1>17. ASSUME NEW s \in Sessions, TuneIn(s) PROVE TypeOK'
  <2>1. ReqOK'
    BY <1>17, <1>t, FinishType DEF TuneIn
  <2>2. req[s] \in Requests
    BY <1>t DEF ReqOK
  <2>3. listen' \in [Users -> Someone]
    BY <1>17, <1>t, <2>2 DEF TuneIn, Requests
  <2> QED BY <1>17, <1>t, <2>1, <2>3, AtType, Assemble DEF TuneIn
<1>18. ASSUME NEW s \in Sessions, StopListenAlong(s) PROVE TypeOK'
  <2>1. ReqOK' /\ listen' \in [Users -> Someone]
    BY <1>18, <1>t, <1>a, TablesType DEF StopListenAlong, ReqOK
  <2> QED BY <1>18, <1>t, <2>1, BeginType, Assemble DEF StopListenAlong
<1>19. ASSUME NEW s \in Sessions, AskSession(s) PROVE TypeOK'
  <2>1. listen[Account[s]] \in Someone
    BY <1>t, <1>a
  <2>2. ReqOK'
    BY <1>19, <1>t, <2>1, CallType DEF AskSession
  <2> QED BY <1>19, <1>t, <2>2, BeginType, Assemble DEF AskSession
<1>20. ASSUME NEW s \in Sessions, VerifySession(s) PROVE TypeOK'
  <2>1. ReqOK'
    BY <1>20, <1>t, OnType, FinishType DEF VerifySession
  <2> QED BY <1>20, <1>t, <2>1, AtType, Assemble DEF VerifySession
<1>21. ASSUME NEW s \in Sessions, DropSession(s) PROVE TypeOK'
  <2>1. ReqOK'
    BY <1>21, <1>t, FinishType DEF DropSession
  <2>2. listen' \in [Users -> Someone]
    BY <1>21, <1>a, TablesType DEF DropSession
  <2> QED BY <1>21, <1>t, <2>1, <2>2, AtType, Assemble DEF DropSession
<1>22. ASSUME NEW s \in Sessions, Show(s) PROVE TypeOK'
  <2>1. ReqOK' /\ shown' \in [Users -> BOOLEAN]
    BY <1>22, <1>t DEF Show, ReqOK
  <2> QED BY <1>22, <1>t, <2>1, BeginType, Assemble DEF Show
<1>23. ASSUME NEW s \in Sessions, Hide(s) PROVE TypeOK'
  <2>1. ReqOK'
    BY <1>23, <1>t, <1>m, CallType DEF Hide
  <2>2. shown' \in [Users -> BOOLEAN]
    BY <1>23, <1>t DEF Hide
  <2> QED BY <1>23, <1>t, <2>1, <2>2, BeginType, Assemble DEF Hide
<1>24. ASSUME NEW s \in Sessions, SetOther(s) PROVE TypeOK'
  <2>1. ReqOK'
    BY <1>24, <1>t, <1>m, CallType DEF SetOther
  <2> QED BY <1>24, <1>t, <2>1, BeginType, Assemble DEF SetOther
<1>25. ASSUME NEW s \in Sessions, KeepShown(s) PROVE TypeOK'
  <2>1. ReqOK' /\ shown' \in [Users -> BOOLEAN]
    BY <1>25, <1>t, FinishType DEF KeepShown
  <2> QED BY <1>25, <1>t, <2>1, AtType, Assemble DEF KeepShown
<1>26. ASSUME NEW s \in Sessions, KeepHidden(s) PROVE TypeOK'
  <2>1. ReqOK'
    BY <1>26, <1>t, <1>m, CallType DEF KeepHidden
  <2>2. shown' \in [Users -> BOOLEAN]
    BY <1>26, <1>t DEF KeepHidden
  <2> QED BY <1>26, <1>t, <2>1, <2>2, AtType, Assemble DEF KeepHidden
<1>27. ASSUME NEW s \in Sessions, UpdateHandoff(s) PROVE TypeOK'
  <2>1. ReqOK'
    BY <1>27, <1>t, <1>m, CallType DEF UpdateHandoff
  <2>2. copies' \in [Users -> SUBSET Users]
    BY <1>27, <1>t DEF UpdateHandoff
  <2> QED BY <1>27, <1>t, <2>1, <2>2, BeginType, Assemble DEF UpdateHandoff
<1>r. \A s \in Sessions : req[s] \in Requests
  BY <1>t DEF ReqOK
<1>28. ASSUME NEW s \in Sessions, FanOut(s) PROVE TypeOK'
  <2> DEFINE r == [req[s] EXCEPT !.at = "tell",
                                 !.todo = FriendsToTell(Account[s])]
  <2>1. FriendsToTell(Account[s]) \in SUBSET Users
    BY DEF FriendsToTell, Friends
  <2>2. r \in Requests /\ r.op = req[s].op /\ r.peer = req[s].peer
    BY <1>r, <2>1 DEF Requests
  <2>3. On(s, "rows") \/ Go(s, r)
    BY <1>28 DEF FanOut
  <2>4. ReqOK'
    <3> HIDE DEF r
    <3> QED BY <2>2, <2>3, <1>t, OnType, KeepType
  <2> QED BY <1>28, <1>t, <2>4, AtType, Assemble DEF FanOut
<1>29. ASSUME NEW s \in Sessions, NEW u \in Users, TellFriend(s, u)
       PROVE  TypeOK'
  <2> DEFINE r == [req[s] EXCEPT !.todo = @ \ {u},
                     !.at = IF req[s].todo = {u} THEN "rows" ELSE "tell"]
  <2>1. r \in Requests /\ r.op = req[s].op /\ r.peer = req[s].peer
    BY <1>r DEF Requests
  <2>2. Go(s, r)
    BY <1>29 DEF TellFriend
  <2>3. ReqOK'
    <3> HIDE DEF r
    <3> QED BY <2>1, <2>2, <1>t, KeepType
  <2> QED BY <1>29, <1>t, <2>3, AtType, Assemble DEF TellFriend
<1>30. ASSUME NEW s \in Sessions, ReadListeners(s) PROVE TypeOK'
  <2> DEFINE r == [req[s] EXCEPT !.at = "sift",
                                 !.todo = Listeners(Account[s])]
  <2>1. r \in Requests /\ r.op = req[s].op /\ r.peer = req[s].peer
    BY <1>r DEF Requests, Listeners
  <2>2. Finish(s) \/ Go(s, r)
    BY <1>30 DEF ReadListeners
  <2>3. ReqOK'
    <3> HIDE DEF r
    <3> QED BY <2>1, <2>2, <1>t, FinishType, KeepType
  <2> QED BY <1>30, <1>t, <2>3, AtType, Assemble DEF ReadListeners
<1>31. ASSUME NEW s \in Sessions, NEW l \in Users, Sift(s, l) PROVE TypeOK'
  <2> DEFINE kept == IF MayListen(Account[s], l) THEN req[s].allowed \cup {l}
                     ELSE req[s].allowed
             left == req[s].todo \ {l}
             r == [req[s] EXCEPT !.todo = left, !.allowed = kept,
                     !.at = IF left = {} THEN "reach" ELSE "sift"]
  <2>1. kept \in SUBSET Users /\ left \in SUBSET Users
    BY <1>r DEF Requests
  <2>2. r \in Requests /\ r.op = req[s].op /\ r.peer = req[s].peer
    <3> HIDE DEF kept, left
    <3> QED BY <1>r, <2>1 DEF Requests
  <2>3. Finish(s) \/ Go(s, r)
    BY <1>31 DEF Sift
  <2>4. ReqOK'
    <3> HIDE DEF r
    <3> QED BY <2>2, <2>3, <1>t, FinishType, KeepType
  <2> QED BY <1>31, <1>t, <2>4, AtType, Assemble DEF Sift
<1>k. ASSUME NEW s \in Sessions, NEW l \in Users, Reached(s, l) PROVE ReqOK'
  <2> DEFINE r == [req[s] EXCEPT !.allowed = @ \ {l}]
  <2>1. r \in Requests /\ r.op = req[s].op /\ r.peer = req[s].peer
    BY <1>r DEF Requests
  <2>2. Finish(s) \/ Go(s, r)
    BY <1>k DEF Reached
  <2> HIDE DEF r
  <2> QED BY <2>1, <2>2, <1>t, FinishType, KeepType
<1>32. ASSUME NEW s \in Sessions, NEW l \in Users, CutListener(s, l)
       PROVE  TypeOK'
  <2>1. ReqOK' /\ listen' \in [Users -> Someone]
    BY <1>32, <1>k, TablesType DEF CutListener
  <2> QED BY <1>32, <1>t, <2>1, AtType, Assemble DEF CutListener
<1>33. ASSUME NEW s \in Sessions, NEW l \in Users, FeedListener(s, l)
       PROVE  TypeOK'
  <2>1. ReqOK'
    BY <1>33, <1>k DEF FeedListener
  <2> QED BY <1>33, <1>t, <2>1, AtType, Assemble DEF FeedListener
<1>34. ASSUME Restart PROVE TypeOK'
  <2>1. ReqOK'
    BY <1>34, IdleType DEF Restart, ReqOK
  <2> QED BY <1>34, <1>t, <2>1, Assemble DEF Restart
<1>35. CASE UNCHANGED vars
  BY <1>35 DEF vars, TypeOK
<1> QED
  BY <1>1, <1>2, <1>3, <1>4, <1>5, <1>6, <1>7, <1>8, <1>9, <1>10, <1>11,
     <1>12, <1>13, <1>14, <1>15, <1>16, <1>17, <1>18, <1>19, <1>20, <1>21,
     <1>22, <1>23, <1>24, <1>25, <1>26, <1>27, <1>28, <1>29, <1>30, <1>31,
     <1>32, <1>33, <1>34, <1>35 DEF Next

(* Every table keeps its type, and a handler that acts on an account has   *)
(* one to act on.                                                          *)
THEOREM TypeCorrect == Spec => []TypeOK
BY TypeInit, TypeNext, PTL DEF Spec

----------------------------------------------------------------------------
(* What the steps do to the rows *)

LEMMA HistoryMoves ==
  ASSUME [Next]_vars
  PROVE  UNCHANGED vars \/ Observed
BY DEF Next, SendRequest, CheckEdge, InsertRequest, AcceptRequest, MintCode,
       RevokeCodes, ExpireCode, RedeemCode, CheckBlocked, AcceptByCode,
       RemoveFriend, BlockUser, Part, UntunePeer, RemoveRows, InsertBlock,
       UnblockUser, StartListenAlong, TuneIn, StopListenAlong, AskSession,
       VerifySession, DropSession, Show, Hide, SetOther, KeepShown, KeepHidden,
       UpdateHandoff, FanOut, TellFriend, ReadListeners, Sift, CutListener,
       FeedListener, Restart

Moves(x, y) ==
  \/ edge' \in {Requested(edge, x, y), Accepted(edge, x, y)}
     /\ UNCHANGED copies
  \/ edge' = Removed(edge, x, y) /\ copies' = Forgotten(x, y)
  \/ edge' = [edge EXCEPT ![<<x, y>>] = "blocked"] /\ UNCHANGED copies
  \/ /\ edge[<<x, y>>] = "blocked"
     /\ edge' = [edge EXCEPT ![<<x, y>>] = "none"] /\ UNCHANGED copies

(* The six ways a row changes; the other steps leave every row alone. *)
LEMMA EdgeMoves ==
  ASSUME TypeOK, [Next]_vars
  PROVE  UNCHANGED edge \/ \E x, y \in Users : Moves(x, y)
<1>a. \A s \in Sessions : Account[s] \in Users
  BY SocialAssumption
<1>1. ASSUME NEW s \in Sessions, InsertRequest(s)
      PROVE  \E x, y \in Users : Moves(x, y)
  BY <1>1, EndsType DEF InsertRequest, At, Moves
<1>2. ASSUME NEW s \in Sessions, AcceptByCode(s)
      PROVE  \E x, y \in Users : Moves(x, y)
  BY <1>2, EndsType DEF AcceptByCode, At, Moves
<1>3. ASSUME NEW s \in Sessions, NEW u \in Users, AcceptRequest(s, u)
      PROVE  \E x, y \in Users : Moves(x, y)
  BY <1>3, <1>a DEF AcceptRequest, Moves
<1>p. ASSUME NEW s \in Sessions, req[s].op \in {"remove", "block"}
      PROVE  req[s].peer \in Users
  BY <1>p DEF TypeOK, Aimed
<1>4. ASSUME NEW s \in Sessions, RemoveRows(s)
      PROVE  \E x, y \in Users : Moves(x, y)
  BY <1>4, <1>a, <1>p DEF RemoveRows, At, Moves
<1>5. ASSUME NEW s \in Sessions, InsertBlock(s)
      PROVE  \E x, y \in Users : Moves(x, y)
  BY <1>5, <1>a, <1>p DEF InsertBlock, At, Moves
<1>6. ASSUME NEW s \in Sessions, NEW u \in Users, UnblockUser(s, u)
      PROVE  UNCHANGED edge \/ \E x, y \in Users : Moves(x, y)
  BY <1>6, <1>a DEF UnblockUser, Moves
<1> QED
  BY <1>1, <1>2, <1>3, <1>4, <1>5, <1>6
  DEF Next, vars, tables, SendRequest, CheckEdge, MintCode, RevokeCodes,
      ExpireCode, RedeemCode, CheckBlocked, RemoveFriend, BlockUser, Part,
      UntunePeer, StartListenAlong, TuneIn, StopListenAlong, AskSession,
      VerifySession, DropSession, Show, Hide, SetOther, KeepShown, KeepHidden,
      UpdateHandoff, FanOut, TellFriend, ReadListeners, Sift, CutListener,
      FeedListener, Restart

(* Every block there is has been noted. *)
BlocksNoted ==
  \A a, b \in Users :
    edge[<<a, b>>] = "blocked" => {<<a, b>>, <<b, a>>} \subseteq seen.blocked

LEMMA BlocksGrow ==
  ASSUME TypeOK, BlocksNoted, [Next]_vars
  PROVE  seen.blocked \subseteq seen'.blocked /\ BlocksNoted'
<1>1. CASE UNCHANGED vars
  BY <1>1 DEF vars, BlocksNoted
<1>2. ASSUME Observed
      PROVE  seen.blocked \subseteq seen'.blocked /\ BlocksNoted'
  BY <1>2 DEF Observed, BlocksNoted, TypeOK
<1> QED BY <1>1, <1>2, HistoryMoves

----------------------------------------------------------------------------
(* Friendships are mutual *)

LEMMA MutualNext ==
  ASSUME TypeOK, BlocksNoted, FriendshipMutual, [Next]_vars
  PROVE  FriendshipMutual'
<1>1. seen.blocked \subseteq seen'.blocked /\ BlocksNoted'
  BY BlocksGrow
<1>2. CASE UNCHANGED edge
  BY <1>1, <1>2 DEF FriendshipMutual
<1>3. ASSUME NEW x \in Users, NEW y \in Users, Moves(x, y)
      PROVE  FriendshipMutual'
  <2> SUFFICES ASSUME NEW a \in Users, NEW b \in Users,
                      edge'[<<a, b>>] = "accepted",
                      <<a, b>> \notin seen'.blocked
               PROVE  edge'[<<b, a>>] = "accepted"
    BY DEF FriendshipMutual
  <2>t. edge \in [Users \X Users -> EdgeStates]
    BY DEF TypeOK
  <2>m. edge[<<a, b>>] = "accepted" => edge[<<b, a>>] = "accepted"
    BY <1>1 DEF FriendshipMutual
  <2>1. CASE edge' = Requested(edge, x, y)
    BY <2>1, <2>t, <2>m DEF Requested
  <2>2. CASE edge' = Accepted(edge, x, y)
    BY <2>2, <2>t, <2>m DEF Accepted
  <2>3. CASE edge' = Removed(edge, x, y)
    BY <2>3, <2>t, <2>m DEF Removed
  <2>4. CASE edge' = [edge EXCEPT ![<<x, y>>] = "blocked"]
    <3>1. edge'[<<x, y>>] = "blocked"
      BY <2>4, <2>t
    <3>2. <<x, y>> # <<b, a>>
      BY <3>1, <1>1 DEF BlocksNoted
    <3> QED BY <2>4, <2>t, <2>m, <3>1, <3>2
  <2>5. CASE /\ edge[<<x, y>>] = "blocked"
             /\ edge' = [edge EXCEPT ![<<x, y>>] = "none"]
    BY <1>1, <2>5, <2>t, <2>m DEF BlocksNoted
  <2> QED BY <1>3, <2>1, <2>2, <2>3, <2>4, <2>5 DEF Moves
<1> QED BY <1>2, <1>3, EdgeMoves

LEMMA RowsInit == Init => BlocksNoted /\ FriendshipMutual
<1> SUFFICES ASSUME Init PROVE BlocksNoted /\ FriendshipMutual
  OBVIOUS
<1>1. PICK F : edge = [p \in Users \X Users |->
                         IF {p[1], p[2]} \in F THEN "accepted" ELSE "none"]
  BY DEF Init
<1>2. \A a, b \in Users :
        edge[<<a, b>>] = IF {a, b} \in F THEN "accepted" ELSE "none"
  BY <1>1
<1>3. \A a, b \in Users : {a, b} = {b, a}
  OBVIOUS
<1> QED BY <1>2, <1>3 DEF BlocksNoted, FriendshipMutual

(* A friendship no block has interfered with is held from both sides. *)
THEOREM Mutual == Spec => []FriendshipMutual
<1>1. TypeOK /\ BlocksNoted /\ FriendshipMutual /\ [Next]_vars
        => BlocksNoted' /\ FriendshipMutual'
  BY BlocksGrow, MutualNext
<1> QED BY <1>1, RowsInit, TypeCorrect, PTL DEF Spec

----------------------------------------------------------------------------
(* Sealed copies go with the friendship *)

(* A step that touches the rows leaves the copies, or parts two accounts.  *)
LEMMA CopiesOfMoves ==
  ASSUME TypeOK, BlocksNoted, CopiesWithinFriendship,
         NEW x \in Users, NEW y \in Users, Moves(x, y),
         seen.blocked \subseteq seen'.blocked, BlocksNoted',
         NEW a \in Users, NEW b \in Users, b \in copies'[a],
         <<a, b>> \notin seen.loose, <<a, b>> \notin seen'.blocked
  PROVE  StateOf(edge', a, b) = "accepted"
<1>t. /\ edge \in [Users \X Users -> EdgeStates]
      /\ copies \in [Users -> SUBSET Users]
  BY DEF TypeOK
<1>m. b \in copies[a] => StateOf(edge, a, b) = "accepted"
  BY DEF CopiesWithinFriendship, AreFriends, FriendState
<1>n. {edge'[<<a, b>>], edge'[<<b, a>>], edge[<<a, b>>], edge[<<b, a>>]}
        \cap {"blocked"} = {}
  BY DEF BlocksNoted
<1>1. CASE edge' = Requested(edge, x, y) /\ UNCHANGED copies
  BY <1>1, <1>t, <1>m, <1>n DEF Requested, StateOf
<1>2. CASE edge' = Accepted(edge, x, y) /\ UNCHANGED copies
  BY <1>2, <1>t, <1>m, <1>n DEF Accepted, StateOf
<1>3. CASE edge' = Removed(edge, x, y) /\ copies' = Forgotten(x, y)
  <2>1. b \in copies[a] /\ {a, b} # {x, y}
    BY <1>3, <1>t DEF Forgotten
  <2>2. edge'[<<a, b>>] = edge[<<a, b>>] /\ edge'[<<b, a>>] = edge[<<b, a>>]
    BY <1>3, <1>t, <2>1 DEF Removed
  <2> QED BY <2>1, <2>2, <1>m DEF StateOf
<1>4. CASE edge' = [edge EXCEPT ![<<x, y>>] = "blocked"] /\ UNCHANGED copies
  BY <1>4, <1>t, <1>m, <1>n DEF StateOf
<1>5. CASE /\ edge[<<x, y>>] = "blocked"
           /\ edge' = [edge EXCEPT ![<<x, y>>] = "none"] /\ UNCHANGED copies
  BY <1>5, <1>t, <1>m, <1>n DEF StateOf
<1> QED BY <1>1, <1>2, <1>3, <1>4, <1>5 DEF Moves

LEMMA CopiesNext ==
  ASSUME TypeOK, BlocksNoted, CopiesWithinFriendship, [Next]_vars
  PROVE  CopiesWithinFriendship'
<1>1. seen.blocked \subseteq seen'.blocked /\ BlocksNoted'
  BY BlocksGrow
<1>2. CASE UNCHANGED vars
  BY <1>2 DEF vars, CopiesWithinFriendship, AreFriends, FriendState
<1>3. ASSUME Observed
      PROVE  CopiesWithinFriendship'
  <2> SUFFICES ASSUME NEW a \in Users, NEW b \in Users, b \in copies'[a],
                      <<a, b>> \notin seen'.loose \cup seen'.blocked
               PROVE  StateOf(edge', a, b) = "accepted"
    BY DEF CopiesWithinFriendship, AreFriends, FriendState
  <2> SUFFICES ASSUME StateOf(edge', a, b) # "accepted" PROVE FALSE
    OBVIOUS
  <2>1. b \in copies[a] /\ <<a, b>> \notin seen.loose
    BY <1>3 DEF Observed
  <2>2. StateOf(edge, a, b) = "accepted"
    BY <1>1, <2>1 DEF CopiesWithinFriendship, AreFriends, FriendState
  <2>3. CASE UNCHANGED edge
    BY <2>2, <2>3
  <2>4. ASSUME NEW x \in Users, NEW y \in Users, Moves(x, y) PROVE FALSE
    BY <1>1, <2>1, <2>4, CopiesOfMoves
  <2> QED BY <2>3, <2>4, EdgeMoves
<1> QED BY <1>2, <1>3, HistoryMoves

(* Sealed presence does not outlive the friendship it was sealed for. *)
THEOREM CopiesGoWithFriendship == Spec => []CopiesWithinFriendship
<1>1. Init => BlocksNoted /\ CopiesWithinFriendship
  BY RowsInit DEF Init, CopiesWithinFriendship
<1>2. TypeOK /\ BlocksNoted /\ CopiesWithinFriendship /\ [Next]_vars
        => BlocksNoted' /\ CopiesWithinFriendship'
  BY BlocksGrow, CopiesNext
<1> QED BY <1>1, <1>2, TypeCorrect, PTL DEF Spec

----------------------------------------------------------------------------
(* Codes *)

LEMMA CodesNext ==
  ASSUME TypeOK, CodesSpentOnce, [Next]_vars
  PROVE  CodesSpentOnce'
<1>t. /\ code \in [Codes -> CodeRows]
      /\ \A s \in Sessions : Account[s] \in Users
  BY SocialAssumption DEF TypeOK
<1>d. ASSUME NEW u \in Users, NEW c \in Codes
      PROVE  /\ WithoutCodesOf(u)[c].uses = code[c].uses
             /\ WithoutCodesOf(u)[c].owner = code[c].owner
             /\ WithoutCodesOf(u)[c].state = "live"
                  => code[c].state = "live" /\ code[c].owner # u
  <2>1. code[c] \in CodeRows
    BY <1>t
  <2>2. CASE code[c] = NoCode
    BY <2>2 DEF WithoutCodesOf, NoCode
  <2>3. CASE code[c] # NoCode
    BY <2>1, <2>3 DEF WithoutCodesOf, CodeRows
  <2> QED BY <2>2, <2>3
<1>1. ASSUME NEW s \in Sessions, NEW c \in Codes, MintCode(s, c)
      PROVE  CodesSpentOnce'
  <2>1. \A d \in Codes \ {c} : code'[d] = WithoutCodesOf(Account[s])[d]
    BY <1>1 DEF MintCode, WithoutCodesOf
  <2>2. code'[c] = [state |-> "live", owner |-> Account[s], uses |-> 0]
    BY <1>1 DEF MintCode, WithoutCodesOf
  <2> QED BY <1>t, <1>d, <2>1, <2>2 DEF CodesSpentOnce
<1>2. ASSUME NEW s \in Sessions, RevokeCodes(s) PROVE CodesSpentOnce'
  BY <1>2, <1>t, <1>d DEF RevokeCodes, CodesSpentOnce
<1>f. ASSUME NEW c \in Codes, Claimable(c)
      PROVE  code[c] \in [state : {"live", "expired", "deleted"},
                          owner : Users, uses : Nat]
  BY <1>f, <1>t DEF Claimable, CodeRows, NoCode
<1>3. ASSUME NEW c \in Codes, ExpireCode(c) PROVE CodesSpentOnce'
  BY <1>3, <1>t, <1>f DEF ExpireCode, CodesSpentOnce
<1>4. ASSUME NEW s \in Sessions, NEW c \in Codes, RedeemCode(s, c)
      PROVE  CodesSpentOnce'
  BY <1>4, <1>t, <1>f DEF RedeemCode, Claimable, CodesSpentOnce
<1>5. CASE UNCHANGED code
  BY <1>5 DEF CodesSpentOnce
<1> QED
  BY <1>1, <1>2, <1>3, <1>4, <1>5
  DEF Next, vars, tables, SendRequest, CheckEdge, InsertRequest,
      AcceptRequest, CheckBlocked, AcceptByCode, RemoveFriend, BlockUser,
      Part, UntunePeer, RemoveRows, InsertBlock, UnblockUser,
      StartListenAlong, TuneIn, StopListenAlong, AskSession, VerifySession,
      DropSession, Show, Hide, SetOther, KeepShown, KeepHidden, UpdateHandoff,
      FanOut, TellFriend,
      ReadListeners, Sift, CutListener, FeedListener, Restart

(* However many scan it at once, a code is spent once, and minting a code  *)
(* kills the one before it.                                                *)
THEOREM CodesAreSpentOnce == Spec => []CodesSpentOnce
<1>1. Init => CodesSpentOnce
  BY DEF Init, CodesSpentOnce, NoCode
<1> QED BY <1>1, CodesNext, TypeCorrect, PTL DEF Spec

----------------------------------------------------------------------------
(* Blocks *)

(* A request, an acceptance or a code of anyone but the blocker leaves the *)
(* block, whatever happened between that handler's checks and its write.   *)
THEOREM BlocksStand == Spec => BlockStands
<1>1. ASSUME TypeOK, NEW s \in Sessions,
             InsertRequest(s) \/ AcceptByCode(s)
               \/ (\E u \in Users : AcceptRequest(s, u)),
             NEW a \in Users \ {Account[s]}, NEW b \in Users,
             edge[<<a, b>>] = "blocked"
      PROVE  edge'[<<a, b>>] = "blocked"
  <2>t. edge \in [Users \X Users -> EdgeStates] /\ Account[s] \in Users
    BY <1>1, SocialAssumption DEF TypeOK
  <2>1. CASE InsertRequest(s)
    BY <2>1, <2>t, <1>1, EndsType DEF InsertRequest, At, Requested
  <2>2. CASE AcceptByCode(s)
    <3>1. From(s) \in Users /\ To(s) = Account[s]
      BY <2>2, <1>1, EndsType DEF AcceptByCode, At, To
    <3> QED BY <2>2, <2>t, <1>1, <3>1 DEF AcceptByCode, Accepted
  <2>3. ASSUME NEW u \in Users, AcceptRequest(s, u)
        PROVE  edge'[<<a, b>>] = "blocked"
    BY <2>3, <2>t, <1>1 DEF AcceptRequest, Accepted
  <2> QED BY <1>1, <2>1, <2>2, <2>3
<1>2. TypeOK /\ [Next]_vars =>
        [\A s \in Sessions :
           InsertRequest(s) \/ AcceptByCode(s)
             \/ (\E u \in Users : AcceptRequest(s, u))
           => \A a \in Users \ {Account[s]}, b \in Users :
                edge[<<a, b>>] = "blocked" => edge'[<<a, b>>] = "blocked"]_vars
  BY <1>1
<1> QED BY <1>2, TypeCorrect, PTL DEF Spec, BlockStands

----------------------------------------------------------------------------
(* Frames *)

(* Whom a fan-out under way is about to reach has been a friend since it   *)
(* began.                                                                  *)
FeedsKnown ==
  \A s \in Sessions : req[s].op = "publish" =>
    /\ req[s].allowed \subseteq seen.met[s]
    /\ req[s].at = "tell" => \A u \in req[s].todo :
         u \in seen.met[s] \/ <<Account[s], u>> \in seen.blocked

LEMMA GoMoves ==
  ASSUME TypeOK, NEW s \in Sessions, NEW r, Go(s, r), NEW t \in Sessions
  PROVE  req'[t] = IF t = s THEN r ELSE req[t]
BY DEF TypeOK, Go

LEMMA IdleMoves ==
  ASSUME TypeOK, NEW s \in Sessions, NEW t \in Sessions, Finish(s)
  PROVE  req'[t] = req[t] \/ req'[t].op # "publish"
BY GoMoves DEF Finish, Idle

LEMMA OnMoves ==
  ASSUME TypeOK, NEW s \in Sessions, NEW t \in Sessions, NEW at, On(s, at),
         req[s].op # "publish"
  PROVE  req'[t] = req[t] \/ req'[t].op # "publish"
<1>1. req[s] \in Requests
  BY DEF TypeOK
<1>2. [req[s] EXCEPT !.at = at].op = req[s].op
  BY <1>1 DEF Requests
<1> DEFINE r == [req[s] EXCEPT !.at = at]
<1>3. Go(s, r) /\ r.op # "publish"
  BY <1>2 DEF On
<1> HIDE DEF r
<1> QED BY <1>3, GoMoves

LEMMA CallMoves ==
  ASSUME TypeOK, NEW s \in Sessions, NEW t \in Sessions,
         NEW op, NEW at, NEW u, Go(s, Call(op, at, u)), op # "publish"
  PROVE  req'[t] = req[t] \/ req'[t].op # "publish"
<1> DEFINE r == Call(op, at, u)
<1>1. r.op # "publish"
  BY DEF Call, Idle
<1> HIDE DEF r
<1>2. Go(s, r)
  BY DEF r
<1> QED BY <1>1, <1>2, GoMoves

FanOutStep(t) ==
  \/ UpdateHandoff(t) \/ FanOut(t) \/ ReadListeners(t)
  \/ \E u \in Users : TellFriend(t, u) \/ Sift(t, u) \/ FeedListener(t, u)

(* Only its own session moves a fan-out. *)
LEMMA FanOutMoves ==
  ASSUME TypeOK, [Next]_vars, NEW t \in Sessions, req'[t].op = "publish"
  PROVE  req'[t] = req[t] \/ FanOutStep(t)
<1>1. ASSUME NEW s \in Sessions, NEW u \in Users,
             SendRequest(s, u) \/ StartListenAlong(s, u)
      PROVE  req'[t] = req[t]
  BY <1>1, CallMoves DEF SendRequest, StartListenAlong
<1>2. ASSUME NEW s \in Sessions, CheckEdge(s) \/ InsertRequest(s)
      PROVE  req'[t] = req[t]
  BY <1>2, OnMoves, IdleMoves DEF CheckEdge, InsertRequest, At
<1>3. ASSUME NEW s \in Sessions, NEW c \in Codes, RedeemCode(s, c)
      PROVE  req'[t] = req[t]
  BY <1>3, CallMoves DEF RedeemCode
<1>4. ASSUME NEW s \in Sessions,
             CheckBlocked(s) \/ AcceptByCode(s) \/ UntunePeer(s)
               \/ RemoveRows(s) \/ InsertBlock(s)
      PROVE  req'[t] = req[t]
  BY <1>4, OnMoves, IdleMoves
  DEF CheckBlocked, AcceptByCode, UntunePeer, RemoveRows, InsertBlock, At
<1>5. ASSUME NEW s \in Sessions, NEW u \in Users,
             RemoveFriend(s, u) \/ BlockUser(s, u)
      PROVE  req'[t] = req[t]
  BY <1>5, CallMoves DEF RemoveFriend, BlockUser, Part
<1>6. ASSUME NEW s \in Sessions, TuneIn(s) \/ VerifySession(s) \/ DropSession(s)
               \/ KeepShown(s)
      PROVE  req'[t] = req[t]
  BY <1>6, OnMoves, IdleMoves
  DEF TuneIn, VerifySession, DropSession, KeepShown, At
<1>7. ASSUME NEW s \in Sessions,
             AskSession(s) \/ Hide(s) \/ SetOther(s) \/ KeepHidden(s)
      PROVE  req'[t] = req[t]
  BY <1>7, CallMoves DEF AskSession, Hide, SetOther, KeepHidden
<1>8. ASSUME NEW s \in Sessions,
             FanOutStep(s) \/ \E u \in Users : CutListener(s, u)
      PROVE  req'[t] = req[t] \/ FanOutStep(t)
  <2>1. ASSUME s # t PROVE req'[t] = req[t]
    <3>1. \E r : Go(s, r)
      <4>1. CASE UpdateHandoff(s) \/ FanOut(s) \/ ReadListeners(s)
        BY <4>1 DEF UpdateHandoff, FanOut, ReadListeners, On, Finish
      <4>2. ASSUME NEW u \in Users, TellFriend(s, u) \/ Sift(s, u)
            PROVE  \E r : Go(s, r)
        BY <4>2 DEF TellFriend, Sift, Finish
      <4>3. ASSUME NEW u \in Users, FeedListener(s, u) \/ CutListener(s, u)
            PROVE  \E r : Go(s, r)
        BY <4>3 DEF FeedListener, CutListener, Reached, Finish
      <4> QED BY <1>8, <4>1, <4>2, <4>3 DEF FanOutStep
    <3> QED BY <2>1, <3>1, GoMoves
  <2>2. ASSUME NEW u \in Users, CutListener(t, u) PROVE FALSE
    <3>1. req[t] \in Requests /\ req[t].op = "hide"
      BY <2>2 DEF TypeOK, CutListener, At
    <3> DEFINE r == [req[t] EXCEPT !.allowed = @ \ {u}]
    <3>2. r.op = "hide"
      BY <3>1 DEF Requests
    <3>3. Finish(t) \/ Go(t, r)
      BY <2>2 DEF CutListener, Reached
    <3> HIDE DEF r
    <3>4. CASE Go(t, r)
      BY <3>2, <3>4, GoMoves
    <3>5. CASE Finish(t)
      BY <3>1, <3>5, IdleMoves
    <3> QED BY <3>3, <3>4, <3>5
  <2> QED BY <1>8, <2>1, <2>2
<1>9. ASSUME Restart PROVE req'[t] = req[t]
  BY <1>9 DEF Restart, Idle
<1> QED
  BY <1>1, <1>2, <1>3, <1>4, <1>5, <1>6, <1>7, <1>8, <1>9
  DEF Next, vars, AcceptRequest, MintCode, RevokeCodes, ExpireCode,
      UnblockUser, StopListenAlong, Show, FanOutStep

LEMMA MetGrows ==
  ASSUME NEW t \in Sessions, Observed,
         req[t].op = "publish", req'[t].op = "publish"
  PROVE  /\ seen.met[t] \subseteq seen'.met[t]
         /\ \A u \in Users : StateOf(edge', Account[t], u) = "accepted"
                               => u \in seen'.met[t]
<1>1. seen'.met[t] = seen.met[t] \cup
        {u \in Users : StateOf(edge', Account[t], u) = "accepted"}
  BY DEF Observed, MetSince
<1> QED BY <1>1

(* A step of the fan-out itself takes up only friends it has met. *)
LEMMA FeedsOfStep ==
  ASSUME TypeOK, FriendshipMutual, FeedsKnown, NEW t \in Sessions,
         FanOutStep(t), req'[t].op = "publish",
         Observed,
         seen.blocked \subseteq seen'.blocked
  PROVE  /\ req'[t].allowed \subseteq seen'.met[t]
         /\ req'[t].at = "tell" => \A u \in req'[t].todo :
              u \in seen'.met[t] \/ <<Account[t], u>> \in seen'.blocked
<1>t. /\ req \in [Sessions -> Requests] /\ req[t] \in Requests
      /\ Account[t] \in Users
  BY SocialAssumption DEF TypeOK
<1>k. req[t].op = "publish" => req[t].allowed \subseteq seen.met[t]
  BY DEF FeedsKnown
<1>i. ASSUME Finish(t) PROVE FALSE
  BY <1>i, <1>t DEF Finish, Go, Idle
<1>1. CASE UpdateHandoff(t)
  <2>1. req'[t] = Call("publish", "friends", Nobody)
    BY <1>1, <1>t DEF UpdateHandoff, Go
  <2> QED BY <2>1 DEF Call, Idle
<1>2. CASE FanOut(t)
  <2>1. req[t].op = "publish" /\ UNCHANGED edge
    BY <1>2 DEF FanOut, At, tables
  <2>2. /\ req'[t].allowed = req[t].allowed
        /\ req'[t].at = "tell" => req'[t].todo = FriendsToTell(Account[t])
    <3>1. \/ req' = [req EXCEPT ![t] = [req[t] EXCEPT !.at = "rows"]]
          \/ req' = [req EXCEPT ![t] = [req[t] EXCEPT !.at = "tell",
                                                     !.todo = FriendsToTell(Account[t])]]
      BY <1>2 DEF FanOut, On, Go
    <3> QED BY <3>1, <1>t DEF Requests
  <2>3. ASSUME NEW u \in FriendsToTell(Account[t]),
               <<Account[t], u>> \notin seen'.blocked
        PROVE  u \in seen'.met[t]
    <3>1. u \in Users /\ edge[<<Account[t], u>>] = "accepted"
      BY <2>3 DEF FriendsToTell, Friends
    <3>2. edge[<<u, Account[t]>>] = "accepted"
      BY <2>3, <3>1, <1>t DEF FriendshipMutual
    <3>3. StateOf(edge', Account[t], u) = "accepted"
      BY <2>1, <3>1, <3>2 DEF StateOf
    <3> QED BY <2>1, <3>1, <3>3, MetGrows
  <2> QED BY <1>k, <2>1, <2>2, <2>3, MetGrows
<1>3. ASSUME NEW l \in Users, TellFriend(t, l)
      PROVE  /\ req'[t].allowed = req[t].allowed
             /\ req[t].op = "publish" /\ req[t].at = "tell"
             /\ req'[t].todo \subseteq req[t].todo
  BY <1>3, <1>t DEF TellFriend, At, Go, Requests
<1>4. CASE \E l \in Users : TellFriend(t, l)
  BY <1>3, <1>4, <1>k, MetGrows DEF FeedsKnown
<1>5. CASE ReadListeners(t)
  <2> DEFINE r == [req[t] EXCEPT !.at = "sift", !.todo = Listeners(Account[t])]
  <2>1. req'[t] = r
    BY <1>5, <1>i, <1>t DEF ReadListeners, Go
  <2>2. r.allowed = req[t].allowed /\ r.at = "sift" /\ r.op = req[t].op
    BY <1>t DEF Requests
  <2> QED BY <2>1, <2>2, <1>k, MetGrows
<1>6. ASSUME NEW l \in Users, Sift(t, l)
      PROVE  req'[t].allowed \subseteq seen'.met[t] /\ req'[t].at # "tell"
  <2> DEFINE kept == IF MayListen(Account[t], l) THEN req[t].allowed \cup {l}
                     ELSE req[t].allowed
             left == req[t].todo \ {l}
             r == [req[t] EXCEPT !.todo = left, !.allowed = kept,
                     !.at = IF left = {} THEN "reach" ELSE "sift"]
  <2>1. r.allowed = kept /\ r.at # "tell" /\ r.op = req[t].op
    <3> HIDE DEF kept, left
    <3> QED BY <1>t DEF Requests
  <2>2. req'[t] = r
    BY <1>6, <1>i, <1>t DEF Sift, Go
  <2>3. req[t].op = "publish" /\ UNCHANGED edge
    BY <1>6, <2>1, <2>2 DEF Sift, tables
  <2>4. MayListen(Account[t], l) => l \in seen'.met[t]
    BY <2>3, MetGrows DEF MayListen, AreFriends, FriendState
  <2>5. kept \subseteq seen'.met[t]
    BY <1>k, <2>3, <2>4, MetGrows
  <2> HIDE DEF r, kept
  <2> QED BY <2>1, <2>2, <2>5
<1>7. ASSUME NEW l \in Users, FeedListener(t, l)
      PROVE  req'[t].allowed \subseteq seen'.met[t] /\ req'[t].at # "tell"
  <2> DEFINE r == [req[t] EXCEPT !.allowed = @ \ {l}]
  <2>1. /\ r.allowed = req[t].allowed \ {l} /\ r.at = req[t].at
        /\ req[t].op = "publish" /\ req[t].at = "reach"
    BY <1>7, <1>t DEF FeedListener, At, Requests
  <2>2. req'[t] = r
    BY <1>7, <1>i, <1>t DEF FeedListener, Reached, Go
  <2> HIDE DEF r
  <2> QED BY <1>k, <2>1, <2>2, MetGrows
<1> QED BY <1>1, <1>2, <1>4, <1>5, <1>6, <1>7 DEF FanOutStep

LEMMA FeedsNext ==
  ASSUME TypeOK, BlocksNoted, FriendshipMutual, FeedsKnown, [Next]_vars
  PROVE  FeedsKnown'
<1>1. seen.blocked \subseteq seen'.blocked
  BY BlocksGrow
<1>2. CASE UNCHANGED vars
  BY <1>2 DEF vars, FeedsKnown
<1>3. ASSUME Observed
      PROVE  FeedsKnown'
  <2> SUFFICES ASSUME NEW t \in Sessions, req'[t].op = "publish"
               PROVE  /\ req'[t].allowed \subseteq seen'.met[t]
                      /\ req'[t].at = "tell" => \A u \in req'[t].todo :
                           \/ u \in seen'.met[t]
                           \/ <<Account[t], u>> \in seen'.blocked
    BY DEF FeedsKnown
  <2>1. CASE req'[t] = req[t]
    BY <2>1, <1>1, <1>3, MetGrows DEF FeedsKnown
  <2>2. CASE FanOutStep(t)
    BY <2>2, <1>1, <1>3, FeedsOfStep
  <2> QED BY <2>1, <2>2, FanOutMoves
<1> QED BY <1>2, <1>3, HistoryMoves

(* What an account plays reaches only those who have been its friends      *)
(* since it was reported.                                                  *)
THEOREM FramesReachFriends == Spec => FramesToFriends
<1>1. Init => BlocksNoted /\ FriendshipMutual /\ FeedsKnown
  <2>1. ASSUME req = [s \in Sessions |-> Idle] PROVE FeedsKnown
    BY <2>1 DEF FeedsKnown, Idle
  <2> QED BY <2>1, RowsInit DEF Init
<1>2. TypeOK /\ BlocksNoted /\ FriendshipMutual /\ FeedsKnown /\ [Next]_vars
        => BlocksNoted' /\ FriendshipMutual' /\ FeedsKnown'
  BY BlocksGrow, MutualNext, FeedsNext
<1>3. ASSUME FeedsKnown, NEW s \in Sessions, NEW u \in Users
      PROVE  /\ FeedListener(s, u) => u \in seen.met[s]
             /\ TellFriend(s, u) =>
                  u \in seen.met[s] \/ <<Account[s], u>> \in seen.blocked
  BY <1>3 DEF FeedsKnown, FeedListener, TellFriend, At
<1>4. FeedsKnown /\ [Next]_vars =>
        [\A s \in Sessions, u \in Users :
           /\ FeedListener(s, u) => u \in seen.met[s]
           /\ TellFriend(s, u) =>
                u \in seen.met[s] \/ <<Account[s], u>> \in seen.blocked]_vars
  BY <1>3
<1> QED BY <1>1, <1>2, <1>4, TypeCorrect, PTL DEF Spec, FramesToFriends

(* All that the friend graph keeps, as the run checks it. *)
THEOREM FriendGraphStaysSound == Spec => []FriendGraphIsSound
<1>1. TypeOK /\ FriendshipMutual /\ CopiesWithinFriendship /\ CodesSpentOnce
        => FriendGraphIsSound
  BY DEF FriendGraphIsSound
<1> QED
  BY <1>1, TypeCorrect, Mutual, CopiesGoWithFriendship, CodesAreSpentOnce, PTL

----------------------------------------------------------------------------
(* Library: what an upload leaves on the disk *)

PutSteps == {"none", "open", "copy", "verify", "shelve", "index", "stage", "record",
          "list", "close"}

IsHandler(p) ==
  p \in [for : Wants \cup {None}, at : PutSteps, off : Nat, sent : Nat, room : {p.room},
         path : {p.path}, answer : {"start", "have", "refused"}]

Content(f, h) ==
  /\ Len(f) <= Size[h]
  /\ \A i \in 1..Len(f) : f[i] \in {<<h, i>>, Wrong(h)}

PartsAreTheirs ==
  \A u \in Uploads :
    part[u] # Absent => /\ session[u].for \in Wants /\ session[u].state # "new"
                        /\ Content(part[u], session[u].for[2])

ClientsKnow ==
  \A w \in Wants :
    client[w].at \in {"told", "sending"} =>
      /\ client[w].up \in Uploads
      /\ session[client[w].up].for = w /\ session[client[w].up].state # "new"

HandlersServe ==
  /\ put \in [Uploads -> {put[u] : u \in Uploads}]
  /\ \A u \in Uploads :
       /\ IsHandler(put[u])
       /\ put[u].at # "none" => /\ put[u].for \in Wants
                                /\ client[put[u].for].at = "sending"
                                /\ client[put[u].for].up = u

Staging(p, f, h, paths) ==
  /\ p.at = "open" => p.sent = 0
  /\ p.at = "copy" => /\ p.off + p.sent <= Size[h]
                      /\ f = Absent \/ Len(f) = p.off + p.sent
  /\ p.at = "verify" => f = Absent \/ Len(f) = Size[h]
  /\ p.at \in {"shelve", "stage"} => f \in {Absent, Whole(h)}
  /\ p.at \in {"shelve", "index"} => p.path \in {Position[h]} \X (Nat \ {0})
  /\ p.at = "index" => p.path \in paths

Transfers ==
  \A u \in Uploads : put[u].at # "none" => Staging(put[u], part[u], put[u].for[2], DOMAIN shelf)

StoredIsWhole ==
  /\ \A h \in Hashes : bin[h] \in {Absent, Whole(h)}
  /\ \A p \in DOMAIN shelf : \E g \in Hashes : Position[g] = p[1] /\ shelf[p] = Whole(g)
  /\ IsFiniteSet(DOMAIN shelf)
  /\ \A h \in Hashes : filed[h] # None => filed[h][1] = Position[h]

LInv == LibraryTypeOK /\ PartsAreTheirs /\ ClientsKnow /\ HandlersServe /\ Transfers /\ StoredIsWhole

----------------------------------------------------------------------------
LEMMA LeastOf ==
  ASSUME NEW S, S \subseteq Nat, S # {}
  PROVE  /\ Min(S) \in S
         /\ \E n \in S : \A m \in S : n <= m
<1>1. PICK n \in S : \A m \in S : ~ (<<m, n>> \in OpToRel(<, Nat))
  BY NatLessThanWellFounded, WFMin
<1>2. \A m \in S : ~ (m < n)
  BY <1>1 DEF OpToRel
<1>3. \A m \in S : n <= m
  BY <1>2
<1>4. QED
  BY <1>3 DEF Min

LEMMA WantsAre ==
  ASSUME NEW w \in Wants
  PROVE  /\ w[1] \in Devices /\ w[2] \in Hashes /\ w = <<w[1], w[2]>>
         /\ Size[w[2]] \in Nat \ {0} /\ By(w) \in Uploaders /\ Position[w[2]] \in Range(Position)
BY LibraryAssumption DEF By, Range

\* A path that is free: the suffixes up to one more than there are files cannot
\* all be taken.
LEMMA PathIsFree ==
  ASSUME LInv, NEW h \in Hashes
  PROVE  UniquePath(h) \in {Position[h]} \X (Nat \ {0})
<1> DEFINE K == Cardinality(DOMAIN shelf)
           free == {n \in 1..K + 1 : <<Position[h], n>> \notin DOMAIN shelf}
<1>1. IsFiniteSet(DOMAIN shelf) /\ K \in Nat
  BY FS_CardinalityType DEF LInv, StoredIsWhole
<1>2. free # {}
  <2> SUFFICES ASSUME free = {} PROVE FALSE
    OBVIOUS
  <2> DEFINE f == [n \in 1..K + 1 |-> <<Position[h], n>>]
  <2>1. f \in [1..K + 1 -> DOMAIN shelf]
    OBVIOUS
  <2>2. IsFiniteSet(1..K + 1) /\ Cardinality(1..K + 1) = K + 1
    BY <1>1, FS_Interval
  <2>3. PICK i, j \in 1..K + 1 : i # j /\ f[i] = f[j]
    <3> HIDE DEF f
    <3>1. K < K + 1
      BY <1>1
    <3>2. QED
      BY <1>1, <2>1, <2>2, <3>1, FS_PigeonHole
  <2>4. f[i] = <<Position[h], i>> /\ f[j] = <<Position[h], j>>
    OBVIOUS
  <2>5. QED
    BY <2>3, <2>4
<1>3. free \subseteq Nat /\ free \subseteq Nat \ {0}
  BY <1>1
<1>4. Min(free) \in free
  <2> HIDE DEF free
  <2> QED
    BY <1>2, <1>3, LeastOf
<1>5. UniquePath(h) = <<Position[h], Min(free)>>
  BY DEF UniquePath
<1>6. QED
  BY <1>3, <1>4, <1>5

LEMMA WholeFile ==
  ASSUME NEW h \in Hashes
  PROVE  /\ Whole(h) \in Files /\ Len(Whole(h)) = Size[h]
         /\ Content(Whole(h), h)
         /\ \A g \in Hashes : Len(Whole(g)) = Size[g]
<1>1. \A g \in Hashes : Size[g] \in Nat
  BY LibraryAssumption
<1>2. \A g \in Hashes : Whole(g) \in Seq(Hashes \X Nat) /\ Len(Whole(g)) = Size[g]
  BY <1>1 DEF Whole
<1>3. \A i \in 1..Size[h] : Whole(h)[i] = <<h, i>>
  BY DEF Whole
<1>4. QED
  BY <1>1, <1>2, <1>3 DEF Content, Files

\* What is known of a handler at work, of its upload and of its part file.
LEMMA AtWork ==
  ASSUME LInv, NEW u \in Uploads, put[u].at # "none"
  PROVE  LET w == put[u].for
             h == w[2]
         IN /\ w \in Wants /\ h \in Hashes /\ Size[h] \in Nat \ {0}
            /\ client[w].at = "sending" /\ client[w].up = u
            /\ session[u].for = w /\ session[u].state # "new"
            /\ part[u] # Absent => part[u] \in Files /\ Content(part[u], h)
            /\ put[u].off \in Nat /\ put[u].sent \in Nat /\ put[u].at \in PutSteps
            /\ put[u].answer \in {"start", "have", "refused"}
            /\ Staging(put[u], part[u], h, DOMAIN shelf)
<1> DEFINE w == put[u].for
<1>1. /\ w \in Wants /\ client[w].at = "sending" /\ client[w].up = u
      /\ IsHandler(put[u])
  BY DEF LInv, HandlersServe
<1>2. put[u].off \in Nat /\ put[u].sent \in Nat /\ put[u].at \in PutSteps
      /\ put[u].answer \in {"start", "have", "refused"}
  BY <1>1 DEF IsHandler
<1>3. session[u].for = w /\ session[u].state # "new"
  BY <1>1 DEF LInv, ClientsKnow
<1>4. w[2] \in Hashes /\ Size[w[2]] \in Nat \ {0}
  BY <1>1, WantsAre
<1>5. part[u] # Absent => part[u] \in Files /\ Content(part[u], w[2])
  BY <1>3 DEF LInv, LibraryTypeOK, PartsAreTheirs
<1>6. Staging(put[u], part[u], w[2], DOMAIN shelf)
  BY DEF LInv, Transfers
<1>7. QED
  BY <1>1, <1>2, <1>3, <1>4, <1>5, <1>6

----------------------------------------------------------------------------
(* How each part of the invariant is kept, whatever the step.              *)

LEMMA PartsKept ==
  ASSUME LInv,
         \A u \in Uploads : part'[u] # Absent =>
           \/ part'[u] = part[u] /\ session'[u].for = session[u].for
              /\ (session[u].state # "new" => session'[u].state # "new")
           \/ session'[u].for \in Wants /\ session'[u].state # "new"
              /\ Content(part'[u], session'[u].for[2])
  PROVE  PartsAreTheirs'
BY DEF LInv, PartsAreTheirs, Uploads, Content, Wrong, Absent

LEMMA ClientsKept ==
  ASSUME LInv,
         \A u \in Uploads : session[u].state # "new" =>
           session'[u].for = session[u].for /\ session'[u].state # "new",
         \A w \in Wants : client'[w].at \in {"told", "sending"} =>
           \/ client[w].at \in {"told", "sending"} /\ client'[w].up = client[w].up
           \/ client'[w].up \in Uploads /\ session'[client'[w].up].for = w
              /\ session'[client'[w].up].state # "new"
  PROVE  ClientsKnow'
BY DEF LInv, ClientsKnow, Uploads

\* A handler starts, goes on or ends, and no other client is told anything.
LEMMA HandlerStarts ==
  ASSUME LInv, NEW u \in Uploads, NEW w \in Wants, NEW p,
         put' = [put EXCEPT ![u] = p], IsHandler(p), p.for = w,
         client[w].at = "told", client[w].up = u,
         client' = [client EXCEPT ![w].at = "sending"]
  PROVE  HandlersServe'
<1>1. client[w] \in [at : {"start", "told", "sending", "have", "refused"},
                     up : {0} \cup Uploads, off : Nat]
  BY DEF LInv, LibraryTypeOK
<1>2. client'[w].at = "sending" /\ client'[w].up = u
  BY <1>1 DEF LInv, LibraryTypeOK
<1>3. put' \in [Uploads -> {put'[v] : v \in Uploads}] /\ put'[u] = p
  BY DEF LInv, HandlersServe
<1>4. ASSUME NEW v \in Uploads, v # u, put[v].at # "none"
      PROVE  put'[v] = put[v] /\ client'[put[v].for] = client[put[v].for]
  BY <1>4 DEF LInv, HandlersServe, LibraryTypeOK
<1>5. \A v \in Uploads : v # u => put'[v] = put[v]
  BY DEF LInv, HandlersServe
<1>6. ASSUME NEW v \in Uploads
      PROVE  /\ IsHandler(put'[v])
             /\ put'[v].at # "none" => /\ put'[v].for \in Wants
                                       /\ client'[put'[v].for].at = "sending"
                                       /\ client'[put'[v].for].up = v
  BY <1>2, <1>3, <1>4, <1>5 DEF LInv, HandlersServe
<1>7. QED
  BY <1>3, <1>6 DEF HandlersServe, IsHandler, Uploads, PutSteps

LEMMA HandlerGoesOn ==
  ASSUME LInv, NEW u \in Uploads, put[u].at # "none", NEW p,
         put' = [put EXCEPT ![u] = p], IsHandler(p), p.for = put[u].for,
         client' = client
  PROVE  HandlersServe'
<1>1. put' \in [Uploads -> {put'[v] : v \in Uploads}] /\ put'[u] = p
  BY DEF LInv, HandlersServe
<1>2. \A v \in Uploads : v # u => put'[v] = put[v]
  BY DEF LInv, HandlersServe
<1>3. ASSUME NEW v \in Uploads
      PROVE  /\ IsHandler(put'[v])
             /\ put'[v].at # "none" => /\ put'[v].for \in Wants
                                       /\ client'[put'[v].for].at = "sending"
                                       /\ client'[put'[v].for].up = v
  BY <1>1, <1>2 DEF LInv, HandlersServe
<1>4. QED
  BY <1>1, <1>3 DEF HandlersServe, IsHandler, Uploads, PutSteps

LEMMA HandlerEnds ==
  ASSUME LInv, NEW u \in Uploads, put[u].at # "none", NEW c,
         put' = [put EXCEPT ![u] = NoHandler],
         client' = [client EXCEPT ![put[u].for] = c]
  PROVE  HandlersServe'
<1>1. put' \in [Uploads -> {put'[v] : v \in Uploads}] /\ put'[u] = NoHandler
  BY DEF LInv, HandlersServe
<1>2. \A v \in Uploads : v # u => put'[v] = put[v]
  BY DEF LInv, HandlersServe
<1>3. ASSUME NEW v \in Uploads, v # u, put[v].at # "none"
      PROVE  client'[put[v].for] = client[put[v].for]
  <2>1. put[v].for # put[u].for
    BY <1>3 DEF LInv, HandlersServe
  <2>2. QED
    BY <1>3, <2>1 DEF LInv, HandlersServe, LibraryTypeOK
<1>4. IsHandler(NoHandler) /\ NoHandler.at = "none"
  BY DEF IsHandler, NoHandler, PutSteps
<1>5. ASSUME NEW v \in Uploads
      PROVE  /\ IsHandler(put'[v])
             /\ put'[v].at # "none" => /\ put'[v].for \in Wants
                                       /\ client'[put'[v].for].at = "sending"
                                       /\ client'[put'[v].for].up = v
  BY <1>1, <1>2, <1>3, <1>4 DEF LInv, HandlersServe
<1>6. QED
  BY <1>1, <1>5 DEF HandlersServe, IsHandler, Uploads, PutSteps

LEMMA ClientAnswered ==
  ASSUME LInv, NEW w \in Wants, client[w].at # "sending", NEW c,
         client' = [client EXCEPT ![w] = c], put' = put
  PROVE  HandlersServe'
BY DEF LInv, HandlersServe, LibraryTypeOK, IsHandler, Uploads, PutSteps

LEMMA TransfersKept ==
  ASSUME LInv, DOMAIN shelf \subseteq DOMAIN shelf',
         \A u \in Uploads :
           \/ put'[u].at = "none"
           \/ put'[u] = put[u] /\ part'[u] \in {part[u], Absent}
           \/ Staging(put'[u], part'[u], put'[u].for[2], DOMAIN shelf')
  PROVE  Transfers'
<1>1. ASSUME NEW p, NEW f, NEW h, NEW s, NEW t, s \subseteq t, Staging(p, f, h, s)
      PROVE  Staging(p, f, h, t) /\ Staging(p, Absent, h, t)
  BY <1>1 DEF Staging, Absent
<1>2. \A u \in Uploads : put[u].at # "none" => Staging(put[u], part[u], put[u].for[2], DOMAIN shelf)
  BY DEF LInv, Transfers
<1>3. \A u \in Uploads : put'[u].at # "none" => Staging(put'[u], part'[u], put'[u].for[2], DOMAIN shelf')
  BY <1>1, <1>2
<1>4. QED
  BY <1>3 DEF Transfers, Uploads, Staging, Absent, Whole

\* PutSteps that touch no file, no client, no handler and no path.
LEMMA ElsewhereKept ==
  ASSUME LInv, UNCHANGED <<client, session, part, put, shelf, bin, filed>>
  PROVE  (PartsAreTheirs /\ ClientsKnow /\ HandlersServe /\ Transfers /\ StoredIsWhole)'
BY DEF LInv, PartsAreTheirs, ClientsKnow, HandlersServe, Transfers, StoredIsWhole,
       Uploads, Content, Wrong, Absent, IsHandler, PutSteps, Staging, Whole

----------------------------------------------------------------------------
(* Declaring a file. *)

LEMMA NextUploadIs ==
  ASSUME NEW u \in Uploads, session[u].state = "new"
  PROVE  NextUpload \in Uploads /\ session[NextUpload].state = "new"
<1> DEFINE new == {v \in Uploads : session[v].state = "new"}
<1>1. new \subseteq Nat /\ new # {}
  BY DEF Uploads
<1>2. PICK v \in new : \A m \in new : v <= m
  <2> HIDE DEF new
  <2> QED
    BY <1>1, LeastOf
<1>3. v \in Uploads /\ session[v].state = "new" /\ v \in Nat
  BY <1>2 DEF Uploads
<1>4. \A m \in 1..v - 1 : m \in Uploads /\ ~ (v <= m)
  BY <1>3, LibraryAssumption DEF Uploads
<1>5. \A m \in 1..v - 1 : session[m].state # "new"
  BY <1>2, <1>4
<1>6. QED
  BY <1>3, <1>5 DEF NextUpload

LEMMA ResumeAt ==
  ASSUME LInv, NEW w \in Wants, NEW u \in Resumable(w)
  PROVE  ResumeOffset(u) \in Nat /\ ResumeOffset(u) <= Size[w[2]]
<1>1. u \in Uploads /\ session[u].for = w /\ session[u].received \in Nat
  BY DEF Resumable, LInv, LibraryTypeOK
<1>2. Size[w[2]] \in Nat
  BY WantsAre
<1>3. Length(part[u]) \in Nat /\ Length(part[u]) <= Size[w[2]]
  <2>1. CASE part[u] = Absent
    BY <1>2, <2>1 DEF Length
  <2>2. CASE part[u] # Absent
    <3>1. part[u] \in Files /\ Content(part[u], w[2])
      BY <1>1, <2>2 DEF LInv, LibraryTypeOK, PartsAreTheirs
    <3>2. QED
      BY <2>2, <3>1 DEF Length, Content, Files
  <2>3. QED
    BY <2>1, <2>2
<1>4. QED
  BY <1>1, <1>2, <1>3 DEF ResumeOffset

LEMMA BeginKeeps ==
  ASSUME LInv, NEW w \in Wants, BeginUpload(w)
  PROVE  LInv'
<1> DEFINE h == w[2]
           told(u, off) == [at |-> "told", up |-> u, off |-> off]
           answered(answer) == [Start EXCEPT !.at = answer]
<1>1. /\ client[w].at = "start" /\ indexed' = indexed \cup {h} /\ holds' = holds \cup {w}
      /\ UNCHANGED <<part, put, filed, shelf, spool, stale, bin, faults>>
  BY DEF BeginUpload
<1>2. h \in Hashes /\ Size[h] \in Nat
  BY WantsAre
<1>3. PICK c :
              /\ client' = [client EXCEPT ![w] = c]
              /\ c \in [at : {"start", "told", "sending", "have", "refused"},
                       up : {0} \cup Uploads, off : Nat]
              /\ c.off <= Size[h]
              /\ \/ UNCHANGED session
                 \/ /\ NextUpload \in Uploads /\ session[NextUpload].state = "new"
                    /\ session' = [session EXCEPT ![NextUpload] =
                                     [for |-> w, received |-> 0, state |-> "live"]]
              /\ c.at \in {"told", "sending"} =>
                   /\ c.up \in Uploads
                   /\ session'[c.up].for = w /\ session'[c.up].state # "new"
  <2>1. CASE \E answer \in {"have", "refused"} : Answered(w, answer) /\ UNCHANGED session
    <3>1. PICK answer \in {"have", "refused"} :
            client' = [client EXCEPT ![w] = answered(answer)] /\ UNCHANGED session
      BY <2>1 DEF Answered
    <3>2. /\ answered(answer) \in [at : {"start", "told", "sending", "have", "refused"},
                                  up : {0} \cup Uploads, off : Nat]
          /\ answered(answer).off = 0 /\ answered(answer).at = answer
      BY DEF Start
    <3>3. 0 <= Size[h] /\ answer \notin {"told", "sending"}
      BY <1>2
    <3> HIDE DEF answered
    <3>4. QED
      BY <3>1, <3>2, <3>3
  <2>2. CASE \E u \in Resumable(w) : Told(w, u, ResumeOffset(u)) /\ UNCHANGED session
    <3>1. PICK u \in Resumable(w) :
            client' = [client EXCEPT ![w] = told(u, ResumeOffset(u))] /\ UNCHANGED session
      BY <2>2 DEF Told
    <3>2. ResumeOffset(u) \in Nat /\ ResumeOffset(u) <= Size[h]
      BY ResumeAt
    <3>3. u \in Uploads /\ session[u].for = w /\ session[u].state = "live"
      BY DEF Resumable
    <3>4. /\ told(u, ResumeOffset(u)) \in
               [at : {"start", "told", "sending", "have", "refused"},
                up : {0} \cup Uploads, off : Nat]
          /\ told(u, ResumeOffset(u)).off = ResumeOffset(u)
          /\ told(u, ResumeOffset(u)).up = u
      BY <3>2, <3>3
    <3>5. session'[u].for = w /\ session'[u].state # "new"
      BY <3>1, <3>3
    <3> HIDE DEF told
    <3>6. QED
      BY <3>1, <3>2, <3>3, <3>4, <3>5
  <2>3. CASE /\ \E u \in Uploads : session[u].state = "new"
             /\ session' = [session EXCEPT ![NextUpload] =
                              [for |-> w, received |-> 0, state |-> "live"]]
             /\ Told(w, NextUpload, 0)
    <3>1. NextUpload \in Uploads /\ session[NextUpload].state = "new"
      BY <2>3, NextUploadIs
    <3>2. session'[NextUpload] = [for |-> w, received |-> 0, state |-> "live"]
      BY <2>3, <3>1 DEF LInv, LibraryTypeOK
    <3>3. client' = [client EXCEPT ![w] = told(NextUpload, 0)]
      BY <2>3 DEF Told
    <3>4. /\ told(NextUpload, 0) \in
               [at : {"start", "told", "sending", "have", "refused"},
                up : {0} \cup Uploads, off : Nat]
          /\ told(NextUpload, 0).off = 0 /\ told(NextUpload, 0).up = NextUpload
      BY <3>1
    <3>5. session'[NextUpload].for = w /\ session'[NextUpload].state # "new"
          /\ 0 <= Size[h]
      BY <1>2, <3>2
    <3> HIDE DEF told
    <3>6. QED
      BY <2>3, <3>1, <3>3, <3>4, <3>5
  <2>4. QED
    BY <2>1, <2>2, <2>3 DEF BeginUpload
<1>4. client'[w] = c /\ \A v \in Wants : v # w => client'[v] = client[v]
  BY <1>3 DEF LInv, LibraryTypeOK
<1>5. /\ session' \in [Uploads -> [for : Wants \cup {None}, received : Nat,
                                   state : {"new", "live", "expired", "gone"}]]
      /\ \A u \in Uploads : session[u].state # "new" =>
           session'[u].for = session[u].for /\ session'[u].state # "new"
  <2>1. \/ UNCHANGED session
        \/ /\ NextUpload \in Uploads /\ session[NextUpload].state = "new"
           /\ session' = [session EXCEPT ![NextUpload] =
                            [for |-> w, received |-> 0, state |-> "live"]]
    BY <1>3
  <2>2. session \in [Uploads -> [for : Wants \cup {None}, received : Nat,
                                state : {"new", "live", "expired", "gone"}]]
    BY DEF LInv, LibraryTypeOK
  <2>3. QED
    BY <2>1, <2>2
<1>6. LibraryTypeOK'
  <2>1. client' \in [Wants -> [at : {"start", "told", "sending", "have", "refused"},
                               up : {0} \cup Uploads, off : Nat]]
        /\ \A v \in Wants : client'[v].off <= Size[v[2]]
    BY <1>3, <1>4 DEF LInv, LibraryTypeOK
  <2>2. indexed' \subseteq Hashes /\ holds' \subseteq Wants
        /\ \A g \in Hashes : filed'[g] # None => g \in indexed'
    BY <1>1, <1>2 DEF LInv, LibraryTypeOK
  <2>3. QED
    BY <1>1, <1>5, <2>1, <2>2 DEF LInv, LibraryTypeOK, Uploads, Absent, Files, Paths, Spooled
<1>7. PartsAreTheirs'
  BY <1>1, <1>5, PartsKept DEF LInv, PartsAreTheirs
<1>8. ClientsKnow'
  BY <1>3, <1>4, <1>5, ClientsKept
<1>9. HandlersServe'
  BY <1>1, <1>3, ClientAnswered
<1>10. Transfers'
  BY <1>1, TransfersKept
<1>11. StoredIsWhole'
  BY <1>1 DEF LInv, StoredIsWhole, Absent, Whole
<1>12. QED
  BY <1>6, <1>7, <1>8, <1>9, <1>10, <1>11 DEF LInv

----------------------------------------------------------------------------
(* Sending bytes. *)

ClientRecord == [at : {"start", "told", "sending", "have", "refused"},
                 up : {0} \cup Uploads, off : Nat]

\* One client is told something.
LEMMA ClientTold ==
  ASSUME LInv, NEW w \in Wants, NEW c \in ClientRecord, c.off <= Size[w[2]],
         client' = [client EXCEPT ![w] = c]
  PROVE  /\ client' \in [Wants -> ClientRecord]
         /\ \A v \in Wants : client'[v].off <= Size[v[2]]
         /\ client'[w] = c
         /\ \A v \in Wants : v # w => client'[v] = client[v]
BY DEF LInv, LibraryTypeOK, ClientRecord

LEMMA AnswerIs ==
  ASSUME NEW answer \in {"start", "have", "refused"}, NEW w \in Wants
  PROVE  /\ [Start EXCEPT !.at = answer] \in ClientRecord
         /\ [Start EXCEPT !.at = answer].off <= Size[w[2]]
         /\ [Start EXCEPT !.at = answer].at = answer
<1>1. Size[w[2]] \in Nat
  BY WantsAre
<1>2. QED
  BY <1>1 DEF Start, ClientRecord

LEMMA EndsWith ==
  ASSUME LInv, NEW u \in Uploads, put[u].at # "none",
         NEW answer \in {"start", "have", "refused"}, Ended(u, answer)
  PROVE  /\ client' \in [Wants -> ClientRecord]
         /\ \A w \in Wants : client'[w].off <= Size[w[2]]
         /\ \A w \in Wants : client'[w].at \in {"told", "sending"} =>
              client[w].at \in {"told", "sending"} /\ client'[w].up = client[w].up
         /\ \A v \in Uploads : put'[v].at = "none" \/ put'[v] = put[v]
         /\ HandlersServe'
<1> DEFINE w == put[u].for
           c == [Start EXCEPT !.at = answer]
<1>1. w \in Wants
  BY AtWork
<1>2. client' = [client EXCEPT ![w] = c] /\ put' = [put EXCEPT ![u] = NoHandler]
  BY DEF Ended, Answered
<1>3. c \in ClientRecord /\ c.off <= Size[w[2]] /\ c.at \notin {"told", "sending"}
  BY <1>1, AnswerIs
<1>4. /\ client' \in [Wants -> ClientRecord]
      /\ \A v \in Wants : client'[v].off <= Size[v[2]]
      /\ client'[w] = c /\ \A v \in Wants : v # w => client'[v] = client[v]
  <2> HIDE DEF c, w
  <2> QED
    BY <1>1, <1>2, <1>3, ClientTold
<1>5. HandlersServe'
  <2> HIDE DEF c
  <2> QED
    BY <1>2, HandlerEnds
<1>6. \A v \in Uploads : put'[v].at = "none" \/ put'[v] = put[v]
  BY <1>2 DEF LInv, HandlersServe, NoHandler
<1>7. QED
  BY <1>3, <1>4, <1>5, <1>6

\* A handler with another step, and with another answer.
LEMMA HandlerWith ==
  ASSUME NEW p, IsHandler(p), NEW a \in PutSteps, NEW r, NEW q,
         NEW answer \in {"start", "have", "refused"}
  PROVE  /\ IsHandler([p EXCEPT !.at = a])
         /\ IsHandler([p EXCEPT !.at = a, !.answer = answer])
         /\ IsHandler([p EXCEPT !.at = a, !.room = r])
         /\ IsHandler([p EXCEPT !.at = a, !.path = q])
BY DEF IsHandler

LEMMA PutKeeps ==
  ASSUME LInv, NEW w \in Wants, PutUpload(w)
  PROVE  LInv'
<1> DEFINE u == client[w].up
<1>1. /\ client[w].at = "told"
      /\ UNCHANGED <<session, part, indexed, filed, shelf, spool, stale, bin, holds, faults>>
  BY DEF PutUpload
<1>2. /\ u \in Uploads /\ session[u].for = w /\ session[u].state # "new"
      /\ client[w] \in ClientRecord /\ client[w].off <= Size[w[2]]
  BY <1>1 DEF LInv, ClientsKnow, LibraryTypeOK, ClientRecord
<1>3. CASE ~Stored(u)
  <2> DEFINE c == [Start EXCEPT !.at = "start"]
  <2>1. client' = [client EXCEPT ![w] = c] /\ put' = put
    BY <1>3 DEF PutUpload, Answered
  <2>2. c \in ClientRecord /\ c.off <= Size[w[2]] /\ c.at = "start"
    BY AnswerIs
  <2> HIDE DEF c
  <2>3. /\ client' \in [Wants -> ClientRecord]
        /\ \A v \in Wants : client'[v].off <= Size[v[2]]
        /\ client'[w] = c /\ \A v \in Wants : v # w => client'[v] = client[v]
    BY <2>1, <2>2, ClientTold
  <2>4. LibraryTypeOK'
    BY <1>1, <2>3 DEF LInv, LibraryTypeOK, ClientRecord, Uploads, Absent, Files, Paths, Spooled
  <2>5. PartsAreTheirs'
    BY <1>1, PartsKept
  <2>6. ClientsKnow'
    BY <1>1, <2>2, <2>3, ClientsKept
  <2>7. HandlersServe'
    BY <1>1, <2>1, ClientAnswered
  <2>8. Transfers'
    BY <1>1, <2>1, TransfersKept
  <2>9. StoredIsWhole'
    BY <1>1 DEF LInv, StoredIsWhole, Absent, Whole
  <2>10. QED
    BY <2>4, <2>5, <2>6, <2>7, <2>8, <2>9 DEF LInv
<1>4. CASE Stored(u)
  <2> DEFINE p == [NoHandler EXCEPT !.for = w, !.at = "open", !.off = client[w].off]
             c == [client[w] EXCEPT !.at = "sending"]
  <2>1. client' = [client EXCEPT ![w] = c] /\ put' = [put EXCEPT ![u] = p]
        /\ client' = [client EXCEPT ![w].at = "sending"]
    BY <1>4 DEF PutUpload
  <2>2. c \in ClientRecord /\ c.off <= Size[w[2]] /\ c.at = "sending" /\ c.up = u
    BY <1>2 DEF ClientRecord
  <2>3. IsHandler(p) /\ p.for = w /\ p.at = "open" /\ p.sent = 0
    BY <1>2 DEF IsHandler, NoHandler, ClientRecord, PutSteps
  <2> HIDE DEF c, p
  <2>4. /\ client' \in [Wants -> ClientRecord]
        /\ \A v \in Wants : client'[v].off <= Size[v[2]]
        /\ client'[w] = c /\ \A v \in Wants : v # w => client'[v] = client[v]
    BY <2>1, <2>2, ClientTold
  <2>5. LibraryTypeOK'
    BY <1>1, <2>4 DEF LInv, LibraryTypeOK, ClientRecord, Uploads, Absent, Files, Paths, Spooled
  <2>6. PartsAreTheirs'
    BY <1>1, PartsKept
  <2>7. ClientsKnow'
    BY <1>1, <2>2, <2>4, ClientsKept
  <2>8. HandlersServe'
    BY <1>1, <1>2, <2>1, <2>3, HandlerStarts
  <2>9. Transfers'
    <3>1. put'[u] = p /\ \A v \in Uploads : v # u => put'[v] = put[v]
      BY <1>2, <2>1 DEF LInv, HandlersServe
    <3>2. Staging(p, part'[u], p.for[2], DOMAIN shelf')
      BY <2>3 DEF Staging
    <3>3. QED
      BY <1>1, <3>1, <3>2, TransfersKept
  <2>10. StoredIsWhole'
    BY <1>1 DEF LInv, StoredIsWhole, Absent, Whole
  <2>11. QED
    BY <2>5, <2>6, <2>7, <2>8, <2>9, <2>10 DEF LInv
<1>5. QED
  BY <1>3, <1>4

\* A handler works on its part file and nothing else is touched that the
\* invariant speaks of.
LEMMA WorkKeeps ==
  ASSUME LInv, NEW u \in Uploads, put[u].at # "none", NEW p, NEW f,
         IsHandler(p), p.for = put[u].for,
         f = Absent \/ (f \in Files /\ Content(f, put[u].for[2])),
         put' = [put EXCEPT ![u] = p], part' = [part EXCEPT ![u] = f],
         UNCHANGED <<client, session>>, DOMAIN shelf \subseteq DOMAIN shelf',
         Staging(p, f, put[u].for[2], DOMAIN shelf')
  PROVE  /\ part' \in [Uploads -> {Absent} \cup Files]
         /\ (PartsAreTheirs /\ ClientsKnow /\ HandlersServe /\ Transfers)'
<1> DEFINE w == put[u].for
<1>1. /\ w \in Wants /\ session[u].for = w /\ session[u].state # "new"
      /\ part \in [Uploads -> {Absent} \cup Files]
  BY AtWork DEF LInv, LibraryTypeOK
<1>2. part'[u] = f /\ \A v \in Uploads : v # u => part'[v] = part[v]
  BY <1>1
<1>3. put'[u] = p /\ \A v \in Uploads : v # u => put'[v] = put[v]
  BY DEF LInv, HandlersServe
<1>4. PartsAreTheirs'
  BY <1>1, <1>2, PartsKept
<1>5. ClientsKnow'
  BY ClientsKept
<1>6. HandlersServe'
  BY HandlerGoesOn
<1>7. Transfers'
  BY <1>2, <1>3, TransfersKept
<1>8. QED
  BY <1>1, <1>2, <1>4, <1>5, <1>6, <1>7

LEMMA OpenKeeps ==
  ASSUME LInv, NEW u \in Uploads, OpenPart(u)
  PROVE  LInv'
<1> DEFINE w == put[u].for
           h == w[2]
<1>1. /\ put[u].at = "open" /\ put[u].at # "none"
      /\ UNCHANGED <<session, indexed, filed, shelf, spool, stale, bin, holds, faults>>
  BY DEF OpenPart
<1>2. /\ w \in Wants /\ h \in Hashes /\ Size[h] \in Nat
      /\ part[u] # Absent => part[u] \in Files /\ Content(part[u], h)
      /\ put[u].off \in Nat /\ put[u].sent \in Nat /\ IsHandler(put[u])
  BY <1>1, AtWork DEF LInv, HandlersServe
<1>3. StoredIsWhole'
  BY <1>1 DEF LInv, StoredIsWhole, Absent, Whole
<1>4. CASE put[u].off > Length(part[u])
  <2>1. Ended(u, "start") /\ UNCHANGED part
    BY <1>4 DEF OpenPart
  <2>2. /\ client' \in [Wants -> ClientRecord]
        /\ \A v \in Wants : client'[v].off <= Size[v[2]]
        /\ \A v \in Wants : client'[v].at \in {"told", "sending"} =>
             client[v].at \in {"told", "sending"} /\ client'[v].up = client[v].up
        /\ \A v \in Uploads : put'[v].at = "none" \/ put'[v] = put[v]
        /\ HandlersServe'
    BY <1>1, <2>1, EndsWith
  <2>3. LibraryTypeOK'
    BY <1>1, <2>1, <2>2 DEF LInv, LibraryTypeOK, ClientRecord, Uploads, Absent, Files, Paths, Spooled
  <2>4. PartsAreTheirs'
    BY <1>1, <2>1, PartsKept
  <2>5. ClientsKnow'
    BY <1>1, <2>2, ClientsKept
  <2>6. Transfers'
    BY <1>1, <2>1, <2>2, TransfersKept
  <2>7. QED
    BY <1>3, <2>2, <2>3, <2>4, <2>5, <2>6 DEF LInv
<1>5. CASE ~(put[u].off > Length(part[u]))
  <2> DEFINE f == IF part[u] = Absent THEN <<>> ELSE SubSeq(part[u], 1, put[u].off)
             p == [put[u] EXCEPT !.at = "copy", !.room = Allowance(u)]
  <2>1. part' = [part EXCEPT ![u] = f] /\ put' = [put EXCEPT ![u] = p] /\ client' = client
    BY <1>5 DEF OpenPart
  <2>2. /\ IsHandler(p) /\ p.for = w /\ p.at = "copy"
        /\ p.off = put[u].off /\ p.sent = put[u].sent
    <3>1. IsHandler(p)
      BY <1>2, HandlerWith DEF PutSteps
    <3>2. QED
      BY <1>2, <3>1 DEF IsHandler
  <2>3. put[u].sent = 0
    BY <1>1 DEF LInv, Transfers, Staging
  <2>4. ASSUME part[u] = Absent
        PROVE  /\ f = Absent \/ (f \in Files /\ Content(f, h))
               /\ Staging(p, f, h, DOMAIN shelf')
    <3>1. put[u].off = 0 /\ f = <<>>
      BY <1>2, <1>5, <2>4 DEF Length
    <3>2. f \in Files /\ Content(f, h) /\ Len(f) = 0
      BY <1>2, <3>1 DEF Content, Files
    <3>3. Staging(p, f, h, DOMAIN shelf')
      BY <1>2, <2>2, <2>3, <3>1, <3>2 DEF Staging, Content
    <3>4. QED
      BY <1>1, <2>1, <2>2, <3>2, <3>3
  <2>5. ASSUME part[u] # Absent
        PROVE  /\ f = Absent \/ (f \in Files /\ Content(f, h))
               /\ Staging(p, f, h, DOMAIN shelf')
    <3>1. /\ part[u] \in Files /\ Content(part[u], h) /\ put[u].off <= Len(part[u])
          /\ f = SubSeq(part[u], 1, put[u].off)
      BY <1>2, <1>5, <2>5 DEF Length, Files
    <3>2. f \in Files /\ Len(f) = put[u].off /\ \A i \in 1..put[u].off : f[i] = part[u][i]
      <4>1. put[u].off \in Nat /\ put[u].off <= Len(part[u])
        BY <1>2, <3>1
      <4> HIDE DEF f
      <4>2. QED
        BY <3>1, <4>1 DEF Files
    <3>3. Content(f, h)
      BY <1>2, <3>1, <3>2 DEF Content, Files
    <3>4. Staging(p, f, h, DOMAIN shelf')
      BY <1>2, <2>2, <2>3, <3>2, <3>3 DEF Staging, Content
    <3>5. QED
      BY <3>2, <3>3, <3>4
  <2>6. /\ f = Absent \/ (f \in Files /\ Content(f, h))
        /\ Staging(p, f, h, DOMAIN shelf')
    BY <2>4, <2>5
  <2> HIDE DEF f, p
  <2>7. /\ part' \in [Uploads -> {Absent} \cup Files]
        /\ (PartsAreTheirs /\ ClientsKnow /\ HandlersServe /\ Transfers)'
    BY <1>1, <2>1, <2>2, <2>6, WorkKeeps
  <2>8. LibraryTypeOK'
    BY <1>1, <2>1, <2>7 DEF LInv, LibraryTypeOK, Uploads, Absent, Files, Paths, Spooled
  <2>9. QED
    BY <1>3, <2>7, <2>8 DEF LInv
<1>6. QED
  BY <1>4, <1>5

LEMMA ChunkKeeps ==
  ASSUME LInv, NEW u \in Uploads, NEW c, Chunk(u, c),
         c \in {<<put[u].for[2], Received(u) + 1>>, Wrong(put[u].for[2])},
         faults' \in 0..MaxFaults
  PROVE  LInv'
<1> DEFINE w == put[u].for
           h == w[2]
           f == IF part[u] = Absent THEN part[u] ELSE Append(part[u], c)
           p == [put[u] EXCEPT !.sent = put[u].sent + 1]
<1>1. /\ put[u].at = "copy" /\ put[u].at # "none" /\ Received(u) < Size[h]
      /\ part' = [part EXCEPT ![u] = f] /\ put' = [put EXCEPT ![u] = p]
      /\ UNCHANGED <<client, session, indexed, filed, shelf, spool, stale, bin, holds>>
  BY DEF Chunk, LInv, LibraryTypeOK
<1>2. /\ w \in Wants /\ h \in Hashes /\ Size[h] \in Nat
      /\ part[u] # Absent => part[u] \in Files /\ Content(part[u], h)
      /\ put[u].off \in Nat /\ put[u].sent \in Nat /\ IsHandler(put[u])
      /\ Staging(put[u], part[u], h, DOMAIN shelf)
  BY <1>1, AtWork DEF LInv, HandlersServe
<1>3. IsHandler(p) /\ p.for = w /\ p.at = "copy" /\ p.off = put[u].off /\ p.sent = put[u].sent + 1
  BY <1>1, <1>2 DEF IsHandler
<1>4. ASSUME part[u] = Absent
      PROVE  /\ f = Absent \/ (f \in Files /\ Content(f, h))
             /\ Staging(p, f, h, DOMAIN shelf')
  <2>1. f = Absent
    BY <1>4
  <2>2. Staging(p, f, h, DOMAIN shelf')
    BY <1>1, <1>2, <1>3, <2>1 DEF Staging, Received
  <2>3. QED
    BY <2>1, <2>2
<1>5. ASSUME part[u] # Absent
      PROVE  /\ f = Absent \/ (f \in Files /\ Content(f, h))
             /\ Staging(p, f, h, DOMAIN shelf')
  <2>1. /\ part[u] \in Files /\ Content(part[u], h) /\ Len(part[u]) = Received(u)
        /\ Received(u) \in Nat /\ f = Append(part[u], c)
    BY <1>1, <1>2, <1>5 DEF Staging, Received
  <2>2. c \in Hashes \X Nat /\ c \in {<<h, Received(u) + 1>>, Wrong(h)}
    BY <1>2, <2>1 DEF Wrong
  <2>3. /\ f \in Files /\ Len(f) = Received(u) + 1
        /\ \A i \in 1..Received(u) : f[i] = part[u][i]
        /\ f[Received(u) + 1] = c
    BY <2>1, <2>2 DEF Files
  <2>4. Content(f, h)
    <3>1. Received(u) + 1 <= Size[h]
      BY <1>1, <1>2, <2>1
    <3>2. ASSUME NEW i \in 1..Len(f) PROVE f[i] \in {<<h, i>>, Wrong(h)}
      <4>1. CASE i = Received(u) + 1
        BY <2>2, <2>3, <4>1
      <4>2. CASE i # Received(u) + 1
        <5>1. i \in 1..Received(u) /\ i \in 1..Len(part[u])
          BY <2>1, <2>3, <4>2
        <5>2. QED
          BY <2>1, <2>3, <5>1 DEF Content
      <4>3. QED
        BY <4>1, <4>2
    <3>3. QED
      BY <2>3, <3>1, <3>2 DEF Content
  <2>5. p.off + p.sent = Received(u) + 1 /\ Received(u) + 1 <= Size[h]
    <3> HIDE DEF f, p
    <3>1. Received(u) + 1 <= Size[h]
      BY <1>1, <1>2, <2>1
    <3>2. p.off + p.sent = Received(u) + 1
      BY <1>2, <1>3 DEF Received
    <3>3. QED
      BY <3>1, <3>2
  <2>6. Staging(p, f, h, DOMAIN shelf')
    <3> HIDE DEF f, p
    <3> QED
      BY <1>3, <2>3, <2>5 DEF Staging
  <2>7. QED
    BY <2>3, <2>4, <2>6
<1>6. /\ f = Absent \/ (f \in Files /\ Content(f, h))
      /\ Staging(p, f, h, DOMAIN shelf')
  BY <1>4, <1>5
<1>7. StoredIsWhole'
  BY <1>1 DEF LInv, StoredIsWhole, Absent, Whole
<1> HIDE DEF f, p
<1>8. /\ part' \in [Uploads -> {Absent} \cup Files]
      /\ (PartsAreTheirs /\ ClientsKnow /\ HandlersServe /\ Transfers)'
  BY <1>1, <1>3, <1>6, WorkKeeps
<1>9. LibraryTypeOK'
  BY <1>1, <1>8 DEF LInv, LibraryTypeOK, Uploads, Absent, Files, Paths, Spooled
<1>10. QED
  BY <1>7, <1>8, <1>9 DEF LInv

\* A handler goes to another step without touching what the invariant speaks of.
LEMMA StepKeeps ==
  ASSUME LInv, NEW u \in Uploads, put[u].at # "none", NEW p,
         IsHandler(p), p.for = put[u].for, put' = [put EXCEPT ![u] = p],
         UNCHANGED <<client, session, part, shelf>>,
         Staging(p, part[u], put[u].for[2], DOMAIN shelf)
  PROVE  (PartsAreTheirs /\ ClientsKnow /\ HandlersServe /\ Transfers)'
<1>1. put'[u] = p /\ \A v \in Uploads : v # u => put'[v] = put[v]
  BY DEF LInv, HandlersServe
<1>2. PartsAreTheirs'
  BY PartsKept
<1>3. ClientsKnow'
  BY ClientsKept
<1>4. HandlersServe'
  BY HandlerGoesOn
<1>5. Transfers'
  <2>1. Staging(p, part'[u], p.for[2], DOMAIN shelf')
    OBVIOUS
  <2>2. QED
    BY <1>1, <2>1, TransfersKept
<1>6. QED
  BY <1>2, <1>3, <1>4, <1>5

\* The record of a handler that goes on, and that nothing is asked of it at the
\* steps whose work is done.
LEMMA GoneTo ==
  ASSUME LInv, NEW u \in Uploads, put[u].at # "none", NEW a \in PutSteps
  PROVE  LET p == [put[u] EXCEPT !.at = a]
         IN /\ Goto(u, a) => put' = [put EXCEPT ![u] = p]
            /\ IsHandler(p) /\ p.for = put[u].for /\ p.at = a
            /\ p.off = put[u].off /\ p.sent = put[u].sent /\ p.path = put[u].path
            /\ a \in {"record", "list"} =>
                 \A f, h, paths : Staging(p, f, h, paths)
<1> DEFINE p == [put[u] EXCEPT !.at = a]
<1>1. IsHandler(put[u]) /\ a \in PutSteps
  BY DEF LInv, HandlersServe
<1>2. IsHandler(p)
  BY <1>1 DEF IsHandler
<1>3. p.for = put[u].for /\ p.at = a /\ p.off = put[u].off /\ p.sent = put[u].sent
      /\ p.path = put[u].path
  BY <1>1 DEF IsHandler
<1>4. Goto(u, a) => put' = [put EXCEPT ![u] = p]
  BY DEF Goto
<1>5. a \in {"record", "list"} => \A f, h, paths : Staging(p, f, h, paths)
  <2> HIDE DEF p
  <2> QED
    BY <1>3 DEF Staging
<1>6. QED
  BY <1>2, <1>3, <1>4, <1>5

LEMMA ClosingIs ==
  ASSUME LInv, NEW u \in Uploads, put[u].at # "none",
         NEW answer \in {"start", "have", "refused"}, Closing(u, answer)
  PROVE  \E p : /\ put' = [put EXCEPT ![u] = p]
                /\ IsHandler(p) /\ p.for = put[u].for
                /\ \A f, h, paths : Staging(p, f, h, paths)
<1> DEFINE p == [put[u] EXCEPT !.at = "close", !.answer = answer]
<1>1. IsHandler(put[u])
  BY DEF LInv, HandlersServe
<1>2. IsHandler(p)
  BY <1>1 DEF IsHandler, PutSteps
<1>3. p.for = put[u].for /\ p.at = "close"
  BY <1>1 DEF IsHandler
<1>4. put' = [put EXCEPT ![u] = p]
  BY DEF Closing
<1>5. \A f, h, paths : Staging(p, f, h, paths)
  <2> HIDE DEF p
  <2> QED
    BY <1>3 DEF Staging
<1>6. QED
  BY <1>2, <1>3, <1>4, <1>5

LEMMA OverrunKeeps ==
  ASSUME LInv, NEW u \in Uploads, Overrun(u)
  PROVE  LInv'
<1>1. /\ put[u].at = "copy" /\ put[u].at # "none" /\ part' = [part EXCEPT ![u] = Absent]
      /\ Closing(u, "refused")
      /\ UNCHANGED <<client, session, indexed, filed, shelf, spool, stale, bin, holds, faults>>
  BY DEF Overrun
<1>2. PICK p : /\ put' = [put EXCEPT ![u] = p]
               /\ IsHandler(p) /\ p.for = put[u].for
               /\ \A f, h, paths : Staging(p, f, h, paths)
  BY <1>1, ClosingIs
<1>3. Staging(p, Absent, put[u].for[2], DOMAIN shelf')
  BY <1>2
<1>4. /\ part' \in [Uploads -> {Absent} \cup Files]
      /\ (PartsAreTheirs /\ ClientsKnow /\ HandlersServe /\ Transfers)'
  BY <1>1, <1>2, <1>3, WorkKeeps
<1>5. LibraryTypeOK'
  BY <1>1, <1>4 DEF LInv, LibraryTypeOK, Uploads, Absent, Files, Paths, Spooled
<1>6. StoredIsWhole'
  BY <1>1 DEF LInv, StoredIsWhole, Absent, Whole
<1>7. QED
  BY <1>4, <1>5, <1>6 DEF LInv

LEMMA FlushKeeps ==
  ASSUME LInv, NEW u \in Uploads, Flush(u)
  PROVE  LInv'
<1> DEFINE w == put[u].for
           h == w[2]
           whole == Received(u) >= Size[h]
<1>1. /\ put[u].at = "copy" /\ put[u].at # "none"
      /\ session' = IF Stored(u) THEN [session EXCEPT ![u].received = Received(u)] ELSE session
      /\ UNCHANGED <<part, indexed, filed, shelf, spool, stale, bin, holds, faults>>
  BY DEF Flush
<1>2. /\ w \in Wants /\ h \in Hashes /\ Size[h] \in Nat
      /\ client[w].at = "sending" /\ client[w].up = u
      /\ session[u].for = w /\ session[u].state # "new"
      /\ put[u].off \in Nat /\ put[u].sent \in Nat
      /\ Staging(put[u], part[u], h, DOMAIN shelf)
  BY <1>1, AtWork
<1>3. Received(u) \in Nat /\ Received(u) <= Size[h]
      /\ (part[u] = Absent \/ Len(part[u]) = Received(u))
  BY <1>1, <1>2 DEF Staging, Received
<1>4. /\ session' \in [Uploads -> [for : Wants \cup {None}, received : Nat,
                                   state : {"new", "live", "expired", "gone"}]]
      /\ \A v \in Uploads : session'[v].for = session[v].for
                            /\ session'[v].state = session[v].state
  <2>1. session \in [Uploads -> [for : Wants \cup {None}, received : Nat,
                                 state : {"new", "live", "expired", "gone"}]]
    BY DEF LInv, LibraryTypeOK
  <2>2. QED
    BY <1>1, <1>3, <2>1
<1>5. StoredIsWhole'
  BY <1>1 DEF LInv, StoredIsWhole, Absent, Whole
<1>6. PartsAreTheirs'
  BY <1>1, <1>4, PartsKept
<1>7. CASE whole
  <2> DEFINE p == [put[u] EXCEPT !.at = "verify"]
  <2>1. Goto(u, "verify") /\ client' = client
    BY <1>7 DEF Flush
  <2>2. put' = [put EXCEPT ![u] = p] /\ IsHandler(p) /\ p.for = w /\ p.at = "verify"
    BY <1>1, <2>1, GoneTo DEF PutSteps
  <2> HIDE DEF p
  <2>3. part[u] = Absent \/ Len(part[u]) = Size[h]
    BY <1>2, <1>3, <1>7
  <2>4. Staging(p, part'[u], p.for[2], DOMAIN shelf')
    BY <1>1, <2>2, <2>3 DEF Staging
  <2>5. put'[u] = p /\ \A v \in Uploads : v # u => put'[v] = put[v]
    BY <2>2 DEF LInv, HandlersServe
  <2>6. HandlersServe'
    BY <1>1, <2>1, <2>2, HandlerGoesOn
  <2>7. ClientsKnow'
    BY <1>4, <2>1, ClientsKept
  <2>8. Transfers'
    BY <1>1, <2>4, <2>5, TransfersKept
  <2>9. LibraryTypeOK'
    BY <1>1, <1>4, <2>1 DEF LInv, LibraryTypeOK, Uploads, Absent, Files, Paths, Spooled
  <2>10. QED
    BY <1>5, <1>6, <2>6, <2>7, <2>8, <2>9 DEF LInv
<1>8. CASE ~whole
  <2> DEFINE c == [at |-> "told", up |-> u, off |-> Received(u)]
  <2>1. put' = [put EXCEPT ![u] = NoHandler] /\ client' = [client EXCEPT ![w] = c]
    BY <1>8 DEF Flush, Told
  <2>2. c \in ClientRecord /\ c.off <= Size[h] /\ c.up = u
    BY <1>3 DEF ClientRecord
  <2> HIDE DEF c
  <2>3. /\ client' \in [Wants -> ClientRecord]
        /\ \A v \in Wants : client'[v].off <= Size[v[2]]
        /\ client'[w] = c /\ \A v \in Wants : v # w => client'[v] = client[v]
    BY <1>2, <2>1, <2>2, ClientTold
  <2>4. HandlersServe'
    BY <1>1, <2>1, HandlerEnds
  <2>5. ClientsKnow'
    BY <1>2, <1>4, <2>2, <2>3, ClientsKept
  <2>6. \A v \in Uploads : put'[v].at = "none" \/ put'[v] = put[v]
    BY <2>1 DEF LInv, HandlersServe, NoHandler
  <2>7. Transfers'
    BY <1>1, <2>6, TransfersKept
  <2>8. LibraryTypeOK'
    BY <1>1, <1>4, <2>3 DEF LInv, LibraryTypeOK, ClientRecord, Uploads, Absent, Files, Paths, Spooled
  <2>9. QED
    BY <1>5, <1>6, <2>4, <2>5, <2>7, <2>8 DEF LInv
<1>9. QED
  BY <1>7, <1>8

----------------------------------------------------------------------------
(* Filing and staging what was verified. *)

LEMMA VerifyKeeps ==
  ASSUME LInv, NEW u \in Uploads, Verify(u)
  PROVE  LInv'
<1> DEFINE h == put[u].for[2]
<1>1. /\ put[u].at = "verify" /\ put[u].at # "none"
      /\ UNCHANGED <<session, indexed, filed, shelf, spool, stale, bin, holds, faults>>
  BY DEF Verify
<1>2. h \in Hashes
  BY <1>1, AtWork
<1>3. StoredIsWhole'
  BY <1>1 DEF LInv, StoredIsWhole, Absent, Whole
<1>4. CASE ~Stored(u) \/ part[u] = Absent
  <2>1. Ended(u, "start") /\ UNCHANGED part
    BY <1>4 DEF Verify
  <2>2. /\ client' \in [Wants -> ClientRecord]
        /\ \A v \in Wants : client'[v].off <= Size[v[2]]
        /\ \A v \in Wants : client'[v].at \in {"told", "sending"} =>
             client[v].at \in {"told", "sending"} /\ client'[v].up = client[v].up
        /\ \A v \in Uploads : put'[v].at = "none" \/ put'[v] = put[v]
        /\ HandlersServe'
    BY <1>1, <2>1, EndsWith
  <2>3. LibraryTypeOK'
    BY <1>1, <2>1, <2>2 DEF LInv, LibraryTypeOK, ClientRecord, Uploads, Absent, Files, Paths, Spooled
  <2>4. PartsAreTheirs'
    BY <1>1, <2>1, PartsKept
  <2>5. ClientsKnow'
    BY <1>1, <2>2, ClientsKept
  <2>6. Transfers'
    BY <1>1, <2>1, <2>2, TransfersKept
  <2>7. QED
    BY <1>3, <2>2, <2>3, <2>4, <2>5, <2>6 DEF LInv
<1>5. CASE ~(~Stored(u) \/ part[u] = Absent) /\ part[u] # Whole(h)
  <2>1. part' = [part EXCEPT ![u] = Absent] /\ Closing(u, "start") /\ client' = client
    BY <1>5 DEF Verify
  <2>2. PICK p : /\ put' = [put EXCEPT ![u] = p]
                 /\ IsHandler(p) /\ p.for = put[u].for
                 /\ \A f, g, paths : Staging(p, f, g, paths)
    BY <1>1, <2>1, ClosingIs
  <2>3. Staging(p, Absent, h, DOMAIN shelf')
    BY <2>2
  <2>4. /\ part' \in [Uploads -> {Absent} \cup Files]
        /\ (PartsAreTheirs /\ ClientsKnow /\ HandlersServe /\ Transfers)'
    BY <1>1, <2>1, <2>2, <2>3, WorkKeeps
  <2>5. LibraryTypeOK'
    BY <1>1, <2>1, <2>4 DEF LInv, LibraryTypeOK, Uploads, Absent, Files, Paths, Spooled
  <2>6. QED
    BY <1>3, <2>4, <2>5 DEF LInv
<1>6. CASE ~(~Stored(u) \/ part[u] = Absent) /\ part[u] = Whole(h)
  <2>1. /\ IF By(put[u].for) \in Archivers
           THEN put' = [put EXCEPT ![u].at = "shelve", ![u].path = UniquePath(h)]
           ELSE Goto(u, "stage")
        /\ UNCHANGED <<client, part>>
    BY <1>6 DEF Verify
  <2>2. PICK p : /\ put' = [put EXCEPT ![u] = p]
                 /\ IsHandler(p) /\ p.for = put[u].for
                 /\ \/ p.at = "shelve" /\ p.path = UniquePath(h)
                    \/ p.at = "stage"
    <3>1. CASE By(put[u].for) \in Archivers
      <4> DEFINE p == [put[u] EXCEPT !.at = "shelve", !.path = UniquePath(h)]
      <4>1. put' = [put EXCEPT ![u] = p]
        BY <2>1, <3>1
      <4>2. IsHandler(put[u])
        BY DEF LInv, HandlersServe
      <4>3. IsHandler(p) /\ p.for = put[u].for /\ p.at = "shelve" /\ p.path = UniquePath(h)
        BY <4>2 DEF IsHandler, PutSteps
      <4> HIDE DEF p
      <4>4. QED
        BY <4>1, <4>3
    <3>2. CASE By(put[u].for) \notin Archivers
      <4> DEFINE p == [put[u] EXCEPT !.at = "stage"]
      <4>1. Goto(u, "stage")
        BY <2>1, <3>2
      <4>2. put' = [put EXCEPT ![u] = p] /\ IsHandler(p) /\ p.for = put[u].for
            /\ p.at = "stage"
        BY <1>1, <4>1, GoneTo DEF PutSteps
      <4> HIDE DEF p
      <4>3. QED
        BY <4>2
    <3>3. QED
      BY <3>1, <3>2
  <2>3. UniquePath(h) \in {Position[h]} \X (Nat \ {0})
    BY <1>2, PathIsFree
  <2>4. Staging(p, part[u], h, DOMAIN shelf)
    BY <1>6, <2>2, <2>3 DEF Staging
  <2>5. (PartsAreTheirs /\ ClientsKnow /\ HandlersServe /\ Transfers)'
    BY <1>1, <2>1, <2>2, <2>4, StepKeeps
  <2>6. LibraryTypeOK'
    BY <1>1, <2>1 DEF LInv, LibraryTypeOK, Uploads, Absent, Files, Paths, Spooled
  <2>7. QED
    BY <1>3, <2>5, <2>6 DEF LInv
<1>7. QED
  BY <1>4, <1>5, <1>6

LEMMA ShelveKeeps ==
  ASSUME LInv, NEW u \in Uploads, Shelve(u)
  PROVE  LInv'
<1> DEFINE h == put[u].for[2]
           path == put[u].path
<1>1. /\ put[u].at = "shelve" /\ put[u].at # "none"
      /\ UNCHANGED <<client, session, indexed, filed, spool, stale, bin, holds, faults>>
  BY DEF Shelve
<1>2. /\ put[u].for \in Wants /\ h \in Hashes
      /\ part[u] # Absent => part[u] \in Files
      /\ Staging(put[u], part[u], h, DOMAIN shelf)
  BY <1>1, AtWork
<1>3. part[u] \in {Absent, Whole(h)} /\ path \in {Position[h]} \X (Nat \ {0})
  BY <1>1, <1>2 DEF Staging
<1>4. CASE part[u] = Absent
  <2>1. Closing(u, "start") /\ UNCHANGED <<part, shelf>>
    BY <1>4 DEF Shelve
  <2>2. PICK p : /\ put' = [put EXCEPT ![u] = p]
                 /\ IsHandler(p) /\ p.for = put[u].for
                 /\ \A f, g, paths : Staging(p, f, g, paths)
    BY <1>1, <2>1, ClosingIs
  <2>3. (PartsAreTheirs /\ ClientsKnow /\ HandlersServe /\ Transfers)'
    BY <1>1, <2>1, <2>2, StepKeeps
  <2>4. LibraryTypeOK'
    BY <1>1, <2>1 DEF LInv, LibraryTypeOK, Uploads, Absent, Files, Paths, Spooled
  <2>5. StoredIsWhole'
    BY <1>1, <2>1 DEF LInv, StoredIsWhole, Absent, Whole
  <2>6. QED
    BY <2>3, <2>4, <2>5 DEF LInv
<1>5. CASE part[u] # Absent
  <2> DEFINE p == [put[u] EXCEPT !.at = "index"]
             files == [q \in DOMAIN shelf \cup {path} |->
                         IF q = path THEN part[u] ELSE shelf[q]]
  <2>1. Goto(u, "index") /\ part' = [part EXCEPT ![u] = Absent] /\ shelf' = files
    BY <1>5 DEF Shelve
  <2>2. /\ put' = [put EXCEPT ![u] = p] /\ IsHandler(p) /\ p.for = put[u].for
        /\ p.at = "index" /\ p.path = path
    BY <1>1, <2>1, GoneTo DEF PutSteps
  <2> HIDE DEF p
  <2>3. /\ DOMAIN shelf' = DOMAIN shelf \cup {path}
        /\ \A q \in DOMAIN shelf' : shelf'[q] = IF q = path THEN part[u] ELSE shelf[q]
    BY <2>1
  <2>4. Staging(p, Absent, h, DOMAIN shelf')
    BY <1>3, <2>2, <2>3 DEF Staging
  <2>5. /\ part' \in [Uploads -> {Absent} \cup Files]
        /\ (PartsAreTheirs /\ ClientsKnow /\ HandlersServe /\ Transfers)'
    BY <1>1, <2>1, <2>2, <2>3, <2>4, WorkKeeps
  <2>6. path \in Paths /\ part[u] = Whole(h) /\ part[u] \in Files
    <3>1. Position[h] \in Range(Position)
      BY <1>2, WantsAre
    <3>2. QED
      BY <1>2, <1>3, <1>5, <3>1 DEF Paths
  <2>7. shelf' \in [DOMAIN shelf' -> Files] /\ DOMAIN shelf' \subseteq Paths
    BY <2>1, <2>3, <2>6 DEF LInv, LibraryTypeOK
  <2>8. LibraryTypeOK'
    BY <1>1, <2>3, <2>5, <2>7 DEF LInv, LibraryTypeOK, Uploads, Absent, Files, Paths, Spooled
  <2>9. StoredIsWhole'
    <3>1. \A q \in DOMAIN shelf' : \E g \in Hashes : Position[g] = q[1] /\ shelf'[q] = Whole(g)
      <4>1. Position[h] = path[1]
        BY <1>3
      <4>2. QED
        BY <1>2, <2>3, <2>6, <4>1 DEF LInv, StoredIsWhole
    <3>2. IsFiniteSet(DOMAIN shelf')
      BY <2>3, FS_AddElement DEF LInv, StoredIsWhole
    <3>3. QED
      BY <1>1, <3>1, <3>2 DEF LInv, StoredIsWhole, Absent, Whole
  <2>10. QED
    BY <2>5, <2>8, <2>9 DEF LInv
<1>6. QED
  BY <1>4, <1>5

LEMMA IndexKeeps ==
  ASSUME LInv, NEW u \in Uploads, Index(u)
  PROVE  LInv'
<1> DEFINE h == put[u].for[2]
<1>1. /\ put[u].at = "index" /\ put[u].at # "none" /\ Closing(u, "have")
      /\ filed' = IF h \in indexed THEN [filed EXCEPT ![h] = put[u].path] ELSE filed
      /\ UNCHANGED <<client, session, part, indexed, shelf, spool, stale, bin, holds, faults>>
  BY DEF Index
<1>2. h \in Hashes /\ Staging(put[u], part[u], h, DOMAIN shelf)
  BY <1>1, AtWork
<1>3. put[u].path \in DOMAIN shelf /\ put[u].path[1] = Position[h]
  BY <1>1, <1>2 DEF Staging
<1>4. PICK p : /\ put' = [put EXCEPT ![u] = p]
               /\ IsHandler(p) /\ p.for = put[u].for
               /\ \A f, g, paths : Staging(p, f, g, paths)
  BY <1>1, ClosingIs
<1>5. (PartsAreTheirs /\ ClientsKnow /\ HandlersServe /\ Transfers)'
  BY <1>1, <1>4, StepKeeps
<1>6. /\ filed' \in [Hashes -> {None} \cup DOMAIN shelf]
      /\ \A g \in Hashes : filed'[g] # None => g \in indexed /\ filed'[g][1] = Position[g]
  <2>1. /\ filed \in [Hashes -> {None} \cup DOMAIN shelf]
        /\ \A g \in Hashes : filed[g] # None => g \in indexed /\ filed[g][1] = Position[g]
    BY DEF LInv, LibraryTypeOK, StoredIsWhole
  <2>2. CASE h \in indexed
    BY <1>1, <1>2, <1>3, <2>1, <2>2
  <2>3. CASE h \notin indexed
    BY <1>1, <2>1, <2>3
  <2>4. QED
    BY <2>2, <2>3
<1>7. LibraryTypeOK'
  BY <1>1, <1>6 DEF LInv, LibraryTypeOK, Uploads, Absent, Files, Paths, Spooled
<1>8. StoredIsWhole'
  BY <1>1, <1>6 DEF LInv, StoredIsWhole, Absent, Whole
<1>9. QED
  BY <1>5, <1>7, <1>8 DEF LInv

LEMMA StageKeeps ==
  ASSUME LInv, NEW u \in Uploads, Stage(u)
  PROVE  LInv'
<1> DEFINE h == put[u].for[2]
<1>1. /\ put[u].at = "stage" /\ put[u].at # "none"
      /\ UNCHANGED <<client, session, indexed, filed, shelf, spool, stale, holds, faults>>
  BY DEF Stage
<1>2. /\ h \in Hashes
      /\ part[u] # Absent => part[u] \in Files
      /\ Staging(put[u], part[u], h, DOMAIN shelf)
  BY <1>1, AtWork
<1>3. part[u] \in {Absent, Whole(h)}
  BY <1>1, <1>2 DEF Staging
<1>4. CASE part[u] = Absent
  <2>1. Closing(u, "start") /\ UNCHANGED <<part, bin>>
    BY <1>4 DEF Stage
  <2>2. PICK p : /\ put' = [put EXCEPT ![u] = p]
                 /\ IsHandler(p) /\ p.for = put[u].for
                 /\ \A f, g, paths : Staging(p, f, g, paths)
    BY <1>1, <2>1, ClosingIs
  <2>3. (PartsAreTheirs /\ ClientsKnow /\ HandlersServe /\ Transfers)'
    BY <1>1, <2>1, <2>2, StepKeeps
  <2>4. LibraryTypeOK'
    BY <1>1, <2>1 DEF LInv, LibraryTypeOK, Uploads, Absent, Files, Paths, Spooled
  <2>5. StoredIsWhole'
    BY <1>1, <2>1 DEF LInv, StoredIsWhole, Absent, Whole
  <2>6. QED
    BY <2>3, <2>4, <2>5 DEF LInv
<1>5. CASE part[u] # Absent
  <2> DEFINE p == [put[u] EXCEPT !.at = "record"]
  <2>1. /\ Goto(u, "record") /\ part' = [part EXCEPT ![u] = Absent]
        /\ bin' = [bin EXCEPT ![h] = part[u]]
    BY <1>5 DEF Stage
  <2>2. /\ put' = [put EXCEPT ![u] = p] /\ IsHandler(p) /\ p.for = put[u].for
        /\ \A f, g, paths : Staging(p, f, g, paths)
    BY <1>1, <2>1, GoneTo DEF PutSteps
  <2> HIDE DEF p
  <2>3. Staging(p, Absent, h, DOMAIN shelf')
    BY <2>2
  <2>4. /\ part' \in [Uploads -> {Absent} \cup Files]
        /\ (PartsAreTheirs /\ ClientsKnow /\ HandlersServe /\ Transfers)'
    BY <1>1, <2>1, <2>2, <2>3, WorkKeeps
  <2>5. /\ bin' \in [Hashes -> {Absent} \cup Files]
        /\ \A g \in Hashes : bin'[g] \in {Absent, Whole(g)}
    BY <1>2, <1>3, <1>5, <2>1 DEF LInv, LibraryTypeOK, StoredIsWhole
  <2>6. LibraryTypeOK'
    BY <1>1, <2>4, <2>5 DEF LInv, LibraryTypeOK, Uploads, Absent, Files, Paths, Spooled
  <2>7. StoredIsWhole'
    BY <1>1, <2>5 DEF LInv, StoredIsWhole, Absent, Whole
  <2>8. QED
    BY <2>4, <2>6, <2>7 DEF LInv
<1>6. QED
  BY <1>4, <1>5

----------------------------------------------------------------------------
(* The rows of the spool. *)

LEMMA WithoutOne ==
  ASSUME NEW S, NEW s \in Seq(S), NEW n \in 1..Len(s)
  PROVE  /\ RemoveAt(s, n) \in Seq(S) /\ Len(RemoveAt(s, n)) = Len(s) - 1
         /\ \A i \in 1..n - 1 : RemoveAt(s, n)[i] = s[i]
         /\ \A i \in n..Len(s) - 1 : RemoveAt(s, n)[i] = s[i + 1]
<1> DEFINE a == SubSeq(s, 1, n - 1)
           b == SubSeq(s, n + 1, Len(s))
<1>1. n \in Nat /\ Len(s) \in Nat /\ 1 <= n /\ n <= Len(s) /\ \A i \in 1..Len(s) : s[i] \in S
  OBVIOUS
<1>2. a \in Seq(S) /\ Len(a) = n - 1 /\ \A i \in 1..n - 1 : a[i] = s[i]
  <2>1. /\ a \in Seq(S)
        /\ Len(a) = IF 1 <= n - 1 THEN n - 1 - 1 + 1 ELSE 0
        /\ \A i \in 1..n - 1 - 1 + 1 : a[i] = s[1 + i - 1]
    BY <1>1, SubSeqProperties
  <2> HIDE DEF a
  <2>2. QED
    BY <1>1, <2>1
<1>3. b \in Seq(S) /\ Len(b) = Len(s) - n /\ \A i \in 1..Len(s) - n : b[i] = s[n + i]
  <2>1. /\ b \in Seq(S)
        /\ Len(b) = IF n + 1 <= Len(s) THEN Len(s) - (n + 1) + 1 ELSE 0
        /\ \A i \in 1..Len(s) - (n + 1) + 1 : b[i] = s[n + 1 + i - 1]
    BY <1>1, SubSeqProperties
  <2> HIDE DEF b
  <2>2. QED
    BY <1>1, <2>1
<1>4. RemoveAt(s, n) = a \o b
  BY DEF RemoveAt
<1> HIDE DEF a, b
<1>5. /\ a \o b \in Seq(S) /\ Len(a \o b) = Len(a) + Len(b)
      /\ \A i \in 1..Len(a) + Len(b) : (a \o b)[i] = IF i <= Len(a) THEN a[i] ELSE b[i - Len(a)]
  BY <1>2, <1>3, ConcatProperties
<1>6. ASSUME NEW i \in n..Len(s) - 1 PROVE (a \o b)[i] = s[i + 1]
  <2>1. /\ i \in 1..Len(a) + Len(b) /\ ~(i <= Len(a))
        /\ i - Len(a) \in 1..Len(s) - n /\ n + (i - Len(a)) = i + 1
    BY <1>1, <1>2, <1>3
  <2>2. QED
    BY <1>3, <1>5, <2>1
<1>7. ASSUME NEW i \in 1..n - 1 PROVE (a \o b)[i] = s[i]
  BY <1>1, <1>2, <1>3, <1>5
<1>8. Len(a \o b) = Len(s) - 1
  BY <1>1, <1>2, <1>3, <1>5
<1>9. QED
  BY <1>4, <1>5, <1>6, <1>7, <1>8

Row == [hash : Hashes, by : Uploaders]

\* One row per hash, in the order they came, and no stale mark without one.
OneRowEach(s, old) ==
  /\ s \in Seq(Row)
  /\ \A i, j \in 1..Len(s) : i # j => s[i].hash # s[j].hash
  /\ \A h \in old : \E i \in 1..Len(s) : s[i].hash = h

LEMMA SpoolIs ==
  ASSUME LInv
  PROVE  /\ OneRowEach(spool, stale)
         /\ \A h : Spooled(h) <=> \E i \in 1..Len(spool) : spool[i].hash = h
         /\ DOMAIN spool = 1..Len(spool)
<1>1. spool \in Seq(Row)
  BY DEF LInv, LibraryTypeOK, Row
<1>2. DOMAIN spool = 1..Len(spool)
  BY <1>1
<1>3. \A h : Spooled(h) <=> \E i \in 1..Len(spool) : spool[i].hash = h
  BY <1>2 DEF Spooled, Range
<1>4. QED
  BY <1>1, <1>2, <1>3 DEF OneRowEach, LInv, LibraryTypeOK

LEMMA SpoolSound ==
  ASSUME OneRowEach(spool', stale')
  PROVE  /\ spool' \in Seq([hash : Hashes, by : Uploaders])
         /\ \A i, j \in DOMAIN spool' : i # j => spool'[i].hash # spool'[j].hash
         /\ \A h \in stale' : Spooled(h)'
<1>1. spool' \in Seq(Row) /\ DOMAIN spool' = 1..Len(spool')
  BY DEF OneRowEach
<1>2. QED
  BY <1>1 DEF OneRowEach, Spooled, Range, Row

LEMMA SpoolGrows ==
  ASSUME LInv, NEW h \in Hashes, NEW user \in Uploaders, SpoolInsert(h, user)
  PROVE  OneRowEach(spool', stale')
<1> DEFINE row == [hash |-> h, by |-> user]
<1>1. /\ OneRowEach(spool, stale)
      /\ \A g : Spooled(g) <=> \E i \in 1..Len(spool) : spool[i].hash = g
  BY SpoolIs
<1>2. /\ stale' = stale \ {h}
      /\ Spooled(h) => spool' = spool
      /\ ~Spooled(h) => spool' = Append(spool, row)
  BY DEF SpoolInsert
<1>3. CASE Spooled(h)
  BY <1>1, <1>2, <1>3 DEF OneRowEach
<1>4. CASE ~Spooled(h)
  <2>1. row \in Row /\ row.hash = h
    BY DEF Row
  <2>2. spool \in Seq(Row) /\ Len(spool) \in Nat
    BY <1>1 DEF OneRowEach
  <2> HIDE DEF row
  <2>3. /\ spool' \in Seq(Row) /\ Len(spool') = Len(spool) + 1
        /\ \A i \in 1..Len(spool) : spool'[i] = spool[i]
        /\ spool'[Len(spool) + 1] = row
    BY <1>2, <1>4, <2>1, <2>2
  <2>4. \A i \in 1..Len(spool) + 1 : i \in 1..Len(spool) \/ i = Len(spool) + 1
    BY <2>2
  <2>5. \A i \in 1..Len(spool) : spool[i].hash # h
    BY <1>1, <1>4
  <2>6. \A i, j \in 1..Len(spool') : i # j => spool'[i].hash # spool'[j].hash
    BY <1>1, <2>1, <2>3, <2>4, <2>5 DEF OneRowEach
  <2>7. \A g \in stale' : \E i \in 1..Len(spool') : spool'[i].hash = g
    BY <1>1, <1>2, <2>2, <2>3 DEF OneRowEach
  <2>8. QED
    BY <2>3, <2>6, <2>7 DEF OneRowEach
<1>5. QED
  BY <1>3, <1>4

LEMMA RowRemoved ==
  ASSUME NEW s, NEW old, OneRowEach(s, old), NEW n \in 1..Len(s)
  PROVE  OneRowEach(RemoveAt(s, n), old \ {s[n].hash})
<1> DEFINE r == RemoveAt(s, n)
<1>1. s \in Seq(Row) /\ Len(s) \in Nat /\ n \in Nat /\ 1 <= n /\ n <= Len(s)
  BY DEF OneRowEach
<1>2. /\ r \in Seq(Row) /\ Len(r) = Len(s) - 1
      /\ \A i \in 1..n - 1 : r[i] = s[i]
      /\ \A i \in n..Len(s) - 1 : r[i] = s[i + 1]
  BY <1>1, WithoutOne
<1> HIDE DEF r
<1> DEFINE m == [i \in 1..Len(s) - 1 |-> IF i < n THEN i ELSE i + 1]
<1>3. ASSUME NEW i \in 1..Len(r) PROVE m[i] \in 1..Len(s) /\ r[i] = s[m[i]]
  BY <1>1, <1>2
<1>4. \A i, j \in 1..Len(r) : i # j => m[i] # m[j]
  BY <1>1, <1>2
<1>5. ASSUME NEW k \in 1..Len(s), k # n PROVE \E i \in 1..Len(r) : m[i] = k
  <2>1. CASE k < n
    <3>1. k \in 1..Len(r) /\ m[k] = k
      BY <1>1, <1>2, <2>1
    <3>2. QED
      BY <3>1
  <2>2. CASE ~(k < n)
    <3>1. k - 1 \in 1..Len(r) /\ m[k - 1] = k
      BY <1>1, <1>2, <1>5, <2>2
    <3>2. QED
      BY <3>1
  <2>3. QED
    BY <2>1, <2>2
<1> HIDE DEF m
<1>6. ASSUME NEW i \in 1..Len(r), NEW j \in 1..Len(r), i # j PROVE r[i].hash # r[j].hash
  <2>1. /\ m[i] \in 1..Len(s) /\ m[j] \in 1..Len(s) /\ m[i] # m[j]
        /\ r[i] = s[m[i]] /\ r[j] = s[m[j]]
    BY <1>3, <1>4, <1>6
  <2>2. s[m[i]].hash # s[m[j]].hash
    BY <2>1 DEF OneRowEach
  <2>3. QED
    BY <2>1, <2>2
<1>7. ASSUME NEW h \in old \ {s[n].hash} PROVE \E i \in 1..Len(r) : r[i].hash = h
  <2>1. PICK k \in 1..Len(s) : s[k].hash = h
    BY DEF OneRowEach
  <2>2. PICK i \in 1..Len(r) : m[i] = k
    BY <1>5, <2>1
  <2>3. r[i] = s[k]
    BY <1>3, <2>2
  <2>4. QED
    BY <2>1, <2>3
<1>8. QED
  BY <1>2, <1>6, <1>7 DEF OneRowEach, r

LEMMA SpoolShrinks ==
  ASSUME LInv, NEW h, stale' = stale \ {h},
         spool' = IF Spooled(h) THEN RemoveAt(spool, CHOOSE i \in DOMAIN spool : spool[i].hash = h)
                  ELSE spool
  PROVE  OneRowEach(spool', stale')
<1>1. /\ OneRowEach(spool, stale) /\ DOMAIN spool = 1..Len(spool)
      /\ Spooled(h) <=> \E i \in 1..Len(spool) : spool[i].hash = h
  BY SpoolIs
<1>2. CASE ~Spooled(h)
  BY <1>1, <1>2 DEF OneRowEach
<1>3. CASE Spooled(h)
  <2> DEFINE n == CHOOSE i \in DOMAIN spool : spool[i].hash = h
  <2>1. n \in 1..Len(spool) /\ spool[n].hash = h
    BY <1>1, <1>3
  <2>2. spool' = RemoveAt(spool, n)
    BY <1>3
  <2> HIDE DEF n
  <2>3. QED
    BY <1>1, <2>1, <2>2, RowRemoved
<1>4. QED
  BY <1>2, <1>3

LEMMA RecordKeeps ==
  ASSUME LInv, NEW u \in Uploads, Record(u)
  PROVE  LInv'
<1> DEFINE w == put[u].for
           p == [put[u] EXCEPT !.at = "list"]
<1>1. /\ put[u].at = "record" /\ put[u].at # "none" /\ Goto(u, "list")
      /\ SpoolInsert(w[2], By(w))
      /\ UNCHANGED <<client, session, part, indexed, filed, shelf, bin, holds, faults>>
  BY DEF Record
<1>2. w[2] \in Hashes /\ By(w) \in Uploaders
  BY <1>1, AtWork, WantsAre
<1>3. /\ put' = [put EXCEPT ![u] = p] /\ IsHandler(p) /\ p.for = put[u].for
      /\ \A f, g, paths : Staging(p, f, g, paths)
  BY <1>1, GoneTo DEF PutSteps
<1> HIDE DEF p
<1>4. (PartsAreTheirs /\ ClientsKnow /\ HandlersServe /\ Transfers)'
  BY <1>1, <1>3, StepKeeps
<1>5. OneRowEach(spool', stale')
  BY <1>1, <1>2, SpoolGrows
<1>6. LibraryTypeOK'
  BY <1>1, <1>5, SpoolSound DEF LInv, LibraryTypeOK, Uploads, Absent, Files, Paths
<1>7. StoredIsWhole'
  BY <1>1 DEF LInv, StoredIsWhole, Absent, Whole
<1>8. QED
  BY <1>4, <1>6, <1>7 DEF LInv

LEMMA UnplacedKeeps ==
  ASSUME LInv, NEW u \in Uploads, Unplaced(u)
  PROVE  LInv'
<1>1. /\ put[u].at # "none" /\ Closing(u, "start") /\ faults' \in 0..MaxFaults
      /\ UNCHANGED <<client, session, part, indexed, filed, shelf, spool, stale, bin, holds>>
  BY LibraryAssumption DEF Unplaced, Fault, LInv, LibraryTypeOK
<1>2. PICK p : /\ put' = [put EXCEPT ![u] = p]
               /\ IsHandler(p) /\ p.for = put[u].for
               /\ \A f, g, paths : Staging(p, f, g, paths)
  BY <1>1, ClosingIs
<1>3. (PartsAreTheirs /\ ClientsKnow /\ HandlersServe /\ Transfers)'
  BY <1>1, <1>2, StepKeeps
<1>4. LibraryTypeOK'
  BY <1>1 DEF LInv, LibraryTypeOK, Uploads, Absent, Files, Paths, Spooled
<1>5. StoredIsWhole'
  BY <1>1 DEF LInv, StoredIsWhole, Absent, Whole
<1>6. QED
  BY <1>3, <1>4, <1>5 DEF LInv

LEMMA ListKeeps ==
  ASSUME LInv, NEW u \in Uploads, List(u)
  PROVE  LInv'
<1>1. /\ put[u].at # "none" /\ Closing(u, "have")
      /\ UNCHANGED <<client, session, part, indexed, filed, shelf, spool, stale, bin, holds,
                     faults>>
  BY DEF List
<1>2. PICK p : /\ put' = [put EXCEPT ![u] = p]
               /\ IsHandler(p) /\ p.for = put[u].for
               /\ \A f, g, paths : Staging(p, f, g, paths)
  BY <1>1, ClosingIs
<1>3. (PartsAreTheirs /\ ClientsKnow /\ HandlersServe /\ Transfers)'
  BY <1>1, <1>2, StepKeeps
<1>4. LibraryTypeOK'
  BY <1>1 DEF LInv, LibraryTypeOK, Uploads, Absent, Files, Paths, Spooled
<1>5. StoredIsWhole'
  BY <1>1 DEF LInv, StoredIsWhole, Absent, Whole
<1>6. QED
  BY <1>3, <1>4, <1>5 DEF LInv

\* The handler is done, or dropped.
LEMMA EndKeeps ==
  ASSUME LInv, NEW u \in Uploads, put[u].at # "none",
         NEW answer \in {"start", "have", "refused"}, Ended(u, answer),
         session' \in [Uploads -> [for : Wants \cup {None}, received : Nat,
                                   state : {"new", "live", "expired", "gone"}]],
         \A v \in Uploads : session'[v].for = session[v].for
                            /\ (session[v].state # "new" => session'[v].state # "new"),
         faults' \in 0..MaxFaults,
         UNCHANGED <<part, indexed, filed, shelf, spool, stale, bin, holds>>
  PROVE  LInv'
<1>1. /\ client' \in [Wants -> ClientRecord]
      /\ \A v \in Wants : client'[v].off <= Size[v[2]]
      /\ \A v \in Wants : client'[v].at \in {"told", "sending"} =>
           client[v].at \in {"told", "sending"} /\ client'[v].up = client[v].up
      /\ \A v \in Uploads : put'[v].at = "none" \/ put'[v] = put[v]
      /\ HandlersServe'
  BY EndsWith
<1>2. LibraryTypeOK'
  BY <1>1 DEF LInv, LibraryTypeOK, ClientRecord, Uploads, Absent, Files, Paths, Spooled
<1>3. PartsAreTheirs'
  BY PartsKept
<1>4. ClientsKnow'
  BY <1>1, ClientsKept
<1>5. Transfers'
  BY <1>1, TransfersKept
<1>6. StoredIsWhole'
  BY DEF LInv, StoredIsWhole, Absent, Whole
<1>7. QED
  BY <1>1, <1>2, <1>3, <1>4, <1>5, <1>6 DEF LInv

LEMMA CloseKeeps ==
  ASSUME LInv, NEW u \in Uploads, Close(u)
  PROVE  LInv'
<1>1. /\ put[u].at # "none" /\ Ended(u, put[u].answer)
      /\ session' = [session EXCEPT ![u].state = "gone"]
      /\ UNCHANGED <<part, indexed, filed, shelf, spool, stale, bin, holds, faults>>
  BY DEF Close
<1>2. put[u].answer \in {"start", "have", "refused"}
  BY <1>1, AtWork
<1>3. /\ session' \in [Uploads -> [for : Wants \cup {None}, received : Nat,
                                   state : {"new", "live", "expired", "gone"}]]
      /\ \A v \in Uploads : session'[v].for = session[v].for
                            /\ (session[v].state # "new" => session'[v].state # "new")
  <2>1. session \in [Uploads -> [for : Wants \cup {None}, received : Nat,
                                 state : {"new", "live", "expired", "gone"}]]
    BY DEF LInv, LibraryTypeOK
  <2>2. QED
    BY <1>1, <2>1
<1>4. faults' \in 0..MaxFaults
  BY <1>1 DEF LInv, LibraryTypeOK
<1>5. QED
  BY <1>1, <1>2, <1>3, <1>4, EndKeeps

LEMMA DropKeeps ==
  ASSUME LInv, NEW u \in Uploads, Drop(u)
  PROVE  LInv'
<1>1. /\ put[u].at # "none" /\ Ended(u, "start") /\ faults' \in 0..MaxFaults
      /\ UNCHANGED <<session, part, indexed, filed, shelf, spool, stale, bin, holds>>
  BY LibraryAssumption DEF Drop, Fault, LInv, LibraryTypeOK
<1>2. session \in [Uploads -> [for : Wants \cup {None}, received : Nat,
                               state : {"new", "live", "expired", "gone"}]]
  BY DEF LInv, LibraryTypeOK
<1>3. QED
  BY <1>1, <1>2, EndKeeps

----------------------------------------------------------------------------
(* Evictions, the sweep, and what else happens. *)

SessionRecord == [for : Wants \cup {None}, received : Nat,
                  state : {"new", "live", "expired", "gone"}]

\* Files are removed, sessions closed, rows of the spool and of the index come
\* and go: no handler takes part.
LEMMA TablesKeep ==
  ASSUME LInv, UNCHANGED <<client, put, shelf>>,
         session' \in [Uploads -> SessionRecord],
         \A u \in Uploads : session'[u].for = session[u].for
                            /\ (session[u].state # "new" => session'[u].state # "new"),
         part' \in [Uploads -> {Absent} \cup Files],
         \A u \in Uploads : part'[u] \in {part[u], Absent},
         bin' \in [Hashes -> {Absent} \cup Files],
         \A h \in Hashes : bin'[h] \in {bin[h], Absent},
         indexed' \subseteq Hashes,
         filed' \in [Hashes -> {None} \cup DOMAIN shelf],
         \A h \in Hashes : filed'[h] # None => filed'[h] = filed[h] /\ h \in indexed',
         OneRowEach(spool', stale'),
         holds' \subseteq Wants, faults' \in 0..MaxFaults
  PROVE  LInv'
<1>1. LibraryTypeOK'
  BY SpoolSound DEF LInv, LibraryTypeOK, SessionRecord, Uploads, Absent, Files, Paths
<1>2. PartsAreTheirs'
  BY PartsKept
<1>3. ClientsKnow'
  BY ClientsKept
<1>4. HandlersServe'
  BY DEF LInv, HandlersServe, IsHandler, Uploads, PutSteps
<1>5. Transfers'
  BY TransfersKept
<1>6. StoredIsWhole'
  BY DEF LInv, StoredIsWhole, Absent, Whole
<1>7. QED
  BY <1>1, <1>2, <1>3, <1>4, <1>5, <1>6 DEF LInv

\* What TablesKeep asks of the tables a step leaves alone.
LEMMA TablesAre ==
  ASSUME LInv
  PROVE  /\ session \in [Uploads -> SessionRecord]
         /\ part \in [Uploads -> {Absent} \cup Files]
         /\ bin \in [Hashes -> {Absent} \cup Files]
         /\ indexed \subseteq Hashes
         /\ filed \in [Hashes -> {None} \cup DOMAIN shelf]
         /\ \A h \in Hashes : filed[h] # None => h \in indexed
         /\ OneRowEach(spool, stale)
         /\ holds \subseteq Wants /\ faults \in 0..MaxFaults
BY SpoolIs DEF LInv, LibraryTypeOK, SessionRecord

LEMMA FaultIs ==
  ASSUME LInv, Fault
  PROVE  faults' \in 0..MaxFaults
BY LibraryAssumption DEF Fault, LInv, LibraryTypeOK

LEMMA EvictKeeps ==
  ASSUME LInv, NEW e, Evict(e)
  PROVE  LInv'
<1>1. CASE Unlink(e)
  <2>1. /\ bin' = [bin EXCEPT ![Head(evict[e].list)] = Absent]
        /\ UNCHANGED <<client, session, part, put, indexed, filed, shelf, spool, stale, holds,
                       faults>>
    BY <1>1 DEF Unlink
  <2>2. /\ bin' \in [Hashes -> {Absent} \cup Files]
        /\ \A h \in Hashes : bin'[h] \in {bin[h], Absent}
    BY <2>1, TablesAre
  <2>3. QED
    BY <2>1, <2>2, TablesAre, TablesKeep
<1>2. CASE SpoolDelete(e)
  <2> DEFINE h == Head(evict[e].list)
  <2>1. /\ spool' = IF Spooled(h)
                    THEN RemoveAt(spool, CHOOSE i \in DOMAIN spool : spool[i].hash = h)
                    ELSE spool
        /\ stale' = stale \ {h}
        /\ UNCHANGED <<client, session, part, put, indexed, filed, shelf, bin, holds, faults>>
    BY <1>2 DEF SpoolDelete
  <2> HIDE DEF h
  <2>2. OneRowEach(spool', stale')
    BY <2>1, SpoolShrinks
  <2>3. QED
    BY <2>1, <2>2, TablesAre, TablesKeep
<1>3. QED
  BY <1>1, <1>2 DEF Evict

LEMMA SweepKeeps ==
  ASSUME LInv, Sweep
  PROVE  LInv'
<1>1. CASE SweepStart \/ SweepAccount \/ SweepUploads \/ SweepDone
  <2>1. UNCHANGED <<client, session, part, put, indexed, filed, shelf, spool, stale, bin, holds,
                    faults>>
    BY <1>1 DEF SweepStart, SweepAccount, SweepUploads, SweepDone
  <2>2. QED
    BY <2>1, TablesAre, TablesKeep
<1>2. CASE RemovePart
  <2>1. /\ part' = [part EXCEPT ![Min(sweep.ups)] = Absent]
        /\ UNCHANGED <<client, session, put, indexed, filed, shelf, spool, stale, bin, holds,
                       faults>>
    BY <1>2 DEF RemovePart
  <2>2. /\ part' \in [Uploads -> {Absent} \cup Files]
        /\ \A u \in Uploads : part'[u] \in {part[u], Absent}
    BY <2>1, TablesAre
  <2>3. QED
    BY <2>1, <2>2, TablesAre, TablesKeep
<1>3. CASE DeleteUpload
  <2>1. /\ session' = [session EXCEPT ![Min(sweep.ups)].state = "gone"]
        /\ UNCHANGED <<client, part, put, indexed, filed, shelf, spool, stale, bin, holds, faults>>
    BY <1>3 DEF DeleteUpload
  <2>2. /\ session' \in [Uploads -> SessionRecord]
        /\ \A u \in Uploads : session'[u].for = session[u].for
                              /\ (session[u].state # "new" => session'[u].state # "new")
    BY <2>1, TablesAre DEF SessionRecord
  <2>3. QED
    BY <2>1, <2>2, TablesAre, TablesKeep
<1>4. QED
  BY <1>1, <1>2, <1>3 DEF Sweep

LEMMA ExpireKeeps ==
  ASSUME LInv, NEW u \in Uploads, ExpireUpload(u)
  PROVE  LInv'
<1>1. /\ session' = [session EXCEPT ![u].state = "expired"] /\ Fault
      /\ UNCHANGED <<client, part, put, indexed, filed, shelf, spool, stale, bin, holds>>
  BY DEF ExpireUpload
<1>2. /\ session' \in [Uploads -> SessionRecord]
      /\ \A v \in Uploads : session'[v].for = session[v].for
                            /\ (session[v].state # "new" => session'[v].state # "new")
  BY <1>1, TablesAre DEF SessionRecord
<1>3. faults' \in 0..MaxFaults
  BY <1>1, FaultIs
<1>4. QED
  BY <1>1, <1>2, <1>3, TablesAre, TablesKeep

LEMMA ExpireSpooledKeeps ==
  ASSUME LInv, NEW h \in Hashes, ExpireSpooled(h)
  PROVE  LInv'
<1>1. /\ Spooled(h) /\ stale' = stale \cup {h} /\ Fault
      /\ UNCHANGED <<client, session, part, put, indexed, filed, shelf, spool, bin, holds>>
  BY DEF ExpireSpooled
<1>2. OneRowEach(spool', stale')
  BY <1>1, SpoolIs DEF OneRowEach
<1>3. faults' \in 0..MaxFaults
  BY <1>1, FaultIs
<1>4. QED
  BY <1>1, <1>2, <1>3, TablesAre, TablesKeep

LEMMA DeleteKeeps ==
  ASSUME LInv, NEW h \in Hashes, DeleteTrack(h)
  PROVE  LInv'
<1>1. /\ indexed' = indexed \ {h} /\ filed' = [filed EXCEPT ![h] = None] /\ Fault
      /\ holds' = {w \in holds : w[2] # h}
      /\ UNCHANGED <<client, session, part, put, shelf, spool, stale, bin>>
  BY DEF DeleteTrack
<1>2. /\ filed' \in [Hashes -> {None} \cup DOMAIN shelf]
      /\ \A g \in Hashes : filed'[g] # None => filed'[g] = filed[g] /\ g \in indexed'
  BY <1>1, TablesAre
<1>3. faults' \in 0..MaxFaults
  BY <1>1, FaultIs
<1>4. indexed' \subseteq Hashes /\ holds' \subseteq Wants
  BY <1>1, TablesAre
<1>5. QED
  BY <1>1, <1>2, <1>3, <1>4, TablesAre, TablesKeep

LEMMA QuietKeeps ==
  ASSUME LInv, DropSweep \/ (\E d \in Devices, h \in Hashes : Reclaim(d, h))
               \/ UNCHANGED libraryVars
  PROVE  LInv'
<1>1. /\ UNCHANGED <<client, session, part, put, indexed, filed, shelf, spool, stale, bin>>
      /\ holds' \subseteq holds /\ (Fault \/ faults' = faults)
  BY DEF DropSweep, Reclaim, libraryVars
<1>2. holds' \subseteq Wants /\ faults' \in 0..MaxFaults
  BY <1>1, FaultIs, TablesAre
<1>3. QED
  BY <1>1, <1>2, TablesAre, TablesKeep

----------------------------------------------------------------------------
(* The theorems. *)

LEMMA LInvStarts == LibraryInit => LInv
<1> SUFFICES ASSUME LibraryInit PROVE LInv
  OBVIOUS
<1>1. LibraryTypeOK
  <2>1. 0 \in Nat /\ \A w \in Wants : 0 <= Size[w[2]]
    BY WantsAre
  <2>2. Start \in [at : {"start", "told", "sending", "have", "refused"},
                   up : {0} \cup Uploads, off : Nat] /\ Start.off = 0
    BY DEF Start
  <2>3. NoSession \in [for : Wants \cup {None}, received : Nat,
                       state : {"new", "live", "expired", "gone"}]
    BY DEF NoSession
  <2>4. spool \in Seq([hash : Hashes, by : Uploaders]) /\ DOMAIN spool = {}
    BY DEF LibraryInit
  <2>5. 0 \in 0..MaxFaults
    BY LibraryAssumption
  <2>6. client \in [Wants -> [at : {"start", "told", "sending", "have", "refused"},
                              up : {0} \cup Uploads, off : Nat]]
        /\ \A w \in Wants : client[w].off <= Size[w[2]]
    BY <2>1, <2>2 DEF LibraryInit
  <2>7. session \in [Uploads -> [for : Wants \cup {None}, received : Nat,
                                 state : {"new", "live", "expired", "gone"}]]
    BY <2>3 DEF LibraryInit
  <2>8. /\ part \in [Uploads -> {Absent} \cup Files]
        /\ shelf \in [DOMAIN shelf -> Files] /\ DOMAIN shelf = {}
        /\ bin \in [Hashes -> {Absent} \cup Files]
        /\ filed \in [Hashes -> {None} \cup DOMAIN shelf]
        /\ \A h \in Hashes : filed[h] = None
    BY DEF LibraryInit
  <2>9. indexed = {} /\ stale = {} /\ holds = {} /\ faults = 0
    BY DEF LibraryInit
  <2>10. QED
    BY <2>4, <2>5, <2>6, <2>7, <2>8, <2>9 DEF LibraryTypeOK
<1>2. PartsAreTheirs /\ ClientsKnow
  BY DEF LibraryInit, PartsAreTheirs, ClientsKnow, Start
<1>3. HandlersServe
  <2>1. IsHandler(NoHandler) /\ NoHandler.at = "none"
    BY DEF IsHandler, NoHandler, PutSteps
  <2>2. QED
    BY <2>1 DEF LibraryInit, HandlersServe
<1>4. Transfers
  BY DEF LibraryInit, Transfers, NoHandler
<1>5. StoredIsWhole
  <2>1. DOMAIN shelf = {}
    BY DEF LibraryInit
  <2>2. QED
    BY <2>1, FS_EmptySet DEF LibraryInit, StoredIsWhole
<1>6. QED
  BY <1>1, <1>2, <1>3, <1>4, <1>5 DEF LInv

LEMMA LInvGoesOn == LInv /\ [LibraryNext]_libraryVars => LInv'
<1> SUFFICES ASSUME LInv, [LibraryNext]_libraryVars PROVE LInv'
  OBVIOUS
<1>1. ASSUME NEW u \in Uploads, GoodChunk(u) PROVE LInv'
  <2>1. faults' \in 0..MaxFaults
    BY <1>1 DEF GoodChunk, LInv, LibraryTypeOK
  <2>2. QED
    BY <1>1, <2>1, ChunkKeeps DEF GoodChunk
<1>2. ASSUME NEW u \in Uploads, BadChunk(u) PROVE LInv'
  <2>1. faults' \in 0..MaxFaults
    BY <1>2, FaultIs DEF BadChunk
  <2>2. QED
    BY <1>2, <2>1, ChunkKeeps DEF BadChunk
<1>3. ASSUME NEW u \in Uploads, Handler(u) PROVE LInv'
  BY <1>1, <1>3, OpenKeeps, OverrunKeeps, FlushKeeps, VerifyKeeps, ShelveKeeps, IndexKeeps,
     StageKeeps, RecordKeeps, ListKeeps, CloseKeeps DEF Handler
<1>4. CASE \E w \in Wants : BeginUpload(w) \/ PutUpload(w)
  BY <1>4, BeginKeeps, PutKeeps
<1>5. CASE \E u \in Uploads : Handler(u) \/ BadChunk(u) \/ Unplaced(u) \/ Drop(u) \/ ExpireUpload(u)
  BY <1>2, <1>3, <1>5, UnplacedKeeps, DropKeeps, ExpireKeeps
<1>6. CASE \E e \in {Sweeper} \cup Uploads : Evict(e)
  BY <1>6, EvictKeeps
<1>7. CASE Sweep
  BY <1>7, SweepKeeps
<1>8. CASE \E h \in Hashes : ExpireSpooled(h) \/ DeleteTrack(h)
  BY <1>8, ExpireSpooledKeeps, DeleteKeeps
<1>9. CASE DropSweep \/ (\E d \in Devices, h \in Hashes : Reclaim(d, h)) \/ UNCHANGED libraryVars
  BY <1>9, QuietKeeps
<1>10. QED
  BY <1>4, <1>5, <1>6, <1>7, <1>8, <1>9 DEF LibraryNext

\* The inductive invariant: a part file belongs to the upload it was begun for,
\* holds that file's chunks in order or marked as wrong, and a handler knows its
\* length; what was verified is still there whole when it is filed or staged.
THEOREM TransfersAreKept == LibrarySpec => []LInv
BY LInvStarts, LInvGoesOn, PTL DEF LibrarySpec

LEMMA ServedIs == LInv => ServedBytesAreTheFile
<1> SUFFICES ASSUME LInv PROVE ServedBytesAreTheFile
  OBVIOUS
<1>1. \A h \in Hashes : bin[h] \in {Absent, Whole(h)}
  BY DEF LInv, StoredIsWhole
<1>2. ASSUME NEW d \in Devices, NEW h \in Reclaimable(d)
      PROVE  \E g \in Hashes : /\ Position[g] = Position[h] /\ Size[g] = Size[h]
                               /\ shelf[filed[h]] = Whole(g)
  <2>1. /\ h \in Hashes /\ filed[h] \in DOMAIN shelf /\ Len(shelf[filed[h]]) = Size[h]
    BY DEF Reclaimable, LInv, LibraryTypeOK
  <2>2. filed[h] # None
    <3>1. filed[h] \in Range(Position) \X Nat
      BY <2>1 DEF LInv, LibraryTypeOK, Paths
    <3>2. QED
      BY <3>1, LibraryAssumption
  <2>3. filed[h][1] = Position[h]
    BY <2>1, <2>2 DEF LInv, StoredIsWhole
  <2>4. PICK g \in Hashes : Position[g] = filed[h][1] /\ shelf[filed[h]] = Whole(g)
    BY <2>1 DEF LInv, StoredIsWhole
  <2>5. Size[g] = Size[h]
    BY <2>1, <2>4, WholeFile
  <2>6. QED
    BY <2>3, <2>4, <2>5
<1>3. QED
  BY <1>1, <1>2 DEF ServedBytesAreTheFile

LEMMA ResumedIs == LInv => ResumedFilesAreWhole
<1> SUFFICES ASSUME LInv, NEW u \in Uploads, put[u].at = "verify", part[u] # Absent,
                    Wrong(put[u].for[2]) \notin Range(part[u])
             PROVE  part[u] = Whole(put[u].for[2])
  BY DEF ResumedFilesAreWhole
<1> DEFINE h == put[u].for[2]
<1>1. /\ h \in Hashes /\ Size[h] \in Nat /\ part[u] \in Files /\ Content(part[u], h)
      /\ Staging(put[u], part[u], h, DOMAIN shelf)
  BY AtWork
<1>2. Len(part[u]) = Size[h] /\ DOMAIN part[u] = 1..Len(part[u])
  BY <1>1 DEF Staging, Files
<1>3. \A i \in 1..Size[h] : part[u][i] = <<h, i>>
  BY <1>1, <1>2 DEF Content, Range
<1>4. part[u] = [i \in 1..Size[h] |-> part[u][i]]
  BY <1>1, <1>2 DEF Files
<1>5. QED
  BY <1>3, <1>4 DEF Whole

\* library/: for any accounts, devices, files and numbers of uploads, handlers
\* and faults, what is verified, served or counted on is a whole file.
THEOREM FilesStayWhole == LibrarySpec => []FilesAreWhole
<1>1. LInv => FilesAreWhole
  BY ServedIs, ResumedIs DEF FilesAreWhole, LInv
<1>2. QED
  BY <1>1, TransfersAreKept, PTL
=============================================================================
