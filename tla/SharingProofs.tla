--------------------------- MODULE SharingProofs ---------------------------
(***************************************************************************)
(* A link lasts as long as it was promised to whoever it was handed to,    *)
(* one that goes unused leaves its name, and races cost one row each, for  *)
(* any number of devices, accounts, links and drops.                       *)
(*                                                                         *)
(* A count that a race may exceed is bounded by what is there and what is  *)
(* about to be: rows and the handlers past the check that would have       *)
(* stopped them, which turn into rows one by one.                          *)
(***************************************************************************)
EXTENDS Sharing, FiniteSetTheorems, TLAPS

(* A drop's id is taken, and stays so when the row is erased.               *)
Taken(d) == drops[d].from # Nobody \/ drops[d].at = Never

(* What is true of the handler r of device c, whatever it read and when.   *)
Fit(c, r) ==
  /\ r \in Requests
  /\ r.op # "none" => now - 1 <= r.since /\ r.since <= now
  /\ r.op \in {"visit", "play"} => r.id \in Ids
  /\ r.at = "answer" =>
       /\ r.id \in Ids
       /\ r.op # "none"
       /\ r.id \in withdrawn \/ (Live(r.id) /\ links[r.id].used >= r.since)
  /\ r.op = "drop" => r.to \in Accounts /\ r.to # AccountOf[c]
  /\ r.op = "drop" /\ r.at = "back" => r.n \in 1..MaxDrops /\ Taken(r.n)

Handlers == \A c \in Clients : Fit(c, req[c])

(* The handlers that are past their checks, and what they are to write.    *)
Mints(c, r, a, t) ==
  AccountOf[c] = a /\ r.op = "short" /\ r.at = "mint" /\ ~r.bounded /\ r.target = t
Inserts(c, r, a, b) ==
  AccountOf[c] = a /\ r.op = "drop" /\ r.at = "insert" /\ r.to = b
Writes(c, r, a) ==
  \/ r.op \in {"short", "ephemeral"} /\ r.at \in {"reuse", "mint"} /\ AccountOf[c] = a
  \/ r.op = "drop" /\ r.at \in {"limit", "insert"} /\ a \in {AccountOf[c], r.to}

Minting(a, t) == {c \in Clients : Mints(c, req[c], a, t)}
Inserting(a, b) == {c \in Clients : Inserts(c, req[c], a, b)}
Writing(a) == {c \in Clients : Writes(c, req[c], a)}
Dropped(a) == {d \in Sent : a \in {drops[d].from, drops[d].to}}

Few == \A a \in Accounts, t \in Targets :
  Cardinality(Reusable(a, t)) + Cardinality(Minting(a, t)) <= DevicesOf(a)

Bounded == \A a, b \in Accounts :
  Cardinality(SentTo(a, b, now - Window)) + Cardinality(Inserting(a, b))
    <= MaxPerWindow + DevicesOf(a) - 1

Lately == \A a \in Accounts \ exists :
  Cardinality(OwnedBy(a)) + Cardinality(Dropped(a)) + Cardinality(Writing(a))
    <= late[a]

Dated ==
  /\ \A i \in Ids : promised[i] <= now /\ links[i].used <= now
  /\ pass <= now

HandedOut == \A i \in Ids :
  promised[i] # Never /\ i \notin withdrawn /\ now < promised[i] + IdleDays
    => Live(i) /\ links[i].used >= promised[i] - 1

(* What the pass has left is used. *)
Swept == pass # Never => \A i \in Ids :
  links[i].kind = "short" => links[i].used >= pass - IdleDays

Befriended == \A p \in friends : p[1] \in exists /\ p[2] \in exists

Told ==
  /\ \A d \in Sent : drops[d].from # drops[d].to
  /\ \A c \in Clients : \A s \in shown[c] :
       Taken(s.n) /\ (s.read => drops[s.n].from # AccountOf[c])

IInv == /\ TypeOK /\ Handlers /\ Few /\ Bounded /\ Lately
        /\ Dated /\ HandedOut /\ Swept /\ Befriended /\ Told

----------------------------------------------------------------------------
LEMMA ConstantsAre ==
  /\ AccountOf \in [Clients -> Accounts] /\ Nobody \notin Accounts
  /\ IdleDays \in Nat /\ IdleDays >= 1 /\ TombstoneDays \in Nat /\ Ttl \in Nat
  /\ Window \in Nat /\ MaxPerWindow \in Nat /\ MaxPerWindow >= 1 /\ Copies \in Nat
  /\ MaxNow \in Nat /\ MaxDrops \in Nat /\ Budgets \subseteq [Parts -> Nat]
  /\ IsFiniteSet(Clients) /\ IsFiniteSet(Ids)
BY SharingAssumption

LEMMA TimesAre == \A x \in Times : x \in Int
BY ConstantsAre DEF Times, Never

LEMMA TypesAre ==
  ASSUME TypeOK
  PROVE  /\ now \in Nat /\ now \in 0..MaxNow /\ exists \subseteq Accounts
         /\ links \in [Ids -> Links] /\ retired \in [Ids -> Times]
         /\ drops \in [1..MaxDrops -> Drops] /\ req \in [Clients -> Requests]
         /\ pass \in Times /\ pass \in Int /\ promised \in [Ids -> Times]
         /\ late \in [Accounts -> 0..Cardinality(Clients)]
         /\ left \in [Parts -> Nat]
         /\ \A i \in Ids : links[i].used \in Int /\ links[i].until \in Int
                           /\ promised[i] \in Int /\ links[i].made \in Int
         /\ \A d \in 1..MaxDrops : drops[d].at \in Int
<1>1. /\ now \in 0..MaxNow /\ exists \subseteq Accounts
      /\ links \in [Ids -> Links] /\ retired \in [Ids -> Times]
      /\ drops \in [1..MaxDrops -> Drops] /\ req \in [Clients -> Requests]
      /\ pass \in Times /\ promised \in [Ids -> Times]
      /\ late \in [Accounts -> 0..Cardinality(Clients)]
      /\ left \in [Parts -> Nat]
  BY DEF TypeOK
<1>2. now \in Nat /\ pass \in Int /\ \A x \in Times : x \in Int
  BY <1>1, ConstantsAre DEF Times, Never
<1>3. \A i \in Ids : /\ links[i].used \in Times /\ links[i].made \in Times
                     /\ links[i].until \in Never..(MaxNow + Ttl) /\ promised[i] \in Times
  BY <1>1 DEF Links
<1>5. \A x \in Never..(MaxNow + Ttl) : x \in Int
  BY ConstantsAre DEF Never
<1>6. \A i \in Ids : /\ links[i].used \in Int /\ links[i].until \in Int
                     /\ promised[i] \in Int /\ links[i].made \in Int
  BY <1>2, <1>3, <1>5
<1>4. \A d \in 1..MaxDrops : drops[d].at \in Times
  BY <1>1 DEF Drops
<1>7. \A d \in 1..MaxDrops : drops[d].at \in Int
  BY <1>2, <1>4
<1> QED
  BY <1>1, <1>2, <1>6, <1>7

LEMMA IdleIs ==
  /\ Idle \in Requests /\ Idle.op = "none" /\ Idle.at = "idle"
  /\ \A c \in Clients : Fit(c, Idle)
<1>1. Idle \in Requests /\ Idle.op = "none" /\ Idle.at = "idle"
  <2>1. 0 \in 0..MaxDrops /\ 0 \in Times
    BY ConstantsAre DEF Times, Never
  <2> QED
    BY <2>1 DEF Idle, Requests, Steps
<1> QED
  BY <1>1 DEF Fit

LEMMA NextStep ==
  ASSUME NEW q \in Requests, NEW s \in Steps
  PROVE  \E r \in Requests : /\ r = [q EXCEPT !.at = s]
           /\ r.op = q.op /\ r.at = s /\ r.id = q.id /\ r.target = q.target
           /\ r.bounded = q.bounded /\ r.to = q.to /\ r.n = q.n /\ r.since = q.since
<1> DEFINE e == [q EXCEPT !.at = s]
<1>1. /\ e \in Requests /\ e.op = q.op /\ e.at = s /\ e.id = q.id
      /\ e.target = q.target /\ e.bounded = q.bounded /\ e.to = q.to
      /\ e.n = q.n /\ e.since = q.since
  BY DEF Requests
<1> QED
  BY <1>1

----------------------------------------------------------------------------
(* Sets that grow and shrink by one. *)

LEMMA Fewer ==
  ASSUME NEW T, IsFiniteSet(T), NEW S, S \subseteq T
  PROVE  /\ IsFiniteSet(S) /\ Cardinality(S) \in Nat /\ Cardinality(T) \in Nat
         /\ Cardinality(S) <= Cardinality(T)
BY FS_Subset, FS_CardinalityType

LEMMA OneMore ==
  ASSUME NEW T, IsFiniteSet(T), NEW x, NEW S, S \subseteq T \cup {x}
  PROVE  /\ IsFiniteSet(S) /\ Cardinality(S) \in Nat /\ Cardinality(T) \in Nat
         /\ Cardinality(S) <= Cardinality(T) + 1
<1>1. /\ IsFiniteSet(T \cup {x}) /\ Cardinality(T) \in Nat
      /\ Cardinality(T \cup {x}) <= Cardinality(T) + 1
  BY FS_AddElement, FS_CardinalityType
<1>2. /\ IsFiniteSet(S) /\ Cardinality(S) \in Nat
      /\ Cardinality(T \cup {x}) \in Nat /\ Cardinality(S) <= Cardinality(T \cup {x})
  BY <1>1, Fewer
<1> QED
  BY <1>1, <1>2

LEMMA OneLess ==
  ASSUME NEW T, IsFiniteSet(T), NEW x \in T, NEW S, S \subseteq T \ {x}
  PROVE  /\ IsFiniteSet(S) /\ Cardinality(S) \in Nat /\ Cardinality(T) \in Nat
         /\ Cardinality(S) <= Cardinality(T) - 1
<1>1. /\ IsFiniteSet(T \ {x}) /\ Cardinality(T) \in Nat
      /\ Cardinality(T \ {x}) = Cardinality(T) - 1
  BY FS_RemoveElement, FS_CardinalityType
<1>2. /\ IsFiniteSet(S) /\ Cardinality(S) \in Nat
      /\ Cardinality(S) <= Cardinality(T \ {x})
  BY <1>1, Fewer
<1> QED
  BY <1>1, <1>2

LEMMA FiniteAre ==
  ASSUME NEW S, S \subseteq Clients \/ S \subseteq Ids \/ S \subseteq 1..MaxDrops
  PROVE  IsFiniteSet(S) /\ Cardinality(S) \in Nat
<1>1. IsFiniteSet(1..MaxDrops)
  BY ConstantsAre, FS_Interval
<1>2. IsFiniteSet(S)
  BY <1>1, ConstantsAre, FS_Subset
<1> QED
  BY <1>2, FS_CardinalityType

LEMMA Shrink ==
  ASSUME NEW R, NEW M, NEW R2, NEW M2, IsFiniteSet(R), IsFiniteSet(M),
         R2 \subseteq R, M2 \subseteq M
  PROVE  /\ Cardinality(R2) \in Nat /\ Cardinality(M2) \in Nat
         /\ Cardinality(R) \in Nat /\ Cardinality(M) \in Nat
         /\ Cardinality(R2) + Cardinality(M2) <= Cardinality(R) + Cardinality(M)
<1>1. /\ Cardinality(R2) \in Nat /\ Cardinality(R) \in Nat
      /\ Cardinality(R2) <= Cardinality(R)
  BY Fewer
<1>2. /\ Cardinality(M2) \in Nat /\ Cardinality(M) \in Nat
      /\ Cardinality(M2) <= Cardinality(M)
  BY Fewer
<1> QED
  BY <1>1, <1>2

----------------------------------------------------------------------------
(* What a step does to links and drops that are there.                     *)

LinksMove ==
  /\ withdrawn \subseteq withdrawn'
  /\ \A i \in Ids :
       \/ /\ links'[i].kind = links[i].kind /\ links'[i].owner = links[i].owner
          /\ links'[i].target = links[i].target /\ links'[i].until = links[i].until
          /\ links'[i].used \in {links[i].used, now}
       \/ /\ links'[i] = NoLink
          /\ i \in withdrawn' \/ Unused(i)

DropsMove == \A d \in 1..MaxDrops :
  \/ /\ drops'[d].from = drops[d].from /\ drops'[d].to = drops[d].to
     /\ drops'[d].at = drops[d].at
  \/ drops'[d].from = Nobody /\ drops'[d].to = Nobody /\ drops'[d].at = Never

TakenStay == \A d \in 1..MaxDrops : Taken(d) => Taken(d)'

MintsStay == \A c \in Clients, a \in Accounts, t \in Targets :
  Mints(c, req'[c], a, t) => Mints(c, req[c], a, t) \/ Reusable(a, t) = {}
InsertsStay == \A c \in Clients, a, b \in Accounts :
  Inserts(c, req'[c], a, b) =>
    \/ Inserts(c, req[c], a, b)
    \/ Cardinality(SentTo(a, b, now - Window)) < MaxPerWindow
WritesStay == \A c \in Clients, a \in Accounts \ exists :
  Writes(c, req'[c], a) => Writes(c, req[c], a)

LEMMA NothingMoves ==
  /\ UNCHANGED <<links, withdrawn>> => LinksMove
  /\ UNCHANGED drops => DropsMove
  /\ UNCHANGED req => MintsStay /\ InsertsStay /\ WritesStay
BY DEF LinksMove, DropsMove, MintsStay, InsertsStay, WritesStay

LEMMA FitStays ==
  ASSUME TypeOK, now' = now, LinksMove, DropsMove \/ TakenStay, NEW c \in Clients, NEW r,
         Fit(c, r)
  PROVE  Fit(c, r)'
<1>1. r \in Requests /\ r.since \in Int /\ now \in Int
  <2>1. r \in Requests /\ r.since \in Times
    BY DEF Fit, Requests
  <2> QED
    BY <2>1, ConstantsAre, TypesAre DEF Times, Never
<1>2. r.op # "none" => now - 1 <= r.since /\ r.since <= now
  BY DEF Fit
<1>3. ASSUME r.at = "answer"
      PROVE  /\ r.id \in Ids /\ r.op # "none"
             /\ r.id \in withdrawn' \/ (Live(r.id)' /\ links'[r.id].used >= r.since)
  <2>1. r.id \in Ids /\ r.op # "none"
        /\ (r.id \in withdrawn \/ (Live(r.id) /\ links[r.id].used >= r.since))
    BY <1>3 DEF Fit
  <2>2. PICK i \in Ids : i = r.id
    BY <2>1
  <2>3. withdrawn \subseteq withdrawn'
    BY DEF LinksMove
  <2>4. ASSUME i \notin withdrawn' PROVE Live(i)' /\ links'[i].used >= r.since
    <3>1. Live(i) /\ links[i].used >= r.since /\ links[i].used \in Int
      BY <2>1, <2>2, <2>3, <2>4, TypesAre
    <3>2. ~Unused(i)
      BY <1>1, <1>2, <2>1, <3>1, ConstantsAre DEF Unused
    <3>3. links'[i].kind = links[i].kind /\ links'[i].used \in {links[i].used, now}
      BY <2>4, <3>2 DEF LinksMove
    <3> QED
      BY <1>1, <1>2, <2>1, <3>1, <3>3 DEF Live
  <2> QED
    BY <2>1, <2>2, <2>4
<1>4. ASSUME r.op = "drop", r.at = "back" PROVE r.n \in 1..MaxDrops /\ Taken(r.n)'
  BY <1>4 DEF Fit, DropsMove, TakenStay, Taken
<1>5. /\ r.op \in {"visit", "play"} => r.id \in Ids
      /\ r.op = "drop" => r.to \in Accounts /\ r.to # AccountOf[c]
  BY DEF Fit
<1> QED
  BY <1>1, <1>2, <1>3, <1>4, <1>5 DEF Fit

LEMMA FewStays ==
  ASSUME TypeOK, Few, LinksMove, MintsStay
  PROVE  Few'
<1> SUFFICES ASSUME NEW a \in Accounts, NEW t \in Targets
             PROVE  Cardinality(Reusable(a, t)') + Cardinality(Minting(a, t)')
                      <= DevicesOf(a)
  BY DEF Few, DevicesOf
<1>1. PICK R, M, R2, M2 : /\ R = Reusable(a, t) /\ M = Minting(a, t)
                          /\ R2 = Reusable(a, t)' /\ M2 = Minting(a, t)'
  OBVIOUS
<1>2. R2 \subseteq R /\ R \subseteq Ids
  BY <1>1 DEF Reusable, LinksMove, NoLink
<1>3. M \subseteq Clients /\ M2 \subseteq Clients
  BY <1>1 DEF Minting
<1>4. IsFiniteSet(R) /\ IsFiniteSet(M) /\ IsFiniteSet(M2)
  BY <1>2, <1>3, FiniteAre
<1>5. CASE R = {}
  <2>1. PICK D : D = {c \in Clients : AccountOf[c] = a}
    OBVIOUS
  <2>2. M2 \subseteq D /\ IsFiniteSet(D)
    BY <1>1, <2>1, FiniteAre DEF Minting, Mints
  <2>3. Cardinality(R2) = 0 /\ R2 = {}
    BY <1>2, <1>5, FS_EmptySet
  <2>4. Cardinality(M2) <= Cardinality(D) /\ Cardinality(M2) \in Nat
    BY <2>2, Fewer
  <2>5. Cardinality(D) = DevicesOf(a)
    BY <2>1 DEF DevicesOf
  <2> QED
    BY <1>1, <2>3, <2>4, <2>5
<1>6. CASE R # {}
  <2>1. M2 \subseteq M
    BY <1>1, <1>6 DEF Minting, MintsStay
  <2>2. /\ Cardinality(R2) + Cardinality(M2) <= Cardinality(R) + Cardinality(M)
        /\ Cardinality(R2) \in Nat /\ Cardinality(M2) \in Nat
        /\ Cardinality(R) \in Nat /\ Cardinality(M) \in Nat
    BY <1>2, <1>4, <2>1, Shrink
  <2>3. Cardinality(R) + Cardinality(M) <= DevicesOf(a)
    BY <1>1 DEF Few
  <2>4. DevicesOf(a) \in Nat
    <3>1. PICK D : D = {c \in Clients : AccountOf[c] = a}
      OBVIOUS
    <3>2. Cardinality(D) \in Nat
      BY <3>1, FiniteAre
    <3> QED
      BY <3>1, <3>2 DEF DevicesOf
  <2> QED
    BY <1>1, <2>2, <2>3, <2>4
<1> QED
  BY <1>5, <1>6

LEMMA DevicesAre ==
  ASSUME NEW a, NEW S, S \subseteq {c \in Clients : AccountOf[c] = a}
  PROVE  Cardinality(S) \in Nat /\ DevicesOf(a) \in Nat /\ Cardinality(S) <= DevicesOf(a)
<1>1. PICK D : D = {c \in Clients : AccountOf[c] = a}
  OBVIOUS
<1>2. S \subseteq D /\ IsFiniteSet(D)
  BY <1>1, FiniteAre
<1>3. Cardinality(D) = DevicesOf(a)
  BY <1>1 DEF DevicesOf
<1> QED
  BY <1>2, <1>3, Fewer

LEMMA BoundedStays ==
  ASSUME TypeOK, Bounded, DropsMove, InsertsStay, now' \in Int, now <= now'
  PROVE  Bounded'
<1> SUFFICES ASSUME NEW a \in Accounts, NEW b \in Accounts
             PROVE  Cardinality(SentTo(a, b, now - Window)') + Cardinality(Inserting(a, b)')
                      <= MaxPerWindow + DevicesOf(a) - 1
  BY DEF Bounded, DevicesOf
<1>1. PICK R, M, R2, M2 :
        /\ R = SentTo(a, b, now - Window) /\ M = Inserting(a, b)
        /\ R2 = SentTo(a, b, now - Window)' /\ M2 = Inserting(a, b)'
  OBVIOUS
<1>2. R2 \subseteq R /\ R \subseteq 1..MaxDrops
  <2>1. /\ R = {d \in 1..MaxDrops : /\ drops[d].from # Nobody /\ drops[d].from = a
                                    /\ drops[d].to = b /\ drops[d].at >= now - Window}
        /\ R2 = {d \in 1..MaxDrops : /\ drops'[d].from # Nobody /\ drops'[d].from = a
                                     /\ drops'[d].to = b /\ drops'[d].at >= now' - Window}
    BY <1>1 DEF SentTo, Sent
  <2>2. now \in Int /\ Window \in Int /\ \A d \in 1..MaxDrops : drops[d].at \in Int
    BY TypesAre, ConstantsAre
  <2>3. ASSUME NEW d \in R2 PROVE d \in R
    <3>1. drops'[d].from = drops[d].from /\ drops'[d].to = drops[d].to
          /\ drops'[d].at = drops[d].at
      BY <2>1, <2>3, ConstantsAre DEF DropsMove
    <3> QED
      BY <2>1, <2>2, <2>3, <3>1
  <2> QED
    BY <2>1, <2>3
<1>3. M \subseteq Clients /\ M2 \subseteq {c \in Clients : AccountOf[c] = a}
  BY <1>1 DEF Inserting, Inserts
<1>4. IsFiniteSet(R) /\ IsFiniteSet(M)
  BY <1>2, <1>3, FiniteAre
<1>5. /\ Cardinality(R) + Cardinality(M) <= MaxPerWindow + DevicesOf(a) - 1
      /\ MaxPerWindow \in Nat
  BY <1>1, ConstantsAre DEF Bounded
<1>6. Cardinality(M2) \in Nat /\ DevicesOf(a) \in Nat /\ Cardinality(M2) <= DevicesOf(a)
  BY <1>3, DevicesAre
<1>7. CASE Cardinality(R) < MaxPerWindow
  <2>1. Cardinality(R2) \in Nat /\ Cardinality(R) \in Nat /\ Cardinality(R2) <= Cardinality(R)
    BY <1>2, <1>4, Fewer
  <2> QED
    BY <1>1, <1>5, <1>6, <1>7, <2>1
<1>8. CASE ~(Cardinality(R) < MaxPerWindow)
  <2>1. M2 \subseteq M
    BY <1>1, <1>8 DEF Inserting, InsertsStay
  <2>2. /\ Cardinality(R2) + Cardinality(M2) <= Cardinality(R) + Cardinality(M)
        /\ Cardinality(R2) \in Nat /\ Cardinality(M2) \in Nat
        /\ Cardinality(R) \in Nat /\ Cardinality(M) \in Nat
    BY <1>2, <1>4, <2>1, Shrink
  <2> QED
    BY <1>1, <1>5, <1>6, <2>2
<1> QED
  BY <1>7, <1>8

LateOf(a) ==
  Cardinality(OwnedBy(a)) + Cardinality(Dropped(a)) + Cardinality(Writing(a)) <= late[a]

LEMMA LateSets ==
  ASSUME NEW a
  PROVE  /\ IsFiniteSet(OwnedBy(a)) /\ IsFiniteSet(Dropped(a)) /\ IsFiniteSet(Writing(a))
         /\ Cardinality(OwnedBy(a)) \in Nat /\ Cardinality(Dropped(a)) \in Nat
         /\ Cardinality(Writing(a)) \in Nat
<1>1. OwnedBy(a) \subseteq Ids
  BY DEF OwnedBy
<1>2. Dropped(a) \subseteq 1..MaxDrops
  BY DEF Dropped, Sent
<1>3. Writing(a) \subseteq Clients
  BY DEF Writing
<1>4. PICK O, D, W : O = OwnedBy(a) /\ D = Dropped(a) /\ W = Writing(a)
  OBVIOUS
<1>5. IsFiniteSet(O) /\ Cardinality(O) \in Nat
  BY <1>1, <1>4, FiniteAre
<1>6. IsFiniteSet(D) /\ Cardinality(D) \in Nat
  BY <1>2, <1>4, FiniteAre
<1>7. IsFiniteSet(W) /\ Cardinality(W) \in Nat
  BY <1>3, <1>4, FiniteAre
<1> QED
  BY <1>4, <1>5, <1>6, <1>7

LEMMA RowsShrink ==
  ASSUME TypeOK, NEW a \in Accounts
  PROVE  /\ LinksMove => OwnedBy(a)' \subseteq OwnedBy(a)
         /\ DropsMove => Dropped(a)' \subseteq Dropped(a)
<1>1. ASSUME LinksMove PROVE OwnedBy(a)' \subseteq OwnedBy(a)
  BY <1>1, ConstantsAre DEF LinksMove, OwnedBy, NoLink
<1>2. ASSUME DropsMove PROVE Dropped(a)' \subseteq Dropped(a)
  <2> SUFFICES ASSUME NEW d \in 1..MaxDrops, d \in Dropped(a)'
               PROVE  d \in Dropped(a)
    BY DEF Dropped, Sent
  <2>1. drops'[d].from # Nobody /\ (a = drops'[d].from \/ a = drops'[d].to)
    BY DEF Dropped, Sent
  <2>2. drops'[d].from = drops[d].from /\ drops'[d].to = drops[d].to
    BY <1>2, <2>1 DEF DropsMove
  <2> QED
    BY <2>1, <2>2 DEF Dropped, Sent
<1> QED
  BY <1>1, <1>2

LEMMA LateStays ==
  ASSUME TypeOK, NEW a \in Accounts, LateOf(a), LinksMove, DropsMove,
         Writing(a)' \subseteq Writing(a), late'[a] = late[a]
  PROVE  LateOf(a)'
<1>1. PICK O, D, W : O = OwnedBy(a)' /\ D = Dropped(a)' /\ W = Writing(a)'
  OBVIOUS
<1>2. O \subseteq OwnedBy(a) /\ D \subseteq Dropped(a) /\ W \subseteq Writing(a)
  BY <1>1, RowsShrink
<1>3. PICK P, E, V : P = OwnedBy(a) /\ E = Dropped(a) /\ V = Writing(a)
  OBVIOUS
<1>4. /\ IsFiniteSet(P) /\ IsFiniteSet(E) /\ IsFiniteSet(V)
  BY <1>3, LateSets
<1>5. /\ Cardinality(O) \in Nat /\ Cardinality(P) \in Nat
      /\ Cardinality(O) <= Cardinality(P)
  BY <1>2, <1>3, <1>4, Fewer
<1>6. /\ Cardinality(D) \in Nat /\ Cardinality(E) \in Nat
      /\ Cardinality(D) <= Cardinality(E)
  BY <1>2, <1>3, <1>4, Fewer
<1>7. /\ Cardinality(W) \in Nat /\ Cardinality(V) \in Nat
      /\ Cardinality(W) <= Cardinality(V)
  BY <1>2, <1>3, <1>4, Fewer
<1>8. PICK x : x = late[a]
  OBVIOUS
<1>9. x \in Int /\ Cardinality(P) + Cardinality(E) + Cardinality(V) <= x
  <2>1. x \in 0..Cardinality(Clients) /\ Cardinality(Clients) \in Nat
    BY <1>8, TypesAre, FiniteAre
  <2> QED
    BY <1>3, <1>8, <2>1 DEF LateOf
<1>10. Cardinality(O) + Cardinality(D) + Cardinality(W) <= x
  BY <1>5, <1>6, <1>7, <1>9
<1> QED
  BY <1>1, <1>8, <1>10 DEF LateOf

LEMMA LatelyIs == Lately <=> \A a \in Accounts \ exists : LateOf(a)
BY DEF Lately, LateOf

LEMMA LatelyStays ==
  ASSUME TypeOK, Lately, LinksMove, DropsMove, WritesStay, UNCHANGED <<exists, late>>
  PROVE  Lately'
<1> SUFFICES ASSUME NEW a \in Accounts, a \notin exists PROVE LateOf(a)'
  BY DEF Lately, LateOf
<1>1. Writing(a)' \subseteq Writing(a)
  BY DEF Writing, WritesStay
<1> QED
  BY <1>1, LatelyIs, LateStays

----------------------------------------------------------------------------
(* The parts of the invariant about links and drops alone.                 *)

PromisesMove == \A i \in Ids :
  \/ promised'[i] = promised[i]
  \/ /\ promised'[i] = now
     /\ i \in withdrawn' \/ (Live(i)' /\ links'[i].used >= now - 1)

LEMMA LinksStay ==
  ASSUME TypeOK, Dated, HandedOut, LinksMove, now' = now, PromisesMove,
         pass' \in {pass, Never, now}
  PROVE  Dated' /\ HandedOut'
<1>1. now \in Nat /\ pass \in Int /\ IdleDays \in Nat /\ IdleDays >= 1
  BY TypesAre, ConstantsAre
<1>2. ASSUME NEW i \in Ids
      PROVE  /\ promised'[i] <= now /\ links'[i].used <= now
             /\ promised'[i] # Never /\ i \notin withdrawn' /\ now < promised'[i] + IdleDays
                  => Live(i)' /\ links'[i].used >= promised'[i] - 1
  <2>1. /\ links[i].used \in Int /\ promised[i] \in Int
        /\ promised[i] <= now /\ links[i].used <= now
    BY TypesAre DEF Dated
  <2>2. promised'[i] <= now
    BY <1>1, <2>1 DEF PromisesMove
  <2>3. links'[i].used <= now
    BY <1>1, <2>1 DEF LinksMove, NoLink
  <2>4. ASSUME promised'[i] # Never, i \notin withdrawn', now < promised'[i] + IdleDays
        PROVE  Live(i)' /\ links'[i].used >= promised'[i] - 1
    <3>1. CASE promised'[i] = promised[i]
      <4>1. Live(i) /\ links[i].used >= promised[i] - 1
        BY <2>4, <3>1 DEF HandedOut, LinksMove
      <4>2. ~Unused(i)
        BY <1>1, <2>1, <2>4, <3>1, <4>1 DEF Unused
      <4>3. links'[i].kind = links[i].kind /\ links'[i].used \in {links[i].used, now}
        BY <2>4, <4>2 DEF LinksMove
      <4> QED
        BY <1>1, <2>1, <3>1, <4>1, <4>3 DEF Live
    <3>2. CASE promised'[i] # promised[i]
      BY <2>4, <3>2 DEF PromisesMove
    <3> QED
      BY <3>1, <3>2
  <2> QED
    BY <2>2, <2>3, <2>4
<1>3. pass' <= now
  BY <1>1 DEF Dated, Never
<1>4. Dated'
  BY <1>2, <1>3 DEF Dated
<1> QED
  BY <1>2, <1>4 DEF HandedOut

LEMMA SweptStays ==
  ASSUME TypeOK, Dated, Swept, LinksMove, pass' \in {pass, Never}
  PROVE  Swept'
<1> SUFFICES ASSUME pass' # Never, NEW i \in Ids, links'[i].kind = "short"
             PROVE  links'[i].used >= pass' - IdleDays
  BY DEF Swept
<1>1. pass' = pass /\ now \in Int /\ pass \in Int /\ IdleDays \in Nat /\ pass <= now
  BY TypesAre, ConstantsAre DEF Dated
<1>2. links[i].kind = "short" /\ links'[i].used \in {links[i].used, now}
  BY DEF LinksMove, NoLink
<1>3. links[i].used \in Int /\ links[i].used >= pass - IdleDays
  BY <1>1, <1>2, TypesAre DEF Swept
<1> QED
  BY <1>1, <1>2, <1>3

LEMMA ShownAre ==
  ASSUME TypeOK, NEW c \in Clients, NEW s \in shown[c]
  PROVE  s.n \in 1..MaxDrops /\ s.read \in BOOLEAN
<1>1. shown[c] \in SUBSET [n : 1..MaxDrops, read : BOOLEAN]
  BY DEF TypeOK
<1> QED
  BY <1>1

LEMMA ToldStays ==
  ASSUME TypeOK, Told, DropsMove, shown' = shown
  PROVE  Told'
<1>1. ASSUME NEW d \in Sent' PROVE drops'[d].from # drops'[d].to
  <2>1. d \in 1..MaxDrops /\ drops'[d].from # Nobody
    BY DEF Sent
  <2>2. drops'[d].from = drops[d].from /\ drops'[d].to = drops[d].to
    BY <2>1 DEF DropsMove
  <2> QED
    BY <2>1, <2>2 DEF Told, Sent
<1>2. ASSUME NEW c \in Clients, NEW s \in shown[c]
      PROVE  Taken(s.n)' /\ (s.read => drops'[s.n].from # AccountOf[c])
  <2>1. s.n \in 1..MaxDrops
    BY ShownAre
  <2>2. Taken(s.n) /\ (s.read => drops[s.n].from # AccountOf[c])
    BY DEF Told
  <2>3. AccountOf[c] # Nobody
    BY ConstantsAre
  <2> QED
    BY <2>1, <2>2, <2>3 DEF DropsMove, Taken
<1> QED
  BY <1>1, <1>2 DEF Told

----------------------------------------------------------------------------
(* The handlers.                                                           *)

LEMMA HandlersNext ==
  ASSUME TypeOK, Handlers, now' = now, LinksMove, DropsMove \/ TakenStay,
         NEW c \in Clients, NEW r \in Requests, Go(c, r), Fit(c, r)'
  PROVE  Handlers' /\ req' \in [Clients -> Requests]
<1>1. req \in [Clients -> Requests]
  BY TypesAre
<1>2. ASSUME NEW d \in Clients PROVE Fit(d, req[d])'
  <2>1. CASE d = c
    <3>1. req'[d] = r
      BY <1>1, <2>1 DEF Go
    <3> QED
      BY <2>1, <3>1 DEF Fit
  <2>2. CASE d # c
    <3>1. PICK q : q = req[d]
      OBVIOUS
    <3>2. req'[d] = q /\ Fit(d, q)
      BY <1>1, <2>2, <3>1 DEF Go, Handlers
    <3>3. Fit(d, q)'
      BY <3>2, FitStays
    <3> QED
      BY <3>2, <3>3 DEF Fit
  <2> QED
    BY <2>1, <2>2
<1> QED
  BY <1>1, <1>2 DEF Handlers, Go

LEMMA HandlersStay ==
  ASSUME TypeOK, Handlers, now' = now, LinksMove, DropsMove, UNCHANGED req
  PROVE  Handlers'
<1> SUFFICES ASSUME NEW d \in Clients PROVE Fit(d, req[d])'
  BY DEF Handlers
<1>1. PICK q : q = req[d]
  OBVIOUS
<1>2. req'[d] = q /\ Fit(d, q)
  BY <1>1 DEF Handlers
<1>3. Fit(d, q)'
  BY <1>2, FitStays
<1> QED
  BY <1>2, <1>3 DEF Fit

LEMMA GoOn ==
  ASSUME TypeOK, NEW c \in Clients, NEW r \in Requests, Go(c, r),
         \A a \in Accounts, t \in Targets :
           Mints(c, r, a, t) => Mints(c, req[c], a, t) \/ Reusable(a, t) = {},
         \A a, b \in Accounts :
           Inserts(c, r, a, b) =>
             Inserts(c, req[c], a, b) \/ Cardinality(SentTo(a, b, now - Window)) < MaxPerWindow,
         \A a \in Accounts \ exists : Writes(c, r, a) => Writes(c, req[c], a)
  PROVE  MintsStay /\ InsertsStay /\ WritesStay
<1>1. \A d \in Clients : req'[d] = IF d = c THEN r ELSE req[d]
  BY TypesAre DEF Go
<1>2. MintsStay
  BY <1>1 DEF MintsStay
<1>3. InsertsStay
  BY <1>1 DEF InsertsStay
<1>4. WritesStay
  BY <1>1 DEF WritesStay
<1> QED
  BY <1>2, <1>3, <1>4

LEMMA GoQuietly ==
  ASSUME TypeOK, NEW c \in Clients, NEW r \in Requests, Go(c, r),
         r.at \notin {"reuse", "mint", "limit", "insert"}
  PROVE  MintsStay /\ InsertsStay /\ WritesStay
<1>1. \A a, b, t : ~Mints(c, r, a, t) /\ ~Inserts(c, r, a, b) /\ ~Writes(c, r, a)
  BY DEF Mints, Inserts, Writes
<1> QED
  BY <1>1, GoOn

(* The next step of a handler, which has what it read. *)
LEMMA StepOn ==
  ASSUME TypeOK, Handlers, now' = now, LinksMove, DropsMove,
         NEW c \in Clients, NEW s \in Steps \ {"answer", "back"}, Then(c, s)
  PROVE  /\ Handlers' /\ req' \in [Clients -> Requests]
         /\ \E r \in Requests : /\ Go(c, r) /\ r.at = s
              /\ r.op = req[c].op /\ r.id = req[c].id /\ r.target = req[c].target
              /\ r.bounded = req[c].bounded /\ r.to = req[c].to
<1>1. PICK q \in Requests : q = req[c]
  BY TypesAre
<1>2. PICK r \in Requests : /\ r = [q EXCEPT !.at = s]
           /\ r.op = q.op /\ r.at = s /\ r.id = q.id /\ r.target = q.target
           /\ r.bounded = q.bounded /\ r.to = q.to /\ r.n = q.n /\ r.since = q.since
  BY NextStep
<1>3. Go(c, r)
  BY <1>1, <1>2 DEF Then
<1>4. Fit(c, q)'
  BY <1>1, FitStays DEF Handlers
<1>5. Fit(c, r)'
  BY <1>2, <1>4 DEF Fit
<1> QED
  BY <1>1, <1>2, <1>3, <1>5, HandlersNext

LEMMA FinishOn ==
  ASSUME TypeOK, Handlers, now' = now, LinksMove, DropsMove,
         NEW c \in Clients, Finish(c)
  PROVE  /\ Handlers' /\ req' \in [Clients -> Requests]
         /\ MintsStay /\ InsertsStay /\ WritesStay
<1>1. PICK r \in Requests : r = Idle
  BY IdleIs
<1>2. Go(c, r) /\ r.op = "none" /\ r.at = "idle"
  BY <1>1, IdleIs DEF Finish
<1>3. Fit(c, r)'
  BY <1>2 DEF Fit
<1> QED
  BY <1>2, <1>3, HandlersNext, GoQuietly

LEMMA Quiet ==
  ASSUME IInv, TypeOK', now' = now, LinksMove, DropsMove, PromisesMove,
         MintsStay, InsertsStay, WritesStay, Handlers',
         UNCHANGED <<exists, late>>,
         Befriended' \/ UNCHANGED friends,
         Told' \/ UNCHANGED shown,
         pass' \in {pass, Never} \/ (pass' = now /\ Swept')
  PROVE  IInv'
<1>1. /\ TypeOK /\ Handlers /\ Few /\ Bounded /\ Lately
      /\ Dated /\ HandedOut /\ Swept /\ Befriended /\ Told
  BY DEF IInv
<1>2. now' \in Int /\ now <= now'
  BY <1>1, TypesAre
<1>3. Few' /\ Bounded' /\ Lately'
  BY <1>1, <1>2, FewStays, BoundedStays, LatelyStays
<1>4. Dated' /\ HandedOut'
  BY <1>1, LinksStay
<1>5. Swept'
  BY <1>1, SweptStays
<1>6. Told'
  BY <1>1, ToldStays
<1>7. Befriended'
  BY <1>1 DEF Befriended
<1> QED
  BY <1>3, <1>4, <1>5, <1>6, <1>7 DEF IInv

----------------------------------------------------------------------------
(* The steps of handlers, one by one.                                      *)

LEMMA SpendIs ==
  ASSUME TypeOK, NEW part \in Parts, Spend(part)
  PROVE  left' \in [Parts -> Nat]
<1>1. left \in [Parts -> Nat] /\ left[part] > 0
  BY TypesAre DEF Spend
<1>2. left[part] - 1 \in Nat
  BY <1>1
<1> QED
  BY <1>1, <1>2 DEF Spend

LEMMA OnlyHandlersMove ==
  ASSUME IInv, UNCHANGED <<now, tables, shown, pass, history>>,
         left' \in [Parts -> Nat], Handlers', req' \in [Clients -> Requests],
         MintsStay, InsertsStay, WritesStay
  PROVE  IInv'
<1>1. TypeOK
  BY DEF IInv
<1>2. TypeOK'
  BY <1>1 DEF TypeOK, tables, history
<1>3. LinksMove /\ DropsMove /\ PromisesMove
  BY NothingMoves DEF tables, history, PromisesMove
<1> QED
  BY <1>2, <1>3, Quiet DEF tables, history

LEMMA Begun ==
  ASSUME IInv, UNCHANGED <<now, tables, shown, pass, history>>,
         NEW part \in Parts, Spend(part), NEW c \in Clients, NEW r \in Requests,
         Go(c, r), r.since = now,
         r.at \notin {"answer", "back", "limit", "insert"},
         r.at = "mint" => r.bounded,
         r.op \in {"short", "ephemeral"} => Me(c) \in exists,
         r.op \in {"visit", "play"} => r.id \in Ids,
         r.op = "drop" => r.to \in Accounts /\ r.to # Me(c)
  PROVE  IInv'
<1>1. TypeOK /\ Handlers
  BY DEF IInv
<1>2. now' = now /\ LinksMove /\ DropsMove
  BY NothingMoves DEF tables, history
<1>3. Fit(c, r)'
  <2>1. now \in Int /\ r.since = now'
    BY <1>1, TypesAre
  <2> QED
    BY <1>2, <2>1 DEF Fit, Me
<1>4. Handlers' /\ req' \in [Clients -> Requests]
  BY <1>1, <1>2, <1>3, HandlersNext
<1>5. \A a \in Accounts, t \in Targets :
           Mints(c, r, a, t) => Mints(c, req[c], a, t) \/ Reusable(a, t) = {}
  BY DEF Mints
<1>6. \A a, b \in Accounts :
           Inserts(c, r, a, b) =>
             Inserts(c, req[c], a, b) \/ Cardinality(SentTo(a, b, now - Window)) < MaxPerWindow
  BY DEF Inserts
<1>7. \A a \in Accounts \ exists : Writes(c, r, a) => Writes(c, req[c], a)
  BY DEF Writes, Me
<1>8. MintsStay /\ InsertsStay /\ WritesStay
  BY <1>1, <1>5, <1>6, <1>7, GoOn
<1>9. left' \in [Parts -> Nat]
  BY <1>1, SpendIs
<1> QED
  BY <1>4, <1>8, <1>9, OnlyHandlersMove

LEMMA NowIs == ASSUME IInv PROVE now \in Times
<1>1. now \in 0..MaxNow
  BY DEF IInv, TypeOK
<1> QED
  BY <1>1, ConstantsAre DEF Times, Never

LEMMA CallShareKeeps ==
  ASSUME IInv, NEW c \in Clients, CallShare(c)
  PROVE  IInv'
<1>1. PICK t \in Targets, b \in BOOLEAN, kind \in {"short", "ephemeral"} :
        /\ kind = "ephemeral" => switch /\ b
        /\ Begin(c, "links", [Idle EXCEPT !.op = kind, !.target = t, !.bounded = b,
                                          !.at = IF b THEN "mint" ELSE "reuse"])
  BY DEF CallShare
<1>2. PICK n \in Times : n = now
  BY NowIs
<1> DEFINE e == [Idle EXCEPT !.op = kind, !.target = t, !.bounded = b,
                                !.at = IF b THEN "mint" ELSE "reuse", !.since = n]
<1>3. /\ e \in Requests /\ e.since = n /\ e.op = kind
      /\ e.at \notin {"answer", "back", "limit", "insert"} /\ (e.at = "mint" => e.bounded)
  BY IdleIs DEF Requests, Steps
<1>4. Go(c, e)
  <2>1. e = [[Idle EXCEPT !.op = kind, !.target = t, !.bounded = b,
                             !.at = IF b THEN "mint" ELSE "reuse"] EXCEPT !.since = now]
    BY <1>2 DEF Idle
  <2> QED
    BY <1>1, <2>1 DEF Go, Begin
<1> HIDE DEF e
<1>5. /\ UNCHANGED <<now, tables, shown, pass, history>> /\ Me(c) \in exists
      /\ Spend("links") /\ "links" \in Parts
  BY <1>1 DEF Begin, Parts
<1> QED
  BY <1>2, <1>3, <1>4, <1>5, Begun

LEMMA CallDropKeeps ==
  ASSUME IInv, NEW c \in Clients, CallDrop(c)
  PROVE  IInv'
<1>1. PICK to \in Accounts \ {Me(c)} :
        Begin(c, "drops", [Idle EXCEPT !.op = "drop", !.at = "friends", !.to = to])
  BY DEF CallDrop
<1>2. PICK n \in Times : n = now
  BY NowIs
<1> DEFINE e == [Idle EXCEPT !.op = "drop", !.at = "friends", !.to = to, !.since = n]
<1>3. /\ e \in Requests /\ e.since = n /\ e.op = "drop" /\ e.to = to /\ e.at = "friends"
  BY IdleIs DEF Requests, Steps
<1>4. Go(c, e)
  <2>1. e = [[Idle EXCEPT !.op = "drop", !.at = "friends", !.to = to] EXCEPT !.since = now]
    BY <1>2 DEF Idle
  <2> QED
    BY <1>1, <2>1 DEF Go, Begin
<1> HIDE DEF e
<1>5. /\ UNCHANGED <<now, tables, shown, pass, history>>
      /\ Spend("drops") /\ "drops" \in Parts
  BY <1>1 DEF Begin, Parts
<1> QED
  BY <1>2, <1>3, <1>4, <1>5, Begun

LEMMA OpenKeeps ==
  ASSUME IInv, NEW c \in Clients, Open(c)
  PROVE  IInv'
<1>1. PICK i \in Ids, kind \in {"visit", "play"} :
        /\ Spend("links")
        /\ Go(c, [Idle EXCEPT !.op = kind, !.at = "lookup", !.id = i, !.since = now])
        /\ UNCHANGED <<now, tables, shown, pass, history>>
  BY DEF Open
<1>2. PICK n \in Times : n = now
  BY NowIs
<1> DEFINE e == [Idle EXCEPT !.op = kind, !.at = "lookup", !.id = i, !.since = n]
<1>3. /\ e \in Requests /\ e.since = n /\ e.op = kind /\ e.id = i /\ e.at = "lookup"
  BY IdleIs DEF Requests, Steps
<1>4. Go(c, e)
  <2>1. e = [Idle EXCEPT !.op = kind, !.at = "lookup", !.id = i, !.since = now]
    BY <1>2 DEF Idle
  <2> QED
    BY <1>1, <2>1 DEF Go
<1> HIDE DEF e
<1>5. "links" \in Parts
  BY DEF Parts
<1> QED
  BY <1>1, <1>2, <1>3, <1>4, <1>5, Begun

LEMMA LinkTouched ==
  ASSUME TypeOK, NEW i \in Ids, links' = [links EXCEPT ![i].used = now],
         withdrawn' = withdrawn
  PROVE  /\ links' \in [Ids -> Links] /\ LinksMove
         /\ links'[i].used = now /\ links'[i].kind = links[i].kind
<1>1. PICK w \in Links : w = links[i]
  BY TypesAre
<1>2. PICK n \in Times : n = now
  <2>1. now \in 0..MaxNow
    BY TypesAre
  <2> QED
    BY <2>1, ConstantsAre DEF Times, Never
<1> DEFINE e == [w EXCEPT !.used = n]
<1>3. /\ e \in Links /\ e.used = n /\ e.kind = w.kind /\ e.owner = w.owner
      /\ e.target = w.target /\ e.until = w.until
  BY DEF Links
<1>4. links' = [links EXCEPT ![i] = e]
  BY <1>1, <1>2
<1> HIDE DEF e
<1>5. links' \in [Ids -> Links] /\ \A j \in Ids : links'[j] = IF j = i THEN e ELSE links[j]
  BY <1>3, <1>4, TypesAre
<1>6. LinksMove
  BY <1>1, <1>2, <1>3, <1>5 DEF LinksMove
<1> QED
  BY <1>1, <1>2, <1>3, <1>5, <1>6

LEMMA StepsQuietly ==
  ASSUME IInv, UNCHANGED <<now, tables, shown, pass, history, left>>,
         NEW c \in Clients,
         NEW s \in Steps \ {"answer", "back", "reuse", "mint", "limit", "insert"},
         Then(c, s) \/ Finish(c)
  PROVE  IInv'
<1>1. TypeOK /\ Handlers
  BY DEF IInv
<1>2. now' = now /\ LinksMove /\ DropsMove /\ left' \in [Parts -> Nat]
  BY <1>1, NothingMoves, TypesAre DEF tables, history
<1>3. CASE Finish(c)
  BY <1>1, <1>2, <1>3, FinishOn, OnlyHandlersMove
<1>4. CASE Then(c, s)
  <2>1. PICK r \in Requests : Go(c, r) /\ r.at = s
    BY <1>1, <1>2, <1>4, StepOn
  <2>2. MintsStay /\ InsertsStay /\ WritesStay
    BY <1>1, <2>1, GoQuietly
  <2>3. Handlers' /\ req' \in [Clients -> Requests]
    BY <1>1, <1>2, <1>4, StepOn
  <2> QED
    BY <1>2, <2>2, <2>3, OnlyHandlersMove
<1> QED
  BY <1>3, <1>4

LEMMA ReuseKeeps ==
  ASSUME IInv, NEW c \in Clients, Reuse(c)
  PROVE  IInv'
<1>1. TypeOK /\ Handlers /\ req[c].op = "short" /\ req[c].at = "reuse"
  BY DEF IInv, Reuse, At
<1>2. /\ UNCHANGED <<now, exists, friends, switch, forwarding, retired, drops, shown,
                     pass, history, left>>
      /\ DropsMove /\ now' = now /\ left' \in [Parts -> Nat]
      /\ withdrawn' = withdrawn /\ PromisesMove
  BY <1>1, NothingMoves, TypesAre DEF Reuse, history, PromisesMove
<1>3. CASE /\ Reusable(Me(c), req[c].target) = {}
           /\ Then(c, "mint") /\ UNCHANGED links
  <2>1. LinksMove
    BY <1>2, <1>3, NothingMoves
  <2>2. /\ Handlers' /\ req' \in [Clients -> Requests] /\ "mint" \in Steps \ {"answer", "back"}
    BY <1>1, <1>2, <1>3, <2>1, StepOn DEF Steps
  <2>3. PICK r \in Requests : /\ Go(c, r) /\ r.at = "mint"
              /\ r.op = req[c].op /\ r.target = req[c].target
    BY <1>1, <1>2, <1>3, <2>1, <2>2, StepOn
  <2>4. \A a \in Accounts, t \in Targets :
           Mints(c, r, a, t) => Mints(c, req[c], a, t) \/ Reusable(a, t) = {}
    BY <1>3, <2>3 DEF Mints, Me
  <2>5. \A a, b \in Accounts :
           Inserts(c, r, a, b) =>
             Inserts(c, req[c], a, b) \/ Cardinality(SentTo(a, b, now - Window)) < MaxPerWindow
    BY <2>3 DEF Inserts
  <2>6. \A a \in Accounts \ exists : Writes(c, r, a) => Writes(c, req[c], a)
    BY <1>1, <2>3 DEF Writes
  <2>7. MintsStay /\ InsertsStay /\ WritesStay
    BY <1>1, <2>3, <2>4, <2>5, <2>6, GoOn
  <2> QED
    BY <1>2, <1>3, <2>2, <2>7, OnlyHandlersMove DEF tables
<1>4. ASSUME NEW i \in Ids, i \in Reusable(Me(c), req[c].target),
             links' = [links EXCEPT ![i].used = now],
             Go(c, [req[c] EXCEPT !.at = "answer", !.id = i])
      PROVE  IInv'
  <2>1. /\ links' \in [Ids -> Links] /\ LinksMove
        /\ links'[i].used = now /\ links'[i].kind = links[i].kind
    BY <1>1, <1>2, <1>4, LinkTouched
  <2>2. PICK q \in Requests : q = req[c]
    BY <1>1, TypesAre
  <2> DEFINE e == [q EXCEPT !.at = "answer", !.id = i]
  <2>3. /\ e \in Requests /\ e.at = "answer" /\ e.id = i /\ e.op = q.op
        /\ e.since = q.since /\ e.to = q.to
    BY DEF Requests, Steps
  <2>4. Go(c, e)
    BY <1>4, <2>2
  <2> HIDE DEF e
  <2>5. Fit(c, q)'
    BY <1>1, <1>2, <2>1, <2>2, FitStays DEF Handlers
  <2>6. links[i].kind = "short"
    BY <1>4 DEF Reusable
  <2>7. Live(i)' /\ links'[i].used >= e.since
    <3>1. now \in Int /\ e.since \in Int
      <4>1. q.since \in Times
        BY DEF Requests
      <4> QED
        BY <1>1, <2>3, <4>1, TypesAre, TimesAre
    <3>2. q.since <= now
      BY <1>1, <1>2, <2>2, <2>5 DEF Fit
    <3> QED
      BY <2>1, <2>3, <2>6, <3>1, <3>2 DEF Live
  <2>8. Fit(c, e)'
    BY <1>1, <2>2, <2>3, <2>5, <2>7 DEF Fit
  <2>9. Handlers' /\ req' \in [Clients -> Requests]
    BY <1>1, <1>2, <2>1, <2>3, <2>4, <2>8, HandlersNext
  <2>10. MintsStay /\ InsertsStay /\ WritesStay
    BY <1>1, <2>3, <2>4, GoQuietly
  <2>11. TypeOK'
    BY <1>1, <1>2, <2>1, <2>9 DEF TypeOK, history
  <2> QED
    BY <1>2, <2>1, <2>9, <2>10, <2>11, Quiet DEF history
<1>5. \/ /\ Reusable(Me(c), req[c].target) = {}
         /\ Then(c, "mint") /\ UNCHANGED links
      \/ \E i \in Newest(Reusable(Me(c), req[c].target)) :
          /\ links' = [links EXCEPT ![i].used = now]
          /\ Go(c, [req[c] EXCEPT !.at = "answer", !.id = i])
  BY DEF Reuse
<1>6. \A i \in Newest(Reusable(Me(c), req[c].target)) :
        i \in Ids /\ i \in Reusable(Me(c), req[c].target)
  BY DEF Newest, Reusable
<1> QED
  BY <1>3, <1>4, <1>5, <1>6

LEMMA HandOutKeeps ==
  ASSUME IInv, NEW c \in Clients, HandOut(c)
  PROVE  IInv'
<1>1. TypeOK /\ Handlers /\ req[c].at = "answer" /\ Finish(c)
  BY DEF IInv, HandOut, At
<1>2. /\ UNCHANGED <<now, tables, shown, pass, withdrawn, late, left>>
      /\ promised' = [promised EXCEPT ![req[c].id] = now]
  BY DEF HandOut
<1>3. now' = now /\ LinksMove /\ DropsMove
  BY <1>2, NothingMoves DEF tables
<1>4. /\ Handlers' /\ req' \in [Clients -> Requests]
      /\ MintsStay /\ InsertsStay /\ WritesStay
  BY <1>1, <1>3, FinishOn
<1>5. PICK q \in Requests : q = req[c]
  BY <1>1, TypesAre
<1>6. /\ q.id \in Ids
      /\ q.id \in withdrawn \/ (Live(q.id) /\ links[q.id].used >= now - 1)
  <2>1. /\ q.id \in Ids /\ now - 1 <= q.since
        /\ q.id \in withdrawn \/ (Live(q.id) /\ links[q.id].used >= q.since)
    BY <1>1, <1>5 DEF Handlers, Fit
  <2>2. q.since \in Int /\ now \in Int /\ links[q.id].used \in Int
    <3>1. q.since \in Times
      BY DEF Requests
    <3> QED
      BY <1>1, <2>1, <3>1, TypesAre, TimesAre
  <2> QED
    BY <2>1, <2>2
<1>7. PICK i \in Ids : i = q.id
  BY <1>6
<1>8. promised' \in [Ids -> Times]
      /\ \A j \in Ids : promised'[j] = IF j = i THEN now ELSE promised[j]
  BY <1>1, <1>2, <1>5, <1>7, NowIs, TypesAre
<1>9. PromisesMove
  <2>1. withdrawn' = withdrawn /\ links' = links
    BY <1>2 DEF tables
  <2>2. i \in withdrawn' \/ (Live(i)' /\ links'[i].used >= now - 1)
    BY <1>6, <1>7, <2>1 DEF Live
  <2> QED
    BY <1>8, <2>2 DEF PromisesMove
<1>10. TypeOK'
  BY <1>1, <1>2, <1>4, <1>8 DEF TypeOK, tables
<1> QED
  BY <1>2, <1>3, <1>4, <1>9, <1>10, Quiet DEF tables

LEMMA LookupLinkKeeps ==
  ASSUME IInv, NEW c \in Clients, LookupLink(c)
  PROVE  IInv'
<1>1. TypeOK /\ Handlers /\ req[c].op = "visit"
  BY DEF IInv, LookupLink, At
<1>2. UNCHANGED <<now, tables, shown, pass, history, left>>
  BY DEF LookupLink
<1>3. now' = now /\ LinksMove /\ DropsMove /\ left' \in [Parts -> Nat]
  BY <1>1, <1>2, NothingMoves, TypesAre DEF tables, history
<1>4. PICK q \in Requests : q = req[c]
  BY <1>1, TypesAre
<1>5. q.id \in Ids /\ Fit(c, q)'
  BY <1>1, <1>3, <1>4, FitStays DEF Handlers, Fit
<1>6. PICK t \in Targets \cup {Nobody} : t = links[q.id].target
  <2>1. links[q.id] \in Links
    BY <1>1, <1>5, TypesAre
  <2> QED
    BY <2>1 DEF Links
<1> DEFINE e == [q EXCEPT !.at = "host", !.target = t]
           f == [q EXCEPT !.at = "refused"]
<1>7. /\ e \in Requests /\ e.at = "host" /\ e.op = q.op /\ e.id = q.id /\ e.since = q.since
  BY DEF Requests, Steps
<1>8. /\ f \in Requests /\ f.at = "refused" /\ f.op = q.op /\ f.id = q.id
      /\ f.since = q.since
  BY DEF Requests, Steps
<1>9. Go(c, e) \/ Go(c, f)
  BY <1>4, <1>6 DEF LookupLink, Go
<1> HIDE DEF e, f
<1>10. Fit(c, e)' /\ Fit(c, f)'
  BY <1>1, <1>4, <1>5, <1>7, <1>8 DEF Fit
<1>11. /\ Handlers' /\ req' \in [Clients -> Requests]
       /\ MintsStay /\ InsertsStay /\ WritesStay
  <2>1. CASE Go(c, e)
    BY <1>1, <1>3, <1>7, <1>10, <2>1, HandlersNext, GoQuietly
  <2>2. CASE Go(c, f)
    BY <1>1, <1>3, <1>8, <1>10, <2>2, HandlersNext, GoQuietly
  <2> QED
    BY <1>9, <2>1, <2>2
<1> QED
  BY <1>2, <1>3, <1>11, OnlyHandlersMove

LEMMA VisitsKeep ==
  ASSUME IInv, NEW c \in Clients, PlayShare(c) \/ CheckHost(c) \/ Refuse(c)
  PROVE  IInv'
<1>1. {"click", "refused"} \subseteq Steps
                 \ {"answer", "back", "reuse", "mint", "limit", "insert"}
  BY DEF Steps
<1>2. UNCHANGED <<now, tables, shown, pass, history, left>>
  BY DEF PlayShare, CheckHost, Refuse
<1>3. Then(c, "click") \/ Then(c, "refused") \/ Finish(c)
  BY DEF PlayShare, CheckHost, Refuse
<1> QED
  BY <1>1, <1>2, <1>3, StepsQuietly

LEMMA ClickKeeps ==
  ASSUME IInv, NEW c \in Clients, Click(c)
  PROVE  IInv'
<1>1. TypeOK /\ Handlers /\ req[c].op \in {"visit", "play"} /\ Finish(c)
  BY DEF IInv, Click, At
<1>2. /\ UNCHANGED <<now, exists, friends, switch, forwarding, retired, drops, shown,
                     pass, history, left>>
      /\ DropsMove /\ now' = now /\ withdrawn' = withdrawn /\ PromisesMove
  BY <1>1, NothingMoves DEF Click, history, PromisesMove
<1>3. PICK i \in Ids : i = req[c].id
  BY <1>1 DEF Handlers, Fit
<1>4. links' \in [Ids -> Links] /\ LinksMove
  <2>1. CASE links' = [links EXCEPT ![i].used = now]
    BY <1>1, <1>2, <2>1, LinkTouched
  <2>2. CASE links' = links
    BY <1>1, <1>2, <2>2, NothingMoves, TypesAre
  <2> QED
    BY <1>3, <2>1, <2>2 DEF Click
<1>5. /\ Handlers' /\ req' \in [Clients -> Requests]
      /\ MintsStay /\ InsertsStay /\ WritesStay
  BY <1>1, <1>2, <1>4, FinishOn
<1>6. TypeOK'
  BY <1>1, <1>2, <1>4, <1>5 DEF TypeOK, history
<1> QED
  BY <1>2, <1>4, <1>5, <1>6, Quiet DEF history

LEMMA CheckFriendsKeeps ==
  ASSUME IInv, NEW c \in Clients, CheckFriends(c)
  PROVE  IInv'
<1>1. TypeOK /\ Handlers /\ Befriended /\ req[c].op = "drop"
  BY DEF IInv, CheckFriends, At
<1>2. UNCHANGED <<now, tables, shown, pass, history, left>>
  BY DEF CheckFriends
<1>3. now' = now /\ LinksMove /\ DropsMove /\ left' \in [Parts -> Nat]
  BY <1>1, <1>2, NothingMoves, TypesAre DEF tables, history
<1>4. CASE Finish(c)
  BY <1>1, <1>2, <1>3, <1>4, FinishOn, OnlyHandlersMove
<1>5. CASE <<Me(c), req[c].to>> \in friends /\ Then(c, "limit")
  <2>1. "limit" \in Steps \ {"answer", "back"}
    BY DEF Steps
  <2>2. Handlers' /\ req' \in [Clients -> Requests]
    BY <1>1, <1>3, <1>5, <2>1, StepOn
  <2>3. PICK r \in Requests : Go(c, r) /\ r.at = "limit" /\ r.op = "drop" /\ r.to = req[c].to
    BY <1>1, <1>3, <1>5, <2>1, StepOn
  <2>4. Me(c) \in exists /\ req[c].to \in exists
    <3>1. PICK p : p = <<Me(c), req[c].to>>
      OBVIOUS
    <3>2. p[1] \in exists /\ p[2] \in exists
      BY <1>1, <1>5, <3>1 DEF Befriended
    <3> QED
      BY <3>1, <3>2
  <2>5. \A a \in Accounts \ exists : ~Writes(c, r, a)
    BY <2>3, <2>4 DEF Writes, Me
  <2>6. \A a, b, t : ~Mints(c, r, a, t) /\ ~Inserts(c, r, a, b)
    BY <2>3 DEF Mints, Inserts
  <2>7. MintsStay /\ InsertsStay /\ WritesStay
    BY <1>1, <2>3, <2>5, <2>6, GoOn
  <2> QED
    BY <1>2, <1>3, <2>2, <2>7, OnlyHandlersMove
<1> QED
  BY <1>4, <1>5 DEF CheckFriends

LEMMA SentIs ==
  ASSUME NEW a, NEW b, NEW s
  PROVE  IsFiniteSet(SentTo(a, b, s)) /\ Cardinality(SentTo(a, b, s)) \in Nat
<1>1. PICK R : R = SentTo(a, b, s)
  OBVIOUS
<1>2. R \subseteq 1..MaxDrops
  BY <1>1 DEF SentTo, Sent
<1> QED
  BY <1>1, <1>2, FiniteAre

LEMMA CheckLimitKeeps ==
  ASSUME IInv, NEW c \in Clients, CheckLimit(c)
  PROVE  IInv'
<1>1. TypeOK /\ Handlers /\ req[c].op = "drop" /\ req[c].at = "limit"
  BY DEF IInv, CheckLimit, At
<1>2. UNCHANGED <<now, tables, shown, pass, history, left>>
  BY DEF CheckLimit
<1>3. now' = now /\ LinksMove /\ DropsMove /\ left' \in [Parts -> Nat]
  BY <1>1, <1>2, NothingMoves, TypesAre DEF tables, history
<1>4. CASE Finish(c)
  BY <1>1, <1>2, <1>3, <1>4, FinishOn, OnlyHandlersMove
<1>5. CASE /\ ~(Cardinality(SentTo(Me(c), req[c].to, now - Window)) >= MaxPerWindow)
           /\ Then(c, "insert")
  <2>1. "insert" \in Steps \ {"answer", "back"}
    BY DEF Steps
  <2>2. Handlers' /\ req' \in [Clients -> Requests]
    BY <1>1, <1>3, <1>5, <2>1, StepOn
  <2>3. PICK r \in Requests : Go(c, r) /\ r.at = "insert" /\ r.op = "drop" /\ r.to = req[c].to
    BY <1>1, <1>3, <1>5, <2>1, StepOn
  <2>4. \A a \in Accounts \ exists : Writes(c, r, a) => Writes(c, req[c], a)
    BY <1>1, <2>3 DEF Writes
  <2>5. \A a, t : ~Mints(c, r, a, t)
    BY <2>3 DEF Mints
  <2>6. \A a, b \in Accounts :
           Inserts(c, r, a, b) => Cardinality(SentTo(a, b, now - Window)) < MaxPerWindow
    <3>1. \A a, b : Inserts(c, r, a, b) => a = Me(c) /\ b = req[c].to
      BY <2>3 DEF Inserts, Me
    <3>2. PICK k : k = Cardinality(SentTo(Me(c), req[c].to, now - Window))
      OBVIOUS
    <3>3. k \in Nat /\ k < MaxPerWindow
      BY <1>5, <3>2, SentIs, ConstantsAre
    <3> QED
      BY <3>1, <3>2, <3>3
  <2>7. MintsStay /\ InsertsStay /\ WritesStay
    BY <1>1, <2>3, <2>4, <2>5, <2>6, GoOn
  <2> QED
    BY <1>2, <1>3, <2>2, <2>7, OnlyHandlersMove
<1> QED
  BY <1>4, <1>5 DEF CheckLimit

----------------------------------------------------------------------------
(* A link is minted, where none was.                                       *)

LEMMA MintKeeps ==
  ASSUME IInv, NEW c \in Clients, Mint(c)
  PROVE  IInv'
<1>1. /\ TypeOK /\ Handlers /\ Few /\ Bounded /\ Lately
      /\ Dated /\ HandedOut /\ Swept /\ Befriended /\ Told
      /\ req[c].op \in {"short", "ephemeral"} /\ req[c].at = "mint"
  BY DEF IInv, Mint, At
<1>2. PICK i \in Ids :
        /\ ~Live(i) /\ links' = [links EXCEPT ![i] = Minted(c)]
        /\ retired' = Revived(i, req[c].op)
        /\ promised' = [promised EXCEPT ![i] = Never]
        /\ withdrawn' = withdrawn \ {i}
        /\ Go(c, [req[c] EXCEPT !.at = "answer", !.id = i])
  BY DEF Mint
<1>3. UNCHANGED <<now, exists, friends, switch, forwarding, drops, shown, pass, late, left>>
  BY DEF Mint
<1>4. PICK q \in Requests : q = req[c]
  BY <1>1, TypesAre
<1>5. PICK n \in Times : n = now /\ n \in 0..MaxNow
  BY <1>1, NowIs, TypesAre
<1> DEFINE u == IF q.bounded THEN n + Ttl ELSE Never
           m == [kind |-> q.op, owner |-> Me(c), target |-> q.target, made |-> n,
                 used |-> n, until |-> u]
<1>6. /\ m \in Links /\ m.kind = q.op /\ m.owner = AccountOf[c] /\ m.target = q.target
      /\ m.used = n /\ (m.until = Never => ~q.bounded)
  <2>1. q.target \in Targets \cup {Nobody} /\ q.op \in {"short", "ephemeral"}
    BY <1>1, <1>4 DEF Requests
  <2>2. u \in Never..(MaxNow + Ttl) /\ (u = Never => ~q.bounded)
    BY <1>5, ConstantsAre DEF Never
  <2>3. Me(c) \in Accounts
    BY ConstantsAre DEF Me
  <2> HIDE DEF u
  <2> QED
    BY <1>5, <2>1, <2>2, <2>3 DEF Links, Me
<1>7. m = Minted(c)
  BY <1>4, <1>5 DEF Minted
<1> HIDE DEF u, m
<1>8. /\ links' \in [Ids -> Links]
      /\ \A j \in Ids : links'[j] = IF j = i THEN m ELSE links[j]
  BY <1>1, <1>2, <1>6, <1>7, TypesAre
<1> DEFINE e == [q EXCEPT !.at = "answer", !.id = i]
<1>9. /\ e \in Requests /\ e.at = "answer" /\ e.id = i /\ e.op = q.op
      /\ e.since = q.since /\ e.to = q.to
  BY DEF Requests, Steps
<1>10. Go(c, e)
  BY <1>2, <1>4
<1> HIDE DEF e
<1>11. /\ req' \in [Clients -> Requests]
       /\ \A d \in Clients : req'[d] = IF d = c THEN e ELSE req[d]
  BY <1>1, <1>9, <1>10, TypesAre DEF Go
<1>12. ASSUME NEW d \in Clients, NEW g, Fit(d, g), g.at = "answer" => g.id # i \/ g.op # "none"
       PROVE  Fit(d, g)'
  <2>1. g \in Requests /\ g.since \in Times
    BY <1>12 DEF Fit, Requests
  <2>2. g.since \in Int /\ now \in Int
    BY <2>1, <1>1, TypesAre, TimesAre
  <2>3. ASSUME g.at = "answer"
        PROVE  g.id \in withdrawn' \/ (Live(g.id)' /\ links'[g.id].used >= g.since)
    <3>1. g.id \in Ids /\ g.op # "none" /\ g.since <= now
          /\ (g.id \in withdrawn \/ (Live(g.id) /\ links[g.id].used >= g.since))
      BY <1>12, <2>3 DEF Fit
    <3>2. CASE g.id = i
      BY <1>1, <1>4, <1>5, <1>6, <1>8, <2>2, <3>1, <3>2 DEF Live
    <3>3. CASE g.id # i
      BY <1>2, <1>8, <3>1, <3>3 DEF Live
    <3> QED
      BY <3>2, <3>3
  <2> QED
    BY <1>3, <1>12, <2>1, <2>3 DEF Fit, Taken
<1>13. Fit(c, e)'
  <2>1. Fit(c, q)
    BY <1>1, <1>4 DEF Handlers
  <2>2. q.since \in Int /\ now \in Int /\ q.since <= now /\ now - 1 <= q.since
    <3>1. q.since \in Times
      BY DEF Requests
    <3> QED
      BY <1>1, <1>4, <2>1, <3>1, TypesAre, TimesAre DEF Fit
  <2>3. Live(i)' /\ links'[i].used >= e.since
    BY <1>1, <1>4, <1>5, <1>6, <1>8, <1>9, <2>2 DEF Live
  <2> QED
    BY <1>1, <1>3, <1>4, <1>9, <2>2, <2>3 DEF Fit
<1>14. Handlers'
  <2> SUFFICES ASSUME NEW d \in Clients PROVE Fit(d, req[d])'
    BY DEF Handlers
  <2>1. PICK g : g = req'[d]
    OBVIOUS
  <2>2. Fit(d, g)'
    <3>1. CASE d = c
      BY <1>11, <1>13, <2>1, <3>1
    <3>2. CASE d # c
      <4>1. Fit(d, g)
        BY <1>1, <1>11, <2>1, <3>2 DEF Handlers
      <4>2. g.at = "answer" => g.op # "none"
        BY <4>1 DEF Fit
      <4> QED
        BY <1>12, <4>1, <4>2
    <3> QED
      BY <3>1, <3>2
  <2> QED
    BY <2>1, <2>2 DEF Fit
<1>15. TypeOK'
  <2>1. retired' \in [Ids -> Times] /\ promised' \in [Ids -> Times]
    <3>1. retired \in [Ids -> Times] /\ promised \in [Ids -> Times] /\ Never \in Times
      BY <1>1, TypesAre, ConstantsAre DEF Times, Never
    <3> QED
      BY <1>2, <3>1 DEF Revived
  <2>2. withdrawn' \subseteq Ids
    BY <1>1, <1>2 DEF TypeOK
  <2> QED
    BY <1>1, <1>3, <1>8, <1>11, <2>1, <2>2 DEF TypeOK
<1>16. MintsStay /\ InsertsStay /\ WritesStay
  BY <1>1, <1>9, <1>10, GoQuietly
<1>17. Bounded'
  <2>1. DropsMove /\ now' \in Int /\ now <= now'
    BY <1>1, <1>3, NothingMoves, TypesAre
  <2> QED
    BY <1>1, <1>16, <2>1, BoundedStays
<1>18. Few'
  <2> SUFFICES ASSUME NEW a \in Accounts, NEW t \in Targets
               PROVE  Cardinality(Reusable(a, t)') + Cardinality(Minting(a, t)')
                        <= DevicesOf(a)
    BY DEF Few, DevicesOf
  <2>1. PICK R, M, R2, M2 : /\ R = Reusable(a, t) /\ M = Minting(a, t)
                            /\ R2 = Reusable(a, t)' /\ M2 = Minting(a, t)'
    OBVIOUS
  <2>2. R \subseteq Ids /\ M \subseteq Clients
    BY <2>1 DEF Reusable, Minting
  <2>3. IsFiniteSet(R) /\ IsFiniteSet(M)
    BY <2>2, FiniteAre
  <2>4. M2 \subseteq M /\ c \notin M2
    BY <1>9, <1>11, <2>1 DEF Minting, Mints
  <2>5. \A j \in Ids \ {i} : j \in R2 => j \in R
    BY <1>8, <2>1 DEF Reusable
  <2>6. R2 \subseteq Ids
    BY <2>1 DEF Reusable
  <2>7. i \in R2 => c \in M
    BY <1>1, <1>4, <1>6, <1>8, <2>1 DEF Reusable, Minting, Mints
  <2>8. /\ Cardinality(R2) + Cardinality(M2) <= Cardinality(R) + Cardinality(M)
        /\ Cardinality(R2) \in Nat /\ Cardinality(M2) \in Nat
        /\ Cardinality(R) \in Nat /\ Cardinality(M) \in Nat
    <3>1. CASE c \in M
      <4>1. R2 \subseteq R \cup {i} /\ M2 \subseteq M \ {c}
        BY <2>4, <2>5, <2>6
      <4>2. /\ Cardinality(R2) \in Nat /\ Cardinality(R) \in Nat
            /\ Cardinality(R2) <= Cardinality(R) + 1
        BY <2>3, <4>1, OneMore
      <4>3. /\ Cardinality(M2) \in Nat /\ Cardinality(M) \in Nat
            /\ Cardinality(M2) <= Cardinality(M) - 1
        BY <2>3, <3>1, <4>1, OneLess
      <4> QED
        BY <4>2, <4>3
    <3>2. CASE c \notin M
      <4>1. R2 \subseteq R
        BY <2>5, <2>6, <2>7, <3>2
      <4> QED
        BY <2>3, <2>4, <4>1, Shrink
    <3> QED
      BY <3>1, <3>2
  <2>9. Cardinality(R) + Cardinality(M) <= DevicesOf(a) /\ DevicesOf(a) \in Nat
    BY <1>1, <2>1, DevicesAre DEF Few
  <2> QED
    BY <2>1, <2>8, <2>9
<1>19. Lately'
  <2> SUFFICES ASSUME NEW a \in Accounts, a \notin exists PROVE LateOf(a)'
    BY <1>3 DEF Lately, LateOf
  <2>1. PICK O, D, W, O2, D2, W2 :
          /\ O = OwnedBy(a) /\ D = Dropped(a) /\ W = Writing(a)
          /\ O2 = OwnedBy(a)' /\ D2 = Dropped(a)' /\ W2 = Writing(a)'
    OBVIOUS
  <2>2. IsFiniteSet(O) /\ IsFiniteSet(W) /\ Cardinality(D) \in Nat
    BY <2>1, LateSets
  <2>3. D2 = D
    BY <1>3, <2>1 DEF Dropped, Sent
  <2>4. W2 \subseteq W /\ c \notin W2
    BY <1>9, <1>11, <2>1 DEF Writing, Writes
  <2>5. O2 \subseteq O \cup {i} /\ (i \in O2 => c \in W)
    BY <1>1, <1>4, <1>6, <1>8, <2>1 DEF OwnedBy, Writing, Writes
  <2>6. /\ Cardinality(O2) + Cardinality(W2) <= Cardinality(O) + Cardinality(W)
        /\ Cardinality(O2) \in Nat /\ Cardinality(W2) \in Nat
        /\ Cardinality(O) \in Nat /\ Cardinality(W) \in Nat
    <3>1. CASE c \in W
      <4>1. O2 \subseteq O \cup {i} /\ W2 \subseteq W \ {c}
        BY <2>4, <2>5
      <4>2. /\ Cardinality(O2) \in Nat /\ Cardinality(O) \in Nat
            /\ Cardinality(O2) <= Cardinality(O) + 1
        BY <2>2, <4>1, OneMore
      <4>3. /\ Cardinality(W2) \in Nat /\ Cardinality(W) \in Nat
            /\ Cardinality(W2) <= Cardinality(W) - 1
        BY <2>2, <3>1, <4>1, OneLess
      <4> QED
        BY <4>2, <4>3
    <3>2. CASE c \notin W
      <4>1. O2 \subseteq O
        BY <2>5, <3>2
      <4> QED
        BY <2>2, <2>4, <4>1, Shrink
    <3> QED
      BY <3>1, <3>2
  <2>7. PICK x : x = late[a]
    OBVIOUS
  <2>8. x \in Int /\ Cardinality(O) + Cardinality(D) + Cardinality(W) <= x
    <3>1. x \in 0..Cardinality(Clients) /\ Cardinality(Clients) \in Nat
      BY <1>1, <2>7, TypesAre, FiniteAre
    <3> QED
      BY <1>1, <2>1, <2>7, <3>1, LatelyIs DEF LateOf
  <2>9. Cardinality(O2) + Cardinality(D2) + Cardinality(W2) <= x
    BY <2>2, <2>3, <2>6, <2>8
  <2> QED
    BY <1>3, <2>1, <2>7, <2>9 DEF LateOf
<1>20. Dated' /\ HandedOut'
  <2>1. ASSUME NEW j \in Ids
        PROVE  /\ promised'[j] <= now /\ links'[j].used <= now
               /\ promised'[j] # Never /\ j \notin withdrawn' /\ now < promised'[j] + IdleDays
                  => Live(j)' /\ links'[j].used >= promised'[j] - 1
    <3>1. promised'[j] = IF j = i THEN Never ELSE promised[j]
      BY <1>1, <1>2, TypesAre
    <3>2. CASE j = i
      BY <1>5, <1>6, <1>8, <3>1, <3>2, ConstantsAre DEF Never
    <3>3. CASE j # i
      BY <1>1, <1>2, <1>8, <3>1, <3>3 DEF Dated, HandedOut, Live
    <3> QED
      BY <3>2, <3>3
  <2>2. pass' <= now' /\ now' = now
    BY <1>1, <1>3 DEF Dated
  <2>3. Dated'
    BY <2>1, <2>2 DEF Dated
  <2> QED
    BY <2>1, <2>2, <2>3 DEF HandedOut
<1>21. Swept'
  <2> SUFFICES ASSUME pass' # Never, NEW j \in Ids, links'[j].kind = "short"
               PROVE  links'[j].used >= pass' - IdleDays
    BY DEF Swept
  <2>1. pass' = pass /\ now \in Int /\ pass \in Int /\ IdleDays \in Nat /\ pass <= now
    BY <1>1, <1>3, TypesAre, ConstantsAre DEF Dated
  <2>2. CASE j = i
    BY <1>5, <1>6, <1>8, <2>1, <2>2
  <2>3. CASE j # i
    BY <1>1, <1>8, <2>1, <2>3 DEF Swept
  <2> QED
    BY <2>2, <2>3
<1>22. Told'
  BY <1>1, <1>3, ToldStays, NothingMoves
<1>23. Befriended'
  BY <1>1, <1>3 DEF Befriended
<1> QED
  BY <1>14, <1>15, <1>17, <1>18, <1>19, <1>20, <1>21, <1>22, <1>23 DEF IInv

----------------------------------------------------------------------------
(* A drop is put in, by a handler that was past the limit.                 *)

LEMMA InsertKeeps ==
  ASSUME IInv, NEW c \in Clients, NEW d \in 1..MaxDrops, NEW k \in 0..Copies,
         Insert(c, d, k),
         UNCHANGED <<now, exists, friends, switch, forwarding, links, retired,
                     shown, history>>,
         pass' \in {pass, Never}, left' \in [Parts -> Nat],
         req' \in [Clients -> Requests],
         \A x \in Clients : req'[x] = req[x] \/ req'[x].at \in {"idle", "back"},
         req'[c].at \in {"idle", "back"},
         TakenStay /\ Taken(d)' => Handlers'
  PROVE  IInv'
<1>1. /\ TypeOK /\ Handlers /\ Few /\ Bounded /\ Lately
      /\ Dated /\ HandedOut /\ Swept /\ Befriended /\ Told
      /\ req[c].op = "drop" /\ req[c].at = "insert"
  BY DEF IInv, Insert, At
<1>2. PICK q \in Requests : q = req[c]
  BY <1>1, TypesAre
<1>3. /\ q.op = "drop" /\ q.at = "insert" /\ q.to \in Accounts /\ q.to # Me(c)
  BY <1>1, <1>2 DEF Handlers, Fit, Me
<1>4. PICK n \in Times : n = now
  BY NowIs
<1> DEFINE w == [NoDrop EXCEPT !.from = Me(c), !.to = q.to, !.at = n, !.copies = k]
<1>5. /\ w \in Drops /\ w.from = Me(c) /\ w.to = q.to /\ w.at = n
  <2>1. Me(c) \in Accounts
    BY ConstantsAre DEF Me
  <2>2. NoDrop \in Drops
    <3>1. Never \in Times /\ 0 \in Times /\ 0 \in 0..Copies
      BY ConstantsAre DEF Times, Never
    <3> QED
      BY <3>1 DEF NoDrop, Drops
  <2> QED
    BY <1>3, <2>1, <2>2 DEF Drops
<1>6. drops' = [drops EXCEPT ![d] = w] /\ drops[d] = NoDrop
  BY <1>2, <1>4 DEF Insert
<1> HIDE DEF w
<1>7. /\ drops' \in [1..MaxDrops -> Drops]
      /\ \A e \in 1..MaxDrops : drops'[e] = IF e = d THEN w ELSE drops[e]
  BY <1>1, <1>5, <1>6, TypesAre
<1>8. Me(c) # Nobody /\ Me(c) \in Accounts
  BY ConstantsAre DEF Me
<1>9. ~Taken(d) /\ d \notin Sent
  BY <1>6 DEF Taken, Sent, NoDrop, Never
<1>10. TakenStay /\ Taken(d)'
  BY <1>5, <1>7, <1>8 DEF TakenStay, Taken
<1>11. LinksMove /\ PromisesMove /\ now' = now /\ now' \in Int /\ now <= now'
  BY <1>1, NothingMoves, TypesAre DEF history, PromisesMove
<1>12. TypeOK'
  <2>1. pass' \in Times
    BY <1>1, TypesAre, ConstantsAre DEF Times, Never
  <2> QED
    BY <1>1, <1>7, <2>1 DEF TypeOK, history
<1>13. \A x \in Clients : \A a, b, t :
         /\ Mints(x, req'[x], a, t) => Mints(x, req[x], a, t)
         /\ Inserts(x, req'[x], a, b) => Inserts(x, req[x], a, b) /\ x # c
         /\ Writes(x, req'[x], a) => Writes(x, req[x], a) /\ x # c
  BY DEF Mints, Inserts, Writes
<1>14. Few'
  BY <1>1, <1>11, <1>13, FewStays DEF MintsStay
<1>15. Bounded'
  <2> SUFFICES ASSUME NEW a \in Accounts, NEW b \in Accounts
               PROVE  Cardinality(SentTo(a, b, now - Window)') + Cardinality(Inserting(a, b)')
                        <= MaxPerWindow + DevicesOf(a) - 1
    BY DEF Bounded, DevicesOf
  <2>1. PICK R, M, R2, M2 :
          /\ R = SentTo(a, b, now - Window) /\ M = Inserting(a, b)
          /\ R2 = SentTo(a, b, now - Window)' /\ M2 = Inserting(a, b)'
    OBVIOUS
  <2>2. R \subseteq 1..MaxDrops /\ M \subseteq Clients
    BY <2>1 DEF SentTo, Sent, Inserting
  <2>3. IsFiniteSet(R) /\ IsFiniteSet(M)
    BY <2>2, FiniteAre
  <2>4. M2 \subseteq M /\ c \notin M2
    BY <1>13, <2>1 DEF Inserting
  <2>5. R2 \subseteq R \cup {d}
    BY <1>7, <1>11, <2>1 DEF SentTo, Sent
  <2>6. d \in R2 => c \in M
    <3>1. d \in R2 => a = Me(c) /\ b = q.to
      BY <1>5, <1>7, <2>1 DEF SentTo, Sent
    <3> QED
      BY <1>2, <1>3, <2>1, <3>1 DEF Inserting, Inserts, Me
  <2>7. /\ Cardinality(R2) + Cardinality(M2) <= Cardinality(R) + Cardinality(M)
        /\ Cardinality(R2) \in Nat /\ Cardinality(M2) \in Nat
        /\ Cardinality(R) \in Nat /\ Cardinality(M) \in Nat
    <3>1. CASE c \in M
      <4>1. M2 \subseteq M \ {c}
        BY <2>4
      <4>2. /\ Cardinality(R2) \in Nat /\ Cardinality(R) \in Nat
            /\ Cardinality(R2) <= Cardinality(R) + 1
        BY <2>3, <2>5, OneMore
      <4>3. /\ Cardinality(M2) \in Nat /\ Cardinality(M) \in Nat
            /\ Cardinality(M2) <= Cardinality(M) - 1
        BY <2>3, <3>1, <4>1, OneLess
      <4> QED
        BY <4>2, <4>3
    <3>2. CASE c \notin M
      <4>1. R2 \subseteq R
        BY <2>5, <2>6, <3>2
      <4> QED
        BY <2>3, <2>4, <4>1, Shrink
    <3> QED
      BY <3>1, <3>2
  <2>8. /\ Cardinality(R) + Cardinality(M) <= MaxPerWindow + DevicesOf(a) - 1
        /\ MaxPerWindow \in Nat /\ DevicesOf(a) \in Nat
    BY <1>1, <2>1, ConstantsAre, DevicesAre DEF Bounded
  <2> QED
    BY <2>1, <2>7, <2>8
<1>16. Lately'
  <2> SUFFICES ASSUME NEW a \in Accounts, a \notin exists PROVE LateOf(a)'
    BY DEF Lately, LateOf
  <2>1. PICK O, D, W, O2, D2, W2 :
          /\ O = OwnedBy(a) /\ D = Dropped(a) /\ W = Writing(a)
          /\ O2 = OwnedBy(a)' /\ D2 = Dropped(a)' /\ W2 = Writing(a)'
    OBVIOUS
  <2>2. IsFiniteSet(D) /\ IsFiniteSet(W) /\ Cardinality(O) \in Nat
    BY <2>1, LateSets
  <2>3. O2 = O
    BY <2>1 DEF OwnedBy
  <2>4. W2 \subseteq W /\ c \notin W2
    BY <1>13, <2>1 DEF Writing
  <2>5. D2 \subseteq D \cup {d}
    BY <1>7, <2>1 DEF Dropped, Sent
  <2>6. d \in D2 => c \in W
    <3>1. d \in D2 => a \in {Me(c), q.to}
      BY <1>5, <1>7, <2>1 DEF Dropped, Sent
    <3> QED
      BY <1>2, <1>3, <2>1, <3>1 DEF Writing, Writes, Me
  <2>7. /\ Cardinality(D2) + Cardinality(W2) <= Cardinality(D) + Cardinality(W)
        /\ Cardinality(D2) \in Nat /\ Cardinality(W2) \in Nat
        /\ Cardinality(D) \in Nat /\ Cardinality(W) \in Nat
    <3>1. CASE c \in W
      <4>1. W2 \subseteq W \ {c}
        BY <2>4
      <4>2. /\ Cardinality(D2) \in Nat /\ Cardinality(D) \in Nat
            /\ Cardinality(D2) <= Cardinality(D) + 1
        BY <2>2, <2>5, OneMore
      <4>3. /\ Cardinality(W2) \in Nat /\ Cardinality(W) \in Nat
            /\ Cardinality(W2) <= Cardinality(W) - 1
        BY <2>2, <3>1, <4>1, OneLess
      <4> QED
        BY <4>2, <4>3
    <3>2. CASE c \notin W
      <4>1. D2 \subseteq D
        BY <2>5, <2>6, <3>2
      <4> QED
        BY <2>2, <2>4, <4>1, Shrink
    <3> QED
      BY <3>1, <3>2
  <2>8. PICK x : x = late[a]
    OBVIOUS
  <2>9. x \in Int /\ Cardinality(O) + Cardinality(D) + Cardinality(W) <= x
    <3>1. x \in 0..Cardinality(Clients) /\ Cardinality(Clients) \in Nat
      BY <1>1, <2>8, TypesAre, FiniteAre
    <3> QED
      BY <1>1, <2>1, <2>8, <3>1, LatelyIs DEF LateOf
  <2>10. Cardinality(O2) + Cardinality(D2) + Cardinality(W2) <= x
    BY <2>2, <2>3, <2>7, <2>9
  <2> QED
    BY <2>1, <2>8, <2>10 DEF LateOf, history
<1>17. Dated' /\ HandedOut' /\ Swept'
  BY <1>1, <1>11, LinksStay, SweptStays
<1>18. Told'
  <2>1. ASSUME NEW e \in Sent' PROVE drops'[e].from # drops'[e].to
    BY <1>1, <1>3, <1>5, <1>7 DEF Told, Sent
  <2>2. ASSUME NEW x \in Clients, NEW s \in shown[x]
        PROVE  Taken(s.n)' /\ (s.read => drops'[s.n].from # AccountOf[x])
    <3>1. s.n \in 1..MaxDrops
      BY <1>1, ShownAre
    <3>2. Taken(s.n) /\ (s.read => drops[s.n].from # AccountOf[x])
      BY <1>1 DEF Told
    <3>3. s.n # d
      BY <1>9, <3>2
    <3> QED
      BY <1>7, <3>1, <3>2, <3>3 DEF Taken
  <2> QED
    BY <2>1, <2>2 DEF Told
<1>19. Befriended'
  BY <1>1 DEF Befriended
<1> QED
  BY <1>10, <1>12, <1>14, <1>15, <1>16, <1>17, <1>18, <1>19 DEF IInv

LEMMA AllIdle ==
  ASSUME req' = [c \in Clients |-> Idle]
  PROVE  /\ Handlers' /\ req' \in [Clients -> Requests]
         /\ \A c \in Clients : req'[c].at = "idle"
         /\ MintsStay /\ InsertsStay /\ WritesStay
<1>1. PICK r \in Requests : r = Idle /\ r.op = "none" /\ r.at = "idle"
  BY IdleIs
<1>2. \A c \in Clients : req'[c] = r
  BY <1>1
<1>3. Handlers'
  BY <1>1, <1>2 DEF Handlers, Fit
<1>4. MintsStay /\ InsertsStay /\ WritesStay
  BY <1>1, <1>2 DEF MintsStay, InsertsStay, WritesStay, Mints, Inserts, Writes
<1> QED
  BY <1>1, <1>2, <1>3, <1>4

LEMMA CreateDropKeeps ==
  ASSUME IInv, NEW c \in Clients, CreateDrop(c)
  PROVE  IInv'
<1>1. TypeOK /\ Handlers
  BY DEF IInv
<1>2. PICK d \in 1..MaxDrops :
        /\ Insert(c, d, Copies)
        /\ Go(c, [req[c] EXCEPT !.at = "back", !.n = d])
        /\ UNCHANGED <<now, exists, friends, switch, forwarding, links, retired,
                       shown, pass, history, left>>
  BY DEF CreateDrop
<1>3. PICK q \in Requests : q = req[c]
  BY <1>1, TypesAre
<1> DEFINE e == [q EXCEPT !.at = "back", !.n = d]
<1>4. /\ e \in Requests /\ e.at = "back" /\ e.n = d /\ e.op = q.op /\ e.id = q.id
      /\ e.since = q.since /\ e.to = q.to
  <2>1. d \in 0..MaxDrops
    BY ConstantsAre
  <2> QED
    BY <2>1 DEF Requests, Steps
<1>5. Go(c, e)
  BY <1>2, <1>3
<1> HIDE DEF e
<1>6. /\ req' \in [Clients -> Requests]
      /\ \A x \in Clients : req'[x] = IF x = c THEN e ELSE req[x]
  BY <1>1, <1>4, <1>5, TypesAre DEF Go
<1>7. now' = now /\ LinksMove /\ left' \in [Parts -> Nat] /\ Copies \in 0..Copies
  BY <1>1, <1>2, NothingMoves, TypesAre, ConstantsAre DEF history
<1>8. ASSUME TakenStay, Taken(d)' PROVE Handlers'
  <2>1. Fit(c, q)'
    BY <1>1, <1>3, <1>7, <1>8, FitStays DEF Handlers
  <2>2. Fit(c, e)'
    BY <1>4, <1>8, <2>1 DEF Fit
  <2> QED
    BY <1>1, <1>4, <1>5, <1>7, <1>8, <2>2, HandlersNext
<1>9. /\ \A x \in Clients : req'[x] = req[x] \/ req'[x].at \in {"idle", "back"}
      /\ req'[c].at \in {"idle", "back"}
  BY <1>4, <1>6
<1> QED
  BY <1>2, <1>6, <1>7, <1>8, <1>9, InsertKeeps

LEMMA CrashSealingKeeps ==
  ASSUME IInv, CrashSealing
  PROVE  IInv'
<1>1. PICK c \in Clients, d \in 1..MaxDrops, k \in 0..(Copies - 1) : Insert(c, d, k) /\ Down
  BY DEF CrashSealing
<1>2. k \in 0..Copies /\ "crashes" \in Parts
  BY ConstantsAre DEF Parts
<1>3. /\ UNCHANGED <<now, exists, friends, switch, forwarding, links, retired,
                     shown, history>>
      /\ pass' = Never /\ left' \in [Parts -> Nat]
      /\ req' = [x \in Clients |-> Idle]
  BY <1>1, <1>2, SpendIs DEF Down, IInv
<1>4. /\ Handlers' /\ req' \in [Clients -> Requests]
      /\ \A x \in Clients : req'[x].at = "idle"
  BY <1>3, AllIdle
<1> QED
  BY <1>1, <1>2, <1>3, <1>4, InsertKeeps

LEMMA CrashKeeps ==
  ASSUME IInv, Crash
  PROVE  IInv'
<1>1. TypeOK /\ "crashes" \in Parts
  BY DEF IInv, Parts
<1>2. /\ UNCHANGED <<now, exists, friends, switch, forwarding, links, retired,
                     drops, shown, history>>
      /\ pass' = Never /\ left' \in [Parts -> Nat]
      /\ req' = [x \in Clients |-> Idle]
  BY <1>1, SpendIs DEF Crash, Down
<1>3. /\ Handlers' /\ req' \in [Clients -> Requests]
      /\ MintsStay /\ InsertsStay /\ WritesStay
  BY <1>2, AllIdle
<1>4. LinksMove /\ DropsMove /\ PromisesMove
  BY <1>2, NothingMoves DEF history, PromisesMove
<1>5. TypeOK'
  BY <1>1, <1>2, <1>3, ConstantsAre DEF TypeOK, history, Times, Never
<1> QED
  BY <1>2, <1>3, <1>4, <1>5, Quiet DEF history

----------------------------------------------------------------------------
(* What a device is shown, and what becomes of drops it has.               *)

LEMMA ToldOf ==
  ASSUME TypeOK, Told, drops' = drops, NEW c \in Clients,
         NEW S \in SUBSET [n : 1..MaxDrops, read : BOOLEAN],
         shown' = [shown EXCEPT ![c] = S],
         \A s \in S : Taken(s.n) /\ (s.read => drops[s.n].from # Me(c))
  PROVE  Told' /\ shown' \in [Clients -> SUBSET [n : 1..MaxDrops, read : BOOLEAN]]
<1>1. shown \in [Clients -> SUBSET [n : 1..MaxDrops, read : BOOLEAN]]
  BY DEF TypeOK
<1>2. \A x \in Clients : shown'[x] = IF x = c THEN S ELSE shown[x]
  BY <1>1
<1>3. \A d \in Sent' : drops'[d].from # drops'[d].to
  BY DEF Told, Sent
<1>4. ASSUME NEW x \in Clients, NEW s \in shown'[x]
      PROVE  Taken(s.n)' /\ (s.read => drops'[s.n].from # AccountOf[x])
  BY <1>2, <1>4 DEF Told, Taken, Me
<1>5. Told'
  BY <1>3, <1>4 DEF Told
<1> QED
  BY <1>1, <1>5

LEMMA ReadBackKeeps ==
  ASSUME IInv, NEW c \in Clients, ReadBack(c)
  PROVE  IInv'
<1>1. /\ TypeOK /\ Handlers /\ Told /\ req[c].op = "drop" /\ req[c].at = "back"
      /\ Finish(c)
  BY DEF IInv, ReadBack, At
<1>2. UNCHANGED <<now, tables, pass, history, left>>
  BY DEF ReadBack
<1>3. now' = now /\ LinksMove /\ DropsMove /\ PromisesMove /\ drops' = drops
  BY <1>2, NothingMoves DEF tables, history, PromisesMove
<1>4. /\ Handlers' /\ req' \in [Clients -> Requests]
      /\ MintsStay /\ InsertsStay /\ WritesStay
  BY <1>1, <1>3, FinishOn
<1>5. PICK d \in 1..MaxDrops : d = req[c].n /\ Taken(d)
  BY <1>1 DEF Handlers, Fit
<1>6. Told' /\ shown' \in [Clients -> SUBSET [n : 1..MaxDrops, read : BOOLEAN]]
  <2>1. CASE shown' = shown
    BY <1>1, <1>3, <2>1, ToldStays DEF TypeOK
  <2>2. CASE shown' = [shown EXCEPT ![c] = {ForSender(d)}]
    <3> DEFINE s == [n |-> d, read |-> FALSE]
               S == {s}
    <3>1. s \in [n : 1..MaxDrops, read : BOOLEAN] /\ s.n = d /\ s.read = FALSE
      OBVIOUS
    <3>2. shown' = [shown EXCEPT ![c] = S]
      BY <2>2 DEF ForSender
    <3>3. S \in SUBSET [n : 1..MaxDrops, read : BOOLEAN]
          /\ \A x \in S : x.n = d /\ x.read = FALSE
      BY <3>1
    <3> HIDE DEF S, s
    <3> QED
      BY <1>1, <1>3, <1>5, <3>2, <3>3, ToldOf
  <2> QED
    BY <1>5, <2>1, <2>2 DEF ReadBack
<1>7. TypeOK'
  BY <1>1, <1>2, <1>4, <1>6 DEF TypeOK, tables, history
<1> QED
  BY <1>2, <1>3, <1>4, <1>6, <1>7, Quiet DEF tables, history

LEMMA LookKeeps ==
  ASSUME IInv, NEW c \in Clients, Look(c)
  PROVE  IInv'
<1>1. TypeOK /\ Handlers /\ Told /\ "drops" \in Parts
  BY DEF IInv, Parts
<1>2. UNCHANGED <<now, tables, req, pass, history>> /\ left' \in [Parts -> Nat]
  BY <1>1, SpendIs DEF Look
<1>3. /\ now' = now /\ LinksMove /\ DropsMove /\ PromisesMove /\ drops' = drops
      /\ MintsStay /\ InsertsStay /\ WritesStay
  BY <1>2, NothingMoves DEF tables, history, PromisesMove
<1>4. Handlers'
  BY <1>1, <1>2, <1>3, HandlersStay
<1>5. \A d \in Sent : /\ d \in 1..MaxDrops /\ Taken(d) /\ drops[d].from # drops[d].to
  BY <1>1 DEF Sent, Taken, Told
<1>6. \A d \in Sent : /\ ForRecipient(d) \in [n : 1..MaxDrops, read : BOOLEAN]
                      /\ ForSender(d) \in [n : 1..MaxDrops, read : BOOLEAN]
                      /\ ForRecipient(d).n = d /\ ForSender(d).n = d
                      /\ ForSender(d).read = FALSE
  BY <1>5 DEF ForRecipient, ForSender
<1>7. PICK S : /\ shown' = [shown EXCEPT ![c] = S]
               /\ \/ S = {ForRecipient(d) : d \in Inbox(Me(c))}
                  \/ S = {ForSender(d) : d \in Outbox(Me(c))}
                  \/ S = Conversation(Me(c))
  BY DEF Look
<1>8. \A s \in S : \E d \in Sent :
        \/ s = ForSender(d)
        \/ s = ForRecipient(d) /\ drops[d].from # Me(c)
  <2>1. CASE S = {ForRecipient(d) : d \in Inbox(Me(c))}
    BY <1>5, <2>1 DEF Inbox
  <2>2. CASE S = {ForSender(d) : d \in Outbox(Me(c))}
    BY <2>2 DEF Outbox
  <2>3. CASE S = Conversation(Me(c))
    BY <2>3 DEF Conversation
  <2> QED
    BY <1>7, <2>1, <2>2, <2>3
<1>9. \A s \in S : /\ s \in [n : 1..MaxDrops, read : BOOLEAN]
                   /\ Taken(s.n) /\ (s.read => drops[s.n].from # Me(c))
  <2> SUFFICES ASSUME NEW s \in S
               PROVE  /\ s \in [n : 1..MaxDrops, read : BOOLEAN]
                      /\ Taken(s.n) /\ (s.read => drops[s.n].from # Me(c))
    OBVIOUS
  <2>1. PICK d \in Sent : \/ s = ForSender(d)
                          \/ s = ForRecipient(d) /\ drops[d].from # Me(c)
    BY <1>8
  <2>2. s.n = d /\ s \in [n : 1..MaxDrops, read : BOOLEAN] /\ Taken(d)
    BY <1>5, <1>6, <2>1
  <2>3. s.read => drops[d].from # Me(c)
    BY <1>6, <2>1
  <2> QED
    BY <2>2, <2>3
<1>10. Told' /\ shown' \in [Clients -> SUBSET [n : 1..MaxDrops, read : BOOLEAN]]
  <2>1. S \in SUBSET [n : 1..MaxDrops, read : BOOLEAN]
    BY <1>9
  <2> QED
    BY <1>1, <1>3, <1>7, <1>9, <2>1, ToldOf
<1>11. TypeOK'
  BY <1>1, <1>2, <1>10 DEF TypeOK, tables, history
<1> QED
  BY <1>2, <1>3, <1>4, <1>10, <1>11, Quiet DEF tables, history

LEMMA ReceiveKeeps ==
  ASSUME IInv, NEW c \in Clients, Receive(c)
  PROVE  IInv'
<1>1. TypeOK /\ Handlers /\ "drops" \in Parts
  BY DEF IInv, Parts
<1>2. /\ UNCHANGED <<now, exists, friends, switch, forwarding, links, retired,
                     req, shown, pass, history>>
      /\ left' \in [Parts -> Nat]
  BY <1>1, SpendIs DEF Receive
<1>3. PICK d \in 1..MaxDrops :
        \/ drops' = [drops EXCEPT ![d].read = now]
        \/ drops' = [drops EXCEPT ![d].archived = TRUE]
        \/ drops' = [drops EXCEPT ![d].reaction = ~@]
  BY DEF Receive
<1>4. PICK w \in Drops : w = drops[d]
  BY <1>1, TypesAre
<1>5. PICK n \in Times : n = now
  BY NowIs
<1>6. PICK v \in Drops : /\ drops' = [drops EXCEPT ![d] = v]
                         /\ v.from = w.from /\ v.to = w.to /\ v.at = w.at
  <2> DEFINE x == [w EXCEPT !.read = n]
             y == [w EXCEPT !.archived = TRUE]
             z == [w EXCEPT !.reaction = ~@]
  <2>1. x \in Drops /\ x.from = w.from /\ x.to = w.to /\ x.at = w.at
    BY DEF Drops
  <2>2. y \in Drops /\ y.from = w.from /\ y.to = w.to /\ y.at = w.at
    BY DEF Drops
  <2>3. z \in Drops /\ z.from = w.from /\ z.to = w.to /\ z.at = w.at
    BY DEF Drops
  <2>4. \/ drops' = [drops EXCEPT ![d] = x]
        \/ drops' = [drops EXCEPT ![d] = y]
        \/ drops' = [drops EXCEPT ![d] = z]
    BY <1>3, <1>4, <1>5
  <2> HIDE DEF x, y, z
  <2> QED
    BY <2>1, <2>2, <2>3, <2>4
<1>7. /\ drops' \in [1..MaxDrops -> Drops]
      /\ \A e \in 1..MaxDrops : drops'[e] = IF e = d THEN v ELSE drops[e]
  BY <1>1, <1>6, TypesAre
<1>8. DropsMove
  BY <1>4, <1>6, <1>7 DEF DropsMove
<1>9. /\ now' = now /\ LinksMove /\ PromisesMove
      /\ MintsStay /\ InsertsStay /\ WritesStay
  BY <1>2, NothingMoves DEF history, PromisesMove
<1>10. Handlers'
  BY <1>1, <1>2, <1>8, <1>9, HandlersStay
<1>11. TypeOK'
  BY <1>1, <1>2, <1>7 DEF TypeOK, history
<1> QED
  BY <1>2, <1>8, <1>9, <1>10, <1>11, Quiet DEF history

----------------------------------------------------------------------------
(* Links go: by hand, unused, or past their deadline.                      *)

LEMMA NoLinkIs == NoLink \in Links /\ NoLink.kind = "none" /\ NoLink.owner = Nobody
<1>1. 0 \in Times /\ Never \in Never..(MaxNow + Ttl)
  BY ConstantsAre DEF Times, Never
<1> QED
  BY <1>1 DEF NoLink, Links

LEMMA DeleteLinkKeeps ==
  ASSUME IInv, NEW c \in Clients, DeleteLink(c)
  PROVE  IInv'
<1>1. TypeOK /\ Handlers /\ "links" \in Parts
  BY DEF IInv, Parts
<1>2. /\ UNCHANGED <<now, exists, friends, switch, forwarding, retired, drops,
                     req, shown, pass, promised, late>>
      /\ left' \in [Parts -> Nat]
  BY <1>1, SpendIs DEF DeleteLink
<1>3. PICK i \in Ids : /\ links' = [links EXCEPT ![i] = NoLink]
                       /\ withdrawn' = withdrawn \cup {i}
  BY DEF DeleteLink, OwnLinks
<1>4. /\ links' \in [Ids -> Links]
      /\ \A j \in Ids : links'[j] = IF j = i THEN NoLink ELSE links[j]
  BY <1>1, <1>3, NoLinkIs, TypesAre
<1>5. LinksMove
  BY <1>3, <1>4 DEF LinksMove
<1>6. /\ now' = now /\ DropsMove /\ PromisesMove
      /\ MintsStay /\ InsertsStay /\ WritesStay
  BY <1>2, NothingMoves DEF PromisesMove
<1>7. Handlers'
  BY <1>1, <1>2, <1>5, <1>6, HandlersStay
<1>8. TypeOK'
  BY <1>1, <1>2, <1>3, <1>4 DEF TypeOK
<1> QED
  BY <1>2, <1>5, <1>6, <1>7, <1>8, Quiet

LEMMA SweepIdleKeeps ==
  ASSUME IInv, SweepIdle
  PROVE  IInv'
<1>1. TypeOK /\ Handlers
  BY DEF IInv
<1>2. UNCHANGED <<now, exists, friends, switch, forwarding, drops, req, shown,
                  history, left>>
  BY DEF SweepIdle
<1>3. links' = [i \in Ids |-> IF Unused(i) THEN NoLink ELSE links[i]]
  BY DEF SweepIdle
<1>4. links' \in [Ids -> Links]
  BY <1>1, <1>3, NoLinkIs, TypesAre
<1>5. LinksMove
  BY <1>2, <1>3 DEF LinksMove, history
<1>6. retired' \in [Ids -> Times] /\ pass' = now
  <2>1. now \in Times /\ Never \in Times /\ retired \in [Ids -> Times]
    BY <1>1, NowIs, TypesAre, ConstantsAre DEF Times, Never
  <2>2. PICK n \in Times : n = now
    BY <2>1
  <2>3. retired' = [i \in Ids |->
           IF Unused(i) THEN n
           ELSE IF retired[i] < n - TombstoneDays THEN Never ELSE retired[i]]
    BY <2>2 DEF SweepIdle
  <2> QED
    BY <2>1, <2>3 DEF SweepIdle
<1>7. /\ now' = now /\ DropsMove /\ PromisesMove
      /\ MintsStay /\ InsertsStay /\ WritesStay
  BY <1>2, NothingMoves DEF history, PromisesMove
<1>8. Handlers'
  BY <1>1, <1>2, <1>5, <1>7, HandlersStay
<1>9. Swept'
  <2> SUFFICES ASSUME NEW i \in Ids, links'[i].kind = "short"
               PROVE  links'[i].used >= pass' - IdleDays
    BY DEF Swept
  <2>1. ~Unused(i) /\ links'[i] = links[i]
    BY <1>3, NoLinkIs
  <2>2. now \in Int /\ links[i].used \in Int /\ IdleDays \in Int
    BY <1>1, TypesAre, ConstantsAre
  <2> QED
    BY <1>6, <2>1, <2>2 DEF Unused
<1>10. TypeOK'
  BY <1>1, <1>2, <1>4, <1>6, NowIs DEF TypeOK, history
<1> QED
  BY <1>2, <1>5, <1>6, <1>7, <1>8, <1>9, <1>10, Quiet DEF history

LEMMA SweepExpiredKeeps ==
  ASSUME IInv, SweepExpired
  PROVE  IInv'
<1>1. TypeOK /\ Handlers
  BY DEF IInv
<1>2. UNCHANGED <<now, exists, friends, switch, forwarding, retired, drops,
                  req, shown, promised, late, left>>
  BY DEF SweepExpired
<1>3. /\ links' = [i \in Ids |-> IF Expired(i) THEN NoLink ELSE links[i]]
      /\ withdrawn' = withdrawn \cup {i \in Ids : Expired(i)}
      /\ pass' = Never
  BY DEF SweepExpired
<1>4. links' \in [Ids -> Links]
  BY <1>1, <1>3, NoLinkIs, TypesAre
<1>5. LinksMove
  BY <1>3 DEF LinksMove
<1>6. /\ now' = now /\ DropsMove /\ PromisesMove
      /\ MintsStay /\ InsertsStay /\ WritesStay
  BY <1>2, NothingMoves DEF PromisesMove
<1>7. Handlers'
  BY <1>1, <1>2, <1>5, <1>6, HandlersStay
<1>8. TypeOK'
  BY <1>1, <1>2, <1>3, <1>4, ConstantsAre DEF TypeOK, Times, Never
<1> QED
  BY <1>2, <1>3, <1>5, <1>6, <1>7, <1>8, Quiet

----------------------------------------------------------------------------
(* Time, friendships, settings.                                            *)

LEMMA TickKeeps ==
  ASSUME IInv, Tick
  PROVE  IInv'
<1>1. /\ TypeOK /\ Handlers /\ Few /\ Bounded /\ Lately
      /\ Dated /\ HandedOut /\ Swept /\ Befriended /\ Told
  BY DEF IInv
<1>2. /\ now < MaxNow /\ now' = now + 1
      /\ \A c \in Clients : req[c] = Idle \/ req[c].since = now
      /\ UNCHANGED <<tables, req, shown, pass, history, left>>
  BY DEF Tick
<1>3. now' \in 0..MaxNow /\ now' \in Int /\ now <= now' /\ now \in Int
  BY <1>1, <1>2, TypesAre, ConstantsAre
<1>4. TypeOK'
  BY <1>1, <1>2, <1>3 DEF TypeOK, tables, history
<1>5. /\ LinksMove /\ DropsMove /\ MintsStay /\ InsertsStay /\ WritesStay
      /\ UNCHANGED <<exists, late>>
  BY <1>2, NothingMoves DEF tables, history
<1>6. Few' /\ Bounded' /\ Lately'
  BY <1>1, <1>3, <1>5, FewStays, BoundedStays, LatelyStays
<1>7. Handlers'
  <2> SUFFICES ASSUME NEW c \in Clients PROVE Fit(c, req[c])'
    BY DEF Handlers
  <2>1. PICK q \in Requests : q = req[c]
    BY <1>1, TypesAre
  <2>2. Fit(c, q) /\ (q = Idle \/ q.since = now)
    BY <1>1, <1>2, <2>1 DEF Handlers
  <2>3. q.op # "none" => now' - 1 <= q.since /\ q.since <= now'
    BY <1>2, <1>3, <2>2, IdleIs
  <2>4. Fit(c, q)'
    BY <1>2, <2>2, <2>3 DEF Fit, tables, history, Live, Taken
  <2> QED
    BY <1>2, <2>1, <2>4 DEF Fit
<1>8. Dated'
  <2>1. \A i \in Ids : /\ promised[i] \in Int /\ links[i].used \in Int
                       /\ promised[i] <= now /\ links[i].used <= now
    BY <1>1, TypesAre DEF Dated
  <2>2. \A i \in Ids : promised[i] <= now' /\ links[i].used <= now'
    BY <1>3, <2>1
  <2>3. pass <= now'
    BY <1>1, <1>3, TypesAre DEF Dated
  <2> QED
    BY <1>2, <2>2, <2>3 DEF Dated, tables, history
<1>9. HandedOut'
  <2>1. \A i \in Ids : promised[i] + IdleDays \in Int
    BY <1>1, TypesAre, ConstantsAre
  <2>2. \A i \in Ids : now' < promised[i] + IdleDays => now < promised[i] + IdleDays
    BY <1>3, <2>1
  <2> QED
    BY <1>1, <1>2, <2>2 DEF HandedOut, tables, history, Live
<1>10. Swept' /\ Befriended' /\ Told'
  <2>1. Told'
    BY <1>1, <1>2, <1>5, ToldStays
  <2> QED
    BY <1>1, <1>2, <2>1 DEF Swept, Befriended, tables
<1> QED
  BY <1>4, <1>6, <1>7, <1>8, <1>9, <1>10 DEF IInv

LEMMA RelateKeeps ==
  ASSUME IInv, Relate
  PROVE  IInv'
<1>1. TypeOK /\ Handlers /\ Befriended /\ "rest" \in Parts
  BY DEF IInv, Parts
<1>2. /\ UNCHANGED <<now, exists, switch, forwarding, links, retired, drops, req,
                     shown, pass, history>>
      /\ left' \in [Parts -> Nat]
  BY <1>1, SpendIs DEF Relate
<1>3. friends' \subseteq Accounts \X Accounts /\ Befriended'
  <2>1. ASSUME NEW a \in exists, NEW b \in exists,
               friends' = friends \cup {<<a, b>>, <<b, a>>}
        PROVE  friends' \subseteq Accounts \X Accounts /\ Befriended'
    BY <1>1, <1>2, <2>1 DEF TypeOK, Befriended
  <2>2. ASSUME friends' \subseteq friends
        PROVE  friends' \subseteq Accounts \X Accounts /\ Befriended'
    BY <1>1, <1>2, <2>2 DEF TypeOK, Befriended
  <2> QED
    BY <2>1, <2>2 DEF Relate
<1>4. /\ now' = now /\ LinksMove /\ DropsMove /\ PromisesMove
      /\ MintsStay /\ InsertsStay /\ WritesStay
  BY <1>2, NothingMoves DEF history, PromisesMove
<1>5. Handlers'
  BY <1>1, <1>2, <1>4, HandlersStay
<1>6. TypeOK'
  BY <1>1, <1>2, <1>3 DEF TypeOK, history
<1> QED
  BY <1>2, <1>3, <1>4, <1>5, <1>6, Quiet DEF history

LEMMA ConfigureKeeps ==
  ASSUME IInv, Configure
  PROVE  IInv'
<1>1. TypeOK /\ Handlers /\ "rest" \in Parts
  BY DEF IInv, Parts
<1>2. /\ UNCHANGED <<now, exists, friends, links, retired, drops, req, shown,
                     pass, history>>
      /\ left' \in [Parts -> Nat]
  BY <1>1, SpendIs DEF Configure
<1>3. switch' \in BOOLEAN /\ forwarding' \subseteq Accounts
  BY <1>1 DEF Configure, TypeOK
<1>4. /\ now' = now /\ LinksMove /\ DropsMove /\ PromisesMove
      /\ MintsStay /\ InsertsStay /\ WritesStay
  BY <1>2, NothingMoves DEF history, PromisesMove
<1>5. Handlers'
  BY <1>1, <1>2, <1>4, HandlersStay
<1>6. TypeOK'
  BY <1>1, <1>2, <1>3 DEF TypeOK, history
<1> QED
  BY <1>2, <1>4, <1>5, <1>6, Quiet DEF history

----------------------------------------------------------------------------
(* An erasure: nothing is left of the account but what is being written.   *)

LEMMA EraseKeeps ==
  ASSUME IInv, Erase
  PROVE  IInv'
<1>1. /\ TypeOK /\ Handlers /\ Few /\ Bounded /\ Lately
      /\ Dated /\ HandedOut /\ Swept /\ Befriended /\ Told /\ "rest" \in Parts
  BY DEF IInv, Parts
<1>2. /\ UNCHANGED <<now, switch, retired, req, shown, pass, promised>>
      /\ left' \in [Parts -> Nat]
  BY <1>1, SpendIs DEF Erase
<1>3. PICK a \in exists :
       /\ exists' = exists \ {a}
       /\ friends' = {p \in friends : a \notin {p[1], p[2]}}
       /\ forwarding' = forwarding \ {a}
       /\ links' = [i \in Ids |-> IF i \in OwnedBy(a) THEN NoLink ELSE links[i]]
       /\ drops' = [d \in 1..MaxDrops |->
            IF a \in {drops[d].from, drops[d].to} THEN GoneDrop ELSE drops[d]]
       /\ withdrawn' = withdrawn \cup OwnedBy(a)
       /\ late' = [late EXCEPT ![a] = Cardinality({c \in Clients : req[c] # Idle})]
  BY DEF Erase
<1>4. a \in Accounts /\ a # Nobody
  BY <1>1, <1>3, ConstantsAre, TypesAre
<1>5. /\ GoneDrop \in Drops /\ GoneDrop.from = Nobody /\ GoneDrop.to = Nobody
      /\ GoneDrop.at = Never
  <2>1. Never \in Times /\ 0 \in Times /\ 0 \in 0..Copies
    BY ConstantsAre DEF Times, Never
  <2>2. NoDrop \in Drops /\ NoDrop.from = Nobody /\ NoDrop.to = Nobody
    BY <2>1 DEF NoDrop, Drops
  <2> QED
    BY <2>1, <2>2 DEF GoneDrop, Drops
<1>6. LinksMove /\ links' \in [Ids -> Links]
  <2>1. LinksMove
    BY <1>3 DEF LinksMove
  <2> QED
    BY <1>1, <1>3, <2>1, NoLinkIs, TypesAre
<1>7. DropsMove /\ drops' \in [1..MaxDrops -> Drops]
  <2>1. \A d \in 1..MaxDrops :
          drops'[d] = IF a \in {drops[d].from, drops[d].to} THEN GoneDrop ELSE drops[d]
    BY <1>3
  <2>2. DropsMove
    BY <1>5, <2>1 DEF DropsMove
  <2>3. drops' \in [1..MaxDrops -> Drops]
    BY <1>1, <1>3, <1>5, TypesAre
  <2> QED
    BY <2>2, <2>3
<1>8. PICK B : B = {c \in Clients : req[c] # Idle}
  OBVIOUS
<1>9. /\ B \subseteq Clients /\ IsFiniteSet(B) /\ Cardinality(B) \in Nat
      /\ Cardinality(B) \in 0..Cardinality(Clients)
  <2>1. B \subseteq Clients /\ IsFiniteSet(B) /\ Cardinality(B) \in Nat
    BY <1>8, FiniteAre
  <2>2. Cardinality(B) <= Cardinality(Clients) /\ Cardinality(Clients) \in Nat
    BY <2>1, ConstantsAre, Fewer
  <2> QED
    BY <2>1, <2>2
<1>10. /\ late' \in [Accounts -> 0..Cardinality(Clients)]
       /\ \A b \in Accounts : late'[b] = IF b = a THEN Cardinality(B) ELSE late[b]
  BY <1>1, <1>3, <1>4, <1>8, <1>9, TypesAre
<1>11. TypeOK'
  <2>1. withdrawn' \subseteq Ids
    BY <1>1, <1>3 DEF TypeOK, OwnedBy
  <2> QED
    BY <1>1, <1>2, <1>3, <1>6, <1>7, <1>10, <2>1 DEF TypeOK
<1>12. /\ now' = now /\ now' \in Int /\ now <= now' /\ PromisesMove
       /\ MintsStay /\ InsertsStay
  BY <1>1, <1>2, NothingMoves, TypesAre DEF PromisesMove
<1>13. Handlers' /\ Few' /\ Bounded'
  BY <1>1, <1>2, <1>6, <1>7, <1>12, HandlersStay, FewStays, BoundedStays
<1>14. Lately'
  <2> SUFFICES ASSUME NEW b \in Accounts, b \notin exists' PROVE LateOf(b)'
    BY DEF Lately, LateOf
  <2>1. CASE b # a
    <3>1. LateOf(b) /\ late'[b] = late[b]
      BY <1>1, <1>3, <1>10, <2>1, LatelyIs
    <3>2. Writing(b)' \subseteq Writing(b)
      BY <1>2 DEF Writing
    <3> QED
      BY <1>1, <1>6, <1>7, <3>1, <3>2, LateStays
  <2>2. CASE b = a
    <3>1. PICK O, D, W : O = OwnedBy(a)' /\ D = Dropped(a)' /\ W = Writing(a)'
      OBVIOUS
    <3>2. O = {}
      BY <1>3, <1>4, <3>1, NoLinkIs DEF OwnedBy
    <3>3. D = {}
      BY <1>3, <1>4, <1>5, <3>1 DEF Dropped, Sent
    <3>4. W \subseteq B
      BY <1>2, <1>8, <3>1, IdleIs DEF Writing, Writes
    <3>5. Cardinality(O) = 0 /\ Cardinality(D) = 0
      BY <3>2, <3>3, FS_EmptySet
    <3>6. Cardinality(W) <= Cardinality(B) /\ Cardinality(W) \in Nat
      BY <1>9, <3>4, Fewer
    <3>7. Cardinality(O) + Cardinality(D) + Cardinality(W) <= Cardinality(B)
      BY <1>9, <3>5, <3>6
    <3> QED
      BY <1>10, <2>2, <3>1, <3>7 DEF LateOf
  <2> QED
    BY <2>1, <2>2
<1>15. Dated' /\ HandedOut' /\ Swept' /\ Told'
  BY <1>1, <1>2, <1>6, <1>7, <1>12, LinksStay, SweptStays, ToldStays
<1>16. Befriended'
  BY <1>1, <1>3 DEF Befriended
<1> QED
  BY <1>11, <1>13, <1>14, <1>15, <1>16 DEF IInv

----------------------------------------------------------------------------
LEMMA InitHolds == Init => IInv
<1> SUFFICES ASSUME Init PROVE IInv
  OBVIOUS
<1>1. /\ now = 0 /\ exists = Accounts /\ switch = TRUE
      /\ friends = {p \in Accounts \X Accounts : p[1] # p[2]}
      /\ forwarding = {} /\ links = [i \in Ids |-> NoLink]
      /\ retired = [i \in Ids |-> Never] /\ drops = [d \in 1..MaxDrops |-> NoDrop]
      /\ req = [c \in Clients |-> Idle] /\ shown = [c \in Clients |-> {}]
      /\ pass = Never /\ promised = [i \in Ids |-> Never] /\ withdrawn = {}
      /\ late = [a \in Accounts |-> 0] /\ left \in Budgets
  BY DEF Init
<1>2. Never \in Times /\ 0 \in Times /\ 0 \in 0..Copies /\ 0 \in 0..MaxNow
  BY ConstantsAre DEF Times, Never
<1>3. NoDrop \in Drops /\ NoDrop.from = Nobody
  BY <1>2 DEF NoDrop, Drops
<1>4. Cardinality(Clients) \in Nat /\ 0 \in 0..Cardinality(Clients)
  BY FiniteAre
<1>5. TypeOK
  <2>1. left \in [Parts -> Nat] /\ friends \subseteq Accounts \X Accounts
    BY <1>1, ConstantsAre
  <2> QED
    BY <1>1, <1>2, <1>3, <1>4, <2>1, NoLinkIs, IdleIs DEF TypeOK
<1>6. Handlers
  BY <1>1, IdleIs DEF Handlers
<1>7. Few
  <2> SUFFICES ASSUME NEW a \in Accounts, NEW t \in Targets
               PROVE  Cardinality(Reusable(a, t)) + Cardinality(Minting(a, t)) <= DevicesOf(a)
    BY DEF Few
  <2>1. Reusable(a, t) = {} /\ Minting(a, t) = {}
    BY <1>1, NoLinkIs, IdleIs DEF Reusable, Minting, Mints
  <2>2. Cardinality(Reusable(a, t)) = 0 /\ Cardinality(Minting(a, t)) = 0
    BY <2>1, FS_EmptySet
  <2>3. DevicesOf(a) \in Nat
    BY DevicesAre
  <2> QED
    BY <2>2, <2>3
<1>8. Bounded
  <2> SUFFICES ASSUME NEW a \in Accounts, NEW b \in Accounts
               PROVE  Cardinality(SentTo(a, b, now - Window)) + Cardinality(Inserting(a, b))
                        <= MaxPerWindow + DevicesOf(a) - 1
    BY DEF Bounded
  <2>1. SentTo(a, b, now - Window) = {} /\ Inserting(a, b) = {}
    BY <1>1, <1>3, IdleIs DEF SentTo, Sent, Inserting, Inserts
  <2>2. Cardinality(SentTo(a, b, now - Window)) = 0 /\ Cardinality(Inserting(a, b)) = 0
    BY <2>1, FS_EmptySet
  <2>3. DevicesOf(a) \in Nat
    BY DevicesAre
  <2> QED
    BY <2>2, <2>3, ConstantsAre
<1>9. Lately
  BY <1>1 DEF Lately
<1>10. Dated /\ HandedOut /\ Swept
  BY <1>1 DEF Dated, HandedOut, Swept, NoLink, Never
<1>11. Befriended
  BY <1>1 DEF Befriended
<1>12. Told
  BY <1>1, <1>3 DEF Told, Sent
<1> QED
  BY <1>5, <1>6, <1>7, <1>8, <1>9, <1>10, <1>11, <1>12 DEF IInv

LEMMA StutterKeeps ==
  ASSUME IInv, UNCHANGED vars
  PROVE  IInv'
<1>1. TypeOK /\ Handlers
  BY DEF IInv
<1>2. UNCHANGED <<now, tables, shown, pass, history>> /\ left' = left /\ req' = req
  BY DEF vars, tables, history
<1>3. /\ now' = now /\ LinksMove /\ DropsMove
      /\ MintsStay /\ InsertsStay /\ WritesStay
  BY <1>2, NothingMoves DEF tables, history
<1>4. /\ Handlers' /\ left' \in [Parts -> Nat] /\ req' \in [Clients -> Requests]
  BY <1>1, <1>2, <1>3, HandlersStay, TypesAre
<1> QED
  BY <1>2, <1>3, <1>4, OnlyHandlersMove

LEMMA NextKeeps == IInv /\ [Next]_vars => IInv'
<1> SUFFICES ASSUME IInv, [Next]_vars PROVE IInv'
  OBVIOUS
<1>1. ASSUME NEW c \in Clients, Handle(c) PROVE IInv'
  BY <1>1, ReuseKeeps, MintKeeps, HandOutKeeps, LookupLinkKeeps, VisitsKeep, ClickKeeps,
     CheckFriendsKeeps, CheckLimitKeeps, CreateDropKeeps, ReadBackKeeps DEF Handle
<1>2. ASSUME NEW c \in Clients,
             \/ CallShare(c) \/ DeleteLink(c) \/ Open(c)
             \/ CallDrop(c) \/ Receive(c) \/ Look(c)
      PROVE  IInv'
  BY <1>2, CallShareKeeps, DeleteLinkKeeps, OpenKeeps, CallDropKeeps, ReceiveKeeps, LookKeeps
<1>3. ASSUME SweepIdle \/ SweepExpired \/ Tick \/ Relate \/ Configure \/ Erase
             \/ Crash \/ CrashSealing
      PROVE  IInv'
  BY <1>3, SweepIdleKeeps, SweepExpiredKeeps, TickKeeps, RelateKeeps, ConfigureKeeps,
     EraseKeeps, CrashKeeps, CrashSealingKeeps
<1>4. CASE UNCHANGED vars
  BY <1>4, StutterKeeps
<1>5. CASE Next
  BY <1>1, <1>2, <1>3, <1>5 DEF Next
<1> QED
  BY <1>4, <1>5

(* What every handler read before it let go of the database stays true of  *)
(* it, and rows and handlers past their checks stay within their bounds    *)
(* together (db_short_links.rs, schema_drops.rs, sweeper.rs).              *)
THEOREM SharingStaysSound == Spec => []IInv
<1>1. Init => IInv
  BY InitHolds
<1>2. IInv /\ [Next]_vars => IInv'
  BY NextKeeps
<1> QED
  BY <1>1, <1>2, PTL DEF Spec

LEMMA BoundsHold == IInv => RacesCostOneRowEach
<1> SUFFICES ASSUME IInv PROVE RacesCostOneRowEach
  OBVIOUS
<1>1. TypeOK /\ Few /\ Bounded /\ Lately /\ Told
  BY DEF IInv
<1>2. LinksAreFew
  <2> SUFFICES ASSUME NEW a \in Accounts, NEW t \in Targets
               PROVE  Cardinality(Reusable(a, t)) <= DevicesOf(a)
    BY DEF LinksAreFew
  <2>1. PICK R, M : R = Reusable(a, t) /\ M = Minting(a, t)
    OBVIOUS
  <2>2. R \subseteq Ids /\ M \subseteq Clients
    BY <2>1 DEF Reusable, Minting
  <2>3. Cardinality(R) \in Nat /\ Cardinality(M) \in Nat /\ DevicesOf(a) \in Nat
    BY <2>2, FiniteAre, DevicesAre
  <2> QED
    BY <1>1, <2>1, <2>3 DEF Few
<1>3. InboxIsBounded
  <2> SUFFICES ASSUME NEW a \in Accounts, NEW b \in Accounts
               PROVE  Cardinality(SentTo(a, b, now - Window))
                        <= MaxPerWindow + DevicesOf(a) - 1
    BY <1>1, TypesAre DEF InboxIsBounded
  <2>1. PICK R, M : R = SentTo(a, b, now - Window) /\ M = Inserting(a, b)
    OBVIOUS
  <2>2. R \subseteq 1..MaxDrops /\ M \subseteq Clients
    BY <2>1 DEF SentTo, Sent, Inserting
  <2>3. Cardinality(R) \in Nat /\ Cardinality(M) \in Nat /\ DevicesOf(a) \in Nat
    BY <2>2, FiniteAre, DevicesAre
  <2> QED
    BY <1>1, <2>1, <2>3, ConstantsAre DEF Bounded
<1>4. ErasureLeavesOnlyTheLate
  <2> SUFFICES ASSUME NEW a \in Accounts \ exists
               PROVE  Cardinality(OwnedBy(a)) + Cardinality(Dropped(a)) <= late[a]
    BY DEF ErasureLeavesOnlyTheLate, OwnedBy, Dropped
  <2>1. PICK o, d, w, x : /\ o = Cardinality(OwnedBy(a)) /\ d = Cardinality(Dropped(a))
                          /\ w = Cardinality(Writing(a)) /\ x = late[a]
    OBVIOUS
  <2>2. o \in Nat /\ d \in Nat /\ w \in Nat
    BY <2>1, LateSets
  <2>3. x \in 0..Cardinality(Clients) /\ Cardinality(Clients) \in Nat
    BY <1>1, <2>1, TypesAre, FiniteAre
  <2>4. o + d + w <= x
    BY <1>1, <2>1 DEF Lately
  <2> QED
    BY <2>1, <2>2, <2>3, <2>4
<1>5. SendersSeeNoReceipts
  BY <1>1 DEF Told, SendersSeeNoReceipts
<1> QED
  BY <1>1, <1>2, <1>3, <1>4, <1>5 DEF RacesCostOneRowEach

(* However many devices of an account race, an account has no more links   *)
(* to one target than devices, passes the limit of drops by no more than   *)
(* its other devices, leaves behind an erasure no more than was being      *)
(* written, and is never told what was read (db_short_links.rs:1-9,        *)
(* schema_drops/limits.rs, db/erasure.rs:76-81).                           *)
THEOREM RacesStayCheap == Spec => []RacesCostOneRowEach
BY SharingStaysSound, BoundsHold, PTL

LEMMA NamesAreLeft ==
  ASSUME IInv, [Next]_vars
  PROVE  [\A i \in Ids :
       (pass' # pass /\ Live(i) /\ links[i].kind = "short" /\ ~Live(i)'
          /\ links[i].used < (IF pass = Never THEN now ELSE pass) - IdleDays)
         => retired'[i] # Never]_vars
<1> SUFFICES ASSUME NEW i \in Ids, pass' # pass, Live(i), links[i].kind = "short", ~Live(i)',
                    links[i].used < (IF pass = Never THEN now ELSE pass) - IdleDays
             PROVE  retired'[i] # Never
  OBVIOUS
<1>1. TypeOK /\ Swept /\ now \in Nat /\ pass \in Int
  BY TypesAre DEF IInv
<1>2. SweepIdle \/ SweepExpired \/ Down
  <2>1. Next
    BY DEF vars
  <2>2. ASSUME NEW c \in Clients, Handle(c) PROVE FALSE
    BY <2>2 DEF Handle, Reuse, Mint, HandOut, LookupLink, PlayShare, CheckHost, Click,
                Refuse, CheckFriends, CheckLimit, CreateDrop, ReadBack
  <2>3. ASSUME NEW c \in Clients,
               \/ CallShare(c) \/ DeleteLink(c) \/ Open(c)
               \/ CallDrop(c) \/ Receive(c) \/ Look(c)
        PROVE  FALSE
    BY <2>3 DEF CallShare, DeleteLink, Open, CallDrop, Receive, Look, Begin
  <2>4. ~(Tick \/ Relate \/ Configure \/ Erase)
    BY DEF Tick, Relate, Configure, Erase
  <2> QED
    BY <2>1, <2>2, <2>3, <2>4 DEF Next, Crash, CrashSealing
<1>3. CASE SweepIdle
  <2>1. /\ links'[i] = IF Unused(i) THEN NoLink ELSE links[i]
        /\ Unused(i) => retired'[i] = now
    BY <1>3 DEF SweepIdle
  <2>2. Unused(i)
    BY <2>1 DEF Live
  <2> QED
    BY <1>1, <2>1, <2>2 DEF Never
<1>4. CASE SweepExpired
  <2>1. links[i].used \in Int /\ IdleDays \in Int /\ pass # Never
    BY <1>1, <1>4, TypesAre, ConstantsAre DEF SweepExpired
  <2>2. links[i].used >= pass - IdleDays
    BY <1>1, <2>1 DEF Swept
  <2> QED
    BY <1>1, <2>1, <2>2
<1>5. CASE Down
  BY <1>5 DEF Down, Live
<1> QED
  BY <1>2, <1>3, <1>4, <1>5

(* A link that was handed to somebody works for as long as it was said to, *)
(* and one nobody uses leaves its name when it goes, wherever the sweeper  *)
(* was (db_short_links.rs, sweeper.rs:48, db/retention.rs).                *)
THEOREM LinksAreGoodForTheirTime == Spec => LinksKeepTheirWord
<1>1. IInv => HandedOutLinksLast
  BY DEF IInv, HandedOut, HandedOutLinksLast
<1>2. IInv /\ [Next]_vars => [\A i \in Ids :
       (pass' # pass /\ Live(i) /\ links[i].kind = "short" /\ ~Live(i)'
          /\ links[i].used < (IF pass = Never THEN now ELSE pass) - IdleDays)
         => retired'[i] # Never]_vars
  BY NamesAreLeft
<1> QED
  BY <1>1, <1>2, SharingStaysSound, PTL
     DEF Spec, LinksKeepTheirWord, UnusedLinksLeaveTheirName
=============================================================================
