------------------------------ MODULE MCRelay ------------------------------
(***************************************************************************)
(* A behaviour is one of Relay or one of Listening, which share nothing:   *)
(* in one of Listening the time stands above 0.                            *)
(* Relay: a host with one device, a listener with one, who are friends.    *)
(* Listening: three accounts, one of two devices, from a history of up to  *)
(* four plays or from none, in hours of two ticks, days of two hours and   *)
(* years of two days, with the turn of a year in the middle.               *)
(***************************************************************************)
EXTENDS Relay, Listening, TLC

CONSTANTS host, guest, hostPhone, guestPhone
CONSTANTS ann, ben, cy, m1, m2, m3, den, car, f, g, A

OneDeviceEach == (hostPhone :> host) @@ (guestPhone :> guest)

HostAndGuest == {<<host, guest>>, <<guest, host>>}

MCOwnerOf ==
  [m \in {m1, m2, m3} |-> IF m = m3 THEN ben ELSE ann]
MCBandOf == [t \in {f, g} |-> A]
MCSecs == [t \in {f, g} |-> IF t = f THEN 1 ELSE 2]
MCZones == {-2, 0, 2}
Spent == [d \in Pieces |-> 0]
Pasts ==
  {S \in SUBSET [by : {m1, m3}, track : {f, g}, at : {1, 5, 8, 14},
                 zone : {0}, uid : {0}] : Cardinality(S) <= 4}
    \cup {{h} : h \in [by : {m3}, track : {f}, at : 2..17, zone : MCZones,
                       uid : {0}]}
Unplayed == [past |-> {}, time |-> 0, share |-> Spent]
MCStarts ==
  {Unplayed} \cup
  {[past |-> h, time |-> 14, share |-> Spent] : h \in Pasts}
    \cup {[past |-> {}, time |-> 16, share |-> [Spent EXCEPT
              !["plays"] = 2, !["drains"] = 2]]}
    \cup {[past |-> {}, time |-> 15, share |-> s] : s \in
      {[Spent EXCEPT !["plays"] = 1, !["drains"] = 3, !["purges"] = 2],
       [Spent EXCEPT !["plays"] = 1, !["drains"] = 2, !["renames"] = 2],
       [Spent EXCEPT !["asks"] = 1, !["turns"] = 3]}}

InRelay == time = 0 /\ UNCHANGED listeningVars
InListening == UNCHANGED vars
MCNext ==
  \/ \E id \in Ids :
       \/ \E from, to \in Devices : OpenDirect(id, from, to) /\ InRelay
       \/ \E from \in Devices : OpenJam(id, from) /\ InRelay
       \/ (Age(id) /\ InRelay) \/ (LookUpAged(id) /\ InRelay)
       \/ (Post(id) /\ InRelay) \/ (PumpFanout(id) /\ InRelay)
       \/ (PumpDirect(id) /\ InRelay) \/ (BodyEnds(id) /\ InRelay)
       \/ (BodyFails(id) /\ InRelay)
       \/ \E d \in Devices :
            \/ (Attach(id, d) /\ InRelay) \/ (Read(id, d) /\ InRelay)
            \/ (EndOfStream(id, d) /\ InRelay) \/ (HangUp(id, d) /\ InRelay)
  \/ \E u \in Users : (JoinJam(u) /\ InRelay) \/ (LeaveJam(u) /\ InRelay)
  \/ \E m \in Machines :
       \/ (Play(m) /\ InListening) \/ (Drain(m) /\ InListening)
       \/ (RenameNode(m) /\ InListening)
  \/ \E l \in Listeners :
       \/ (PurgeScrobbles(l) /\ InListening)
       \/ (UpdateProfile(l) /\ InListening)
       \/ (FriendActivity(l) /\ InListening) \/ (CircleRecap(l) /\ InListening)
       \/ (ListeningStats(l) /\ InListening) \/ (ReadFriends(l) /\ InListening)
       \/ (ReadProfile(l) /\ InListening) \/ (AreFriends(l) /\ InListening)
       \/ (ReadRows(l) /\ InListening) \/ (Answer(l) /\ InListening)
  \/ \E l, k \in Listeners : Befriend(l, k) /\ InListening
  \/ (RecordScrobbles /\ InListening) \/ (Pass /\ InListening)

MCInit == Init /\ ListeningInit

MCSpec ==
  /\ MCInit
  /\ [][MCNext]_<<vars, listeningVars>> /\ Fairness
=============================================================================
