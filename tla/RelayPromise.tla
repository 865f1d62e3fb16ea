---------------------------- MODULE RelayPromise ----------------------------
(***************************************************************************)
(* What the audio relay promises, without the channels, buffers, tables    *)
(* and timers that Relay models: an upload is a counter, a receiver is     *)
(* given consecutive chunks of it and nothing after its stream is over,    *)
(* only a listener of a jam is ever cut off, and a device is recorded as   *)
(* holding exactly what the sender put in.  Relay implements it            *)
(* (Relay!KeepsItsPromise).                                                *)
(***************************************************************************)
EXTENDS Naturals, Sequences

CONSTANTS Ids, Devices, Chunks

VARIABLES
  kind,      \* per session: "none" | "direct" | "fanout"
  sent,      \* chunks the sender has put in
  over,      \* nothing more will be put in
  stream,    \* per session and device: "out" | "in" | "done"
  given,     \* the chunks a device was given
  kept       \* devices recorded as holding a session's file

vars == <<kind, sent, over, stream, given, kept>>

Init ==
  /\ kind = [id \in Ids |-> "none"]
  /\ sent = [id \in Ids |-> 0]
  /\ over = [id \in Ids |-> FALSE]
  /\ stream = [id \in Ids |-> [d \in Devices |-> "out"]]
  /\ given = [id \in Ids |-> [d \in Devices |-> <<>>]]
  /\ kept = {}

(* Sessions end for good, because of their sender or of their age. *)
Ends == \A id \in Ids : over[id] => over'[id]

(* A session is opened; older ones that nobody used may end with it. *)
Open(id) ==
  /\ kind[id] = "none"
  /\ \E k \in {"direct", "fanout"} : kind' = [kind EXCEPT ![id] = k]
  /\ Ends /\ ~over'[id]
  /\ UNCHANGED <<sent, stream, given, kept>>

End == Ends /\ UNCHANGED <<kind, sent, stream, given, kept>>

(* The next chunk goes in.  It never waits for a listener of a jam: some   *)
(* that had not kept up are cut off.                                       *)
Send(id) ==
  /\ kind[id] # "none" /\ ~over[id] /\ sent[id] < Chunks
  /\ sent' = [sent EXCEPT ![id] = @ + 1]
  /\ \E late \in SUBSET {d \in Devices : stream[id][d] = "in"} :
       /\ kind[id] = "direct" => late = {}
       /\ stream' = [stream EXCEPT ![id] =
                       [d \in Devices |-> IF d \in late THEN "done" ELSE @[d]]]
  /\ UNCHANGED <<kind, over, given, kept>>

(* A direct session has one receiver in all. *)
Join(id, d) ==
  /\ kind[id] # "none" /\ stream[id][d] = "out"
  /\ kind[id] = "direct" => \A e \in Devices : stream[id][e] = "out"
  /\ stream' = [stream EXCEPT ![id][d] = "in"]
  /\ UNCHANGED <<kind, sent, over, given, kept>>

(* A direct receiver starts at the beginning, a listener wherever it       *)
(* joined; each goes on without a hole.                                    *)
Follows(id, d, c) ==
  \/ given[id][d] = <<>> /\ (kind[id] = "direct" => c = 1)
  \/ given[id][d] # <<>> /\ c = given[id][d][Len(given[id][d])] + 1

Give(id, d) ==
  /\ stream[id][d] = "in"
  /\ \E c \in 1 .. sent[id] :
       Follows(id, d, c) /\ given' = [given EXCEPT ![id][d] = Append(@, c)]
  /\ UNCHANGED <<kind, sent, over, stream, kept>>

(* A stream is over.  A direct one that had all there was, and something,  *)
(* is recorded.                                                            *)
Close(id, d) ==
  /\ stream[id][d] = "in"
  /\ stream' = [stream EXCEPT ![id][d] = "done"]
  /\ \/ UNCHANGED kept
     \/ /\ kind[id] = "direct" /\ over[id]
        /\ sent[id] > 0 /\ Len(given[id][d]) = sent[id]
        /\ kept' = kept \cup {<<d, id>>}
  /\ UNCHANGED <<kind, sent, over, given>>

Next ==
  \/ End
  \/ \E id \in Ids :
       \/ Open(id) \/ Send(id)
       \/ \E d \in Devices : Join(id, d) \/ Give(id, d) \/ Close(id, d)

Spec == Init /\ [][Next]_vars
=============================================================================
