----------------------------- MODULE MCDevices -----------------------------
(* Two devices of one account and one of a listener. *)
EXTENDS Devices, TLC
CONSTANTS a, v, a1, a2, v1, h1
MCDevices == {a1, a2, v1}
MCOwnerOf == [d \in MCDevices |-> IF d = v1 THEN v ELSE a]
MCListeners == {<<v, a>>}
MCRecordingOf == [h \in {h1} |-> h]
Nothing == [p \in Parts |-> 0]
MCBudgets ==
  {[Nothing EXCEPT !["plays"] = 2],
   [Nothing EXCEPT !["plays"] = 1, !["links"] = 1],
   [Nothing EXCEPT !["plays"] = 1, !["asks"] = 1, !["keys"] = 2],
   [Nothing EXCEPT !["plays"] = 1, !["names"] = 1],
   [Nothing EXCEPT !["plays"] = 1, !["ticks"] = 1],
   [Nothing EXCEPT !["names"] = 2, !["links"] = 1],
   [Nothing EXCEPT !["files"] = 2, !["names"] = 1],
   [Nothing EXCEPT !["files"] = 1, !["crashes"] = 1],
   [Nothing EXCEPT !["plays"] = 1, !["tears"] = 1],
   [Nothing EXCEPT !["links"] = 2]}
=============================================================================
