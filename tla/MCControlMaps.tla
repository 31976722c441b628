---------------------------- MODULE MCControlMaps ----------------------------
(* ControlMaps on small instances; the .cfg files give the constants. *)
EXTENDS ControlMaps

(* An application's map; the server's has a lower priority or the same *)
SomeKeys == {[id |-> "u", priority |-> 2]}
SomePriorities == {-1, 2}

State(a, e, x) == [action |-> a, expire |-> e, executed |-> x]

(* A pause that is executed once before the reboot and a pause with the    *)
(* defaults before the commit, and the two ways to insist; a map of        *)
(* defaults deletes.                                                       *)
SomeRequests ==
  {[s \in {"Reboot", "Commit"} |-> IF s = "Reboot" THEN State("pause", "continue", "continue")
                                                   ELSE State("pause", "", "")],
   [s \in {"Commit"} |-> State("force_continue", "", "pause")],
   [s \in {"Install"} |-> State("continue", "", "")]}

=============================================================================
