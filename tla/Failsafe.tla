------------------------------- MODULE Failsafe -------------------------------
(***************************************************************************)
(* What the control loop promises of the batteries, whatever its sources and  *)
(* its writes do: the abstract specification the coordinator implements.       *)
(*                                                                            *)
(* The loop looks at its sources, and what it sees permits it to write: any    *)
(* command when every source answered, nothing when one is late, and only      *)
(* idle when one is silent.  It stands down at the first silent look and up     *)
(* again at the first complete one.  A tick that stands down does not end      *)
(* before every battery is idle, or its last write failed.                    *)
(***************************************************************************)
CONSTANT Devices

VARIABLES
  permit,     \* what the last look permits to be written: "none", "idle" or "any"
  standing,   \* the loop has stood down
  held,       \* what each battery runs on: "idle" or "power"
  missed      \* batteries whose last write failed, of those since it stood down

Commands == {"idle", "power"}

\* Nothing is known of what the batteries run on.
Init == permit = "none" /\ standing = FALSE /\ held \in [Devices -> Commands] /\ missed = {}

Permitted(command) == permit = "any" \/ (permit = "idle" /\ command = "idle")

\* Every source answered: the loop is in control, and may decide on nothing.
LooksComplete ==
  /\ permit = "none"
  /\ permit' \in {"none", "any"}
  /\ standing' = FALSE /\ missed' = {}
  /\ UNCHANGED held

\* A source is silent.
LooksSilent ==
  /\ permit = "none"
  /\ permit' = "idle"
  /\ standing' = TRUE
  /\ missed' = IF standing THEN missed ELSE {}
  /\ UNCHANGED held

Write(d, command) ==
  /\ Permitted(command)
  /\ held' = [held EXCEPT ![d] = command]
  /\ missed' = missed \ {d}
  /\ UNCHANGED <<permit, standing>>

\* A write that fails may have landed all the same.
Miss(d) ==
  /\ permit # "none"
  /\ \/ UNCHANGED held
     \/ \E command \in Commands : Permitted(command) /\ held' = [held EXCEPT ![d] = command]
  /\ missed' = missed \cup {d}
  /\ UNCHANGED <<permit, standing>>

\* The tick ends.
Ends ==
  /\ permit' = "none"
  /\ standing => \A d \in Devices : held[d] = "idle" \/ d \in missed
  /\ UNCHANGED <<standing, held, missed>>

\* The loop is started again, a write of its last tick under way.
Restarts ==
  /\ permit' = "none" /\ standing' = FALSE /\ missed' = {}
  /\ \/ UNCHANGED held
     \/ \E d \in Devices, command \in Commands : Permitted(command) /\ held' = [held EXCEPT ![d] = command]

Next ==
  \/ LooksComplete \/ LooksSilent \/ Ends \/ Restarts
  \/ \E d \in Devices : Miss(d) \/ \E command \in Commands : Write(d, command)

vars == <<permit, standing, held, missed>>
Spec == Init /\ [][Next]_vars
===============================================================================
