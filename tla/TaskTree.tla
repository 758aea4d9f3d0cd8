------------------------------ MODULE TaskTree ------------------------------
(***************************************************************************)
(* What util::Task promises to those who start asynchronous operations:    *)
(* each one is returned once, is done after all of its children have       *)
(* finished, and finishes (its done callback returns) once.                *)
(***************************************************************************)
CONSTANTS Tasks, Parent

VARIABLE life    \* none, ACTIVE, PREPARED, DONE or finished, for each task

Children(t) == {c \in Tasks : Parent[c] = t}

Move(t, from, to) ==
  /\ life[t] = from
  /\ life' = [life EXCEPT ![t] = to]

Begin(t) ==
  /\ Parent[t] \in Tasks
  /\ life[Parent[t]] \in {"ACTIVE", "PREPARED"}
  /\ Move(t, "none", "ACTIVE")

Returned(t) == Move(t, "ACTIVE", "PREPARED")

(* One step when the task is returned with nothing to wait for.            *)
Done(t) ==
  /\ Move(t, "ACTIVE", "DONE") \/ Move(t, "PREPARED", "DONE")
  /\ \A c \in Children(t) : life[c] \in {"none", "finished"}

(* The done callback of a child returns, and with it the last thing its    *)
(* parent may have waited for.                                             *)
Finish(t) ==
  LET parent == Parent[t]
  IN  /\ life[t] = "DONE"
      /\ \/ life' = [life EXCEPT ![t] = "finished"]
         \/ /\ parent \in Tasks
            /\ life[parent] = "PREPARED"
            /\ \A c \in Children(parent) \ {t} : life[c] \in {"none", "finished"}
            /\ life' = [life EXCEPT ![t] = "finished", ![parent] = "DONE"]

TreeInit ==
  life = [t \in Tasks |-> IF Parent[t] \in Tasks THEN "none" ELSE "ACTIVE"]

TreeNext == \E t \in Tasks : Begin(t) \/ Returned(t) \/ Done(t) \/ Finish(t)

TreeSpec == TreeInit /\ [][TreeNext]_life

=============================================================================
