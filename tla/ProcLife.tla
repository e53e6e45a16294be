------------------------------ MODULE ProcLife ------------------------------
(***************************************************************************)
(* What the task list, the scheduler and the signal fields of ak promise   *)
(* together, without list, cursor, signal numbers or saved contexts:       *)
(* processes are spawned by the one that runs, die, block until one of     *)
(* their children dies, and are dispatched one at a time.  A process that  *)
(* is dead is never dispatched again, one that is blocked only after a     *)
(* child of it died, and a live parent always learns of a death.           *)
(***************************************************************************)
CONSTANTS Proc, Root

VARIABLES status, parent, notified, running

plvars == <<status, parent, notified, running>>

PLInit ==
  /\ status = [p \in Proc |-> IF p = Root THEN "runnable" ELSE "absent"]
  /\ parent = [p \in Proc |-> Root]
  /\ notified = {}
  /\ running = Root

Alive(p) == status[p] \in {"runnable", "blocked"}

Spawn(c) ==
  /\ status[running] = "runnable" /\ status[c] = "absent"
  /\ status' = [status EXCEPT ![c] = "runnable"]
  /\ parent' = [parent EXCEPT ![c] = running]
  /\ UNCHANGED <<notified, running>>

Die ==
  /\ running # Root /\ status[running] = "runnable"
  /\ status' = [status EXCEPT ![running] = "dead"]
  /\ notified' = (notified \ {running})
                   \union {p \in {parent[running]} : Alive(p)}
  /\ UNCHANGED <<parent, running>>

Block ==
  /\ running # Root /\ status[running] = "runnable"
  /\ status' = [status EXCEPT ![running] = "blocked"]
  /\ UNCHANGED <<parent, notified, running>>

Dispatch(p) ==
  /\ status[p] = "runnable" \/ (status[p] = "blocked" /\ p \in notified)
  /\ status' = [status EXCEPT ![p] = "runnable"]
  /\ notified' = notified \ {p}
  /\ running' = p
  /\ UNCHANGED parent

PLNext == Die \/ Block \/ \E p \in Proc : Spawn(p) \/ Dispatch(p)

PLSafe == PLInit /\ [][PLNext]_plvars

\* No process is starved: one that can be dispatched again and again is.
PLSpec == PLSafe /\ \A p \in Proc : SF_plvars(Dispatch(p))
=============================================================================
