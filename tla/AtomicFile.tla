----------------------------- MODULE AtomicFile -----------------------------
(***************************************************************************)
(* What a caller of oxideutils_core::utils::atomic_write may rely on.      *)
(*                                                                         *)
(* One path holds a value: nothing, or the complete data of some call.     *)
(* A call changes it at most once, in one step; a call that reports an     *)
(* error has not changed it and a call that reports success has.  A power  *)
(* loss may take the path back to a value it held since the last time the  *)
(* directory reached the disk, never to anything else.                     *)
(***************************************************************************)
CONSTANTS Callers,   \* the processes that call atomic_write on the path
          Data,      \* the complete contents a call can be given
          Absent,    \* the path does not exist
          NoData     \* a caller that is in no call

VARIABLES value,     \* what a reader of the path sees
          undurable, \* the values a power loss can bring back
          pending,   \* the data of the call each caller is in
          landed,    \* the callers whose data has reached the path
          result     \* how each caller's last call ended

vars == <<value, undurable, pending, landed, result>>

Init ==
  /\ value \in Data \cup {Absent}
  /\ undurable = {value}
  /\ pending = [c \in Callers |-> NoData]
  /\ landed = {}
  /\ result = [c \in Callers |-> "none"]

Begin(c, d) ==
  /\ pending[c] = NoData
  /\ pending' = [pending EXCEPT ![c] = d]
  /\ result' = [result EXCEPT ![c] = "none"]
  /\ UNCHANGED <<value, undurable, landed>>

\* The one step in which a call takes effect.
Land(c) ==
  /\ pending[c] # NoData
  /\ c \notin landed
  /\ value' = pending[c]
  /\ undurable' = undurable \cup {pending[c]}
  /\ landed' = landed \cup {c}
  /\ UNCHANGED <<pending, result>>

End(c, how) ==
  /\ pending[c] # NoData
  /\ pending' = [pending EXCEPT ![c] = NoData]
  /\ landed' = landed \ {c}
  /\ result' = [result EXCEPT ![c] = how]
  /\ UNCHANGED <<value, undurable>>

ReturnOk(c)  == c \in landed /\ End(c, "ok")
ReturnErr(c) == c \notin landed /\ End(c, "err")
Die(c)       == End(c, "dead")

\* The directory entry reaches the disk.
Settle ==
  /\ undurable' = {value}
  /\ UNCHANGED <<value, pending, landed, result>>

PowerLoss ==
  /\ value' \in undurable
  /\ undurable' = {value'}
  /\ pending' = [c \in Callers |-> NoData]
  /\ landed' = {}
  /\ result' = [c \in Callers |-> "dead"]

Next ==
  \/ \E c \in Callers :
       \/ \E d \in Data : Begin(c, d)
       \/ Land(c) \/ ReturnOk(c) \/ ReturnErr(c) \/ Die(c)
  \/ Settle
  \/ PowerLoss

Spec == Init /\ [][Next]_vars
=============================================================================
