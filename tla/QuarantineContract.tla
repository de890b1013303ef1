------------------------- MODULE QuarantineContract -------------------------
(***************************************************************************)
(* What the control plane promises a wrapped process's resources, whatever  *)
(* its counters, thresholds and postures are: a session that was caught as  *)
(* another process than the one that attested is condemned, for good, and   *)
(* from then on no request is allowed to reach a real resource on its       *)
(* behalf.  A request that was let through before may still be answered.    *)
(* SidecarControl implements this contract when postures are automatic.     *)
(***************************************************************************)
CONSTANTS Session, Conn, None

VARIABLES
  standing, \* of each session: absent, admitted or condemned
  holder    \* the session whose request a connection has let through

Init ==
  /\ standing = [s \in Session |-> "absent"]
  /\ holder = [c \in Conn |-> None]

Admit(s) ==
  /\ standing[s] = "absent"
  /\ standing' = [standing EXCEPT ![s] = "admitted"]
  /\ UNCHANGED holder

Condemn(s) ==
  /\ standing[s] = "admitted"
  /\ standing' = [standing EXCEPT ![s] = "condemned"]
  /\ UNCHANGED holder

Grant(c, s) ==
  /\ holder[c] = None
  /\ standing[s] = "admitted"
  /\ holder' = [holder EXCEPT ![c] = s]
  /\ UNCHANGED standing

Release(c) ==
  /\ holder[c] # None
  /\ holder' = [holder EXCEPT ![c] = None]
  /\ UNCHANGED standing

Next ==
  \/ \E s \in Session : Admit(s) \/ Condemn(s)
  \/ \E c \in Conn : Release(c) \/ \E s \in Session : Grant(c, s)

Spec == Init /\ [][Next]_<<standing, holder>>
=============================================================================
