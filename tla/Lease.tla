-------------------------------- MODULE Lease --------------------------------
(***************************************************************************)
(* What the lock in the remote state file promises: a lease with which one *)
(* session at a time may work on the destination.  RemoteLock implements   *)
(* it with reads and conditional writes of a file and local clocks.        *)
(***************************************************************************)
EXTENDS Integers

CONSTANTS Session, TTL

VARIABLE lease  \* the time for which each session may go on working

Init == lease = [s \in Session |-> 0]

\* Only a session whose rivals have no lease gets one.
Grant(s) ==
    /\ \A t \in Session : lease[t] = 0
    /\ \E n \in 1 .. TTL[s] : lease' = [lease EXCEPT ![s] = n]

\* A renewal never shortens the lease.
Renew(s) ==
    /\ lease[s] > 0
    /\ \E n \in lease[s] .. TTL[s] : lease' = [lease EXCEPT ![s] = n]

\* The session stops working, or is stopped.
End(s) == lease' = [lease EXCEPT ![s] = 0]

\* Time passes for all.
Pass == lease' = [s \in Session |-> IF lease[s] > 0 THEN lease[s] - 1 ELSE 0]

Next == Pass \/ \E s \in Session : Grant(s) \/ Renew(s) \/ End(s)

Spec == Init /\ [][Next]_lease
=============================================================================
