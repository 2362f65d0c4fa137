----------------------------- MODULE MCRemoteLock -----------------------------
(* Small instances of RemoteLock for TLC. *)
EXTENDS RemoteLock

CONSTANTS s1, s2, s3

\* Every session has a token of its own.
UniqueOwner == [s \in Session |-> s]

\* s1 and s2 are invocations under one persistent ID.
SharedOwner == [s \in Session |-> IF s \in {s1, s2} THEN s1 ELSE s]

\* The TTLs differ: s1 writes a longer one than the other sessions.
MixedTTL == [s \in Session |-> IF s = s1 THEN Window + 2 ELSE Window + 1]

\* A default wait, one that follows refreshed locks, and none at all.
MixedWait == [s \in Session |-> IF s = s1 THEN "default"
                                ELSE IF s = s2 THEN "inf" ELSE "zero"]

=============================================================================
