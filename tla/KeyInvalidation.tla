-------------------------- MODULE KeyInvalidation --------------------------
(***************************************************************************)
(* VirtualKeys with the history needed to say what a forced invalidation   *)
(* (POST /internal/cache/invalidate, api/internal_ops.py) is for: that the *)
(* next request of the user goes to PostgreSQL.                            *)
(***************************************************************************)
EXTENDS VirtualKeys

VARIABLES
  owed,   \* users whose item was invalidated and whose keys nobody read since
  later   \* invocations that started while their user was owed a read

Reads(i) == ReadExistingKey(i) \/ ReadNoKey(i)

InvalidationInit == Init /\ owed = {} /\ later = {}

InvalidationNext ==
  /\ Next
  /\ owed' = (owed \cup {u \in Users : InvalidateUserCache(u)})
               \ {u \in Users : \E i \in Invocations : caller[i] = u /\ Reads(i)}
  /\ later' = {i \in Invocations :
                 \/ i \in later /\ pc'[i] # "idle"
                 \/ \E u \in owed : Invoke(i, u)}

InvalidationSpec == InvalidationInit /\ [][InvalidationNext]_<<vars, owed, later>>

\* requirements.md:200: after an operator invalidated a user's item, the next
\* request re-reads PostgreSQL.  An invocation that read its key before the
\* invalidation puts it back after it, and the next request finds it there.
NextRequestRereads ==
  [][\A i \in Invocations : i \in later /\ caller[i] \in owed => ~CacheHit(i)]_<<vars, owed, later>>
=============================================================================
