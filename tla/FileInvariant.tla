---------------------------- MODULE FileInvariant ----------------------------
(***************************************************************************)
(* The inductive invariant behind the coherence of the extent caches,      *)
(* given that of the locks (IInv).  Data get into a cache only while a     *)
(* thread of the client has the lock, and the client has forgotten them    *)
(* before its release RPC leaves, so the server's record, the caches and   *)
(* the data that requests work on tell of the same contents.               *)
(***************************************************************************)
EXTENDS FileService, LockInvariant

FileShape ==
    /\ cache = [c \in Client |-> cache[c]]
    /\ buf = [t \in Thread |-> buf[t]]
    /\ fetching \in [Thread -> BOOLEAN]
    /\ stage = [t \in Thread |-> stage[t]]
    /\ req = [t \in Thread |-> req[t]]

HasData(c) == cache[c].m_state \in {"UPDATE", "MODIFIED"}

\* The lock is with the client, and the flush of a release still to come.
Covered(c) == /\ clientId = c
              /\ \A t \in Thread : releaser[t] = c => pc[t] = "dorelease"

HasContents(t) == \/ stage[t] \in {"put", "flush"}
                  \/ stage[t] = "release" /\ req[t].op # "stat"

FileInv ==
    /\ FileShape
    /\ \A c \in Client : HasData(c) => Covered(c)
    /\ \A c \in Client : cache[c].m_state = "UPDATE" => cache[c].data = extent
    /\ \A t \in Thread : stage[t] \in {"put", "flush", "release"} => pc[t] = "critical"
    /\ \A t \in Thread : fetching[t] =>
          /\ pc[t] = "critical"
          /\ stage[t] = "get"
          /\ cache[ClientOf[t]] = Absent
          /\ buf[t] = extent
    /\ \A t \in Thread : HasContents(t) => buf[t] = Contents

=============================================================================
