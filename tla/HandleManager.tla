---------------------------- MODULE HandleManager ----------------------------
(***************************************************************************)
(* handle_mgr: the table of connections that the lock server keeps to its  *)
(* clients, as the threads use it that have handles.  A thread makes a     *)
(* handle, calls safebind as often as it likes, uses the connection that   *)
(* it returns, and destroys the handle.                                    *)
(***************************************************************************)
EXTENDS Naturals, FiniteSets

CONSTANTS
    Thread,
    Address,    \* destinations, "host:port"
    Forgotten,  \* those for which the program calls delete_handle
    Info,       \* bound: the places in memory that there are for a hinfo
    NULL

ASSUME NULLIsNone == NULL \notin Info \cup Address \cup {"failed", "rpcc"}
ASSUME ThreadsAreFinite == IsFiniteSet(Thread)

VARIABLES
    hmap,       \* from addresses to hinfos
    info,       \* the hinfos there are
    h,          \* the hinfo of a thread's handle
    pc,         \* where the thread is
    result      \* what its last safebind returned

handleVars == <<hmap, info, h, pc, result>>

\* The connection of a hinfo: none yet, being bound (under cl_mutex), or there.
Connection == {"none", "binding", "bound"}
NewInfo(m) == [cl |-> "none", refcnt |-> 1, del |-> FALSE, m |-> m]
Deleted == [cl |-> "none", refcnt |-> 0, del |-> FALSE, m |-> NULL]
Live(i) == info[i].m # NULL

HandleInit ==
    /\ hmap = [m \in Address |-> NULL]
    /\ info = [i \in Info |-> Deleted]
    /\ h = [t \in Thread |-> NULL]
    /\ pc = [t \in Thread |-> "none"]
    /\ result = [t \in Thread |-> NULL]

-----------------------------------------------------------------------------
\* Mutant: a handle for a connection that is there is not counted.
GetHandleUncounted(t, m) ==
    /\ pc[t] = "none"
    /\ \/ /\ hmap[m] = NULL
          /\ \E i \in Info :
               /\ ~Live(i)
               /\ info' = [info EXCEPT ![i] = NewInfo(m)]
               /\ hmap' = [hmap EXCEPT ![m] = i]
               /\ h' = [h EXCEPT ![t] = i]
       \/ /\ hmap[m] # NULL
          /\ h' = [h EXCEPT ![t] = IF info[hmap[m]].del THEN NULL ELSE hmap[m]]
          /\ UNCHANGED <<hmap, info>>
    /\ pc' = [pc EXCEPT ![t] = "handle"]
    /\ UNCHANGED result

\* get_handle: a handle without a hinfo when the connection has failed.
GetHandle(t, m) ==
    /\ pc[t] = "none"
    /\ \/ /\ hmap[m] = NULL
          /\ \E i \in Info :
               /\ ~Live(i)
               /\ info' = [info EXCEPT ![i] = NewInfo(m)]
               /\ hmap' = [hmap EXCEPT ![m] = i]
               /\ h' = [h EXCEPT ![t] = i]
       \/ /\ hmap[m] # NULL
          /\ info[hmap[m]].del
          /\ UNCHANGED <<hmap, info, h>>
       \/ /\ hmap[m] # NULL
          /\ ~info[hmap[m]].del
          /\ info' = [info EXCEPT ![hmap[m]].refcnt = @ + 1]
          /\ h' = [h EXCEPT ![t] = hmap[m]]
          /\ UNCHANGED hmap
    /\ pc' = [pc EXCEPT ![t] = "handle"]
    /\ UNCHANGED result

\* safebind, which holds cl_mutex while it binds.
Return(t, r) == result' = [result EXCEPT ![t] = r] /\ pc' = [pc EXCEPT ![t] = "handle"]

SafebindReturns(t) ==
    /\ pc[t] = "handle"
    /\ \/ h[t] = NULL /\ Return(t, "failed")
       \/ /\ h[t] # NULL
          /\ info[h[t]].cl # "binding"
          /\ \/ info[h[t]].del /\ Return(t, "failed")
             \/ ~info[h[t]].del /\ info[h[t]].cl = "bound" /\ Return(t, "rpcc")
    /\ UNCHANGED <<hmap, info, h>>

SafebindBinds(t) ==
    /\ pc[t] = "handle"
    /\ h[t] # NULL
    /\ ~info[h[t]].del
    /\ info[h[t]].cl = "none"
    /\ info' = [info EXCEPT ![h[t]].cl = "binding"]
    /\ pc' = [pc EXCEPT ![t] = "bind"]
    /\ UNCHANGED <<hmap, h, result>>

Bound(t) ==
    /\ pc[t] = "bind"
    /\ info' = [info EXCEPT ![h[t]].cl = "bound"]
    /\ Return(t, "rpcc")
    /\ UNCHANGED <<hmap, h>>

\* Mutant: the next safebind tries again.
BindFailedUnnoticed(t) ==
    /\ pc[t] = "bind"
    /\ info' = [info EXCEPT ![h[t]].cl = "none"]
    /\ Return(t, "failed")
    /\ UNCHANGED <<hmap, h>>

BindFailed(t) ==
    /\ pc[t] = "bind"
    /\ info' = [info EXCEPT ![h[t]].cl = "none", ![h[t]].del = TRUE]
    /\ Return(t, "failed")
    /\ UNCHANGED <<hmap, h>>

\* delete_handle_wo, with refcnt n: the hinfo goes when it is not in use.
DeleteHandleWo(m, n) ==
    LET i == hmap[m]
    IN  IF n = 0
          THEN /\ info' = [info EXCEPT ![i] = Deleted]
               /\ hmap' = [hmap EXCEPT ![m] = NULL]
          ELSE /\ info' = [info EXCEPT ![i].refcnt = n, ![i].del = TRUE]
               /\ UNCHANGED hmap

\* Mutant: the last handle leaves a failed connection in the table.
DoneHandleKeepsFailed(t) ==
    /\ pc[t] = "handle"
    /\ info' = IF h[t] = NULL THEN info ELSE [info EXCEPT ![h[t]].refcnt = @ - 1]
    /\ h' = [h EXCEPT ![t] = NULL]
    /\ pc' = [pc EXCEPT ![t] = "none"]
    /\ result' = [result EXCEPT ![t] = NULL]
    /\ UNCHANGED hmap

\* Mutant: whoever is done with a failed connection deletes it.
DoneHandleDeletesFailed(t) ==
    /\ pc[t] = "handle"
    /\ \/ h[t] = NULL /\ UNCHANGED <<hmap, info>>
       \/ /\ h[t] # NULL
          /\ IF info[h[t]].del
               THEN DeleteHandleWo(info[h[t]].m, 0)
               ELSE info' = [info EXCEPT ![h[t]].refcnt = @ - 1] /\ UNCHANGED hmap
    /\ h' = [h EXCEPT ![t] = NULL]
    /\ pc' = [pc EXCEPT ![t] = "none"]
    /\ result' = [result EXCEPT ![t] = NULL]

\* The destructor of the handle, with done_handle.
DoneHandle(t) ==
    /\ pc[t] = "handle"
    /\ \/ h[t] = NULL /\ UNCHANGED <<hmap, info>>
       \/ /\ h[t] # NULL
          /\ LET n == info[h[t]].refcnt - 1
             IN  IF n = 0 /\ info[h[t]].del
                   THEN DeleteHandleWo(info[h[t]].m, n)
                   ELSE info' = [info EXCEPT ![h[t]].refcnt = n] /\ UNCHANGED hmap
    /\ h' = [h EXCEPT ![t] = NULL]
    /\ pc' = [pc EXCEPT ![t] = "none"]
    /\ result' = [result EXCEPT ![t] = NULL]

DeleteHandle(m) ==
    /\ m \in Forgotten
    /\ hmap[m] # NULL
    /\ DeleteHandleWo(m, info[hmap[m]].refcnt)
    /\ UNCHANGED <<h, pc, result>>

HandleStep(t) ==
    \/ SafebindReturns(t) \/ SafebindBinds(t) \/ Bound(t) \/ BindFailed(t) \/ DoneHandle(t)

HandleNext ==
    \/ \E t \in Thread : HandleStep(t) \/ \E m \in Address : GetHandle(t, m)
    \/ \E m \in Address : DeleteHandle(m)

HandleSpec == HandleInit /\ [][HandleNext]_handleVars

\* A handle is destroyed at the end of its block, and bind has a timeout.
FairHandleSpec ==
    /\ HandleSpec
    /\ \A t \in Thread : WF_handleVars(Bound(t) \/ BindFailed(t)) /\ WF_handleVars(DoneHandle(t))

-----------------------------------------------------------------------------
\* The variables have values of their types.
HandleTypeOK ==
    /\ hmap \in [Address -> Info \cup {NULL}]
    /\ info \in [Info -> [cl : Connection, refcnt : Nat, del : BOOLEAN, m : Address]
                           \cup {Deleted}]
    /\ h \in [Thread -> Info \cup {NULL}]
    /\ pc \in [Thread -> {"none", "handle", "bind"}]
    /\ result \in [Thread -> {NULL, "failed", "rpcc"}]

\* What a thread's handle points to has not been deleted, neither the hinfo nor the
\* connection that safebind has returned, and there is one of it for each address:
\* nobody has another connection to the same destination.
HandlesAreLive ==
    /\ \A m \in Address : hmap[m] # NULL => Live(hmap[m]) /\ info[hmap[m]].m = m
    /\ \A t \in Thread :
          h[t] # NULL =>
              /\ Live(h[t])
              /\ hmap[info[h[t]].m] = h[t]
              /\ result[t] = "rpcc" => info[h[t]].cl = "bound"

\* refcnt is the number of handles, so that the last one deletes.
HandlesAreCounted ==
    \A i \in Info : Live(i) => info[i].refcnt = Cardinality({t \in Thread : h[t] = i})

\* "if the first safebind succeeded, all later calls would return a rpcc object;
\* otherwise, all later calls would return NULL", unless the program calls delete_handle.
SafebindSticks ==
    [][\A t \in Thread :
         result[t] # NULL /\ h[t] # NULL /\ h'[t] = h[t] /\ info[h[t]].m \notin Forgotten
             => result'[t] = result[t]]_handleVars

\* A connection that has failed is forgotten, so that the next handle tries anew: nobody
\* comes to use it any more, and those who have it end.
FailedIsForgotten == \A i \in Info : (Live(i) /\ info[i].del) ~> ~Live(i)
=============================================================================
