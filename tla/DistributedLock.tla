--------------------------- MODULE DistributedLock ---------------------------
(***************************************************************************)
(* What the lock service promises its users, without its mechanism: the    *)
(* lock belongs to one client at a time, a client that owns it lets its    *)
(* threads in one by one as often as they like, and gives it up only while *)
(* none of them is inside.                                                 *)
(***************************************************************************)
CONSTANTS Client, Thread, ClientOf, NoClient

VARIABLES
    owner,    \* the client the lock is granted to
    inside    \* the threads between acquire and release

Init == owner = NoClient /\ inside = {}

\* acquire and release as a client sees them.
Grant(c) == owner = NoClient /\ owner' = c /\ UNCHANGED inside

GiveUp == /\ owner # NoClient
          /\ \A t \in inside : ClientOf[t] # owner
          /\ owner' = NoClient
          /\ UNCHANGED inside

\* acquire and release as a thread sees them.
Enter(t) == /\ owner = ClientOf[t]
            /\ inside = {}
            /\ inside' = {t}
            /\ UNCHANGED owner

Leave(t) == inside = {t} /\ inside' = {} /\ UNCHANGED owner

Next == \/ \E c \in Client : Grant(c)
        \/ GiveUp
        \/ \E t \in Thread : Enter(t) \/ Leave(t)

Spec == Init /\ [][Next]_<<owner, inside>>

=============================================================================
