------------------------------ MODULE WorkQueue ------------------------------
(***************************************************************************)
(* What leasing work out promises.  A piece may change hands any number of *)
(* times, each time under a lease never used before; it is finished at     *)
(* most once, by its holder of the moment; and what is closed is neither   *)
(* handed out nor finished nor given back.                                 *)
(***************************************************************************)
CONSTANTS Piece, Lease, None

VARIABLES
    holder,  \* holder[p]: the lease a piece is out under, or None
    done,    \* done[p]: the lease it was finished under, or None
    spent,   \* leases handed out so far
    closed   \* pieces withdrawn

vars == <<holder, done, spent, closed>>

Open(p) == done[p] = None /\ p \notin closed

Take(p, l) ==
    /\ Open(p)
    /\ l \notin spent
    /\ holder' = [holder EXCEPT ![p] = l]
    /\ spent' = spent \cup {l}
    /\ UNCHANGED <<done, closed>>

Finish(p) ==
    /\ Open(p)
    /\ holder[p] # None
    /\ done' = [done EXCEPT ![p] = holder[p]]
    /\ holder' = [holder EXCEPT ![p] = None]
    /\ UNCHANGED <<spent, closed>>

GiveBack(p) ==
    /\ Open(p)
    /\ holder[p] # None
    /\ holder' = [holder EXCEPT ![p] = None]
    /\ UNCHANGED <<done, spent, closed>>

Close ==
    /\ closed' \in SUBSET Piece
    /\ closed \subseteq closed'
    /\ UNCHANGED <<holder, done, spent>>

Init ==
    /\ holder = [p \in Piece |-> None]
    /\ done = [p \in Piece |-> None]
    /\ spent = {}
    /\ closed = {}

Next ==
    \/ \E p \in Piece :
           \/ \E l \in Lease : Take(p, l)
           \/ Finish(p)
           \/ GiveBack(p)
    \/ Close

Spec == Init /\ [][Next]_vars
=============================================================================
