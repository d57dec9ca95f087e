------------------------- MODULE MCHistoryPublication -------------------------
(* Small instances of HistoryPublication for TLC.                           *)
EXTENDS HistoryAudit, TLC

CONSTANTS a, b, earlier, later, s1, s2, p1, p2

(* Two revisions of one session, or the revisions of two sessions.          *)
MCOneSession  == (earlier :> s1 @@ later :> s1)
MCTwoSessions == (earlier :> s1 @@ later :> s2)
MCOrder       == (earlier :> 1 @@ later :> 2)
MCRunOf       == (p1 :> earlier @@ p2 :> later)

(* Two ordinary notes, or the same rule found in two sessions.              *)
MCNotes == (p1 :> [content |-> a, major |-> FALSE] @@ p2 :> [content |-> b, major |-> FALSE])
MCTwins == (p1 :> [content |-> a, major |-> TRUE] @@ p2 :> [content |-> a, major |-> TRUE])

(* Agents come to know the newer note by themselves.                        *)
MCAgents ==
    {[content |-> b, major |-> FALSE, target |-> "active", ask |-> FALSE, kind |-> "manual"]}
=============================================================================
