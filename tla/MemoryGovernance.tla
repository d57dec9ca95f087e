--------------------------- MODULE MemoryGovernance ---------------------------
(***************************************************************************)
(* What the governance of a central memory promises, without candidates    *)
(* and confirmation requests: each memory has a slot that is empty, filled *)
(* by an ordinary (active) or a locked version, or closed by a retraction. *)
(* Authors may fill or refill an ordinary slot on their own; everything    *)
(* else happens because a human endorsed exactly that outcome, and each    *)
(* endorsement is used once.                                               *)
(***************************************************************************)
EXTENDS Integers

CONSTANTS Memory, Version, None, Rule   \* Rule: memories born as rules

VARIABLES
    slot,       \* slot[m]: "empty", "active", "locked" or "tombstone"
    effective,  \* effective[m]: the version that fills the slot, or None
    history,    \* history[m]: the versions that have ever been effective
    rule,       \* rule[m]: m has been effective as a major rule
    endorsed    \* endorsed[m]: the <<version, status>> pairs endorsed so far

govVars == <<slot, effective, history, rule, endorsed>>

GovInit ==
    /\ slot = [m \in Memory |-> "empty"]
    /\ effective = [m \in Memory |-> None]
    /\ history = [m \in Memory |-> {}]
    /\ rule = [m \in Memory |-> FALSE]
    /\ endorsed = [m \in Memory |-> {}]

(* Version v, newer than all before it, becomes the effective version.     *)
Install(m, v, status, major) ==
    /\ \A w \in history[m] : w < v
    /\ slot' = [slot EXCEPT ![m] = status]
    /\ effective' = [effective EXCEPT ![m] = v]
    /\ history' = [history EXCEPT ![m] = @ \cup {v}]
    /\ rule' = [rule EXCEPT ![m] = @ \/ major]

(* An author replaces the version without asking anybody.                  *)
Revise(m, v) ==
    /\ slot[m] \in {"empty", "active"}
    /\ ~rule[m]
    /\ m \notin Rule
    /\ Install(m, v, "active", FALSE)
    /\ UNCHANGED endorsed

(* A human endorses the outcome that version v gets the given status.      *)
Endorse(m, v, status) ==
    /\ <<v, status>> \notin endorsed[m]
    /\ endorsed' = [endorsed EXCEPT ![m] = @ \cup {<<v, status>>}]

EndorseVersion(m, v, status) ==
    /\ Endorse(m, v, status)
    /\ \E major \in BOOLEAN :
           /\ rule[m] \/ m \in Rule => major
           /\ Install(m, v, status, major)

EndorseLock(m, v) ==
    /\ slot[m] = "active"
    /\ effective[m] = v
    /\ Endorse(m, v, "locked")
    /\ slot' = [slot EXCEPT ![m] = "locked"]
    /\ UNCHANGED <<effective, history, rule>>

EndorseRetraction(m, v) ==
    /\ slot[m] \in {"active", "locked"}
    /\ effective[m] = v
    /\ Endorse(m, v, "retracted")
    /\ slot' = [slot EXCEPT ![m] = "tombstone"]
    /\ effective' = [effective EXCEPT ![m] = None]
    /\ UNCHANGED <<history, rule>>

GovNext ==
    \E m \in Memory, v \in Version :
        \/ Revise(m, v)
        \/ \E status \in {"active", "locked"} : EndorseVersion(m, v, status)
        \/ EndorseLock(m, v)
        \/ EndorseRetraction(m, v)

GovSpec == GovInit /\ [][GovNext]_govVars
=============================================================================
