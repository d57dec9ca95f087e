--------------------------- MODULE SessionRegistry ---------------------------
(***************************************************************************)
(* The registry of one Codex session: a JSON file that holds the turn      *)
(* capability, the binding and the user's participation, and the lock file *)
(* beside it.  Every hook event and every call of the memory tool is a     *)
(* process of its own, so the lock protocol is modelled file operation by  *)
(* file operation: create exclusively, judge the age of another's lock,    *)
(* remove it, read the state, write it, remove the own lock.               *)
(*                                                                         *)
(* One session; every process runs with the same configured project, and   *)
(* the participation policy of the host admits the session.                *)
(***************************************************************************)
EXTENDS Integers, FiniteSets

CONSTANTS
    Hook,         \* processes that handle hook events
    Call,         \* processes that serve calls of longmemory_codex_memory
    Nobody, Gone, \* no lock file; the creator of the lock file has died
    NoState,      \* no state file yet
    MaxRequests,  \* bound on the events and calls delivered
    MaxCrash      \* bound on the processes that die

ASSUME RegistryConstants ==
    /\ Hook \cap Call = {}
    /\ {Nobody, Gone} \cap (Hook \cup Call) = {} /\ Nobody # Gone
    /\ MaxRequests \in Nat /\ MaxCrash \in Nat

VARIABLES
    file,      \* sessions/<key>.json
    lock,      \* who created sessions/<key>.json.lock
    old,       \* its modification time lies more than SESSION_LOCK_STALE_MS back
    thread,    \* the central database holds the bound thread of the session
    finalized, \* the turns recorded in the central database
    turn,      \* the turn Codex is in
    given,     \* the contracts handed to the agent
    issued,    \* capabilities drawn so far; the next one is fresh
    job,       \* what each process is doing
    robbed,    \* history: the lock file of a living holder has been removed
    requests, crashes

vars == <<file, lock, old, thread, finalized, turn, given, issued, job, robbed,
          requests, crashes>>
database == <<thread, finalized>>
world == <<turn, given, requests, crashes>>

Process == Hook \cup Call
NoTurn == 0
Turns == 1 .. MaxRequests
Contract == [capability : Nat, turn : Turns]

State == [capability : Nat, turn : {NoTurn} \cup Turns, bound : BOOLEAN,
          disabled : BOOLEAN, skipped : {NoTurn} \cup Turns]

\* No file is told from every file (load_unlocked returns null).
ASSUME NoStateAssumption == NoState \notin State

Event == {"SessionStart", "UserPromptSubmit", "Compact", "Stop"}
Choice == {"none", "off", "skip", "on"}
Action == {"off", "skip", "bind", "record"}

Idle == [pc |-> "idle", request |-> "none", choice |-> "none", turn |-> NoTurn,
         step |-> "none", state |-> NoState]

\* A process inside the section the lock protects.
Holding(p) == job[p].pc \in {"inside", "commit", "write", "leave", "failed"}

-----------------------------------------------------------------------------
(* Requests arrive.                                                         *)

Deliver(h, event, choice) ==
    /\ job[h].pc = "idle" /\ requests < MaxRequests
    /\ choice # "none" => event = "UserPromptSubmit"
    /\ event \in {"Compact", "Stop"} => turn # NoTurn
    /\ turn' = IF event = "UserPromptSubmit" THEN turn + 1 ELSE turn
    /\ job' = [job EXCEPT ![h] = [Idle EXCEPT
          !.pc = IF event = "SessionStart" THEN "want" ELSE "load",
          !.step = IF event = "SessionStart" THEN "start" ELSE "load",
          !.request = event, !.choice = choice, !.turn = turn']]
    /\ requests' = requests + 1
    /\ UNCHANGED <<file, lock, old, database, given, issued, robbed, crashes>>

Present(c, contract, action) ==
    /\ job[c].pc = "idle" /\ requests < MaxRequests
    /\ job' = [job EXCEPT ![c] = [Idle EXCEPT
          !.pc = "want", !.step = "call", !.request = action, !.turn = contract.turn,
          !.state = contract]]
    /\ requests' = requests + 1
    /\ UNCHANGED <<file, lock, old, database, turn, given, issued, robbed, crashes>>

-----------------------------------------------------------------------------
(* with_session_lock                                                        *)

\* Fault: The lock file is created without the exclusive flag.
AcquireAnyway(p) ==
    /\ job[p].pc = "want" /\ lock' = p /\ old' = FALSE
    /\ job' = [job EXCEPT ![p].pc = "inside"]
    /\ UNCHANGED <<file, database, issued, robbed, world>>

Acquire(p) ==
    /\ job[p].pc = "want" /\ lock = Nobody
    /\ lock' = p /\ old' = FALSE
    /\ job' = [job EXCEPT ![p].pc = "inside"]
    /\ UNCHANGED <<file, database, issued, robbed, world>>

\* The age is judged and the file removed in two steps.
JudgeStale(p) ==
    /\ job[p].pc = "want" /\ lock # Nobody /\ old
    /\ job' = [job EXCEPT ![p].pc = "break"]
    /\ UNCHANGED <<file, lock, old, database, issued, robbed, world>>

\* Whoever holds the lock does so by being inside and not having lost it.
BreakLock(p) ==
    /\ job[p].pc = "break"
    /\ lock' = Nobody /\ old' = FALSE
    /\ robbed' = (robbed \/ lock \in Process)
    /\ job' = [job EXCEPT ![p].pc = "want"]
    /\ UNCHANGED <<file, database, issued, world>>

\* SESSION_LOCK_WAIT_MS have passed: the operation throws, the request ends.
GiveUp(p) ==
    /\ job[p].pc = "want" /\ lock # Nobody /\ ~old
    /\ job' = [job EXCEPT ![p] = Idle]
    /\ UNCHANGED <<file, lock, old, database, issued, robbed, world>>

\* The finally clause removes the lock file, whoever created it.
Release(p) ==
    /\ job[p].pc \in {"leave", "failed"}
    /\ lock' = Nobody /\ old' = FALSE
    /\ robbed' = (robbed \/ lock \in Process \ {p})
    /\ job' = [job EXCEPT ![p] = IF job[p].pc = "failed" \/ p \in Call THEN Idle
                                 ELSE [job[p] EXCEPT !.pc = "ready"]]
    /\ UNCHANGED <<file, database, issued, world>>

-----------------------------------------------------------------------------
(* The operations under the lock.                                           *)

Fresh == issued + 1

\* Every operation reads the state, refuses or goes on to write.
ReadAnd(p, step, refused, pc, next) ==
    /\ job[p].pc = "inside" /\ job[p].step \in step
    /\ job' = [job EXCEPT ![p] = [job[p] EXCEPT
          !.pc = IF refused THEN "failed" ELSE pc,
          !.state = IF refused THEN job[p].state ELSE next]]
    /\ UNCHANGED <<file, lock, old, database, robbed, world>>

Started ==
    IF file = NoState
    THEN [capability |-> Fresh, turn |-> NoTurn, bound |-> FALSE, disabled |-> FALSE,
          skipped |-> NoTurn]
    ELSE [file EXCEPT !.capability = Fresh, !.turn = NoTurn]

StartOrResume(h) ==
    /\ ReadAnd(h, {"start"}, FALSE, "write", Started)
    /\ issued' = Fresh

\* Fault: save compares the turn alone.
StaleTurn(copy) == file # NoState /\ file.turn # copy.turn

\* save: the copy must carry the stored capability and turn.
StaleCopy(copy) ==
    file # NoState /\ (file.capability # copy.capability \/ file.turn # copy.turn)

Save(h) ==
    /\ ReadAnd(h, {"unskip", "choose", "reconcile", "checkpoint"},
               StaleCopy(job[h].state), "write", job[h].state)
    /\ UNCHANGED issued

\* activate_turn: a new turn gets a new capability, the same turn keeps its own.
ActivateTurn(h) ==
    LET t == job[h].turn
        known == file # NoState /\ file.turn = t
    IN  /\ ReadAnd(h, {"activate"}, file = NoState, IF known THEN "leave" ELSE "write",
                   IF known \/ file = NoState THEN file
                   ELSE [file EXCEPT !.capability = Fresh, !.turn = t])
        /\ issued' = IF known \/ file = NoState THEN issued ELSE Fresh

\* assert_capability
Authorized(contract) ==
    file # NoState /\ file.turn = contract.turn /\ file.capability = contract.capability

Participating(t) == ~file.disabled /\ file.skipped # t

\* Fault: The contract is checked before the lock is taken, as require_capability does.
AuthorizeUnlocked(c) ==
    /\ job[c].pc = "want" /\ job[c].step = "call" /\ job[c].request \in {"bind", "record"}
    /\ Authorized(job[c].state) /\ Participating(job[c].turn)
    /\ job' = [job EXCEPT ![c].pc = "commit"]
    /\ UNCHANGED <<file, lock, old, database, issued, robbed, world>>

\* with_capability; recording also needs a bound task.
Authorize(c) ==
    LET contract == job[c].state
        action == job[c].request
        t == job[c].turn
        refused == \/ ~Authorized(contract)
                   \/ action \in {"bind", "record"} /\ ~Participating(t)
                   \/ action = "record" /\ ~file.bound
    IN  /\ ReadAnd(c, {"call"}, refused,
                   IF action \in {"bind", "record"} THEN "commit" ELSE "write",
                   CASE refused -> contract
                     [] action = "off"    -> [file EXCEPT !.disabled = TRUE, !.skipped = t]
                     [] action = "skip"   -> [file EXCEPT !.skipped = t]
                     [] action = "bind"   -> [file EXCEPT !.bound = TRUE]
                     [] action = "record" -> file)
        /\ UNCHANGED issued

\* The protected transaction on the central database, the lock still held.
Commit(c) ==
    /\ job[c].pc = "commit"
    /\ thread' = (thread \/ job[c].request = "bind")
    /\ finalized' = IF job[c].request = "record" THEN finalized \cup {job[c].turn} ELSE finalized
    /\ job' = [job EXCEPT ![c].pc = IF job[c].request = "bind" THEN "write" ELSE "leave"]
    /\ UNCHANGED <<file, lock, old, issued, robbed, world>>

\* save_unlocked replaces the file by a rename.
Write(p) ==
    /\ job[p].pc = "write"
    /\ file' = job[p].state
    /\ job' = [job EXCEPT ![p].pc = "leave"]
    /\ UNCHANGED <<lock, old, database, issued, robbed, world>>

-----------------------------------------------------------------------------
(* handle_codex_hook, from one registry operation to the next.              *)

At(h, steps) == job[h].pc = "ready" /\ job[h].step \in steps
Copy(h) == job[h].state
Ask(h, step, state) ==
    /\ job' = [job EXCEPT ![h] = [job[h] EXCEPT !.pc = "want", !.step = step, !.state = state]]
    /\ UNCHANGED <<file, lock, old, database, issued, robbed, world>>
End(h) ==
    /\ job' = [job EXCEPT ![h] = Idle]
    /\ UNCHANGED <<file, lock, old, database, issued, robbed, turn, requests, crashes>>

\* The state is loaded without the lock; a session without one is started.
Load(h) ==
    /\ job[h].pc = "load"
    /\ job' = [job EXCEPT ![h] = IF file = NoState
          THEN [job[h] EXCEPT !.pc = "want", !.step = "start"]
          ELSE [job[h] EXCEPT !.pc = "ready", !.state = file]]
    /\ UNCHANGED <<file, lock, old, database, issued, robbed, world>>

Loaded == {"load", "start"}

MustUnskip(h) ==
    /\ At(h, Loaded) /\ job[h].request = "UserPromptSubmit"
    /\ Copy(h).skipped \notin {NoTurn, job[h].turn}
MustChoose(h) == At(h, Loaded \cup {"unskip"}) /\ ~MustUnskip(h) /\ job[h].choice # "none"
HasChosen(h) == /\ At(h, Loaded \cup {"unskip", "choose"}) /\ ~MustUnskip(h) /\ ~MustChoose(h)
Declined(h) == Copy(h).disabled \/ Copy(h).skipped # NoTurn

Unskip(h) == MustUnskip(h) /\ Ask(h, "unskip", [Copy(h) EXCEPT !.skipped = NoTurn])

Choose(h) ==
    /\ MustChoose(h)
    /\ Ask(h, "choose", [Copy(h) EXCEPT
          !.disabled = CASE job[h].choice = "off" -> TRUE
                         [] job[h].choice = "on"  -> FALSE
                         [] OTHER                 -> @,
          !.skipped = IF job[h].choice = "skip" THEN job[h].turn ELSE NoTurn])

StandAside(h) == HasChosen(h) /\ Declined(h) /\ End(h) /\ UNCHANGED given

\* reconcile_registry_binding: the binding is read from the central database.
Reconcile(h) ==
    /\ HasChosen(h) /\ ~Declined(h)
    /\ Ask(h, "reconcile", [Copy(h) EXCEPT !.bound = thread])

Missing(h) == Copy(h).bound /\ job[h].turn \notin finalized

Activate(h) ==
    /\ At(h, {"reconcile"})
    /\ \/ job[h].request = "UserPromptSubmit"
       \/ job[h].request = "Stop" /\ Missing(h) /\ Copy(h).turn # job[h].turn
    /\ Ask(h, "activate", Copy(h))

Checkpoint(h) ==
    /\ At(h, {"reconcile"}) /\ job[h].request = "Compact" /\ Copy(h).bound
    /\ Ask(h, "checkpoint", Copy(h))

\* The contract of the turn is printed: by a prompt, or by a Stop that blocks.
Answer(h) ==
    /\ \/ At(h, {"activate"})
       \/ At(h, {"reconcile"}) /\ job[h].request = "Stop" /\ Missing(h)
          /\ Copy(h).turn = job[h].turn
    /\ given' = given \cup {[capability |-> Copy(h).capability, turn |-> job[h].turn]}
    /\ End(h)

\* Nothing is printed; a Stop that already blocked once records that and ends.
Finish(h) ==
    /\ \/ At(h, {"checkpoint"})
       \/ At(h, {"reconcile"}) /\ \/ job[h].request \in {"SessionStart", "Stop"}
                                  \/ job[h].request = "Compact" /\ ~Copy(h).bound
    /\ End(h) /\ UNCHANGED given

-----------------------------------------------------------------------------
(* The environment: time passes, processes die.                             *)

Age == /\ lock # Nobody /\ ~old
       /\ old' = TRUE
       /\ UNCHANGED <<file, lock, database, issued, job, robbed, world>>

Crash(p) ==
    /\ job[p].pc # "idle" /\ crashes < MaxCrash
    /\ crashes' = crashes + 1
    /\ lock' = IF lock = p THEN Gone ELSE lock
    /\ job' = [job EXCEPT ![p] = Idle]
    /\ UNCHANGED <<file, old, database, issued, robbed, turn, given, requests>>

-----------------------------------------------------------------------------
\* A new session, or one whose task was bound earlier and that is resumed.
Resumed == [capability |-> 1, turn |-> NoTurn, bound |-> TRUE, disabled |-> FALSE,
            skipped |-> NoTurn]

RegistryInit ==
    /\ \/ file = NoState /\ thread = FALSE /\ issued = 0
       \/ file = Resumed /\ thread = TRUE /\ issued = 1
    /\ lock = Nobody /\ old = FALSE /\ finalized = {}
    /\ turn = NoTurn /\ given = {}
    /\ job = [p \in Process |-> Idle]
    /\ robbed = FALSE /\ requests = 0 /\ crashes = 0

LockStep(p) == Acquire(p) \/ JudgeStale(p) \/ BreakLock(p) \/ GiveUp(p) \/ Release(p) \/ Write(p)

HookStep(h) ==
    \/ \E event \in Event, choice \in Choice : Deliver(h, event, choice)
    \/ Load(h) \/ Unskip(h) \/ Choose(h) \/ StandAside(h) \/ Reconcile(h)
    \/ Activate(h) \/ Checkpoint(h) \/ Answer(h) \/ Finish(h)
    \/ StartOrResume(h) \/ Save(h) \/ ActivateTurn(h)

CallStep(c) ==
    \/ \E contract \in given, action \in Action : Present(c, contract, action)
    \/ Authorize(c) \/ Commit(c)

RegistryNext ==
    \/ \E h \in Hook : HookStep(h)
    \/ \E c \in Call : CallStep(c)
    \/ \E p \in Process : LockStep(p) \/ Crash(p)
    \/ Age

RegistrySpec == RegistryInit /\ [][RegistryNext]_vars

-----------------------------------------------------------------------------
(* Properties.                                                              *)

\* Types; the contracts handed out and the capability stored were drawn.
RegistryTypeOK ==
    /\ file \in State \cup {NoState}
    /\ lock \in Process \cup {Nobody, Gone} /\ old \in BOOLEAN
    /\ thread \in BOOLEAN /\ finalized \subseteq Turns
    /\ turn \in {NoTurn} \cup Turns /\ given \subseteq Contract
    /\ issued \in Nat /\ robbed \in BOOLEAN
    /\ \A p \in Process :
         job[p].state \in State \cup Contract \cup {NoState}
    /\ file # NoState => file.capability <= issued

\* registry.ts:121-158: the lock file belongs to the process that is inside
\* with_session_lock, and only one is, through every order of waiters that
\* judge and remove an old lock file: as long as none removed the file of a
\* holder that was alive.
LockIsExclusive == ~robbed => \A p \in Process : Holding(p) => lock = p

\* registry.ts:293-301: between the authorization of a call and its commit to
\* the central database no hook rotates the capability, no turn begins and no
\* refusal of the user is stored, unless a living holder's lock was removed.
CommitsAreAuthorized ==
    [][(database' # database /\ ~robbed) =>
         \E c \in Call : /\ job[c].pc = "commit"
                         /\ file.turn = job[c].turn
                         /\ file.capability = job[c].state.capability
                         /\ Participating(job[c].turn)]_vars

\* A capability that was rotated away authorizes nothing ever again: a process
\* that still holds an older copy of the state cannot bring it back, unless a
\* living holder's lock was removed.
RotatedCapabilitiesStayDead ==
    [][(file # NoState /\ ~robbed) => file'.capability >= file.capability]_vars

\* SKILL.md:43-51: the refusal of memory for the task is saved; it lasts until a
\* prompt asks for memory again, unless a living holder's lock was removed.
RefusalsLast ==
    [][(file # NoState /\ file.disabled /\ ~file'.disabled /\ ~robbed) =>
         \E h \in Hook : job[h].choice = "on" /\ job[h].pc = "write"]_vars

=============================================================================
