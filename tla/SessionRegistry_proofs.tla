------------------------ MODULE SessionRegistry_proofs ------------------------
(***************************************************************************)
(* The session registry: the lock file has one owner at a time, commits    *)
(* happen under the capability that was checked, rotated capabilities stay *)
(* dead.  For any number of hooks, calls, requests and crashes.            *)
(***************************************************************************)
EXTENDS SessionRegistry, TLAPS

-----------------------------------------------------------------------------
(* Types.  What a process carries depends on where it is: a hook that has  *)
(* loaded the session carries a copy of its state, a call the contract it  *)
(* was given until it has been authorized, and a copy from then on.        *)

Place == {"idle", "load", "want", "break", "inside", "commit", "write", "leave",
          "failed", "ready"}
Operation == {"none", "load", "start", "unskip", "choose", "reconcile", "activate",
              "checkpoint", "call"}

Job == [pc : Place, request : Event \cup Action \cup {"none"}, choice : Choice,
        turn : {NoTurn} \cup Turns, step : Operation,
        state : State \cup Contract \cup {NoState}]

CarriesCopy == {"unskip", "choose", "reconcile", "activate", "checkpoint"}

HookRowOK(row) ==
    /\ row.step # "call" /\ row.pc # "commit"
    /\ row.pc \in {"write", "leave", "ready"} => row.state \in State
    /\ row.step \in CarriesCopy => row.state \in State
    /\ row.request \in {"UserPromptSubmit", "Compact", "Stop"} => row.turn \in Turns
    /\ row.step = "activate" => row.request \in {"UserPromptSubmit", "Stop"}

CallRowOK(row) ==
    row.pc # "idle" =>
        /\ row.pc \notin {"load", "ready"}
        /\ row.step = "call" /\ row.request \in Action /\ row.turn \in Turns
        /\ row.pc \in {"want", "break", "inside"} =>
               row.state \in Contract /\ row.state.turn = row.turn
        /\ row.pc \in {"commit", "write"} => row.state \in State

RowOK(p, row) ==
    /\ row \in Job
    /\ p \in Hook => HookRowOK(row)
    /\ p \in Call => CallRowOK(row)

JobsOK == job \in [Process -> Job] /\ \A p \in Process : RowOK(p, job[p])

(* Every capability anybody knows of was drawn.                            *)
Drawn ==
    /\ \A p \in Process : job[p].state # NoState => job[p].state.capability <= issued
    /\ \A contract \in given : contract.capability <= issued

Types ==
    /\ RegistryTypeOK
    /\ requests \in 0 .. MaxRequests /\ turn <= requests
    /\ JobsOK
    /\ Drawn

-----------------------------------------------------------------------------
(* What the holder of the lock read is still what the file says.           *)

WritesNothingOlder ==
    ~robbed => \A p \in Process :
        job[p].pc = "write" /\ file # NoState => job[p].state.capability >= file.capability

AuthorizedUntilCommitted ==
    ~robbed => \A c \in Call : job[c].pc = "commit" =>
        /\ file # NoState
        /\ file.turn = job[c].turn
        /\ file.capability = job[c].state.capability
        /\ Participating(job[c].turn)

Inv == Types /\ LockIsExclusive /\ WritesNothingOlder /\ AuthorizedUntilCommitted
-----------------------------------------------------------------------------
(* Types are kept.                                                         *)

LEMMA IdleIsOK == \A p \in Process : RowOK(p, Idle)
  BY DEF RowOK, Job, Idle, HookRowOK, CallRowOK, Place, Operation, CarriesCopy, Choice,
         NoTurn

(* Every step changes the job of one process.                              *)
LEMMA OneJob ==
  ASSUME JobsOK, NEW p \in Process, NEW row, RowOK(p, row),
         job' = [job EXCEPT ![p] = row]
  PROVE  JobsOK'
  BY DEF JobsOK, RowOK, HookRowOK, CallRowOK

LEMMA CopyOfFile == RegistryTypeOK /\ file # NoState => file \in State
  BY DEF RegistryTypeOK

LEMMA StartedType == RegistryTypeOK => Started \in State
  <1> SUFFICES ASSUME RegistryTypeOK PROVE Started \in State
    OBVIOUS
  <1>1. Fresh \in Nat
    BY DEF RegistryTypeOK, Fresh
  <1>2. CASE file = NoState
    BY <1>1, <1>2 DEF Started, State, NoTurn
  <1>3. CASE file # NoState
    <2>1. file \in State
      BY <1>3 DEF RegistryTypeOK
    <2>2. [file EXCEPT !.capability = Fresh, !.turn = NoTurn] \in State
      BY <1>1, <2>1 DEF State, NoTurn
    <2> QED BY <1>3, <2>2 DEF Started
  <1> QED BY <1>2, <1>3

(* The job of one process: what the steps of the lock leave of it.         *)
LEMMA JobRow ==
  ASSUME JobsOK, NEW p \in Process
  PROVE  /\ job[p] \in Job /\ RowOK(p, job[p])
         /\ p \in Hook \/ p \in Call
         /\ p \in Call => p \notin Hook
  BY RegistryConstants DEF JobsOK, Process

LEMMA LockStepTypes ==
  ASSUME Types, NEW p \in Process, LockStep(p)
  PROVE  Types'
  <1> USE DEF Types
  <1>0. JobsOK /\ job[p] \in Job /\ RowOK(p, job[p])
    BY JobRow
  <1>1. \E row : job' = [job EXCEPT ![p] = row] /\ RowOK(p, row)
    <2>1. CASE Acquire(p)
      <3>1. RowOK(p, [job[p] EXCEPT !.pc = "inside"])
        BY <1>0, <2>1 DEF Acquire, RowOK, Job, Place, HookRowOK, CallRowOK
      <3> QED BY <3>1, <2>1 DEF Acquire
    <2>2. CASE JudgeStale(p)
      <3>1. RowOK(p, [job[p] EXCEPT !.pc = "break"])
        BY <1>0, <2>2 DEF JudgeStale, RowOK, Job, Place, HookRowOK, CallRowOK
      <3> QED BY <3>1, <2>2 DEF JudgeStale
    <2>3. CASE BreakLock(p)
      <3>1. RowOK(p, [job[p] EXCEPT !.pc = "want"])
        BY <1>0, <2>3 DEF BreakLock, RowOK, Job, Place, HookRowOK, CallRowOK
      <3> QED BY <3>1, <2>3 DEF BreakLock
    <2>4. CASE GiveUp(p)
      BY <2>4, IdleIsOK DEF GiveUp
    <2>5. CASE Release(p)
      <3>1. CASE job[p].pc = "failed" \/ p \in Call
        BY <2>5, <3>1, IdleIsOK DEF Release
      <3>2. CASE ~(job[p].pc = "failed" \/ p \in Call)
        <4>1. RowOK(p, [job[p] EXCEPT !.pc = "ready"])
          BY <1>0, <2>5, <3>2 DEF Release, RowOK, Job, Place, HookRowOK, CallRowOK
        <4> QED BY <4>1, <2>5, <3>2 DEF Release
      <3> QED BY <3>1, <3>2
    <2>6. CASE Write(p)
      <3>1. RowOK(p, [job[p] EXCEPT !.pc = "leave"])
        BY <1>0, <2>6 DEF Write, RowOK, Job, Place, HookRowOK, CallRowOK
      <3> QED BY <3>1, <2>6 DEF Write
    <2> QED BY <2>1, <2>2, <2>3, <2>4, <2>5, <2>6 DEF LockStep
  <1>2. JobsOK'
    BY <1>0, <1>1, OneJob
  <1>3. lock' \in Process \cup {Nobody, Gone} /\ old' \in BOOLEAN /\ robbed' \in BOOLEAN
    BY DEF LockStep, Acquire, JudgeStale, BreakLock, GiveUp, Release, Write, RegistryTypeOK
  <1>4. UNCHANGED <<thread, finalized, turn, given, issued, requests>>
    BY DEF LockStep, Acquire, JudgeStale, BreakLock, GiveUp, Release, Write, database, world
  <1>5. \A q \in Process : job'[q].state \in {job[q].state, NoState}
    BY <1>0 DEF LockStep, Acquire, JudgeStale, BreakLock, GiveUp, Release, Write, JobsOK,
                Idle, Job
  <1>6. /\ file' \in State \cup {NoState}
        /\ file' # NoState => file'.capability <= issued
    <2>1. CASE file' = file
      BY <2>1 DEF RegistryTypeOK
    <2>2. CASE Write(p)
      BY <2>2, <1>0 DEF Write, RowOK, HookRowOK, CallRowOK, Drawn, Process
    <2> QED BY <2>1, <2>2 DEF LockStep, Acquire, JudgeStale, BreakLock, GiveUp, Release
  <1>7. RegistryTypeOK'
    BY <1>2, <1>3, <1>4, <1>6 DEF RegistryTypeOK, JobsOK, Job
  <1> QED BY <1>2, <1>4, <1>5, <1>7 DEF Drawn

(* A step that leaves the files alone and gives process p the job row.     *)
LEMMA RowTypes ==
  ASSUME Types, NEW p \in Process, NEW row, RowOK(p, row),
         job' = [job EXCEPT ![p] = row],
         UNCHANGED <<file, lock, old, robbed>>,
         issued' \in Nat, issued' >= issued,
         row.state # NoState => row.state.capability <= issued',
         thread' \in BOOLEAN, finalized' \subseteq Turns,
         turn' \in {NoTurn} \cup Turns, requests' \in 0 .. MaxRequests, turn' <= requests',
         \A contract \in given' : contract \in Contract /\ contract.capability <= issued'
  PROVE  Types'
  <1> USE DEF Types
  <1>1. JobsOK'
    BY OneJob
  <1>2. Drawn'
    <2>1. \A q \in Process : job'[q].state # NoState => job'[q].state.capability <= issued'
      <3> SUFFICES ASSUME NEW q \in Process, job'[q].state # NoState
                   PROVE  job'[q].state.capability <= issued'
        OBVIOUS
      <3>1. CASE q = p
        BY <3>1 DEF JobsOK
      <3>2. CASE q # p
        <4>1. job'[q].state = job[q].state
          BY <3>2 DEF JobsOK
        <4>2. job[q].state.capability \in Nat
          BY <4>1 DEF JobsOK, Job, State, Contract
        <4> QED BY <4>1, <4>2 DEF Drawn, RegistryTypeOK
      <3> QED BY <3>1, <3>2
    <2> QED BY <2>1 DEF Drawn
  <1>3. file # NoState => file.capability <= issued'
    BY DEF RegistryTypeOK, State
  <1>4. RegistryTypeOK'
    BY <1>1, <1>3 DEF RegistryTypeOK, JobsOK, Job
  <1> QED BY <1>1, <1>2, <1>4

LEMMA GivenWereDrawn ==
  ASSUME Types
  PROVE  /\ \A contract \in given : contract \in Contract /\ contract.capability <= issued
         /\ issued \in Nat /\ thread \in BOOLEAN /\ finalized \subseteq Turns
         /\ turn \in {NoTurn} \cup Turns /\ requests \in 0 .. MaxRequests /\ turn <= requests
  BY DEF Types, RegistryTypeOK, Drawn

LEMMA DeliverTypes ==
  ASSUME Types, NEW h \in Hook, NEW event \in Event, NEW choice \in Choice,
         Deliver(h, event, choice)
  PROVE  Types'
  <1> DEFINE row == [Idle EXCEPT
          !.pc = IF event = "SessionStart" THEN "want" ELSE "load",
          !.step = IF event = "SessionStart" THEN "start" ELSE "load",
          !.request = event, !.choice = choice, !.turn = turn']
  <1>1. /\ turn' \in {NoTurn} \cup Turns /\ requests' \in 0 .. MaxRequests /\ turn' <= requests'
        /\ event \in {"UserPromptSubmit", "Compact", "Stop"} => turn' \in Turns
    BY GivenWereDrawn, RegistryConstants DEF Deliver, Turns, NoTurn
  <1>2. RowOK(h, row)
    BY <1>1, RegistryConstants DEF RowOK, Job, Idle, HookRowOK, Place, Operation, CarriesCopy, Event
  <1>3. row.state = NoState
    BY DEF Idle
  <1>4. /\ job' = [job EXCEPT ![h] = row]
        /\ UNCHANGED <<file, lock, old, robbed, issued, thread, finalized, given>>
    BY DEF Deliver, database
  <1>5. issued' \in Nat /\ issued' >= issued
    BY <1>4, GivenWereDrawn
  <1>6. /\ thread' \in BOOLEAN /\ finalized' \subseteq Turns
        /\ \A contract \in given' : contract \in Contract /\ contract.capability <= issued'
    BY <1>4, GivenWereDrawn
  <1> HIDE DEF row
  <1> QED BY <1>1, <1>2, <1>3, <1>4, <1>5, <1>6, RowTypes DEF Process

LEMMA PresentTypes ==
  ASSUME Types, NEW c \in Call, NEW contract \in given, NEW action \in Action,
         Present(c, contract, action)
  PROVE  Types'
  <1> DEFINE row == [Idle EXCEPT
          !.pc = "want", !.step = "call", !.request = action, !.turn = contract.turn,
          !.state = contract]
  <1>1. contract \in Contract /\ contract.capability <= issued
    BY GivenWereDrawn
  <1>2. RowOK(c, row)
    BY <1>1, RegistryConstants DEF RowOK, Job, Idle, CallRowOK, Place, Operation, Contract, Choice
  <1>3. row.state = contract
    BY DEF Idle
  <1>4. turn <= requests' /\ requests' \in 0 .. MaxRequests
    BY GivenWereDrawn, RegistryConstants DEF Present, Turns, NoTurn
  <1>5. /\ job' = [job EXCEPT ![c] = row]
        /\ UNCHANGED <<file, lock, old, robbed, issued, thread, finalized, turn, given>>
    BY DEF Present, database
  <1>6. issued' \in Nat /\ issued' >= issued
    BY <1>5, GivenWereDrawn
  <1>7. /\ thread' \in BOOLEAN /\ finalized' \subseteq Turns
        /\ turn' \in {NoTurn} \cup Turns /\ turn' <= requests'
        /\ \A g \in given' : g \in Contract /\ g.capability <= issued'
    BY <1>4, <1>5, GivenWereDrawn
  <1> HIDE DEF row
  <1> QED BY <1>1, <1>2, <1>3, <1>4, <1>5, <1>6, <1>7, RowTypes DEF Process

(* The same for a step within the process.                                 *)
LEMMA QuietRow ==
  ASSUME Types, NEW p \in Process, NEW row, RowOK(p, row),
         job' = [job EXCEPT ![p] = row],
         UNCHANGED <<file, lock, old, robbed, thread, finalized, turn, given, requests>>,
         issued' \in Nat, issued' >= issued,
         row.state # NoState => row.state.capability <= issued'
  PROVE  Types'
  <1>1. /\ thread' \in BOOLEAN /\ finalized' \subseteq Turns
        /\ turn' \in {NoTurn} \cup Turns /\ turn' <= requests' /\ requests' \in 0 .. MaxRequests
    BY GivenWereDrawn
  <1>2. \A g \in given' : g \in Contract /\ g.capability <= issued'
    BY GivenWereDrawn DEF Contract
  <1> QED BY <1>1, <1>2, RowTypes

(* What a hook that has come to a step carries.                            *)
LEMMA CopyType ==
  ASSUME Types, NEW h \in Hook
  PROVE  /\ job[h] \in Job /\ RowOK(h, job[h]) /\ h \in Process
         /\ job[h].pc = "ready" => Copy(h) \in State
         /\ Copy(h) # NoState => Copy(h).capability <= issued
         /\ issued \in Nat
  BY DEF Types, JobsOK, RowOK, HookRowOK, Copy, Drawn, Process, RegistryTypeOK

LEMMA AskTypes ==
  ASSUME Types, NEW h \in Hook, NEW step \in CarriesCopy, NEW state \in State,
         job[h].pc = "ready", state.capability = Copy(h).capability,
         step = "activate" => job[h].request \in {"UserPromptSubmit", "Stop"},
         Ask(h, step, state)
  PROVE  Types'
  <1> DEFINE row == [job[h] EXCEPT !.pc = "want", !.step = step, !.state = state]
  <1>1. job[h] \in Job /\ HookRowOK(job[h])
    BY CopyType DEF RowOK
  <1>2. RowOK(h, row)
    BY <1>1, RegistryConstants DEF RowOK, HookRowOK, Job, Place, Operation, CarriesCopy
  <1>3. row.state # NoState => row.state.capability <= issued
    BY <1>1, CopyType, NoStateAssumption DEF Job
  <1>4. /\ job' = [job EXCEPT ![h] = row]
        /\ UNCHANGED <<file, lock, old, robbed, issued, thread, finalized, turn, given, requests>>
    BY DEF Ask, database, world
  <1>5. issued' \in Nat /\ issued' >= issued
    BY <1>4, CopyType
  <1> HIDE DEF row
  <1> QED BY <1>2, <1>3, <1>4, <1>5, CopyType, QuietRow

LEMMA HookAsksTypes ==
  ASSUME Types, NEW h \in Hook,
         Unskip(h) \/ Choose(h) \/ Reconcile(h) \/ Activate(h) \/ Checkpoint(h)
  PROVE  Types'
  <1>1. job[h].pc = "ready" /\ job[h] \in Job /\ job[h].turn \in {NoTurn} \cup Turns
    BY CopyType DEF Unskip, MustUnskip, Choose, MustChoose, Reconcile, HasChosen, Activate,
                    Checkpoint, At, Job
  <1>2. Copy(h) \in State
    BY <1>1, CopyType
  <1>3. thread \in BOOLEAN
    BY GivenWereDrawn
  <1>4. CASE Unskip(h)
    <2>1. [Copy(h) EXCEPT !.skipped = NoTurn] \in State
      BY <1>2 DEF State
    <2>2. [Copy(h) EXCEPT !.skipped = NoTurn].capability = Copy(h).capability
      BY <1>2 DEF State
    <2> QED BY <1>1, <1>4, <2>1, <2>2, AskTypes DEF Unskip, CarriesCopy
  <1>5. CASE Choose(h)
    <2> DEFINE d(was) == CASE job[h].choice = "off" -> TRUE
                           [] job[h].choice = "on"  -> FALSE
                           [] OTHER                 -> was
               s == IF job[h].choice = "skip" THEN job[h].turn ELSE NoTurn
               next == [Copy(h) EXCEPT !.disabled = d(@), !.skipped = s]
    <2>1. Copy(h).disabled \in BOOLEAN
      BY <1>2 DEF State
    <2>2. d(Copy(h).disabled) \in BOOLEAN /\ s \in {NoTurn} \cup Turns
      BY <1>1, <2>1
    <2>3. next \in State /\ next.capability = Copy(h).capability
      <3> HIDE DEF d, s
      <3> QED BY <1>2, <2>2 DEF State
    <2>4. Ask(h, "choose", next)
      BY <1>5 DEF Choose
    <2> HIDE DEF next
    <2> QED BY <1>1, <2>3, <2>4, AskTypes DEF CarriesCopy
  <1>6. CASE Reconcile(h)
    <2>1. [Copy(h) EXCEPT !.bound = thread] \in State
      BY <1>2, <1>3 DEF State
    <2>2. [Copy(h) EXCEPT !.bound = thread].capability = Copy(h).capability
      BY <1>2 DEF State
    <2> QED BY <1>1, <1>6, <2>1, <2>2, AskTypes DEF Reconcile, CarriesCopy
  <1>7. CASE Activate(h)
    BY <1>1, <1>2, <1>7, AskTypes DEF Activate, CarriesCopy
  <1>8. CASE Checkpoint(h)
    BY <1>1, <1>2, <1>8, AskTypes DEF Checkpoint, CarriesCopy
  <1> QED BY <1>4, <1>5, <1>6, <1>7, <1>8

LEMMA LoadTypes ==
  ASSUME Types, NEW h \in Hook, Load(h)
  PROVE  Types'
  <1> DEFINE row == IF file = NoState
                    THEN [job[h] EXCEPT !.pc = "want", !.step = "start"]
                    ELSE [job[h] EXCEPT !.pc = "ready", !.state = file]
  <1>1. job[h] \in Job /\ HookRowOK(job[h]) /\ RegistryTypeOK
    BY CopyType DEF RowOK, Types
  <1>2. RowOK(h, row)
    <2>1. CASE file = NoState
      BY <1>1, <2>1, RegistryConstants DEF RowOK, HookRowOK, Job, Place, Operation, CarriesCopy
    <2>2. CASE file # NoState
      <3>1. file \in State
        BY <1>1, <2>2, CopyOfFile
      <3> QED BY <1>1, <2>2, <3>1, RegistryConstants DEF RowOK, HookRowOK, Job, Place
    <2> QED BY <2>1, <2>2
  <1>3. row.state \in {file, job[h].state}
    BY <1>1 DEF Job
  <1>4. row.state # NoState => row.state.capability <= issued
    BY <1>1, <1>3, CopyType DEF Copy, RegistryTypeOK
  <1>5. /\ job' = [job EXCEPT ![h] = row]
        /\ UNCHANGED <<file, lock, old, robbed, issued, thread, finalized, turn, given, requests>>
    BY DEF Load, database, world
  <1>6. issued' \in Nat /\ issued' >= issued
    BY <1>5, CopyType
  <1> HIDE DEF row
  <1> QED BY <1>2, <1>4, <1>5, <1>6, CopyType, QuietRow

(* The hook ends; what it printed carries the capability of its copy.      *)
LEMMA EndTypes ==
  ASSUME Types, NEW h \in Hook, StandAside(h) \/ Answer(h) \/ Finish(h)
  PROVE  Types'
  <1>1. RowOK(h, Idle) /\ h \in Process /\ Idle.state = NoState
    BY IdleIsOK DEF Process, Idle
  <1>2. /\ job' = [job EXCEPT ![h] = Idle]
        /\ UNCHANGED <<file, lock, old, robbed, issued, thread, finalized, turn, requests>>
    BY DEF StandAside, Answer, Finish, End, database
  <1>3. \A g \in given' : g \in Contract /\ g.capability <= issued
    <2>1. CASE given' = given
      BY <2>1, GivenWereDrawn
    <2>2. CASE Answer(h)
      <3>1. job[h].pc = "ready" /\ job[h].request \in {"UserPromptSubmit", "Stop"}
        BY <2>2, CopyType DEF Answer, At, RowOK, HookRowOK
      <3>2. Copy(h) \in State /\ job[h].turn \in Turns
        BY <3>1, CopyType DEF RowOK, HookRowOK
      <3>3. [capability |-> Copy(h).capability, turn |-> job[h].turn] \in Contract
        BY <3>2 DEF Contract, State
      <3> QED BY <2>2, <3>2, <3>3, GivenWereDrawn, CopyType, NoStateAssumption DEF Answer
    <2> QED BY <2>1, <2>2 DEF StandAside, Finish
  <1>4. \A g \in given' : g \in Contract /\ g.capability <= issued'
    BY <1>2, <1>3
  <1>5. issued' \in Nat /\ issued' >= issued
    BY <1>2, GivenWereDrawn
  <1>6. /\ thread' \in BOOLEAN /\ finalized' \subseteq Turns
        /\ turn' \in {NoTurn} \cup Turns /\ turn' <= requests' /\ requests' \in 0 .. MaxRequests
    BY <1>2, GivenWereDrawn
  <1> QED BY <1>1, <1>2, <1>4, <1>5, <1>6, RowTypes

(* An operation under the lock, whatever it reads and decides.             *)
LEMMA ReadTypes ==
  ASSUME Types, NEW p \in Process, NEW steps, NEW refused \in BOOLEAN, NEW pc, NEW next,
         ReadAnd(p, steps, refused, pc, next),
         ~refused => /\ next \in State /\ next.capability <= issued'
                     /\ pc \in {"write", "leave", "commit"}
                     /\ pc = "commit" => p \in Call,
         issued' \in Nat, issued' >= issued
  PROVE  Types'
  <1> DEFINE row == [job[p] EXCEPT !.pc = IF refused THEN "failed" ELSE pc,
                                   !.state = IF refused THEN job[p].state ELSE next]
  <1>1. /\ job[p] \in Job /\ RowOK(p, job[p]) /\ job[p].pc = "inside"
        /\ p \in Call => p \notin Hook
    BY JobRow DEF ReadAnd, Types
  <1>2. RowOK(p, row)
    <2>1. CASE refused
      BY <1>1, <2>1 DEF RowOK, HookRowOK, CallRowOK, Job, Place
    <2>2. CASE ~refused
      BY <1>1, <2>2 DEF RowOK, HookRowOK, CallRowOK, Job, Place
    <2> QED BY <2>1, <2>2
  <1>3. row.state # NoState => row.state.capability <= issued'
    <2>1. CASE refused
      <3>1. job[p].state # NoState =>
               job[p].state.capability <= issued /\ job[p].state.capability \in Nat
        BY <1>1 DEF Types, Drawn, Job, State, Contract
      <3>2. row.state = job[p].state
        BY <1>1, <2>1 DEF Job
      <3>3. issued \in Nat
        BY GivenWereDrawn
      <3> HIDE DEF row
      <3> QED BY <3>1, <3>2, <3>3
    <2>2. CASE ~refused
      BY <1>1, <2>2 DEF Job
    <2> QED BY <2>1, <2>2
  <1>4. /\ job' = [job EXCEPT ![p] = row]
        /\ UNCHANGED <<file, lock, old, robbed, thread, finalized, turn, given, requests>>
    BY DEF ReadAnd, database, world
  <1> HIDE DEF row
  <1> QED BY <1>2, <1>3, <1>4, QuietRow

LEMMA HookReadsTypes ==
  ASSUME Types, NEW h \in Hook, StartOrResume(h) \/ Save(h) \/ ActivateTurn(h)
  PROVE  Types'
  <1>1. /\ h \in Process /\ h \notin Call /\ issued \in Nat /\ Fresh \in Nat /\ Fresh = issued + 1
        /\ RegistryTypeOK /\ HookRowOK(job[h]) /\ job[h] \in Job
    BY CopyType, RegistryConstants DEF Fresh, Types, RowOK
  <1>2. file # NoState => file \in State /\ file.capability <= issued /\ file.capability \in Nat
    BY <1>1 DEF RegistryTypeOK, State
  <1>3. CASE StartOrResume(h)
    <2>1. Started \in State
      BY <1>1, StartedType
    <2>2. Started.capability = Fresh
      <3>1. CASE file = NoState
        BY <3>1 DEF Started
      <3>2. CASE file # NoState
        BY <1>2, <3>2 DEF Started, State
      <3> QED BY <3>1, <3>2
    <2>3. issued' = Fresh /\ ReadAnd(h, {"start"}, FALSE, "write", Started)
      BY <1>3 DEF StartOrResume
    <2>4. Started.capability <= issued' /\ issued' \in Nat /\ issued' >= issued
      BY <1>1, <2>2, <2>3
    <2> QED BY <1>1, <2>1, <2>3, <2>4, ReadTypes
  <1>4. CASE Save(h)
    <2> DEFINE steps == {"unskip", "choose", "reconcile", "checkpoint"}
    <2>1. ReadAnd(h, steps, StaleCopy(job[h].state), "write", job[h].state) /\ issued' = issued
      BY <1>4 DEF Save
    <2>2. job[h].step \in CarriesCopy
      BY <2>1 DEF ReadAnd, CarriesCopy
    <2>3. job[h].state \in State
      BY <1>1, <2>2 DEF HookRowOK
    <2>4. job[h].state.capability <= issued
      BY <2>3, CopyType, NoStateAssumption DEF Copy
    <2>5. StaleCopy(job[h].state) \in BOOLEAN
      BY DEF StaleCopy
    <2>6. issued' \in Nat /\ issued' >= issued /\ job[h].state.capability <= issued'
      BY <1>1, <2>1, <2>4
    <2> HIDE DEF steps
    <2> QED BY <1>1, <2>1, <2>3, <2>5, <2>6, ReadTypes
  <1>5. CASE ActivateTurn(h)
    <2> DEFINE t == job[h].turn
               known == file # NoState /\ file.turn = t
               pc == IF known THEN "leave" ELSE "write"
               next == IF known \/ file = NoState THEN file
                       ELSE [file EXCEPT !.capability = Fresh, !.turn = t]
    <2>1. /\ ReadAnd(h, {"activate"}, file = NoState, pc, next)
          /\ issued' = IF known \/ file = NoState THEN issued ELSE Fresh
      BY <1>5 DEF ActivateTurn
    <2>2. t \in {NoTurn} \cup Turns
      BY <1>1 DEF Job
    <2>3. issued' \in Nat /\ issued' >= issued
      BY <1>1, <2>1
    <2>4. ASSUME file # NoState PROVE next \in State /\ next.capability <= issued'
      <3>1. CASE known
        BY <1>2, <2>1, <2>4, <3>1
      <3>2. CASE ~known
        <4>1. next = [file EXCEPT !.capability = Fresh, !.turn = t] /\ issued' = Fresh
          BY <2>1, <2>4, <3>2
        <4>2. next \in State /\ next.capability = Fresh
          <5> HIDE DEF next, t, known
          <5> QED BY <1>1, <1>2, <2>2, <2>4, <4>1 DEF State
        <4> QED BY <1>1, <4>1, <4>2
      <3> QED BY <3>1, <3>2
    <2>5. pc \in {"write", "leave", "commit"} /\ pc # "commit"
      OBVIOUS
    <2> HIDE DEF next, pc, known, t
    <2> QED BY <1>1, <2>1, <2>3, <2>4, <2>5, ReadTypes
  <1> QED BY <1>3, <1>4, <1>5

(* What with_capability lets through, and what it goes on to do.           *)
LEMMA AuthorizeReads ==
  ASSUME Types, NEW c \in Call, Authorize(c)
  PROVE  /\ issued' = issued
         /\ \E refused \in BOOLEAN, pc \in {"commit", "write"} : \E next :
              /\ ReadAnd(c, {"call"}, refused, pc, next)
              /\ ~refused => /\ Authorized(job[c].state) /\ next \in State
                             /\ next.capability = file.capability
                             /\ pc = "commit" => Participating(job[c].turn)
  <1> DEFINE contract == job[c].state
             action == job[c].request
             t == job[c].turn
             refused == \/ ~Authorized(contract)
                        \/ action \in {"bind", "record"} /\ ~Participating(t)
                        \/ action = "record" /\ ~file.bound
             pc == IF action \in {"bind", "record"} THEN "commit" ELSE "write"
             next == CASE refused -> contract
                       [] action = "off"    -> [file EXCEPT !.disabled = TRUE, !.skipped = t]
                       [] action = "skip"   -> [file EXCEPT !.skipped = t]
                       [] action = "bind"   -> [file EXCEPT !.bound = TRUE]
                       [] action = "record" -> file
  <1>1. ReadAnd(c, {"call"}, refused, pc, next) /\ issued' = issued
    BY DEF Authorize
  <1>2. /\ job[c] \in Job /\ CallRowOK(job[c]) /\ job[c].pc = "inside" /\ RegistryTypeOK
    BY <1>1, JobRow DEF ReadAnd, Types, RowOK, Process
  <1>3. action \in Action /\ t \in Turns
    BY <1>2 DEF CallRowOK
  <1>4. ASSUME ~refused
        PROVE  /\ Authorized(contract) /\ next \in State /\ next.capability = file.capability
               /\ pc = "commit" => Participating(t)
    <2>1. Authorized(contract) /\ (action \in {"bind", "record"} => Participating(t))
      BY <1>4
    <2>2. file \in State
      BY <1>2, <2>1 DEF Authorized, RegistryTypeOK
    <2>3. next \in State /\ next.capability = file.capability
      <3>1. CASE action = "off"
        <4>1. next = [file EXCEPT !.disabled = TRUE, !.skipped = t]
          BY <1>4, <3>1
        <4> HIDE DEF next, t
        <4> QED BY <1>3, <2>2, <4>1 DEF State
      <3>2. CASE action = "skip"
        <4>1. next = [file EXCEPT !.skipped = t]
          BY <1>4, <3>2
        <4> HIDE DEF next, t
        <4> QED BY <1>3, <2>2, <4>1 DEF State
      <3>3. CASE action = "bind"
        <4>1. next = [file EXCEPT !.bound = TRUE]
          BY <1>4, <3>3
        <4> HIDE DEF next
        <4> QED BY <2>2, <4>1 DEF State
      <3>4. CASE action = "record"
        <4>1. next = file
          BY <1>4, <3>4
        <4> QED BY <2>2, <4>1
      <3> HIDE DEF next
      <3> QED BY <1>3, <3>1, <3>2, <3>3, <3>4 DEF Action
    <2> HIDE DEF next
    <2> QED BY <2>1, <2>3
  <1>5. refused \in BOOLEAN /\ pc \in {"commit", "write"}
    OBVIOUS
  <1> HIDE DEF next, refused, pc, action
  <1> QED BY <1>1, <1>4, <1>5

LEMMA CallTypes ==
  ASSUME Types, NEW c \in Call, Authorize(c) \/ Commit(c)
  PROVE  Types'
  <1>1. c \in Process /\ RegistryTypeOK /\ issued \in Nat
    BY GivenWereDrawn DEF Process, Types
  <1>2. CASE Authorize(c)
    <2>1. PICK refused \in BOOLEAN, pc \in {"commit", "write"} : \E next :
            /\ ReadAnd(c, {"call"}, refused, pc, next)
            /\ ~refused => /\ Authorized(job[c].state) /\ next \in State
                           /\ next.capability = file.capability
      BY <1>2, AuthorizeReads
    <2>2. PICK next :
            /\ ReadAnd(c, {"call"}, refused, pc, next)
            /\ ~refused => /\ Authorized(job[c].state) /\ next \in State
                           /\ next.capability = file.capability
      BY <2>1
    <2>3. ~refused => next.capability <= issued
      BY <1>1, <2>2 DEF Authorized, RegistryTypeOK
    <2>4. issued' \in Nat /\ issued' >= issued /\ issued' = issued
      BY <1>1, <1>2, AuthorizeReads
    <2> QED BY <1>1, <2>2, <2>3, <2>4, ReadTypes
  <1>3. CASE Commit(c)
    <2> DEFINE row == [job[c] EXCEPT !.pc = IF job[c].request = "bind" THEN "write" ELSE "leave"]
    <2>1. job[c] \in Job /\ CallRowOK(job[c]) /\ c \notin Hook
      BY <1>1, JobRow, RegistryConstants DEF Types, RowOK
    <2>2. RowOK(c, row)
      BY <1>3, <2>1 DEF Commit, RowOK, CallRowOK, Job, Place
    <2>3. row.state = job[c].state
      BY <2>1 DEF Job
    <2>4. row.state # NoState => row.state.capability <= issued
      BY <1>1, <2>3 DEF Types, Drawn
    <2>5. /\ job' = [job EXCEPT ![c] = row]
          /\ UNCHANGED <<file, lock, old, robbed, issued, turn, given, requests>>
      BY <1>3 DEF Commit, world
    <2>6. thread' \in BOOLEAN /\ finalized' \subseteq Turns
      BY <1>1, <1>3, <2>1 DEF Commit, CallRowOK, RegistryTypeOK
    <2>7. issued' \in Nat /\ issued' >= issued
      BY <1>1, <2>5
    <2>8. /\ turn' \in {NoTurn} \cup Turns /\ requests' \in 0 .. MaxRequests /\ turn' <= requests'
          /\ \A g \in given' : g \in Contract /\ g.capability <= issued'
      BY <2>5, GivenWereDrawn
    <2> HIDE DEF row
    <2> QED BY <1>1, <2>2, <2>4, <2>5, <2>6, <2>7, <2>8, RowTypes
  <1> QED BY <1>2, <1>3

LEMMA CrashTypes ==
  ASSUME Types, NEW p \in Process, Crash(p)
  PROVE  Types'
  <1>1. RowOK(p, Idle) /\ JobsOK
    BY IdleIsOK DEF Types
  <1>2. JobsOK'
    BY <1>1, OneJob DEF Crash
  <1>3. \A q \in Process : job'[q].state \in {job[q].state, NoState}
    BY <1>1 DEF Crash, JobsOK, Idle
  <1>4. /\ lock' \in Process \cup {Nobody, Gone}
        /\ UNCHANGED <<file, old, robbed, issued, thread, finalized, turn, given, requests>>
    BY DEF Crash, Types, RegistryTypeOK, database
  <1>5. RegistryTypeOK'
    BY <1>2, <1>4 DEF Types, RegistryTypeOK, JobsOK, Job
  <1>6. Drawn'
    BY <1>3, <1>4 DEF Types, Drawn
  <1> QED BY <1>2, <1>4, <1>5, <1>6 DEF Types

LEMMA AgeTypes ==
  ASSUME Types, Age
  PROVE  Types'
  BY DEF Types, Age, RegistryTypeOK, JobsOK, RowOK, HookRowOK, CallRowOK, Drawn, database, world

LEMMA InitTypes == RegistryInit => Types
  <1> SUFFICES ASSUME RegistryInit PROVE Types
    OBVIOUS
  <1>1. file \in State \cup {NoState} /\ (file # NoState => file.capability <= issued)
    <2>1. Resumed \in State /\ Resumed.capability = 1
      BY DEF Resumed, State, NoTurn
    <2> QED BY <2>1 DEF RegistryInit
  <1>2. JobsOK /\ \A p \in Process : job[p].state = NoState
    <2>1. job = [p \in Process |-> Idle] /\ Idle.state = NoState
      BY DEF RegistryInit, Idle
    <2>2. \A p \in Process : Idle \in Job
      BY IdleIsOK DEF RowOK
    <2>3. job \in [Process -> Job] /\ \A p \in Process : job[p] = Idle
      <3> HIDE DEF Idle
      <3> QED BY <2>1, <2>2
    <2> QED BY <2>1, <2>3, IdleIsOK DEF JobsOK
  <1>3. RegistryTypeOK
    <2>1. /\ lock = Nobody /\ old = FALSE /\ finalized = {} /\ turn = NoTurn /\ given = {}
          /\ robbed = FALSE
      BY DEF RegistryInit
    <2>2. thread = FALSE \/ thread = TRUE
      BY DEF RegistryInit
    <2>3. issued \in Nat
      BY DEF RegistryInit
    <2> QED BY <1>1, <1>2, <2>1, <2>2, <2>3 DEF RegistryTypeOK
  <1>4. Drawn
    BY <1>2 DEF Drawn, RegistryInit
  <1> QED BY <1>2, <1>3, <1>4, RegistryConstants DEF Types, RegistryInit, NoTurn

(* Standing still, in the form the steps below use.                        *)
LEMMA TypesStutter == Types /\ UNCHANGED vars => Types'
  BY DEF Types, vars, RegistryTypeOK, JobsOK, RowOK, HookRowOK, CallRowOK, Drawn, database, world

LEMMA TypesStep == Types /\ [RegistryNext]_vars => Types'
  <1> SUFFICES ASSUME Types, RegistryNext PROVE Types'
    BY TypesStutter
  <1>1. CASE \E h \in Hook : HookStep(h)
    <2>1. PICK h \in Hook : HookStep(h)
      BY <1>1
    <2> QED BY <2>1, DeliverTypes, HookAsksTypes, LoadTypes, EndTypes, HookReadsTypes DEF HookStep
  <1>2. CASE \E c \in Call : CallStep(c)
    <2>1. PICK c \in Call : CallStep(c)
      BY <1>2
    <2> QED BY <2>1, PresentTypes, CallTypes DEF CallStep
  <1>3. CASE \E p \in Process : LockStep(p) \/ Crash(p)
    BY <1>3, LockStepTypes, CrashTypes
  <1>4. CASE Age
    BY <1>4, AgeTypes
  <1> QED BY <1>1, <1>2, <1>3, <1>4 DEF RegistryNext

-----------------------------------------------------------------------------
(* One owner.  A step either touches the lock file or lets nobody in.      *)

LetsNobodyIn ==
    /\ UNCHANGED <<lock, robbed>>
    /\ \A q \in Process : Holding(q)' => Holding(q)

LEMMA KeepsOwner ==
  ASSUME LockIsExclusive, LetsNobodyIn
  PROVE  LockIsExclusive'
  BY DEF LockIsExclusive, LetsNobodyIn

LEMMA HookLetsNobodyIn ==
  ASSUME Types, NEW h \in Hook, HookStep(h)
  PROVE  LetsNobodyIn
  <1> USE DEF LetsNobodyIn, Holding, Types, JobsOK, Job
  <1>1. h \in Process
    BY DEF Process
  <1>2. ASSUME NEW event \in Event, NEW choice \in Choice, Deliver(h, event, choice)
        PROVE  LetsNobodyIn
    BY <1>1, <1>2 DEF Deliver, Idle, Event
  <1>3. ASSUME NEW step, NEW state, Ask(h, step, state) PROVE LetsNobodyIn
    BY <1>1, <1>3 DEF Ask
  <1>4. CASE Unskip(h) \/ Choose(h) \/ Reconcile(h) \/ Activate(h) \/ Checkpoint(h)
    BY <1>3, <1>4 DEF Unskip, Choose, Reconcile, Activate, Checkpoint
  <1>5. CASE Load(h)
    BY <1>1, <1>5 DEF Load
  <1>6. CASE StandAside(h) \/ Answer(h) \/ Finish(h)
    BY <1>1, <1>6 DEF StandAside, Answer, Finish, End, Idle
  <1>7. CASE StartOrResume(h) \/ Save(h) \/ ActivateTurn(h)
    BY <1>1, <1>7 DEF StartOrResume, Save, ActivateTurn, ReadAnd
  <1> QED BY <1>2, <1>4, <1>5, <1>6, <1>7 DEF HookStep

LEMMA CallLetsNobodyIn ==
  ASSUME Types, NEW c \in Call, CallStep(c)
  PROVE  LetsNobodyIn
  <1> USE DEF LetsNobodyIn, Holding, Types, JobsOK, Job
  <1>1. c \in Process
    BY DEF Process
  <1>2. ASSUME NEW contract \in given, NEW action \in Action, Present(c, contract, action)
        PROVE  LetsNobodyIn
    BY <1>1, <1>2 DEF Present, Idle
  <1>3. CASE Authorize(c)
    BY <1>1, <1>3 DEF Authorize, ReadAnd
  <1>4. CASE Commit(c)
    BY <1>1, <1>4 DEF Commit
  <1> QED BY <1>2, <1>3, <1>4 DEF CallStep

(* The steps of the lock: while nobody has been robbed, the file tells who *)
(* is inside.                                                              *)
LEMMA LockStepKeepsOwner ==
  ASSUME Types, LockIsExclusive, NEW p \in Process, LockStep(p) \/ Crash(p)
  PROVE  LockIsExclusive'
  <1> SUFFICES ASSUME ~robbed', NEW q \in Process, Holding(q)' PROVE lock' = q
    BY DEF LockIsExclusive
  <1> USE DEF Holding, Types, JobsOK, Job
  <1>1. Nobody \notin Process /\ Gone \notin Process
    BY RegistryConstants DEF Process
  <1>2. ~robbed
    BY DEF LockStep, Acquire, JudgeStale, BreakLock, GiveUp, Release, Write, Crash
  <1>3. \A r \in Process : Holding(r) => lock = r
    BY <1>2 DEF LockIsExclusive
  <1>4. CASE Acquire(p)
    BY <1>1, <1>3, <1>4 DEF Acquire
  <1>5. CASE JudgeStale(p)
    BY <1>3, <1>5 DEF JudgeStale
  <1>6. CASE BreakLock(p)
    BY <1>3, <1>6 DEF BreakLock
  <1>7. CASE GiveUp(p)
    BY <1>3, <1>7 DEF GiveUp, Idle
  <1>8. CASE Release(p)
    BY <1>3, <1>8 DEF Release, Idle
  <1>9. CASE Write(p)
    BY <1>3, <1>9 DEF Write
  <1>10. CASE Crash(p)
    BY <1>3, <1>10 DEF Crash, Idle
  <1> QED BY <1>4, <1>5, <1>6, <1>7, <1>8, <1>9, <1>10 DEF LockStep

LEMMA LockIsExclusiveStep == Types /\ LockIsExclusive /\ [RegistryNext]_vars => LockIsExclusive'
  <1> SUFFICES ASSUME Types, LockIsExclusive, [RegistryNext]_vars PROVE LockIsExclusive'
    OBVIOUS
  <1>1. CASE UNCHANGED vars \/ Age
    BY <1>1 DEF vars, Age, LockIsExclusive, Holding
  <1>2. CASE RegistryNext /\ ~Age
    BY <1>2, KeepsOwner, HookLetsNobodyIn, CallLetsNobodyIn, LockStepKeepsOwner DEF RegistryNext
  <1> QED BY <1>1, <1>2

-----------------------------------------------------------------------------
(* What was read under the lock stays true until it is used.               *)

Checked(row) ==
    /\ row.pc = "write" /\ file # NoState => row.state.capability >= file.capability
    /\ row.pc = "commit" => /\ file # NoState
                            /\ file.turn = row.turn
                            /\ file.capability = row.state.capability
                            /\ Participating(row.turn)

LEMMA ReadsStay ==
  ASSUME Types, WritesNothingOlder, AuthorizedUntilCommitted,
         NEW p \in Process, \A q \in Process \ {p} : job'[q] = job[q],
         file' = file, robbed => robbed',
         ~robbed => Checked(job'[p])
  PROVE  WritesNothingOlder' /\ AuthorizedUntilCommitted'
  <1>2. WritesNothingOlder'
    BY DEF WritesNothingOlder, Checked
  <1>3. Call \subseteq Process
    BY DEF Process
  <1>4. AuthorizedUntilCommitted'
    BY <1>3 DEF AuthorizedUntilCommitted, Checked, Participating
  <1> QED BY <1>2, <1>4

(* A step that neither writes nor is about to.                             *)
Harmless(p) ==
    /\ file' = file /\ (robbed => robbed')
    /\ \A q \in Process \ {p} : job'[q] = job[q]
    /\ job'[p].pc \notin {"write", "commit"}

LEMMA HarmlessKeeps ==
  ASSUME Types, WritesNothingOlder, AuthorizedUntilCommitted, NEW p \in Process, Harmless(p)
  PROVE  WritesNothingOlder' /\ AuthorizedUntilCommitted'
  BY ReadsStay DEF Harmless, Checked

LEMMA HarmlessSteps ==
  ASSUME Types, NEW p \in Process
  PROVE  /\ \A event \in Event, choice \in Choice : Deliver(p, event, choice) => Harmless(p)
         /\ \A contract \in given, action \in Action : Present(p, contract, action) => Harmless(p)
         /\ Unskip(p) \/ Choose(p) \/ Reconcile(p) \/ Activate(p) \/ Checkpoint(p) => Harmless(p)
         /\ Load(p) \/ StandAside(p) \/ Answer(p) \/ Finish(p) => Harmless(p)
         /\ Acquire(p) \/ JudgeStale(p) \/ BreakLock(p) \/ GiveUp(p) \/ Release(p) \/ Crash(p)
               => Harmless(p)
  <1> USE DEF Harmless
  <1>0. job[p] \in Job /\ job \in [Process -> Job]
    BY DEF Types, JobsOK
  <1>1. ASSUME NEW event \in Event, NEW choice \in Choice, Deliver(p, event, choice)
        PROVE  Harmless(p)
    BY <1>0, <1>1 DEF Deliver, Idle
  <1>2. ASSUME NEW contract \in given, NEW action \in Action, Present(p, contract, action)
        PROVE  Harmless(p)
    BY <1>0, <1>2 DEF Present, Idle
  <1>3. ASSUME NEW step, NEW state, Ask(p, step, state) PROVE Harmless(p)
    BY <1>0, <1>3 DEF Ask, Job
  <1>4. Unskip(p) \/ Choose(p) \/ Reconcile(p) \/ Activate(p) \/ Checkpoint(p) => Harmless(p)
    BY <1>3 DEF Unskip, Choose, Reconcile, Activate, Checkpoint
  <1>5. Load(p) => Harmless(p)
    BY <1>0 DEF Load, Job
  <1>6. StandAside(p) \/ Answer(p) \/ Finish(p) \/ GiveUp(p) \/ Crash(p) => Harmless(p)
    BY <1>0 DEF StandAside, Answer, Finish, End, GiveUp, Crash, Idle
  <1>7. Acquire(p) \/ JudgeStale(p) \/ BreakLock(p) => Harmless(p)
    <2>1. Acquire(p) \/ JudgeStale(p) => Harmless(p)
      BY <1>0 DEF Acquire, JudgeStale, Job
    <2>2. BreakLock(p) => job'[p].pc = "want" /\ \A q \in Process \ {p} : job'[q] = job[q]
      BY <1>0 DEF BreakLock, Job
    <2>3. BreakLock(p) => file' = file /\ (robbed => robbed')
      BY DEF BreakLock
    <2> QED BY <2>1, <2>2, <2>3
  <1>8. Release(p) => Harmless(p)
    <2>1. Idle.pc = "idle" /\ [job[p] EXCEPT !.pc = "ready"].pc = "ready"
      BY <1>0 DEF Idle, Job
    <2> QED BY <1>0, <2>1 DEF Release
  <1> QED BY <1>1, <1>2, <1>4, <1>5, <1>6, <1>7, <1>8

LEMMA ReadKeeps ==
  ASSUME Types, WritesNothingOlder, AuthorizedUntilCommitted, NEW p \in Process,
         NEW steps, NEW refused \in BOOLEAN, NEW pc, NEW next,
         ReadAnd(p, steps, refused, pc, next),
         ~refused => Checked([pc |-> pc, state |-> next, turn |-> job[p].turn])
  PROVE  WritesNothingOlder' /\ AuthorizedUntilCommitted'
  <1>1. job[p] \in Job /\ job \in [Process -> Job]
    BY DEF Types, JobsOK
  <1>2. /\ job'[p].pc = (IF refused THEN "failed" ELSE pc)
        /\ job'[p].state = (IF refused THEN job[p].state ELSE next)
        /\ job'[p].turn = job[p].turn
        /\ \A q \in Process \ {p} : job'[q] = job[q]
        /\ file' = file /\ robbed' = robbed
    BY <1>1 DEF ReadAnd, Job
  <1>3. Checked(job'[p])
    BY <1>2 DEF Checked
  <1> QED BY <1>2, <1>3, ReadsStay

LEMMA HookReadsKeep ==
  ASSUME Types, WritesNothingOlder, AuthorizedUntilCommitted, NEW h \in Hook,
         StartOrResume(h) \/ Save(h) \/ ActivateTurn(h)
  PROVE  WritesNothingOlder' /\ AuthorizedUntilCommitted'
  <1>1. h \in Process /\ issued \in Nat /\ Fresh = issued + 1
    BY CopyType DEF Fresh
  <1>2. file # NoState => file \in State /\ file.capability <= issued /\ file.capability \in Nat
    BY DEF Types, RegistryTypeOK, State
  <1>3. CASE StartOrResume(h)
    <2>1. file # NoState => Started.capability >= file.capability
      <3> SUFFICES ASSUME file # NoState PROVE Started.capability >= file.capability
        OBVIOUS
      <3>1. Started.capability = Fresh
        BY <1>2 DEF Started, State
      <3> QED BY <1>1, <1>2, <3>1
    <2>2. Checked([pc |-> "write", state |-> Started, turn |-> job[h].turn])
      BY <2>1 DEF Checked
    <2>3. ReadAnd(h, {"start"}, FALSE, "write", Started)
      BY <1>3 DEF StartOrResume
    <2> QED BY <1>1, <2>2, <2>3, ReadKeeps
  <1>4. CASE Save(h)
    <2> DEFINE steps == {"unskip", "choose", "reconcile", "checkpoint"}
    <2>1. ReadAnd(h, steps, StaleCopy(job[h].state), "write", job[h].state)
      BY <1>4 DEF Save
    <2>2. ~StaleCopy(job[h].state) =>
             Checked([pc |-> "write", state |-> job[h].state, turn |-> job[h].turn])
      BY <1>2 DEF StaleCopy, Checked
    <2>3. StaleCopy(job[h].state) \in BOOLEAN
      BY DEF StaleCopy
    <2> HIDE DEF steps
    <2> QED BY <1>1, <2>1, <2>2, <2>3, ReadKeeps
  <1>5. CASE ActivateTurn(h)
    <2> DEFINE t == job[h].turn
               known == file # NoState /\ file.turn = t
               pc == IF known THEN "leave" ELSE "write"
               next == IF known \/ file = NoState THEN file
                       ELSE [file EXCEPT !.capability = Fresh, !.turn = t]
    <2>1. ReadAnd(h, {"activate"}, file = NoState, pc, next)
      BY <1>5 DEF ActivateTurn
    <2>2. file # NoState /\ ~known => next.capability = Fresh
      BY <1>2 DEF State
    <2>3. pc = "write" \/ pc = "leave"
      OBVIOUS
    <2>4. pc = "write" /\ file # NoState => next.capability >= file.capability
      <3>1. pc = "write" => ~known
        OBVIOUS
      <3> HIDE DEF next, known, pc
      <3> QED BY <1>1, <1>2, <2>2, <3>1
    <2>5. Checked([pc |-> pc, state |-> next, turn |-> job[h].turn])
      <3> HIDE DEF next, pc
      <3> QED BY <2>3, <2>4 DEF Checked
    <2> HIDE DEF next, pc, known, t
    <2> QED BY <1>1, <2>1, <2>5, ReadKeeps
  <1> QED BY <1>3, <1>4, <1>5

LEMMA CallKeeps ==
  ASSUME Types, WritesNothingOlder, AuthorizedUntilCommitted, NEW c \in Call,
         Authorize(c) \/ Commit(c)
  PROVE  WritesNothingOlder' /\ AuthorizedUntilCommitted'
  <1>1. c \in Process
    BY DEF Process
  <1>2. job[c] \in Job /\ CallRowOK(job[c]) /\ job \in [Process -> Job]
    BY <1>1 DEF Types, JobsOK, RowOK
  <1>3. CASE Authorize(c)
    <2>1. PICK refused \in BOOLEAN, pc \in {"commit", "write"} : \E next :
            /\ ReadAnd(c, {"call"}, refused, pc, next)
            /\ ~refused => /\ Authorized(job[c].state) /\ next \in State
                           /\ next.capability = file.capability
                           /\ pc = "commit" => Participating(job[c].turn)
      BY <1>3, AuthorizeReads
    <2>2. PICK next :
            /\ ReadAnd(c, {"call"}, refused, pc, next)
            /\ ~refused => /\ Authorized(job[c].state) /\ next \in State
                           /\ next.capability = file.capability
                           /\ pc = "commit" => Participating(job[c].turn)
      BY <2>1
    <2>3. job[c].state.turn = job[c].turn
      BY <1>2, <2>2 DEF ReadAnd, CallRowOK
    <2>4. file # NoState => file.capability \in Nat
      BY DEF Types, RegistryTypeOK, State
    <2>5. ~refused => Checked([pc |-> pc, state |-> next, turn |-> job[c].turn])
      BY <2>2, <2>3, <2>4 DEF Checked, Authorized
    <2> QED BY <1>1, <2>2, <2>5, ReadKeeps
  <1>4. CASE Commit(c)
    <2>1. /\ job'[c].pc \in {"write", "leave"} /\ job'[c].state = job[c].state
          /\ \A q \in Process \ {c} : job'[q] = job[q]
          /\ file' = file /\ robbed' = robbed
      BY <1>1, <1>2, <1>4 DEF Commit, Job
    <2>2. ~robbed => file.capability = job[c].state.capability
      BY <1>4 DEF Commit, AuthorizedUntilCommitted
    <2>3. file # NoState => file.capability \in Nat
      BY DEF Types, RegistryTypeOK, State
    <2>4. ~robbed => Checked(job'[c])
      BY <2>1, <2>2, <2>3 DEF Checked
    <2> QED BY <1>1, <2>1, <2>4, ReadsStay
  <1> QED BY <1>3, <1>4

(* The one step that changes the file: everybody else is outside.          *)
LEMMA WriteKeeps ==
  ASSUME Types, LockIsExclusive, NEW p \in Process, Write(p)
  PROVE  WritesNothingOlder' /\ AuthorizedUntilCommitted'
  <1>1. job \in [Process -> Job]
    BY DEF Types, JobsOK
  <1>2. /\ job'[p].pc = "leave" /\ \A q \in Process \ {p} : job'[q] = job[q]
        /\ robbed' = robbed /\ Holding(p)
    BY <1>1 DEF Write, Job, Holding
  <1>3. ~robbed => \A q \in Process : job'[q].pc \notin {"write", "commit"}
    BY <1>2 DEF LockIsExclusive, Holding
  <1>4. Call \subseteq Process
    BY DEF Process
  <1> QED BY <1>2, <1>3, <1>4 DEF WritesNothingOlder, AuthorizedUntilCommitted

LEMMA ReadsStayStep ==
  Inv /\ [RegistryNext]_vars => WritesNothingOlder' /\ AuthorizedUntilCommitted'
  <1> SUFFICES ASSUME Inv, [RegistryNext]_vars
               PROVE  WritesNothingOlder' /\ AuthorizedUntilCommitted'
    OBVIOUS
  <1> USE DEF Inv
  <1>1. CASE UNCHANGED vars \/ Age
    BY <1>1 DEF vars, Age, WritesNothingOlder, AuthorizedUntilCommitted, Participating
  <1>2. ASSUME NEW h \in Hook, HookStep(h)
        PROVE  WritesNothingOlder' /\ AuthorizedUntilCommitted'
    <2>1. h \in Process
      BY DEF Process
    <2>2. CASE StartOrResume(h) \/ Save(h) \/ ActivateTurn(h)
      BY <2>2, HookReadsKeep
    <2>3. CASE ~(StartOrResume(h) \/ Save(h) \/ ActivateTurn(h))
      <3>1. Harmless(h)
        BY <1>2, <2>1, <2>3, HarmlessSteps DEF HookStep
      <3> QED BY <2>1, <3>1, HarmlessKeeps
    <2> QED BY <2>2, <2>3
  <1>3. ASSUME NEW c \in Call, CallStep(c)
        PROVE  WritesNothingOlder' /\ AuthorizedUntilCommitted'
    <2>1. c \in Process
      BY DEF Process
    <2> QED BY <1>3, <2>1, HarmlessSteps, HarmlessKeeps, CallKeeps DEF CallStep
  <1>4. ASSUME NEW p \in Process, LockStep(p) \/ Crash(p)
        PROVE  WritesNothingOlder' /\ AuthorizedUntilCommitted'
    BY <1>4, HarmlessSteps, HarmlessKeeps, WriteKeeps DEF LockStep
  <1> QED BY <1>1, <1>2, <1>3, <1>4 DEF RegistryNext

-----------------------------------------------------------------------------
(* Results.                                                                *)

LEMMA InitInv == RegistryInit => Inv
  <1> SUFFICES ASSUME RegistryInit PROVE Inv
    OBVIOUS
  <1>1. Types
    BY InitTypes
  <1>2. \A p \in Process : job[p].pc = "idle"
    BY DEF RegistryInit, Idle
  <1>3. Call \subseteq Process
    BY DEF Process
  <1> QED BY <1>1, <1>2, <1>3 DEF Inv, LockIsExclusive, Holding, WritesNothingOlder,
                                 AuthorizedUntilCommitted

LEMMA StepInv == Inv /\ [RegistryNext]_vars => Inv'
  BY TypesStep, LockIsExclusiveStep, ReadsStayStep DEF Inv

LEMMA SpecInv == RegistrySpec => []Inv
  BY InitInv, StepInv, PTL DEF RegistrySpec

\* The registry is well-typed, and no capability is stored, carried by a process
\* or printed that was not drawn.
THEOREM RegistryTypeCorrect == RegistrySpec => []RegistryTypeOK
  <1>1. Inv => RegistryTypeOK
    BY DEF Inv, Types
  <1> QED BY <1>1, SpecInv, PTL

\* The lock file names the one process inside with_session_lock, through any
\* number of waiters that judge and remove old lock files, as long as none of
\* them removed the file of a holder that was alive.
THEOREM LockExclusive == RegistrySpec => []LockIsExclusive
  <1>1. Inv => LockIsExclusive
    BY DEF Inv
  <1> QED BY <1>1, SpecInv, PTL

\* A call commits to the central database only while the file still holds the
\* capability and the turn with_capability checked, and the user participates.
THEOREM CommitsAuthorized == RegistrySpec => CommitsAreAuthorized
  <1> DEFINE A == (database' # database /\ ~robbed) =>
                    \E c \in Call : /\ job[c].pc = "commit"
                                    /\ file.turn = job[c].turn
                                    /\ file.capability = job[c].state.capability
                                    /\ Participating(job[c].turn)
  <1>1. Inv /\ [RegistryNext]_vars => [A]_vars
    <2> SUFFICES ASSUME Inv, RegistryNext, database' # database, ~robbed
                 PROVE  \E c \in Call : /\ job[c].pc = "commit"
                                        /\ file.turn = job[c].turn
                                        /\ file.capability = job[c].state.capability
                                        /\ Participating(job[c].turn)
      OBVIOUS
    <2>1. PICK c \in Call : Commit(c)
      <3>1. ASSUME NEW h \in Hook, HookStep(h) PROVE FALSE
        BY <3>1 DEF HookStep, Deliver, Load, Unskip, Choose, StandAside, Reconcile, Activate,
                    Checkpoint, Answer, Finish, StartOrResume, Save, ActivateTurn, Ask, End,
                    ReadAnd, database
      <3>2. ASSUME NEW p \in Process, LockStep(p) \/ Crash(p) PROVE FALSE
        BY <3>2 DEF LockStep, Acquire, JudgeStale, BreakLock, GiveUp, Release, Write, Crash,
                    database
      <3>3. ~Age
        BY DEF Age, database
      <3>4. ASSUME NEW c \in Call, CallStep(c) PROVE Commit(c)
        BY <3>4 DEF CallStep, Present, Authorize, ReadAnd, database
      <3> QED BY <3>1, <3>2, <3>3, <3>4 DEF RegistryNext
    <2> QED BY <2>1 DEF Inv, AuthorizedUntilCommitted, Commit
  <1> QED BY <1>1, SpecInv, PTL DEF RegistrySpec, CommitsAreAuthorized

\* The capability of the file only ever goes up: what a process writes back is
\* never older than what the file holds.
THEOREM RotatedStayDead == RegistrySpec => RotatedCapabilitiesStayDead
  <1> DEFINE A == (file # NoState /\ ~robbed) => file'.capability >= file.capability
  <1>1. Inv /\ [RegistryNext]_vars => [A]_vars
    <2> SUFFICES ASSUME Inv, RegistryNext, file # NoState, ~robbed
                 PROVE  file'.capability >= file.capability
      OBVIOUS
    <2>1. file.capability \in Nat
      BY DEF Inv, Types, RegistryTypeOK, State
    <2>2. CASE \E p \in Process : Write(p)
      BY <2>2 DEF Inv, WritesNothingOlder, Write
    <2>3. CASE ~\E p \in Process : Write(p)
      <3>1. file' = file
        <4>1. ASSUME NEW h \in Hook, HookStep(h) PROVE file' = file
          BY <4>1 DEF HookStep, Deliver, Load, Unskip, Choose, StandAside, Reconcile, Activate,
                      Checkpoint, Answer, Finish, StartOrResume, Save, ActivateTurn, Ask, End,
                      ReadAnd
        <4>2. ASSUME NEW c \in Call, CallStep(c) PROVE file' = file
          BY <4>2 DEF CallStep, Present, Authorize, Commit, ReadAnd
        <4>3. ASSUME NEW p \in Process, LockStep(p) \/ Crash(p) PROVE file' = file
          BY <2>3, <4>3 DEF LockStep, Acquire, JudgeStale, BreakLock, GiveUp, Release, Crash
        <4>4. Age => file' = file
          BY DEF Age
        <4> QED BY <4>1, <4>2, <4>3, <4>4 DEF RegistryNext
      <3> QED BY <2>1, <3>1
    <2> QED BY <2>2, <2>3
  <1> QED BY <1>1, SpecInv, PTL DEF RegistrySpec, RotatedCapabilitiesStayDead
=============================================================================
