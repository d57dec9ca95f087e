----------------------- MODULE ObsidianProjection_proofs -----------------------
(***************************************************************************)
(* The projection into the vault: the user's text survives every run and   *)
(* every crash, however many projectors work in the vault at once; with    *)
(* one projector at a time no generated file is ever lost sight of.  For   *)
(* any set of files, any number of changes, edits and crashes.             *)
(***************************************************************************)
EXTENDS ObsidianProjection, TLAPS

-----------------------------------------------------------------------------
(* Types, and what a journal is by the way it was planned.                  *)

Place == {"idle", "plan", "prepare", "begin", "apply", "touch", "commit", "settle"}
Executing == {"apply", "touch", "commit", "settle"}

Base(j) == IF j.base = None THEN Nothing ELSE j.base

Planned(j) ==
    /\ \A p \in DOMAIN j.writes : j.next[p] # Absent
    /\ \A p \in DOMAIN j.removals : j.next[p] = Absent /\ Base(j)[p] = j.removals[p]

JobOK(r) ==
    /\ pc[r] \in Executing \cup {"prepare", "begin"} => held[r] # None /\ Planned(held[r])
    /\ pc[r] \in {"apply", "touch"} => todo[r] \subseteq Operations(held[r])
    /\ pc[r] = "touch" => target[r] \in todo[r]

Types ==
    /\ record \in Pages /\ vault \in [Path -> Page \cup {Absent, UserText}]
    /\ manifest \in Pages \cup {None}
    /\ journal \in Journal \cup {None} /\ (journal # None => Planned(journal))
    /\ pc \in [Projector -> Place] /\ held \in [Projector -> Journal \cup {None}]
    /\ todo \in [Projector -> SUBSET Path] /\ target \in [Projector -> Path \cup {Absent}]
    /\ resuming \subseteq Projector /\ raced \subseteq Path
    /\ \A r \in Projector : JobOK(r)

(* A text under the cursor of a run was saved after the run checked it.     *)
RacesAreKnown ==
    \A r \in Projector, p \in Path :
        pc[r] = "touch" /\ target[r] = p /\ vault[p] = UserText => p \in raced

-----------------------------------------------------------------------------
(* One projector: the journal on disk is the one being executed, and every  *)
(* generated file outside it already is what the next manifest will list.   *)

Settled(S, j) == \A p \in S : vault[p] \in Page => vault[p] = j.next[p]
Covered(j) == Settled(Path \ Operations(j), j)

RunOK(r) ==
    /\ pc[r] = "prepare" => journal = None /\ Covered(held[r])
    /\ pc[r] \in Executing \cup {"begin"} => journal = held[r]
    /\ pc[r] \in Executing => manifest \in {held[r].base, held[r].next}
    /\ pc[r] \in {"apply", "touch"} => Settled(Operations(held[r]) \ todo[r], held[r])
    /\ pc[r] \in {"commit", "settle"} => Settled(Path, held[r])

Alone == \A r, s \in Projector : r = s

Inv == Types /\ RacesAreKnown /\ edits \in Nat

RunsOK ==
    /\ GeneratedFilesAreAccountedFor
    /\ journal # None => Covered(journal)
    /\ \A r \in Projector : RunOK(r)

-----------------------------------------------------------------------------
(* Types are kept.                                                         *)

LEMMA JournalFields ==
  ASSUME NEW j \in Journal
  PROVE  /\ j.base \in Pages \cup {None} /\ j.next \in Pages
         /\ DOMAIN j.writes \subseteq Path /\ DOMAIN j.removals \subseteq Path
         /\ \A p \in DOMAIN j.writes : j.writes[p] \in Page \cup {Absent}
         /\ \A p \in DOMAIN j.removals : j.removals[p] \in Page
         /\ \A p \in Path : j.next[p] \in Page \cup {Absent}
         /\ j # None
  BY NoneAssumption DEF Journal, Pages

LEMMA OwnedType == Types => Owned \in Pages
  BY DEF Types, Owned, Nothing, Pages

(* What a run may replace or remove are its own pages.                     *)
LEMMA PlanIsPlanned ==
  ASSUME Types, ~\E p \in Wanted : Foreign(p)
  PROVE  Plan \in Journal /\ Planned(Plan)
  <1>1. Owned \in Pages /\ record \in Pages /\ manifest \in Pages \cup {None}
    BY OwnedType DEF Types
  <1> DEFINE W == {q \in Wanted : vault[q] # Desired(q)}
             R == {q \in Path \ Wanted : vault[q] # Absent /\ vault[q] = Owned[q]}
  <1>2. Writes \in [W -> Page \cup {Absent}] /\ W \in SUBSET Path
    <2>1. ASSUME NEW p \in W PROVE vault[p] \in Page \cup {Absent}
      BY <1>1 DEF Foreign, Wanted, Desired, Pages
    <2>2. Writes = [p \in W |-> vault[p]]
      BY DEF Writes
    <2>3. W \in SUBSET Path
      BY DEF Wanted
    <2> HIDE DEF W
    <2> QED BY <2>1, <2>2, <2>3
  <1>3. Removals \in [R -> Page] /\ R \in SUBSET Path
    <2>1. ASSUME NEW p \in R PROVE Owned[p] \in Page
      BY <1>1 DEF Pages
    <2>2. Removals = [p \in R |-> Owned[p]]
      BY DEF Removals
    <2> HIDE DEF R
    <2>3. R \in SUBSET Path
      BY DEF R
    <2> QED BY <2>1, <2>2, <2>3
  <1>4. /\ DOMAIN Writes = W /\ DOMAIN Removals = R
        /\ \A p \in R : Removals[p] = Owned[p]
    BY DEF Writes, Removals
  <1>5. Plan \in Journal
    <2> HIDE DEF W, R
    <2> QED BY <1>1, <1>2, <1>3 DEF Plan, Journal
  <1>6. Base(Plan) = Owned
    BY DEF Base, Plan, Owned
  <1>7. /\ Plan.next = record /\ Plan.writes = Writes /\ Plan.removals = Removals
    BY DEF Plan
  <1>8. Planned(Plan)
    <2>1. \A p \in W : record[p] # Absent
      BY DEF Wanted, Desired
    <2>2. \A p \in R : record[p] = Absent
      BY DEF Wanted, Desired
    <2> HIDE DEF W, R
    <2> QED BY <1>4, <1>6, <1>7, <2>1, <2>2 DEF Planned
  <1> QED BY <1>5, <1>8

LEMMA OneRun ==
  ASSUME Types, NEW r \in Projector
  PROVE  /\ pc[r] \in Place /\ held[r] \in Journal \cup {None} /\ todo[r] \subseteq Path
         /\ target[r] \in Path \cup {Absent} /\ JobOK(r)
  BY DEF Types

LEMMA StopTypes ==
  ASSUME Types, NEW r \in Projector, Stop(r), UNCHANGED record, UNCHANGED vault, UNCHANGED raced,
         manifest' \in Pages \cup {None}, journal' \in {journal, None}
  PROVE  Types'
  <1>1. pc' \in [Projector -> Place]
    BY DEF Types, Stop, Place
  <1>2. held' \in [Projector -> Journal \cup {None}] /\ todo' \in [Projector -> SUBSET Path]
    BY DEF Types, Stop
  <1>3. target' \in [Projector -> Path \cup {Absent}] /\ resuming' \subseteq Projector
    BY DEF Types, Stop
  <1>4. ASSUME NEW s \in Projector PROVE JobOK(s)'
    BY DEF Types, Stop, JobOK, Executing, Planned, Base, Operations, Place
  <1> QED BY <1>1, <1>2, <1>3, <1>4 DEF Types, Planned, Base

LEMMA GotoTypes ==
  ASSUME Types, NEW r \in Projector, NEW place \in Place, Goto(r, place),
         UNCHANGED <<record, vault, raced>>, manifest' \in Pages \cup {None},
         journal' \in Journal \cup {None}, journal' # None => Planned(journal'),
         place \in {"begin", "commit", "settle"} => held[r] # None /\ Planned(held[r]),
         place \notin {"prepare", "apply", "touch"}
  PROVE  Types'
  <1>1. pc' \in [Projector -> Place]
    BY DEF Types, Goto
  <1>2. ASSUME NEW s \in Projector PROVE JobOK(s)'
    BY DEF Types, Goto, JobOK, Executing, Planned, Base, Operations, Place
  <1> QED BY <1>1, <1>2 DEF Types, Goto, Planned, Base

LEMMA ExecuteTypes ==
  ASSUME Types, NEW r \in Projector, NEW j \in Journal, NEW found \in SUBSET Projector,
         Planned(j), Execute(r, j, found), UNCHANGED <<record, vault, raced, manifest, journal>>
  PROVE  Types'
  <1>1. CASE manifest \in {j.base, j.next}
    <2>1. Operations(j) \subseteq Path /\ j # None
      BY JournalFields DEF Operations
    <2>2. /\ pc' = [pc EXCEPT ![r] = "apply"] /\ resuming' = resuming \cup found
          /\ held' = [held EXCEPT ![r] = j] /\ todo' = [todo EXCEPT ![r] = Operations(j)]
          /\ target' = target
      BY <1>1 DEF Execute
    <2>3. pc' \in [Projector -> Place] /\ held' \in [Projector -> Journal \cup {None}]
      BY <2>2 DEF Types, Place
    <2>4. todo' \in [Projector -> SUBSET Path]
      BY <2>1, <2>2 DEF Types
    <2>5. ASSUME NEW s \in Projector PROVE JobOK(s)'
      BY <2>1, <2>2 DEF Types, JobOK, Executing, Planned, Base, Operations
    <2> QED BY <2>2, <2>3, <2>4, <2>5 DEF Types, Planned, Base
  <1>2. CASE manifest \notin {j.base, j.next}
    <2>1. Stop(r)
      BY <1>2 DEF Execute
    <2>2. manifest' \in Pages \cup {None} /\ journal' \in {journal, None}
      BY DEF Types
    <2> QED BY <2>1, <2>2, StopTypes
  <1> QED BY <1>1, <1>2

LEMMA StartTypes ==
  ASSUME Types, NEW r \in Projector, Start(r)
  PROVE  Types'
  <1>1. UNCHANGED <<record, vault, raced, manifest, journal>>
    BY DEF Start, disk, world
  <1>2. /\ journal \in Journal \cup {None} /\ (journal # None => Planned(journal))
        /\ manifest' \in Pages \cup {None} /\ (journal' # None => Planned(journal'))
    BY <1>1 DEF Types, Planned, Base
  <1>3. CASE journal = None
    <2>1. Goto(r, "plan")
      BY <1>3 DEF Start
    <2> QED BY <1>1, <1>2, <2>1, GotoTypes DEF Place
  <1>4. CASE journal # None /\ Authorized(journal)
    <2>1. Execute(r, journal, {r})
      BY <1>4 DEF Start
    <2> QED BY <1>1, <1>2, <1>4, <2>1, ExecuteTypes
  <1>5. CASE journal # None /\ ~Authorized(journal)
    <2>1. Stop(r)
      BY <1>5 DEF Start
    <2> QED BY <1>1, <1>2, <2>1, StopTypes
  <1> QED BY <1>3, <1>4, <1>5

LEMMA PreflightTypes ==
  ASSUME Types, NEW r \in Projector, Preflight(r)
  PROVE  Types'
  <1>1. UNCHANGED <<record, vault, raced, manifest, journal>>
    BY DEF Preflight, disk, world
  <1>2. CASE Stop(r)
    BY <1>1, <1>2, StopTypes DEF Types
  <1>3. CASE ~Stop(r)
    <2>1. /\ ~\E p \in Wanted : Foreign(p)
          /\ pc' = [pc EXCEPT ![r] = "prepare"] /\ held' = [held EXCEPT ![r] = Plan]
          /\ UNCHANGED <<todo, target, resuming>>
      BY <1>3 DEF Preflight
    <2>2. Plan \in Journal /\ Planned(Plan) /\ Plan # None
      BY <2>1, PlanIsPlanned, JournalFields
    <2>3. pc' \in [Projector -> Place] /\ held' \in [Projector -> Journal \cup {None}]
      BY <2>1, <2>2 DEF Types, Place
    <2>4. ASSUME NEW s \in Projector PROVE JobOK(s)'
      <3>1. CASE s = r
        <4>1. pc'[s] = "prepare" /\ held'[s] = Plan
          BY <2>1, <3>1 DEF Types
        <4>2. Planned(held[s])'
          BY <2>2, <4>1 DEF Planned, Base
        <4> QED BY <2>2, <4>1, <4>2 DEF JobOK, Executing
      <3>2. CASE s # r
        <4>1. pc'[s] = pc[s] /\ held'[s] = held[s] /\ todo'[s] = todo[s] /\ target'[s] = target[s]
          BY <2>1, <3>2 DEF Types
        <4> QED BY <4>1 DEF Types, JobOK, Planned, Base, Operations
      <3> QED BY <3>1, <3>2
    <2> QED BY <1>1, <2>1, <2>3, <2>4 DEF Types, Planned, Base
  <1> QED BY <1>2, <1>3

LEMMA PrepareTypes ==
  ASSUME Types, NEW r \in Projector, Prepare(r) \/ Begin(r) \/ CheckManifest(r) \/ CommitManifest(r)
  PROVE  Types'
  <1>1. UNCHANGED <<record, vault, raced>>
    BY DEF Prepare, Begin, CheckManifest, CommitManifest, disk, world
  <1>2. /\ held[r] \in Journal \cup {None} /\ held[r] # None /\ Planned(held[r])
        /\ journal \in Journal \cup {None} /\ (journal # None => Planned(journal))
        /\ manifest \in Pages \cup {None}
    BY DEF Prepare, Begin, CheckManifest, CommitManifest, Types, JobOK, Executing
  <1>3. held[r].next \in Pages
    BY <1>2, JournalFields
  <1>4. CASE Prepare(r)
    <2>1. /\ journal' = held[r] /\ manifest' = manifest /\ Goto(r, "begin")
          /\ Planned(journal')
      BY <1>2, <1>4 DEF Prepare, Planned, Base
    <2>2. journal' \in Journal \cup {None} /\ manifest' \in Pages \cup {None}
      BY <1>2, <2>1
    <2> QED BY <1>1, <1>2, <2>1, <2>2, GotoTypes DEF Place
  <1>5. /\ journal' = journal => journal' \in Journal \cup {None}
        /\ journal' = journal /\ journal' # None => Planned(journal')
    BY <1>2
  <1>6. CASE Begin(r)
    <2>1. Execute(r, held[r], {}) /\ UNCHANGED <<manifest, journal>>
      BY <1>6 DEF Begin, disk
    <2> QED BY <1>1, <1>2, <2>1, ExecuteTypes
  <1>7. CASE CheckManifest(r)
    <2>1. UNCHANGED <<manifest, journal>>
      BY <1>7 DEF CheckManifest, disk
    <2>2. Goto(r, "settle") \/ Goto(r, "commit") \/ Stop(r)
      BY <1>7 DEF CheckManifest
    <2> QED BY <1>1, <1>2, <1>5, <2>1, <2>2, GotoTypes, StopTypes DEF Place
  <1>8. CASE CommitManifest(r)
    <2>1. manifest' = held[r].next /\ journal' = journal /\ Goto(r, "settle")
      BY <1>8 DEF CommitManifest
    <2> QED BY <1>1, <1>2, <1>3, <1>5, <2>1, GotoTypes DEF Place
  <1> QED BY <1>4, <1>6, <1>7, <1>8

LEMMA CheckTypes ==
  ASSUME Types, NEW r \in Projector, NEW p \in Path, CheckWrite(r, p) \/ CheckRemoval(r, p)
  PROVE  Types'
  <1>1. UNCHANGED <<record, vault, raced, manifest, journal>>
    BY DEF CheckWrite, CheckRemoval, disk, world
  <1>2. p \in todo[r] /\ pc[r] = "apply" /\ todo[r] \subseteq Path
    BY OneRun DEF CheckWrite, CheckRemoval, PendingWrites
  <1>3. CASE Stop(r)
    BY <1>1, <1>3, StopTypes DEF Types
  <1>4. CASE Skip(r, p)
    <2>1. todo' = [todo EXCEPT ![r] = @ \ {p}] /\ UNCHANGED <<pc, held, target, resuming>>
      BY <1>4 DEF Skip
    <2>2. todo' \in [Projector -> SUBSET Path]
      BY <2>1 DEF Types
    <2>3. ASSUME NEW s \in Projector PROVE JobOK(s)'
      BY <1>2, <2>1 DEF Types, JobOK, Planned, Base, Operations, Executing
    <2> QED BY <1>1, <2>1, <2>2, <2>3 DEF Types, Planned, Base
  <1>5. CASE Check(r, p)
    <2>1. /\ pc' = [pc EXCEPT ![r] = "touch"] /\ target' = [target EXCEPT ![r] = p]
          /\ UNCHANGED <<held, todo, resuming>>
      BY <1>5 DEF Check
    <2>2. pc' \in [Projector -> Place] /\ target' \in [Projector -> Path \cup {Absent}]
      BY <2>1 DEF Types, Place
    <2>3. ASSUME NEW s \in Projector PROVE JobOK(s)'
      BY <1>2, <2>1 DEF Types, JobOK, Planned, Base, Operations, Executing
    <2> QED BY <1>1, <2>1, <2>2, <2>3 DEF Types, Planned, Base
  <1> QED BY <1>3, <1>4, <1>5 DEF CheckWrite, CheckRemoval

LEMMA TouchTypes ==
  ASSUME Types, NEW r \in Projector, Touch(r)
  PROVE  Types'
  <1> DEFINE p == target[r]
  <1>1. p \in todo[r] /\ todo[r] \subseteq Path /\ held[r] \in Journal
    BY OneRun DEF Touch, JobOK, Executing
  <1>2. held[r].next[p] \in Page \cup {Absent}
    BY <1>1, JournalFields
  <1>3. vault' \in [Path -> Page \cup {Absent, UserText}]
    BY <1>1, <1>2 DEF Touch, Types
  <1>4. pc' \in [Projector -> Place] /\ todo' \in [Projector -> SUBSET Path]
        /\ target' \in [Projector -> Path \cup {Absent}]
    BY DEF Touch, Types, Place
  <1>5. UNCHANGED <<record, manifest, journal, held, resuming, raced>>
    BY DEF Touch, world
  <1>6. ASSUME NEW s \in Projector PROVE JobOK(s)'
    <2>1. CASE s = r
      BY <2>1 DEF Types, Touch, JobOK, Planned, Base, Operations, Executing
    <2>2. CASE s # r
      BY <2>2 DEF Types, Touch, JobOK, Planned, Base, Operations, Executing
    <2> QED BY <2>1, <2>2
  <1> QED BY <1>3, <1>4, <1>5, <1>6 DEF Types, Planned, Base

LEMMA SettleTypes ==
  ASSUME Types, NEW r \in Projector, Settle(r)
  PROVE  Types'
  <1>1. UNCHANGED <<record, vault, raced, manifest>> /\ journal' \in {journal, None}
    BY DEF Settle, world
  <1>2. CASE Stop(r)
    BY <1>1, <1>2, StopTypes DEF Types
  <1>3. CASE ~Stop(r)
    <2>1. /\ pc' = [pc EXCEPT ![r] = "plan"] /\ resuming' = resuming \ {r}
          /\ held' = [held EXCEPT ![r] = None] /\ UNCHANGED <<todo, target>>
      BY <1>3 DEF Settle
    <2>2. pc' \in [Projector -> Place] /\ held' \in [Projector -> Journal \cup {None}]
      BY <2>1 DEF Types, Place
    <2>3. ASSUME NEW s \in Projector PROVE JobOK(s)'
      BY <2>1 DEF Types, JobOK, Planned, Base, Operations, Executing
    <2> QED BY <1>1, <2>1, <2>2, <2>3 DEF Types, Planned, Base
  <1> QED BY <1>2, <1>3

LEMMA WorldTypes ==
  ASSUME Types
  PROVE  /\ \A p \in Path, page \in Page \cup {Absent} : ChangeRecord(p, page) => Types'
         /\ \A p \in Path, text \in Edit : EditFile(p, text) => Types'
         /\ \A r \in Projector : Crash(r) => Types'
         /\ UNCHANGED vars => Types'
  <1> USE DEF Types, JobOK, Planned, Base, Operations, Executing
  <1>1. ASSUME NEW p \in Path, NEW page \in Page \cup {Absent}, ChangeRecord(p, page)
        PROVE  Types'
    BY <1>1 DEF ChangeRecord, disk, run, Pages
  <1>2. ASSUME NEW p \in Path, NEW text \in Edit, EditFile(p, text)
        PROVE  Types'
    BY <1>2, ProjectionConstants DEF EditFile, run
  <1>3. ASSUME NEW r \in Projector, Crash(r)
        PROVE  Types'
    <2>1. /\ Stop(r) /\ UNCHANGED <<record, vault, raced>>
          /\ manifest' \in Pages \cup {None} /\ journal' \in {journal, None}
      BY <1>3 DEF Crash, disk
    <2> QED BY <2>1, StopTypes
  <1>4. UNCHANGED vars => Types'
    BY DEF vars
  <1> QED BY <1>1, <1>2, <1>3, <1>4

LEMMA TypesStep == Types /\ [ProjectionNext]_vars => Types'
  <1> SUFFICES ASSUME Types, [ProjectionNext]_vars PROVE Types'
    OBVIOUS
  <1>1. ASSUME NEW r \in Projector, Step(r) PROVE Types'
    BY <1>1, StartTypes, PreflightTypes, PrepareTypes, CheckTypes, TouchTypes, SettleTypes
       DEF Step
  <1> QED BY <1>1, WorldTypes DEF ProjectionNext

LEMMA InitTypes == ProjectionInit => Types
  BY DEF ProjectionInit, Types, JobOK, Nothing, Pages, Place, Executing

-----------------------------------------------------------------------------
(* The user's text.                                                        *)

(* A page that was planned over is never a text of the user's.             *)
LEMMA CheckedIsOurs ==
  ASSUME Types, NEW r \in Projector, NEW p \in Path, CheckWrite(r, p) \/ CheckRemoval(r, p),
         Check(r, p)
  PROVE  vault[p] # UserText
  <1>1. held[r] \in Journal /\ pc[r] = "apply" /\ todo[r] \subseteq Operations(held[r])
    BY OneRun DEF CheckWrite, CheckRemoval, JobOK, Executing
  <1>2. pc'[r] = "touch"
    BY DEF Check, Types
  <1>3. ~Skip(r, p) /\ ~Stop(r)
    BY <1>1, <1>2 DEF Skip, Stop, Types
  <1>4. CASE CheckWrite(r, p)
    <2>1. p \in DOMAIN held[r].writes /\ vault[p] = held[r].writes[p]
      BY <1>3, <1>4 DEF CheckWrite, PendingWrites
    <2> QED BY <1>1, <2>1, JournalFields, ProjectionConstants
  <1>5. CASE CheckRemoval(r, p)
    <2>1. p \in DOMAIN held[r].removals
      BY <1>1, <1>5 DEF CheckRemoval, Removing, PendingWrites, Operations
    <2>2. vault[p] = held[r].removals[p]
      BY <1>3, <1>5 DEF CheckRemoval
    <2> QED BY <1>1, <2>1, <2>2, JournalFields, ProjectionConstants
  <1> QED BY <1>4, <1>5

(* A run comes to replace a file only by checking it.                      *)
LEMMA OtherRuns ==
  ASSUME Types, NEW r \in Projector, NEW s \in Projector, r # s, Step(s) \/ Crash(s)
  PROVE  pc'[r] = pc[r] /\ held'[r] = held[r] /\ todo'[r] = todo[r] /\ target'[r] = target[r]
  <1> USE DEF Types
  <1>1. Stop(s) \/ (\E place : Goto(s, place)) \/ (\E p : Skip(s, p) \/ Check(s, p)) =>
          pc'[r] = pc[r] /\ held'[r] = held[r] /\ todo'[r] = todo[r] /\ target'[r] = target[r]
    BY DEF Stop, Goto, Skip, Check
  <1>2. ASSUME NEW j, NEW found, Execute(s, j, found)
        PROVE  pc'[r] = pc[r] /\ held'[r] = held[r] /\ todo'[r] = todo[r] /\ target'[r] = target[r]
    BY <1>1, <1>2 DEF Execute
  <1>3. CASE Start(s) \/ Begin(s)
    BY <1>1, <1>2, <1>3 DEF Start, Begin
  <1>4. CASE Preflight(s) \/ Prepare(s) \/ CheckManifest(s) \/ CommitManifest(s) \/ Crash(s)
    BY <1>1, <1>4 DEF Preflight, Prepare, CheckManifest, CommitManifest, Crash
  <1>5. CASE \E p \in Path : CheckWrite(s, p) \/ CheckRemoval(s, p)
    BY <1>1, <1>5 DEF CheckWrite, CheckRemoval
  <1>6. CASE Touch(s)
    BY <1>6 DEF Touch
  <1>7. CASE Settle(s)
    BY <1>1, <1>7 DEF Settle
  <1> QED BY <1>3, <1>4, <1>5, <1>6, <1>7 DEF Step

LEMMA TouchIsChecked ==
  ASSUME Types, [ProjectionNext]_vars, NEW r \in Projector, pc'[r] = "touch",
         ~(pc[r] = "touch" /\ target'[r] = target[r])
  PROVE  \E p \in Path : (CheckWrite(r, p) \/ CheckRemoval(r, p)) /\ Check(r, p)
  <1> USE DEF Types
  <1>1. Stop(r) => pc'[r] = "idle"
    BY DEF Stop
  <1>2. \A place : Goto(r, place) => pc'[r] = place
    BY DEF Goto
  <1>3. \A j, found : Execute(r, j, found) => pc'[r] \in {"apply", "idle"}
    BY DEF Execute, Stop
  <1>4. Step(r) \/ Crash(r)
    BY OtherRuns DEF ProjectionNext, ChangeRecord, EditFile, run, vars
  <1>5. ~Start(r) /\ ~Preflight(r) /\ ~Prepare(r) /\ ~Begin(r)
    BY <1>1, <1>2, <1>3 DEF Start, Preflight, Prepare, Begin
  <1>6. ~Touch(r) /\ ~CheckManifest(r) /\ ~CommitManifest(r) /\ ~Settle(r) /\ ~Crash(r)
    BY <1>1, <1>2 DEF Touch, CheckManifest, CommitManifest, Settle, Crash
  <1>7. PICK p \in Path : CheckWrite(r, p) \/ CheckRemoval(r, p)
    BY <1>4, <1>5, <1>6 DEF Step
  <1>8. Check(r, p)
    <2>1. ~Skip(r, p)
      BY <1>7 DEF Skip, CheckWrite, CheckRemoval
    <2> QED BY <1>1, <1>7, <2>1 DEF CheckWrite, CheckRemoval
  <1> QED BY <1>7, <1>8

LEMMA RacesStep == Inv /\ [ProjectionNext]_vars => RacesAreKnown'
  <1> SUFFICES ASSUME Inv, [ProjectionNext]_vars,
                      NEW r \in Projector, NEW p \in Path,
                      pc'[r] = "touch", target'[r] = p, vault'[p] = UserText
               PROVE  p \in raced'
    BY DEF RacesAreKnown
  <1> USE DEF Inv, Types
  <1>1. CASE pc[r] = "touch" /\ target[r] = p /\ vault[p] = UserText
    <2>1. p \in raced
      BY <1>1 DEF RacesAreKnown
    <2>2. raced \subseteq raced'
      BY DEF ProjectionNext, Step, Start, Preflight, Prepare, Begin, CheckWrite, CheckRemoval,
             Touch, CheckManifest, CommitManifest, Settle, ChangeRecord, EditFile, Crash, world, vars
    <2> QED BY <2>1, <2>2
  <1>2. CASE pc[r] = "touch" /\ target[r] = p /\ vault[p] # UserText
    <2>1. \A s \in Projector : Touch(s) => vault'[p] # UserText
      BY <1>2, JournalFields, OneRun, ProjectionConstants DEF Touch, JobOK, Executing
    <2>2. PICK q \in Path, text \in Edit : EditFile(q, text)
      BY <1>2, <2>1 DEF ProjectionNext, Step, Start, Preflight, Prepare, Begin, CheckWrite,
             CheckRemoval, CheckManifest, CommitManifest, Settle, ChangeRecord, Crash, disk, vars
    <2> QED BY <1>2, <2>2 DEF EditFile
  <1>3. CASE ~(pc[r] = "touch" /\ target[r] = p)
    <2>1. PICK q \in Path : (CheckWrite(r, q) \/ CheckRemoval(r, q)) /\ Check(r, q)
      BY <1>3, TouchIsChecked
    <2>2. target'[r] = q /\ vault' = vault
      BY <2>1 DEF Check, CheckWrite, CheckRemoval, disk
    <2> QED BY <2>1, <2>2, CheckedIsOurs
  <1> QED BY <1>1, <1>2, <1>3

LEMMA SpecInv == ProjectionSpec => []Inv
  <1>1. ProjectionInit => Inv
    BY InitTypes DEF Inv, RacesAreKnown, ProjectionInit
  <1>2. edits \in Nat /\ [ProjectionNext]_vars => edits' \in Nat
    <2>1. ASSUME NEW r \in Projector, Step(r) \/ Crash(r) PROVE edits' = edits
      BY <2>1 DEF Step, Start, Preflight, Prepare, Begin, CheckWrite, CheckRemoval, Touch,
             CheckManifest, CommitManifest, Settle, Crash, world
    <2>2. ASSUME NEW p \in Path, NEW page \in Page \cup {Absent}, ChangeRecord(p, page)
          PROVE  edits' = edits
      BY <2>2 DEF ChangeRecord
    <2>3. ASSUME NEW p \in Path, NEW text \in Edit, EditFile(p, text) PROVE edits' = edits + 1
      BY <2>3 DEF EditFile
    <2> QED BY <2>1, <2>2, <2>3 DEF ProjectionNext, vars
  <1>3. Inv /\ [ProjectionNext]_vars => Inv'
    BY <1>2, TypesStep, RacesStep DEF Inv
  <1> QED BY <1>1, <1>3, PTL DEF ProjectionSpec

\* Whatever number of projectors work in the vault, and wherever they die: a
\* text of the user's is overwritten or removed by none of them, unless it was
\* saved after the run had checked that file and before it replaced it.
THEOREM UserTextKept == ProjectionSpec => UserTextSurvives
  <1> DEFINE A == \A p \in Path : vault[p] = UserText /\ vault'[p] # UserText /\ edits' = edits
                                    => p \in raced
  <1>1. Inv /\ [ProjectionNext]_vars => [A]_vars
    <2> SUFFICES ASSUME Inv, ProjectionNext, NEW p \in Path,
                        vault[p] = UserText, vault'[p] # UserText, edits' = edits
                 PROVE  p \in raced
      OBVIOUS
    <2>1. \A q \in Path, text \in Edit : ~EditFile(q, text)
      BY DEF EditFile, Inv
    <2>2. PICK r \in Projector : Touch(r)
      BY <2>1 DEF ProjectionNext, Step, Start, Preflight, Prepare, Begin, CheckWrite,
             CheckRemoval, CheckManifest, CommitManifest, Settle, ChangeRecord, Crash, disk, vars
    <2>3. pc[r] = "touch" /\ target[r] = p
      BY <2>2 DEF Touch, Inv, Types
    <2> QED BY <2>3 DEF Inv, RacesAreKnown
  <1> QED BY <1>1, SpecInv, PTL DEF ProjectionSpec, UserTextSurvives

-----------------------------------------------------------------------------
(* Every generated file is accounted for.                                  *)

(* A run that stops, or one that did nothing to the files.                 *)
LEMMA StopRuns ==
  ASSUME Alone, Types, RunsOK, NEW r \in Projector, Stop(r), UNCHANGED disk
  PROVE  RunsOK'
  <1>1. \A s \in Projector : pc'[s] = "idle"
    BY DEF Alone, Stop, Types
  <1>2. GeneratedFilesAreAccountedFor' /\ (journal' # None => Covered(journal)')
    BY DEF RunsOK, GeneratedFilesAreAccountedFor, Owned, Covered, Settled, Operations, disk
  <1> QED BY <1>1, <1>2 DEF RunsOK, RunOK, Executing

(* What a run that goes on has to show for itself.                         *)
LEMMA QuietRuns ==
  ASSUME Alone, Types, RunsOK, NEW r \in Projector, UNCHANGED disk, RunOK(r)'
  PROVE  RunsOK'
  <1>1. \A s \in Projector : RunOK(s)'
    BY DEF Alone
  <1>2. GeneratedFilesAreAccountedFor' /\ (journal' # None => Covered(journal)')
    BY DEF RunsOK, GeneratedFilesAreAccountedFor, Owned, Covered, Settled, Operations, disk
  <1> QED BY <1>1, <1>2 DEF RunsOK

LEMMA ExecuteRuns ==
  ASSUME Alone, Types, RunsOK, NEW r \in Projector, NEW found, journal # None,
         Execute(r, journal, found), UNCHANGED disk
  PROVE  RunsOK'
  <1>1. CASE manifest \in {journal.base, journal.next}
    <2>1. /\ pc'[r] = "apply" /\ held'[r] = journal /\ todo'[r] = Operations(journal)
      BY <1>1 DEF Execute, Types
    <2>2. RunOK(r)'
      BY <1>1, <2>1 DEF RunOK, Executing, Settled, Operations, disk
    <2> QED BY <2>2, QuietRuns
  <1>2. CASE manifest \notin {journal.base, journal.next}
    BY <1>2, StopRuns DEF Execute
  <1> QED BY <1>1, <1>2

LEMMA StartRuns ==
  ASSUME Alone, Types, RunsOK, NEW r \in Projector, Start(r)
  PROVE  RunsOK'
  <1>1. UNCHANGED disk
    BY DEF Start
  <1>2. CASE Goto(r, "plan")
    <2>1. pc'[r] = "plan"
      BY <1>2 DEF Goto, Types
    <2> QED BY <1>1, <2>1, QuietRuns DEF RunOK, Executing
  <1> QED BY <1>1, <1>2, ExecuteRuns, StopRuns DEF Start

(* Planning: what the plan leaves out is as the next manifest will list it. *)
LEMMA PlanCovers ==
  ASSUME Types, RunsOK, journal = None
  PROVE  Covered(Plan)
  <1> SUFFICES ASSUME NEW p \in Path, p \notin Operations(Plan), vault[p] \in Page
               PROVE  vault[p] = record[p]
    BY DEF Covered, Settled, Plan
  <1>1. Owned[p] = vault[p] /\ vault[p] # Absent
    BY ProjectionConstants DEF RunsOK, GeneratedFilesAreAccountedFor
  <1>2. DOMAIN Plan.removals = {q \in Path \ Wanted : vault[q] # Absent /\ vault[q] = Owned[q]}
    BY DEF Plan, Removals
  <1>3. DOMAIN Plan.writes = {q \in Wanted : vault[q] # Desired(q)}
    BY DEF Plan, Writes
  <1> QED BY <1>1, <1>2, <1>3 DEF Operations, Desired

LEMMA PreflightRuns ==
  ASSUME Alone, Types, RunsOK, NEW r \in Projector, Preflight(r)
  PROVE  RunsOK'
  <1>1. UNCHANGED disk
    BY DEF Preflight
  <1>2. CASE ~Stop(r)
    <2>1. journal = None /\ pc'[r] = "prepare" /\ held'[r] = Plan
      BY <1>2 DEF Preflight, Types
    <2>2. Covered(Plan)
      BY <2>1, PlanCovers
    <2>3. Covered(held[r])'
      BY <1>1, <2>1, <2>2 DEF Covered, Settled, Operations, disk
    <2>4. RunOK(r)'
      BY <1>1, <2>1, <2>3 DEF RunOK, Executing, disk
    <2> QED BY <1>1, <2>4, QuietRuns
  <1> QED BY <1>1, <1>2, StopRuns

LEMMA PrepareRuns ==
  ASSUME Alone, Types, RunsOK, NEW r \in Projector, Prepare(r)
  PROVE  RunsOK'
  <1>1. journal = None /\ Covered(held[r])
    BY DEF Prepare, RunsOK, RunOK
  <1>2. /\ pc'[r] = "begin" /\ held' = held /\ journal' = held[r]
        /\ UNCHANGED <<vault, manifest>>
    BY DEF Prepare, Goto, Types
  <1>3. RunOK(r)'
    BY <1>2 DEF RunOK, Executing
  <1>4. \A s \in Projector : RunOK(s)'
    BY <1>3 DEF Alone
  <1>5. Covered(journal)'
    BY <1>1, <1>2 DEF Covered, Settled, Operations
  <1>6. GeneratedFilesAreAccountedFor'
    BY <1>1, <1>2 DEF RunsOK, GeneratedFilesAreAccountedFor, Owned
  <1> QED BY <1>4, <1>5, <1>6 DEF RunsOK

LEMMA BeginRuns ==
  ASSUME Alone, Types, RunsOK, NEW r \in Projector, Begin(r)
  PROVE  RunsOK'
  <1>1. journal = held[r] /\ held[r] # None
    BY DEF Begin, RunsOK, RunOK, Types, JobOK
  <1> QED BY <1>1, ExecuteRuns DEF Begin

(* A check leaves the files alone; a file it passes over is as it should be. *)
LEMMA CheckRuns ==
  ASSUME Alone, Types, RunsOK, NEW r \in Projector, NEW p \in Path,
         CheckWrite(r, p) \/ CheckRemoval(r, p)
  PROVE  RunsOK'
  <1> DEFINE j == held[r]
  <1>1. UNCHANGED disk /\ pc[r] = "apply" /\ p \in todo[r]
    BY DEF CheckWrite, CheckRemoval, PendingWrites
  <1>2. /\ journal = j /\ manifest \in {j.base, j.next} /\ Settled(Operations(j) \ todo[r], j)
        /\ j \in Journal /\ j # None /\ Planned(j) /\ todo[r] \subseteq Operations(j)
    BY <1>1, OneRun DEF RunsOK, RunOK, JobOK, Executing
  <1>3. CASE Check(r, p)
    <2>1. pc'[r] = "touch" /\ held' = held /\ todo' = todo
      BY <1>3 DEF Check, Types
    <2>2. RunOK(r)'
      BY <1>1, <1>2, <2>1 DEF RunOK, Executing, Settled, Operations, disk
    <2> QED BY <1>1, <2>2, QuietRuns
  <1>4. CASE Skip(r, p) /\ ~Check(r, p) /\ ~Stop(r)
    <2>1. pc' = pc /\ held' = held /\ todo'[r] = todo[r] \ {p}
      BY <1>4 DEF Skip, Types
    <2>2. vault[p] \in Page => vault[p] = j.next[p]
      <3>1. CASE CheckWrite(r, p)
        BY <1>4, <3>1 DEF CheckWrite
      <3>2. CASE CheckRemoval(r, p)
        <4> SUFFICES ASSUME vault[p] \in Page PROVE FALSE
          OBVIOUS
        <4>1. p \in DOMAIN j.removals /\ p \notin DOMAIN j.writes
          BY <1>1, <1>2, <3>2 DEF CheckRemoval, Removing, PendingWrites, Operations
        <4>2. vault[p] # Absent /\ vault[p] # j.removals[p]
          BY <1>4, <3>2, ProjectionConstants DEF CheckRemoval
        <4>3. Owned[p] = vault[p]
          BY <1>2, <4>1 DEF RunsOK, GeneratedFilesAreAccountedFor
        <4>4. j.next[p] = Absent /\ Base(j)[p] = j.removals[p] /\ j.next # None
          BY <1>2, <4>1, JournalFields, NoneAssumption DEF Planned
        <4>5. Owned = Base(j) \/ Owned = j.next
          BY <1>2, <4>4 DEF Owned, Base
        <4> QED BY <4>2, <4>3, <4>4, <4>5
      <3> QED BY <3>1, <3>2
    <2>3. RunOK(r)'
      BY <1>1, <1>2, <2>1, <2>2 DEF RunOK, Executing, Settled, Operations, disk
    <2> QED BY <1>1, <2>3, QuietRuns
  <1> QED BY <1>1, <1>3, <1>4, StopRuns DEF CheckWrite, CheckRemoval

(* The file replaced shows the next page, or is gone.                       *)
LEMMA TouchRuns ==
  ASSUME Alone, Types, RunsOK, NEW r \in Projector, Touch(r)
  PROVE  RunsOK'
  <1> DEFINE j == held[r]
             p == target[r]
  <1>1. /\ journal = j /\ manifest \in {j.base, j.next} /\ Settled(Operations(j) \ todo[r], j)
        /\ j \in Journal /\ j # None /\ Planned(j) /\ p \in Operations(j) /\ p \in Path
        /\ p \in todo[r] /\ Covered(j)
    BY OneRun DEF Touch, RunsOK, RunOK, JobOK, Executing
  <1>2. /\ UNCHANGED <<manifest, journal, held>>
        /\ pc'[r] = "apply" /\ todo'[r] = todo[r] \ {p}
        /\ vault' = [vault EXCEPT ![p] = j.next[p]]
    BY DEF Touch, Types
  <1>3. vault'[p] = j.next[p] /\ \A q \in Path \ {p} : vault'[q] = vault[q]
    BY <1>1, <1>2 DEF Types
  <1>4. Covered(journal)'
    BY <1>1, <1>2, <1>3 DEF Covered, Settled, Operations
  <1>5. RunOK(r)'
    <2>1. Settled(Operations(held[r]) \ todo[r], held[r])'
      <3>1. Operations(j) \subseteq Path
        BY <1>1, JournalFields DEF Operations
      <3> QED BY <1>1, <1>2, <1>3, <3>1 DEF Settled, Operations
    <2> QED BY <1>1, <1>2, <2>1 DEF RunOK, Executing
  <1>6. GeneratedFilesAreAccountedFor'
    <2> SUFFICES ASSUME NEW q \in Path, vault'[q] \in Page
                 PROVE  \/ Owned[q] = vault'[q]
                        \/ journal # None /\ q \in DOMAIN journal.writes /\ journal.next[q] = vault'[q]
      BY <1>2 DEF GeneratedFilesAreAccountedFor, Owned
    <2>1. CASE q # p
      BY <1>3, <2>1 DEF RunsOK, GeneratedFilesAreAccountedFor
    <2>2. CASE q = p
      <3>1. j.next[p] # Absent
        BY <1>3, <2>2, ProjectionConstants
      <3>2. p \in DOMAIN j.writes
        BY <1>1, <3>1 DEF Operations, Planned
      <3> QED BY <1>1, <1>3, <2>2, <3>2
    <2> QED BY <2>1, <2>2
  <1>7. \A s \in Projector : RunOK(s)'
    BY <1>5 DEF Alone
  <1> QED BY <1>4, <1>6, <1>7 DEF RunsOK

(* All files done: every page in the vault is one of the next manifest.     *)
LEMMA CheckManifestRuns ==
  ASSUME Alone, Types, RunsOK, NEW r \in Projector, CheckManifest(r)
  PROVE  RunsOK'
  <1>1. UNCHANGED disk
    BY DEF CheckManifest
  <1>2. /\ journal = held[r] /\ manifest \in {held[r].base, held[r].next} /\ held[r] # None
        /\ Settled(Operations(held[r]) \ todo[r], held[r]) /\ todo[r] = {} /\ Covered(held[r])
    BY OneRun DEF CheckManifest, RunsOK, RunOK, JobOK, Executing
  <1>3. Settled(Path, held[r])
    BY <1>2 DEF Settled, Covered
  <1>4. CASE Goto(r, "settle") \/ Goto(r, "commit")
    <2>1. pc'[r] \in {"settle", "commit"} /\ held' = held
      BY <1>4 DEF Goto, Types
    <2>2. RunOK(r)'
      BY <1>1, <1>2, <1>3, <2>1 DEF RunOK, Executing, Settled, disk
    <2> QED BY <1>1, <2>2, QuietRuns
  <1> QED BY <1>1, <1>4, StopRuns DEF CheckManifest

LEMMA CommitRuns ==
  ASSUME Alone, Types, RunsOK, NEW r \in Projector, CommitManifest(r)
  PROVE  RunsOK'
  <1>1. /\ journal = held[r] /\ held[r] # None /\ held[r] \in Journal
        /\ Settled(Path, held[r]) /\ Covered(held[r])
    BY OneRun DEF CommitManifest, RunsOK, RunOK, JobOK, Executing
  <1>2. /\ manifest' = held[r].next /\ pc'[r] = "settle" /\ UNCHANGED <<vault, journal, held>>
    BY DEF CommitManifest, Goto, Types
  <1>3. Owned' = held[r].next
    BY <1>1, <1>2, JournalFields, NoneAssumption DEF Owned
  <1>4. GeneratedFilesAreAccountedFor'
    BY <1>1, <1>2, <1>3 DEF GeneratedFilesAreAccountedFor, Settled
  <1>5. RunOK(r)' /\ Covered(journal)'
    BY <1>1, <1>2 DEF RunOK, Executing, Settled, Covered, Operations
  <1> QED BY <1>4, <1>5 DEF RunsOK, Alone

(* The journal goes when the manifest lists what it had announced.          *)
LEMMA SettleRuns ==
  ASSUME Alone, Types, RunsOK, NEW r \in Projector, Settle(r)
  PROVE  RunsOK'
  <1>1. CASE ~(manifest = held[r].next /\ journal = held[r])
    BY <1>1, StopRuns DEF Settle, disk
  <1>2. CASE manifest = held[r].next /\ journal = held[r]
    <2>1. Settled(Path, held[r]) /\ held[r] \in Journal
      BY OneRun DEF Settle, RunsOK, RunOK, JobOK, Executing
    <2>2. /\ journal' = None /\ pc'[r] \in {"plan", "idle"} /\ UNCHANGED <<vault, manifest>>
      BY <1>2 DEF Settle, Stop, Types
    <2>3. Owned = held[r].next
      BY <1>2, <2>1, JournalFields, NoneAssumption DEF Owned
    <2>4. GeneratedFilesAreAccountedFor'
      BY <2>1, <2>2, <2>3 DEF GeneratedFilesAreAccountedFor, Settled, Owned
    <2>5. RunOK(r)'
      BY <2>2 DEF RunOK, Executing
    <2> QED BY <2>2, <2>4, <2>5 DEF RunsOK, Alone
  <1> QED BY <1>1, <1>2

(* The user writes no pages: what was accounted for stays so.               *)
LEMMA EditRuns ==
  ASSUME Alone, Types, RunsOK, NEW p \in Path, NEW text \in Edit, EditFile(p, text)
  PROVE  RunsOK'
  <1>1. /\ \A q \in Path : vault'[q] \in Page => vault'[q] = vault[q]
        /\ UNCHANGED <<manifest, journal, pc, held, todo>>
    BY ProjectionConstants DEF EditFile, Types, run
  <1>2. \A S, j : S \subseteq Path /\ Settled(S, j) =>
           \A q \in S : vault'[q] \in Page => vault'[q] = j.next[q]
    BY <1>1 DEF Settled
  <1>3. GeneratedFilesAreAccountedFor'
    BY <1>1 DEF RunsOK, GeneratedFilesAreAccountedFor, Owned
  <1>4. journal' # None => Covered(journal)'
    BY <1>1, <1>2 DEF RunsOK, Covered, Settled, Operations
  <1>5. ASSUME NEW r \in Projector PROVE RunOK(r)'
    <2>1. pc[r] \in Executing \cup {"prepare"} => Operations(held[r]) \subseteq Path
      BY OneRun, JournalFields DEF JobOK, Operations, Executing
    <2>2. pc[r] \in {"apply", "touch"} => Settled(Operations(held[r]) \ todo[r], held[r])'
      BY <1>1, <1>2, <2>1 DEF RunsOK, RunOK, Settled, Operations, Executing
    <2>3. /\ pc[r] = "prepare" => Covered(held[r])'
          /\ pc[r] \in {"commit", "settle"} => Settled(Path, held[r])'
      BY <1>1, <1>2 DEF RunsOK, RunOK, Covered, Settled, Operations
    <2> QED BY <1>1, <2>2, <2>3 DEF RunsOK, RunOK
  <1> QED BY <1>3, <1>4, <1>5 DEF RunsOK

LEMMA RunsStep ==
  ASSUME Alone
  PROVE  Inv /\ RunsOK /\ [ProjectionNext]_vars => RunsOK'
  <1> SUFFICES ASSUME Types, RunsOK, [ProjectionNext]_vars PROVE RunsOK'
    BY DEF Inv
  <1>1. ASSUME NEW r \in Projector, Step(r) PROVE RunsOK'
    BY <1>1, StartRuns, PreflightRuns, PrepareRuns, BeginRuns, CheckRuns, TouchRuns,
       CheckManifestRuns, CommitRuns, SettleRuns DEF Step
  <1>2. ASSUME NEW r \in Projector, Crash(r) PROVE RunsOK'
    BY <1>2, StopRuns DEF Crash
  <1>3. ASSUME UNCHANGED <<disk, run>> PROVE RunsOK'
    BY <1>3 DEF RunsOK, GeneratedFilesAreAccountedFor, Owned, RunOK, Covered, Settled,
                Operations, disk, run
  <1>4. ASSUME NEW p \in Path, NEW page \in Page \cup {Absent}, ChangeRecord(p, page) PROVE RunsOK'
    BY <1>3, <1>4 DEF ChangeRecord
  <1>5. UNCHANGED vars => RunsOK'
    BY <1>3 DEF vars, disk, run
  <1> QED BY <1>1, <1>2, <1>4, <1>5, EditRuns DEF ProjectionNext

\* With one projector at a time: wherever it dies, and whatever the user edits
\* meanwhile, every generated file of the vault is listed by the manifest or
\* announced by the journal that is left.
THEOREM NothingIsLostSightOf ==
  ASSUME Alone
  PROVE  ProjectionSpec => []GeneratedFilesAreAccountedFor
  <1>1. ProjectionInit => RunsOK
    BY ProjectionConstants DEF ProjectionInit, RunsOK, GeneratedFilesAreAccountedFor, Nothing,
                               RunOK, Executing
  <1>2. RunsOK => GeneratedFilesAreAccountedFor
    BY DEF RunsOK
  <1>3. Inv /\ RunsOK /\ [ProjectionNext]_vars => RunsOK'
    BY RunsStep
  <1> QED BY <1>1, <1>2, <1>3, SpecInv, PTL DEF ProjectionSpec
=============================================================================
