------------------------- MODULE ObsidianProjection -------------------------
(***************************************************************************)
(* The projection of the central memory into an Obsidian vault.  The vault *)
(* belongs to the user; the projector owns the files its manifest lists.   *)
(* It works through a journal on disk: a run prepares the journal, rewrites *)
(* and removes files, commits the manifest, removes the journal.  A run    *)
(* that finds a journal finishes it first.                                 *)
(*                                                                         *)
(* Processes may die between any two file operations; what they hold in    *)
(* memory is lost, the files stay.  The user edits any file at any time.   *)
(* A file is its checksum: the page generated from a version of a record,  *)
(* or a text of the user's.                                                *)
(***************************************************************************)
EXTENDS Integers, FiniteSets

CONSTANTS
    Projector,    \* processes that run the projection
    Path,         \* generated targets
    Page,         \* generated contents
    UserText,     \* anything the user writes
    Absent,       \* no file, no record
    None,         \* no manifest or no journal
    Edit,         \* what the user does to a file: the texts written, Absent to delete
    MaxChange, MaxEdit, MaxCrash  \* bounds on changes of records, edits, crashes

ASSUME ProjectionConstants ==
    /\ UserText \notin Page /\ Absent \notin Page /\ UserText # Absent
    /\ Edit \subseteq {UserText, Absent}
    /\ MaxChange \in Nat /\ MaxEdit \in Nat /\ MaxCrash \in Nat

VARIABLES
    record,   \* the page each record of the database calls for
    vault,    \* the files of the vault
    manifest, \* ownership/<scope>.manifest.json
    journal,  \* transactions/<scope>.journal.json
    pc,       \* where each process is
    held,     \* the journal a process executes
    todo,     \* the paths it has not reached yet
    target,   \* the path it has checked and is about to replace or remove
    resuming, \* the processes that finish a journal they found
    raced,    \* history: files edited between the check and the replacement
    changes, edits, crashes

vars == <<record, vault, manifest, journal, pc, held, todo, target, resuming, raced,
          changes, edits, crashes>>
disk == <<vault, manifest, journal>>
world == <<record, raced, changes, edits, crashes>>
run == <<pc, held, todo, target, resuming>>

Pages == [Path -> Page \cup {Absent}]
Nothing == [p \in Path |-> Absent]
Owned == IF manifest = None THEN Nothing ELSE manifest

\* writes and removals map paths to the content they expect to replace.
Journal == [base : Pages \cup {None}, next : Pages,
            writes : UNION {[S -> Page \cup {Absent}] : S \in SUBSET Path},
            removals : UNION {[S -> Page] : S \in SUBSET Path}]

\* A missing file is told from every file.
ASSUME NoneAssumption == None \notin Pages /\ None \notin Journal

Operations(j) == DOMAIN j.writes \cup DOMAIN j.removals

-----------------------------------------------------------------------------
(* Planning a run.                                                          *)

Desired(p) == record[p]
Wanted == {p \in Path : Desired(p) # Absent}

\* Fault: only unknown files are foreign, not owned files the user changed.
ForeignIfUnknown(p) == vault[p] # Absent /\ Owned[p] = Absent

\* An unknown or modified file at a generated target stops the run.
Foreign(p) ==
    /\ vault[p] # Absent
    /\ Owned[p] = Absent \/ vault[p] \notin {Desired(p), Owned[p]}

Writes == [p \in {q \in Wanted : vault[q] # Desired(q)} |-> vault[p]]
Removals == [p \in {q \in Path \ Wanted : vault[q] # Absent /\ vault[q] = Owned[q]} |-> Owned[p]]

Plan == [base |-> manifest, next |-> record, writes |-> Writes, removals |-> Removals]

\* The journal is read back only when the manifests it carries authorize it.
Authorized(j) ==
    LET base == IF j.base = None THEN Nothing ELSE j.base
    IN  /\ \A p \in DOMAIN j.writes : j.next[p] # Absent /\ base[p] = j.writes[p]
        /\ \A p \in DOMAIN j.removals : base[p] = j.removals[p] /\ j.next[p] = Absent

-----------------------------------------------------------------------------
(* One process.                                                             *)

Stop(r) == /\ pc' = [pc EXCEPT ![r] = "idle"]
           /\ resuming' = resuming \ {r}
           /\ held' = [held EXCEPT ![r] = None]
           /\ todo' = [todo EXCEPT ![r] = {}]
           /\ target' = [target EXCEPT ![r] = Absent]

Goto(r, place) == /\ pc' = [pc EXCEPT ![r] = place]
                  /\ UNCHANGED <<held, todo, target, resuming>>

\* execute_journal starts only on the manifest the journal was made for.
Execute(r, j, found) ==
    IF manifest \in {j.base, j.next}
    THEN /\ pc' = [pc EXCEPT ![r] = "apply"]
         /\ resuming' = resuming \cup found
         /\ held' = [held EXCEPT ![r] = j]
         /\ todo' = [todo EXCEPT ![r] = Operations(j)]
         /\ UNCHANGED target
    ELSE Stop(r)

Start(r) ==
    /\ pc[r] = "idle"
    /\ IF journal = None THEN Goto(r, "plan")
       ELSE IF Authorized(journal) THEN Execute(r, journal, {r})
       ELSE Stop(r)
    /\ UNCHANGED <<disk, world>>

\* A run with nothing to do ends here; another leaves with its journal.
Preflight(r) ==
    /\ pc[r] = "plan"
    /\ LET idle == manifest = Plan.next /\ Operations(Plan) = {}
       IN  IF (\E p \in Wanted : Foreign(p)) \/ idle \/ journal # None
           THEN Stop(r)
           ELSE /\ pc' = [pc EXCEPT ![r] = "prepare"]
                /\ held' = [held EXCEPT ![r] = Plan]
                /\ UNCHANGED <<todo, target, resuming>>
    /\ UNCHANGED <<disk, world>>

Prepare(r) ==
    /\ pc[r] = "prepare"
    /\ journal' = held[r]
    /\ Goto(r, "begin")
    /\ UNCHANGED <<vault, manifest, world>>

Begin(r) == pc[r] = "begin" /\ Execute(r, held[r], {}) /\ UNCHANGED <<disk, world>>

PendingWrites(r) == todo[r] \cap DOMAIN held[r].writes
Removing(r) == PendingWrites(r) = {}

Skip(r, p) == /\ todo' = [todo EXCEPT ![r] = @ \ {p}]
              /\ UNCHANGED <<pc, held, target, resuming>>
Check(r, p) == /\ pc' = [pc EXCEPT ![r] = "touch"] /\ target' = [target EXCEPT ![r] = p]
               /\ UNCHANGED <<held, todo, resuming>>

\* Fault: an interrupted run is not expected to have reached the file.
CheckWriteOnce(r, p) ==
    /\ pc[r] = "apply" /\ p \in PendingWrites(r)
    /\ IF vault[p] = held[r].writes[p] THEN Check(r, p) ELSE Stop(r)
    /\ UNCHANGED <<disk, world>>

\* The file already holds the new page, or still the old one, or is refused.
CheckWrite(r, p) ==
    /\ pc[r] = "apply" /\ p \in PendingWrites(r)
    /\ IF vault[p] = held[r].next[p] THEN Skip(r, p)
       ELSE IF vault[p] = held[r].writes[p] THEN Check(r, p)
       ELSE Stop(r)
    /\ UNCHANGED <<disk, world>>

\* A file that is gone or was edited is left as it is.
CheckRemoval(r, p) ==
    /\ pc[r] = "apply" /\ Removing(r) /\ p \in todo[r]
    /\ IF vault[p] # Absent /\ vault[p] = held[r].removals[p] THEN Check(r, p) ELSE Skip(r, p)
    /\ UNCHANGED <<disk, world>>

\* The rename over the target, or its removal.
Touch(r) ==
    LET p == target[r]
    IN  /\ pc[r] = "touch"
        /\ vault' = [vault EXCEPT ![p] = held[r].next[p]]
        /\ pc' = [pc EXCEPT ![r] = "apply"]
        /\ todo' = [todo EXCEPT ![r] = @ \ {p}]
        /\ target' = [target EXCEPT ![r] = Absent]
        /\ UNCHANGED <<held, resuming, manifest, journal, world>>

\* Fault: the journal is removed first, the manifest committed afterwards.
CommitLast(r) ==
    /\ pc[r] = "apply" /\ todo[r] = {}
    /\ journal' = None /\ Goto(r, "commit")
    /\ UNCHANGED <<vault, manifest, world>>

CheckManifest(r) ==
    /\ pc[r] = "apply" /\ todo[r] = {}
    /\ IF manifest = held[r].next THEN Goto(r, "settle")
       ELSE IF manifest = held[r].base THEN Goto(r, "commit")
       ELSE Stop(r)
    /\ UNCHANGED <<disk, world>>

CommitManifest(r) ==
    /\ pc[r] = "commit"
    /\ manifest' = held[r].next
    /\ Goto(r, "settle")
    /\ UNCHANGED <<vault, journal, world>>

\* The journal goes when it is still the one executed and the manifest is
\* committed.  A run that recovered goes on with a projection of its own.
Settle(r) ==
    /\ pc[r] = "settle"
    /\ IF manifest = held[r].next /\ journal = held[r]
       THEN /\ journal' = None
            /\ IF r \in resuming
               THEN /\ pc' = [pc EXCEPT ![r] = "plan"]
                    /\ resuming' = resuming \ {r}
                    /\ held' = [held EXCEPT ![r] = None]
                    /\ UNCHANGED <<todo, target>>
               ELSE Stop(r)
       ELSE Stop(r) /\ UNCHANGED journal
    /\ UNCHANGED <<vault, manifest, world>>

-----------------------------------------------------------------------------
(* The environment.                                                         *)

ChangeRecord(p, page) ==
    /\ changes < MaxChange /\ record[p] # page
    /\ record' = [record EXCEPT ![p] = page]
    /\ changes' = changes + 1
    /\ UNCHANGED <<disk, run, raced, edits, crashes>>

EditFile(p, text) ==
    /\ edits < MaxEdit /\ vault[p] # text
    /\ vault' = [vault EXCEPT ![p] = text]
    /\ raced' = IF \E r \in Projector : target[r] = p THEN raced \cup {p} ELSE raced
    /\ edits' = edits + 1
    /\ UNCHANGED <<manifest, journal, run, record, changes, crashes>>

Crash(r) ==
    /\ pc[r] # "idle" /\ crashes < MaxCrash
    /\ Stop(r)
    /\ crashes' = crashes + 1
    /\ UNCHANGED <<disk, record, raced, changes, edits>>

-----------------------------------------------------------------------------
ProjectionInit ==
    /\ record \in Pages /\ vault = Nothing /\ manifest = None /\ journal = None
    /\ pc = [r \in Projector |-> "idle"] /\ held = [r \in Projector |-> None]
    /\ todo = [r \in Projector |-> {}] /\ target = [r \in Projector |-> Absent]
    /\ resuming = {} /\ raced = {} /\ changes = 0 /\ edits = 0 /\ crashes = 0

Step(r) ==
    \/ Start(r) \/ Preflight(r) \/ Prepare(r) \/ Begin(r)
    \/ \E p \in Path : CheckWrite(r, p) \/ CheckRemoval(r, p)
    \/ Touch(r) \/ CheckManifest(r) \/ CommitManifest(r) \/ Settle(r)

ProjectionNext ==
    \/ \E r \in Projector : Step(r) \/ Crash(r)
    \/ \E p \in Path, page \in Page \cup {Absent} : ChangeRecord(p, page)
    \/ \E p \in Path, text \in Edit : EditFile(p, text)

\* A run goes on, and the user runs the projection again.
ProjectionSpec ==
    /\ ProjectionInit /\ [][ProjectionNext]_vars
    /\ \A r \in Projector : WF_vars(Step(r))

-----------------------------------------------------------------------------
(* Properties.                                                              *)

\* projector.ts:2676-2704: no step of a run, and no recovery after a crash,
\* overwrites or removes a text of the user's, unless it was saved in the
\* instant between the last check of that file and its replacement.
UserTextSurvives ==
    [][\A p \in Path : vault[p] = UserText /\ vault'[p] # UserText /\ edits' = edits
                           => p \in raced]_vars

\* projector.ts:2749-2975: whatever the step a run dies at, every generated
\* file in the vault is listed by the manifest or by the pending journal;
\* otherwise the next run would take it for the user's and refuse.
GeneratedFilesAreAccountedFor ==
    \A p \in Path : vault[p] \in Page =>
        \/ Owned[p] = vault[p]
        \/ journal # None /\ p \in DOMAIN journal.writes /\ journal.next[p] = vault[p]

\* docs/cli.md:291-292: the projection is atomic: a run that was interrupted can
\* be finished, so the journal it left is accepted when it is read back.
JournalsCanBeResumed == journal # None => Authorized(journal)

\* projector.ts:2787-2809: as long as nobody edits generated files, the vault
\* shows the database in the end, whatever runs were interrupted where.
Shown == \A p \in Path : vault[p] = record[p]
VaultCatchesUp == [](edits = 0) => <>[]Shown

=============================================================================
