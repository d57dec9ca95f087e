--------------------------- MODULE HistoryBackfill ---------------------------
(***************************************************************************)
(* History backfill: imported revisions of one conversation become runs;   *)
(* workers lease the chunks of a run, submit what they find, and then      *)
(* reduce the findings in rounds until one final reduction is left.        *)
(*                                                                         *)
(* A piece of work is <<run, stage, index>>: stage 0 holds the chunks,     *)
(* stage k the batches of reduction round k - 1.  The tables of chunks and *)
(* reductions have the same statuses and transitions and are one function  *)
(* here.  The worker, turn and expiry that a leased row repeats are those  *)
(* of its claim, the row of cm_history_backfill_turn_usage with the lease  *)
(* id.                                                                     *)
(*                                                                         *)
(* Every action is one immediate transaction.  Its timestamp is taken      *)
(* before the transaction begins and may be up to MaxWait old by then: a   *)
(* call waits for the write lock.  Workers die, come back in another turn  *)
(* and call late or twice; a call that is refused or answered from an      *)
(* earlier receipt changes nothing and is a stuttering step.  Binding and  *)
(* authorization of a worker may be withdrawn and given back at any time   *)
(* and only ever decide that a call is refused; as nobody has to call,     *)
(* they need no variable.                                                  *)
(***************************************************************************)
EXTENDS Integers, FiniteSetsExt

CONSTANTS
    Run,          \* revisions of the conversation, each one run
    ObservedAt,   \* when the source last changed, per revision
    ChunkCount,   \* chunks a revision is cut into
    Session,      \* worker sessions
    Background,   \* the background grants among them
    MaxFindings,  \* findings of one chunk
    MaxOutputs,   \* findings of one reduction
    MaxInputs,    \* findings one reduction takes in
    MaxUnits,     \* units of one batch, claims of one turn
    LeaseTime,    \* how long a lease lasts
    MaxWait,      \* bound: age of a timestamp when its transaction begins
    MaxTime,      \* bound: the clock
    MaxLease,     \* bound: leases ever handed out
    MaxEpoch,     \* bound: capabilities of one session
    MaxStage,     \* bound: reduction rounds of a run
    MaxIndex      \* bound: pieces of one stage, less one

ASSUME BackfillAssumption ==
    /\ ObservedAt \in [Run -> Nat]
    /\ ChunkCount \in [Run -> 0 .. MaxIndex + 1]
    /\ Background \subseteq Session
    /\ MaxFindings \in Nat
    /\ MaxOutputs \in Nat
    /\ MaxInputs \in Nat \ {0}
    /\ MaxUnits \in Nat \ {0}
    /\ LeaseTime \in Nat \ {0}
    /\ MaxWait \in Nat
    /\ MaxTime \in Nat
    /\ MaxLease \in Nat
    /\ MaxEpoch \in Nat
    /\ MaxStage \in Nat \ {0}
    /\ MaxIndex \in Nat

None  == 0
Lease == 1 .. MaxLease
Epoch == 0 .. MaxEpoch
Time  == 0 .. MaxTime
Never == MaxTime + 1     \* max_sqlite_timestamp: no call is ever that late

Stage == 0 .. MaxStage
Index == 0 .. MaxIndex
Piece == Run \X Stage \X Index

RunStatus == {"absent", "pending", "extracting", "ready_for_consolidation",
              "consolidating", "failed", "candidates_ready", "superseded"}
Unfinished == {"pending", "extracting", "ready_for_consolidation",
               "consolidating", "failed"}

(* lease and retry stand for the columns consolidation_lease_id, which     *)
(* names the reduction as well, and consolidation_retry_at.                *)
RunRow == [status : RunStatus, lease : Lease \cup {None}, retry : Time \cup {Never}]

PieceRow ==
    [status : {"absent", "pending", "leased", "failed", "completed"},
     lease : Lease \cup {None}, available : Time \cup {Never}, findings : Nat]

Claim ==
    [status : {"active", "consumed", "expired"}, piece : Piece,
     session : Session, turn : Epoch \cup Lease, epoch : Epoch,
     expires : 0 .. MaxTime + LeaseTime, previous : Lease \cup {None}]

NoClaim == [status |-> "unused"]

VARIABLES
    now,       \* the clock
    run,       \* run[r]: the row of the run
    work,      \* work[p]: the row of the chunk or reduction
    usage,     \* usage[l]: the claim made under lease l
    receipts,  \* leases with an immutable receipt
    turn,      \* turn[s]: the turn of the session's capability
    epoch,     \* epoch[s]: its capability
    refused    \* runs whose creation the storage refused

vars == <<now, run, work, usage, receipts, turn, epoch, refused>>

-----------------------------------------------------------------------------
(* Reading the tables.                                                     *)

(* The timestamps a transaction that begins now may carry.                 *)
At == {t \in Time : t <= now /\ now - t <= MaxWait}

Pieces(r, k) ==
    {p \in Piece : p[1] = r /\ p[2] = k /\ work[p].status # "absent"}

Completed(pieces) == \A p \in pieces : work[p].status = "completed"

Findings(pieces) == SumFunction([p \in pieces |-> work[p].findings])

(* The latest stage of a run, 0 before its first reduction round.          *)
LastStage(r) == Max({0} \cup {k \in Stage : Pieces(r, k) # {}})

(* Batches that n findings are cut into; none at all still make one.       *)
Batches(n) == IF n = 0 THEN 1 ELSE (n + MaxInputs - 1) \div MaxInputs

(* is_final of a reduction: it is the only batch of its round.             *)
IsFinal(p) == Pieces(p[1], p[2]) = {p}

First(pieces) == CHOOSE p \in pieces : \A q \in pieces : p[3] <= q[3]

(* Claims of the session's turn; get_turn_usage returns the latest.        *)
InTurn(s) == {l \in Lease : /\ usage[l].status # "unused"
                            /\ usage[l].session = s
                            /\ usage[l].turn = turn[s]}

Fresh(l) == /\ usage[l].status = "unused"
            /\ \A m \in Lease : m < l => usage[m].status # "unused"

-----------------------------------------------------------------------------
(* Importing revisions.                                                    *)

NewPiece(at) ==
    [status |-> "pending", lease |-> None, available |-> at, findings |-> 0]

ChunkRows(r, at) ==
    [p \in Piece |-> IF p[1] = r /\ p[2] = 0 /\ p[3] < ChunkCount[r]
                     THEN NewPiece(at) ELSE work[p]]

Recorded(r) == run[r].status # "absent"

NewerThan(r) == {q \in Run \ {r} : Recorded(q) /\ ObservedAt[q] > ObservedAt[r]}

(* Fault: a revision observed at the same time is left alone.              *)
SupersededIfOlder(r) ==
    {q \in Run \ {r} : /\ run[q].status \in Unfinished
                       /\ ObservedAt[q] < ObservedAt[r]}

SupersededBy(r) ==
    {q \in Run \ {r} : /\ run[q].status \in Unfinished
                       /\ ObservedAt[q] <= ObservedAt[r]}

(* create_run for a revision that is not recorded yet.                     *)
CreateRun(r, at) ==
    /\ ~Recorded(r)
    /\ work' = ChunkRows(r, at)
    /\ IF NewerThan(r) # {}
       THEN run' = [run EXCEPT ![r].status = "superseded"]
       ELSE /\ \A q \in SupersededBy(r) : run[q].status # "consolidating"
            /\ run' = [q \in Run |->
                   IF q = r
                   THEN [run[r] EXCEPT !.status = IF ChunkCount[r] = 0
                                                  THEN "ready_for_consolidation"
                                                  ELSE "pending"]
                   ELSE IF q \in SupersededBy(r)
                        THEN [run[q] EXCEPT !.status = "superseded", !.lease = None]
                        ELSE run[q]]
    /\ UNCHANGED <<now, usage, receipts, turn, epoch, refused>>

(* The statement that supersedes a consolidating run clears the columns of *)
(* its lease but not consolidation_reduction_id; the check of the row      *)
(* wants that column NULL as well, and the transaction is rolled back.     *)
CreateRunRefused(r) ==
    /\ ~Recorded(r)
    /\ NewerThan(r) = {}
    /\ \E q \in SupersededBy(r) : run[q].status = "consolidating"
    /\ refused' = refused \cup {r}
    /\ UNCHANGED <<now, run, work, usage, receipts, turn, epoch>>

-----------------------------------------------------------------------------
(* Claims.                                                                 *)

(* Fault: the claim before need not be submitted.                          *)
MayClaimAfterAny(s, previous) ==
    /\ Cardinality(InTurn(s)) < MaxUnits
    /\ \/ previous = None /\ InTurn(s) = {}
       \/ previous \in InTurn(s) /\ previous = Max(InTurn(s))

(* batch_prior and assert_batch_budget: a turn makes one claim, and one    *)
(* more after each claim it has submitted, up to the budget.               *)
MayClaim(s, previous) ==
    /\ Cardinality(InTurn(s)) < MaxUnits
    /\ \/ previous = None /\ InTurn(s) = {}
       \/ /\ previous \in InTurn(s)
          /\ previous = Max(InTurn(s))
          /\ usage[previous].epoch = epoch[s]
          /\ usage[previous].status = "consumed"
          /\ previous \in receipts

(* Fault: the status of the row is not looked at.                          *)
ClaimableWhenDue(row, at) == row.available <= at

Live(l, at) == usage[l].status = "active" /\ usage[l].expires > at

(* BackgroundHistoryWorker has no conversation to take turns in.  Its jobs *)
(* stand for them: a claim is the job named by the lease it comes after,   *)
(* which must be its own and over.  A job makes one claim; repeated, it    *)
(* gets the same lease again.                                              *)
MayContinue(s, after, at) ==
    /\ after # None => /\ usage[after].status # "unused"
                       /\ usage[after].session = s
                       /\ ~Live(after, at)
    /\ \A l \in Lease : usage[l].status # "unused" /\ usage[l].session = s
                       => usage[l].turn # after

MayClaimAt(s, previous, at) ==
    IF s \in Background THEN MayContinue(s, previous, at) ELSE MayClaim(s, previous)

(* The lease after which checkpoint() tells a worker that remembers        *)
(* nothing to go on; while that lease lasts, it is the one to work on.     *)
Resumed(s) ==
    Max({None} \cup {l \in Lease : usage[l].status # "unused" /\ usage[l].session = s})

NewClaim(s, p, previous, at) ==
    [status |-> "active", piece |-> p, session |-> s,
     turn |-> IF s \in Background THEN previous ELSE turn[s],
     epoch |-> epoch[s], expires |-> at + LeaseTime,
     previous |-> IF s \in Background THEN None ELSE previous]

Claimable(row, at) ==
    \/ row.status \in {"pending", "failed"} /\ row.available <= at
    \/ row.status = "leased" /\ usage[row.lease].expires <= at

Leased(row, l) == [row EXCEPT !.status = "leased", !.lease = l]

(* Fault: the claims of the leases replaced stay active.                   *)
UsageKeepingClaims(s, p, replaced, l, previous, at) ==
    [usage EXCEPT ![l] = NewClaim(s, p, previous, at)]

(* insert_turn_usage, after expire_usage_for_lease on the leases replaced. *)
UsageAfterClaim(s, p, replaced, l, previous, at) ==
    [m \in Lease |->
        IF m = l
        THEN NewClaim(s, p, previous, at)
        ELSE IF m \in replaced /\ usage[m].status = "active" /\ usage[m].expires <= at
             THEN [usage[m] EXCEPT !.status = "expired"]
             ELSE usage[m]]

(* claim_next; the call may name the run, else any comes first.            *)
ClaimNext(s, r, previous, at) ==
    LET claimable == {p \in Pieces(r, 0) : Claimable(work[p], at)}
        p == First(claimable)
    IN  /\ MayClaimAt(s, previous, at)
        /\ run[r].status \in {"pending", "extracting"}
        /\ claimable # {}
        /\ \E l \in Lease :
               /\ Fresh(l)
               /\ work' = [work EXCEPT ![p] = Leased(@, l)]
               /\ usage' = UsageAfterClaim(s, p, {work[p].lease}, l, previous, at)
        /\ run' = [run EXCEPT ![r].status = "extracting"]
        /\ UNCHANGED <<now, receipts, turn, epoch, refused>>

(* Fault: the next round is made before the last is complete.              *)
NeedsRoundTooEarly(r) ==
    LET k == LastStage(r) IN k = 0 \/ Cardinality(Pieces(r, k)) # 1

(* ensure_next_reduction_round: the last round is worked on until it is    *)
(* complete; then its findings, or those of the chunks, make the next.     *)
NeedsRound(r) ==
    LET k == LastStage(r)
    IN  k = 0 \/ (Completed(Pieces(r, k)) /\ Cardinality(Pieces(r, k)) # 1)

RoundStage(r) == IF NeedsRound(r) THEN LastStage(r) + 1 ELSE LastStage(r)

WithRound(r, at) ==
    LET k == LastStage(r)
    IN  IF NeedsRound(r)
        THEN [p \in Piece |->
                 IF p[1] = r /\ p[2] = k + 1 /\ p[3] < Batches(Findings(Pieces(r, k)))
                 THEN NewPiece(at) ELSE work[p]]
        ELSE work

RoundFits(r) ==
    NeedsRound(r) => /\ LastStage(r) < MaxStage
                     /\ Batches(Findings(Pieces(r, LastStage(r)))) \in 1 .. MaxIndex + 1

(* claim_consolidation.                                                    *)
ClaimConsolidation(s, r, previous, at) ==
    LET rows == WithRound(r, at)
        claimable == {p \in Piece : /\ p[1] = r
                                    /\ p[2] = RoundStage(r)
                                    /\ rows[p].status # "absent"
                                    /\ Claimable(rows[p], at)}
        p == First(claimable)
    IN  /\ MayClaimAt(s, previous, at)
        /\ \/ run[r].status = "ready_for_consolidation"
           \/ run[r].status = "failed" /\ run[r].retry <= at
           \/ run[r].status = "consolidating" /\ usage[run[r].lease].expires <= at
        /\ RoundFits(r)
        /\ claimable # {}
        /\ \E l \in Lease :
               /\ Fresh(l)
               /\ work' = [rows EXCEPT ![p] = Leased(@, l)]
               /\ usage' = UsageAfterClaim(s, p, {run[r].lease, rows[p].lease},
                                         l, previous, at)
               /\ run' = [run EXCEPT ![r] = [status |-> "consolidating",
                                             lease |-> l, retry |-> Never]]
        /\ UNCHANGED <<now, receipts, turn, epoch, refused>>

-----------------------------------------------------------------------------
(* Results.                                                                *)

(* A background worker gives the turn of the claim it names.               *)
IsCaller(s, l) ==
    /\ usage[l].session = s
    /\ s \notin Background => usage[l].turn = turn[s]
    /\ usage[l].epoch = epoch[s]

(* Fault: who made the claim is asked, not whether it still holds.         *)
MadeClaim(s, l, at) ==
    /\ usage[l].status \in {"active", "expired"}
    /\ IsCaller(s, l)

(* The caller is the worker of the lease, in its turn and with its         *)
(* capability, the lease is in force and its piece is still leased by it.  *)
HoldsLease(s, l, at) ==
    /\ usage[l].status = "active"
    /\ IsCaller(s, l)
    /\ usage[l].expires > at
    /\ work[usage[l].piece].status = "leased"
    /\ work[usage[l].piece].lease = l

(* Fault: the status of the run is not looked at.                          *)
HoldsChunkOfAnyRun(s, l, at) == HoldsLease(s, l, at) /\ usage[l].piece[2] = 0

HoldsChunk(s, l, at) ==
    /\ HoldsLease(s, l, at)
    /\ usage[l].piece[2] = 0
    /\ run[usage[l].piece[1]].status = "extracting"

HoldsReduction(s, l, at) ==
    /\ HoldsLease(s, l, at)
    /\ usage[l].piece[2] # 0
    /\ run[usage[l].piece[1]].status = "consolidating"
    /\ run[usage[l].piece[1]].lease = l

Done(row, n) ==
    [row EXCEPT !.status = "completed", !.lease = None, !.findings = n]

(* Fault: the time of the retry is lost.                                   *)
FailedForGood(row, retry) ==
    [row EXCEPT !.status = "failed", !.lease = None, !.available = Never]

Failed(row, retry) ==
    [row EXCEPT !.status = "failed", !.lease = None, !.available = retry]

Consumed(l) == [usage EXCEPT ![l].status = "consumed"]

SubmitChunk(s, l, at, n) ==
    LET p == usage[l].piece
    IN  /\ HoldsChunk(s, l, at)
        /\ work' = [work EXCEPT ![p] = Done(@, n)]
        /\ receipts' = receipts \cup {l}
        /\ usage' = Consumed(l)
        /\ run' = [run EXCEPT ![p[1]].status =
               IF Completed(Pieces(p[1], 0) \ {p})
               THEN "ready_for_consolidation" ELSE "extracting"]
        /\ UNCHANGED <<now, turn, epoch, refused>>

FailChunk(s, l, at, retry) ==
    /\ HoldsChunk(s, l, at)
    /\ work' = [work EXCEPT ![usage[l].piece] = Failed(@, retry)]
    /\ usage' = Consumed(l)
    /\ UNCHANGED <<now, run, receipts, turn, epoch, refused>>

CompleteConsolidation(s, l, at, n) ==
    LET p == usage[l].piece
    IN  /\ HoldsReduction(s, l, at)
        /\ Completed(Pieces(p[1], 0))
        /\ work' = [work EXCEPT ![p] = Done(@, n)]
        /\ receipts' = receipts \cup {l}
        /\ usage' = Consumed(l)
        /\ run' = [run EXCEPT ![p[1]].lease = None,
                              ![p[1]].status = IF IsFinal(p)
                                               THEN "candidates_ready"
                                               ELSE "ready_for_consolidation"]
        /\ UNCHANGED <<now, turn, epoch, refused>>

FailConsolidation(s, l, at, retry) ==
    LET p == usage[l].piece
    IN  /\ HoldsReduction(s, l, at)
        /\ work' = [work EXCEPT ![p] = Failed(@, retry)]
        /\ usage' = Consumed(l)
        /\ run' = [run EXCEPT ![p[1]] = [status |-> "failed", lease |-> None,
                                         retry |-> retry]]
        /\ UNCHANGED <<now, receipts, turn, epoch, refused>>

(* The manager gives what failed another chance.                           *)
RetryChunk(p, at, available) ==
    /\ p[2] = 0
    /\ run[p[1]].status \in {"pending", "extracting"}
    /\ work[p].status = "failed"
    /\ available >= at
    /\ work' = [work EXCEPT ![p].status = "pending", ![p].available = available]
    /\ UNCHANGED <<now, run, usage, receipts, turn, epoch, refused>>

RetryConsolidation(r, at) ==
    /\ run[r].status = "failed"
    /\ Completed(Pieces(r, 0))
    /\ work' = [p \in Piece |->
           IF p[1] = r /\ p[2] # 0 /\ work[p].status = "failed"
           THEN [work[p] EXCEPT !.status = "pending", !.available = at]
           ELSE work[p]]
    /\ run' = [run EXCEPT ![r].status = "ready_for_consolidation", ![r].retry = Never]
    /\ UNCHANGED <<now, usage, receipts, turn, epoch, refused>>

-----------------------------------------------------------------------------
(* What happens around the service.                                        *)

Tick ==
    /\ now < MaxTime
    /\ now' = now + 1
    /\ UNCHANGED <<run, work, usage, receipts, turn, epoch, refused>>

(* A session is resumed, or its next prompt activates another turn: a new  *)
(* capability, and those before it are void.                               *)
RotateCapability(s) ==
    /\ s \notin Background
    /\ epoch[s] < MaxEpoch
    /\ epoch' = [epoch EXCEPT ![s] = @ + 1]
    /\ turn' \in {turn, [turn EXCEPT ![s] = @ + 1]}
    /\ UNCHANGED <<now, run, work, usage, receipts, refused>>

-----------------------------------------------------------------------------
Init ==
    /\ now = 0
    /\ run = [r \in Run |-> [status |-> "absent", lease |-> None, retry |-> Never]]
    /\ work = [p \in Piece |-> [status |-> "absent", lease |-> None,
                                available |-> Never, findings |-> 0]]
    /\ usage = [l \in Lease |-> NoClaim]
    /\ receipts = {}
    /\ turn = [s \in Session |-> 0]
    /\ epoch = [s \in Session |-> 0]
    /\ refused = {}

Next ==
    \/ Tick
    \/ \E s \in Session : RotateCapability(s)
    \/ \E r \in Run : CreateRunRefused(r)
    \/ \E at \in At :
           \/ \E r \in Run : CreateRun(r, at) \/ RetryConsolidation(r, at)
           \/ \E p \in Piece, available \in Time : RetryChunk(p, at, available)
           \/ \E s \in Session, r \in Run, previous \in Lease \cup {None} :
                  ClaimNext(s, r, previous, at) \/ ClaimConsolidation(s, r, previous, at)
           \/ \E s \in Session, l \in Lease :
                  \/ \E n \in 0 .. MaxFindings : SubmitChunk(s, l, at, n)
                  \/ \E n \in 0 .. MaxOutputs : CompleteConsolidation(s, l, at, n)
                  \/ \E retry \in {t \in Time : t >= at} \cup {Never} :
                         FailChunk(s, l, at, retry) \/ FailConsolidation(s, l, at, retry)

Spec == Init /\ [][Next]_vars

-----------------------------------------------------------------------------
(* What the triggers and unique indexes of the tables let a statement do.  *)

RunMoves ==
    [absent                  |-> {"pending", "ready_for_consolidation", "superseded"},
     pending                 |-> {"extracting", "ready_for_consolidation", "superseded"},
     extracting              |-> {"ready_for_consolidation", "superseded"},
     ready_for_consolidation |-> {"consolidating", "superseded"},
     consolidating           |-> {"ready_for_consolidation", "failed",
                                  "candidates_ready", "superseded"},
     failed                  |-> {"ready_for_consolidation", "consolidating",
                                  "superseded"},
     candidates_ready        |-> {},
     superseded              |-> {}]

(* A round is made and its first piece leased in one transaction.          *)
PieceMoves ==
    [absent    |-> {"pending", "leased"},
     pending   |-> {"leased"},
     failed    |-> {"pending", "leased"},
     leased    |-> {"completed", "failed"},
     completed |-> {}]

ValidTransition(moves, from, to) == to = from \/ to \in moves[from]

(* A claim enters as active, for a piece that exists, and ends once.       *)
ClaimMayMove(l) ==
    LET before == usage[l]
        after  == usage'[l]
    IN  after # before =>
           \/ /\ before = NoClaim
              /\ after.status = "active"
              /\ work'[after.piece].status # "absent"
           \/ /\ before.status = "active"
              /\ after = [before EXCEPT !.status = after.status]

(* history_batch_chain, one_root, one_successor and one_active.            *)
BatchChain(l) ==
    usage[l] # usage'[l] /\ usage[l] = NoClaim =>
        LET after == usage'[l]
            others == {m \in Lease \ {l} : /\ usage'[m].status # "unused"
                                           /\ usage'[m].session = after.session
                                           /\ usage'[m].turn = after.turn}
        IN  /\ after.previous # None =>
                   /\ after.previous \in others \cap receipts
                   /\ usage[after.previous].epoch = after.epoch
                   /\ usage[after.previous].status = "consumed"
            /\ \A m \in others : /\ usage'[m].previous # after.previous
                                 /\ usage'[m].status # "active"

(* A receipt answers an active claim and is the only one for its piece.    *)
TurnClaimMatch(l) ==
    l \in receipts' \ receipts =>
        /\ usage[l].status = "active"
        /\ \A m \in receipts : usage[m].piece # usage[l].piece

LeaseIsUnique(p) ==
    work'[p].lease \notin {None, work[p].lease} =>
        \A q \in Piece \ {p} :
            (q[2] = 0) = (p[2] = 0) => work'[q].lease # work'[p].lease

CompletionRequiresReceipt(p) ==
    /\ work'[p].status = "completed" /\ work[p].status # "completed" =>
           \E l \in receipts' : usage[l].status = "active" /\ usage[l].piece = p
    /\ work[p].status = "completed" => work'[p].findings = work[p].findings

ReadyRequiresChunks(r) ==
    run'[r] # run[r] /\ run'[r].status \in {"ready_for_consolidation",
                                           "consolidating", "candidates_ready"} =>
        \A p \in Piece : p[1] = r /\ p[2] = 0 =>
            work'[p].status \in {"absent", "completed"}

CandidatesReadyRequiresFinalReduction(r) ==
    run'[r].status = "candidates_ready" /\ run[r].status # "candidates_ready" =>
        \E l \in receipts' : LET p == usage[l].piece
                             IN  /\ p[1] = r /\ p[2] # 0 /\ IsFinal(p)
                                 /\ work'[p].status = "completed"

-----------------------------------------------------------------------------
(* Properties.                                                             *)

(* Rows have their types, and the checks of the tables hold: a row names a *)
(* lease exactly while it is leased.                                       *)
TypeOK ==
    /\ now \in Time
    /\ run \in [Run -> RunRow]
    /\ work \in [Piece -> PieceRow]
    /\ usage \in [Lease -> Claim \cup {NoClaim}]
    /\ receipts \subseteq Lease
    /\ turn \in [Session -> Epoch]
    /\ epoch \in [Session -> Epoch]
    /\ refused \subseteq Run
    /\ \A p \in Piece : work[p].status = "leased" <=> work[p].lease # None
    /\ \A r \in Run : run[r].status = "consolidating" <=> run[r].lease # None

(* The claims and the leased rows are two copies of the same fact, and the *)
(* lease a run names is a third.  An active claim always has its piece,    *)
(* and for a reduction the run as well.  A row may outlive its claim in    *)
(* one way: a reduction of a round is retried from an old timestamp after  *)
(* its sibling was leased, the sibling's lease ends, and the run moves on  *)
(* to the first of the two.                                                *)
ClaimsMatchLeases ==
    /\ \A l \in Lease : usage[l].status = "active" =>
           LET p == usage[l].piece
           IN  /\ work[p].lease = l
               /\ p[2] # 0 => run[p[1]].lease = l
    /\ \A p \in Piece : work[p].status = "leased" =>
           LET claim == usage[work[p].lease]
           IN  /\ claim.status # "unused" /\ claim.piece = p
               /\ claim.status # "active" =>
                      /\ claim.status = "expired"
                      /\ p[2] # 0
                      /\ run[p[1]].lease # work[p].lease
    /\ \A r \in Run : run[r].status = "consolidating" =>
           LET claim == usage[run[r].lease]
           IN  claim.status = "active" /\ claim.piece[1] = r
               /\ claim.piece[2] = LastStage(r)

(* The claims of one turn form a chain from its first claim, in which only *)
(* the last may be unfinished and every other was submitted in the same    *)
(* turn under the same capability: what the unique indexes and the trigger *)
(* of the batch migration demand, the service never attempts to break.  A  *)
(* background grant claims once per job and has one lease at a time        *)
(* (max_active_leases), however many processes work for it and forget; and *)
(* the claim checkpoint() suggests is one it may make.                     *)
BatchesAreChains ==
    /\ \A l \in Lease : usage[l].status # "unused" =>
        /\ usage[l].previous # None =>
               LET before == usage[usage[l].previous]
               IN  /\ before.status = "consumed"
                   /\ usage[l].previous \in receipts
                   /\ before.session = usage[l].session
                   /\ before.turn = usage[l].turn
                   /\ before.epoch = usage[l].epoch
        /\ \A m \in Lease \ {l} :
               /\ usage[m].status # "unused"
               /\ usage[m].session = usage[l].session
               /\ usage[m].turn = usage[l].turn
               => /\ usage[m].previous # usage[l].previous
                  /\ ~(usage[m].status = "active" /\ usage[l].status = "active")
    /\ \A s \in Background :
        /\ \A l, m \in Lease :
               /\ usage[l].status # "unused" /\ usage[l].session = s
               /\ usage[m].status # "unused" /\ usage[m].session = s
               /\ Live(l, now) /\ Live(m, now)
               => l = m
        /\ \/ Resumed(s) # None /\ Live(Resumed(s), now)
           \/ MayContinue(s, Resumed(s), now)

(* Of all revisions of a conversation at most one is worked on, and none   *)
(* that a recorded revision outdates, in whatever order they are imported. *)
OnlyNewestIsWorkedOn ==
    \A r \in Run : run[r].status \in Unfinished =>
        /\ NewerThan(r) = {}
        /\ \A q \in Run \ {r} : run[q].status \notin Unfinished

(* No run waits for something nobody can do: an extracting run has a chunk *)
(* left, a run ready for consolidation has a reduction to claim now or a   *)
(* round to make, a failed run has one to claim when its retry is due, and *)
(* a consolidating run has one when its lease ends.                        *)
NothingIsStranded ==
    \A r \in Run :
        LET waiting(t) ==
                \E p \in Pieces(r, LastStage(r)) : Claimable(work[p], t)
        IN  /\ run[r].status \in {"pending", "extracting"} =>
                   ~Completed(Pieces(r, 0))
            /\ run[r].status = "ready_for_consolidation" =>
                   NeedsRound(r) \/ waiting(now)
            /\ run[r].status = "failed" /\ run[r].retry # Never =>
                   waiting(run[r].retry)
            /\ run[r].status = "consolidating" =>
                   waiting(usage[run[r].lease].expires)

(* Nothing found is left out on the way to the result: every round was     *)
(* made of all the findings of a completed stage, and the result is that   *)
(* of a round of one batch, the last.                                      *)
RoundsCoverTheirInputs ==
    \A r \in Run :
        /\ \A k \in Stage \ {0} : Pieces(r, k) # {} =>
               /\ Completed(Pieces(r, k - 1))
               /\ Cardinality(Pieces(r, k)) = Batches(Findings(Pieces(r, k - 1)))
        /\ run[r].status = "candidates_ready" =>
               LET k == LastStage(r)
               IN  k > 0 /\ Completed(Pieces(r, k)) /\ Cardinality(Pieces(r, k)) = 1

(* The service and the storage agree: no transaction that passes the       *)
(* checks of the service is rolled back by a trigger or an index, which    *)
(* would leave its lease to run out and the work to be done again (the one *)
(* refusal there is, CreateRunRefused, is a step of its own).              *)
BackfillStorageAccepts ==
    [][/\ \A r \in Run :
              /\ ValidTransition(RunMoves, run[r].status, run'[r].status)
              /\ ReadyRequiresChunks(r)
              /\ CandidatesReadyRequiresFinalReduction(r)
       /\ \A p \in Piece :
              /\ ValidTransition(PieceMoves, work[p].status, work'[p].status)
              /\ LeaseIsUnique(p)
              /\ CompletionRequiresReceipt(p)
       /\ \A l \in Lease :
              ClaimMayMove(l) /\ BatchChain(l) /\ TurnClaimMatch(l)]_vars

(* What is superseded or done stays as it is: no late result, takeover or  *)
(* retry changes a row of it.                                              *)
FinishedRunsStand ==
    [][\A r \in Run :
          run[r].status \in {"superseded", "candidates_ready"} =>
              /\ run'[r] = run[r]
              /\ \A p \in Piece : p[1] = r => work'[p] = work[p]]_vars

(* "new source revisions supersede unfinished work": no import is refused. *)
NewRevisionsAreAccepted == refused = {}

-----------------------------------------------------------------------------
(* Every service call is a step of the abstract work queue.                *)

Receipt(p) == {l \in receipts : usage[l].piece = p}

Queue == INSTANCE WorkQueue WITH
    holder <- [p \in Piece |-> work[p].lease],
    done   <- [p \in Piece |-> IF Receipt(p) = {} THEN None
                               ELSE CHOOSE l \in Receipt(p) : TRUE],
    spent  <- {l \in Lease : usage[l].status # "unused"},
    closed <- {p \in Piece : run[p[1]].status = "superseded"}

(* A piece is finished once, by the lease last handed out for it, and not  *)
(* at all once it is superseded; a lease is handed out once.               *)
ImplementsWorkQueue == Queue!Spec
=============================================================================
