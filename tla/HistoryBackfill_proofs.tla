------------------------ MODULE HistoryBackfill_proofs ------------------------
(***************************************************************************)
(* History backfill: claims, leased rows and the lease of a run agree,     *)
(* batches are chains, rounds cover what was found, no run is stranded,    *)
(* the storage refuses nothing the service allows, and all of it is a work *)
(* queue.  For any revisions, sessions and background grants, any number   *)
(* of chunks, findings, rounds and leases, and any bounds.                 *)
(***************************************************************************)
EXTENDS HistoryBackfill, FiniteSetTheorems, WellFoundedInduction, TLAPS

-----------------------------------------------------------------------------
(* Invariants.                                                             *)

Used(l) == usage[l].status # "unused"

(* A turn never comes before its capability; a run that is not recorded    *)
(* has no work.                                                            *)
Types ==
    /\ TypeOK
    /\ \A s \in Session : turn[s] <= epoch[s]
    /\ \A p \in Piece : run[p[1]].status = "absent" => work[p].status = "absent"

(* A receipt is for a consumed claim and a completed piece, one per piece. *)
ReceiptsOK ==
    /\ \A l \in receipts : usage[l].status = "consumed"
                           /\ work[usage[l].piece].status = "completed"
    /\ \A l, m \in receipts : usage[l].piece = usage[m].piece => l = m

(* Reductions wait for the chunks.                                         *)
StagesOK ==
    \A r \in Run :
        /\ run[r].status \in {"pending", "extracting"} =>
               \A k \in Stage \ {0} : Pieces(r, k) = {}
        /\ run[r].status \in {"ready_for_consolidation", "consolidating", "failed",
                              "candidates_ready"} => Completed(Pieces(r, 0))

Leases == Types /\ ClaimsMatchLeases /\ ReceiptsOK /\ StagesOK

(* Leases are handed out in order, and a claim comes after every other     *)
(* claim of its turn, which have all been submitted.                       *)
InTurnOf(l) == {m \in Lease : /\ m < l /\ Used(m) /\ usage[m].session = usage[l].session
                              /\ usage[m].turn = usage[l].turn}

ChainsOK ==
    \A l \in Lease : Used(l) =>
        /\ \A m \in Lease : m < l => Used(m)
        /\ usage[l].previous # None => usage[l].previous \in InTurnOf(l)
        /\ \A m \in InTurnOf(l) : /\ m \in receipts /\ m <= usage[l].previous
        /\ usage[l].previous # None => usage[usage[l].previous].epoch = usage[l].epoch

(* The claims of a background grant follow one another, each naming the    *)
(* one before, and only the last may be live.                              *)
Earlier(s, l) == {m \in Lease : m < l /\ Used(m) /\ usage[m].session = s}

JobsOK ==
    \A s \in Background : \A l \in Lease : Used(l) /\ usage[l].session = s =>
        /\ usage[l].previous = None
        /\ usage[l].turn \in Earlier(s, l) \cup {None}
        /\ \A m \in Earlier(s, l) : m <= usage[l].turn /\ ~Live(m, now)

(* What is left of the round a run works on can be claimed by now, except  *)
(* for what is leased, and for what failed until the run's retry.          *)
Left(r) == {p \in Pieces(r, LastStage(r)) : work[p].status # "completed"}

LeftRun(r) ==
    /\ run[r].status \in {"pending", "extracting"} => ~Completed(Pieces(r, 0))
    /\ run[r].status = "ready_for_consolidation" =>
           /\ NeedsRound(r) \/ Left(r) # {}
           /\ LastStage(r) # 0 => \A p \in Left(r) : Claimable(work[p], now)
    /\ run[r].status = "failed" =>
           /\ LastStage(r) # 0
           /\ \E p \in Left(r) : work[p].status = "failed" /\ work[p].available = run[r].retry
           /\ \A p \in Left(r) :
                  \/ Claimable(work[p], now)
                  \/ work[p].status = "failed" /\ work[p].available = run[r].retry
    /\ run[r].status = "consolidating" =>
           \A p \in Left(r) : Claimable(work[p], now) \/ work[p].lease = run[r].lease

LeftOK == \A r \in Run : LeftRun(r)

AllOK ==
    /\ Leases /\ ChainsOK /\ JobsOK /\ LeftOK
    /\ OnlyNewestIsWorkedOn /\ RoundsCoverTheirInputs
-----------------------------------------------------------------------------
(* Least and greatest numbers.                                             *)

LEMMA Least ==
  ASSUME NEW S, S \subseteq Nat, S # {}
  PROVE  \E i \in S : \A j \in S : i <= j
  <1> DEFINE R == OpToRel(<, Nat)
  <1>1. IsWellFoundedOn(R, Nat)
    BY NatLessThanWellFounded
  <1>2. \A i, j \in Nat : i < j => <<i, j>> \in R
    BY DEF OpToRel
  <1>3. \E i \in S : \A j \in S : ~ (<<j, i>> \in R)
    <2> HIDE DEF R
    <2> QED BY <1>1, WFMin
  <1>4. PICK i \in S : \A j \in S : ~ (j < i)
    <2> HIDE DEF R
    <2> QED BY <1>2, <1>3
  <1> QED BY <1>4

LEMMA Greatest ==
  ASSUME NEW b \in Nat, NEW S, S \subseteq 0 .. b, S # {}
  PROVE  Max(S) \in S /\ \A j \in S : j <= Max(S)
  <1> DEFINE T == {b - x : x \in S}
  <1>0. \A x \in S : x \in Nat /\ x <= b
    OBVIOUS
  <1>1. T \subseteq Nat /\ T # {}
    <2>1. \A x \in S : b - x \in Nat
      BY <1>0
    <2> QED BY <2>1
  <1>2. PICK t \in T : \A u \in T : t <= u
    <2> HIDE DEF T
    <2> QED BY <1>1, Least
  <1>3. PICK x \in S : t = b - x
    OBVIOUS
  <1>4. ASSUME NEW y \in S PROVE x >= y
    <2>0. x \in Int /\ y \in Int
      OBVIOUS
    <2>1. b - x <= b - y
      BY <1>2, <1>3
    <2> HIDE DEF T
    <2> QED BY <2>0, <2>1
  <1> HIDE DEF T
  <1>5. \E z \in S : \A y \in S : z >= y
    BY <1>4
  <1>6. Max(S) \in S /\ \A y \in S : Max(S) >= y
    BY <1>5 DEF Max
  <1> QED BY <1>6

(* A greatest number is the only one.                                      *)
LEMMA GreatestIs ==
  ASSUME NEW b \in Nat, NEW S, S \subseteq 0 .. b, NEW x \in S, \A j \in S : j <= x
  PROVE  Max(S) = x
  <1>1. Max(S) \in S /\ \A j \in S : j <= Max(S)
    BY Greatest
  <1>2. \A y \in S : y \in Int
    OBVIOUS
  <1>3. Max(S) \in Int /\ x \in Int
    BY <1>1, <1>2
  <1>4. x <= Max(S) /\ Max(S) <= x
    BY <1>1
  <1> QED BY <1>3, <1>4

LEMMA FirstIsThere ==
  ASSUME NEW S, S \subseteq Piece, S # {}
  PROVE  First(S) \in S
  <1> DEFINE T == {p[3] : p \in S}
  <1>1. T \subseteq Nat /\ T # {}
    BY DEF Piece, Index
  <1>2. PICK i \in T : \A j \in T : i <= j
    <2> HIDE DEF T
    <2> QED BY <1>1, Least
  <1>3. PICK p \in S : i = p[3]
    OBVIOUS
  <1>4. \E q \in S : \A o \in S : q[3] <= o[3]
    BY <1>2, <1>3
  <1> QED BY <1>4 DEF First
-----------------------------------------------------------------------------
(* Pieces and stages.                                                      *)

LEMMA PiecesOf ==
  ASSUME NEW r \in Run, NEW k \in Stage
  PROVE  /\ Pieces(r, k) \subseteq Piece
         /\ \A p \in Piece : p \in Pieces(r, k) <=>
                p[1] = r /\ p[2] = k /\ work[p].status # "absent"
  BY DEF Pieces

LEMMA StageOf ==
  ASSUME NEW p \in Piece
  PROVE  p[1] \in Run /\ p[2] \in Stage /\ p[3] \in Index
  BY DEF Piece

LEMMA LastStageIs ==
  ASSUME NEW r \in Run
  PROVE  /\ LastStage(r) \in Stage
         /\ LastStage(r) # 0 => Pieces(r, LastStage(r)) # {}
         /\ \A k \in Stage : Pieces(r, k) # {} => k <= LastStage(r)
  <1> DEFINE S == {0} \cup {k \in Stage : Pieces(r, k) # {}}
  <1>1. S \subseteq 0 .. MaxStage /\ S # {} /\ MaxStage \in Nat
    BY BackfillAssumption DEF Stage
  <1>2. Max(S) \in S /\ \A j \in S : j <= Max(S)
    <2> HIDE DEF S
    <2> QED BY <1>1, Greatest
  <1>3. Max(S) = LastStage(r)
    BY DEF LastStage
  <1>4. 0 \in Stage
    BY BackfillAssumption DEF Stage
  <1> QED BY <1>2, <1>3, <1>4

LEMMA StageIsLast ==
  ASSUME NEW r \in Run, NEW k \in Stage, k # 0 => Pieces(r, k) # {},
         \A j \in Stage : Pieces(r, j) # {} => j <= k
  PROVE  LastStage(r) = k
  <1> DEFINE S == {0} \cup {j \in Stage : Pieces(r, j) # {}}
  <1>1. S \subseteq 0 .. MaxStage /\ k \in S /\ MaxStage \in Nat
    BY BackfillAssumption DEF Stage
  <1>2. \A j \in S : j <= k
    BY DEF Stage
  <1>3. Max(S) = k
    <2> HIDE DEF S
    <2> QED BY <1>1, <1>2, GreatestIs
  <1> QED BY <1>3 DEF LastStage

(* A step that makes no piece.                                             *)
SamePieces == \A p \in Piece : work'[p].status = "absent" <=> work[p].status = "absent"

LEMMA SamePiecesSame ==
  ASSUME SamePieces, NEW r \in Run
  PROVE  /\ \A k \in Stage : Pieces(r, k)' = Pieces(r, k)
         /\ LastStage(r)' = LastStage(r)
  <1>1. \A k : Pieces(r, k)' = Pieces(r, k)
    BY DEF SamePieces, Pieces
  <1>2. {k \in Stage : Pieces(r, k) # {}}' = {k \in Stage : Pieces(r, k) # {}}
    BY <1>1
  <1> QED BY <1>1, <1>2 DEF LastStage
-----------------------------------------------------------------------------
(* Rounds and claims.                                                      *)

LEMMA AtIsTime == \A at \in At : at \in Time /\ at <= now
  BY DEF At

LEMMA NewPieceIsRow ==
  ASSUME NEW at \in Time
  PROVE  NewPiece(at) \in PieceRow
  BY BackfillAssumption DEF NewPiece, PieceRow

(* A new round is made of pieces that were not there.                      *)
LEMMA RoundRows ==
  ASSUME TypeOK, NEW r \in Run, NEW at \in Time
  PROVE  /\ WithRound(r, at) \in [Piece -> PieceRow]
         /\ \A p \in Piece :
               \/ WithRound(r, at)[p] = work[p]
               \/ /\ NeedsRound(r) /\ p[1] = r /\ p[2] = LastStage(r) + 1
                  /\ work[p].status = "absent" /\ WithRound(r, at)[p] = NewPiece(at)
  <1>1. CASE ~NeedsRound(r)
    <2>1. WithRound(r, at) = work
      BY <1>1 DEF WithRound
    <2> QED BY <2>1 DEF TypeOK
  <1>2. CASE NeedsRound(r)
    <2> DEFINE k == LastStage(r)
               b == Batches(Findings(Pieces(r, LastStage(r))))
    <2>1. WithRound(r, at) = [p \in Piece |->
             IF p[1] = r /\ p[2] = k + 1 /\ p[3] < b THEN NewPiece(at) ELSE work[p]]
      BY <1>2 DEF WithRound
    <2> HIDE DEF b
    <2>2. ASSUME NEW p \in Piece, p[1] = r, p[2] = k + 1 PROVE work[p].status = "absent"
      <3>1. k \in Nat /\ p[2] \in Stage /\ ~(p[2] <= k)
        BY <2>2, StageOf, LastStageIs DEF Stage
      <3> HIDE DEF k
      <3>2. k = LastStage(r)
        BY DEF k
      <3>3. Pieces(r, p[2]) = {}
        BY <3>1, <3>2, LastStageIs
      <3> QED BY <3>3, <2>2 DEF Pieces
    <2> HIDE DEF k
    <2>3. k = LastStage(r)
      BY DEF k
    <2> QED BY <1>2, <2>1, <2>2, <2>3, NewPieceIsRow DEF TypeOK
  <1> QED BY <1>1, <1>2

LEMMA ClaimTypes ==
  ASSUME TypeOK, NEW s \in Session, NEW p \in Piece, NEW replaced, NEW l \in Lease,
         NEW previous \in Lease \cup {None}, NEW at \in Time
  PROVE  /\ NewClaim(s, p, previous, at) \in Claim
         /\ UsageAfterClaim(s, p, replaced, l, previous, at) \in [Lease -> Claim \cup {NoClaim}]
  <1>1. NewClaim(s, p, previous, at) \in Claim
    <2>1. at + LeaseTime \in 0 .. MaxTime + LeaseTime
      BY BackfillAssumption DEF Time
    <2>2. turn[s] \in Epoch /\ epoch[s] \in Epoch
      BY DEF TypeOK
    <2>3. None \in Epoch
      BY BackfillAssumption DEF Epoch, None
    <2> QED BY <2>1, <2>2, <2>3 DEF NewClaim, Claim
  <1>2. \A m \in Lease : usage[m].status = "active" =>
            [usage[m] EXCEPT !.status = "expired"] \in Claim
    BY DEF TypeOK, Claim, NoClaim
  <1> QED BY <1>1, <1>2 DEF UsageAfterClaim, TypeOK

(* claim_next leases a chunk, claim_consolidation a reduction of the round. *)
TakesChunk(s, r, previous, at, p, l) ==
    /\ p[1] = r /\ p[2] = 0 /\ work[p].status # "absent"
    /\ Claimable(work[p], at) /\ Fresh(l)
    /\ work' = [work EXCEPT ![p] = Leased(@, l)]
    /\ usage' = UsageAfterClaim(s, p, {work[p].lease}, l, previous, at)

TakesReduction(s, r, previous, at, p, l, rows) ==
    /\ rows = WithRound(r, at)
    /\ p[1] = r /\ p[2] = RoundStage(r) /\ rows[p].status # "absent"
    /\ Claimable(rows[p], at) /\ Fresh(l)
    /\ work' = [rows EXCEPT ![p] = Leased(@, l)]
    /\ usage' = UsageAfterClaim(s, p, {run[r].lease, rows[p].lease}, l, previous, at)
    /\ run' = [run EXCEPT ![r] = [status |-> "consolidating", lease |-> l, retry |-> Never]]

LEMMA ClaimNextIs ==
  ASSUME TypeOK, NEW s \in Session, NEW r \in Run, NEW previous \in Lease \cup {None},
         NEW at \in At, ClaimNext(s, r, previous, at)
  PROVE  \E p \in Piece, l \in Lease : TakesChunk(s, r, previous, at, p, l)
  <1> DEFINE claimable == {p \in Pieces(r, 0) : Claimable(work[p], at)}
             p == First(claimable)
  <1>1. claimable \subseteq Piece /\ claimable # {}
    BY DEF ClaimNext, Pieces
  <1>2. p \in claimable
    <2> HIDE DEF claimable
    <2> QED BY <1>1, FirstIsThere
  <1>3. \E l \in Lease :
            /\ Fresh(l)
            /\ work' = [work EXCEPT ![p] = Leased(@, l)]
            /\ usage' = UsageAfterClaim(s, p, {work[p].lease}, l, previous, at)
    BY DEF ClaimNext
  <1>4. p \in Piece /\ p[1] = r /\ p[2] = 0 /\ work[p].status # "absent"
        /\ Claimable(work[p], at)
    <2> HIDE DEF p
    <2> QED BY <1>2 DEF Pieces
  <1> HIDE DEF p
  <1> QED BY <1>3, <1>4 DEF TakesChunk

LEMMA ClaimConsolidationIs ==
  ASSUME TypeOK, NEW s \in Session, NEW r \in Run, NEW previous \in Lease \cup {None},
         NEW at \in At, ClaimConsolidation(s, r, previous, at)
  PROVE  \E p \in Piece, l \in Lease, rows \in [Piece -> PieceRow] :
            TakesReduction(s, r, previous, at, p, l, rows)
  <1> DEFINE rows == WithRound(r, at)
             claimable == {p \in Piece : /\ p[1] = r /\ p[2] = RoundStage(r)
                                         /\ rows[p].status # "absent"
                                         /\ Claimable(rows[p], at)}
             p == First(claimable)
  <1>1. claimable \subseteq Piece /\ claimable # {}
    BY DEF ClaimConsolidation
  <1>2. p \in claimable
    <2> HIDE DEF claimable
    <2> QED BY <1>1, FirstIsThere
  <1>3. \E l \in Lease :
            /\ Fresh(l)
            /\ work' = [rows EXCEPT ![p] = Leased(@, l)]
            /\ usage' = UsageAfterClaim(s, p, {run[r].lease, rows[p].lease}, l, previous, at)
            /\ run' = [run EXCEPT ![r] = [status |-> "consolidating", lease |-> l,
                                          retry |-> Never]]
    BY DEF ClaimConsolidation
  <1>4. p \in Piece /\ p[1] = r /\ p[2] = RoundStage(r) /\ rows[p].status # "absent"
        /\ Claimable(rows[p], at)
    <2> HIDE DEF p
    <2> QED BY <1>2
  <1>5. rows \in [Piece -> PieceRow]
    BY RoundRows, AtIsTime
  <1> HIDE DEF p, rows
  <1>6. rows = WithRound(r, at)
    BY DEF rows
  <1> QED BY <1>3, <1>4, <1>5, <1>6 DEF TakesReduction
-----------------------------------------------------------------------------
(* Types are kept.                                                         *)

(* What holds of the lease a result is for.                                *)
LEMMA LeaseHeld ==
  ASSUME TypeOK, NEW s \in Session, NEW l \in Lease, NEW at \in At, HoldsLease(s, l, at)
  PROVE  /\ usage[l] \in Claim /\ usage[l].piece \in Piece
         /\ work[usage[l].piece] \in PieceRow
         /\ usage[l].piece[1] \in Run /\ run[usage[l].piece[1]] \in RunRow
         /\ Consumed(l) \in [Lease -> Claim \cup {NoClaim}]
  <1>1. usage[l] \in Claim
    BY DEF TypeOK, HoldsLease, NoClaim
  <1>2. usage[l].piece \in Piece
    BY <1>1 DEF Claim
  <1>3. work[usage[l].piece] \in PieceRow /\ usage[l].piece[1] \in Run
        /\ run[usage[l].piece[1]] \in RunRow
    BY <1>2, StageOf DEF TypeOK
  <1>4. [usage[l] EXCEPT !.status = "consumed"] \in Claim
    BY <1>1 DEF Claim
  <1>5. Consumed(l) = [usage EXCEPT ![l] = [usage[l] EXCEPT !.status = "consumed"]]
    BY DEF Consumed, TypeOK
  <1> QED BY <1>1, <1>2, <1>3, <1>4, <1>5 DEF TypeOK

(* A step that leaves clock, capabilities and refusals alone keeps the     *)
(* types when the new rows have them.                                      *)
LEMMA TypesFrom ==
  ASSUME Types, UNCHANGED <<now, turn, epoch>>, refused' \subseteq Run,
         receipts' \subseteq Lease,
         usage' \in [Lease -> Claim \cup {NoClaim}],
         run' \in [Run -> RunRow], work' \in [Piece -> PieceRow],
         \A p \in Piece : work'[p].status = "leased" <=> work'[p].lease # None,
         \A r \in Run : run'[r].status = "consolidating" <=> run'[r].lease # None,
         \A p \in Piece : run'[p[1]].status = "absent" => work'[p].status = "absent"
  PROVE  Types'
  BY DEF Types, TypeOK

LEMMA OneRowTypes ==
  ASSUME Types, NEW p \in Piece, NEW row \in PieceRow,
         work' = [work EXCEPT ![p] = row], row.status = "leased" <=> row.lease # None
  PROVE  /\ work' \in [Piece -> PieceRow]
         /\ \A q \in Piece : work'[q].status = "leased" <=> work'[q].lease # None
  BY DEF Types, TypeOK

LEMMA OneRunTypes ==
  ASSUME Types, NEW r \in Run, NEW row \in RunRow,
         run' = [run EXCEPT ![r] = row], row.status = "consolidating" <=> row.lease # None,
         row.status # "absent", run[r].status # "absent"
  PROVE  /\ run' \in [Run -> RunRow]
         /\ \A q \in Run : run'[q].status = "consolidating" <=> run'[q].lease # None
         /\ \A q \in Run : run'[q].status = "absent" <=> run[q].status = "absent"
  BY DEF Types, TypeOK

LEMMA StoredTypes ==
  ASSUME Types
  PROVE  /\ \A p \in Piece : work[p] \in PieceRow
         /\ \A r \in Run : run[r] \in RunRow
         /\ \A p \in Piece : work[p].status = "leased" <=> work[p].lease # None
         /\ \A r \in Run : run[r].status = "consolidating" <=> run[r].lease # None
         /\ \A p \in Piece : run[p[1]].status = "absent" => work[p].status = "absent"
  BY DEF Types, TypeOK

LEMMA LeasedRow ==
  ASSUME NEW row \in PieceRow, NEW l \in Lease
  PROVE  Leased(row, l) \in PieceRow /\ Leased(row, l).lease = l /\ l # None
         /\ Leased(row, l).status = "leased" /\ Leased(row, l).findings = row.findings
         /\ Leased(row, l).available = row.available
  <1>1. l # None
    BY BackfillAssumption DEF Lease, None
  <1>2. Leased(row, l) \in PieceRow
    BY DEF Leased, PieceRow
  <1>3. /\ Leased(row, l).status = "leased" /\ Leased(row, l).lease = l
        /\ Leased(row, l).findings = row.findings
        /\ Leased(row, l).available = row.available
    BY DEF Leased, PieceRow
  <1> QED BY <1>1, <1>2, <1>3

LEMMA CreateRunTypes ==
  ASSUME Types, NEW r \in Run, NEW at \in At, CreateRun(r, at)
  PROVE  Types'
  <1>1. work' \in [Piece -> PieceRow]
        /\ \A p \in Piece : work'[p].status = "leased" <=> work'[p].lease # None
    BY StoredTypes, NewPieceIsRow, AtIsTime DEF CreateRun, ChunkRows, NewPiece, None
  <1>2. /\ run' \in [Run -> RunRow]
        /\ \A q \in Run : run'[q].status = "consolidating" <=> run'[q].lease # None
        /\ \A q \in Run : run'[q].status = "absent" => q # r /\ run[q].status = "absent"
    <2>1. run[r].status = "absent" /\ run[r].lease = None
      BY StoredTypes DEF CreateRun, Recorded
    <2>2. CASE NewerThan(r) # {}
      <3>1. run' = [run EXCEPT ![r].status = "superseded"]
        BY <2>2 DEF CreateRun
      <3>2. run'[r] = [run[r] EXCEPT !.status = "superseded"]
            /\ \A q \in Run \ {r} : run'[q] = run[q]
        BY <3>1 DEF Types, TypeOK
      <3>3. run' \in [Run -> RunRow]
        BY <3>1 DEF Types, TypeOK, RunRow, RunStatus
      <3>4. run'[r].status = "superseded" /\ run'[r].lease = None
        BY <2>1, <3>2, StoredTypes DEF RunRow
      <3> QED BY <3>2, <3>3, <3>4, StoredTypes
    <2>3. CASE NewerThan(r) = {}
      <3>1. run' = [q \in Run |->
                   IF q = r
                   THEN [run[r] EXCEPT !.status = IF ChunkCount[r] = 0
                                                  THEN "ready_for_consolidation"
                                                  ELSE "pending"]
                   ELSE IF q \in SupersededBy(r)
                        THEN [run[q] EXCEPT !.status = "superseded", !.lease = None]
                        ELSE run[q]]
        BY <2>3 DEF CreateRun
      <3>2. /\ run'[r] \in RunRow /\ run'[r].status # "consolidating"
            /\ run'[r].status # "absent" /\ run'[r].lease = None
        BY <2>1, <3>1, StoredTypes DEF RunRow, RunStatus
      <3>3. ASSUME NEW q \in Run, q # r
            PROVE  /\ run'[q] \in RunRow
                   /\ run'[q].status = "consolidating" <=> run'[q].lease # None
                   /\ run'[q].status = "absent" => run[q].status = "absent"
        <4>1. CASE q \in SupersededBy(r)
          <5>1. run'[q] = [run[q] EXCEPT !.status = "superseded", !.lease = None]
            BY <3>1, <3>3, <4>1
          <5> QED BY <5>1, StoredTypes DEF RunRow, RunStatus
        <4>2. CASE q \notin SupersededBy(r)
          <5>1. run'[q] = run[q]
            BY <3>1, <3>3, <4>2
          <5> QED BY <5>1, StoredTypes
        <4> QED BY <4>1, <4>2
      <3>4. run' \in [Run -> RunRow]
        BY <3>1, <3>2, <3>3
      <3> QED BY <3>2, <3>3, <3>4
    <2> QED BY <2>2, <2>3
  <1>3. \A p \in Piece : run'[p[1]].status = "absent" => work'[p].status = "absent"
    <2> TAKE p \in Piece
    <2> HAVE run'[p[1]].status = "absent"
    <2>1. p[1] # r /\ run[p[1]].status = "absent"
      BY <1>2, StageOf
    <2>2. work'[p] = work[p]
      BY <2>1 DEF CreateRun, ChunkRows
    <2> QED BY <2>1, <2>2, StoredTypes
  <1>4. UNCHANGED <<now, turn, epoch, refused, receipts, usage>>
    BY DEF CreateRun
  <1>5. refused \subseteq Run /\ receipts \subseteq Lease
        /\ usage \in [Lease -> Claim \cup {NoClaim}]
    BY DEF Types, TypeOK
  <1> QED BY <1>1, <1>2, <1>3, <1>4, <1>5, TypesFrom

LEMMA ClaimNextTypes ==
  ASSUME Types, NEW s \in Session, NEW r \in Run, NEW previous \in Lease \cup {None},
         NEW at \in At, ClaimNext(s, r, previous, at)
  PROVE  Types'
  <1>0. TypeOK /\ at \in Time
    BY AtIsTime DEF Types
  <1>1. PICK p \in Piece, l \in Lease : TakesChunk(s, r, previous, at, p, l)
    BY <1>0, ClaimNextIs
  <1>2. Leased(work[p], l) \in PieceRow /\ Leased(work[p], l).lease # None
        /\ Leased(work[p], l).status = "leased"
    BY StoredTypes, LeasedRow
  <1>3. /\ work' \in [Piece -> PieceRow]
        /\ \A q \in Piece : work'[q].status = "leased" <=> work'[q].lease # None
    BY <1>1, <1>2, OneRowTypes DEF Types, TypeOK, TakesChunk
  <1>4. usage' \in [Lease -> Claim \cup {NoClaim}]
    BY <1>0, <1>1, ClaimTypes DEF TakesChunk
  <1>5. run' = [run EXCEPT ![r] = [run[r] EXCEPT !.status = "extracting"]]
        /\ run[r].status \in {"pending", "extracting"}
    BY DEF ClaimNext, Types, TypeOK
  <1>6. [run[r] EXCEPT !.status = "extracting"] \in RunRow
        /\ [run[r] EXCEPT !.status = "extracting"].lease = None
    BY <1>5, StoredTypes DEF RunRow, RunStatus
  <1>7. /\ run' \in [Run -> RunRow]
        /\ \A q \in Run : run'[q].status = "consolidating" <=> run'[q].lease # None
        /\ \A q \in Run : run'[q].status = "absent" <=> run[q].status = "absent"
    <2> DEFINE row == [run[r] EXCEPT !.status = "extracting"]
    <2>1. row.status = "extracting"
      BY StoredTypes DEF RunRow
    <2> HIDE DEF row
    <2> QED BY <2>1, <1>5, <1>6, OneRunTypes DEF row
  <1>8. \A q \in Piece : run'[q[1]].status = "absent" => work'[q].status = "absent"
    BY <1>1, <1>5, <1>7, StoredTypes, StageOf DEF Types, TypeOK, TakesChunk
  <1>9. UNCHANGED <<now, turn, epoch, refused, receipts>>
    BY DEF ClaimNext
  <1>10. refused \subseteq Run /\ receipts \subseteq Lease
    BY DEF Types, TypeOK
  <1> QED BY <1>3, <1>4, <1>7, <1>8, <1>9, <1>10, TypesFrom

LEMMA ClaimConsolidationTypes ==
  ASSUME Types, NEW s \in Session, NEW r \in Run, NEW previous \in Lease \cup {None},
         NEW at \in At, ClaimConsolidation(s, r, previous, at)
  PROVE  Types'
  <1>0. TypeOK /\ at \in Time
    BY AtIsTime DEF Types
  <1>1. PICK p \in Piece, l \in Lease, rows \in [Piece -> PieceRow] :
            TakesReduction(s, r, previous, at, p, l, rows)
    BY <1>0, ClaimConsolidationIs
  <1>2. rows \in [Piece -> PieceRow]
        /\ \A q \in Piece : rows[q] = work[q] \/ (q[1] = r /\ rows[q] = NewPiece(at))
    BY <1>0, <1>1, RoundRows DEF TakesReduction
  <1>3. \A q \in Piece : rows[q].status = "leased" <=> rows[q].lease # None
    BY <1>2, StoredTypes DEF NewPiece, None
  <1>4. Leased(rows[p], l) \in PieceRow /\ Leased(rows[p], l).lease # None
        /\ Leased(rows[p], l).status = "leased"
    BY <1>2, LeasedRow
  <1>5. /\ work' \in [Piece -> PieceRow]
        /\ \A q \in Piece : work'[q].status = "leased" <=> work'[q].lease # None
    BY <1>1, <1>2, <1>3, <1>4 DEF TakesReduction
  <1>6. usage' \in [Lease -> Claim \cup {NoClaim}]
    BY <1>0, <1>1, ClaimTypes DEF TakesReduction
  <1>7. run[r].status # "absent"
    BY DEF ClaimConsolidation
  <1>8. l # None /\ [status |-> "consolidating", lease |-> l, retry |-> Never] \in RunRow
    BY BackfillAssumption DEF Lease, None, RunRow, RunStatus
  <1>9. /\ run' \in [Run -> RunRow]
        /\ \A q \in Run : run'[q].status = "consolidating" <=> run'[q].lease # None
        /\ \A q \in Run : run'[q].status = "absent" <=> run[q].status = "absent"
    <2> DEFINE row == [status |-> "consolidating", lease |-> l, retry |-> Never]
    <2>1. row.status = "consolidating" /\ row.lease = l /\ row \in RunRow
      BY <1>8
    <2>2. run' = [run EXCEPT ![r] = row]
      BY <1>1 DEF TakesReduction
    <2> HIDE DEF row
    <2>3. row.status = "consolidating" <=> row.lease # None
      BY <2>1, <1>8
    <2>4. row.status # "absent"
      BY <2>1
    <2> QED BY <2>1, <2>2, <2>3, <2>4, <1>7, OneRunTypes
  <1>10. \A q \in Piece : run'[q[1]].status = "absent" => work'[q].status = "absent"
    <2> TAKE q \in Piece
    <2> HAVE run'[q[1]].status = "absent"
    <2>1. q[1] # r /\ run[q[1]].status = "absent"
      BY <1>7, <1>9, StageOf
    <2>2. work'[q] = work[q]
      BY <2>1, <1>1, <1>2 DEF TakesReduction
    <2> QED BY <2>1, <2>2, StoredTypes
  <1>11. UNCHANGED <<now, turn, epoch, refused, receipts>>
    BY DEF ClaimConsolidation
  <1>12. refused \subseteq Run /\ receipts \subseteq Lease
    BY DEF Types, TypeOK
  <1> QED BY <1>5, <1>6, <1>9, <1>10, <1>11, <1>12, TypesFrom

(* The rows results and failures leave.                                    *)
LEMMA EndedRows ==
  ASSUME NEW row \in PieceRow
  PROVE  /\ \A n \in Nat : Done(row, n) \in PieceRow /\ Done(row, n).lease = None
                           /\ Done(row, n).status = "completed"
         /\ \A retry \in Time \cup {Never} :
                Failed(row, retry) \in PieceRow /\ Failed(row, retry).lease = None
                /\ Failed(row, retry).status = "failed"
                /\ Failed(row, retry).available = retry
  BY DEF Done, Failed, PieceRow

(* What a result does to the rows: the piece of the lease is done or has   *)
(* failed, the claim is consumed.                                          *)
Ends(l, p, row) ==
    /\ usage[l].status = "active" /\ p = usage[l].piece
    /\ work[p].status = "leased" /\ work[p].lease = l
    /\ row \in PieceRow /\ row.status \in {"completed", "failed"} /\ row.lease = None
    /\ work' = [work EXCEPT ![p] = row]
    /\ usage' = Consumed(l)
    /\ receipts' = IF row.status = "completed" THEN receipts \cup {l} ELSE receipts
    /\ UNCHANGED <<now, turn, epoch, refused>>

LEMMA ResultEnds ==
  ASSUME Types, NEW s \in Session, NEW l \in Lease, NEW at \in At
  PROVE  /\ \A n \in 0 .. MaxFindings : SubmitChunk(s, l, at, n) =>
                Ends(l, usage[l].piece, Done(work[usage[l].piece], n))
         /\ \A n \in 0 .. MaxOutputs : CompleteConsolidation(s, l, at, n) =>
                Ends(l, usage[l].piece, Done(work[usage[l].piece], n))
         /\ \A retry \in Time \cup {Never} :
                FailChunk(s, l, at, retry) \/ FailConsolidation(s, l, at, retry) =>
                    Ends(l, usage[l].piece, Failed(work[usage[l].piece], retry))
  <1> SUFFICES ASSUME HoldsLease(s, l, at)
               PROVE  /\ \A n \in 0 .. MaxFindings : SubmitChunk(s, l, at, n) =>
                             Ends(l, usage[l].piece, Done(work[usage[l].piece], n))
                      /\ \A n \in 0 .. MaxOutputs : CompleteConsolidation(s, l, at, n) =>
                             Ends(l, usage[l].piece, Done(work[usage[l].piece], n))
                      /\ \A retry \in Time \cup {Never} :
                             FailChunk(s, l, at, retry) \/ FailConsolidation(s, l, at, retry)
                             => Ends(l, usage[l].piece, Failed(work[usage[l].piece], retry))
    BY DEF SubmitChunk, CompleteConsolidation, FailChunk, FailConsolidation, HoldsChunk,
           HoldsReduction
  <1>1. work[usage[l].piece] \in PieceRow
        /\ usage[l].status = "active" /\ work[usage[l].piece].status = "leased"
        /\ work[usage[l].piece].lease = l
    BY LeaseHeld DEF Types, HoldsLease
  <1>2. 0 .. MaxFindings \subseteq Nat /\ 0 .. MaxOutputs \subseteq Nat
    BY BackfillAssumption
  <1>3. \A n \in 0 .. MaxFindings : SubmitChunk(s, l, at, n) =>
            Ends(l, usage[l].piece, Done(work[usage[l].piece], n))
    BY <1>1, <1>2, EndedRows DEF SubmitChunk, Ends
  <1>4. \A n \in 0 .. MaxOutputs : CompleteConsolidation(s, l, at, n) =>
            Ends(l, usage[l].piece, Done(work[usage[l].piece], n))
    BY <1>1, <1>2, EndedRows DEF CompleteConsolidation, Ends
  <1>5. \A retry \in Time \cup {Never} :
            FailChunk(s, l, at, retry) => Ends(l, usage[l].piece, Failed(work[usage[l].piece], retry))
    BY <1>1, EndedRows DEF FailChunk, Ends
  <1>6. \A retry \in Time \cup {Never} :
            FailConsolidation(s, l, at, retry) => Ends(l, usage[l].piece, Failed(work[usage[l].piece], retry))
    BY <1>1, EndedRows DEF FailConsolidation, Ends
  <1> QED BY <1>3, <1>4, <1>5, <1>6

(* What a result does to the run.                                          *)
LEMMA ResultRuns ==
  ASSUME Types, NEW s \in Session, NEW l \in Lease, NEW at \in At
  PROVE  /\ \A n \in 0 .. MaxFindings : SubmitChunk(s, l, at, n) =>
                \E row \in RunRow :
                   /\ run' = [run EXCEPT ![usage[l].piece[1]] = row]
                   /\ run[usage[l].piece[1]].status = "extracting"
                   /\ row.status = IF Completed(Pieces(usage[l].piece[1], 0) \ {usage[l].piece})
                                   THEN "ready_for_consolidation" ELSE "extracting"
                   /\ row.lease = None
         /\ \A n \in 0 .. MaxOutputs : CompleteConsolidation(s, l, at, n) =>
                \E row \in RunRow :
                   /\ run' = [run EXCEPT ![usage[l].piece[1]] = row]
                   /\ row.status = IF IsFinal(usage[l].piece) THEN "candidates_ready"
                                   ELSE "ready_for_consolidation"
                   /\ row.lease = None
  <1> DEFINE r == usage[l].piece[1]
  <1>1. ASSUME HoldsLease(s, l, at) PROVE r \in Run /\ run[r] \in RunRow
    BY <1>1, LeaseHeld DEF Types
  <1>2. ASSUME NEW n \in 0 .. MaxFindings, SubmitChunk(s, l, at, n)
        PROVE  \E row \in RunRow :
                   /\ run' = [run EXCEPT ![r] = row]
                   /\ run[r].status = "extracting"
                   /\ row.status = IF Completed(Pieces(r, 0) \ {usage[l].piece})
                                   THEN "ready_for_consolidation" ELSE "extracting"
                   /\ row.lease = None
    <2> DEFINE st == IF Completed(Pieces(r, 0) \ {usage[l].piece})
                     THEN "ready_for_consolidation" ELSE "extracting"
               row == [run[r] EXCEPT !.status = st]
    <2>1. HoldsLease(s, l, at) /\ run[r].status = "extracting"
      BY <1>2 DEF SubmitChunk, HoldsChunk
    <2>2. run[r] \in RunRow /\ run[r].lease = None /\ r \in Run
      BY <1>1, <2>1, StoredTypes
    <2>3. run' = [run EXCEPT ![r].status = st]
      BY <1>2 DEF SubmitChunk
    <2>4. run' = [run EXCEPT ![r] = row]
      BY <2>2, <2>3 DEF Types, TypeOK
    <2>5. row \in RunRow /\ row.status = st /\ row.lease = None
      <3>1. st \in {"ready_for_consolidation", "extracting"}
        OBVIOUS
      <3> HIDE DEF st
      <3> QED BY <2>2, <3>1 DEF RunRow, RunStatus
    <2> HIDE DEF row
    <2> QED BY <2>1, <2>4, <2>5
  <1>3. ASSUME NEW n \in 0 .. MaxOutputs, CompleteConsolidation(s, l, at, n)
        PROVE  \E row \in RunRow :
                   /\ run' = [run EXCEPT ![r] = row]
                   /\ row.status = IF IsFinal(usage[l].piece) THEN "candidates_ready"
                                   ELSE "ready_for_consolidation"
                   /\ row.lease = None
    <2> DEFINE st == IF IsFinal(usage[l].piece) THEN "candidates_ready"
                     ELSE "ready_for_consolidation"
               row == [run[r] EXCEPT !.lease = None, !.status = st]
    <2>1. run[r] \in RunRow /\ r \in Run
      BY <1>1, <1>3 DEF CompleteConsolidation, HoldsReduction
    <2>2. run' = [run EXCEPT ![r].lease = None, ![r].status = st]
      BY <1>3 DEF CompleteConsolidation
    <2>3. run' = [run EXCEPT ![r] = row]
      BY <2>1, <2>2 DEF Types, TypeOK
    <2>4. row \in RunRow /\ row.status = st /\ row.lease = None
      <3>1. st \in {"ready_for_consolidation", "candidates_ready"}
        OBVIOUS
      <3> HIDE DEF st
      <3> QED BY <2>1, <3>1 DEF RunRow, RunStatus
    <2> HIDE DEF row
    <2> QED BY <2>3, <2>4
  <1> QED BY <1>2, <1>3

LEMMA EndsTypes ==
  ASSUME Types, NEW l \in Lease, NEW p, NEW row, Ends(l, p, row),
         run' = run \/ \E next \in RunRow : /\ run' = [run EXCEPT ![p[1]] = next]
                                             /\ next.status \notin {"absent", "consolidating"}
                                             /\ next.lease = None
  PROVE  Types'
  <1>1. /\ usage[l] \in Claim /\ p \in Piece /\ p[1] \in Run
        /\ work[p].status # "absent" /\ run[p[1]].status # "absent"
    <2>1. usage[l] \in Claim /\ p \in Piece /\ p[1] \in Run
      BY StageOf DEF Types, TypeOK, Ends, Claim, NoClaim
    <2> QED BY <2>1, StoredTypes DEF Ends
  <1>2. /\ work' \in [Piece -> PieceRow]
        /\ \A q \in Piece : work'[q].status = "leased" <=> work'[q].lease # None
    BY <1>1, OneRowTypes DEF Ends
  <1>3. usage' \in [Lease -> Claim \cup {NoClaim}]
    BY <1>1 DEF Ends, Consumed, Claim, Types, TypeOK
  <1>4. /\ run' \in [Run -> RunRow]
        /\ \A q \in Run : run'[q].status = "consolidating" <=> run'[q].lease # None
        /\ \A q \in Run : run'[q].status = "absent" <=> run[q].status = "absent"
    <2>1. CASE run' = run
      BY <2>1, StoredTypes DEF Types, TypeOK
    <2>2. CASE \E next \in RunRow : /\ run' = [run EXCEPT ![p[1]] = next]
                                    /\ next.status \notin {"absent", "consolidating"}
                                    /\ next.lease = None
      <3>1. PICK next \in RunRow : /\ run' = [run EXCEPT ![p[1]] = next]
                                   /\ next.status \notin {"absent", "consolidating"}
                                   /\ next.lease = None
        BY <2>2
      <3>2. next.status = "consolidating" <=> next.lease # None
        BY <3>1
      <3> QED BY <1>1, <3>1, <3>2, OneRunTypes
    <2> QED BY <2>1, <2>2
  <1>5. \A q \in Piece : run'[q[1]].status = "absent" => work'[q].status = "absent"
    <2> TAKE q \in Piece
    <2> HAVE run'[q[1]].status = "absent"
    <2>1. run[q[1]].status = "absent" /\ q # p
      BY <1>1, <1>4, StageOf
    <2>2. work'[q] = work[q]
      BY <2>1, <1>1 DEF Ends, Types, TypeOK
    <2> QED BY <2>1, <2>2, StoredTypes
  <1>6. UNCHANGED <<now, turn, epoch, refused>> /\ receipts' \subseteq Lease
        /\ refused \subseteq Run
    BY DEF Ends, Types, TypeOK
  <1> QED BY <1>2, <1>3, <1>4, <1>5, <1>6, TypesFrom

LEMMA ResultTypes ==
  ASSUME Types, NEW s \in Session, NEW l \in Lease, NEW at \in At,
         \/ \E n \in 0 .. MaxFindings : SubmitChunk(s, l, at, n)
         \/ \E n \in 0 .. MaxOutputs : CompleteConsolidation(s, l, at, n)
         \/ \E retry \in Time \cup {Never} :
                FailChunk(s, l, at, retry) \/ FailConsolidation(s, l, at, retry)
  PROVE  Types'
  <1>1. ASSUME NEW n \in 0 .. MaxFindings, SubmitChunk(s, l, at, n) PROVE Types'
    <2>1. Ends(l, usage[l].piece, Done(work[usage[l].piece], n))
      BY <1>1, ResultEnds
    <2>a. PICK next \in RunRow :
             /\ run' = [run EXCEPT ![usage[l].piece[1]] = next]
             /\ run[usage[l].piece[1]].status = "extracting"
             /\ next.status = IF Completed(Pieces(usage[l].piece[1], 0) \ {usage[l].piece})
                              THEN "ready_for_consolidation" ELSE "extracting"
             /\ next.lease = None
      BY <1>1, ResultRuns
    <2>b. next.status \notin {"absent", "consolidating"}
      BY <2>a
    <2>2. \E row \in RunRow : /\ run' = [run EXCEPT ![usage[l].piece[1]] = row]
                              /\ row.status \notin {"absent", "consolidating"}
                              /\ row.lease = None
      BY <2>a, <2>b
    <2> QED BY <2>1, <2>2, EndsTypes
  <1>2. ASSUME NEW n \in 0 .. MaxOutputs, CompleteConsolidation(s, l, at, n) PROVE Types'
    <2>1. Ends(l, usage[l].piece, Done(work[usage[l].piece], n))
      BY <1>2, ResultEnds
    <2>a. PICK next \in RunRow :
             /\ run' = [run EXCEPT ![usage[l].piece[1]] = next]
             /\ next.status = IF IsFinal(usage[l].piece) THEN "candidates_ready"
                              ELSE "ready_for_consolidation"
             /\ next.lease = None
      BY <1>2, ResultRuns
    <2>b. next.status \notin {"absent", "consolidating"}
      BY <2>a
    <2>2. \E row \in RunRow : /\ run' = [run EXCEPT ![usage[l].piece[1]] = row]
                              /\ row.status \notin {"absent", "consolidating"}
                              /\ row.lease = None
      BY <2>a, <2>b
    <2> QED BY <2>1, <2>2, EndsTypes
  <1>3. ASSUME NEW retry \in Time \cup {Never}, FailChunk(s, l, at, retry) PROVE Types'
    <2>1. Ends(l, usage[l].piece, Failed(work[usage[l].piece], retry))
      BY <1>3, ResultEnds
    <2>2. run' = run
      BY <1>3 DEF FailChunk
    <2> QED BY <2>1, <2>2, EndsTypes
  <1>4. ASSUME NEW retry \in Time \cup {Never}, FailConsolidation(s, l, at, retry) PROVE Types'
    <2>1. Ends(l, usage[l].piece, Failed(work[usage[l].piece], retry))
      BY <1>4, ResultEnds
    <2> DEFINE next == [status |-> "failed", lease |-> None, retry |-> retry]
    <2>a. run' = [run EXCEPT ![usage[l].piece[1]] = next]
      BY <1>4 DEF FailConsolidation
    <2>b. next \in RunRow /\ next.status \notin {"absent", "consolidating"} /\ next.lease = None
      BY DEF RunRow, RunStatus
    <2> HIDE DEF next
    <2>2. \E row \in RunRow : /\ run' = [run EXCEPT ![usage[l].piece[1]] = row]
                              /\ row.status \notin {"absent", "consolidating"}
                              /\ row.lease = None
      BY <2>a, <2>b
    <2> QED BY <2>1, <2>2, EndsTypes
  <1> QED BY <1>1, <1>2, <1>3, <1>4

LEMMA RetryTypes ==
  ASSUME Types, NEW at \in At,
         \/ \E p \in Piece, available \in Time : RetryChunk(p, at, available)
         \/ \E r \in Run : RetryConsolidation(r, at)
  PROVE  Types'
  <1>0. at \in Time /\ at \in Time \cup {Never}
    BY AtIsTime
  <1>1. ASSUME NEW p \in Piece, NEW available \in Time, RetryChunk(p, at, available)
        PROVE  Types'
    <2> DEFINE row == [work[p] EXCEPT !.status = "pending", !.available = available]
    <2>1. work' = [work EXCEPT ![p] = row]
      BY <1>1 DEF RetryChunk, Types, TypeOK
    <2>2. row \in PieceRow /\ row.status = "pending" /\ row.lease = None
      BY <1>1, StoredTypes DEF RetryChunk, PieceRow
    <2> HIDE DEF row
    <2>3. /\ work' \in [Piece -> PieceRow]
          /\ \A q \in Piece : work'[q].status = "leased" <=> work'[q].lease # None
      BY <2>1, <2>2, OneRowTypes
    <2>4. \A q \in Piece : run[q[1]].status = "absent" => work'[q].status = "absent"
      BY <1>1, <2>1, StoredTypes DEF RetryChunk, Types, TypeOK
    <2> QED BY <1>1, <2>3, <2>4, TypesFrom DEF RetryChunk, Types, TypeOK
  <1>2. ASSUME NEW r \in Run, RetryConsolidation(r, at)
        PROVE  Types'
    <2> DEFINE row == [run[r] EXCEPT !.status = "ready_for_consolidation", !.retry = Never]
    <2>1. run' = [run EXCEPT ![r] = row]
      BY <1>2 DEF RetryConsolidation, Types, TypeOK
    <2>2. row \in RunRow /\ row.status = "ready_for_consolidation" /\ row.lease = None
          /\ run[r].status # "absent"
      BY <1>2, StoredTypes DEF RetryConsolidation, RunRow, RunStatus
    <2> HIDE DEF row
    <2>3. /\ run' \in [Run -> RunRow]
          /\ \A q \in Run : run'[q].status = "consolidating" <=> run'[q].lease # None
          /\ \A q \in Run : run'[q].status = "absent" <=> run[q].status = "absent"
      <3>1. row.status = "consolidating" <=> row.lease # None
        BY <2>2
      <3> QED BY <2>1, <2>2, <3>1, OneRunTypes
    <2>4. work' = [p \in Piece |->
             IF p[1] = r /\ p[2] # 0 /\ work[p].status = "failed"
             THEN [work[p] EXCEPT !.status = "pending", !.available = at]
             ELSE work[p]]
      BY <1>2 DEF RetryConsolidation
    <2>5. ASSUME NEW p \in Piece
          PROVE  /\ work'[p] \in PieceRow /\ work'[p].lease = work[p].lease
                 /\ work'[p].status = "leased" <=> work'[p].lease # None
                 /\ work'[p].status = "absent" <=> work[p].status = "absent"
      <3>1. CASE p[1] = r /\ p[2] # 0 /\ work[p].status = "failed"
        <4>1. work'[p] = [work[p] EXCEPT !.status = "pending", !.available = at]
          BY <2>4, <3>1
        <4> QED BY <4>1, <3>1, <1>0, StoredTypes DEF PieceRow
      <3>2. CASE ~(p[1] = r /\ p[2] # 0 /\ work[p].status = "failed")
        <4>1. work'[p] = work[p]
          BY <2>4, <3>2
        <4> QED BY <4>1, StoredTypes
      <3> QED BY <3>1, <3>2
    <2>6. work' \in [Piece -> PieceRow]
      BY <2>4, <2>5
    <2>7. \A q \in Piece : run'[q[1]].status = "absent" => work'[q].status = "absent"
      BY <2>3, <2>5, StoredTypes, StageOf
    <2>8. UNCHANGED <<now, turn, epoch, refused, receipts, usage>>
      BY <1>2 DEF RetryConsolidation
    <2>9. refused \subseteq Run /\ receipts \subseteq Lease
          /\ usage \in [Lease -> Claim \cup {NoClaim}]
      BY DEF Types, TypeOK
    <2> QED BY <2>3, <2>5, <2>6, <2>7, <2>8, <2>9, TypesFrom
  <1> QED BY <1>1, <1>2

LEMMA OtherTypes ==
  ASSUME Types, Tick \/ (\E s \in Session : RotateCapability(s))
                \/ (\E r \in Run : CreateRunRefused(r)) \/ UNCHANGED vars
  PROVE  Types'
  <1>1. CASE Tick
    BY <1>1, BackfillAssumption DEF Tick, Types, TypeOK, Time
  <1>2. ASSUME NEW s \in Session, RotateCapability(s) PROVE Types'
    <2>1. epoch[s] \in Nat /\ turn[s] \in Nat /\ turn[s] <= epoch[s] /\ epoch[s] < MaxEpoch
          /\ MaxEpoch \in Nat
      BY <1>2, BackfillAssumption DEF RotateCapability, Types, TypeOK, Epoch
    <2>2. epoch' \in [Session -> Epoch] /\ turn' \in [Session -> Epoch]
      <3>1. epoch[s] + 1 \in Epoch /\ turn[s] + 1 \in Epoch
        BY <2>1 DEF Epoch
      <3> QED BY <1>2, <3>1 DEF RotateCapability, Types, TypeOK
    <2>3. \A q \in Session : turn'[q] <= epoch'[q]
      <3> TAKE q \in Session
      <3>0. turn[q] \in Nat /\ epoch[q] \in Nat /\ turn[q] <= epoch[q]
        BY BackfillAssumption DEF Types, TypeOK, Epoch
      <3>1. epoch'[q] = IF q = s THEN epoch[q] + 1 ELSE epoch[q]
        BY <1>2 DEF RotateCapability, Types, TypeOK
      <3>2. turn'[q] = turn[q] \/ (q = s /\ turn'[q] = turn[q] + 1)
        BY <1>2 DEF RotateCapability, Types, TypeOK
      <3> QED BY <3>0, <3>1, <3>2
    <2> QED BY <1>2, <2>2, <2>3 DEF RotateCapability, Types, TypeOK
  <1>3. ASSUME NEW r \in Run, CreateRunRefused(r) PROVE Types'
    BY <1>3 DEF CreateRunRefused, Types, TypeOK
  <1>4. CASE UNCHANGED vars
    BY <1>4 DEF vars, Types, TypeOK
  <1> QED BY <1>1, <1>2, <1>3, <1>4

(* The steps of the specification, one by one.                             *)
Calls(at) ==
    \/ \E r \in Run : CreateRun(r, at)
    \/ \E s \in Session, r \in Run, previous \in Lease \cup {None} :
           ClaimNext(s, r, previous, at) \/ ClaimConsolidation(s, r, previous, at)
    \/ \E s \in Session, l \in Lease :
           \/ \E n \in 0 .. MaxFindings : SubmitChunk(s, l, at, n)
           \/ \E n \in 0 .. MaxOutputs : CompleteConsolidation(s, l, at, n)
           \/ \E retry \in Time \cup {Never} :
                  FailChunk(s, l, at, retry) \/ FailConsolidation(s, l, at, retry)
    \/ \E p \in Piece, available \in Time : RetryChunk(p, at, available)
    \/ \E r \in Run : RetryConsolidation(r, at)

Around ==
    \/ Tick \/ (\E s \in Session : RotateCapability(s))
    \/ (\E r \in Run : CreateRunRefused(r)) \/ UNCHANGED vars

LEMMA StepsAre ==
  ASSUME [Next]_vars
  PROVE  Around \/ \E at \in At : Calls(at)
  BY DEF Next, Calls, Around

LEMMA TypesStep ==
  ASSUME Types, [Next]_vars
  PROVE  Types'
  <1>1. CASE Around
    BY <1>1, OtherTypes DEF Around
  <1>2. ASSUME NEW at \in At, Calls(at) PROVE Types'
    BY <1>2, CreateRunTypes, ClaimNextTypes, ClaimConsolidationTypes, ResultTypes, RetryTypes
       DEF Calls
  <1> QED BY <1>1, <1>2, StepsAre

LEMMA InitTypes == Init => Types
  <1> SUFFICES ASSUME Init PROVE Types
    OBVIOUS
  <1>1. 0 \in Time /\ 0 \in Epoch /\ 0 \in Nat
    BY BackfillAssumption DEF Time, Epoch
  <1>2. [status |-> "absent", lease |-> None, retry |-> Never] \in RunRow
    BY DEF RunRow, RunStatus
  <1>3. [status |-> "absent", lease |-> None, available |-> Never, findings |-> 0] \in PieceRow
    BY <1>1 DEF PieceRow
  <1>4. TypeOK
    BY <1>1, <1>2, <1>3 DEF Init, TypeOK
  <1> QED BY <1>4, <1>1 DEF Types, Init, Epoch
-----------------------------------------------------------------------------
(* What a claim leaves of the other claims, and of the pieces.             *)

SameClaim(m) ==
    /\ usage'[m].piece = usage[m].piece /\ usage'[m].session = usage[m].session
    /\ usage'[m].turn = usage[m].turn /\ usage'[m].epoch = usage[m].epoch
    /\ usage'[m].expires = usage[m].expires /\ usage'[m].previous = usage[m].previous

Expires(m, replaced, at) ==
    m \in replaced /\ usage[m].status = "active" /\ usage[m].expires <= at

LEMMA UsageAfter ==
  ASSUME Types, NEW s \in Session, NEW p \in Piece, NEW replaced, NEW l \in Lease,
         NEW previous \in Lease \cup {None}, NEW at \in At, Fresh(l),
         usage' = UsageAfterClaim(s, p, replaced, l, previous, at)
  PROVE  /\ usage'[l] = NewClaim(s, p, previous, at)
         /\ usage[l].status = "unused"
         /\ usage'[l].status = "active" /\ usage'[l].piece = p /\ usage'[l].session = s
         /\ usage'[l].epoch = epoch[s] /\ usage'[l].expires = at + LeaseTime
         /\ \A m \in Lease \ {l} :
               /\ Expires(m, replaced, at) => usage'[m].status = "expired" /\ SameClaim(m)
               /\ ~Expires(m, replaced, at) => usage'[m] = usage[m]
               /\ Used(m)' <=> Used(m)
  <1>1. usage'[l] = NewClaim(s, p, previous, at) /\ usage[l].status = "unused"
    BY DEF UsageAfterClaim, Fresh
  <1>2. \A m \in Lease \ {l} : ~Expires(m, replaced, at) => usage'[m] = usage[m]
    BY DEF UsageAfterClaim, Expires
  <1>3. ASSUME NEW m \in Lease \ {l}, Expires(m, replaced, at)
        PROVE  usage'[m].status = "expired" /\ SameClaim(m)
    <2>1. usage[m] \in Claim
      BY <1>3 DEF Types, TypeOK, Expires, NoClaim
    <2>2. usage'[m] = [usage[m] EXCEPT !.status = "expired"]
      BY <1>3 DEF UsageAfterClaim, Expires
    <2> QED BY <2>1, <2>2 DEF Claim, SameClaim
  <1>4. usage'[l].status = "active" /\ usage'[l].piece = p /\ usage'[l].session = s
        /\ usage'[l].epoch = epoch[s] /\ usage'[l].expires = at + LeaseTime
    BY <1>1 DEF NewClaim
  <1>5. \A m \in Lease \ {l} : Used(m)' <=> Used(m)
    <2> TAKE m \in Lease \ {l}
    <2>1. CASE Expires(m, replaced, at)
      BY <2>1, <1>3 DEF Expires, Used
    <2>2. CASE ~Expires(m, replaced, at)
      BY <2>2, <1>2 DEF Used
    <2> QED BY <2>1, <2>2
  <1> QED BY <1>1, <1>2, <1>3, <1>4, <1>5

(* The only row a claim of a chunk changes is that of its piece.           *)
LEMMA ChunkRow ==
  ASSUME Types, NEW s, NEW r \in Run, NEW previous, NEW at, NEW p \in Piece, NEW l \in Lease,
         TakesChunk(s, r, previous, at, p, l)
  PROVE  /\ \A q \in Piece \ {p} : work'[q] = work[q]
         /\ work'[p].status = "leased" /\ work'[p].lease = l /\ l # None
         /\ work'[p].available = work[p].available /\ work'[p].findings = work[p].findings
         /\ work[p].status # "completed"
         /\ SamePieces
  <1>1. work[p] \in PieceRow /\ work'[p] = Leased(work[p], l)
        /\ \A q \in Piece \ {p} : work'[q] = work[q]
    BY StoredTypes DEF TakesChunk, Types, TypeOK
  <1>2. /\ work'[p].status = "leased" /\ work'[p].lease = l /\ l # None
        /\ work'[p].available = work[p].available /\ work'[p].findings = work[p].findings
    BY <1>1, LeasedRow
  <1>3. work[p].status # "completed"
    BY DEF TakesChunk, Claimable
  <1>4. SamePieces
    BY <1>1, <1>2 DEF SamePieces, TakesChunk
  <1> QED BY <1>1, <1>2, <1>3, <1>4

LEMMA RoundStageIs ==
  ASSUME NEW r \in Run
  PROVE  /\ RoundStage(r) = IF NeedsRound(r) THEN LastStage(r) + 1 ELSE LastStage(r)
         /\ RoundStage(r) \in Nat \ {0} /\ LastStage(r) \in Nat
  <1>1. LastStage(r) \in Nat
    BY LastStageIs DEF Stage
  <1> QED BY <1>1 DEF RoundStage, NeedsRound

(* A claim of a reduction leases its piece, maybe after making the round.  *)
LEMMA ReductionRow ==
  ASSUME Types, NEW s, NEW r \in Run, NEW previous, NEW at \in At, NEW p \in Piece,
         NEW l \in Lease, NEW rows \in [Piece -> PieceRow],
         TakesReduction(s, r, previous, at, p, l, rows)
  PROVE  /\ \A q \in Piece \ {p} :
               \/ work'[q] = work[q]
               \/ /\ NeedsRound(r) /\ q[1] = r /\ q[2] = RoundStage(r)
                  /\ work[q].status = "absent" /\ work'[q] = NewPiece(at)
         /\ work'[p].status = "leased" /\ work'[p].lease = l /\ l # None
         /\ work'[p].available = rows[p].available /\ work'[p].findings = rows[p].findings
         /\ \/ rows[p] = work[p] /\ work[p].status # "absent"
            \/ NeedsRound(r) /\ work[p].status = "absent" /\ rows[p] = NewPiece(at)
         /\ work[p].status # "completed" /\ p[2] # 0
  <1>1. /\ rows[p] \in PieceRow /\ work'[p] = Leased(rows[p], l)
        /\ \A q \in Piece \ {p} : work'[q] = rows[q]
    BY DEF TakesReduction
  <1>2. \A q \in Piece :
           \/ rows[q] = work[q]
           \/ /\ NeedsRound(r) /\ q[1] = r /\ q[2] = LastStage(r) + 1
              /\ work[q].status = "absent" /\ rows[q] = NewPiece(at)
    BY RoundRows, AtIsTime DEF TakesReduction, Types
  <1>3. /\ work'[p].status = "leased" /\ work'[p].lease = l /\ l # None
        /\ work'[p].available = rows[p].available /\ work'[p].findings = rows[p].findings
    BY <1>1, LeasedRow
  <1>4. \/ rows[p] = work[p] /\ work[p].status # "absent"
        \/ NeedsRound(r) /\ work[p].status = "absent" /\ rows[p] = NewPiece(at)
    BY <1>2 DEF TakesReduction
  <1>5. work[p].status # "completed" /\ p[2] # 0
    BY <1>4, RoundStageIs DEF TakesReduction, Claimable
  <1>6. NeedsRound(r) => LastStage(r) + 1 = RoundStage(r)
    BY RoundStageIs
  <1> QED BY <1>1, <1>2, <1>3, <1>4, <1>5, <1>6

LEMMA StagesAfterReduction ==
  ASSUME Types, NEW s, NEW r \in Run, NEW previous, NEW at \in At, NEW p \in Piece,
         NEW l \in Lease, NEW rows \in [Piece -> PieceRow],
         TakesReduction(s, r, previous, at, p, l, rows)
  PROVE  /\ LastStage(r)' = RoundStage(r)
         /\ \A k \in Stage : k # RoundStage(r) => Pieces(r, k)' = Pieces(r, k)
         /\ ~NeedsRound(r) => SamePieces
         /\ \A t \in Run \ {r} : LastStage(t)' = LastStage(t)
                                 /\ \A k \in Stage : Pieces(t, k)' = Pieces(t, k)
  <1>1. \A q \in Piece : (q[1] # r \/ q[2] # RoundStage(r) \/ ~NeedsRound(r)) =>
            (work'[q].status = "absent" <=> work[q].status = "absent")
    <2>1. /\ \A q \in Piece \ {p} :
                \/ work'[q] = work[q]
                \/ NeedsRound(r) /\ q[1] = r /\ q[2] = RoundStage(r)
          /\ work'[p].status = "leased"
          /\ work[p].status # "absent" \/ NeedsRound(r)
      BY ReductionRow
    <2>2. p[1] = r /\ p[2] = RoundStage(r)
      BY DEF TakesReduction
    <2> QED BY <2>1, <2>2
  <1>2. \A k \in Stage : k # RoundStage(r) => Pieces(r, k)' = Pieces(r, k)
    BY <1>1 DEF Pieces
  <1>3. \A t \in Run \ {r} : \A k : Pieces(t, k)' = Pieces(t, k)
    BY <1>1 DEF Pieces
  <1>4. \A t \in Run \ {r} : LastStage(t)' = LastStage(t)
    <2> TAKE t \in Run \ {r}
    <2>1. {k \in Stage : Pieces(t, k) # {}}' = {k \in Stage : Pieces(t, k) # {}}
      BY <1>3
    <2> QED BY <2>1 DEF LastStage
  <1>5. ~NeedsRound(r) => SamePieces
    BY <1>1 DEF SamePieces
  <1>6. CASE ~NeedsRound(r)
    <2>1. LastStage(r)' = LastStage(r)
      BY <1>5, <1>6, SamePiecesSame
    <2> QED BY <2>1, <1>2, <1>3, <1>4, <1>5, <1>6, RoundStageIs
  <1>7. CASE NeedsRound(r)
    <2>0. p[1] = r /\ p[2] = RoundStage(r)
      BY DEF TakesReduction
    <2>1. PICK k \in Stage : k = RoundStage(r) /\ k = p[2]
      BY <2>0, StageOf
    <2>2. k \in Nat /\ k = LastStage(r) + 1 /\ \A j \in Stage : j \in Nat
      <3>1. \A j \in Stage : j \in Nat
        BY BackfillAssumption DEF Stage
      <3> QED BY <1>7, <2>1, <3>1, RoundStageIs
    <2>3. Pieces(r, k)' # {}
      <3>1. work'[p].status = "leased"
        BY ReductionRow
      <3>2. p \in Pieces(r, k)'
        BY <2>0, <2>1, <3>1 DEF Pieces
      <3> QED BY <3>2
    <2>4. \A j \in Stage : Pieces(r, j)' # {} => j <= k
      <3> TAKE j \in Stage
      <3>1. CASE j = k
        BY <3>1, <2>2
      <3>2. CASE j # k
        <4>1. Pieces(r, j)' = Pieces(r, j)
          BY <3>2, <1>2, <2>1
        <4>2. Pieces(r, j) # {} => j <= LastStage(r)
          BY LastStageIs
        <4>3. LastStage(r) \in Nat /\ j \in Nat
          BY <2>2, RoundStageIs
        <4> QED BY <4>1, <4>2, <4>3, <2>2
      <3> QED BY <3>1, <3>2
    <2>5. LastStage(r)' = k
      <3> DEFINE S == {0} \cup {j \in Stage : Pieces(r, j)' # {}}
      <3>1. S \subseteq 0 .. MaxStage /\ MaxStage \in Nat
        <4>1. MaxStage \in Nat /\ Stage = 0 .. MaxStage /\ 0 \in Stage
          BY BackfillAssumption DEF Stage
        <4> QED BY <4>1
      <3>2. k \in S
        BY <2>3
      <3>3. \A j \in S : j <= k
        BY <2>4, <2>2
      <3>4. LastStage(r)' = Max(S)
        BY DEF LastStage
      <3> HIDE DEF S
      <3> QED BY <3>1, <3>2, <3>3, <3>4, GreatestIs
    <2> QED BY <2>5, <2>1, <1>2, <1>3, <1>4, <1>5
  <1> QED BY <1>6, <1>7
-----------------------------------------------------------------------------
(* Claims and leases keep agreeing.                                        *)

ActiveOK(m) ==
    usage[m].status = "active" =>
        /\ work[usage[m].piece].lease = m
        /\ usage[m].piece[2] # 0 => run[usage[m].piece[1]].lease = m

LeasedOK(q) ==
    work[q].status = "leased" =>
        /\ usage[work[q].lease].status # "unused" /\ usage[work[q].lease].piece = q
        /\ usage[work[q].lease].status # "active" =>
               /\ usage[work[q].lease].status = "expired"
               /\ q[2] # 0
               /\ run[q[1]].lease # work[q].lease

ConsolidatingOK(t) ==
    run[t].status = "consolidating" =>
        /\ usage[run[t].lease].status = "active"
        /\ usage[run[t].lease].piece[1] = t
        /\ usage[run[t].lease].piece[2] = LastStage(t)

LEMMA MatchIs ==
  /\ ClaimsMatchLeases <=> /\ \A m \in Lease : ActiveOK(m)
                           /\ \A q \in Piece : LeasedOK(q)
                           /\ \A t \in Run : ConsolidatingOK(t)
  /\ (ClaimsMatchLeases <=> /\ \A m \in Lease : ActiveOK(m)
                            /\ \A q \in Piece : LeasedOK(q)
                            /\ \A t \in Run : ConsolidatingOK(t))'
  BY DEF ClaimsMatchLeases, ActiveOK, LeasedOK, ConsolidatingOK

(* What the invariant says of one claim, one row, one run, one receipt.    *)
LEMMA Linked ==
  ASSUME Leases
  PROVE  /\ Types
         /\ \A m \in Lease : Used(m) => /\ usage[m] \in Claim /\ usage[m].piece \in Piece
                                        /\ usage[m].piece[1] \in Run
         /\ \A m \in Lease : usage[m].status = "active" =>
                /\ work[usage[m].piece].lease = m /\ work[usage[m].piece].status = "leased"
                /\ usage[m].piece[2] # 0 => run[usage[m].piece[1]].lease = m
         /\ \A q \in Piece : work[q].status = "leased" =>
                /\ work[q].lease \in Lease /\ Used(work[q].lease)
                /\ usage[work[q].lease].piece = q
         /\ \A t \in Run : run[t].status = "consolidating" =>
                /\ run[t].lease \in Lease /\ usage[run[t].lease].status = "active"
                /\ usage[run[t].lease].piece[1] = t
                /\ usage[run[t].lease].piece[2] = LastStage(t)
         /\ \A m \in receipts :
                /\ m \in Lease /\ usage[m].status = "consumed" /\ usage[m].piece \in Piece
                /\ work[usage[m].piece].status = "completed"
         /\ None \notin Lease
  <1>1. Types /\ ClaimsMatchLeases /\ ReceiptsOK
    BY DEF Leases
  <1>2. \A m \in Lease : Used(m) => /\ usage[m] \in Claim /\ usage[m].piece \in Piece
                                    /\ usage[m].piece[1] \in Run
    <2> TAKE m \in Lease
    <2> HAVE Used(m)
    <2>1. usage[m] \in Claim
      BY <1>1 DEF Used, Types, TypeOK, NoClaim
    <2>2. usage[m].piece \in Piece
      BY <2>1 DEF Claim
    <2> QED BY <2>1, <2>2, StageOf
  <1>3. None \notin Lease
    BY BackfillAssumption DEF Lease, None
  <1>4. \A m \in Lease : usage[m].status = "active" =>
            /\ work[usage[m].piece].lease = m /\ work[usage[m].piece].status = "leased"
            /\ usage[m].piece[2] # 0 => run[usage[m].piece[1]].lease = m
    <2> TAKE m \in Lease
    <2> HAVE usage[m].status = "active"
    <2>1. usage[m].piece \in Piece
      BY <1>2 DEF Used
    <2>2. work[usage[m].piece].lease = m
          /\ (usage[m].piece[2] # 0 => run[usage[m].piece[1]].lease = m)
      BY <1>1 DEF ClaimsMatchLeases
    <2> QED BY <2>1, <2>2, <1>1, <1>3, StoredTypes
  <1>5. \A q \in Piece : work[q].status = "leased" =>
            /\ work[q].lease \in Lease /\ Used(work[q].lease)
            /\ usage[work[q].lease].piece = q
    <2> TAKE q \in Piece
    <2> HAVE work[q].status = "leased"
    <2>1. work[q].lease \in Lease
      BY <1>1, StoredTypes DEF PieceRow
    <2> QED BY <2>1, <1>1 DEF ClaimsMatchLeases, Used
  <1>6. \A t \in Run : run[t].status = "consolidating" =>
            /\ run[t].lease \in Lease /\ usage[run[t].lease].status = "active"
            /\ usage[run[t].lease].piece[1] = t
            /\ usage[run[t].lease].piece[2] = LastStage(t)
    <2> TAKE t \in Run
    <2> HAVE run[t].status = "consolidating"
    <2>1. run[t].lease \in Lease
      BY <1>1, StoredTypes DEF RunRow
    <2> QED BY <2>1, <1>1 DEF ClaimsMatchLeases
  <1>7. \A m \in receipts :
            /\ m \in Lease /\ usage[m].status = "consumed" /\ usage[m].piece \in Piece
            /\ work[usage[m].piece].status = "completed"
    BY <1>1, <1>2 DEF ReceiptsOK, Types, TypeOK, Used
  <1> QED BY <1>1, <1>2, <1>3, <1>4, <1>5, <1>6, <1>7

LEMMA NextChunkMatches ==
  ASSUME Leases, NEW s \in Session, NEW r \in Run, NEW previous \in Lease \cup {None},
         NEW at \in At, ClaimNext(s, r, previous, at)
  PROVE  ClaimsMatchLeases' /\ ReceiptsOK' /\ StagesOK'
  <1>0. Types /\ TypeOK
    BY DEF Leases, Types
  <1>1. PICK p \in Piece, l \in Lease : TakesChunk(s, r, previous, at, p, l)
    BY <1>0, ClaimNextIs
  <1> DEFINE replaced == {work[p].lease}
  <1>2. /\ \A q \in Piece \ {p} : work'[q] = work[q]
        /\ work'[p].status = "leased" /\ work'[p].lease = l /\ l # None
        /\ work[p].status # "completed"
        /\ SamePieces
    BY <1>0, <1>1, ChunkRow
  <1>3. p[1] = r /\ p[2] = 0 /\ Claimable(work[p], at) /\ Fresh(l)
        /\ usage' = UsageAfterClaim(s, p, replaced, l, previous, at)
    BY <1>1 DEF TakesChunk
  <1>4. /\ usage[l].status = "unused"
        /\ usage'[l].status = "active" /\ usage'[l].piece = p
        /\ \A m \in Lease \ {l} :
              /\ Expires(m, replaced, at) => usage'[m].status = "expired" /\ SameClaim(m)
              /\ ~Expires(m, replaced, at) => usage'[m] = usage[m]
    <2> HIDE DEF replaced
    <2> QED BY <1>0, <1>3, UsageAfter
  <1>5. /\ run[r].status \in {"pending", "extracting"}
        /\ run'[r].status = "extracting"
        /\ \A t \in Run : run'[t].lease = run[t].lease
        /\ \A t \in Run \ {r} : run'[t] = run[t]
    <2>1. run[r].status \in {"pending", "extracting"}
          /\ run' = [run EXCEPT ![r].status = "extracting"]
      BY DEF ClaimNext
    <2>2. run[r] \in RunRow /\ run \in [Run -> RunRow]
      BY <1>0 DEF TypeOK
    <2> QED BY <2>1, <2>2 DEF RunRow
  <1>6. \A m \in Lease : Expires(m, replaced, at) => usage[m].piece = p
    BY <1>0, Linked, StoredTypes DEF Expires
  <1>7. \A m \in Lease : usage[m].status = "active" /\ usage[m].piece = p =>
            Expires(m, replaced, at)
    BY <1>3, Linked DEF Claimable, Expires
  <1> HIDE DEF replaced
  <1>8. ASSUME NEW m \in Lease PROVE ActiveOK(m)'
    <2> SUFFICES ASSUME usage'[m].status = "active" PROVE ActiveOK(m)'
      BY DEF ActiveOK
    <2>1. CASE m = l
      BY <2>1, <1>2, <1>3, <1>4 DEF ActiveOK
    <2>2. CASE m # l
      <3>1. usage'[m] = usage[m] /\ usage[m].status = "active" /\ usage[m].piece # p
        BY <2>2, <1>4, <1>7
      <3>2. usage[m].piece \in Piece /\ usage[m].piece[1] \in Run
        BY <3>1, Linked DEF Used
      <3>3. work'[usage[m].piece] = work[usage[m].piece]
            /\ run'[usage[m].piece[1]].lease = run[usage[m].piece[1]].lease
        BY <3>1, <3>2, <1>2, <1>5
      <3> QED BY <3>1, <3>3, Linked DEF ActiveOK
    <2> QED BY <2>1, <2>2
  <1>9. ASSUME NEW q \in Piece PROVE LeasedOK(q)'
    <2> SUFFICES ASSUME work'[q].status = "leased" PROVE LeasedOK(q)'
      BY DEF LeasedOK
    <2>1. CASE q = p
      BY <2>1, <1>2, <1>4 DEF LeasedOK
    <2>2. CASE q # p
      <3>1. work'[q] = work[q] /\ work[q].lease \in Lease /\ Used(work[q].lease)
            /\ usage[work[q].lease].piece = q
        BY <2>2, <1>2, Linked
      <3>2. usage'[work[q].lease] = usage[work[q].lease]
        BY <2>2, <3>1, <1>4, <1>6 DEF Used
      <3>3. LeasedOK(q)
        BY MatchIs DEF Leases
      <3>4. run'[q[1]].lease = run[q[1]].lease
        BY <1>5, StageOf
      <3> QED BY <3>1, <3>2, <3>3, <3>4 DEF LeasedOK
    <2> QED BY <2>1, <2>2
  <1>10. ASSUME NEW t \in Run PROVE ConsolidatingOK(t)'
    <2> SUFFICES ASSUME run'[t].status = "consolidating" PROVE ConsolidatingOK(t)'
      BY DEF ConsolidatingOK
    <2>1. t # r /\ run'[t] = run[t] /\ run[t].status = "consolidating"
      BY <1>5
    <2>2. run[t].lease \in Lease /\ usage[run[t].lease].status = "active"
          /\ usage[run[t].lease].piece[1] = t
          /\ usage[run[t].lease].piece[2] = LastStage(t)
      BY <2>1, Linked
    <2>3. usage'[run[t].lease] = usage[run[t].lease]
      BY <2>1, <2>2, <1>3, <1>4, <1>6
    <2>4. LastStage(t)' = LastStage(t)
      BY <1>2, SamePiecesSame
    <2> QED BY <2>1, <2>2, <2>3, <2>4 DEF ConsolidatingOK
  <1>11. ReceiptsOK'
    <2>1. receipts' = receipts
      BY DEF ClaimNext
    <2>2. ASSUME NEW m \in receipts
          PROVE usage'[m] = usage[m] /\ work'[usage[m].piece] = work[usage[m].piece]
      <3>1. m \in Lease /\ usage[m].status = "consumed" /\ usage[m].piece \in Piece
            /\ work[usage[m].piece].status = "completed"
        BY Linked
      <3>2. ~Expires(m, replaced, at)
        BY <3>1 DEF Expires
      <3> QED BY <3>1, <3>2, <1>2, <1>4
    <2>3. ReceiptsOK
      BY DEF Leases
    <2> QED BY <2>1, <2>2, <2>3 DEF ReceiptsOK
  <1>12. StagesOK'
    <2> SUFFICES ASSUME NEW t \in Run
                 PROVE  /\ run'[t].status \in {"pending", "extracting"} =>
                               \A k \in Stage \ {0} : Pieces(t, k)' = {}
                        /\ run'[t].status \in {"ready_for_consolidation", "consolidating",
                                               "failed", "candidates_ready"} =>
                               Completed(Pieces(t, 0))'
      BY DEF StagesOK
    <2>1. \A k \in Stage : Pieces(t, k)' = Pieces(t, k)
      BY <1>2, SamePiecesSame
    <2>2. CASE t = r
      BY <2>1, <2>2, <1>5 DEF Leases, StagesOK
    <2>3. CASE t # r
      <3>1. run'[t] = run[t]
        BY <2>3, <1>5
      <3>2. \A q \in Pieces(t, 0) : work'[q] = work[q]
        BY <2>3, <1>2, <1>3 DEF Pieces
      <3>3. 0 \in Stage
        BY BackfillAssumption DEF Stage
      <3>4. Completed(Pieces(t, 0)) => Completed(Pieces(t, 0))'
        <4>1. Pieces(t, 0)' = Pieces(t, 0)
          BY <2>1, <3>3
        <4> QED BY <4>1, <3>2 DEF Completed
      <3> QED BY <2>1, <3>1, <3>4 DEF Leases, StagesOK
    <2> QED BY <2>2, <2>3
  <1> QED BY <1>8, <1>9, <1>10, <1>11, <1>12, MatchIs

LEMMA ReductionMatches ==
  ASSUME Leases, NEW s \in Session, NEW r \in Run, NEW previous \in Lease \cup {None},
         NEW at \in At, ClaimConsolidation(s, r, previous, at)
  PROVE  ClaimsMatchLeases' /\ ReceiptsOK' /\ StagesOK'
  <1>0. Types /\ TypeOK
    BY DEF Leases, Types
  <1>1. PICK p \in Piece, l \in Lease, rows \in [Piece -> PieceRow] :
            TakesReduction(s, r, previous, at, p, l, rows)
    BY <1>0, ClaimConsolidationIs
  <1> DEFINE replaced == {run[r].lease, rows[p].lease}
  <1>2. /\ \A q \in Piece \ {p} :
               \/ work'[q] = work[q]
               \/ /\ q[1] = r /\ q[2] = RoundStage(r)
                  /\ work[q].status = "absent" /\ work'[q] = NewPiece(at)
        /\ work'[p].status = "leased" /\ work'[p].lease = l
        /\ work[p].status # "completed" /\ p[2] # 0
        /\ \/ rows[p] = work[p] /\ work[p].status # "absent"
           \/ work[p].status = "absent" /\ rows[p] = NewPiece(at)
    BY <1>0, <1>1, ReductionRow
  <1>a. \A q \in Piece : q # p /\ work[q].status # "absent" => work'[q] = work[q]
    BY <1>2
  <1>b. \A q \in Piece : q # p /\ work'[q].status = "leased" => work'[q] = work[q]
    BY <1>2 DEF NewPiece
  <1>3. p[1] = r /\ p[2] = RoundStage(r) /\ Claimable(rows[p], at) /\ Fresh(l)
        /\ usage' = UsageAfterClaim(s, p, replaced, l, previous, at)
    BY <1>1 DEF TakesReduction
  <1>4. /\ usage[l].status = "unused"
        /\ usage'[l].status = "active" /\ usage'[l].piece = p
        /\ \A m \in Lease \ {l} :
              /\ Expires(m, replaced, at) => usage'[m].status = "expired" /\ SameClaim(m)
              /\ ~Expires(m, replaced, at) => usage'[m] = usage[m]
    <2>1. Fresh(l) /\ usage' = UsageAfterClaim(s, p, replaced, l, previous, at)
      BY <1>3
    <2> HIDE DEF replaced
    <2> QED BY <1>0, <2>1, UsageAfter
  <1>5. /\ run'[r].status = "consolidating" /\ run'[r].lease = l
        /\ \A t \in Run \ {r} : run'[t] = run[t]
    BY <1>0, <1>1 DEF TakesReduction, TypeOK
  <1>c. /\ run[r].status \in {"ready_for_consolidation", "failed", "consolidating"}
        /\ run[r].status = "consolidating" => usage[run[r].lease].expires <= at
    BY DEF ClaimConsolidation
  <1>d. rows[p].lease \in Lease => work[p].status = "leased" /\ rows[p] = work[p]
    BY <1>0, <1>2, StoredTypes, Linked DEF NewPiece
  <1>e. run[r].lease \in Lease => run[r].status = "consolidating"
    BY <1>0, StoredTypes, Linked
  <1>6. \A m \in Lease : Expires(m, replaced, at) =>
            usage[m].piece = p \/ (m = run[r].lease /\ run[r].status = "consolidating")
    BY <1>d, <1>e, Linked DEF Expires
  <1>7. \A m \in Lease : usage[m].status = "active"
                         /\ (usage[m].piece = p \/ m = run[r].lease) =>
            Expires(m, replaced, at)
    <2> TAKE m \in Lease
    <2> HAVE usage[m].status = "active" /\ (usage[m].piece = p \/ m = run[r].lease)
    <2>1. CASE usage[m].piece = p
      <3>1. work[p].lease = m /\ work[p].status = "leased"
        BY <2>1, Linked
      <3>2. rows[p] = work[p]
        BY <3>1, <1>2
      <3> QED BY <3>1, <3>2, <1>3 DEF Claimable, Expires
    <2>2. CASE m = run[r].lease
      BY <2>2, <1>c, <1>e DEF Expires
    <2> QED BY <2>1, <2>2
  <1> HIDE DEF replaced
  <1>8. ASSUME NEW m \in Lease PROVE ActiveOK(m)'
    <2> SUFFICES ASSUME usage'[m].status = "active" PROVE ActiveOK(m)'
      BY DEF ActiveOK
    <2>1. CASE m = l
      BY <2>1, <1>2, <1>3, <1>4, <1>5 DEF ActiveOK
    <2>2. CASE m # l
      <3>1. usage'[m] = usage[m] /\ usage[m].status = "active" /\ usage[m].piece # p
            /\ m # run[r].lease
        BY <2>2, <1>4, <1>7
      <3>2. usage[m].piece \in Piece /\ usage[m].piece[1] \in Run
            /\ work[usage[m].piece].lease = m /\ work[usage[m].piece].status = "leased"
            /\ (usage[m].piece[2] # 0 => run[usage[m].piece[1]].lease = m)
        BY <3>1, Linked DEF Used
      <3>3. work'[usage[m].piece] = work[usage[m].piece]
        BY <3>1, <3>2, <1>a
      <3>4. usage[m].piece[2] # 0 => run'[usage[m].piece[1]] = run[usage[m].piece[1]]
        BY <3>1, <3>2, <1>5
      <3> QED BY <3>1, <3>2, <3>3, <3>4 DEF ActiveOK
    <2> QED BY <2>1, <2>2
  <1>9. ASSUME NEW q \in Piece PROVE LeasedOK(q)'
    <2> SUFFICES ASSUME work'[q].status = "leased" PROVE LeasedOK(q)'
      BY DEF LeasedOK
    <2>1. CASE q = p
      BY <2>1, <1>2, <1>4 DEF LeasedOK
    <2>2. CASE q # p
      <3>1. work'[q] = work[q]
        BY <2>2, <1>b
      <3>2. work[q].lease \in Lease /\ Used(work[q].lease) /\ work[q].lease # l
            /\ usage[work[q].lease].piece = q
        BY <3>1, <1>4, Linked DEF Used
      <3>3. LeasedOK(q)
        BY MatchIs DEF Leases
      <3>4. q[1] \in Run
        BY StageOf
      <3>5. CASE Expires(work[q].lease, replaced, at)
        <4>1. usage'[work[q].lease].status = "expired" /\ usage'[work[q].lease].piece = q
          BY <3>2, <3>5, <1>4 DEF SameClaim
        <4>2. work[q].lease = run[r].lease /\ run[r].status = "consolidating"
          BY <2>2, <3>2, <3>5, <1>6
        <4>3. q[1] = r
          BY <3>2, <4>2, Linked
        <4>4. q[2] # 0
          <5>1. Completed(Pieces(r, 0))
            BY <4>2 DEF Leases, StagesOK
          <5>2. work[q].status = "leased"
            BY <3>1
          <5> QED BY <5>1, <5>2, <4>3 DEF Completed, Pieces
        <4> QED BY <3>1, <3>2, <4>1, <4>3, <4>4, <1>5 DEF LeasedOK
      <3>6. CASE ~Expires(work[q].lease, replaced, at)
        <4>1. usage'[work[q].lease] = usage[work[q].lease]
          BY <3>2, <3>6, <1>4
        <4>2. run'[q[1]].lease = run[q[1]].lease \/ run'[q[1]].lease = l
          BY <3>4, <1>5
        <4> QED BY <3>1, <3>2, <3>3, <4>1, <4>2 DEF LeasedOK
      <3> QED BY <3>5, <3>6
    <2> QED BY <2>1, <2>2
  <1>f. /\ LastStage(r)' = RoundStage(r)
        /\ \A k \in Stage : k # RoundStage(r) => Pieces(r, k)' = Pieces(r, k)
        /\ \A t \in Run \ {r} : LastStage(t)' = LastStage(t)
                                /\ \A k \in Stage : Pieces(t, k)' = Pieces(t, k)
    BY <1>0, <1>1, StagesAfterReduction
  <1>10. ASSUME NEW t \in Run PROVE ConsolidatingOK(t)'
    <2> SUFFICES ASSUME run'[t].status = "consolidating" PROVE ConsolidatingOK(t)'
      BY DEF ConsolidatingOK
    <2>1. CASE t = r
      BY <2>1, <1>3, <1>4, <1>5, <1>f DEF ConsolidatingOK
    <2>2. CASE t # r
      <3>1. run'[t] = run[t] /\ run[t].status = "consolidating"
        BY <2>2, <1>5
      <3>2. run[t].lease \in Lease /\ usage[run[t].lease].status = "active"
            /\ usage[run[t].lease].piece[1] = t
            /\ usage[run[t].lease].piece[2] = LastStage(t)
        BY <3>1, Linked
      <3>3. run[t].lease # run[r].lease \/ run[r].status # "consolidating"
        BY <2>2, <3>2, Linked
      <3>4. usage'[run[t].lease] = usage[run[t].lease]
        BY <2>2, <3>2, <3>3, <1>3, <1>4, <1>6
      <3>5. LastStage(t)' = LastStage(t)
        BY <2>2, <1>f
      <3> QED BY <3>1, <3>2, <3>4, <3>5 DEF ConsolidatingOK
    <2> QED BY <2>1, <2>2
  <1>11. ReceiptsOK'
    <2>1. receipts' = receipts
      BY DEF ClaimConsolidation
    <2>2. ASSUME NEW m \in receipts
          PROVE usage'[m] = usage[m] /\ work'[usage[m].piece] = work[usage[m].piece]
      <3>1. m \in Lease /\ usage[m].status = "consumed" /\ usage[m].piece \in Piece
            /\ work[usage[m].piece].status = "completed"
        BY Linked
      <3>2. ~Expires(m, replaced, at)
        BY <3>1 DEF Expires
      <3>3. usage'[m] = usage[m]
        BY <3>1, <3>2, <1>4
      <3> QED BY <3>1, <3>3, <1>2, <1>a
    <2>3. ReceiptsOK
      BY DEF Leases
    <2> QED BY <2>1, <2>2, <2>3 DEF ReceiptsOK
  <1>12. StagesOK'
    <2> SUFFICES ASSUME NEW t \in Run
                 PROVE  /\ run'[t].status \in {"pending", "extracting"} =>
                               \A k \in Stage \ {0} : Pieces(t, k)' = {}
                        /\ run'[t].status \in {"ready_for_consolidation", "consolidating",
                                               "failed", "candidates_ready"} =>
                               Completed(Pieces(t, 0))'
      BY DEF StagesOK
    <2>0. 0 \in Stage /\ RoundStage(r) # 0
      BY BackfillAssumption, RoundStageIs DEF Stage
    <2>1. Pieces(t, 0)' = Pieces(t, 0)
      BY <2>0, <1>f
    <2>2. Completed(Pieces(t, 0)) => Completed(Pieces(t, 0))'
      <3>1. \A q \in Pieces(t, 0) : work'[q] = work[q]
        BY <1>a, <1>2 DEF Pieces
      <3> QED BY <3>1, <2>1 DEF Completed
    <2>3. CASE t = r
      BY <2>2, <2>3, <1>5, <1>c DEF Leases, StagesOK
    <2>4. CASE t # r
      <3>1. run'[t] = run[t] /\ \A k \in Stage : Pieces(t, k)' = Pieces(t, k)
        BY <2>4, <1>5, <1>f
      <3> QED BY <3>1, <2>2 DEF Leases, StagesOK
    <2> QED BY <2>3, <2>4
  <1> QED BY <1>8, <1>9, <1>10, <1>11, <1>12, MatchIs

(* What a result does to the run of its piece, as far as leases matter.    *)
RunAfter(l, p, row) ==
    /\ \A t \in Run \ {p[1]} : run'[t] = run[t]
    /\ run'[p[1]].lease = None
    /\ p[2] = 0 =>
           /\ run[p[1]].status = "extracting"
           /\ run'[p[1]].status \in {"extracting", "ready_for_consolidation"}
           /\ run'[p[1]].status = "ready_for_consolidation" =>
                  row.status = "completed" /\ Completed(Pieces(p[1], 0) \ {p})
           /\ run'[p[1]].status = "extracting" /\ row.status = "completed" =>
                  ~Completed(Pieces(p[1], 0) \ {p})
    /\ p[2] # 0 =>
           /\ run[p[1]].status = "consolidating" /\ run[p[1]].lease = l
           /\ run'[p[1]].status \in {"ready_for_consolidation", "failed", "candidates_ready"}
           /\ run'[p[1]].status = "ready_for_consolidation" =>
                  row.status = "completed" /\ ~IsFinal(p)
           /\ run'[p[1]].status = "candidates_ready" => row.status = "completed" /\ IsFinal(p)
           /\ run'[p[1]].status = "failed" =>
                  row.status = "failed" /\ row.available = run'[p[1]].retry

LEMMA ResultRunAfter ==
  ASSUME Types, NEW s \in Session, NEW l \in Lease, NEW at \in At
  PROVE  /\ \A n \in 0 .. MaxFindings : SubmitChunk(s, l, at, n) =>
                RunAfter(l, usage[l].piece, Done(work[usage[l].piece], n))
         /\ \A n \in 0 .. MaxOutputs : CompleteConsolidation(s, l, at, n) =>
                RunAfter(l, usage[l].piece, Done(work[usage[l].piece], n))
         /\ \A retry \in Time \cup {Never} :
                FailChunk(s, l, at, retry) \/ FailConsolidation(s, l, at, retry) =>
                    RunAfter(l, usage[l].piece, Failed(work[usage[l].piece], retry))
  <1> DEFINE p == usage[l].piece
  <1>0. ASSUME HoldsLease(s, l, at)
        PROVE  /\ p[1] \in Run /\ work[p] \in PieceRow /\ run \in [Run -> RunRow]
               /\ run[p[1]].status # "consolidating" => run[p[1]].lease = None
    BY <1>0, LeaseHeld, StoredTypes DEF Types, TypeOK
  <1>1. ASSUME NEW n \in 0 .. MaxFindings, SubmitChunk(s, l, at, n)
        PROVE  RunAfter(l, p, Done(work[p], n))
    <2>1. HoldsLease(s, l, at) /\ p[2] = 0 /\ run[p[1]].status = "extracting"
      BY <1>1 DEF SubmitChunk, HoldsChunk
    <2>2. PICK next \in RunRow :
             /\ run' = [run EXCEPT ![p[1]] = next]
             /\ run[p[1]].status = "extracting"
             /\ next.status = IF Completed(Pieces(p[1], 0) \ {p})
                              THEN "ready_for_consolidation" ELSE "extracting"
             /\ next.lease = None
      BY <1>1, ResultRuns
    <2>3. Done(work[p], n).status = "completed"
      <3>1. n \in Nat /\ work[p] \in PieceRow
        BY <1>0, <2>1, BackfillAssumption
      <3> QED BY <3>1, EndedRows
    <2>4. run'[p[1]] = next /\ \A t \in Run \ {p[1]} : run'[t] = run[t]
      BY <1>0, <2>1, <2>2
    <2> HIDE DEF p
    <2> QED BY <2>1, <2>2, <2>3, <2>4 DEF RunAfter
  <1>2. ASSUME NEW n \in 0 .. MaxOutputs, CompleteConsolidation(s, l, at, n)
        PROVE  RunAfter(l, p, Done(work[p], n))
    <2>1. HoldsLease(s, l, at) /\ p[2] # 0 /\ run[p[1]].status = "consolidating"
          /\ run[p[1]].lease = l
      BY <1>2 DEF CompleteConsolidation, HoldsReduction
    <2>2. PICK next \in RunRow :
             /\ run' = [run EXCEPT ![p[1]] = next]
             /\ next.status = IF IsFinal(p) THEN "candidates_ready"
                              ELSE "ready_for_consolidation"
             /\ next.lease = None
      BY <1>2, ResultRuns
    <2>3. Done(work[p], n).status = "completed"
      <3>1. n \in Nat /\ work[p] \in PieceRow
        BY <1>0, <2>1, BackfillAssumption
      <3> QED BY <3>1, EndedRows
    <2>4. run'[p[1]] = next /\ \A t \in Run \ {p[1]} : run'[t] = run[t]
      BY <1>0, <2>1, <2>2
    <2> HIDE DEF p
    <2> QED BY <2>1, <2>2, <2>3, <2>4 DEF RunAfter
  <1>3. ASSUME NEW retry \in Time \cup {Never}, FailChunk(s, l, at, retry)
        PROVE  RunAfter(l, p, Failed(work[p], retry))
    <2>1. HoldsLease(s, l, at) /\ p[2] = 0 /\ run[p[1]].status = "extracting" /\ run' = run
      BY <1>3 DEF FailChunk, HoldsChunk
    <2>2. Failed(work[p], retry).status = "failed"
      BY <1>0, <2>1, EndedRows
    <2> QED BY <1>0, <2>1, <2>2 DEF RunAfter
  <1>4. ASSUME NEW retry \in Time \cup {Never}, FailConsolidation(s, l, at, retry)
        PROVE  RunAfter(l, p, Failed(work[p], retry))
    <2>1. HoldsLease(s, l, at) /\ p[2] # 0 /\ run[p[1]].status = "consolidating"
          /\ run[p[1]].lease = l
          /\ run' = [run EXCEPT ![p[1]] = [status |-> "failed", lease |-> None,
                                           retry |-> retry]]
      BY <1>4 DEF FailConsolidation, HoldsReduction
    <2>2. run'[p[1]] = [status |-> "failed", lease |-> None, retry |-> retry]
          /\ \A t \in Run \ {p[1]} : run'[t] = run[t]
      BY <1>0, <2>1
    <2>3. Failed(work[p], retry).status = "failed" /\ Failed(work[p], retry).available = retry
      BY <1>0, <2>1, EndedRows
    <2> HIDE DEF p
    <2> QED BY <2>1, <2>2, <2>3 DEF RunAfter
  <1> QED BY <1>1, <1>2, <1>3, <1>4

(* The rows after a result.                                                *)
LEMMA EndsRow ==
  ASSUME Leases, NEW l \in Lease, NEW p, NEW row, Ends(l, p, row)
  PROVE  /\ p \in Piece /\ p[1] \in Run /\ p[2] \in Stage
         /\ \A q \in Piece \ {p} : work'[q] = work[q]
         /\ work'[p] = row /\ row.status \in {"completed", "failed"} /\ row.lease = None
         /\ SamePieces
         /\ usage'[l].status = "consumed" /\ SameClaim(l) /\ usage[l] \in Claim
         /\ \A m \in Lease \ {l} : usage'[m] = usage[m]
         /\ receipts' = IF row.status = "completed" THEN receipts \cup {l} ELSE receipts
  <1>1. usage[l] \in Claim /\ p \in Piece /\ p = usage[l].piece
    BY Linked DEF Ends, Used
  <1>2. work \in [Piece -> PieceRow] /\ usage \in [Lease -> Claim \cup {NoClaim}]
    BY DEF Leases, Types, TypeOK
  <1>3. /\ \A q \in Piece \ {p} : work'[q] = work[q]
        /\ work'[p] = row /\ row.status \in {"completed", "failed"} /\ row.lease = None
        /\ receipts' = IF row.status = "completed" THEN receipts \cup {l} ELSE receipts
    BY <1>1, <1>2 DEF Ends
  <1>4. SamePieces
    BY <1>1, <1>3 DEF Ends, SamePieces
  <1>5. usage'[l] = [usage[l] EXCEPT !.status = "consumed"]
        /\ \A m \in Lease \ {l} : usage'[m] = usage[m]
    BY <1>2 DEF Ends, Consumed
  <1>6. usage'[l].status = "consumed" /\ SameClaim(l)
    BY <1>1, <1>5 DEF Claim, SameClaim
  <1> QED BY <1>1, <1>3, <1>4, <1>5, <1>6, StageOf

LEMMA EndMatches ==
  ASSUME Leases, NEW l \in Lease, NEW p, NEW row, Ends(l, p, row), RunAfter(l, p, row)
  PROVE  ClaimsMatchLeases' /\ ReceiptsOK' /\ StagesOK'
  <1>1. /\ p \in Piece /\ p[1] \in Run /\ p[2] \in Stage
        /\ \A q \in Piece \ {p} : work'[q] = work[q]
        /\ work'[p] = row /\ row.status \in {"completed", "failed"} /\ row.lease = None
        /\ SamePieces
        /\ usage'[l].status = "consumed" /\ SameClaim(l)
        /\ \A m \in Lease \ {l} : usage'[m] = usage[m]
        /\ receipts' = IF row.status = "completed" THEN receipts \cup {l} ELSE receipts
    BY EndsRow
  <1>2. usage[l].status = "active" /\ usage[l].piece = p
        /\ work[p].status = "leased" /\ work[p].lease = l /\ usage'[l].piece = p
    BY <1>1 DEF Ends, SameClaim
  <1>3. \A t \in Run : run[t].lease # None => run[t].status = "consolidating"
    BY StoredTypes DEF Leases
  <1>4. ASSUME NEW m \in Lease PROVE ActiveOK(m)'
    <2> SUFFICES ASSUME usage'[m].status = "active" PROVE ActiveOK(m)'
      BY DEF ActiveOK
    <2>1. m # l /\ usage'[m] = usage[m] /\ usage[m].status = "active" /\ m # None
      BY <1>1, Linked
    <2>2. usage[m].piece \in Piece /\ usage[m].piece[1] \in Run
          /\ work[usage[m].piece].lease = m
          /\ (usage[m].piece[2] # 0 => run[usage[m].piece[1]].lease = m)
      BY <2>1, Linked DEF Used
    <2>3. usage[m].piece # p /\ work'[usage[m].piece] = work[usage[m].piece]
      BY <2>1, <2>2, <1>1, <1>2
    <2>4. usage[m].piece[2] # 0 => run'[usage[m].piece[1]] = run[usage[m].piece[1]]
      BY <2>1, <2>2, <1>1, <1>3 DEF RunAfter
    <2> QED BY <2>1, <2>2, <2>3, <2>4 DEF ActiveOK
  <1>5. ASSUME NEW q \in Piece PROVE LeasedOK(q)'
    <2> SUFFICES ASSUME work'[q].status = "leased" PROVE LeasedOK(q)'
      BY DEF LeasedOK
    <2>1. q # p /\ work'[q] = work[q]
      BY <1>1
    <2>2. work[q].lease \in Lease /\ usage[work[q].lease].piece = q /\ work[q].lease # None
      BY <2>1, Linked
    <2>3. usage'[work[q].lease] = usage[work[q].lease]
      BY <2>1, <2>2, <1>1, <1>2
    <2>4. LeasedOK(q)
      BY MatchIs DEF Leases
    <2>5. run'[q[1]].lease = run[q[1]].lease \/ run'[q[1]].lease = None
      BY StageOf DEF RunAfter
    <2> QED BY <2>1, <2>2, <2>3, <2>4, <2>5 DEF LeasedOK
  <1>6. ASSUME NEW t \in Run PROVE ConsolidatingOK(t)'
    <2> SUFFICES ASSUME run'[t].status = "consolidating" PROVE ConsolidatingOK(t)'
      BY DEF ConsolidatingOK
    <2>1. t # p[1] /\ run'[t] = run[t]
      BY DEF RunAfter
    <2>2. run[t].lease \in Lease /\ usage[run[t].lease].status = "active"
          /\ usage[run[t].lease].piece[1] = t
          /\ usage[run[t].lease].piece[2] = LastStage(t)
      BY <2>1, Linked
    <2>3. usage'[run[t].lease] = usage[run[t].lease]
      BY <2>1, <2>2, <1>1, <1>2
    <2>4. LastStage(t)' = LastStage(t)
      BY <1>1, SamePiecesSame
    <2> QED BY <2>1, <2>2, <2>3, <2>4 DEF ConsolidatingOK
  <1>7. ReceiptsOK'
    <2>1. \A m \in receipts : /\ usage'[m] = usage[m] /\ usage[m].piece # p
                              /\ work'[usage[m].piece] = work[usage[m].piece]
      BY <1>1, <1>2, Linked
    <2>2. ReceiptsOK
      BY DEF Leases
    <2>3. \A m \in receipts' : usage'[m].status = "consumed"
                               /\ work'[usage'[m].piece].status = "completed"
      BY <2>1, <2>2, <1>1, <1>2 DEF ReceiptsOK
    <2>4. \A m, n \in receipts' : usage'[m].piece = usage'[n].piece => m = n
      BY <2>1, <2>2, <1>1, <1>2 DEF ReceiptsOK
    <2> QED BY <2>3, <2>4 DEF ReceiptsOK
  <1>8. StagesOK'
    <2> SUFFICES ASSUME NEW t \in Run
                 PROVE  /\ run'[t].status \in {"pending", "extracting"} =>
                               \A k \in Stage \ {0} : Pieces(t, k)' = {}
                        /\ run'[t].status \in {"ready_for_consolidation", "consolidating",
                                               "failed", "candidates_ready"} =>
                               Completed(Pieces(t, 0))'
      BY DEF StagesOK
    <2>1. 0 \in Stage /\ \A k \in Stage : Pieces(t, k)' = Pieces(t, k)
      BY <1>1, SamePiecesSame, BackfillAssumption DEF Stage
    <2>2. StagesOK
      BY DEF Leases
    <2>3. CASE t # p[1]
      <3>1. run'[t] = run[t] /\ \A q \in Pieces(t, 0) : work'[q] = work[q]
        BY <2>3, <1>1 DEF RunAfter, Pieces
      <3>2. Completed(Pieces(t, 0)) => Completed(Pieces(t, 0))'
        <4>1. Pieces(t, 0)' = Pieces(t, 0)
          BY <2>1
        <4> QED BY <3>1, <4>1 DEF Completed
      <3> QED BY <2>1, <2>2, <3>1, <3>2 DEF StagesOK
    <2>4. CASE t = p[1] /\ p[2] = 0
      <3>1. run[t].status = "extracting"
            /\ run'[t].status \in {"extracting", "ready_for_consolidation"}
            /\ (run'[t].status = "ready_for_consolidation" =>
                  row.status = "completed" /\ Completed(Pieces(t, 0) \ {p}))
        BY <2>4 DEF RunAfter
      <3>2. run'[t].status = "ready_for_consolidation" => Completed(Pieces(t, 0))'
        <4>1. Pieces(t, 0)' = Pieces(t, 0) /\ Pieces(t, 0) \subseteq Piece
          BY <2>1 DEF Pieces
        <4> QED BY <3>1, <4>1, <1>1 DEF Completed
      <3> QED BY <2>1, <2>2, <3>1, <3>2 DEF StagesOK
    <2>5. CASE t = p[1] /\ p[2] # 0
      <3>1. run[t].status = "consolidating"
            /\ run'[t].status \in {"ready_for_consolidation", "failed", "candidates_ready"}
        BY <2>5 DEF RunAfter
      <3>2. Completed(Pieces(t, 0))
        BY <2>2, <3>1 DEF StagesOK
      <3>3. \A q \in Pieces(t, 0) : work'[q] = work[q]
        BY <2>5, <1>1 DEF Pieces
      <3>4. Completed(Pieces(t, 0))'
        <4>1. Pieces(t, 0)' = Pieces(t, 0)
          BY <2>1
        <4> QED BY <3>2, <3>3, <4>1 DEF Completed
      <3> QED BY <3>1, <3>4
    <2> QED BY <2>3, <2>4, <2>5
  <1> QED BY <1>4, <1>5, <1>6, <1>7, <1>8, MatchIs

(* What an import does: the chunks are those of the new run, and what it   *)
(* supersedes is not being consolidated.                                   *)
LEMMA CreateRunIs ==
  ASSUME Types, NEW r \in Run, NEW at \in At, CreateRun(r, at)
  PROVE  /\ run[r].status = "absent"
         /\ \A q \in Piece : q[1] = r => work[q].status = "absent"
         /\ \A q \in Piece :
               work'[q] = IF q[1] = r /\ q[2] = 0 /\ q[3] < ChunkCount[r]
                          THEN NewPiece(at) ELSE work[q]
         /\ run'[r].lease = None
         /\ \/ NewerThan(r) # {} /\ run'[r].status = "superseded"
            \/ NewerThan(r) = {} /\ ChunkCount[r] = 0 /\ run'[r].status = "ready_for_consolidation"
            \/ NewerThan(r) = {} /\ ChunkCount[r] # 0 /\ run'[r].status = "pending"
         /\ \A t \in Run \ {r} :
               IF NewerThan(r) = {} /\ t \in SupersededBy(r)
               THEN /\ run[t].status # "consolidating"
                    /\ run'[t].status = "superseded" /\ run'[t].lease = None
               ELSE run'[t] = run[t]
         /\ UNCHANGED <<now, usage, receipts, turn, epoch>>
  <1>1. run[r].status = "absent" /\ run[r] \in RunRow /\ run[r].lease = None
        /\ run \in [Run -> RunRow]
    BY StoredTypes DEF CreateRun, Recorded, Types, TypeOK
  <1>2. \A q \in Piece : q[1] = r => work[q].status = "absent"
    BY <1>1, StoredTypes
  <1>3. \A q \in Piece :
            work'[q] = IF q[1] = r /\ q[2] = 0 /\ q[3] < ChunkCount[r]
                       THEN NewPiece(at) ELSE work[q]
    BY DEF CreateRun, ChunkRows
  <1>4. CASE NewerThan(r) # {}
    <2>1. run' = [run EXCEPT ![r].status = "superseded"]
      BY <1>4 DEF CreateRun
    <2>2. run'[r] = [run[r] EXCEPT !.status = "superseded"]
          /\ \A t \in Run \ {r} : run'[t] = run[t]
      BY <1>1, <2>1
    <2>3. run'[r].status = "superseded" /\ run'[r].lease = None
      BY <1>1, <2>2 DEF RunRow
    <2>4. UNCHANGED <<now, usage, receipts, turn, epoch>>
      BY DEF CreateRun
    <2> QED BY <1>1, <1>2, <1>3, <1>4, <2>2, <2>3, <2>4
  <1>5. CASE NewerThan(r) = {}
    <2>1. /\ \A q \in SupersededBy(r) : run[q].status # "consolidating"
          /\ run' = [q \in Run |->
                   IF q = r
                   THEN [run[r] EXCEPT !.status = IF ChunkCount[r] = 0
                                                  THEN "ready_for_consolidation"
                                                  ELSE "pending"]
                   ELSE IF q \in SupersededBy(r)
                        THEN [run[q] EXCEPT !.status = "superseded", !.lease = None]
                        ELSE run[q]]
      BY <1>5 DEF CreateRun
    <2>2. /\ run'[r].lease = None
          /\ run'[r].status = IF ChunkCount[r] = 0 THEN "ready_for_consolidation"
                              ELSE "pending"
      BY <1>1, <2>1 DEF RunRow
    <2>3. \A t \in Run \ {r} :
               IF t \in SupersededBy(r)
               THEN /\ run[t].status # "consolidating"
                    /\ run'[t].status = "superseded" /\ run'[t].lease = None
               ELSE run'[t] = run[t]
      <3> TAKE t \in Run \ {r}
      <3>1. CASE t \in SupersededBy(r)
        <4>1. run'[t] = [run[t] EXCEPT !.status = "superseded", !.lease = None]
              /\ run[t] \in RunRow /\ run[t].status # "consolidating"
          BY <2>1, <3>1, StoredTypes
        <4>2. run'[t].status = "superseded" /\ run'[t].lease = None
          BY <4>1 DEF RunRow
        <4> QED BY <3>1, <4>1, <4>2
      <3>2. CASE t \notin SupersededBy(r)
        <4>1. run'[t] = run[t]
          BY <2>1, <3>2
        <4> QED BY <3>2, <4>1
      <3> QED BY <3>1, <3>2
    <2>4. UNCHANGED <<now, usage, receipts, turn, epoch>>
      BY DEF CreateRun
    <2>5. \/ ChunkCount[r] = 0 /\ run'[r].status = "ready_for_consolidation"
          \/ ChunkCount[r] # 0 /\ run'[r].status = "pending"
      BY <2>2
    <2> QED BY <1>1, <1>2, <1>3, <1>5, <2>2, <2>3, <2>4, <2>5
  <1> QED BY <1>4, <1>5

LEMMA CreateRunStages ==
  ASSUME Types, NEW r \in Run, NEW at \in At, CreateRun(r, at)
  PROVE  /\ \A q \in Piece : work[q].status # "absent" => q[1] # r /\ work'[q] = work[q]
         /\ \A q \in Piece : q[1] # r => work'[q] = work[q]
         /\ \A k \in Stage \ {0} : Pieces(r, k)' = {}
         /\ \A k \in Stage : Pieces(r, k) = {}
         /\ \A p \in Pieces(r, 0)' : work'[p] = NewPiece(at)
         /\ LastStage(r) = 0 /\ LastStage(r)' = 0
         /\ \A t \in Run \ {r} : LastStage(t)' = LastStage(t)
                                 /\ \A k \in Stage : Pieces(t, k)' = Pieces(t, k)
  <1>0. 0 \in Stage /\ \A k \in Stage : k \in Nat /\ k >= 0
    BY BackfillAssumption DEF Stage
  <1>1. /\ \A q \in Piece : q[1] = r => work[q].status = "absent"
        /\ \A q \in Piece :
               work'[q] = IF q[1] = r /\ q[2] = 0 /\ q[3] < ChunkCount[r]
                          THEN NewPiece(at) ELSE work[q]
    BY CreateRunIs
  <1>2. \A k \in Stage \ {0} : Pieces(r, k)' = {}
    BY <1>1 DEF Pieces
  <1>3. \A k \in Stage : Pieces(r, k) = {}
    BY <1>1 DEF Pieces
  <1>4. \A p \in Pieces(r, 0)' : work'[p] = NewPiece(at)
    BY <1>1 DEF Pieces
  <1>5. LastStage(r) = 0
    BY <1>0, <1>3, StageIsLast
  <1>6. LastStage(r)' = 0
    <2>1. {k \in Stage : Pieces(r, k)' # {}} \subseteq {0}
      BY <1>2
    <2>2. {0} \cup {k \in Stage : Pieces(r, k)' # {}} = {0}
      BY <2>1
    <2>3. LastStage(r)' = Max({0})
      BY <2>2 DEF LastStage
    <2>4. Max({0}) = 0
      <3>1. {0} \subseteq 0 .. 0 /\ 0 \in {0} /\ \A j \in {0} : j <= 0
        OBVIOUS
      <3> QED BY <3>1, GreatestIs
    <2> QED BY <2>3, <2>4
  <1>7. \A t \in Run \ {r} : \A k : Pieces(t, k)' = Pieces(t, k)
    BY <1>1 DEF Pieces
  <1>8. \A t \in Run \ {r} : LastStage(t)' = LastStage(t)
    <2> TAKE t \in Run \ {r}
    <2>1. {k \in Stage : Pieces(t, k) # {}}' = {k \in Stage : Pieces(t, k) # {}}
      BY <1>7
    <2> QED BY <2>1 DEF LastStage
  <1> QED BY <1>1, <1>2, <1>3, <1>4, <1>5, <1>6, <1>7, <1>8

LEMMA CreateRunMatches ==
  ASSUME Leases, NEW r \in Run, NEW at \in At, CreateRun(r, at)
  PROVE  ClaimsMatchLeases' /\ ReceiptsOK' /\ StagesOK'
  <1>0. Types
    BY DEF Leases
  <1>1. /\ run[r].status = "absent" /\ run'[r].lease = None
        /\ run'[r].status \in {"superseded", "ready_for_consolidation", "pending"}
        /\ run'[r].status = "ready_for_consolidation" => ChunkCount[r] = 0
        /\ \A q \in Piece :
               work'[q] = IF q[1] = r /\ q[2] = 0 /\ q[3] < ChunkCount[r]
                          THEN NewPiece(at) ELSE work[q]
        /\ UNCHANGED <<usage, receipts>>
    BY <1>0, CreateRunIs
  <1>2. \A t \in Run \ {r} :
           \/ run'[t] = run[t]
           \/ /\ run[t].status # "consolidating"
              /\ run'[t].status = "superseded" /\ run'[t].lease = None
    BY <1>0, CreateRunIs
  <1>3. /\ \A q \in Piece : work[q].status # "absent" => q[1] # r /\ work'[q] = work[q]
        /\ \A k \in Stage \ {0} : Pieces(r, k)' = {}
        /\ \A t \in Run \ {r} : LastStage(t)' = LastStage(t)
                                /\ \A k \in Stage : Pieces(t, k)' = Pieces(t, k)
    BY <1>0, CreateRunStages
  <1>4. \A t \in Run : run[t].lease # None => run[t].status = "consolidating"
    BY <1>0, StoredTypes
  <1>5. ASSUME NEW m \in Lease PROVE ActiveOK(m)'
    <2> SUFFICES ASSUME usage[m].status = "active" PROVE ActiveOK(m)'
      BY <1>1 DEF ActiveOK
    <2>1. usage[m].piece \in Piece /\ usage[m].piece[1] \in Run /\ m # None
          /\ work[usage[m].piece].lease = m /\ work[usage[m].piece].status = "leased"
          /\ (usage[m].piece[2] # 0 => run[usage[m].piece[1]].lease = m)
      BY Linked DEF Used
    <2>2. work'[usage[m].piece] = work[usage[m].piece] /\ usage[m].piece[1] # r
      BY <2>1, <1>3
    <2>3. usage[m].piece[2] # 0 => run'[usage[m].piece[1]] = run[usage[m].piece[1]]
      BY <2>1, <2>2, <1>2, <1>4
    <2> QED BY <2>1, <2>2, <2>3, <1>1 DEF ActiveOK
  <1>6. ASSUME NEW q \in Piece PROVE LeasedOK(q)'
    <2> SUFFICES ASSUME work'[q].status = "leased" PROVE LeasedOK(q)'
      BY DEF LeasedOK
    <2>1. work'[q] = work[q]
      BY <1>1 DEF NewPiece
    <2>2. work[q].lease # None /\ q[1] # r /\ q[1] \in Run
      BY <2>1, <1>3, Linked, StageOf
    <2>3. LeasedOK(q)
      BY MatchIs DEF Leases
    <2>4. run'[q[1]].lease = run[q[1]].lease \/ run'[q[1]].lease = None
      BY <2>2, <1>2
    <2> QED BY <2>1, <2>2, <2>3, <2>4, <1>1 DEF LeasedOK
  <1>7. ASSUME NEW t \in Run PROVE ConsolidatingOK(t)'
    <2> SUFFICES ASSUME run'[t].status = "consolidating" PROVE ConsolidatingOK(t)'
      BY DEF ConsolidatingOK
    <2>1. t # r /\ run'[t] = run[t]
      BY <1>1, <1>2
    <2>2. ConsolidatingOK(t) /\ LastStage(t)' = LastStage(t)
      BY <2>1, <1>3, MatchIs DEF Leases
    <2> QED BY <2>1, <2>2, <1>1 DEF ConsolidatingOK
  <1>8. ReceiptsOK'
    <2>1. \A m \in receipts : work'[usage[m].piece] = work[usage[m].piece]
      BY <1>3, Linked
    <2> QED BY <2>1, <1>1 DEF ReceiptsOK, Leases
  <1>9. StagesOK'
    <2> SUFFICES ASSUME NEW t \in Run
                 PROVE  /\ run'[t].status \in {"pending", "extracting"} =>
                               \A k \in Stage \ {0} : Pieces(t, k)' = {}
                        /\ run'[t].status \in {"ready_for_consolidation", "consolidating",
                                               "failed", "candidates_ready"} =>
                               Completed(Pieces(t, 0))'
      BY DEF StagesOK
    <2>1. CASE t = r
      <3>1. ChunkCount[r] = 0 => Pieces(r, 0)' = {}
        <4>1. \A q \in Piece : q[3] \in Nat
          BY StageOf, BackfillAssumption DEF Index
        <4>2. \A q \in Piece : q[1] = r => work[q].status = "absent"
          BY <1>3
        <4> QED BY <4>1, <4>2, <1>1 DEF Pieces
      <3>2. ChunkCount[r] = 0 => Completed(Pieces(r, 0))'
        BY <3>1 DEF Completed
      <3> QED BY <2>1, <1>1, <1>3, <3>2
    <2>2. CASE t # r
      <3>0. 0 \in Stage
        BY BackfillAssumption DEF Stage
      <3>1. \A k \in Stage : Pieces(t, k)' = Pieces(t, k)
        BY <2>2, <1>3
      <3>2. \A q \in Pieces(t, 0) : work'[q] = work[q]
        BY <1>3 DEF Pieces
      <3>3. Completed(Pieces(t, 0)) => Completed(Pieces(t, 0))'
        <4>1. Pieces(t, 0)' = Pieces(t, 0)
          BY <3>0, <3>1
        <4> QED BY <4>1, <3>2 DEF Completed
      <3>4. run'[t] = run[t] \/ run'[t].status = "superseded"
        BY <2>2, <1>2
      <3> QED BY <3>1, <3>3, <3>4 DEF Leases, StagesOK
    <2> QED BY <2>1, <2>2
  <1> QED BY <1>5, <1>6, <1>7, <1>8, <1>9, MatchIs

(* What the manager's retries change.                                      *)
LEMMA RetryChunkIs ==
  ASSUME Types, NEW p \in Piece, NEW at \in At, NEW available \in Time,
         RetryChunk(p, at, available)
  PROVE  /\ p[2] = 0 /\ run[p[1]].status \in {"pending", "extracting"}
         /\ work[p].status = "failed" /\ work'[p].status = "pending"
         /\ work'[p].lease = None /\ work'[p].findings = work[p].findings
         /\ \A q \in Piece \ {p} : work'[q] = work[q]
         /\ UNCHANGED <<now, run, usage, receipts, turn, epoch>>
  <1>1. work[p] \in PieceRow /\ work \in [Piece -> PieceRow] /\ work[p].status = "failed"
        /\ work[p].lease = None
    BY StoredTypes DEF Types, TypeOK, RetryChunk
  <1>2. work'[p] = [work[p] EXCEPT !.status = "pending", !.available = available]
        /\ \A q \in Piece \ {p} : work'[q] = work[q]
    BY <1>1 DEF RetryChunk
  <1>3. work'[p].status = "pending" /\ work'[p].lease = None
        /\ work'[p].findings = work[p].findings
    BY <1>1, <1>2 DEF PieceRow
  <1> QED BY <1>1, <1>2, <1>3 DEF RetryChunk

LEMMA RetryConsolidationIs ==
  ASSUME Types, NEW r \in Run, NEW at \in At, RetryConsolidation(r, at)
  PROVE  /\ run[r].status = "failed" /\ Completed(Pieces(r, 0))
         /\ run'[r].status = "ready_for_consolidation" /\ run'[r].lease = None
         /\ \A t \in Run \ {r} : run'[t] = run[t]
         /\ \A q \in Piece :
               IF q[1] = r /\ q[2] # 0 /\ work[q].status = "failed"
               THEN /\ work'[q].status = "pending" /\ work'[q].available = at
                    /\ work'[q].lease = None /\ work'[q].findings = work[q].findings
               ELSE work'[q] = work[q]
         /\ UNCHANGED <<now, usage, receipts, turn, epoch>>
  <1>1. run[r] \in RunRow /\ run \in [Run -> RunRow] /\ run[r].lease = None
        /\ run[r].status = "failed"
    BY StoredTypes DEF Types, TypeOK, RetryConsolidation
  <1>2. run'[r] = [run[r] EXCEPT !.status = "ready_for_consolidation", !.retry = Never]
        /\ \A t \in Run \ {r} : run'[t] = run[t]
    BY <1>1 DEF RetryConsolidation
  <1>3. run'[r].status = "ready_for_consolidation" /\ run'[r].lease = None
    BY <1>1, <1>2 DEF RunRow
  <1>4. ASSUME NEW q \in Piece
        PROVE IF q[1] = r /\ q[2] # 0 /\ work[q].status = "failed"
               THEN /\ work'[q].status = "pending" /\ work'[q].available = at
                    /\ work'[q].lease = None /\ work'[q].findings = work[q].findings
               ELSE work'[q] = work[q]
    <2>1. CASE q[1] = r /\ q[2] # 0 /\ work[q].status = "failed"
      <3>1. work'[q] = [work[q] EXCEPT !.status = "pending", !.available = at]
            /\ work[q] \in PieceRow /\ work[q].lease = None
        BY <2>1, StoredTypes DEF RetryConsolidation
      <3>2. /\ work'[q].status = "pending" /\ work'[q].available = at
            /\ work'[q].lease = None /\ work'[q].findings = work[q].findings
        BY <3>1 DEF PieceRow
      <3> QED BY <2>1, <3>2
    <2>2. CASE ~(q[1] = r /\ q[2] # 0 /\ work[q].status = "failed")
      <3>1. work'[q] = work[q]
        BY <2>2 DEF RetryConsolidation
      <3> QED BY <2>2, <3>1
    <2> QED BY <2>1, <2>2
  <1>5. UNCHANGED <<now, usage, receipts, turn, epoch>> /\ Completed(Pieces(r, 0))
    BY DEF RetryConsolidation
  <1> QED BY <1>1, <1>2, <1>3, <1>4, <1>5

(* Steps that leave claims and leases alone.                               *)
LeavesLeases ==
    /\ UNCHANGED <<usage, receipts>>
    /\ \A q \in Piece : \/ work'[q] = work[q]
                        \/ /\ work[q].status = "failed" /\ work'[q].status = "pending"
                           /\ work'[q].lease = None
    /\ \A t \in Run : \/ run'[t] = run[t]
                      \/ /\ run[t].status = "failed" /\ run'[t].lease = None
                         /\ run'[t].status = "ready_for_consolidation"

LEMMA LeavesLeasesMatches ==
  ASSUME Leases, LeavesLeases
  PROVE  ClaimsMatchLeases' /\ ReceiptsOK' /\ StagesOK' /\ SamePieces
  <1>0. SamePieces
    BY DEF LeavesLeases, SamePieces
  <1>1. \A q \in Piece : work[q].status = "leased" \/ work[q].status = "completed"
                         => work'[q] = work[q]
    BY DEF LeavesLeases
  <1>2. \A t \in Run : run[t].lease # None => run[t].status = "consolidating"
    BY StoredTypes DEF Leases
  <1>3. ASSUME NEW m \in Lease PROVE ActiveOK(m)'
    <2> SUFFICES ASSUME usage[m].status = "active" PROVE ActiveOK(m)'
      BY DEF ActiveOK, LeavesLeases
    <2>1. usage[m].piece \in Piece /\ usage[m].piece[1] \in Run /\ m # None
          /\ work[usage[m].piece].lease = m /\ work[usage[m].piece].status = "leased"
          /\ (usage[m].piece[2] # 0 => run[usage[m].piece[1]].lease = m)
      BY Linked DEF Used
    <2>2. usage[m].piece[2] # 0 => run'[usage[m].piece[1]] = run[usage[m].piece[1]]
      BY <2>1, <1>2 DEF LeavesLeases
    <2> QED BY <2>1, <2>2, <1>1 DEF ActiveOK, LeavesLeases
  <1>4. ASSUME NEW q \in Piece PROVE LeasedOK(q)'
    <2> SUFFICES ASSUME work'[q].status = "leased" PROVE LeasedOK(q)'
      BY DEF LeasedOK
    <2>1. work'[q] = work[q] /\ work[q].lease # None /\ q[1] \in Run
      BY Linked, StageOf DEF LeavesLeases
    <2>2. LeasedOK(q)
      BY MatchIs DEF Leases
    <2>3. run'[q[1]].lease = run[q[1]].lease \/ run'[q[1]].lease = None
      BY <2>1 DEF LeavesLeases
    <2> QED BY <2>1, <2>2, <2>3 DEF LeasedOK, LeavesLeases
  <1>5. ASSUME NEW t \in Run PROVE ConsolidatingOK(t)'
    <2> SUFFICES ASSUME run'[t].status = "consolidating" PROVE ConsolidatingOK(t)'
      BY DEF ConsolidatingOK
    <2>1. run'[t] = run[t]
      BY DEF LeavesLeases
    <2>2. ConsolidatingOK(t) /\ LastStage(t)' = LastStage(t)
      BY <1>0, SamePiecesSame, MatchIs DEF Leases
    <2> QED BY <2>1, <2>2 DEF ConsolidatingOK, LeavesLeases
  <1>6. ReceiptsOK'
    BY <1>1, Linked DEF ReceiptsOK, LeavesLeases, Leases
  <1>7. StagesOK'
    <2> SUFFICES ASSUME NEW t \in Run
                 PROVE  /\ run'[t].status \in {"pending", "extracting"} =>
                               \A k \in Stage \ {0} : Pieces(t, k)' = {}
                        /\ run'[t].status \in {"ready_for_consolidation", "consolidating",
                                               "failed", "candidates_ready"} =>
                               Completed(Pieces(t, 0))'
      BY DEF StagesOK
    <2>1. 0 \in Stage /\ \A k \in Stage : Pieces(t, k)' = Pieces(t, k)
      BY <1>0, SamePiecesSame, BackfillAssumption DEF Stage
    <2>2. Completed(Pieces(t, 0)) => Completed(Pieces(t, 0))'
      <3>1. Pieces(t, 0)' = Pieces(t, 0) /\ Pieces(t, 0) \subseteq Piece
        BY <2>1 DEF Pieces
      <3> QED BY <3>1, <1>1 DEF Completed
    <2> QED BY <2>1, <2>2 DEF LeavesLeases, Leases, StagesOK
  <1> QED BY <1>0, <1>3, <1>4, <1>5, <1>6, <1>7, MatchIs

LEMMA LeasesStep ==
  ASSUME Leases, [Next]_vars
  PROVE  Leases'
  <1>0. Types /\ Types'
    BY TypesStep DEF Leases
  <1>1. CASE Around
    <2>1. LeavesLeases
      BY <1>1 DEF Around, Tick, RotateCapability, CreateRunRefused, vars, LeavesLeases
    <2> QED BY <2>1, <1>0, LeavesLeasesMatches DEF Leases
  <1>2. ASSUME NEW at \in At, Calls(at) PROVE Leases'
    <2>1. ASSUME NEW r \in Run, CreateRun(r, at) PROVE Leases'
      BY <2>1, <1>0, CreateRunMatches DEF Leases
    <2>2. ASSUME NEW s \in Session, NEW r \in Run, NEW previous \in Lease \cup {None},
                 ClaimNext(s, r, previous, at) \/ ClaimConsolidation(s, r, previous, at)
          PROVE  Leases'
      BY <2>2, <1>0, NextChunkMatches, ReductionMatches DEF Leases
    <2>3. ASSUME NEW s \in Session, NEW l \in Lease,
                 \/ \E n \in 0 .. MaxFindings : SubmitChunk(s, l, at, n)
                 \/ \E n \in 0 .. MaxOutputs : CompleteConsolidation(s, l, at, n)
                 \/ \E retry \in Time \cup {Never} :
                        FailChunk(s, l, at, retry) \/ FailConsolidation(s, l, at, retry)
          PROVE  Leases'
      <3>1. \E row : Ends(l, usage[l].piece, row) /\ RunAfter(l, usage[l].piece, row)
        BY <2>3, <1>0, ResultEnds, ResultRunAfter
      <3> QED BY <3>1, <1>0, EndMatches DEF Leases
    <2>4. ASSUME NEW p \in Piece, NEW available \in Time, RetryChunk(p, at, available)
          PROVE  Leases'
      <3>1. LeavesLeases
        BY <2>4, <1>0, RetryChunkIs DEF LeavesLeases
      <3> QED BY <3>1, <1>0, LeavesLeasesMatches DEF Leases
    <2>5. ASSUME NEW r \in Run, RetryConsolidation(r, at) PROVE Leases'
      <3>1. LeavesLeases
        BY <2>5, <1>0, RetryConsolidationIs DEF LeavesLeases
      <3> QED BY <3>1, <1>0, LeavesLeasesMatches DEF Leases
    <2> QED BY <1>2, <2>1, <2>2, <2>3, <2>4, <2>5 DEF Calls
  <1> QED BY <1>1, <1>2, StepsAre

LEMMA InitLeases == Init => Leases
  <1> SUFFICES ASSUME Init PROVE Leases
    OBVIOUS
  <1>1. Types
    BY InitTypes
  <1>2. ClaimsMatchLeases
    BY StageOf DEF Init, ClaimsMatchLeases, NoClaim
  <1>3. ReceiptsOK /\ StagesOK
    BY DEF Init, ReceiptsOK, StagesOK
  <1> QED BY <1>1, <1>2, <1>3 DEF Leases

(* The claims, the leased rows and the leases of the runs agree.           *)
THEOREM LeasesAgree == Spec => []Leases
  BY InitLeases, LeasesStep, PTL DEF Spec
-----------------------------------------------------------------------------
(* Batches and jobs.                                                       *)

(* A step makes one claim, or none.                                        *)
Moved(m, ended) ==
    \/ usage'[m] = usage[m]
    \/ usage[m].status = "active" /\ usage'[m].status = ended /\ SameClaim(m)

Claims(s, p, previous, at, l) ==
    /\ Fresh(l) /\ MayClaimAt(s, previous, at)
    /\ usage'[l] = NewClaim(s, p, previous, at)
    /\ work'[p].status = "leased"
    /\ \A m \in Lease \ {l} : Moved(m, "expired")
    /\ UNCHANGED <<now, receipts, turn, epoch>>

Keeps ==
    /\ \A m \in Lease : Moved(m, "consumed")
    /\ receipts \subseteq receipts' /\ now <= now'

LEMMA ClaimClaims ==
  ASSUME Leases, NEW s \in Session, NEW r \in Run, NEW previous \in Lease \cup {None},
         NEW at \in At,
         ClaimNext(s, r, previous, at) \/ ClaimConsolidation(s, r, previous, at)
  PROVE  \E p \in Piece, l \in Lease : Claims(s, p, previous, at, l)
  <1>0. Types /\ TypeOK
    BY DEF Leases, Types
  <1>1. UNCHANGED <<now, receipts, turn, epoch>> /\ MayClaimAt(s, previous, at)
    BY DEF ClaimNext, ClaimConsolidation
  <1>2. \E p \in Piece, l \in Lease, replaced \in SUBSET (Lease \cup {None}) :
           /\ Fresh(l) /\ work'[p].status = "leased"
           /\ usage' = UsageAfterClaim(s, p, replaced, l, previous, at)
    <2>1. CASE ClaimNext(s, r, previous, at)
      <3>1. PICK p \in Piece, l \in Lease : TakesChunk(s, r, previous, at, p, l)
        BY <1>0, <2>1, ClaimNextIs
      <3>2. work'[p].status = "leased"
        BY <1>0, <3>1, ChunkRow
      <3>3. Fresh(l) /\ usage' = UsageAfterClaim(s, p, {work[p].lease}, l, previous, at)
        BY <3>1 DEF TakesChunk
      <3>4. work[p].lease \in Lease \cup {None}
        BY <1>0, StoredTypes DEF PieceRow
      <3> QED BY <3>2, <3>3, <3>4
    <2>2. CASE ClaimConsolidation(s, r, previous, at)
      <3>1. PICK p \in Piece, l \in Lease, rows \in [Piece -> PieceRow] :
                TakesReduction(s, r, previous, at, p, l, rows)
        BY <1>0, <2>2, ClaimConsolidationIs
      <3>2. work'[p].status = "leased"
        BY <1>0, <3>1, ReductionRow
      <3>3. Fresh(l)
            /\ usage' = UsageAfterClaim(s, p, {run[r].lease, rows[p].lease}, l, previous, at)
        BY <3>1 DEF TakesReduction
      <3>4. run[r].lease \in Lease \cup {None} /\ rows[p].lease \in Lease \cup {None}
        BY <1>0, StoredTypes DEF PieceRow, RunRow
      <3> QED BY <3>2, <3>3, <3>4
    <2> QED BY <2>1, <2>2
  <1>3. PICK p \in Piece, l \in Lease, replaced \in SUBSET (Lease \cup {None}) :
           /\ Fresh(l) /\ work'[p].status = "leased"
           /\ usage' = UsageAfterClaim(s, p, replaced, l, previous, at)
    BY <1>2
  <1>4. /\ usage'[l] = NewClaim(s, p, previous, at)
        /\ \A m \in Lease \ {l} :
              /\ Expires(m, replaced, at) => usage'[m].status = "expired" /\ SameClaim(m)
              /\ ~Expires(m, replaced, at) => usage'[m] = usage[m]
    BY <1>0, <1>3, UsageAfter
  <1>5. \A m \in Lease \ {l} : Moved(m, "expired")
    BY <1>4 DEF Moved, Expires
  <1> QED BY <1>1, <1>3, <1>4, <1>5 DEF Claims

LEMMA ClaimsOrKeeps ==
  ASSUME Leases, [Next]_vars
  PROVE  \/ Keeps
         \/ \E s \in Session, p \in Piece, previous \in Lease \cup {None}, at \in At,
               l \in Lease : Claims(s, p, previous, at, l)
  <1>0. Types /\ now \in Nat
    BY BackfillAssumption DEF Leases, Types, TypeOK, Time
  <1>1. UNCHANGED <<usage, receipts, now>> => Keeps
    BY <1>0 DEF Keeps, Moved
  <1>2. CASE Around
    <2>1. UNCHANGED <<usage, receipts>> /\ now <= now'
      BY <1>0, <1>2 DEF Around, Tick, RotateCapability, CreateRunRefused, vars
    <2> QED BY <2>1 DEF Keeps, Moved
  <1>3. ASSUME NEW at \in At, Calls(at)
        PROVE  \/ Keeps
               \/ \E s \in Session, p \in Piece, previous \in Lease \cup {None},
                     l \in Lease : Claims(s, p, previous, at, l)
    <2>1. ASSUME NEW r \in Run, CreateRun(r, at) PROVE Keeps
      BY <2>1, <1>1 DEF CreateRun
    <2>2. ASSUME NEW s \in Session, NEW r \in Run, NEW previous \in Lease \cup {None},
                 ClaimNext(s, r, previous, at) \/ ClaimConsolidation(s, r, previous, at)
          PROVE  \E p \in Piece, l \in Lease : Claims(s, p, previous, at, l)
      BY <2>2, ClaimClaims
    <2>3. ASSUME NEW s \in Session, NEW l \in Lease,
                 \/ \E n \in 0 .. MaxFindings : SubmitChunk(s, l, at, n)
                 \/ \E n \in 0 .. MaxOutputs : CompleteConsolidation(s, l, at, n)
                 \/ \E retry \in Time \cup {Never} :
                        FailChunk(s, l, at, retry) \/ FailConsolidation(s, l, at, retry)
          PROVE  Keeps
      <3>1. PICK row : Ends(l, usage[l].piece, row)
        BY <2>3, <1>0, ResultEnds
      <3>2. /\ usage'[l].status = "consumed" /\ SameClaim(l)
            /\ \A m \in Lease \ {l} : usage'[m] = usage[m]
            /\ receipts' = IF row.status = "completed" THEN receipts \cup {l} ELSE receipts
        BY <3>1, EndsRow
      <3>3. usage[l].status = "active" /\ now' = now
        BY <3>1 DEF Ends
      <3> QED BY <1>0, <3>2, <3>3 DEF Keeps, Moved
    <2>4. ASSUME NEW p \in Piece, NEW available \in Time, RetryChunk(p, at, available)
          PROVE  Keeps
      BY <2>4, <1>1 DEF RetryChunk
    <2>5. ASSUME NEW r \in Run, RetryConsolidation(r, at) PROVE Keeps
      BY <2>5, <1>1 DEF RetryConsolidation
    <2> QED BY <1>3, <2>1, <2>2, <2>3, <2>4, <2>5 DEF Calls
  <1> QED BY <1>2, <1>3, StepsAre

LEMMA MovedSame ==
  ASSUME Types, NEW m \in Lease, NEW ended \in {"expired", "consumed"}, Moved(m, ended)
  PROVE  /\ SameClaim(m) /\ (Used(m)' <=> Used(m))
         /\ usage'[m].status = "active" => usage'[m] = usage[m]
  BY DEF Moved, SameClaim, Used

(* A fresh lease comes after all the others.                               *)
LEMMA FreshIsNext ==
  ASSUME ChainsOK, NEW l \in Lease, Fresh(l)
  PROVE  \A m \in Lease : Used(m) <=> m < l
  <1>1. \A m \in Lease : m \in Int
    BY BackfillAssumption DEF Lease
  <1>2. ~Used(l) /\ \A m \in Lease : m < l => Used(m)
    BY DEF Fresh, Used
  <1>3. \A m \in Lease : Used(m) => ~(l < m)
    BY <1>2 DEF ChainsOK
  <1> QED BY <1>1, <1>2, <1>3

LEMMA NumbersOfLeases ==
  /\ \A m \in Lease : m \in Nat /\ m > None
  /\ None \notin Lease /\ None = 0
  BY BackfillAssumption DEF Lease, None

(* The largest claim of a turn.                                            *)
LEMMA LatestInTurn ==
  ASSUME NEW s \in Session, InTurn(s) # {}
  PROVE  Max(InTurn(s)) \in InTurn(s) /\ \A m \in InTurn(s) : m <= Max(InTurn(s))
  <1> DEFINE S == InTurn(s)
  <1>1. S \subseteq 0 .. MaxLease /\ S # {} /\ MaxLease \in Nat
    <2>1. Lease \subseteq 0 .. MaxLease /\ MaxLease \in Nat
      BY BackfillAssumption DEF Lease
    <2> QED BY <2>1 DEF InTurn
  <1> HIDE DEF S
  <1>2. Max(S) \in S /\ \A m \in S : m <= Max(S)
    BY <1>1, Greatest
  <1> QED BY <1>2 DEF S

LEMMA ChainsStep ==
  ASSUME Leases, ChainsOK, [Next]_vars
  PROVE  ChainsOK'
  <1>0. Types /\ \A m \in Lease : m \in Nat
    BY NumbersOfLeases DEF Leases
  <1>1. CASE Keeps
    <2>1. \A m \in Lease : SameClaim(m) /\ (Used(m)' <=> Used(m))
      BY <1>0, <1>1, MovedSame DEF Keeps
    <2>2. \A l \in Lease : InTurnOf(l)' = InTurnOf(l)
      BY <2>1 DEF InTurnOf, SameClaim
    <2>3. receipts \subseteq receipts'
      BY <1>1 DEF Keeps
    <2> SUFFICES ASSUME NEW l \in Lease, Used(l)
                 PROVE  /\ \A m \in Lease : m < l => Used(m)'
                        /\ usage'[l].previous # None => usage'[l].previous \in InTurnOf(l)'
                        /\ \A m \in InTurnOf(l)' : m \in receipts' /\ m <= usage'[l].previous
                        /\ usage'[l].previous # None =>
                               usage'[usage'[l].previous].epoch = usage'[l].epoch
      BY <2>1 DEF ChainsOK
    <2>4. usage'[l].previous = usage[l].previous /\ usage'[l].epoch = usage[l].epoch
      BY <2>1 DEF SameClaim
    <2>5. usage[l].previous # None => /\ usage[l].previous \in InTurnOf(l)
                                      /\ usage[l].previous \in Lease
                                      /\ usage[usage[l].previous].epoch = usage[l].epoch
      BY DEF ChainsOK, InTurnOf
    <2>6. usage[l].previous # None =>
              usage'[usage[l].previous].epoch = usage[usage[l].previous].epoch
      BY <2>5, <2>1 DEF SameClaim
    <2>7. \A m \in InTurnOf(l) : m \in receipts /\ m <= usage[l].previous
      BY DEF ChainsOK
    <2>8. \A m \in Lease : m < l => Used(m)'
      BY <2>1 DEF ChainsOK
    <2> QED BY <2>2, <2>3, <2>4, <2>5, <2>6, <2>7, <2>8
  <1>2. ASSUME NEW s \in Session, NEW p \in Piece, NEW previous \in Lease \cup {None},
               NEW at \in At, NEW l \in Lease, Claims(s, p, previous, at, l)
        PROVE  ChainsOK'
    <2>1. Fresh(l) /\ MayClaimAt(s, previous, at) /\ receipts' = receipts
          /\ usage'[l] = NewClaim(s, p, previous, at)
      BY <1>2 DEF Claims
    <2>2. \A m \in Lease : Used(m) <=> m < l
      BY <2>1, FreshIsNext
    <2>3. \A m \in Lease \ {l} : SameClaim(m) /\ (Used(m)' <=> Used(m))
      BY <1>0, <1>2, MovedSame DEF Claims
    <2>4. /\ usage'[l].session = s /\ usage'[l].epoch = epoch[s] /\ Used(l)'
          /\ usage'[l].turn = IF s \in Background THEN previous ELSE turn[s]
          /\ usage'[l].previous = IF s \in Background THEN None ELSE previous
      BY <2>1 DEF NewClaim, Used
    <2>5. ASSUME NEW m \in Lease \ {l}, Used(m)
          PROVE  InTurnOf(m)' = InTurnOf(m)
      <3>1. \A n \in Lease : n < m => n # l
        BY <2>2, <2>5, <1>0
      <3> QED BY <3>1, <2>3 DEF InTurnOf, SameClaim
    <2>6. ASSUME NEW m \in Lease \ {l}, Used(m)
          PROVE  /\ \A n \in Lease : n < m => Used(n)'
                 /\ usage'[m].previous # None => usage'[m].previous \in InTurnOf(m)'
                 /\ \A n \in InTurnOf(m)' : n \in receipts' /\ n <= usage'[m].previous
                 /\ usage'[m].previous # None =>
                               usage'[usage'[m].previous].epoch = usage'[m].epoch
      <3>1. usage'[m].previous = usage[m].previous /\ usage'[m].epoch = usage[m].epoch
        BY <2>3 DEF SameClaim
      <3>2. usage[m].previous # None => /\ usage[m].previous \in InTurnOf(m)
                                        /\ usage[m].previous \in Lease
                                        /\ Used(usage[m].previous)
                                        /\ usage[usage[m].previous].epoch = usage[m].epoch
        BY <2>6 DEF ChainsOK, InTurnOf
      <3>3. usage[m].previous # None =>
                usage'[usage[m].previous].epoch = usage[usage[m].previous].epoch
        <4>1. ~Used(l)
          BY <2>1 DEF Fresh, Used
        <4> QED BY <3>2, <4>1, <2>3 DEF SameClaim
      <3>4. \A n \in InTurnOf(m) : n \in receipts /\ n <= usage[m].previous
        BY <2>6 DEF ChainsOK
      <3>5. \A n \in Lease : n < m => Used(n)'
        BY <2>6, <2>3, <2>4 DEF ChainsOK
      <3> QED BY <2>1, <2>5, <2>6, <3>1, <3>2, <3>3, <3>4, <3>5
    <2>7. \A n \in Lease : n < l => Used(n)'
      BY <2>2, <2>3, <1>0
    <2>8. CASE s \in Background
      <3>1. InTurnOf(l)' = {}
        <4>1. \A m \in Lease : Used(m) /\ usage[m].session = s => usage[m].turn # previous
          BY <2>1, <2>8 DEF MayClaimAt, MayContinue, Used
        <4>2. \A m \in Lease : m < l => /\ m # l /\ Used(m)
                                        /\ usage'[m].session = usage[m].session
                                        /\ usage'[m].turn = usage[m].turn
          BY <2>2, <2>3, <1>0 DEF SameClaim
        <4> QED BY <4>1, <4>2, <2>4, <2>8 DEF InTurnOf
      <3>2. usage'[l].previous = None
        BY <2>4, <2>8
      <3> QED BY <3>1, <3>2, <2>6, <2>7, <2>3 DEF ChainsOK
    <2>9. CASE s \notin Background
      <3>1. InTurnOf(l)' = InTurn(s)
        <4>1. \A m \in Lease : m < l => /\ m # l /\ Used(m)
                                        /\ usage'[m].session = usage[m].session
                                        /\ usage'[m].turn = usage[m].turn
          BY <2>2, <2>3, <1>0 DEF SameClaim
        <4>2. \A m \in Lease : m \in InTurn(s) <=>
                  m < l /\ usage[m].session = s /\ usage[m].turn = turn[s]
          BY <2>2 DEF InTurn, Used
        <4>3. \A m \in Lease : m \in InTurnOf(l)' <=> m \in InTurn(s)
          <5>1. usage'[l].session = s /\ usage'[l].turn = turn[s]
            BY <2>4, <2>9
          <5>2. \A m \in Lease : m < l => Used(m)'
            BY <2>7
          <5>3. InTurnOf(l)' = {m \in Lease : /\ m < l /\ Used(m)'
                                              /\ usage'[m].session = usage'[l].session
                                              /\ usage'[m].turn = usage'[l].turn}
            BY DEF InTurnOf
          <5> QED BY <5>1, <5>2, <5>3, <4>1, <4>2
        <4> QED BY <4>3 DEF InTurnOf, InTurn
      <3>2. usage'[l].previous = previous
        BY <2>4, <2>9
      <3>3. \/ previous = None /\ InTurn(s) = {}
            \/ /\ previous \in InTurn(s) /\ previous = Max(InTurn(s))
               /\ usage[previous].epoch = epoch[s] /\ previous \in receipts
        BY <2>1, <2>9 DEF MayClaimAt, MayClaim
      <3>4. \A m \in InTurn(s) : m \in receipts /\ m <= previous
        <4>1. CASE InTurn(s) = {}
          BY <4>1
        <4>2. CASE InTurn(s) # {}
          <5>1. previous \in InTurn(s) /\ previous \in receipts
                /\ \A m \in InTurn(s) : m <= previous
            BY <3>3, <4>2, LatestInTurn
          <5>2. \A m \in InTurn(s) : m < previous => m \in InTurnOf(previous)
            BY <5>1 DEF InTurn, InTurnOf, Used
          <5>3. \A m \in InTurnOf(previous) : m \in receipts
            BY <5>1 DEF ChainsOK, InTurn, Used
          <5>4. \A m \in InTurn(s) : m < previous \/ m = previous
            BY <5>1, <1>0 DEF InTurn
          <5> QED BY <5>1, <5>2, <5>3, <5>4
        <4> QED BY <4>1, <4>2
      <3>5. previous # None => /\ previous \in InTurn(s) /\ previous \in Lease /\ previous # l
                               /\ usage'[previous].epoch = epoch[s]
        <4>1. previous # None => /\ previous \in InTurn(s) /\ previous \in Lease
                                 /\ previous # l /\ usage[previous].epoch = epoch[s]
          BY <3>3, <2>1 DEF InTurn, Fresh
        <4> QED BY <4>1, <2>3 DEF SameClaim
      <3>6. usage'[l].epoch = epoch[s]
        BY <2>4
      <3> QED BY <3>1, <3>2, <3>4, <3>5, <3>6, <2>1, <2>6, <2>7, <2>3 DEF ChainsOK
    <2> QED BY <2>8, <2>9
  <1> QED BY <1>1, <1>2, ClaimsOrKeeps

(* A claim of a job: every earlier claim of the grant is the one it names  *)
(* or came before it.                                                      *)
LEMMA JobIsLatest ==
  ASSUME JobsOK, NEW s \in Background, NEW after \in Lease \cup {None}, NEW at \in At,
         MayContinue(s, after, at)
  PROVE  \A m \in Lease : Used(m) /\ usage[m].session = s => m <= after
  <1> DEFINE S == {m \in Lease : Used(m) /\ usage[m].session = s /\ m > after}
  <1>0. \A m \in Lease \cup {None} : m \in Nat
    BY NumbersOfLeases
  <1>1. CASE S = {}
    <2>1. \A m \in Lease : Used(m) /\ usage[m].session = s => ~(m > after)
      BY <1>1
    <2> QED BY <1>0, <2>1
  <1>2. CASE S # {}
    <2>1. S \subseteq Nat
      BY <1>0
    <2>2. PICK m \in S : \A n \in S : m <= n
      <3> HIDE DEF S
      <3> QED BY <1>2, <2>1, Least
    <2>3. m \in Lease /\ Used(m) /\ usage[m].session = s /\ m > after
      BY <2>2
    <2>4. usage[m].turn \in Earlier(s, m) \cup {None}
          /\ \A n \in Earlier(s, m) : n <= usage[m].turn
      BY <2>3 DEF JobsOK
    <2>5. usage[m].turn # after
      BY <2>3 DEF MayContinue, Used
    <2>6. after \in Earlier(s, m) \cup {None}
      BY <2>3 DEF MayContinue, Earlier, Used
    <2>7. \A n \in Earlier(s, m) : n \in Lease /\ ~(n > after)
      <3>1. \A n \in Earlier(s, m) : n \in Lease /\ n < m /\ Used(n) /\ usage[n].session = s
        BY DEF Earlier
      <3>2. \A n \in Earlier(s, m) : n > after => n \in S
        BY <3>1
      <3> HIDE DEF S
      <3>3. \A n \in Earlier(s, m) : n > after => m <= n /\ n < m
        BY <3>1, <3>2, <2>2
      <3> QED BY <3>1, <3>3, <1>0, <2>3
    <2>8. CASE after = None
      <3>1. usage[m].turn = None
        BY <2>4, <2>7, <2>8, NumbersOfLeases
      <3> QED BY <3>1, <2>5, <2>8
    <2>9. CASE after # None
      <3>1. after \in Earlier(s, m) /\ after <= usage[m].turn
        BY <2>4, <2>6, <2>9
      <3>2. usage[m].turn # None
        BY <3>1, <2>9, <1>0, NumbersOfLeases
      <3>3. usage[m].turn \in Lease /\ ~(usage[m].turn > after)
        BY <2>4, <2>7, <3>2
      <3>4. usage[m].turn = after
        BY <3>1, <3>3, <1>0
      <3> QED BY <3>4, <2>5
    <2> QED BY <2>8, <2>9
  <1> QED BY <1>1, <1>2

LEMMA LiveLater ==
  ASSUME Types, NEW m \in Lease, NEW ended \in {"expired", "consumed"}, Moved(m, ended),
         now <= now', now' \in Nat
  PROVE  Live(m, now)' => Live(m, now)
  <1> SUFFICES ASSUME Live(m, now)' PROVE Live(m, now)
    OBVIOUS
  <1>1. usage'[m].status = "active" /\ usage'[m].expires > now'
    BY DEF Live
  <1>2. usage'[m] = usage[m]
    BY <1>1, MovedSame
  <1>3. usage[m].status = "active" /\ usage[m].expires > now'
    BY <1>1, <1>2
  <1>4. usage[m].expires \in Int /\ now \in Nat
    <2>1. usage[m] \in Claim
      BY <1>3 DEF Types, TypeOK, NoClaim
    <2> QED BY <2>1, BackfillAssumption DEF Claim, Types, TypeOK, Time
  <1>5. usage[m].expires > now
    BY <1>3, <1>4
  <1> QED BY <1>3, <1>5 DEF Live

LEMMA JobsStep ==
  ASSUME Leases, ChainsOK, JobsOK, [Next]_vars
  PROVE  JobsOK'
  <1>0. Types /\ \A m \in Lease : m \in Nat
    BY NumbersOfLeases DEF Leases
  <1>a. now' \in Nat /\ now \in Nat
    BY TypesStep, <1>0, BackfillAssumption DEF Types, TypeOK, Time
  <1>1. CASE Keeps
    <2>1. \A m \in Lease : SameClaim(m) /\ (Used(m)' <=> Used(m)) /\ (Live(m, now)' => Live(m, now))
      BY <1>0, <1>1, <1>a, MovedSame, LiveLater DEF Keeps
    <2>2. \A s : \A l \in Lease : Earlier(s, l)' = Earlier(s, l)
      BY <2>1 DEF Earlier, SameClaim
    <2> SUFFICES ASSUME NEW s \in Background, NEW l \in Lease, Used(l)', usage'[l].session = s
                 PROVE  /\ usage'[l].previous = None
                        /\ usage'[l].turn \in Earlier(s, l)' \cup {None}
                        /\ \A m \in Earlier(s, l)' : m <= usage'[l].turn /\ ~Live(m, now)'
      BY DEF JobsOK
    <2>3. Used(l) /\ usage[l].session = s /\ usage'[l].previous = usage[l].previous
          /\ usage'[l].turn = usage[l].turn
      BY <2>1 DEF SameClaim
    <2>4. /\ usage[l].previous = None
          /\ usage[l].turn \in Earlier(s, l) \cup {None}
          /\ \A m \in Earlier(s, l) : m <= usage[l].turn /\ ~Live(m, now)
      BY <2>3 DEF JobsOK
    <2>5. \A m \in Earlier(s, l) : m \in Lease
      BY DEF Earlier
    <2> QED BY <2>1, <2>2, <2>3, <2>4, <2>5
  <1>2. ASSUME NEW q \in Session, NEW p \in Piece, NEW previous \in Lease \cup {None},
               NEW at \in At, NEW l \in Lease, Claims(q, p, previous, at, l)
        PROVE  JobsOK'
    <2>1. Fresh(l) /\ MayClaimAt(q, previous, at) /\ now' = now
          /\ usage'[l] = NewClaim(q, p, previous, at)
      BY <1>2 DEF Claims
    <2>2. (\A m \in Lease : Used(m) <=> m < l) /\ ~Used(l)
      BY <2>1, FreshIsNext DEF Fresh, Used
    <2>3. \A m \in Lease \ {l} : SameClaim(m) /\ (Used(m)' <=> Used(m))
                                 /\ (Live(m, now)' => Live(m, now))
      BY <1>0, <1>2, <1>a, <2>1, MovedSame, LiveLater DEF Claims
    <2>4. ASSUME NEW s, NEW m \in Lease, Used(m) \/ m = l
          PROVE  Earlier(s, m)' = Earlier(s, m)
      <3>1. \A n \in Lease : n < m => n # l
        BY <2>2, <2>4, <1>0
      <3> QED BY <3>1, <2>3 DEF Earlier, SameClaim
    <2> SUFFICES ASSUME NEW s \in Background, NEW k \in Lease, Used(k)', usage'[k].session = s
                 PROVE  /\ usage'[k].previous = None
                        /\ usage'[k].turn \in Earlier(s, k)' \cup {None}
                        /\ \A m \in Earlier(s, k)' : m <= usage'[k].turn /\ ~Live(m, now)'
      BY DEF JobsOK
    <2>5. CASE k # l
      <3>1. Used(k) /\ usage[k].session = s /\ usage'[k].previous = usage[k].previous
            /\ usage'[k].turn = usage[k].turn
        BY <2>3, <2>5 DEF SameClaim
      <3>2. /\ usage[k].previous = None
            /\ usage[k].turn \in Earlier(s, k) \cup {None}
            /\ \A m \in Earlier(s, k) : m <= usage[k].turn /\ ~Live(m, now)
        BY <3>1 DEF JobsOK
      <3>3. \A m \in Earlier(s, k) : m \in Lease /\ m # l
        BY <2>2 DEF Earlier
      <3>4. Earlier(s, k)' = Earlier(s, k)
        BY <3>1, <2>4
      <3> QED BY <2>3, <3>1, <3>2, <3>3, <3>4
    <2>6. CASE k = l
      <3>1. s = q /\ usage'[l].previous = None /\ usage'[l].turn = previous
        BY <2>1, <2>6 DEF NewClaim
      <3>2. MayContinue(s, previous, at)
        BY <2>1, <3>1 DEF MayClaimAt
      <3>3. \A m \in Lease : Used(m) /\ usage[m].session = s => m <= previous
        BY <3>2, JobIsLatest
      <3>4. previous # None => previous \in Lease /\ Used(previous) /\ usage[previous].session = s
                               /\ ~Live(previous, at)
        BY <3>2 DEF MayContinue, Used
      <3>5. previous \in Earlier(s, l) \cup {None}
        BY <3>4, <2>2 DEF Earlier
      <3>6. ASSUME NEW m \in Earlier(s, l) PROVE m <= previous /\ ~Live(m, now)' /\ m \in Lease
        <4>1. m \in Lease /\ Used(m) /\ usage[m].session = s /\ m # l /\ m <= previous
          BY <3>3, <2>2 DEF Earlier
        <4>2. previous \in Lease /\ Used(previous) /\ usage[previous].session = s
              /\ ~Live(previous, at)
          BY <4>1, <3>4, NumbersOfLeases, <1>0
        <4>3. CASE m = previous
          <5>1. ~Live(m, at) /\ at <= now /\ at \in Nat
            BY <4>2, <4>3, AtIsTime, BackfillAssumption DEF Time
          <5>2. ~Live(m, now)
            <6>1. usage[m] \in Claim
              BY <4>1, <1>0 DEF Used, Types, TypeOK, NoClaim
            <6>2. usage[m].expires \in Int
              BY <6>1, BackfillAssumption DEF Claim
            <6> QED BY <5>1, <6>2, <1>a DEF Live
          <5> QED BY <4>1, <5>2, <2>3
        <4>4. CASE m # previous
          <5>1. m \in Earlier(s, previous)
            BY <4>1, <4>2, <4>4, <1>0 DEF Earlier
          <5>2. ~Live(m, now)
            BY <4>2, <5>1 DEF JobsOK
          <5> QED BY <4>1, <5>2, <2>3
        <4> QED BY <4>3, <4>4
      <3>7. Earlier(s, l)' = Earlier(s, l)
        BY <2>4
      <3> QED BY <2>6, <3>1, <3>5, <3>6, <3>7
    <2> QED BY <2>5, <2>6
  <1> QED BY <1>1, <1>2, ClaimsOrKeeps

(* Chains and jobs make batches.                                           *)
LEMMA BatchesHold ==
  ASSUME Leases, ChainsOK, JobsOK
  PROVE  BatchesAreChains
  <1>0. /\ Types /\ now \in Nat
        /\ \A m \in Lease : m \in Nat /\ m > None
        /\ None = 0 /\ None \notin Lease
    BY NumbersOfLeases, BackfillAssumption DEF Leases, Types, TypeOK, Time
  <1>1. ASSUME NEW l \in Lease, Used(l), usage[l].previous # None
        PROVE  LET before == usage[usage[l].previous]
               IN  /\ before.status = "consumed"
                   /\ usage[l].previous \in receipts
                   /\ before.session = usage[l].session
                   /\ before.turn = usage[l].turn
                   /\ before.epoch = usage[l].epoch
    <2>1. usage[l].previous \in InTurnOf(l) /\ usage[l].previous \in receipts
          /\ usage[usage[l].previous].epoch = usage[l].epoch
      BY <1>1 DEF ChainsOK
    <2> QED BY <2>1, Linked DEF InTurnOf
  <1>2. ASSUME NEW l \in Lease, NEW m \in Lease, m < l, Used(l), Used(m),
               usage[m].session = usage[l].session, usage[m].turn = usage[l].turn
        PROVE  usage[m].previous # usage[l].previous /\ usage[m].status # "active"
    <2>1. m \in InTurnOf(l)
      BY <1>2 DEF InTurnOf
    <2>2. m \in receipts /\ m <= usage[l].previous
      BY <2>1, <1>2 DEF ChainsOK
    <2>3. usage[m].status # "active"
      BY <2>2, Linked
    <2>4. usage[m].previous = None \/ (usage[m].previous \in Lease /\ usage[m].previous < m)
      BY <1>2 DEF ChainsOK, InTurnOf
    <2>5. usage[l].previous = None \/ usage[l].previous \in Lease
      BY <1>2 DEF ChainsOK, InTurnOf
    <2>6. usage[m].previous # usage[l].previous
      BY <2>2, <2>4, <2>5, <1>0
    <2> QED BY <2>3, <2>6
  <1>3. ASSUME NEW l \in Lease, NEW m \in Lease \ {l}, Used(l), Used(m),
               usage[m].session = usage[l].session, usage[m].turn = usage[l].turn
        PROVE  /\ usage[m].previous # usage[l].previous
               /\ ~(usage[m].status = "active" /\ usage[l].status = "active")
    <2>1. CASE m < l
      BY <2>1, <1>2, <1>3
    <2>2. CASE l < m
      <3>1. usage[l].previous # usage[m].previous /\ usage[l].status # "active"
        BY <2>2, <1>2, <1>3
      <3> QED BY <3>1
    <2> QED BY <2>1, <2>2, <1>0
  <1>4. ASSUME NEW s \in Background, NEW l \in Lease, NEW m \in Lease,
               Used(l), usage[l].session = s, Used(m), usage[m].session = s, m < l
        PROVE  ~Live(m, now)
    BY <1>4 DEF JobsOK, Earlier
  <1>5. ASSUME NEW s \in Background, NEW l \in Lease, NEW m \in Lease,
               Used(l), usage[l].session = s, Used(m), usage[m].session = s,
               Live(l, now), Live(m, now)
        PROVE  l = m
    <2>1. ~(m < l) /\ ~(l < m)
      BY <1>4, <1>5
    <2> QED BY <2>1, <1>0
  <1>6. ASSUME NEW s \in Background
        PROVE  \/ Resumed(s) # None /\ Live(Resumed(s), now)
               \/ MayContinue(s, Resumed(s), now)
    <2> DEFINE S == {None} \cup {l \in Lease : usage[l].status # "unused" /\ usage[l].session = s}
    <2>1. S \subseteq 0 .. MaxLease /\ S # {} /\ MaxLease \in Nat
      <3>1. Lease \subseteq 0 .. MaxLease /\ MaxLease \in Nat /\ 0 \in 0 .. MaxLease
        BY BackfillAssumption DEF Lease
      <3> QED BY <3>1, <1>0
    <2>2. Max(S) \in S /\ \A m \in S : m <= Max(S)
      <3> HIDE DEF S
      <3> QED BY <2>1, Greatest
    <2>3. Max(S) = Resumed(s)
      BY DEF Resumed
    <2>4. PICK x \in Lease \cup {None} :
             /\ x = Resumed(s)
             /\ x # None => Used(x) /\ usage[x].session = s
             /\ \A m \in Lease : Used(m) /\ usage[m].session = s => m <= x
      BY <2>2, <2>3 DEF Used
    <2>5. \A m \in Lease : Used(m) /\ usage[m].session = s => usage[m].turn # x
      <3> TAKE m \in Lease
      <3> HAVE Used(m) /\ usage[m].session = s
      <3>1. m <= x /\ x # None /\ x \in Lease
        BY <2>4, <1>0
      <3>2. usage[m].turn \in Earlier(s, m) \cup {None}
        BY DEF JobsOK
      <3>3. usage[m].turn # None => usage[m].turn \in Lease /\ usage[m].turn < m
        BY <3>2 DEF Earlier
      <3> QED BY <3>1, <3>3, <1>0
    <2> HIDE DEF S
    <2>6. CASE x # None /\ Live(x, now)
      BY <2>4, <2>6
    <2>7. CASE ~(x # None /\ Live(x, now))
      <3>1. MayContinue(s, x, now)
        BY <2>4, <2>5, <2>7 DEF MayContinue, Used
      <3> QED BY <3>1, <2>4
    <2> QED BY <2>6, <2>7
  <1> QED BY <1>1, <1>3, <1>5, <1>6 DEF BatchesAreChains, Used

LEMMA InitChains == Init => ChainsOK /\ JobsOK
  BY DEF Init, ChainsOK, JobsOK, Used, NoClaim

(* The claims of a turn are a chain of submitted claims with at most one   *)
(* open at its end, and a background grant has one lease at a time,        *)
(* whoever works for it and however often it starts over.                  *)
THEOREM BatchesChain == Spec => []BatchesAreChains
  <1> DEFINE Inv == Leases /\ ChainsOK /\ JobsOK
  <1>1. Init => Inv
    BY InitLeases, InitChains
  <1>2. Inv /\ [Next]_vars => Inv'
    BY LeasesStep, ChainsStep, JobsStep
  <1>3. Inv => BatchesAreChains
    BY BatchesHold
  <1> QED BY <1>1, <1>2, <1>3, PTL DEF Spec

(* Active claims, leased rows and the leases of consolidating runs name    *)
(* one another.                                                            *)
THEOREM ClaimsMatch == Spec => []ClaimsMatchLeases
  <1>1. Leases => ClaimsMatchLeases
    BY DEF Leases
  <1> QED BY <1>1, LeasesAgree, PTL

(* The rows keep their types, and a row names a lease just while leased.   *)
THEOREM BackfillTypeCorrect == Spec => []TypeOK
  <1>1. Leases => TypeOK
    BY DEF Leases, Types
  <1> QED BY <1>1, LeasesAgree, PTL
-----------------------------------------------------------------------------
(* How runs and rows move.                                                 *)

RunMoved(t) ==
    \/ run'[t] = run[t]
    \/ /\ run[t].status \in {"pending", "extracting"}
       /\ run'[t].status \in {"extracting", "ready_for_consolidation"}
    \/ /\ run[t].status \in {"ready_for_consolidation", "failed", "consolidating"}
       /\ run'[t].status = "consolidating"
    \/ /\ run[t].status = "consolidating"
       /\ run'[t].status \in {"ready_for_consolidation", "failed", "candidates_ready"}
    \/ run[t].status = "failed" /\ run'[t].status = "ready_for_consolidation"

RowMoved(q) ==
    \/ work'[q] = work[q]
    \/ /\ run[q[1]].status \in Unfinished
       /\ \/ work[q].status = "absent" /\ work'[q].status \in {"pending", "leased"}
          \/ work[q].status \in {"pending", "failed", "leased"} /\ work'[q].status = "leased"
          \/ work[q].status = "leased" /\ work'[q].status \in {"completed", "failed"}
          \/ work[q].status = "failed" /\ work'[q].status = "pending"

Stands == (\A t \in Run : RunMoved(t)) /\ (\A q \in Piece : RowMoved(q))

LEMMA ClaimNextStands ==
  ASSUME Leases, NEW s \in Session, NEW r \in Run, NEW previous \in Lease \cup {None},
         NEW at \in At, ClaimNext(s, r, previous, at)
  PROVE  Stands
  <1>0. Types /\ TypeOK
    BY DEF Leases, Types
  <1>1. PICK p \in Piece, l \in Lease : TakesChunk(s, r, previous, at, p, l)
    BY <1>0, ClaimNextIs
  <1>2. /\ \A q \in Piece \ {p} : work'[q] = work[q]
        /\ work'[p].status = "leased"
    BY <1>0, <1>1, ChunkRow
  <1>3. p[1] = r /\ work[p].status \in {"pending", "failed", "leased"}
    BY <1>1 DEF TakesChunk, Claimable
  <1>4. /\ run[r].status \in {"pending", "extracting"}
        /\ run'[r].status = "extracting"
        /\ \A t \in Run \ {r} : run'[t] = run[t]
    <2>1. run[r].status \in {"pending", "extracting"}
          /\ run' = [run EXCEPT ![r].status = "extracting"]
      BY DEF ClaimNext
    <2>2. run[r] \in RunRow /\ run \in [Run -> RunRow]
      BY <1>0 DEF TypeOK
    <2> QED BY <2>1, <2>2 DEF RunRow
  <1> QED BY <1>2, <1>3, <1>4 DEF Stands, RunMoved, RowMoved, Unfinished

LEMMA ClaimConsolidationStands ==
  ASSUME Leases, NEW s \in Session, NEW r \in Run, NEW previous \in Lease \cup {None},
         NEW at \in At, ClaimConsolidation(s, r, previous, at)
  PROVE  Stands
  <1>0. Types /\ TypeOK
    BY DEF Leases, Types
  <1>1. PICK p \in Piece, l \in Lease, rows \in [Piece -> PieceRow] :
            TakesReduction(s, r, previous, at, p, l, rows)
    BY <1>0, ClaimConsolidationIs
  <1>2. /\ \A q \in Piece \ {p} :
               \/ work'[q] = work[q]
               \/ /\ q[1] = r /\ q[2] = RoundStage(r)
                  /\ work[q].status = "absent" /\ work'[q] = NewPiece(at)
        /\ work'[p].status = "leased" /\ work'[p].lease = l
        /\ work[p].status # "completed" /\ p[2] # 0
        /\ \/ rows[p] = work[p] /\ work[p].status # "absent"
           \/ work[p].status = "absent" /\ rows[p] = NewPiece(at)
    BY <1>0, <1>1, ReductionRow
  <1>3. p[1] = r /\ Claimable(rows[p], at)
        /\ run' = [run EXCEPT ![r] = [status |-> "consolidating", lease |-> l, retry |-> Never]]
    BY <1>1 DEF TakesReduction
  <1>4. run[r].status \in {"ready_for_consolidation", "failed", "consolidating"}
        /\ run'[r].status = "consolidating"
        /\ \A t \in Run \ {r} : run'[t] = run[t]
    BY <1>0, <1>3 DEF ClaimConsolidation, TypeOK
  <1>5. work[p].status \in {"absent", "pending", "failed", "leased"}
    BY <1>2, <1>3 DEF Claimable
  <1>6. \A t \in Run : RunMoved(t)
    BY <1>4 DEF RunMoved
  <1>7. RowMoved(p)
    BY <1>2, <1>3, <1>4, <1>5 DEF RowMoved, Unfinished
  <1>8. \A q \in Piece \ {p} : RowMoved(q)
    BY <1>2, <1>4 DEF RowMoved, Unfinished, NewPiece
  <1> QED BY <1>6, <1>7, <1>8 DEF Stands

LEMMA EndStands ==
  ASSUME Leases, NEW l \in Lease, NEW p, NEW row, Ends(l, p, row), RunAfter(l, p, row)
  PROVE  Stands
  <1>1. /\ p \in Piece /\ p[1] \in Run /\ p[2] \in Stage
        /\ \A q \in Piece \ {p} : work'[q] = work[q]
        /\ work'[p] = row /\ row.status \in {"completed", "failed"}
    BY EndsRow
  <1>2. work[p].status = "leased"
    BY DEF Ends
  <1>3. \/ /\ run[p[1]].status = "extracting"
           /\ run'[p[1]].status \in {"extracting", "ready_for_consolidation"}
        \/ /\ run[p[1]].status = "consolidating"
           /\ run'[p[1]].status \in {"ready_for_consolidation", "failed", "candidates_ready"}
    BY DEF RunAfter
  <1>4. \A t \in Run : RunMoved(t)
    BY <1>3 DEF RunAfter, RunMoved
  <1>5. \A q \in Piece : RowMoved(q)
    BY <1>1, <1>2, <1>3 DEF RowMoved, Unfinished
  <1> QED BY <1>4, <1>5 DEF Stands

LEMMA RetriesStand ==
  ASSUME Leases, NEW at \in At,
         \/ \E p \in Piece, available \in Time : RetryChunk(p, at, available)
         \/ \E r \in Run : RetryConsolidation(r, at)
  PROVE  Stands
  <1>0. Types
    BY DEF Leases
  <1>1. ASSUME NEW p \in Piece, NEW available \in Time, RetryChunk(p, at, available)
        PROVE Stands
    <2>1. /\ run[p[1]].status \in {"pending", "extracting"}
          /\ work[p].status = "failed" /\ work'[p].status = "pending"
          /\ \A q \in Piece \ {p} : work'[q] = work[q]
          /\ run' = run
      BY <1>0, <1>1, RetryChunkIs
    <2> QED BY <2>1 DEF Stands, RunMoved, RowMoved, Unfinished
  <1>2. ASSUME NEW r \in Run, RetryConsolidation(r, at) PROVE Stands
    <2>1. /\ run[r].status = "failed"
          /\ run'[r].status = "ready_for_consolidation"
          /\ \A t \in Run \ {r} : run'[t] = run[t]
          /\ \A q \in Piece :
               IF q[1] = r /\ q[2] # 0 /\ work[q].status = "failed"
               THEN work'[q].status = "pending"
               ELSE work'[q] = work[q]
      BY <1>0, <1>2, RetryConsolidationIs
    <2> QED BY <2>1 DEF Stands, RunMoved, RowMoved, Unfinished
  <1> QED BY <1>1, <1>2

LEMMA StandsOrCreates ==
  ASSUME Leases, [Next]_vars
  PROVE  Stands \/ \E r \in Run, at \in At : CreateRun(r, at)
  <1>1. CASE Around
    BY <1>1 DEF Around, Tick, RotateCapability, CreateRunRefused, vars, Stands, RunMoved,
                RowMoved
  <1>2. ASSUME NEW at \in At, Calls(at), ~ \E r \in Run : CreateRun(r, at) PROVE Stands
    <2>1. ASSUME NEW s \in Session, NEW l \in Lease,
                 \/ \E n \in 0 .. MaxFindings : SubmitChunk(s, l, at, n)
                 \/ \E n \in 0 .. MaxOutputs : CompleteConsolidation(s, l, at, n)
                 \/ \E retry \in Time \cup {Never} :
                        FailChunk(s, l, at, retry) \/ FailConsolidation(s, l, at, retry)
          PROVE  Stands
      <3>1. \E row : Ends(l, usage[l].piece, row) /\ RunAfter(l, usage[l].piece, row)
        BY <2>1, ResultEnds, ResultRunAfter DEF Leases
      <3> QED BY <3>1, EndStands
    <2> QED BY <1>2, <2>1, ClaimNextStands, ClaimConsolidationStands, RetriesStand DEF Calls
  <1> QED BY <1>1, <1>2, StepsAre

(* What is finished stays as it is.                                        *)
LEMMA FinishedStand ==
  ASSUME Leases, [Next]_vars
  PROVE  \A r \in Run :
            run[r].status \in {"superseded", "candidates_ready"} =>
              /\ run'[r] = run[r]
              /\ \A p \in Piece : p[1] = r => work'[p] = work[p]
  <1>1. CASE Stands
    BY <1>1 DEF Stands, RunMoved, RowMoved, Unfinished
  <1>2. ASSUME NEW q \in Run, NEW at \in At, CreateRun(q, at)
        PROVE  \A r \in Run :
                  run[r].status \in {"superseded", "candidates_ready"} =>
                    /\ run'[r] = run[r]
                    /\ \A p \in Piece : p[1] = r => work'[p] = work[p]
    <2>0. Types
      BY DEF Leases
    <2>1. /\ run[q].status = "absent"
          /\ \A t \in Run \ {q} :
               IF NewerThan(q) = {} /\ t \in SupersededBy(q)
               THEN run'[t].status = "superseded"
               ELSE run'[t] = run[t]
      BY <2>0, <1>2, CreateRunIs
    <2>2. \A t \in SupersededBy(q) : run[t].status \in Unfinished
      BY DEF SupersededBy
    <2>3. \A p \in Piece : p[1] # q => work'[p] = work[p]
      BY <2>0, <1>2, CreateRunStages
    <2> QED BY <2>1, <2>2, <2>3 DEF Unfinished
  <1> QED BY <1>1, <1>2, StandsOrCreates

(* Nothing that is superseded or done is changed by a late result, a       *)
(* takeover or a retry.                                                    *)
THEOREM FinishedStays == Spec => FinishedRunsStand
  <1>1. Leases /\ [Next]_vars =>
            [\A r \in Run :
                run[r].status \in {"superseded", "candidates_ready"} =>
                  /\ run'[r] = run[r]
                  /\ \A p \in Piece : p[1] = r => work'[p] = work[p]]_vars
    BY FinishedStand
  <1> QED BY <1>1, LeasesAgree, PTL DEF Spec, FinishedRunsStand

LEMMA NewestStep ==
  ASSUME Leases, OnlyNewestIsWorkedOn, [Next]_vars
  PROVE  OnlyNewestIsWorkedOn'
  <1>0. Types /\ ObservedAt \in [Run -> Nat]
    BY BackfillAssumption DEF Leases
  <1>1. CASE Stands
    <2>1. \A t \in Run : /\ run'[t].status = "absent" <=> run[t].status = "absent"
                         /\ run'[t].status \in Unfinished => run[t].status \in Unfinished
      BY <1>1 DEF Stands, RunMoved, Unfinished
    <2>2. \A t \in Run : NewerThan(t)' = NewerThan(t)
      BY <2>1 DEF NewerThan, Recorded
    <2> QED BY <2>1, <2>2 DEF OnlyNewestIsWorkedOn
  <1>2. ASSUME NEW r \in Run, NEW at \in At, CreateRun(r, at)
        PROVE  OnlyNewestIsWorkedOn'
    <2>1. /\ run[r].status = "absent"
          /\ \/ NewerThan(r) # {} /\ run'[r].status = "superseded"
             \/ NewerThan(r) = {}
          /\ \A t \in Run \ {r} :
               IF NewerThan(r) = {} /\ t \in SupersededBy(r)
               THEN run'[t].status = "superseded"
               ELSE run'[t] = run[t]
      BY <1>0, <1>2, CreateRunIs
    <2>2. \A t \in Run \ {r} : Recorded(t)' => Recorded(t)
      BY <2>1 DEF Recorded, SupersededBy, Unfinished
    <2>3. \A t \in Run \ {r} : run'[t].status \in Unfinished =>
              /\ run[t].status \in Unfinished
              /\ NewerThan(r) = {} => ObservedAt[t] > ObservedAt[r]
      <3> TAKE t \in Run \ {r}
      <3> HAVE run'[t].status \in Unfinished
      <3>1. run[t].status \in Unfinished /\ ~(NewerThan(r) = {} /\ t \in SupersededBy(r))
        BY <2>1 DEF Unfinished
      <3>2. NewerThan(r) = {} => ~(ObservedAt[t] <= ObservedAt[r])
        BY <3>1 DEF SupersededBy
      <3> QED BY <3>1, <3>2, <1>0
    <2>4. \A t \in Run \ {r} : run[t].status \in Unfinished => Recorded(t)
      BY DEF Recorded, Unfinished
    <2>5. CASE NewerThan(r) = {}
      <3>1. \A t \in Run \ {r} : run'[t].status \notin Unfinished
        BY <2>3, <2>4, <2>5 DEF NewerThan
      <3>2. NewerThan(r)' = {}
        BY <2>2, <2>5 DEF NewerThan
      <3> QED BY <3>1, <3>2 DEF OnlyNewestIsWorkedOn
    <2>6. CASE NewerThan(r) # {}
      <3>1. run'[r].status \notin Unfinished
        BY <2>1, <2>6 DEF Unfinished
      <3>2. PICK z \in Run \ {r} : Recorded(z) /\ ObservedAt[z] > ObservedAt[r]
        BY <2>6 DEF NewerThan
      <3>3. ASSUME NEW t \in Run \ {r}, run'[t].status \in Unfinished
            PROVE  NewerThan(t)' = {}
        <4>1. run[t].status \in Unfinished /\ NewerThan(t) = {}
          BY <2>3, <3>3 DEF OnlyNewestIsWorkedOn
        <4>2. ~(ObservedAt[r] > ObservedAt[t])
          <5>1. z # t => ~(ObservedAt[z] > ObservedAt[t])
            BY <3>2, <4>1 DEF NewerThan
          <5>2. ObservedAt[z] \in Nat /\ ObservedAt[t] \in Nat /\ ObservedAt[r] \in Nat
            BY <1>0
          <5> QED BY <3>2, <5>1, <5>2
        <4> QED BY <4>1, <4>2, <2>2 DEF NewerThan
      <3> QED BY <3>1, <3>3, <2>3 DEF OnlyNewestIsWorkedOn
    <2> QED BY <2>5, <2>6
  <1> QED BY <1>1, <1>2, StandsOrCreates

(* Of all revisions of a conversation only the newest is worked on,        *)
(* whatever order they are imported in.                                    *)
THEOREM NewestOnly == Spec => []OnlyNewestIsWorkedOn
  <1>1. Init => OnlyNewestIsWorkedOn
    BY DEF Init, OnlyNewestIsWorkedOn, Unfinished
  <1>2. Leases /\ OnlyNewestIsWorkedOn /\ [Next]_vars => OnlyNewestIsWorkedOn'
    BY NewestStep
  <1> QED BY <1>1, <1>2, LeasesAgree, PTL DEF Spec
-----------------------------------------------------------------------------
(* What the storage checks.                                                *)

(* A step records one result, or none.                                     *)
NoResult ==
    /\ receipts' = receipts
    /\ \A q \in Piece : (work[q].status = "completed" => work'[q] = work[q])
                        /\ (work'[q].status = "completed" => work[q].status = "completed")
    /\ \A t \in Run : run'[t].status = "candidates_ready" => run'[t] = run[t]

LEMMA ResultOrNone ==
  ASSUME Leases, [Next]_vars
  PROVE  \/ NoResult
         \/ \E l \in Lease : \E row :
               Ends(l, usage[l].piece, row) /\ RunAfter(l, usage[l].piece, row)
  <1>0. Types
    BY DEF Leases
  <1>1. CASE Around
    BY <1>1 DEF Around, Tick, RotateCapability, CreateRunRefused, vars, NoResult
  <1>2. ASSUME NEW at \in At, Calls(at)
        PROVE  \/ NoResult
               \/ \E l \in Lease : \E row :
                     Ends(l, usage[l].piece, row) /\ RunAfter(l, usage[l].piece, row)
    <2>1. ASSUME NEW r \in Run, CreateRun(r, at) PROVE NoResult
      <3>1. \A q \in Piece : work[q].status # "absent" => work'[q] = work[q]
        BY <1>0, <2>1, CreateRunStages
      <3>2. \A q \in Piece : work'[q] = work[q] \/ work'[q] = NewPiece(at)
        BY <1>0, <2>1, CreateRunIs
      <3>3. \A t \in Run : run'[t].status = "candidates_ready" => run'[t] = run[t]
        BY <1>0, <2>1, CreateRunIs
      <3>4. receipts' = receipts
        BY <2>1 DEF CreateRun
      <3> QED BY <3>1, <3>2, <3>3, <3>4 DEF NoResult, NewPiece
    <2>2. ASSUME NEW s \in Session, NEW r \in Run, NEW previous \in Lease \cup {None},
                 ClaimNext(s, r, previous, at)
          PROVE  NoResult
      <3>1. PICK p \in Piece, l \in Lease : TakesChunk(s, r, previous, at, p, l)
        BY <1>0, <2>2, ClaimNextIs DEF Types
      <3>2. /\ \A q \in Piece \ {p} : work'[q] = work[q]
            /\ work'[p].status = "leased" /\ work[p].status # "completed"
        BY <1>0, <3>1, ChunkRow
      <3>3. receipts' = receipts /\ run' = [run EXCEPT ![r].status = "extracting"]
        BY <2>2 DEF ClaimNext
      <3>4. \A t \in Run : run'[t].status = "candidates_ready" => run'[t] = run[t]
        <4>1. run \in [Run -> RunRow]
          BY <1>0 DEF Types, TypeOK
        <4>2. run'[r].status = "extracting" /\ \A t \in Run \ {r} : run'[t] = run[t]
          BY <3>3, <4>1 DEF RunRow
        <4> QED BY <4>2
      <3> QED BY <3>2, <3>3, <3>4 DEF NoResult
    <2>3. ASSUME NEW s \in Session, NEW r \in Run, NEW previous \in Lease \cup {None},
                 ClaimConsolidation(s, r, previous, at)
          PROVE  NoResult
      <3>1. PICK p \in Piece, l \in Lease, rows \in [Piece -> PieceRow] :
                TakesReduction(s, r, previous, at, p, l, rows)
        BY <1>0, <2>3, ClaimConsolidationIs DEF Types
      <3>2. /\ \A q \in Piece \ {p} :
                   \/ work'[q] = work[q]
                   \/ /\ q[1] = r /\ q[2] = RoundStage(r)
                      /\ work[q].status = "absent" /\ work'[q] = NewPiece(at)
            /\ work'[p].status = "leased" /\ work'[p].lease = l
            /\ work[p].status # "completed" /\ p[2] # 0
        BY <1>0, <3>1, ReductionRow
      <3>3. receipts' = receipts
        BY <2>3 DEF ClaimConsolidation
      <3>4. \A t \in Run : run'[t].status = "candidates_ready" => run'[t] = run[t]
        BY <1>0, <3>1 DEF TakesReduction, Types, TypeOK
      <3> QED BY <3>2, <3>3, <3>4 DEF NoResult, NewPiece
    <2>4. ASSUME NEW p \in Piece, NEW available \in Time, RetryChunk(p, at, available)
          PROVE  NoResult
      BY <1>0, <2>4, RetryChunkIs DEF NoResult
    <2>5. ASSUME NEW r \in Run, RetryConsolidation(r, at) PROVE NoResult
      BY <1>0, <2>5, RetryConsolidationIs DEF NoResult
    <2>6. ASSUME NEW s \in Session, NEW l \in Lease,
                 \/ \E n \in 0 .. MaxFindings : SubmitChunk(s, l, at, n)
                 \/ \E n \in 0 .. MaxOutputs : CompleteConsolidation(s, l, at, n)
                 \/ \E retry \in Time \cup {Never} :
                        FailChunk(s, l, at, retry) \/ FailConsolidation(s, l, at, retry)
          PROVE  \E row : Ends(l, usage[l].piece, row) /\ RunAfter(l, usage[l].piece, row)
      BY <2>6, <1>0, ResultEnds, ResultRunAfter
    <2> QED BY <1>2, <2>1, <2>2, <2>3, <2>4, <2>5, <2>6 DEF Calls
  <1> QED BY <1>1, <1>2, StepsAre

LEMMA RunMovesAllowed ==
  ASSUME Leases, [Next]_vars, NEW t \in Run
  PROVE  ValidTransition(RunMoves, run[t].status, run'[t].status)
  <1>0. Types /\ run[t].status \in RunStatus
    BY StoredTypes DEF Leases, RunRow
  <1>1. CASE Stands
    BY <1>1 DEF Stands, RunMoved, ValidTransition, RunMoves
  <1>2. ASSUME NEW r \in Run, NEW at \in At, CreateRun(r, at)
        PROVE  ValidTransition(RunMoves, run[t].status, run'[t].status)
    <2>1. /\ run[r].status = "absent"
          /\ run'[r].status \in {"superseded", "ready_for_consolidation", "pending"}
      BY <1>0, <1>2, CreateRunIs
    <2>2. \A q \in Run \ {r} :
             \/ run'[q] = run[q]
             \/ /\ q \in SupersededBy(r) /\ run'[q].status = "superseded"
      BY <1>0, <1>2, CreateRunIs
    <2>3. \A q \in SupersededBy(r) : run[q].status \in Unfinished
      BY DEF SupersededBy
    <2> QED BY <2>1, <2>2, <2>3 DEF ValidTransition, RunMoves, Unfinished
  <1> QED BY <1>1, <1>2, StandsOrCreates

LEMMA PieceMovesAllowed ==
  ASSUME Leases, [Next]_vars, NEW p \in Piece
  PROVE  ValidTransition(PieceMoves, work[p].status, work'[p].status)
  <1>0. Types
    BY DEF Leases
  <1>1. CASE Stands
    BY <1>1 DEF Stands, RowMoved, ValidTransition, PieceMoves
  <1>2. ASSUME NEW r \in Run, NEW at \in At, CreateRun(r, at)
        PROVE  ValidTransition(PieceMoves, work[p].status, work'[p].status)
    <2>1. \/ work'[p] = work[p]
          \/ work[p].status = "absent" /\ work'[p] = NewPiece(at)
      BY <1>0, <1>2, CreateRunIs
    <2> QED BY <2>1 DEF ValidTransition, PieceMoves, NewPiece
  <1> QED BY <1>1, <1>2, StandsOrCreates

(* No two rows name the same lease.                                        *)
LEMMA LeasesDiffer ==
  Leases => \A p, q \in Piece : work[p].lease # None /\ work[q].lease = work[p].lease => p = q
  <1> SUFFICES ASSUME Leases, NEW p \in Piece, NEW q \in Piece, work[p].lease # None,
                      work[q].lease = work[p].lease
               PROVE  p = q
    OBVIOUS
  <1>1. work[p].status = "leased" /\ work[q].status = "leased"
    BY StoredTypes DEF Leases
  <1> QED BY <1>1, Linked

LEMMA ChunksAreDone ==
  Leases => \A r \in Run :
      run[r].status \in {"ready_for_consolidation", "consolidating", "candidates_ready"} =>
          \A p \in Piece : p[1] = r /\ p[2] = 0 => work[p].status \in {"absent", "completed"}
  BY DEF Leases, StagesOK, Completed, Pieces

LEMMA StateFactsNext ==
  /\ (Leases => \A p, q \in Piece :
          work[p].lease # None /\ work[q].lease = work[p].lease => p = q)'
  /\ (Leases => \A r \in Run :
      run[r].status \in {"ready_for_consolidation", "consolidating", "candidates_ready"} =>
          \A p \in Piece : p[1] = r /\ p[2] = 0 => work[p].status \in {"absent", "completed"})'
  /\ (Leases /\ ChainsOK /\ JobsOK => BatchesAreChains)'
  <1>1. Leases /\ ChainsOK /\ JobsOK => BatchesAreChains
    BY BatchesHold
  <1> QED BY <1>1, LeasesDiffer, ChunksAreDone, PTL

LEMMA CompletionsHaveReceipts ==
  ASSUME Leases, [Next]_vars
  PROVE  /\ \A p \in Piece : CompletionRequiresReceipt(p)
         /\ \A r \in Run : CandidatesReadyRequiresFinalReduction(r)
         /\ \A l \in Lease : TurnClaimMatch(l)
  <1>1. CASE NoResult
    BY <1>1 DEF NoResult, CompletionRequiresReceipt, CandidatesReadyRequiresFinalReduction,
                TurnClaimMatch
  <1>2. ASSUME NEW l \in Lease, NEW row,
               Ends(l, usage[l].piece, row), RunAfter(l, usage[l].piece, row)
        PROVE  /\ \A p \in Piece : CompletionRequiresReceipt(p)
               /\ \A r \in Run : CandidatesReadyRequiresFinalReduction(r)
               /\ \A m \in Lease : TurnClaimMatch(m)
    <2> DEFINE p == usage[l].piece
    <2>1. /\ p \in Piece /\ p[1] \in Run
          /\ \A q \in Piece \ {p} : work'[q] = work[q]
          /\ work'[p] = row
          /\ receipts' = IF row.status = "completed" THEN receipts \cup {l} ELSE receipts
      BY <1>2, EndsRow
    <2>2. usage[l].status = "active" /\ work[p].status = "leased"
      BY <1>2 DEF Ends
    <2>3. \A q \in Piece : CompletionRequiresReceipt(q)
      BY <2>1, <2>2 DEF CompletionRequiresReceipt
    <2>4. \A m \in Lease : TurnClaimMatch(m)
      BY <2>1, <2>2, Linked DEF TurnClaimMatch
    <2>5. ASSUME NEW r \in Run, run'[r].status = "candidates_ready",
                 run[r].status # "candidates_ready"
          PROVE  r = p[1] /\ p[2] # 0 /\ IsFinal(p) /\ row.status = "completed"
      BY <1>2, <2>5 DEF RunAfter
    <2>6. \A r \in Run : CandidatesReadyRequiresFinalReduction(r)
      <3> SUFFICES ASSUME NEW r \in Run, run'[r].status = "candidates_ready",
                          run[r].status # "candidates_ready"
                   PROVE  /\ l \in receipts'
                          /\ p[1] = r /\ p[2] # 0 /\ IsFinal(p)
                          /\ work'[p].status = "completed"
        BY DEF CandidatesReadyRequiresFinalReduction
      <3>1. r = p[1] /\ p[2] # 0 /\ IsFinal(p) /\ row.status = "completed"
        BY <2>5
      <3> QED BY <3>1, <2>1
    <2> QED BY <2>3, <2>4, <2>6
  <1> QED BY <1>1, <1>2, ResultOrNone

LEMMA MovedMayMove ==
  ASSUME Leases, NEW m \in Lease, NEW ended \in {"expired", "consumed"}, Moved(m, ended),
         usage'[m] \in Claim \cup {NoClaim}
  PROVE  ClaimMayMove(m) /\ BatchChain(m)
  <1>1. CASE usage'[m] = usage[m]
    BY <1>1 DEF ClaimMayMove, BatchChain
  <1>2. CASE usage[m].status = "active" /\ usage'[m].status = ended /\ SameClaim(m)
    <2>1. usage[m] \in Claim /\ usage[m] # NoClaim
      BY <1>2, Linked DEF Used, NoClaim
    <2>2. usage'[m] \in Claim
      BY <1>2 DEF NoClaim
    <2>3. \A c, d \in Claim :
             /\ d.piece = c.piece /\ d.session = c.session /\ d.turn = c.turn
             /\ d.epoch = c.epoch /\ d.expires = c.expires /\ d.previous = c.previous
             => d = [c EXCEPT !.status = d.status]
      BY DEF Claim
    <2>4. usage'[m] = [usage[m] EXCEPT !.status = usage'[m].status]
      BY <1>2, <2>1, <2>2, <2>3 DEF SameClaim
    <2> QED BY <1>2, <2>1, <2>4 DEF BatchChain, ClaimMayMove
  <1> QED BY <1>1, <1>2 DEF Moved

(* A new claim continues the chain of its turn.                            *)
LEMMA NewClaimIsChained ==
  ASSUME Leases, ChainsOK, BatchesAreChains', ChainsOK',
         NEW s \in Session, NEW p \in Piece, NEW previous \in Lease \cup {None},
         NEW at \in At, NEW l \in Lease, Claims(s, p, previous, at, l)
  PROVE  ClaimMayMove(l) /\ BatchChain(l)
  <1>0. Types
    BY DEF Leases
  <1>1. /\ usage'[l] = NewClaim(s, p, previous, at) /\ work'[p].status = "leased"
        /\ receipts' = receipts /\ Fresh(l)
        /\ \A m \in Lease \ {l} : Moved(m, "expired")
    BY DEF Claims
  <1>2. usage[l] = NoClaim /\ usage'[l].status = "active" /\ usage'[l].piece = p
    <2>1. usage[l] \in Claim \cup {NoClaim} /\ usage[l].status = "unused"
      BY <1>0, <1>1 DEF Types, TypeOK, Fresh
    <2>2. usage[l] = NoClaim
      BY <2>1 DEF Claim
    <2> QED BY <1>1, <2>2 DEF NewClaim
  <1>3. ClaimMayMove(l)
    BY <1>1, <1>2 DEF ClaimMayMove
  <1>4. usage'[l].status # "unused" /\ Used(l)'
    BY <1>2 DEF Used
  <1> DEFINE others == {m \in Lease \ {l} : /\ usage'[m].status # "unused"
                                            /\ usage'[m].session = usage'[l].session
                                            /\ usage'[m].turn = usage'[l].turn}
  <1>5. ASSUME NEW m \in others
        PROVE  usage'[m].previous # usage'[l].previous /\ usage'[m].status # "active"
    BY <1>2, <1>4 DEF BatchesAreChains
  <1>6. usage'[l].previous # None =>
           /\ usage'[l].previous \in others \cap receipts
           /\ usage[usage'[l].previous].epoch = usage'[l].epoch
           /\ usage[usage'[l].previous].status = "consumed"
    <2> SUFFICES ASSUME usage'[l].previous # None
                 PROVE  /\ usage'[l].previous \in others \cap receipts
                        /\ usage[usage'[l].previous].epoch = usage'[l].epoch
                        /\ usage[usage'[l].previous].status = "consumed"
      OBVIOUS
    <2>1. usage'[l].previous \in InTurnOf(l)'
          /\ usage'[usage'[l].previous].epoch = usage'[l].epoch
      BY <1>4 DEF ChainsOK
    <2>2. PICK x : x = usage'[l].previous
      OBVIOUS
    <2>3. /\ x \in Lease /\ x < l /\ usage'[x].status # "unused"
          /\ usage'[x].session = usage'[l].session
          /\ usage'[x].turn = usage'[l].turn /\ usage'[x].epoch = usage'[l].epoch
      BY <2>1, <2>2 DEF InTurnOf, Used
    <2>4. x # l
      BY <2>3, NumbersOfLeases
    <2>5. x \in others /\ SameClaim(x)
      BY <2>3, <2>4, <1>0, <1>1, MovedSame
    <2>6. x \in receipts
      <3>1. usage'[usage'[l].previous].status # "unused" /\ usage'[l].previous \in receipts'
        BY <1>4, <2>1, <2>2, <2>3 DEF ChainsOK
      <3> QED BY <3>1, <2>2, <1>1
    <2>7. usage[x].status = "consumed" /\ usage[x].epoch = usage'[l].epoch
      BY <2>3, <2>5, <2>6, Linked DEF SameClaim
    <2> HIDE DEF others
    <2> QED BY <2>2, <2>5, <2>6, <2>7
  <1>7. BatchChain(l)
    <2> HIDE DEF others
    <2>1. (usage'[l].previous # None =>
              /\ usage'[l].previous \in others \cap receipts
              /\ usage[usage'[l].previous].epoch = usage'[l].epoch
              /\ usage[usage'[l].previous].status = "consumed")
          /\ \A m \in others : usage'[m].previous # usage'[l].previous
                               /\ usage'[m].status # "active"
      BY <1>5, <1>6
    <2> QED BY <2>1 DEF BatchChain, others
  <1> QED BY <1>3, <1>7

LEMMA ClaimsMayMove ==
  ASSUME Leases, ChainsOK, JobsOK, [Next]_vars
  PROVE  \A l \in Lease : ClaimMayMove(l) /\ BatchChain(l)
  <1>1. BatchesAreChains' /\ ChainsOK'
    BY LeasesStep, ChainsStep, JobsStep, StateFactsNext
  <1>2. \A m \in Lease : usage'[m] \in Claim \cup {NoClaim}
    BY LeasesStep DEF Leases, Types, TypeOK
  <1>3. CASE Keeps
    BY <1>2, <1>3, MovedMayMove DEF Keeps
  <1>4. ASSUME NEW s \in Session, NEW p \in Piece, NEW previous \in Lease \cup {None},
               NEW at \in At, NEW k \in Lease, Claims(s, p, previous, at, k)
        PROVE  \A l \in Lease : ClaimMayMove(l) /\ BatchChain(l)
    <2>1. ClaimMayMove(k) /\ BatchChain(k)
      BY <1>1, <1>4, NewClaimIsChained
    <2>2. \A m \in Lease \ {k} : ClaimMayMove(m) /\ BatchChain(m)
      BY <1>2, <1>4, MovedMayMove DEF Claims
    <2> QED BY <2>1, <2>2
  <1> QED BY <1>3, <1>4, ClaimsOrKeeps

(* No step of the service breaks a trigger or a unique index of the        *)
(* tables: no claim, result or retry is rolled back by the storage.        *)
StorageStep ==
    /\ \A r \in Run :
           /\ ValidTransition(RunMoves, run[r].status, run'[r].status)
           /\ ReadyRequiresChunks(r)
           /\ CandidatesReadyRequiresFinalReduction(r)
    /\ \A p \in Piece :
           /\ ValidTransition(PieceMoves, work[p].status, work'[p].status)
           /\ LeaseIsUnique(p)
           /\ CompletionRequiresReceipt(p)
    /\ \A l \in Lease : ClaimMayMove(l) /\ BatchChain(l) /\ TurnClaimMatch(l)

LEMMA StorageTakes ==
  ASSUME Leases, ChainsOK, JobsOK, [Next]_vars
  PROVE  StorageStep
  <1>0. Leases'
    BY LeasesStep
  <1>1. \A p \in Piece : LeaseIsUnique(p)
    BY <1>0, StateFactsNext DEF LeaseIsUnique
  <1>2. \A r \in Run : ReadyRequiresChunks(r)
    BY <1>0, StateFactsNext DEF ReadyRequiresChunks
  <1>3. \A r \in Run : ValidTransition(RunMoves, run[r].status, run'[r].status)
    BY RunMovesAllowed
  <1>4. \A p \in Piece : ValidTransition(PieceMoves, work[p].status, work'[p].status)
    BY PieceMovesAllowed
  <1>5. /\ \A p \in Piece : CompletionRequiresReceipt(p)
        /\ \A r \in Run : CandidatesReadyRequiresFinalReduction(r)
        /\ \A l \in Lease : TurnClaimMatch(l)
    BY CompletionsHaveReceipts
  <1>6. \A l \in Lease : ClaimMayMove(l) /\ BatchChain(l)
    BY ClaimsMayMove
  <1> QED BY <1>1, <1>2, <1>3, <1>4, <1>5, <1>6 DEF StorageStep

(* The service and the storage agree on what may be written.               *)
THEOREM StorageAgrees == Spec => BackfillStorageAccepts
  <1> DEFINE Inv == Leases /\ ChainsOK /\ JobsOK
  <1>1. Init => Inv
    BY InitLeases, InitChains
  <1>2. Inv /\ [Next]_vars => Inv'
    BY LeasesStep, ChainsStep, JobsStep
  <1>3. Inv /\ [Next]_vars => [StorageStep]_vars
    BY StorageTakes
  <1> HIDE DEF Inv
  <1>4. Spec => [][StorageStep]_vars
    BY <1>1, <1>2, <1>3, PTL DEF Spec
  <1>5. BackfillStorageAccepts <=> [][StorageStep]_vars
    BY DEF BackfillStorageAccepts, StorageStep
  <1> QED BY <1>4, <1>5
-----------------------------------------------------------------------------
(* Nothing is left that cannot be claimed.                                 *)

(* The clock goes on, and a claim never expires earlier than it said.      *)
Forward ==
    /\ now <= now' /\ now' \in Nat
    /\ \A m \in Lease : Used(m) => usage'[m].expires = usage[m].expires

LEMMA StepsForward ==
  ASSUME Leases, [Next]_vars
  PROVE  Forward
  <1>0. Types /\ now \in Nat /\ now' \in Nat
    BY TypesStep, BackfillAssumption DEF Leases, Types, TypeOK, Time
  <1>1. CASE Keeps
    BY <1>0, <1>1, MovedSame DEF Keeps, Forward, SameClaim
  <1>2. ASSUME NEW s \in Session, NEW p \in Piece, NEW previous \in Lease \cup {None},
               NEW at \in At, NEW l \in Lease, Claims(s, p, previous, at, l)
        PROVE  Forward
    <2>1. now' = now /\ ~Used(l) /\ \A m \in Lease \ {l} : SameClaim(m)
      BY <1>0, <1>2, MovedSame DEF Claims, Fresh, Used
    <2> QED BY <1>0, <2>1 DEF Forward, SameClaim
  <1> QED BY <1>1, <1>2, ClaimsOrKeeps

(* What can be claimed can be claimed later.                               *)
LEMMA ClaimableLater ==
  ASSUME Leases, Forward, NEW p \in Piece, work'[p] = work[p], Claimable(work[p], now)
  PROVE  Claimable(work[p], now)'
  <1>0. now \in Nat /\ now' \in Nat /\ now <= now' /\ work[p] \in PieceRow
    BY BackfillAssumption, StoredTypes DEF Leases, Types, TypeOK, Time, Forward
  <1>1. CASE work[p].status \in {"pending", "failed"} /\ work[p].available <= now
    <2>1. work[p].available \in Nat
      BY <1>0, BackfillAssumption DEF PieceRow, Time, Never
    <2>2. work[p].available <= now'
      BY <1>0, <1>1, <2>1
    <2> QED BY <1>1, <2>2 DEF Claimable
  <1>2. CASE work[p].status = "leased" /\ usage[work[p].lease].expires <= now
    <2>1. work[p].lease \in Lease /\ Used(work[p].lease)
      BY <1>2, Linked
    <2>2. usage'[work[p].lease].expires = usage[work[p].lease].expires
      BY <2>1 DEF Forward
    <2>3. usage[work[p].lease].expires \in Nat
      <3>1. usage[work[p].lease] \in Claim
        BY <2>1, Linked
      <3> QED BY <3>1, BackfillAssumption DEF Claim
    <2>4. usage[work[p].lease].expires <= now'
      BY <1>0, <1>2, <2>3
    <2> QED BY <1>2, <2>2, <2>4 DEF Claimable
  <1> QED BY <1>1, <1>2 DEF Claimable

(* A run the step does not touch.                                          *)
Untouched(t) == run'[t] = run[t] /\ \A q \in Piece : q[1] = t => work'[q] = work[q]

LEMMA UntouchedSame ==
  ASSUME NEW t \in Run, Untouched(t)
  PROVE  /\ \A k \in Stage : Pieces(t, k)' = Pieces(t, k)
         /\ LastStage(t)' = LastStage(t) /\ LastStage(t) \in Stage
         /\ Left(t)' = Left(t)
         /\ NeedsRound(t)' = NeedsRound(t)
         /\ Completed(Pieces(t, 0))' = Completed(Pieces(t, 0))
  <1>1. \A k : Pieces(t, k)' = Pieces(t, k)
    BY DEF Untouched, Pieces
  <1>2. LastStage(t) \in Stage
    BY LastStageIs
  <1>3. LastStage(t)' = LastStage(t)
    <2>1. {k \in Stage : Pieces(t, k) # {}}' = {k \in Stage : Pieces(t, k) # {}}
      BY <1>1
    <2> QED BY <2>1 DEF LastStage
  <1>4. \A k : \A q \in Pieces(t, k) : work'[q] = work[q] /\ q \in Piece
    BY DEF Pieces, Untouched
  <1>5. PICK k \in Stage : k = LastStage(t)
    BY <1>2
  <1>6. Pieces(t, LastStage(t))' = Pieces(t, LastStage(t))
    <2>1. Pieces(t, LastStage(t))' = Pieces(t, k)'
      BY <1>3, <1>5
    <2> QED BY <2>1, <1>1, <1>5
  <1>7. Left(t)' = Left(t)
    BY <1>6, <1>4 DEF Left
  <1>8. Completed(Pieces(t, LastStage(t)))' <=> Completed(Pieces(t, LastStage(t)))
    BY <1>6, <1>4 DEF Completed
  <1>9. NeedsRound(t)' <=> NeedsRound(t)
    BY <1>3, <1>6, <1>8 DEF NeedsRound
  <1>10. Completed(Pieces(t, 0))' <=> Completed(Pieces(t, 0))
    <2>1. Pieces(t, 0)' = Pieces(t, 0)
      BY <1>1
    <2> QED BY <2>1, <1>4 DEF Completed
  <1>11. NeedsRound(t)' = NeedsRound(t) /\ Completed(Pieces(t, 0))' = Completed(Pieces(t, 0))
    BY <1>9, <1>10 DEF NeedsRound, Completed
  <1> QED BY <1>1, <1>2, <1>3, <1>7, <1>11

LEMMA LeftIs ==
  ASSUME NEW r \in Run
  PROVE  /\ Left(r) \subseteq Piece
         /\ \A q \in Piece : q \in Left(r) <=>
               /\ q[1] = r /\ q[2] = LastStage(r)
               /\ work[q].status # "absent" /\ work[q].status # "completed"
  BY DEF Left, Pieces

LEMMA LeftUntouched ==
  ASSUME Leases, Forward, NEW t \in Run, LeftRun(t), Untouched(t)
  PROVE  LeftRun(t)'
  <1>1. /\ LastStage(t)' = LastStage(t)
        /\ Left(t)' = Left(t)
        /\ NeedsRound(t)' = NeedsRound(t)
        /\ Completed(Pieces(t, 0))' = Completed(Pieces(t, 0))
        /\ run'[t] = run[t]
    BY UntouchedSame DEF Untouched
  <1>2. \A q \in Left(t) : /\ q \in Piece /\ work'[q] = work[q]
                           /\ Claimable(work[q], now) => Claimable(work[q], now)'
    <2> TAKE q \in Left(t)
    <2>1. q \in Piece /\ work'[q] = work[q]
      BY LeftIs DEF Untouched
    <2> QED BY <2>1, ClaimableLater
  <1>3. run'[t].status \in {"pending", "extracting"} => ~Completed(Pieces(t, 0))'
    BY <1>1 DEF LeftRun
  <1>4. run'[t].status = "ready_for_consolidation" =>
           /\ NeedsRound(t)' \/ Left(t)' # {}
           /\ LastStage(t)' # 0 => \A p \in Left(t)' : Claimable(work[p], now)'
    BY <1>1, <1>2 DEF LeftRun
  <1>5. run'[t].status = "failed" =>
           /\ LastStage(t)' # 0
           /\ \E p \in Left(t)' : work'[p].status = "failed"
                                  /\ work'[p].available = run'[t].retry
           /\ \A p \in Left(t)' :
                  \/ Claimable(work[p], now)'
                  \/ work'[p].status = "failed" /\ work'[p].available = run'[t].retry
    BY <1>1, <1>2 DEF LeftRun
  <1>6. run'[t].status = "consolidating" =>
           \A p \in Left(t)' : Claimable(work[p], now)' \/ work'[p].lease = run'[t].lease
    BY <1>1, <1>2 DEF LeftRun
  <1> QED BY <1>3, <1>4, <1>5, <1>6 DEF LeftRun

LEMMA LeftFinished ==
  ASSUME NEW t \in Run, run'[t].status \in {"absent", "superseded", "candidates_ready"}
  PROVE  LeftRun(t)'
  BY DEF LeftRun

LEMMA CreateRunLeft ==
  ASSUME Leases, Forward, LeftOK, NEW r \in Run, NEW at \in At, CreateRun(r, at)
  PROVE  LeftOK'
  <1>0. Types
    BY DEF Leases
  <1>1. /\ \/ run'[r].status = "superseded"
           \/ ChunkCount[r] = 0 /\ run'[r].status = "ready_for_consolidation"
           \/ ChunkCount[r] # 0 /\ run'[r].status = "pending"
        /\ \A q \in Piece :
               work'[q] = IF q[1] = r /\ q[2] = 0 /\ q[3] < ChunkCount[r]
                          THEN NewPiece(at) ELSE work[q]
    BY <1>0, CreateRunIs
  <1>2. \A t \in Run \ {r} :
               IF NewerThan(r) = {} /\ t \in SupersededBy(r)
               THEN run'[t].status = "superseded"
               ELSE run'[t] = run[t]
    BY <1>0, CreateRunIs
  <1>3. LastStage(r)' = 0 /\ \A q \in Piece : q[1] # r => work'[q] = work[q]
    BY <1>0, CreateRunStages
  <1>4. LeftRun(r)'
    <2>1. CASE run'[r].status = "superseded"
      BY <2>1, LeftFinished
    <2>2. CASE ChunkCount[r] = 0 /\ run'[r].status = "ready_for_consolidation"
      <3>1. NeedsRound(r)'
        BY <1>3 DEF NeedsRound
      <3> QED BY <2>2, <3>1, <1>3 DEF LeftRun
    <2>3. CASE ChunkCount[r] # 0 /\ run'[r].status = "pending"
      <3> DEFINE p == <<r, 0, 0>>
      <3>1. p \in Piece /\ p[1] = r /\ p[2] = 0 /\ p[3] = 0
        BY BackfillAssumption DEF Piece, Stage, Index
      <3>2. 0 < ChunkCount[r]
        BY <2>3, BackfillAssumption
      <3> HIDE DEF p
      <3>3. work'[p] = NewPiece(at)
        BY <1>1, <3>1, <3>2
      <3>4. p \in Pieces(r, 0)' /\ work'[p].status # "completed"
        BY <3>1, <3>3 DEF Pieces, NewPiece
      <3>5. ~Completed(Pieces(r, 0))'
        BY <3>4 DEF Completed
      <3> QED BY <2>3, <3>5 DEF LeftRun
    <2> QED BY <1>1, <2>1, <2>2, <2>3
  <1>5. ASSUME NEW t \in Run \ {r} PROVE LeftRun(t)'
    <2>1. CASE run'[t].status = "superseded"
      BY <2>1, LeftFinished
    <2>2. CASE run'[t] = run[t]
      <3>1. Untouched(t)
        BY <2>2, <1>3 DEF Untouched
      <3> QED BY <3>1, LeftUntouched DEF LeftOK
    <2> QED BY <1>2, <2>1, <2>2
  <1> QED BY <1>4, <1>5 DEF LeftOK

LEMMA ClaimNextLeft ==
  ASSUME Leases, Forward, LeftOK, NEW s \in Session, NEW r \in Run,
         NEW previous \in Lease \cup {None}, NEW at \in At, ClaimNext(s, r, previous, at)
  PROVE  LeftOK'
  <1>0. Types /\ TypeOK
    BY DEF Leases, Types
  <1>1. PICK p \in Piece, l \in Lease : TakesChunk(s, r, previous, at, p, l)
    BY <1>0, ClaimNextIs
  <1>2. /\ \A q \in Piece \ {p} : work'[q] = work[q]
        /\ work'[p].status = "leased"
    BY <1>0, <1>1, ChunkRow
  <1>3. p[1] = r /\ p[2] = 0
    BY <1>1 DEF TakesChunk
  <1>4. run'[r].status = "extracting" /\ \A t \in Run \ {r} : run'[t] = run[t]
    <2>1. run' = [run EXCEPT ![r].status = "extracting"]
      BY DEF ClaimNext
    <2>2. run[r] \in RunRow /\ run \in [Run -> RunRow]
      BY <1>0 DEF TypeOK
    <2> QED BY <2>1, <2>2 DEF RunRow
  <1>5. ~Completed(Pieces(r, 0))'
    BY <1>2, <1>3 DEF Completed, Pieces
  <1>6. LeftRun(r)'
    BY <1>4, <1>5 DEF LeftRun
  <1>7. \A t \in Run \ {r} : Untouched(t)
    BY <1>2, <1>3, <1>4 DEF Untouched
  <1> QED BY <1>6, <1>7, LeftUntouched DEF LeftOK

LEMMA ClaimConsolidationLeft ==
  ASSUME Leases, Forward, LeftOK, NEW s \in Session, NEW r \in Run,
         NEW previous \in Lease \cup {None}, NEW at \in At,
         ClaimConsolidation(s, r, previous, at)
  PROVE  LeftOK'
  <1>0. Types /\ TypeOK /\ at \in Time /\ at <= now /\ now \in Nat /\ now' \in Nat /\ now <= now'
    BY AtIsTime, BackfillAssumption DEF Leases, Types, TypeOK, Forward, Time
  <1>a. at \in Nat
    BY <1>0, BackfillAssumption DEF Time
  <1>1. PICK p \in Piece, l \in Lease, rows \in [Piece -> PieceRow] :
            TakesReduction(s, r, previous, at, p, l, rows)
    BY <1>0, ClaimConsolidationIs
  <1>2. /\ \A q \in Piece \ {p} :
               \/ work'[q] = work[q]
               \/ /\ NeedsRound(r) /\ q[1] = r /\ q[2] = RoundStage(r)
                  /\ work[q].status = "absent" /\ work'[q] = NewPiece(at)
        /\ work'[p].status = "leased" /\ work'[p].lease = l
        /\ p[2] # 0
    BY <1>0, <1>1, ReductionRow
  <1>3. /\ p[1] = r /\ p[2] = RoundStage(r)
        /\ run' = [run EXCEPT ![r] = [status |-> "consolidating", lease |-> l, retry |-> Never]]
    BY <1>1 DEF TakesReduction
  <1>4. /\ run'[r].status = "consolidating" /\ run'[r].lease = l
        /\ \A t \in Run \ {r} : run'[t] = run[t]
    BY <1>0, <1>3 DEF TypeOK
  <1>5. \A t \in Run \ {r} : Untouched(t)
    BY <1>2, <1>3, <1>4 DEF Untouched
  <1>6. LastStage(r)' = RoundStage(r)
    BY <1>0, <1>1, StagesAfterReduction
  <1>7. /\ \/ run[r].status = "ready_for_consolidation"
           \/ run[r].status = "failed" /\ run[r].retry <= at
           \/ run[r].status = "consolidating" /\ usage[run[r].lease].expires <= at
    BY DEF ClaimConsolidation
  <1>8. ASSUME NEW q \in Left(r)'
        PROVE  Claimable(work[q], now)' \/ work'[q].lease = run'[r].lease
    <2>0. q \in Piece /\ q[1] = r /\ q[2] = RoundStage(r)
          /\ work'[q].status # "absent" /\ work'[q].status # "completed"
      BY <1>6 DEF Left, Pieces
    <2>1. CASE q = p
      BY <2>1, <1>2, <1>4
    <2>2. CASE q # p /\ work'[q] = NewPiece(at)
      <3>1. work'[q].status = "pending" /\ work'[q].available = at
        BY <2>2 DEF NewPiece
      <3>2. at <= now'
        BY <1>0, <1>a
      <3> QED BY <3>1, <3>2 DEF Claimable
    <2>3. CASE q # p /\ work'[q] = work[q]
      <3>1. ~NeedsRound(r) /\ RoundStage(r) = LastStage(r) /\ LastStage(r) # 0
        <4>1. LastStage(r) \in Nat /\ RoundStage(r) \in Nat
              /\ RoundStage(r) = IF NeedsRound(r) THEN LastStage(r) + 1 ELSE LastStage(r)
          BY RoundStageIs
        <4>2. q[2] \in Stage /\ q \in Pieces(r, q[2])
          BY <2>0, <2>3, StageOf DEF Pieces
        <4>3. q[2] <= LastStage(r)
          BY <4>2, LastStageIs
        <4>4. ~NeedsRound(r)
          BY <4>1, <4>3, <2>0
        <4> QED BY <4>1, <4>4 DEF NeedsRound
      <3>2. q \in Left(r)
        BY <2>0, <2>3, <3>1 DEF Left, Pieces
      <3>3. work[q] \in PieceRow
        BY <1>0, <2>0, StoredTypes
      <3>4. Claimable(work[q], now)
        <4>1. CASE run[r].status = "ready_for_consolidation"
          BY <4>1, <3>1, <3>2 DEF LeftOK, LeftRun
        <4>2. CASE run[r].status = "failed" /\ run[r].retry <= at
          <5>1. \/ Claimable(work[q], now)
                \/ work[q].status = "failed" /\ work[q].available = run[r].retry
            BY <4>2, <3>2 DEF LeftOK, LeftRun
          <5>2. run[r].retry \in Nat
            <6>1. run[r] \in RunRow
              BY <1>0, StoredTypes
            <6> QED BY <6>1, BackfillAssumption DEF RunRow, Time, Never
          <5>3. run[r].retry <= now
            BY <5>2, <4>2, <1>0, <1>a
          <5> QED BY <5>1, <5>3 DEF Claimable
        <4>3. CASE run[r].status = "consolidating" /\ usage[run[r].lease].expires <= at
          <5>1. Claimable(work[q], now) \/ work[q].lease = run[r].lease
            BY <4>3, <3>2 DEF LeftOK, LeftRun
          <5>2. ASSUME work[q].lease = run[r].lease PROVE Claimable(work[q], now)
            <6>1. run[r].lease \in Lease /\ usage[run[r].lease].status = "active"
              BY <4>3, Linked
            <6>2. work[q].status = "leased"
              BY <2>0, <5>2, <6>1, <1>0, Linked, StoredTypes
            <6>3. usage[run[r].lease].expires \in Nat
              <7>1. usage[run[r].lease] \in Claim
                BY <6>1, Linked DEF Used
              <7> QED BY <7>1, BackfillAssumption DEF Claim
            <6>4. usage[work[q].lease].expires <= now
              BY <6>3, <5>2, <4>3, <1>0, <1>a
            <6> QED BY <6>2, <6>4 DEF Claimable
          <5> QED BY <5>1, <5>2
        <4> QED BY <1>7, <4>1, <4>2, <4>3
      <3> QED BY <2>0, <2>3, <3>4, ClaimableLater
    <2> QED BY <1>2, <2>0, <2>1, <2>2, <2>3
  <1>9. LeftRun(r)'
    BY <1>4, <1>8 DEF LeftRun
  <1> QED BY <1>9, <1>5, LeftUntouched DEF LeftOK

(* The pieces of a stage are finitely many.                                *)
LEMMA PiecesFinite ==
  ASSUME NEW r \in Run, NEW k \in Stage
  PROVE  IsFiniteSet(Pieces(r, k))
  <1> DEFINE P == Pieces(r, k)
             f == [p \in P |-> p[3]]
  <1>1. IsFiniteSet(Index)
    <2>1. 0 \in Int /\ MaxIndex \in Int
      BY BackfillAssumption
    <2> QED BY <2>1, FS_Interval DEF Index
  <1>2. f \in Injection(P, Index)
    <2>1. \A p \in P : p \in Piece /\ p[1] = r /\ p[2] = k
      BY DEF Pieces
    <2>2. \A p, q \in P : p[3] = q[3] => p = q
      BY <2>1 DEF Piece
    <2>3. \A p \in P : p[3] \in Index
      BY <2>1, StageOf
    <2> HIDE DEF P
    <2> QED BY <2>2, <2>3 DEF Injection, IsInjective
  <1>3. IsFiniteSet(P)
    <2> HIDE DEF P, f
    <2> QED BY <1>1, <1>2, FS_Injection
  <1> QED BY <1>3

LEMMA OnePiece ==
  ASSUME NEW r \in Run, NEW k \in Stage, NEW p \in Pieces(r, k)
  PROVE  Cardinality(Pieces(r, k)) = 1 <=> Pieces(r, k) = {p}
  <1> DEFINE P == Pieces(r, k)
  <1>1. IsFiniteSet(P)
    BY PiecesFinite
  <1>2. p \in P
    OBVIOUS
  <1> HIDE DEF P
  <1>3. Cardinality(P) = 1 <=> \E x : P = {x}
    BY <1>1, FS_Singleton
  <1>4. Cardinality(P) = 1 <=> P = {p}
    BY <1>2, <1>3
  <1> QED BY <1>4 DEF P

LEMMA EndLeft ==
  ASSUME Leases, Forward, LeftOK, NEW l \in Lease, NEW p, NEW row,
         Ends(l, p, row), RunAfter(l, p, row)
  PROVE  LeftOK'
  <1>0. Types
    BY DEF Leases
  <1>1. /\ p \in Piece /\ p[1] \in Run /\ p[2] \in Stage
        /\ \A q \in Piece \ {p} : work'[q] = work[q]
        /\ work'[p] = row /\ row.status \in {"completed", "failed"}
        /\ SamePieces
    BY EndsRow
  <1>2. usage[l].status = "active" /\ usage[l].piece = p
        /\ work[p].status = "leased" /\ work[p].lease = l
    BY DEF Ends
  <1>3. \A t \in Run \ {p[1]} : Untouched(t)
    BY <1>1 DEF Untouched, RunAfter
  <1>4. PICK r \in Run : r = p[1]
    BY <1>1
  <1>5. PICK k \in Stage : k = p[2]
    BY <1>1
  <1>6. /\ \A j \in Stage : Pieces(r, j)' = Pieces(r, j)
        /\ LastStage(r)' = LastStage(r) /\ 0 \in Stage
    BY <1>1, SamePiecesSame, BackfillAssumption DEF Stage
  <1>7. CASE k = 0
    <2>1. /\ run[r].status = "extracting"
          /\ run'[r].status \in {"extracting", "ready_for_consolidation"}
          /\ run'[r].status = "extracting" /\ row.status = "completed" =>
                 ~Completed(Pieces(r, 0) \ {p})
      BY <1>7, <1>4, <1>5 DEF RunAfter
    <2>2. LastStage(r) = 0
      <3>1. \A j \in Stage \ {0} : Pieces(r, j) = {}
        BY <2>1 DEF Leases, StagesOK
      <3> QED BY <3>1, LastStageIs
    <2>3. ASSUME run'[r].status = "extracting"
          PROVE  LeftRun(r)'
      <3>1. ~Completed(Pieces(r, 0))'
        <4>0. Pieces(r, 0)' = Pieces(r, 0) /\ p \in Pieces(r, 0) /\ Pieces(r, 0) \subseteq Piece
          BY <1>1, <1>2, <1>4, <1>5, <1>6, <1>7 DEF Pieces
        <4>1. CASE row.status = "failed"
          BY <4>0, <4>1, <1>1 DEF Completed
        <4>2. CASE row.status = "completed"
          <5>1. PICK q \in Pieces(r, 0) \ {p} : work[q].status # "completed"
            BY <2>1, <2>3, <4>2 DEF Completed
          <5>2. work'[q] = work[q]
            BY <5>1, <4>0, <1>1
          <5> QED BY <4>0, <5>1, <5>2 DEF Completed
        <4> QED BY <4>1, <4>2, <1>1
      <3> QED BY <2>3, <3>1 DEF LeftRun
    <2>4. ASSUME run'[r].status = "ready_for_consolidation"
          PROVE  LeftRun(r)'
      <3>1. LastStage(r)' = 0
        BY <2>2, <1>6
      <3>2. NeedsRound(r)'
        BY <3>1 DEF NeedsRound
      <3> QED BY <2>4, <3>1, <3>2 DEF LeftRun
    <2>5. LeftRun(r)'
      BY <2>1, <2>3, <2>4
    <2> QED BY <2>5, <1>3, <1>4, LeftUntouched DEF LeftOK
  <1>8. CASE k # 0
    <2>1. /\ run[r].status = "consolidating" /\ run[r].lease = l
          /\ run'[r].status \in {"ready_for_consolidation", "failed", "candidates_ready"}
          /\ run'[r].status = "ready_for_consolidation" =>
                  row.status = "completed" /\ ~IsFinal(p)
          /\ run'[r].status = "failed" =>
                  row.status = "failed" /\ row.available = run'[r].retry
      BY <1>8, <1>4, <1>5 DEF RunAfter
    <2>2. LastStage(r) = k /\ LastStage(r)' = k
      BY <2>1, <1>2, <1>4, <1>5, <1>6, Linked
    <2>3. p \in Pieces(r, k) /\ p \in Left(r)
      BY <1>1, <1>2, <1>4, <1>5, <2>2 DEF Pieces, Left
    <2>4. ASSUME NEW q \in Left(r)', q # p
          PROVE  q \in Left(r) /\ Claimable(work[q], now)'
      <3>1. q \in Piece /\ q[1] = r /\ q[2] = k /\ work'[q].status # "absent"
            /\ work'[q].status # "completed"
        BY <2>2 DEF Left, Pieces
      <3>2. work'[q] = work[q] /\ q \in Left(r)
        BY <3>1, <2>4, <2>2, <1>1 DEF Left, Pieces
      <3>3. Claimable(work[q], now) \/ work[q].lease = l
        BY <3>2, <2>1 DEF LeftOK, LeftRun
      <3>4. work[q].lease # l
        <4>1. l # None
          BY NumbersOfLeases
        <4> QED BY <4>1, <3>1, <2>4, <1>1, <1>2, LeasesDiffer
      <3> QED BY <3>1, <3>2, <3>3, <3>4, ClaimableLater
    <2>5. ASSUME run'[r].status = "candidates_ready"
          PROVE  LeftRun(r)'
      BY <2>5, LeftFinished
    <2>6. ASSUME run'[r].status = "ready_for_consolidation"
          PROVE  LeftRun(r)'
      <3>1. p \notin Left(r)'
        BY <1>1, <2>1, <2>6 DEF Left, Pieces
      <3>2. NeedsRound(r)' \/ Left(r)' # {}
        <4> SUFFICES ASSUME Left(r)' = {} PROVE NeedsRound(r)'
          OBVIOUS
        <4>1. Pieces(r, LastStage(r))' = Pieces(r, k)
          <5>1. Pieces(r, LastStage(r))' = Pieces(r, k)'
            BY <2>2
          <5> QED BY <5>1, <1>6
        <4>2. Completed(Pieces(r, LastStage(r)))'
          BY DEF Left, Completed
        <4>3. Pieces(r, k) # {p}
          BY <2>1, <2>6, <1>4, <1>5 DEF IsFinal
        <4>4. Cardinality(Pieces(r, k)) # 1
          BY <4>3, <2>3, OnePiece
        <4>5. Cardinality(Pieces(r, LastStage(r)))' # 1
          BY <4>1, <4>4
        <4> QED BY <4>2, <4>5 DEF NeedsRound
      <3> QED BY <2>6, <3>1, <3>2, <2>4 DEF LeftRun
    <2>7. ASSUME run'[r].status = "failed"
          PROVE  LeftRun(r)'
      <3>1. work'[p].status = "failed" /\ work'[p].available = run'[r].retry
        BY <2>1, <2>7, <1>1
      <3>2. p \in Left(r)'
        BY <3>1, <1>1, <1>4, <1>5, <2>2 DEF Left, Pieces
      <3>3. LastStage(r)' # 0
        BY <2>2, <1>8
      <3> QED BY <2>7, <3>1, <3>2, <3>3, <2>4 DEF LeftRun
    <2>8. LeftRun(r)'
      BY <2>1, <2>5, <2>6, <2>7
    <2> QED BY <2>8, <1>3, <1>4, LeftUntouched DEF LeftOK
  <1> QED BY <1>7, <1>8

LEMMA RetryLeft ==
  ASSUME Leases, Forward, LeftOK, NEW at \in At,
         \/ \E p \in Piece, available \in Time : RetryChunk(p, at, available)
         \/ \E r \in Run : RetryConsolidation(r, at)
  PROVE  LeftOK'
  <1>0. Types /\ now \in Nat /\ now' \in Nat /\ now <= now' /\ at \in Nat /\ at <= now
    BY AtIsTime, BackfillAssumption DEF Leases, Types, TypeOK, Forward, Time
  <1>1. ASSUME NEW p \in Piece, NEW available \in Time, RetryChunk(p, at, available)
        PROVE  LeftOK'
    <2>1. /\ p[2] = 0 /\ run[p[1]].status \in {"pending", "extracting"}
          /\ work[p].status = "failed" /\ work'[p].status = "pending"
          /\ \A q \in Piece \ {p} : work'[q] = work[q]
          /\ run' = run
      BY <1>0, <1>1, RetryChunkIs
    <2>2. PICK r \in Run : r = p[1]
      BY StageOf
    <2>3. p \in Pieces(r, 0)' /\ work'[p].status # "completed"
      BY <2>1, <2>2 DEF Pieces
    <2>4. LeftRun(r)'
      BY <2>1, <2>2, <2>3 DEF LeftRun, Completed
    <2>5. \A t \in Run \ {r} : Untouched(t)
      BY <2>1, <2>2 DEF Untouched
    <2> QED BY <2>4, <2>5, LeftUntouched DEF LeftOK
  <1>2. ASSUME NEW r \in Run, RetryConsolidation(r, at)
        PROVE  LeftOK'
    <2>1. /\ run[r].status = "failed"
          /\ run'[r].status = "ready_for_consolidation"
          /\ \A t \in Run \ {r} : run'[t] = run[t]
          /\ \A q \in Piece :
               IF q[1] = r /\ q[2] # 0 /\ work[q].status = "failed"
               THEN /\ work'[q].status = "pending" /\ work'[q].available = at
               ELSE work'[q] = work[q]
      BY <1>0, <1>2, RetryConsolidationIs
    <2>2. \A t \in Run \ {r} : Untouched(t)
      BY <2>1 DEF Untouched
    <2>3. SamePieces
      BY <2>1 DEF SamePieces
    <2>4. LastStage(r)' = LastStage(r) /\ LastStage(r) # 0 /\ Left(r) # {}
      BY <2>1, <2>3, SamePiecesSame DEF LeftOK, LeftRun
    <2>5. \A q \in Piece : q \in Left(r)' <=> q \in Left(r)
      <3>1. \A q \in Piece : work'[q].status = "completed" <=> work[q].status = "completed"
        BY <2>1
      <3> QED BY <2>3, <2>4, <3>1 DEF Left, Pieces, SamePieces
    <2>6. ASSUME NEW q \in Left(r)' PROVE Claimable(work[q], now)'
      <3>1. q \in Piece /\ q[1] = r /\ q[2] = LastStage(r)
        BY <2>4 DEF Left, Pieces
      <3>2. CASE work[q].status = "failed"
        <4>1. work'[q].status = "pending" /\ work'[q].available = at
          BY <2>1, <2>4, <3>1, <3>2
        <4>2. at <= now'
          BY <1>0
        <4> QED BY <4>1, <4>2 DEF Claimable
      <3>3. CASE work[q].status # "failed"
        <4>1. work'[q] = work[q]
          BY <2>1, <3>1, <3>3
        <4>2. Claimable(work[q], now)
          BY <2>1, <2>5, <3>1, <3>3 DEF LeftOK, LeftRun
        <4> QED BY <3>1, <4>1, <4>2, ClaimableLater
      <3> QED BY <3>2, <3>3
    <2>7. Left(r)' # {}
      BY <2>4, <2>5, LeftIs
    <2>8. LeftRun(r)'
      BY <2>1, <2>6, <2>7 DEF LeftRun
    <2> QED BY <2>2, <2>8, LeftUntouched DEF LeftOK
  <1> QED BY <1>1, <1>2

LEMMA LeftStep ==
  ASSUME Leases, LeftOK, [Next]_vars
  PROVE  LeftOK'
  <1>0. Forward /\ Types
    BY StepsForward DEF Leases
  <1>1. CASE Around
    <2>1. \A t \in Run : Untouched(t)
      BY <1>1 DEF Around, Tick, RotateCapability, CreateRunRefused, vars, Untouched
    <2> QED BY <2>1, <1>0, LeftUntouched DEF LeftOK
  <1>2. ASSUME NEW at \in At, Calls(at) PROVE LeftOK'
    <2>1. ASSUME NEW s \in Session, NEW l \in Lease,
                 \/ \E n \in 0 .. MaxFindings : SubmitChunk(s, l, at, n)
                 \/ \E n \in 0 .. MaxOutputs : CompleteConsolidation(s, l, at, n)
                 \/ \E retry \in Time \cup {Never} :
                        FailChunk(s, l, at, retry) \/ FailConsolidation(s, l, at, retry)
          PROVE  LeftOK'
      <3>1. \E row : Ends(l, usage[l].piece, row) /\ RunAfter(l, usage[l].piece, row)
        BY <2>1, <1>0, ResultEnds, ResultRunAfter
      <3> QED BY <3>1, <1>0, EndLeft
    <2> QED BY <1>2, <1>0, <2>1, CreateRunLeft, ClaimNextLeft, ClaimConsolidationLeft,
               RetryLeft DEF Calls
  <1> QED BY <1>1, <1>2, StepsAre

LEMMA NothingStrandedIs ==
  ASSUME Leases, LeftOK
  PROVE  NothingIsStranded
  <1> SUFFICES ASSUME NEW r \in Run
               PROVE  LET waiting(t) ==
                              \E p \in Pieces(r, LastStage(r)) : Claimable(work[p], t)
                      IN  /\ run[r].status \in {"pending", "extracting"} =>
                                 ~Completed(Pieces(r, 0))
                          /\ run[r].status = "ready_for_consolidation" =>
                                 NeedsRound(r) \/ waiting(now)
                          /\ run[r].status = "failed" /\ run[r].retry # Never =>
                                 waiting(run[r].retry)
                          /\ run[r].status = "consolidating" =>
                                 waiting(usage[run[r].lease].expires)
    BY DEF NothingIsStranded
  <1>0. LeftRun(r) /\ Types
    BY DEF LeftOK, Leases
  <1>1. Left(r) \subseteq Pieces(r, LastStage(r))
    BY DEF Left
  <1>2. run[r].status = "ready_for_consolidation" =>
            NeedsRound(r) \/ \E p \in Pieces(r, LastStage(r)) : Claimable(work[p], now)
    <2>1. LastStage(r) = 0 => NeedsRound(r)
      BY DEF NeedsRound
    <2> QED BY <2>1, <1>0, <1>1 DEF LeftRun
  <1>3. run[r].status = "failed" =>
            \E p \in Pieces(r, LastStage(r)) : Claimable(work[p], run[r].retry)
    <2> SUFFICES ASSUME run[r].status = "failed"
                 PROVE  \E p \in Pieces(r, LastStage(r)) : Claimable(work[p], run[r].retry)
      OBVIOUS
    <2>1. PICK p \in Left(r) : work[p].status = "failed" /\ work[p].available = run[r].retry
      BY <1>0 DEF LeftRun
    <2>2. work[p].available \in Nat
      <3>1. work[p] \in PieceRow
        BY <1>0, LeftIs, StoredTypes
      <3> QED BY <3>1, BackfillAssumption DEF PieceRow, Time, Never
    <2>3. Claimable(work[p], run[r].retry)
      BY <2>1, <2>2 DEF Claimable
    <2> QED BY <2>3, <1>1
  <1>4. run[r].status = "consolidating" =>
            \E p \in Pieces(r, LastStage(r)) : Claimable(work[p], usage[run[r].lease].expires)
    <2> SUFFICES ASSUME run[r].status = "consolidating"
                 PROVE  \E p \in Pieces(r, LastStage(r)) :
                            Claimable(work[p], usage[run[r].lease].expires)
      OBVIOUS
    <2>1. PICK l \in Lease : l = run[r].lease /\ usage[l].status = "active"
                             /\ usage[l].piece[1] = r /\ usage[l].piece[2] = LastStage(r)
      BY Linked
    <2>2. usage[l] \in Claim /\ usage[l].piece \in Piece /\ work[usage[l].piece].lease = l
          /\ work[usage[l].piece].status = "leased"
      BY <2>1, Linked DEF Used
    <2>3. usage[l].expires \in Nat
      BY <2>2, BackfillAssumption DEF Claim
    <2>4. Claimable(work[usage[l].piece], usage[l].expires)
      BY <2>2, <2>3 DEF Claimable
    <2>5. usage[l].piece \in Pieces(r, LastStage(r))
      BY <2>1, <2>2 DEF Pieces
    <2> QED BY <2>1, <2>4, <2>5
  <1>5. run[r].status \in {"pending", "extracting"} => ~Completed(Pieces(r, 0))
    BY <1>0 DEF LeftRun
  <1> QED BY <1>2, <1>3, <1>4, <1>5

(* Every run that is not over has a piece somebody can claim, now or when  *)
(* its lease or its retry time is over, or is due for its next round.      *)
THEOREM NoRunIsStranded == Spec => []NothingIsStranded
  <1>1. Init => LeftOK
    BY DEF Init, LeftOK, LeftRun
  <1>2. Leases /\ LeftOK /\ [Next]_vars => LeftOK'
    BY LeftStep
  <1>3. Leases /\ LeftOK => NothingIsStranded
    BY NothingStrandedIs
  <1> QED BY <1>1, <1>2, <1>3, LeasesAgree, PTL DEF Spec
-----------------------------------------------------------------------------
(* Rounds cover what was found.                                            *)

RoundMade(r, k) ==
    Pieces(r, k) # {} =>
        /\ Completed(Pieces(r, k - 1))
        /\ Cardinality(Pieces(r, k)) = Batches(Findings(Pieces(r, k - 1)))

ResultIsOne(r) ==
    run[r].status = "candidates_ready" =>
        /\ LastStage(r) > 0 /\ Completed(Pieces(r, LastStage(r)))
        /\ Cardinality(Pieces(r, LastStage(r))) = 1

LEMMA RoundsAre ==
  RoundsCoverTheirInputs <=>
      \A r \in Run : ResultIsOne(r) /\ \A k \in Stage \ {0} : RoundMade(r, k)
  BY DEF RoundsCoverTheirInputs, ResultIsOne, RoundMade

(* What is completed stays.                                                *)
Settled == \A q \in Piece : work[q].status = "completed" => work'[q] = work[q]

LEMMA CompletedStays ==
  ASSUME Leases, [Next]_vars
  PROVE  Settled
  <1>1. CASE Stands
    BY <1>1 DEF Stands, RowMoved, Settled
  <1>2. ASSUME NEW r \in Run, NEW at \in At, CreateRun(r, at)
        PROVE  Settled
    BY <1>2, CreateRunStages DEF Leases, Settled
  <1> QED BY <1>1, <1>2, StandsOrCreates

LEMMA FindingsStay ==
  ASSUME Settled, NEW r \in Run, NEW k \in Stage, Pieces(r, k)' = Pieces(r, k),
         Completed(Pieces(r, k))
  PROVE  /\ Completed(Pieces(r, k))'
         /\ Findings(Pieces(r, k))' = Findings(Pieces(r, k))
  <1>1. \A q \in Pieces(r, k) : q \in Piece /\ work[q].status = "completed" /\ work'[q] = work[q]
    BY DEF Settled, Pieces, Completed
  <1>2. Completed(Pieces(r, k))'
    BY <1>1 DEF Completed
  <1>3. [q \in Pieces(r, k) |-> work[q].findings]' = [q \in Pieces(r, k) |-> work[q].findings]
    BY <1>1
  <1> QED BY <1>2, <1>3 DEF Findings

LEMMA RoundMadeStays ==
  ASSUME Settled, NEW r \in Run, NEW k \in Stage \ {0}, RoundMade(r, k),
         Pieces(r, k)' = Pieces(r, k), Pieces(r, k - 1)' = Pieces(r, k - 1)
  PROVE  RoundMade(r, k)'
  <1>1. PICK j \in Stage : j = k - 1
    BY BackfillAssumption DEF Stage
  <1>2. Pieces(r, j)' = Pieces(r, j)
    BY <1>1
  <1>3. CASE Pieces(r, k) = {}
    BY <1>3 DEF RoundMade
  <1>4. CASE Pieces(r, k) # {}
    <2>1. /\ Completed(Pieces(r, j))
          /\ Cardinality(Pieces(r, k)) = Batches(Findings(Pieces(r, j)))
      BY <1>1, <1>4 DEF RoundMade
    <2>2. /\ Completed(Pieces(r, j))'
          /\ Findings(Pieces(r, j))' = Findings(Pieces(r, j))
      BY <1>2, <2>1, FindingsStay
    <2>3. Batches(Findings(Pieces(r, j)))' = Batches(Findings(Pieces(r, j)))
      BY <2>2 DEF Batches
    <2>4. Cardinality(Pieces(r, k))' = Cardinality(Pieces(r, k))
      OBVIOUS
    <2> QED BY <1>1, <2>1, <2>2, <2>3, <2>4 DEF RoundMade
  <1> QED BY <1>3, <1>4

(* The pieces of a run stay the same, and so do its rounds and result.     *)
LEMMA CoverStays ==
  ASSUME Settled, NEW r \in Run, ResultIsOne(r), \A k \in Stage \ {0} : RoundMade(r, k),
         \A k \in Stage : Pieces(r, k)' = Pieces(r, k), LastStage(r)' = LastStage(r)
  PROVE  /\ \A k \in Stage \ {0} : RoundMade(r, k)'
         /\ run'[r].status = run[r].status => ResultIsOne(r)'
  <1>1. ASSUME NEW k \in Stage \ {0} PROVE RoundMade(r, k)'
    <2>1. k \in Stage /\ k - 1 \in Stage
      BY BackfillAssumption DEF Stage
    <2>2. PICK j \in Stage : j = k - 1
      BY <2>1
    <2>3. Pieces(r, k)' = Pieces(r, k) /\ Pieces(r, j)' = Pieces(r, j)
      BY <2>1
    <2>4. Pieces(r, k - 1)' = Pieces(r, k - 1)
      BY <2>2, <2>3
    <2> QED BY <2>3, <2>4, RoundMadeStays
  <1>2. ASSUME run'[r].status = run[r].status PROVE ResultIsOne(r)'
    <2>1. PICK k \in Stage : k = LastStage(r)
      BY LastStageIs
    <2>2. Pieces(r, k)' = Pieces(r, k) /\ LastStage(r)' = k
      BY <2>1
    <2>3. CASE run[r].status # "candidates_ready"
      BY <1>2, <2>3 DEF ResultIsOne
    <2>4. CASE run[r].status = "candidates_ready"
      <3>1. k > 0 /\ Completed(Pieces(r, k)) /\ Cardinality(Pieces(r, k)) = 1
        BY <2>1, <2>4 DEF ResultIsOne
      <3>2. Completed(Pieces(r, k))'
        BY <2>2, <3>1, FindingsStay
      <3>3. Cardinality(Pieces(r, k))' = 1
        BY <2>2, <3>1
      <3> QED BY <2>2, <3>1, <3>2, <3>3 DEF ResultIsOne
    <2> QED BY <2>3, <2>4
  <1> QED BY <1>1, <1>2
(* A new round has as many pieces as there are batches.                    *)
LEMMA NewRoundSize ==
  ASSUME NEW r \in Run, NEW k \in Stage, NEW n \in 1 .. MaxIndex + 1,
         NEW P, P = {q \in Piece : q[1] = r /\ q[2] = k /\ q[3] < n}
  PROVE  Cardinality(P) = n
  <1> DEFINE T == 0 .. n - 1
             f == [i \in T |-> <<r, k, i>>]
  <1>0. n \in Nat /\ MaxIndex \in Nat /\ n <= MaxIndex + 1 /\ n >= 1
    BY BackfillAssumption
  <1>1. IsFiniteSet(T) /\ Cardinality(T) = n
    <2>1. n - 1 \in Int /\ 0 \in Int /\ ~(0 > n - 1) /\ (n - 1) - 0 + 1 = n
      BY <1>0
    <2>2. IsFiniteSet(0 .. n - 1)
          /\ Cardinality(0 .. n - 1) = IF 0 > n - 1 THEN 0 ELSE (n - 1) - 0 + 1
      BY <2>1, FS_Interval
    <2> QED BY <2>1, <2>2
  <1>2. \A i \in T : i \in Index /\ i < n
    BY <1>0 DEF Index
  <1>3. f \in [T -> P]
    <2>1. ASSUME NEW i \in T PROVE <<r, k, i>> \in P
      <3>1. <<r, k, i>> \in Piece
        BY <1>2 DEF Piece
      <3> QED BY <3>1, <1>2
    <2> QED BY <2>1
  <1>4. f \in Injection(T, P)
    <2>1. \A i, j \in T : f[i] = f[j] => i = j
      OBVIOUS
    <2> QED BY <1>3, <2>1 DEF Injection, IsInjective
  <1>5. f \in Surjection(T, P)
    <2>1. ASSUME NEW q \in P PROVE \E i \in T : f[i] = q
      <3>1. q \in Piece /\ q[1] = r /\ q[2] = k /\ q[3] < n
        OBVIOUS
      <3>2. q[3] \in Index /\ q = <<q[1], q[2], q[3]>>
        BY <3>1 DEF Piece
      <3>3. q[3] \in T
        BY <3>1, <3>2, <1>0 DEF Index
      <3>4. f[q[3]] = q
        BY <3>1, <3>2, <3>3
      <3> QED BY <3>3, <3>4
    <2> QED BY <1>3, <2>1 DEF Surjection
  <1>6. ExistsBijection(T, P)
    BY <1>4, <1>5 DEF Bijection, ExistsBijection
  <1>7. Cardinality(P) = Cardinality(T)
    <2> HIDE DEF T, f
    <2> QED BY <1>1, <1>6, FS_Bijection
  <1> QED BY <1>1, <1>7

LEMMA ReductionCovers ==
  ASSUME Leases, Settled, RoundsCoverTheirInputs, NEW s \in Session, NEW r \in Run,
         NEW previous \in Lease \cup {None}, NEW at \in At,
         ClaimConsolidation(s, r, previous, at), NeedsRound(r)
  PROVE  \A k \in Stage \ {0} : RoundMade(r, k)'
  <1>0. Types /\ TypeOK /\ at \in Time
    BY AtIsTime DEF Leases, Types
  <1>1. PICK p \in Piece, l \in Lease, rows \in [Piece -> PieceRow] :
           TakesReduction(s, r, previous, at, p, l, rows)
    BY <1>0, ClaimConsolidationIs
  <1>2. PICK k \in Stage : k = LastStage(r)
    BY LastStageIs
  <1>3. k < MaxStage /\ Batches(Findings(Pieces(r, k))) \in 1 .. MaxIndex + 1
    BY <1>2 DEF ClaimConsolidation, RoundFits
  <1>4. PICK n \in 1 .. MaxIndex + 1 : n = Batches(Findings(Pieces(r, k)))
    BY <1>3
  <1>5. PICK new \in Stage \ {0} : new = k + 1
    BY <1>3, BackfillAssumption DEF Stage
  <1>6. RoundStage(r) = new /\ k # new
    BY <1>2, <1>5, BackfillAssumption DEF RoundStage, Stage
  <1>7. /\ \A j \in Stage : j # new => Pieces(r, j)' = Pieces(r, j)
        /\ \A j \in Stage : Pieces(r, j) # {} => j <= k
    BY <1>0, <1>1, <1>2, <1>6, StagesAfterReduction, LastStageIs
  <1>8. Completed(Pieces(r, k))
    <2>1. CASE k = 0
      <3>1. run[r].status \in {"ready_for_consolidation", "consolidating", "failed"}
        BY DEF ClaimConsolidation
      <3> QED BY <2>1, <3>1 DEF Leases, StagesOK
    <2>2. CASE k # 0
      BY <1>2, <2>2 DEF NeedsRound
    <2> QED BY <2>1, <2>2
  <1>9. Completed(Pieces(r, k))' /\ Findings(Pieces(r, k))' = Findings(Pieces(r, k))
    BY <1>6, <1>7, <1>8, FindingsStay
  <1>10. Pieces(r, new)' = {q \in Piece : q[1] = r /\ q[2] = new /\ q[3] < n}
    <2>1. ASSUME NEW q \in Piece, q[1] = r, q[2] = new
          PROVE  work'[q].status # "absent" <=> q[3] < n
      <3>1. work[q].status = "absent"
        <4>1. Pieces(r, new) = {}
          BY <1>5, <1>7, BackfillAssumption DEF Stage
        <4> QED BY <2>1, <4>1 DEF Pieces
      <3>2. rows[q] = IF q[3] < n THEN NewPiece(at) ELSE work[q]
        BY <1>1, <1>2, <1>4, <1>5, <2>1 DEF TakesReduction, WithRound
      <3>3. rows[q].status # "absent" <=> q[3] < n
        BY <3>1, <3>2 DEF NewPiece
      <3>4. work'[q].status # "absent" <=> rows[q].status # "absent"
        <4>1. work' = [rows EXCEPT ![p] = Leased(@, l)] /\ rows[p].status # "absent"
          BY <1>1 DEF TakesReduction
        <4>2. rows[p] \in PieceRow
          OBVIOUS
        <4>3. work'[p].status = "leased"
          BY <4>1, <4>2 DEF Leased, PieceRow
        <4>4. q # p => work'[q] = rows[q]
          BY <4>1
        <4> QED BY <4>1, <4>3, <4>4
      <3> QED BY <3>3, <3>4
    <2> QED BY <2>1 DEF Pieces
  <1>11. Cardinality(Pieces(r, new))' = n
    BY <1>10, NewRoundSize
  <1>12. RoundMade(r, new)'
    <2>1. new - 1 = k
      BY <1>5, BackfillAssumption DEF Stage
    <2>2. Batches(Findings(Pieces(r, k)))' = n
      BY <1>4, <1>9 DEF Batches
    <2> QED BY <1>9, <1>11, <2>1, <2>2 DEF RoundMade
  <1>13. ASSUME NEW j \in Stage \ {0}, j # new
         PROVE  RoundMade(r, j)'
    <2>1. CASE Pieces(r, j) = {}
      <3>1. Pieces(r, j)' = {}
        BY <1>7, <1>13, <2>1
      <3> QED BY <3>1 DEF RoundMade
    <2>2. CASE Pieces(r, j) # {}
      <3>1. j <= k
        BY <1>7, <2>2
      <3>2. PICK i \in Stage : i = j - 1
        BY BackfillAssumption DEF Stage
      <3>3. i # new
        BY <1>5, <3>1, <3>2, BackfillAssumption DEF Stage
      <3>4. Pieces(r, j)' = Pieces(r, j) /\ Pieces(r, i)' = Pieces(r, i)
        BY <1>7, <1>13, <3>3
      <3>5. Pieces(r, j - 1)' = Pieces(r, j - 1)
        BY <3>2, <3>4
      <3>6. RoundMade(r, j)
        BY RoundsAre
      <3> QED BY <3>4, <3>5, <3>6, RoundMadeStays
    <2> QED BY <2>1, <2>2
  <1> QED BY <1>12, <1>13

LEMMA CoverStep ==
  ASSUME Leases, RoundsCoverTheirInputs, [Next]_vars
  PROVE  RoundsCoverTheirInputs'
  <1>0. Types /\ Settled
    BY CompletedStays DEF Leases
  <1>1. \A t \in Run : ResultIsOne(t) /\ \A k \in Stage \ {0} : RoundMade(t, k)
    BY RoundsAre
  <1>2. ASSUME NEW t \in Run, run'[t].status # "candidates_ready"
        PROVE  ResultIsOne(t)'
    BY <1>2 DEF ResultIsOne
  <1>3. ASSUME NEW t \in Run, \A k \in Stage : Pieces(t, k)' = Pieces(t, k),
               LastStage(t)' = LastStage(t),
               run'[t].status = "candidates_ready" => run'[t].status = run[t].status
        PROVE  ResultIsOne(t)' /\ \A k \in Stage \ {0} : RoundMade(t, k)'
    <2>1. \A k \in Stage \ {0} : RoundMade(t, k)'
      BY <1>0, <1>1, <1>3, CoverStays
    <2>2. run'[t].status = run[t].status => ResultIsOne(t)'
      BY <1>0, <1>1, <1>3, CoverStays
    <2> QED BY <1>2, <1>3, <2>1, <2>2
  <1>4. ASSUME SamePieces,
               \A t \in Run : run'[t].status = "candidates_ready" => run'[t].status = run[t].status
        PROVE  RoundsCoverTheirInputs'
    <2>1. \A t \in Run : ResultIsOne(t)' /\ \A k \in Stage \ {0} : RoundMade(t, k)'
      BY <1>3, <1>4, SamePiecesSame
    <2> QED BY <2>1 DEF RoundsCoverTheirInputs, ResultIsOne, RoundMade
  <1>5. CASE Around
    <2>1. run' = run /\ work' = work
      BY <1>5 DEF Around, Tick, RotateCapability, CreateRunRefused, vars
    <2>2. SamePieces
      BY <2>1 DEF SamePieces
    <2> QED BY <1>4, <2>1, <2>2
  <1>6. ASSUME NEW at \in At, Calls(at) PROVE RoundsCoverTheirInputs'
    <2>1. ASSUME NEW r \in Run, CreateRun(r, at) PROVE RoundsCoverTheirInputs'
      <3>1. ASSUME NEW t \in Run \ {r}
            PROVE  ResultIsOne(t)' /\ \A k \in Stage \ {0} : RoundMade(t, k)'
        <4>1. run'[t].status = "candidates_ready" => run'[t].status = run[t].status
          BY <1>0, <2>1, CreateRunIs
        <4>2. LastStage(t)' = LastStage(t) /\ \A k \in Stage : Pieces(t, k)' = Pieces(t, k)
          BY <1>0, <2>1, CreateRunStages
        <4> QED BY <1>3, <4>1, <4>2
      <3>2. ResultIsOne(r)'
        <4>1. run'[r].status # "candidates_ready"
          BY <1>0, <2>1, CreateRunIs
        <4> QED BY <1>2, <4>1
      <3>3. \A k \in Stage \ {0} : RoundMade(r, k)'
        <4>1. \A k \in Stage \ {0} : Pieces(r, k)' = {}
          BY <1>0, <2>1, CreateRunStages
        <4> QED BY <4>1 DEF RoundMade
      <3> QED BY <3>1, <3>2, <3>3 DEF RoundsCoverTheirInputs, ResultIsOne, RoundMade
    <2>2. ASSUME NEW s \in Session, NEW r \in Run, NEW previous \in Lease \cup {None},
                 ClaimNext(s, r, previous, at)
          PROVE  RoundsCoverTheirInputs'
      <3>1. PICK p \in Piece, l \in Lease : TakesChunk(s, r, previous, at, p, l)
        BY <1>0, <2>2, ClaimNextIs DEF Types
      <3>2. SamePieces
        BY <1>0, <3>1, ChunkRow
      <3>3. run' = [run EXCEPT ![r].status = "extracting"] /\ run \in [Run -> RunRow]
        BY <1>0, <2>2 DEF ClaimNext, Types, TypeOK
      <3>4. \A t \in Run : run'[t].status = "candidates_ready" => run'[t].status = run[t].status
        BY <3>3 DEF RunRow
      <3> QED BY <1>4, <3>2, <3>4
    <2>3. ASSUME NEW s \in Session, NEW r \in Run, NEW previous \in Lease \cup {None},
                 ClaimConsolidation(s, r, previous, at)
          PROVE  RoundsCoverTheirInputs'
      <3>1. PICK p \in Piece, l \in Lease, rows \in [Piece -> PieceRow] :
               TakesReduction(s, r, previous, at, p, l, rows)
        BY <1>0, <2>3, ClaimConsolidationIs DEF Types
      <3>2. run'[r].status = "consolidating" /\ \A t \in Run \ {r} : run'[t] = run[t]
        BY <1>0, <3>1 DEF TakesReduction, Types, TypeOK
      <3>3. \A t \in Run : run'[t].status = "candidates_ready" => run'[t].status = run[t].status
        BY <3>2
      <3>4. CASE ~NeedsRound(r)
        <4>1. SamePieces
          BY <1>0, <3>1, <3>4, StagesAfterReduction
        <4> QED BY <1>4, <3>3, <4>1
      <3>5. CASE NeedsRound(r)
        <4>1. \A k \in Stage \ {0} : RoundMade(r, k)'
          BY <1>0, <2>3, <3>5, ReductionCovers
        <4>2. ResultIsOne(r)'
          BY <1>2, <3>2
        <4>3. ASSUME NEW t \in Run \ {r}
              PROVE  ResultIsOne(t)' /\ \A k \in Stage \ {0} : RoundMade(t, k)'
          <5>1. LastStage(t)' = LastStage(t) /\ \A k \in Stage : Pieces(t, k)' = Pieces(t, k)
            BY <1>0, <3>1, StagesAfterReduction
          <5> QED BY <1>3, <3>3, <5>1
        <4> QED BY <4>1, <4>2, <4>3 DEF RoundsCoverTheirInputs, ResultIsOne, RoundMade
      <3> QED BY <3>4, <3>5
    <2>4. ASSUME NEW l \in Lease, NEW p, NEW row, Ends(l, p, row), RunAfter(l, p, row)
          PROVE  RoundsCoverTheirInputs'
      <3>1. p \in Piece /\ p[1] \in Run /\ p[2] \in Stage /\ SamePieces /\ work'[p] = row
        BY <2>4, EndsRow
      <3>2. ASSUME NEW t \in Run
            PROVE  /\ \A k \in Stage : Pieces(t, k)' = Pieces(t, k)
                   /\ LastStage(t)' = LastStage(t)
        BY <3>1, SamePiecesSame
      <3>3. ASSUME NEW t \in Run, t # p[1]
            PROVE  ResultIsOne(t)' /\ \A k \in Stage \ {0} : RoundMade(t, k)'
        <4>1. run'[t] = run[t]
          BY <2>4, <3>3 DEF RunAfter
        <4> QED BY <1>3, <3>2, <4>1
      <3>4. \A k \in Stage \ {0} : RoundMade(p[1], k)'
        <4>1. PICK r \in Run : r = p[1]
          BY <3>1
        <4>2. \A k \in Stage \ {0} : RoundMade(r, k)'
          BY <1>0, <1>1, <3>2, CoverStays
        <4> QED BY <4>1, <4>2
      <3>5. ResultIsOne(p[1])'
        <4>1. PICK r \in Run : r = p[1]
          BY <3>1
        <4>2. CASE run'[r].status # "candidates_ready"
          BY <1>2, <4>1, <4>2
        <4>3. CASE run'[r].status = "candidates_ready"
          <5>1. PICK k \in Stage : k = p[2]
            BY <3>1
          <5>2. /\ k # 0 /\ run[r].status = "consolidating" /\ run[r].lease = l
                /\ row.status = "completed" /\ Pieces(r, k) = {p}
            BY <2>4, <4>1, <4>3, <5>1 DEF RunAfter, IsFinal
          <5>3. k = LastStage(r)
            BY <2>4, <4>1, <5>1, <5>2, Linked DEF Ends
          <5>4. LastStage(r)' = k /\ Pieces(r, k)' = {p}
            BY <3>2, <5>2, <5>3
          <5>5. Completed(Pieces(r, k))'
            BY <3>1, <5>2, <5>4 DEF Completed
          <5>6. Cardinality(Pieces(r, k))' = 1
            BY <5>4, FS_Singleton
          <5>7. k > 0
            BY <5>2, BackfillAssumption DEF Stage
          <5>8. ResultIsOne(r)'
            BY <5>4, <5>5, <5>6, <5>7 DEF ResultIsOne
          <5> QED BY <4>1, <5>8
        <4> QED BY <4>2, <4>3
      <3>6. \A t \in Run : ResultIsOne(t)' /\ \A k \in Stage \ {0} : RoundMade(t, k)'
        BY <3>3, <3>4, <3>5
      <3> QED BY <3>6 DEF RoundsCoverTheirInputs, ResultIsOne, RoundMade
    <2>5. ASSUME NEW s \in Session, NEW l \in Lease,
                 \/ \E n \in 0 .. MaxFindings : SubmitChunk(s, l, at, n)
                 \/ \E n \in 0 .. MaxOutputs : CompleteConsolidation(s, l, at, n)
                 \/ \E retry \in Time \cup {Never} :
                        FailChunk(s, l, at, retry) \/ FailConsolidation(s, l, at, retry)
          PROVE  RoundsCoverTheirInputs'
      <3>1. \E row : Ends(l, usage[l].piece, row) /\ RunAfter(l, usage[l].piece, row)
        BY <2>5, <1>0, ResultEnds, ResultRunAfter
      <3> QED BY <3>1, <2>4
    <2>6. ASSUME NEW p \in Piece, NEW available \in Time, RetryChunk(p, at, available)
          PROVE  RoundsCoverTheirInputs'
      <3>1. /\ work[p].status = "failed" /\ work'[p].status = "pending"
            /\ \A q \in Piece \ {p} : work'[q] = work[q]
            /\ run' = run
        BY <1>0, <2>6, RetryChunkIs
      <3>2. SamePieces
        BY <3>1 DEF SamePieces
      <3> QED BY <1>4, <3>1, <3>2
    <2>7. ASSUME NEW r \in Run, RetryConsolidation(r, at)
          PROVE  RoundsCoverTheirInputs'
      <3>1. /\ run'[r].status = "ready_for_consolidation"
            /\ \A t \in Run \ {r} : run'[t] = run[t]
            /\ \A q \in Piece :
                 IF q[1] = r /\ q[2] # 0 /\ work[q].status = "failed"
                 THEN work'[q].status = "pending" ELSE work'[q] = work[q]
        BY <1>0, <2>7, RetryConsolidationIs
      <3>2. SamePieces
        BY <3>1 DEF SamePieces
      <3>3. \A t \in Run : run'[t].status = "candidates_ready" => run'[t].status = run[t].status
        BY <3>1
      <3> QED BY <1>4, <3>2, <3>3
    <2> QED BY <1>6, <2>1, <2>2, <2>3, <2>5, <2>6, <2>7 DEF Calls
  <1> QED BY <1>5, <1>6, StepsAre

(* Every round is made of all the findings of a completed stage, and the   *)
(* result of a run is that of a completed round of one batch, the last.    *)
THEOREM RoundsCover == Spec => []RoundsCoverTheirInputs
  <1>1. Init => RoundsCoverTheirInputs
    <2> SUFFICES ASSUME Init PROVE RoundsCoverTheirInputs
      OBVIOUS
    <2>1. \A r \in Run : \A k \in Stage : Pieces(r, k) = {}
      BY DEF Init, Pieces
    <2>2. \A r \in Run : run[r].status = "absent"
      BY DEF Init
    <2> QED BY <2>1, <2>2, RoundsAre DEF ResultIsOne, RoundMade
  <1>2. Leases /\ RoundsCoverTheirInputs /\ [Next]_vars => RoundsCoverTheirInputs'
    BY CoverStep
  <1> QED BY <1>1, <1>2, LeasesAgree, PTL DEF Spec
-----------------------------------------------------------------------------
(* The service is a work queue.                                            *)

Holder    == [p \in Piece |-> work[p].lease]
Any(leases) == IF leases = {} THEN None ELSE CHOOSE l \in leases : TRUE
DoneBy    == [p \in Piece |-> Any(Receipt(p))]
Spent     == {l \in Lease : Used(l)}
Withdrawn == {p \in Piece : run[p[1]].status = "superseded"}

QueueSame == Holder' = Holder /\ DoneBy' = DoneBy /\ Spent' = Spent /\ Withdrawn' = Withdrawn

LEMMA QueueSteps ==
  /\ QueueSame => UNCHANGED Queue!vars
  /\ Withdrawn \subseteq Withdrawn' /\ Holder' = Holder /\ DoneBy' = DoneBy /\ Spent' = Spent
        => Queue!Next
  /\ \A p \in Piece, l \in Lease :
        /\ DoneBy[p] = None /\ p \notin Withdrawn /\ l \notin Spent
        /\ Holder' = [Holder EXCEPT ![p] = l] /\ Spent' = Spent \cup {l}
        /\ DoneBy' = DoneBy /\ Withdrawn' = Withdrawn
        => Queue!Next
  /\ \A p \in Piece :
        /\ DoneBy[p] = None /\ p \notin Withdrawn /\ Holder[p] # None
        /\ DoneBy' \in {DoneBy, [DoneBy EXCEPT ![p] = Holder[p]]}
        /\ Holder' = [Holder EXCEPT ![p] = None]
        /\ Spent' = Spent /\ Withdrawn' = Withdrawn
        => Queue!Next
  <1>1. QueueSame => UNCHANGED Queue!vars
    BY DEF QueueSame, Queue!vars, Holder, DoneBy, Any, Spent, Withdrawn, Used
  <1>2. Withdrawn' \in SUBSET Piece
    BY DEF Withdrawn
  <1>3. Withdrawn \subseteq Withdrawn' /\ Holder' = Holder /\ DoneBy' = DoneBy /\ Spent' = Spent
        => Queue!Next
    <2>1. Withdrawn \subseteq Withdrawn' /\ Holder' = Holder /\ DoneBy' = DoneBy /\ Spent' = Spent
          => Queue!Close
      BY <1>2 DEF Queue!Close, Holder, DoneBy, Any, Spent, Withdrawn, Used
    <2> QED BY <2>1 DEF Queue!Next
  <1>4. ASSUME NEW p \in Piece, NEW l \in Lease,
               DoneBy[p] = None, p \notin Withdrawn, l \notin Spent,
               Holder' = [Holder EXCEPT ![p] = l], Spent' = Spent \cup {l},
               DoneBy' = DoneBy, Withdrawn' = Withdrawn
        PROVE  Queue!Next
    <2>1. Queue!Take(p, l)
      BY <1>4 DEF Queue!Take, Queue!Open, Holder, DoneBy, Any, Spent, Withdrawn, Used
    <2> QED BY <2>1 DEF Queue!Next
  <1>5. ASSUME NEW p \in Piece,
               DoneBy[p] = None, p \notin Withdrawn, Holder[p] # None,
               DoneBy' \in {DoneBy, [DoneBy EXCEPT ![p] = Holder[p]]},
               Holder' = [Holder EXCEPT ![p] = None],
               Spent' = Spent, Withdrawn' = Withdrawn
        PROVE  Queue!Next
    <2>1. CASE DoneBy' = DoneBy
      <3>1. Queue!GiveBack(p)
        BY <1>5, <2>1 DEF Queue!GiveBack, Queue!Open, Holder, DoneBy, Any, Spent, Withdrawn, Used
      <3> QED BY <3>1 DEF Queue!Next
    <2>2. CASE DoneBy' = [DoneBy EXCEPT ![p] = Holder[p]]
      <3>1. Queue!Finish(p)
        BY <1>5, <2>2 DEF Queue!Finish, Queue!Open, Holder, DoneBy, Any, Spent, Withdrawn, Used
      <3> QED BY <3>1 DEF Queue!Next
    <2> QED BY <1>5, <2>1, <2>2
  <1> QED BY <1>1, <1>3, <1>4, <1>5

(* What is not completed has no receipt.                                   *)
LEMMA NotDone ==
  ASSUME Leases, NEW p \in Piece, work[p].status # "completed"
  PROVE  Receipt(p) = {} /\ DoneBy[p] = None
  <1>1. Receipt(p) = {}
    BY Linked DEF Receipt
  <1> QED BY <1>1 DEF DoneBy, Any

LEMMA ReceiptsStay ==
  ASSUME receipts' = receipts, \A m \in receipts : usage'[m].piece = usage[m].piece
  PROVE  DoneBy' = DoneBy
  <1>1. \A q \in Piece : Receipt(q)' = Receipt(q)
    BY DEF Receipt
  <1> QED BY <1>1 DEF DoneBy

Taken(s, r, previous, at, p, l) ==
    /\ p[1] = r /\ Fresh(l) /\ work[p].status # "completed"
    /\ work'[p].lease = l /\ DOMAIN work' = Piece
    /\ \A q \in Piece \ {p} : work'[q].lease = work[q].lease
    /\ \E replaced \in SUBSET (Lease \cup {None}) :
           usage' = UsageAfterClaim(s, p, replaced, l, previous, at)
    /\ run[r].status # "superseded" /\ run'[r].status # "superseded"
    /\ \A t \in Run \ {r} : run'[t] = run[t]
    /\ receipts' = receipts

LEMMA TakenIsTake ==
  ASSUME Leases, NEW s \in Session, NEW r \in Run, NEW previous \in Lease \cup {None},
         NEW at \in At, NEW p \in Piece, NEW l \in Lease, Taken(s, r, previous, at, p, l)
  PROVE  Queue!Next
  <1>0. Types
    BY DEF Leases
  <1>1. PICK replaced \in SUBSET (Lease \cup {None}) :
           usage' = UsageAfterClaim(s, p, replaced, l, previous, at)
    BY DEF Taken
  <1>2. Fresh(l)
    BY DEF Taken
  <1>3. /\ usage[l].status = "unused" /\ usage'[l].status = "active"
        /\ \A m \in Lease \ {l} :
              /\ Expires(m, replaced, at) => usage'[m].status = "expired" /\ SameClaim(m)
              /\ ~Expires(m, replaced, at) => usage'[m] = usage[m]
              /\ Used(m)' <=> Used(m)
    BY <1>0, <1>1, <1>2, UsageAfter
  <1>4. DoneBy[p] = None /\ p \notin Withdrawn /\ l \notin Spent
    BY <1>3, NotDone DEF Taken, Withdrawn, Spent, Used
  <1>5. Holder' = [Holder EXCEPT ![p] = l]
    BY DEF Holder, Taken
  <1>6. Spent' = Spent \cup {l}
    BY <1>3 DEF Spent, Used
  <1>7. DoneBy' = DoneBy
    <2>1. \A m \in receipts : m \in Lease /\ m # l
      BY <1>3, Linked
    <2>2. \A m \in receipts : usage'[m].piece = usage[m].piece
      BY <1>3, <2>1 DEF SameClaim
    <2>3. receipts' = receipts
      BY DEF Taken
    <2> QED BY <2>2, <2>3, ReceiptsStay
  <1>8. Withdrawn' = Withdrawn
    <2>1. \A q \in Piece : run'[q[1]].status = "superseded" <=> run[q[1]].status = "superseded"
      BY StageOf DEF Taken
    <2> QED BY <2>1 DEF Withdrawn
  <1> QED BY <1>4, <1>5, <1>6, <1>7, <1>8, QueueSteps

LEMMA ClaimTakes ==
  ASSUME Leases, NEW s \in Session, NEW r \in Run, NEW previous \in Lease \cup {None},
         NEW at \in At,
         ClaimNext(s, r, previous, at) \/ ClaimConsolidation(s, r, previous, at)
  PROVE  Queue!Next
  <1>0. Types /\ TypeOK
    BY DEF Leases, Types
  <1>1. CASE ClaimNext(s, r, previous, at)
    <2>1. PICK p \in Piece, l \in Lease : TakesChunk(s, r, previous, at, p, l)
      BY <1>0, <1>1, ClaimNextIs
    <2>2. /\ \A q \in Piece \ {p} : work'[q] = work[q]
          /\ work'[p].lease = l /\ work[p].status # "completed"
      BY <1>0, <2>1, ChunkRow
    <2>3. /\ p[1] = r /\ Fresh(l) /\ DOMAIN work' = Piece
          /\ usage' = UsageAfterClaim(s, p, {work[p].lease}, l, previous, at)
      BY <1>0, <2>1 DEF TakesChunk, TypeOK
    <2>4. work[p].lease \in Lease \cup {None}
      BY <1>0, StoredTypes DEF PieceRow
    <2>5. /\ run[r].status # "superseded" /\ run'[r].status # "superseded"
          /\ \A t \in Run \ {r} : run'[t] = run[t]
          /\ receipts' = receipts
      BY <1>0, <1>1 DEF ClaimNext, TypeOK, RunRow
    <2>6. \E replaced \in SUBSET (Lease \cup {None}) :
             usage' = UsageAfterClaim(s, p, replaced, l, previous, at)
      BY <2>3, <2>4
    <2>7. Taken(s, r, previous, at, p, l)
      BY <2>2, <2>3, <2>5, <2>6 DEF Taken
    <2> QED BY <2>7, TakenIsTake
  <1>2. CASE ClaimConsolidation(s, r, previous, at)
    <2>1. PICK p \in Piece, l \in Lease, rows \in [Piece -> PieceRow] :
             TakesReduction(s, r, previous, at, p, l, rows)
      BY <1>0, <1>2, ClaimConsolidationIs
    <2>2. /\ \A q \in Piece \ {p} :
                work'[q] = work[q] \/ (work[q].status = "absent" /\ work'[q] = NewPiece(at))
          /\ work'[p].lease = l /\ work[p].status # "completed"
      BY <1>0, <2>1, ReductionRow
    <2>3. /\ p[1] = r /\ Fresh(l) /\ DOMAIN work' = Piece
          /\ usage' = UsageAfterClaim(s, p, {run[r].lease, rows[p].lease}, l, previous, at)
      BY <1>0, <2>1 DEF TakesReduction, TypeOK
    <2>4. run[r].lease \in Lease \cup {None} /\ rows[p].lease \in Lease \cup {None}
      BY <1>0, StoredTypes DEF PieceRow, RunRow
    <2>5. /\ run[r].status # "superseded" /\ run'[r].status # "superseded"
          /\ \A t \in Run \ {r} : run'[t] = run[t]
          /\ receipts' = receipts
      BY <1>0, <1>2 DEF ClaimConsolidation, TypeOK, RunRow
    <2>6. \E replaced \in SUBSET (Lease \cup {None}) :
             usage' = UsageAfterClaim(s, p, replaced, l, previous, at)
      BY <2>3, <2>4
    <2>7. \A q \in Piece : work[q].status = "absent" => work[q].lease = None
      BY <1>0, StoredTypes
    <2>8. \A q \in Piece \ {p} : work'[q].lease = work[q].lease
      BY <2>2, <2>7 DEF NewPiece
    <2>9. Taken(s, r, previous, at, p, l)
      BY <2>2, <2>3, <2>5, <2>6, <2>8 DEF Taken
    <2> QED BY <2>9, TakenIsTake
  <1> QED BY <1>1, <1>2

LEMMA ResultFinishes ==
  ASSUME Leases, NEW l \in Lease, NEW p, NEW row, Ends(l, p, row), RunAfter(l, p, row)
  PROVE  Queue!Next
  <1>0. Types
    BY DEF Leases
  <1>1. /\ p \in Piece /\ p[1] \in Run
        /\ \A q \in Piece \ {p} : work'[q] = work[q]
        /\ work'[p] = row /\ row.status \in {"completed", "failed"} /\ row.lease = None
        /\ usage'[l].status = "consumed" /\ SameClaim(l)
        /\ \A m \in Lease \ {l} : usage'[m] = usage[m]
        /\ receipts' = IF row.status = "completed" THEN receipts \cup {l} ELSE receipts
    BY EndsRow
  <1>2. usage[l].status = "active" /\ usage[l].piece = p
        /\ work[p].status = "leased" /\ work[p].lease = l
    BY DEF Ends
  <1>3. l # None
    BY NumbersOfLeases
  <1>4. Receipt(p) = {} /\ DoneBy[p] = None
    BY <1>1, <1>2, NotDone
  <1>5. Holder[p] = l /\ Holder' = [Holder EXCEPT ![p] = None]
    BY <1>1, <1>2 DEF Holder
  <1>6. Spent' = Spent
    BY <1>1, <1>2 DEF Spent, Used
  <1>7. run[p[1]].status # "superseded" /\ run'[p[1]].status # "superseded"
        /\ \A t \in Run \ {p[1]} : run'[t] = run[t]
    BY <1>1 DEF RunAfter
  <1>8. p \notin Withdrawn /\ Withdrawn' = Withdrawn
    <2>1. \A q \in Piece : run'[q[1]].status = "superseded" <=> run[q[1]].status = "superseded"
      BY <1>7, StageOf
    <2> QED BY <2>1, <1>7 DEF Withdrawn
  <1>9. CASE row.status = "failed"
    <2>1. \A m \in receipts : usage'[m].piece = usage[m].piece
      BY <1>1, Linked DEF SameClaim
    <2>2. DoneBy' = DoneBy
      BY <1>1, <1>9, <2>1, ReceiptsStay
    <2> QED BY <1>1, <1>3, <1>4, <1>5, <1>6, <1>8, <2>2, QueueSteps
  <1>10. CASE row.status = "completed"
    <2>1. \A q \in Piece : q # p => Receipt(q)' = Receipt(q)
      BY <1>1, <1>2, <1>10, Linked DEF Receipt, SameClaim
    <2>2. Receipt(p)' = {l}
      BY <1>1, <1>2, <1>4, <1>10, Linked DEF Receipt, SameClaim
    <2>3. Any({l}) = l
      BY DEF Any
    <2>4. \A q \in Piece : Any(Receipt(q))' = IF q = p THEN l ELSE Any(Receipt(q))
      <3> TAKE q \in Piece
      <3>1. CASE q = p
        BY <3>1, <2>2, <2>3
      <3>2. CASE q # p
        BY <3>2, <2>1
      <3> QED BY <3>1, <3>2
    <2>5. DoneBy' = [DoneBy EXCEPT ![p] = Holder[p]]
      BY <1>1, <1>5, <2>4 DEF DoneBy
    <2> QED BY <1>1, <1>3, <1>4, <1>5, <1>6, <1>8, <2>5, QueueSteps
  <1> QED BY <1>1, <1>9, <1>10

LEMMA QueueStep ==
  ASSUME Leases, [Next]_vars
  PROVE  Queue!Next \/ UNCHANGED Queue!vars
  <1>0. Types /\ TypeOK
    BY DEF Leases, Types
  <1>1. ASSUME usage' = usage, receipts' = receipts
        PROVE  Spent' = Spent /\ DoneBy' = DoneBy
    BY <1>1, ReceiptsStay DEF Spent, Used
  <1>2. CASE Around
    <2>1. UNCHANGED <<run, work, usage, receipts>>
      BY <1>2 DEF Around, Tick, RotateCapability, CreateRunRefused, vars
    <2>2. QueueSame
      BY <1>1, <2>1 DEF QueueSame, Holder, Withdrawn
    <2> QED BY <2>2, QueueSteps
  <1>3. ASSUME NEW at \in At, Calls(at) PROVE Queue!Next \/ UNCHANGED Queue!vars
    <2>1. ASSUME NEW r \in Run, CreateRun(r, at) PROVE Queue!Next
      <3>1. UNCHANGED <<usage, receipts>>
        BY <2>1 DEF CreateRun
      <3>2. \A q \in Piece : work'[q].lease = work[q].lease
        <4> TAKE q \in Piece
        <4>1. \/ work'[q] = work[q]
              \/ work[q].status = "absent" /\ work'[q] = NewPiece(at)
          BY <1>0, <2>1, CreateRunIs
        <4>2. work[q].status = "absent" => work[q].lease = None
          BY <1>0, StoredTypes
        <4> QED BY <4>1, <4>2 DEF NewPiece
      <3>3. Holder' = Holder
        BY <3>2 DEF Holder
      <3>4. \A t \in Run : run[t].status = "superseded" => run'[t].status = "superseded"
        BY <1>0, <2>1, CreateRunIs
      <3>5. Withdrawn \subseteq Withdrawn'
        BY <3>4, StageOf DEF Withdrawn
      <3> QED BY <1>1, <3>1, <3>3, <3>5, QueueSteps
    <2>2. ASSUME NEW s \in Session, NEW l \in Lease,
                 \/ \E n \in 0 .. MaxFindings : SubmitChunk(s, l, at, n)
                 \/ \E n \in 0 .. MaxOutputs : CompleteConsolidation(s, l, at, n)
                 \/ \E retry \in Time \cup {Never} :
                        FailChunk(s, l, at, retry) \/ FailConsolidation(s, l, at, retry)
          PROVE  Queue!Next
      <3>1. \E row : Ends(l, usage[l].piece, row) /\ RunAfter(l, usage[l].piece, row)
        BY <2>2, <1>0, ResultEnds, ResultRunAfter
      <3> QED BY <3>1, ResultFinishes
    <2>3. ASSUME NEW p \in Piece, NEW available \in Time, RetryChunk(p, at, available)
          PROVE  UNCHANGED Queue!vars
      <3>1. /\ work[p].status = "failed" /\ work'[p].lease = None
            /\ \A q \in Piece \ {p} : work'[q] = work[q]
            /\ UNCHANGED <<run, usage, receipts>>
        BY <1>0, <2>3, RetryChunkIs
      <3>2. work[p].lease = None
        BY <1>0, <3>1, StoredTypes
      <3>3. Holder' = Holder /\ Withdrawn' = Withdrawn
        BY <3>1, <3>2 DEF Holder, Withdrawn
      <3> QED BY <1>1, <3>1, <3>3, QueueSteps DEF QueueSame
    <2>4. ASSUME NEW r \in Run, RetryConsolidation(r, at)
          PROVE  UNCHANGED Queue!vars
      <3>1. /\ run[r].status = "failed" /\ run'[r].status = "ready_for_consolidation"
            /\ \A t \in Run \ {r} : run'[t] = run[t]
            /\ \A q \in Piece :
                 \/ work'[q] = work[q]
                 \/ work[q].status = "failed" /\ work'[q].lease = None
            /\ UNCHANGED <<usage, receipts>>
        BY <1>0, <2>4, RetryConsolidationIs
      <3>2. \A q \in Piece : work'[q].lease = work[q].lease
        BY <1>0, <3>1, StoredTypes
      <3>3. \A q \in Piece : run'[q[1]].status = "superseded" <=> run[q[1]].status = "superseded"
        BY <3>1, StageOf
      <3>4. Holder' = Holder /\ Withdrawn' = Withdrawn
        BY <3>2, <3>3 DEF Holder, Withdrawn
      <3> QED BY <1>1, <3>1, <3>4, QueueSteps DEF QueueSame
    <2> QED BY <1>3, <2>1, <2>2, <2>3, <2>4, ClaimTakes DEF Calls
  <1> QED BY <1>2, <1>3, StepsAre

(* Backfill is a work queue: a piece is taken under a lease never used     *)
(* before, finished once, by its holder of the moment, and neither taken   *)
(* nor finished once its run is superseded.                                *)
THEOREM BackfillIsWorkQueue == Spec => ImplementsWorkQueue
  <1>1. Init => Queue!Init
    <2> SUFFICES ASSUME Init PROVE Queue!Init
      OBVIOUS
    <2>1. \A p \in Piece : work[p].lease = None /\ run[p[1]].status = "absent"
      BY StageOf DEF Init
    <2>2. \A l \in Lease : usage[l].status = "unused"
      BY DEF Init, NoClaim
    <2>3. \A p \in Piece : Receipt(p) = {}
      BY DEF Init, Receipt
    <2> QED BY <2>1, <2>2, <2>3 DEF Queue!Init
  <1>2. Leases /\ [Next]_vars => [Queue!Next]_Queue!vars
    BY QueueStep
  <1> QED BY <1>1, <1>2, LeasesAgree, PTL DEF Spec, ImplementsWorkQueue, Queue!Spec
===============================================================================
