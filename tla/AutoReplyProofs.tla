--------------------------- MODULE AutoReplyProofs ---------------------------
(* Proofs about AutoReply, for every number of turns, workers and faults. *)
EXTENDS AutoReply, TLAPS

-----------------------------------------------------------------------------
(* Types. *)

\* A row that an operator rewrites stays a row.
LEMMA RowTypes ==
    ASSUME NEW r \in Row, NEW b \in BOOLEAN, NEW s \in RowStates
    PROVE  /\ NoRow \in Row
           /\ Candidate(s) \in Row
           /\ Released(r) \in Row
           /\ Unclaimed(r) \in Row
           /\ [r EXCEPT !.state = s] \in Row
           /\ [r EXCEPT !.state = s, !.mid = b] \in Row
           /\ [r EXCEPT !.state = s, !.attempted = TRUE, !.mid = b] \in Row
           /\ [r EXCEPT !.attempted = TRUE] \in Row
           /\ [r EXCEPT !.old = b] \in Row
           /\ [r EXCEPT !.claimed = TRUE, !.old = FALSE] \in Row
<1>1. NoRow \in Row /\ Candidate(s) \in Row
  BY DEF Row, NoRow, Candidate, RowStates
<1>2. Released(r) \in Row /\ Unclaimed(r) \in Row
  BY DEF Row, Released, Unclaimed
<1>3. /\ [r EXCEPT !.state = s] \in Row
      /\ [r EXCEPT !.state = s, !.mid = b] \in Row
      /\ [r EXCEPT !.state = s, !.attempted = TRUE, !.mid = b] \in Row
  BY DEF Row
<1>4. /\ [r EXCEPT !.attempted = TRUE] \in Row
      /\ [r EXCEPT !.old = b] \in Row
      /\ [r EXCEPT !.claimed = TRUE, !.old = FALSE] \in Row
  BY DEF Row
<1> QED
  BY <1>1, <1>2, <1>3, <1>4

\* finalizeAiMessage leaves a row.
LEMMA HeldType ==
    ASSUME TypeOK, NEW t \in Turns PROVE Held(t) \in Row
  BY RowTypes DEF TypeOK, Held, RowStates

\* An execution that moves on stays an execution.
LEMMA RunTypes ==
    ASSUME NEW x \in Run, NEW s \in Steps, NEW e \in Endings, NEW b \in BOOLEAN,
           NEW t \in Turns
    PROVE  /\ Idle \in Run
           /\ [Idle EXCEPT !.at = s, !.turn = t] \in Run
           /\ [x EXCEPT !.at = s] \in Run
           /\ [x EXCEPT !.at = s, !.how = e] \in Run
           /\ [x EXCEPT !.at = s, !.auto = b] \in Run
           /\ [x EXCEPT !.at = s, !.auto = b, !.reuse = TRUE] \in Run
           /\ [x EXCEPT !.at = s, !.escalate = b] \in Run
           /\ [x EXCEPT !.part = @ + 1, !.at = s] \in Run
<1>1. Idle \in Run /\ [Idle EXCEPT !.at = s, !.turn = t] \in Run
  <2>1. /\ Idle.at \in Steps /\ Idle.how \in Endings
        /\ "idle" \in Steps /\ "completed" \in Endings
    BY DEF Idle, Steps, Endings
  <2> QED
    BY <2>1 DEF Run, Idle
<1>2. /\ [x EXCEPT !.at = s] \in Run
      /\ [x EXCEPT !.at = s, !.how = e] \in Run
      /\ [x EXCEPT !.at = s, !.auto = b] \in Run
      /\ [x EXCEPT !.at = s, !.auto = b, !.reuse = TRUE] \in Run
      /\ [x EXCEPT !.at = s, !.escalate = b] \in Run
  BY DEF Run
<1>3. [x EXCEPT !.part = @ + 1, !.at = s] \in Run
  <2>1. ASSUME NEW n \in Nat PROVE [x EXCEPT !.part = n, !.at = s] \in Run
    BY DEF Run
  <2>2. x.part + 1 \in Nat
    BY DEF Run
  <2> DEFINE n == x.part + 1
  <2>3. n \in Nat
    BY <2>2
  <2>4. [x EXCEPT !.part = n, !.at = s] \in Run
    <3> HIDE DEF n
    <3> QED
      BY <2>1, <2>3
  <2> QED
    BY <2>4
<1> QED
  BY <1>1, <1>2, <1>3

LEMMA PartIsNumber ==
    ASSUME NEW x \in Run PROVE x.part \in Nat /\ x.part + 1 \in Nat
BY DEF Run

\* The same, a part at a time.
LEMMA JobMoves ==
    ASSUME NEW j \in Job
    PROVE  /\ [j EXCEPT !.state = "waiting"] \in Job
           /\ \A w \in Workers :
                [j EXCEPT !.state = "active", !.owner = w] \in Job
BY DEF Job, JobStates

LEMMA RowMoves ==
    ASSUME NEW r \in Row, NEW b \in BOOLEAN PROVE [r EXCEPT !.old = b] \in Row
BY DEF Row

\* A job that BullMQ settles or gives back stays a job.
LEMMA JobTypes ==
    ASSUME NEW j \in Job, NEW e \in Endings, NEW w \in Workers,
           NEW s \in JobStates
    PROVE  /\ Settled(j, e) \in Job
           /\ GivenBack(j) \in Job
           /\ [j EXCEPT !.state = s] \in Job
           /\ [j EXCEPT !.state = s, !.owner = w] \in Job
<1>1. /\ j.state \in JobStates /\ j.owner \in Workers \cup {Nobody}
      /\ j.made \in Nat /\ j.stalls \in 0..MaxStalls
  BY DEF Job
<1>2. /\ "waiting" \in JobStates /\ "failed" \in JobStates
      /\ "completed" \in JobStates /\ Nobody \in Workers \cup {Nobody}
  BY DEF JobStates
<1>3. ASSUME NEW u \in JobStates, NEW m \in Nat
      PROVE  [j EXCEPT !.state = u, !.owner = Nobody, !.made = m] \in Job
  BY <1>2 DEF Job
<1>4. ASSUME NEW u \in JobStates, NEW n \in 0..MaxStalls
      PROVE  [j EXCEPT !.owner = Nobody, !.stalls = n, !.state = u] \in Job
  BY <1>2 DEF Job
<1>5. Settled(j, e) \in Job
  <2> DEFINE spent == e = "retry" /\ j.made + 1 >= MaxAttempts
             u == IF e = "completed" THEN "completed"
                  ELSE IF e = "dead" \/ spent THEN "failed" ELSE "waiting"
             m == IF e = "retry" THEN j.made + 1 ELSE j.made
  <2>1. u \in JobStates /\ m \in Nat
    BY <1>1, <1>2
  <2>2. [j EXCEPT !.state = u, !.owner = Nobody, !.made = m] \in Job
    <3> HIDE DEF u, m
    <3> QED
      BY <1>3, <2>1, Zenon
  <2> QED
    BY <2>2, Zenon DEF Settled
<1>6. GivenBack(j) \in Job
  <2> DEFINE n == IF j.stalls < MaxStalls THEN j.stalls + 1 ELSE j.stalls
             u == IF j.stalls < MaxStalls THEN "waiting" ELSE "failed"
  <2>1. n \in 0..MaxStalls
    BY <1>1, BoundsAreNumbers
  <2>2. u \in JobStates
    BY <1>2
  <2>3. [j EXCEPT !.owner = Nobody, !.stalls = n, !.state = u] \in Job
    <3> HIDE DEF n, u
    <3> QED
      BY <1>4, <2>1, <2>2, Zenon
  <2> QED
    BY <2>3, Zenon DEF GivenBack
<1>7. [j EXCEPT !.state = s] \in Job /\ [j EXCEPT !.state = s, !.owner = w] \in Job
  BY DEF Job
<1> QED
  BY <1>5, <1>6, <1>7

\* The executions part of TypeOK.
RunOK ==
    /\ run \in [Workers -> Run]
    /\ \A w \in Workers : run[w].at # "idle" => run[w].turn \in Turns

\* Moving on or ending keeps the executions well formed.
LEMMA MoveTypes ==
    ASSUME RunOK, NEW w \in Workers, ~At(w, "idle"),
           \/ \E s \in Steps : Go(w, s)
           \/ \E e \in Endings : End(w, e)
           \/ \E s \in Steps, e \in Endings :
                run' = [run EXCEPT ![w].at = s, ![w].how = e]
           \/ \E s \in Steps, b \in BOOLEAN :
                run' = [run EXCEPT ![w].at = s, ![w].auto = b]
           \/ \E s \in Steps, b \in BOOLEAN :
                run' = [run EXCEPT ![w].at = s, ![w].auto = b, ![w].reuse = TRUE]
           \/ \E s \in Steps, b \in BOOLEAN :
                run' = [run EXCEPT ![w].at = s, ![w].escalate = b]
           \/ \E s \in Steps :
                run' = [run EXCEPT ![w].part = @ + 1, ![w].at = s]
           \/ run' = [run EXCEPT ![w] = Idle]
           \/ run' = run
    PROVE  RunOK'
<1>1. run[w] \in Run /\ run[w].turn \in Turns
  BY DEF RunOK, At
<1>14. run[w].part + 1 \in Nat
  BY <1>1, PartIsNumber, Zenon
<1>2. ASSUME NEW x \in Run, x.turn = run[w].turn \/ x.at = "idle",
             run' = [run EXCEPT ![w] = x]
      PROVE  RunOK'
  BY <1>1, <1>2 DEF RunOK
<1>3. "finish" \in Steps
  BY DEF Steps
<1>4. Nobody \in Turns \cup {Nobody}
  OBVIOUS
<1>5. ASSUME NEW s \in Steps, NEW e \in Endings,
             run' = [run EXCEPT ![w].at = s, ![w].how = e]
      PROVE  RunOK'
  <2> DEFINE x == [run[w] EXCEPT !.at = s, !.how = e]
  <2>1. x \in Run /\ x.turn = run[w].turn
    BY <1>1 DEF Run
  <2>2. run' = [run EXCEPT ![w] = x]
    BY <1>5, <1>1 DEF RunOK
  <2> QED
    BY <1>2, <2>1, <2>2
<1>6. ASSUME NEW s \in Steps, Go(w, s) PROVE RunOK'
  <2> DEFINE x == [run[w] EXCEPT !.at = s]
  <2>1. x \in Run /\ x.turn = run[w].turn
    BY <1>1 DEF Run
  <2>2. run' = [run EXCEPT ![w] = x]
    BY <1>6, <1>1 DEF RunOK, Go
  <2> QED
    BY <1>2, <2>1, <2>2
<1>7. ASSUME NEW s \in Steps, NEW b \in BOOLEAN,
             run' = [run EXCEPT ![w].at = s, ![w].auto = b]
      PROVE  RunOK'
  <2> DEFINE x == [run[w] EXCEPT !.at = s, !.auto = b]
  <2>1. x \in Run /\ x.turn = run[w].turn
    BY <1>1 DEF Run
  <2>2. run' = [run EXCEPT ![w] = x]
    BY <1>7, <1>1 DEF RunOK
  <2> QED
    BY <1>2, <2>1, <2>2
<1>8. ASSUME NEW s \in Steps, NEW b \in BOOLEAN,
             run' = [run EXCEPT ![w].at = s, ![w].auto = b, ![w].reuse = TRUE]
      PROVE  RunOK'
  <2> DEFINE x == [run[w] EXCEPT !.at = s, !.auto = b, !.reuse = TRUE]
  <2>1. x \in Run /\ x.turn = run[w].turn
    BY <1>1 DEF Run
  <2>2. run' = [run EXCEPT ![w] = x]
    BY <1>8, <1>1 DEF RunOK
  <2> QED
    BY <1>2, <2>1, <2>2
<1>9. ASSUME NEW s \in Steps, NEW b \in BOOLEAN,
             run' = [run EXCEPT ![w].at = s, ![w].escalate = b]
      PROVE  RunOK'
  <2> DEFINE x == [run[w] EXCEPT !.at = s, !.escalate = b]
  <2>1. x \in Run /\ x.turn = run[w].turn
    BY <1>1 DEF Run
  <2>2. run' = [run EXCEPT ![w] = x]
    BY <1>9, <1>1 DEF RunOK
  <2> QED
    BY <1>2, <2>1, <2>2
<1>10. ASSUME NEW s \in Steps,
              run' = [run EXCEPT ![w].part = @ + 1, ![w].at = s]
       PROVE  RunOK'
  <2> DEFINE n == run[w].part + 1
             x == [run[w] EXCEPT !.part = n, !.at = s]
  <2>0. n \in Nat
    BY <1>14
  <2>1. x \in Run /\ x.turn = run[w].turn
    <3> HIDE DEF n
    <3> QED
      BY <1>1, <2>0 DEF Run
  <2>2. run' = [run EXCEPT ![w] = x]
    BY <1>10, <1>1 DEF RunOK
  <2> HIDE DEF n
  <2> QED
    BY <1>2, <2>1, <2>2
<1>11. ASSUME run' = [run EXCEPT ![w] = Idle] PROVE RunOK'
  <2>1. Idle \in Run /\ Idle.at = "idle"
    BY DEF Idle, Run, Steps, Endings
  <2> QED
    BY <1>2, <1>11, <2>1
<1>12. ASSUME run' = run PROVE RunOK'
  BY <1>12 DEF RunOK
<1>13. ASSUME NEW e \in Endings, End(w, e) PROVE RunOK'
  BY <1>3, <1>5, <1>13 DEF End
<1> QED
  BY <1>5, <1>6, <1>7, <1>8, <1>9, <1>10, <1>11, <1>12, <1>13

\* What a worker does keeps the executions well formed.
LEMMA WorkerRuns ==
    ASSUME TypeOK, NEW w \in Workers, WorkerStep(w)
    PROVE  RunOK' /\ ~At(w, "idle") /\ run[w].turn \in Turns
<1>1. RunOK
  BY DEF TypeOK, RunOK
<1>2. ~At(w, "idle")
  BY DEF WorkerStep, At, ClaimDedupKey, StartTurn, StartTurnFails, Guard, Answer,
         Withhold, Suppress, GenerationFails, SendGuard, StoreCandidate, StoreHeld,
         StoreBlocked, Hold, Handoff, ClaimCandidate, HoldRefused, Recheck,
         AcquireLock, Boundary, Revalidate, ReleaseCandidate, SendPart, RateLimited,
         SendFails, RecordSent, RecordFails, RecordFailure, Finish
<1>3. run[w].turn \in Turns
  BY <1>1, <1>2 DEF RunOK, At
<1>4. RunOK'
  <2>1. CASE ClaimDedupKey(w) \/ StartTurn(w) \/ StartTurnFails(w)
    BY <1>1, <1>2, <2>1, MoveTypes
       DEF ClaimDedupKey, StartTurn, StartTurnFails, Steps, Endings
  <2>2. CASE Guard(w)
    BY <1>1, <1>2, <2>2, MoveTypes DEF Guard, Steps, Endings
  <2>3. CASE Answer(w) \/ Withhold(w) \/ Suppress(w) \/ GenerationFails(w)
    BY <1>1, <1>2, <2>3, MoveTypes
       DEF Answer, Withhold, Suppress, GenerationFails, Steps, Endings
  <2>4. CASE SendGuard(w) \/ StoreCandidate(w) \/ StoreHeld(w) \/ StoreBlocked(w)
    BY <1>1, <1>2, <2>4, MoveTypes
       DEF SendGuard, StoreCandidate, StoreHeld, StoreBlocked, Store, Steps, Endings
  <2>5. CASE Hold(w) \/ Handoff(w) \/ ClaimCandidate(w) \/ HoldRefused(w)
    BY <1>1, <1>2, <2>5, MoveTypes
       DEF Hold, Handoff, ClaimCandidate, HoldRefused, Steps, Endings
  <2>6. CASE Recheck(w) \/ AcquireLock(w) \/ Boundary(w) \/ Revalidate(w)
    BY <1>1, <1>2, <2>6, MoveTypes
       DEF Recheck, AcquireLock, Boundary, Revalidate, Steps, Endings
  <2>7. CASE ReleaseCandidate(w) \/ RateLimited(w) \/ SendFails(w)
    BY <1>1, <1>2, <2>7, MoveTypes
       DEF ReleaseCandidate, RateLimited, SendFails, Steps, Endings
  <2>8. CASE SendPart(w)
    <3>1. (IF run[w].part + 1 = Parts THEN "record" ELSE "call") \in Steps
      BY DEF Steps
    <3> QED
      BY <1>1, <1>2, <2>8, <3>1, MoveTypes DEF SendPart
  <2>9. CASE RecordSent(w) \/ RecordFails(w) \/ RecordFailure(w) \/ Finish(w)
    BY <1>1, <1>2, <2>9, MoveTypes
       DEF RecordSent, RecordFails, RecordFailure, Finish, Steps, Endings
  <2> QED
    BY <2>1, <2>2, <2>3, <2>4, <2>5, <2>6, <2>7, <2>8, <2>9 DEF WorkerStep
<1> QED
  BY <1>2, <1>3, <1>4

\* What a worker does keeps the rows well formed.
LEMMA WorkerRows ==
    ASSUME TypeOK, NEW w \in Workers, WorkerStep(w)
    PROVE  row' \in [Turns -> Row]
<1> DEFINE t == run[w].turn
<1>1. t \in Turns /\ row \in [Turns -> Row] /\ run \in [Workers -> Run]
  BY WorkerRuns DEF TypeOK
<1>2. row[t] \in Row
  BY <1>1
<1> HIDE DEF t
<1>3. ASSUME NEW r \in Row, row' = [row EXCEPT ![t] = r]
      PROVE  row' \in [Turns -> Row]
  BY <1>1, <1>3
<1>4. Held(t) \in Row /\ Released(row[t]) \in Row /\ Unclaimed(row[t]) \in Row
  BY <1>1, <1>2, RowTypes, HeldType DEF RowStates
<1>5. CASE UNCHANGED row
  BY <1>1, <1>5
<1>6. CASE ClaimDedupKey(w) \/ Guard(w)
  BY <1>1, <1>3, <1>4, <1>6 DEF ClaimDedupKey, Guard, t
<1>7. CASE StoreCandidate(w) \/ StoreHeld(w) \/ StoreBlocked(w)
  <2>1. Candidate("SEND_PENDING") \in Row /\ Candidate("HELD") \in Row
        /\ Candidate("DISMISSED") \in Row
    BY RowTypes, <1>2 DEF RowStates
  <2>2. ASSUME NEW s \in {"SEND_PENDING", "HELD"}, NEW n \in Steps, Store(w, s, n)
        PROVE  row' \in [Turns -> Row]
    BY <1>1, <1>3, <2>1, <2>2 DEF Store, t
  <2> QED
    BY <1>7, <2>2 DEF StoreCandidate, StoreHeld, StoreBlocked, Steps
<1>8. CASE Hold(w) \/ HoldRefused(w)
  BY <1>1, <1>3, <1>4, <1>8 DEF Hold, HoldRefused, t
<1>9. CASE ClaimCandidate(w) \/ Boundary(w)
  <2>1. /\ [row[t] EXCEPT !.claimed = TRUE, !.old = FALSE] \in Row
        /\ [row[t] EXCEPT !.attempted = TRUE] \in Row
    BY <1>2 DEF Row
  <2> QED
    BY <1>1, <1>3, <1>9, <2>1 DEF ClaimCandidate, Boundary, t
<1>10. CASE ReleaseCandidate(w)
  BY <1>1, <1>3, <1>4, <1>10 DEF ReleaseCandidate, t
<1>11. CASE RecordSent(w)
  <2>1. /\ [row[t] EXCEPT !.state = "DISMISSED"] \in Row
        /\ [row[t] EXCEPT !.state = "SENT", !.mid = TRUE] \in Row
    BY <1>2, RowTypes DEF RowStates
  <2> QED
    BY <1>1, <1>3, <1>11, <2>1 DEF RecordSent, t
<1>12. CASE RecordFailure(w)
  <2> DEFINE b == run[w].part > 0
  <2>1. /\ [row[t] EXCEPT !.state = "DISMISSED"] \in Row
        /\ [row[t] EXCEPT !.state = "FAILED", !.attempted = TRUE, !.mid = b] \in Row
    <3>1. b \in BOOLEAN
      OBVIOUS
    <3> HIDE DEF b
    <3> QED
      BY <1>2, <3>1, RowTypes DEF RowStates
  <2> QED
    BY <1>1, <1>3, <1>12, <2>1 DEF RecordFailure, t
<1> QED
  BY <1>5, <1>6, <1>7, <1>8, <1>9, <1>10, <1>11, <1>12
     DEF WorkerStep, StartTurn, StartTurnFails, Answer, Withhold, Suppress,
         GenerationFails, SendGuard, Handoff, Recheck, AcquireLock, Revalidate,
         SendPart, RateLimited, SendFails, RecordFails, Finish

\* The rest of TypeOK, for a worker's step.
LEMMA WorkerRest ==
    ASSUME TypeOK, NEW w \in Workers, WorkerStep(w)
    PROVE  /\ job' \in [Turns -> Job]
           /\ dedup' \subseteq Turns
           /\ started' \subseteq Turns
           /\ conv' \in [hitl : BOOLEAN, open : BOOLEAN, paused : BOOLEAN,
                         mode : Modes, optedOut : BOOLEAN,
                         humanLast : BOOLEAN, bounded : BOOLEAN]
           /\ UNCHANGED <<obsolete, merchant, humans>>
           /\ lock' \in Workers \cup {Nobody, Merchant, Lost}
           /\ superseded' \subseteq Turns
           /\ faults' \in 0..MaxFaults
<1> DEFINE t == run[w].turn
<1>1. t \in Turns /\ job[t] \in Job
  BY WorkerRuns DEF TypeOK
<1>2. ASSUME NEW k, Fault(k) PROVE faults' \in 0..MaxFaults
  BY <1>2, BoundsAreNumbers DEF Fault, TypeOK
<1> HIDE DEF t
<1>3. CASE UNCHANGED <<queue, lock, world>>
           /\ (UNCHANGED faults \/ \E k : Fault(k))
  BY <1>2, <1>3 DEF TypeOK, queue, world
<1>4. CASE ClaimDedupKey(w) \/ StartTurn(w)
  BY <1>1, <1>4 DEF ClaimDedupKey, StartTurn, TypeOK, world, t
<1>5. CASE Handoff(w)
  <2>1. [conv EXCEPT !.hitl = TRUE] \in
           [hitl : BOOLEAN, open : BOOLEAN, paused : BOOLEAN, mode : Modes,
            optedOut : BOOLEAN, humanLast : BOOLEAN, bounded : BOOLEAN]
    BY DEF TypeOK
  <2>2. conv' = [conv EXCEPT !.hitl = TRUE] \/ conv' = conv
    BY <1>5 DEF Handoff
  <2>3. superseded' \subseteq Turns
    BY <1>5 DEF Handoff, InFlight, TypeOK
  <2>4. UNCHANGED <<queue, obsolete, lock, merchant, faults, humans>>
    BY <1>5 DEF Handoff
  <2> QED
    BY <2>1, <2>2, <2>3, <2>4 DEF TypeOK, queue
<1>6. CASE AcquireLock(w)
  BY <1>6 DEF AcquireLock, TypeOK, queue, world
<1>7. CASE Finish(w)
  <2>1. Settled(job[t], run[w].how) \in Job
    <3>1. run[w].how \in Endings
      BY DEF TypeOK, Run
    <3>2. "waiting" \in JobStates
      BY DEF JobStates
    <3> QED
      BY <1>1, <3>1, <3>2, JobTypes
  <2>2. job' = [job EXCEPT ![t] = IF @.owner = w THEN Settled(@, run[w].how)
                                  ELSE @]
    BY <1>7 DEF Finish, t
  <2> DEFINE j == IF job[t].owner = w THEN Settled(job[t], run[w].how)
                  ELSE job[t]
  <2>3. j \in Job
    BY <1>1, <2>1
  <2>4. job' = [job EXCEPT ![t] = j]
    BY <2>2, <1>1 DEF TypeOK
  <2>5. job' \in [Turns -> Job]
    <3> HIDE DEF j
    <3> QED
      BY <2>3, <2>4, <1>1 DEF TypeOK
  <2>6. /\ dedup' \subseteq Turns
        /\ lock' \in Workers \cup {Nobody, Merchant, Lost}
        /\ UNCHANGED <<started, faults, world>>
    BY <1>7 DEF Finish, TypeOK
  <2> QED
    BY <2>5, <2>6 DEF TypeOK, world
<1> QED
  BY <1>3, <1>4, <1>5, <1>6, <1>7
     DEF WorkerStep, StartTurnFails, Guard, Answer, Withhold, Suppress,
         GenerationFails, SendGuard, StoreCandidate, StoreHeld, StoreBlocked,
         Store, Hold, ClaimCandidate, HoldRefused, Recheck, Boundary, Revalidate,
         ReleaseCandidate, SendPart, RateLimited, SendFails, RecordSent,
         RecordFails, RecordFailure, queue, world

LEMMA OneMore ==
    ASSUME NEW c \in [Turns -> [1..Parts -> Nat]], NEW t \in Turns, NEW n
    PROVE  [c EXCEPT ![t][n] = @ + 1] \in [Turns -> [1..Parts -> Nat]]
<1>1. c[t] \in [1..Parts -> Nat]
  OBVIOUS
<1>2. ASSUME NEW p \in 1..Parts PROVE c[t][p] + 1 \in Nat
  BY <1>1
<1>3. [c[t] EXCEPT ![n] = c[t][n] + 1] \in [1..Parts -> Nat]
  BY <1>1, <1>2
<1> QED
  BY <1>3

\* Whatever Meta accepts is counted.
LEMMA WorkerCopies ==
    ASSUME TypeOK, NEW w \in Workers, WorkerStep(w)
    PROVE  copies' \in [Turns -> [1..Parts -> Nat]]
<1> DEFINE t == run[w].turn
           n == run[w].part + 1
<1>1. t \in Turns /\ copies \in [Turns -> [1..Parts -> Nat]]
  BY WorkerRuns DEF TypeOK
<1>2. copies[t] \in [1..Parts -> Nat]
  BY <1>1
<1>3. ASSUME AcceptPart(w) PROVE copies' \in [Turns -> [1..Parts -> Nat]]
  <2>1. copies' = [copies EXCEPT ![t][n] = @ + 1]
    BY <1>3 DEF AcceptPart
  <2> HIDE DEF t, n
  <2> QED
    BY <1>1, <2>1, OneMore
<1>4. CASE UNCHANGED copies
  BY <1>1, <1>4
<1> QED
  BY <1>3, <1>4
     DEF WorkerStep, ClaimDedupKey, StartTurn, StartTurnFails, Guard, Answer,
         Withhold, Suppress, GenerationFails, SendGuard, StoreCandidate,
         StoreHeld, StoreBlocked, Store, Hold, Handoff, ClaimCandidate,
         HoldRefused, Recheck, AcquireLock, Boundary, Revalidate,
         ReleaseCandidate, SendPart, RateLimited, SendFails, RecordSent,
         RecordFails, RecordFailure, Finish

\* The conversation that people and customers write stays a conversation.
Conversation == [hitl : BOOLEAN, open : BOOLEAN, paused : BOOLEAN, mode : Modes,
                 optedOut : BOOLEAN, humanLast : BOOLEAN, bounded : BOOLEAN]

LEMMA FaultTypes ==
    ASSUME TypeOK, NEW k, Fault(k) PROVE faults' \in 0..MaxFaults
  BY BoundsAreNumbers DEF Fault, TypeOK

LEMMA PersonTypes ==
    ASSUME TypeOK, NEW k, Person(k) PROVE humans' \in 0..MaxHumans
  BY BoundsAreNumbers DEF Person, TypeOK

LEMMA PeopleRows ==
    ASSUME TypeOK
    PROVE  /\ HoldPending \in [Turns -> Row]
           /\ \A S : CancelAll("HELD", S) \in [Turns -> Row]
           /\ \A S : CancelAll("DISMISSED", S) \in [Turns -> Row]
<1>1. ASSUME NEW t \in Turns
      PROVE  /\ row[t] \in Row
             /\ [row[t] EXCEPT !.state = "HELD"] \in Row
             /\ [row[t] EXCEPT !.state = "DISMISSED"] \in Row
  BY RowTypes DEF TypeOK, RowStates
<1> QED
  BY <1>1 DEF HoldPending, CancelAll

LEMMA PeopleTypes ==
    ASSUME TypeOK, MerchantStep \/ PersonStep
    PROVE  TypeOK'
<1>1. conv \in Conversation /\ InFlight \subseteq Turns
  BY DEF TypeOK, Conversation, InFlight
<1>2. ASSUME UNCHANGED <<job, run, dedup, started, copies>>,
             row' \in [Turns -> Row], conv' \in Conversation,
             obsolete' \subseteq Turns,
             lock' \in Workers \cup {Nobody, Merchant, Lost},
             merchant' \in {"idle", "store", "hold", "pause", "send"},
             superseded' \subseteq Turns,
             faults' \in 0..MaxFaults, humans' \in 0..MaxHumans
      PROVE  TypeOK'
  BY <1>2 DEF TypeOK, Conversation
<1>3. CASE ReplyBegins \/ ReplyStored \/ ReplyDelivered
  <2>1. [conv EXCEPT !.humanLast = TRUE] \in Conversation
    BY <1>1 DEF Conversation
  <2>2. humans' \in 0..MaxHumans
    BY <1>3, PersonTypes
       DEF ReplyBegins, ReplyStored, ReplyDelivered, TypeOK
  <2>3. conv' \in Conversation
    BY <1>1, <1>3, <2>1 DEF ReplyBegins, ReplyStored, ReplyDelivered
  <2> QED
    BY <1>1, <1>2, <1>3, <2>2, <2>3
       DEF ReplyBegins, ReplyStored, ReplyDelivered, TypeOK, queue
<1>4. CASE ReplyHolds
  BY <1>1, <1>2, <1>4, FaultTypes, PeopleRows DEF ReplyHolds, TypeOK, queue
<1>5. CASE ReplyPauses
  <2>1. [conv EXCEPT !.paused = TRUE] \in Conversation
    BY <1>1 DEF Conversation
  <2>2. faults' \in 0..MaxFaults /\ conv' \in Conversation
    BY <1>1, <1>5, <2>1, FaultTypes DEF ReplyPauses, TypeOK
  <2> QED
    BY <1>1, <1>2, <1>5, <2>2 DEF ReplyPauses, TypeOK, queue
<1>6. CASE PersonStep /\ ~ReplyBegins
  <2>1. humans' \in 0..MaxHumans
    BY <1>6, PersonTypes
       DEF PersonStep, TakeOver, Resume, Close, Archive, TogglePause,
           ChangeMode, OptOut
  <2>2. conv' \in Conversation
    <3>1. ASSUME NEW b \in BOOLEAN, NEW m \in Modes
          PROVE  /\ [conv EXCEPT !.hitl = TRUE] \in Conversation
                 /\ [conv EXCEPT !.hitl = FALSE, !.paused = FALSE,
                                 !.bounded = TRUE] \in Conversation
                 /\ [conv EXCEPT !.open = FALSE, !.hitl = FALSE,
                                 !.paused = FALSE, !.bounded = TRUE]
                       \in Conversation
                 /\ [conv EXCEPT !.open = FALSE] \in Conversation
                 /\ [conv EXCEPT !.mode = m] \in Conversation
      BY <1>1 DEF Conversation
    <3>2. [conv EXCEPT !.paused = ~conv.paused] \in Conversation
      BY <1>1 DEF Conversation
    <3>3. [conv EXCEPT !.optedOut = TRUE, !.humanLast = FALSE, !.open = TRUE,
                       !.hitl = conv.open /\ conv.hitl,
                       !.paused = conv.open /\ conv.paused] \in Conversation
      BY <1>1 DEF Conversation
    <3>4. CASE TakeOver
      BY <3>1, <3>4 DEF TakeOver, Modes
    <3>5. CASE Resume
      BY <3>1, <3>5 DEF Resume, Modes
    <3>6. CASE Close
      BY <3>1, <3>6 DEF Close, Modes
    <3>7. CASE Archive
      BY <3>1, <3>7 DEF Archive, Modes
    <3>8. CASE TogglePause
      BY <3>2, <3>8 DEF TogglePause
    <3>9. CASE ChangeMode
      BY <3>1, <3>9 DEF ChangeMode
    <3>10. CASE OptOut
      BY <3>3, <3>10 DEF OptOut
    <3> QED
      BY <1>6, <3>4, <3>5, <3>6, <3>7, <3>8, <3>9, <3>10 DEF PersonStep
  <2>3. row' \in [Turns -> Row]
    BY <1>6, PeopleRows
       DEF PersonStep, TakeOver, Resume, Close, Archive, TogglePause,
           ChangeMode, OptOut, TypeOK
  <2>4. superseded' \subseteq Turns /\ obsolete' \subseteq Turns
    BY <1>1, <1>6
       DEF PersonStep, TakeOver, Resume, Close, Archive, TogglePause,
           ChangeMode, OptOut, TypeOK
  <2>5. UNCHANGED <<job, run, dedup, started, copies, lock, merchant, faults>>
    BY <1>6
       DEF PersonStep, TakeOver, Resume, Close, Archive, TogglePause,
           ChangeMode, OptOut, queue
  <2> QED
    BY <1>2, <2>1, <2>2, <2>3, <2>4, <2>5 DEF TypeOK
<1> QED
  BY <1>3, <1>4, <1>5, <1>6 DEF MerchantStep, PersonStep

LEMMA DisturbanceTypes ==
    ASSUME TypeOK,
           \/ \E w \in Workers, t \in Turns : Take(w, t)
           \/ \E w \in Workers : Crash(w) \/ Stall(w)
           \/ \E t \in Turns : ClaimAges(t) \/ Echo(t) \/ CustomerMessage(t)
           \/ LockExpires \/ PauseExpires
    PROVE  TypeOK'
<1>1. CASE \E w \in Workers, t \in Turns : Take(w, t)
  <2>1. PICK w \in Workers, t \in Turns : Take(w, t)
    BY <1>1
  <2>2. /\ [job[t] EXCEPT !.state = "active", !.owner = w] \in Job
        /\ [Idle EXCEPT !.at = "dedup", !.turn = t] \in Run
    <3>1. job[t] \in Job /\ "dedup" \in Steps
      BY DEF TypeOK, Steps
    <3>2. [Idle EXCEPT !.at = "dedup", !.turn = t] \in Run
      BY <3>1 DEF Run, Idle, Endings
    <3> QED
      BY <3>1, <3>2, JobMoves
  <2>3. job' \in [Turns -> Job]
    BY <2>1, <2>2 DEF Take, TypeOK
  <2>4. /\ run' \in [Workers -> Run]
        /\ \A v \in Workers : run'[v].at # "idle" => run'[v].turn \in Turns
    <3> DEFINE x == [Idle EXCEPT !.at = "dedup", !.turn = t]
    <3>1. run' = [run EXCEPT ![w] = x]
      BY <2>1 DEF Take
    <3>2. x \in Run /\ x.turn = t
      BY <2>2 DEF Idle
    <3>3. run \in [Workers -> Run]
          /\ \A v \in Workers : run[v].at # "idle" => run[v].turn \in Turns
      BY DEF TypeOK
    <3> HIDE DEF x
    <3> QED
      BY <3>1, <3>2, <3>3
  <2> QED
    BY <2>1, <2>3, <2>4 DEF Take, TypeOK, world
<1>2. CASE \E w \in Workers : Crash(w)
  <2>1. PICK w \in Workers : Crash(w)
    BY <1>2
  <2> DEFINE t == run[w].turn
             j == IF job[t].owner = w THEN GivenBack(job[t]) ELSE job[t]
  <2>2. t \in Turns /\ job[t] \in Job
    BY <2>1 DEF Crash, At, TypeOK
  <2>3. j \in Job
    <3>1. GivenBack(job[t]) \in Job
      BY <2>2, JobTypes DEF Endings, JobStates
    <3> QED
      BY <2>2, <3>1
  <2>4. job' = [job EXCEPT ![t] = j]
    BY <2>1, <2>2 DEF Crash, TypeOK
  <2>5. job' \in [Turns -> Job]
    <3> HIDE DEF j, t
    <3> QED
      BY <2>2, <2>3, <2>4 DEF TypeOK
  <2>6. RunOK'
    <3>1. Idle \in Run /\ Idle.at = "idle"
      BY DEF Idle, Run, Steps, Endings
    <3> QED
      BY <2>1, <3>1 DEF Crash, RunOK, TypeOK
  <2>7. faults' \in 0..MaxFaults
    BY <2>1, FaultTypes DEF Crash
  <2>8. lock' \in Workers \cup {Nobody, Merchant, Lost}
    BY <2>1 DEF Crash, TypeOK
  <2> QED
    BY <2>1, <2>5, <2>6, <2>7, <2>8 DEF Crash, TypeOK, RunOK, world
<1>3. CASE \E w \in Workers : Stall(w)
  <2>1. PICK w \in Workers : Stall(w)
    BY <1>3
  <2> DEFINE t == run[w].turn
  <2>2. t \in Turns /\ job[t] \in Job
    BY <2>1 DEF Stall, At, TypeOK
  <2>3. GivenBack(job[t]) \in Job
    BY <2>2, JobTypes DEF Endings, JobStates
  <2>4. job' \in [Turns -> Job]
    BY <2>1, <2>2, <2>3 DEF Stall, TypeOK
  <2>5. faults' \in 0..MaxFaults
    BY <2>1, FaultTypes DEF Stall
  <2> QED
    BY <2>1, <2>4, <2>5 DEF Stall, TypeOK, world
<1>4. CASE \E t \in Turns : ClaimAges(t)
  <2>1. PICK t \in Turns : ClaimAges(t)
    BY <1>4
  <2>2. [row[t] EXCEPT !.old = TRUE] \in Row
    <3>1. row[t] \in Row
      BY DEF TypeOK
    <3> QED
      BY <3>1, RowMoves
  <2>3. row' \in [Turns -> Row]
    BY <2>1, <2>2 DEF ClaimAges, TypeOK
  <2> QED
    BY <2>1, <2>3 DEF ClaimAges, TypeOK, world, queue
<1>5. CASE \E t \in Turns : Echo(t)
  <2>1. PICK t \in Turns : Echo(t)
    BY <1>5
  <2>2. [row[t] EXCEPT !.state = "SENT", !.mid = TRUE] \in Row
    BY RowTypes DEF TypeOK, RowStates
  <2>3. row' \in [Turns -> Row]
    BY <2>1, <2>2 DEF Echo, TypeOK
  <2> QED
    BY <2>1, <2>3 DEF Echo, TypeOK, world, queue
<1>6. CASE \E t \in Turns : CustomerMessage(t)
  <2>1. PICK t \in Turns : CustomerMessage(t)
    BY <1>6
  <2>2. [job[t] EXCEPT !.state = "waiting"] \in Job
    <3>1. job[t] \in Job
      BY DEF TypeOK
    <3> QED
      BY <3>1, JobMoves
  <2>3. job' \in [Turns -> Job]
    BY <2>1, <2>2 DEF CustomerMessage, TypeOK
  <2>4. conv' \in Conversation
    BY <2>1 DEF CustomerMessage, TypeOK, Conversation
  <2> QED
    BY <2>1, <2>3, <2>4 DEF CustomerMessage, TypeOK, Conversation
<1>7. CASE LockExpires
  <2>1. faults' \in 0..MaxFaults
    BY <1>7, FaultTypes DEF LockExpires, TypeOK
  <2> QED
    BY <1>7, <2>1 DEF LockExpires, TypeOK, world, queue
<1>8. CASE PauseExpires
  <2>1. conv' \in Conversation
    BY <1>8 DEF PauseExpires, TypeOK, Conversation
  <2> QED
    BY <1>8, <2>1 DEF PauseExpires, TypeOK, Conversation, queue
<1> QED
  BY <1>1, <1>2, <1>3, <1>4, <1>5, <1>6, <1>7, <1>8

LEMMA TypeStep ==
    ASSUME TypeOK, [Next]_vars PROVE TypeOK'
<1>1. CASE \E w \in Workers : WorkerStep(w)
  BY <1>1, WorkerRuns, WorkerRows, WorkerRest, WorkerCopies DEF TypeOK, RunOK
<1>2. CASE UNCHANGED vars
  BY <1>2 DEF TypeOK, vars
<1> QED
  BY <1>1, <1>2, PeopleTypes, DisturbanceTypes DEF Next

LEMMA TypeInit == Init => TypeOK
BY BoundsAreNumbers
     DEF Init, TypeOK, Job, JobStates, Run, Idle, Steps, Endings, Row, NoRow,
         RowStates, Modes

\* Jobs, executions, rows, locks and counters keep their types in every
\* instance, whatever is disturbed and whatever people do.
THEOREM TypeCorrect == Spec => []TypeOK
<1>1. TypeOK /\ [Next]_vars => TypeOK'
  BY TypeStep
<1> QED
  BY TypeInit, <1>1, PTL DEF Spec

-----------------------------------------------------------------------------
(* Nothing is sent behind a person's back. *)

\* The ways round the boundary that the model has: a conversation that is
\* archived, or taken over while it is closed, loses its takeover when the
\* customer writes again, and what a merchant's own reply leaves behind can
\* be swept away by the customer's next message.
NoWayRound ==
    /\ {"reply", "archive"} \cap HumanKinds = {}
    /\ "takeover" \notin HumanKinds \/ "close" \notin HumanKinds

\* What keeps a superseded turn from crossing the boundary: it is older than
\* the Resume boundary, or a person still has the conversation, or the
\* customer opted out.  A person only has a conversation that is open, so a
\* message of the customer cannot take it away.
StillBarred ==
    /\ superseded \subseteq started
    /\ \A t \in superseded : t \in obsolete \/ conv.hitl \/ conv.optedOut
    /\ conv.hitl => conv.open
    /\ "close" \notin HumanKinds => conv.open
    /\ merchant = "idle"

LEMMA StillBarredWorker ==
    ASSUME TypeOK, StillBarred, NEW w \in Workers, WorkerStep(w)
    PROVE  StillBarred'
<1>1. CASE UNCHANGED <<conv, obsolete, superseded, merchant>>
           /\ started \subseteq started'
  BY <1>1 DEF StillBarred
<1>2. CASE Handoff(w)
  <2>1. CASE UNCHANGED <<conv, superseded>>
    BY <1>2, <2>1 DEF StillBarred, Handoff, queue
  <2>2. CASE conv.open /\ conv' = [conv EXCEPT !.hitl = TRUE]
             /\ superseded' = superseded \cup InFlight
    BY <1>2, <2>2 DEF StillBarred, Handoff, queue, InFlight, TypeOK
  <2> QED
    BY <1>2, <2>1, <2>2 DEF Handoff
<1> QED
  BY <1>1, <1>2
     DEF WorkerStep, ClaimDedupKey, StartTurn, StartTurnFails, Guard, Answer,
         Withhold, Suppress, GenerationFails, SendGuard, StoreCandidate,
         StoreHeld, StoreBlocked, Store, Hold, ClaimCandidate, HoldRefused,
         Recheck, AcquireLock, Boundary, Revalidate, ReleaseCandidate, SendPart,
         RateLimited, SendFails, RecordSent, RecordFails, RecordFailure, Finish,
         queue, world

LEMMA StillBarredPerson ==
    ASSUME TypeOK, StillBarred, NoWayRound, PersonStep PROVE StillBarred'
<1>1. conv \in Conversation
  BY DEF TypeOK, Conversation
<1>2. ~ReplyBegins /\ ~Archive
  BY DEF NoWayRound, ReplyBegins, Archive, Person
<1>3. CASE TakeOver
  <2>1. conv.open
    BY <1>3 DEF NoWayRound, TakeOver, Person, StillBarred
  <2> QED
    BY <1>1, <1>3, <2>1 DEF StillBarred, TakeOver, InFlight, queue, Conversation
<1>4. CASE Resume
  BY <1>1, <1>4 DEF StillBarred, Resume, InFlight, queue, Conversation
<1>5. CASE Close
  BY <1>1, <1>5 DEF StillBarred, Close, InFlight, queue, Conversation, Person
<1>6. CASE TogglePause \/ ChangeMode
  BY <1>1, <1>6 DEF StillBarred, TogglePause, ChangeMode, queue, Conversation
<1>7. CASE OptOut
  BY <1>1, <1>7 DEF StillBarred, OptOut, InFlight, queue, Conversation
<1> QED
  BY <1>2, <1>3, <1>4, <1>5, <1>6, <1>7 DEF PersonStep

LEMMA StillBarredStep ==
    ASSUME TypeOK, StillBarred, NoWayRound, [Next]_vars PROVE StillBarred'
<1>1. conv \in Conversation
  BY DEF TypeOK, Conversation
<1>2. ~MerchantStep
  BY DEF StillBarred, MerchantStep, ReplyStored, ReplyHolds, ReplyPauses,
         ReplyDelivered
<1>3. CASE \E w \in Workers, t \in Turns : Take(w, t)
  BY <1>3 DEF StillBarred, Take, world
<1>4. CASE \E w \in Workers : Crash(w) \/ Stall(w)
  BY <1>4 DEF StillBarred, Crash, Stall, world
<1>5. CASE \E t \in Turns : ClaimAges(t) \/ Echo(t)
  BY <1>5 DEF StillBarred, ClaimAges, Echo, queue, world
<1>6. CASE \E t \in Turns : CustomerMessage(t)
  BY <1>1, <1>6 DEF StillBarred, CustomerMessage, Conversation
<1>7. CASE LockExpires
  BY <1>7 DEF StillBarred, LockExpires, queue, world
<1>8. CASE PauseExpires
  BY <1>1, <1>8 DEF StillBarred, PauseExpires, queue, Conversation
<1>9. CASE UNCHANGED vars
  BY <1>9 DEF StillBarred, vars
<1> QED
  BY <1>2, <1>3, <1>4, <1>5, <1>6, <1>7, <1>8, <1>9, StillBarredWorker,
     StillBarredPerson DEF Next

\* Only the boundary makes an attempt of a pending row, and it asks for all
\* that bars a turn.
LEMMA OnlyTheBoundary ==
    ASSUME TypeOK, [Next]_vars, NEW t \in Turns,
           ~row[t].attempted, row'[t].attempted,
           row'[t].state = "SEND_PENDING"
    PROVE  t \notin obsolete /\ ~conv.hitl /\ ~conv.optedOut
<1>1. row \in [Turns -> Row] /\ row[t] \in Row
  BY DEF TypeOK
<1>2. row' # row
  OBVIOUS
<1>3. PICK w \in Workers : WorkerStep(w)
  <2>1. ~(\E v \in Workers, u \in Turns : Take(v, u))
    BY <1>2 DEF Take
  <2>2. ~(\E v \in Workers : Crash(v) \/ Stall(v))
    BY <1>2 DEF Crash, Stall
  <2>3. ~(\E u \in Turns : ClaimAges(u) \/ Echo(u) \/ CustomerMessage(u))
    <3>1. ASSUME NEW u \in Turns PROVE ~ClaimAges(u)
      BY <1>1 DEF ClaimAges, Row
    <3>2. ASSUME NEW u \in Turns PROVE ~Echo(u)
      BY <1>1 DEF Echo, Row
    <3>3. ASSUME NEW u \in Turns PROVE ~CustomerMessage(u)
      BY <1>2 DEF CustomerMessage
    <3> QED
      BY <3>1, <3>2, <3>3
  <2>4. ~LockExpires /\ ~PauseExpires
    BY <1>2 DEF LockExpires, PauseExpires
  <2>5. ~MerchantStep
    BY <1>1 DEF MerchantStep, ReplyStored, ReplyHolds, ReplyPauses,
               ReplyDelivered, HoldPending, Row
  <2>6. ~PersonStep
    BY <1>1 DEF PersonStep, ReplyBegins, TakeOver, Resume, Close, Archive,
               TogglePause, ChangeMode, OptOut, CancelAll, HoldPending, Row
  <2>7. vars' # vars
    BY <1>2 DEF vars
  <2> QED
    BY <2>1, <2>2, <2>3, <2>4, <2>5, <2>6, <2>7 DEF Next
<1>4. CASE Boundary(w)
  BY <1>1, <1>2, <1>4 DEF Boundary
<1>5. CASE ~Boundary(w)
  <2>1. CASE ClaimDedupKey(w) \/ Guard(w)
    <3>1. \/ UNCHANGED row
          \/ row' = [row EXCEPT ![run[w].turn] = Unclaimed(row[run[w].turn])]
      BY <2>1, Zenon DEF ClaimDedupKey, Guard
    <3>2. \A r \in Row : Unclaimed(r).attempted = r.attempted
      BY DEF Unclaimed, Row
    <3> QED
      BY <1>1, <3>1, <3>2
  <2>2. CASE StoreCandidate(w) \/ StoreHeld(w) \/ StoreBlocked(w)
    BY <1>1, <2>2
       DEF StoreCandidate, StoreHeld, StoreBlocked, Store, Candidate, NoRow, Row
  <2>3. CASE Hold(w) \/ HoldRefused(w)
    BY <1>1, <2>3 DEF Hold, HoldRefused, Held, Row
  <2>4. CASE ClaimCandidate(w)
    <3>1. \/ UNCHANGED row
          \/ row' = [row EXCEPT ![run[w].turn].claimed = TRUE,
                                ![run[w].turn].old = FALSE]
      BY <2>4, Zenon DEF ClaimCandidate
    <3> QED
      BY <1>1, <3>1 DEF Row
  <2>5. CASE ReleaseCandidate(w)
    BY <1>1, <2>5 DEF ReleaseCandidate, Released, Row
  <2>6. CASE RecordSent(w) \/ RecordFailure(w)
    <3> DEFINE u == run[w].turn
    <3>1. \/ UNCHANGED row
          \/ row' = [row EXCEPT ![u].state = "DISMISSED"]
          \/ row' = [row EXCEPT ![u].state = "SENT", ![u].mid = TRUE]
          \/ row' = [row EXCEPT ![u].state = "FAILED", ![u].attempted = TRUE,
                                ![u].mid = run[w].part > 0]
      BY <2>6, Zenon DEF RecordSent, RecordFailure
    <3>2. CASE t # u
      BY <1>1, <3>1, <3>2
    <3>3. CASE t = u
      <4>1. /\ row' # [row EXCEPT ![u].state = "DISMISSED"]
            /\ row' # [row EXCEPT ![u].state = "SENT", ![u].mid = TRUE]
        BY <1>1, <3>3 DEF Row
      <4>2. row' # [row EXCEPT ![u].state = "FAILED", ![u].attempted = TRUE,
                              ![u].mid = run[w].part > 0]
        BY <1>1, <3>3 DEF Row
      <4> QED
        BY <1>2, <3>1, <4>1, <4>2
    <3> QED
      BY <3>2, <3>3
  <2> QED
    BY <1>2, <1>3, <1>5, <2>1, <2>2, <2>3, <2>4, <2>5, <2>6
       DEF WorkerStep, StartTurn, StartTurnFails, Answer, Withhold, Suppress,
           GenerationFails, SendGuard, Handoff, Recheck, AcquireLock, Revalidate,
           SendPart, RateLimited, SendFails, RecordFails, Finish
<1> QED
  BY <1>4, <1>5

\* A turn that was in flight when a person took the conversation, handed it
\* back or closed it, or when the customer opted out, is never sent later, in
\* any number of turns and workers and through every disturbance.
THEOREM NothingBehindPeople ==
    ASSUME NoWayRound PROVE Spec => NoSendBehindPeople
<1>1. Init => TypeOK /\ StillBarred
  BY TypeInit DEF Init, StillBarred
<1>2. TypeOK /\ StillBarred /\ [Next]_vars => (TypeOK /\ StillBarred)'
  BY TypeStep, StillBarredStep
<1>3. TypeOK /\ StillBarred /\ [Next]_vars
         => [\A t \in superseded :
                ~(~row[t].attempted /\ row'[t].attempted
                  /\ row'[t].state = "SEND_PENDING")]_vars
  <2> SUFFICES ASSUME TypeOK, StillBarred, [Next]_vars,
                      NEW t \in superseded,
                      ~row[t].attempted, row'[t].attempted,
                      row'[t].state = "SEND_PENDING"
               PROVE  FALSE
    BY Zenon
  <2>1. t \in Turns
    BY DEF TypeOK
  <2>2. t \notin obsolete /\ ~conv.hitl /\ ~conv.optedOut
    BY <2>1, OnlyTheBoundary
  <2> QED
    BY <2>2 DEF StillBarred
<1> QED
  BY <1>1, <1>2, <1>3, PTL DEF Spec, NoSendBehindPeople

-----------------------------------------------------------------------------
(* The delivery lock. *)

\* Whoever may be in a provider call holds the delivery lock.
LockHeld ==
    /\ \A w \in Workers :
          run[w].at \in {"boundary", "revalidate", "call"} => lock = w
    /\ merchant # "idle" => lock = Merchant

\* An execution of w moves on to step s, and no other does anything.
MovesTo(w, s) ==
    /\ run'[w].at = s
    /\ \A v \in Workers \ {w} : run'[v] = run[v]

LEMMA Places ==
    ASSUME run \in [Workers -> Run], NEW w \in Workers
    PROVE  /\ \A s : Go(w, s) => MovesTo(w, s)
           /\ \A e : End(w, e) => MovesTo(w, "finish")
           /\ \A s, e : run' = [run EXCEPT ![w].at = s, ![w].how = e]
                          => MovesTo(w, s)
           /\ \A s, b : run' = [run EXCEPT ![w].at = s, ![w].auto = b]
                          => MovesTo(w, s)
           /\ \A s, b : run' = [run EXCEPT ![w].at = s, ![w].auto = b,
                                           ![w].reuse = TRUE]
                          => MovesTo(w, s)
           /\ \A s, b : run' = [run EXCEPT ![w].at = s, ![w].escalate = b]
                          => MovesTo(w, s)
           /\ \A s : run' = [run EXCEPT ![w].part = @ + 1, ![w].at = s]
                       => MovesTo(w, s)
           /\ run' = [run EXCEPT ![w] = Idle] => MovesTo(w, "idle")
<1>1. run[w] \in Run
  OBVIOUS
<1>2. ASSUME NEW x, run' = [run EXCEPT ![w] = x] PROVE MovesTo(w, x.at)
  BY <1>2 DEF MovesTo
<1>3. ASSUME NEW s, Go(w, s) PROVE MovesTo(w, s)
  BY <1>1, <1>3 DEF Go, MovesTo, Run
<1>4. ASSUME NEW e, End(w, e) PROVE MovesTo(w, "finish")
  BY <1>1, <1>4 DEF End, MovesTo, Run
<1>5. ASSUME NEW s, NEW e, run' = [run EXCEPT ![w].at = s, ![w].how = e]
      PROVE  MovesTo(w, s)
  BY <1>1, <1>5 DEF MovesTo, Run
<1>6. ASSUME NEW s, NEW b, run' = [run EXCEPT ![w].at = s, ![w].auto = b]
      PROVE  MovesTo(w, s)
  BY <1>1, <1>6 DEF MovesTo, Run
<1>7. ASSUME NEW s, NEW b,
             run' = [run EXCEPT ![w].at = s, ![w].auto = b, ![w].reuse = TRUE]
      PROVE  MovesTo(w, s)
  BY <1>1, <1>7 DEF MovesTo, Run
<1>8. ASSUME NEW s, NEW b, run' = [run EXCEPT ![w].at = s, ![w].escalate = b]
      PROVE  MovesTo(w, s)
  BY <1>1, <1>8 DEF MovesTo, Run
<1>9. ASSUME NEW s, run' = [run EXCEPT ![w].part = @ + 1, ![w].at = s]
      PROVE  MovesTo(w, s)
  BY <1>1, <1>9 DEF MovesTo, Run
<1>10. ASSUME run' = [run EXCEPT ![w] = Idle] PROVE MovesTo(w, "idle")
  BY <1>10 DEF MovesTo, Idle
<1> QED
  BY <1>3, <1>4, <1>5, <1>6, <1>7, <1>8, <1>9, <1>10

\* Who holds the delivery lock, and where the lock is needed.
Guarded == {"boundary", "revalidate", "call"}

\* What a worker's step does to its own place and to the lock.
LEMMA WorkerMoves ==
    ASSUME TypeOK, NEW w \in Workers, WorkerStep(w)
    PROVE  \E s : /\ MovesTo(w, s)
                  /\ \/ UNCHANGED lock /\ (s \in Guarded => run[w].at \in Guarded)
                     \/ lock' = w /\ lock = Nobody
                     \/ s = "idle" /\ (lock' = IF lock = w THEN Nobody ELSE lock)
<1> DEFINE Kept(s) == /\ MovesTo(w, s)
                      /\ UNCHANGED lock
                      /\ s \in Guarded => run[w].at \in Guarded
<1>1. run \in [Workers -> Run]
  BY DEF TypeOK
<1>2. CASE ClaimDedupKey(w) \/ StartTurn(w) \/ StartTurnFails(w)
  <2>1. Kept("start") \/ Kept("guard") \/ Kept("finish")
    BY <1>1, <1>2, Places
       DEF ClaimDedupKey, StartTurn, StartTurnFails, Guarded
  <2> QED
    BY <2>1
<1>3. CASE Guard(w)
  <2>1. UNCHANGED lock
    BY <1>3 DEF Guard
  <2>2. \/ \E b : run' = [run EXCEPT ![w].at = "generate", ![w].auto = b]
        \/ \E b : run' = [run EXCEPT ![w].at = "generate", ![w].auto = b,
                                     ![w].reuse = TRUE]
        \/ End(w, "completed")
    BY <1>3, Zenon DEF Guard
  <2>3. Kept("generate") \/ Kept("finish")
    BY <1>1, <2>1, <2>2, Places DEF Guarded
  <2> QED
    BY <2>3
<1>4. CASE Answer(w) \/ Withhold(w) \/ Suppress(w) \/ GenerationFails(w)
  <2>1. Kept("sendGuard") \/ Kept("storeHeld") \/ Kept("handoff")
        \/ Kept("finish")
    BY <1>1, <1>4, Places
       DEF Answer, Withhold, Suppress, GenerationFails, Guarded
  <2> QED
    BY <2>1
<1>5. CASE SendGuard(w) \/ StoreCandidate(w) \/ StoreHeld(w) \/ StoreBlocked(w)
  <2>1. Kept("storeBlocked") \/ Kept("claim") \/ Kept("store") \/ Kept("hold")
        \/ Kept("finish")
    BY <1>1, <1>5, Places
       DEF SendGuard, StoreCandidate, StoreHeld, StoreBlocked, Store, Guarded
  <2> QED
    BY <2>1
<1>6. CASE Hold(w) \/ Handoff(w) \/ ClaimCandidate(w) \/ HoldRefused(w)
           \/ Recheck(w)
  <2>1. Kept("handoff") \/ Kept("recheck") \/ Kept("refused") \/ Kept("lock")
        \/ Kept("finish")
    BY <1>1, <1>6, Places
       DEF Hold, Handoff, ClaimCandidate, HoldRefused, Recheck, Guarded
  <2> QED
    BY <2>1
<1>7. CASE AcquireLock(w)
  <2>1. Kept("release") \/ (MovesTo(w, "boundary") /\ lock' = w /\ lock = Nobody)
    BY <1>1, <1>7, Places DEF AcquireLock, Guarded
  <2> QED
    BY <2>1
<1>8. CASE Boundary(w) \/ Revalidate(w) \/ ReleaseCandidate(w)
  <2>1. Kept("hold") \/ Kept("revalidate") \/ Kept("call") \/ Kept("withdraw")
        \/ Kept("release") \/ Kept("finish")
    BY <1>1, <1>8, Places
       DEF Boundary, Revalidate, ReleaseCandidate, Guarded, At
  <2> QED
    BY <2>1
<1>9. CASE SendPart(w)
  <2>1. Kept("record") \/ Kept("call")
    BY <1>1, <1>9, Places DEF SendPart, Guarded, At
  <2> QED
    BY <2>1
<1>10. CASE RateLimited(w) \/ SendFails(w) \/ RecordSent(w) \/ RecordFails(w)
            \/ RecordFailure(w)
  <2>1. Kept("release") \/ Kept("fail") \/ Kept("finish")
    BY <1>1, <1>10, Places
       DEF RateLimited, SendFails, RecordSent, RecordFails, RecordFailure,
           Guarded
  <2> QED
    BY <2>1
<1>11. CASE Finish(w)
  <2>1. MovesTo(w, "idle") /\ (lock' = IF lock = w THEN Nobody ELSE lock)
    BY <1>1, <1>11, Places DEF Finish
  <2> QED
    BY <2>1
<1> QED
  BY <1>2, <1>3, <1>4, <1>5, <1>6, <1>7, <1>8, <1>9, <1>10, <1>11 DEF WorkerStep

LEMMA LockHeldWorker ==
    ASSUME TypeOK, LockHeld, NEW w \in Workers, WorkerStep(w)
    PROVE  LockHeld'
<1>1. PICK s : /\ MovesTo(w, s)
               /\ \/ UNCHANGED lock /\ (s \in Guarded => run[w].at \in Guarded)
                  \/ lock' = w /\ lock = Nobody
                  \/ s = "idle" /\ (lock' = IF lock = w THEN Nobody ELSE lock)
  BY WorkerMoves
<1>2. UNCHANGED merchant
  BY WorkerRest
<1>3. Nobody # Merchant /\ \A v \in Workers : v # Nobody /\ v # Merchant
  BY PeopleAreNotWorkers DEF Nobody, Merchant
<1> QED
  BY <1>1, <1>2, <1>3 DEF LockHeld, MovesTo, Guarded

LEMMA LockHeldStep ==
    ASSUME TypeOK, LockHeld, "lease" \notin FaultKinds, [Next]_vars
    PROVE  LockHeld'
<1>1. run \in [Workers -> Run]
  BY DEF TypeOK
<1>2. \A v \in Workers : v # Nobody /\ v # Merchant /\ v # Lost
  BY PeopleAreNotWorkers
<1>3. Nobody # Merchant /\ Lost # Merchant
  BY DEF Nobody, Merchant, Lost
<1>4. CASE \E w \in Workers, t \in Turns : Take(w, t)
  BY <1>1, <1>4 DEF Take, LockHeld, Idle, world
<1>5. CASE \E w \in Workers : Crash(w)
  BY <1>1, <1>2, <1>5 DEF Crash, LockHeld, Idle, world
<1>6. CASE \E w \in Workers : Stall(w)
  BY <1>6 DEF Stall, LockHeld, world
<1>7. CASE \E t \in Turns : ClaimAges(t) \/ Echo(t) \/ CustomerMessage(t)
  BY <1>7 DEF ClaimAges, Echo, CustomerMessage, LockHeld, world
<1>8. CASE LockExpires
  BY <1>2, <1>3, <1>8 DEF LockExpires, Fault, LockHeld, world
<1>9. CASE PauseExpires
  BY <1>9 DEF PauseExpires, LockHeld
<1>10. CASE MerchantStep
  BY <1>2, <1>3, <1>10
     DEF MerchantStep, ReplyStored, ReplyHolds, ReplyPauses, ReplyDelivered,
         LockHeld
<1>11. CASE PersonStep
  BY <1>2, <1>3, <1>11
     DEF PersonStep, ReplyBegins, TakeOver, Resume, Close, Archive,
         TogglePause, ChangeMode, OptOut, LockHeld
<1>12. CASE UNCHANGED vars
  BY <1>12 DEF LockHeld, vars
<1> QED
  BY <1>4, <1>5, <1>6, <1>7, <1>8, <1>9, <1>10, <1>11, <1>12, LockHeldWorker
     DEF Next

\* While the delivery lock does not run out under its holder, two writers are
\* never in a provider call of the conversation at once: neither two workers,
\* nor a worker and the merchant.  Workers may still crash, stall and lose
\* the job to another.
THEOREM OneSender ==
    ASSUME "lease" \notin FaultKinds PROVE Spec => []OneSenderAtATime
<1>1. Init => TypeOK /\ LockHeld
  BY TypeInit DEF Init, LockHeld, Idle
<1>2. TypeOK /\ LockHeld /\ [Next]_vars => (TypeOK /\ LockHeld)'
  BY TypeStep, LockHeldStep
<1>3. LockHeld => OneSenderAtATime
  BY PeopleAreNotWorkers DEF LockHeld, OneSenderAtATime, At
<1> QED
  BY <1>1, <1>2, <1>3, PTL DEF Spec

-----------------------------------------------------------------------------
(* Settled rows. *)

\* A row that is shown as sent carries the provider's message id, which every
\* conditional update of the code asks for.
SentHasMid == \A t \in Turns : row[t].state = "SENT" => row[t].mid

\* What a step may do to one row.
RowMovesOn(r, s) ==
    /\ s.state = "SENT" => s.mid
    /\ r.state \in {"HELD", "DISMISSED"} => s.state \in {"HELD", "DISMISSED"}
    /\ r.state = "SENT" => s.state = "SENT"

LEMMA WorkerRowMoves ==
    ASSUME TypeOK, SentHasMid, NEW w \in Workers, WorkerStep(w), NEW t \in Turns
    PROVE  RowMovesOn(row[t], row'[t])
<1>1. row \in [Turns -> Row] /\ row[t] \in Row
  BY DEF TypeOK
<1>2. RowMovesOn(row[t], row[t])
  BY DEF SentHasMid, RowMovesOn
<1>3. CASE UNCHANGED row
  BY <1>2, <1>3
<1>4. CASE ClaimDedupKey(w) \/ Guard(w)
  <2>1. RowMovesOn(row[t], Unclaimed(row[t]))
    BY <1>1, <1>2 DEF Unclaimed, Row, RowMovesOn
  <2>2. \/ UNCHANGED row
        \/ row' = [row EXCEPT ![run[w].turn] = Unclaimed(row[run[w].turn])]
    BY <1>4 DEF ClaimDedupKey, Guard
  <2> QED
    BY <1>1, <1>2, <2>1, <2>2
<1>5. CASE StoreCandidate(w) \/ StoreHeld(w) \/ StoreBlocked(w)
  BY <1>1, <1>2, <1>5
     DEF StoreCandidate, StoreHeld, StoreBlocked, Store, Candidate, NoRow, Row,
         RowMovesOn
<1>6. CASE Hold(w) \/ HoldRefused(w)
  <2>1. RowMovesOn(row[t], Held(t))
    BY <1>1, <1>2 DEF Held, Outdated, RowMovesOn, SentHasMid, Row
  <2> QED
    BY <1>1, <1>2, <1>6, <2>1 DEF Hold, HoldRefused
<1>7. CASE ClaimCandidate(w) \/ Boundary(w)
  BY <1>1, <1>2, <1>7 DEF ClaimCandidate, Boundary, Row, RowMovesOn
<1>8. CASE ReleaseCandidate(w)
  BY <1>1, <1>2, <1>8 DEF ReleaseCandidate, Released, Row, RowMovesOn
<1>9. CASE RecordSent(w) \/ RecordFailure(w)
  <2> DEFINE u == run[w].turn
             b == run[w].part > 0
  <2>1. \/ UNCHANGED row
        \/ Outdated(u) /\ row' = [row EXCEPT ![u].state = "DISMISSED"]
        \/ Pending(row[u]) /\ row' = [row EXCEPT ![u].state = "SENT", ![u].mid = TRUE]
        \/ /\ Pending(row[u])
           /\ row' = [row EXCEPT ![u].state = "FAILED", ![u].attempted = TRUE,
                                 ![u].mid = b]
    BY <1>9, Zenon DEF RecordSent, RecordFailure
  <2> HIDE DEF b
  <2>2. CASE t # u
    BY <1>1, <1>2, <2>1, <2>2
  <2>3. CASE t = u
    <3>1. CASE Outdated(u) /\ row' = [row EXCEPT ![u].state = "DISMISSED"]
      BY <1>1, <2>3, <3>1 DEF Outdated, RowMovesOn, SentHasMid, Row
    <3>2. CASE /\ Pending(row[u])
               /\ row' = [row EXCEPT ![u].state = "SENT", ![u].mid = TRUE]
      BY <1>1, <2>3, <3>2 DEF Pending, RowMovesOn, Row
    <3>3. CASE /\ Pending(row[u])
               /\ row' = [row EXCEPT ![u].state = "FAILED", ![u].attempted = TRUE,
                                     ![u].mid = b]
      BY <1>1, <2>3, <3>3 DEF Pending, RowMovesOn, Row
    <3> QED
      BY <1>2, <2>1, <3>1, <3>2, <3>3
  <2> QED
    BY <2>2, <2>3
<1> QED
  BY <1>3, <1>4, <1>5, <1>6, <1>7, <1>8, <1>9
     DEF WorkerStep, StartTurn, StartTurnFails, Answer, Withhold, Suppress,
         GenerationFails, SendGuard, Handoff, Recheck, AcquireLock, Revalidate,
         SendPart, RateLimited, SendFails, RecordFails, Finish

LEMMA RowsMoveOn ==
    ASSUME TypeOK, SentHasMid, [Next]_vars, NEW t \in Turns
    PROVE  RowMovesOn(row[t], row'[t])
<1>1. row \in [Turns -> Row] /\ row[t] \in Row
  BY DEF TypeOK
<1>2. RowMovesOn(row[t], row[t])
  BY DEF SentHasMid, RowMovesOn
<1>3. RowMovesOn(row[t], HoldPending[t])
  BY <1>1, <1>2 DEF HoldPending, Pending, Row, RowMovesOn
<1>4. ASSUME NEW s \in {"HELD", "DISMISSED"}, NEW S
      PROVE  RowMovesOn(row[t], CancelAll(s, S)[t])
  BY <1>1, <1>2
     DEF CancelAll, Cancellable, Confirmed, Row, RowMovesOn, SentHasMid
<1>5. CASE \E w \in Workers, u \in Turns : Take(w, u)
  BY <1>2, <1>5 DEF Take
<1>6. CASE \E w \in Workers : Crash(w) \/ Stall(w)
  BY <1>2, <1>6 DEF Crash, Stall
<1>7. CASE \E u \in Turns : ClaimAges(u)
  BY <1>1, <1>2, <1>7 DEF ClaimAges, Row, RowMovesOn
<1>8. CASE \E u \in Turns : Echo(u)
  BY <1>1, <1>2, <1>8 DEF Echo, Row, RowMovesOn
<1>9. CASE LockExpires \/ PauseExpires \/ \E u \in Turns : CustomerMessage(u)
  BY <1>2, <1>9 DEF LockExpires, PauseExpires, CustomerMessage
<1>10. CASE MerchantStep
  BY <1>2, <1>3, <1>10
     DEF MerchantStep, ReplyStored, ReplyHolds, ReplyPauses, ReplyDelivered
<1>11. CASE PersonStep
  BY <1>2, <1>3, <1>4, <1>11
     DEF PersonStep, ReplyBegins, TakeOver, Resume, Close, Archive,
         TogglePause, ChangeMode, OptOut
<1>12. CASE UNCHANGED vars
  BY <1>2, <1>12 DEF vars
<1> QED
  BY <1>5, <1>6, <1>7, <1>8, <1>9, <1>10, <1>11, <1>12, WorkerRowMoves DEF Next

\* A reply put aside or dismissed never goes out by itself afterwards and a
\* confirmed one stays confirmed, in every instance and through every
\* disturbance of the model.
THEOREM SettledRows == Spec => SettledRowsStay
<1>1. Init => TypeOK /\ SentHasMid
  BY TypeInit DEF Init, SentHasMid, NoRow
<1>2. TypeOK /\ SentHasMid /\ [Next]_vars => (TypeOK /\ SentHasMid)'
  BY TypeStep, RowsMoveOn DEF SentHasMid, RowMovesOn
<1>3. TypeOK /\ SentHasMid /\ [Next]_vars
        => [\A t \in Turns :
              /\ row[t].state \in {"HELD", "DISMISSED"}
                    => row'[t].state \in {"HELD", "DISMISSED"}
              /\ row[t].state = "SENT" => row'[t].state = "SENT"]_vars
  BY RowsMoveOn DEF RowMovesOn
<1> QED
  BY <1>1, <1>2, <1>3, PTL DEF Spec, SettledRowsStay

-----------------------------------------------------------------------------
(* Replies that go out in one go, delivered at most once. *)

\* The instances in which an execution has its turn for itself, as no worker is
\* taken for dead while it goes on, and its reply goes out in one go: it is one
\* body, or no rate limit falls between two of them.
InOneGo == "stall" \notin FaultKinds /\ (Parts = 1 \/ "rate" \notin FaultKinds)

\* What a turn's job, row and copies know of each other.
TurnSound(t) ==
    /\ job[t].owner # Nobody => job[t].state = "active"
    /\ \A p \in 1..Parts : copies[t][p] = 0 \/ (copies[t][p] = 1 /\ copies[t][1] = 1)
    /\ copies[t][1] = 1 => row[t].attempted
    /\ row[t].attempted => row[t].state # "NONE"
    /\ row[t].state = "SENT" => copies[t][1] = 1 /\ row[t].mid

\* From the first body on.
SendingSteps == {"call", "record", "fail", "finish"}

\* What an execution may rely on where it stands; in the provider call, the
\* bodies before the next one are with Meta, and no other.
RunSound(w) ==
    run[w].at # "idle" =>
        /\ job[run[w].turn].owner = w
        /\ run[w].at \in {"revalidate", "withdraw", "call", "record", "fail"}
             => row[run[w].turn].attempted
        /\ run[w].at \in {"recheck", "lock", "boundary", "revalidate",
                          "withdraw", "release"}
             => copies[run[w].turn][1] = 0
        /\ run[w].at \notin SendingSteps => run[w].part = 0
        /\ run[w].at = "call" =>
             /\ run[w].part < Parts
             /\ \A p \in 1..Parts :
                   copies[run[w].turn][p] = IF p <= run[w].part THEN 1 ELSE 0
        /\ run[w].at = "record" => copies[run[w].turn][1] = 1

Sound ==
    /\ \A t \in Turns : TurnSound(t)
    /\ \A w \in Workers : RunSound(w)

\* A worker's step touches its own turn only.
LEMMA WorkerFrame ==
    ASSUME TypeOK, NEW w \in Workers, WorkerStep(w),
           NEW t \in Turns, t # run[w].turn
    PROVE  row'[t] = row[t] /\ copies'[t] = copies[t] /\ job'[t] = job[t]
<1> DEFINE u == run[w].turn
<1>1. /\ row \in [Turns -> Row] /\ job \in [Turns -> Job]
      /\ copies \in [Turns -> [1..Parts -> Nat]] /\ t # u
  BY DEF TypeOK
<1>2. row'[t] = row[t]
  <2>1. \/ UNCHANGED row
        \/ \E r : row' = [row EXCEPT ![u] = r]
    BY Zenon
       DEF WorkerStep, ClaimDedupKey, StartTurn, StartTurnFails, Guard, Answer,
           Withhold, Suppress, GenerationFails, SendGuard, StoreCandidate,
           StoreHeld, StoreBlocked, Store, Hold, Handoff, ClaimCandidate,
           HoldRefused, Recheck, AcquireLock, Boundary, Revalidate,
           ReleaseCandidate, SendPart, RateLimited, SendFails, RecordSent,
           RecordFails, RecordFailure, Finish
  <2> QED
    BY <1>1, <2>1
<1>3. copies'[t] = copies[t]
  <2>1. \/ UNCHANGED copies
        \/ \E c : copies' = [copies EXCEPT ![u] = c]
    BY Zenon
       DEF WorkerStep, ClaimDedupKey, StartTurn, StartTurnFails, Guard, Answer,
           Withhold, Suppress, GenerationFails, SendGuard, StoreCandidate,
           StoreHeld, StoreBlocked, Store, Hold, Handoff, ClaimCandidate,
           HoldRefused, Recheck, AcquireLock, Boundary, Revalidate,
           ReleaseCandidate, SendPart, RateLimited, SendFails, RecordSent,
           RecordFails, RecordFailure, Finish, AcceptPart
  <2> QED
    BY <1>1, <2>1
<1>4. job'[t] = job[t]
  <2>1. \/ UNCHANGED job
        \/ \E j : job' = [job EXCEPT ![u] = j]
    BY Zenon
       DEF WorkerStep, ClaimDedupKey, StartTurn, StartTurnFails, Guard, Answer,
           Withhold, Suppress, GenerationFails, SendGuard, StoreCandidate,
           StoreHeld, StoreBlocked, Store, Hold, Handoff, ClaimCandidate,
           HoldRefused, Recheck, AcquireLock, Boundary, Revalidate,
           ReleaseCandidate, SendPart, RateLimited, SendFails, RecordSent,
           RecordFails, RecordFailure, Finish, queue
  <2> QED
    BY <1>1, <2>1
<1> QED
  BY <1>2, <1>3, <1>4

\* An execution that moves on keeps its turn and what it has sent.
Stays(w) == run'[w].turn = run[w].turn /\ run'[w].part = run[w].part

LEMMA Staying ==
    ASSUME run \in [Workers -> Run], NEW w \in Workers
    PROVE  /\ \A s : Go(w, s) => Stays(w)
           /\ \A e : End(w, e) => Stays(w)
           /\ \A s, e : run' = [run EXCEPT ![w].at = s, ![w].how = e] => Stays(w)
           /\ \A s, b : run' = [run EXCEPT ![w].at = s, ![w].auto = b] => Stays(w)
           /\ \A s, b : run' = [run EXCEPT ![w].at = s, ![w].auto = b,
                                           ![w].reuse = TRUE] => Stays(w)
           /\ \A s, b : run' = [run EXCEPT ![w].at = s, ![w].escalate = b]
                          => Stays(w)
<1>1. run[w] \in Run
  OBVIOUS
<1>2. ASSUME NEW s, Go(w, s) PROVE Stays(w)
  BY <1>1, <1>2 DEF Go, Stays, Run
<1>3. ASSUME NEW e, End(w, e) PROVE Stays(w)
  BY <1>1, <1>3 DEF End, Stays, Run
<1>4. ASSUME NEW s, NEW e, run' = [run EXCEPT ![w].at = s, ![w].how = e]
      PROVE  Stays(w)
  BY <1>1, <1>4 DEF Stays, Run
<1>5. ASSUME NEW s, NEW b, run' = [run EXCEPT ![w].at = s, ![w].auto = b]
      PROVE  Stays(w)
  BY <1>1, <1>5 DEF Stays, Run
<1>6. ASSUME NEW s, NEW b,
             run' = [run EXCEPT ![w].at = s, ![w].auto = b, ![w].reuse = TRUE]
      PROVE  Stays(w)
  BY <1>1, <1>6 DEF Stays, Run
<1>7. ASSUME NEW s, NEW b, run' = [run EXCEPT ![w].at = s, ![w].escalate = b]
      PROVE  Stays(w)
  BY <1>1, <1>7 DEF Stays, Run
<1> QED
  BY <1>2, <1>3, <1>4, <1>5, <1>6, <1>7

\* A change of a row that is neither an attempt nor its outcome.
Calm(r, s) ==
    /\ s.attempted = r.attempted
    /\ s.state = "SENT" => r.state = "SENT" /\ s.mid = r.mid
    /\ r.state = "SENT" => s.state = "SENT"
    /\ s.state = "NONE" => r.state = "NONE"

\* Steps at which an execution knows nothing special of its turn.
PlainSteps == {"start", "guard", "generate", "sendGuard", "storeHeld",
               "storeBlocked", "store", "handoff", "claim", "refused", "hold"}

LEMMA PlainMove ==
    ASSUME InOneGo, Sound, NEW w \in Workers, NEW t \in Turns,
           t = run[w].turn, ~At(w, "idle"), Stays(w), UNCHANGED <<job, copies>>,
           Calm(row[t], row'[t]),
           \/ run'[w].at = "finish"
           \/ run[w].at \notin SendingSteps /\ run'[w].at \in PlainSteps
    PROVE  TurnSound(t)' /\ RunSound(w)'
BY DEF Sound, TurnSound, RunSound, Stays, Calm, PlainSteps, SendingSteps, At

LEMMA CalmRows ==
    ASSUME TypeOK, Sound, NEW t \in Turns
    PROVE  /\ Calm(row[t], row[t])
           /\ Calm(row[t], Unclaimed(row[t]))
           /\ Calm(row[t], Held(t))
           /\ Calm(row[t], HoldPending[t])
           /\ \A S : Calm(row[t], CancelAll("HELD", S)[t])
           /\ \A S : Calm(row[t], CancelAll("DISMISSED", S)[t])
           /\ row[t].state = "NONE" =>
                \A s \in {"SEND_PENDING", "HELD", "DISMISSED"} :
                   Calm(row[t], Candidate(s))
           /\ Calm(row[t], [row[t] EXCEPT !.claimed = TRUE, !.old = FALSE])
           /\ Calm(row[t], [row[t] EXCEPT !.old = TRUE])
           /\ row[t].state # "SENT" /\ row[t].state # "NONE"
                => Calm(row[t], [row[t] EXCEPT !.state = "DISMISSED"])
<1>1. row[t] \in Row /\ TurnSound(t)
  BY DEF TypeOK, Sound
<1>2. Calm(row[t], row[t]) /\ Calm(row[t], Unclaimed(row[t]))
  BY <1>1 DEF Calm, Unclaimed, Row
<1>3. Calm(row[t], Held(t))
  BY <1>1 DEF Calm, Held, Outdated, Row, TurnSound
<1>4. Calm(row[t], HoldPending[t])
  BY <1>1 DEF Calm, HoldPending, Pending, Row
<1>5. ASSUME NEW S, NEW s \in {"HELD", "DISMISSED"}
      PROVE  Calm(row[t], CancelAll(s, S)[t])
  BY <1>1 DEF Calm, CancelAll, Cancellable, Confirmed, Row, TurnSound
<1>6. ASSUME row[t].state = "NONE", NEW s \in {"SEND_PENDING", "HELD", "DISMISSED"}
      PROVE  Calm(row[t], Candidate(s))
  BY <1>1, <1>6 DEF Calm, Candidate, NoRow, Row, TurnSound
<1>7. /\ Calm(row[t], [row[t] EXCEPT !.claimed = TRUE, !.old = FALSE])
      /\ Calm(row[t], [row[t] EXCEPT !.old = TRUE])
      /\ row[t].state # "SENT" /\ row[t].state # "NONE"
           => Calm(row[t], [row[t] EXCEPT !.state = "DISMISSED"])
  BY <1>1 DEF Calm, Row
<1> QED
  BY <1>2, <1>3, <1>4, <1>5, <1>6, <1>7

\* What a step may do to the fate of a turn: nothing, or what OneReply knows.
Fixed(t) ==
    /\ row'[t].attempted = row[t].attempted
    /\ (row'[t].state = "SENT") = (row[t].state = "SENT")
    /\ copies'[t][1] = copies[t][1]

Committed(t) ==
    /\ ~row[t].attempted /\ row'[t].attempted
    /\ (row'[t].state = "SENT") = (row[t].state = "SENT")
    /\ copies[t][1] = 0 /\ copies'[t][1] = 0
    /\ t \notin obsolete /\ ~conv.hitl /\ ~conv.optedOut

TakenBack(t) ==
    /\ row[t].attempted /\ ~row'[t].attempted
    /\ (row'[t].state = "SENT") = (row[t].state = "SENT")
    /\ copies[t][1] = 0 /\ copies'[t][1] = 0

AcceptedNow(t) ==
    /\ row[t].attempted /\ row'[t].attempted
    /\ (row'[t].state = "SENT") = (row[t].state = "SENT")
    /\ copies[t][1] = 0 /\ copies'[t][1] = 1

ShownNow(t) ==
    /\ row'[t].attempted = row[t].attempted
    /\ row'[t].state = "SENT"
    /\ copies[t][1] = 1 /\ copies'[t][1] = 1

FateMove(t) ==
    Fixed(t) \/ Committed(t) \/ TakenBack(t) \/ AcceptedNow(t) \/ ShownNow(t)

\* What a worker's step leaves true of its own turn and execution.
Kept(w, t) ==
    /\ TurnSound(t)'
    /\ RunSound(w)'
    /\ FateMove(t)

LEMMA PlainKept ==
    ASSUME InOneGo, Sound, NEW w \in Workers, NEW t \in Turns,
           t = run[w].turn, ~At(w, "idle"), Stays(w), UNCHANGED <<job, copies>>,
           Calm(row[t], row'[t]),
           \/ run'[w].at = "finish"
           \/ run[w].at \notin SendingSteps /\ run'[w].at \in PlainSteps
    PROVE  Kept(w, t)
<1>1. Fixed(t)
  BY DEF Fixed, Calm
<1> QED
  BY <1>1, PlainMove DEF Kept, FateMove

LEMMA CalmKept ==
    ASSUME Sound, NEW w \in Workers, NEW t \in Turns, UNCHANGED <<job, copies>>,
           Calm(row[t], row'[t]), RunSound(w)'
    PROVE  Kept(w, t)
<1>1. TurnSound(t)'
  BY DEF Sound, TurnSound, Calm
<1>2. Fixed(t)
  BY DEF Fixed, Calm
<1> QED
  BY <1>1, <1>2 DEF Kept, FateMove

LEMMA RunKept ==
    ASSUME Sound, NEW w \in Workers, NEW t \in Turns, t = run[w].turn,
           run[w].at # "idle", Stays(w), job' = job,
           \/ run[w].at \notin SendingSteps \/ run[w].part = 0
           \/ run'[w].at \in {"fail", "finish"},
           run'[w].at \in {"revalidate", "withdraw", "call", "fail"}
             => row'[t].attempted,
           run'[w].at \in {"recheck", "lock", "boundary", "revalidate",
                          "withdraw", "release"}
             => copies'[t][1] = 0,
           run'[w].at = "call"
             => run[w].part = 0 /\ \A p \in 1..Parts : copies'[t][p] = 0,
           run'[w].at # "record"
    PROVE  RunSound(w)'
BY BoundsAreNumbers DEF Sound, RunSound, Stays, SendingSteps

\* A turn whose first body is not with Meta has no body with Meta.
LEMMA Unsent ==
    ASSUME NEW t \in Turns, TurnSound(t), copies[t][1] = 0
    PROVE  \A p \in 1..Parts : copies[t][p] = 0
BY DEF TurnSound

\* Nothing is with Meta before the send boundary.
LEMMA Unattempted ==
    ASSUME NEW t \in Turns, TurnSound(t), ~row[t].attempted
    PROVE  copies[t][1] = 0
<1>1. 1 \in 1..Parts
  BY BoundsAreNumbers
<1>2. copies[t][1] = 0 \/ copies[t][1] = 1
  BY <1>1 DEF TurnSound
<1> QED
  BY <1>2 DEF TurnSound

\* A rate limit falls before the first body or not at all.
LEMMA LimitedUnsent ==
    ASSUME InOneGo, TypeOK, Sound, NEW w \in Workers, RateLimited(w)
    PROVE  run[w].part = 0 /\ copies[run[w].turn][1] = 0
<1>1. At(w, "call") /\ Parts = 1
  BY DEF RateLimited, Fault, InOneGo
<1>2. run[w].part \in Nat
  BY DEF TypeOK, Run
<1> QED
  BY <1>1, <1>2 DEF Sound, RunSound, At

\* The steps before the send boundary.
LEMMA EarlySteps ==
    ASSUME InOneGo, TypeOK, Sound, NEW w \in Workers,
           NEW t \in Turns, t = run[w].turn,
           \/ ClaimDedupKey(w) \/ StartTurn(w) \/ StartTurnFails(w) \/ Guard(w)
           \/ Answer(w) \/ Withhold(w) \/ Suppress(w) \/ GenerationFails(w)
           \/ SendGuard(w) \/ StoreCandidate(w) \/ StoreHeld(w) \/ StoreBlocked(w)
           \/ Hold(w) \/ Handoff(w) \/ HoldRefused(w)
    PROVE  Kept(w, t)
<1>1. WorkerStep(w)
  BY DEF WorkerStep
<1>2. t \in Turns /\ ~At(w, "idle")
  BY <1>1, WorkerRuns
<1>3. run \in [Workers -> Run] /\ row \in [Turns -> Row]
  BY DEF TypeOK
<1>4. UNCHANGED <<job, copies>>
  BY DEF ClaimDedupKey, StartTurn, StartTurnFails, Guard, Answer, Withhold,
         Suppress, GenerationFails, SendGuard, StoreCandidate, StoreHeld,
         StoreBlocked, Store, Hold, Handoff, HoldRefused, queue
<1>5. Calm(row[t], row'[t])
  <2> USE <1>2, <1>3, CalmRows
  <2>1. CASE ClaimDedupKey(w)
    <3>1. UNCHANGED row \/ row' = [row EXCEPT ![t] = Unclaimed(row[t])]
      BY <2>1, Zenon DEF ClaimDedupKey
    <3> QED
      BY <3>1
  <2>2. CASE Guard(w)
    <3>1. UNCHANGED row \/ row' = [row EXCEPT ![t] = Unclaimed(row[t])]
      BY <2>2, Zenon DEF Guard
    <3> QED
      BY <3>1
  <2>3. CASE StoreCandidate(w) \/ StoreHeld(w) \/ StoreBlocked(w)
    <3>1. \/ UNCHANGED row
          \/ /\ row[t].state = "NONE"
             /\ \E s \in {"SEND_PENDING", "HELD", "DISMISSED"} :
                   row' = [row EXCEPT ![t] = Candidate(s)]
      BY <2>3 DEF StoreCandidate, StoreHeld, StoreBlocked, Store
    <3> QED
      BY <3>1
  <2>4. CASE Hold(w) \/ HoldRefused(w)
    <3>1. UNCHANGED row \/ row' = [row EXCEPT ![t] = Held(t)]
      BY <2>4, Zenon DEF Hold, HoldRefused
    <3> QED
      BY <3>1
  <2>5. CASE UNCHANGED row
    BY <2>5
  <2> QED
    BY <2>1, <2>2, <2>3, <2>4, <2>5
       DEF StartTurn, StartTurnFails, Answer, Withhold, Suppress,
           GenerationFails, SendGuard, Handoff
<1>6. Stays(w) /\ (run'[w].at \in PlainSteps \/ run'[w].at = "finish")
  <2>1. ASSUME NEW s \in PlainSteps \cup {"finish"}, MovesTo(w, s)
        PROVE  run'[w].at \in PlainSteps \/ run'[w].at = "finish"
    BY <2>1 DEF MovesTo
  <2>2. \/ \E s \in PlainSteps : Go(w, s)
        \/ \E e : End(w, e)
        \/ \E b : run' = [run EXCEPT ![w].at = "generate", ![w].auto = b]
        \/ \E b : run' = [run EXCEPT ![w].at = "generate", ![w].auto = b,
                                     ![w].reuse = TRUE]
        \/ \E b : run' = [run EXCEPT ![w].at = "storeHeld", ![w].escalate = b]
    <3>1. /\ {"start", "guard", "generate", "sendGuard"} \subseteq PlainSteps
          /\ {"storeHeld", "storeBlocked", "store", "handoff"} \subseteq PlainSteps
          /\ {"claim", "refused", "hold"} \subseteq PlainSteps
      BY DEF PlainSteps
    <3>2. CASE ClaimDedupKey(w) \/ StartTurn(w) \/ StartTurnFails(w)
      BY <3>1, <3>2, Zenon DEF ClaimDedupKey, StartTurn, StartTurnFails
    <3>3. CASE Guard(w)
      BY <3>3, Zenon DEF Guard
    <3>4. CASE Answer(w) \/ Suppress(w) \/ GenerationFails(w) \/ SendGuard(w)
      BY <3>1, <3>4 DEF Answer, Suppress, GenerationFails, SendGuard
    <3>5. CASE Withhold(w)
      BY <3>5, Zenon DEF Withhold
    <3>6. CASE StoreCandidate(w) \/ StoreHeld(w) \/ StoreBlocked(w)
      BY <3>1, <3>6 DEF StoreCandidate, StoreHeld, StoreBlocked, Store
    <3>7. CASE Hold(w) \/ Handoff(w) \/ HoldRefused(w)
      BY <3>1, <3>7 DEF Hold, Handoff, HoldRefused
    <3> QED
      BY <3>2, <3>3, <3>4, <3>5, <3>6, <3>7
  <2>3. \E s \in PlainSteps \cup {"finish"} : MovesTo(w, s)
    <3>1. {"generate", "storeHeld"} \subseteq PlainSteps
      BY DEF PlainSteps
    <3> QED
      BY <1>3, <2>2, <3>1, Places, Zenon
  <2>4. Stays(w)
    BY <1>3, <2>2, Staying, Zenon
  <2> QED
    BY <2>1, <2>3, <2>4
<1>7. run[w].at \notin SendingSteps
  BY DEF SendingSteps, ClaimDedupKey, StartTurn, StartTurnFails, Guard, Answer, Withhold,
         Suppress, GenerationFails, SendGuard, StoreCandidate, StoreHeld,
         StoreBlocked, Hold, Handoff, HoldRefused, At
<1> QED
  BY <1>2, <1>4, <1>5, <1>6, <1>7, PlainKept

\* From the claim of the candidate to the provider call.
LEMMA MiddleSteps ==
    ASSUME InOneGo, TypeOK, Sound, NEW w \in Workers,
           NEW t \in Turns, t = run[w].turn,
           \/ ClaimCandidate(w) \/ Recheck(w) \/ AcquireLock(w) \/ Boundary(w)
           \/ Revalidate(w) \/ ReleaseCandidate(w) \/ RateLimited(w)
    PROVE  Kept(w, t)
<1>1. WorkerStep(w)
  BY DEF WorkerStep
<1>2. t \in Turns /\ ~At(w, "idle")
  BY <1>1, WorkerRuns
<1>3. run \in [Workers -> Run] /\ row \in [Turns -> Row] /\ row[t] \in Row
  BY <1>2 DEF TypeOK
<1>4. TurnSound(t) /\ RunSound(w)
  BY <1>2 DEF Sound
<1>5. UNCHANGED <<job, copies>>
  BY DEF ClaimCandidate, Recheck, AcquireLock, Boundary, Revalidate,
         ReleaseCandidate, RateLimited, queue
<1>6. CASE ClaimCandidate(w)
  <2>1. CASE Claimable(t)
    <3>1. /\ row' = [row EXCEPT ![t].claimed = TRUE, ![t].old = FALSE]
          /\ Go(w, "recheck") /\ ~row[t].attempted
      BY <1>6, <2>1 DEF ClaimCandidate, Claimable
    <3>2. Stays(w) /\ run'[w].at = "recheck"
      BY <1>3, <3>1, Places, Staying DEF MovesTo
    <3>3. row'[t].attempted = row[t].attempted /\ row'[t].state = row[t].state
          /\ row'[t].mid = row[t].mid
      BY <1>2, <1>3, <3>1 DEF Row
    <3>4. Calm(row[t], row'[t])
      BY <3>3 DEF Calm
    <3>5. copies[t][1] = 0
      BY <1>4, <3>1, Unattempted
    <3>6. At(w, "claim")
      BY <1>6 DEF ClaimCandidate
    <3>7. RunSound(w)'
      BY <1>2, <1>5, <3>2, <3>5, <3>6, RunKept DEF At, SendingSteps
    <3> QED
      BY <1>5, <3>4, <3>7, CalmKept
  <2>2. CASE ~Claimable(t)
    <3>1. UNCHANGED row /\ Go(w, "refused") /\ At(w, "claim")
      BY <1>6, <2>2 DEF ClaimCandidate
    <3>2. Stays(w) /\ run'[w].at = "refused"
      <4>1. Stays(w) /\ MovesTo(w, "refused")
        BY <1>3, <3>1, Places, Staying, Zenon
      <4> QED
        BY <4>1 DEF MovesTo
    <3> QED
      BY <1>2, <1>4, <1>5, <3>1, <3>2, PlainKept, CalmRows
         DEF PlainSteps, SendingSteps, At
  <2> QED
    BY <2>1, <2>2
<1>7. CASE Recheck(w) \/ AcquireLock(w) \/ Revalidate(w) \/ RateLimited(w)
  <2>1. UNCHANGED row
    BY <1>7 DEF Recheck, AcquireLock, Revalidate, RateLimited
  <2>2. /\ Stays(w)
        /\ run[w].at \in {"recheck", "lock", "revalidate", "call"}
        /\ \/ run'[w].at \in {"lock", "boundary", "release", "finish"}
           \/ run[w].at = "revalidate" /\ run'[w].at \in {"call", "withdraw"}
    <3>1. CASE Recheck(w)
      <4>1. At(w, "recheck") /\ (Go(w, "lock") \/ End(w, "completed"))
        BY <3>1 DEF Recheck
      <4>2. Stays(w) /\ (MovesTo(w, "lock") \/ MovesTo(w, "finish"))
        BY <1>3, <4>1, Places, Staying, Zenon
      <4> QED
        BY <4>1, <4>2 DEF MovesTo, At
    <3>2. CASE AcquireLock(w)
      <4>1. /\ At(w, "lock")
            /\ \/ Go(w, "boundary")
               \/ run' = [run EXCEPT ![w].at = "release", ![w].how = "retry"]
        BY <3>2 DEF AcquireLock
      <4>2. Stays(w) /\ (MovesTo(w, "boundary") \/ MovesTo(w, "release"))
        BY <1>3, <4>1, Places, Staying, Zenon
      <4> QED
        BY <4>1, <4>2 DEF MovesTo, At
    <3>3. CASE Revalidate(w)
      <4>1. /\ At(w, "revalidate")
            /\ \/ Go(w, "call") \/ Go(w, "withdraw")
               \/ run' = [run EXCEPT ![w].at = "release", ![w].how = "retry"]
        BY <3>3 DEF Revalidate
      <4>2. /\ Stays(w)
            /\ \/ MovesTo(w, "call") \/ MovesTo(w, "withdraw")
               \/ MovesTo(w, "release")
        BY <1>3, <4>1, Places, Staying, Zenon
      <4> QED
        BY <4>1, <4>2 DEF MovesTo, At
    <3>4. CASE RateLimited(w)
      <4>1. /\ At(w, "call")
            /\ run' = [run EXCEPT ![w].at = "release", ![w].how = "delayed"]
        BY <3>4 DEF RateLimited
      <4>2. Stays(w) /\ MovesTo(w, "release")
        BY <1>3, <4>1, Places, Staying, Zenon
      <4> QED
        BY <4>1, <4>2 DEF MovesTo, At
    <3> QED
      BY <1>7, <3>1, <3>2, <3>3, <3>4
  <2>3. /\ copies[t][1] = 0 /\ run[w].part = 0
        /\ run[w].at = "revalidate" => row[t].attempted
    <3>1. CASE RateLimited(w)
      <4>1. At(w, "call")
        BY <3>1 DEF RateLimited
      <4> QED
        BY <3>1, <4>1, LimitedUnsent DEF At
    <3>2. CASE Recheck(w) \/ AcquireLock(w) \/ Revalidate(w)
      <4>1. run[w].at \in {"recheck", "lock", "revalidate"}
        BY <3>2 DEF Recheck, AcquireLock, Revalidate, At
      <4> QED
        BY <1>4, <4>1 DEF RunSound, SendingSteps
    <3> QED
      BY <1>7, <3>1, <3>2
  <2>4. \A p \in 1..Parts : copies[t][p] = 0
    BY <1>4, <2>3, Unsent
  <2>5. RunSound(w)'
    BY <1>2, <1>5, <2>1, <2>2, <2>3, <2>4, RunKept DEF At
  <2> QED
    BY <1>5, <2>1, <2>5, CalmKept, CalmRows
<1>8. CASE Boundary(w)
  <2>1. CASE UNCHANGED row
    <3>1. /\ Stays(w) /\ run[w].at = "boundary"
          /\ run'[w].at \in {"hold", "finish"}
      <4>1. \/ Go(w, "hold") \/ End(w, "completed")
            \/ row' = [row EXCEPT ![t].attempted = TRUE] /\ ~row[t].attempted
        BY <1>8 DEF Boundary
      <4>2. row' # [row EXCEPT ![t].attempted = TRUE] \/ row[t].attempted
        BY <1>2, <1>3, <2>1 DEF Row
      <4> QED
        BY <1>3, <1>8, <4>1, <4>2, Places, Staying DEF MovesTo, Boundary, At
    <3> QED
      BY <1>2, <1>4, <1>5, <2>1, <3>1, PlainKept, CalmRows
         DEF PlainSteps, SendingSteps
  <2>2. CASE /\ row' = [row EXCEPT ![t].attempted = TRUE]
             /\ Go(w, "revalidate") /\ Pending(row[t]) /\ ~row[t].attempted
             /\ t \notin obsolete /\ ~conv.hitl /\ ~conv.optedOut
             /\ At(w, "boundary")
    <3>1. Stays(w) /\ run'[w].at = "revalidate"
      BY <1>3, <2>2, Places, Staying DEF MovesTo
    <3>2. row'[t].attempted /\ row'[t].state = "SEND_PENDING"
          /\ row[t].state = "SEND_PENDING"
      BY <1>2, <1>3, <2>2 DEF Row, Pending
    <3>3. copies[t][1] = 0
      BY <1>4, <2>2, Unattempted
    <3>4. Committed(t)
      BY <1>5, <2>2, <3>2, <3>3 DEF Committed
    <3>5. TurnSound(t)'
      BY <1>4, <1>5, <3>2, <3>3, <2>2 DEF TurnSound
    <3>6. RunSound(w)'
      BY <1>2, <1>5, <3>1, <3>2, <3>3, <2>2, RunKept DEF At, SendingSteps
    <3> QED
      BY <3>4, <3>5, <3>6 DEF Kept, FateMove
  <2> QED
    BY <1>8, <2>1, <2>2 DEF Boundary
<1>9. CASE ReleaseCandidate(w)
  <2>1. /\ Stays(w) /\ run[w].at \in {"withdraw", "release"}
        /\ run'[w].at \in {"hold", "finish"}
    BY <1>3, <1>9, Places, Staying DEF ReleaseCandidate, MovesTo, At
  <2>2. copies[t][1] = 0
    BY <1>4, <2>1 DEF RunSound
  <2>3. row'[t] = Released(row[t])
    BY <1>2, <1>3, <1>9 DEF ReleaseCandidate
  <2>4. \/ row'[t] = row[t]
        \/ /\ row[t].state = "SEND_PENDING" /\ row'[t].state = "SEND_PENDING"
           /\ row'[t].attempted = FALSE
    BY <1>3, <2>3 DEF Released, Pending, Row
  <2>5. TurnSound(t)' /\ RunSound(w)'
    <3>1. RunSound(w)'
      BY <1>2, <1>5, <2>1, <2>2, RunKept DEF At, SendingSteps
    <3>2. TurnSound(t)'
      BY <1>4, <1>5, <2>2, <2>4 DEF TurnSound
    <3> QED
      BY <3>1, <3>2
  <2>6. FateMove(t)
    <3>1. CASE row'[t] = row[t]
      BY <1>5, <3>1 DEF FateMove, Fixed
    <3>2. CASE row[t].attempted /\ row'[t] # row[t]
      BY <1>5, <2>2, <2>4, <3>2 DEF FateMove, TakenBack
    <3>3. CASE ~row[t].attempted /\ row'[t] # row[t]
      <4>1. row'[t].attempted = row[t].attempted
        <5>1. row[t].attempted = FALSE
          BY <1>3, <3>3 DEF Row
        <5> QED
          BY <2>4, <3>3, <5>1
      <4> QED
        BY <1>5, <2>4, <3>3, <4>1 DEF FateMove, Fixed
    <3> QED
      BY <3>1, <3>2, <3>3
  <2> QED
    BY <2>5, <2>6 DEF Kept
<1> QED
  BY <1>6, <1>7, <1>8, <1>9

\* One more copy of one body.
LEMMA NextCopy ==
    ASSUME NEW c \in [Turns -> [1..Parts -> Nat]], NEW t \in Turns,
           NEW n \in 1..Parts, NEW d, d = [c EXCEPT ![t][n] = @ + 1]
    PROVE  d[t][n] = c[t][n] + 1 /\ \A p \in (1..Parts) \ {n} : d[t][p] = c[t][p]
<1>1. c[t] \in [1..Parts -> Nat]
  OBVIOUS
<1>2. d[t] = [c[t] EXCEPT ![n] = c[t][n] + 1]
  OBVIOUS
<1> QED
  BY <1>1, <1>2

\* The provider call and what becomes of it.
LEMMA LateSteps ==
    ASSUME InOneGo, TypeOK, Sound, NEW w \in Workers,
           NEW t \in Turns, t = run[w].turn,
           \/ SendPart(w) \/ SendFails(w) \/ RecordSent(w) \/ RecordFails(w)
           \/ RecordFailure(w) \/ Finish(w)
    PROVE  Kept(w, t)
<1>1. WorkerStep(w)
  BY DEF WorkerStep
<1>2. ~At(w, "idle")
  BY <1>1, WorkerRuns
<1>3. /\ run \in [Workers -> Run] /\ row \in [Turns -> Row] /\ row[t] \in Row
      /\ run[w] \in Run /\ job \in [Turns -> Job]
      /\ copies \in [Turns -> [1..Parts -> Nat]]
  BY DEF TypeOK
<1>4. TurnSound(t) /\ RunSound(w) /\ Parts \in Nat \ {0} /\ run[w].part \in Nat
  BY <1>3, BoundsAreNumbers DEF Sound, Run
<1> DEFINE k == run[w].part
<1>5. ASSUME At(w, "call")
      PROVE  /\ row[t].attempted /\ k < Parts
             /\ \A p \in 1..Parts : copies[t][p] = IF p <= k THEN 1 ELSE 0
             /\ k = 0 => row[t].state # "SENT"
  BY <1>4, <1>5 DEF TurnSound, RunSound, At
<1>6. ASSUME At(w, "call"), AcceptPart(w)
      PROVE  /\ \A p \in 1..Parts : copies'[t][p] = IF p <= k + 1 THEN 1 ELSE 0
             /\ copies'[t][1] = 1
             /\ k = 0 => copies[t][1] = 0
             /\ k # 0 => copies[t][1] = 1
  <2>1. copies' = [copies EXCEPT ![t][k + 1] = @ + 1]
    BY <1>6, Zenon DEF AcceptPart
  <2>2. k + 1 \in 1..Parts /\ k < Parts
    BY <1>4, <1>5, <1>6
  <2>3. /\ copies'[t][k + 1] = copies[t][k + 1] + 1
        /\ \A p \in (1..Parts) \ {k + 1} : copies'[t][p] = copies[t][p]
    <3>1. PICK n \in 1..Parts : n = k + 1
      BY <2>2
    <3>2. PICK d : d = copies'
      OBVIOUS
    <3>3. d = [copies EXCEPT ![t][n] = @ + 1]
      BY <2>1, <3>1, <3>2, Zenon
    <3>4. /\ d[t][n] = copies[t][n] + 1
          /\ \A p \in (1..Parts) \ {n} : d[t][p] = copies[t][p]
      BY <1>3, <3>3, NextCopy
    <3> QED
      BY <3>1, <3>2, <3>4
  <2>4. \A p \in 1..Parts : copies[t][p] = IF p <= k THEN 1 ELSE 0
    BY <1>5, <1>6
  <2>5. ASSUME NEW p \in 1..Parts
        PROVE  copies'[t][p] = IF p <= k + 1 THEN 1 ELSE 0
    BY <1>4, <2>2, <2>3, <2>4
  <2> QED
    BY <1>4, <2>4, <2>5
<1>7. CASE SendPart(w)
  <2>1. /\ At(w, "call") /\ AcceptPart(w) /\ UNCHANGED <<job, row>>
        /\ run' = [run EXCEPT ![w].part = @ + 1,
                              ![w].at = IF run[w].part + 1 = Parts
                                        THEN "record" ELSE "call"]
    BY <1>7 DEF SendPart, queue
  <2>2. /\ run'[w].turn = t /\ run'[w].part = k + 1
        /\ run'[w].at = IF k + 1 = Parts THEN "record" ELSE "call"
    BY <1>3, <2>1 DEF Run
  <2>3. TurnSound(t)'
    BY <1>4, <1>5, <1>6, <2>1 DEF TurnSound
  <2>4. RunSound(w)'
    <3>1. /\ row'[t].attempted /\ job'[t].owner = w /\ copies'[t][1] = 1
          /\ \A p \in 1..Parts : copies'[t][p] = IF p <= k + 1 THEN 1 ELSE 0
      BY <1>4, <1>5, <1>6, <2>1 DEF RunSound, At
    <3>2. CASE k + 1 = Parts
      BY <2>2, <3>1, <3>2 DEF RunSound, SendingSteps
    <3>3. CASE k + 1 # Parts
      <4>1. k + 1 < Parts /\ run'[w].at = "call"
        BY <1>4, <1>5, <2>1, <2>2, <3>3
      <4>2. /\ run'[w].part < Parts
            /\ \A p \in 1..Parts :
                  copies'[run'[w].turn][p] = IF p <= run'[w].part THEN 1 ELSE 0
        BY <2>2, <3>1, <4>1
      <4> QED
        BY <2>2, <3>1, <4>1, <4>2 DEF RunSound, SendingSteps
    <3> QED
      BY <3>2, <3>3
  <2>5. AcceptedNow(t) \/ Fixed(t)
    BY <1>5, <1>6, <2>1 DEF AcceptedNow, Fixed
  <2> QED
    BY <2>3, <2>4, <2>5 DEF Kept, FateMove
<1>8. CASE SendFails(w)
  <2>1. /\ At(w, "call") /\ UNCHANGED <<job, row>>
        /\ AcceptPart(w) \/ UNCHANGED copies
        /\ \/ run' = [run EXCEPT ![w].at = "fail", ![w].how = "retry"]
           \/ run' = [run EXCEPT ![w].at = "fail", ![w].how = "dead"]
    BY <1>8 DEF SendFails, queue
  <2>2. Stays(w) /\ MovesTo(w, "fail")
    <3>1. PICK e : run' = [run EXCEPT ![w].at = "fail", ![w].how = e]
      BY <2>1, Zenon
    <3>2. Stays(w)
      BY <1>3, <3>1, Staying
    <3>3. MovesTo(w, "fail")
      BY <1>3, <3>1, Places
    <3> QED
      BY <3>2, <3>3
  <2>3. RunSound(w)'
    BY <1>5, <2>1, <2>2, RunKept DEF MovesTo, At
  <2>4. TurnSound(t)'
    BY <1>4, <1>5, <1>6, <2>1 DEF TurnSound
  <2>5. AcceptedNow(t) \/ Fixed(t)
    BY <1>5, <1>6, <2>1 DEF AcceptedNow, Fixed
  <2> QED
    BY <2>3, <2>4, <2>5 DEF Kept, FateMove
<1>9. CASE RecordSent(w) \/ RecordFails(w) \/ RecordFailure(w)
  <2>1. /\ run[w].at \in {"record", "fail"} /\ row[t].attempted
        /\ UNCHANGED <<job, copies>>
    BY <1>4, <1>9
       DEF RecordSent, RecordFails, RecordFailure, RunSound, At, queue
  <2>2. Stays(w) /\ MovesTo(w, "finish")
    <3>1. Go(w, "finish") \/ \E e : End(w, e)
      BY <1>9, Zenon DEF RecordSent, RecordFails, RecordFailure
    <3> QED
      BY <1>3, <3>1, Places, Staying, Zenon
  <2>3. run'[w].at = "finish"
    BY <2>2 DEF MovesTo
  <2>4. \/ UNCHANGED row
        \/ /\ run[w].at = "record" /\ Pending(row[t])
           /\ row' = [row EXCEPT ![t].state = "SENT", ![t].mid = TRUE]
        \/ /\ Pending(row[t])
           /\ row' = [row EXCEPT ![t].state = "FAILED", ![t].attempted = TRUE,
                                 ![t].mid = run[w].part > 0]
    BY <1>9, <2>1
       DEF RecordSent, RecordFails, RecordFailure, Outdated, At
  <2>5. CASE UNCHANGED row
    BY <1>2, <2>1, <2>2, <2>3, <2>5, PlainKept, CalmRows
  <2>6. CASE /\ run[w].at = "record"
             /\ row' = [row EXCEPT ![t].state = "SENT", ![t].mid = TRUE]
    <3>1. /\ row'[t].state = "SENT" /\ row'[t].mid
          /\ row'[t].attempted = row[t].attempted
      BY <1>3, <2>6 DEF Row
    <3>2. copies[t][1] = 1
      BY <1>4, <2>6 DEF RunSound
    <3>3. ShownNow(t)
      BY <2>1, <3>1, <3>2 DEF ShownNow
    <3>4. TurnSound(t)'
      BY <1>4, <2>1, <3>1, <3>2 DEF TurnSound
    <3>5. RunSound(w)'
      BY <1>2, <2>1, <2>2, <2>3, RunKept DEF At
    <3> QED
      BY <3>3, <3>4, <3>5 DEF Kept, FateMove
  <2>7. CASE /\ Pending(row[t])
             /\ row' = [row EXCEPT ![t].state = "FAILED", ![t].attempted = TRUE,
                                   ![t].mid = run[w].part > 0]
    <3>1. row'[t].state = "FAILED" /\ row'[t].attempted = TRUE
      BY <1>3, <2>7 DEF Row
    <3>2. row[t].attempted = TRUE /\ row[t].state = "SEND_PENDING"
      BY <1>3, <2>1, <2>7 DEF Row, Pending
    <3>3. Calm(row[t], row'[t])
      BY <3>1, <3>2 DEF Calm
    <3> QED
      BY <1>2, <2>1, <2>2, <2>3, <3>3, PlainKept
  <2> QED
    BY <2>4, <2>5, <2>6, <2>7
<1>10. CASE Finish(w)
  <2>1. /\ run' = [run EXCEPT ![w] = Idle] /\ UNCHANGED <<row, copies>>
        /\ job' = [job EXCEPT ![t] = IF @.owner = w THEN Settled(@, run[w].how)
                                     ELSE @]
    BY <1>10 DEF Finish
  <2>2. run'[w].at = "idle"
    BY <1>3, <2>1 DEF Idle
  <2>3. job[t].owner = w
    BY <1>2, <1>4 DEF RunSound, At
  <2>4. job'[t].owner = Nobody
    <3>1. job'[t] = Settled(job[t], run[w].how)
      BY <1>3, <2>1, <2>3
    <3>2. job[t] \in Job
      BY <1>3
    <3> QED
      BY <3>1, <3>2 DEF Settled, Job
  <2>5. TurnSound(t)'
    BY <1>4, <2>1, <2>4 DEF TurnSound
  <2>6. RunSound(w)'
    BY <2>2 DEF RunSound
  <2>7. Fixed(t)
    BY <2>1 DEF Fixed
  <2> QED
    BY <2>5, <2>6, <2>7 DEF Kept, FateMove
<1> QED
  BY <1>7, <1>8, <1>9, <1>10

\* What a step does to the fates of all turns.
OneFate ==
    \/ /\ \A t \in Turns : Fixed(t)
       /\ superseded' = superseded \/ superseded' = superseded \cup InFlight
    \/ /\ superseded' = superseded
       /\ \E t \in Turns : FateMove(t) /\ \A u \in Turns \ {t} : Fixed(u)

LEMMA WorkerSound ==
    ASSUME InOneGo, TypeOK, Sound, NEW w \in Workers, WorkerStep(w)
    PROVE  Sound' /\ OneFate
<1> DEFINE t == run[w].turn
<1>1. t \in Turns /\ ~At(w, "idle") /\ RunSound(w)
  BY WorkerRuns DEF Sound
<1>2. Kept(w, t)
  <2>1. ASSUME NEW u \in Turns, u = run[w].turn PROVE Kept(w, u)
    BY <2>1, EarlySteps, MiddleSteps, LateSteps DEF WorkerStep
  <2> QED
    BY <1>1, <2>1
<1>3. ASSUME NEW u \in Turns, u # t
      PROVE  row'[u] = row[u] /\ copies'[u] = copies[u] /\ job'[u] = job[u]
  BY <1>3, WorkerFrame
<1>4. \A v \in Workers \ {w} : run'[v] = run[v]
  BY WorkerMoves DEF MovesTo
<1>5. ASSUME NEW u \in Turns PROVE TurnSound(u)'
  <2>1. CASE u = t
    <3>1. ASSUME NEW x \in Turns, x = t PROVE TurnSound(x)'
      <4>1. Kept(w, x)
        BY <1>2, <3>1
      <4> QED
        BY <4>1 DEF Kept
    <3> QED
      BY <2>1, <3>1
  <2>2. CASE u # t
    BY <1>3, <2>2 DEF Sound, TurnSound
  <2> QED
    BY <2>1, <2>2
<1>6. ASSUME NEW v \in Workers PROVE RunSound(v)'
  <2>1. CASE v = w
    BY <1>2, <2>1 DEF Kept
  <2>2. CASE v # w
    <3>1. run'[v] = run[v] /\ RunSound(v)
      BY <1>4, <2>2 DEF Sound
    <3>2. CASE run[v].at = "idle"
      BY <3>1, <3>2 DEF RunSound
    <3>3. CASE run[v].at # "idle"
      <4>1. run[v].turn \in Turns
        BY <3>3 DEF TypeOK
      <4>2. run[v].turn # t
        BY <1>1, <2>2, <3>1, <3>3 DEF RunSound, At
      <4> QED
        BY <1>3, <3>1, <4>1, <4>2 DEF RunSound
    <3> QED
      BY <3>2, <3>3
  <2> QED
    BY <2>1, <2>2
<1>7. OneFate
  <2>1. CASE Handoff(w)
    <3>1. UNCHANGED <<row, copies>>
      BY <2>1 DEF Handoff
    <3>2. superseded' = superseded \/ superseded' = superseded \cup InFlight
      BY <2>1 DEF Handoff
    <3> QED
      BY <3>1, <3>2 DEF OneFate, Fixed
  <2>2. CASE ~Handoff(w)
    <3>1. superseded' = superseded
      BY <2>2
         DEF WorkerStep, ClaimDedupKey, StartTurn, StartTurnFails, Guard, Answer,
             Withhold, Suppress, GenerationFails, SendGuard, StoreCandidate,
             StoreHeld, StoreBlocked, Store, Hold, ClaimCandidate, HoldRefused,
             Recheck, AcquireLock, Boundary, Revalidate, ReleaseCandidate,
             SendPart, RateLimited, SendFails, RecordSent, RecordFails,
             RecordFailure, Finish, world
    <3>2. \A u \in Turns \ {t} : Fixed(u)
      BY <1>3 DEF Fixed
    <3>3. FateMove(t)
      BY <1>2 DEF Kept
    <3> QED
      BY <1>1, <3>1, <3>2, <3>3 DEF OneFate
  <2> QED
    BY <2>1, <2>2
<1> QED
  BY <1>5, <1>6, <1>7 DEF Sound

\* A step that leaves jobs, executions and copies alone and rows calm.
LEMMA CalmStep ==
    ASSUME Sound, UNCHANGED <<job, run, copies>>,
           \A t \in Turns : Calm(row[t], row'[t]),
           superseded' = superseded \/ superseded' = superseded \cup InFlight,
           TypeOK
    PROVE  Sound' /\ OneFate
<1>1. ASSUME NEW t \in Turns PROVE TurnSound(t)' /\ Fixed(t)
  BY <1>1 DEF Sound, TurnSound, Calm, Fixed
<1>2. ASSUME NEW w \in Workers PROVE RunSound(w)'
  <2>1. CASE run[w].at = "idle"
    BY <2>1 DEF RunSound
  <2>2. CASE run[w].at # "idle"
    <3>1. run[w].turn \in Turns /\ RunSound(w)
      BY <2>2 DEF TypeOK, Sound
    <3> QED
      BY <3>1 DEF RunSound, Calm
  <2> QED
    BY <2>1, <2>2
<1> QED
  BY <1>1, <1>2 DEF Sound, OneFate

LEMMA PeopleSound ==
    ASSUME TypeOK, Sound, MerchantStep \/ PersonStep
    PROVE  Sound' /\ OneFate
<1>1. UNCHANGED <<job, run, copies>>
  BY DEF MerchantStep, ReplyStored, ReplyHolds, ReplyPauses, ReplyDelivered,
         PersonStep, ReplyBegins, TakeOver, Resume, Close, Archive, TogglePause,
         ChangeMode, OptOut, queue
<1>2. superseded' = superseded \/ superseded' = superseded \cup InFlight
  BY DEF MerchantStep, ReplyStored, ReplyHolds, ReplyPauses, ReplyDelivered,
         PersonStep, ReplyBegins, TakeOver, Resume, Close, Archive, TogglePause,
         ChangeMode, OptOut
<1>3. \/ row' = row \/ row' = HoldPending \/ row' = CancelAll("HELD", Turns)
      \/ \E S : row' = CancelAll("DISMISSED", S)
  BY Zenon
     DEF MerchantStep, ReplyStored, ReplyHolds, ReplyPauses, ReplyDelivered,
         PersonStep, ReplyBegins, TakeOver, Resume, Close, Archive, TogglePause,
         ChangeMode, OptOut
<1>4. ASSUME NEW t \in Turns PROVE Calm(row[t], row'[t])
  BY <1>3, CalmRows
<1> QED
  BY <1>1, <1>2, <1>4, CalmStep

LEMMA DisturbanceSound ==
    ASSUME InOneGo, TypeOK, Sound,
           \/ \E w \in Workers, t \in Turns : Take(w, t)
           \/ \E w \in Workers : Crash(w) \/ Stall(w)
           \/ \E t \in Turns : ClaimAges(t) \/ Echo(t) \/ CustomerMessage(t)
           \/ LockExpires \/ PauseExpires
    PROVE  Sound' /\ OneFate
<1>1. /\ run \in [Workers -> Run] /\ job \in [Turns -> Job]
      /\ row \in [Turns -> Row]
      /\ \A w \in Workers : run[w].at # "idle" => run[w].turn \in Turns
      /\ \A w \in Workers : w # Nobody
  BY PeopleAreNotWorkers DEF TypeOK
<1>2. CASE \E w \in Workers, t \in Turns : Take(w, t)
  <2>1. PICK w \in Workers, t \in Turns : Take(w, t)
    BY <1>2
  <2>2. /\ run'[w].at = "dedup" /\ run'[w].turn = t /\ run'[w].part = 0
        /\ \A v \in Workers \ {w} : run'[v] = run[v]
        /\ job[t].state = "waiting"
        /\ job'[t].state = "active" /\ job'[t].owner = w
        /\ \A u \in Turns \ {t} : job'[u] = job[u]
        /\ UNCHANGED <<row, copies, superseded>>
    BY <1>1, <2>1 DEF Take, world, Idle, Job
  <2>3. job[t].owner = Nobody
    BY <2>2 DEF Sound, TurnSound
  <2>4. ASSUME NEW u \in Turns PROVE TurnSound(u)' /\ Fixed(u)
    BY <2>2, <2>4 DEF Sound, TurnSound, Fixed
  <2>5. ASSUME NEW v \in Workers PROVE RunSound(v)'
    <3>1. CASE v = w
      BY <2>2, <3>1 DEF RunSound
    <3>2. CASE v # w /\ run[v].at # "idle"
      <4>1. RunSound(v) /\ run'[v] = run[v] /\ run[v].turn \in Turns
        BY <1>1, <2>2, <3>2 DEF Sound
      <4>2. run[v].turn # t
        BY <1>1, <2>3, <3>2, <4>1 DEF RunSound
      <4> QED
        BY <2>2, <4>1, <4>2 DEF RunSound
    <3>3. CASE v # w /\ run[v].at = "idle"
      BY <2>2, <3>3 DEF RunSound
    <3> QED
      BY <3>1, <3>2, <3>3
  <2> QED
    BY <2>2, <2>4, <2>5 DEF Sound, OneFate
<1>3. CASE \E w \in Workers : Crash(w)
  <2>1. PICK w \in Workers : Crash(w)
    BY <1>3
  <2>2. PICK t \in Turns : t = run[w].turn
    BY <1>1, <2>1 DEF Crash, At
  <2>3. job[t].owner = w
    BY <2>1, <2>2 DEF Crash, At, Sound, RunSound
  <2>4. job' = [job EXCEPT ![t] = GivenBack(job[t])]
    BY <1>1, <2>1, <2>2, <2>3 DEF Crash
  <2>5. GivenBack(job[t]).owner = Nobody
    BY <1>1 DEF GivenBack, Job
  <2>6. /\ run'[w].at = "idle"
        /\ \A v \in Workers \ {w} : run'[v] = run[v]
        /\ job'[t].owner = Nobody
        /\ \A u \in Turns \ {t} : job'[u] = job[u]
        /\ UNCHANGED <<row, copies, superseded>>
    <3>1. run' = [run EXCEPT ![w] = Idle] /\ UNCHANGED <<row, copies, superseded>>
      BY <2>1 DEF Crash, world
    <3> QED
      BY <1>1, <2>4, <2>5, <3>1 DEF Idle
  <2>7. ASSUME NEW u \in Turns PROVE TurnSound(u)' /\ Fixed(u)
    BY <2>6, <2>7 DEF Sound, TurnSound, Fixed
  <2>8. ASSUME NEW v \in Workers PROVE RunSound(v)'
    <3>1. CASE v = w
      BY <2>6, <3>1 DEF RunSound
    <3>2. CASE v # w /\ run[v].at # "idle"
      <4>1. RunSound(v) /\ run'[v] = run[v] /\ run[v].turn \in Turns
        BY <1>1, <2>6, <3>2 DEF Sound
      <4>2. run[v].turn # t
        BY <2>3, <3>2, <4>1 DEF RunSound
      <4> QED
        BY <2>6, <4>1, <4>2 DEF RunSound
    <3>3. CASE v # w /\ run[v].at = "idle"
      BY <2>6, <3>3 DEF RunSound
    <3> QED
      BY <3>1, <3>2, <3>3
  <2> QED
    BY <2>6, <2>7, <2>8 DEF Sound, OneFate
<1>4. ASSUME NEW w \in Workers, Stall(w) PROVE FALSE
  BY <1>4 DEF Stall, Fault, InOneGo
<1>5. CASE \E t \in Turns : ClaimAges(t)
  <2>1. PICK t \in Turns : ClaimAges(t)
    BY <1>5
  <2>2. /\ row' = [row EXCEPT ![t] = [row[t] EXCEPT !.old = TRUE]]
        /\ UNCHANGED <<job, run, copies, superseded>>
    BY <2>1 DEF ClaimAges, queue, world
  <2>3. ASSUME NEW u \in Turns PROVE Calm(row[u], row'[u])
    BY <1>1, <2>2, CalmRows
  <2> QED
    BY <2>2, <2>3, CalmStep
<1>6. CASE \E t \in Turns : Echo(t)
  <2>1. PICK t \in Turns : Echo(t)
    BY <1>6
  <2>2. /\ row' = [row EXCEPT ![t].state = "SENT", ![t].mid = TRUE]
        /\ row[t].attempted
        /\ UNCHANGED <<job, run, copies, superseded>>
    BY <2>1 DEF Echo, queue, world
  <2>3. copies[t][1] = 1
    BY <2>1 DEF Echo, Accepted, Sound, TurnSound
  <2>4. /\ row'[t].state = "SENT" /\ row'[t].mid
        /\ row'[t].attempted = row[t].attempted
        /\ \A u \in Turns \ {t} : row'[u] = row[u]
    BY <1>1, <2>2 DEF Row
  <2>5. ShownNow(t) /\ \A u \in Turns \ {t} : Fixed(u)
    BY <2>2, <2>3, <2>4 DEF ShownNow, Fixed
  <2>6. ASSUME NEW u \in Turns PROVE TurnSound(u)'
    <3>1. TurnSound(u) /\ job'[u] = job[u] /\ copies'[u] = copies[u]
      BY <2>2 DEF Sound
    <3>2. CASE u = t
      BY <2>2, <2>3, <2>4, <3>1, <3>2 DEF TurnSound
    <3>3. CASE u # t
      BY <2>4, <3>1, <3>3 DEF TurnSound
    <3> QED
      BY <3>2, <3>3
  <2>7. ASSUME NEW w \in Workers PROVE RunSound(w)'
    BY <1>1, <2>2, <2>4 DEF Sound, RunSound
  <2> QED
    BY <2>2, <2>5, <2>6, <2>7 DEF Sound, OneFate, FateMove
<1>7. CASE \E t \in Turns : CustomerMessage(t)
  <2>1. PICK t \in Turns : CustomerMessage(t)
    BY <1>7
  <2>2. /\ job[t].state = "absent" /\ job'[t].owner = job[t].owner
        /\ \A u \in Turns \ {t} : job'[u] = job[u]
        /\ UNCHANGED <<run, row, copies, superseded>>
    BY <1>1, <2>1 DEF CustomerMessage, Job
  <2>3. ASSUME NEW u \in Turns PROVE TurnSound(u)' /\ Fixed(u)
    BY <2>2, <2>3 DEF Sound, TurnSound, Fixed
  <2>4. ASSUME NEW w \in Workers PROVE RunSound(w)'
    BY <1>1, <2>2 DEF Sound, RunSound
  <2> QED
    BY <2>2, <2>3, <2>4 DEF Sound, OneFate
<1>8. CASE LockExpires \/ PauseExpires
  <2>1. UNCHANGED <<job, run, row, copies, superseded>>
    BY <1>8 DEF LockExpires, PauseExpires, queue, world
  <2> QED
    BY <2>1, CalmStep, CalmRows
<1> QED
  BY <1>2, <1>3, <1>4, <1>5, <1>6, <1>7, <1>8

LEMMA SoundStep ==
    ASSUME InOneGo, TypeOK, Sound, [Next]_vars PROVE Sound' /\ OneFate
<1>1. CASE UNCHANGED vars
  BY <1>1, CalmStep, CalmRows DEF vars
<1> QED
  BY <1>1, WorkerSound, PeopleSound, DisturbanceSound DEF Next

LEMMA SoundInit == Init => Sound
<1> SUFFICES ASSUME Init PROVE Sound
  OBVIOUS
<1>1. 1 \in 1..Parts
  BY BoundsAreNumbers
<1>2. ASSUME NEW t \in Turns PROVE TurnSound(t)
  BY <1>1, PeopleAreNotWorkers DEF Init, TurnSound, NoRow
<1>3. ASSUME NEW w \in Workers PROVE RunSound(w)
  BY DEF Init, RunSound, Idle
<1> QED
  BY <1>2, <1>3 DEF Sound

\* What Meta accepted is an attempt on the row, and a row is shown as sent only
\* if Meta accepted it: for replies that go out in one go, by workers that are
\* not taken for dead while they go on, through crashes between two bodies,
\* retries, lost answers and echoes.
THEOREM RowTruth == ASSUME InOneGo PROVE Spec => []RowTellsTheTruth
<1>1. TypeOK /\ Sound /\ [Next]_vars => (TypeOK /\ Sound)'
  BY TypeStep, SoundStep
<1>2. Sound => RowTellsTheTruth
  BY BoundsAreNumbers DEF Sound, TurnSound, RowTellsTheTruth, Accepted
<1>3. Init => TypeOK /\ Sound
  BY TypeInit, SoundInit
<1> QED
  BY <1>1, <1>2, <1>3, PTL DEF Spec

\* In the same instances the customer gets each body of a reply at most once,
\* whatever is retried: the property that a reply does not have when a rate
\* limit falls between two of its bodies.
THEOREM AtMostOnce == ASSUME InOneGo PROVE Spec => []SingleReply
<1>1. TypeOK /\ Sound /\ [Next]_vars => (TypeOK /\ Sound)'
  BY TypeStep, SoundStep
<1>2. Sound => SingleReply
  BY DEF Sound, TurnSound, SingleReply
<1>3. Init => TypeOK /\ Sound
  BY TypeInit, SoundInit
<1> QED
  BY <1>1, <1>2, <1>3, PTL DEF Spec

-----------------------------------------------------------------------------
(* The automatic reply implements OneReply. *)

LEMMA RefineStep ==
    ASSUME TypeOK, Sound, StillBarred, OneFate
    PROVE  [Promise!Next]_(Promise!vars)
<1> DEFINE att == {t \in Turns : row[t].attempted}
           del == [t \in Turns |-> copies[t][1]]
           sho == {t \in Turns : row[t].state = "SENT"}
<1>1. ASSUME NEW t \in Turns, Fixed(t)
      PROVE  /\ t \in att' <=> t \in att
             /\ t \in sho' <=> t \in sho
             /\ del'[t] = del[t]
  BY <1>1 DEF Fixed
<1>2. CASE /\ \A t \in Turns : Fixed(t)
           /\ superseded' = superseded \/ superseded' = superseded \cup InFlight
  <2>1. att' = att /\ sho' = sho /\ del' = del
    BY <1>1, <1>2
  <2>2. CASE superseded' = superseded
    BY <2>1, <2>2 DEF Promise!vars
  <2>3. CASE superseded' = superseded \cup InFlight
    <3>1. InFlight \in SUBSET (Turns \ att)
      BY DEF InFlight, TypeOK
    <3>2. Promise!Bar
      BY <2>1, <2>3, <3>1 DEF Promise!Bar
    <3> QED
      BY <3>2 DEF Promise!Next
  <2> QED
    BY <1>2, <2>2, <2>3
<1>3. CASE /\ superseded' = superseded
           /\ \E t \in Turns : FateMove(t) /\ \A u \in Turns \ {t} : Fixed(u)
  <2>1. PICK t \in Turns : FateMove(t) /\ \A u \in Turns \ {t} : Fixed(u)
    BY <1>3
  <2>2. \A u \in Turns \ {t} : /\ u \in att' <=> u \in att
                               /\ u \in sho' <=> u \in sho
                               /\ del'[u] = del[u]
    BY <1>1, <2>1
  <2>3. CASE Fixed(t)
    <3>1. att' = att /\ sho' = sho /\ del' = del
      BY <1>1, <2>2, <2>3
    <3> QED
      BY <1>3, <3>1 DEF Promise!vars
  <2>4. CASE Committed(t)
    <3>1. att' = att \cup {t} /\ sho' = sho /\ del' = del
      BY <2>2, <2>4 DEF Committed
    <3>2. t \notin superseded \cup att /\ del[t] = 0
      BY <2>4 DEF Committed, StillBarred
    <3>3. Promise!Commit(t)
      BY <1>3, <3>1, <3>2 DEF Promise!Commit
    <3> QED
      BY <3>3 DEF Promise!Next
  <2>5. CASE TakenBack(t)
    <3>1. att' = att \ {t} /\ sho' = sho /\ del' = del
      BY <2>2, <2>5 DEF TakenBack
    <3>2. t \in att /\ del[t] = 0
      BY <2>5 DEF TakenBack
    <3>3. Promise!TakeBack(t)
      BY <1>3, <3>1, <3>2 DEF Promise!TakeBack
    <3> QED
      BY <3>3 DEF Promise!Next
  <2>6. CASE AcceptedNow(t)
    <3>1. att' = att /\ sho' = sho
      BY <2>2, <2>6 DEF AcceptedNow
    <3>2. del' = [del EXCEPT ![t] = 1]
      BY <2>2, <2>6 DEF AcceptedNow
    <3>3. t \in att /\ del[t] = 0
      BY <2>6 DEF AcceptedNow
    <3>4. Promise!Accept(t)
      BY <1>3, <3>1, <3>2, <3>3 DEF Promise!Accept
    <3> QED
      BY <3>4 DEF Promise!Next
  <2>7. CASE ShownNow(t)
    <3>1. att' = att /\ sho' = sho \cup {t} /\ del' = del
      BY <2>2, <2>7 DEF ShownNow
    <3>2. del[t] = 1
      BY <2>7 DEF ShownNow
    <3>3. Promise!Show(t)
      BY <1>3, <3>1, <3>2 DEF Promise!Show
    <3> QED
      BY <3>3 DEF Promise!Next
  <2> QED
    BY <2>1, <2>3, <2>4, <2>5, <2>6, <2>7 DEF FateMove
<1> QED
  BY <1>2, <1>3 DEF OneFate

\* Every step of the automatic reply is a step of OneReply or leaves it alone:
\* nobody's objection is overrun, nothing is delivered twice, taken back after
\* it was delivered, or shown before.
THEOREM ImplementsOneReply ==
    ASSUME InOneGo, NoWayRound PROVE Spec => KeepsPromise
<1>1. Init => TypeOK /\ Sound /\ StillBarred
  BY TypeInit, SoundInit DEF Init, StillBarred
<1>2. TypeOK /\ Sound /\ StillBarred /\ [Next]_vars
        => (TypeOK /\ Sound /\ StillBarred)'
  BY TypeStep, SoundStep, StillBarredStep
<1>3. Init => Promise!Init
  BY BoundsAreNumbers DEF Init, Promise!Init, NoRow
<1>4. TypeOK /\ Sound /\ StillBarred /\ [Next]_vars
        => [Promise!Next]_(Promise!vars)
  BY SoundStep, RefineStep
<1> QED
  BY <1>1, <1>2, <1>3, <1>4, PTL DEF Spec, KeepsPromise, Promise!Spec
=============================================================================
