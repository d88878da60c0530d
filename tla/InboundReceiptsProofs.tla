------------------------ MODULE InboundReceiptsProofs ------------------------
(* Proofs about InboundReceipts, for every number of events and processes. *)
EXTENDS InboundReceipts, TLAPS

-----------------------------------------------------------------------------
(* Row operators. *)

\* Every write of the receipt service leaves a well-formed row.
LEMMA RowTypes ==
    ASSUME NEW r \in Receipt, NEW p \in Procs, NEW j \in Events, NEW n \in Nat
    PROVE  /\ NoReceipt \in Receipt
           /\ markSkipped(r) \in Receipt
           /\ markProcessed(r) \in Receipt
           /\ markQueued(r, j) \in Receipt
           /\ deferQueued(r) \in Receipt
           /\ markQueueFailure(r) \in Receipt
           /\ deadLetter(r) \in Receipt
           /\ markIdentityNotResolved(r, n) \in Receipt
           /\ markStoreFailure(r, n) \in Receipt
           /\ claim(r, p) \in Receipt
           /\ bindReceiptTenant(r) \in Receipt
  BY ZenonT(60) DEF Receipt, NoReceipt, markSkipped, markProcessed, markQueued, deferQueued,
         markQueueFailure, deadLetter, markIdentityNotResolved, markStoreFailure,
         claim, bindReceiptTenant, Statuses, Open, Terminal, Recoverable, Retryable

\* A new row is well-formed.
LEMMA RecordTypes ==
    ASSUME NEW e \in Events PROVE recordReceipt(e) \in Receipt
  BY DEF recordReceipt, Receipt, NoReceipt, Replayable, Statuses, Open, Terminal,
         Recoverable, Retryable

\* Reading a row gives a well-formed snapshot.
LEMMA SnapshotTypes ==
    ASSUME NEW e \in Events, NEW r \in Receipt
    PROVE  SnapshotOf(e, r) \in Snapshot /\ NoSnapshot \in Snapshot
  BY DEF SnapshotOf, Snapshot, NoSnapshot, Receipt, Statuses

\* A job is added well-formed.
LEMMA JobTypes ==
    ASSUME NEW ids \in SUBSET Events, NEW x \in Events \cup {Null, AnyJob}
    PROVE  NoJob \in Job /\ NewJob(ids, x) \in Job
<1>1. 0 \in 0 .. MaxAttempts
  BY BoundsAssumption
<1>2. NoJob \in Job
  BY <1>1 DEF NoJob, Job, Resident, Live
<1>3. "waiting" \in {"none", "failed"} \cup Resident
  BY DEF Resident, Live
<1>4. NewJob(ids, x) \in Job
  BY <1>1, <1>3 DEF NewJob, NoJob, Job
<1> QED
  BY <1>2, <1>4

\* Removing a queued job leaves the queue well-formed.
LEMMA RemoveTypes ==
    ASSUME NEW jobs \in [Events -> Job], NEW j \in Events \cup {Null}
    PROVE  removeQueuedJob(jobs, j) \in [Events -> Job]
  BY JobTypes DEF removeQueuedJob

\* A conditional update keeps the table well-formed.
LEMMA SafeUpdateType ==
    ASSUME TypeOK, NEW p \in Procs, mem[p].e \in Events, NEW row \in Receipt,
           safeUpdate(p, row)
    PROVE  receipt' \in [Events -> Receipt]
  BY DEF safeUpdate, TypeOK

-----------------------------------------------------------------------------
(* Type correctness. *)

\* A run that a crash takes back was counted when it started.
RunsCounted == \A j \in Events : job[j].state = "active" => job[j].attempts > 0

ProcsTyped ==
    /\ pc \in [Procs -> Steps]
    /\ mem \in [Procs -> Snapshot]
    /\ \A p \in Procs : pc[p] # "idle" => mem[p].e \in Events

\* Ending a handler keeps the processes well-typed.
LEMMA DoneTypes ==
    ASSUME TypeOK, NEW p \in Procs, Done(p)
    PROVE  ProcsTyped'
<1>1. NoSnapshot \in Snapshot
  BY DEF NoSnapshot, Snapshot, Statuses
<1> QED
  BY <1>1 DEF Done, TypeOK, ProcsTyped, Steps

\* Moving on in a handler keeps the processes well-typed.
LEMMA GotoTypes ==
    ASSUME TypeOK, NEW p \in Procs, pc[p] # "idle", NEW step \in Steps, Goto(p, step)
    PROVE  ProcsTyped'
  BY DEF Goto, TypeOK, ProcsTyped

\* So does a successful claim, which also ages other processes' tokens.
LEMMA ClaimedTypes ==
    ASSUME TypeOK, NEW p \in Procs, pc[p] # "idle", NEW step \in Steps,
           NEW j \in Events \cup {Null}, Claimed(p, step, j)
    PROVE  ProcsTyped' /\ receipt' \in [Events -> Receipt]
<1>1. mem[p].e \in Events
  BY DEF TypeOK
<1>2. receipt' \in [Events -> Receipt]
  BY <1>1, RowTypes DEF Claimed, TypeOK
<1>3. pc' \in [Procs -> Steps]
  BY DEF Claimed, TypeOK
<1>4. mem' \in [Procs -> Snapshot]
  <2>1. "PROCESSING" \in Statuses
    BY DEF Statuses, Open
  <2>2. [mem[p] EXCEPT !.status = "PROCESSING", !.owner = p, !.bound = FALSE,
                       !.job = j] \in Snapshot
    BY ZenonT(60), <2>1 DEF TypeOK, Snapshot
  <2>3. \A q \in Procs : [mem[q] EXCEPT !.owner = Expired] \in Snapshot
    BY DEF TypeOK, Snapshot
  <2> QED
    BY <2>2, <2>3 DEF Claimed, TypeOK
<1>5. \A q \in Procs : mem'[q].e = mem[q].e
  BY DEF Claimed, TypeOK, Snapshot
<1>6. \A q \in Procs : pc'[q] # "idle" => pc[q] # "idle"
  BY DEF Claimed, TypeOK
<1> QED
  BY <1>2, <1>3, <1>4, <1>5, <1>6 DEF ProcsTyped, TypeOK

\* The failure ends.
LEMMA EndTypes ==
    ASSUME TypeOK, NEW p \in Procs, pc[p] # "idle", NEW i \in {0, 1},
           StoreFailure(p) \/ QueueFailure(p) \/ IdentityNotResolved(p, i)
    PROVE  ProcsTyped' /\ receipt' \in [Events -> Receipt]
<1>1. mem[p].e \in Events /\ Row(p) \in Receipt
  BY DEF TypeOK, Row
<1>2. mem[p].retries + 1 \in Nat /\ mem[p].retries + i \in Nat
  BY DEF TypeOK, Snapshot
<1>3. markStoreFailure(Row(p), mem[p].retries + 1) \in Receipt
  BY <1>1, <1>2, RowTypes
<1>4. markQueueFailure(Row(p)) \in Receipt
  BY <1>1, <1>2, RowTypes
<1>5. markIdentityNotResolved(Row(p), mem[p].retries + i) \in Receipt
  BY <1>1, <1>2, RowTypes
<1>6. Done(p)
  BY DEF StoreFailure, QueueFailure, IdentityNotResolved
<1>7. receipt' \in [Events -> Receipt]
  BY <1>1, <1>3, <1>4, <1>5, SafeUpdateType
     DEF StoreFailure, QueueFailure, IdentityNotResolved
<1> QED
  BY <1>6, <1>7, DoneTypes

\* The number of disturbances stays within its bound.
LEMMA FaultTypes ==
    ASSUME TypeOK, NEW kind, Fault(kind) PROVE faults' \in 0 .. MaxFaults
  BY BoundsAssumption DEF TypeOK, Fault

\* Skipping a receipt keeps rows and processes well-typed.
LEMMA SkippedTypes ==
    ASSUME TypeOK, NEW p \in Procs, pc[p] # "idle",
           safeUpdate(p, markSkipped(Row(p))), Done(p)
    PROVE  ProcsTyped' /\ receipt' \in [Events -> Receipt]
<1>1. mem[p].e \in Events /\ Row(p) \in Receipt
  BY DEF TypeOK, Row
<1>2. markSkipped(Row(p)) \in Receipt
  BY <1>1, RowTypes, EventsAssumption
<1> QED
  BY <1>1, <1>2, SafeUpdateType, DoneTypes

\* Type correctness of the live delivery's steps.
LEMMA LiveTypes ==
    ASSUME TypeOK, NEW p \in Procs, LiveStep(p)
    PROVE  TypeOK'
<1>1. CASE ResolutionFails(p)
  <2>1. pc[p] # "idle" /\ faults' \in 0 .. MaxFaults
    BY <1>1, FaultTypes DEF ResolutionFails
  <2>2. ProcsTyped' /\ receipt' \in [Events -> Receipt]
    BY <1>1, <2>1, DoneTypes, EndTypes, SkippedTypes DEF ResolutionFails, TypeOK
  <2> QED
    BY <1>1, <2>1, <2>2
       DEF ResolutionFails, QueueUnchanged, EnvUnchanged, HistUnchanged, TypeOK, ProcsTyped
<1>2. CASE NotConnected(p)
  <2>1. ProcsTyped' /\ receipt' \in [Events -> Receipt]
    BY <1>2, DoneTypes, EndTypes, SkippedTypes DEF NotConnected, TypeOK
  <2> QED
    BY <1>2, <2>1
       DEF NotConnected, QueueUnchanged, EnvUnchanged, HistUnchanged, TypeOK, ProcsTyped
<1>3. CASE Connected(p)
  <2>1. pc[p] # "idle" /\ {"resolveBound", "claim"} \subseteq Steps
    BY <1>3 DEF Connected, Steps, LiveSteps
  <2>2. ProcsTyped'
    BY <1>3, <2>1, DoneTypes, GotoTypes DEF Connected
  <2>3. mem[p].e \in Events
    BY <2>1 DEF TypeOK
  <2>4. receipt' \in [Events -> Receipt]
    BY <1>3, <2>3, RowTypes DEF Connected, TypeOK
  <2> QED
    BY <1>3, <2>2, <2>4
       DEF Connected, QueueUnchanged, EnvUnchanged, HistUnchanged, TypeOK, ProcsTyped
<1>4. CASE ResolveBound(p)
  <2>1. pc[p] # "idle" /\ "claim" \in Steps
    BY <1>4 DEF ResolveBound, Steps, LiveSteps
  <2>2. ProcsTyped' /\ receipt' \in [Events -> Receipt]
    BY <1>4, <2>1, DoneTypes, EndTypes, GotoTypes, SkippedTypes DEF ResolveBound, TypeOK
  <2> QED
    BY <1>4, <2>2
       DEF ResolveBound, QueueUnchanged, EnvUnchanged, HistUnchanged, TypeOK, ProcsTyped
<1>5. CASE ClaimProcessing(p)
  <2>1. pc[p] # "idle" /\ "ingest" \in Steps
    BY <1>5 DEF ClaimProcessing, Steps, OwnedSteps
  <2>2. ProcsTyped' /\ receipt' \in [Events -> Receipt]
    BY <1>5, <2>1, DoneTypes, ClaimedTypes DEF ClaimProcessing, TypeOK
  <2> QED
    BY <1>5, <2>2
       DEF ClaimProcessing, QueueUnchanged, EnvUnchanged, HistUnchanged, TypeOK, ProcsTyped
<1>6. CASE ClaimFails(p)
  <2>1. pc[p] # "idle" /\ faults' \in 0 .. MaxFaults
    BY <1>6, FaultTypes DEF ClaimFails
  <2>2. ProcsTyped' /\ receipt' \in [Events -> Receipt]
    BY <1>6, <2>1, EndTypes DEF ClaimFails
  <2> QED
    BY <1>6, <2>1, <2>2
       DEF ClaimFails, QueueUnchanged, EnvUnchanged, HistUnchanged, TypeOK, ProcsTyped
<1> QED
  BY <1>1, <1>2, <1>3, <1>4, <1>5, <1>6 DEF LiveStep

\* A process that replaces its snapshot keeps its event.
LEMMA MemTypes ==
    ASSUME TypeOK, NEW p \in Procs, NEW s \in Snapshot, s.e = mem[p].e,
           mem' = [mem EXCEPT ![p] = s]
    PROVE  mem' \in [Procs -> Snapshot] /\ \A q \in Procs : mem'[q].e = mem[q].e
  BY DEF TypeOK

\* Type correctness of the ingestion steps.
LEMMA IngestTypes ==
    ASSUME TypeOK, NEW p \in Procs, IngestStep(p)
    PROVE  TypeOK'
<1>0. {"dispatch", "enqueue", "markQueued", "cancel", "settle", "rebind"} \subseteq Steps
  BY DEF Steps, OwnedSteps
<1>1. CASE ApplySideEvent(p)
  <2>1. ProcsTyped' /\ mem[p].e \in Events
    BY <1>1, <1>0, GotoTypes DEF ApplySideEvent, TypeOK
  <2> QED
    BY <1>1, <2>1 DEF ApplySideEvent, QueueUnchanged, EnvUnchanged, HistUnchanged, TypeOK, ProcsTyped
<1>2. CASE SideEventFails(p)
  <2>1. ProcsTyped' /\ receipt' \in [Events -> Receipt]
    BY <1>2, EndTypes DEF SideEventFails
  <2> QED
    BY <1>2, <2>1 DEF SideEventFails, QueueUnchanged, EnvUnchanged, HistUnchanged, TypeOK, ProcsTyped
<1>3. CASE StoreMessage(p)
  <2>1. ProcsTyped' /\ mem[p].e \in Events
    BY <1>3, <1>0, GotoTypes DEF StoreMessage, TypeOK
  <2> QED
    BY <1>3, <2>1 DEF StoreMessage, QueueUnchanged, EnvUnchanged, HistUnchanged, TypeOK, ProcsTyped
<1>4. CASE StoreFails(p)
  <2>1. ProcsTyped' /\ receipt' \in [Events -> Receipt] /\ mem[p].e \in Events
    BY <1>4, EndTypes DEF StoreFails, TypeOK
  <2>2. faults' \in 0 .. MaxFaults
    BY <1>4, FaultTypes DEF StoreFails
  <2> QED
    BY <1>4, <2>1, <2>2 DEF StoreFails, QueueUnchanged, EnvUnchanged, HistUnchanged, TypeOK, ProcsTyped
<1>5. CASE ReadPending(p)
  <2> DEFINE prev == IF pending # Null /\ job[pending].state # "none" THEN pending ELSE Null
             ids  == {mem[p].e} \cup (IF prev = Null THEN {} ELSE job[prev].ids)
  <2>1. mem[p].e \in Events /\ prev \in Events \cup {Null}
    BY <1>5 DEF ReadPending, TypeOK
  <2>2. ids \in SUBSET Events
    BY <2>1 DEF TypeOK, Job
  <2>3. mem' = [mem EXCEPT ![p] = [mem[p] EXCEPT !.prev = prev, !.ids = ids, !.replaced = prev]]
    BY <1>5 DEF ReadPending, TypeOK, Snapshot
  <2> HIDE DEF prev, ids
  <2>4. [mem[p] EXCEPT !.prev = prev, !.ids = ids, !.replaced = prev] \in Snapshot
    BY ZenonT(60), <2>1, <2>2 DEF TypeOK, Snapshot
  <2>s. [mem[p] EXCEPT !.prev = prev, !.ids = ids, !.replaced = prev].e = mem[p].e
    BY DEF TypeOK, Snapshot
  <2>5. mem' \in [Procs -> Snapshot] /\ \A q \in Procs : mem'[q].e = mem[q].e
    BY <2>3, <2>4, <2>s, MemTypes
  <2>6. pc' \in [Procs -> Steps] /\ \A q \in Procs : pc'[q] # "idle" => pc[q] # "idle"
    BY <1>5, <1>0 DEF ReadPending, TypeOK
  <2> QED
    BY <1>5, <2>5, <2>6 DEF ReadPending, QueueUnchanged, EnvUnchanged, HistUnchanged, TypeOK, ProcsTyped
<1>6. CASE PendingUnreadable(p)
  <2>1. mem[p].e \in Events
    BY <1>6 DEF PendingUnreadable, TypeOK
  <2>2. mem' = [mem EXCEPT ![p] = [mem[p] EXCEPT !.ids = {mem[p].e}, !.replaced = AnyJob]]
    BY <1>6 DEF PendingUnreadable, TypeOK, Snapshot
  <2> DEFINE s == [mem[p] EXCEPT !.ids = {mem[p].e}, !.replaced = AnyJob]
  <2>s. s \in Snapshot /\ s.e = mem[p].e
    BY ZenonT(60), <2>1 DEF TypeOK, Snapshot
  <2>3. mem' \in [Procs -> Snapshot] /\ \A q \in Procs : mem'[q].e = mem[q].e
    BY <2>2, <2>s, MemTypes
  <2>4. pc' \in [Procs -> Steps] /\ \A q \in Procs : pc'[q] # "idle" => pc[q] # "idle"
    BY <1>6, <1>0 DEF PendingUnreadable, TypeOK
  <2>5. faults' \in 0 .. MaxFaults
    BY <1>6, FaultTypes DEF PendingUnreadable
  <2> QED
    BY <1>6, <2>3, <2>4, <2>5 DEF PendingUnreadable, QueueUnchanged, EnvUnchanged, HistUnchanged, TypeOK, ProcsTyped
<1>7. CASE Enqueue(p)
  <2> DEFINE e    == mem[p].e
             data == IF job[e].state \in Resident
                     THEN [job[e] EXCEPT !.ids = @ \cup mem[p].ids]
                     ELSE NewJob(mem[p].ids, mem[p].replaced)
  <2>1. e \in Events /\ mem[p] \in Snapshot /\ job[e] \in Job
    BY <1>7 DEF Enqueue, TypeOK
  <2>2. /\ mem[p].ids \in SUBSET Events /\ mem[p].replaced \in Events \cup {Null, AnyJob}
        /\ mem[p].prev \in Events \cup {Null}
    BY <2>1 DEF Snapshot
  <2>3. [job[e] EXCEPT !.ids = @ \cup mem[p].ids] \in Job
    BY <2>1, <2>2 DEF Job
  <2>4. data \in Job
    BY <2>2, <2>3, JobTypes
  <2>5. removeQueuedJob(job, mem[p].prev) \in [Events -> Job]
    BY <2>2, RemoveTypes DEF TypeOK
  <2>6. /\ mem' = [mem EXCEPT ![p].prev = Null, ![p].ids = data.ids, ![p].replaced = data.replaced]
        /\ pc' = [pc EXCEPT ![p] = "markQueued"]
        /\ \/ job' = [job EXCEPT ![e] = data] /\ pending' = pending
           \/ job' = [removeQueuedJob(job, mem[p].prev) EXCEPT ![e] = data] /\ pending' = e
    BY <1>7 DEF Enqueue
  <2> HIDE DEF data
  <2>7. job' \in [Events -> Job] /\ pending' \in Events \cup {Null}
    BY <2>1, <2>4, <2>5, <2>6 DEF TypeOK
  <2>8. data.ids \in SUBSET Events /\ data.replaced \in Events \cup {Null, AnyJob}
    BY <2>4 DEF Job
  <2>9. mem' = [mem EXCEPT ![p] = [mem[p] EXCEPT !.prev = Null, !.ids = data.ids,
                                                 !.replaced = data.replaced]]
    BY <2>6 DEF TypeOK, Snapshot
  <2> DEFINE s == [mem[p] EXCEPT !.prev = Null, !.ids = data.ids, !.replaced = data.replaced]
  <2>s. s \in Snapshot /\ s.e = mem[p].e
    BY ZenonT(60), <2>8 DEF TypeOK, Snapshot
  <2>10. mem' \in [Procs -> Snapshot] /\ \A q \in Procs : mem'[q].e = mem[q].e
    BY <2>9, <2>s, MemTypes
  <2>11. pc' \in [Procs -> Steps] /\ \A q \in Procs : pc'[q] # "idle" => pc[q] # "idle"
    BY <1>7, <2>6, <1>0 DEF Enqueue, TypeOK
  <2> QED
    BY <1>7, <2>7, <2>10, <2>11 DEF Enqueue, QueueUnchanged, EnvUnchanged, HistUnchanged, TypeOK, ProcsTyped
<1>e. CASE EnqueueDegraded(p)
  <2> DEFINE e    == mem[p].e
             data == NewJob(mem[p].ids, mem[p].replaced)
             s    == [mem[p] EXCEPT !.prev = Null, !.ids = data.ids, !.replaced = data.replaced]
  <2>1. e \in Events /\ mem[p] \in Snapshot
    BY <1>e DEF EnqueueDegraded, TypeOK
  <2>2. /\ mem[p].ids \in SUBSET Events /\ mem[p].replaced \in Events \cup {Null, AnyJob}
        /\ mem[p].prev \in Events \cup {Null}
    BY <2>1 DEF Snapshot
  <2>3. data \in Job
    BY <2>2, JobTypes
  <2>4. removeQueuedJob(job, mem[p].prev) \in [Events -> Job]
    BY <2>2, RemoveTypes DEF TypeOK
  <2>5. /\ mem' = [mem EXCEPT ![p].prev = Null, ![p].ids = data.ids, ![p].replaced = data.replaced]
        /\ pc' = [pc EXCEPT ![p] = "markQueued"]
        /\ \/ job' = [job EXCEPT ![e] = data]
           \/ job' = [removeQueuedJob(job, mem[p].prev) EXCEPT ![e] = data]
        /\ pending' \in {pending, e}
    BY <1>e DEF EnqueueDegraded
  <2> HIDE DEF data
  <2>6. job' \in [Events -> Job] /\ pending' \in Events \cup {Null}
    BY <2>1, <2>3, <2>4, <2>5 DEF TypeOK
  <2>7. data.ids \in SUBSET Events /\ data.replaced \in Events \cup {Null, AnyJob}
    BY <2>3 DEF Job
  <2>8. mem' = [mem EXCEPT ![p] = s]
    BY <2>5 DEF TypeOK, Snapshot
  <2>s. s \in Snapshot /\ s.e = mem[p].e
    BY ZenonT(60), <2>7 DEF TypeOK, Snapshot
  <2>9. mem' \in [Procs -> Snapshot] /\ \A q \in Procs : mem'[q].e = mem[q].e
    BY <2>8, <2>s, MemTypes
  <2>10. pc' \in [Procs -> Steps] /\ \A q \in Procs : pc'[q] # "idle" => pc[q] # "idle"
    BY <1>e, <2>5, <1>0 DEF EnqueueDegraded, TypeOK
  <2>11. faults' \in 0 .. MaxFaults
    BY <1>e, FaultTypes DEF EnqueueDegraded
  <2> QED
    BY <1>e, <2>6, <2>9, <2>10, <2>11
       DEF EnqueueDegraded, QueueUnchanged, EnvUnchanged, HistUnchanged, TypeOK, ProcsTyped
<1>8. CASE DispatchFails(p)
  <2>1. mem[p].e \in Events /\ pc[p] # "idle" /\ mem[p] \in Snapshot
    BY <1>8 DEF DispatchFails, TypeOK
  <2>2. /\ removeQueuedJob(job, mem[p].prev) \in [Events -> Job]
        /\ removeQueuedJob(job, pending) \in [Events -> Job]
    BY <2>1, RemoveTypes DEF TypeOK, Snapshot
  <2>3. NewJob(mem[p].ids, mem[p].replaced) \in Job /\ NoJob \in Job
    BY <2>1, JobTypes DEF Snapshot
  <2>4. job' \in [Events -> Job]
    BY <1>8, <2>1, <2>2, <2>3 DEF DispatchFails, TypeOK
  <2>5. ProcsTyped' /\ receipt' \in [Events -> Receipt] /\ faults' \in 0 .. MaxFaults
    BY <1>8, <2>1, EndTypes, FaultTypes DEF DispatchFails
  <2> QED
    BY <1>8, <2>4, <2>5 DEF DispatchFails, QueueUnchanged, EnvUnchanged, HistUnchanged, TypeOK, ProcsTyped
<1>9. CASE MarkQueued(p)
  <2>1. mem[p].e \in Events /\ pc[p] # "idle" /\ Row(p) \in Receipt
    BY <1>9 DEF MarkQueued, TypeOK, Row
  <2>2. markQueued(Row(p), mem[p].e) \in Receipt
    BY <2>1, RowTypes
  <2>3. receipt' \in [Events -> Receipt]
    BY <1>9, <2>1, <2>2, SafeUpdateType DEF MarkQueued
  <2>4. ProcsTyped'
    BY <1>9, <2>1, <1>0, DoneTypes, GotoTypes DEF MarkQueued
  <2> QED
    BY <1>9, <2>3, <2>4 DEF MarkQueued, QueueUnchanged, EnvUnchanged, HistUnchanged, TypeOK, ProcsTyped
<1>10. CASE RebindQueuedReceipts(p)
  <2>1. mem[p].e \in Events
    BY <1>10 DEF RebindQueuedReceipts, TypeOK
  <2>2. \A x \in Events : receipt[x] \in Receipt /\ markQueued(receipt[x], mem[p].e) \in Receipt
    BY <2>1, RowTypes DEF TypeOK
  <2>3. receipt' \in [Events -> Receipt] /\ adopted' \subseteq Events
    BY <1>10, <2>2 DEF RebindQueuedReceipts, TypeOK
  <2>4. ProcsTyped'
    BY <1>10, DoneTypes DEF RebindQueuedReceipts
  <2> QED
    BY <1>10, <2>3, <2>4 DEF RebindQueuedReceipts, QueueUnchanged, EnvUnchanged, HistUnchanged, TypeOK, ProcsTyped
<1>11. CASE RebindFails(p)
  <2>1. ProcsTyped' /\ faults' \in 0 .. MaxFaults
    BY <1>11, DoneTypes, FaultTypes DEF RebindFails
  <2> QED
    BY <1>11, <2>1 DEF RebindFails, QueueUnchanged, EnvUnchanged, HistUnchanged, TypeOK, ProcsTyped
<1>12. CASE CancelPendingDispatch(p)
  <2>1. ProcsTyped' /\ mem[p].e \in Events
    BY <1>12, <1>0, GotoTypes DEF CancelPendingDispatch, TypeOK
  <2>2. job' \in [Events -> Job]
    BY <1>12, RemoveTypes DEF CancelPendingDispatch, TypeOK
  <2> QED
    BY <1>12, <2>1, <2>2 DEF CancelPendingDispatch, QueueUnchanged, EnvUnchanged, HistUnchanged, TypeOK, ProcsTyped
<1>13. CASE MarkDone(p)
  <2>1. mem[p].e \in Events /\ pc[p] # "idle" /\ Row(p) \in Receipt
    BY <1>13 DEF MarkDone, TypeOK, Row
  <2>2. markSkipped(Row(p)) \in Receipt /\ markProcessed(Row(p)) \in Receipt
    BY <2>1, RowTypes
  <2>3. receipt' \in [Events -> Receipt] /\ ProcsTyped'
    BY <1>13, <2>1, <2>2, SafeUpdateType, DoneTypes DEF MarkDone
  <2> QED
    BY <1>13, <2>3 DEF MarkDone, QueueUnchanged, EnvUnchanged, HistUnchanged, TypeOK, ProcsTyped
<1> QED
  BY <1>1, <1>2, <1>3, <1>4, <1>5, <1>6, <1>7, <1>e, <1>8, <1>9, <1>10, <1>11, <1>12, <1>13 DEF IngestStep

\* Type correctness of the reconciler's steps.
LEMMA ReconcileTypes ==
    ASSUME TypeOK, NEW p \in Procs, ReconcileStep(p)
    PROVE  TypeOK'
<1>0. {"inspect", "defer", "confirm", "replay", "ingest"} \subseteq Steps
  BY DEF Steps, RunnerSteps, OwnedSteps
<1>a. pc[p] # "idle" /\ mem[p].e \in Events
  BY DEF ReconcileStep, ClaimDue, InspectQueuedJob, InspectUnavailable, DeferQueued,
         ConfirmCompleted, Replay, ReplayUnresolved, TypeOK
<1>b. mem[p] \in Snapshot /\ mem[p].job \in Events \cup {Null} /\ Row(p) \in Receipt
  BY <1>a DEF TypeOK, Snapshot, Row
<1>c. /\ deadLetter(Row(p)) \in Receipt /\ deferQueued(Row(p)) \in Receipt
      /\ markProcessed(Row(p)) \in Receipt
  BY <1>a, <1>b, RowTypes
<1>1. CASE ClaimDue(p)
  <2>1. receipt' \in [Events -> Receipt] /\ ProcsTyped'
    BY <1>1, <1>0, <1>a, <1>b, <1>c, SafeUpdateType, DoneTypes, ClaimedTypes
       DEF ClaimDue, TypeOK, Row
  <2> QED
    BY <1>1, <2>1 DEF ClaimDue, QueueUnchanged, EnvUnchanged, HistUnchanged, TypeOK, ProcsTyped
<1>2. CASE InspectQueuedJob(p)
  <2> DEFINE state == IF mem[p].job = Null THEN "none" ELSE job[mem[p].job].state
             next  == CASE state \in Live -> "defer" [] state = "completed" -> "confirm"
                        [] OTHER -> "replay"
  <2>1. next \in Steps
    BY <1>0
  <2>2. Goto(p, next)
    BY <1>2 DEF InspectQueuedJob
  <2> HIDE DEF next
  <2>3. ProcsTyped'
    BY <2>1, <2>2, <1>a, GotoTypes
  <2> QED
    BY <1>2, <2>3 DEF InspectQueuedJob, QueueUnchanged, EnvUnchanged, HistUnchanged, TypeOK, ProcsTyped
<1>3. CASE InspectUnavailable(p)
  <2>1. ProcsTyped' /\ faults' \in 0 .. MaxFaults
    BY <1>3, <1>0, GotoTypes, FaultTypes DEF InspectUnavailable
  <2> QED
    BY <1>3, <2>1 DEF InspectUnavailable, QueueUnchanged, EnvUnchanged, HistUnchanged, TypeOK, ProcsTyped
<1>4. CASE DeferQueued(p)
  <2>1. receipt' \in [Events -> Receipt] /\ ProcsTyped'
    BY <1>4, <1>a, <1>c, SafeUpdateType, DoneTypes DEF DeferQueued
  <2> QED
    BY <1>4, <2>1 DEF DeferQueued, QueueUnchanged, EnvUnchanged, HistUnchanged, TypeOK, ProcsTyped
<1>5. CASE ConfirmCompleted(p)
  <2>1. receipt' \in [Events -> Receipt] /\ ProcsTyped'
    BY <1>5, <1>a, <1>c, SafeUpdateType, DoneTypes DEF ConfirmCompleted, TypeOK
  <2> QED
    BY <1>5, <2>1 DEF ConfirmCompleted, QueueUnchanged, EnvUnchanged, HistUnchanged, TypeOK, ProcsTyped
<1>6. CASE Replay(p)
  <2> DEFINE s == [mem[p] EXCEPT !.job = Null]
  <2>1. s \in Snapshot /\ s.e = mem[p].e
    BY <1>b DEF Snapshot
  <2>2. mem' = [mem EXCEPT ![p] = s]
    BY <1>6, <1>b DEF Replay, TypeOK, Snapshot
  <2>3. mem' \in [Procs -> Snapshot] /\ \A q \in Procs : mem'[q].e = mem[q].e
    BY <2>1, <2>2, MemTypes
  <2>4. pc' \in [Procs -> Steps] /\ \A q \in Procs : pc'[q] # "idle" => pc[q] # "idle"
    BY <1>6, <1>0 DEF Replay, TypeOK
  <2> QED
    BY <1>6, <2>3, <2>4 DEF Replay, QueueUnchanged, EnvUnchanged, HistUnchanged, TypeOK, ProcsTyped
<1>7. CASE ReplayUnresolved(p)
  <2>1. receipt' \in [Events -> Receipt] /\ ProcsTyped'
    BY <1>7, <1>a, EndTypes DEF ReplayUnresolved
  <2>2. faults' \in 0 .. MaxFaults
    BY <1>7, FaultTypes DEF ReplayUnresolved, TypeOK
  <2> QED
    BY <1>7, <2>1, <2>2 DEF ReplayUnresolved, QueueUnchanged, EnvUnchanged, HistUnchanged, TypeOK, ProcsTyped
<1> QED
  BY <1>1, <1>2, <1>3, <1>4, <1>5, <1>6, <1>7 DEF ReconcileStep

\* Type correctness of the message worker's steps.
LEMMA WorkerTypes ==
    ASSUME TypeOK, RunsCounted, NEW j \in Events, WorkerStep(j)
    PROVE  TypeOK'
<1>0. job[j] \in Job /\ MaxAttempts \in Nat
  BY BoundsAssumption DEF TypeOK
<1>1. CASE StartJob(j)
  <2> DEFINE started == [job[j] EXCEPT !.state = "active", !.held = job[j].ids,
                            !.turn = {e \in stored : Kind[e] = "message"}, !.attempts = @ + 1]
  <2>0. /\ "active" \in {"none", "failed"} \cup Resident
        /\ {e \in stored : Kind[e] = "message"} \in SUBSET Events
    BY DEF Resident, Live, TypeOK
  <2>b. job[j].attempts \in 0 .. MaxAttempts
    BY <1>0 DEF Job
  <2>c. job[j].attempts < MaxAttempts
    BY <1>1 DEF StartJob
  <2>a. job[j].attempts + 1 \in 0 .. MaxAttempts
    BY <1>0, <2>b, <2>c
  <2>1. started \in Job
    BY <1>0, <2>0, <2>a DEF Job
  <2>2. job' = [job EXCEPT ![j] = started]
    BY <1>1, <1>0 DEF StartJob, TypeOK, Job
  <2>3. job' \in [Events -> Job]
    BY <2>1, <2>2 DEF TypeOK
  <2> QED
    BY <1>1, <2>3 DEF StartJob, QueueUnchanged, EnvUnchanged, HistUnchanged, TypeOK, ProcsTyped
<1>2. CASE CompleteJob(j)
  <2>1. job' \in [Events -> Job] /\ job[j].held \subseteq Events /\ job[j].turn \subseteq Events
    BY <1>2, <1>0 DEF CompleteJob, TypeOK, Job, Resident
  <2> QED
    BY <1>2, <2>1 DEF CompleteJob, QueueUnchanged, EnvUnchanged, HistUnchanged, TypeOK, ProcsTyped
<1>3. CASE FailJob(j)
  <2>1. job' \in [Events -> Job] /\ job[j].held \subseteq Events
    BY <1>3, <1>0 DEF FailJob, TypeOK, Job, Resident, Live
  <2>2. faults' \in 0 .. MaxFaults
    BY <1>3, FaultTypes DEF FailJob
  <2> QED
    BY <1>3, <2>1, <2>2 DEF FailJob, QueueUnchanged, EnvUnchanged, HistUnchanged, TypeOK, ProcsTyped
<1>4. CASE FailJobUnrecoverably(j)
  <2>1. job' \in [Events -> Job]
    BY <1>4, <1>0 DEF FailJobUnrecoverably, TypeOK, Job
  <2>2. faults' \in 0 .. MaxFaults
    BY <1>4, FaultTypes DEF FailJobUnrecoverably
  <2> QED
    BY <1>4, <2>1, <2>2 DEF FailJobUnrecoverably, QueueUnchanged, EnvUnchanged, HistUnchanged, TypeOK, ProcsTyped
<1>5. CASE DelayJob(j)
  <2> DEFINE delayed == [job[j] EXCEPT !.state = "waiting", !.attempts = @ - 1]
  <2>1. job[j].state = "active" /\ job' = [job EXCEPT ![j] = delayed]
    BY <1>5, <1>0 DEF DelayJob, TypeOK, Job
  <2>2. job[j].attempts \in 0 .. MaxAttempts /\ job[j].attempts > 0
    BY <1>0, <2>1, BoundsAssumption DEF RunsCounted, Job
  <2>3. job[j].attempts - 1 \in 0 .. MaxAttempts
    BY <1>0, <2>2
  <2>4. delayed \in Job
    BY <1>0, <2>3 DEF Job, Resident, Live
  <2>5. job' \in [Events -> Job]
    BY <2>1, <2>4 DEF TypeOK
  <2>6. faults' \in 0 .. MaxFaults
    BY <1>5, FaultTypes DEF DelayJob
  <2> QED
    BY <1>5, <2>5, <2>6 DEF DelayJob, QueueUnchanged, EnvUnchanged, HistUnchanged, TypeOK, ProcsTyped
<1> QED
  BY <1>1, <1>2, <1>3, <1>4, <1>5 DEF WorkerStep

\* Type correctness of settlements, of time, crashes and losses.
LEMMA EnvironmentTypes ==
    ASSUME TypeOK, RunsCounted,
           \/ \E s \in Events \X Events \X {"completed", "failed"} : SettleReceipt(s)
           \/ \E e \in Events : Age(e) \/ Expire(e)
           \/ CrashServer \/ CrashWorker \/ Evict \/ LoseQueue
           \/ Connect \/ Disconnect
    PROVE  TypeOK'
<1>0. NoJob \in Job /\ NoSnapshot \in Snapshot /\ NoReceipt \in Receipt
  <2>1. NoJob \in Job
    <3>1. {} \in SUBSET Events /\ Null \in Events \cup {Null, AnyJob}
      OBVIOUS
    <3> QED
      BY <3>1, JobTypes
  <2>2. NoSnapshot \in Snapshot /\ NoReceipt \in Receipt
    BY DEF NoSnapshot, Snapshot, NoReceipt, Receipt, Statuses
  <2> QED
    BY <2>1, <2>2
<1>1. ASSUME NEW s \in Events \X Events \X {"completed", "failed"}, SettleReceipt(s)
      PROVE  TypeOK'
  <2>1. s[2] \in Events /\ receipt[s[2]] \in Receipt
    BY DEF TypeOK
  <2>2. markProcessed(receipt[s[2]]) \in Receipt /\ deadLetter(receipt[s[2]]) \in Receipt
    <3>2. markProcessed(receipt[s[2]]) \in Receipt
      BY <2>1 DEF markProcessed, Receipt, Statuses, Terminal
    <3>3. deadLetter(receipt[s[2]]) \in Receipt
      BY <2>1 DEF deadLetter, Receipt, Statuses, Terminal
    <3> QED
      BY <3>2, <3>3
  <2>3. receipt' \in [Events -> Receipt]
    BY <1>1, <2>1, <2>2 DEF SettleReceipt, TypeOK
  <2> QED
    BY <1>1, <2>3 DEF SettleReceipt, EnvUnchanged, HistUnchanged, TypeOK
<1>2. ASSUME NEW e \in Events, Age(e) \/ Expire(e)
      PROVE  TypeOK'
  <2>r. receipt[e] \in Receipt
    BY DEF TypeOK
  <2>0. /\ [receipt[e] EXCEPT !.due = TRUE] \in Receipt
        /\ [receipt[e] EXCEPT !.old = TRUE] \in Receipt
    BY <2>r DEF Receipt
  <2>1. receipt' \in [Events -> Receipt]
    BY <1>2, <2>0 DEF Age, Expire, TypeOK
  <2>2. faults' \in 0 .. MaxFaults
    BY <1>2, FaultTypes DEF Age, Expire, TypeOK
  <2> QED
    BY <1>2, <2>1, <2>2
       DEF Age, Expire, QueueUnchanged, EnvUnchanged, HistUnchanged, TypeOK
<1>3. CASE CrashServer
  <2>1. ProcsTyped' /\ faults' \in 0 .. MaxFaults
    BY <1>0, <1>3, FaultTypes DEF CrashServer, ProcsTyped, TypeOK, Steps
  <2> QED
    BY <1>3, <2>1 DEF CrashServer, QueueUnchanged, EnvUnchanged, HistUnchanged, TypeOK, ProcsTyped
<1>4. CASE CrashWorker
  <2>1. ProcsTyped' /\ faults' \in 0 .. MaxFaults
    BY <1>0, <1>4, FaultTypes DEF CrashWorker, ProcsTyped, TypeOK, Steps
  <2>2. job' \in [Events -> Job]
    <3>1. ASSUME NEW j \in Events, job[j].state = "active"
          PROVE  [job[j] EXCEPT !.state = "waiting", !.attempts = @ - 1] \in Job
      <4>1. job[j].attempts \in 0 .. MaxAttempts /\ job[j] \in Job
        BY DEF TypeOK, Job
      <4>2. job[j].attempts - 1 \in 0 .. MaxAttempts
        BY <3>1, <4>1, BoundsAssumption DEF RunsCounted
      <4> QED
        BY <4>1, <4>2 DEF Job, Resident, Live
    <3> QED
      BY <1>4, <3>1 DEF CrashWorker, TypeOK
  <2> QED
    BY <1>4, <2>1, <2>2 DEF CrashWorker, EnvUnchanged, HistUnchanged, TypeOK, ProcsTyped
<1>5. CASE Evict
  <2>1. job' \in [Events -> Job] /\ faults' \in 0 .. MaxFaults
    BY <1>0, <1>5, FaultTypes DEF Evict, TypeOK
  <2> QED
    BY <1>5, <2>1 DEF Evict, EnvUnchanged, HistUnchanged, TypeOK
<1>6. CASE LoseQueue
  <2>1. job' \in [Events -> Job] /\ faults' \in 0 .. MaxFaults
    BY <1>0, <1>6, FaultTypes DEF LoseQueue, TypeOK
  <2> QED
    BY <1>6, <2>1 DEF LoseQueue, EnvUnchanged, HistUnchanged, TypeOK
<1>7. CASE Connect \/ Disconnect
  <2>1. faults' \in 0 .. MaxFaults
    BY <1>7, FaultTypes DEF Connect, Disconnect, TypeOK
  <2> QED
    BY <1>7, <2>1 DEF Connect, Disconnect, QueueUnchanged, HistUnchanged, TypeOK
<1> QED
  BY <1>1, <1>2, <1>3, <1>4, <1>5, <1>6, <1>7

\* Every step keeps the types.
LEMMA TypeStep ==
    ASSUME TypeOK, RunsCounted, [Next]_vars
    PROVE  TypeOK'
<1>1. CASE \E p \in Handlers : LiveStep(p)
  BY <1>1, LiveTypes DEF Procs
<1>2. ASSUME NEW p \in Handlers, NEW e \in Events, Record(p, e)
      PROVE  TypeOK'
  <2>1. receipt' \in [Events -> Receipt]
    BY <1>2, RecordTypes DEF Record, TypeOK
  <2>2. p \in Procs /\ SnapshotOf(e, receipt'[e]) \in Snapshot /\ SnapshotOf(e, receipt'[e]).e = e
    BY <2>1, SnapshotTypes DEF Procs, SnapshotOf, NoSnapshot
  <2>3. ProcsTyped'
    BY <1>2, <2>2 DEF Record, TypeOK, ProcsTyped, Steps, LiveSteps
  <2>4. deliveries' \in [Events -> 0 .. MaxDeliveries]
    <3>1. deliveries[e] \in 0 .. MaxDeliveries /\ deliveries[e] < MaxDeliveries
      BY <1>2 DEF Record, TypeOK
    <3>2. deliveries[e] + 1 \in 0 .. MaxDeliveries
      BY <3>1, BoundsAssumption
    <3> QED
      BY <1>2, <3>2 DEF Record, TypeOK
  <2> QED
    BY <1>2, <2>1, <2>3, <2>4 DEF Record, QueueUnchanged, HistUnchanged, TypeOK, ProcsTyped
<1>3. CASE \E p \in Procs : IngestStep(p)
  BY <1>3, IngestTypes
<1>4. CASE \E p \in Reconcilers : ReconcileStep(p)
  BY <1>4, ReconcileTypes DEF Procs
<1>5. ASSUME NEW p \in Reconcilers, PurgeExpired(p)
      PROVE  TypeOK'
  <2>1. NoReceipt \in Receipt
    BY DEF NoReceipt, Receipt, Statuses
  <2>2. receipt' \in [Events -> Receipt]
    BY <1>5, <2>1 DEF PurgeExpired, TypeOK
  <2> QED
    BY <1>5, <2>2 DEF PurgeExpired, QueueUnchanged, EnvUnchanged, HistUnchanged, TypeOK
<1>6. ASSUME NEW p \in Reconcilers, NEW e \in Events, FindDue(p, e)
      PROVE  TypeOK'
  <2>1. p \in Procs /\ SnapshotOf(e, receipt[e]) \in Snapshot /\ SnapshotOf(e, receipt[e]).e = e
    BY SnapshotTypes DEF Procs, SnapshotOf, NoSnapshot, TypeOK
  <2>2. ProcsTyped'
    BY <1>6, <2>1 DEF FindDue, TypeOK, ProcsTyped, Steps, RunnerSteps
  <2> QED
    BY <1>6, <2>2 DEF FindDue, QueueUnchanged, EnvUnchanged, HistUnchanged, TypeOK, ProcsTyped
<1>7. CASE \E j \in Events : WorkerStep(j)
  BY <1>7, WorkerTypes
<1>8. CASE \/ \E s \in Events \X Events \X {"completed", "failed"} : SettleReceipt(s)
           \/ \E e \in Events : Age(e) \/ Expire(e)
           \/ CrashServer \/ CrashWorker \/ Evict \/ LoseQueue
           \/ Connect \/ Disconnect
  BY <1>8, EnvironmentTypes
<1>9. CASE UNCHANGED vars
  BY <1>9 DEF vars, TypeOK
<1> QED
  BY <1>1, <1>2, <1>3, <1>4, <1>5, <1>6, <1>7, <1>8, <1>9 DEF Next

-----------------------------------------------------------------------------
(* What a step may do to a row. *)

IInv ==
    /\ TypeOK
    /\ RunsCounted
    /\ OwnedWhileProcessing
    /\ PayloadRetained
    /\ ServedAccounting
    /\ SettledWasServed

\* Only its age, its due time or its tenant changes.
Kept(r, s) ==
    s.status = r.status /\ s.owner = r.owner /\ s.job = r.job /\ s.payload = r.payload

Taken(r, s) ==
    /\ s.status = "PROCESSING" /\ s.owner \in Procs /\ pc'[s.owner] # pc[s.owner]
    /\ s.job = r.job /\ s.payload = r.payload

\* Put back on a ladder or in the queue, or given up.
Released(r, s) ==
    /\ s.status \in Recoverable \cup {"DEAD_LETTERED"} /\ s.owner = Null
    /\ s.job \in {Null, r.job} /\ s.payload = r.payload

\* Bound to a job.
Bound(e, r, s) ==
    /\ s.status = "QUEUED" /\ s.owner = Null /\ s.payload = r.payload
    /\ s.job \in Events /\ e \in StoredMessages /\ UNCHANGED <<job, stored>>
    /\ job[s.job].state \in Started => e \in job[s.job].turn \cup adopted'

Settled(e, s) ==
    /\ s.status \in {"PROCESSED", "SKIPPED"} /\ s.job = Null
    /\ s.status = "PROCESSED" => e \in served \cup adopted
    /\ s.status = "SKIPPED" => e \in served \/ Kind[e] = "other"

RowStep(e) ==
    \/ Kept(receipt[e], receipt'[e])
    \/ receipt[e].status = "ABSENT" /\ receipt'[e] = recordReceipt(e)
    \/ /\ receipt[e].status \in Open
       /\ \/ Taken(receipt[e], receipt'[e]) 
          \/ Released(receipt[e], receipt'[e])
          \/ Bound(e, receipt[e], receipt'[e])
          \/ Settled(e, receipt'[e])
    \/ receipt[e].status \in Terminal /\ receipt'[e] = NoReceipt

\* A conditional update touches at most the row it is meant for.
LEMMA SafeRow ==
    ASSUME TypeOK, NEW p \in Procs, mem[p].e \in Events, NEW row, safeUpdate(p, row)
    PROVE  \A e \in Events :
              \/ receipt'[e] = receipt[e]
              \/ /\ e = mem[p].e /\ receipt'[e] = row
                 /\ Row(p).status = mem[p].status /\ Row(p).owner = mem[p].owner
  BY DEF safeUpdate, Fenced, TypeOK

\* What the failure marks of the receipt service have in common.
LEMMA ReleasedRows ==
    ASSUME NEW r \in Receipt, NEW n
    PROVE  /\ Released(r, markStoreFailure(r, n))
           /\ Released(r, markIdentityNotResolved(r, n))
           /\ Released(r, markQueueFailure(r))
           /\ Released(r, deferQueued(r))
           /\ Released(r, deadLetter(r))
  BY DEF Released, Receipt, markStoreFailure, markIdentityNotResolved, markQueueFailure,
         deferQueued, deadLetter, Recoverable, Retryable

\* A handler that ends in failure releases its row, or loses the fence.
LEMMA EndRows ==
    ASSUME TypeOK, NEW p \in Procs, pc[p] # "idle", NEW i, mem[p].status \in Open,
           StoreFailure(p) \/ QueueFailure(p) \/ IdentityNotResolved(p, i)
    PROVE  \A e \in Events : RowStep(e)
<1>1. mem[p].e \in Events /\ Row(p) \in Receipt /\ Row(p) = receipt[mem[p].e]
  BY DEF TypeOK, Row
<1>2. PICK row : safeUpdate(p, row) /\ Released(Row(p), row)
  BY <1>1, ReleasedRows DEF StoreFailure, QueueFailure, IdentityNotResolved
<1>3. \A e \in Events : receipt'[e] = receipt[e] \/
          (e = mem[p].e /\ receipt'[e] = row /\ Row(p).status = mem[p].status)
  BY <1>1, <1>2, SafeRow
<1> QED
  BY <1>1, <1>2, <1>3 DEF RowStep, Kept

\* Skipping an event without a replay body settles its row.
LEMMA SkippedRows ==
    ASSUME TypeOK, NEW p \in Procs, pc[p] # "idle", mem[p].status \in Open,
           ~Replayable(mem[p].e), safeUpdate(p, markSkipped(Row(p)))
    PROVE  \A e \in Events : RowStep(e)
<1>1. mem[p].e \in Events /\ Row(p) \in Receipt /\ Row(p) = receipt[mem[p].e]
  BY DEF TypeOK, Row
<1>2. Settled(mem[p].e, markSkipped(Row(p)))
  BY <1>1 DEF Settled, markSkipped, Receipt, Replayable
<1>3. \A e \in Events : receipt'[e] = receipt[e] \/
          (e = mem[p].e /\ receipt'[e] = markSkipped(Row(p)) /\ Row(p).status = mem[p].status)
  BY <1>1, SafeRow
<1> QED
  BY <1>1, <1>2, <1>3 DEF RowStep, Kept

\* A successful claim takes the row.
LEMMA ClaimedRows ==
    ASSUME TypeOK, NEW p \in Procs, NEW step, NEW j, mem[p].e \in Events,
           step # pc[p], Row(p).status \in Open, Claimed(p, step, j)
    PROVE  \A e \in Events : RowStep(e)
<1>1. Row(p) \in Receipt /\ Row(p) = receipt[mem[p].e]
  BY DEF TypeOK, Row
<1>2. Taken(Row(p), claim(Row(p), p))
  BY <1>1 DEF Taken, claim, Receipt, Claimed, TypeOK
<1>3. \A e \in Events : receipt'[e] = IF e = mem[p].e THEN claim(Row(p), p) ELSE receipt[e]
  BY <1>1 DEF Claimed, TypeOK
<1> QED
  BY <1>1, <1>2, <1>3 DEF RowStep, Kept

\* The rows under the live delivery's steps.
LEMMA LiveRows ==
    ASSUME IInv, NEW p \in Procs, LiveStep(p)
    PROVE  \A e \in Events : RowStep(e)
<1> USE DEF IInv
<1>0. /\ pc[p] # "idle" /\ mem[p].e \in Events /\ Row(p) = receipt[mem[p].e]
      /\ Row(p) \in Receipt
  BY DEF LiveStep, ResolutionFails, NotConnected, Connected, ResolveBound, ClaimProcessing,
         ClaimFails, TypeOK, Row
<1>a. /\ pc[p] = "resolve" => mem[p].status \in Open \cup Terminal
      /\ pc[p] # "resolve" => mem[p].status \in Open
  BY <1>0 DEF ServedAccounting, ProcessesKnow, Knows
<1>k. \A e \in Events : receipt'[e] = receipt[e] => RowStep(e)
  BY DEF RowStep, Kept
<1>l. ~LeftAlone(p) => mem[p].status \notin Terminal
  BY DEF LeftAlone
<1>1. CASE ResolutionFails(p)
  BY <1>1, <1>0, <1>a, <1>k, <1>l, EndRows, SkippedRows DEF ResolutionFails
<1>2. CASE NotConnected(p)
  BY <1>2, <1>0, <1>a, <1>k, <1>l, EndRows, SkippedRows DEF NotConnected
<1>3. CASE Connected(p)
  <2>1. Kept(Row(p), bindReceiptTenant(Row(p)))
    BY <1>0 DEF Kept, bindReceiptTenant, Receipt
  <2>2. \A e \in Events : receipt'[e] = receipt[e] \/
           (e = mem[p].e /\ receipt'[e] = bindReceiptTenant(receipt[e]))
    BY <1>3, <1>0 DEF Connected, TypeOK
  <2> QED
    BY <1>0, <1>k, <2>1, <2>2 DEF RowStep
<1>4. CASE ResolveBound(p)
  BY <1>4, <1>0, <1>a, <1>k, EndRows, SkippedRows DEF ResolveBound
<1>5. CASE ClaimProcessing(p)
  <2>1. Claimable(mem[p].e) => Row(p).status \in Open
    BY <1>0 DEF Claimable, Open, Recoverable
  <2> QED
    BY <1>5, <1>0, <1>k, <2>1, ClaimedRows DEF ClaimProcessing
<1>6. CASE ClaimFails(p)
  BY <1>6, <1>0, <1>a, EndRows DEF ClaimFails
<1> QED
  BY <1>1, <1>2, <1>3, <1>4, <1>5, <1>6 DEF LiveStep

\* The message a process binds its receipt to is stored, and its own job only
\* starts with it.
LEMMA IngestRows ==
    ASSUME IInv, NEW p \in Procs, IngestStep(p)
    PROVE  \A e \in Events : RowStep(e)
<1> USE DEF IInv
<1>0. /\ pc[p] \notin {"idle", "resolve"} /\ mem[p].e \in Events
      /\ Row(p) = receipt[mem[p].e] /\ Row(p) \in Receipt
  BY DEF IngestStep, ApplySideEvent, SideEventFails, StoreMessage, StoreFails, ReadPending,
         PendingUnreadable, Enqueue, EnqueueDegraded, DispatchFails, MarkQueued, RebindQueuedReceipts,
         RebindFails, CancelPendingDispatch, MarkDone, TypeOK, Row
<1>a. mem[p].status \in Open
  BY <1>0 DEF ServedAccounting, ProcessesKnow, Knows
<1>k. \A e \in Events : receipt'[e] = receipt[e] => RowStep(e)
  BY DEF RowStep, Kept
<1>1. CASE SideEventFails(p)
  BY <1>1, <1>0, <1>a, EndRows DEF SideEventFails
<1>2. CASE StoreFails(p)
  BY <1>2, <1>0, <1>a, EndRows DEF StoreFails
<1>3. CASE DispatchFails(p)
  BY <1>3, <1>0, <1>a, EndRows DEF DispatchFails
<1>4. CASE MarkQueued(p)
  <2> DEFINE e == mem[p].e
             row == markQueued(Row(p), e)
  <2>1. e \in StoredMessages /\ (job[e].state \in Started => e \in job[e].turn)
    BY <1>4, <1>0 DEF MarkQueued, ServedAccounting, ProcessesKnow, Knows, JobsCarryStored
  <2>2. UNCHANGED <<job, stored>>
    BY <1>4 DEF MarkQueued, QueueUnchanged
  <2>3. Bound(e, Row(p), row)
    BY <1>0, <2>1, <2>2 DEF Bound, markQueued, Receipt
  <2>4. safeUpdate(p, row)
    BY <1>4 DEF MarkQueued
  <2>5. \A x \in Events : receipt'[x] = receipt[x] \/
           (x = e /\ receipt'[x] = row /\ Row(p).status = mem[p].status)
    BY <1>0, <2>4, SafeRow
  <2> HIDE DEF row
  <2> QED
    BY <1>0, <1>a, <1>k, <2>3, <2>5 DEF RowStep
<1>5. CASE RebindQueuedReceipts(p)
  <2> DEFINE j == mem[p].e
             moved == {x \in Events : Rebindable(p, x)}
  <2>1. UNCHANGED <<job, stored>>
    BY <1>5 DEF RebindQueuedReceipts, QueueUnchanged
  <2>2. \A x \in moved : x \in StoredMessages /\ receipt[x].status \in Open
    BY <1>0 DEF Rebindable, ServedAccounting, ProcessesKnow, Knows, Open, Recoverable
  <2>3. \A x \in moved : job[j].state \in Started => x \in job[j].turn \cup adopted'
    BY <1>5 DEF RebindQueuedReceipts, Started
  <2>4. \A x \in moved : Bound(x, receipt[x], markQueued(receipt[x], j))
    BY <1>0, <2>1, <2>2, <2>3 DEF Bound, markQueued, Receipt, TypeOK
  <2>5. \A x \in Events : receipt'[x] = IF x \in moved THEN markQueued(receipt[x], j)
                                                       ELSE receipt[x]
    BY <1>5 DEF RebindQueuedReceipts
  <2> HIDE DEF moved
  <2> QED
    BY <1>k, <2>2, <2>4, <2>5 DEF RowStep
<1>6. CASE MarkDone(p)
  <2>1. mem[p].e \in served
    BY <1>6, <1>0 DEF MarkDone, ServedAccounting, ProcessesKnow, Knows
  <2>2. Settled(mem[p].e, markSkipped(Row(p))) /\ Settled(mem[p].e, markProcessed(Row(p)))
    BY <1>0, <2>1 DEF Settled, markSkipped, markProcessed, Receipt
  <2>3. PICK row \in {markSkipped(Row(p)), markProcessed(Row(p))} : safeUpdate(p, row)
    BY <1>6 DEF MarkDone
  <2>4. \A x \in Events : receipt'[x] = receipt[x] \/
           (x = mem[p].e /\ receipt'[x] = row /\ Row(p).status = mem[p].status)
    BY <1>0, <2>3, SafeRow
  <2> QED
    BY <1>0, <1>a, <1>k, <2>2, <2>3, <2>4 DEF RowStep
<1>7. CASE UNCHANGED receipt
  BY <1>7, <1>k
<1> QED
  BY <1>1, <1>2, <1>3, <1>4, <1>5, <1>6, <1>7
     DEF IngestStep, ApplySideEvent, StoreMessage, ReadPending, PendingUnreadable, Enqueue, EnqueueDegraded,
         RebindFails, CancelPendingDispatch

\* The rows under the reconciler's steps.
LEMMA ReconcileRows ==
    ASSUME IInv, NEW p \in Procs, ReconcileStep(p)
    PROVE  \A e \in Events : RowStep(e)
<1> USE DEF IInv
<1>0. /\ pc[p] \notin {"idle", "resolve"} /\ mem[p].e \in Events
      /\ Row(p) = receipt[mem[p].e] /\ Row(p) \in Receipt
  BY DEF ReconcileStep, ClaimDue, InspectQueuedJob, InspectUnavailable, DeferQueued,
         ConfirmCompleted, Replay, ReplayUnresolved, TypeOK, Row
<1>a. mem[p].status \in Open
  BY <1>0 DEF ServedAccounting, ProcessesKnow, Knows
<1>k. \A e \in Events : receipt'[e] = receipt[e] => RowStep(e)
  BY DEF RowStep, Kept
<1>r. \A row : Released(Row(p), row) /\ safeUpdate(p, row) => \A e \in Events : RowStep(e)
  <2> SUFFICES ASSUME NEW row, Released(Row(p), row), safeUpdate(p, row), NEW e \in Events
               PROVE  RowStep(e)
    OBVIOUS
  <2> QED
    BY <1>0, <1>a, <1>k, SafeRow DEF RowStep
<1>1. CASE ClaimDue(p)
  <2>1. Released(Row(p), deadLetter(Row(p)))
    BY <1>0, ReleasedRows
  <2>2. Fenced(p) => Row(p).status \in Open
    BY <1>a DEF Fenced
  <2>3. CASE receipt' = [receipt EXCEPT ![mem[p].e] = deadLetter(@)] /\ Fenced(p)
    <3>1. \A e \in Events :
             receipt'[e] = receipt[e] \/ (e = mem[p].e /\ receipt'[e] = deadLetter(Row(p)))
      BY <1>0, <2>3 DEF TypeOK
    <3> QED
      BY <1>0, <1>k, <2>1, <2>2, <2>3, <3>1 DEF RowStep
  <2>4. CASE safeUpdate(p, deadLetter(Row(p)))
    BY <2>1, <2>4, <1>r
  <2>5. CASE receipt' = receipt
    BY <2>5, <1>k
  <2>6. ASSUME NEW step, step # "claimDue", Fenced(p), Claimed(p, step, mem[p].job)
        PROVE  \A e \in Events : RowStep(e)
    <3>1. pc[p] = "claimDue"
      BY <1>1 DEF ClaimDue
    <3> QED
      BY <2>6, <3>1, <1>0, <2>2, ClaimedRows
  <2> QED
    BY <1>1, <2>3, <2>4, <2>5, <2>6 DEF ClaimDue
<1>2. CASE DeferQueued(p)
  <2>1. Released(Row(p), deferQueued(Row(p)))
    BY <1>0, ReleasedRows
  <2> QED
    BY <1>2, <1>r, <2>1 DEF DeferQueued
<1>3. CASE ConfirmCompleted(p)
  <2>1. CASE Row(p).job = mem[p].job /\ Row(p).owner = mem[p].owner
    <3>1. Row(p).owner = p
      <4>1. mem[p].owner \in {p, Expired}
        BY <1>3, <1>0 DEF ConfirmCompleted, ServedAccounting, ProcessesKnow, Knows, OwnedSteps
      <4> QED
        BY <4>1, <1>0, <2>1, ProcsAssumption DEF Receipt
    <3>2. mem[p].e \in served \cup adopted
      BY <1>3, <2>1, <3>1 DEF ConfirmCompleted, ServedAccounting, AboutToSettle
    <3>3. Settled(mem[p].e, markProcessed(Row(p)))
      BY <1>0, <3>2 DEF Settled, markProcessed, Receipt
    <3>4. safeUpdate(p, markProcessed(Row(p)))
      BY <1>3, <2>1 DEF ConfirmCompleted
    <3>5. \A x \in Events : receipt'[x] = receipt[x] \/
             (x = mem[p].e /\ receipt'[x] = markProcessed(Row(p)) /\ Row(p).status = mem[p].status)
      BY <1>0, <3>4, SafeRow
    <3> QED
      BY <1>0, <1>a, <1>k, <3>3, <3>5 DEF RowStep
  <2>2. CASE ~(Row(p).job = mem[p].job /\ Row(p).owner = mem[p].owner)
    BY <1>3, <1>k, <2>2 DEF ConfirmCompleted, safeUpdate, Fenced
  <2> QED
    BY <2>1, <2>2
<1>4. CASE ReplayUnresolved(p)
  BY <1>4, <1>0, <1>a, EndRows DEF ReplayUnresolved
<1>5. CASE UNCHANGED receipt
  BY <1>5, <1>k
<1> QED
  BY <1>1, <1>2, <1>3, <1>4, <1>5
     DEF ReconcileStep, InspectQueuedJob, InspectUnavailable, Replay

\* Every step changes every row in one of the ways RowStep lists.
LEMMA RowSteps ==
    ASSUME IInv, [Next]_vars
    PROVE  \A e \in Events : RowStep(e)
<1> USE DEF IInv
<1>k. \A e \in Events : receipt'[e] = receipt[e] => RowStep(e)
  BY DEF RowStep, Kept
<1>1. CASE \E p \in Handlers : LiveStep(p)
  BY <1>1, LiveRows DEF Procs
<1>2. CASE \E p \in Handlers : \E x \in Events : Record(p, x)
  BY <1>2, <1>k DEF Record, RowStep, TypeOK
<1>3. CASE \E p \in Procs : IngestStep(p)
  BY <1>3, IngestRows
<1>4. CASE \E p \in Reconcilers : ReconcileStep(p)
  BY <1>4, ReconcileRows DEF Procs
<1>5. CASE \E p \in Reconcilers : PurgeExpired(p)
  BY <1>5 DEF PurgeExpired, RowStep, Kept
<1>6. CASE \E e \in Events : Age(e) \/ Expire(e)
  <2>1. PICK x \in Events : Age(x) \/ Expire(x)
    BY <1>6
  <2>2. receipt[x] \in Receipt
    BY DEF TypeOK
  <2>3. /\ Kept(receipt[x], [receipt[x] EXCEPT !.due = TRUE])
        /\ Kept(receipt[x], [receipt[x] EXCEPT !.old = TRUE])
    BY <2>2 DEF Kept, Receipt
  <2>4. \A e \in Events : receipt'[e] = receipt[e] \/
           (e = x /\ receipt'[e] \in {[receipt[x] EXCEPT !.due = TRUE], [receipt[x] EXCEPT !.old = TRUE]})
    BY <2>1, <2>2 DEF Age, Expire, TypeOK
  <2> QED
    BY <1>k, <2>3, <2>4 DEF RowStep
<1>7. CASE \E s \in Events \X Events \X {"completed", "failed"} : SettleReceipt(s)
  <2>1. PICK j \in Events, x \in Events, how \in {"completed", "failed"} :
                SettleReceipt(<<j, x, how>>)
    BY <1>7
  <2>2. receipt[x] \in Receipt /\ "QUEUED" \in Open
    BY DEF TypeOK, Open, Recoverable
  <2>3. Released(receipt[x], deadLetter(receipt[x]))
    BY <2>2, ReleasedRows
  <2>4. how = "completed" => Settled(x, markProcessed(receipt[x]))
    BY <2>1, <2>2 DEF SettleReceipt, ServedAccounting, AboutToSettle, Settled, markProcessed, Receipt
  <2>5. \A e \in Events :
           \/ receipt'[e] = receipt[e]
           \/ /\ e = x /\ receipt[x].status = "QUEUED"
              /\ \/ receipt'[e] = deadLetter(receipt[x])
                 \/ how = "completed" /\ receipt'[e] = markProcessed(receipt[x])
    BY <2>1 DEF SettleReceipt, TypeOK
  <2> QED
    BY <1>k, <2>2, <2>3, <2>4, <2>5 DEF RowStep
<1>8. CASE UNCHANGED receipt
  BY <1>8, <1>k
<1> QED
  BY <1>1, <1>2, <1>3, <1>4, <1>5, <1>6, <1>7, <1>8
     DEF Next, FindDue, WorkerStep, StartJob, CompleteJob, FailJob, FailJobUnrecoverably, DelayJob,
         CrashServer, CrashWorker, Evict, LoseQueue, Connect, Disconnect, vars

-----------------------------------------------------------------------------
(* The invariants of the rows follow from the row steps. *)

\* Stored messages and the histories never shrink.
LEMMA HistoryGrows ==
    ASSUME TypeOK, [Next]_vars
    PROVE  served \subseteq served' /\ adopted \subseteq adopted' /\ stored \subseteq stored'
  BY ZenonT(60) DEF Next, vars, LiveStep, IngestStep, ReconcileStep, WorkerStep,
         ResolutionFails, NotConnected, Connected, ResolveBound, ClaimProcessing, ClaimFails,
         ApplySideEvent, SideEventFails, StoreMessage, StoreFails, ReadPending,
         PendingUnreadable, Enqueue, EnqueueDegraded, DispatchFails, MarkQueued, RebindQueuedReceipts,
         RebindFails, CancelPendingDispatch, MarkDone,
         ClaimDue, InspectQueuedJob, InspectUnavailable, DeferQueued, ConfirmCompleted,
         Replay, ReplayUnresolved, Record, FindDue, PurgeExpired, StartJob, CompleteJob,
         FailJob, FailJobUnrecoverably, DelayJob, SettleReceipt, Age, Expire, CrashServer, CrashWorker,
         Evict, LoseQueue, Connect, Disconnect, HistUnchanged

\* The fields of a missing and of a new row.
LEMMA FreshRows ==
    ASSUME NEW e \in Events
    PROVE  /\ NoReceipt.status = "ABSENT" /\ NoReceipt.owner = Null /\ NoReceipt.job = Null
           /\ recordReceipt(e).status = "RECEIVED" /\ recordReceipt(e).owner = Null
           /\ recordReceipt(e).job = Null /\ recordReceipt(e).payload = Replayable(e)
<1>1. /\ NoReceipt.status = "ABSENT" /\ NoReceipt.owner = Null /\ NoReceipt.job = Null
  BY DEF NoReceipt
<1>2. NoReceipt \in [status : {"ABSENT"}, owner : {Null}, job : {Null}, payload : {FALSE},
                     retries : {0}, bound : {FALSE}, due : {FALSE}, old : {FALSE}]
  BY DEF NoReceipt
<1>3. /\ recordReceipt(e).status = "RECEIVED" /\ recordReceipt(e).owner = Null
      /\ recordReceipt(e).job = Null /\ recordReceipt(e).payload = Replayable(e)
  BY <1>2 DEF recordReceipt
<1> QED
  BY <1>1, <1>3

\* Preservation of OwnedWhileProcessing.
LEMMA OwnedStep ==
    ASSUME IInv, [Next]_vars
    PROVE  OwnedWhileProcessing'
<1> DEFINE Owned(r) == r.status \in Open => (r.owner # Null <=> r.status = "PROCESSING")
<1> SUFFICES ASSUME NEW e \in Events PROVE Owned(receipt'[e])
  BY DEF OwnedWhileProcessing
<1>0. RowStep(e) /\ Owned(receipt[e])
  BY RowSteps DEF IInv, OwnedWhileProcessing
<1>1. CASE Kept(receipt[e], receipt'[e])
  BY <1>0, <1>1 DEF Kept
<1>2. CASE receipt'[e] = recordReceipt(e) \/ receipt'[e] = NoReceipt
  BY <1>2, FreshRows DEF Open, Recoverable, Retryable
<1>3. CASE Taken(receipt[e], receipt'[e])
  BY <1>3, ProcsAssumption DEF Taken
<1>4. CASE Released(receipt[e], receipt'[e])
  BY <1>4 DEF Released, Recoverable, Retryable
<1>5. CASE Bound(e, receipt[e], receipt'[e])
  BY <1>5 DEF Bound
<1>6. CASE Settled(e, receipt'[e])
  BY <1>6 DEF Settled, Open, Recoverable, Retryable
<1> QED
  BY <1>0, <1>1, <1>2, <1>3, <1>4, <1>5, <1>6 DEF RowStep

\* Preservation of PayloadRetained.
LEMMA PayloadStep ==
    ASSUME IInv, [Next]_vars
    PROVE  PayloadRetained'
<1> DEFINE Replays(e, r) == Replayable(e) /\ r.status \in Open \cup {"DEAD_LETTERED"}
                                => r.payload
<1> SUFFICES ASSUME NEW e \in Events PROVE Replays(e, receipt'[e])
  BY DEF PayloadRetained
<1>0. RowStep(e) /\ Replays(e, receipt[e])
  BY RowSteps DEF IInv, PayloadRetained
<1>1. CASE Kept(receipt[e], receipt'[e])
  BY <1>0, <1>1 DEF Kept
<1>2. CASE receipt'[e] = recordReceipt(e) \/ receipt'[e] = NoReceipt
  BY <1>2, FreshRows DEF Open, Recoverable, Retryable
<1>3. CASE receipt[e].status \in Open /\ receipt'[e].payload = receipt[e].payload
  BY <1>0, <1>3
<1>4. CASE Settled(e, receipt'[e])
  BY <1>4 DEF Settled, Open, Recoverable, Retryable
<1> QED
  BY <1>0, <1>1, <1>2, <1>3, <1>4 DEF RowStep, Taken, Released, Bound

\* Preservation of SettledWasServed.
LEMMA SettledStep ==
    ASSUME IInv, [Next]_vars
    PROVE  SettledWasServed'
<1> SUFFICES ASSUME NEW e \in Events, receipt'[e].status = "PROCESSED"
             PROVE  e \in served \cup adopted
  BY HistoryGrows DEF SettledWasServed, IInv
<1>0. RowStep(e) /\ (receipt[e].status = "PROCESSED" => e \in served \cup adopted)
  BY RowSteps DEF IInv, SettledWasServed
<1>1. CASE Kept(receipt[e], receipt'[e])
  BY <1>0, <1>1 DEF Kept
<1>2. CASE receipt'[e] = recordReceipt(e) \/ receipt'[e] = NoReceipt
  BY <1>2, FreshRows
<1>3. CASE \/ Taken(receipt[e], receipt'[e])
           \/ Released(receipt[e], receipt'[e])
           \/ Bound(e, receipt[e], receipt'[e])
  BY <1>3 DEF Taken, Released, Bound, Recoverable, Retryable
<1>4. CASE Settled(e, receipt'[e])
  BY <1>4 DEF Settled
<1> QED
  BY <1>0, <1>1, <1>2, <1>3, <1>4 DEF RowStep

-----------------------------------------------------------------------------
(* What a step may do to a job. *)

\* The run goes on, or not; at most the receipts the job carries grow.
SameRun(a, b) ==
    /\ b.state = a.state /\ b.turn = a.turn /\ b.held = a.held /\ b.attempts = a.attempts
    /\ b.ids \subseteq a.ids \cup StoredMessages

NoRun(j, b) ==
    /\ b.state \in {"none", "waiting", "failed"} /\ b.ids \subseteq StoredMessages
    /\ b.state # "none" => j \in StoredMessages

NewRun(a, b) ==
    /\ a.state = "waiting" /\ b.state = "active" /\ b.attempts > 0
    /\ b.ids = a.ids /\ b.held = a.ids /\ b.turn = StoredMessages

EndOfRun(a, b) ==
    /\ a.state = "active" /\ b.state = "completed"
    /\ b.ids = a.ids /\ b.held = a.held /\ b.turn = a.turn /\ b.turn \subseteq served'

JobStep(j) ==
    \/ SameRun(job[j], job'[j])
    \/ NoRun(j, job'[j])
    \/ NewRun(job[j], job'[j])
    \/ EndOfRun(job[j], job'[j])

\* A removal drops a job whole or leaves it alone.
LEMMA RemovedJobs ==
    ASSUME IInv, NEW x \in Events \cup {Null}, NEW j \in Events
    PROVE  /\ removeQueuedJob(job, x) \in [Events -> Job]
           /\ removeQueuedJob(job, x)[j] \in {job[j], NoJob}
  BY RemoveTypes DEF removeQueuedJob, IInv, TypeOK

\* The fields of a missing and of a new job.
LEMMA NewJobFields ==
    ASSUME NEW ids, NEW x
    PROVE  /\ NoJob.state = "none" /\ NoJob.ids = {}
           /\ NewJob(ids, x).state = "waiting" /\ NewJob(ids, x).ids = ids
<1>1. NoJob.state = "none" /\ NoJob.ids = {}
  BY DEF NoJob
<1>2. NewJob(ids, x).state = "waiting" /\ NewJob(ids, x).ids = ids
  BY DEF NewJob, NoJob
<1> QED
  BY <1>1, <1>2

\* Every step changes every job in one of the ways JobStep lists.
LEMMA JobSteps ==
    ASSUME IInv, [Next]_vars
    PROVE  \A j \in Events : JobStep(j)
<1> SUFFICES ASSUME NEW j \in Events
             PROVE  JobStep(j)
  OBVIOUS
<1> USE DEF IInv
<1>0. /\ job[j] \in Job
      /\ job[j].state # "none" => j \in StoredMessages
      /\ job[j].ids \subseteq StoredMessages
  BY DEF TypeOK, ServedAccounting, JobsCarryStored
<1>k. job'[j] = job[j] => JobStep(j)
  BY DEF JobStep, SameRun
<1>n. job'[j] = NoJob => JobStep(j)
  BY NewJobFields DEF JobStep, NoRun
<1>1. ASSUME NEW p \in Procs, Enqueue(p)
      PROVE  JobStep(j)
  <2> DEFINE e == mem[p].e
  <2>1. /\ e \in StoredMessages /\ mem[p].ids \subseteq StoredMessages /\ e \in Events
        /\ mem[p].prev \in Events \cup {Null}
    BY <1>1 DEF Enqueue, ServedAccounting, ProcessesKnow, Knows, TypeOK, Snapshot
  <2>2. CASE job[e].state \in Resident
    <3>1. job'[j] = IF j = e THEN [job[e] EXCEPT !.ids = @ \cup mem[p].ids] ELSE job[j]
      BY <1>1, <2>1, <2>2 DEF Enqueue, TypeOK
    <3>2. CASE j = e
      BY <1>0, <2>1, <3>1, <3>2 DEF JobStep, SameRun, Job
    <3> QED
      BY <1>k, <3>1, <3>2
  <2>3. CASE job[e].state \notin Resident
    <3>1. job'[j] \in {job[j], NoJob} \/ (j = e /\ job'[j] = NewJob(mem[p].ids, mem[p].replaced))
      BY <1>1, <2>1, <2>3, RemovedJobs DEF Enqueue
    <3>2. CASE j = e /\ job'[j] = NewJob(mem[p].ids, mem[p].replaced)
      BY <2>1, <3>2, NewJobFields DEF JobStep, NoRun
    <3> QED
      BY <1>k, <1>n, <3>1, <3>2
  <2> QED
    BY <2>2, <2>3
<1>d. ASSUME NEW p \in Procs, EnqueueDegraded(p)
      PROVE  JobStep(j)
  <2> DEFINE e == mem[p].e
  <2>1. /\ e \in StoredMessages /\ mem[p].ids \subseteq StoredMessages /\ e \in Events
        /\ mem[p].prev \in Events \cup {Null}
    BY <1>d DEF EnqueueDegraded, ServedAccounting, ProcessesKnow, Knows, TypeOK, Snapshot
  <2>2. job'[j] \in {job[j], NoJob} \/ (j = e /\ job'[j] = NewJob(mem[p].ids, mem[p].replaced))
    BY <1>d, <2>1, RemovedJobs DEF EnqueueDegraded, TypeOK
  <2>3. CASE j = e /\ job'[j] = NewJob(mem[p].ids, mem[p].replaced)
    BY <2>1, <2>3, NewJobFields DEF JobStep, NoRun
  <2> QED
    BY <1>k, <1>n, <2>2, <2>3
<1>2. ASSUME NEW p \in Procs, DispatchFails(p)
      PROVE  JobStep(j)
  <2> DEFINE e == mem[p].e
  <2>1. /\ mem[p].ids \subseteq StoredMessages /\ e \in Events
        /\ mem[p].prev \in Events \cup {Null} /\ pending \in Events \cup {Null}
        /\ pc[p] = "enqueue" => e \in StoredMessages
    BY <1>2 DEF DispatchFails, ServedAccounting, ProcessesKnow, Knows, TypeOK, Snapshot
  <2>2. \/ job'[j] \in {job[j], NoJob}
        \/ pc[p] = "enqueue" /\ j = e /\ job'[j] = NewJob(mem[p].ids, mem[p].replaced)
    BY <1>2, <2>1, RemovedJobs DEF DispatchFails
  <2>3. CASE pc[p] = "enqueue" /\ j = e /\ job'[j] = NewJob(mem[p].ids, mem[p].replaced)
    BY <2>1, <2>3, NewJobFields DEF JobStep, NoRun
  <2> QED
    BY <1>k, <1>n, <2>2, <2>3
<1>3. ASSUME NEW p \in Procs, CancelPendingDispatch(p)
      PROVE  JobStep(j)
  BY <1>3, <1>k, <1>n, RemovedJobs DEF CancelPendingDispatch, TypeOK
<1>4. ASSUME NEW i \in Events, StartJob(i)
      PROVE  JobStep(j)
  <2>1. CASE j = i
    <3>1. job[j].attempts \in Nat
      BY <1>0, BoundsAssumption DEF Job
    <3>2. job'[j] = [job[j] EXCEPT !.state = "active", !.held = job[j].ids,
                                   !.turn = StoredMessages, !.attempts = @ + 1]
      BY <1>0, <1>4, <2>1 DEF StartJob, StoredMessages, TypeOK, Job
    <3>3. job[j].state = "waiting"
      BY <1>4, <2>1 DEF StartJob
    <3>4. /\ job'[j].state = "active" /\ job'[j].ids = job[j].ids
          /\ job'[j].held = job[j].ids /\ job'[j].turn = StoredMessages
          /\ job'[j].attempts = job[j].attempts + 1
      BY <1>0, <3>2 DEF Job
    <3>5. job'[j].attempts > 0
      BY <3>1, <3>4
    <3> QED
      BY <3>3, <3>4, <3>5 DEF JobStep, NewRun
  <2>2. CASE j # i
    BY <1>4, <2>2, <1>k DEF StartJob, TypeOK
  <2> QED
    BY <2>1, <2>2
<1>5. ASSUME NEW i \in Events, CompleteJob(i)
      PROVE  JobStep(j)
  BY <1>0, <1>5, <1>k DEF CompleteJob, JobStep, EndOfRun, TypeOK, Job
<1>6. ASSUME NEW i \in Events, FailJob(i) \/ FailJobUnrecoverably(i) \/ DelayJob(i)
      PROVE  JobStep(j)
  <2>1. CASE j = i
    <3>1. /\ job[j].state = "active"
          /\ job'[j].state \in {"waiting", "failed"} /\ job'[j].ids = job[j].ids
      BY <1>0, <1>6, <2>1 DEF FailJob, FailJobUnrecoverably, DelayJob, TypeOK, Job
    <3> QED
      BY <1>0, <3>1 DEF JobStep, NoRun
  <2>2. CASE j # i
    BY <1>6, <2>2, <1>k DEF FailJob, FailJobUnrecoverably, DelayJob, TypeOK
  <2> QED
    BY <2>1, <2>2
<1>7. CASE CrashWorker
  <2>1. CASE job[j].state = "active"
    <3>1. job'[j].state = "waiting" /\ job'[j].ids = job[j].ids
      BY <1>0, <1>7, <2>1 DEF CrashWorker, TypeOK, Job
    <3> QED
      BY <1>0, <2>1, <3>1 DEF JobStep, NoRun
  <2>2. CASE job[j].state # "active"
    BY <1>7, <2>2, <1>k DEF CrashWorker
  <2> QED
    BY <2>1, <2>2
<1>8. CASE Evict \/ LoseQueue
  BY <1>8, <1>k, <1>n DEF Evict, LoseQueue, TypeOK
<1>9. CASE UNCHANGED job
  BY <1>9, <1>k
<1> QED
  BY <1>1, <1>d, <1>2, <1>3, <1>4, <1>5, <1>6, <1>7, <1>8, <1>9
     DEF Next, LiveStep, IngestStep, ReconcileStep, WorkerStep,
         ResolutionFails, NotConnected, Connected, ResolveBound, ClaimProcessing, ClaimFails,
         ApplySideEvent, SideEventFails, StoreMessage, StoreFails, ReadPending,
         PendingUnreadable, MarkQueued, RebindQueuedReceipts, RebindFails, MarkDone,
         ClaimDue, InspectQueuedJob, InspectUnavailable, DeferQueued, ConfirmCompleted,
         Replay, ReplayUnresolved, Record, FindDue, PurgeExpired, SettleReceipt, Age, Expire,
         CrashServer, Connect, Disconnect, QueueUnchanged, vars

\* Preservation of RunsCounted.
LEMMA RunsCountedStep ==
    ASSUME IInv, [Next]_vars
    PROVE  RunsCounted'
  BY JobSteps DEF IInv, RunsCounted, JobStep, SameRun, NoRun, NewRun, EndOfRun

\* A stored message stays stored.
LEMMA StoredGrows ==
    ASSUME IInv, [Next]_vars PROVE StoredMessages \subseteq StoredMessages'
  BY HistoryGrows DEF IInv, StoredMessages

\* Preservation of JobsCarryStored.
LEMMA JobsStep ==
    ASSUME IInv, [Next]_vars
    PROVE  JobsCarryStored'
<1> SUFFICES ASSUME NEW j \in Events
             PROVE  /\ job'[j].state # "none" => j \in StoredMessages'
                    /\ job'[j].ids \subseteq StoredMessages'
                    /\ job'[j].state \in Started =>
                          j \in job'[j].turn /\ job'[j].held \subseteq job'[j].turn
                    /\ job'[j].state = "completed" => job'[j].turn \subseteq served'
  BY DEF JobsCarryStored, Started
<1>0. /\ job[j].state # "none" => j \in StoredMessages
      /\ job[j].ids \subseteq StoredMessages
      /\ job[j].state \in Started => j \in job[j].turn /\ job[j].held \subseteq job[j].turn
      /\ job[j].state = "completed" => job[j].turn \subseteq served
  BY DEF IInv, ServedAccounting, JobsCarryStored
<1>1. CASE SameRun(job[j], job'[j])
  BY <1>0, <1>1, StoredGrows, HistoryGrows DEF SameRun, IInv
<1>2. CASE NoRun(j, job'[j])
  BY <1>2, StoredGrows DEF NoRun, Started
<1>3. CASE NewRun(job[j], job'[j])
  BY <1>0, <1>3, StoredGrows DEF NewRun
<1>4. CASE EndOfRun(job[j], job'[j])
  BY <1>0, <1>4, StoredGrows DEF EndOfRun, Started
<1> QED
  BY <1>1, <1>2, <1>3, <1>4, JobSteps DEF JobStep

\* Preservation of ReceiptsFollowJobs.
LEMMA FollowStep ==
    ASSUME IInv, [Next]_vars
    PROVE  ReceiptsFollowJobs'
<1> SUFFICES ASSUME NEW e \in Events, receipt'[e].job # Null
             PROVE  /\ e \in StoredMessages'
                    /\ job'[receipt'[e].job].state \in Started =>
                          e \in job'[receipt'[e].job].turn \cup adopted'
  BY DEF ReceiptsFollowJobs, Started
<1>a. RowStep(e) /\ TypeOK'
  BY RowSteps, TypeStep DEF IInv
<1>1. CASE Bound(e, receipt[e], receipt'[e])
  BY <1>1, StoredGrows DEF Bound
<1>2. CASE receipt'[e] = recordReceipt(e) \/ receipt'[e] = NoReceipt \/ Settled(e, receipt'[e])
  BY <1>2, FreshRows DEF Settled
<1>3. CASE receipt'[e].job = receipt[e].job
  <2> DEFINE y == receipt[e].job
  <2>0. y \in Events
    BY <1>3 DEF IInv, TypeOK, Receipt
  <2>1. e \in StoredMessages /\ (job[y].state \in Started => e \in job[y].turn \cup adopted)
    BY <1>3 DEF IInv, ServedAccounting, ReceiptsFollowJobs
  <2>2. JobStep(y)
    BY <2>0, JobSteps
  <2>3. job'[y].state \in Started => e \in job'[y].turn \cup adopted'
    BY <2>1, <2>2, HistoryGrows DEF JobStep, SameRun, NoRun, NewRun, EndOfRun, Started, IInv
  <2> QED
    BY <1>3, <2>1, <2>3, StoredGrows
<1> QED
  BY <1>a, <1>1, <1>2, <1>3 DEF RowStep, Kept, Taken, Released

-----------------------------------------------------------------------------
(* What the processes know stays true. *)

\* A process that is not moved still knows what it knew.
LEMMA KnowsKept ==
    ASSUME IInv, [Next]_vars, NEW q \in Procs, pc'[q] = pc[q],
           mem'[q] = mem[q] \/ (mem'[q] = [mem[q] EXCEPT !.owner = Expired])
    PROVE  Knows(q)'
<1>1. Knows(q) /\ mem[q] \in Snapshot
  BY DEF IInv, ServedAccounting, ProcessesKnow, TypeOK
<1>2. /\ mem'[q].e = mem[q].e /\ mem'[q].status = mem[q].status /\ mem'[q].job = mem[q].job
      /\ mem'[q].ids = mem[q].ids /\ mem'[q].owner \in {mem[q].owner, Expired}
  BY <1>1 DEF Snapshot
<1> QED
  BY <1>1, <1>2, StoredGrows, HistoryGrows DEF Knows, IInv

\* An idle process has nothing to know.
LEMMA KnowsIdle ==
    ASSUME NEW q \in Procs, pc'[q] = "idle", mem'[q] = NoSnapshot
    PROVE  Knows(q)'
  BY DEF Knows, NoSnapshot, OwnedSteps

\* Only q itself moves q, unless its process dies.
LEMMA OthersKnow ==
    ASSUME IInv, [Next]_vars, NEW p \in Procs,
           \/ Done(p)
           \/ \E step : Goto(p, step)
           \/ \E step, s : pc' = [pc EXCEPT ![p] = step] /\ mem' = [mem EXCEPT ![p] = s]
           \/ \E step, j : Claimed(p, step, j)
    PROVE  \A q \in Procs \ {p} : Knows(q)'
<1> SUFFICES ASSUME NEW q \in Procs \ {p}
             PROVE  Knows(q)'
  OBVIOUS
<1>1. pc'[q] = pc[q] /\ (mem'[q] = mem[q] \/ mem'[q] = [mem[q] EXCEPT !.owner = Expired])
  BY DEF Done, Goto, Claimed, IInv, TypeOK
<1> QED
  BY <1>1, KnowsKept

\* Ending a handler preserves ProcessesKnow.
LEMMA DoneKnows ==
    ASSUME IInv, [Next]_vars, NEW p \in Procs, Done(p)
    PROVE  ProcessesKnow'
<1>1. Knows(p)'
  BY KnowsIdle DEF Done, IInv, TypeOK
<1> QED
  BY <1>1, OthersKnow DEF ProcessesKnow

\* A step that leaves memory alone needs only what its next step asks for.
LEMMA GotoKnows ==
    ASSUME IInv, [Next]_vars, NEW p \in Procs, NEW step, Goto(p, step),
           step # "resolve", mem[p].status \in Open,
           step \in OwnedSteps => mem[p].status = "PROCESSING" /\ mem[p].owner \in {p, Expired},
           step \in {"dispatch", "enqueue", "markQueued", "rebind"} => mem[p].e \in StoredMessages',
           step = "settle" => mem[p].e \in served',
           step = "confirm" => mem[p].job # Null
    PROVE  ProcessesKnow'
<1>1. pc'[p] = step /\ mem' = mem
  BY DEF Goto, IInv, TypeOK
<1>2. mem[p].ids \subseteq StoredMessages'
  BY StoredGrows DEF IInv, ServedAccounting, ProcessesKnow, Knows
<1>3. Knows(p)'
  BY <1>1, <1>2 DEF Knows
<1> QED
  BY <1>3, OthersKnow DEF ProcessesKnow

\* So does a successful claim.
LEMMA ClaimedKnows ==
    ASSUME IInv, [Next]_vars, NEW p \in Procs, NEW step, NEW j, Claimed(p, step, j),
           step \in {"ingest", "inspect", "replay"}
    PROVE  ProcessesKnow'
<1>1. mem[p] \in Snapshot /\ mem[p].ids \subseteq StoredMessages'
  BY StoredGrows DEF IInv, ServedAccounting, ProcessesKnow, Knows, TypeOK
<1>2. /\ pc'[p] = step /\ mem'[p].status = "PROCESSING" /\ mem'[p].owner = p
      /\ mem'[p].ids = mem[p].ids
  BY <1>1 DEF Claimed, IInv, TypeOK, Snapshot
<1>3. Knows(p)'
  BY <1>1, <1>2 DEF Knows, Open, Recoverable
<1> QED
  BY <1>3, OthersKnow DEF ProcessesKnow

\* So do the failure ends.
LEMMA EndKnows ==
    ASSUME IInv, [Next]_vars, NEW p \in Procs, NEW i,
           StoreFailure(p) \/ QueueFailure(p) \/ IdentityNotResolved(p, i)
    PROVE  ProcessesKnow'
  BY DoneKnows DEF StoreFailure, QueueFailure, IdentityNotResolved

\* A step that loads a new snapshot or schedules a job.
LEMMA MemKnows ==
    ASSUME IInv, [Next]_vars, NEW p \in Procs, NEW step, NEW s,
           pc' = [pc EXCEPT ![p] = step], mem' = [mem EXCEPT ![p] = s],
           step = "resolve" => s.status \in Open \cup Terminal,
           step \notin {"idle", "resolve"} => s.status \in Open,
           step \in OwnedSteps => s.status = "PROCESSING" /\ s.owner \in {p, Expired},
           step \in {"dispatch", "enqueue", "markQueued", "rebind"} => s.e \in StoredMessages',
           step \notin {"settle", "confirm"},
           s.ids \subseteq StoredMessages'
    PROVE  ProcessesKnow'
<1>1. pc'[p] = step /\ mem'[p] = s
  BY DEF IInv, TypeOK
<1>2. Knows(p)'
  BY <1>1 DEF Knows
<1> QED
  BY <1>2, OthersKnow DEF ProcessesKnow

\* ProcessesKnow under the live delivery's steps.
LEMMA LiveKnows ==
    ASSUME IInv, [Next]_vars, NEW p \in Procs, LiveStep(p)
    PROVE  ProcessesKnow'
<1>0. Knows(p)
  BY DEF IInv, ServedAccounting, ProcessesKnow
<1>1. CASE ResolutionFails(p)
  BY <1>1, DoneKnows, EndKnows DEF ResolutionFails
<1>2. CASE NotConnected(p)
  BY <1>2, DoneKnows, EndKnows DEF NotConnected
<1>3. CASE Connected(p)
  <2>1. \/ Done(p)
        \/ mem[p].status \notin Terminal /\ Goto(p, "resolveBound")
        \/ mem[p].status \notin Terminal /\ Goto(p, "claim")
    BY <1>3 DEF Connected
  <2>2. mem[p].status \in Open \cup Terminal
    BY <1>0, <1>3 DEF Connected, Knows
  <2> QED
    BY <2>1, <2>2, DoneKnows, GotoKnows DEF OwnedSteps
<1>4. CASE ResolveBound(p)
  <2>1. mem[p].status \in Open
    BY <1>0, <1>4 DEF ResolveBound, Knows
  <2> QED
    BY <1>4, <2>1, DoneKnows, EndKnows, GotoKnows DEF ResolveBound, OwnedSteps
<1>5. CASE ClaimProcessing(p)
  BY <1>5, DoneKnows, ClaimedKnows DEF ClaimProcessing
<1>6. CASE ClaimFails(p)
  BY <1>6, EndKnows DEF ClaimFails
<1> QED
  BY <1>1, <1>2, <1>3, <1>4, <1>5, <1>6 DEF LiveStep

\* ProcessesKnow under the ingestion steps.
LEMMA IngestKnows ==
    ASSUME IInv, [Next]_vars, NEW p \in Procs, IngestStep(p)
    PROVE  ProcessesKnow'
<1>0. /\ Knows(p) /\ mem[p] \in Snapshot
      /\ \A j \in Events : job[j].ids \subseteq StoredMessages
  BY DEF IInv, ServedAccounting, ProcessesKnow, JobsCarryStored, TypeOK
<1>a. pc[p] \in {"ingest", "dispatch", "enqueue", "markQueued", "rebind", "cancel", "settle"}
  BY DEF IngestStep, ApplySideEvent, SideEventFails, StoreMessage, StoreFails, ReadPending,
         PendingUnreadable, Enqueue, EnqueueDegraded, DispatchFails, MarkQueued, RebindQueuedReceipts,
         RebindFails, CancelPendingDispatch, MarkDone
<1>b. mem[p].status \in Open /\ mem[p].e \in Events /\ mem[p].ids \subseteq StoredMessages'
  BY <1>0, <1>a, StoredGrows DEF Knows, IInv, TypeOK
<1>c. pc[p] # "rebind" => mem[p].status = "PROCESSING" /\ mem[p].owner \in {p, Expired}
  BY <1>0, <1>a DEF Knows, OwnedSteps
<1>d. pc[p] \in {"dispatch", "enqueue", "markQueued", "rebind"} =>
         mem[p].e \in StoredMessages /\ mem[p].e \in StoredMessages'
  BY <1>0, StoredGrows DEF Knows
<1>1. CASE ApplySideEvent(p)
  <2>1. Goto(p, "settle") /\ pc[p] = "ingest" /\ mem[p].e \in served'
    BY <1>1 DEF ApplySideEvent
  <2> QED
    BY <2>1, <1>b, <1>c, GotoKnows
<1>2. CASE SideEventFails(p)
  BY <1>2, EndKnows DEF SideEventFails
<1>3. CASE StoreMessage(p)
  <2>1. CASE Kind[mem[p].e] = "stop"
    BY <1>3, <1>b, <1>c, <2>1, GotoKnows DEF StoreMessage
  <2>2. CASE Kind[mem[p].e] # "stop"
    <3>1. /\ pc[p] = "ingest" /\ Goto(p, "dispatch")
          /\ mem[p].e \in stored' /\ Kind[mem[p].e] = "message"
      BY <1>3, <2>2 DEF StoreMessage
    <3>2. mem[p].e \in StoredMessages'
      BY <3>1 DEF StoredMessages
    <3> QED
      BY <3>1, <3>2, <1>b, <1>c, GotoKnows
  <2> QED
    BY <2>1, <2>2
<1>4. CASE StoreFails(p)
  BY <1>4, EndKnows DEF StoreFails
<1>5. CASE ReadPending(p)
  <2> DEFINE prev == IF pending # Null /\ job[pending].state # "none" THEN pending ELSE Null
             ids  == {mem[p].e} \cup (IF prev = Null THEN {} ELSE job[prev].ids)
             s    == [mem[p] EXCEPT !.prev = prev, !.ids = ids, !.replaced = prev]
  <2>1. pc[p] = "dispatch" /\ pc' = [pc EXCEPT ![p] = "enqueue"]
    BY <1>5 DEF ReadPending
  <2>2. mem' = [mem EXCEPT ![p] = s]
    BY <1>5 DEF ReadPending, IInv, TypeOK, Snapshot
  <2>3. prev = Null \/ prev \in Events
    BY DEF IInv, TypeOK
  <2>4. ids \subseteq StoredMessages'
    BY <1>0, <1>d, <2>1, <2>3, StoredGrows
  <2> HIDE DEF prev, ids
  <2>5. s.ids = ids /\ s.e = mem[p].e /\ s.status = mem[p].status /\ s.owner = mem[p].owner
    BY <1>0 DEF Snapshot
  <2> HIDE DEF s
  <2> QED
    BY <1>b, <1>c, <1>d, <2>1, <2>2, <2>4, <2>5, MemKnows
<1>6. CASE PendingUnreadable(p)
  <2> DEFINE s == [mem[p] EXCEPT !.ids = {mem[p].e}, !.replaced = AnyJob]
  <2>1. pc[p] = "dispatch" /\ pc' = [pc EXCEPT ![p] = "enqueue"]
    BY <1>6 DEF PendingUnreadable
  <2>2. mem' = [mem EXCEPT ![p] = s]
    BY <1>6 DEF PendingUnreadable, IInv, TypeOK, Snapshot
  <2>3. s.ids = {mem[p].e} /\ s.e = mem[p].e /\ s.status = mem[p].status /\ s.owner = mem[p].owner
    BY <1>0 DEF Snapshot
  <2> HIDE DEF s
  <2> QED
    BY ZenonT(60), <1>b, <1>c, <1>d, <2>1, <2>2, <2>3, MemKnows
<1>7. CASE Enqueue(p)
  <2> DEFINE e    == mem[p].e
             data == IF job[e].state \in Resident
                     THEN [job[e] EXCEPT !.ids = @ \cup mem[p].ids]
                     ELSE NewJob(mem[p].ids, mem[p].replaced)
             s    == [mem[p] EXCEPT !.prev = Null, !.ids = data.ids, !.replaced = data.replaced]
  <2>1. pc[p] = "enqueue" /\ pc' = [pc EXCEPT ![p] = "markQueued"]
    BY <1>7 DEF Enqueue
  <2>2. mem' = [mem EXCEPT ![p].prev = Null, ![p].ids = data.ids, ![p].replaced = data.replaced]
    BY <1>7 DEF Enqueue
  <2>3. data.ids \subseteq StoredMessages'
    <3>1. CASE job[e].state \in Resident
      <4>1. job[e] \in Job
        BY <1>b DEF IInv, TypeOK
      <4>2. data.ids = job[e].ids \cup mem[p].ids
        BY <3>1, <4>1 DEF Job
      <4> QED
        BY <1>0, <1>b, <4>2, StoredGrows
    <3>2. CASE job[e].state \notin Resident
      BY <1>b, <3>2, NewJobFields
    <3> QED
      BY <3>1, <3>2
  <2> HIDE DEF data
  <2>4. mem' = [mem EXCEPT ![p] = s]
    BY <2>2 DEF IInv, TypeOK, Snapshot
  <2>5. s.ids = data.ids /\ s.e = mem[p].e /\ s.status = mem[p].status /\ s.owner = mem[p].owner
    BY <1>0 DEF Snapshot
  <2> HIDE DEF s
  <2> QED
    BY ZenonT(60), <1>b, <1>c, <1>d, <2>1, <2>3, <2>4, <2>5, MemKnows
<1>e. CASE EnqueueDegraded(p)
  <2> DEFINE e    == mem[p].e
             data == NewJob(mem[p].ids, mem[p].replaced)
             s    == [mem[p] EXCEPT !.prev = Null, !.ids = data.ids, !.replaced = data.replaced]
  <2>1. pc[p] = "enqueue" /\ pc' = [pc EXCEPT ![p] = "markQueued"]
    BY <1>e DEF EnqueueDegraded
  <2>2. mem' = [mem EXCEPT ![p].prev = Null, ![p].ids = data.ids, ![p].replaced = data.replaced]
    BY <1>e DEF EnqueueDegraded
  <2>3. data.ids \subseteq StoredMessages'
    BY <1>b, NewJobFields
  <2> HIDE DEF data
  <2>4. mem' = [mem EXCEPT ![p] = s]
    BY <2>2 DEF IInv, TypeOK, Snapshot
  <2>5. s.ids = data.ids /\ s.e = mem[p].e /\ s.status = mem[p].status /\ s.owner = mem[p].owner
    BY <1>0 DEF Snapshot
  <2> HIDE DEF s
  <2> QED
    BY ZenonT(60), <1>b, <1>c, <1>d, <2>1, <2>3, <2>4, <2>5, MemKnows
<1>8. CASE DispatchFails(p)
  BY <1>8, EndKnows DEF DispatchFails
<1>9. CASE MarkQueued(p)
  <2>1. pc[p] = "markQueued" /\ (Done(p) \/ Goto(p, "rebind"))
    BY <1>9 DEF MarkQueued
  <2> QED
    BY <2>1, <1>b, <1>d, DoneKnows, GotoKnows DEF OwnedSteps
<1>10. CASE RebindQueuedReceipts(p) \/ RebindFails(p) \/ MarkDone(p)
  BY <1>10, DoneKnows DEF RebindQueuedReceipts, RebindFails, MarkDone
<1>11. CASE CancelPendingDispatch(p)
  <2>1. Goto(p, "settle") /\ pc[p] = "cancel" /\ mem[p].e \in served'
    BY <1>11 DEF CancelPendingDispatch
  <2> QED
    BY <2>1, <1>b, <1>c, GotoKnows
<1> QED
  BY <1>1, <1>2, <1>3, <1>4, <1>5, <1>6, <1>7, <1>e, <1>8, <1>9, <1>10, <1>11 DEF IngestStep

\* ProcessesKnow under the reconciler's steps.
LEMMA ReconcileKnows ==
    ASSUME IInv, [Next]_vars, NEW p \in Procs, ReconcileStep(p)
    PROVE  ProcessesKnow'
<1>0. Knows(p) /\ mem[p] \in Snapshot
  BY DEF IInv, ServedAccounting, ProcessesKnow, TypeOK
<1>a. pc[p] \in {"claimDue", "inspect", "defer", "confirm", "replay"}
  BY DEF ReconcileStep, ClaimDue, InspectQueuedJob, InspectUnavailable, DeferQueued,
         ConfirmCompleted, Replay, ReplayUnresolved
<1>b. mem[p].status \in Open /\ mem[p].ids \subseteq StoredMessages'
  BY <1>0, <1>a, StoredGrows DEF Knows
<1>c. pc[p] # "claimDue" => mem[p].status = "PROCESSING" /\ mem[p].owner \in {p, Expired}
  BY <1>0, <1>a DEF Knows, OwnedSteps
<1>1. CASE ClaimDue(p)
  BY <1>1, DoneKnows, ClaimedKnows DEF ClaimDue
<1>2. CASE InspectQueuedJob(p)
  <2> DEFINE state == IF mem[p].job = Null THEN "none" ELSE job[mem[p].job].state
             next  == CASE state \in Live -> "defer" [] state = "completed" -> "confirm"
                        [] OTHER -> "replay"
  <2>1. pc[p] = "inspect" /\ Goto(p, next)
    BY <1>2 DEF InspectQueuedJob
  <2>2. next \in {"defer", "confirm", "replay"} /\ (next = "confirm" => mem[p].job # Null)
    OBVIOUS
  <2> HIDE DEF next
  <2> QED
    BY <1>b, <1>c, <2>1, <2>2, GotoKnows
<1>3. CASE InspectUnavailable(p)
  <2>1. pc[p] = "inspect" /\ Goto(p, "defer")
    BY <1>3 DEF InspectUnavailable
  <2> QED
    BY <1>b, <1>c, <2>1, GotoKnows
<1>4. CASE DeferQueued(p) \/ ConfirmCompleted(p)
  BY <1>4, DoneKnows DEF DeferQueued, ConfirmCompleted
<1>5. CASE Replay(p)
  <2> DEFINE s == [mem[p] EXCEPT !.job = Null]
  <2>1. pc[p] = "replay" /\ pc' = [pc EXCEPT ![p] = "ingest"]
    BY <1>5 DEF Replay
  <2>2. mem' = [mem EXCEPT ![p] = s]
    BY <1>5 DEF Replay, IInv, TypeOK, Snapshot
  <2>3. s.ids = mem[p].ids /\ s.e = mem[p].e /\ s.status = mem[p].status /\ s.owner = mem[p].owner
    BY <1>0 DEF Snapshot
  <2> HIDE DEF s
  <2> QED
    BY ZenonT(60), <1>b, <1>c, <2>1, <2>2, <2>3, MemKnows
<1>6. CASE ReplayUnresolved(p)
  BY <1>6, EndKnows DEF ReplayUnresolved
<1> QED
  BY <1>1, <1>2, <1>3, <1>4, <1>5, <1>6 DEF ReconcileStep

\* Preservation of ProcessesKnow.
LEMMA KnowsStep ==
    ASSUME IInv, [Next]_vars
    PROVE  ProcessesKnow'
<1>1. CASE \E p \in Handlers : LiveStep(p)
  BY <1>1, LiveKnows DEF Procs
<1>2. ASSUME NEW p \in Handlers, NEW e \in Events, Record(p, e)
      PROVE  ProcessesKnow'
  <2> DEFINE s == SnapshotOf(e, receipt'[e])
  <2>1. /\ p \in Procs /\ pc' = [pc EXCEPT ![p] = "resolve"] /\ mem' = [mem EXCEPT ![p] = s]
        /\ receipt'[e] = IF receipt[e].status = "ABSENT" THEN recordReceipt(e) ELSE receipt[e]
    BY <1>2 DEF Record, Procs, IInv, TypeOK
  <2>2. receipt'[e].status \in Open \cup Terminal
    BY <2>1, FreshRows DEF IInv, TypeOK, Receipt, Statuses, Open
  <2>3. s.ids = {} /\ s.status = receipt'[e].status
    BY DEF SnapshotOf, NoSnapshot
  <2> HIDE DEF s
  <2>4. s.ids \subseteq StoredMessages' /\ s.status \in Open \cup Terminal
    BY <2>2, <2>3
  <2>5. "resolve" \notin OwnedSteps
    BY DEF OwnedSteps
  <2>6. pc'[p] = "resolve" /\ mem'[p] = s
    BY <2>1 DEF IInv, TypeOK
  <2>7. Knows(p)'
    BY <2>4, <2>5, <2>6 DEF Knows
  <2> QED
    BY <2>1, <2>7, OthersKnow DEF ProcessesKnow
<1>3. CASE \E p \in Procs : IngestStep(p)
  BY <1>3, IngestKnows
<1>4. CASE \E p \in Reconcilers : ReconcileStep(p)
  BY <1>4, ReconcileKnows DEF Procs
<1>5. ASSUME NEW p \in Reconcilers, NEW e \in Events, FindDue(p, e)
      PROVE  ProcessesKnow'
  <2> DEFINE s == SnapshotOf(e, receipt[e])
  <2>1. /\ p \in Procs /\ pc' = [pc EXCEPT ![p] = "claimDue"] /\ mem' = [mem EXCEPT ![p] = s]
        /\ receipt[e].status \in Open
    BY <1>5 DEF FindDue, Procs, Due
  <2>2. s.ids = {} /\ s.status = receipt[e].status
    BY DEF SnapshotOf, NoSnapshot
  <2> HIDE DEF s
  <2>3. s.ids \subseteq StoredMessages' /\ s.status \in Open
    BY <2>1, <2>2
  <2>4. "claimDue" \notin OwnedSteps
    BY DEF OwnedSteps
  <2>5. /\ "claimDue" \notin {"dispatch", "enqueue", "markQueued", "rebind"}
        /\ "claimDue" \notin {"settle", "confirm"} /\ "claimDue" # "resolve"
    OBVIOUS
  <2> QED
    BY <2>1, <2>3, <2>4, <2>5, MemKnows
<1>6. CASE CrashServer \/ CrashWorker
  <2> SUFFICES ASSUME NEW q \in Procs PROVE Knows(q)'
    BY DEF ProcessesKnow
  <2>1. \/ pc'[q] = pc[q] /\ mem'[q] = mem[q]
        \/ pc'[q] = "idle" /\ mem'[q] = NoSnapshot
    BY <1>6 DEF CrashServer, CrashWorker
  <2> QED
    BY <2>1, KnowsKept, KnowsIdle
<1>7. CASE UNCHANGED <<pc, mem>>
  BY <1>7, KnowsKept DEF ProcessesKnow
<1> QED
  BY <1>1, <1>2, <1>3, <1>4, <1>5, <1>6, <1>7
     DEF Next, PurgeExpired, WorkerStep, StartJob, CompleteJob, FailJob, FailJobUnrecoverably, DelayJob,
         SettleReceipt, Age, Expire, Evict, LoseQueue, Connect, Disconnect, vars

-----------------------------------------------------------------------------
(* What is about to be settled. *)

\* Only the look-up of a completed job leads to its confirmation.
LEMMA ConfirmEntry ==
    ASSUME IInv, [Next]_vars, NEW p \in Procs, pc'[p] = "confirm"
    PROVE  \/ pc[p] = "confirm" /\ mem'[p].e = mem[p].e /\ mem'[p].job = mem[p].job
           \/ InspectQueuedJob(p)
<1> USE DEF IInv, TypeOK
<1>1. ASSUME NEW q \in Procs,
             \/ Done(q)
             \/ \E step : step # "confirm" /\ Goto(q, step)
             \/ \E step, s : step # "confirm" /\ pc' = [pc EXCEPT ![q] = step]
                                             /\ mem' = [mem EXCEPT ![q] = s]
             \/ \E step, j : step # "confirm" /\ Claimed(q, step, j)
      PROVE  pc[p] = "confirm" /\ mem'[p].e = mem[p].e /\ mem'[p].job = mem[p].job
  <2>1. p # q /\ pc'[p] = pc[p]
    BY <1>1 DEF Done, Goto, Claimed
  <2>2. mem'[p] = mem[p] \/ mem'[p] = [mem[p] EXCEPT !.owner = Expired]
    BY <1>1, <2>1 DEF Done, Goto, Claimed
  <2> QED
    BY <2>1, <2>2 DEF Snapshot
<1>2. ASSUME NEW q \in Procs, LiveStep(q)
      PROVE  pc[p] = "confirm" /\ mem'[p].e = mem[p].e /\ mem'[p].job = mem[p].job
  BY <1>1, <1>2 DEF LiveStep, ResolutionFails, NotConnected, Connected, ResolveBound,
         ClaimProcessing, ClaimFails, StoreFailure, IdentityNotResolved
<1>3. ASSUME NEW q \in Procs, IngestStep(q)
      PROVE  pc[p] = "confirm" /\ mem'[p].e = mem[p].e /\ mem'[p].job = mem[p].job
  <2>1. CASE \/ Done(q) \/ \E step : step # "confirm" /\ Goto(q, step)
    BY <2>1, <1>1
  <2>2. CASE \E step \in {"enqueue", "markQueued"} :
                pc' = [pc EXCEPT ![q] = step] /\ \E s : mem' = [mem EXCEPT ![q] = s]
    BY <2>2, <1>1
  <2> QED
    BY <1>3, <2>1, <2>2
       DEF IngestStep, ApplySideEvent, SideEventFails, StoreMessage, StoreFails, ReadPending,
         PendingUnreadable, Enqueue, EnqueueDegraded, DispatchFails, MarkQueued, RebindQueuedReceipts,
         RebindFails, CancelPendingDispatch, MarkDone, StoreFailure, QueueFailure
<1>4. ASSUME NEW q \in Procs, ReconcileStep(q)
      PROVE  \/ pc[p] = "confirm" /\ mem'[p].e = mem[p].e /\ mem'[p].job = mem[p].job
             \/ InspectQueuedJob(p)
  <2>1. CASE InspectQueuedJob(q)
    <3>1. CASE p = q
      BY <2>1, <3>1
    <3>2. CASE p # q
      BY <2>1, <3>2 DEF InspectQueuedJob, Goto
    <3> QED
      BY <3>1, <3>2
  <2>2. CASE ClaimDue(q)
    <3>1. PICK step \in {"inspect", "replay"} : Done(q) \/ Claimed(q, step, mem[q].job)
      BY <2>2 DEF ClaimDue
    <3> QED
      BY <1>1, <3>1
  <2>3. CASE \/ InspectUnavailable(q) \/ DeferQueued(q) \/ ConfirmCompleted(q) \/ ReplayUnresolved(q)
    BY <2>3, <1>1 DEF InspectUnavailable, DeferQueued, ConfirmCompleted, ReplayUnresolved,
                      IdentityNotResolved
  <2>4. CASE Replay(q)
    BY <2>4, <1>1 DEF Replay
  <2> QED
    BY <1>4, <2>1, <2>2, <2>3, <2>4 DEF ReconcileStep
<1>5. ASSUME NEW q \in Procs, \E e \in Events : Record(q, e) \/ FindDue(q, e)
      PROVE  pc[p] = "confirm" /\ mem'[p].e = mem[p].e /\ mem'[p].job = mem[p].job
  BY <1>5, <1>1 DEF Record, FindDue
<1>6. CASE CrashServer \/ CrashWorker
  BY <1>6 DEF CrashServer, CrashWorker
<1>7. CASE UNCHANGED <<pc, mem>>
  BY <1>7
<1> QED
  BY <1>2, <1>3, <1>4, <1>5, <1>6, <1>7
     DEF Procs, Next, PurgeExpired, WorkerStep, StartJob, CompleteJob, FailJob,
         FailJobUnrecoverably, DelayJob, SettleReceipt, Age, Expire, Evict, LoseQueue, Connect,
         Disconnect, vars

\* Preservation of AboutToSettle.
LEMMA SettleStep ==
    ASSUME IInv, [Next]_vars
    PROVE  AboutToSettle'
<1>1. ASSUME NEW j \in Events, NEW e \in Events, <<j, e, "completed">> \in settles'
      PROVE  e \in served'
  <2>1. CASE <<j, e, "completed">> \in settles
    BY <2>1, HistoryGrows DEF IInv, ServedAccounting, AboutToSettle
  <2>2. CASE \E i \in Events : CompleteJob(i) /\ j = i /\ e \in job[i].held
    <3>1. PICK i \in Events : CompleteJob(i) /\ j = i /\ e \in job[i].held
      BY <2>2
    <3>2. job[i].state = "active" /\ served' = served \cup job[i].turn
      BY <3>1 DEF CompleteJob
    <3>3. e \in job[i].turn
      BY <3>1, <3>2 DEF IInv, ServedAccounting, JobsCarryStored, Started
    <3> QED
      BY <3>2, <3>3
  <2>3. \/ settles' \subseteq settles
        \/ \E i \in Events : CompleteJob(i)
        \/ \E i \in Events : settles' = settles \cup {<<i, x, "failed">> : x \in job[i].held}
    BY ZenonT(60) DEF Next, vars, LiveStep, IngestStep, ReconcileStep, WorkerStep,
         ResolutionFails, NotConnected, Connected, ResolveBound, ClaimProcessing, ClaimFails,
         ApplySideEvent, SideEventFails, StoreMessage, StoreFails, ReadPending,
         PendingUnreadable, Enqueue, EnqueueDegraded, DispatchFails, MarkQueued, RebindQueuedReceipts,
         RebindFails, CancelPendingDispatch, MarkDone,
         ClaimDue, InspectQueuedJob, InspectUnavailable, DeferQueued, ConfirmCompleted,
         Replay, ReplayUnresolved, Record, FindDue, PurgeExpired, StartJob, CompleteJob,
         FailJob, FailJobUnrecoverably, DelayJob, SettleReceipt, Age, Expire, CrashServer, CrashWorker,
         Evict, LoseQueue, Connect, Disconnect, QueueUnchanged
  <2>4. ASSUME NEW i \in Events, settles' = settles \cup {<<i, x, "failed">> : x \in job[i].held}
        PROVE  <<j, e, "completed">> \in settles
    <3>1. ASSUME NEW x, <<j, e, "completed">> = <<i, x, "failed">> PROVE FALSE
      BY <3>1
    <3> QED
      BY <1>1, <2>4, <3>1
  <2>5. ASSUME NEW i \in Events, CompleteJob(i)
        PROVE  <<j, e, "completed">> \in settles \/ (j = i /\ e \in job[i].held)
    BY <1>1, <2>5 DEF CompleteJob
  <2> QED
    BY <1>1, <2>1, <2>2, <2>3, <2>4, <2>5
<1>2. ASSUME NEW p \in Procs, pc'[p] = "confirm", receipt'[mem'[p].e].owner = p,
             receipt'[mem'[p].e].job = mem'[p].job
      PROVE  mem'[p].e \in served' \cup adopted'
  <2>1. CASE pc[p] = "confirm" /\ mem'[p].e = mem[p].e /\ mem'[p].job = mem[p].job
    <3> DEFINE e == mem[p].e
    <3>1. e \in Events /\ mem[p].job # Null /\ RowStep(e) /\ p # Null
      BY <2>1, RowSteps, ProcsAssumption
         DEF IInv, TypeOK, ServedAccounting, ProcessesKnow, Knows
    <3>2. CASE Kept(receipt[e], receipt'[e])
      BY <1>2, <2>1, <3>2, HistoryGrows DEF Kept, IInv, ServedAccounting, AboutToSettle, Row
    <3>3. CASE receipt'[e] = recordReceipt(e) \/ receipt'[e] = NoReceipt
      BY <1>2, <2>1, <3>1, <3>3, FreshRows
    <3>4. CASE Taken(receipt[e], receipt'[e])
      BY <1>2, <2>1, <3>4 DEF Taken
    <3>5. CASE \/ Released(receipt[e], receipt'[e])
               \/ Bound(e, receipt[e], receipt'[e])
               \/ Settled(e, receipt'[e])
      BY <1>2, <2>1, <3>1, <3>5 DEF Released, Bound, Settled
    <3> QED
      BY <2>1, <3>1, <3>2, <3>3, <3>4, <3>5 DEF RowStep
  <2>2. CASE InspectQueuedJob(p)
    <3> DEFINE e == mem[p].e
               j == mem[p].job
    <3>1. UNCHANGED <<receipt, job, mem, served, adopted>>
      BY <2>2 DEF InspectQueuedJob, Goto, QueueUnchanged, HistUnchanged
    <3>2. pc[p] = "inspect" /\ e \in Events /\ j \in Events \cup {Null}
      BY <2>2 DEF InspectQueuedJob, IInv, TypeOK, Snapshot
    <3>3. j # Null /\ job[j].state = "completed"
      BY <1>2, <2>2 DEF InspectQueuedJob, Goto, IInv, TypeOK
    <3>4. receipt[e].job = j
      BY <1>2, <3>1
    <3>5. e \in job[j].turn \cup adopted
      BY <3>2, <3>3, <3>4 DEF IInv, ServedAccounting, ReceiptsFollowJobs, Started
    <3>6. job[j].turn \subseteq served
      BY <3>2, <3>3 DEF IInv, ServedAccounting, JobsCarryStored
    <3> QED
      BY <3>1, <3>5, <3>6
  <2> QED
    BY <1>2, <2>1, <2>2, ConfirmEntry
<1> QED
  BY <1>1, <1>2 DEF AboutToSettle, Row

-----------------------------------------------------------------------------
(* The theorems. *)

\* The inductive invariant holds initially.
LEMMA InitInv == ASSUME Init PROVE IInv
<1>1. /\ NoReceipt \in Receipt /\ NoSnapshot \in Snapshot
      /\ NoReceipt.status = "ABSENT" /\ NoReceipt.job = Null
  BY DEF NoReceipt, Receipt, NoSnapshot, Snapshot, Statuses
<1>2. NoJob \in Job /\ NoJob.state = "none" /\ NoJob.ids = {}
  <2>1. {} \in SUBSET Events /\ Null \in Events \cup {Null, AnyJob}
    OBVIOUS
  <2> QED
    BY <2>1, JobTypes, NewJobFields
<1>3. NoSnapshot.ids = {}
  BY DEF NoSnapshot
<1>4. TypeOK
  BY <1>1, <1>2, BoundsAssumption DEF Init, TypeOK, Steps
<1>5. RunsCounted /\ JobsCarryStored
  BY <1>2 DEF Init, RunsCounted, JobsCarryStored, Started
<1>6. OwnedWhileProcessing /\ PayloadRetained /\ SettledWasServed /\ ReceiptsFollowJobs
  BY <1>1 DEF Init, OwnedWhileProcessing, PayloadRetained, SettledWasServed, ReceiptsFollowJobs,
              Open, Recoverable, Retryable
<1>7. ProcessesKnow
  BY <1>3 DEF Init, ProcessesKnow, Knows, OwnedSteps
<1>8. AboutToSettle
  BY DEF Init, AboutToSettle
<1> QED
  BY <1>4, <1>5, <1>6, <1>7, <1>8 DEF IInv, ServedAccounting

\* Every step preserves the inductive invariant.
LEMMA InvStep == ASSUME IInv, [Next]_vars PROVE IInv'
<1>1. TypeOK' /\ RunsCounted'
  BY TypeStep, RunsCountedStep DEF IInv
<1>2. OwnedWhileProcessing' /\ PayloadRetained' /\ SettledWasServed'
  BY OwnedStep, PayloadStep, SettledStep
<1>3. ServedAccounting'
  BY KnowsStep, JobsStep, FollowStep, SettleStep DEF ServedAccounting
<1> QED
  BY <1>1, <1>2, <1>3 DEF IInv

\* The inductive invariant holds in every reachable state.
THEOREM Inductive == Spec => []IInv
<1>1. Init => IInv
  BY InitInv
<1>2. IInv /\ [Next]_vars => IInv'
  BY InvStep
<1> QED
  BY <1>1, <1>2, PTL DEF Spec

\* TypeOK: every row, snapshot and job is well-formed in every reachable state.
THEOREM TypeCorrect == Spec => []TypeOK
<1>1. IInv => TypeOK
  BY DEF IInv
<1> QED
  BY <1>1, Inductive, PTL

\* What the receipt service still has to settle keeps its replay body.
THEOREM BodyKept == Spec => []PayloadRetained
<1>1. IInv => PayloadRetained
  BY DEF IInv
<1> QED
  BY <1>1, Inductive, PTL

\* An open receipt carries a processing token exactly while it is processed.
THEOREM TokenWhileProcessing == Spec => []OwnedWhileProcessing
<1>1. IInv => OwnedWhileProcessing
  BY DEF IInv
<1> QED
  BY <1>1, Inductive, PTL

\* Processes, jobs and receipts agree on which messages a run has loaded.
THEOREM Accounting == Spec => []ServedAccounting
<1>1. IInv => ServedAccounting
  BY DEF IInv
<1> QED
  BY <1>1, Inductive, PTL

\* A PROCESSED receipt was served, or was adopted by a run that started earlier.
THEOREM ProcessedWasServed == Spec => []SettledWasServed
<1>1. IInv => SettledWasServed
  BY DEF IInv
<1> QED
  BY <1>1, Inductive, PTL

\* Open and terminal statuses are apart.
LEMMA StatusClasses ==
    /\ Open \cap Terminal = {}
    /\ "ABSENT" \notin Open \cup Terminal
    /\ "DEAD_LETTERED" \in Terminal
    /\ Terminal \ {"DEAD_LETTERED"} = {"PROCESSED", "SKIPPED"}
  BY DEF Open, Terminal, Recoverable, Retryable

\* A settled receipt is never reopened, only purged.
THEOREM NeverReopened == Spec => SettledForGood
<1>1. ASSUME IInv, [Next]_vars, NEW e \in Events, receipt[e].status \in Terminal
      PROVE  receipt'[e].status \in {receipt[e].status, "ABSENT"}
  <2>1. RowStep(e)
    BY <1>1, RowSteps
  <2> QED
    BY <1>1, <2>1, StatusClasses, FreshRows DEF RowStep, Kept
<1>2. IInv /\ [Next]_vars =>
         [\A e \in Events : receipt[e].status \in Terminal =>
              receipt'[e].status \in {receipt[e].status, "ABSENT"}]_vars
  BY <1>1
<1> QED
  BY <1>2, Inductive, PTL DEF Spec, SettledForGood

\* Who moves a process: itself, or the crash of the program that runs it.
LEMMA OwnMove ==
    ASSUME TypeOK, [Next]_vars, NEW p \in Procs, pc'[p] # pc[p]
    PROVE  \/ LiveStep(p) \/ IngestStep(p) \/ ReconcileStep(p)
           \/ pc[p] = "idle" \/ CrashServer \/ CrashWorker
<1> USE DEF TypeOK
<1>1. ASSUME NEW q \in Procs,
             Done(q) \/ (\E step : Goto(q, step)) \/ (\E step : pc' = [pc EXCEPT ![q] = step])
      PROVE  p = q
  BY <1>1 DEF Done, Goto
<1>2. ASSUME NEW q \in Procs, LiveStep(q) PROVE p = q
  BY <1>1, <1>2 DEF LiveStep, ResolutionFails, NotConnected, Connected, ResolveBound,
         ClaimProcessing, ClaimFails, StoreFailure, IdentityNotResolved, Claimed
<1>3. ASSUME NEW q \in Procs, IngestStep(q) PROVE p = q
  <2>1. Done(q) \/ (\E step : Goto(q, step)) \/ (\E step : pc' = [pc EXCEPT ![q] = step])
    BY <1>3 DEF IngestStep, ApplySideEvent, SideEventFails, StoreMessage, StoreFails,
         ReadPending, PendingUnreadable, Enqueue, EnqueueDegraded, DispatchFails, MarkQueued,
         RebindQueuedReceipts, RebindFails, CancelPendingDispatch, MarkDone, StoreFailure,
         QueueFailure
  <2> QED
    BY <1>1, <2>1
<1>4. ASSUME NEW q \in Procs, ReconcileStep(q) PROVE p = q
  <2>1. Done(q) \/ (\E step : Goto(q, step)) \/ (\E step : pc' = [pc EXCEPT ![q] = step])
    BY <1>4 DEF ReconcileStep, ClaimDue, InspectQueuedJob, InspectUnavailable, DeferQueued,
         ConfirmCompleted, Replay, ReplayUnresolved, IdentityNotResolved, Claimed
  <2> QED
    BY <1>1, <2>1
<1>5. ASSUME NEW q \in Procs, \E e \in Events : Record(q, e) \/ FindDue(q, e)
      PROVE  p = q /\ pc[q] = "idle"
  BY <1>1, <1>5 DEF Record, FindDue
<1>6. CASE UNCHANGED pc
  BY <1>6
<1> QED
  BY <1>2, <1>3, <1>4, <1>5, <1>6
     DEF Procs, Next, PurgeExpired, WorkerStep, StartJob, CompleteJob, FailJob,
         FailJobUnrecoverably, DelayJob, SettleReceipt, Age, Expire, Evict, LoseQueue, Connect,
         Disconnect, vars

\* A conditional update by a process that lost its claim is lost.
LEMMA LostFence ==
    ASSUME IInv, NEW p \in Procs, pc[p] \in OwnedSteps, Row(p).owner # p, NEW row,
           safeUpdate(p, row)
    PROVE  receipt' = receipt
<1>1. mem[p].e \in Events /\ mem[p].owner \in {p, Expired}
  BY DEF IInv, TypeOK, ServedAccounting, ProcessesKnow, Knows, OwnedSteps
<1>2. Row(p).owner # Expired
  BY <1>1, ProcsAssumption DEF Row, IInv, TypeOK, Receipt
<1> QED
  BY <1>1, <1>2 DEF safeUpdate, Fenced

\* A process whose claim was taken over does not change the row any more.
THEOREM TakenOverIsFenced == Spec => FencedOut
<1>1. ASSUME IInv, [Next]_vars, NEW p \in Procs, pc[p] \in OwnedSteps, pc'[p] # pc[p],
             Row(p).owner # p
      PROVE  receipt'[mem[p].e] = Row(p)
  <2>0. pc[p] \notin {"idle", "resolve", "resolveBound", "claim", "claimDue", "rebind"}
    BY <1>1 DEF OwnedSteps
  <2>f. (\E row : safeUpdate(p, row)) => receipt' = receipt
    BY <1>1, LostFence
  <2>1. CASE LiveStep(p)
    BY <2>0, <2>1 DEF LiveStep, ResolutionFails, NotConnected, Connected, ResolveBound,
           ClaimProcessing, ClaimFails
  <2>2. CASE IngestStep(p)
    <3>1. (\E row : safeUpdate(p, row)) \/ UNCHANGED receipt
      BY <2>0, <2>2 DEF IngestStep, ApplySideEvent, SideEventFails, StoreMessage, StoreFails,
         ReadPending, PendingUnreadable, Enqueue, EnqueueDegraded, DispatchFails, MarkQueued,
         RebindQueuedReceipts, RebindFails, CancelPendingDispatch, MarkDone, StoreFailure,
         QueueFailure
    <3> QED
      BY <2>f, <3>1 DEF Row
  <2>3. CASE ReconcileStep(p)
    <3>1. (\E row : safeUpdate(p, row)) \/ UNCHANGED receipt
      BY <2>0, <2>3 DEF ReconcileStep, ClaimDue, InspectQueuedJob, InspectUnavailable,
         DeferQueued, ConfirmCompleted, Replay, ReplayUnresolved, IdentityNotResolved
    <3> QED
      BY <2>f, <3>1 DEF Row
  <2>4. CASE CrashServer \/ CrashWorker
    BY <2>4 DEF CrashServer, CrashWorker, Row
  <2> QED
    BY <1>1, <2>0, <2>1, <2>2, <2>3, <2>4, OwnMove DEF IInv
<1>2. IInv /\ [Next]_vars =>
         [\A p \in Procs :
             (pc[p] \in OwnedSteps /\ pc'[p] # pc[p] /\ Row(p).owner # p)
                 => receipt'[mem[p].e] = Row(p)]_vars
  BY <1>1
<1> QED
  BY <1>2, Inductive, PTL DEF Spec, FencedOut

-----------------------------------------------------------------------------
(* Refinement. *)

\* A step changes one row, or a history, or rebinds, or purges.
LEMMA StepShape ==
    ASSUME IInv, [Next]_vars
    PROVE  \/ UNCHANGED <<served, adopted>> /\ \E e \in Events : \A x \in Events \ {e} : receipt'[x] = receipt[x]
           \/ UNCHANGED <<receipt, adopted>>
           \/ \E p \in Procs : RebindQueuedReceipts(p) \/ PurgeExpired(p)
<1> USE DEF IInv, TypeOK
<1>1. ASSUME NEW p \in Procs, mem[p].e \in Events,
             UNCHANGED <<served, adopted>>,
             \/ \E row : safeUpdate(p, row)
             \/ \E step, j : Claimed(p, step, j)
             \/ \E row : receipt' = [receipt EXCEPT ![mem[p].e] = row]
      PROVE  UNCHANGED <<served, adopted>> /\ \E e \in Events : \A x \in Events \ {e} : receipt'[x] = receipt[x]
  BY <1>1 DEF safeUpdate, Claimed
<1>2. ASSUME NEW p \in Procs, LiveStep(p)
      PROVE  \/ UNCHANGED <<served, adopted>> /\ \E e \in Events : \A x \in Events \ {e} : receipt'[x] = receipt[x]
             \/ UNCHANGED <<receipt, adopted>>
  <2>1. mem[p].e \in Events /\ UNCHANGED <<served, adopted>>
    BY <1>2 DEF LiveStep, ResolutionFails, NotConnected, Connected, ResolveBound,
         ClaimProcessing, ClaimFails, HistUnchanged
  <2>2. \/ \E row : safeUpdate(p, row)
        \/ \E step, j : Claimed(p, step, j)
        \/ \E row : receipt' = [receipt EXCEPT ![mem[p].e] = row]
        \/ UNCHANGED receipt
    BY <1>2 DEF LiveStep, ResolutionFails, NotConnected, Connected, ResolveBound,
         ClaimProcessing, ClaimFails, StoreFailure, IdentityNotResolved
  <2> QED
    BY <1>1, <2>1, <2>2
<1>3. ASSUME NEW p \in Procs, IngestStep(p)
      PROVE  \/ UNCHANGED <<served, adopted>> /\ \E e \in Events : \A x \in Events \ {e} : receipt'[x] = receipt[x]
             \/ UNCHANGED <<receipt, adopted>>
             \/ RebindQueuedReceipts(p)
  <2>1. CASE ApplySideEvent(p) \/ CancelPendingDispatch(p)
    BY <2>1 DEF ApplySideEvent, CancelPendingDispatch
  <2>2. CASE \/ SideEventFails(p) \/ StoreMessage(p) \/ StoreFails(p) \/ ReadPending(p)
             \/ PendingUnreadable(p) \/ Enqueue(p) \/ EnqueueDegraded(p) \/ DispatchFails(p) \/ MarkQueued(p)
             \/ RebindFails(p) \/ MarkDone(p)
    <3>1. mem[p].e \in Events /\ UNCHANGED <<served, adopted>>
      BY <2>2 DEF SideEventFails, StoreMessage, StoreFails, ReadPending, PendingUnreadable,
           Enqueue, EnqueueDegraded, DispatchFails, MarkQueued, RebindFails, MarkDone, HistUnchanged
    <3>2. (\E row : safeUpdate(p, row)) \/ UNCHANGED receipt
      BY <2>2 DEF SideEventFails, StoreMessage, StoreFails, ReadPending, PendingUnreadable,
           Enqueue, EnqueueDegraded, DispatchFails, MarkQueued, RebindFails, MarkDone, StoreFailure, QueueFailure
    <3> QED
      BY <1>1, <3>1, <3>2
  <2> QED
    BY <1>3, <2>1, <2>2 DEF IngestStep
<1>4. ASSUME NEW p \in Procs, ReconcileStep(p)
      PROVE  \/ UNCHANGED <<served, adopted>> /\ \E e \in Events : \A x \in Events \ {e} : receipt'[x] = receipt[x]
             \/ UNCHANGED <<receipt, adopted>>
  <2>1. mem[p].e \in Events /\ UNCHANGED <<served, adopted>>
    BY <1>4 DEF ReconcileStep, ClaimDue, InspectQueuedJob, InspectUnavailable, DeferQueued,
         ConfirmCompleted, Replay, ReplayUnresolved, HistUnchanged
  <2>2. \/ \E row : safeUpdate(p, row)
        \/ \E step, j : Claimed(p, step, j)
        \/ \E row : receipt' = [receipt EXCEPT ![mem[p].e] = row]
        \/ UNCHANGED receipt
    BY <1>4 DEF ReconcileStep, ClaimDue, InspectQueuedJob, InspectUnavailable, DeferQueued,
         ConfirmCompleted, Replay, ReplayUnresolved, IdentityNotResolved
  <2> QED
    BY <1>1, <2>1, <2>2
<1>5. ASSUME NEW e \in Events, (\E p \in Procs : Record(p, e)) \/ Age(e) \/ Expire(e)
      PROVE  UNCHANGED <<served, adopted>> /\ \A x \in Events \ {e} : receipt'[x] = receipt[x]
  BY <1>5 DEF Record, Age, Expire, HistUnchanged
<1>6. ASSUME NEW s \in Events \X Events \X {"completed", "failed"}, SettleReceipt(s)
      PROVE  UNCHANGED <<served, adopted>> /\ \A x \in Events \ {s[2]} : receipt'[x] = receipt[x]
  BY <1>6 DEF SettleReceipt, HistUnchanged
<1>7. CASE UNCHANGED <<receipt, adopted>>
  BY <1>7
<1> QED
  BY <1>2, <1>3, <1>4, <1>5, <1>6, <1>7
     DEF Procs, Next, FindDue, WorkerStep, StartJob, CompleteJob, FailJob,
         FailJobUnrecoverably, DelayJob, CrashServer, CrashWorker, Evict, LoseQueue, Connect,
         Disconnect, HistUnchanged, vars

\* How the class of a row may change, for every row.
LEMMA ClassSteps ==
    ASSUME IInv, [Next]_vars, NEW e \in Events
    PROVE  \/ Class(receipt'[e]) = Class(receipt[e])
           \/ Class(receipt[e]) = "new" /\ Class(receipt'[e]) = "open"
           \/ /\ Class(receipt[e]) = "open" /\ Class(receipt'[e]) = "done"
              /\ e \in served \cup adopted \/ Kind[e] = "other"
           \/ Class(receipt[e]) = "open" /\ Class(receipt'[e]) = "dead"
           \/ Class(receipt[e]) \in {"done", "dead"} /\ Class(receipt'[e]) = "new"
<1>0. RowStep(e)
  BY RowSteps
<1>1. CASE Kept(receipt[e], receipt'[e])
  BY <1>1 DEF Kept, Class
<1>2. CASE receipt[e].status = "ABSENT" /\ receipt'[e] = recordReceipt(e)
  BY <1>2, FreshRows DEF Class, Open
<1>3. CASE receipt[e].status \in Open
  <2>1. Class(receipt[e]) = "open"
    BY <1>3, StatusClasses DEF Class
  <2>2. CASE Taken(receipt[e], receipt'[e]) \/ Bound(e, receipt[e], receipt'[e])
    BY <2>1, <2>2 DEF Taken, Bound, Class, Open, Recoverable
  <2>3. CASE Released(receipt[e], receipt'[e])
    <3>1. receipt'[e].status \in Open \/ receipt'[e].status = "DEAD_LETTERED"
      BY <2>3 DEF Released, Open
    <3> QED
      BY <2>1, <3>1, StatusClasses DEF Class
  <2>4. CASE Settled(e, receipt'[e])
    BY <2>1, <2>4, StatusClasses DEF Settled, Class
  <2> QED
    BY <1>0, <1>1, <1>3, <2>2, <2>3, <2>4, StatusClasses DEF RowStep
<1>4. CASE receipt[e].status \in Terminal /\ receipt'[e] = NoReceipt
  BY <1>4, FreshRows, StatusClasses DEF Class
<1> QED
  BY <1>0, <1>1, <1>2, <1>3, <1>4 DEF RowStep

\* Every step is a step of the durable inbox or a stutter.
LEMMA RefineStep ==
    ASSUME IInv, [Next]_vars
    PROVE  [Inbox!Next]_(Inbox!vars)
<1> DEFINE Ignored == {e \in Events : Kind[e] = "other"}
<1>0. /\ \A e \in Events : inbox[e] = Class(receipt[e]) /\ inbox'[e] = Class(receipt'[e])
      /\ inbox \in [Events -> {Class(receipt[e]) : e \in Events}]
      /\ inbox' \in [Events -> {Class(receipt'[e]) : e \in Events}]
  BY DEF inbox
<1>1. ASSUME UNCHANGED <<served, adopted>>, NEW e \in Events,
             \A x \in Events \ {e} : receipt'[x] = receipt[x]
      PROVE  [Inbox!Next]_(Inbox!vars)
  <2>1. \A x \in Events \ {e} : inbox'[x] = inbox[x]
    BY <1>0, <1>1
  <2>2. CASE inbox'[e] = inbox[e]
    <3>1. inbox' = inbox
      BY <1>0, <2>1, <2>2
    <3> QED
      BY <1>1, <3>1 DEF Inbox!vars
  <2>3. inbox' = [inbox EXCEPT ![e] = inbox'[e]]
    BY <1>0, <2>1
  <2>4. CASE inbox[e] = "new" /\ inbox'[e] = "open"
    <3>1. Inbox!Accept(e)
      BY <1>1, <2>3, <2>4 DEF Inbox!Accept
    <3> QED
      BY <3>1 DEF Inbox!Next
  <2>5. CASE inbox[e] = "open" /\ inbox'[e] = "done" /\ (e \in served \cup adopted \/ Kind[e] = "other")
    <3>1. Inbox!Settle(e)
      BY <1>1, <2>3, <2>5 DEF Inbox!Settle
    <3> QED
      BY <3>1 DEF Inbox!Next
  <2>6. CASE inbox[e] = "open" /\ inbox'[e] = "dead"
    <3>1. Inbox!GiveUp(e)
      BY <1>1, <2>3, <2>6 DEF Inbox!GiveUp
    <3> QED
      BY <3>1 DEF Inbox!Next
  <2>7. CASE inbox[e] \in {"done", "dead"} /\ inbox'[e] = "new"
    <3>1. inbox' = [x \in Events |-> IF x \in {e} THEN "new" ELSE inbox[x]]
      BY <1>0, <2>1, <2>7
    <3>2. Inbox!Forget({e})
      BY <1>1, <2>7, <3>1 DEF Inbox!Forget
    <3> QED
      BY <3>2 DEF Inbox!Next
  <2> QED
    BY <1>0, <2>2, <2>4, <2>5, <2>6, <2>7, ClassSteps
<1>2. CASE UNCHANGED <<receipt, adopted>>
  <2>1. inbox' = inbox
    BY <1>2 DEF inbox
  <2>2. Inbox!Serve
    BY <1>2, <2>1, HistoryGrows DEF Inbox!Serve, IInv
  <2> QED
    BY <2>2 DEF Inbox!Next
<1>3. ASSUME NEW p \in Procs, RebindQueuedReceipts(p)
      PROVE  [Inbox!Next]_(Inbox!vars)
  <2>1. UNCHANGED served
    BY <1>3 DEF RebindQueuedReceipts
  <2>2. ASSUME NEW x \in Events PROVE Class(receipt'[x]) = Class(receipt[x])
    <3>1. \/ receipt'[x] = receipt[x]
          \/ receipt[x].status \in {"PROCESSING", "QUEUED"} /\ receipt'[x].status = "QUEUED"
      BY <1>3 DEF RebindQueuedReceipts, Rebindable, markQueued, IInv, TypeOK, Receipt
    <3> QED
      BY <3>1 DEF Class, Open, Recoverable
  <2>3. inbox' = inbox
    BY <2>2 DEF inbox
  <2>4. Inbox!Excuse
    BY <2>1, <2>3, HistoryGrows DEF Inbox!Excuse, IInv
  <2> QED
    BY <2>4 DEF Inbox!Next
<1>4. ASSUME NEW p \in Procs, PurgeExpired(p)
      PROVE  [Inbox!Next]_(Inbox!vars)
  <2> DEFINE gone == {e \in Events : receipt[e].old /\ receipt[e].status \in Terminal}
  <2>1. UNCHANGED <<served, adopted>>
    BY <1>4 DEF PurgeExpired, HistUnchanged
  <2>2. \A e \in gone : inbox[e] \in {"done", "dead"}
    BY <1>0, StatusClasses DEF Class
  <2>3. ASSUME NEW x \in Events
        PROVE  Class(receipt'[x]) = IF x \in gone THEN "new" ELSE inbox[x]
    BY <1>0, <1>4, FreshRows DEF PurgeExpired, Class
  <2>4. inbox' = [x \in Events |-> IF x \in gone THEN "new" ELSE inbox[x]]
    BY <2>3 DEF inbox
  <2>5. gone \in SUBSET Events
    OBVIOUS
  <2> HIDE DEF gone
  <2>6. Inbox!Forget(gone)
    BY <2>1, <2>2, <2>4 DEF Inbox!Forget
  <2> QED
    BY <2>5, <2>6 DEF Inbox!Next
<1> QED
  BY <1>1, <1>2, <1>3, <1>4, StepShape

\* The receipts implement the durable inbox: an accepted event stays open until
\* its effect happened (or it was adopted, or is of no interest) or it is given
\* up, and it is only forgotten once closed.
THEOREM ImplementsInbox == Spec => InboxImplemented
<1>1. Init => Inbox!Init
  <2>1. NoReceipt.status = "ABSENT"
    BY DEF NoReceipt
  <2> QED
    BY <2>1 DEF Init, Inbox!Init, inbox, Class
<1>2. IInv /\ [Next]_vars => [Inbox!Next]_(Inbox!vars)
  BY RefineStep
<1> QED
  BY <1>1, <1>2, Inductive, PTL DEF Spec, InboxImplemented, Inbox!Spec

\* A receipt that is open stays so until the effect of its event happened, it
\* was rebound to a burst job that had started without it, there was nothing
\* to do, or it was given up for an operator to see: no crash, lost queue or
\* purge makes it disappear.
THEOREM OpenUntilServed ==
    Spec => [][\A e \in Events :
                 receipt[e].status \in Open /\ receipt'[e].status \notin Open =>
                   \/ /\ receipt'[e].status \in {"PROCESSED", "SKIPPED"}
                      /\ e \in served \cup adopted \/ Kind[e] = "other"
                   \/ receipt'[e].status = "DEAD_LETTERED"]_vars
<1>1. ASSUME IInv, [Next]_vars, NEW e \in Events,
             receipt[e].status \in Open, receipt'[e].status \notin Open
      PROVE  \/ /\ receipt'[e].status \in {"PROCESSED", "SKIPPED"}
                /\ e \in served \cup adopted \/ Kind[e] = "other"
             \/ receipt'[e].status = "DEAD_LETTERED"
  <2>1. receipt'[e].status \in Statuses
    <3>1. TypeOK'
      BY <1>1, InvStep DEF IInv
    <3> QED
      BY <3>1 DEF TypeOK, Receipt
  <2>2. Class(receipt[e]) = "open" /\ Class(receipt'[e]) # "open"
    BY <1>1, StatusClasses DEF Class
  <2>3. \/ /\ Class(receipt'[e]) = "done"
           /\ e \in served \cup adopted \/ Kind[e] = "other"
        \/ Class(receipt'[e]) = "dead"
    BY <1>1, <2>2, ClassSteps
  <2> QED
    BY <1>1, <2>1, <2>3 DEF Class, Statuses, Terminal
<1>2. IInv /\ [Next]_vars =>
        [\A e \in Events :
           receipt[e].status \in Open /\ receipt'[e].status \notin Open =>
             \/ /\ receipt'[e].status \in {"PROCESSED", "SKIPPED"}
                /\ e \in served \cup adopted \/ Kind[e] = "other"
             \/ receipt'[e].status = "DEAD_LETTERED"]_vars
  BY <1>1
<1> QED
  BY <1>2, Inductive, PTL DEF Spec

=============================================================================
