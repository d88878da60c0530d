---- MODULE OrderConfidenceProofs ----
(***************************************************************************)
(* Proofs about the Order Confidence gate, for any facts, findings, people *)
(* and bounds.                                                             *)
(*                                                                         *)
(* The argument: a version names one content of the row.  Whatever anybody *)
(* read is therefore either the row as it stands or an older version of it *)
(* (Past), and a write that names the version it read replaces exactly     *)
(* what was read.  What remains is that a resolution's own evaluation      *)
(* cannot put a row under it that was judged on other facts (Fits).        *)
(***************************************************************************)
EXTENDS OrderConfidence, TLAPS

----------------------------------------------------------------------------
Rows == {NoRow} \cup Row

\* A row somebody read: the row as it is now, or an older version of it.
Past(row) ==
    row # NoRow =>
        /\ conf # NoRow
        /\ row.version <= conf.version
        /\ (row.version = conf.version => row = conf)

\* The resolution on a row is of the facts and level its merchant reviewed.
Sound(row) ==
    row # NoRow =>
        \/ row.resolution = Unresolved
        \/ /\ row.reviewed.fingerprint = row.resolutionFingerprint
           /\ row.reviewed.level <= ResolutionLevel(row.resolution)

\* A request that needs a row has one, and what it has was once the row.
Holds(r) ==
    /\ Past(r.row) /\ Sound(r.row)
    /\ r.pc = "reread" => conf # NoRow
    /\ r.pc \in {"judge", "resolve", "released"} => r.row # NoRow

\* A booking that was let through was let through on a decision that clears
\* the facts it ships.
BookerOK(r, facts) ==
    /\ Holds(r)
    /\ r.pc = "idle" \/ r.kind = "gate"
    /\ r.pc # "resolve"
    /\ r.pc = "released" => Cleared(r.row, facts)

\* A resolution under way that may still name the current version stands on a
\* row judged on the facts it read itself.
Fits(r, screen) ==
    /\ r.kind \in Resolutions /\ r.pc # "idle" => screen # NoRow
    /\ r.kind \in Resolutions /\ r.pc = "row" =>
         r.row # NoRow /\ screen.version <= r.row.version
    /\ r.kind \in Resolutions /\ r.pc = "reread" =>
         (conf.version = screen.version => conf.fingerprint = r.ord.facts)
    /\ r.kind \in Resolutions /\ r.pc \in {"judge", "resolve"} =>
         (r.row.version = screen.version => r.row.fingerprint = r.ord.facts)
    /\ r.pc = "resolve" =>
         /\ r.kind \in Resolutions
         /\ r.row.version = screen.version
         /\ Level(r.row.reasons) <= ResolutionLevel(r.kind)

MerchantOK(r, screen) ==
    /\ Holds(r)
    /\ Past(screen)
    /\ r.pc \notin {"load", "released"}
    /\ Fits(r, screen)

IInv ==
    /\ TypeOK
    /\ Sound(conf)
    /\ \A b \in Bookers : BookerOK(work[b], payload[b])
    /\ \A m \in Merchants : MerchantOK(work[m], seen[m])

----------------------------------------------------------------------------
(* Types. *)

LEMMA IdleType == ASSUME order \in Order PROVE Idle \in Request /\ Idle.pc = "idle"
                  /\ Idle.row = NoRow
  BY DEF Idle, Request

LEMMA RowFacts ==
    /\ NoRow \in Rows /\ NoRow \notin Row
    /\ \A row \in Rows : row # NoRow => row \in Row
  BY DEF Rows, NoRow, Row

LEMMA NewRowType ==
    ASSUME NEW reasons \in SUBSET Reason, NEW fp \in Facts
    PROVE  NewRow(reasons, fp) \in Row
  BY DEF NewRow, Row, Review, NoReview, Unresolved, Resolutions

LEMMA LevelType == ASSUME NEW reasons PROVE Level(reasons) \in 0 .. 2
  BY DEF Level

LEMMA StatusReasonsType == ASSUME NEW status PROVE StatusReasons(status) \in SUBSET Reason
  BY ReasonsAreRated DEF StatusReasons

LEMMA EvaluationsType ==
    ASSUME NEW o \in Order, NEW reasons \in Evaluations(o) PROVE reasons \in SUBSET Reason
  BY StatusReasonsType, ReasonsAreRated DEF Evaluations, Order

LEMMA NextVersion == ASSUME NEW row \in Row PROVE row.version + 1 \in Nat \ {0}
  BY DEF Row

\* An evaluation written over a row leaves a row.
LEMMA ChangedType ==
    ASSUME NEW row \in Row, NEW reasons \in SUBSET Reason, NEW fp \in Facts
    PROVE  Bumped(row, [row EXCEPT !.reasons = reasons, !.fingerprint = fp]) \in Row
  BY NextVersion, Zenon DEF Bumped, Row

LEMMA ResolvedType ==
    ASSUME NEW row \in Row, NEW screen \in Row, NEW kind \in Resolutions, NEW fp \in Facts
    PROVE  Bumped(row, [row EXCEPT !.resolution = kind, !.resolutionFingerprint = fp,
                                   !.reviewed = ReviewOf(screen)]) \in Row
  <1>1. ReviewOf(screen) \in Review
    BY LevelType DEF ReviewOf, Review, Row
  <1> QED BY <1>1, NextVersion, Zenon DEF Bumped, Row, Resolutions

LEMMA OutcomeType ==
    ASSUME NEW row \in Row
    PROVE  [row EXCEPT !.outcome = "recorded", !.version = @ + 1] \in Row
  BY NextVersion, Zenon DEF Row

----------------------------------------------------------------------------
(* What survives when the row moves on. *)

\* How the row may change in one step.
Grows == conf' = conf \/ conf = NoRow \/ (conf' # NoRow /\ conf'.version = conf.version + 1)

LEMMA PastStays ==
    ASSUME NEW row \in Rows, conf \in Rows, conf' \in Rows, Grows, Past(row)
    PROVE  Past(row)'
  BY RowFacts DEF Past, Grows, Row

LEMMA RequestStays ==
    ASSUME NEW r \in Request, conf \in Rows, conf' \in Rows, Grows, Holds(r),
           conf # NoRow => conf' # NoRow
    PROVE  Holds(r)'
  <1>1. r.row \in Rows BY DEF Request, Rows
  <1> QED BY <1>1, PastStays DEF Holds, Sound

LEMMA BookerStays ==
    ASSUME NEW r \in Request, NEW facts, conf \in Rows, conf' \in Rows, Grows,
           conf # NoRow => conf' # NoRow, BookerOK(r, facts)
    PROVE  BookerOK(r, facts)'
  BY RequestStays DEF BookerOK

LEMMA MerchantStays ==
    ASSUME NEW r \in Request, NEW screen \in Rows, conf \in Rows, conf' \in Rows, Grows,
           conf # NoRow => conf' # NoRow, MerchantOK(r, screen)
    PROVE  MerchantOK(r, screen)'
  <1>1. Holds(r)' /\ Past(screen)'
    BY RequestStays, PastStays DEF MerchantOK
  <1>2. r.kind \in Resolutions /\ r.pc = "reread" =>
          (conf'.version = screen.version => conf'.fingerprint = r.ord.facts)
    BY RowFacts DEF MerchantOK, Fits, Past, Holds, Grows, Row
  <1> QED BY <1>1, <1>2 DEF MerchantOK, Fits

----------------------------------------------------------------------------
(* One lemma for each way a request moves, for the request itself. *)

\* A row just read is no older than anything the merchant has on screen.
LEMMA FindRowKeeps ==
    ASSUME NEW r \in Request, NEW reasons, NEW next, conf \in Rows, conf' = conf,
           r.pc = "facts", Sound(conf),
           next = [r EXCEPT !.pc = "row", !.reasons = reasons, !.row = conf]
    PROVE  /\ \A facts : BookerOK(r, facts) => BookerOK(next, facts)'
           /\ \A screen \in Rows : MerchantOK(r, screen) => MerchantOK(next, screen)'
  <1>1. next.pc = "row" /\ next.kind = r.kind /\ next.row = conf /\ next.ord = r.ord
    BY DEF Request
  <1>2. Past(conf)' /\ Sound(conf)'
    BY RowFacts DEF Past, Sound, Row
  <1>3. Holds(next)'
    BY <1>1, <1>2 DEF Holds, Past, Sound
  <1>4. ASSUME NEW facts, BookerOK(r, facts) PROVE BookerOK(next, facts)'
    BY <1>1, <1>3, <1>4 DEF BookerOK
  <1>5. ASSUME NEW screen \in Rows, MerchantOK(r, screen) PROVE MerchantOK(next, screen)'
    <2>1. Past(screen)' BY <1>5 DEF MerchantOK, Past
    <2>2. Fits(next, screen)'
      BY <1>1, <1>5 DEF MerchantOK, Fits, Past
    <2> QED BY <1>1, <1>3, <2>1, <2>2 DEF MerchantOK
  <1> QED BY <1>4, <1>5

\* The request that inserts the row judges the row it inserted.
LEMMA InsertKeeps ==
    ASSUME NEW r \in Request, NEW next, conf = NoRow, conf' \in Row,
           conf'.resolution = Unresolved, r.pc = "row",
           next = [r EXCEPT !.pc = "judge", !.row = conf', !.reasons = {}]
    PROVE  /\ \A facts : BookerOK(r, facts) => BookerOK(next, facts)'
           /\ \A screen \in Rows : MerchantOK(r, screen) => MerchantOK(next, screen)'
  <1>1. next.pc = "judge" /\ next.kind = r.kind /\ next.row = conf' /\ next.ord = r.ord
    BY DEF Request
  <1>3. Holds(next)'
    BY <1>1, RowFacts DEF Holds, Past, Sound, Row
  <1>4. ASSUME NEW facts, BookerOK(r, facts) PROVE BookerOK(next, facts)'
    BY <1>1, <1>3, <1>4 DEF BookerOK
  <1>5. ASSUME NEW screen \in Rows, MerchantOK(r, screen) PROVE MerchantOK(next, screen)'
    <2>1. screen = NoRow /\ r.kind \notin Resolutions
      BY <1>5 DEF MerchantOK, Past, Fits, Holds
    <2>2. Past(screen)' BY <2>1 DEF Past
    <2>3. Fits(next, screen)'
      BY <1>1, <2>1 DEF Fits
    <2> QED BY <1>1, <1>3, <2>2, <2>3 DEF MerchantOK
  <1> QED BY <1>4, <1>5

\* A request goes to read the row again: the row has moved past what the
\* merchant has on screen, or it is still the one judged on the same facts.
LEMMA ReadAgainKeeps ==
    ASSUME NEW r \in Request, NEW next, conf \in Rows, conf' \in Row, Grows,
           next = [r EXCEPT !.pc = "reread", !.row = NoRow, !.reasons = {}]
    PROVE  /\ \A facts : BookerOK(r, facts) /\ r.pc # "idle" => BookerOK(next, facts)'
           /\ \A screen \in Rows :
                /\ MerchantOK(r, screen)
                /\ r.kind \in Resolutions =>
                     /\ screen # NoRow
                     /\ (conf'.version = screen.version => conf'.fingerprint = r.ord.facts)
                => MerchantOK(next, screen)'
  <1>1. next.pc = "reread" /\ next.kind = r.kind /\ next.row = NoRow /\ next.ord = r.ord
    BY DEF Request
  <1>3. Holds(next)'
    BY <1>1, RowFacts DEF Holds, Past, Sound
  <1>4. ASSUME NEW facts, BookerOK(r, facts), r.pc # "idle" PROVE BookerOK(next, facts)'
    BY <1>1, <1>3, <1>4 DEF BookerOK
  <1>5. ASSUME NEW screen \in Rows, MerchantOK(r, screen),
               r.kind \in Resolutions =>
                     /\ screen # NoRow
                     /\ (conf'.version = screen.version => conf'.fingerprint = r.ord.facts)
        PROVE  MerchantOK(next, screen)'
    <2>1. Past(screen)'
      BY <1>5, PastStays DEF MerchantOK, Rows
    <2>2. Fits(next, screen)'
      BY <1>1, <1>5 DEF Fits
    <2> QED BY <1>1, <1>3, <2>1, <2>2 DEF MerchantOK
  <1> QED BY <1>4, <1>5

LEMMA RereadKeeps ==
    ASSUME NEW r \in Request, NEW next, conf \in Rows, conf' = conf, Sound(conf),
           r.pc = "reread", next = [r EXCEPT !.pc = "judge", !.row = conf]
    PROVE  /\ \A facts : BookerOK(r, facts) => BookerOK(next, facts)'
           /\ \A screen \in Rows : MerchantOK(r, screen) => MerchantOK(next, screen)'
  <1>1. next.pc = "judge" /\ next.kind = r.kind /\ next.row = conf /\ next.ord = r.ord
    BY DEF Request
  <1>3. Holds(r) => Holds(next)'
    BY <1>1, RowFacts DEF Holds, Past, Sound, Row
  <1>4. ASSUME NEW facts, BookerOK(r, facts) PROVE BookerOK(next, facts)'
    BY <1>1, <1>3, <1>4 DEF BookerOK
  <1>5. ASSUME NEW screen \in Rows, MerchantOK(r, screen) PROVE MerchantOK(next, screen)'
    <2>1. Past(screen)' BY <1>5 DEF MerchantOK, Past
    <2>2. Fits(next, screen)' BY <1>1, <1>5 DEF MerchantOK, Fits
    <2> QED BY <1>1, <1>3, <1>5, <2>1, <2>2 DEF MerchantOK
  <1> QED BY <1>4, <1>5

LEMMA StandsKeeps ==
    ASSUME NEW r \in Request, NEW next, conf' = conf, r.pc = "row", r.row # NoRow,
           r.row.fingerprint = r.ord.facts,
           next = [r EXCEPT !.pc = "judge", !.reasons = {}]
    PROVE  /\ \A facts : BookerOK(r, facts) => BookerOK(next, facts)'
           /\ \A screen \in Rows : MerchantOK(r, screen) => MerchantOK(next, screen)'
  <1>1. next.pc = "judge" /\ next.kind = r.kind /\ next.row = r.row /\ next.ord = r.ord
    BY DEF Request
  <1>3. Holds(r) => Holds(next)'
    BY <1>1 DEF Holds, Past, Sound
  <1>4. ASSUME NEW facts, BookerOK(r, facts) PROVE BookerOK(next, facts)'
    BY <1>1, <1>3, <1>4 DEF BookerOK
  <1>5. ASSUME NEW screen \in Rows, MerchantOK(r, screen) PROVE MerchantOK(next, screen)'
    <2>1. Past(screen)' BY <1>5 DEF MerchantOK, Past
    <2>2. Fits(next, screen)' BY <1>1, <1>5 DEF MerchantOK, Fits
    <2> QED BY <1>1, <1>3, <1>5, <2>1, <2>2 DEF MerchantOK
  <1> QED BY <1>4, <1>5

\* An accepted resolution names the version it was judged at, and covers it.
LEMMA AcceptKeeps ==
    ASSUME NEW r \in Request, NEW next, NEW screen, conf' = conf, r.pc = "judge",
           r.kind \in Resolutions, r.row.version = screen.version,
           ~(r.kind = "VERIFIED" /\ Level(r.row.reasons) = 2),
           next = [r EXCEPT !.pc = "resolve"], MerchantOK(r, screen)
    PROVE  MerchantOK(next, screen)'
  <1>1. next.pc = "resolve" /\ next.kind = r.kind /\ next.row = r.row /\ next.ord = r.ord
    BY DEF Request
  <1>2. Level(r.row.reasons) <= ResolutionLevel(r.kind)
    BY LevelType DEF ResolutionLevel, Resolutions
  <1>3. Holds(next)'
    BY <1>1 DEF Holds, Past, Sound, MerchantOK
  <1>4. Past(screen)' BY DEF MerchantOK, Past
  <1>5. Fits(next, screen)' BY <1>1, <1>2 DEF MerchantOK, Fits
  <1> QED BY <1>1, <1>3, <1>4, <1>5 DEF MerchantOK

LEMMA ReleaseKeeps ==
    ASSUME NEW r \in Request, NEW next, NEW facts, conf' = conf, r.pc = "judge",
           r.kind = "gate", Cleared(r.row, facts),
           next = [r EXCEPT !.pc = "released"], BookerOK(r, facts)
    PROVE  BookerOK(next, facts)'
  <1>1. next.pc = "released" /\ next.kind = r.kind /\ next.row = r.row
    BY DEF Request
  <1>2. Holds(next)'
    BY <1>1 DEF Holds, Past, Sound, BookerOK
  <1> QED BY <1>1, <1>2 DEF BookerOK, Cleared

\* A request at rest, and one that starts.
LEMMA RestKeeps ==
    ASSUME order \in Order
    PROVE  /\ \A facts : BookerOK(Idle, facts)'
           /\ \A screen : Past(screen)' => MerchantOK(Idle, screen)'
  BY IdleType DEF BookerOK, MerchantOK, Holds, Past, Sound, Fits

LEMMA LoadKeeps ==
    ASSUME NEW r \in Request, NEW next, conf' = conf, r.pc = "idle", NEW facts, NEW other,
           next = [r EXCEPT !.pc = "load", !.kind = "gate"], BookerOK(r, other)
    PROVE  BookerOK(next, facts)'
  <1>1. next.pc = "load" /\ next.kind = "gate" /\ next.row = r.row
    BY DEF Request
  <1> QED BY <1>1 DEF BookerOK, Holds, Past, Sound

LEMMA StartGateKeeps ==
    ASSUME NEW r \in Request, NEW next, conf' = conf, r.pc = "load", NEW facts,
           next = [r EXCEPT !.pc = "facts", !.ord = order], BookerOK(r, facts)
    PROVE  BookerOK(next, facts)'
  <1>1. next.pc = "facts" /\ next.kind = r.kind /\ next.row = r.row
    BY DEF Request
  <1> QED BY <1>1 DEF BookerOK, Holds, Past, Sound

LEMMA StartKeeps ==
    ASSUME NEW r \in Request, NEW next, NEW kind, conf' = conf, NEW screen,
           kind = "panel" \/ screen # NoRow,
           next = [r EXCEPT !.pc = "facts", !.kind = kind, !.ord = order],
           MerchantOK(r, screen)
    PROVE  MerchantOK(next, screen)'
  <1>1. next.pc = "facts" /\ next.kind = kind /\ next.row = r.row
    BY DEF Request
  <1> QED BY <1>1 DEF MerchantOK, Holds, Past, Sound, Fits, Resolutions

\* The winner of a resolution goes on to read what it wrote.
LEMMA ResolvedKeeps ==
    ASSUME NEW r \in Request, NEW next, NEW screen \in Rows, conf \in Rows, conf' \in Row,
           Grows, MerchantOK(r, screen),
           next = [r EXCEPT !.pc = "reread", !.kind = "panel", !.row = NoRow]
    PROVE  MerchantOK(next, screen)'
  <1>1. next.pc = "reread" /\ next.kind = "panel" /\ next.row = NoRow
    BY DEF Request
  <1>2. Past(screen)' BY PastStays DEF MerchantOK, Rows
  <1>3. Holds(next)' BY <1>1, RowFacts DEF Holds, Past, Sound
  <1> QED BY <1>1, <1>2, <1>3 DEF MerchantOK, Fits, Resolutions

----------------------------------------------------------------------------
(* One request moves, the others stay. *)

LEMMA BookerMoves ==
    ASSUME IInv, TypeOK', Grows, conf # NoRow => conf' # NoRow, Sound(conf)',
           NEW b \in Bookers, NEW next, NEW facts,
           work' = [work EXCEPT ![b] = next], payload' = [payload EXCEPT ![b] = facts],
           seen' = seen, BookerOK(next, facts)'
    PROVE  IInv'
  <1>1. conf \in Rows /\ conf' \in Rows BY DEF IInv, TypeOK, Rows
  <1>2. ASSUME NEW c \in Bookers PROVE BookerOK(work[c], payload[c])'
    <2>1. CASE c = b
      <3>1. work'[c] = next /\ payload'[c] = facts BY <2>1 DEF IInv, TypeOK, Actors
      <3> QED BY <3>1 DEF BookerOK, Holds, Past, Sound
    <2>2. CASE c # b
      <3>1. work'[c] = work[c] /\ payload'[c] = payload[c] /\ work[c] \in Request
        BY <2>2 DEF IInv, TypeOK, Actors
      <3>2. BookerOK(work[c], payload[c]) BY DEF IInv
      <3>3. ASSUME NEW r, NEW f, r = work[c], f = payload[c] PROVE BookerOK(r, f)'
        BY <1>1, <3>1, <3>2, <3>3, BookerStays
      <3> QED BY <3>1, <3>3 DEF BookerOK, Holds, Past, Sound
    <2> QED BY <2>1, <2>2
  <1>3. ASSUME NEW m \in Merchants PROVE MerchantOK(work[m], seen[m])'
    <2>1. work'[m] = work[m] /\ work[m] \in Request /\ seen[m] \in Rows
      BY PeopleAreNotBookers DEF IInv, TypeOK, Actors, Rows
    <2>2. MerchantOK(work[m], seen[m]) BY DEF IInv
    <2>3. ASSUME NEW r, NEW f, r = work[m], f = seen[m] PROVE MerchantOK(r, f)'
      BY <1>1, <2>1, <2>2, <2>3, MerchantStays
    <2> QED BY <2>1, <2>3 DEF MerchantOK, Holds, Past, Sound, Fits
  <1> QED BY <1>2, <1>3 DEF IInv
LEMMA MerchantMoves ==
    ASSUME IInv, TypeOK', Grows, conf # NoRow => conf' # NoRow, Sound(conf)',
           NEW b \in Merchants, NEW next, NEW screen,
           work' = [work EXCEPT ![b] = next], seen' = [seen EXCEPT ![b] = screen],
           payload' = payload, MerchantOK(next, screen)'
    PROVE  IInv'
  <1>1. conf \in Rows /\ conf' \in Rows BY DEF IInv, TypeOK, Rows
  <1>2. ASSUME NEW m \in Merchants PROVE MerchantOK(work[m], seen[m])'
    <2>1. CASE m = b
      <3>1. work'[m] = next /\ seen'[m] = screen BY <2>1 DEF IInv, TypeOK, Actors
      <3> QED BY <3>1 DEF MerchantOK, Holds, Past, Sound, Fits
    <2>2. CASE m # b
      <3>1. work'[m] = work[m] /\ seen'[m] = seen[m] /\ work[m] \in Request /\ seen[m] \in Rows
        BY <2>2 DEF IInv, TypeOK, Actors, Rows
      <3>2. MerchantOK(work[m], seen[m]) BY DEF IInv
      <3>3. ASSUME NEW r, NEW f, r = work[m], f = seen[m] PROVE MerchantOK(r, f)'
        BY <1>1, <3>1, <3>2, <3>3, MerchantStays
      <3> QED BY <3>1, <3>3 DEF MerchantOK, Holds, Past, Sound, Fits
    <2> QED BY <2>1, <2>2
  <1>3. ASSUME NEW c \in Bookers PROVE BookerOK(work[c], payload[c])'
    <2>1. work'[c] = work[c] /\ work[c] \in Request
      BY PeopleAreNotBookers DEF IInv, TypeOK, Actors
    <2>2. BookerOK(work[c], payload[c]) BY DEF IInv
    <2>3. ASSUME NEW r, NEW f, r = work[c], f = payload[c] PROVE BookerOK(r, f)'
      BY <1>1, <2>1, <2>2, <2>3, BookerStays
    <2> QED BY <2>1, <2>3 DEF BookerOK, Holds, Past, Sound
  <1> QED BY <1>2, <1>3 DEF IInv

\* The order moves, or the courier's verdict is recorded.
LEMMA NobodyMoves ==
    ASSUME IInv, TypeOK', Grows, conf # NoRow => conf' # NoRow, Sound(conf)',
           work' = work, seen' = seen, payload' = payload
    PROVE  IInv'
  <1>1. conf \in Rows /\ conf' \in Rows BY DEF IInv, TypeOK, Rows
  <1>2. ASSUME NEW m \in Merchants PROVE MerchantOK(work[m], seen[m])'
    <2>1. work[m] \in Request /\ seen[m] \in Rows /\ MerchantOK(work[m], seen[m])
      BY DEF IInv, TypeOK, Actors, Rows
    <2>2. ASSUME NEW r, NEW f, r = work[m], f = seen[m] PROVE MerchantOK(r, f)'
      BY <1>1, <2>1, <2>2, MerchantStays
    <2> QED BY <2>2 DEF MerchantOK, Holds, Past, Sound, Fits
  <1>3. ASSUME NEW c \in Bookers PROVE BookerOK(work[c], payload[c])'
    <2>1. work[c] \in Request /\ BookerOK(work[c], payload[c])
      BY DEF IInv, TypeOK, Actors
    <2>2. ASSUME NEW r, NEW f, r = work[c], f = payload[c] PROVE BookerOK(r, f)'
      BY <1>1, <2>1, <2>2, BookerStays
    <2> QED BY <2>2 DEF BookerOK, Holds, Past, Sound
  <1> QED BY <1>2, <1>3 DEF IInv

----------------------------------------------------------------------------
(* Types are kept. *)

LEMMA RequestEdits ==
    ASSUME NEW r \in Request, NEW row \in Rows, NEW o \in Order, NEW reasons \in SUBSET Reason,
           NEW kind \in {"gate", "panel"} \cup Resolutions
    PROVE  /\ [r EXCEPT !.pc = "load", !.kind = "gate"] \in Request
           /\ [r EXCEPT !.pc = "facts", !.ord = o] \in Request
           /\ [r EXCEPT !.pc = "facts", !.kind = kind, !.ord = o] \in Request
           /\ [r EXCEPT !.pc = "row", !.reasons = reasons, !.row = row] \in Request
           /\ [r EXCEPT !.pc = "judge", !.row = row, !.reasons = {}] \in Request
           /\ [r EXCEPT !.pc = "judge", !.row = row] \in Request
           /\ [r EXCEPT !.pc = "judge", !.reasons = {}] \in Request
           /\ [r EXCEPT !.pc = "reread", !.row = NoRow, !.reasons = {}] \in Request
           /\ [r EXCEPT !.pc = "reread", !.kind = "panel", !.row = NoRow] \in Request
           /\ [r EXCEPT !.pc = "released"] \in Request
           /\ [r EXCEPT !.pc = "resolve"] \in Request
  BY Zenon DEF Request, Rows

LEMMA WorkEdits ==
    ASSUME TypeOK, NEW a \in Actors, NEW next \in Request
    PROVE  [work EXCEPT ![a] = next] \in [Actors -> Request]
  BY DEF TypeOK

\* The steps of one request, each as one new record.
MovesTo(a, next) == work' = [work EXCEPT ![a] = next]

LEMMA EvaluateMoves ==
    ASSUME NEW a \in Actors, TypeOK, Evaluate(a)
    PROVE  \/ /\ conf' = conf
              /\ work[a].pc = "facts"
              /\ \E reasons \in Evaluations(work[a].ord) :
                    MovesTo(a, [work[a] EXCEPT !.pc = "row", !.reasons = reasons, !.row = conf])
           \/ /\ conf = NoRow /\ work[a].pc = "row" /\ work[a].row = NoRow
              /\ conf' = NewRow(work[a].reasons, work[a].ord.facts)
              /\ MovesTo(a, [work[a] EXCEPT !.pc = "judge", !.row = conf', !.reasons = {}])
           \/ /\ conf' = conf /\ conf # NoRow
              /\ work[a].pc = "row" /\ work[a].row = NoRow
              /\ MovesTo(a, [work[a] EXCEPT !.pc = "reread", !.row = NoRow, !.reasons = {}])
           \/ /\ work[a].pc = "row" /\ work[a].row # NoRow
              /\ \/ /\ CasWins(work[a].row)
                    /\ conf' = Bumped(work[a].row,
                                 [work[a].row EXCEPT !.reasons = work[a].reasons,
                                                     !.fingerprint = work[a].ord.facts])
                 \/ /\ ~CasWins(work[a].row)
                    /\ conf' = conf
              /\ MovesTo(a, [work[a] EXCEPT !.pc = "reread", !.row = NoRow, !.reasons = {}])
           \/ /\ conf' = conf /\ work[a].pc = "row" /\ work[a].row # NoRow
              /\ work[a].row.fingerprint = work[a].ord.facts
              /\ \/ MovesTo(a, [work[a] EXCEPT !.pc = "judge", !.reasons = {}])
                 \/ MovesTo(a, [work[a] EXCEPT !.pc = "reread", !.row = NoRow, !.reasons = {}])
           \/ /\ conf' = conf /\ work[a].pc = "reread"
              /\ MovesTo(a, [work[a] EXCEPT !.pc = "judge", !.row = conf])
  <1>1. CASE FindRow(a)
    BY <1>1, ZenonT(30) DEF FindRow, MovesTo, TypeOK
  <1>2. CASE CreateRow(a)
    BY <1>2, ZenonT(30) DEF CreateRow, ReadAgain, MovesTo, TypeOK
  <1>3. CASE RowChanges(a)
    BY <1>3, ZenonT(30) DEF RowChanges, ReadAgain, MovesTo, TypeOK
  <1>4. CASE RowStands(a)
    BY <1>4, ZenonT(30) DEF RowStands, ReadAgain, MovesTo, TypeOK, Material
  <1>5. CASE RereadRow(a)
    BY <1>5, ZenonT(30) DEF RereadRow, MovesTo, TypeOK
  <1> QED BY <1>1, <1>2, <1>3, <1>4, <1>5 DEF Evaluate

LEMMA EvaluateType ==
    ASSUME NEW a \in Actors, TypeOK, Evaluate(a) PROVE TypeOK'
  <1>1. work[a] \in Request /\ conf \in Rows /\ work[a].row \in Rows /\ work[a].ord \in Order
        /\ work[a].reasons \in SUBSET Reason /\ work[a].ord.facts \in Facts
    BY DEF TypeOK, Rows, Request, Order
  <1>2. conf' \in Rows /\ \E next \in Request : MovesTo(a, next)
    <2>1. CASE conf' = conf
      BY <2>1, <1>1, EvaluateMoves, RequestEdits, EvaluationsType
    <2>2. CASE /\ conf' = NewRow(work[a].reasons, work[a].ord.facts)
               /\ MovesTo(a, [work[a] EXCEPT !.pc = "judge", !.row = conf', !.reasons = {}])
      <3>1. conf' \in Rows BY <2>2, <1>1, NewRowType DEF Rows
      <3> QED BY <2>2, <3>1, <1>1, RequestEdits
    <2>3. CASE /\ work[a].row # NoRow
               /\ conf' = Bumped(work[a].row,
                                 [work[a].row EXCEPT !.reasons = work[a].reasons,
                                                     !.fingerprint = work[a].ord.facts])
               /\ MovesTo(a, [work[a] EXCEPT !.pc = "reread", !.row = NoRow, !.reasons = {}])
      <3>1. conf' \in Rows BY <2>3, <1>1, ChangedType DEF Rows
      <3> QED BY <2>3, <3>1, <1>1, RequestEdits
    <2> QED BY <2>1, <2>2, <2>3, EvaluateMoves
  <1>3. work' \in [Actors -> Request]
    BY <1>2, WorkEdits DEF MovesTo
  <1>4. order' = order /\ changes' = changes /\ payload' = payload /\ seen' = seen
    BY DEF Evaluate, FindRow, CreateRow, RowChanges, RowStands, RereadRow
  <1> QED BY <1>2, <1>3, <1>4 DEF TypeOK, Rows

LEMMA ActorMoves ==
    ASSUME IInv, TypeOK', Grows, conf # NoRow => conf' # NoRow, Sound(conf)',
           payload' = payload, seen' = seen,
           NEW a \in Actors, NEW r, r = work[a], NEW next, MovesTo(a, next),
           \A facts : a \in Bookers /\ BookerOK(r, facts) => BookerOK(next, facts)',
           \A screen \in Rows :
             a \in Merchants /\ MerchantOK(r, screen) => MerchantOK(next, screen)'
    PROVE  IInv'
  <1>1. CASE a \in Bookers
    <2>1. PICK facts : facts = payload[a] OBVIOUS
    <2>2. BookerOK(r, facts) BY <1>1, <2>1 DEF IInv
    <2>3. payload' = [payload EXCEPT ![a] = facts]
      BY <1>1, <2>1 DEF IInv, TypeOK
    <2> QED BY <1>1, <2>2, <2>3, BookerMoves DEF MovesTo
  <1>2. CASE a \in Merchants
    <2>1. PICK screen : screen = seen[a] OBVIOUS
    <2>2. MerchantOK(r, screen) /\ screen \in Rows
      BY <1>2, <2>1 DEF IInv, TypeOK, Rows
    <2>3. seen' = [seen EXCEPT ![a] = screen]
      BY <1>2, <2>1 DEF IInv, TypeOK
    <2> QED BY <1>2, <2>2, <2>3, MerchantMoves DEF MovesTo
  <1> QED BY <1>1, <1>2 DEF Actors

\* A request that writes what it evaluated over the row, or loses to a newer
\* one, leaves a row its merchant has not seen.
LEMMA NewerThanSeen ==
    ASSUME NEW r \in Request, NEW screen \in Rows, MerchantOK(r, screen), r.pc = "row",
           r.kind \in Resolutions, conf \in Rows,
           \/ /\ CasWins(r.row)
              /\ conf' = Bumped(r.row, [r.row EXCEPT !.reasons = r.reasons,
                                                     !.fingerprint = r.ord.facts])
           \/ ~CasWins(r.row) /\ conf' = conf
    PROVE  screen # NoRow /\ conf'.version # screen.version
  <1>1. /\ screen # NoRow /\ r.row # NoRow /\ screen.version <= r.row.version
        /\ conf # NoRow /\ r.row.version <= conf.version
    BY DEF MerchantOK, Fits, Holds, Past
  <1>2. r.row \in Row /\ screen \in Row /\ conf \in Row
    BY <1>1, RowFacts DEF Request, Rows
  <1>3. CASE ~CasWins(r.row) /\ conf' = conf
    BY <1>1, <1>2, <1>3 DEF CasWins, Row
  <1>4. CASE conf' = Bumped(r.row, [r.row EXCEPT !.reasons = r.reasons,
                                                 !.fingerprint = r.ord.facts])
    <2>1. conf'.version = r.row.version + 1 BY <1>2, <1>4 DEF Bumped, Row
    <2> QED BY <1>1, <1>2, <2>1 DEF Row
  <1> QED BY <1>3, <1>4

LEMMA RowWrites ==
    ASSUME NEW r \in Request, r.row # NoRow, Past(r.row), Sound(r.row), CasWins(r.row),
           r.reasons \in SUBSET Reason, r.ord.facts \in Facts, conf \in Rows,
           conf' = Bumped(r.row, [r.row EXCEPT !.reasons = r.reasons,
                                               !.fingerprint = r.ord.facts])
    PROVE  Grows /\ conf' \in Row /\ Sound(conf)'
  <1>1. r.row \in Row /\ r.row = conf /\ conf \in Row
    BY RowFacts DEF Request, Rows, Past, CasWins
  <1>2. conf' \in Row BY <1>1, ChangedType
  <1>3. /\ conf'.version = conf.version + 1
        /\ conf'.resolution = conf.resolution
        /\ conf'.reviewed = conf.reviewed
        /\ conf'.resolutionFingerprint = conf.resolutionFingerprint
    BY <1>1 DEF Bumped, Row
  <1>4. conf' # NoRow BY <1>2, RowFacts
  <1> QED BY <1>1, <1>2, <1>3, <1>4 DEF Grows, Sound

LEMMA EvaluateKeeps ==
    ASSUME NEW a \in Actors, IInv, Evaluate(a) PROVE IInv'
  <1>0. TypeOK /\ TypeOK' /\ Sound(conf) BY EvaluateType DEF IInv
  <1>r. PICK r : r = work[a] OBVIOUS
  <1>1. r \in Request /\ conf \in Rows /\ conf' \in Rows /\ r.row \in Rows
        /\ r.reasons \in SUBSET Reason /\ r.ord.facts \in Facts
    BY <1>0, <1>r DEF TypeOK, Rows, Request, Order
  <1>2. payload' = payload /\ seen' = seen
    BY DEF Evaluate, FindRow, CreateRow, RowChanges, RowStands, RereadRow
  <1>3. Past(r.row) /\ Sound(r.row)
    BY <1>r DEF IInv, Actors, BookerOK, MerchantOK, Holds
  <1>4. conf' = conf => Grows /\ (conf # NoRow => conf' # NoRow) /\ Sound(conf)'
    BY <1>0 DEF Grows, Sound
  <1>5. CASE /\ conf' = conf /\ r.pc = "facts"
             /\ \E reasons \in Evaluations(r.ord) :
                  MovesTo(a, [r EXCEPT !.pc = "row", !.reasons = reasons, !.row = conf])
    <2>1. PICK reasons, next :
            /\ MovesTo(a, next)
            /\ next = [r EXCEPT !.pc = "row", !.reasons = reasons, !.row = conf]
      BY <1>5
    <2>2. /\ \A facts : BookerOK(r, facts) => BookerOK(next, facts)'
          /\ \A screen \in Rows : MerchantOK(r, screen) => MerchantOK(next, screen)'
      BY <1>0, <1>1, <1>5, <2>1, FindRowKeeps
    <2> QED BY <1>0, <1>r, <1>2, <1>4, <1>5, <2>1, <2>2, ActorMoves
  <1>6. CASE /\ conf = NoRow /\ r.pc = "row"
             /\ conf' = NewRow(r.reasons, r.ord.facts)
             /\ MovesTo(a, [r EXCEPT !.pc = "judge", !.row = conf', !.reasons = {}])
    <2>1. conf' \in Row /\ conf'.resolution = Unresolved
      BY <1>1, <1>6, NewRowType DEF NewRow
    <2>2. Grows /\ (conf # NoRow => conf' # NoRow) /\ Sound(conf)'
      BY <1>6, <2>1 DEF Grows, Sound
    <2>3. PICK next : /\ MovesTo(a, next)
                      /\ next = [r EXCEPT !.pc = "judge", !.row = conf', !.reasons = {}]
      BY <1>6
    <2>4. /\ \A facts : BookerOK(r, facts) => BookerOK(next, facts)'
          /\ \A screen \in Rows : MerchantOK(r, screen) => MerchantOK(next, screen)'
      BY <1>1, <1>6, <2>1, <2>3, InsertKeeps
    <2> QED BY <1>0, <1>r, <1>2, <2>2, <2>3, <2>4, ActorMoves
  <1>7. CASE /\ MovesTo(a, [r EXCEPT !.pc = "reread", !.row = NoRow, !.reasons = {}])
             /\ r.pc = "row"
             /\ \/ conf' = conf /\ conf # NoRow /\ r.row = NoRow
                \/ /\ r.row # NoRow
                   /\ \/ /\ CasWins(r.row)
                         /\ conf' = Bumped(r.row, [r.row EXCEPT !.reasons = r.reasons,
                                                                !.fingerprint = r.ord.facts])
                      \/ ~CasWins(r.row) /\ conf' = conf
                \/ /\ conf' = conf /\ r.row # NoRow
                   /\ r.row.fingerprint = r.ord.facts
    <2>1. Grows /\ conf' \in Row /\ Sound(conf)' /\ conf' # NoRow
      <3>1. CASE conf' = conf
        <4>1. conf # NoRow BY <1>3, <1>7, <3>1 DEF Past
        <4> QED BY <1>1, <1>4, <3>1, <4>1, RowFacts DEF Rows
      <3>2. CASE conf' # conf
        BY <1>1, <1>3, <1>7, <3>2, RowWrites, RowFacts
      <3> QED BY <3>1, <3>2
    <2>2. ASSUME NEW screen \in Rows, MerchantOK(r, screen), r.kind \in Resolutions
          PROVE  /\ screen # NoRow
                 /\ (conf'.version = screen.version => conf'.fingerprint = r.ord.facts)
      <3>1. /\ screen # NoRow /\ r.row # NoRow /\ screen.version <= r.row.version
            /\ conf # NoRow /\ r.row.version <= conf.version
            /\ (r.row.version = conf.version => r.row = conf)
        BY <1>7, <2>2 DEF MerchantOK, Fits, Holds, Past
      <3>2. r.row \in Row /\ screen \in Row /\ conf \in Row
        BY <1>1, <3>1, RowFacts DEF Rows
      <3>3. CASE conf' = conf /\ r.row.fingerprint = r.ord.facts
        BY <3>1, <3>2, <3>3 DEF Row
      <3>4. CASE \/ /\ CasWins(r.row)
                    /\ conf' = Bumped(r.row, [r.row EXCEPT !.reasons = r.reasons,
                                                           !.fingerprint = r.ord.facts])
                 \/ ~CasWins(r.row) /\ conf' = conf
        BY <1>1, <1>7, <2>2, <3>4, NewerThanSeen
      <3> QED BY <1>7, <3>1, <3>3, <3>4
    <2>3. PICK next : /\ MovesTo(a, next)
                      /\ next = [r EXCEPT !.pc = "reread", !.row = NoRow, !.reasons = {}]
      BY <1>7
    <2>4. /\ \A facts : BookerOK(r, facts) => BookerOK(next, facts)'
          /\ \A screen \in Rows : MerchantOK(r, screen) => MerchantOK(next, screen)'
      BY <1>1, <1>7, <2>1, <2>2, <2>3, ReadAgainKeeps
    <2> QED BY <1>0, <1>r, <1>2, <2>1, <2>3, <2>4, ActorMoves
  <1>8. CASE /\ conf' = conf /\ r.pc = "row" /\ r.row # NoRow
             /\ r.row.fingerprint = r.ord.facts
             /\ MovesTo(a, [r EXCEPT !.pc = "judge", !.reasons = {}])
    <2>1. PICK next : MovesTo(a, next) /\ next = [r EXCEPT !.pc = "judge", !.reasons = {}]
      BY <1>8
    <2>2. /\ \A facts : BookerOK(r, facts) => BookerOK(next, facts)'
          /\ \A screen \in Rows : MerchantOK(r, screen) => MerchantOK(next, screen)'
      BY <1>1, <1>8, <2>1, StandsKeeps
    <2> QED BY <1>0, <1>r, <1>2, <1>4, <1>8, <2>1, <2>2, ActorMoves
  <1>9. CASE /\ conf' = conf /\ r.pc = "reread"
             /\ MovesTo(a, [r EXCEPT !.pc = "judge", !.row = conf])
    <2>1. PICK next : MovesTo(a, next) /\ next = [r EXCEPT !.pc = "judge", !.row = conf]
      BY <1>9
    <2>2. /\ \A facts : BookerOK(r, facts) => BookerOK(next, facts)'
          /\ \A screen \in Rows : MerchantOK(r, screen) => MerchantOK(next, screen)'
      BY <1>0, <1>1, <1>9, <2>1, RereadKeeps
    <2> QED BY <1>0, <1>r, <1>2, <1>4, <1>9, <2>1, <2>2, ActorMoves
  <1> QED BY <1>0, <1>r, <1>5, <1>6, <1>7, <1>8, <1>9, EvaluateMoves, Zenon

----------------------------------------------------------------------------
(* The gate. *)

\* An order's bookers step from one request record to another, and the row
\* stays as it is.
LEMMA GateMoves ==
    ASSUME NEW b \in Bookers, TypeOK, Gate(b)
    PROVE  /\ conf' = conf /\ seen' = seen /\ order' = order /\ changes' = changes
           /\ \/ /\ work[b].pc = "idle"
                 /\ MovesTo(b, [work[b] EXCEPT !.pc = "load", !.kind = "gate"])
                 /\ payload' = [payload EXCEPT ![b] = order.facts]
              \/ /\ work[b].pc = "load"
                 /\ MovesTo(b, [work[b] EXCEPT !.pc = "facts", !.ord = order])
                 /\ payload' = payload
              \/ /\ work[b].pc = "judge" /\ work[b].kind = "gate"
                 /\ Cleared(work[b].row, payload[b])
                 /\ MovesTo(b, [work[b] EXCEPT !.pc = "released"])
                 /\ payload' = payload
              \/ MovesTo(b, Idle) /\ payload' = payload
  <1>1. CASE LoadOrder(b)
    BY <1>1, Zenon DEF LoadOrder, MovesTo, TypeOK, Actors
  <1>2. CASE StartGate(b)
    BY <1>2, Zenon DEF StartGate, MovesTo, TypeOK, Actors
  <1>3. CASE Release(b)
    <2>1. Cleared(work[b].row, payload[b])
      BY <1>3 DEF Release, WouldHold
    <2> QED BY <1>3, <2>1, Zenon DEF Release, Judging, MovesTo, TypeOK, Actors
  <1>4. CASE Hold(b) \/ EngineFails(b)
    BY <1>4 DEF Hold, EngineFails, MovesTo
  <1> QED BY <1>1, <1>2, <1>3, <1>4 DEF Gate

LEMMA GateKeeps == ASSUME NEW b \in Bookers, IInv, Gate(b) PROVE IInv'
  <1>0. TypeOK /\ b \in Actors /\ Sound(conf) BY DEF IInv, Actors
  <1>r. PICK r, f : r = work[b] /\ f = payload[b] OBVIOUS
  <1>1. r \in Request /\ order \in Order /\ conf \in Rows /\ f \in Facts /\ BookerOK(r, f)
        /\ order.facts \in Facts
    BY <1>0, <1>r DEF IInv, TypeOK, Rows, Order
  <1>2. conf' = conf /\ seen' = seen /\ order' = order /\ changes' = changes
    BY <1>0, GateMoves
  <1>3. Grows /\ (conf # NoRow => conf' # NoRow) /\ Sound(conf)'
    BY <1>0, <1>2 DEF Grows, Sound
  <1>4. payload = [payload EXCEPT ![b] = f]
    BY <1>0, <1>r DEF TypeOK
  <1>5. ASSUME NEW next \in Request, NEW facts \in Facts, MovesTo(b, next),
               payload' = [payload EXCEPT ![b] = facts], BookerOK(next, facts)'
        PROVE  IInv'
    <2>1. work' \in [Actors -> Request] BY <1>0, <1>5, WorkEdits DEF MovesTo
    <2>2. payload' \in [Bookers -> Facts] BY <1>0, <1>5 DEF TypeOK
    <2>3. TypeOK' BY <1>0, <1>2, <2>1, <2>2 DEF TypeOK
    <2> QED BY <1>2, <1>3, <1>5, <2>3, BookerMoves DEF MovesTo
  <1>6. CASE /\ r.pc = "idle"
             /\ MovesTo(b, [r EXCEPT !.pc = "load", !.kind = "gate"])
             /\ payload' = [payload EXCEPT ![b] = order.facts]
    <2>1. PICK next, facts : /\ next = [r EXCEPT !.pc = "load", !.kind = "gate"]
                             /\ facts = order.facts
      OBVIOUS
    <2>2. next \in Request BY <1>1, <2>1, RequestEdits, RowFacts
    <2>3. BookerOK(next, facts)' BY <1>1, <1>2, <1>6, <2>1, LoadKeeps
    <2> QED BY <1>1, <1>5, <1>6, <2>1, <2>2, <2>3
  <1>7. CASE /\ r.pc = "load"
             /\ MovesTo(b, [r EXCEPT !.pc = "facts", !.ord = order])
             /\ payload' = payload
    <2>1. PICK next : next = [r EXCEPT !.pc = "facts", !.ord = order] OBVIOUS
    <2>2. next \in Request BY <1>1, <2>1, RequestEdits, RowFacts
    <2>3. BookerOK(next, f)' BY <1>1, <1>2, <1>7, <2>1, StartGateKeeps
    <2> QED BY <1>1, <1>4, <1>5, <1>7, <2>1, <2>2, <2>3
  <1>8. CASE /\ r.pc = "judge" /\ r.kind = "gate" /\ Cleared(r.row, f)
             /\ MovesTo(b, [r EXCEPT !.pc = "released"])
             /\ payload' = payload
    <2>1. PICK next : next = [r EXCEPT !.pc = "released"] OBVIOUS
    <2>2. next \in Request BY <1>1, <2>1, RequestEdits, RowFacts
    <2>3. BookerOK(next, f)' BY <1>1, <1>2, <1>8, <2>1, ReleaseKeeps
    <2> QED BY <1>1, <1>4, <1>5, <1>8, <2>1, <2>2, <2>3
  <1>9. CASE MovesTo(b, Idle) /\ payload' = payload
    <2>1. BookerOK(Idle, f)' BY <1>1, RestKeeps
    <2>2. PICK next : next = Idle OBVIOUS
    <2>3. BookerOK(next, f)'
      BY <2>1, <2>2, <1>2 DEF BookerOK, Holds, Past, Sound, Idle
    <2> QED BY <1>1, <1>4, <1>5, <1>9, <2>2, <2>3, IdleType
  <1> QED BY <1>0, <1>r, <1>6, <1>7, <1>8, <1>9, GateMoves

----------------------------------------------------------------------------
(* The panel and the resolutions. *)

\* What Resolve writes, and what a refusal or an answer leaves on the screen.
Resolution(r, screen) ==
    Bumped(r.row, [r.row EXCEPT !.resolution = r.kind,
                                !.resolutionFingerprint = r.ord.facts,
                                !.reviewed = ReviewOf(screen)])

LEMMA PanelMoves ==
    ASSUME NEW m \in Merchants, TypeOK, Panel(m)
    PROVE  /\ payload' = payload /\ order' = order /\ changes' = changes
           /\ \/ /\ conf' = conf /\ seen' = seen
                 /\ \E kind \in {"panel"} \cup Resolutions :
                      /\ kind = "panel" \/ seen[m] # NoRow
                      /\ MovesTo(m, [work[m] EXCEPT !.pc = "facts", !.kind = kind,
                                                    !.ord = order])
              \/ /\ conf' = conf /\ MovesTo(m, Idle)
                 /\ \/ seen' = [seen EXCEPT ![m] = work[m].row]
                    \/ seen' = [seen EXCEPT ![m] = seen[m]]
              \/ /\ conf' = conf /\ seen' = seen
                 /\ work[m].pc = "judge" /\ work[m].kind \in Resolutions
                 /\ work[m].row.version = seen[m].version
                 /\ ~(work[m].kind = "VERIFIED" /\ Level(work[m].row.reasons) = 2)
                 /\ MovesTo(m, [work[m] EXCEPT !.pc = "resolve"])
              \/ /\ work[m].pc = "resolve" /\ CasWins(work[m].row)
                 /\ conf' = Resolution(work[m], seen[m])
                 /\ seen' = seen
                 /\ MovesTo(m, [work[m] EXCEPT !.pc = "reread", !.kind = "panel",
                                               !.row = NoRow])
  <1>1. CASE StartPanel(m)
    BY <1>1, Zenon DEF StartPanel, MovesTo, TypeOK, Actors
  <1>2. CASE \E kind \in Resolutions : StartResolution(m, kind)
    <2>1. PICK kind \in Resolutions : StartResolution(m, kind) BY <1>2
    <2> QED BY <2>1, ZenonT(30) DEF StartResolution, MovesTo, TypeOK, Actors
  <1>3. CASE ShowDecision(m) \/ Refuse(m)
    BY <1>3 DEF ShowDecision, Refuse, Show, MovesTo
  <1>4. CASE Accept(m)
    <2>1. /\ work[m].row.version = seen[m].version
          /\ ~(work[m].kind = "VERIFIED" /\ Level(work[m].row.reasons) = 2)
      BY <1>4 DEF Accept, Objection, Changed
    <2> QED BY <1>4, <2>1, Zenon DEF Accept, Judging, MovesTo, TypeOK, Actors
  <1>5. CASE Resolve(m)
    <2>1. CASE CasWins(work[m].row)
      BY <1>5, <2>1, Zenon DEF Resolve, Resolution, MovesTo, TypeOK, Actors
    <2>2. CASE ~CasWins(work[m].row)
      BY <1>5, <2>2 DEF Resolve, Show, MovesTo
    <2> QED BY <2>1, <2>2
  <1> QED BY <1>1, <1>2, <1>3, <1>4, <1>5 DEF Panel

\* The write of a resolution lands on the very row its merchant has on screen.
LEMMA ResolutionWrites ==
    ASSUME NEW r \in Request, NEW screen \in Rows, conf \in Rows, MerchantOK(r, screen),
           r.pc = "resolve", CasWins(r.row)
    PROVE  /\ conf \in Row /\ screen = conf /\ r.row = conf
           /\ conf.fingerprint = r.ord.facts
           /\ Level(conf.reasons) <= ResolutionLevel(r.kind)
  <1>1. /\ r.row # NoRow /\ conf # NoRow /\ r.row = conf
        /\ r.kind \in Resolutions /\ r.row.version = screen.version
        /\ Level(r.row.reasons) <= ResolutionLevel(r.kind)
        /\ r.row.fingerprint = r.ord.facts
        /\ screen # NoRow
    BY DEF MerchantOK, Fits, Holds, Past, CasWins
  <1>2. screen = conf BY <1>1 DEF MerchantOK, Past
  <1> QED BY <1>1, <1>2, RowFacts

LEMMA ResolveWrites ==
    ASSUME NEW r \in Request, NEW screen \in Rows, conf \in Rows, MerchantOK(r, screen),
           r.pc = "resolve", CasWins(r.row), conf' = Resolution(r, screen)
    PROVE  conf' \in Row /\ Grows /\ Sound(conf)'
  <1>1. /\ conf \in Row /\ screen = conf /\ r.row = conf
        /\ conf.fingerprint = r.ord.facts
        /\ Level(conf.reasons) <= ResolutionLevel(r.kind)
        /\ r.ord.facts \in Facts /\ r.kind \in Resolutions
    BY ResolutionWrites DEF Request, Order, MerchantOK, Fits
  <1>2. conf' \in Row BY <1>1, ResolvedType DEF Resolution
  <1>3. /\ conf'.version = conf.version + 1
        /\ conf'.resolution = r.kind
        /\ conf'.resolutionFingerprint = r.ord.facts
        /\ conf'.reviewed = ReviewOf(conf)
    BY <1>1 DEF Resolution, Bumped, Row
  <1>4. conf'.reviewed.fingerprint = r.ord.facts /\ conf'.reviewed.level = Level(conf.reasons)
    BY <1>1, <1>3 DEF ReviewOf
  <1>5. conf' # NoRow BY <1>2, RowFacts
  <1> QED BY <1>1, <1>2, <1>3, <1>4, <1>5 DEF Grows, Sound

LEMMA PanelKeeps == ASSUME NEW m \in Merchants, IInv, Panel(m) PROVE IInv'
  <1>0. TypeOK /\ m \in Actors /\ Sound(conf) BY DEF IInv, Actors
  <1>r. PICK r, s : r = work[m] /\ s = seen[m] OBVIOUS
  <1>1. r \in Request /\ order \in Order /\ conf \in Rows /\ s \in Rows /\ MerchantOK(r, s)
        /\ r.row \in Rows
    BY <1>0, <1>r DEF IInv, TypeOK, Rows, Request
  <1>2. payload' = payload /\ order' = order /\ changes' = changes
    BY <1>0, PanelMoves
  <1>3. conf' = conf => Grows /\ (conf # NoRow => conf' # NoRow) /\ Sound(conf)'
    BY <1>0 DEF Grows, Sound
  <1>4. seen = [seen EXCEPT ![m] = s]
    BY <1>0, <1>r DEF TypeOK
  <1>5. ASSUME NEW next \in Request, NEW screen \in Rows, MovesTo(m, next),
               seen' = [seen EXCEPT ![m] = screen], MerchantOK(next, screen)',
               conf' \in Rows, Grows, conf # NoRow => conf' # NoRow, Sound(conf)'
        PROVE  IInv'
    <2>1. work' \in [Actors -> Request] BY <1>0, <1>5, WorkEdits DEF MovesTo
    <2>2. seen' \in [Merchants -> Rows] BY <1>0, <1>5 DEF TypeOK, Rows
    <2>3. TypeOK' BY <1>0, <1>2, <1>5, <2>1, <2>2 DEF TypeOK, Rows
    <2> QED BY <1>2, <1>5, <2>3, MerchantMoves DEF MovesTo
  <1>6. CASE /\ conf' = conf /\ seen' = seen
             /\ \E kind \in {"panel"} \cup Resolutions :
                  /\ kind = "panel" \/ s # NoRow
                  /\ MovesTo(m, [r EXCEPT !.pc = "facts", !.kind = kind, !.ord = order])
    <2>0. PICK kind \in {"panel"} \cup Resolutions :
            /\ kind = "panel" \/ s # NoRow
            /\ MovesTo(m, [r EXCEPT !.pc = "facts", !.kind = kind, !.ord = order])
      BY <1>6
    <2>1. PICK next :
            /\ kind = "panel" \/ s # NoRow
            /\ MovesTo(m, next)
            /\ next = [r EXCEPT !.pc = "facts", !.kind = kind, !.ord = order]
      BY <2>0
    <2>2. next \in Request BY <1>1, <2>1, RequestEdits, RowFacts
    <2>3. MerchantOK(next, s)' BY <1>1, <1>6, <2>1, StartKeeps
    <2> QED BY <1>1, <1>3, <1>4, <1>5, <1>6, <2>1, <2>2, <2>3
  <1>7. CASE /\ conf' = conf /\ MovesTo(m, Idle)
             /\ \/ seen' = [seen EXCEPT ![m] = r.row]
                \/ seen' = [seen EXCEPT ![m] = s]
    <2>0. PICK screen \in {r.row, s} : seen' = [seen EXCEPT ![m] = screen]
      BY <1>7
    <2>1. PICK next : next = Idle /\ seen' = [seen EXCEPT ![m] = screen]
      BY <2>0
    <2>a. screen \in Rows BY <1>1, <2>1
    <2>2. Past(screen)'
      BY <1>1, <1>7, <2>1 DEF MerchantOK, Holds, Past
    <2>3. MerchantOK(next, screen)'
      BY <1>1, <2>1, <2>2, IdleType DEF MerchantOK, Holds, Past, Sound, Fits
    <2> QED BY <1>1, <1>3, <1>5, <1>7, <2>1, <2>a, <2>3, IdleType
  <1>8. CASE /\ conf' = conf /\ seen' = seen
             /\ r.pc = "judge" /\ r.kind \in Resolutions
             /\ r.row.version = s.version
             /\ ~(r.kind = "VERIFIED" /\ Level(r.row.reasons) = 2)
             /\ MovesTo(m, [r EXCEPT !.pc = "resolve"])
    <2>1. PICK next : next = [r EXCEPT !.pc = "resolve"] OBVIOUS
    <2>2. next \in Request BY <1>1, <2>1, RequestEdits, RowFacts
    <2>3. MerchantOK(next, s)' BY <1>1, <1>8, <2>1, AcceptKeeps
    <2> QED BY <1>1, <1>3, <1>4, <1>5, <1>8, <2>1, <2>2, <2>3
  <1>9. CASE /\ r.pc = "resolve" /\ CasWins(r.row)
             /\ conf' = Resolution(r, s)
             /\ seen' = seen
             /\ MovesTo(m, [r EXCEPT !.pc = "reread", !.kind = "panel", !.row = NoRow])
    <2>1. PICK next : next = [r EXCEPT !.pc = "reread", !.kind = "panel", !.row = NoRow]
      OBVIOUS
    <2>2. next \in Request BY <1>1, <2>1, RequestEdits, RowFacts
    <2>3. conf' \in Row /\ Grows /\ Sound(conf)'
      BY <1>1, <1>9, ResolveWrites
    <2>4. conf' \in Rows /\ conf' # NoRow BY <2>3, RowFacts DEF Rows
    <2>5. MerchantOK(next, s)' BY <1>1, <2>1, <2>3, ResolvedKeeps
    <2> QED BY <1>1, <1>4, <1>5, <1>9, <2>1, <2>2, <2>3, <2>4, <2>5
  <1> QED BY <1>0, <1>r, <1>6, <1>7, <1>8, <1>9, PanelMoves

----------------------------------------------------------------------------
(* The order's own moves. *)

LEMMA OutcomeWrites ==
    ASSUME conf \in Row, conf' = [conf EXCEPT !.outcome = "recorded", !.version = @ + 1],
           Sound(conf)
    PROVE  conf' \in Row /\ Grows /\ Sound(conf)'
  <1>1. conf' \in Row BY OutcomeType
  <1>2. /\ conf'.version = conf.version + 1
        /\ conf'.resolution = conf.resolution
        /\ conf'.reviewed = conf.reviewed
        /\ conf'.resolutionFingerprint = conf.resolutionFingerprint
    BY DEF Row
  <1>3. conf' # NoRow /\ conf # NoRow BY <1>1, RowFacts
  <1> QED BY <1>1, <1>2, <1>3 DEF Grows, Sound

LEMMA ChangeKeeps ==
    ASSUME IInv, NEW o \in Order, Change(o) PROVE IInv'
  <1>1. TypeOK' BY DEF IInv, TypeOK, Change
  <1>2. Grows /\ (conf # NoRow => conf' # NoRow) /\ Sound(conf)'
    BY DEF IInv, Change, Grows, Sound
  <1> QED BY <1>1, <1>2, NobodyMoves DEF Change

LEMMA OrderKeeps == ASSUME IInv, OrderMoves PROVE IInv'
  <1>0. order \in Order /\ order.facts \in Facts
        /\ order.status \in {"draft", "confirmed", "cancelled"}
    BY DEF IInv, TypeOK, Order
  <1>1. CASE EditOrder
    <2>1. PICK f \in Facts : Change([order EXCEPT !.facts = f])
      BY <1>1 DEF EditOrder
    <2>2. [order EXCEPT !.facts = f] \in Order BY <1>0 DEF Order
    <2> QED BY <2>1, <2>2, ChangeKeeps
  <1>2. CASE ConfirmOrder
    <2>1. [order EXCEPT !.status = "confirmed"] \in Order BY <1>0 DEF Order
    <2> QED BY <1>2, <2>1, ChangeKeeps DEF ConfirmOrder
  <1>3. CASE CancelOrder
    <2>1. [order EXCEPT !.status = "cancelled"] \in Order BY <1>0 DEF Order
    <2> QED BY <1>3, <2>1, ChangeKeeps DEF CancelOrder
  <1>4. CASE RecordOutcome
    <2>1. /\ conf' = [conf EXCEPT !.outcome = "recorded", !.version = @ + 1]
          /\ order' = order /\ changes' = changes
          /\ work' = work /\ seen' = seen /\ payload' = payload
          /\ conf \in Row
      BY <1>4, RowFacts DEF RecordOutcome, IInv, TypeOK, Rows
    <2>2. conf' \in Row /\ Grows /\ Sound(conf)'
      BY <2>1, OutcomeWrites DEF IInv
    <2>3. TypeOK' /\ conf' # NoRow BY <2>1, <2>2, RowFacts DEF IInv, TypeOK
    <2> QED BY <2>1, <2>2, <2>3, NobodyMoves
  <1> QED BY <1>1, <1>2, <1>3, <1>4 DEF OrderMoves

----------------------------------------------------------------------------
(* The results. *)

LEMMA Start == Init => IInv
  <1> SUFFICES ASSUME Init PROVE IInv OBVIOUS
  <1>1. order \in Order /\ conf = NoRow
    BY DEF Init, Order
  <1>2. TypeOK
    BY <1>1, IdleType DEF Init, TypeOK, Order
  <1>3. \A a \in Actors : work[a] = Idle
    BY DEF Init
  <1>4. \A b \in Bookers : BookerOK(work[b], payload[b])
    BY <1>1, <1>3, IdleType DEF Actors, BookerOK, Holds, Past, Sound
  <1>5. \A m \in Merchants : MerchantOK(work[m], seen[m])
    <2>1. \A m \in Merchants : seen[m] = NoRow BY DEF Init
    <2> QED BY <1>1, <1>3, <2>1, IdleType DEF Actors, MerchantOK, Holds, Past, Sound, Fits
  <1> QED BY <1>1, <1>2, <1>4, <1>5 DEF IInv, Sound

LEMMA Kept == IInv /\ [Next]_vars => IInv'
  <1> SUFFICES ASSUME IInv, [Next]_vars PROVE IInv' OBVIOUS
  <1>1. CASE UNCHANGED vars
    <2>1. TypeOK' BY <1>1 DEF IInv, TypeOK, vars
    <2>2. Grows /\ (conf # NoRow => conf' # NoRow) /\ Sound(conf)'
      BY <1>1 DEF IInv, Grows, Sound, vars
    <2> QED BY <1>1, <2>1, <2>2, NobodyMoves DEF vars
  <1>2. CASE Next
    BY <1>2, OrderKeeps, EvaluateKeeps, GateKeeps, PanelKeeps DEF Next
  <1> QED BY <1>1, <1>2

LEMMA Invariance == Spec => []IInv
  BY Start, Kept, PTL DEF Spec

\* Every record of the gate keeps its shape: the row, the requests under way,
\* what people have on screen (order-confidence.entity.js, .service.js).
THEOREM Typing == Spec => []TypeOK
  <1>1. IInv => TypeOK BY DEF IInv
  <1> QED BY <1>1, Invariance, PTL

\* A booking that needed a merchant's word ships what a merchant reviewed, on a
\* word strong enough for it (checkBookingGate, effectiveState).
THEOREM Reviewed == Spec => []ReleasedOnReview
  <1>1. IInv => ReleasedOnReview
    <2> SUFFICES ASSUME IInv, NEW b \in Bookers, work[b].pc = "released",
                        ~Ready(work[b].row.reasons)
                 PROVE  /\ work[b].row.reviewed.fingerprint = payload[b]
                        /\ ResolutionLevel(work[b].row.resolution) >= work[b].row.reviewed.level
                        /\ ResolutionLevel(work[b].row.resolution) >= Level(work[b].row.reasons)
      BY DEF ReleasedOnReview
    <2>1. PICK row, f : row = work[b].row /\ f = payload[b] OBVIOUS
    <2>2. /\ row # NoRow /\ Sound(row) /\ Cleared(row, f) /\ ~Ready(row.reasons)
      BY <2>1 DEF IInv, BookerOK, Holds
    <2>3. row \in Row BY <2>1, <2>2, RowFacts DEF IInv, TypeOK, Actors, Request, Rows
    <2>4. /\ row.resolution # Unresolved /\ row.resolutionFingerprint = f
          /\ ResolutionLevel(row.resolution) >= Level(row.reasons)
      BY <2>2 DEF Cleared
    <2>5. /\ row.reviewed.fingerprint = f
          /\ row.reviewed.level <= ResolutionLevel(row.resolution)
      BY <2>2, <2>4 DEF Sound
    <2>6. row.reviewed.level \in Nat /\ ResolutionLevel(row.resolution) \in Nat
      BY <2>3 DEF Row, Review, ResolutionLevel
    <2> QED BY <2>1, <2>4, <2>5, <2>6
  <1> QED BY <1>1, Invariance, PTL

\* A resolution is written over exactly the decision its merchant had on
\* screen, and is bound to the facts that decision was about (resolve).
THEOREM Resolved == Spec => ResolvesWhatWasSeen
  <1>1. IInv /\ [Next]_vars =>
          [conf # NoRow /\ conf'.resolutionFingerprint # conf.resolutionFingerprint =>
             \E m \in Merchants :
                /\ work[m].pc = "resolve"
                /\ seen[m] = conf
                /\ conf'.resolutionFingerprint = conf.fingerprint]_vars
    <2> SUFFICES ASSUME IInv, Next, conf # NoRow,
                        conf'.resolutionFingerprint # conf.resolutionFingerprint
                 PROVE  \E m \in Merchants :
                           /\ work[m].pc = "resolve"
                           /\ seen[m] = conf
                           /\ conf'.resolutionFingerprint = conf.fingerprint
      BY DEF vars
    <2>0. TypeOK /\ conf \in Row BY RowFacts DEF IInv, TypeOK, Rows
    <2>1. CASE OrderMoves
      BY <2>0, <2>1 DEF OrderMoves, EditOrder, ConfirmOrder, CancelOrder, Change,
         RecordOutcome, Row
    <2>2. ASSUME NEW a \in Actors, Evaluate(a) PROVE FALSE
      <3>r. PICK r : r = work[a] OBVIOUS
      <3>1. r \in Request /\ Past(r.row)
        BY <2>0, <3>r DEF IInv, TypeOK, Actors, BookerOK, MerchantOK, Holds
      <3>2. /\ CasWins(r.row) /\ r.row # NoRow
            /\ conf' = Bumped(r.row, [r.row EXCEPT !.reasons = r.reasons,
                                                   !.fingerprint = r.ord.facts])
        BY <2>0, <2>2, <3>r, EvaluateMoves
      <3>3. r.row = conf BY <3>1, <3>2 DEF Past, CasWins
      <3> QED BY <2>0, <3>2, <3>3 DEF Bumped, Row
    <2>3. ASSUME NEW b \in Bookers, Gate(b) PROVE FALSE
      BY <2>0, <2>3, GateMoves
    <2>4. ASSUME NEW m \in Merchants, Panel(m)
          PROVE  /\ work[m].pc = "resolve" /\ seen[m] = conf
                 /\ conf'.resolutionFingerprint = conf.fingerprint
      <3>r. PICK r, s : r = work[m] /\ s = seen[m] OBVIOUS
      <3>1. r \in Request /\ s \in Rows /\ MerchantOK(r, s)
        BY <2>0, <3>r DEF IInv, TypeOK, Actors, Rows
      <3>2. r.pc = "resolve" /\ CasWins(r.row) /\ conf' = Resolution(r, s)
        BY <2>0, <2>4, <3>r, PanelMoves
      <3>3. s = conf /\ r.row = conf /\ conf.fingerprint = r.ord.facts
        BY <2>0, <3>1, <3>2, ResolutionWrites DEF Rows
      <3>4. conf'.resolutionFingerprint = r.ord.facts
        BY <2>0, <3>2, <3>3 DEF Resolution, Bumped, Row
      <3> QED BY <3>r, <3>2, <3>3, <3>4
    <2> QED BY <2>1, <2>2, <2>3, <2>4 DEF Next
  <1> QED BY <1>1, Invariance, PTL DEF Spec, ResolvesWhatWasSeen

----------------------------------------------------------------------------
(* The refinement: compare-and-set on the version is compare-and-set on the  *)
(* row.                                                                      *)

LEMMA CopyMoves ==
    ASSUME NEW a \in Actors, NEW next, TypeOK, MovesTo(a, next)
    PROVE  Copies' = [Copies EXCEPT ![a] = next.row]
  BY DEF Copies, MovesTo, TypeOK

LEMMA CopyKept ==
    ASSUME NEW a \in Actors, NEW next, TypeOK, MovesTo(a, next), next.row = work[a].row
    PROVE  Copies' = Copies
  BY DEF Copies, MovesTo, TypeOK

\* What a request holds of the row after a move that only turns a page.
LEMMA MovedRows ==
    ASSUME NEW r \in Request
    PROVE  /\ [r EXCEPT !.pc = "reread", !.row = NoRow, !.reasons = {}].row = NoRow
           /\ [r EXCEPT !.pc = "reread", !.kind = "panel", !.row = NoRow].row = NoRow
           /\ [r EXCEPT !.pc = "resolve"].row = r.row
  BY DEF Request

Stutters == UNCHANGED <<conf, Copies, seen>>

LEMMA EvaluateRefines ==
    ASSUME IInv, NEW a \in Actors, Evaluate(a)
    PROVE  Agreed!Next \/ Stutters
  <1>r. PICK r : r = work[a] OBVIOUS
  <1>0. TypeOK /\ r \in Request /\ Past(r.row) /\ r.row \in Rows
    BY <1>r DEF IInv, TypeOK, Actors, BookerOK, MerchantOK, Holds, Request, Rows
  <1>1. seen' = seen
    BY DEF Evaluate, FindRow, CreateRow, RowChanges, RowStands, RereadRow
  <1>2. ASSUME conf' = conf, NEW next, MovesTo(a, next), next.row \in {r.row, conf, NoRow}
        PROVE  Agreed!Next \/ Stutters
    <2>1. CASE next.row = r.row
      BY <1>0, <1>1, <1>2, <1>r, <2>1, CopyKept DEF Stutters
    <2>2. CASE next.row = conf
      BY <1>0, <1>1, <1>2, <2>2, CopyMoves DEF Agreed!Next, Agreed!Read, Agreed!Has
    <2>3. CASE next.row = NoRow
      BY <1>0, <1>1, <1>2, <2>3, CopyMoves DEF Agreed!Next, Agreed!Drop, Agreed!Has
    <2> QED BY <1>2, <2>1, <2>2, <2>3
  <1>3. CASE conf' = conf
    <2>1. \/ \E reasons : MovesTo(a, [r EXCEPT !.pc = "row", !.reasons = reasons, !.row = conf])
          \/ MovesTo(a, [r EXCEPT !.pc = "reread", !.row = NoRow, !.reasons = {}])
          \/ MovesTo(a, [r EXCEPT !.pc = "judge", !.reasons = {}])
          \/ MovesTo(a, [r EXCEPT !.pc = "judge", !.row = conf])
          \/ conf = NoRow /\ MovesTo(a, [r EXCEPT !.pc = "judge", !.row = conf', !.reasons = {}])
      BY <1>0, <1>r, EvaluateMoves
    <2>2. ASSUME NEW reasons, MovesTo(a, [r EXCEPT !.pc = "row", !.reasons = reasons, !.row = conf])
          PROVE  Agreed!Next \/ Stutters
      <3>1. PICK next : next = [r EXCEPT !.pc = "row", !.reasons = reasons, !.row = conf]
        OBVIOUS
      <3> QED BY <1>0, <1>2, <1>3, <2>2, <3>1 DEF Request
    <2>3. CASE MovesTo(a, [r EXCEPT !.pc = "reread", !.row = NoRow, !.reasons = {}])
      <3>1. PICK next : next = [r EXCEPT !.pc = "reread", !.row = NoRow, !.reasons = {}]
        OBVIOUS
      <3> QED BY <1>0, <1>2, <1>3, <2>3, <3>1 DEF Request
    <2>4. CASE MovesTo(a, [r EXCEPT !.pc = "judge", !.reasons = {}])
      <3>1. PICK next : next = [r EXCEPT !.pc = "judge", !.reasons = {}]
        OBVIOUS
      <3> QED BY <1>0, <1>2, <1>3, <2>4, <3>1 DEF Request
    <2>5. CASE MovesTo(a, [r EXCEPT !.pc = "judge", !.row = conf])
      <3>1. PICK next : next = [r EXCEPT !.pc = "judge", !.row = conf]
        OBVIOUS
      <3> QED BY <1>0, <1>2, <1>3, <2>5, <3>1 DEF Request
    <2>6. CASE conf = NoRow /\ MovesTo(a, [r EXCEPT !.pc = "judge", !.row = conf', !.reasons = {}])
      <3>1. PICK next : next = [r EXCEPT !.pc = "judge", !.row = conf', !.reasons = {}]
        OBVIOUS
      <3> QED BY <1>0, <1>2, <1>3, <2>6, <3>1 DEF Request
    <2> QED BY <2>1, <2>2, <2>3, <2>4, <2>5, <2>6
  <1>4. CASE /\ conf = NoRow
             /\ conf' = NewRow(r.reasons, r.ord.facts)
             /\ MovesTo(a, [r EXCEPT !.pc = "judge", !.row = conf', !.reasons = {}])
    <2>0. PICK next : next = [r EXCEPT !.pc = "judge", !.row = conf', !.reasons = {}]
      OBVIOUS
    <2>1. MovesTo(a, next) /\ next.row = conf'
      BY <1>0, <1>4, <2>0 DEF Request
    <2>2. conf' # NoRow /\ conf'.version = 1 /\ conf'.resolution = "none"
      BY <1>4 DEF NewRow, NoRow, Unresolved
    <2>3. Copies' = [Copies EXCEPT ![a] = conf']
      BY <1>0, <2>1, CopyMoves
    <2> QED BY <1>1, <1>4, <2>2, <2>3 DEF Agreed!Next, Agreed!First, Agreed!Has
  <1>5. CASE /\ r.row # NoRow /\ CasWins(r.row)
             /\ conf' = Bumped(r.row, [r.row EXCEPT !.reasons = r.reasons,
                                                    !.fingerprint = r.ord.facts])
             /\ MovesTo(a, [r EXCEPT !.pc = "reread", !.row = NoRow, !.reasons = {}])
    <2>1. r.row = conf /\ conf # NoRow /\ conf \in Row
      BY <1>0, <1>5, RowFacts DEF Past, CasWins
    <2>2. conf' = [conf EXCEPT !.version = @ + 1, !.reasons = conf'.reasons,
                               !.fingerprint = conf'.fingerprint]
      <3>1. PICK c, n : c = conf /\ n = conf'
        OBVIOUS
      <3>2. c \in Row /\ n = Bumped(c, [c EXCEPT !.reasons = r.reasons,
                                               !.fingerprint = r.ord.facts])
        BY <1>5, <2>1, <3>1
      <3>3. n.reasons = r.reasons /\ n.fingerprint = r.ord.facts
        BY <3>2 DEF Bumped, Row
      <3>4. n = [c EXCEPT !.version = @ + 1, !.reasons = n.reasons, !.fingerprint = n.fingerprint]
        BY <3>2, <3>3 DEF Bumped, Row
      <3> QED BY <3>1, <3>4
    <2>3. PICK next : MovesTo(a, next) /\ next.row = NoRow
      BY <1>0, <1>5, MovedRows, Zenon
    <2>4. Copies' = [Copies EXCEPT ![a] = NoRow]
      BY <1>0, <2>3, CopyMoves
    <2>5. Copies[a] = conf
      BY <1>r, <2>1 DEF Copies
    <2>6. Agreed!Revise(a)
      BY <1>1, <2>1, <2>2, <2>4, <2>5 DEF Agreed!Revise, Agreed!Has
    <2> QED BY <2>6 DEF Agreed!Next
  <1> QED BY <1>0, <1>r, <1>3, <1>4, <1>5, EvaluateMoves

LEMMA GateRefines ==
    ASSUME IInv, NEW b \in Bookers, Gate(b)
    PROVE  Agreed!Next \/ Stutters
  <1>r. PICK r : r = work[b] OBVIOUS
  <1>0. TypeOK /\ r \in Request /\ b \in Actors
    BY <1>r DEF IInv, TypeOK, Actors
  <1>1. conf' = conf /\ seen' = seen
    BY <1>0, GateMoves
  <1>2. \/ MovesTo(b, [r EXCEPT !.pc = "load", !.kind = "gate"])
        \/ MovesTo(b, [r EXCEPT !.pc = "facts", !.ord = order])
        \/ MovesTo(b, [r EXCEPT !.pc = "released"])
        \/ MovesTo(b, Idle)
    BY <1>0, <1>r, GateMoves
  <1>3. ASSUME NEW next, MovesTo(b, next), next.row = r.row
        PROVE  Stutters
    BY <1>0, <1>1, <1>3, <1>r, CopyKept DEF Stutters
  <1>4. CASE MovesTo(b, [r EXCEPT !.pc = "load", !.kind = "gate"])
    <2>1. PICK next : next = [r EXCEPT !.pc = "load", !.kind = "gate"]
      OBVIOUS
    <2> QED BY <1>0, <1>3, <1>4, <2>1 DEF Request
  <1>5. CASE MovesTo(b, [r EXCEPT !.pc = "facts", !.ord = order])
    <2>1. PICK next : next = [r EXCEPT !.pc = "facts", !.ord = order]
      OBVIOUS
    <2> QED BY <1>0, <1>3, <1>5, <2>1 DEF Request
  <1>6. CASE MovesTo(b, [r EXCEPT !.pc = "released"])
    <2>1. PICK next : next = [r EXCEPT !.pc = "released"]
      OBVIOUS
    <2> QED BY <1>0, <1>3, <1>6, <2>1 DEF Request
  <1>7. CASE MovesTo(b, Idle)
    <2>1. Copies' = [Copies EXCEPT ![b] = NoRow]
      BY <1>0, <1>7, CopyMoves, IdleType DEF TypeOK
    <2> QED BY <1>0, <1>1, <2>1 DEF Agreed!Next, Agreed!Drop, Agreed!Has
  <1> QED BY <1>2, <1>4, <1>5, <1>6, <1>7

LEMMA PanelRefines ==
    ASSUME IInv, NEW m \in Merchants, Panel(m)
    PROVE  Agreed!Next \/ Stutters
  <1>r. PICK r, s : r = work[m] /\ s = seen[m] OBVIOUS
  <1>0. TypeOK /\ r \in Request /\ m \in Actors /\ s \in Rows /\ conf \in Rows /\ MerchantOK(r, s)
    BY <1>r DEF IInv, TypeOK, Actors, Rows
  <1>1. CASE /\ conf' = conf /\ seen' = seen
             /\ \E next : MovesTo(m, next) /\ next.row = r.row
    BY <1>0, <1>1, <1>r, CopyKept DEF Stutters
  <1>2. CASE conf' = conf /\ MovesTo(m, Idle)
    <2>1. Copies' = [Copies EXCEPT ![m] = NoRow]
      BY <1>0, <1>2, CopyMoves, IdleType DEF TypeOK
    <2>2. CASE seen' = [seen EXCEPT ![m] = r.row]
      <3>1. Copies[m] = r.row
        BY <1>0, <1>r DEF Copies
      <3> QED BY <1>2, <2>1, <2>2, <3>1 DEF Agreed!Next, Agreed!Show, Agreed!Has
    <2>3. CASE seen' = seen
      BY <1>0, <1>2, <2>1, <2>3 DEF Agreed!Next, Agreed!Drop, Agreed!Has
    <2>4. seen' = [seen EXCEPT ![m] = s] => seen' = seen
      BY <1>0, <1>r DEF TypeOK
    <2>5. seen' = seen \/ seen' = [seen EXCEPT ![m] = r.row]
      BY <1>r, <2>4 DEF Panel, StartPanel, ShowDecision, Refuse, Show, Accept, Resolve,
                       StartResolution
    <2> QED BY <2>2, <2>3, <2>5
  <1>3. CASE /\ r.pc = "resolve" /\ CasWins(r.row) /\ conf' = Resolution(r, s) /\ seen' = seen
             /\ MovesTo(m, [r EXCEPT !.pc = "reread", !.kind = "panel", !.row = NoRow])
    <2>1. conf \in Row /\ s = conf /\ r.row = conf /\ conf.fingerprint = r.ord.facts
      BY <1>0, <1>3, ResolutionWrites
    <2>2. conf # NoRow
      BY <2>1, RowFacts
    <2>3. conf' = Bumped(conf, [conf EXCEPT !.resolution = r.kind,
                                            !.resolutionFingerprint = conf.fingerprint,
                                            !.reviewed = ReviewOf(conf)])
      BY <1>3, <2>1 DEF Resolution
    <2>4. conf' = [conf EXCEPT !.version = @ + 1, !.resolution = conf'.resolution,
                               !.resolutionFingerprint = conf.fingerprint,
                               !.reviewed = conf'.reviewed]
      <3>1. PICK c, n, review : c = conf /\ n = conf' /\ review = ReviewOf(conf)
        OBVIOUS
      <3>2. c \in Row /\ n = Bumped(c, [c EXCEPT !.resolution = r.kind,
                                               !.resolutionFingerprint = c.fingerprint,
                                               !.reviewed = review])
        BY <2>1, <2>3, <3>1
      <3>3. n.resolution = r.kind /\ n.reviewed = review
        BY <3>2 DEF Bumped, Row
      <3>4. n = [c EXCEPT !.version = @ + 1, !.resolution = n.resolution,
                          !.resolutionFingerprint = c.fingerprint, !.reviewed = n.reviewed]
        BY <3>2, <3>3 DEF Bumped, Row
      <3> QED BY <3>1, <3>4
    <2>5. PICK next : MovesTo(m, next) /\ next.row = NoRow
      BY <1>0, <1>3, MovedRows, Zenon
    <2>6. Copies' = [Copies EXCEPT ![m] = NoRow]
      BY <1>0, <2>5, CopyMoves
    <2>7. Copies[m] = conf
      BY <1>0, <1>r, <2>1 DEF Copies
    <2>8. Agreed!Resolve(m)
      BY <1>3, <1>r, <2>1, <2>2, <2>4, <2>6, <2>7 DEF Agreed!Resolve, Agreed!Has
    <2> QED BY <2>8 DEF Agreed!Next
  <1>4. CASE /\ conf' = conf /\ seen' = seen
             /\ \E kind : MovesTo(m, [r EXCEPT !.pc = "facts", !.kind = kind, !.ord = order])
    <2>1. PICK kind : MovesTo(m, [r EXCEPT !.pc = "facts", !.kind = kind, !.ord = order])
      BY <1>4
    <2>2. PICK next : next = [r EXCEPT !.pc = "facts", !.kind = kind, !.ord = order]
      OBVIOUS
    <2>3. next.row = r.row
      BY <1>0, <2>2 DEF Request
    <2> QED BY <1>1, <1>4, <2>1, <2>2, <2>3
  <1>5. CASE conf' = conf /\ seen' = seen /\ MovesTo(m, [r EXCEPT !.pc = "resolve"])
    <2>1. \E next : MovesTo(m, next) /\ next.row = r.row
      BY <1>0, <1>5, MovedRows, Zenon
    <2> QED BY <1>1, <1>5, <2>1
  <1> QED BY <1>0, <1>r, <1>2, <1>3, <1>4, <1>5, PanelMoves

LEMMA RefineStep ==
    ASSUME IInv, [Next]_vars
    PROVE  Agreed!Next \/ Stutters
  <1>1. CASE UNCHANGED vars
    BY <1>1 DEF vars, Stutters, Copies
  <1>2. CASE EditOrder \/ ConfirmOrder \/ CancelOrder
    BY <1>2 DEF EditOrder, ConfirmOrder, CancelOrder, Change, Stutters, Copies
  <1>3. CASE RecordOutcome
    <2>1. conf \in Row /\ conf # NoRow
      BY <1>3, RowFacts DEF RecordOutcome, IInv, TypeOK, Rows
    <2>2. conf' = [conf EXCEPT !.version = @ + 1, !.outcome = "recorded"]
      BY <1>3, <2>1 DEF RecordOutcome, Row
    <2>3. Copies' = Copies /\ seen' = seen
      BY <1>3 DEF RecordOutcome, Copies
    <2> QED BY <2>1, <2>2, <2>3 DEF Agreed!Next, Agreed!Note
  <1> QED BY <1>1, <1>2, <1>3, EvaluateRefines, GateRefines, PanelRefines DEF Next, OrderMoves

\* Whoever writes the decision row has read all of what he writes over, and a
\* merchant resolves the decision on his screen, for its own facts: the
\* version column is enough for it (casUpdate).
THEOREM Implements == Spec => DecisionImplemented
  <1>1. Init => Agreed!Init
    <2> SUFFICES ASSUME Init PROVE Agreed!Init OBVIOUS
    <2>1. order \in Order
      BY DEF Init, Order
    <2>2. Copies = [a \in Actors |-> NoRow]
      BY <2>1, IdleType DEF Init, Copies
    <2> QED BY <2>2 DEF Init, Agreed!Init
  <1>2. IInv /\ [Next]_vars => [Agreed!Next]_<<conf, Copies, seen>>
    BY RefineStep DEF Stutters
  <1> QED BY <1>1, <1>2, Invariance, PTL DEF Spec, DecisionImplemented, Agreed!Spec

\* No version comes back: the row is never lost, and every write of it, the
\* courier's verdict included, takes the next number.
THEOREM VersionsGrow ==
    Spec => [][conf' # conf =>
                 conf' # NoRow /\ (conf # NoRow => conf'.version = conf.version + 1)]_vars
  <1>1. ASSUME IInv, [Next]_vars, conf' # conf
        PROVE  conf' # NoRow /\ (conf # NoRow => conf'.version = conf.version + 1)
    <2>1. Agreed!Next
      BY <1>1, RefineStep DEF Stutters
    <2>2. conf = NoRow \/ conf \in Row
      BY <1>1 DEF IInv, TypeOK
    <2>3. CASE \E a \in Actors : Agreed!First(a)
      BY <2>3 DEF Agreed!First
    <2>4. ASSUME NEW a \in Actors, Agreed!Revise(a)
          PROVE  conf' # NoRow /\ conf'.version = conf.version + 1
      BY <2>2, <2>4 DEF Agreed!Revise, Row, NoRow
    <2>5. ASSUME NEW m \in Merchants, Agreed!Resolve(m)
          PROVE  conf' # NoRow /\ conf'.version = conf.version + 1
      BY <2>2, <2>5 DEF Agreed!Resolve, Row, NoRow
    <2>6. CASE Agreed!Note
      BY <2>2, <2>6 DEF Agreed!Note, Row, NoRow
    <2>7. ASSUME NEW a \in Actors, Agreed!Read(a) \/ Agreed!Drop(a)
          PROVE  FALSE
      BY <1>1, <2>7 DEF Agreed!Read, Agreed!Drop
    <2>8. ASSUME NEW m \in Merchants, Agreed!Show(m)
          PROVE  FALSE
      BY <1>1, <2>8 DEF Agreed!Show
    <2> QED BY <2>1, <2>3, <2>4, <2>5, <2>6, <2>7, <2>8 DEF Agreed!Next
  <1>2. IInv /\ [Next]_vars =>
          [conf' # conf =>
             conf' # NoRow /\ (conf # NoRow => conf'.version = conf.version + 1)]_vars
    BY <1>1
  <1> QED BY <1>2, Invariance, PTL DEF Spec
====
