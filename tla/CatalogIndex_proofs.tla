------------------------ MODULE CatalogIndex_proofs ------------------------
(***************************************************************************)
(* Proofs about CatalogIndex, for any products, models, jobs and sources.  *)
(*                                                                         *)
(* The inductive invariant has one part for each thing that an action      *)
(* writes: the tables (Tables), the versions (VersionInv) and, of each     *)
(* job, the lock that it holds (Locked), the file that it owns (Filed) and *)
(* that it has been started when it runs (Ran).  Almost every action moves *)
(* one job, so one lemma (Moves) says what such a step must keep.  What a  *)
(* reindex has still to embed is a second invariant, on top of the first   *)
(* (CoverInv, below).                                                      *)
(***************************************************************************)
EXTENDS CatalogIndex, FiniteSetTheorems, TLAPS

Tables ==
    /\ product \in [Products -> Product \cup {None}]
    /\ indexed \subseteq Products
    /\ embedding \in [Products -> Embedding \cup {None}]
    /\ covers \in [Jobs -> SUBSET Products]

VersionInv ==
    /\ versions \subseteq Version /\ active \subseteq versions
    /\ rollback \in [target : Version, seen : SUBSET Version] \cup {None}
    /\ rollback # None => rollback.target \in versions
    /\ IsUnique(active) /\ (active = {} <=> versions = {})

Others ==
    /\ lock \in Jobs \cup {None} /\ files \subseteq Jobs /\ orphaned \subseteq Jobs
    /\ faults \in 0 .. MaxFaults /\ lapsed \in BOOLEAN

Resting == {"none", "written", "queued", "lost", "ended"}
Locking == {"source", "upsert", "release"}
Filing  == {"written", "queued", "lock", "source", "upsert", "lost"}

Ran(j) == job[j].pc \notin Resting => job[j].tries # 0
Locked(j) == ~lapsed /\ (job[j].holds \/ job[j].pc \in Locking) => lock = j /\ job[j].holds
Filed(j) == j \in files => j \in orphaned \/ (job[j].kind = "upload" /\ job[j].pc \in Filing)

JobInv == job \in [Jobs -> Job] /\ \A j \in Jobs : Ran(j) /\ Locked(j) /\ Filed(j)

IInv == Tables /\ VersionInv /\ Others /\ JobInv

USE CatalogAssumption, NoneAssumption

-----------------------------------------------------------------------------
\* Types.

LEMMA JobParts ==
    ASSUME NEW t \in Job
    PROVE  /\ t.kind \in Kinds /\ t.pc \in Places /\ t.input \in Inputs /\ t.model \in Models
           /\ t.tries \in 0 .. MaxTries /\ t.holds \in BOOLEAN /\ t.total \in Nat
           /\ t.offset \in Nat /\ t.rows \in SUBSET (Products \X Texts)
           /\ t.seen \in SUBSET Version
BY DEF Job

\* Kinds and Places are written out where they are needed.
LEMMA BlankType == ASSUME NEW place \in Places PROVE Blank(place) \in Job
<1>1. "reindex" \in Kinds
  BY DEF Kinds
<1>2. (CHOOSE m \in Models : TRUE) \in Models
  OBVIOUS
<1> QED BY <1>1, <1>2 DEF Blank, Job

LEMMA AtType ==
    ASSUME job \in [Jobs -> Job], NEW j \in Jobs, NEW place \in Places
    PROVE  At(j, place) \in Job /\ Idle(j, place) \in Job
<1>1. job[j] \in Job
  OBVIOUS
<1> QED BY <1>1 DEF At, Idle, Job

\* A step that moves job j to t, and what it must keep of the rest.
LEMMA Moves ==
    ASSUME IInv, NEW j \in Jobs, NEW t \in Job, Becomes(j, t),
           Tables', VersionInv', Others',
           t.pc \notin Resting => t.tries # 0,
           lapsed => lapsed',
           ~lapsed' /\ (t.holds \/ t.pc \in Locking) => lock' = j /\ t.holds,
           \A k \in Jobs : k # j /\ ~lapsed' /\ lock = k => lock' = k,
           \A k \in Jobs : k # j /\ k \in files' => k \in files,
           orphaned \subseteq orphaned',
           j \in files' => j \in orphaned' \/ (t.kind = "upload" /\ t.pc \in Filing)
    PROVE  IInv'
<1>1. job' \in [Jobs -> Job]
  BY DEF Becomes, IInv, JobInv
<1>2. job'[j] = t /\ \A k \in Jobs : k # j => job'[k] = job[k]
  BY DEF Becomes, IInv, JobInv
<1>3. ASSUME NEW k \in Jobs PROVE Ran(k)' /\ Locked(k)' /\ Filed(k)'
  <2>1. CASE k = j
    BY <1>2, <2>1 DEF Ran, Locked, Filed
  <2>2. CASE k # j
    <3>1. Ran(k) /\ Locked(k) /\ Filed(k)
      BY DEF IInv, JobInv
    <3>2. job'[k] = job[k]
      BY <1>2, <2>2
    <3> QED BY <2>2, <3>1, <3>2 DEF Ran, Locked, Filed
  <2> QED BY <2>1, <2>2
<1> QED BY <1>1, <1>3 DEF IInv, JobInv

\* The same for a step that leaves the lock and the files alone.
LEMMA MovesAlone ==
    ASSUME IInv, NEW j \in Jobs, NEW t \in Job, Becomes(j, t),
           Tables', VersionInv', UNCHANGED importVars, faults' \in 0 .. MaxFaults,
           t.pc \notin Resting => t.tries # 0,
           ~lapsed /\ (t.holds \/ t.pc \in Locking) => lock = j /\ t.holds,
           j \in files => j \in orphaned \/ (t.kind = "upload" /\ t.pc \in Filing)
    PROVE  IInv'
<1>1. Others' /\ (lapsed => lapsed') /\ orphaned \subseteq orphaned'
  BY DEF IInv, Others, importVars
<1>2. /\ ~lapsed' /\ (t.holds \/ t.pc \in Locking) => lock' = j /\ t.holds
      /\ \A k \in Jobs : k # j /\ ~lapsed' /\ lock = k => lock' = k
      /\ \A k \in Jobs : k # j /\ k \in files' => k \in files
      /\ j \in files' => j \in orphaned' \/ (t.kind = "upload" /\ t.pc \in Filing)
  BY DEF importVars
<1> QED BY <1>1, <1>2, Moves

LEMMA SameTables == ASSUME Tables, UNCHANGED catalogVars PROVE Tables'
BY DEF Tables, catalogVars

LEMMA SameVersions == ASSUME VersionInv, UNCHANGED versionVars PROVE VersionInv'
BY DEF VersionInv, versionVars, IsUnique

-----------------------------------------------------------------------------
\* Init and the endpoints.

LEMMA InitIInv == Init => IInv
<1> SUFFICES ASSUME Init PROVE IInv
  OBVIOUS
<1>1. Tables
  BY DEF Init, Tables
<1>a. VersionInv
  BY DEF Init, VersionInv, IsUnique
<1>b. Others
  <2>1. lock = None /\ files = {} /\ orphaned = {} /\ faults = 0 /\ lapsed = FALSE
    BY DEF Init
  <2>2. faults \in 0 .. MaxFaults
    BY <2>1
  <2>3. lapsed \in BOOLEAN
    BY <2>1
  <2> QED BY <2>1, <2>2, <2>3, Zenon DEF Others
<1>2. Blank("none") \in Job
  BY BlankType DEF Places
<1>3. job \in [Jobs -> Job]
  BY <1>2 DEF Init
<1>4. ASSUME NEW j \in Jobs PROVE Ran(j) /\ Locked(j) /\ Filed(j)
  BY DEF Init, Ran, Locked, Filed, Blank, Resting, Locking
<1> QED BY <1>1, <1>a, <1>b, <1>3, <1>4 DEF IInv, JobInv

LEMMA SubmitStep == ASSUME IInv, NEW j \in Jobs, Submit(j) PROVE IInv'
<1>1. PICK kind \in Kinds, input \in Inputs, model \in Models :
        /\ Becomes(j, [job[j] EXCEPT
              !.kind = kind, !.input = input, !.model = model,
              !.pc = IF kind = "upload" THEN "written" ELSE "queued"])
        /\ files' = IF kind = "upload" THEN files \cup {j} ELSE files
  BY DEF Submit
<1> DEFINE t == [job[j] EXCEPT
              !.kind = kind, !.input = input, !.model = model,
              !.pc = IF kind = "upload" THEN "written" ELSE "queued"]
<1>2. job[j] \in Job /\ Ran(j) /\ Locked(j) /\ Filed(j)
  BY DEF IInv, JobInv
<1>3. t \in Job /\ t.pc \in {"written", "queued"} /\ t.holds = job[j].holds
      /\ (t.pc = "written" <=> kind = "upload") /\ t.kind = kind
  BY <1>2 DEF Job, Places
<1>4. UNCHANGED <<catalogVars, versionVars, lock, lapsed, orphaned, faults>> /\ job[j].pc = "none"
  BY DEF Submit
<1>5. Tables' /\ VersionInv'
  BY <1>4, SameTables, SameVersions DEF IInv
<1>6. Others'
  BY <1>1, <1>4 DEF IInv, Others
<1>7. ~lapsed' /\ (t.holds \/ t.pc \in Locking) => lock' = j /\ t.holds
  BY <1>2, <1>3, <1>4 DEF Locked, Locking
<1>8. j \in files' => j \in orphaned' \/ (t.kind = "upload" /\ t.pc \in Filing)
  BY <1>1, <1>2, <1>3, <1>4 DEF Filed, Filing
<1>9. \A k \in Jobs : k # j /\ k \in files' => k \in files
  BY <1>1
<1>10. Becomes(j, t)
  BY <1>1
<1> HIDE DEF t
<1> QED BY <1>3, <1>4, <1>5, <1>6, <1>7, <1>8, <1>9, <1>10, Moves DEF Resting

LEMMA EndpointSteps ==
    ASSUME IInv, NEW j \in Jobs, Enqueued(j) \/ EnqueueFails(j) \/ HandlerDies(j)
    PROVE  IInv'
<1>1. Tables' /\ VersionInv'
  BY SameTables, SameVersions DEF IInv, Enqueued, EnqueueFails, HandlerDies
<1>2. job \in [Jobs -> Job] /\ job[j] \in Job /\ Ran(j) /\ Locked(j) /\ Filed(j)
  BY DEF IInv, JobInv
<1>3. At(j, "queued") \in Job /\ Blank("ended") \in Job
  BY <1>2, AtType, BlankType DEF Places
<1>4. CASE Enqueued(j)
  <2> DEFINE t == At(j, "queued")
  <2>1. t.pc = "queued" /\ t.holds = job[j].holds /\ t.kind = job[j].kind
    BY <1>2 DEF At, Job
  <2>2. /\ ~lapsed /\ (t.holds \/ t.pc \in Locking) => lock = j /\ t.holds
        /\ j \in files => j \in orphaned \/ (t.kind = "upload" /\ t.pc \in Filing)
        /\ t.pc \in Resting
    BY <1>2, <2>1 DEF Locked, Filed, Locking, Filing, Resting
  <2>3. Becomes(j, t) /\ UNCHANGED importVars /\ faults' \in 0 .. MaxFaults
    BY <1>4 DEF Enqueued, IInv, Others
  <2> HIDE DEF t
  <2> QED BY <1>1, <1>3, <2>2, <2>3, MovesAlone DEF t
<1>5. CASE EnqueueFails(j) \/ HandlerDies(j)
  <2> DEFINE t == Blank("ended")
  <2>1. t.pc = "ended" /\ t.holds = FALSE
    BY DEF Blank
  <2>2. Becomes(j, t) /\ UNCHANGED <<lock, lapsed>> /\ Others'
        /\ files' \subseteq files /\ orphaned \subseteq orphaned'
        /\ (j \in files' => j \in orphaned')
    BY <1>5 DEF EnqueueFails, HandlerDies, IInv, Others
  <2>3. t \in Job
    BY <1>3
  <2> HIDE DEF t
  <2> QED BY <1>1, <2>1, <2>2, <2>3, Moves DEF Resting, Locking
<1> QED BY <1>4, <1>5

-----------------------------------------------------------------------------
\* The queue and the workers.

LEMMA StartStep == ASSUME IInv, NEW j \in Jobs, Start(j) PROVE IInv'
<1> DEFINE t == [job[j] EXCEPT !.pc = FirstPlace(job[j].kind), !.tries = @ + 1]
<1>1. job[j] \in Job /\ Locked(j) /\ Filed(j) /\ job[j].tries \in 0 .. MaxTries
  BY JobParts DEF IInv, JobInv
<1>2. FirstPlace(job[j].kind) \in {"lock", "count", "ingest"}
      /\ (job[j].kind = "upload" => FirstPlace(job[j].kind) = "lock")
  BY DEF FirstPlace, Imports
<1>3. job[j].tries + 1 \in 1 .. MaxTries
  BY <1>1 DEF Start
<1>a. FirstPlace(job[j].kind) \in Places /\ job[j].tries + 1 \in 0 .. MaxTries
  BY <1>2, <1>3 DEF Places
<1>4. t \in Job
  BY <1>1, <1>a DEF Job
<1>5. t.pc = FirstPlace(job[j].kind) /\ t.tries = job[j].tries + 1
      /\ t.holds = job[j].holds /\ t.kind = job[j].kind
  BY <1>1 DEF Job
<1>6. Tables' /\ VersionInv'
  BY SameTables, SameVersions DEF IInv, Start
<1>7. Becomes(j, t) /\ UNCHANGED importVars /\ faults' \in 0 .. MaxFaults
  BY DEF Start, IInv, Others
<1>8. ~lapsed /\ (t.holds \/ t.pc \in Locking) => lock = j /\ t.holds
  BY <1>1, <1>2, <1>5 DEF Locked, Locking
<1>9. j \in files => j \in orphaned \/ (t.kind = "upload" /\ t.pc \in Filing)
  BY <1>1, <1>2, <1>5 DEF Filed, Filing
<1>10. t.tries # 0
  BY <1>3, <1>5
<1> HIDE DEF t
<1> QED BY <1>4, <1>6, <1>7, <1>8, <1>9, <1>10, MovesAlone

\* A job that ends: its file, if any, goes to the orphans.
LEMMA EndStep ==
    ASSUME IInv, NEW j \in Jobs, GiveUp(j) \/ Refused(j)
    PROVE  IInv'
<1> DEFINE t == Blank("ended")
<1>1. t \in Job /\ t.pc = "ended" /\ t.holds = FALSE
  BY BlankType DEF Blank, Places
<1>2. Tables' /\ VersionInv'
  BY SameTables, SameVersions DEF IInv, GiveUp, Refused
<1>3. Becomes(j, t) /\ UNCHANGED <<lock, files, lapsed, faults>>
      /\ orphaned' = IF j \in files THEN orphaned \cup {j} ELSE orphaned
  BY DEF GiveUp, Refused
<1>a. orphaned \subseteq orphaned' /\ (j \in files' => j \in orphaned')
  BY <1>3
<1>4. Others'
  <2>1. Others
    BY DEF IInv
  <2>2. orphaned' \subseteq Jobs
    BY <1>3, <2>1 DEF Others
  <2> QED BY <1>3, <2>1, <2>2, Zenon DEF Others
<1> HIDE DEF t
<1> QED BY <1>1, <1>2, <1>3, <1>a, <1>4, Moves DEF Resting, Locking

LEMMA RequeueStep == ASSUME IInv, NEW j \in Jobs, Requeue(j) PROVE IInv'
<1> DEFINE t == At(j, "queued")
<1>1. job \in [Jobs -> Job] /\ job[j] \in Job /\ Locked(j) /\ Filed(j)
  BY DEF IInv, JobInv
<1>0. "queued" \in Places
  BY DEF Places
<1>2. t \in Job /\ t.pc = "queued" /\ t.holds = job[j].holds /\ t.kind = job[j].kind
  BY <1>0, <1>1, AtType DEF At, Job
<1>3. Tables' /\ VersionInv'
  BY SameTables, SameVersions DEF IInv, Requeue
<1>4. Becomes(j, t) /\ UNCHANGED importVars /\ faults' \in 0 .. MaxFaults
  BY DEF Requeue, IInv, Others
<1>5. ~lapsed /\ (t.holds \/ t.pc \in Locking) => lock = j /\ t.holds
  BY <1>1, <1>2 DEF Locked, Locking
<1>6. j \in files => j \in orphaned \/ (t.kind = "upload" /\ t.pc \in Filing)
  BY <1>1, <1>2 DEF Filed, Filing, Requeue
<1> HIDE DEF t
<1> QED BY <1>2, <1>3, <1>4, <1>5, <1>6, MovesAlone DEF Resting

LEMMA WorkerDiesStep == ASSUME IInv, NEW w, WorkerDies(w) PROVE IInv'
<1> DEFINE Dies(j) == /\ job[j].pc \notin {"none", "written", "queued", "ended", "lost"}
                      /\ (w = "match") <=> (job[j].kind = "smart")
<1>1. /\ (faults < MaxFaults /\ faults' = faults + 1) \/ faults' = faults
      /\ job' = [j \in Jobs |-> IF Dies(j) THEN Idle(j, "lost") ELSE job[j]]
      /\ covers' = [j \in Jobs |-> IF Dies(j) THEN {} ELSE covers[j]]
      /\ UNCHANGED <<product, indexed, embedding, versionVars, importVars>>
  BY DEF WorkerDies
<1>2. \A j \in Jobs : Idle(j, "lost") \in Job
  BY AtType DEF IInv, JobInv, Places
<1>3. job' \in [Jobs -> Job]
  BY <1>1, <1>2 DEF IInv, JobInv
<1>4. Tables'
  BY <1>1 DEF IInv, Tables
<1>5. VersionInv'
  BY <1>1, SameVersions DEF IInv
<1>6. Others'
  BY <1>1 DEF IInv, Others, importVars
<1>7. ASSUME NEW j \in Jobs PROVE Ran(j)' /\ Locked(j)' /\ Filed(j)'
  <2>1. Ran(j) /\ Locked(j) /\ Filed(j) /\ job[j] \in Job
    BY DEF IInv, JobInv
  <2>2. CASE Dies(j)
    <3>1. job'[j].pc = "lost" /\ job'[j].holds = FALSE /\ job'[j].kind = job[j].kind
      BY <1>1, <2>1, <2>2 DEF Idle, Job
    <3> QED BY <1>1, <2>1, <2>2, <3>1 DEF Ran, Locked, Filed, Resting, Locking, Filing, importVars
  <2>3. CASE ~Dies(j)
    <3>1. job'[j] = job[j]
      BY <1>1, <2>3
    <3> QED BY <1>1, <2>1, <3>1 DEF Ran, Locked, Filed, importVars
  <2> QED BY <2>2, <2>3
<1> QED BY <1>3, <1>4, <1>5, <1>6, <1>7 DEF IInv, JobInv

LEMMA CancelStep == ASSUME IInv, NEW j \in Jobs, Cancel(j) PROVE IInv'
<1>1. /\ job \in [Jobs -> Job] /\ job[j] \in Job /\ Ran(j) /\ Locked(j) /\ Filed(j)
      /\ \A k \in Jobs : Locked(k)
  BY DEF IInv, JobInv
<1>2. /\ faults' \in 0 .. MaxFaults
      /\ covers' = [covers EXCEPT ![j] = {}]
      /\ files' = IF Importing(j) THEN files \ {j} ELSE files
      /\ lock' = IF job[j].holds THEN None ELSE lock
      /\ UNCHANGED <<product, indexed, embedding, versionVars, lapsed>>
  BY DEF Cancel, IInv, Others
<1>3. Tables' /\ VersionInv'
  BY <1>2, SameVersions DEF IInv, Tables
<1>4. \A k \in Jobs : k # j /\ ~lapsed' /\ lock = k => lock' = k
  BY <1>1, <1>2 DEF Locked
<1>5. CASE Becomes(j, Idle(j, "queued")) /\ UNCHANGED orphaned
  <2> DEFINE t == Idle(j, "queued")
  <2>0. "queued" \in Places
    BY DEF Places
  <2>1. t \in Job /\ t.pc = "queued" /\ t.holds = FALSE /\ t.kind = job[j].kind
    BY <1>1, <2>0, AtType DEF Idle, Job
  <2>2. Others' /\ Becomes(j, t) /\ orphaned \subseteq orphaned'
    BY <1>2, <1>5 DEF IInv, Others
  <2>3. j \in files' => j \in orphaned' \/ (t.kind = "upload" /\ t.pc \in Filing)
    BY <1>1, <1>2, <1>5, <2>1 DEF Filed, Filing
  <2> HIDE DEF t
  <2> QED BY <1>2, <1>3, <1>4, <2>1, <2>2, <2>3, Moves DEF Resting, Locking
<1>6. CASE /\ Becomes(j, Blank("ended"))
           /\ orphaned' = IF job[j].pc = "lock" /\ j \in files
                          THEN orphaned \cup {j} ELSE orphaned
  <2> DEFINE t == Blank("ended")
  <2>1. t \in Job /\ t.pc = "ended" /\ t.holds = FALSE
    BY BlankType DEF Blank, Places
  <2>2. Others' /\ Becomes(j, t) /\ orphaned \subseteq orphaned'
    BY <1>2, <1>6 DEF IInv, Others
  <2>3. j \in files' => j \in orphaned'
    <3>1. job[j].pc \in Filing => job[j].pc \in {"lock", "source", "upsert"}
      BY DEF Cancel, Filing
    <3> QED BY <1>1, <1>2, <1>6, <3>1 DEF Filed, Importing, Imports
  <2> HIDE DEF t
  <2> QED BY <1>2, <1>3, <1>4, <2>1, <2>2, <2>3, Moves DEF Resting, Locking
<1> QED BY <1>5, <1>6 DEF Cancel

-----------------------------------------------------------------------------
\* catalog_import.

LEMMA AcquireLockStep == ASSUME IInv, NEW j \in Jobs, AcquireLock(j) PROVE IInv'
<1> DEFINE t == [job[j] EXCEPT !.pc = "source", !.holds = TRUE]
<1>0. "source" \in Places
  BY DEF Places
<1>1. job[j] \in Job /\ Ran(j) /\ Filed(j)
  BY DEF IInv, JobInv
<1>2. t \in Job /\ t.pc = "source" /\ t.holds = TRUE /\ t.kind = job[j].kind
      /\ t.tries = job[j].tries
  BY <1>0, <1>1 DEF Job
<1>3. Tables' /\ VersionInv'
  BY SameTables, SameVersions DEF IInv, AcquireLock
<1>4. Becomes(j, t) /\ lock = None /\ lock' = j /\ UNCHANGED <<files, lapsed, orphaned, faults>>
  BY DEF AcquireLock
<1>5. Others'
  BY <1>4 DEF IInv, Others
<1>6. t.tries # 0
  BY <1>1, <1>2 DEF Ran, Resting, AcquireLock
<1>7. j \in files' => j \in orphaned' \/ (t.kind = "upload" /\ t.pc \in Filing)
  BY <1>1, <1>2, <1>4 DEF Filed, Filing, AcquireLock
<1> HIDE DEF t
<1> QED BY <1>2, <1>3, <1>4, <1>5, <1>6, <1>7, Moves

\* Without the lock, or with the rows of the source: on to the next place.
LEMMA SourceSteps ==
    ASSUME IInv, NEW j \in Jobs, RedisDown(j) \/ SourceRead(j)
    PROVE  IInv'
<1> DEFINE place == IF job[j].pc = "lock" THEN "source" ELSE "upsert"
           t == At(j, place)
<1>0. place \in Places /\ place \in {"source", "upsert"}
  BY DEF Places
<1>1. job \in [Jobs -> Job] /\ job[j] \in Job /\ Ran(j) /\ Locked(j) /\ Filed(j)
  BY DEF IInv, JobInv
<1>2. t \in Job /\ t.pc = place /\ t.holds = job[j].holds /\ t.kind = job[j].kind
      /\ t.tries = job[j].tries
  BY <1>0, <1>1, AtType DEF At, Job
<1>3. Tables' /\ VersionInv'
  BY SameTables, SameVersions DEF IInv, RedisDown, SourceRead
<1>4. /\ Becomes(j, t) /\ UNCHANGED <<lock, files, orphaned>>
      /\ faults' \in 0 .. MaxFaults /\ job[j].pc \in {"lock", "source"}
  BY DEF RedisDown, SourceRead, IInv, Others, importVars
<1>a. lapsed' \in BOOLEAN /\ (lapsed => lapsed') /\ (job[j].pc = "lock" => lapsed')
  <2>1. CASE RedisDown(j)
    BY <2>1 DEF RedisDown
  <2>2. CASE SourceRead(j)
    <3>1. job[j].pc = "source" /\ lapsed' = lapsed
      BY <2>2 DEF SourceRead, importVars
    <3> QED BY <3>1 DEF IInv, Others
  <2> QED BY <2>1, <2>2
<1>5. Others'
  BY <1>4, <1>a DEF IInv, Others
<1>6. t.tries # 0
  BY <1>1, <1>2, <1>4 DEF Ran, Resting
<1>7. j \in files' => j \in orphaned' \/ (t.kind = "upload" /\ t.pc \in Filing)
  BY <1>0, <1>1, <1>2, <1>4 DEF Filed, Filing
<1>8. ~lapsed' /\ (t.holds \/ t.pc \in Locking) => lock' = j /\ t.holds
  BY <1>1, <1>2, <1>4, <1>a DEF Locked, Locking
<1> HIDE DEF t, place
<1> QED BY <1>2, <1>3, <1>4, <1>a, <1>5, <1>6, <1>7, <1>8, Moves

LEMMA LockExpiresStep == ASSUME IInv, LockExpires PROVE IInv'
<1>1. /\ lock \in Jobs /\ lapsed' = (lapsed \/ job[lock].holds)
      /\ lock' = None /\ faults' \in 0 .. MaxFaults
      /\ UNCHANGED <<catalogVars, versionVars, job, files, orphaned>>
  BY DEF LockExpires, IInv, Others
<1>2. Tables' /\ VersionInv'
  BY <1>1, SameTables, SameVersions DEF IInv
<1>3. Others'
  BY <1>1 DEF IInv, Others
<1>4. job[lock] \in Job /\ job[lock].holds \in BOOLEAN
  BY <1>1, JobParts DEF IInv, JobInv
<1>5. ASSUME NEW j \in Jobs PROVE Ran(j)' /\ Locked(j)' /\ Filed(j)'
  <2>1. Ran(j) /\ Locked(j) /\ Filed(j)
    BY DEF IInv, JobInv
  <2>2. Locked(j)'
    BY <1>1, <1>4, <2>1 DEF Locked
  <2> QED BY <1>1, <2>1, <2>2 DEF Ran, Filed
<1> QED BY <1>1, <1>2, <1>3, <1>5 DEF IInv, JobInv

\* Where an import is when it leaves its file: at the release, or at its end.
LEMMA LeaveStep ==
    ASSUME IInv, NEW j \in Jobs, Leave(j), job[j].pc \in {"source", "upsert"},
           Tables', VersionInv', faults' \in 0 .. MaxFaults,
           UNCHANGED <<lock, lapsed, orphaned>>
    PROVE  IInv'
<1> DEFINE t == IF job[j].holds THEN At(j, "release") ELSE Blank("ended")
<1>0. "release" \in Places /\ "ended" \in Places
  BY DEF Places
<1>1. job \in [Jobs -> Job] /\ job[j] \in Job /\ Ran(j) /\ Locked(j)
  BY DEF IInv, JobInv
<1>2. t \in Job
  BY <1>0, <1>1, AtType, BlankType
<1>3. \/ t.pc = "release" /\ t.holds = job[j].holds /\ t.tries = job[j].tries
      \/ t.pc = "ended" /\ t.holds = FALSE
  BY <1>1 DEF At, Blank, Job
<1>4. Becomes(j, t) /\ files' = files \ {j}
  BY DEF Leave
<1>5. Others'
  BY <1>4 DEF IInv, Others
<1>6. t.pc \notin Resting => t.tries # 0
  BY <1>1, <1>3 DEF Ran, Resting
<1>7. ~lapsed' /\ (t.holds \/ t.pc \in Locking) => lock' = j /\ t.holds
  BY <1>1, <1>3 DEF Locked, Locking
<1> HIDE DEF t
<1> QED BY <1>2, <1>4, <1>5, <1>6, <1>7, Moves

LEMMA SourceEndsStep == ASSUME IInv, NEW j \in Jobs, SourceEnds(j) PROVE IInv'
<1>1. Tables' /\ VersionInv'
  BY SameTables, SameVersions DEF IInv, SourceEnds
<1>2. Leave(j) /\ job[j].pc \in {"source", "upsert"} /\ faults' \in 0 .. MaxFaults
      /\ UNCHANGED <<lock, lapsed, orphaned>>
  BY DEF SourceEnds, IInv, Others
<1> QED BY <1>1, <1>2, LeaveStep

LEMMA ReleaseSteps ==
    ASSUME IInv, NEW j \in Jobs, Release(j) \/ ReleaseFails(j)
    PROVE  IInv'
<1> DEFINE t == Blank("ended")
<1>0. "ended" \in Places
  BY DEF Places
<1>1. Ran(j) /\ Filed(j) /\ \A k \in Jobs : Locked(k)
  BY DEF IInv, JobInv
<1>2. t \in Job /\ t.pc = "ended" /\ t.holds = FALSE
  BY <1>0, BlankType DEF Blank
<1>3. Tables' /\ VersionInv'
  BY SameTables, SameVersions DEF IInv, Release, ReleaseFails
<1>4. /\ Becomes(j, t) /\ job[j].pc = "release" /\ UNCHANGED <<files, lapsed, orphaned>>
      /\ lock' \in {lock, None} /\ faults' \in 0 .. MaxFaults
  BY DEF Release, ReleaseFails, IInv, Others, importVars
<1>5. Others'
  BY <1>4 DEF IInv, Others
<1>6. \A k \in Jobs : k # j /\ ~lapsed' /\ lock = k => lock' = k
  BY <1>1, <1>4 DEF Locked, Locking
<1>7. j \in files' => j \in orphaned'
  BY <1>1, <1>4 DEF Filed, Filing
<1> HIDE DEF t
<1> QED BY <1>2, <1>3, <1>4, <1>5, <1>6, <1>7, Moves DEF Resting, Locking

-----------------------------------------------------------------------------
\* The products.

LEMMA UpsertedType ==
    ASSUME IInv, NEW j \in Jobs
    PROVE  Upserted(j) \in [Products -> Product \cup {None}]
<1>1. job[j] \in Job /\ product \in [Products -> Product \cup {None}]
  BY DEF IInv, JobInv, Tables
<1>2. job[j].input \in Seq([id : Products, key : Keys, text : Texts])
  <2>1. job[j].input \in Inputs
    BY <1>1, JobParts
  <2>2. Inputs \subseteq Seq([id : Products, key : Keys, text : Texts])
    BY CatalogAssumption
  <2> QED BY <2>1, <2>2, Zenon
<1>3. \A i \in DOMAIN job[j].input : Item(j, i) \in [id : Products, key : Keys, text : Texts]
  <2> DEFINE R == [id : Products, key : Keys, text : Texts]  s == job[j].input
  <2>1. s \in Seq(R)
    BY <1>2
  <2> HIDE DEF R, s
  <2>2. \A i \in DOMAIN s : s[i] \in R
    BY <2>1
  <2> QED BY <2>2 DEF Item, R, s
<1>4. ASSUME NEW p \in Products, \E i \in DOMAIN job[j].input : Item(j, i).id = p
      PROVE  LET i == CHOOSE i \in DOMAIN job[j].input : Item(j, i).id = p
             IN  [key |-> Item(j, i).key, text |-> Item(j, i).text] \in Product
  <2> DEFINE i == CHOOSE i \in DOMAIN job[j].input : Item(j, i).id = p
  <2>1. i \in DOMAIN job[j].input
    BY <1>4
  <2>2. Item(j, i) \in [id : Products, key : Keys, text : Texts]
    BY <1>3, <2>1
  <2> HIDE DEF i
  <2>3. [key |-> Item(j, i).key, text |-> Item(j, i).text] \in Product
    BY <2>2 DEF Product
  <2> QED BY <2>3 DEF i
<1> QED BY <1>1, <1>4 DEF Upserted

LEMMA UpsertStep == ASSUME IInv, NEW j \in Jobs, Upsert(j) PROVE IInv'
<1>1. /\ product' = Upserted(j) /\ indexed' \subseteq indexed
      /\ covers' = [k \in Jobs |-> {}]
      /\ UNCHANGED <<embedding, versionVars, lock, lapsed, orphaned, faults>>
  BY DEF Upsert
<1>2. Tables' /\ VersionInv' /\ faults' \in 0 .. MaxFaults
  BY <1>1, UpsertedType, SameVersions DEF IInv, Tables, Others
<1>3. CASE job[j].pc = "upsert"
  BY <1>1, <1>2, <1>3, LeaveStep DEF Upsert
<1>4. CASE job[j].pc = "ingest"
  <2> DEFINE place == IF job[j].input = <<>> THEN "match" ELSE "count"
             t == At(j, place)
  <2>0. place \in {"match", "count"} /\ "match" \in Places /\ "count" \in Places
    BY DEF Places
  <2>1. job \in [Jobs -> Job] /\ job[j] \in Job /\ Ran(j) /\ Locked(j) /\ Filed(j)
    BY DEF IInv, JobInv
  <2>2. t \in Job /\ t.pc = place /\ t.holds = job[j].holds /\ t.tries = job[j].tries
    BY <2>0, <2>1, AtType DEF At, Job
  <2>3. Becomes(j, t) /\ UNCHANGED importVars
    BY <1>1, <1>4 DEF Upsert, importVars
  <2>4. t.tries # 0
    BY <1>4, <2>1, <2>2 DEF Ran, Resting
  <2>5. ~lapsed /\ (t.holds \/ t.pc \in Locking) => lock = j /\ t.holds
    BY <2>0, <2>1, <2>2 DEF Locked, Locking
  <2>6. j \in files => j \in orphaned
    BY <1>4, <2>1 DEF Filed, Filing
  <2> HIDE DEF t, place
  <2> QED BY <1>2, <2>2, <2>3, <2>4, <2>5, <2>6, MovesAlone
<1> QED BY <1>3, <1>4 DEF Upsert

LEMMA UpsertFailsStep == ASSUME IInv, NEW j \in Jobs, UpsertFails(j) PROVE IInv'
<1>1. faults' \in 0 .. MaxFaults /\ UNCHANGED <<catalogVars, versionVars, lock, lapsed, orphaned>>
  BY DEF UpsertFails, IInv, Others
<1>2. Tables' /\ VersionInv'
  BY <1>1, SameTables, SameVersions DEF IInv
<1>3. CASE job[j].pc = "upsert"
  BY <1>1, <1>2, <1>3, LeaveStep DEF UpsertFails
<1>4. CASE job[j].pc = "ingest"
  <2> DEFINE t == Blank("ended")
  <2>0. "ended" \in Places
    BY DEF Places
  <2>1. t \in Job /\ t.pc = "ended" /\ t.holds = FALSE
    BY <2>0, BlankType DEF Blank
  <2>2. Becomes(j, t) /\ UNCHANGED importVars
    BY <1>1, <1>4 DEF UpsertFails, importVars
  <2>3. j \in files => j \in orphaned
    BY <1>4 DEF IInv, JobInv, Filed, Filing
  <2> HIDE DEF t
  <2> QED BY <1>1, <1>2, <2>1, <2>2, <2>3, MovesAlone DEF Resting, Locking
<1> QED BY <1>3, <1>4 DEF UpsertFails

\* Whoever does not touch the jobs or what belongs to the imports.
LEMMA JobsAlone ==
    ASSUME IInv, Tables', VersionInv', UNCHANGED <<job, importVars>>, faults' \in 0 .. MaxFaults
    PROVE  IInv'
<1>1. Others'
  BY DEF IInv, Others, importVars
<1>2. ASSUME NEW j \in Jobs PROVE Ran(j)' /\ Locked(j)' /\ Filed(j)'
  BY DEF IInv, JobInv, Ran, Locked, Filed, importVars
<1> QED BY <1>1, <1>2 DEF IInv, JobInv

LEMMA DeleteProductStep == ASSUME IInv, NEW p \in Products, DeleteProduct(p) PROVE IInv'
<1>1. /\ product' = [product EXCEPT ![p] = None] /\ indexed' = indexed \ {p}
      /\ embedding' = [embedding EXCEPT ![p] = None] /\ covers' = [k \in Jobs |-> {}]
      /\ UNCHANGED <<versionVars, job, importVars>> /\ faults' \in 0 .. MaxFaults
  BY DEF DeleteProduct, IInv, Others
<1>2. Tables' /\ VersionInv'
  BY <1>1, SameVersions DEF IInv, Tables
<1> QED BY <1>1, <1>2, JobsAlone

-----------------------------------------------------------------------------
\* reindex_catalog.

\* A job that moves within a reindex, or out of it.
LEMMA ReindexStep ==
    ASSUME IInv, NEW j \in Jobs, NEW t \in Job, Becomes(j, t),
           Reindexing(j) \/ job[j].pc = "match",
           t.holds \in {FALSE, job[j].holds}, t.tries = job[j].tries \/ t.pc = "ended",
           t.pc \notin Locking,
           Tables', VersionInv', UNCHANGED importVars, faults' \in 0 .. MaxFaults
    PROVE  IInv'
<1>1. Ran(j) /\ Locked(j) /\ Filed(j)
  BY DEF IInv, JobInv
<1>2. t.pc \notin Resting => t.tries # 0
  BY <1>1 DEF Ran, Resting, Reindexing
<1>3. ~lapsed /\ (t.holds \/ t.pc \in Locking) => lock = j /\ t.holds
  BY <1>1 DEF Locked
<1>4. j \in files => j \in orphaned
  BY <1>1 DEF Filed, Filing, Reindexing
<1> QED BY <1>2, <1>3, <1>4, MovesAlone

LEMMA PresentFinite == IsFiniteSet(Present) /\ Cardinality(Present) \in Nat
<1>1. Present \subseteq Products
  BY DEF Present
<1> QED BY <1>1, FS_Subset, FS_CardinalityType

LEMMA EmbeddedType ==
    ASSUME job \in [Jobs -> Job], NEW j \in Jobs
    PROVE  /\ Embedded(j) \in Job /\ Embedded(j).pc = "version"
           /\ Embedded(j).holds = job[j].holds /\ Embedded(j).tries = job[j].tries
<1>1. "version" \in Places
  BY DEF Places
<1>2. job[j] \in Job
  OBVIOUS
<1> QED BY <1>1, <1>2 DEF Embedded, At, Job

\* The loop goes on at a place, with a total, an offset and rows.
LEMMA LoopType ==
    ASSUME job \in [Jobs -> Job], NEW j \in Jobs, NEW place \in {"read", "embed"}
    PROVE  /\ At(j, place) \in Job /\ At(j, place).pc = place
           /\ At(j, place).holds = job[j].holds /\ At(j, place).tries = job[j].tries
<1>1. place \in Places
  BY DEF Places
<1>2. job[j] \in Job
  OBVIOUS
<1> QED BY <1>1, <1>2 DEF At, Job

LEMMA CountStep == ASSUME IInv, NEW j \in Jobs, Count(j) PROVE IInv'
<1>1. PICK provider \in Providers :
        /\ Becomes(j, IF provider = "none" \/ Present = {} THEN Embedded(j)
                       ELSE [At(j, "read") EXCEPT !.total = Cardinality(Present)])
        /\ covers' = [covers EXCEPT ![j] = IF provider = "none" THEN {} ELSE Present]
  BY DEF Count
<1> DEFINE u == [At(j, "read") EXCEPT !.total = Cardinality(Present)]
           t == IF provider = "none" \/ Present = {} THEN Embedded(j) ELSE u
<1>2. job \in [Jobs -> Job]
  BY DEF IInv, JobInv
<1>3. u \in Job /\ u.pc = "read" /\ u.holds = job[j].holds /\ u.tries = job[j].tries
  <2> DEFINE v == At(j, "read")
  <2>1. v \in Job /\ v.pc = "read" /\ v.holds = job[j].holds /\ v.tries = job[j].tries
    BY <1>2, LoopType
  <2> HIDE DEF v
  <2>2. [v EXCEPT !.total = Cardinality(Present)] \in Job
    BY <2>1, PresentFinite DEF Job
  <2>3. /\ [v EXCEPT !.total = Cardinality(Present)].pc = "read"
        /\ [v EXCEPT !.total = Cardinality(Present)].holds = v.holds
        /\ [v EXCEPT !.total = Cardinality(Present)].tries = v.tries
    BY <2>1 DEF Job
  <2> QED BY <2>1, <2>2, <2>3 DEF v
<1> HIDE DEF u
<1>4. t \in Job /\ t.pc \in {"read", "version"} /\ t.holds = job[j].holds /\ t.tries = job[j].tries
  BY <1>2, <1>3, EmbeddedType
<1>5. Present \subseteq Products
  BY DEF Present
<1>6. Tables' /\ VersionInv'
  BY <1>1, <1>5, SameVersions DEF Count, IInv, Tables
<1>7. Becomes(j, t) /\ UNCHANGED importVars /\ faults' \in 0 .. MaxFaults /\ Reindexing(j)
  BY <1>1 DEF Count, IInv, Others, Reindexing, u
<1> HIDE DEF t
<1> QED BY <1>4, <1>6, <1>7, ReindexStep DEF Locking

LEMMA ReadBatchStep == ASSUME IInv, NEW j \in Jobs, ReadBatch(j) PROVE IInv'
<1> DEFINE batch == Batch(Needing(job[j].model))
           u == [At(j, "embed") EXCEPT !.rows = Rows(batch)]
           t == IF batch = {} THEN Embedded(j) ELSE u
<1>1. job \in [Jobs -> Job] /\ product \in [Products -> Product \cup {None}]
  BY DEF IInv, JobInv, Tables
<1>2. batch \subseteq Present
  BY DEF Batch, Needing
<1>3. Rows(batch) \subseteq Products \X Texts
  <2>1. \A p \in Present : p \in Products /\ product[p] \in Product
    BY <1>1 DEF Present
  <2>2. \A p \in Present : p \in Products /\ product[p].text \in Texts
    BY <2>1 DEF Product
  <2> QED BY <1>2, <2>2 DEF Rows
<1>4. u \in Job /\ u.pc = "embed" /\ u.holds = job[j].holds /\ u.tries = job[j].tries
  <2> DEFINE v == At(j, "embed")  rows == Rows(batch)
  <2>1. v \in Job /\ v.pc = "embed" /\ v.holds = job[j].holds /\ v.tries = job[j].tries
    BY <1>1, LoopType
  <2>2. rows \subseteq Products \X Texts
    BY <1>3
  <2> HIDE DEF v, rows
  <2>3. [v EXCEPT !.rows = rows] \in Job /\ [v EXCEPT !.rows = rows].pc = v.pc
        /\ [v EXCEPT !.rows = rows].holds = v.holds /\ [v EXCEPT !.rows = rows].tries = v.tries
    BY <2>1, <2>2 DEF Job
  <2> QED BY <2>1, <2>3 DEF v, rows
<1> HIDE DEF u
<1>5. t \in Job /\ t.pc \in {"embed", "version"} /\ t.holds = job[j].holds /\ t.tries = job[j].tries
  BY <1>1, <1>4, EmbeddedType
<1>6. Tables' /\ VersionInv'
  BY SameTables, SameVersions DEF ReadBatch, IInv
<1>7. Becomes(j, t) /\ UNCHANGED importVars /\ faults' \in 0 .. MaxFaults /\ Reindexing(j)
  BY DEF ReadBatch, IInv, Others, Reindexing, u
<1> HIDE DEF t
<1> QED BY <1>5, <1>6, <1>7, ReindexStep DEF Locking

LEMMA WriteBatchStep == ASSUME IInv, NEW j \in Jobs, WriteBatch(j) PROVE IInv'
<1> DEFINE offset == job[j].offset + BatchSize
           u == [At(j, "read") EXCEPT !.rows = {}, !.offset = offset]
           t == IF offset >= job[j].total THEN Embedded(j) ELSE u
<1>1. job \in [Jobs -> Job] /\ job[j] \in Job /\ job[j].offset \in Nat
      /\ job[j].rows \subseteq Products \X Texts /\ job[j].model \in Models
  BY JobParts DEF IInv, JobInv
<1>2. offset \in Nat
  BY <1>1
<1>3. u \in Job /\ u.pc = "read" /\ u.holds = job[j].holds /\ u.tries = job[j].tries
  <2> DEFINE v == At(j, "read")
  <2>1. v \in Job /\ v.pc = "read" /\ v.holds = job[j].holds /\ v.tries = job[j].tries
    BY <1>1, LoopType
  <2> HIDE DEF v, offset
  <2>2. [v EXCEPT !.rows = {}, !.offset = offset] \in Job
    BY <1>2, <2>1 DEF Job
  <2>3. /\ [v EXCEPT !.rows = {}, !.offset = offset].pc = v.pc
        /\ [v EXCEPT !.rows = {}, !.offset = offset].holds = v.holds
        /\ [v EXCEPT !.rows = {}, !.offset = offset].tries = v.tries
    BY <2>1 DEF Job
  <2> QED BY <2>1, <2>2, <2>3 DEF v
<1> HIDE DEF u
<1>4. t \in Job /\ t.pc \in {"read", "version"} /\ t.holds = job[j].holds /\ t.tries = job[j].tries
  BY <1>1, <1>3, EmbeddedType
<1>5. embedding' \in [Products -> Embedding \cup {None}]
  <2>1. embedding \in [Products -> Embedding \cup {None}]
    BY DEF IInv, Tables
  <2>2. ASSUME NEW p \in Products, \E x \in Texts : <<p, x>> \in job[j].rows
        PROVE  [text |-> CHOOSE x \in Texts : <<p, x>> \in job[j].rows,
                model |-> job[j].model] \in Embedding
    <3>1. (CHOOSE x \in Texts : <<p, x>> \in job[j].rows) \in Texts
      BY <2>2
    <3> QED BY <1>1, <3>1 DEF Embedding
  <2> QED BY <2>1, <2>2 DEF WriteBatch
<1>6. Tables' /\ VersionInv'
  <2>1. covers' \in [Jobs -> SUBSET Products]
    BY DEF WriteBatch, IInv, Tables
  <2> QED BY <1>5, <2>1, SameVersions DEF WriteBatch, IInv, Tables
<1>7. Becomes(j, t) /\ UNCHANGED importVars /\ faults' \in 0 .. MaxFaults /\ Reindexing(j)
  BY DEF WriteBatch, IInv, Others, Reindexing, u
<1> HIDE DEF t
<1> QED BY <1>4, <1>6, <1>7, ReindexStep DEF Locking

LEMMA AfterReindexType ==
    ASSUME job \in [Jobs -> Job], NEW j \in Jobs
    PROVE  /\ AfterReindex(j) \in Job /\ AfterReindex(j).pc \in {"match", "ended"}
           /\ AfterReindex(j).holds = FALSE
           /\ AfterReindex(j).pc = "match" => AfterReindex(j).tries = job[j].tries
<1>0. "match" \in Places /\ "ended" \in Places
  BY DEF Places
<1>1. Blank("ended") \in Job /\ Blank("ended").pc = "ended" /\ Blank("ended").holds = FALSE
  BY <1>0, BlankType DEF Blank
<1>2. /\ Idle(j, "match") \in Job /\ Idle(j, "match").pc = "match"
      /\ Idle(j, "match").holds = FALSE /\ Idle(j, "match").tries = job[j].tries
  BY <1>0, AtType DEF Idle, Job
<1> QED BY <1>1, <1>2 DEF AfterReindex

LEMMA BatchFailsStep == ASSUME IInv, NEW j \in Jobs, BatchFails(j) PROVE IInv'
<1> DEFINE t == AfterReindex(j)
<1>1. t \in Job /\ t.pc \in {"match", "ended"} /\ t.holds = FALSE
      /\ (t.tries = job[j].tries \/ t.pc = "ended")
  BY AfterReindexType DEF IInv, JobInv
<1>2. Tables' /\ VersionInv'
  BY SameVersions DEF BatchFails, IInv, Tables
<1>3. Becomes(j, t) /\ UNCHANGED importVars /\ faults' \in 0 .. MaxFaults /\ Reindexing(j)
  BY DEF BatchFails, IInv, Others, Reindexing
<1> HIDE DEF t
<1> QED BY <1>1, <1>2, <1>3, ReindexStep DEF Locking

LEMMA DeactivateStep == ASSUME IInv, NEW j \in Jobs, Deactivate(j) PROVE IInv'
<1> DEFINE t == [job[j] EXCEPT !.pc = "activate", !.seen = active]
<1>0. "activate" \in Places /\ active \subseteq Version
  BY DEF Places, IInv, VersionInv
<1>1. job[j] \in Job
  BY DEF IInv, JobInv
<1>2. t \in Job /\ t.pc = "activate" /\ t.holds = job[j].holds /\ t.tries = job[j].tries
  BY <1>0, <1>1 DEF Job
<1>3. Tables' /\ VersionInv'
  BY SameTables, SameVersions DEF Deactivate, IInv
<1>4. Becomes(j, t) /\ UNCHANGED importVars /\ faults' \in 0 .. MaxFaults /\ Reindexing(j)
  BY DEF Deactivate, IInv, Others, Reindexing
<1> HIDE DEF t
<1> QED BY <1>2, <1>3, <1>4, ReindexStep DEF Locking

\* The unique index: what is active afterwards is the new version alone.
LEMMA ActivateStep == ASSUME IInv, NEW j \in Jobs, Activate(j) PROVE IInv'
<1> DEFINE t == AfterReindex(j)
           version == <<j, job[j].tries>>
           now == (active \ job[j].seen) \cup {version}
<1>1. t \in Job /\ t.pc \in {"match", "ended"} /\ t.holds = FALSE
      /\ (t.tries = job[j].tries \/ t.pc = "ended")
  BY AfterReindexType DEF IInv, JobInv
<1>2. version \in Version
  <2>1. job[j].tries \in 0 .. MaxTries /\ job[j].tries # 0
    BY JobParts DEF IInv, JobInv, Ran, Resting, Activate
  <2>2. job[j].tries \in 1 .. MaxTries
    BY <2>1
  <2> QED BY <2>2 DEF Version
<1>3. VersionInv'
  <2>1. CASE IsUnique(now)
    <3>1. versions' = versions \cup {version} /\ active' = now /\ rollback' = rollback
      BY <2>1 DEF Activate
    <3> QED BY <1>2, <2>1, <3>1 DEF IInv, VersionInv, IsUnique
  <2>2. CASE ~IsUnique(now)
    <3>1. UNCHANGED versionVars
      BY <2>2 DEF Activate, versionVars
    <3> QED BY <3>1, SameVersions DEF IInv
  <2> QED BY <2>1, <2>2
<1>4. Tables'
  BY DEF Activate, IInv, Tables
<1>5. Becomes(j, t) /\ UNCHANGED importVars /\ faults' \in 0 .. MaxFaults /\ Reindexing(j)
  BY DEF Activate, IInv, Others, Reindexing
<1> HIDE DEF t
<1> QED BY <1>1, <1>3, <1>4, <1>5, ReindexStep DEF Locking

LEMMA MatchStep == ASSUME IInv, NEW j \in Jobs, Match(j) PROVE IInv'
<1> DEFINE t == Blank("ended")
<1>0. "ended" \in Places
  BY DEF Places
<1>1. t \in Job /\ t.pc = "ended" /\ t.holds = FALSE
  BY <1>0, BlankType DEF Blank
<1>2. Tables' /\ VersionInv'
  BY SameTables, SameVersions DEF Match, IInv
<1>3. Becomes(j, t) /\ UNCHANGED importVars /\ faults' \in 0 .. MaxFaults /\ job[j].pc = "match"
  BY DEF Match, IInv, Others
<1> HIDE DEF t
<1> QED BY <1>1, <1>2, <1>3, ReindexStep DEF Locking

LEMMA RollBackSteps ==
    ASSUME IInv, (\E v \in Version : RollBack(v)) \/ RollBackEnds
    PROVE  IInv'
<1>1. UNCHANGED <<catalogVars, versions, job, importVars>> /\ faults' \in 0 .. MaxFaults
  BY DEF RollBack, RollBackEnds, IInv, Others
<1>2. Tables'
  BY <1>1, SameTables DEF IInv
<1>3. VersionInv'
  <2>1. ASSUME NEW v \in Version, RollBack(v) PROVE VersionInv'
    <3>1. rollback' = [target |-> v, seen |-> versions] /\ v \in versions
          /\ UNCHANGED <<versions, active>>
      BY <2>1 DEF RollBack
    <3>2. rollback' \in [target : Version, seen : SUBSET Version] /\ rollback'.target = v
      BY <3>1 DEF IInv, VersionInv
    <3> QED BY <3>1, <3>2 DEF IInv, VersionInv, IsUnique
  <2>2. ASSUME RollBackEnds PROVE VersionInv'
    <3> DEFINE now == (active \ rollback.seen) \cup {rollback.target}
    <3>1. rollback.target \in versions /\ rollback' = None /\ versions' = versions
          /\ active' = IF IsUnique(now) THEN now ELSE active
      BY <2>2 DEF RollBackEnds, IInv, VersionInv
    <3> QED BY <3>1 DEF IInv, VersionInv, IsUnique
  <2> QED BY <2>1, <2>2
<1> QED BY <1>1, <1>2, <1>3, JobsAlone

-----------------------------------------------------------------------------
LEMMA StepIInv == IInv /\ [Next]_vars => IInv'
<1> SUFFICES ASSUME IInv, [Next]_vars PROVE IInv'
  OBVIOUS
<1>1. ASSUME NEW j \in Jobs, Submit(j) PROVE IInv'
  BY <1>1, SubmitStep
<1>2. ASSUME NEW j \in Jobs, JobStep(j) PROVE IInv'
  BY <1>2, EndpointSteps, StartStep, EndStep, RequeueStep, AcquireLockStep, SourceSteps,
     SourceEndsStep, ReleaseSteps, UpsertStep, UpsertFailsStep, CountStep, ReadBatchStep,
     WriteBatchStep, BatchFailsStep, DeactivateStep, ActivateStep, MatchStep DEF JobStep
<1>3. ASSUME NEW j \in Jobs, JobFault(j) PROVE IInv'
  BY <1>3, EndpointSteps, CancelStep, SourceSteps, ReleaseSteps DEF JobFault
<1>4. ASSUME NEW w \in {"match", "catalog"}, WorkerDies(w) PROVE IInv'
  BY <1>4, WorkerDiesStep
<1>5. ASSUME NEW p \in Products, DeleteProduct(p) PROVE IInv'
  BY <1>5, DeleteProductStep
<1>6. CASE (\E v \in Version : RollBack(v)) \/ RollBackEnds
  BY <1>6, RollBackSteps
<1>7. CASE LockExpires
  BY <1>7, LockExpiresStep
<1>8. CASE UNCHANGED vars
  <2>1. /\ UNCHANGED <<catalogVars, versionVars, job, importVars>> /\ faults' = faults
    BY <1>8 DEF vars, catalogVars, versionVars, importVars
  <2>2. Tables' /\ VersionInv' /\ faults' \in 0 .. MaxFaults
    BY <2>1, SameTables, SameVersions DEF IInv, Others
  <2> QED BY <2>1, <2>2, JobsAlone
<1> QED BY <1>1, <1>2, <1>3, <1>4, <1>5, <1>6, <1>7, <1>8 DEF Next

LEMMA Inductive == Spec => []IInv
BY InitIInv, StepIInv, PTL DEF Spec

-----------------------------------------------------------------------------
\* The catalog, its versions, jobs, lock and files stay well typed, for any products,
\* models and jobs and any number of crashes, deletions and rollbacks.
THEOREM CatalogTypeCorrect == Spec => []TypeOK
<1>1. IInv => TypeOK
  BY DEF IInv, Tables, VersionInv, Others, JobInv, TypeOK
<1> QED BY <1>1, Inductive, PTL

\* Until the lock has expired under its owner or Redis was away, imports exclude each
\* other between their source and their commit.
THEOREM ImportsCorrect == Spec => []ImportsExclude
<1>1. IInv => ImportsExclude
  BY DEF IInv, JobInv, Locked, Locking, ImportsExclude, Importing
<1> QED BY <1>1, Inductive, PTL

\* Whatever reindexes and rollbacks overlap, one version is active from the first on.
THEOREM VersionsCorrect == Spec => []OneActive
<1>1. IInv => OneActive
  BY DEF IInv, VersionInv, OneActive
<1> QED BY <1>1, Inductive, PTL

\* An uploaded file has a job that will remove it, or is one of the named orphans.
THEOREM FilesCorrect == Spec => []FileHasJob
<1>1. IInv => FileHasJob
  BY DEF IInv, JobInv, Others, Filed, Filing, FileHasJob
<1> QED BY <1>1, Inductive, PTL

-----------------------------------------------------------------------------
(* The embeddings.  Of the products that a reindex has counted, those that *)
(* still need an embedding of its model are no more than the batches that  *)
(* it has left can take (Covered): a batch takes BatchSize of them, or all *)
(* (BatchSizes), and nobody makes them more without touching the catalog.  *)

\* The products that job j has counted and that need an embedding of its model.
Wanting(j) == covers[j] \cap Needing(job[j].model)

\* Those of them that are not in the batch under way.
Remaining(j) == {p \in Wanting(j) : \A t \in Texts : <<p, t>> \notin job[j].rows}

Covered(j) ==
    /\ covers[j] \in {{}, Present}
    /\ job[j].pc \notin {"read", "embed"} => job[j].offset = 0
    /\ job[j].pc = "read" => Cardinality(Wanting(j)) + job[j].offset <= job[j].total
    /\ job[j].pc = "embed" =>
          \/ Remaining(j) = {}
          \/ Cardinality(Remaining(j)) + job[j].offset + BatchSize <= job[j].total
    /\ job[j].pc \in {"version", "activate"} => Wanting(j) = {}

CoverInv == \A j \in Jobs : Covered(j)

Looping == {"read", "embed", "version", "activate"}

LEMMA WantingFinite ==
    ASSUME NEW j \in Jobs
    PROVE  /\ IsFiniteSet(Wanting(j)) /\ Cardinality(Wanting(j)) \in Nat
           /\ IsFiniteSet(Remaining(j)) /\ Cardinality(Remaining(j)) \in Nat
           /\ Wanting(j) \subseteq Present
<1>1. Wanting(j) \in SUBSET Present /\ Remaining(j) \in SUBSET Present
  BY DEF Wanting, Remaining, Needing
<1> QED BY <1>1, PresentFinite, FS_Subset, FS_CardinalityType

\* A batch is all there is, or BatchSize of it: the least product that was left out has
\* BatchSize others before it, and all of these are in.
LEMMA BatchSizes ==
    ASSUME NEW S \in SUBSET Products
    PROVE  /\ Batch(S) \subseteq S
           /\ Batch(S) = S \/ Cardinality(Batch(S)) >= BatchSize
           /\ Batch(S) = {} => S = {}
<1> DEFINE rest == S \ Batch(S)
           before(p) == {q \in S : q < p}
<1>1. Batch(S) \subseteq S /\ IsFiniteSet(Batch(S)) /\ S \subseteq Nat
      /\ Cardinality(Batch(S)) \in Nat
  <2>1. IsFiniteSet(S) /\ Batch(S) \in SUBSET S
    BY FS_Subset DEF Batch
  <2> QED BY <2>1, FS_Subset, FS_CardinalityType
<1>2. CASE rest = {}
  BY <1>1, <1>2
<1>3. CASE rest # {}
  <2>1. PICK p \in rest : \A q \in rest : ~(q < p)
    <3> DEFINE less == OpToRel(<, Nat)
    <3>1. rest \subseteq Nat
      BY <1>1
    <3>2. IsWellFoundedOn(less, Nat)
      BY NatLessThanWellFounded, Zenon
    <3>3. \A x, y \in Nat : y < x => <<y, x>> \in less
      BY Zenon DEF OpToRel
    <3> HIDE DEF rest, less
    <3>4. \E x \in rest : \A y \in rest : ~(<<y, x>> \in less)
      BY <1>3, <3>1, <3>2, WFMin, Zenon
    <3> QED BY <3>1, <3>3, <3>4
  <2>2. before(p) \in SUBSET Batch(S)
    BY <2>1
  <2>3. ~(Cardinality(before(p)) < BatchSize)
    BY DEF Batch
  <2>4. /\ Cardinality(before(p)) <= Cardinality(Batch(S))
        /\ Cardinality(before(p)) \in Nat
    <3>1. IsFiniteSet(before(p))
      BY <1>1, <2>2, FS_Subset
    <3> QED BY <1>1, <2>2, <3>1, FS_Subset, FS_CardinalityType
  <2>5. Cardinality(Batch(S)) >= BatchSize
    <3> DEFINE c == Cardinality(before(p))
               d == Cardinality(Batch(S))
    <3>1. c \in Nat /\ d \in Nat /\ c <= d /\ ~(c < BatchSize) /\ BatchSize \in Nat
      BY <1>1, <2>3, <2>4
    <3> HIDE DEF c, d
    <3>2. d >= BatchSize
      BY <3>1
    <3> QED BY <3>2 DEF d
  <2>6. Batch(S) # {}
    BY <1>1, <2>5, FS_EmptySet
  <2> QED BY <1>1, <2>5, <2>6
<1> QED BY <1>2, <1>3

LEMMA CoverStart == Init => CoverInv
BY DEF Init, CoverInv, Covered, Blank

\* A job that does not move keeps its bound, if no more products need an embedding.
LEMMA CoveredKept ==
    ASSUME JobInv, NEW k \in Jobs, Covered(k), job'[k] = job[k], Present' = Present,
           covers'[k] \in {{}, covers[k]}, Wanting(k)' \subseteq Wanting(k)
    PROVE  Covered(k)'
<1>1. job[k] \in Job /\ job[k].offset \in Nat /\ job[k].total \in Nat
  BY JobParts DEF JobInv
<1>2. /\ Wanting(k)' \in SUBSET Wanting(k) /\ Remaining(k)' \in SUBSET Remaining(k)
  BY DEF Remaining
<1>3. /\ Cardinality(Wanting(k)') <= Cardinality(Wanting(k)) /\ Cardinality(Wanting(k)') \in Nat
      /\ Cardinality(Remaining(k)') <= Cardinality(Remaining(k))
      /\ Cardinality(Remaining(k)') \in Nat
  <2>1. IsFiniteSet(Wanting(k)') /\ IsFiniteSet(Remaining(k)')
    BY <1>2, WantingFinite, FS_Subset
  <2> QED BY <1>2, <2>1, WantingFinite, FS_Subset, FS_CardinalityType
<1>4. covers'[k] \in {{}, Present'}
  BY DEF Covered
<1>5. job'[k].pc = "read" => Cardinality(Wanting(k)') + job'[k].offset <= job'[k].total
  BY <1>1, <1>3, WantingFinite DEF Covered
<1>6. job'[k].pc = "embed" =>
          \/ Remaining(k)' = {}
          \/ Cardinality(Remaining(k)') + job'[k].offset + BatchSize <= job'[k].total
  <2>1. CASE Remaining(k) = {}
    BY <1>2, <2>1
  <2>2. CASE Remaining(k) # {}
    BY <1>1, <1>3, <2>2, WantingFinite DEF Covered
  <2> QED BY <2>1, <2>2
<1>7. /\ job'[k].pc \in {"version", "activate"} => Wanting(k)' = {}
      /\ job'[k].pc \notin {"read", "embed"} => job'[k].offset = 0
  BY DEF Covered
<1> QED BY <1>4, <1>5, <1>6, <1>7 DEF Covered

\* Nor does one that leaves the loop, or goes on with it when all is done.
LEMMA CoveredOut ==
    ASSUME NEW k \in Jobs, Covered(k), Present' = Present, embedding' = embedding,
           covers'[k] \in {{}, covers[k]}, job'[k].offset = 0,
           \/ job'[k].pc \notin Looping
           \/ job[k].pc = "version" /\ job'[k].pc = "activate" /\ job'[k].model = job[k].model
    PROVE  Covered(k)'
<1>1. CASE job'[k].pc \notin Looping
  BY <1>1 DEF Covered, Looping
<1>2. CASE job[k].pc = "version" /\ job'[k].pc = "activate" /\ job'[k].model = job[k].model
  BY <1>2 DEF Covered, Wanting, Needing
<1> QED BY <1>1, <1>2

\* So nothing is lost by a step that leaves the tables alone and no job in the loop.
LEMMA CoverKept ==
    ASSUME JobInv, CoverInv, UNCHANGED <<product, embedding>>,
           \A k \in Jobs : covers'[k] \in {{}, covers[k]},
           \A k \in Jobs : \/ job'[k] = job[k]
                           \/ job'[k].offset = 0 /\ job'[k].pc \notin Looping
                           \/ job'[k].offset = 0 /\ job[k].pc = "version"
                              /\ job'[k].pc = "activate" /\ job'[k].model = job[k].model
    PROVE  CoverInv'
<1>1. Present' = Present
  BY DEF Present
<1>2. ASSUME NEW k \in Jobs PROVE Covered(k)'
  <2>1. Covered(k)
    BY DEF CoverInv
  <2>2. CASE job'[k] = job[k]
    <3>1. Wanting(k)' \subseteq Wanting(k)
      BY <1>1, <2>2 DEF Wanting, Needing
    <3> QED BY <1>1, <2>1, <2>2, <3>1, CoveredKept
  <2>3. CASE job'[k] # job[k]
    BY <1>1, <2>1, <2>3, CoveredOut
  <2> QED BY <2>2, <2>3
<1> QED BY <1>2 DEF CoverInv

\* The same for the move of one job.
LEMMA CoverMoved ==
    ASSUME JobInv, CoverInv, UNCHANGED <<product, embedding>>, NEW j \in Jobs, NEW t,
           Becomes(j, t), covers' \in {covers, [covers EXCEPT ![j] = {}]},
           covers \in [Jobs -> SUBSET Products], t.offset = 0,
           \/ t.pc \notin Looping
           \/ job[j].pc = "version" /\ t.pc = "activate" /\ t.model = job[j].model
    PROVE  CoverInv'
<1>1. job'[j] = t /\ \A k \in Jobs : k # j => job'[k] = job[k]
  BY DEF Becomes, JobInv
<1>2. \A k \in Jobs : covers'[k] \in {{}, covers[k]}
  OBVIOUS
<1> QED BY <1>1, <1>2, CoverKept

\* When somebody has touched the products, nothing is promised to anybody.
LEMMA CoverReset ==
    ASSUME JobInv, CoverInv, covers' = [k \in Jobs |-> {}],
           \A k \in Jobs : \/ job'[k] = job[k]
                           \/ job'[k].pc \notin Looping /\ job'[k].offset = 0
    PROVE  CoverInv'
<1> SUFFICES ASSUME NEW k \in Jobs PROVE Covered(k)'
  BY DEF CoverInv
<1>1. covers'[k] = {} /\ Wanting(k)' = {} /\ Remaining(k)' = {}
  BY DEF Wanting, Remaining
<1>2. CASE job'[k].pc \notin Looping /\ job'[k].offset = 0
  BY <1>1, <1>2 DEF Covered, Looping
<1>3. CASE job'[k] = job[k]
  <2>1. job[k].offset \in Nat /\ job[k].total \in Nat
    BY JobParts DEF JobInv
  <2>2. /\ job[k].pc = "read" => job[k].offset <= job[k].total
        /\ job[k].pc \notin {"read", "embed"} => job[k].offset = 0
    BY <2>1, WantingFinite DEF CoverInv, Covered
  <2>3. Cardinality(Wanting(k)') = 0
    BY <1>1, FS_EmptySet
  <2> QED BY <1>1, <1>3, <2>1, <2>2, <2>3 DEF Covered
<1> QED BY <1>2, <1>3
-----------------------------------------------------------------------------
\* The steps that leave the tables alone and bring no job into the loop.

LEMMA PlacesOut ==
    ASSUME IInv, NEW j \in Jobs
    PROVE  /\ \A place \in Places : Blank(place).pc = place /\ Blank(place).offset = 0
           /\ \A place \in Places : Idle(j, place).pc = place /\ Idle(j, place).offset = 0
           /\ \A place \in Places : At(j, place).pc = place
                                   /\ At(j, place).offset = job[j].offset
           /\ AfterReindex(j).pc \notin Looping /\ AfterReindex(j).offset = 0
           /\ FirstPlace(job[j].kind) \notin Looping
<1>1. job[j] \in Job
  BY DEF IInv, JobInv
<1>2. \A place \in Places :
         /\ At(j, place).pc = place /\ At(j, place).offset = job[j].offset
         /\ Idle(j, place).pc = place /\ Idle(j, place).offset = 0
  BY <1>1 DEF At, Idle, Job
<1>3. \A place \in Places : Blank(place).pc = place /\ Blank(place).offset = 0
  BY DEF Blank
<1>4. AfterReindex(j).pc \notin Looping /\ AfterReindex(j).offset = 0
  BY <1>2, <1>3 DEF AfterReindex, Looping, Places
<1>5. FirstPlace(job[j].kind) \notin Looping
  BY DEF FirstPlace, Looping
<1> QED BY <1>2, <1>3, <1>4, <1>5

LEMMA MovedOut ==
    ASSUME IInv, CoverInv, UNCHANGED <<product, embedding>>, NEW j \in Jobs,
           covers' \in {covers, [covers EXCEPT ![j] = {}]},
           NEW t, Becomes(j, t), t.pc \notin Looping, t.offset = 0
    PROVE  CoverInv'
<1>1. JobInv /\ covers \in [Jobs -> SUBSET Products]
  BY DEF IInv, Tables
<1> QED BY <1>1, CoverMoved

LEMMA EndpointCover ==
    ASSUME IInv, CoverInv, NEW j \in Jobs,
           Submit(j) \/ Enqueued(j) \/ EnqueueFails(j) \/ HandlerDies(j)
    PROVE  CoverInv'
<1>1. UNCHANGED <<product, embedding>> /\ covers' = covers
  BY DEF Submit, Enqueued, EnqueueFails, HandlerDies, catalogVars
<1>2. /\ job[j] \in Job /\ {"queued", "ended"} \subseteq Places
      /\ job[j].pc \in {"none", "written"} /\ job[j].offset = 0
  BY DEF IInv, JobInv, Places, CoverInv, Covered, Submit, Enqueued, EnqueueFails, HandlerDies
<1>3. CASE Submit(j)
  <2>1. PICK kind \in Kinds, input \in Inputs, model \in Models :
          Becomes(j, [job[j] EXCEPT
              !.kind = kind, !.input = input, !.model = model,
              !.pc = IF kind = "upload" THEN "written" ELSE "queued"])
    BY <1>3 DEF Submit
  <2> DEFINE t == [job[j] EXCEPT
              !.kind = kind, !.input = input, !.model = model,
              !.pc = IF kind = "upload" THEN "written" ELSE "queued"]
  <2>2. t.pc \notin Looping /\ t.offset = 0
    BY <1>2 DEF Job, Looping
  <2>3. Becomes(j, t)
    BY <2>1
  <2> HIDE DEF t
  <2> QED BY <1>1, <2>2, <2>3, MovedOut
<1>4. CASE Enqueued(j)
  <2>1. Becomes(j, At(j, "queued")) /\ At(j, "queued").pc \notin Looping
        /\ At(j, "queued").offset = 0
    BY <1>2, <1>4, PlacesOut DEF Enqueued, Looping
  <2> QED BY <1>1, <2>1, MovedOut
<1>5. CASE EnqueueFails(j) \/ HandlerDies(j)
  <2>1. Becomes(j, Blank("ended")) /\ Blank("ended").pc \notin Looping
        /\ Blank("ended").offset = 0
    BY <1>2, <1>5, PlacesOut DEF EnqueueFails, HandlerDies, Looping
  <2> QED BY <1>1, <2>1, MovedOut
<1> QED BY <1>3, <1>4, <1>5

LEMMA QueueCover ==
    ASSUME IInv, CoverInv, NEW j \in Jobs,
           Start(j) \/ GiveUp(j) \/ Requeue(j) \/ Refused(j) \/ Match(j)
    PROVE  CoverInv'
<1>1. UNCHANGED <<product, embedding>> /\ covers' = covers
  BY DEF Start, GiveUp, Requeue, Refused, Match, catalogVars
<1>2. /\ job[j] \in Job /\ {"queued", "ended"} \subseteq Places
      /\ job[j].offset = 0
  BY DEF IInv, JobInv, Places, CoverInv, Covered, Start, GiveUp, Requeue, Refused, Match
<1>3. CASE Start(j)
  <2> DEFINE t == [job[j] EXCEPT !.pc = FirstPlace(job[j].kind), !.tries = @ + 1]
  <2>1. t.pc = FirstPlace(job[j].kind) /\ t.offset = 0
    BY <1>2 DEF Job
  <2>2. Becomes(j, t) /\ t.pc \notin Looping /\ t.offset = 0
    BY <1>3, <2>1, PlacesOut DEF Start
  <2> HIDE DEF t
  <2> QED BY <1>1, <2>2, MovedOut
<1>4. CASE Requeue(j)
  <2>1. Becomes(j, At(j, "queued")) /\ At(j, "queued").pc \notin Looping
        /\ At(j, "queued").offset = 0
    BY <1>2, <1>4, PlacesOut DEF Requeue, Looping
  <2> QED BY <1>1, <2>1, MovedOut
<1>5. CASE GiveUp(j) \/ Refused(j) \/ Match(j)
  <2>1. Becomes(j, Blank("ended")) /\ Blank("ended").pc \notin Looping
        /\ Blank("ended").offset = 0
    BY <1>2, <1>5, PlacesOut DEF GiveUp, Refused, Match, Looping
  <2> QED BY <1>1, <2>1, MovedOut
<1> QED BY <1>3, <1>4, <1>5

\* The end of an import brings it to its release or to its end.
LEMMA LeaveCover ==
    ASSUME IInv, CoverInv, NEW j \in Jobs, Leave(j), UNCHANGED <<product, embedding>>,
           covers' = covers, job[j].offset = 0
    PROVE  CoverInv'
<1> DEFINE t == IF job[j].holds THEN At(j, "release") ELSE Blank("ended")
<1>1. "release" \in Places /\ "ended" \in Places
  BY DEF Places
<1>2. Becomes(j, t) /\ t.pc \notin Looping /\ t.offset = 0
  BY <1>1, PlacesOut DEF Leave, Looping
<1> HIDE DEF t
<1> QED BY <1>2, MovedOut

LEMMA ImportCover ==
    ASSUME IInv, CoverInv, NEW j \in Jobs,
           \/ AcquireLock(j) \/ RedisDown(j) \/ SourceEnds(j) \/ SourceRead(j)
           \/ Release(j) \/ ReleaseFails(j) \/ UpsertFails(j)
    PROVE  CoverInv'
<1>1. UNCHANGED <<product, embedding>> /\ covers' = covers
  BY DEF AcquireLock, RedisDown, SourceEnds, SourceRead, Release, ReleaseFails, UpsertFails,
         catalogVars
<1>2. /\ job[j] \in Job /\ {"source", "upsert", "ended"} \subseteq Places
      /\ job[j].offset = 0
  BY DEF IInv, JobInv, Places, CoverInv, Covered, AcquireLock, RedisDown, SourceEnds,
         SourceRead, Release, ReleaseFails, UpsertFails
<1>3. CASE AcquireLock(j)
  <2> DEFINE t == [job[j] EXCEPT !.pc = "source", !.holds = TRUE]
  <2>1. t.pc \notin Looping /\ t.offset = 0
    BY <1>2 DEF Job, Looping
  <2>2. Becomes(j, t)
    BY <1>3 DEF AcquireLock
  <2> HIDE DEF t
  <2> QED BY <1>1, <2>1, <2>2, MovedOut
<1>4. CASE RedisDown(j)
  <2>1. Becomes(j, At(j, "source")) /\ At(j, "source").pc \notin Looping
        /\ At(j, "source").offset = 0
    BY <1>2, <1>4, PlacesOut DEF RedisDown, Looping
  <2> QED BY <1>1, <2>1, MovedOut
<1>5. CASE SourceRead(j)
  <2>1. Becomes(j, At(j, "upsert")) /\ At(j, "upsert").pc \notin Looping
        /\ At(j, "upsert").offset = 0
    BY <1>2, <1>5, PlacesOut DEF SourceRead, Looping
  <2> QED BY <1>1, <2>1, MovedOut
<1>6. CASE Leave(j)
  BY <1>1, <1>2, <1>6, LeaveCover
<1>7. CASE Becomes(j, Blank("ended"))
  <2>1. Blank("ended").pc \notin Looping /\ Blank("ended").offset = 0
    BY <1>2, PlacesOut DEF Looping
  <2> QED BY <1>1, <1>7, <2>1, MovedOut
<1> QED BY <1>3, <1>4, <1>5, <1>6, <1>7 DEF SourceEnds, Release, ReleaseFails, UpsertFails

LEMMA FaultCover ==
    ASSUME IInv, CoverInv,
           \/ \E j \in Jobs : Cancel(j)
           \/ \E w \in {"match", "catalog"} : WorkerDies(w)
    PROVE  CoverInv'
<1>1. {"queued", "ended", "lost"} \subseteq Places
  BY DEF Places
<1>2. ASSUME NEW j \in Jobs, Cancel(j) PROVE CoverInv'
  <2>1. UNCHANGED <<product, embedding>> /\ covers' = [covers EXCEPT ![j] = {}]
    BY <1>2 DEF Cancel
  <2>2. Becomes(j, Idle(j, "queued")) \/ Becomes(j, Blank("ended"))
    BY <1>2 DEF Cancel
  <2>3. /\ Idle(j, "queued").pc \notin Looping /\ Blank("ended").pc \notin Looping
        /\ Idle(j, "queued").offset = 0 /\ Blank("ended").offset = 0
    BY <1>1, PlacesOut DEF Looping
  <2> QED BY <2>1, <2>2, <2>3, MovedOut
<1>3. ASSUME NEW w, WorkerDies(w) PROVE CoverInv'
  <2> DEFINE Dies(j) == /\ job[j].pc \notin {"none", "written", "queued", "ended", "lost"}
                        /\ (w = "match") <=> (job[j].kind = "smart")
  <2>1. /\ job' = [j \in Jobs |-> IF Dies(j) THEN Idle(j, "lost") ELSE job[j]]
        /\ covers' = [j \in Jobs |-> IF Dies(j) THEN {} ELSE covers[j]]
        /\ UNCHANGED <<product, embedding>>
    BY <1>3 DEF WorkerDies
  <2>2. \A k \in Jobs : covers'[k] \in {{}, covers[k]}
    BY <2>1
  <2>3. \A k \in Jobs : job'[k] = job[k] \/ (job'[k].pc \notin Looping /\ job'[k].offset = 0)
    BY <1>1, <2>1, PlacesOut DEF Looping
  <2> QED BY <2>1, <2>2, <2>3, CoverKept DEF IInv
<1> QED BY <1>2, <1>3

LEMMA VersionCover ==
    ASSUME IInv, CoverInv, NEW j \in Jobs, BatchFails(j) \/ Deactivate(j) \/ Activate(j)
    PROVE  CoverInv'
<1>1. /\ UNCHANGED <<product, embedding>> /\ JobInv /\ covers \in [Jobs -> SUBSET Products]
      /\ job[j] \in Job
  BY DEF BatchFails, Deactivate, Activate, catalogVars, IInv, Tables, JobInv
<1>2. CASE BatchFails(j) \/ Activate(j)
  <2>1. Becomes(j, AfterReindex(j)) /\ covers' = [covers EXCEPT ![j] = {}]
    BY <1>2 DEF BatchFails, Activate
  <2> QED BY <1>1, <2>1, PlacesOut, MovedOut
<1>3. CASE Deactivate(j)
  <2> DEFINE t == [job[j] EXCEPT !.pc = "activate", !.seen = active]
  <2>1. t.pc = "activate" /\ t.model = job[j].model /\ t.offset = job[j].offset
    BY <1>1 DEF Job
  <2>2. Becomes(j, t) /\ job[j].pc = "version" /\ covers' = covers /\ job[j].offset = 0
    BY <1>3 DEF Deactivate, catalogVars, CoverInv, Covered
  <2> HIDE DEF t
  <2> QED BY <1>1, <2>1, <2>2, CoverMoved
<1> QED BY <1>2, <1>3

\* The steps that touch the products.
LEMMA ProductCover ==
    ASSUME IInv, CoverInv,
           (\E j \in Jobs : Upsert(j)) \/ (\E p \in Products : DeleteProduct(p))
    PROVE  CoverInv'
<1>1. JobInv /\ job \in [Jobs -> Job]
  BY DEF IInv, JobInv
<1>2. ASSUME NEW j \in Jobs, Upsert(j) PROVE CoverInv'
  <2>1. covers' = [k \in Jobs |-> {}]
    BY <1>2 DEF Upsert
  <2>2. PICK t : Becomes(j, t) /\ t.pc \notin Looping /\ t.offset = 0
    <3>1. {"release", "ended", "match", "count"} \subseteq Places /\ job[j].offset = 0
      BY <1>2 DEF Places, Upsert, CoverInv, Covered
    <3>2. \/ Becomes(j, At(j, "release")) \/ Becomes(j, Blank("ended"))
          \/ Becomes(j, At(j, "match")) \/ Becomes(j, At(j, "count"))
      BY <1>2 DEF Upsert, Leave
    <3> QED BY <3>1, <3>2, PlacesOut DEF Looping
  <2>3. job'[j] = t /\ \A k \in Jobs : k # j => job'[k] = job[k]
    BY <1>1, <2>2 DEF Becomes
  <2> QED BY <1>1, <2>1, <2>2, <2>3, CoverReset
<1>3. ASSUME NEW p \in Products, DeleteProduct(p) PROVE CoverInv'
  <2>1. covers' = [k \in Jobs |-> {}] /\ job' = job
    BY <1>3 DEF DeleteProduct
  <2> QED BY <1>1, <2>1, CoverReset
<1> QED BY <1>2, <1>3

-----------------------------------------------------------------------------
\* The loop.  Of job j the step shows what it must; the others keep their bound.

LEMMA LoopCover ==
    ASSUME IInv, CoverInv, NEW j \in Jobs, NEW t, Becomes(j, t), product' = product,
           \A k \in Jobs \ {j} :
              covers'[k] = {} \/ (covers'[k] = covers[k] /\ Wanting(k)' \subseteq Wanting(k)),
           Covered(j)'
    PROVE  CoverInv'
<1>1. JobInv /\ job \in [Jobs -> Job] /\ Present' = Present
  BY DEF IInv, JobInv, Present
<1>2. job'[j] = t /\ \A k \in Jobs : k # j => job'[k] = job[k]
  BY <1>1 DEF Becomes
<1>3. ASSUME NEW k \in Jobs, k # j PROVE Covered(k)'
  <2>1. covers'[k] \in {{}, covers[k]} /\ Wanting(k)' \subseteq Wanting(k)
    BY <1>3 DEF Wanting
  <2>2. Covered(k) /\ job'[k] = job[k]
    BY <1>2, <1>3 DEF CoverInv
  <2> QED BY <1>1, <2>1, <2>2, CoveredKept
<1> QED BY <1>2, <1>3 DEF CoverInv

\* What the places of the loop are made of.
LEMMA LoopParts ==
    ASSUME IInv, NEW j \in Jobs
    PROVE  /\ job[j].offset \in Nat /\ job[j].total \in Nat /\ job[j].model \in Models
           /\ Embedded(j).pc = "version" /\ Embedded(j).offset = 0
           /\ Embedded(j).model = job[j].model
           /\ At(j, "read").offset = job[j].offset
           /\ \A n : LET t == [At(j, "read") EXCEPT !.total = n]
                     IN /\ t.pc = "read" /\ t.offset = job[j].offset /\ t.total = n
                        /\ t.model = job[j].model
           /\ \A rows : LET t == [At(j, "embed") EXCEPT !.rows = rows]
                        IN /\ t.pc = "embed" /\ t.offset = job[j].offset /\ t.rows = rows
                           /\ t.model = job[j].model /\ t.total = job[j].total
           /\ \A n : LET t == [At(j, "read") EXCEPT !.rows = {}, !.offset = n]
                     IN /\ t.pc = "read" /\ t.offset = n /\ t.total = job[j].total
                        /\ t.model = job[j].model
<1>1. job[j] \in Job
  BY DEF IInv, JobInv
<1> QED BY <1>1, JobParts DEF Embedded, At, Job

LEMMA CountCover == ASSUME IInv, CoverInv, NEW j \in Jobs, Count(j) PROVE CoverInv'
<1>1. PICK provider \in Providers :
        /\ Becomes(j, IF provider = "none" \/ Present = {} THEN Embedded(j)
                       ELSE [At(j, "read") EXCEPT !.total = Cardinality(Present)])
        /\ covers' = [covers EXCEPT ![j] = IF provider = "none" THEN {} ELSE Present]
  BY DEF Count
<1> DEFINE u == [At(j, "read") EXCEPT !.total = Cardinality(Present)]
           t == IF provider = "none" \/ Present = {} THEN Embedded(j) ELSE u
<1>2. UNCHANGED <<product, embedding>> /\ Present' = Present /\ job[j].offset = 0
  BY DEF Count, Present, CoverInv, Covered
<1>3. covers \in [Jobs -> SUBSET Products] /\ job \in [Jobs -> Job] /\ Becomes(j, t)
  BY <1>1 DEF IInv, Tables, JobInv
<1>4. /\ covers'[j] = IF provider = "none" THEN {} ELSE Present
      /\ \A k \in Jobs \ {j} : covers'[k] = covers[k] /\ job'[k] = job[k]
      /\ job'[j] = t
  BY <1>1, <1>3 DEF Becomes
<1>5. \A k \in Jobs \ {j} : Wanting(k)' = Wanting(k)
  BY <1>2, <1>4 DEF Wanting, Needing
<1>6. Covered(j)'
  <2>1. CASE provider = "none" \/ Present = {}
    <3>1. job'[j].pc = "version" /\ job'[j].offset = 0
      BY <1>4, <2>1, LoopParts
    <3>2. Wanting(j)' = {} /\ covers'[j] \in {{}, Present'}
      BY <1>2, <1>4, <2>1 DEF Wanting
    <3> QED BY <3>1, <3>2 DEF Covered
  <2>2. CASE ~(provider = "none" \/ Present = {})
    <3>1. job'[j].pc = "read" /\ job'[j].offset = 0 /\ job'[j].total = Cardinality(Present)
      <4>1. job'[j] = u
        BY <1>4, <2>2
      <4>2. u.pc = "read" /\ u.offset = 0 /\ u.total = Cardinality(Present)
        BY <1>2, LoopParts
      <4> QED BY <4>1, <4>2
    <3>2. covers'[j] = Present'
      BY <1>2, <1>4, <2>2
    <3>3. Cardinality(Wanting(j)') \in Nat /\ Cardinality(Wanting(j)') <= Cardinality(Present)
      <4>1. Wanting(j)' \in SUBSET Present
        BY <1>2, <3>2 DEF Wanting
      <4> QED BY <4>1, PresentFinite, FS_Subset, FS_CardinalityType
    <3> QED BY <3>1, <3>2, <3>3, PresentFinite DEF Covered
  <2> QED BY <2>1, <2>2
<1> HIDE DEF t
<1> QED BY <1>2, <1>3, <1>4, <1>5, <1>6, LoopCover

LEMMA ReadBatchCover == ASSUME IInv, CoverInv, NEW j \in Jobs, ReadBatch(j) PROVE CoverInv'
<1> DEFINE needing == Needing(job[j].model)
           batch == Batch(needing)
           u == [At(j, "embed") EXCEPT !.rows = Rows(batch)]
           t == IF batch = {} THEN Embedded(j) ELSE u
<1>1. /\ UNCHANGED <<product, embedding, covers>> /\ Present' = Present /\ Becomes(j, t)
      /\ job[j].pc = "read" /\ job \in [Jobs -> Job] /\ Covered(j)
      /\ product \in [Products -> Product \cup {None}]
  BY DEF ReadBatch, catalogVars, Present, IInv, JobInv, CoverInv, Tables
<1>2. job'[j] = t /\ \A k \in Jobs \ {j} : job'[k] = job[k]
  BY <1>1 DEF Becomes
<1>3. \A k \in Jobs \ {j} : Wanting(k)' = Wanting(k)
  BY <1>1, <1>2 DEF Wanting, Needing
<1>4. /\ needing \in SUBSET Products /\ needing \subseteq Present
      /\ \A p \in Present : p \in Products /\ product[p].text \in Texts
  <2>1. \A p \in Present : product[p] \in Product
    BY <1>1 DEF Present
  <2> QED BY <2>1 DEF Needing, Present, Product
<1>5. Covered(j)'
  <2>1. CASE batch = {}
    <3>1. needing = {}
      BY <1>4, <2>1, BatchSizes
    <3>2. job'[j].pc = "version" /\ job'[j].offset = 0 /\ job'[j].model = job[j].model
      BY <1>2, <2>1, LoopParts
    <3>3. Wanting(j)' = {}
      BY <1>1, <3>1, <3>2 DEF Wanting, Needing
    <3> QED BY <1>1, <3>2, <3>3 DEF Covered
  <2>2. CASE batch # {}
    <3>1. /\ job'[j].pc = "embed" /\ job'[j].offset = job[j].offset
          /\ job'[j].rows = Rows(batch) /\ job'[j].total = job[j].total
          /\ job'[j].model = job[j].model
      <4>1. job'[j] = u
        BY <1>2, <2>2
      <4>2. /\ u.pc = "embed" /\ u.offset = job[j].offset /\ u.rows = Rows(batch)
            /\ u.total = job[j].total /\ u.model = job[j].model
        BY LoopParts
      <4> QED BY <4>1, <4>2
    <3>2. Wanting(j)' = Wanting(j)
      BY <1>1, <3>1 DEF Wanting, Needing
    <3>3. Remaining(j)' \in SUBSET (Wanting(j) \ batch)
      <4>1. \A p \in batch : <<p, product[p].text>> \in job'[j].rows /\ product[p].text \in Texts
        BY <1>4, <3>1, BatchSizes DEF Rows
      <4> QED BY <3>2, <4>1 DEF Remaining
    <3>4. \/ Remaining(j)' = {}
          \/ Cardinality(Remaining(j)') + job'[j].offset + BatchSize <= job'[j].total
      <4>1. CASE covers[j] = {}
        BY <3>3, <4>1 DEF Wanting
      <4>2. CASE covers[j] = Present
        <5>1. Wanting(j) = needing
          BY <1>4, <4>2 DEF Wanting
        <5>2. CASE batch = needing
          BY <3>3, <5>1, <5>2
        <5>3. CASE batch # needing
          <6>1. Cardinality(batch) >= BatchSize /\ batch \in SUBSET Wanting(j)
            BY <1>4, <5>1, <5>3, BatchSizes
          <6> DEFINE w == Cardinality(Wanting(j))
                     b == Cardinality(batch)
                     d == Cardinality(Wanting(j) \ batch)
                     r == Cardinality(Remaining(j)')
          <6>2. IsFiniteSet(batch) /\ b \in Nat /\ w \in Nat /\ b <= w
            BY <6>1, WantingFinite, FS_Subset, FS_CardinalityType
          <6>3. d = w - b /\ IsFiniteSet(Wanting(j) \ batch) /\ d \in Nat
            <7>1. Wanting(j) \cap batch = batch
              BY <6>1
            <7>2. d = w - Cardinality(Wanting(j) \cap batch) /\ IsFiniteSet(Wanting(j) \ batch)
              BY <6>2, WantingFinite, FS_Difference
            <7> QED BY <6>2, <7>1, <7>2, FS_CardinalityType
          <6>4. r <= d /\ r \in Nat
            BY <3>3, <6>3, FS_Subset, FS_CardinalityType
          <6>5. w + job[j].offset <= job[j].total
            BY <1>1 DEF Covered
          <6>6. b >= BatchSize /\ BatchSize \in Nat
            BY <6>1
          <6> HIDE DEF w, b, d, r
          <6>7. r + job[j].offset + BatchSize <= job[j].total
            BY <6>2, <6>3, <6>4, <6>5, <6>6, LoopParts
          <6> QED BY <3>1, <6>7 DEF r
        <5> QED BY <5>2, <5>3
      <4> QED BY <1>1, <4>1, <4>2 DEF Covered
    <3> QED BY <1>1, <3>1, <3>4 DEF Covered
  <2> QED BY <2>1, <2>2
<1> HIDE DEF t
<1> QED BY <1>1, <1>3, <1>5, LoopCover

LEMMA WriteBatchCover == ASSUME IInv, CoverInv, NEW j \in Jobs, WriteBatch(j) PROVE CoverInv'
<1> DEFINE offset == job[j].offset + BatchSize
           u == [At(j, "read") EXCEPT !.rows = {}, !.offset = offset]
           t == IF offset >= job[j].total THEN Embedded(j) ELSE u
           written(p) == \E x \in Texts : <<p, x>> \in job[j].rows
           row(p) == [text |-> CHOOSE x \in Texts : <<p, x>> \in job[j].rows,
                      model |-> job[j].model]
<1>1. /\ product' = product /\ Present' = Present /\ Becomes(j, t) /\ Covered(j)
      /\ job[j].pc = "embed" /\ job \in [Jobs -> Job] /\ Present \subseteq Products
      /\ covers' = [k \in Jobs |-> IF job[k].model = job[j].model THEN covers[k] ELSE {}]
      /\ embedding' = [p \in Products |-> IF written(p) THEN row(p) ELSE embedding[p]]
  BY DEF WriteBatch, Present, IInv, JobInv, CoverInv
<1>2. job'[j] = t /\ \A k \in Jobs \ {j} : job'[k] = job[k]
  BY <1>1 DEF Becomes
<1>3. /\ offset \in Nat /\ job[j].total \in Nat /\ job[j].offset \in Nat
      /\ job[j].model \in Models
  BY LoopParts
<1>4. t.model = job[j].model
  <2>1. u.model = job[j].model
    BY LoopParts
  <2> QED BY <2>1, LoopParts
<1>5. \A p \in Products : written(p) => embedding'[p] # None
                                       /\ embedding'[p].model = job[j].model
  <2>1. ASSUME NEW p \in Products, written(p) PROVE row(p) \in Embedding
    <3>1. (CHOOSE x \in Texts : <<p, x>> \in job[j].rows) \in Texts
      BY <2>1
    <3> QED BY <1>3, <3>1 DEF Embedding
  <2>2. \A p : row(p).model = job[j].model
    OBVIOUS
  <2> HIDE DEF row
  <2> QED BY <1>1, <2>1, <2>2
<1>6. \A p \in Products : ~written(p) => embedding'[p] = embedding[p]
  BY <1>1
<1>7. Needing(job[j].model)' = {p \in Present : embedding'[p] = None \/ embedding'[p].model # t.model}
  BY <1>1, <1>2, <1>4 DEF Needing
<1> HIDE DEF written, row
<1>8. ASSUME NEW k \in Jobs \ {j}
      PROVE  covers'[k] = {} \/ (covers'[k] = covers[k] /\ Wanting(k)' \subseteq Wanting(k))
  <2>1. CASE job[k].model = job[j].model
    <3>1. covers'[k] = covers[k] /\ job'[k] = job[k]
      BY <1>1, <1>2, <2>1
    <3>2. ASSUME NEW p \in Wanting(k)' PROVE p \in Wanting(k)
      <4>1. /\ p \in covers[k] /\ p \in Present /\ p \in Products
            /\ embedding'[p] = None \/ embedding'[p].model # job[k].model
        BY <1>1, <3>1 DEF Wanting, Needing
      <4>2. embedding'[p] = embedding[p]
        BY <1>5, <1>6, <2>1, <4>1
      <4> QED BY <4>1, <4>2 DEF Wanting, Needing
    <3> QED BY <3>1, <3>2
  <2>2. CASE job[k].model # job[j].model
    BY <1>1, <2>2
  <2> QED BY <2>1, <2>2
<1>9. Covered(j)'
  <2>1. Wanting(j)' \in SUBSET Remaining(j)
    <3>1. ASSUME NEW p \in Wanting(j)' PROVE p \in Remaining(j)
      <4>1. /\ p \in covers[j] /\ p \in Present /\ p \in Products
            /\ embedding'[p] = None \/ embedding'[p].model # job[j].model
        BY <1>1, <1>2, <1>4 DEF Wanting, Needing
      <4>2. ~written(p) /\ embedding'[p] = embedding[p]
        BY <1>5, <1>6, <4>1
      <4> QED BY <4>1, <4>2 DEF Wanting, Needing, Remaining, written
    <3> QED BY <3>1
  <2>2. covers'[j] = covers[j] /\ covers'[j] \in {{}, Present'}
    BY <1>1 DEF Covered
  <2> DEFINE w == Cardinality(Wanting(j)')
             r == Cardinality(Remaining(j))
  <2>3. w \in Nat /\ r \in Nat /\ w <= r /\ (r = 0 => Remaining(j) = {})
        /\ (Remaining(j) = {} => w = 0)
    <3>1. IsFiniteSet(Remaining(j)) /\ r \in Nat
      BY WantingFinite
    <3>2. IsFiniteSet(Wanting(j)') /\ w <= r /\ w \in Nat
      BY <2>1, <3>1, FS_Subset, FS_CardinalityType
    <3> QED BY <2>1, <3>1, <3>2, FS_EmptySet
  <2>4. r = 0 \/ r + offset <= job[j].total
    <3>1. Remaining(j) = {} => r = 0
      BY FS_EmptySet
    <3> QED BY <1>1, <1>3, <2>3, <3>1 DEF Covered
  <2> HIDE DEF w, r
  <2>5. CASE offset >= job[j].total
    <3>1. r = 0
      BY <1>3, <2>3, <2>4, <2>5
    <3>2. Wanting(j)' = {}
      BY <2>1, <2>3, <3>1
    <3>3. job'[j].pc = "version" /\ job'[j].offset = 0
      BY <1>2, <2>5, LoopParts
    <3> QED BY <2>2, <3>2, <3>3 DEF Covered
  <2>6. CASE ~(offset >= job[j].total)
    <3>1. job'[j].pc = "read" /\ job'[j].offset = offset /\ job'[j].total = job[j].total
      <4>1. job'[j] = u
        BY <1>2, <2>6
      <4>2. u.pc = "read" /\ u.offset = offset /\ u.total = job[j].total
        BY LoopParts
      <4> QED BY <4>1, <4>2
    <3>2. w + offset <= job[j].total
      BY <1>3, <2>3, <2>4, <2>6
    <3> QED BY <2>2, <3>1, <3>2 DEF Covered, w
  <2> QED BY <2>5, <2>6
<1> HIDE DEF t, offset
<1> QED BY <1>1, <1>8, <1>9, LoopCover

-----------------------------------------------------------------------------
LEMMA StepCover == IInv /\ CoverInv /\ [Next]_vars => CoverInv'
<1> SUFFICES ASSUME IInv, CoverInv, [Next]_vars PROVE CoverInv'
  OBVIOUS
<1>1. ASSUME NEW j \in Jobs, Submit(j) PROVE CoverInv'
  BY <1>1, EndpointCover
<1>2. ASSUME NEW j \in Jobs, JobStep(j) PROVE CoverInv'
  BY <1>2, EndpointCover, QueueCover, ImportCover, ProductCover, CountCover, ReadBatchCover,
     WriteBatchCover, VersionCover DEF JobStep
<1>3. ASSUME NEW j \in Jobs, JobFault(j) PROVE CoverInv'
  BY <1>3, EndpointCover, FaultCover, ImportCover DEF JobFault
<1>4. ASSUME NEW w \in {"match", "catalog"}, WorkerDies(w) PROVE CoverInv'
  BY <1>4, FaultCover
<1>5. ASSUME NEW p \in Products, DeleteProduct(p) PROVE CoverInv'
  BY <1>5, ProductCover
<1>6. CASE (\E v \in Version : RollBack(v)) \/ RollBackEnds \/ LockExpires \/ UNCHANGED vars
  <2>1. UNCHANGED <<product, embedding, covers, job>> /\ JobInv
    BY <1>6 DEF RollBack, RollBackEnds, LockExpires, catalogVars, vars, IInv
  <2> QED BY <2>1, CoverKept
<1> QED BY <1>1, <1>2, <1>3, <1>4, <1>5, <1>6 DEF Next

LEMMA CoverInductive == Spec => [](IInv /\ CoverInv)
BY InitIInv, StepIInv, CoverStart, StepCover, PTL DEF Spec

\* When the batches of a reindex are done, every product that it has counted has an
\* embedding of its model, however many reindexes with the same model have shared the
\* work, and whatever the size of the batches.
THEOREM CoversCorrect == Spec => []ReindexCovers
<1>1. CoverInv => ReindexCovers
  <2> SUFFICES ASSUME CoverInv, NEW j \in Jobs, job[j].pc \in {"version", "activate"},
                      NEW p \in covers[j]
               PROVE  embedding[p] # None /\ embedding[p].model = job[j].model
    BY DEF ReindexCovers
  <2> QED BY DEF CoverInv, Covered, Wanting, Needing
<1> QED BY <1>1, CoverInductive, PTL
=============================================================================
