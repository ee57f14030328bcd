------------------------- MODULE ConvergenceProofs -------------------------
(***************************************************************************)
(* The proofs about Convergence, for any notes, contents and bounds.       *)
(***************************************************************************)
EXTENDS Convergence, TLAPS

\* Only parsed content is written to the index.
TypeInv == TypeOK /\ \A a \in Actor : pc[a] = "upsert" => seen[a] \in Content

-----------------------------------------------------------------------------
(***************************************************************************)
(* Types                                                                   *)
(***************************************************************************)
LEMMA Contents ==
  /\ NoContent \notin Content /\ Broken \notin Content /\ NoContent # Broken
  BY ConvergenceAssumption DEF NoContent, Broken, Content

LEMMA Actors == "watcher" \in Actor /\ "http" \in Actor /\ "cli" \in Actor
  BY DEF Actor

LEMMA StageNames ==
  \A s \in {"down", "init", "init_scan", "init_manifest", "init_recover", "init_plan",
            "init_deliver", "init_record", "observe", "scan", "manifest", "recover", "plan",
            "rescan", "prune", "deliver", "consume", "jobs", "mark", "read", "upsert", "done",
            "quarantine", "idle", "armed", "captured", "write", "enqueue"} : s \in Stages
  BY DEF Stages, StartStages, SyncStages, JobStages

LEMMA JobEnds ==
  AfterJobs("watcher") = "rescan" /\ AfterJobs("http") = "deliver" /\ AfterJobs("cli") = "idle"
  BY DEF AfterJobs

LEMMA EmptyType == Empty \in [Note -> Content \cup {NoContent}] /\ \A n \in Note : Empty[n] = NoContent
  BY DEF Empty

LEMMA ParsedType ==
  ASSUME NEW f
  PROVE  /\ Parsed(f) \in [Note -> Content \cup {NoContent}]
         /\ \A n \in Note : Parsed(f)[n] = IF f[n] \in Content THEN f[n] ELSE NoContent
  BY DEF Parsed

LEMMA TypeInit == Init => TypeInv
  <1> SUFFICES ASSUME Init PROVE TypeInv
    OBVIOUS
  <1>1. jobs \in [Note -> [Content -> JobStates]]
    BY DEF Init, JobStates
  <1>2. pc \in [Actor -> Stages] /\ \A a \in Actor : pc[a] # "upsert"
    BY StageNames DEF Init
  <1>3. /\ file \in [Note -> Content \cup {NoContent, Broken}]
        /\ manifest \in [Note -> Content \cup {NoContent}]
        /\ backfill \in [Note -> Content \cup {NoContent}]
        /\ valid \in [Actor -> [Note -> Content \cup {NoContent}]]
        /\ before \in [Actor -> [Note -> Content \cup {NoContent}]]
    BY EmptyType DEF Init
  <1>4. 0 \in 0..MaxFaults /\ 0 \in 0..MaxCrashes
    BY ConvergenceAssumption
  <1> QED BY <1>1, <1>2, <1>3, <1>4 DEF Init, TypeInv, TypeOK

\* An actor moves to another stage.
LEMMA GotoType ==
  ASSUME TypeInv, NEW a \in Actor, NEW s \in Stages, Goto(a, s),
         s = "upsert" => seen'[a] \in Content,
         \A b \in Actor : b # a => seen'[b] = seen[b]
  PROVE  /\ pc' \in [Actor -> Stages]
         /\ \A b \in Actor : pc'[b] = "upsert" => seen'[b] \in Content
  BY DEF Goto, TypeInv, TypeOK

LEMMA ScanType ==
  ASSUME TypeInv, NEW a \in Actor, NEW stage, NEW next \in Stages, next # "upsert",
         Scan(a, stage, next)
  PROVE  TypeInv'
  <1>1. pc' \in [Actor -> Stages] /\ \A b \in Actor : pc'[b] = "upsert" => seen'[b] \in Content
    BY GotoType DEF Scan
  <1>2. valid' \in [Actor -> [Note -> Content \cup {NoContent}]]
    BY ParsedType DEF Scan, Set, TypeInv, TypeOK
  <1> QED BY <1>1, <1>2 DEF Scan, TypeInv, TypeOK, dbVars, watchVars

LEMMA ReadManifestType ==
  ASSUME TypeInv, NEW a \in Actor, NEW stage, NEW next \in Stages, next # "upsert",
         ReadManifest(a, stage, next)
  PROVE  TypeInv'
  <1>1. pc' \in [Actor -> Stages] /\ \A b \in Actor : pc'[b] = "upsert" => seen'[b] \in Content
    BY GotoType DEF ReadManifest
  <1>2. before' \in [Actor -> [Note -> Content \cup {NoContent}]]
    BY DEF ReadManifest, Set, TypeInv, TypeOK
  <1> QED BY <1>1, <1>2 DEF ReadManifest, TypeInv, TypeOK, dbVars, watchVars

LEMMA PlanType ==
  ASSUME TypeInv, NEW a \in Actor, NEW stage, NEW next \in Stages, next # "upsert",
         PlanJobs(a, stage, next)
  PROVE  TypeInv'
  <1>1. pc' \in [Actor -> Stages] /\ \A b \in Actor : pc'[b] = "upsert" => seen'[b] \in Content
    BY GotoType DEF PlanJobs
  <1>2. Planned(valid[a], before[a]) \in SUBSET (Note \X Content \X {"done", "pending"})
    <2>1. \A n \in Note : valid[a][n] # NoContent => valid[a][n] \in Content
      BY DEF TypeInv, TypeOK
    <2> QED BY <2>1 DEF Planned
  <1>3. plan' \in [Actor -> SUBSET (Note \X Content \X {"done", "pending"})]
    BY <1>2 DEF PlanJobs, Set, TypeInv, TypeOK
  <1> QED BY <1>1, <1>3 DEF PlanJobs, TypeInv, TypeOK, dbVars, watchVars

LEMMA WriteJobsType ==
  ASSUME TypeInv, NEW a \in Actor, NEW stage, NEW next \in Stages, next # "upsert",
         WriteJobs(a, stage, next)
  PROVE  TypeInv'
  <1>1. pc' \in [Actor -> Stages] /\ \A b \in Actor : pc'[b] = "upsert" => seen'[b] \in Content
    BY GotoType DEF WriteJobs
  <1>2. jobs' \in [Note -> [Content -> JobStates]]
    BY DEF WriteJobs, WithPlan, JobStates, TypeInv, TypeOK
  <1>3. plan' \in [Actor -> SUBSET (Note \X Content \X {"done", "pending"})]
    BY DEF WriteJobs, Set, TypeInv, TypeOK
  <1> QED BY <1>1, <1>2, <1>3 DEF WriteJobs, TypeInv, TypeOK, watchVars

LEMMA ProcessJobsType ==
  ASSUME TypeInv, NEW a \in Actor, ProcessJobs(a) PROVE TypeInv'
  <1>1. ASSUME SelectJob(a) PROVE TypeInv'
    <2>1. PICK s \in {AfterJobs(a), "mark"} : Goto(a, s)
      BY <1>1 DEF SelectJob
    <2>2. s \in Stages /\ s # "upsert"
      BY <2>1, JobEnds, StageNames DEF Actor
    <2>3. pc' \in [Actor -> Stages] /\ \A b \in Actor : pc'[b] = "upsert" => seen'[b] \in Content
      BY <1>1, <2>1, <2>2, GotoType DEF SelectJob
    <2>4. claim' \in [Actor -> SUBSET (Note \X Content)]
      <3>1. \A j \in PendingJobs : {j} \in SUBSET (Note \X Content)
        BY DEF PendingJobs
      <3>2. claim' = claim \/ \E j \in PendingJobs : claim' = [claim EXCEPT ![a] = {j}]
        BY <1>1 DEF SelectJob
      <3> QED BY <3>1, <3>2 DEF TypeInv, TypeOK
    <2> QED BY <1>1, <2>3, <2>4 DEF SelectJob, TypeInv, TypeOK, dbVars, watchVars
  <1>2. ASSUME NEW st \in JobStates, SetJob(a, st) PROVE jobs' \in [Note -> [Content -> JobStates]]
    BY <1>2 DEF SetJob, TypeInv, TypeOK
  <1>3. ASSUME MarkRunning(a) PROVE TypeInv'
    <2>1. pc' \in [Actor -> Stages] /\ \A b \in Actor : pc'[b] = "upsert" => seen'[b] \in Content
      BY <1>3, StageNames, GotoType DEF MarkRunning, localVars
    <2>2. jobs' \in [Note -> [Content -> JobStates]]
      BY <1>2, <1>3 DEF MarkRunning, JobStates
    <2> QED BY <1>3, <2>1, <2>2 DEF MarkRunning, TypeInv, TypeOK, watchVars, localVars
  <1>4. ASSUME ReadForIndex(a) PROVE TypeInv'
    <2>1. PICK j \in claim[a] :
            /\ seen' = [seen EXCEPT ![a] = file[j[1]]]
            /\ Goto(a, IF file[j[1]] \in Content THEN "upsert" ELSE "quarantine")
      BY <1>4 DEF ReadForIndex
    <2>2. j[1] \in Note
      BY <2>1 DEF TypeInv, TypeOK
    <2>3. file[j[1]] \in Content \cup {NoContent, Broken}
      BY <2>2 DEF TypeInv, TypeOK
    <2>4. seen' \in [Actor -> Content \cup {NoContent, Broken}] /\ seen'[a] = file[j[1]]
          /\ \A b \in Actor : b # a => seen'[b] = seen[b]
      BY <2>1, <2>3 DEF TypeInv, TypeOK
    <2>5. PICK s : s = IF file[j[1]] \in Content THEN "upsert" ELSE "quarantine"
      OBVIOUS
    <2>6. s \in Stages /\ Goto(a, s) /\ (s = "upsert" => seen'[a] \in Content)
      BY <2>1, <2>4, <2>5, StageNames
    <2>7. pc' \in [Actor -> Stages] /\ \A b \in Actor : pc'[b] = "upsert" => seen'[b] \in Content
      BY <2>4, <2>6, GotoType
    <2> QED BY <1>4, <2>4, <2>7 DEF ReadForIndex, TypeInv, TypeOK, dbVars, watchVars
  <1>5. ASSUME UpsertIndex(a) PROVE TypeInv'
    <2>1. pc' \in [Actor -> Stages] /\ \A b \in Actor : pc'[b] = "upsert" => seen'[b] \in Content
      BY <1>5, StageNames, GotoType DEF UpsertIndex, localVars
    <2>2. seen[a] \in Content
      BY <1>5 DEF UpsertIndex, TypeInv
    <2>3. manifest' \in [Note -> Content \cup {NoContent}]
      BY <1>5, <2>2 DEF UpsertIndex, TypeInv, TypeOK
    <2> QED BY <1>5, <2>1, <2>3 DEF UpsertIndex, TypeInv, TypeOK, watchVars, localVars
  <1>6. ASSUME FinishJob(a) PROVE TypeInv'
    <2>1. seen' \in [Actor -> Content \cup {NoContent, Broken}]
          /\ claim' \in [Actor -> SUBSET (Note \X Content)]
          /\ \A b \in Actor : b # a => seen'[b] = seen[b]
      BY <1>6 DEF FinishJob, Set, TypeInv, TypeOK
    <2>2. pc' \in [Actor -> Stages] /\ \A b \in Actor : pc'[b] = "upsert" => seen'[b] \in Content
      BY <1>6, <2>1, StageNames, GotoType DEF FinishJob
    <2>3. jobs' \in [Note -> [Content -> JobStates]]
      BY <1>2, <1>6 DEF FinishJob, JobStates
    <2> QED BY <1>6, <2>1, <2>2, <2>3 DEF FinishJob, TypeInv, TypeOK, watchVars
  <1> QED BY <1>1, <1>3, <1>4, <1>5, <1>6 DEF ProcessJobs

\* Steps of one actor that change its stage and, of the data, what is named.
LEMMA QuietGoto ==
  ASSUME TypeInv, NEW a \in Actor, NEW s \in Stages, s # "upsert", Goto(a, s), UNCHANGED seen
  PROVE  pc' \in [Actor -> Stages] /\ \A b \in Actor : pc'[b] = "upsert" => seen'[b] \in Content
  BY GotoType

LEMMA InitServiceType ==
  ASSUME TypeInv, NEW a \in Actor, InitService(a) PROVE TypeInv'
  <1>1. ASSUME InitSchema(a) PROVE TypeInv'
    <2>1. pc' \in [Actor -> Stages] /\ \A b \in Actor : pc'[b] = "upsert" => seen'[b] \in Content
      BY <1>1, StageNames, QuietGoto DEF InitSchema, localVars
    <2>2. jobs' \in [Note -> [Content -> JobStates]]
      BY <1>1 DEF InitSchema, Requeued, JobStates, TypeInv, TypeOK
    <2> QED BY <1>1, <2>1, <2>2 DEF InitSchema, TypeInv, TypeOK, watchVars, localVars
  <1>2. ASSUME InitPlan(a) PROVE TypeInv'
    <2>1. PICK s : s = (CASE a = "cli" -> "write"
                          [] a = "watcher" /\ backfill = valid[a] -> "observe"
                          [] OTHER -> "init_deliver")
      OBVIOUS
    <2>2. s \in {"write", "observe", "init_deliver"}
      BY <2>1
    <2>3. WriteJobs(a, "init_plan", s)
      BY <1>2, <2>1 DEF InitPlan
    <2> QED BY <2>2, <2>3, StageNames, WriteJobsType
  <1> QED BY <1>1, <1>2, StageNames, ScanType, ReadManifestType, PlanType
          DEF InitService, InitScan, InitManifest, InitRecover

LEMMA StartUpType == ASSUME TypeInv, StartUp PROVE TypeInv'
  <1>1. ASSUME Restart \/ InitDeliver \/ InitRecord \/ StartObserver PROVE TypeInv'
    <2>1. PICK s \in {"init", "init_record", "observe", "idle"} : Goto("watcher", s)
      BY <1>1 DEF Restart, InitDeliver, InitRecord, StartObserver
    <2>2. UNCHANGED seen
      BY <1>1 DEF Restart, InitDeliver, InitRecord, StartObserver, localVars
    <2>3. pc' \in [Actor -> Stages] /\ \A b \in Actor : pc'[b] = "upsert" => seen'[b] \in Content
      BY <2>1, <2>2, StageNames, Actors, QuietGoto
    <2>4. delivered' \subseteq Note
      BY <1>1 DEF Restart, InitDeliver, InitRecord, StartObserver, dbVars, Corpus, TypeInv, TypeOK
    <2>5. backfill' \in [Note -> Content \cup {NoContent}]
      BY <1>1, Actors DEF Restart, InitDeliver, InitRecord, StartObserver, dbVars, TypeInv, TypeOK
    <2>6. before' \in [Actor -> [Note -> Content \cup {NoContent}]]
      BY <1>1, EmptyType DEF Restart, InitDeliver, InitRecord, StartObserver, localVars, Set,
         TypeInv, TypeOK
    <2>7. UNCHANGED <<file, manifest, jobs, watchVars, note, claim, seen, valid, plan, todo,
                      faults, crashes>>
      BY <1>1 DEF Restart, InitDeliver, InitRecord, StartObserver, dbVars, localVars
    <2> QED BY <2>3, <2>4, <2>5, <2>6, <2>7 DEF TypeInv, TypeOK, watchVars
  <1> QED BY <1>1, Actors, InitServiceType DEF StartUp

LEMMA FilesType ==
  ASSUME TypeInv,
         \/ \E n \in EditNotes, c \in Content \cup {NoContent, Broken} : EditFile(n, c)
         \/ \E n \in Note : Notify(n)
  PROVE  TypeInv'
  <1>1. ASSUME NEW n \in EditNotes, NEW c \in Content \cup {NoContent, Broken}, EditFile(n, c)
        PROVE  TypeInv'
    <2>1. n \in Note
      BY ConvergenceAssumption
    <2>2. file' \in [Note -> Content \cup {NoContent, Broken}] /\ events' \subseteq Note
      BY <1>1, <2>1 DEF EditFile, Touch, TypeInv, TypeOK
    <2> QED BY <1>1, <2>2 DEF EditFile, TypeInv, TypeOK, dbVars, localVars
  <1>2. ASSUME NEW n \in Note, Notify(n) PROVE TypeInv'
    BY <1>2 DEF Notify, TypeInv, TypeOK, dbVars, localVars
  <1> QED BY <1>1, <1>2

LEMMA WatcherType == ASSUME TypeInv, Watcher PROVE TypeInv'
  <1>1. ASSUME Arm \/ Capture \/ SyncLock \/ Consume PROVE TypeInv'
    <2>1. PICK s \in {"armed", "idle", "captured", "scan"} : Goto("watcher", s)
      BY <1>1 DEF Arm, Capture, SyncLock, Consume
    <2>2. UNCHANGED <<file, dbVars, localVars, faults, crashes>>
      BY <1>1 DEF Arm, Capture, SyncLock, Consume
    <2>3. pc' \in [Actor -> Stages] /\ \A b \in Actor : pc'[b] = "upsert" => seen'[b] \in Content
      BY <2>1, <2>2, StageNames, Actors, QuietGoto DEF localVars
    <2>4. /\ events' \subseteq Note /\ pending' \subseteq Note
          /\ renewed' \subseteq pending' /\ ready' \subseteq pending' /\ changed' \in BOOLEAN
      BY <1>1 DEF Arm, Capture, SyncLock, Consume, watchVars, TypeInv, TypeOK
    <2> QED BY <2>2, <2>3, <2>4 DEF TypeInv, TypeOK, dbVars, localVars
  <1>2. ASSUME SyncPrune PROVE TypeInv'
    <2>1. pc' \in [Actor -> Stages] /\ \A b \in Actor : pc'[b] = "upsert" => seen'[b] \in Content
      BY <1>2, StageNames, Actors, QuietGoto DEF SyncPrune
    <2>2. manifest' \in [Note -> Content \cup {NoContent}] /\ todo' \subseteq Note
      BY <1>2 DEF SyncPrune, ChangedNotes, TypeInv, TypeOK
    <2>3. /\ valid' \in [Actor -> [Note -> Content \cup {NoContent}]]
          /\ before' \in [Actor -> [Note -> Content \cup {NoContent}]]
      BY <1>2, EmptyType DEF SyncPrune, Set, TypeInv, TypeOK
    <2> QED BY <1>2, <2>1, <2>2, <2>3 DEF SyncPrune, TypeInv, TypeOK, watchVars
  <1>3. ASSUME SyncDeliver PROVE TypeInv'
    <2>1. pc' \in [Actor -> Stages] /\ \A b \in Actor : pc'[b] = "upsert" => seen'[b] \in Content
      <3>1. CASE UNCHANGED pc
        BY <1>3, <3>1 DEF SyncDeliver, TypeInv, TypeOK
      <3>2. CASE Goto("watcher", "consume")
        BY <1>3, <3>2, StageNames, Actors, QuietGoto DEF SyncDeliver
      <3> QED BY <1>3, <3>1, <3>2 DEF SyncDeliver
    <2>2. delivered' \subseteq Note /\ todo' \subseteq Note
      BY <1>3 DEF SyncDeliver, TypeInv, TypeOK
    <2> QED BY <1>3, <2>1, <2>2 DEF SyncDeliver, TypeInv, TypeOK, watchVars
  <1> QED BY <1>1, <1>2, <1>3, StageNames, Actors, ScanType, ReadManifestType, PlanType,
             WriteJobsType, ProcessJobsType
          DEF Watcher, SyncScan, SyncManifest, SyncRecover, SyncPlan, SyncRescan

LEMMA CreateType ==
  ASSUME TypeInv,
         \/ \E n \in ApiNotes : HttpCreate(n)
         \/ \E n \in CliNotes : CliCreate(n)
         \/ \E a \in Actor : CreateNote(a)
         \/ HttpDeliver
  PROVE  TypeInv'
  <1>1. ASSUME NEW n \in ApiNotes, HttpCreate(n) PROVE TypeInv'
    <2>1. n \in Note
      BY ConvergenceAssumption
    <2>2. PICK s \in {"write", "enqueue"} : Goto("http", s)
      BY <1>1 DEF HttpCreate
    <2>3. seen' \in [Actor -> Content \cup {NoContent, Broken}]
          /\ \A b \in Actor : b # "http" => seen'[b] = seen[b]
      BY <1>1, <2>1 DEF HttpCreate, TypeInv, TypeOK
    <2>4. pc' \in [Actor -> Stages] /\ \A b \in Actor : pc'[b] = "upsert" => seen'[b] \in Content
      BY <2>2, <2>3, StageNames, Actors, GotoType
    <2>5. note' \in [Actor -> SUBSET Note]
      BY <1>1, <2>1 DEF HttpCreate, TypeInv, TypeOK
    <2> QED BY <1>1, <2>3, <2>4, <2>5 DEF HttpCreate, TypeInv, TypeOK, dbVars, watchVars
  <1>2. ASSUME NEW n \in CliNotes, CliCreate(n) PROVE TypeInv'
    <2>1. n \in Note
      BY ConvergenceAssumption
    <2>2. pc' \in [Actor -> Stages] /\ \A b \in Actor : pc'[b] = "upsert" => seen'[b] \in Content
      BY <1>2, StageNames, Actors, QuietGoto DEF CliCreate
    <2>3. note' \in [Actor -> SUBSET Note]
      BY <1>2, <2>1 DEF CliCreate, TypeInv, TypeOK
    <2> QED BY <1>2, <2>2, <2>3 DEF CliCreate, TypeInv, TypeOK, dbVars, watchVars
  <1>3. ASSUME NEW a \in Actor, NEW c \in Content, WriteFile(a, c) PROVE TypeInv'
    <2>1. PICK n \in note[a] : file' = [file EXCEPT ![n] = c] /\ Touch(n)
      BY <1>3 DEF WriteFile
    <2>2. n \in Note
      BY <2>1 DEF TypeInv, TypeOK
    <2>3. file' \in [Note -> Content \cup {NoContent, Broken}] /\ events' \subseteq Note
      BY <2>1, <2>2 DEF Touch, TypeInv, TypeOK
    <2>4. seen' \in [Actor -> Content \cup {NoContent, Broken}]
          /\ \A b \in Actor : b # a => seen'[b] = seen[b]
      BY <1>3 DEF WriteFile, TypeInv, TypeOK
    <2>5. pc' \in [Actor -> Stages] /\ \A b \in Actor : pc'[b] = "upsert" => seen'[b] \in Content
      BY <1>3, <2>4, StageNames, GotoType DEF WriteFile
    <2> QED BY <1>3, <2>3, <2>4, <2>5 DEF WriteFile, TypeInv, TypeOK, dbVars
  <1>4. ASSUME NEW a \in Actor, EnqueueJob(a) PROVE TypeInv'
    <2>1. PICK n \in note[a] : jobs' = Enqueued(n, seen[a])
      BY <1>4 DEF EnqueueJob
    <2>2. jobs' \in [Note -> [Content -> JobStates]]
      <3>1. "pending" \in JobStates /\ n \in Note
        BY <2>1 DEF JobStates, TypeInv, TypeOK
      <3>2. jobs' = jobs \/ jobs' = [jobs EXCEPT ![n] = [jobs[n] EXCEPT ![seen[a]] = "pending"]]
        BY <2>1 DEF Enqueued
      <3>3. [jobs[n] EXCEPT ![seen[a]] = "pending"] \in [Content -> JobStates]
        BY <3>1 DEF TypeInv, TypeOK
      <3> QED BY <3>2, <3>3 DEF TypeInv, TypeOK
    <2>3. seen' \in [Actor -> Content \cup {NoContent, Broken}]
          /\ \A b \in Actor : b # a => seen'[b] = seen[b]
      BY <1>4 DEF EnqueueJob, Set, TypeInv, TypeOK
    <2>4. pc' \in [Actor -> Stages] /\ \A b \in Actor : pc'[b] = "upsert" => seen'[b] \in Content
      BY <1>4, <2>3, StageNames, GotoType DEF EnqueueJob
    <2> QED BY <1>4, <2>2, <2>3, <2>4 DEF EnqueueJob, TypeInv, TypeOK, watchVars
  <1>5. ASSUME HttpDeliver PROVE TypeInv'
    <2>1. pc' \in [Actor -> Stages] /\ \A b \in Actor : pc'[b] = "upsert" => seen'[b] \in Content
      BY <1>5, StageNames, Actors, QuietGoto DEF HttpDeliver
    <2>2. delivered' \subseteq Note
      BY <1>5, Actors DEF HttpDeliver, TypeInv, TypeOK
    <2>3. note' \in [Actor -> SUBSET Note]
      BY <1>5 DEF HttpDeliver, Set, TypeInv, TypeOK
    <2> QED BY <1>5, <2>1, <2>2, <2>3 DEF HttpDeliver, TypeInv, TypeOK, watchVars
  <1> QED BY <1>1, <1>2, <1>3, <1>4, <1>5, ProcessJobsType DEF CreateNote

LEMMA ForgetType ==
  ASSUME TypeInv, NEW stopped, Forget(stopped)
  PROVE  /\ note' \in [Actor -> SUBSET Note] /\ claim' \in [Actor -> SUBSET (Note \X Content)]
         /\ seen' \in [Actor -> Content \cup {NoContent, Broken}]
         /\ valid' \in [Actor -> [Note -> Content \cup {NoContent}]]
         /\ before' \in [Actor -> [Note -> Content \cup {NoContent}]]
         /\ plan' \in [Actor -> SUBSET (Note \X Content \X {"done", "pending"})]
         /\ todo' \subseteq Note
         /\ \A b \in Actor : b \notin stopped => seen'[b] = seen[b]
  BY EmptyType DEF Forget, TypeInv, TypeOK

LEMMA FailureType ==
  ASSUME TypeInv, Crash \/ \E a \in Actor : Fail(a) \/ FailUpsert(a) PROVE TypeInv'
  <1>1. ASSUME Crash PROVE TypeInv'
    <2>1. crashes' \in 0..MaxCrashes
      BY <1>1, ConvergenceAssumption DEF Crash, TypeInv, TypeOK
    <2>2. /\ note' \in [Actor -> SUBSET Note] /\ claim' \in [Actor -> SUBSET (Note \X Content)]
          /\ seen' \in [Actor -> Content \cup {NoContent, Broken}]
          /\ valid' \in [Actor -> [Note -> Content \cup {NoContent}]]
          /\ before' \in [Actor -> [Note -> Content \cup {NoContent}]]
          /\ plan' \in [Actor -> SUBSET (Note \X Content \X {"done", "pending"})]
          /\ todo' \subseteq Note
          /\ \A b \in Actor : b \notin {"watcher", "http"} => seen'[b] = seen[b]
      BY <1>1, ForgetType DEF Crash
    <2>3. pc' \in [Actor -> Stages]
          /\ \A b \in Actor : pc'[b] = IF b = "watcher" THEN "down" ELSE
                                       IF b = "http" THEN "idle" ELSE pc[b]
      BY <1>1, StageNames DEF Crash, TypeInv, TypeOK
    <2>4. \A b \in Actor : pc'[b] = "upsert" => seen'[b] \in Content
      BY <2>2, <2>3 DEF TypeInv
    <2> QED BY <1>1, <2>1, <2>2, <2>3, <2>4 DEF Crash, TypeInv, TypeOK, dbVars
  <1>2. ASSUME NEW a \in Actor, Fail(a) PROVE TypeInv'
    <2>1. faults' \in 0..MaxFaults
      BY <1>2, ConvergenceAssumption DEF Fail, TypeInv, TypeOK
    <2>2. /\ note' \in [Actor -> SUBSET Note] /\ claim' \in [Actor -> SUBSET (Note \X Content)]
          /\ seen' \in [Actor -> Content \cup {NoContent, Broken}]
          /\ valid' \in [Actor -> [Note -> Content \cup {NoContent}]]
          /\ before' \in [Actor -> [Note -> Content \cup {NoContent}]]
          /\ plan' \in [Actor -> SUBSET (Note \X Content \X {"done", "pending"})]
          /\ todo' \subseteq Note
          /\ \A b \in Actor : b \notin {a} => seen'[b] = seen[b]
      BY <1>2, ForgetType DEF Fail
    <2>3. pc' \in [Actor -> Stages] /\ \A b \in Actor : pc'[b] = "upsert" => seen'[b] \in Content
      BY <1>2, <2>2, StageNames, GotoType DEF Fail
    <2>4. changed' \in BOOLEAN /\ ready' \subseteq pending
      BY <1>2 DEF Fail, ChangedAfterFailure, TypeInv, TypeOK
    <2> QED BY <1>2, <2>1, <2>2, <2>3, <2>4 DEF Fail, TypeInv, TypeOK, dbVars
  <1>3. ASSUME NEW a \in Actor, FailUpsert(a) PROVE TypeInv'
    <2>1. faults' \in 0..MaxFaults
      BY <1>3, ConvergenceAssumption DEF FailUpsert, TypeInv, TypeOK
    <2>2. pc' \in [Actor -> Stages] /\ \A b \in Actor : pc'[b] = "upsert" => seen'[b] \in Content
      BY <1>3, StageNames, QuietGoto DEF FailUpsert, localVars
    <2> QED BY <1>3, <2>1, <2>2 DEF FailUpsert, TypeInv, TypeOK, dbVars, watchVars, localVars
  <1> QED BY <1>1, <1>2, <1>3

LEMMA TypeNext == TypeInv /\ [Next]_vars => TypeInv'
  <1> SUFFICES ASSUME TypeInv, [Next]_vars PROVE TypeInv'
    OBVIOUS
  <1>1. CASE UNCHANGED vars
    BY <1>1 DEF vars, TypeInv, TypeOK
  <1> QED BY <1>1, Actors, FilesType, StartUpType, InitServiceType, WatcherType, CreateType,
             FailureType DEF Next, Request

\* The tables, the watcher's memory and what the actors keep between their
\* transactions have their types, through kills, failures and the command line.
THEOREM ConvergenceTypeCorrect == Spec => []TypeOK
  <1>1. TypeInv => TypeOK
    BY DEF TypeInv
  <1> QED BY <1>1, TypeInit, TypeNext, PTL DEF Spec

-----------------------------------------------------------------------------
(***************************************************************************)
(* Start-up                                                                *)
(***************************************************************************)
\* A starting server past _generate_all_deliveries has routed what it scanned.
HealInv ==
    /\ \A n \in Note : backfill[n] # NoContent => n \in delivered
    /\ pc["watcher"] \in {"init_record", "observe"} => Corpus \subseteq delivered

LEMMA HealInit == Init => HealInv
  BY EmptyType, Actors DEF Init, HealInv

LEMMA HealNext == TypeInv /\ HealInv /\ [Next]_vars => HealInv'
  <1> SUFFICES ASSUME TypeInv, HealInv, [Next]_vars PROVE HealInv'
    OBVIOUS
  <1>0. /\ pc \in [Actor -> Stages] /\ valid \in [Actor -> [Note -> Content \cup {NoContent}]]
        /\ "watcher" \in Actor /\ "http" \in Actor /\ "cli" \in Actor
    BY Actors DEF TypeInv, TypeOK
  <1>1. ASSUME UNCHANGED backfill, delivered \subseteq delivered',
               \/ pc'["watcher"] \notin {"init_record", "observe"}
               \/ pc'["watcher"] = pc["watcher"] /\ valid'["watcher"] = valid["watcher"]
        PROVE  HealInv'
    BY <1>1 DEF HealInv, Corpus
  <1>2. ASSUME NEW a \in Actor, NEW s, NEW next, Scan(a, s, next), s # "init_record",
               s # "observe", next \notin {"init_record", "observe"}
        PROVE  HealInv'
    BY <1>0, <1>1, <1>2 DEF Scan, Goto, Set, dbVars
  <1>3. ASSUME NEW a \in Actor, NEW s, NEW next,
               ReadManifest(a, s, next) \/ PlanJobs(a, s, next) \/ WriteJobs(a, s, next),
               next \notin {"init_record", "observe"}
        PROVE  HealInv'
    BY <1>0, <1>1, <1>3 DEF ReadManifest, PlanJobs, WriteJobs, Goto, dbVars
  <1>4. ASSUME NEW a \in Actor, ProcessJobs(a) PROVE HealInv'
    <2>1. PICK s : Goto(a, s) /\ s \notin {"init_record", "observe"}
      BY <1>4, JobEnds DEF ProcessJobs, SelectJob, MarkRunning, ReadForIndex, UpsertIndex,
         FinishJob, Actor
    <2>2. UNCHANGED <<backfill, delivered, valid>>
      BY <1>4 DEF ProcessJobs, SelectJob, MarkRunning, ReadForIndex, UpsertIndex, FinishJob,
         dbVars, localVars
    <2> QED BY <1>0, <1>1, <2>1, <2>2 DEF Goto
  <1>5. ASSUME NEW a \in Actor, InitService(a) PROVE HealInv'
    <2>1. ASSUME InitSchema(a) PROVE HealInv'
      BY <1>0, <1>1, <2>1 DEF InitSchema, Goto, localVars
    <2>2. ASSUME InitScan(a) \/ InitManifest(a) \/ InitRecover(a) PROVE HealInv'
      BY <1>2, <1>3, <2>2 DEF InitScan, InitManifest, InitRecover
    <2>3. ASSUME InitPlan(a) PROVE HealInv'
      <3>1. PICK s : /\ WriteJobs(a, "init_plan", s)
                     /\ s \in {"write", "observe", "init_deliver"}
                     /\ (s = "observe" => a = "watcher" /\ backfill = valid[a])
        BY <2>3 DEF InitPlan
      <3>2. CASE s # "observe"
        BY <1>3, <3>1, <3>2
      <3>3. CASE s = "observe"
        <4>1. UNCHANGED <<backfill, delivered, valid>> /\ backfill = valid["watcher"]
          BY <3>1, <3>3 DEF WriteJobs
        <4> QED BY <4>1 DEF HealInv, Corpus
      <3> QED BY <3>2, <3>3
    <2> QED BY <1>5, <2>1, <2>2, <2>3 DEF InitService
  <1>6. ASSUME StartUp PROVE HealInv'
    <2>1. ASSUME Restart \/ StartObserver PROVE HealInv'
      BY <1>0, <1>1, <2>1 DEF Restart, StartObserver, Goto, dbVars
    <2>2. ASSUME InitDeliver PROVE HealInv'
      BY <2>2 DEF InitDeliver, HealInv, Corpus, localVars
    <2>3. ASSUME InitRecord PROVE HealInv'
      BY <2>3 DEF InitRecord, HealInv, Corpus, localVars
    <2> QED BY <1>0, <1>5, <1>6, <2>1, <2>2, <2>3 DEF StartUp
  <1>7. ASSUME Watcher PROVE HealInv'
    <2>1. ASSUME Arm \/ Capture \/ SyncLock \/ SyncPrune \/ SyncDeliver \/ Consume PROVE HealInv'
      <3>1. UNCHANGED backfill /\ delivered \subseteq delivered'
        BY <2>1 DEF Arm, Capture, SyncLock, SyncPrune, SyncDeliver, Consume, dbVars
      <3>2. pc'["watcher"] \notin {"init_record", "observe"}
        BY <1>0, <2>1 DEF Arm, Capture, SyncLock, SyncPrune, SyncDeliver, Consume, Goto
      <3> QED BY <1>1, <3>1, <3>2
    <2> QED BY <1>0, <1>2, <1>3, <1>4, <1>7, <2>1
            DEF Watcher, SyncScan, SyncManifest, SyncRecover, SyncPlan, SyncRescan
  <1>8. ASSUME NEW n, HttpCreate(n) \/ CliCreate(n) PROVE HealInv'
    BY <1>0, <1>1, <1>8 DEF HttpCreate, CliCreate, Goto, dbVars
  <1>9. ASSUME NEW a \in Actor, CreateNote(a) PROVE HealInv'
    <2>1. ASSUME NEW c, WriteFile(a, c) PROVE HealInv'
      BY <1>0, <1>1, <2>1 DEF WriteFile, Goto, dbVars
    <2>2. ASSUME EnqueueJob(a) PROVE HealInv'
      BY <1>0, <1>1, <2>2 DEF EnqueueJob, Goto
    <2> QED BY <1>4, <1>9, <2>1, <2>2 DEF CreateNote
  <1>10. ASSUME HttpDeliver PROVE HealInv'
    BY <1>0, <1>1, <1>10 DEF HttpDeliver, Goto
  <1>11. ASSUME NEW a \in Actor, Fail(a) PROVE HealInv'
    <2>1. a = "watcher" => pc'["watcher"] = "idle"
      BY <1>0, <1>11 DEF Fail, Goto
    <2>2. a # "watcher" => pc'["watcher"] = pc["watcher"] /\ valid'["watcher"] = valid["watcher"]
      BY <1>0, <1>11 DEF Fail, Goto, Forget
    <2> QED BY <1>1, <1>11, <2>1, <2>2 DEF Fail, dbVars
  <1>12. ASSUME NEW a \in Actor, FailUpsert(a) PROVE HealInv'
    BY <1>0, <1>1, <1>12 DEF FailUpsert, Goto, dbVars, localVars
  <1>13. ASSUME Crash PROVE HealInv'
    <2>1. pc'["watcher"] = "down"
      BY <1>0, <1>13 DEF Crash
    <2> QED BY <1>1, <1>13, <2>1 DEF Crash, dbVars
  <1>14. ASSUME NEW n, NEW c, EditFile(n, c) \/ Notify(n) PROVE HealInv'
    BY <1>1, <1>14 DEF EditFile, Notify, dbVars, localVars
  <1>15. CASE UNCHANGED vars
    BY <1>1, <1>15 DEF vars
  <1> QED BY <1>0, <1>5, <1>6, <1>7, <1>8, <1>9, <1>10, <1>11, <1>12, <1>13, <1>14, <1>15
          DEF Next, Request

\* MemoryService.init and make_server, through kills and failures of any step:
\* delivery_backfill_version never claims a note that was not routed, and a
\* server that has started has routed every note its scan found.
THEOREM StartHeals == Spec => []RestartHeals
  <1>1. HealInv => RestartHeals
    BY DEF HealInv, RestartHeals
  <1> QED BY <1>1, TypeInit, TypeNext, HealInit, HealNext, PTL DEF Spec

-----------------------------------------------------------------------------
(***************************************************************************)
(* A server at work                                                        *)
(*                                                                         *)
(* Three more things can index a note without routing it (README, section  *)
(* 4): the command line, a failure after the jobs were written, and a      *)
(* request whose note somebody deletes and puts back.  A kill loses the    *)
(* events.  Serving leaves these out, and nothing else: any notes and      *)
(* contents, any number of failures of the stages before the first index   *)
(* write, and of requests before their job is there.                       *)
(***************************************************************************)
Serving ==
    /\ CliNotes = {} /\ MaxCrashes = 0
    /\ ApiNotes \cap EditNotes = {}
    /\ Faults \subseteq {"scan", "manifest", "recover", "plan", "write", "enqueue"}

\* The file has not changed since the flush took its keys.
Stable(n) == n \notin events /\ n \notin renewed

\* Who may be where: _convergence_lock keeps requests and flushes apart.
Control ==
    /\ pc["cli"] = "idle"
    /\ pc["watcher"] \in {"idle", "armed", "captured"} \cup SyncStages
    /\ pc["http"] \in {"idle", "write", "enqueue", "deliver"} \cup JobStages
    /\ pc["http"] # "idle" => pc["watcher"] \notin SyncStages

\* Jobs are left only where process_jobs is at work on them.
JobsOK ==
    /\ \A a \in Actor : \A i, j \in claim[a] : i = j
    /\ \A n \in Note, c \in Content :
         /\ jobs[n][c] = "pending" =>
              pc["watcher"] \in JobStages \/ pc["http"] \in JobStages
         /\ jobs[n][c] = "running" =>
              \E a \in {"watcher", "http"} :
                 pc[a] \in {"read", "upsert", "done", "quarantine"} /\ <<n, c>> \in claim[a]

\* A request has its note to itself.
RequestOK ==
    /\ \A m, n \in note["http"] : m = n
    /\ pc["http"] # "idle" => note["http"] \subseteq ApiNotes
    /\ pc["http"] \in {"enqueue", "deliver"} \cup JobStages =>
         \A n \in note["http"] : file[n] \in Content
    /\ pc["http"] \in JobStages =>
         \A n \in Note, c \in Content :
            jobs[n][c] \in {"pending", "running"} => n \in note["http"]
    /\ pc["http"] \in JobStages \ {"jobs"} => \A j \in claim["http"] : j[1] \in note["http"]
    /\ pc["http"] = "upsert" => \A j \in claim["http"] : seen["http"] = file[j[1]]

\* What sync_filesystem has read is still true of the notes that have no
\* event, and what was indexed before it had been routed.
ScanOK ==
    /\ pc["watcher"] \in {"manifest", "recover", "plan", "rescan", "prune"} \cup JobStages =>
         \A n \in Note : Stable(n) => valid["watcher"][n] = Parsed(file)[n]
    /\ pc["watcher"] \in {"recover", "plan"} => before["watcher"] = manifest
    /\ pc["watcher"] = "plan" => plan["watcher"] = Planned(valid["watcher"], before["watcher"])
    /\ pc["watcher"] \in {"recover", "plan", "rescan", "prune"} \cup JobStages =>
         \A n \in Note : before["watcher"][n] # NoContent => n \in delivered

\* Once its jobs are written a flush indexes every such note.
FlushOK ==
    /\ pc["watcher"] \in {"rescan", "prune"} \cup JobStages =>
         \A n \in Note : Stable(n) /\ file[n] \in Content =>
            manifest[n] = file[n] \/ jobs[n][file[n]] \in {"pending", "running"}
    /\ \A j \in claim["watcher"] : Stable(j[1]) =>
         /\ pc["watcher"] = "upsert" => seen["watcher"] = file[j[1]]
         /\ pc["watcher"] = "done" => manifest[j[1]] = file[j[1]]
         /\ pc["watcher"] = "quarantine" => file[j[1]] \notin Content
    /\ pc["watcher"] \in {"deliver", "consume"} =>
         \A n \in Note : Stable(n) => Indexed(n)

\* An indexed note is routed, or whoever indexed it is about to route it.
RouteOK ==
    pc["watcher"] \notin {"rescan", "prune"} \cup JobStages =>
      \A n \in Note : manifest[n] # NoContent =>
         \/ n \in delivered
         \/ pc["http"] \in JobStages \cup {"deliver"} /\ n \in note["http"]
         \/ pc["watcher"] = "deliver" /\ n \in todo

\* Whatever is not converged is known to the observer or the watcher.
Tracked == \A n \in Note : n \in events \/ n \in pending \/ (Indexed(n) /\ Routed(n))

WorkInv == Control /\ JobsOK /\ RequestOK /\ ScanOK /\ FlushOK /\ RouteOK /\ Tracked

LEMMA WorkInit == Init => WorkInv
  <1> SUFFICES ASSUME Init PROVE WorkInv
    OBVIOUS
  <1>1. /\ pc["cli"] = "idle" /\ pc["watcher"] = "idle" /\ pc["http"] = "idle"
        /\ \A a \in Actor : claim[a] = {}
        /\ note["http"] = {}
    BY Actors DEF Init
  <1>2. \A n \in Note : manifest[n] = NoContent /\ file[n] = NoContent
    BY EmptyType DEF Init
  <1>3. \A n \in Note, c \in Content : jobs[n][c] = "none"
    BY DEF Init
  <1>4. Control
    BY <1>1 DEF Control, SyncStages, JobStages
  <1>5. JobsOK /\ RequestOK /\ ScanOK /\ FlushOK
    BY <1>1, <1>3, Actors DEF JobsOK, RequestOK, ScanOK, FlushOK, JobStages
  <1>6. \A n \in Note : Parsed(file)[n] = NoContent
    BY <1>2, ParsedType, Contents
  <1>7. RouteOK /\ Tracked
    BY <1>2, <1>6 DEF RouteOK, Tracked, Indexed, Routed
  <1> QED BY <1>4, <1>5, <1>7 DEF WorkInv

\* The steps that such a server takes.
LEMMA ServingStep ==
  ASSUME Serving, TypeInv, Control, Next
  PROVE  \/ \E n \in EditNotes, c \in Content \cup {NoContent, Broken} : EditFile(n, c)
         \/ \E n \in Note : Notify(n)
         \/ Watcher
         \/ \E n \in ApiNotes : HttpCreate(n)
         \/ Request
         \/ Fail("watcher") /\ pc["watcher"] \in {"scan", "manifest", "recover", "plan"}
         \/ Fail("http") /\ pc["http"] \in {"write", "enqueue"}
  <1>1. ~StartUp
    BY DEF StartUp, Restart, InitService, InitSchema, InitScan, InitManifest, InitRecover,
       InitPlan, InitDeliver, InitRecord, StartObserver, Scan, ReadManifest, PlanJobs, WriteJobs,
       Control, SyncStages, JobStages
  <1>2. ~InitService("cli") /\ ~CreateNote("cli")
    BY DEF InitService, InitSchema, InitScan, InitManifest, InitRecover, InitPlan, Scan,
       ReadManifest, PlanJobs, WriteJobs, CreateNote, WriteFile, EnqueueJob, ProcessJobs,
       SelectJob, MarkRunning, ReadForIndex, UpsertIndex, FinishJob, Control
  <1>3. ~Crash
    BY ConvergenceAssumption DEF Serving, Crash, TypeInv, TypeOK
  <1>4. \A n \in CliNotes : ~CliCreate(n)
    BY DEF Serving
  <1>5. ASSUME NEW a \in Actor, Fail(a) \/ FailUpsert(a)
        PROVE  \/ Fail("watcher") /\ pc["watcher"] \in {"scan", "manifest", "recover", "plan"}
               \/ Fail("http") /\ pc["http"] \in {"write", "enqueue"}
    <2>1. ~FailUpsert(a)
      BY DEF FailUpsert, Serving
    <2>2. Fail(a) /\ pc[a] \in {"scan", "manifest", "recover", "plan", "write", "enqueue"}
      BY <1>5, <2>1 DEF Fail, Serving
    <2>3. a = "watcher" \/ a = "http"
      BY <2>2 DEF Fail, Actor
    <2> QED BY <2>2, <2>3 DEF Control, SyncStages, JobStages
  <1> QED BY <1>1, <1>2, <1>3, <1>4, <1>5 DEF Next

LEMMA EditWork ==
  ASSUME Serving, TypeInv, WorkInv, NEW n \in EditNotes, NEW c, EditFile(n, c) PROVE WorkInv'
  <1>1. /\ UNCHANGED <<manifest, jobs, delivered, pending, renewed, pc, note, claim, seen, valid,
                       before, plan, todo>>
        /\ events' = events \cup {n}
    BY DEF EditFile, Touch, Up, WorkInv, Control, StartStages, SyncStages, JobStages, dbVars,
       localVars
  <1>2. \A m \in Note : m # n => file'[m] = file[m] /\ Parsed(file')[m] = Parsed(file)[m]
    <2>1. \A m \in Note : m # n => file'[m] = file[m]
      BY DEF EditFile, TypeInv, TypeOK
    <2> QED BY <2>1 DEF Parsed
  <1>3. n \notin ApiNotes /\ \A m \in Note : Stable(m)' => m # n /\ Stable(m)
    BY <1>1 DEF Serving, Stable
  <1>4. Control'
    BY <1>1 DEF WorkInv, Control
  <1>5. JobsOK'
    BY <1>1 DEF WorkInv, JobsOK
  <1>6. RequestOK'
    <2>1. pc["http"] # "idle" => \A m \in note["http"] : file'[m] = file[m]
      BY <1>2, <1>3, ConvergenceAssumption DEF WorkInv, RequestOK
    <2>2. pc["http"] \in JobStages \ {"jobs"} => \A j \in claim["http"] : file'[j[1]] = file[j[1]]
      BY <2>1 DEF WorkInv, RequestOK, JobStages
    <2> QED BY <1>1, <2>1, <2>2 DEF WorkInv, RequestOK, JobStages
  <1>7. ScanOK'
    <2>1. Planned(valid["watcher"], before["watcher"])' = Planned(valid["watcher"], before["watcher"])
      BY <1>1 DEF Planned
    <2> QED BY <1>1, <1>2, <1>3, <2>1 DEF WorkInv, ScanOK
  <1>8. FlushOK'
    <2>1. \A j \in claim["watcher"] : j[1] \in Note
      BY Actors DEF TypeInv, TypeOK
    <2> QED BY <1>1, <1>2, <1>3, <2>1 DEF WorkInv, FlushOK, Indexed
  <1>9. RouteOK'
    BY <1>1 DEF WorkInv, RouteOK
  <1>10. Tracked'
    BY <1>1, <1>2 DEF WorkInv, Tracked, Indexed, Routed
  <1> QED BY <1>4, <1>5, <1>6, <1>7, <1>8, <1>9, <1>10 DEF WorkInv

LEMMA NotifyWork ==
  ASSUME TypeInv, WorkInv, NEW n \in Note, Notify(n) PROVE WorkInv'
  <1>1. /\ UNCHANGED <<file, manifest, jobs, delivered, pc, note, claim, seen, valid, before, plan,
                       todo>>
        /\ events \cup pending \subseteq events' \cup pending'
    BY DEF Notify, dbVars, localVars
  <1>2. \A m : Stable(m)' => Stable(m)
    BY DEF Notify, Stable
  <1>3. Control' /\ JobsOK' /\ RequestOK' /\ RouteOK'
    BY <1>1 DEF WorkInv, Control, JobsOK, RequestOK, RouteOK
  <1>4. ScanOK'
    <2>1. Planned(valid["watcher"], before["watcher"])' = Planned(valid["watcher"], before["watcher"])
      BY <1>1 DEF Planned
    <2> QED BY <1>1, <1>2, <2>1 DEF WorkInv, ScanOK
  <1>5. FlushOK'
    BY <1>1, <1>2 DEF WorkInv, FlushOK, Indexed
  <1>6. Tracked'
    BY <1>1 DEF WorkInv, Tracked, Indexed, Routed
  <1> QED BY <1>3, <1>4, <1>5, <1>6 DEF WorkInv

LEMMA BeforeScanWork ==
  ASSUME TypeInv, WorkInv, Arm \/ Capture \/ SyncLock PROVE WorkInv'
  <1>1. /\ UNCHANGED <<file, manifest, jobs, delivered, events, pending, note, claim, seen, valid,
                       before, plan, todo>>
        /\ pc'["http"] = pc["http"] /\ pc'["cli"] = pc["cli"]
        /\ pc["watcher"] \in {"idle", "armed", "captured"}
        /\ pc'["watcher"] \in {"idle", "armed", "captured", "scan"}
        /\ (pc'["watcher"] = "scan" => pc["http"] = "idle")
    BY Actors DEF Arm, Capture, SyncLock, LockFree, Goto, dbVars, localVars, watchVars, TypeInv, TypeOK
  <1>2. Control'
    BY <1>1 DEF WorkInv, Control, SyncStages, JobStages
  <1>3. JobsOK'
    BY <1>1 DEF WorkInv, JobsOK, JobStages
  <1>4. RequestOK'
    BY <1>1 DEF WorkInv, RequestOK
  <1>5. ScanOK' /\ FlushOK'
    BY <1>1 DEF ScanOK, FlushOK, JobStages
  <1>6. RouteOK'
    BY <1>1 DEF WorkInv, RouteOK, JobStages
  <1>7. Tracked'
    BY <1>1 DEF WorkInv, Tracked, Indexed, Routed
  <1> QED BY <1>2, <1>3, <1>4, <1>5, <1>6, <1>7 DEF WorkInv

LEMMA SyncReadWork ==
  ASSUME TypeInv, WorkInv, SyncScan \/ SyncManifest \/ SyncRecover PROVE WorkInv'
  <1>0. PICK w : w = pc["watcher"]
    OBVIOUS
  <1>1. /\ UNCHANGED <<file, manifest, jobs, delivered, events, pending, renewed, note, claim,
                       seen, todo>>
        /\ pc'["http"] = pc["http"] /\ pc'["cli"] = pc["cli"]
        /\ w \in {"scan", "manifest", "recover"}
        /\ (w = "scan" => /\ pc'["watcher"] = "manifest" /\ valid'["watcher"] = Parsed(file))
        /\ (w = "manifest" => /\ pc'["watcher"] = "recover" /\ before'["watcher"] = manifest
                              /\ valid' = valid)
        /\ (w = "recover" => /\ pc'["watcher"] = "plan" /\ before' = before /\ valid' = valid
                             /\ plan'["watcher"] = Planned(valid["watcher"], before["watcher"]))
    BY <1>0, Actors DEF SyncScan, SyncManifest, SyncRecover, Scan, ReadManifest, PlanJobs, Goto,
       Set, dbVars, watchVars, TypeInv, TypeOK
  <1>2. pc["http"] = "idle"
    BY <1>0, <1>1 DEF WorkInv, Control, SyncStages
  <1>3. Control'
    BY <1>0, <1>1, <1>2 DEF WorkInv, Control, SyncStages, JobStages
  <1>4. JobsOK'
    BY <1>0, <1>1 DEF WorkInv, JobsOK, JobStages
  <1>5. RequestOK'
    BY <1>1, <1>2 DEF WorkInv, RequestOK, JobStages
  <1>6. ScanOK'
    <2>1. \A n : Stable(n)' => Stable(n)
      BY <1>1 DEF Stable
    <2>2. w = "scan" => ScanOK'
      BY <1>1, <2>1 DEF ScanOK, JobStages
    <2>3. w = "manifest" => ScanOK'
      BY <1>0, <1>1, <1>2, <2>1 DEF WorkInv, ScanOK, RouteOK, JobStages
    <2>4. w = "recover" => ScanOK'
      <3>1. w = "recover" =>
              Planned(valid["watcher"], before["watcher"])' = Planned(valid["watcher"], before["watcher"])
        BY <1>1 DEF Planned
      <3> QED BY <1>0, <1>1, <2>1, <3>1 DEF WorkInv, ScanOK, JobStages
    <2> QED BY <1>1, <2>2, <2>3, <2>4
  <1>7. FlushOK'
    BY <1>1 DEF FlushOK, JobStages
  <1>8. RouteOK'
    BY <1>0, <1>1 DEF WorkInv, RouteOK, JobStages
  <1>9. Tracked'
    BY <1>1 DEF WorkInv, Tracked, Indexed, Routed
  <1> QED BY <1>3, <1>4, <1>5, <1>6, <1>7, <1>8, <1>9 DEF WorkInv

LEMMA SyncPlanWork == ASSUME TypeInv, WorkInv, SyncPlan PROVE WorkInv'
  <1>1. /\ UNCHANGED <<file, manifest, delivered, events, pending, renewed, note, claim,
                       seen, valid, before, todo>>
        /\ pc'["http"] = pc["http"] /\ pc'["cli"] = pc["cli"]
        /\ pc["watcher"] = "plan" /\ pc'["watcher"] = "jobs"
        /\ jobs' = WithPlan(plan["watcher"])
    BY Actors DEF SyncPlan, WriteJobs, Goto, watchVars, TypeInv, TypeOK
  <1>2. pc["http"] = "idle"
    BY <1>1 DEF WorkInv, Control, SyncStages
  <1>3. Control'
    BY <1>1, <1>2 DEF WorkInv, Control, SyncStages, JobStages
  <1>4. \A n \in Note, c \in Content :
          jobs'[n][c] = IF <<n, c, "done">> \in plan["watcher"] THEN "done"
                        ELSE IF <<n, c, "pending">> \in plan["watcher"] THEN "pending" ELSE jobs[n][c]
    BY <1>1 DEF WithPlan
  <1>5. JobsOK'
    BY <1>1, <1>2, <1>4 DEF WorkInv, JobsOK, JobStages
  <1>6. RequestOK'
    BY <1>1, <1>2 DEF WorkInv, RequestOK, JobStages
  <1>7. \A n : Stable(n)' => Stable(n)
    BY <1>1 DEF Stable
  <1>8. ScanOK'
    BY <1>1, <1>7 DEF WorkInv, ScanOK, JobStages
  <1>9. FlushOK'
    <2>1. ASSUME NEW n \in Note, Stable(n), file[n] \in Content, manifest[n] # file[n]
          PROVE  jobs'[n][file[n]] \in {"pending", "running"}
      <3>1. valid["watcher"][n] = file[n] /\ file[n] # NoContent
        BY <1>1, <2>1, ParsedType, Contents DEF WorkInv, ScanOK
      <3>2. before["watcher"][n] # file[n]
        BY <1>1, <2>1 DEF WorkInv, ScanOK
      <3>3. plan["watcher"] = Planned(valid["watcher"], before["watcher"])
        BY <1>1 DEF WorkInv, ScanOK
      <3>4. <<n, file[n], "done">> \notin plan["watcher"]
        BY <3>1, <3>2, <3>3 DEF Planned
      <3>5. jobs[n][file[n]] \in {"pending", "running"} \/ <<n, file[n], "pending">> \in plan["watcher"]
        BY <3>1, <3>2, <3>3 DEF Planned
      <3> QED BY <1>4, <2>1, <3>4, <3>5
    <2> QED BY <1>1, <1>7, <2>1 DEF FlushOK
  <1>10. RouteOK'
    BY <1>1 DEF RouteOK, JobStages
  <1>11. Tracked'
    BY <1>1 DEF WorkInv, Tracked, Indexed, Routed
  <1> QED BY <1>3, <1>5, <1>6, <1>8, <1>9, <1>10, <1>11 DEF WorkInv

LEMMA PendingFound ==
  ASSUME NEW n \in Note, NEW c \in Content, jobs[n][c] = "pending" PROVE <<n, c>> \in PendingJobs
  BY DEF PendingJobs

\* process_jobs of the convergence thread.
LEMMA SyncJobsWork == ASSUME TypeInv, WorkInv, ProcessJobs("watcher") PROVE WorkInv'
  <1>1. /\ UNCHANGED <<file, delivered, events, pending, renewed, note, valid, before, todo>>
        /\ pc'["http"] = pc["http"] /\ pc'["cli"] = pc["cli"]
        /\ claim'["http"] = claim["http"] /\ claim'["cli"] = claim["cli"]
        /\ seen'["http"] = seen["http"]
        /\ pc["watcher"] \in JobStages /\ pc'["watcher"] \in JobStages \cup {"rescan"}
    BY Actors, JobEnds DEF ProcessJobs, SelectJob, MarkRunning, ReadForIndex, UpsertIndex,
       FinishJob, Goto, Set, dbVars, localVars, watchVars, JobStages, TypeInv, TypeOK
  <1>2. pc["http"] = "idle"
    BY <1>1 DEF WorkInv, Control, SyncStages
  <1>3. Control'
    BY <1>1, <1>2 DEF WorkInv, Control, SyncStages
  <1>4. RequestOK'
    BY <1>1, <1>2 DEF WorkInv, RequestOK, JobStages
  <1>5. \A n : Stable(n)' <=> Stable(n)
    BY <1>1 DEF Stable
  <1>6. ScanOK'
    BY <1>1, <1>5 DEF WorkInv, ScanOK, JobStages
  <1>7. RouteOK'
    BY <1>1 DEF RouteOK
  <1>8. ASSUME SelectJob("watcher") PROVE JobsOK' /\ FlushOK' /\ Tracked'
    <2>1. UNCHANGED <<manifest, jobs, seen>> /\ pc["watcher"] = "jobs"
      BY <1>8 DEF SelectJob, dbVars
    <2>2. CASE PendingJobs = {} /\ Goto("watcher", "rescan") /\ UNCHANGED claim
      <3>1. pc'["watcher"] = "rescan"
        BY <2>2, Actors DEF Goto, TypeInv, TypeOK
      <3>2. \A n \in Note, c \in Content : jobs[n][c] # "pending"
        BY <2>2, PendingFound
      <3> QED BY <1>1, <1>2, <1>5, <2>1, <2>2, <3>1, <3>2
              DEF WorkInv, JobsOK, FlushOK, Tracked, Indexed, Routed, JobStages
    <2>3. CASE \E j \in PendingJobs : claim' = [claim EXCEPT !["watcher"] = {j}]
                                      /\ Goto("watcher", "mark")
      <3>1. pc'["watcher"] = "mark" /\ \E j : claim'["watcher"] = {j}
        BY <2>3, Actors DEF Goto, TypeInv, TypeOK
      <3>2. JobsOK'
        BY <1>1, <1>2, <2>1, <3>1 DEF WorkInv, JobsOK, JobStages, Actor
      <3>3. FlushOK'
        BY <1>1, <1>5, <2>1, <3>1 DEF WorkInv, FlushOK, JobStages
      <3>4. Tracked'
        BY <1>1, <2>1 DEF WorkInv, Tracked, Indexed, Routed
      <3> QED BY <3>2, <3>3, <3>4
    <2> QED BY <1>8, <2>2, <2>3, JobEnds DEF SelectJob
  <1>9. ASSUME MarkRunning("watcher") PROVE JobsOK' /\ FlushOK' /\ Tracked'
    <2>1. /\ UNCHANGED <<manifest, seen, claim>>
          /\ pc["watcher"] = "mark" /\ pc'["watcher"] = "read"
          /\ \A n \in Note, c \in Content :
               jobs'[n][c] = IF <<n, c>> \in claim["watcher"] THEN "running" ELSE jobs[n][c]
      BY <1>9, Actors DEF MarkRunning, SetJob, Goto, localVars, TypeInv, TypeOK
    <2>2. JobsOK'
      BY <1>1, <1>2, <2>1 DEF WorkInv, JobsOK, JobStages
    <2>3. FlushOK'
      BY <1>1, <1>5, <2>1 DEF WorkInv, FlushOK, JobStages
    <2>4. Tracked'
      BY <1>1, <2>1 DEF WorkInv, Tracked, Indexed, Routed
    <2> QED BY <2>2, <2>3, <2>4
  <1>10. ASSUME ReadForIndex("watcher") PROVE JobsOK' /\ FlushOK' /\ Tracked'
    <2>1. PICK j \in claim["watcher"] :
            /\ seen' = [seen EXCEPT !["watcher"] = file[j[1]]]
            /\ Goto("watcher", IF file[j[1]] \in Content THEN "upsert" ELSE "quarantine")
      BY <1>10 DEF ReadForIndex
    <2>2. /\ UNCHANGED <<manifest, jobs, claim>> /\ pc["watcher"] = "read"
          /\ seen'["watcher"] = file[j[1]]
          /\ (file[j[1]] \in Content => pc'["watcher"] = "upsert")
          /\ (file[j[1]] \notin Content => pc'["watcher"] = "quarantine")
      BY <1>10, <2>1, Actors DEF ReadForIndex, Goto, dbVars, TypeInv, TypeOK
    <2>3. \A i \in claim["watcher"] : i = j
      BY <2>1, Actors DEF WorkInv, JobsOK
    <2>4. JobsOK'
      BY <1>1, <1>2, <2>2 DEF WorkInv, JobsOK, JobStages
    <2>5. FlushOK'
      BY <1>1, <1>5, <2>2, <2>3 DEF WorkInv, FlushOK, JobStages
    <2>6. Tracked'
      BY <1>1, <2>2 DEF WorkInv, Tracked, Indexed, Routed
    <2> QED BY <2>4, <2>5, <2>6
  <1>11. ASSUME UpsertIndex("watcher") PROVE JobsOK' /\ FlushOK' /\ Tracked'
    <2>1. PICK j \in claim["watcher"] : manifest' = [manifest EXCEPT ![j[1]] = seen["watcher"]]
      BY <1>11 DEF UpsertIndex
    <2>2. j[1] \in Note /\ \A i \in claim["watcher"] : i = j
      BY <2>1, Actors DEF TypeInv, TypeOK, WorkInv, JobsOK
    <2>3. /\ UNCHANGED <<jobs, claim>>
          /\ pc["watcher"] = "upsert" /\ pc'["watcher"] = "done"
          /\ manifest'[j[1]] = seen["watcher"]
          /\ \A n \in Note : n # j[1] => manifest'[n] = manifest[n]
      BY <1>11, <2>1, <2>2, Actors DEF UpsertIndex, Goto, localVars, TypeInv, TypeOK
    <2>4. Stable(j[1]) => seen["watcher"] = file[j[1]]
      BY <2>1, <2>3 DEF WorkInv, FlushOK
    <2>5. seen["watcher"] \in Content
      BY <2>3, Actors DEF TypeInv
    <2>6. JobsOK'
      BY <1>1, <1>2, <2>3 DEF WorkInv, JobsOK, JobStages
    <2>7. FlushOK'
      BY <1>1, <1>5, <2>2, <2>3, <2>4 DEF WorkInv, FlushOK, JobStages
    <2>8. Tracked'
      <3>1. Stable(j[1]) => Indexed(j[1])'
        BY <1>1, <2>2, <2>3, <2>4, <2>5, ParsedType DEF Indexed
      <3>2. \A n \in Note : n # j[1] => (Indexed(n)' <=> Indexed(n))
        BY <1>1, <2>3 DEF Indexed
      <3>3. \A n \in Note : Stable(n) \/ n \in events \/ n \in pending
        BY DEF Stable, TypeInv, TypeOK
      <3> QED BY <1>1, <2>2, <3>1, <3>2, <3>3 DEF WorkInv, Tracked, Routed
    <2> QED BY <2>6, <2>7, <2>8
  <1>12. ASSUME FinishJob("watcher") PROVE JobsOK' /\ FlushOK' /\ Tracked'
    <2>1. PICK st \in {"done", "quarantined"} : SetJob("watcher", st)
      BY <1>12 DEF FinishJob
    <2>2. /\ UNCHANGED manifest /\ claim'["watcher"] = {}
          /\ pc["watcher"] \in {"done", "quarantine"} /\ pc'["watcher"] = "jobs"
          /\ \A n \in Note, c \in Content :
               jobs'[n][c] = IF <<n, c>> \in claim["watcher"] THEN st ELSE jobs[n][c]
      BY <1>12, <2>1, Actors DEF FinishJob, SetJob, Goto, Set, TypeInv, TypeOK
    <2>3. JobsOK'
      BY <1>1, <1>2, <2>1, <2>2 DEF WorkInv, JobsOK, JobStages, Actor
    <2>4. FlushOK'
      BY <1>1, <1>5, <2>2, ZenonT(60) DEF WorkInv, FlushOK, JobStages
    <2>5. Tracked'
      BY <1>1, <2>2 DEF WorkInv, Tracked, Indexed, Routed
    <2> QED BY <2>3, <2>4, <2>5
  <1> QED BY <1>3, <1>4, <1>6, <1>7, <1>8, <1>9, <1>10, <1>11, <1>12 DEF ProcessJobs, WorkInv

LEMMA SyncRescanWork == ASSUME TypeInv, WorkInv, SyncRescan PROVE WorkInv'
  <1>1. /\ UNCHANGED <<file, manifest, jobs, delivered, events, pending, renewed, note, claim,
                       seen, before, todo>>
        /\ pc'["http"] = pc["http"] /\ pc'["cli"] = pc["cli"]
        /\ pc["watcher"] = "rescan" /\ pc'["watcher"] = "prune"
        /\ valid'["watcher"] = Parsed(file)
    BY Actors DEF SyncRescan, Scan, Goto, Set, dbVars, watchVars, TypeInv, TypeOK
  <1>2. \A n : Stable(n)' <=> Stable(n)
    BY <1>1 DEF Stable
  <1>3. Control'
    BY <1>1 DEF WorkInv, Control, SyncStages, JobStages
  <1>4. JobsOK' /\ RequestOK'
    BY <1>1 DEF WorkInv, JobsOK, RequestOK, JobStages
  <1>5. ScanOK' /\ FlushOK'
    BY <1>1, <1>2 DEF WorkInv, ScanOK, FlushOK, JobStages
  <1>6. RouteOK' /\ Tracked'
    BY <1>1 DEF WorkInv, RouteOK, Tracked, Indexed, Routed
  <1> QED BY <1>3, <1>4, <1>5, <1>6 DEF WorkInv

\* The flush has indexed every stable note: no job is left.
LEMMA SyncPruneWork == ASSUME TypeInv, WorkInv, SyncPrune PROVE WorkInv'
  <1>1. /\ UNCHANGED <<file, jobs, delivered, events, pending, renewed, note, claim, seen>>
        /\ pc'["http"] = pc["http"] /\ pc'["cli"] = pc["cli"]
        /\ pc["watcher"] = "prune" /\ pc'["watcher"] = "deliver"
        /\ todo' = ChangedNotes(valid["watcher"])
        /\ \A n \in Note : manifest'[n] = IF valid["watcher"][n] = NoContent THEN NoContent
                                          ELSE manifest[n]
    BY Actors DEF SyncPrune, Goto, watchVars, TypeInv, TypeOK
  <1>2. pc["http"] = "idle"
    BY <1>1 DEF WorkInv, Control, SyncStages
  <1>3. \A n : Stable(n)' <=> Stable(n)
    BY <1>1 DEF Stable
  <1>4. \A n \in Note, c \in Content : jobs[n][c] \notin {"pending", "running"}
    BY <1>1, <1>2 DEF WorkInv, JobsOK, JobStages
  <1>5. ASSUME NEW n \in Note, Stable(n) PROVE Indexed(n)'
    <2>1. valid["watcher"][n] = Parsed(file)[n]
      BY <1>1, <1>5 DEF WorkInv, ScanOK
    <2>2. file[n] \in Content => manifest[n] = file[n]
      BY <1>1, <1>4, <1>5 DEF WorkInv, FlushOK
    <2>3. Parsed(file)[n] = IF file[n] \in Content THEN file[n] ELSE NoContent
      BY ParsedType
    <2> QED BY <1>1, <2>1, <2>2, <2>3, Contents DEF Indexed
  <1>6. Control'
    BY <1>1, <1>2 DEF WorkInv, Control, SyncStages, JobStages
  <1>7. JobsOK' /\ RequestOK'
    BY <1>1, <1>2 DEF WorkInv, JobsOK, RequestOK, JobStages
  <1>8. ScanOK'
    BY <1>1 DEF ScanOK, JobStages
  <1>9. FlushOK'
    BY <1>1, <1>3, <1>5 DEF FlushOK, JobStages
  <1>10. RouteOK'
    <2>1. ASSUME NEW n \in Note, manifest'[n] # NoContent PROVE n \in delivered \/ n \in todo'
      <3>1. valid["watcher"][n] # NoContent
        BY <1>1, <2>1
      <3>2. before["watcher"][n] # NoContent => n \in delivered
        BY <1>1 DEF WorkInv, ScanOK
      <3> QED BY <1>1, <3>1, <3>2 DEF ChangedNotes
    <2> QED BY <1>1, <2>1 DEF RouteOK
  <1>11. Tracked'
    <2>1. \A n \in Note : Stable(n) \/ n \in events \/ n \in pending
      BY DEF Stable, TypeInv, TypeOK
    <2>2. \A n \in Note : n \in events \/ n \in pending \/ Routed(n)
      BY DEF WorkInv, Tracked
    <2> QED BY <1>1, <1>5, <2>1, <2>2 DEF Tracked, Routed
  <1> QED BY <1>6, <1>7, <1>8, <1>9, <1>10, <1>11 DEF WorkInv

LEMMA SyncDeliverWork == ASSUME TypeInv, WorkInv, SyncDeliver PROVE WorkInv'
  <1>1. /\ UNCHANGED <<file, manifest, jobs, events, pending, renewed, note, claim, seen>>
        /\ pc'["http"] = pc["http"] /\ pc'["cli"] = pc["cli"]
        /\ pc["watcher"] = "deliver" /\ delivered \subseteq delivered'
        /\ pc'["watcher"] \in {"deliver", "consume"}
        /\ (pc'["watcher"] = "consume" => todo = {})
        /\ \A n \in todo : n \in delivered' \/ n \in todo'
    BY Actors DEF SyncDeliver, Goto, watchVars, TypeInv, TypeOK
  <1>2. \A n : Stable(n)' <=> Stable(n)
    BY <1>1 DEF Stable
  <1>3. Control'
    BY <1>1 DEF WorkInv, Control, SyncStages, JobStages
  <1>4. JobsOK' /\ RequestOK'
    BY <1>1 DEF WorkInv, JobsOK, RequestOK, JobStages
  <1>5. ScanOK' /\ FlushOK'
    BY <1>1, <1>2 DEF WorkInv, ScanOK, FlushOK, JobStages, Indexed
  <1>6. RouteOK'
    BY <1>1 DEF WorkInv, RouteOK, JobStages
  <1>7. Tracked'
    BY <1>1 DEF WorkInv, Tracked, Indexed, Routed
  <1> QED BY <1>3, <1>4, <1>5, <1>6, <1>7 DEF WorkInv

\* A generation that was not renewed and has no event is converged.
LEMMA ConsumedConverged ==
  ASSUME TypeInv, WorkInv, pc["watcher"] = "consume", NEW n \in Note, Stable(n)
  PROVE  Indexed(n) /\ Routed(n)
  <1>1. Indexed(n)
    BY DEF WorkInv, FlushOK
  <1>2. pc["http"] = "idle"
    BY DEF WorkInv, Control, SyncStages
  <1>3. manifest[n] # NoContent => n \in delivered
    BY <1>2 DEF WorkInv, RouteOK, JobStages
  <1> QED BY <1>1, <1>3 DEF Indexed, Routed

LEMMA ConsumeWork == ASSUME TypeInv, WorkInv, Consume PROVE WorkInv'
  <1>1. /\ UNCHANGED <<file, manifest, jobs, delivered, events, note, claim, seen>>
        /\ pc'["http"] = pc["http"] /\ pc'["cli"] = pc["cli"]
        /\ pc["watcher"] = "consume" /\ pc'["watcher"] = "idle"
        /\ pending' = pending \ (ready \ renewed)
    BY Actors DEF Consume, Consumed, Goto, dbVars, localVars, TypeInv, TypeOK
  <1>2. Control'
    BY <1>1 DEF WorkInv, Control, SyncStages, JobStages
  <1>3. JobsOK' /\ RequestOK'
    BY <1>1 DEF WorkInv, JobsOK, RequestOK, JobStages
  <1>4. ScanOK' /\ FlushOK'
    BY <1>1 DEF ScanOK, FlushOK, JobStages
  <1>5. RouteOK'
    BY <1>1 DEF WorkInv, RouteOK, JobStages
  <1>6. \A n \in Note : n \in events \/ n \in pending' \/ (Indexed(n) /\ Routed(n))
    <2>1. \A n \in Note : n \notin events /\ n \in pending /\ n \notin pending' => Stable(n)
      BY <1>1 DEF Stable
    <2> QED BY <1>1, <2>1, ConsumedConverged DEF WorkInv, Tracked
  <1>7. Tracked'
    BY <1>1, <1>6 DEF Tracked, Indexed, Routed
  <1> QED BY <1>2, <1>3, <1>4, <1>5, <1>7 DEF WorkInv

LEMMA WatcherWork == ASSUME TypeInv, WorkInv, Watcher PROVE WorkInv'
  BY BeforeScanWork, SyncReadWork, SyncPlanWork, SyncJobsWork, SyncRescanWork, SyncPruneWork,
     SyncDeliverWork, ConsumeWork DEF Watcher

LEMMA HttpCreateWork ==
  ASSUME TypeInv, WorkInv, NEW n \in ApiNotes, HttpCreate(n) PROVE WorkInv'
  <1>1. /\ UNCHANGED <<file, manifest, jobs, delivered, events, pending, renewed, claim, valid,
                       before, plan, todo>>
        /\ pc'["watcher"] = pc["watcher"] /\ pc'["cli"] = pc["cli"]
        /\ pc["http"] = "idle" /\ pc["watcher"] \notin SyncStages
        /\ note'["http"] = {n} /\ seen'["watcher"] = seen["watcher"]
        /\ pc'["http"] \in {"write", "enqueue"}
        /\ (pc'["http"] = "enqueue" => file[n] # NoContent /\ file[n] # Broken)
    BY Actors DEF HttpCreate, LockFree, Goto, dbVars, watchVars, TypeInv, TypeOK
  <1>2. Control'
    BY <1>1 DEF WorkInv, Control
  <1>3. JobsOK'
    BY <1>1 DEF WorkInv, JobsOK, JobStages
  <1>4. RequestOK'
    <2>1. pc'["http"] = "enqueue" => file[n] \in Content
      BY <1>1, ConvergenceAssumption DEF TypeInv, TypeOK
    <2> QED BY <1>1, <2>1 DEF RequestOK, JobStages
  <1>5. ScanOK' /\ FlushOK'
    BY <1>1 DEF ScanOK, FlushOK, SyncStages, JobStages
  <1>6. RouteOK'
    BY <1>1 DEF WorkInv, RouteOK, SyncStages, JobStages
  <1>7. Tracked'
    BY <1>1 DEF WorkInv, Tracked, Indexed, Routed
  <1> QED BY <1>2, <1>3, <1>4, <1>5, <1>6, <1>7 DEF WorkInv

LEMMA WriteFileWork ==
  ASSUME TypeInv, WorkInv, NEW c \in Content, WriteFile("http", c) PROVE WorkInv'
  <1>1. PICK n \in note["http"] : file' = [file EXCEPT ![n] = c] /\ Touch(n)
    BY DEF WriteFile
  <1>2. n \in Note
    BY <1>1, Actors DEF TypeInv, TypeOK
  <1>3. /\ UNCHANGED <<manifest, jobs, delivered, pending, renewed, note, claim, valid, before,
                       plan, todo>>
        /\ pc'["watcher"] = pc["watcher"] /\ pc'["cli"] = pc["cli"]
        /\ pc["http"] = "write" /\ pc'["http"] = "enqueue"
        /\ events' = events \cup {n} /\ file'[n] = c
        /\ \A m \in Note : m # n => file'[m] = file[m]
    <2>1. Up
      BY DEF Up, WorkInv, Control, StartStages, SyncStages, JobStages
    <2> QED BY <1>1, <1>2, <2>1, Actors DEF WriteFile, Touch, Goto, dbVars, TypeInv, TypeOK
  <1>4. pc["watcher"] \notin SyncStages
    BY <1>3 DEF WorkInv, Control
  <1>5. Control'
    BY <1>3, <1>4 DEF WorkInv, Control
  <1>6. JobsOK'
    BY <1>3 DEF WorkInv, JobsOK, JobStages
  <1>7. RequestOK'
    <2>1. \A m \in note["http"] : m = n
      BY <1>1 DEF WorkInv, RequestOK
    <2> QED BY <1>3, <2>1 DEF WorkInv, RequestOK, JobStages
  <1>8. ScanOK' /\ FlushOK'
    BY <1>3, <1>4 DEF ScanOK, FlushOK, SyncStages, JobStages
  <1>9. RouteOK'
    BY <1>3, <1>4 DEF WorkInv, RouteOK, SyncStages, JobStages
  <1>10. Tracked'
    <2>1. \A m \in Note : m # n => Parsed(file')[m] = Parsed(file)[m]
      BY <1>3 DEF Parsed
    <2> QED BY <1>3, <2>1 DEF WorkInv, Tracked, Indexed, Routed
  <1> QED BY <1>5, <1>6, <1>7, <1>8, <1>9, <1>10 DEF WorkInv

LEMMA EnqueueWork == ASSUME TypeInv, WorkInv, EnqueueJob("http") PROVE WorkInv'
  <1>1. PICK n \in note["http"] : jobs' = Enqueued(n, seen["http"])
    BY DEF EnqueueJob
  <1>2. /\ UNCHANGED <<file, manifest, delivered, events, pending, renewed, note, claim, valid,
                       before, plan, todo>>
        /\ pc'["watcher"] = pc["watcher"] /\ pc'["cli"] = pc["cli"]
        /\ pc["http"] = "enqueue" /\ pc'["http"] = "jobs"
    BY Actors DEF EnqueueJob, Goto, watchVars, TypeInv, TypeOK
  <1>3. pc["watcher"] \notin SyncStages
    BY <1>2 DEF WorkInv, Control
  <1>4. \A m \in Note, c \in Content : jobs[m][c] \notin {"pending", "running"}
    BY <1>2, <1>3 DEF WorkInv, JobsOK, SyncStages, JobStages
  <1>5. \A m \in Note, c \in Content :
          jobs'[m][c] = jobs[m][c] \/ (jobs'[m][c] = "pending" /\ m = n)
    BY <1>1 DEF Enqueued, TypeInv, TypeOK
  <1>6. Control'
    BY <1>2, <1>3 DEF WorkInv, Control, JobStages
  <1>7. JobsOK'
    BY <1>2, <1>4, <1>5 DEF WorkInv, JobsOK, JobStages
  <1>8. RequestOK'
    BY <1>1, <1>2, <1>4, <1>5 DEF WorkInv, RequestOK, JobStages
  <1>9. ScanOK' /\ FlushOK'
    BY <1>2, <1>3 DEF ScanOK, FlushOK, SyncStages, JobStages
  <1>10. RouteOK'
    BY <1>2 DEF WorkInv, RouteOK, JobStages
  <1>11. Tracked'
    BY <1>2 DEF WorkInv, Tracked, Indexed, Routed
  <1> QED BY <1>6, <1>7, <1>8, <1>9, <1>10, <1>11 DEF WorkInv

\* process_jobs of a request indexes the request's note as it stands.
LEMMA HttpJobsWork == ASSUME TypeInv, WorkInv, ProcessJobs("http") PROVE WorkInv'
  <1>1. /\ UNCHANGED <<file, delivered, events, pending, renewed, note, valid, before, plan, todo>>
        /\ pc'["watcher"] = pc["watcher"] /\ pc'["cli"] = pc["cli"]
        /\ claim'["watcher"] = claim["watcher"] /\ claim'["cli"] = claim["cli"]
        /\ pc["http"] \in JobStages /\ pc'["http"] \in JobStages \cup {"deliver"}
    BY Actors, JobEnds DEF ProcessJobs, SelectJob, MarkRunning, ReadForIndex, UpsertIndex,
       FinishJob, Goto, Set, dbVars, localVars, watchVars, JobStages, TypeInv, TypeOK
  <1>2. pc["watcher"] \notin SyncStages
    BY <1>1 DEF WorkInv, Control, JobStages
  <1>3. Control'
    BY <1>1, <1>2 DEF WorkInv, Control, JobStages
  <1>4. ScanOK' /\ FlushOK'
    BY <1>1, <1>2 DEF ScanOK, FlushOK, SyncStages, JobStages
  <1>5. ASSUME UNCHANGED manifest PROVE RouteOK' /\ Tracked'
    <2>1. RouteOK'
      BY <1>1, <1>5 DEF WorkInv, RouteOK
    <2> QED BY <1>1, <1>5, <2>1 DEF WorkInv, Tracked, Indexed, Routed
  <1>6. ASSUME SelectJob("http") PROVE JobsOK' /\ RequestOK' /\ RouteOK' /\ Tracked'
    <2>1. UNCHANGED <<manifest, jobs, seen>> /\ pc["http"] = "jobs"
      BY <1>6 DEF SelectJob, dbVars
    <2>2. CASE PendingJobs = {} /\ Goto("http", "deliver") /\ UNCHANGED claim
      <3>1. pc'["http"] = "deliver"
        BY <2>2, Actors DEF Goto, TypeInv, TypeOK
      <3>2. \A n \in Note, c \in Content : jobs[n][c] # "pending"
        BY <2>2, PendingFound
      <3>3. JobsOK'
        BY <1>1, <2>1, <2>2, <3>1, <3>2 DEF WorkInv, JobsOK
      <3>4. RequestOK'
        BY <1>1, <2>1, <2>2, <3>1 DEF WorkInv, RequestOK, JobStages
      <3> QED BY <1>5, <2>1, <3>3, <3>4
    <2>3. CASE \E j \in PendingJobs : claim' = [claim EXCEPT !["http"] = {j}]
                                      /\ Goto("http", "mark")
      <3>1. PICK j \in PendingJobs : claim' = [claim EXCEPT !["http"] = {j}] /\ Goto("http", "mark")
        BY <2>3
      <3>2. pc'["http"] = "mark" /\ claim'["http"] = {j}
        BY <3>1, Actors DEF Goto, TypeInv, TypeOK
      <3>3. j[1] \in note["http"]
        BY <1>1, <3>1 DEF WorkInv, RequestOK, PendingJobs
      <3>4. JobsOK'
        BY <1>1, <2>1, <3>2 DEF WorkInv, JobsOK, JobStages, Actor
      <3>5. RequestOK'
        BY <1>1, <2>1, <3>2, <3>3 DEF WorkInv, RequestOK, JobStages
      <3> QED BY <1>5, <2>1, <3>4, <3>5
    <2> QED BY <1>6, <2>2, <2>3, JobEnds DEF SelectJob
  <1>7. ASSUME MarkRunning("http") PROVE JobsOK' /\ RequestOK' /\ RouteOK' /\ Tracked'
    <2>1. /\ UNCHANGED <<manifest, seen, claim>>
          /\ pc["http"] = "mark" /\ pc'["http"] = "read"
          /\ \A n \in Note, c \in Content :
               jobs'[n][c] = IF <<n, c>> \in claim["http"] THEN "running" ELSE jobs[n][c]
      BY <1>7, Actors DEF MarkRunning, SetJob, Goto, localVars, TypeInv, TypeOK
    <2>2. JobsOK'
      BY <1>1, <2>1 DEF WorkInv, JobsOK, JobStages
    <2>3. \A n \in Note, c \in Content : <<n, c>> \in claim["http"] => n \in note["http"]
      BY <2>1 DEF WorkInv, RequestOK, JobStages
    <2>4. RequestOK'
      BY <1>1, <2>1, <2>3 DEF WorkInv, RequestOK, JobStages
    <2> QED BY <1>5, <2>1, <2>2, <2>4
  <1>8. ASSUME ReadForIndex("http") PROVE JobsOK' /\ RequestOK' /\ RouteOK' /\ Tracked'
    <2>1. PICK j \in claim["http"] :
            /\ seen' = [seen EXCEPT !["http"] = file[j[1]]]
            /\ Goto("http", IF file[j[1]] \in Content THEN "upsert" ELSE "quarantine")
      BY <1>8 DEF ReadForIndex
    <2>2. /\ UNCHANGED <<manifest, jobs, claim>> /\ pc["http"] = "read"
          /\ seen'["http"] = file[j[1]]
          /\ pc'["http"] \in {"upsert", "quarantine"}
      BY <1>8, <2>1, Actors DEF ReadForIndex, Goto, dbVars, TypeInv, TypeOK
    <2>3. \A i \in claim["http"] : i = j
      BY <2>1, Actors DEF WorkInv, JobsOK
    <2>4. JobsOK'
      BY <1>1, <2>2 DEF WorkInv, JobsOK, JobStages
    <2>5. RequestOK'
      BY <1>1, <2>2, <2>3 DEF WorkInv, RequestOK, JobStages
    <2> QED BY <1>5, <2>2, <2>4, <2>5
  <1>9. ASSUME UpsertIndex("http") PROVE JobsOK' /\ RequestOK' /\ RouteOK' /\ Tracked'
    <2>1. PICK j \in claim["http"] : manifest' = [manifest EXCEPT ![j[1]] = seen["http"]]
      BY <1>9 DEF UpsertIndex
    <2>2. j[1] \in Note /\ \A i \in claim["http"] : i = j
      BY <2>1, Actors DEF TypeInv, TypeOK, WorkInv, JobsOK
    <2>3. /\ UNCHANGED <<jobs, claim>>
          /\ pc["http"] = "upsert" /\ pc'["http"] = "done"
          /\ manifest'[j[1]] = seen["http"]
          /\ \A n \in Note : n # j[1] => manifest'[n] = manifest[n]
      BY <1>9, <2>1, <2>2, Actors DEF UpsertIndex, Goto, localVars, TypeInv, TypeOK
    <2>4. seen["http"] = file[j[1]] /\ seen["http"] \in Content /\ j[1] \in note["http"]
      BY <2>1, <2>3, Actors DEF WorkInv, RequestOK, TypeInv, JobStages
    <2>5. JobsOK'
      BY <1>1, <2>3 DEF WorkInv, JobsOK, JobStages
    <2>6. RequestOK'
      BY <1>1, <2>3 DEF WorkInv, RequestOK, JobStages
    <2>7. RouteOK'
      BY <1>1, <2>3, <2>4 DEF WorkInv, RouteOK, JobStages
    <2>8. Tracked'
      <3>1. Indexed(j[1])'
        BY <1>1, <2>2, <2>3, <2>4, ParsedType DEF Indexed
      <3>2. \A n \in Note : n # j[1] => (Indexed(n)' <=> Indexed(n))
        BY <1>1, <2>3 DEF Indexed
      <3> QED BY <1>1, <2>2, <3>1, <3>2 DEF WorkInv, Tracked, Routed
    <2> QED BY <2>5, <2>6, <2>7, <2>8
  <1>10. ASSUME FinishJob("http") PROVE JobsOK' /\ RequestOK' /\ RouteOK' /\ Tracked'
    <2>1. PICK st \in {"done", "quarantined"} : SetJob("http", st)
      BY <1>10 DEF FinishJob
    <2>2. /\ UNCHANGED manifest /\ claim'["http"] = {}
          /\ pc["http"] \in {"done", "quarantine"} /\ pc'["http"] = "jobs"
          /\ \A n \in Note, c \in Content :
               jobs'[n][c] = IF <<n, c>> \in claim["http"] THEN st ELSE jobs[n][c]
      BY <1>10, <2>1, Actors DEF FinishJob, SetJob, Goto, Set, TypeInv, TypeOK
    <2>3. JobsOK'
      BY <1>1, <2>1, <2>2 DEF WorkInv, JobsOK, JobStages, Actor
    <2>4. RequestOK'
      BY <1>1, <2>1, <2>2 DEF WorkInv, RequestOK, JobStages
    <2> QED BY <1>5, <2>2, <2>3, <2>4
  <1> QED BY <1>3, <1>4, <1>6, <1>7, <1>8, <1>9, <1>10 DEF ProcessJobs, WorkInv

LEMMA HttpDeliverWork == ASSUME TypeInv, WorkInv, HttpDeliver PROVE WorkInv'
  <1>1. /\ UNCHANGED <<file, manifest, jobs, events, pending, renewed, claim, seen, valid, before,
                       plan, todo>>
        /\ pc'["watcher"] = pc["watcher"] /\ pc'["cli"] = pc["cli"]
        /\ pc["http"] = "deliver" /\ pc'["http"] = "idle"
        /\ note'["http"] = {}
        /\ delivered' = delivered \cup {n \in note["http"] : file[n] \in Content}
    BY Actors DEF HttpDeliver, Goto, Set, watchVars, TypeInv, TypeOK
  <1>2. pc["watcher"] \notin SyncStages
    BY <1>1 DEF WorkInv, Control
  <1>3. note["http"] \subseteq delivered' /\ delivered \subseteq delivered'
    BY <1>1 DEF WorkInv, RequestOK
  <1>4. Control'
    BY <1>1 DEF WorkInv, Control
  <1>5. JobsOK' /\ RequestOK'
    BY <1>1 DEF WorkInv, JobsOK, RequestOK, JobStages
  <1>6. ScanOK' /\ FlushOK'
    BY <1>1, <1>2 DEF ScanOK, FlushOK, SyncStages, JobStages
  <1>7. RouteOK'
    BY <1>1, <1>2, <1>3 DEF WorkInv, RouteOK, SyncStages, JobStages
  <1>8. Tracked'
    BY <1>1, <1>3 DEF WorkInv, Tracked, Indexed, Routed
  <1> QED BY <1>4, <1>5, <1>6, <1>7, <1>8 DEF WorkInv

LEMMA RequestWork == ASSUME TypeInv, WorkInv, Request PROVE WorkInv'
  BY WriteFileWork, EnqueueWork, HttpJobsWork, HttpDeliverWork DEF Request, CreateNote

\* A failed flush or request has indexed nothing yet and leaves no job.
LEMMA FailWork ==
  ASSUME TypeInv, WorkInv,
         \/ Fail("watcher") /\ pc["watcher"] \in {"scan", "manifest", "recover", "plan"}
         \/ Fail("http") /\ pc["http"] \in {"write", "enqueue"}
  PROVE  WorkInv'
  <1>1. PICK a \in {"watcher", "http"} :
          /\ Fail(a)
          /\ (a = "watcher" => pc["watcher"] \in {"scan", "manifest", "recover", "plan"})
          /\ (a = "http" => pc["http"] \in {"write", "enqueue"})
    OBVIOUS
  <1>2. a \in Actor
    BY Actors
  <1>3. /\ UNCHANGED <<file, manifest, jobs, delivered, events, pending, renewed>>
        /\ pc' = [pc EXCEPT ![a] = "idle"]
        /\ \A b \in Actor : claim'[b] = IF b = a THEN {} ELSE claim[b]
        /\ \A b \in Actor : note'[b] = IF b = a THEN {} ELSE note[b]
    BY <1>1 DEF Fail, Goto, Forget, dbVars
  <1>4. /\ pc'["cli"] = pc["cli"]
        /\ pc'["watcher"] = (IF a = "watcher" THEN "idle" ELSE pc["watcher"])
        /\ pc'["http"] = (IF a = "http" THEN "idle" ELSE pc["http"])
    BY <1>1, <1>3, Actors DEF TypeInv, TypeOK
  <1>5. \/ a = "watcher" /\ pc["http"] = "idle"
        \/ a = "http" /\ pc["watcher"] \notin SyncStages
    BY <1>1 DEF WorkInv, Control, SyncStages
  <1>6. pc'["http"] = "idle" /\ pc'["watcher"] \notin SyncStages
    BY <1>4, <1>5 DEF SyncStages, JobStages
  <1>7. Control'
    BY <1>4, <1>6 DEF WorkInv, Control
  <1>8. \A n \in Note, c \in Content : jobs[n][c] \notin {"pending", "running"}
    BY <1>1, <1>5 DEF WorkInv, JobsOK, SyncStages, JobStages
  <1>9. JobsOK'
    BY <1>3, <1>8 DEF WorkInv, JobsOK
  <1>10. RequestOK'
    BY <1>3, <1>6, Actors DEF WorkInv, RequestOK, JobStages
  <1>11. ScanOK' /\ FlushOK'
    BY <1>6 DEF ScanOK, FlushOK, SyncStages, JobStages
  <1>12. RouteOK'
    BY <1>1, <1>3, <1>5 DEF WorkInv, RouteOK, SyncStages, JobStages
  <1>13. Tracked'
    BY <1>3 DEF WorkInv, Tracked, Indexed, Routed
  <1> QED BY <1>7, <1>9, <1>10, <1>11, <1>12, <1>13 DEF WorkInv

LEMMA WorkNext == ASSUME Serving PROVE TypeInv /\ WorkInv /\ [Next]_vars => WorkInv'
  <1> SUFFICES ASSUME TypeInv, WorkInv, [Next]_vars PROVE WorkInv'
    OBVIOUS
  <1>1. CASE UNCHANGED vars
    <2>1. UNCHANGED <<file, manifest, jobs, delivered, events, pending, renewed, pc, note, claim,
                      seen, valid, before, plan, todo>>
      BY <1>1 DEF vars
    <2> QED BY <2>1 DEF WorkInv, Control, JobsOK, RequestOK, ScanOK, FlushOK, RouteOK, Tracked,
                        Stable, Planned, Indexed, Routed
  <1>2. CASE Next
    BY <1>2, ServingStep, EditWork, NotifyWork, WatcherWork, HttpCreateWork, RequestWork, FailWork
       DEF WorkInv
  <1> QED BY <1>1, <1>2

\* converge() of server.py around MemoryWatcher.flush and sync_filesystem, and
\* create_note: a server at rest has indexed and routed every file, for any
\* notes and any order of edits, events, flushes, requests and early failures.
THEOREM QuietConverged == ASSUME Serving PROVE Spec => []QuietMeansConverged
  <1>1. WorkInv => QuietMeansConverged
    BY DEF WorkInv, Tracked, QuietMeansConverged, Quiet
  <1> QED BY <1>1, TypeInit, TypeNext, WorkInit, WorkNext, PTL DEF Spec

\* MemoryWatcher.flush: a generation is dropped only when its note has been
\* indexed and routed, or has another event on its way.
THEOREM ConsumedConverges == ASSUME Serving PROVE Spec => ConsumedMeansConverged
  <1>1. TypeInv /\ WorkInv /\ TypeInv' /\ WorkInv' /\ [Next]_vars =>
          [\A n \in pending \ pending' :
              ~Up' \/ n \in events' \/ (Indexed(n)' /\ Routed(n)')]_vars
    BY DEF WorkInv, Tracked, TypeInv, TypeOK
  <1> QED BY <1>1, TypeInit, TypeNext, WorkInit, WorkNext, PTL DEF Spec, ConsumedMeansConverged

-----------------------------------------------------------------------------
(***************************************************************************)
(* The index alone                                                         *)
(*                                                                         *)
(* What has to be left out for the index is less: the command line, which  *)
(* may write a stale read to the index after the flush; a kill; and a      *)
(* failure while a job is marked running, which no later plan takes up     *)
(* (README, section 5).  Requests and people may write the same notes, and *)
(* any other stage may fail, any number of times.                          *)
(***************************************************************************)
RunningStages == {"read", "upsert", "done", "quarantine"}

Indexing == CliNotes = {} /\ MaxCrashes = 0 /\ Faults \cap RunningStages = {}

\* A running job is in somebody's hands, and process_jobs of a flush ends with
\* no job pending.  Failures leave pending jobs behind elsewhere.
ClaimOK ==
    /\ \A a \in Actor : \A i, j \in claim[a] : i = j
    /\ \A n \in Note, c \in Content : jobs[n][c] = "running" =>
         \E a \in {"watcher", "http"} : pc[a] \in RunningStages /\ <<n, c>> \in claim[a]
    /\ pc["watcher"] \in {"rescan", "prune"} => PendingJobs = {}

\* A request that is about to index an old content leaves work for a flush.
StaleOK ==
    pc["http"] = "upsert" =>
      \A j \in claim["http"] : seen["http"] = file[j[1]] \/ j[1] \in events \/ j[1] \in pending

\* What sync_filesystem has read is still true of the stable notes.
ReadOK ==
    /\ pc["watcher"] \in {"manifest", "recover", "plan", "rescan", "prune"} \cup JobStages =>
         \A n \in Note : Stable(n) => valid["watcher"][n] = Parsed(file)[n]
    /\ pc["watcher"] \in {"recover", "plan"} => before["watcher"] = manifest
    /\ pc["watcher"] = "plan" => plan["watcher"] = Planned(valid["watcher"], before["watcher"])

\* Whatever is not indexed is known to the observer or the watcher.
TrackedIndex == \A n \in Note : n \in events \/ n \in pending \/ Indexed(n)

IndexInv == Control /\ ClaimOK /\ StaleOK /\ ReadOK /\ FlushOK /\ TrackedIndex

LEMMA IndexInit == Init => IndexInv
  <1> SUFFICES ASSUME Init PROVE IndexInv
    OBVIOUS
  <1>1. /\ pc["cli"] = "idle" /\ pc["watcher"] = "idle" /\ pc["http"] = "idle"
        /\ \A a \in Actor : claim[a] = {}
    BY Actors DEF Init
  <1>2. \A n \in Note, c \in Content : jobs[n][c] = "none"
    BY DEF Init
  <1>3. \A n \in Note : Indexed(n)
    BY EmptyType, ParsedType, Contents DEF Init, Indexed
  <1>4. Control
    BY <1>1 DEF Control, SyncStages, JobStages
  <1>5. ClaimOK /\ StaleOK /\ ReadOK /\ FlushOK
    BY <1>1, <1>2, Actors DEF ClaimOK, StaleOK, ReadOK, FlushOK, JobStages
  <1> QED BY <1>3, <1>4, <1>5 DEF IndexInv, TrackedIndex

LEMMA IndexingStep ==
  ASSUME Indexing, TypeInv, Control, Next
  PROVE  \/ \E n \in Note, c \in Content \cup {NoContent, Broken} : EditFile(n, c)
         \/ \E n \in Note : Notify(n)
         \/ Watcher
         \/ \E n \in Note : HttpCreate(n)
         \/ Request
         \/ \E a \in {"watcher", "http"} : Fail(a) /\ pc[a] \notin RunningStages
  <1>1. ~StartUp
    BY DEF StartUp, Restart, InitService, InitSchema, InitScan, InitManifest, InitRecover,
       InitPlan, InitDeliver, InitRecord, StartObserver, Scan, ReadManifest, PlanJobs, WriteJobs,
       Control, SyncStages, JobStages
  <1>2. ~InitService("cli") /\ ~CreateNote("cli")
    BY DEF InitService, InitSchema, InitScan, InitManifest, InitRecover, InitPlan, Scan,
       ReadManifest, PlanJobs, WriteJobs, CreateNote, WriteFile, EnqueueJob, ProcessJobs,
       SelectJob, MarkRunning, ReadForIndex, UpsertIndex, FinishJob, Control
  <1>3. ~Crash
    BY ConvergenceAssumption DEF Indexing, Crash, TypeInv, TypeOK
  <1>4. \A n \in CliNotes : ~CliCreate(n)
    BY DEF Indexing
  <1>5. ASSUME NEW a \in Actor, Fail(a) \/ FailUpsert(a)
        PROVE  a \in {"watcher", "http"} /\ Fail(a) /\ pc[a] \notin RunningStages
    <2>1. ~FailUpsert(a)
      BY DEF FailUpsert, Indexing, RunningStages
    <2> QED BY <1>5, <2>1 DEF Fail, Indexing, RunningStages, Actor
  <1> QED BY <1>1, <1>2, <1>3, <1>4, <1>5, ConvergenceAssumption DEF Next

\* A file changes, by hand or by a request: the observer has an event for it.
LEMMA TouchIndex ==
  ASSUME TypeInv, ReadOK, FlushOK, TrackedIndex, NEW n \in Note, NEW c,
         file' = [file EXCEPT ![n] = c], events' = events \cup {n},
         UNCHANGED <<manifest, jobs, pending, renewed, claim, valid, before, plan>>,
         pc'["watcher"] = pc["watcher"], seen'["watcher"] = seen["watcher"]
  PROVE  ReadOK' /\ FlushOK' /\ TrackedIndex'
  <1>1. \A m \in Note : m # n => file'[m] = file[m] /\ Parsed(file')[m] = Parsed(file)[m]
    <2>1. \A m \in Note : m # n => file'[m] = file[m]
      BY DEF TypeInv, TypeOK
    <2> QED BY <2>1 DEF Parsed
  <1>2. \A m \in Note : Stable(m)' => m # n /\ Stable(m)
    BY DEF Stable
  <1>3. Planned(valid["watcher"], before["watcher"])' = Planned(valid["watcher"], before["watcher"])
    BY DEF Planned
  <1>4. ReadOK'
    BY <1>1, <1>2, <1>3 DEF ReadOK
  <1>5. \A j \in claim["watcher"] : j[1] \in Note
    BY Actors DEF TypeInv, TypeOK
  <1>6. FlushOK'
    <2>1. \A m \in Note : Stable(m)' => Indexed(m)' = Indexed(m)
      BY <1>1, <1>2 DEF Indexed
    <2>2. \A m \in Note : Stable(m)' => file'[m] = file[m]
      BY <1>1, <1>2
    <2> QED BY <1>2, <1>5, <2>1, <2>2 DEF FlushOK
  <1>7. TrackedIndex'
    BY <1>1 DEF TrackedIndex, Indexed
  <1> QED BY <1>4, <1>6, <1>7

LEMMA EditIndex ==
  ASSUME TypeInv, IndexInv, NEW n \in Note, NEW c, EditFile(n, c) PROVE IndexInv'
  <1>1. /\ UNCHANGED <<manifest, jobs, delivered, pending, renewed, pc, note, claim, seen, valid,
                       before, plan, todo>>
        /\ file' = [file EXCEPT ![n] = c] /\ events' = events \cup {n}
    BY DEF EditFile, Touch, Up, IndexInv, Control, StartStages, SyncStages, JobStages, dbVars,
       localVars
  <1>2. ReadOK' /\ FlushOK' /\ TrackedIndex'
    BY <1>1, TouchIndex DEF IndexInv
  <1>3. Control'
    BY <1>1 DEF IndexInv, Control
  <1>4. ClaimOK'
    BY <1>1 DEF IndexInv, ClaimOK, PendingJobs
  <1>5. StaleOK'
    <2>1. \A m \in Note : file'[m] = file[m] \/ m \in events'
      BY <1>1 DEF TypeInv, TypeOK
    <2>2. \A j \in claim["http"] : j[1] \in Note
      BY Actors DEF TypeInv, TypeOK
    <2> QED BY <1>1, <2>1, <2>2 DEF IndexInv, StaleOK
  <1> QED BY <1>2, <1>3, <1>4, <1>5 DEF IndexInv

LEMMA NotifyIndex ==
  ASSUME TypeInv, IndexInv, NEW n \in Note, Notify(n) PROVE IndexInv'
  <1>1. /\ UNCHANGED <<file, manifest, jobs, delivered, pc, note, claim, seen, valid, before, plan,
                       todo>>
        /\ events \cup pending \subseteq events' \cup pending'
    BY DEF Notify, dbVars, localVars
  <1>2. \A m : Stable(m)' => Stable(m)
    BY DEF Notify, Stable
  <1>3. Control' /\ ClaimOK' /\ StaleOK'
    BY <1>1 DEF IndexInv, Control, ClaimOK, StaleOK, PendingJobs
  <1>4. ReadOK'
    <2>1. Planned(valid["watcher"], before["watcher"])' = Planned(valid["watcher"], before["watcher"])
      BY <1>1 DEF Planned
    <2> QED BY <1>1, <1>2, <2>1 DEF IndexInv, ReadOK
  <1>5. FlushOK'
    BY <1>1, <1>2 DEF IndexInv, FlushOK, Indexed
  <1>6. TrackedIndex'
    BY <1>1 DEF IndexInv, TrackedIndex, Indexed
  <1> QED BY <1>3, <1>4, <1>5, <1>6 DEF IndexInv

LEMMA BeforeScanIndex ==
  ASSUME TypeInv, IndexInv, Arm \/ Capture \/ SyncLock PROVE IndexInv'
  <1>1. /\ UNCHANGED <<file, manifest, jobs, events, pending, claim, seen>>
        /\ pc'["http"] = pc["http"] /\ pc'["cli"] = pc["cli"]
        /\ pc["watcher"] \in {"idle", "armed", "captured"}
        /\ pc'["watcher"] \in {"idle", "armed", "captured", "scan"}
        /\ (pc'["watcher"] = "scan" => pc["http"] = "idle")
    BY Actors DEF Arm, Capture, SyncLock, LockFree, Goto, dbVars, localVars, watchVars, TypeInv, TypeOK
  <1>2. Control'
    BY <1>1 DEF IndexInv, Control, SyncStages, JobStages
  <1>3. ClaimOK' /\ StaleOK'
    BY <1>1 DEF IndexInv, ClaimOK, StaleOK, RunningStages
  <1>4. ReadOK' /\ FlushOK'
    BY <1>1 DEF ReadOK, FlushOK, JobStages
  <1>5. TrackedIndex'
    BY <1>1 DEF IndexInv, TrackedIndex, Indexed
  <1> QED BY <1>2, <1>3, <1>4, <1>5 DEF IndexInv

LEMMA SyncReadIndex ==
  ASSUME TypeInv, IndexInv, SyncScan \/ SyncManifest \/ SyncRecover PROVE IndexInv'
  <1>0. PICK w : w = pc["watcher"]
    OBVIOUS
  <1>1. /\ UNCHANGED <<file, manifest, jobs, events, pending, renewed, claim, seen>>
        /\ pc'["http"] = pc["http"] /\ pc'["cli"] = pc["cli"]
        /\ w \in {"scan", "manifest", "recover"}
        /\ (w = "scan" => /\ pc'["watcher"] = "manifest" /\ valid'["watcher"] = Parsed(file))
        /\ (w = "manifest" => /\ pc'["watcher"] = "recover" /\ before'["watcher"] = manifest
                              /\ valid' = valid)
        /\ (w = "recover" => /\ pc'["watcher"] = "plan" /\ before' = before /\ valid' = valid
                             /\ plan'["watcher"] = Planned(valid["watcher"], before["watcher"]))
    BY <1>0, Actors DEF SyncScan, SyncManifest, SyncRecover, Scan, ReadManifest, PlanJobs, Goto,
       Set, dbVars, watchVars, TypeInv, TypeOK
  <1>2. pc["http"] = "idle"
    BY <1>0, <1>1 DEF IndexInv, Control, SyncStages
  <1>3. Control'
    BY <1>0, <1>1, <1>2 DEF IndexInv, Control, SyncStages, JobStages
  <1>4. ClaimOK' /\ StaleOK'
    BY <1>0, <1>1, <1>2 DEF IndexInv, ClaimOK, StaleOK, RunningStages
  <1>5. ReadOK'
    <2>1. \A n : Stable(n)' => Stable(n)
      BY <1>1 DEF Stable
    <2>2. w = "scan" => ReadOK'
      BY <1>1, <2>1 DEF ReadOK, JobStages
    <2>3. w = "manifest" => ReadOK'
      BY <1>0, <1>1, <2>1 DEF IndexInv, ReadOK, JobStages
    <2>4. w = "recover" => ReadOK'
      <3>1. w = "recover" =>
              Planned(valid["watcher"], before["watcher"])' = Planned(valid["watcher"], before["watcher"])
        BY <1>1 DEF Planned
      <3> QED BY <1>0, <1>1, <2>1, <3>1 DEF IndexInv, ReadOK, JobStages
    <2> QED BY <1>1, <2>2, <2>3, <2>4
  <1>6. FlushOK'
    BY <1>1 DEF FlushOK, JobStages
  <1>7. TrackedIndex'
    BY <1>1 DEF IndexInv, TrackedIndex, Indexed
  <1> QED BY <1>3, <1>4, <1>5, <1>6, <1>7 DEF IndexInv

LEMMA SyncPlanIndex == ASSUME TypeInv, IndexInv, SyncPlan PROVE IndexInv'
  <1>1. /\ UNCHANGED <<file, manifest, events, pending, renewed, claim, seen, valid, before>>
        /\ pc'["http"] = pc["http"] /\ pc'["cli"] = pc["cli"]
        /\ pc["watcher"] = "plan" /\ pc'["watcher"] = "jobs"
        /\ jobs' = WithPlan(plan["watcher"])
    BY Actors DEF SyncPlan, WriteJobs, Goto, watchVars, TypeInv, TypeOK
  <1>2. pc["http"] = "idle"
    BY <1>1 DEF IndexInv, Control, SyncStages
  <1>3. Control'
    BY <1>1, <1>2 DEF IndexInv, Control, SyncStages, JobStages
  <1>4. \A n \in Note, c \in Content :
          jobs'[n][c] = IF <<n, c, "done">> \in plan["watcher"] THEN "done"
                        ELSE IF <<n, c, "pending">> \in plan["watcher"] THEN "pending" ELSE jobs[n][c]
    BY <1>1 DEF WithPlan
  <1>5. ClaimOK' /\ StaleOK'
    BY <1>1, <1>2, <1>4 DEF IndexInv, ClaimOK, StaleOK, RunningStages
  <1>6. \A n : Stable(n)' => Stable(n)
    BY <1>1 DEF Stable
  <1>7. ReadOK'
    BY <1>1, <1>6 DEF IndexInv, ReadOK, JobStages
  <1>8. FlushOK'
    <2>1. ASSUME NEW n \in Note, Stable(n), file[n] \in Content, manifest[n] # file[n]
          PROVE  jobs'[n][file[n]] \in {"pending", "running"}
      <3>1. valid["watcher"][n] = file[n] /\ file[n] # NoContent
        BY <1>1, <2>1, ParsedType, Contents DEF IndexInv, ReadOK
      <3>2. before["watcher"][n] # file[n]
        BY <1>1, <2>1 DEF IndexInv, ReadOK
      <3>3. plan["watcher"] = Planned(valid["watcher"], before["watcher"])
        BY <1>1 DEF IndexInv, ReadOK
      <3>4. <<n, file[n], "done">> \notin plan["watcher"]
        BY <3>1, <3>2, <3>3 DEF Planned
      <3>5. jobs[n][file[n]] \in {"pending", "running"} \/ <<n, file[n], "pending">> \in plan["watcher"]
        BY <3>1, <3>2, <3>3 DEF Planned
      <3> QED BY <1>4, <2>1, <3>4, <3>5
    <2> QED BY <1>1, <1>6, <2>1 DEF FlushOK
  <1>9. TrackedIndex'
    BY <1>1 DEF IndexInv, TrackedIndex, Indexed
  <1> QED BY <1>3, <1>5, <1>7, <1>8, <1>9 DEF IndexInv

\* process_jobs of the convergence thread.
LEMMA SyncJobsIndex == ASSUME TypeInv, IndexInv, ProcessJobs("watcher") PROVE IndexInv'
  <1>1. /\ UNCHANGED <<file, events, pending, renewed, valid>>
        /\ pc'["http"] = pc["http"] /\ pc'["cli"] = pc["cli"]
        /\ claim'["http"] = claim["http"] /\ claim'["cli"] = claim["cli"]
        /\ seen'["http"] = seen["http"]
        /\ pc["watcher"] \in JobStages /\ pc'["watcher"] \in JobStages \cup {"rescan"}
    BY Actors, JobEnds DEF ProcessJobs, SelectJob, MarkRunning, ReadForIndex, UpsertIndex,
       FinishJob, Goto, Set, dbVars, localVars, watchVars, JobStages, TypeInv, TypeOK
  <1>2. pc["http"] = "idle"
    BY <1>1 DEF IndexInv, Control, SyncStages
  <1>3. Control'
    BY <1>1, <1>2 DEF IndexInv, Control, SyncStages
  <1>4. StaleOK'
    BY <1>1, <1>2 DEF StaleOK
  <1>5. \A n : Stable(n)' <=> Stable(n)
    BY <1>1 DEF Stable
  <1>6. ReadOK'
    BY <1>1, <1>5 DEF IndexInv, ReadOK, JobStages
  <1>7. ASSUME UNCHANGED manifest PROVE TrackedIndex'
    BY <1>1, <1>7 DEF IndexInv, TrackedIndex, Indexed
  <1>8. ASSUME SelectJob("watcher") PROVE ClaimOK' /\ FlushOK' /\ TrackedIndex'
    <2>1. UNCHANGED <<manifest, jobs, seen>> /\ pc["watcher"] = "jobs"
      BY <1>8 DEF SelectJob, dbVars
    <2>2. CASE PendingJobs = {} /\ Goto("watcher", "rescan") /\ UNCHANGED claim
      <3>1. pc'["watcher"] = "rescan" /\ PendingJobs' = {}
        BY <2>1, <2>2, Actors DEF Goto, PendingJobs, TypeInv, TypeOK
      <3>2. ClaimOK'
        BY <1>1, <1>2, <2>1, <2>2, <3>1 DEF IndexInv, ClaimOK, RunningStages
      <3>3. FlushOK'
        BY <1>1, <1>5, <2>1, <2>2, <3>1 DEF IndexInv, FlushOK, JobStages
      <3> QED BY <1>7, <2>1, <3>2, <3>3
    <2>3. CASE \E j \in PendingJobs : claim' = [claim EXCEPT !["watcher"] = {j}]
                                      /\ Goto("watcher", "mark")
      <3>1. pc'["watcher"] = "mark" /\ \E j : claim'["watcher"] = {j}
        BY <2>3, Actors DEF Goto, TypeInv, TypeOK
      <3>2. ClaimOK'
        BY <1>1, <1>2, <2>1, <3>1 DEF IndexInv, ClaimOK, RunningStages, Actor
      <3>3. FlushOK'
        BY <1>1, <1>5, <2>1, <3>1 DEF IndexInv, FlushOK, JobStages
      <3> QED BY <1>7, <2>1, <3>2, <3>3
    <2> QED BY <1>8, <2>2, <2>3, JobEnds DEF SelectJob
  <1>9. ASSUME MarkRunning("watcher") PROVE ClaimOK' /\ FlushOK' /\ TrackedIndex'
    <2>1. /\ UNCHANGED <<manifest, seen, claim>>
          /\ pc["watcher"] = "mark" /\ pc'["watcher"] = "read"
          /\ \A n \in Note, c \in Content :
               jobs'[n][c] = IF <<n, c>> \in claim["watcher"] THEN "running" ELSE jobs[n][c]
      BY <1>9, Actors DEF MarkRunning, SetJob, Goto, localVars, TypeInv, TypeOK
    <2>2. ClaimOK'
      BY <1>1, <1>2, <2>1 DEF IndexInv, ClaimOK, RunningStages
    <2>3. FlushOK'
      BY <1>1, <1>5, <2>1 DEF IndexInv, FlushOK, JobStages
    <2> QED BY <1>7, <2>1, <2>2, <2>3
  <1>10. ASSUME ReadForIndex("watcher") PROVE ClaimOK' /\ FlushOK' /\ TrackedIndex'
    <2>1. PICK j \in claim["watcher"] :
            /\ seen' = [seen EXCEPT !["watcher"] = file[j[1]]]
            /\ Goto("watcher", IF file[j[1]] \in Content THEN "upsert" ELSE "quarantine")
      BY <1>10 DEF ReadForIndex
    <2>2. /\ UNCHANGED <<manifest, jobs, claim>> /\ pc["watcher"] = "read"
          /\ seen'["watcher"] = file[j[1]]
          /\ (file[j[1]] \in Content => pc'["watcher"] = "upsert")
          /\ (file[j[1]] \notin Content => pc'["watcher"] = "quarantine")
      BY <1>10, <2>1, Actors DEF ReadForIndex, Goto, dbVars, TypeInv, TypeOK
    <2>3. \A i \in claim["watcher"] : i = j
      BY <2>1, Actors DEF IndexInv, ClaimOK
    <2>4. ClaimOK'
      BY <1>1, <1>2, <2>2 DEF IndexInv, ClaimOK, RunningStages
    <2>5. FlushOK'
      BY <1>1, <1>5, <2>2, <2>3 DEF IndexInv, FlushOK, JobStages
    <2> QED BY <1>7, <2>2, <2>4, <2>5
  <1>11. ASSUME UpsertIndex("watcher") PROVE ClaimOK' /\ FlushOK' /\ TrackedIndex'
    <2>1. PICK j \in claim["watcher"] : manifest' = [manifest EXCEPT ![j[1]] = seen["watcher"]]
      BY <1>11 DEF UpsertIndex
    <2>2. j[1] \in Note /\ \A i \in claim["watcher"] : i = j
      BY <2>1, Actors DEF TypeInv, TypeOK, IndexInv, ClaimOK
    <2>3. /\ UNCHANGED <<jobs, claim>>
          /\ pc["watcher"] = "upsert" /\ pc'["watcher"] = "done"
          /\ manifest'[j[1]] = seen["watcher"]
          /\ \A n \in Note : n # j[1] => manifest'[n] = manifest[n]
      BY <1>11, <2>1, <2>2, Actors DEF UpsertIndex, Goto, localVars, TypeInv, TypeOK
    <2>4. Stable(j[1]) => seen["watcher"] = file[j[1]]
      BY <2>1, <2>3 DEF IndexInv, FlushOK
    <2>5. seen["watcher"] \in Content
      BY <2>3, Actors DEF TypeInv
    <2>6. ClaimOK'
      BY <1>1, <1>2, <2>3 DEF IndexInv, ClaimOK, RunningStages
    <2>7. FlushOK'
      BY <1>1, <1>5, <2>2, <2>3, <2>4 DEF IndexInv, FlushOK, JobStages
    <2>8. TrackedIndex'
      <3>1. Stable(j[1]) => Indexed(j[1])'
        BY <1>1, <2>2, <2>3, <2>4, <2>5, ParsedType DEF Indexed
      <3>2. \A n \in Note : n # j[1] => (Indexed(n)' <=> Indexed(n))
        BY <1>1, <2>3 DEF Indexed
      <3>3. \A n \in Note : Stable(n) \/ n \in events \/ n \in pending
        BY DEF Stable, TypeInv, TypeOK
      <3> QED BY <1>1, <2>2, <3>1, <3>2, <3>3 DEF IndexInv, TrackedIndex
    <2> QED BY <2>6, <2>7, <2>8
  <1>12. ASSUME FinishJob("watcher") PROVE ClaimOK' /\ FlushOK' /\ TrackedIndex'
    <2>1. PICK st \in {"done", "quarantined"} : SetJob("watcher", st)
      BY <1>12 DEF FinishJob
    <2>2. /\ UNCHANGED manifest /\ claim'["watcher"] = {}
          /\ pc["watcher"] \in {"done", "quarantine"} /\ pc'["watcher"] = "jobs"
          /\ \A n \in Note, c \in Content :
               jobs'[n][c] = IF <<n, c>> \in claim["watcher"] THEN st ELSE jobs[n][c]
      BY <1>12, <2>1, Actors DEF FinishJob, SetJob, Goto, Set, TypeInv, TypeOK
    <2>3. ClaimOK'
      BY <1>1, <1>2, <2>1, <2>2 DEF IndexInv, ClaimOK, RunningStages, Actor
    <2>4. FlushOK'
      BY <1>1, <1>5, <2>2, ZenonT(60) DEF IndexInv, FlushOK, JobStages
    <2> QED BY <1>7, <2>2, <2>3, <2>4
  <1> QED BY <1>3, <1>4, <1>6, <1>8, <1>9, <1>10, <1>11, <1>12 DEF ProcessJobs, IndexInv

LEMMA SyncRescanIndex == ASSUME TypeInv, IndexInv, SyncRescan PROVE IndexInv'
  <1>1. /\ UNCHANGED <<file, manifest, jobs, events, pending, renewed, claim, seen>>
        /\ pc'["http"] = pc["http"] /\ pc'["cli"] = pc["cli"]
        /\ pc["watcher"] = "rescan" /\ pc'["watcher"] = "prune"
        /\ valid'["watcher"] = Parsed(file)
    BY Actors DEF SyncRescan, Scan, Goto, Set, dbVars, watchVars, TypeInv, TypeOK
  <1>2. \A n : Stable(n)' <=> Stable(n)
    BY <1>1 DEF Stable
  <1>3. Control'
    BY <1>1 DEF IndexInv, Control, SyncStages, JobStages
  <1>4. ClaimOK' /\ StaleOK'
    BY <1>1 DEF IndexInv, ClaimOK, StaleOK, RunningStages, PendingJobs
  <1>5. ReadOK' /\ FlushOK'
    BY <1>1, <1>2 DEF IndexInv, ReadOK, FlushOK, JobStages
  <1>6. TrackedIndex'
    BY <1>1 DEF IndexInv, TrackedIndex, Indexed
  <1> QED BY <1>3, <1>4, <1>5, <1>6 DEF IndexInv

LEMMA SyncPruneIndex == ASSUME TypeInv, IndexInv, SyncPrune PROVE IndexInv'
  <1>1. /\ UNCHANGED <<file, jobs, events, pending, renewed, claim, seen>>
        /\ pc'["http"] = pc["http"] /\ pc'["cli"] = pc["cli"]
        /\ pc["watcher"] = "prune" /\ pc'["watcher"] = "deliver"
        /\ \A n \in Note : manifest'[n] = IF valid["watcher"][n] = NoContent THEN NoContent
                                          ELSE manifest[n]
    BY Actors DEF SyncPrune, Goto, watchVars, TypeInv, TypeOK
  <1>2. pc["http"] = "idle"
    BY <1>1 DEF IndexInv, Control, SyncStages
  <1>3. \A n : Stable(n)' <=> Stable(n)
    BY <1>1 DEF Stable
  <1>4. \A n \in Note, c \in Content : jobs[n][c] \notin {"pending", "running"}
    <2>1. \A n \in Note, c \in Content : jobs[n][c] # "pending"
      BY <1>1, PendingFound DEF IndexInv, ClaimOK
    <2> QED BY <1>1, <1>2, <2>1 DEF IndexInv, ClaimOK, RunningStages
  <1>5. ASSUME NEW n \in Note, Stable(n) PROVE Indexed(n)'
    <2>1. valid["watcher"][n] = Parsed(file)[n]
      BY <1>1, <1>5 DEF IndexInv, ReadOK
    <2>2. file[n] \in Content => manifest[n] = file[n]
      BY <1>1, <1>4, <1>5 DEF IndexInv, FlushOK
    <2>3. Parsed(file)[n] = IF file[n] \in Content THEN file[n] ELSE NoContent
      BY ParsedType
    <2> QED BY <1>1, <2>1, <2>2, <2>3, Contents DEF Indexed
  <1>6. Control'
    BY <1>1, <1>2 DEF IndexInv, Control, SyncStages, JobStages
  <1>7. ClaimOK' /\ StaleOK'
    BY <1>1, <1>2, <1>4 DEF IndexInv, ClaimOK, StaleOK
  <1>8. ReadOK'
    BY <1>1 DEF ReadOK, JobStages
  <1>9. FlushOK'
    BY <1>1, <1>3, <1>5 DEF FlushOK, JobStages
  <1>10. TrackedIndex'
    <2>1. \A n \in Note : Stable(n) \/ n \in events \/ n \in pending
      BY DEF Stable, TypeInv, TypeOK
    <2> QED BY <1>1, <1>5, <2>1 DEF TrackedIndex
  <1> QED BY <1>6, <1>7, <1>8, <1>9, <1>10 DEF IndexInv

LEMMA SyncEndIndex == ASSUME TypeInv, IndexInv, SyncDeliver \/ Consume PROVE IndexInv'
  <1>1. /\ UNCHANGED <<file, manifest, jobs, events, claim, seen>>
        /\ pc'["http"] = pc["http"] /\ pc'["cli"] = pc["cli"]
        /\ \/ /\ pc["watcher"] = "deliver" /\ pc'["watcher"] \in {"deliver", "consume"}
              /\ UNCHANGED <<pending, renewed>>
           \/ /\ pc["watcher"] = "consume" /\ pc'["watcher"] = "idle"
              /\ pending' = pending \ (ready \ renewed)
    BY Actors DEF SyncDeliver, Consume, Consumed, Goto, dbVars, localVars, watchVars, TypeInv, TypeOK
  <1>2. pc["http"] = "idle"
    BY <1>1 DEF IndexInv, Control, SyncStages
  <1>3. Control'
    BY <1>1, <1>2 DEF IndexInv, Control, SyncStages, JobStages
  <1>4. ClaimOK' /\ StaleOK'
    BY <1>1, <1>2 DEF IndexInv, ClaimOK, StaleOK, RunningStages
  <1>5. ReadOK'
    BY <1>1 DEF ReadOK, JobStages
  <1>6. FlushOK'
    <2>1. CASE UNCHANGED <<pending, renewed>> /\ pc["watcher"] = "deliver"
               /\ pc'["watcher"] \in {"deliver", "consume"}
      BY <1>1, <2>1 DEF IndexInv, FlushOK, Stable, Indexed, JobStages
    <2>2. CASE pc'["watcher"] = "idle"
      BY <2>2 DEF FlushOK, JobStages
    <2> QED BY <1>1, <2>1, <2>2
  <1>7. TrackedIndex'
    <2>1. \A n \in Note : n \in events \/ n \in pending' \/ Indexed(n)
      <3>1. \A n \in Note : n \notin events /\ n \in pending /\ n \notin pending' => Stable(n)
        BY <1>1 DEF Stable
      <3>2. pc["watcher"] = "consume" => \A n \in Note : Stable(n) => Indexed(n)
        BY DEF IndexInv, FlushOK
      <3> QED BY <1>1, <3>1, <3>2 DEF IndexInv, TrackedIndex
    <2> QED BY <1>1, <2>1 DEF TrackedIndex, Indexed
  <1> QED BY <1>3, <1>4, <1>5, <1>6, <1>7 DEF IndexInv

LEMMA WatcherIndex == ASSUME TypeInv, IndexInv, Watcher PROVE IndexInv'
  BY BeforeScanIndex, SyncReadIndex, SyncPlanIndex, SyncJobsIndex, SyncRescanIndex,
     SyncPruneIndex, SyncEndIndex DEF Watcher

\* A request: the flush is not at work, so that none of its facts is at stake.
LEMMA HttpStepIndex ==
  ASSUME TypeInv, IndexInv, Request \/ \E n \in Note : HttpCreate(n)
  PROVE  IndexInv'
  <1>1. /\ pc'["watcher"] = pc["watcher"] /\ pc'["cli"] = pc["cli"]
        /\ claim'["watcher"] = claim["watcher"] /\ claim'["cli"] = claim["cli"]
        /\ UNCHANGED pending
        /\ pc'["http"] \in {"idle", "write", "enqueue", "deliver"} \cup JobStages
    BY Actors, JobEnds DEF Request, CreateNote, HttpCreate, WriteFile, EnqueueJob, HttpDeliver,
       ProcessJobs, SelectJob, MarkRunning, ReadForIndex, UpsertIndex, FinishJob, Goto, Set,
       dbVars, localVars, watchVars, JobStages, TypeInv, TypeOK
  <1>2. pc["watcher"] \notin SyncStages
    BY DEF Request, CreateNote, HttpCreate, LockFree, WriteFile, EnqueueJob, HttpDeliver,
       ProcessJobs, SelectJob, MarkRunning, ReadForIndex, UpsertIndex, FinishJob, IndexInv, Control
  <1>3. Control'
    BY <1>1, <1>2 DEF IndexInv, Control
  <1>4. ReadOK' /\ FlushOK'
    BY <1>1, <1>2 DEF ReadOK, FlushOK, SyncStages, JobStages
  <1>5. pc["watcher"] \notin {"rescan", "prune"} /\ pc["watcher"] \notin RunningStages
    BY <1>2 DEF SyncStages, JobStages, RunningStages
  <1>6. ASSUME UNCHANGED <<file, manifest, events>> PROVE TrackedIndex'
    BY <1>1, <1>6 DEF IndexInv, TrackedIndex, Indexed
  <1>7. ASSUME NEW n \in Note, HttpCreate(n) PROVE ClaimOK' /\ StaleOK' /\ TrackedIndex'
    <2>1. /\ UNCHANGED <<file, manifest, jobs, events, claim>>
          /\ pc["http"] = "idle" /\ pc'["http"] \in {"write", "enqueue"}
      BY <1>7, Actors DEF HttpCreate, LockFree, Goto, dbVars, watchVars, TypeInv, TypeOK
    <2>2. ClaimOK' /\ StaleOK'
      BY <1>1, <1>5, <2>1 DEF IndexInv, ClaimOK, StaleOK, RunningStages
    <2> QED BY <1>6, <2>1, <2>2
  <1>8. ASSUME NEW c \in Content, WriteFile("http", c) PROVE ClaimOK' /\ StaleOK' /\ TrackedIndex'
    <2>1. PICK n \in note["http"] : file' = [file EXCEPT ![n] = c] /\ Touch(n)
      BY <1>8 DEF WriteFile
    <2>2. n \in Note /\ Up
      BY <2>1, Actors DEF TypeInv, TypeOK, Up, IndexInv, Control, StartStages, SyncStages, JobStages
    <2>3. /\ UNCHANGED <<manifest, jobs, renewed, claim, valid, before, plan>>
          /\ events' = events \cup {n} /\ seen'["watcher"] = seen["watcher"]
          /\ pc["http"] = "write" /\ pc'["http"] = "enqueue"
      BY <1>8, <2>1, <2>2, Actors DEF WriteFile, Touch, Goto, dbVars, TypeInv, TypeOK
    <2>4. ClaimOK' /\ StaleOK'
      BY <1>1, <1>5, <2>3 DEF IndexInv, ClaimOK, StaleOK, RunningStages
    <2>5. TrackedIndex'
      BY <1>1, <2>1, <2>2, <2>3, TouchIndex DEF IndexInv
    <2> QED BY <2>4, <2>5
  <1>9. ASSUME EnqueueJob("http") PROVE ClaimOK' /\ StaleOK' /\ TrackedIndex'
    <2>1. PICK n \in note["http"] : jobs' = Enqueued(n, seen["http"])
      BY <1>9 DEF EnqueueJob
    <2>2. /\ UNCHANGED <<file, manifest, events, claim>>
          /\ pc["http"] = "enqueue" /\ pc'["http"] = "jobs"
      BY <1>9, Actors DEF EnqueueJob, Goto, watchVars, TypeInv, TypeOK
    <2>3. \A m \in Note, c \in Content : jobs'[m][c] = jobs[m][c] \/ jobs'[m][c] = "pending"
      BY <2>1 DEF Enqueued, TypeInv, TypeOK
    <2>4. ClaimOK' /\ StaleOK'
      BY <1>1, <1>5, <2>2, <2>3 DEF IndexInv, ClaimOK, StaleOK, RunningStages
    <2> QED BY <1>6, <2>2, <2>4
  <1>10. ASSUME SelectJob("http") PROVE ClaimOK' /\ StaleOK' /\ TrackedIndex'
    <2>1. /\ UNCHANGED <<file, manifest, events, jobs>> /\ pc["http"] = "jobs"
          /\ pc'["http"] \in {"deliver", "mark"}
          /\ claim'["http"] = claim["http"] \/ \E j : claim'["http"] = {j}
      <3>1. UNCHANGED <<file, manifest, events, jobs>> /\ pc["http"] = "jobs"
        BY <1>10 DEF SelectJob, dbVars, watchVars
      <3>2. CASE Goto("http", "deliver") /\ UNCHANGED claim
        BY <3>1, <3>2, Actors DEF Goto, TypeInv, TypeOK
      <3>3. CASE \E j \in PendingJobs : claim' = [claim EXCEPT !["http"] = {j}]
                                        /\ Goto("http", "mark")
        BY <3>1, <3>3, Actors DEF Goto, TypeInv, TypeOK
      <3> QED BY <1>10, <3>2, <3>3, JobEnds DEF SelectJob
    <2>2. ClaimOK'
      BY <1>1, <1>5, <2>1 DEF IndexInv, ClaimOK, RunningStages, Actor
    <2>3. StaleOK'
      BY <2>1 DEF StaleOK
    <2> QED BY <1>6, <2>1, <2>2, <2>3
  <1>11. ASSUME MarkRunning("http") PROVE ClaimOK' /\ StaleOK' /\ TrackedIndex'
    <2>1. /\ UNCHANGED <<file, manifest, events, claim>>
          /\ pc["http"] = "mark" /\ pc'["http"] = "read"
          /\ \A n \in Note, c \in Content :
               jobs'[n][c] = IF <<n, c>> \in claim["http"] THEN "running" ELSE jobs[n][c]
      BY <1>11, Actors DEF MarkRunning, SetJob, Goto, localVars, watchVars, TypeInv, TypeOK
    <2>2. ClaimOK' /\ StaleOK'
      BY <1>1, <1>5, <2>1 DEF IndexInv, ClaimOK, StaleOK, RunningStages
    <2> QED BY <1>6, <2>1, <2>2
  <1>12. ASSUME ReadForIndex("http") PROVE ClaimOK' /\ StaleOK' /\ TrackedIndex'
    <2>1. PICK j \in claim["http"] :
            /\ seen' = [seen EXCEPT !["http"] = file[j[1]]]
            /\ Goto("http", IF file[j[1]] \in Content THEN "upsert" ELSE "quarantine")
      BY <1>12 DEF ReadForIndex
    <2>2. /\ UNCHANGED <<file, manifest, events, jobs, claim>> /\ pc["http"] = "read"
          /\ seen'["http"] = file[j[1]]
          /\ pc'["http"] \in {"upsert", "quarantine"}
      BY <1>12, <2>1, Actors DEF ReadForIndex, Goto, dbVars, watchVars, TypeInv, TypeOK
    <2>3. \A i \in claim["http"] : i = j
      BY <2>1, Actors DEF IndexInv, ClaimOK
    <2>4. ClaimOK'
      BY <1>1, <1>5, <2>2 DEF IndexInv, ClaimOK, RunningStages
    <2>5. StaleOK'
      BY <2>2, <2>3 DEF StaleOK
    <2> QED BY <1>6, <2>2, <2>4, <2>5
  <1>13. ASSUME UpsertIndex("http") PROVE ClaimOK' /\ StaleOK' /\ TrackedIndex'
    <2>1. PICK j \in claim["http"] : manifest' = [manifest EXCEPT ![j[1]] = seen["http"]]
      BY <1>13 DEF UpsertIndex
    <2>2. j[1] \in Note
      BY <2>1, Actors DEF TypeInv, TypeOK
    <2>3. /\ UNCHANGED <<file, events, jobs, claim>>
          /\ pc["http"] = "upsert" /\ pc'["http"] = "done"
          /\ manifest'[j[1]] = seen["http"]
          /\ \A n \in Note : n # j[1] => manifest'[n] = manifest[n]
      BY <1>13, <2>1, <2>2, Actors DEF UpsertIndex, Goto, localVars, watchVars, TypeInv, TypeOK
    <2>4. /\ seen["http"] \in Content
          /\ seen["http"] = file[j[1]] \/ j[1] \in events \/ j[1] \in pending
      BY <2>1, <2>3, Actors DEF IndexInv, StaleOK, TypeInv
    <2>5. ClaimOK' /\ StaleOK'
      BY <1>1, <1>5, <2>3 DEF IndexInv, ClaimOK, StaleOK, RunningStages
    <2>6. TrackedIndex'
      <3>1. Indexed(j[1])' \/ j[1] \in events \/ j[1] \in pending
        BY <2>2, <2>3, <2>4, ParsedType DEF Indexed
      <3>2. \A n \in Note : n # j[1] => (Indexed(n)' <=> Indexed(n))
        BY <2>3 DEF Indexed
      <3> QED BY <1>1, <2>2, <2>3, <3>1, <3>2 DEF IndexInv, TrackedIndex
    <2> QED BY <2>5, <2>6
  <1>14. ASSUME FinishJob("http") PROVE ClaimOK' /\ StaleOK' /\ TrackedIndex'
    <2>1. PICK st \in {"done", "quarantined"} : SetJob("http", st)
      BY <1>14 DEF FinishJob
    <2>2. /\ UNCHANGED <<file, manifest, events>> /\ claim'["http"] = {}
          /\ pc["http"] \in {"done", "quarantine"} /\ pc'["http"] = "jobs"
          /\ \A n \in Note, c \in Content :
               jobs'[n][c] = IF <<n, c>> \in claim["http"] THEN st ELSE jobs[n][c]
      BY <1>14, <2>1, Actors DEF FinishJob, SetJob, Goto, Set, watchVars, TypeInv, TypeOK
    <2>3. ClaimOK'
      BY <1>1, <1>5, <2>1, <2>2 DEF IndexInv, ClaimOK, RunningStages, Actor
    <2>4. StaleOK'
      BY <2>2 DEF StaleOK
    <2> QED BY <1>6, <2>2, <2>3, <2>4
  <1>15. ASSUME HttpDeliver PROVE ClaimOK' /\ StaleOK' /\ TrackedIndex'
    <2>1. /\ UNCHANGED <<file, manifest, events, jobs, claim>>
          /\ pc["http"] = "deliver" /\ pc'["http"] = "idle"
      BY <1>15, Actors DEF HttpDeliver, Goto, watchVars, TypeInv, TypeOK
    <2>2. ClaimOK' /\ StaleOK'
      BY <1>1, <1>5, <2>1 DEF IndexInv, ClaimOK, StaleOK, RunningStages
    <2> QED BY <1>6, <2>1, <2>2
  <1> QED BY <1>3, <1>4, <1>7, <1>8, <1>9, <1>10, <1>11, <1>12, <1>13, <1>14, <1>15
          DEF Request, CreateNote, ProcessJobs, IndexInv

\* A failure keeps the tables, the events and the pending keys, and none of the
\* jobs it leaves behind is running.
LEMMA FailIndex ==
  ASSUME TypeInv, IndexInv, NEW a \in {"watcher", "http"}, Fail(a), pc[a] \notin RunningStages
  PROVE  IndexInv'
  <1>1. a \in Actor
    BY Actors
  <1>2. /\ UNCHANGED <<file, manifest, jobs, events, pending, renewed>>
        /\ pc'[a] = "idle" /\ claim'[a] = {}
        /\ \A b \in Actor : b # a =>
             /\ pc'[b] = pc[b] /\ claim'[b] = claim[b] /\ seen'[b] = seen[b]
             /\ valid'[b] = valid[b] /\ before'[b] = before[b] /\ plan'[b] = plan[b]
    BY <1>1 DEF Fail, Goto, Forget, dbVars, TypeInv, TypeOK
  <1>3. Control'
    <2>1. /\ pc'["cli"] = pc["cli"]
          /\ pc'["watcher"] = pc["watcher"] \/ pc'["watcher"] = "idle"
          /\ pc'["http"] = pc["http"] \/ pc'["http"] = "idle"
      BY <1>2, Actors
    <2>2. "idle" \notin SyncStages
      BY DEF SyncStages, JobStages
    <2> QED BY <2>1, <2>2 DEF IndexInv, Control
  <1>4. ClaimOK'
    <2>1. \A b \in Actor : \A i, j \in claim'[b] : i = j
      BY <1>2 DEF IndexInv, ClaimOK
    <2>2. \A b \in Actor : pc[b] \in RunningStages => pc'[b] = pc[b] /\ claim'[b] = claim[b]
      BY <1>2
    <2>3. pc'["watcher"] \in {"rescan", "prune"} => pc["watcher"] \in {"rescan", "prune"}
      BY <1>2, Actors
    <2> QED BY <1>2, <2>1, <2>2, <2>3, Actors DEF IndexInv, ClaimOK, PendingJobs
  <1>5. StaleOK'
    BY <1>2, Actors DEF IndexInv, StaleOK
  <1>6. ReadOK' /\ FlushOK'
    <2>1. CASE a = "watcher"
      BY <1>2, <2>1 DEF ReadOK, FlushOK, JobStages
    <2>2. CASE a = "http"
      <3>1. /\ pc'["watcher"] = pc["watcher"] /\ claim'["watcher"] = claim["watcher"]
            /\ seen'["watcher"] = seen["watcher"] /\ valid'["watcher"] = valid["watcher"]
            /\ before'["watcher"] = before["watcher"] /\ plan'["watcher"] = plan["watcher"]
        BY <1>2, <2>2, Actors
      <3>2. Planned(valid["watcher"], before["watcher"])' = Planned(valid["watcher"], before["watcher"])
        BY <1>2, <3>1 DEF Planned
      <3>3. \A n : (Stable(n)' <=> Stable(n)) /\ (Indexed(n)' <=> Indexed(n))
        BY <1>2 DEF Stable, Indexed
      <3>4. ReadOK'
        BY <1>2, <3>1, <3>2, <3>3 DEF IndexInv, ReadOK
      <3>5. FlushOK'
        BY <1>2, <3>1, <3>3 DEF IndexInv, FlushOK
      <3> QED BY <3>4, <3>5
    <2> QED BY <2>1, <2>2
  <1>7. TrackedIndex'
    BY <1>2 DEF IndexInv, TrackedIndex, Indexed
  <1> QED BY <1>3, <1>4, <1>5, <1>6, <1>7 DEF IndexInv

LEMMA IndexNext == ASSUME Indexing PROVE TypeInv /\ IndexInv /\ [Next]_vars => IndexInv'
  <1> SUFFICES ASSUME TypeInv, IndexInv, [Next]_vars PROVE IndexInv'
    OBVIOUS
  <1>1. CASE UNCHANGED vars
    <2>1. UNCHANGED <<file, manifest, jobs, events, pending, renewed, pc, claim, seen, valid,
                      before, plan>>
      BY <1>1 DEF vars
    <2> QED BY <2>1 DEF IndexInv, Control, ClaimOK, StaleOK, ReadOK, FlushOK, TrackedIndex,
                        Stable, Planned, Indexed, PendingJobs
  <1>2. CASE Next
    BY <1>2, IndexingStep, EditIndex, NotifyIndex, WatcherIndex, HttpStepIndex, FailIndex
       DEF IndexInv
  <1> QED BY <1>1, <1>2

\* converge(), sync_filesystem and create_note: a server at rest has the notes
\* directory in its index, whoever writes which notes and wherever a flush or a
\* request fails, unless it fails with a job marked running.
THEOREM QuietIndexed == ASSUME Indexing PROVE Spec => []QuietMeansIndexed
  <1>1. IndexInv => QuietMeansIndexed
    BY DEF IndexInv, TrackedIndex, QuietMeansIndexed, Quiet
  <1> QED BY <1>1, TypeInit, TypeNext, IndexInit, IndexNext, PTL DEF Spec

\* MemoryWatcher.flush: a generation is dropped only when its note is indexed as
\* it stands or has another event on its way.
THEOREM ConsumedIndexes == ASSUME Indexing PROVE Spec => ConsumedMeansIndexed
  <1>1. TypeInv /\ IndexInv /\ TypeInv' /\ IndexInv' /\ [Next]_vars =>
          [\A n \in pending \ pending' : ~Up' \/ n \in events' \/ Indexed(n)']_vars
    BY DEF IndexInv, TrackedIndex, TypeInv, TypeOK
  <1> QED BY <1>1, TypeInit, TypeNext, IndexInit, IndexNext, PTL DEF Spec, ConsumedMeansIndexed
=============================================================================
