------------------------- MODULE SearchIndexProofs -------------------------
(***************************************************************************)
(* TLAPS proofs about SearchIndex, for any sets of notes, processes and    *)
(* searchers, and any bounds.                                              *)
(*                                                                         *)
(* Points are added and never removed, and a point of a collection has the *)
(* content that its corpus gave the note (PointsGood).  So what Publish    *)
(* finds to be complete stays complete (PublishedWhole), a drill carries   *)
(* what it has published from store to store (JobGood), and a search that  *)
(* began over a published collection has in sight every note that did not  *)
(* change meanwhile, or as many notes as crowd it out (InSightGood): a     *)
(* note leaves the sight of a search only when it is stale.                *)
(***************************************************************************)
EXTENDS SearchIndex, FiniteSetTheorems, TLAPS

Job == [pc : {"idle", "open", "points", "compareLocal", "compareServer", "receipt", "activate"},
        verb : {"none", "reindex", "drill", "activate"}, mode : Mode, corpus : Corpus,
        ids : SUBSET Note]
Hit == [coll : Corpus \cup {None}, note : Note, content : Content \cup {None}]
Result == [note : Note, content : Content, matched : Content \cup {None}]
Query == [pc : {"idle", "query", "load", "keyword", "done"}, mode : Mode \cup {"keyword"},
          coll : Corpus \cup {None}, hits : SUBSET Hit, answer : SUBSET Result,
          whole : BOOLEAN, seen : [Note -> SUBSET (Content \cup {None})]]

TypeInv ==
    /\ TypeOK
    /\ points \in [Mode -> SUBSET Point]
    /\ job \in [Process -> Job]
    /\ search \in [Searcher -> Query]
    /\ published \subseteq Mode \X Corpus
    /\ activated \subseteq Corpus
    /\ edits \in Nat
    /\ \A p \in Process : job[p].pc = "idle" <=> job[p].verb = "none"
    /\ \A s \in Searcher : search[s].pc = "query" => search[s].mode # "keyword"

\* A point has the content that its collection was built from.
PointsGood == \A m \in Mode : \A pt \in points[m] : pt.content = pt.coll[pt.note]

PublishedWhole == \A m \in Mode, c \in Corpus : <<m, c>> \in published => Complete(m, c)

\* A drill has published its corpus in the stores that are behind it.
JobGood(j) ==
    j.verb \in {"drill", "activate"} =>
        /\ j.mode = "server" => <<"local", j.corpus>> \in published
        /\ j.pc \in {"compareLocal", "compareServer", "receipt", "activate"} =>
              <<"local", j.corpus>> \in published /\ <<"server", j.corpus>> \in published
        /\ j.pc = "activate" => receipt # None
JobOK == \A p \in Process : JobGood(job[p]) /\ (job[p].pc \notin {"idle", "open", "points"} =>
                                                  job[p].verb \in {"drill", "activate"})

\* provider.json names the server, now or for a rollback, only after activation.
ConfigGood ==
    config # None /\ (config.mode = "server" \/ (config.previous # None /\ config.previous = "server"))
        => receipt # None /\ activated # {}

BuiltInv ==
    /\ PointsGood /\ PublishedWhole /\ JobOK /\ ConfigGood
    /\ active # None => \E m \in Mode : <<m, active>> \in published
    /\ \A c \in activated, m \in Mode : <<m, c>> \in published

\* The notes that a search still has to look at, and with them the answered ones.
Pending(q) == {n \in Note : /\ CanRead(q.coll[n])
                            /\ \E hit \in q.hits : hit.note = n /\ hit.content = q.coll[n]}
InSight(q) == (NotesOf(q.answer) \cup Pending(q)) \cap Note

\* These notes have enough chunks to fill the query.
Crowd(ns) == Cardinality(ns) * MaxChunks >= 3 * Limit

InSightGood(q) == Current(q) \subseteq InSight(q) \/ Crowd(InSight(q) \cup Stale(q))
AnswerGood(q) == \/ Current(q) \subseteq NotesOf(q.answer)
                 \/ Cardinality(q.answer) = Limit
                 \/ Crowd(NotesOf(q.answer) \cup Stale(q))

\* What a search in progress has seen, answered, and still to look at.
SearchGood(q) ==
    /\ q.pc \notin {"idle", "done"} => \A n \in Note : file[n] \in q.seen[n]
    /\ \A a \in q.answer : /\ a.content.shared /\ a.content \in q.seen[a.note]
                           /\ q.mode # "keyword" => a.matched = a.content
    /\ q.pc = "keyword" => q.mode = "keyword"
    /\ q.pc = "query" /\ q.whole => <<q.mode, q.coll>> \in published /\ q.coll \in Corpus
    /\ q.pc = "load" /\ q.mode # "keyword" /\ q.whole => InSightGood(q)
    /\ q.pc = "done" /\ q.mode # "keyword" /\ q.whole => AnswerGood(q)
SearchOK == \A s \in Searcher : SearchGood(search[s])

-----------------------------------------------------------------------------
(***************************************************************************)
(* Types, and the lease of the drill.                                      *)
(***************************************************************************)
NotesType == file \in Corpus /\ edits \in Nat
IndexType ==
    /\ made \in [Mode -> SUBSET Corpus]
    /\ points \in [Mode -> SUBSET Point]
    /\ active \in Corpus \cup {None}
    /\ published \subseteq Mode \X Corpus
MigrationType ==
    /\ receipt \in BOOLEAN \cup {None}
    /\ config \in [mode : Mode, previous : Mode \cup {None}] \cup {None}
    /\ activated \subseteq Corpus
JobType ==
    /\ lease \in Process \cup {None}
    /\ job \in [Process -> Job]
    /\ \A p \in Process : lease = p <=> job[p].verb \in {"drill", "activate"}
    /\ \A p \in Process : job[p].pc = "idle" <=> job[p].verb = "none"
SearchType ==
    /\ search \in [Searcher -> Query]
    /\ \A s \in Searcher : search[s].pc = "query" => search[s].mode # "keyword"

LEMMA TypeParts ==
    TypeInv <=> NotesType /\ IndexType /\ MigrationType /\ JobType /\ SearchType
BY DEF TypeInv, TypeOK, NotesType, IndexType, MigrationType, JobType, SearchType

LEMMA TypePartsNext ==
    TypeInv' <=> NotesType' /\ IndexType' /\ MigrationType' /\ JobType' /\ SearchType'
BY DEF TypeInv, TypeOK, NotesType, IndexType, MigrationType, JobType, SearchType

LEMMA NoJobType == NoJob \in Job /\ NoJob.pc = "idle" /\ NoJob.verb = "none"
BY DEF NoJob, Job, Corpus, Mode

LEMMA NoSearchType == NoSearch \in Query
BY DEF NoSearch, Query, Corpus, Mode

LEMMA InitTypeInv == Init => TypeInv
<1> SUFFICES ASSUME Init PROVE TypeInv
  OBVIOUS
<1> USE SearchAssumption DEF Init
<1>1. [text |-> 0, shared |-> TRUE] \in Content
  BY DEF Content
<1>2. NotesType
  BY <1>1 DEF NotesType, Corpus
<1>3. IndexType /\ MigrationType
  BY DEF IndexType, MigrationType
<1>4. JobType /\ SearchType
  BY NoJobType, NoSearchType DEF JobType, SearchType, NoSearch
<1> QED
  BY <1>2, <1>3, <1>4, TypeParts

LEMMA EndJobType ==
    ASSUME JobType, NEW p \in Process, EndJob(p)
    PROVE  JobType'
BY NoJobType, SearchAssumption DEF JobType, EndJob

\* A step of a process that keeps its verb.
LEMMA SameVerbType ==
    ASSUME JobType, NEW p \in Process, UNCHANGED lease, job[p].pc # "idle",
           NEW j \in Job, j.verb = job[p].verb, j.pc # "idle", job' = [job EXCEPT ![p] = j]
    PROVE  JobType'
BY DEF JobType

LEMMA EditType ==
    ASSUME TypeInv, NEW n \in Note, NEW c \in Edits(n), Edit(n, c)
    PROVE  TypeInv' /\ c \in Content \cup {None}
<1> USE SearchAssumption
<1>1. NotesType /\ IndexType /\ MigrationType /\ JobType /\ SearchType
  BY TypeParts
<1>2. file \in [Note -> Content \cup {None}]
  BY <1>1 DEF NotesType, Corpus
<1>3. c \in Content \cup {None}
  <2>1. [text |-> edits + 1, shared |-> TRUE] \in Content
    BY <1>1 DEF Edit, Content, NotesType
  <2>2. ASSUME file[n] # None
        PROVE  [file[n] EXCEPT !.shared = ~@] \in Content
    <3>1. file[n] \in Content
      BY <1>2, <2>2
    <3> QED
      BY <3>1 DEF Content
  <2> QED
    BY <2>1, <2>2 DEF Edits
<1>4. NotesType'
  BY <1>1, <1>2, <1>3 DEF Edit, NotesType, Corpus
<1>5. ASSUME NEW s \in Searcher
      PROVE  [search[s] EXCEPT !.seen[n] = @ \cup {c}] \in Query
  <2> DEFINE f == [search[s].seen EXCEPT ![n] = @ \cup {c}]
  <2>1. search[s] \in Query
    BY <1>1 DEF SearchType
  <2>2. f \in [Note -> SUBSET (Content \cup {None})]
    BY <2>1, <1>3 DEF Query
  <2>3. [search[s] EXCEPT !.seen[n] = @ \cup {c}] = [search[s] EXCEPT !.seen = f]
    OBVIOUS
  <2> HIDE DEF f
  <2> QED
    BY <2>1, <2>2, <2>3 DEF Query
<1>6. SearchType'
  <2>1. \A s \in Searcher : /\ search'[s] \in Query
                            /\ search'[s].pc = search[s].pc /\ search'[s].mode = search[s].mode
    BY <1>1, <1>5 DEF Edit, SearchType, Query
  <2> QED
    BY <2>1, <1>1 DEF Edit, SearchType
<1> QED
  BY <1>1, <1>3, <1>4, <1>6, TypePartsNext
  DEF Edit, IndexType, MigrationType, JobType, index, migration

\* A command-line process keeps the types.
LEMMA ProcessType ==
    ASSUME TypeInv, NEW p \in Process,
           \/ \E m \in Mode : Reindex(p, m)
           \/ \E activate \in BOOLEAN : Drill(p, activate)
           \/ Work(p) \/ Rollback(p) \/ Kill(p)
    PROVE  TypeInv'
<1> USE SearchAssumption
<1> DEFINE j == job[p]
<1>1. NotesType /\ IndexType /\ MigrationType /\ JobType /\ SearchType
  BY TypeParts
<1>2. j \in Job /\ j.corpus \in Corpus /\ j.mode \in Mode
  BY <1>1 DEF JobType, Job
<1>3. NotesType' /\ SearchType'
  BY <1>1 DEF Reindex, Drill, Work, Rollback, Kill, OpenCollection, IndexPoint, Publish,
              CompareLocal, CompareServer, WriteReceipt, Activate, notes, NotesType, SearchType
<1>4. ASSUME NEW m \in Mode, Reindex(p, m)
      PROVE  TypeInv'
  <2> DEFINE k == [NoJob EXCEPT !.pc = "open", !.verb = "reindex", !.mode = m, !.corpus = file]
  <2>1. k \in Job /\ k.verb = "reindex" /\ k.pc = "open"
    BY <1>1, NoJobType DEF NoJob, Job, NotesType
  <2>2. JobType'
    BY <2>1, <1>1, <1>4 DEF Reindex, BeginJob, JobType, migration
  <2> QED
    BY <2>2, <1>1, <1>3, <1>4, TypePartsNext DEF Reindex, IndexType, MigrationType, index, migration
<1>5. ASSUME NEW activate \in BOOLEAN, Drill(p, activate)
      PROVE  TypeInv'
  <2> DEFINE k == [NoJob EXCEPT !.pc = "open", !.corpus = file,
                                !.verb = IF activate THEN "activate" ELSE "drill"]
  <2>1. k \in Job /\ k.verb \in {"drill", "activate"} /\ k.pc = "open"
    BY <1>1, NoJobType DEF NoJob, Job, NotesType
  <2>2. JobType'
    BY <2>1, <1>1, <1>5 DEF Drill, BeginJob, JobType
  <2> QED
    BY <2>2, <1>1, <1>3, <1>5, TypePartsNext DEF Drill, IndexType, MigrationType, index
<1>6. CASE OpenCollection(p)
  <2>1. [j EXCEPT !.pc = "points"] \in Job
    BY <1>2 DEF Job
  <2>2. JobType'
    BY <2>1, <1>1, <1>2, <1>6, SameVerbType DEF OpenCollection, Job, migration
  <2>3. IndexType'
    BY <1>1, <1>2, <1>6 DEF OpenCollection, IndexType, Name
  <2> QED
    BY <2>2, <2>3, <1>1, <1>3, <1>6, TypePartsNext DEF OpenCollection, MigrationType, migration
<1>7. CASE IndexPoint(p)
  <2>1. PICK n \in Missing(j) : points' = [points EXCEPT ![j.mode] =
             @ \cup {[coll |-> Name(j.corpus), note |-> n, content |-> j.corpus[n]]}]
    BY <1>7 DEF IndexPoint
  <2>2. n \in Note /\ j.corpus[n] \in Content
    BY <1>2 DEF Missing, Corpus
  <2>3. [coll |-> Name(j.corpus), note |-> n, content |-> j.corpus[n]] \in Point
    BY <2>2, <1>2 DEF Point, Name
  <2>4. points' \in [Mode -> SUBSET Point]
    BY <2>1, <2>3, <1>1, <1>2 DEF IndexType
  <2> QED
    BY <2>4, <1>1, <1>3, <1>7, TypePartsNext
    DEF IndexPoint, IndexType, MigrationType, JobType, migration
<1>8. CASE Publish(p)
  <2>1. IndexType'
    BY <1>1, <1>2, <1>8 DEF Publish, IndexType, Name
  <2>2. CASE EndJob(p)
    BY <2>1, <2>2, <1>1, <1>3, <1>8, EndJobType, TypePartsNext DEF Publish, MigrationType
  <2>3. CASE /\ AfterPublish(j) # "end" /\ UNCHANGED lease
             /\ job' = [job EXCEPT ![p].pc = AfterPublish(j), ![p].mode = "server"]
    <3>1. AfterPublish(j) \in {"open", "compareLocal"}
      BY <2>3 DEF AfterPublish
    <3>2. [j EXCEPT !.pc = AfterPublish(j), !.mode = "server"] \in Job
      BY <3>1, <1>2 DEF Job, Mode
    <3>3. job' = [job EXCEPT ![p] = [j EXCEPT !.pc = AfterPublish(j), !.mode = "server"]]
      BY <2>3, <1>1, <1>2 DEF JobType
    <3>4. /\ [j EXCEPT !.pc = AfterPublish(j), !.mode = "server"].pc = AfterPublish(j)
          /\ [j EXCEPT !.pc = AfterPublish(j), !.mode = "server"].verb = j.verb
      BY <1>2 DEF Job
    <3>5. JobType'
      BY <3>1, <3>2, <3>3, <3>4, <2>3, <1>1, <1>8, SameVerbType DEF Publish
    <3> QED
      BY <3>5, <2>1, <1>1, <1>3, <1>8, TypePartsNext DEF Publish, MigrationType
  <2> QED
    BY <2>2, <2>3, <1>8 DEF Publish
<1>9. CASE CompareLocal(p)
  <2>1. ASSUME UNCHANGED lease,
               job' = [job EXCEPT ![p].pc = "compareServer", ![p].ids = Answered("local", j.corpus)]
        PROVE  JobType'
    <3>1. Answered("local", j.corpus) \subseteq Note
      BY <1>1 DEF Answered, IndexType, Point, Mode
    <3>2. [j EXCEPT !.pc = "compareServer", !.ids = Answered("local", j.corpus)] \in Job
      BY <3>1, <1>2 DEF Job
    <3>3. job' = [job EXCEPT ![p] = [j EXCEPT !.pc = "compareServer",
                                             !.ids = Answered("local", j.corpus)]]
      BY <2>1, <1>1, <1>2 DEF JobType
    <3>4. /\ [j EXCEPT !.pc = "compareServer", !.ids = Answered("local", j.corpus)].pc = "compareServer"
          /\ [j EXCEPT !.pc = "compareServer", !.ids = Answered("local", j.corpus)].verb = j.verb
      BY <1>2 DEF Job
    <3> QED
      BY <3>2, <3>3, <3>4, <2>1, <1>1, <1>9, SameVerbType DEF CompareLocal
  <2>2. JobType'
    BY <2>1, <1>1, <1>9, EndJobType DEF CompareLocal
  <2> QED
    BY <2>2, <1>1, <1>3, <1>9, TypePartsNext DEF CompareLocal, IndexType, MigrationType, index
<1>10. ASSUME NEW pc \in {"receipt", "activate"}, job' = [job EXCEPT ![p].pc = pc],
              UNCHANGED lease, j.pc # "idle"
       PROVE  JobType'
  <2>1. [j EXCEPT !.pc = pc] \in Job
    BY <1>2 DEF Job
  <2> QED
    BY <2>1, <1>1, <1>2, <1>10, SameVerbType DEF Job
<1>11. CASE CompareServer(p)
  <2>1. JobType'
    BY <1>1, <1>10, <1>11, EndJobType DEF CompareServer
  <2> QED
    BY <2>1, <1>1, <1>3, <1>11, TypePartsNext DEF CompareServer, IndexType, MigrationType, index
<1>12. CASE WriteReceipt(p)
  <2>1. JobType'
    BY <1>1, <1>10, <1>12, EndJobType DEF WriteReceipt
  <2>2. receipt' \in BOOLEAN
    BY <1>12 DEF WriteReceipt
  <2> QED
    BY <2>1, <2>2, <1>1, <1>3, <1>12, TypePartsNext DEF WriteReceipt, IndexType, MigrationType, index
<1>13. CASE Activate(p)
  <2>1. Configured \in Mode
    BY <1>1 DEF Configured, MigrationType, Mode
  <2>2. MigrationType'
    BY <2>1, <1>1, <1>2, <1>13 DEF Activate, MigrationType, Mode
  <2> QED
    BY <2>2, <1>1, <1>3, <1>13, EndJobType, TypePartsNext DEF Activate, IndexType, index
<1>14. CASE Rollback(p)
  <2>1. MigrationType'
    BY <1>1, <1>14 DEF Rollback, MigrationType, Mode
  <2> QED
    BY <2>1, <1>1, <1>3, <1>14, TypePartsNext DEF Rollback, IndexType, JobType, index
<1>15. CASE Kill(p)
  BY <1>1, <1>3, <1>15, EndJobType, TypePartsNext DEF Kill, IndexType, MigrationType, index
<1> QED
  BY <1>4, <1>5, <1>6, <1>7, <1>8, <1>9, <1>11, <1>12, <1>13, <1>14, <1>15 DEF Work

\* A search keeps the types, and touches nothing but itself.
LEMMA SearcherType ==
    ASSUME TypeInv, NEW s \in Searcher,
           (\E m \in Mode \cup {"keyword"} : SearchBegin(s, m)) \/ Search(s)
    PROVE  TypeInv' /\ UNCHANGED <<notes, index, migration, job, bounds>>
<1> USE SearchAssumption
<1> DEFINE q == search[s]
<1>1. NotesType /\ IndexType /\ MigrationType /\ JobType /\ SearchType
  BY TypeParts
<1>2. q \in Query
  BY <1>1 DEF SearchType
<1>3. UNCHANGED <<notes, index, migration, job, bounds>>
  BY DEF SearchBegin, Search, SearchQuery, SearchLoad, Fallback, KeywordQuery, SearchEnd
<1>4. ASSUME NEW r \in Query, r.pc = "query" => r.mode # "keyword", search' = [search EXCEPT ![s] = r]
      PROVE  SearchType'
  BY <1>1, <1>4 DEF SearchType
<1>5. ASSUME NEW m \in Mode \cup {"keyword"}, SearchBegin(s, m)
      PROVE  SearchType'
  <2>1. PICK pc \in {"keyword", "query"}, mode \in Mode \cup {"keyword"}, coll \in Corpus \cup {None},
             whole \in BOOLEAN, seen \in [Note -> SUBSET (Content \cup {None})] :
          /\ search' = [search EXCEPT ![s] = [NoSearch EXCEPT !.pc = pc, !.mode = mode, !.coll = coll,
                                                             !.whole = whole, !.seen = seen]]
          /\ pc = "query" => mode # "keyword"
    <3> DEFINE pc == IF m = "keyword" \/ active = None THEN "keyword" ELSE "query"
               mode == IF active = None THEN "keyword" ELSE m
               coll == IF m = "keyword" THEN None ELSE active
               whole == <<m, active>> \in published
               seen == [n \in Note |-> {file[n]}]
    <3>1. seen \in [Note -> SUBSET (Content \cup {None})]
      BY <1>1 DEF NotesType, Corpus
    <3>2. /\ pc \in {"keyword", "query"} /\ mode \in Mode \cup {"keyword"}
          /\ coll \in Corpus \cup {None} /\ whole \in BOOLEAN
          /\ pc = "query" => mode # "keyword"
      BY <1>1 DEF IndexType
    <3>3. search' = [search EXCEPT ![s] = [NoSearch EXCEPT !.pc = pc, !.mode = mode, !.coll = coll,
                                                           !.whole = whole, !.seen = seen]]
      BY <1>5, ZenonT(60) DEF SearchBegin
    <3> HIDE DEF pc, mode, coll, whole, seen
    <3> QED
      BY <3>1, <3>2, <3>3
  <2> DEFINE r == [NoSearch EXCEPT !.pc = pc, !.mode = mode, !.coll = coll, !.whole = whole,
                                   !.seen = seen]
  <2>2. r \in Query /\ r.pc = pc /\ r.mode = mode
    BY NoSearchType DEF Query
  <2> QED
    BY <2>1, <2>2, <1>4
<1>6. ASSUME SearchQuery(s)
      PROVE  SearchType'
  <2> DEFINE found == Found(q)
  <2>0. PICK best : search' = [search EXCEPT ![s].pc = "load",
                                             ![s].hits = {pt \in found : pt.note \in best}]
    BY <1>2, <1>6 DEF SearchQuery
  <2> USE DEF Found
  <2> DEFINE h == {pt \in found : pt.note \in best}
             r == [q EXCEPT !.pc = "load", !.hits = h]
  <2>1. q.mode \in Mode => h \subseteq Hit
    BY <1>1 DEF IndexType, Point, Hit
  <2>2. q.mode \in Mode
    BY <1>1, <1>2, <1>6 DEF SearchQuery, SearchType, Query
  <2>3. r \in Query /\ r.pc = "load"
    BY <2>1, <2>2, <1>2 DEF Query
  <2> HIDE DEF h
  <2>4. search' = [search EXCEPT ![s] = r]
    BY <2>0, <1>1, <1>2 DEF SearchType, h
  <2> QED
    BY <2>3, <2>4, <1>4
<1>7. ASSUME SearchLoad(s)
      PROVE  SearchType'
  <2>1. PICK hit \in q.hits :
          search' = [search EXCEPT
            ![s].hits = q.hits \ {hit},
            ![s].answer = IF Keeps(q, hit, file[hit.note])
                          THEN q.answer \cup {[note |-> hit.note, content |-> file[hit.note],
                                               matched |-> hit.content]}
                          ELSE q.answer]
    BY <1>7 DEF SearchLoad
  <2> DEFINE a == IF Keeps(q, hit, file[hit.note])
                  THEN q.answer \cup {[note |-> hit.note, content |-> file[hit.note],
                                       matched |-> hit.content]}
                  ELSE q.answer
             r == [q EXCEPT !.hits = q.hits \ {hit}, !.answer = a]
  <2>2. hit \in Hit
    BY <1>2 DEF Query
  <2>3. file[hit.note] \in Content \cup {None}
    BY <2>2, <1>1 DEF Hit, NotesType, Corpus
  <2>4. a \subseteq Result
    BY <2>2, <2>3, <1>2 DEF Keeps, CanRead, Hit, Result, Query
  <2>5. r \in Query /\ r.pc = "load"
    BY <2>4, <1>2, <1>7 DEF Query, SearchLoad
  <2>6. search' = [search EXCEPT ![s] = r]
    BY <2>1, <1>1, <1>2 DEF SearchType
  <2> QED
    BY <2>5, <2>6, <1>4
<1>8. ASSUME Fallback(s)
      PROVE  SearchType'
  <2> DEFINE r == [q EXCEPT !.pc = "keyword", !.mode = "keyword",
                            !.coll = None, !.hits = {}, !.answer = {}]
  <2>1. r \in Query /\ r.pc = "keyword"
    BY <1>2 DEF Query
  <2>2. search' = [search EXCEPT ![s] = r]
    BY <1>8 DEF Fallback
  <2> QED
    BY <2>1, <2>2, <1>4
<1>9. ASSUME KeywordQuery(s)
      PROVE  SearchType'
  <2>0. PICK rows \in SUBSET Note :
          search' = [search EXCEPT ![s].pc = "load",
                      ![s].hits = {[coll |-> None, note |-> n, content |-> None] : n \in rows}]
    BY <1>9 DEF KeywordQuery
  <2> DEFINE h == {[coll |-> None, note |-> n, content |-> None] : n \in rows}
             r == [q EXCEPT !.pc = "load", !.hits = h]
  <2>1. h \subseteq Hit
    BY DEF Hit
  <2>2. r \in Query /\ r.pc = "load"
    BY <2>1, <1>2 DEF Query
  <2> HIDE DEF h
  <2>3. search' = [search EXCEPT ![s] = r]
    BY <2>0, <1>1, <1>2 DEF SearchType, h
  <2> QED
    BY <2>2, <2>3, <1>4
<1>10. ASSUME SearchEnd(s)
      PROVE  SearchType'
  <2>0. PICK kept \in SUBSET q.answer :
          search' = [search EXCEPT ![s].pc = "done", ![s].answer = kept]
    BY <1>2, <1>10 DEF SearchEnd, Best
  <2> DEFINE r == [q EXCEPT !.pc = "done", !.answer = kept]
  <2>1. r \in Query /\ r.pc = "done"
    BY <1>2 DEF Query
  <2>2. search' = [search EXCEPT ![s] = r]
    BY <2>0, <1>1, <1>2 DEF SearchType
  <2> QED
    BY <2>1, <2>2, <1>4
<1>11. SearchType'
  BY <1>5, <1>6, <1>7, <1>8, <1>9, <1>10 DEF Search
<1> QED
  BY <1>1, <1>3, <1>11, TypePartsNext
  DEF NotesType, IndexType, MigrationType, JobType, notes, index, migration

LEMMA TypeStep == TypeInv /\ [Next]_vars => TypeInv'
<1> SUFFICES ASSUME TypeInv, [Next]_vars PROVE TypeInv'
  OBVIOUS
<1>1. CASE UNCHANGED vars
  BY <1>1, TypeParts, TypePartsNext
  DEF NotesType, IndexType, MigrationType, JobType, SearchType, vars, notes, index, migration
<1> QED
  BY <1>1, EditType, ProcessType, SearcherType DEF Next

\* The types hold, and the lease belongs to exactly the process that drills.
THEOREM SearchTypeCorrect == Spec => []TypeInv
BY InitTypeInv, TypeStep, PTL DEF Spec

-----------------------------------------------------------------------------
(***************************************************************************)
(* What is published is whole.                                             *)
(***************************************************************************)
\* Points, publications, activations and the receipt are never taken back.
Grows ==
    /\ \A m \in Mode : points[m] \subseteq points'[m]
    /\ published \subseteq published'
    /\ activated \subseteq activated'
    /\ receipt # None => receipt' # None

LEMMA CompleteStays ==
    ASSUME Grows, NEW m \in Mode, NEW c, Complete(m, c)
    PROVE  Complete(m, c)'
BY DEF Grows, Complete

\* With nothing missing, every note of the corpus has its point.
LEMMA NothingMissing ==
    ASSUME TypeInv, PointsGood, NEW j \in Job, Missing(j) = {}
    PROVE  Complete(j.mode, j.corpus)
<1> SUFFICES ASSUME NEW n \in Note, j.corpus[n] # None
             PROVE  \E pt \in points[j.mode] :
                       pt.coll = j.corpus /\ pt.note = n /\ pt.content = j.corpus[n]
  BY DEF Complete, Name
<1>1. PICK pt \in points[j.mode] :
        pt.coll = j.corpus /\ PointId(pt.note, pt.content) = PointId(n, j.corpus[n])
  BY DEF Missing, Name
<1>2. pt.note = n
  BY <1>1 DEF PointId
<1>3. pt.content = pt.coll[pt.note]
  BY DEF PointsGood, Job
<1> QED
  BY <1>1, <1>2, <1>3

\* The jobs of the other processes stay good.
LEMMA JobsStay ==
    ASSUME Grows, JobOK, NEW p \in Process, \A q \in Process \ {p} : job'[q] = job[q],
           JobGood(job[p])',
           job'[p].pc \notin {"idle", "open", "points"} => job'[p].verb \in {"drill", "activate"}
    PROVE  JobOK'
BY DEF Grows, JobOK, JobGood

LEMMA BuiltStays ==
    ASSUME BuiltInv, UNCHANGED <<points, active, published, receipt, config, activated, job>>
    PROVE  BuiltInv'
BY DEF BuiltInv, PointsGood, PublishedWhole, Complete, JobOK, JobGood, ConfigGood

\* One step of a process.
LEMMA ProcessBuilt ==
    ASSUME TypeInv, TypeInv', BuiltInv, NEW p \in Process,
           \/ \E m \in Mode : Reindex(p, m)
           \/ \E activate \in BOOLEAN : Drill(p, activate)
           \/ Work(p) \/ Rollback(p) \/ Kill(p)
    PROVE  BuiltInv'
<1> USE SearchAssumption
<1>1. PICK j \in Job : j = job[p]
  BY TypeParts DEF JobType
<1>2. /\ IndexType /\ MigrationType /\ JobType
      /\ IndexType' /\ MigrationType' /\ JobType'
  BY TypeParts, TypePartsNext
<1>3. /\ PointsGood /\ PublishedWhole /\ JobOK /\ ConfigGood /\ JobGood(j)
      /\ active # None => \E m \in Mode : <<m, active>> \in published
      /\ \A c \in activated, m \in Mode : <<m, c>> \in published
      /\ j.pc \notin {"idle", "open", "points"} => j.verb \in {"drill", "activate"}
  BY <1>1 DEF BuiltInv, JobOK
<1>4. ASSUME EndJob(p), Grows
      PROVE  JobOK'
  BY <1>2, <1>3, <1>4, NoJobType, JobsStay DEF EndJob, JobType, JobGood
<1>5. ASSUME UNCHANGED <<points, active, published, receipt, config, activated>>, JobOK'
      PROVE  BuiltInv'
  BY <1>3, <1>5 DEF BuiltInv, PointsGood, PublishedWhole, Complete, ConfigGood
<1>6. ASSUME UNCHANGED <<points, published, receipt, activated>>
      PROVE  Grows
  BY <1>6 DEF Grows
<1>7. ASSUME NEW k \in Job, job' = [job EXCEPT ![p] = k], Grows, JobGood(k)',
             k.pc \notin {"idle", "open", "points"} => k.verb \in {"drill", "activate"}
      PROVE  JobOK'
  <2>1. job'[p] = k /\ \A q \in Process \ {p} : job'[q] = job[q]
    BY <1>2, <1>7 DEF JobType
  <2>2. JobGood(job[p])'
    BY <2>1, <1>7 DEF JobGood
  <2> QED
    BY <2>1, <2>2, <1>3, <1>7, JobsStay
<1>8. ASSUME NEW m \in Mode, Reindex(p, m)
      PROVE  BuiltInv'
  <2>1. PICK k \in Job : /\ k.pc = "open" /\ k.verb = "reindex"
                         /\ job' = [job EXCEPT ![p] = k]
    <3>1. [NoJob EXCEPT !.pc = "open", !.verb = "reindex", !.mode = m, !.corpus = file] \in Job
      BY NoJobType, TypeParts DEF NoJob, Job, NotesType
    <3> QED
      BY <3>1, <1>8, NoJobType DEF Reindex, NoJob
  <2>2. JobGood(k)'
    BY <2>1 DEF JobGood
  <2> QED
    BY <2>1, <2>2, <1>5, <1>6, <1>7, <1>8 DEF Reindex, index, migration
<1>9. ASSUME NEW activate \in BOOLEAN, Drill(p, activate)
      PROVE  BuiltInv'
  <2>1. PICK k \in Job : /\ k.pc = "open" /\ k.mode = "local"
                         /\ job' = [job EXCEPT ![p] = k]
    <3> DEFINE verb == IF activate THEN "activate" ELSE "drill"
    <3>1. [NoJob EXCEPT !.pc = "open", !.corpus = file, !.verb = verb] \in Job
      BY NoJobType, TypeParts DEF NoJob, Job, NotesType
    <3>2. job' = [job EXCEPT ![p] = [NoJob EXCEPT !.pc = "open", !.corpus = file, !.verb = verb]]
      BY <1>9 DEF Drill
    <3> HIDE DEF verb
    <3> QED
      BY <3>1, <3>2 DEF NoJob
  <2>2. JobGood(k)'
    BY <2>1 DEF JobGood
  <2> QED
    BY <2>1, <2>2, <1>5, <1>6, <1>7, <1>9 DEF Drill, index
<1>10. ASSUME OpenCollection(p)
       PROVE  BuiltInv'
  <2>1. PICK k \in Job : /\ k.pc = "points" /\ k.verb = j.verb /\ k.mode = j.mode /\ k.corpus = j.corpus
                         /\ job' = [job EXCEPT ![p] = k]
    <3>1. [j EXCEPT !.pc = "points"] \in Job
      BY DEF Job
    <3> QED
      BY <3>1, <1>1, <1>2, <1>10 DEF OpenCollection, JobType, Job
  <2>2. JobGood(k)'
    BY <2>1, <1>3, <1>10 DEF JobGood, OpenCollection
  <2> QED
    BY <2>1, <2>2, <1>5, <1>6, <1>7, <1>10 DEF OpenCollection, migration
<1>11. ASSUME IndexPoint(p)
       PROVE  BuiltInv'
  <2>1. PICK n \in Missing(j) : points' = [points EXCEPT ![j.mode] =
             @ \cup {[coll |-> Name(j.corpus), note |-> n, content |-> j.corpus[n]]}]
    BY <1>1, <1>11 DEF IndexPoint
  <2>2. UNCHANGED <<active, published, receipt, config, activated, job>>
    BY <1>11 DEF IndexPoint, migration
  <2>3. Grows
    BY <2>1, <2>2, <1>2 DEF Grows, IndexType
  <2>4. PointsGood'
    BY <2>1, <1>2, <1>3 DEF PointsGood, Name, IndexType
  <2>5. PublishedWhole'
    BY <2>2, <2>3, <1>3, CompleteStays DEF PublishedWhole
  <2> QED
    BY <2>2, <2>4, <2>5, <1>3 DEF BuiltInv, JobOK, JobGood, ConfigGood
<1>12. ASSUME Publish(p)
       PROVE  BuiltInv'
  <2>1. /\ UNCHANGED <<points, receipt, config, activated>>
        /\ active' = j.corpus
        /\ published' = published \cup {<<j.mode, j.corpus>>}
        /\ j.pc = "points"
    BY <1>1, <1>12 DEF Publish, Name
  <2>2. Grows
    BY <2>1 DEF Grows
  <2>3. Complete(j.mode, j.corpus)
    BY <1>1, <1>3, <1>12, NothingMissing DEF Publish
  <2>4. PointsGood' /\ PublishedWhole'
    BY <2>1, <2>2, <2>3, <1>3, CompleteStays DEF PointsGood, PublishedWhole
  <2>5. \E m \in Mode : <<m, active'>> \in published'
    BY <2>1 DEF Job
  <2>6. JobOK'
    <3>1. CASE AfterPublish(j) = "end"
      BY <3>1, <2>2, <1>1, <1>4, <1>12 DEF Publish
    <3>2. CASE AfterPublish(j) # "end"
      <4>1. /\ AfterPublish(j) = IF j.mode = "local" THEN "open" ELSE "compareLocal"
            /\ j.verb \in {"drill", "activate"}
        <5>1. j.verb # "reindex"
          BY <3>2 DEF AfterPublish
        <5>2. j.verb # "none" /\ j.verb \in {"none", "reindex", "drill", "activate"}
          BY <2>1, <1>1, <1>2 DEF Job, JobType
        <5> QED
          BY <5>1, <5>2 DEF AfterPublish
      <4>2. PICK k \in Job : /\ k.pc = AfterPublish(j) /\ k.verb = j.verb /\ k.mode = "server"
                             /\ k.corpus = j.corpus /\ job' = [job EXCEPT ![p] = k]
        <5>1. PICK pc \in {"open", "compareLocal"} : pc = AfterPublish(j)
          BY <4>1
        <5>2. [j EXCEPT !.pc = pc, !.mode = "server"] \in Job
          BY DEF Job, Mode
        <5>3. job' = [job EXCEPT ![p] = [j EXCEPT !.pc = pc, !.mode = "server"]]
          BY <5>1, <3>2, <1>1, <1>2, <1>12 DEF Publish, JobType
        <5> QED
          BY <5>1, <5>2, <5>3 DEF Job
      <4>3. <<"local", j.corpus>> \in published' /\ (j.mode # "local" => <<"server", j.corpus>> \in published')
        BY <4>1, <2>1, <1>3 DEF JobGood, Job, Mode
      <4>4. JobGood(k)'
        BY <4>1, <4>2, <4>3 DEF JobGood
      <4> QED
        BY <4>1, <4>2, <4>4, <2>2, <1>7
    <3> QED
      BY <3>1, <3>2
  <2> QED
    BY <2>1, <2>4, <2>5, <2>6, <1>3 DEF BuiltInv, ConfigGood
<1>13. ASSUME CompareLocal(p) \/ CompareServer(p)
       PROVE  BuiltInv'
  <2>1. UNCHANGED <<points, active, published, receipt, config, activated>>
        /\ j.pc \in {"compareLocal", "compareServer"}
    BY <1>1, <1>13 DEF CompareLocal, CompareServer, index
  <2>2. CASE EndJob(p)
    BY <2>1, <2>2, <1>4, <1>5, <1>6
  <2>3. CASE ~EndJob(p)
    <3>1. PICK pc \in {"compareServer", "receipt"}, ids \in SUBSET Note :
             job' = [job EXCEPT ![p] = [j EXCEPT !.pc = pc, !.ids = ids]]
      <4>1. CASE CompareLocal(p)
        <5>1. Answered("local", j.corpus) \subseteq Note
          BY <1>2 DEF Answered, IndexType, Point, Mode
        <5>2. job' = [job EXCEPT ![p] = [j EXCEPT !.pc = "compareServer",
                                                  !.ids = Answered("local", j.corpus)]]
          BY <4>1, <2>3, <1>1, <1>2 DEF CompareLocal, JobType
        <5> QED
          BY <5>1, <5>2
      <4>2. CASE CompareServer(p)
        <5>1. job' = [job EXCEPT ![p] = [j EXCEPT !.pc = "receipt"]]
          BY <4>2, <2>3, <1>1, <1>2 DEF CompareServer, JobType
        <5>2. j.ids \in SUBSET Note /\ [j EXCEPT !.pc = "receipt"] = [j EXCEPT !.pc = "receipt", !.ids = j.ids]
          BY DEF Job
        <5> QED
          BY <5>1, <5>2
      <4> QED
        BY <4>1, <4>2, <1>13
    <3> DEFINE k == [j EXCEPT !.pc = pc, !.ids = ids]
    <3>2. k \in Job /\ k.pc = pc /\ k.verb = j.verb /\ k.mode = j.mode /\ k.corpus = j.corpus
      BY DEF Job
    <3>3. j.verb \in {"drill", "activate"}
      BY <2>1, <1>3
    <3> HIDE DEF k
    <3>4. PICK x \in Job : x = k
      BY <3>2
    <3>5. JobGood(x)'
      BY <3>2, <3>3, <3>4, <2>1, <1>3 DEF JobGood
    <3>6. job' = [job EXCEPT ![p] = x]
      BY <3>1, <3>4 DEF k
    <3>7. JobOK'
      BY <3>2, <3>3, <3>4, <3>5, <3>6, <2>1, <1>6, <1>7
    <3> QED
      BY <3>7, <2>1, <1>5
  <2> QED
    BY <2>2, <2>3
<1>14. ASSUME WriteReceipt(p)
       PROVE  BuiltInv'
  <2>1. /\ UNCHANGED <<points, active, published, config, activated>>
        /\ j.pc = "receipt" /\ receipt' \in BOOLEAN /\ receipt' # None
    BY <1>1, <1>14 DEF WriteReceipt, index
  <2>2. Grows
    BY <2>1 DEF Grows
  <2>3. JobOK'
    <3>1. CASE j.verb = "activate"
      <4>1. PICK k \in Job : /\ k.pc = "activate" /\ k.verb = j.verb /\ k.mode = j.mode
                             /\ k.corpus = j.corpus /\ job' = [job EXCEPT ![p] = k]
        <5>1. [j EXCEPT !.pc = "activate"] \in Job
          BY DEF Job
        <5> QED
          BY <5>1, <3>1, <1>1, <1>2, <1>14 DEF WriteReceipt, JobType, Job
      <4>2. JobGood(k)'
        BY <4>1, <3>1, <2>1, <1>3 DEF JobGood
      <4> QED
        BY <4>1, <4>2, <3>1, <2>2, <1>7
    <3>2. CASE j.verb # "activate"
      BY <3>2, <2>2, <1>1, <1>4, <1>14 DEF WriteReceipt
    <3> QED
      BY <3>1, <3>2
  <2> QED
    BY <2>1, <2>2, <2>3, <1>3, CompleteStays DEF BuiltInv, PointsGood, PublishedWhole, ConfigGood
<1>15. ASSUME Activate(p)
       PROVE  BuiltInv'
  <2>1. /\ UNCHANGED <<points, active, published, receipt>>
        /\ activated' = activated \cup {j.corpus} /\ EndJob(p) /\ j.pc = "activate"
    BY <1>1, <1>15 DEF Activate, index
  <2>2. Grows
    BY <2>1 DEF Grows
  <2>3. /\ receipt # None
        /\ \A m \in Mode : <<m, j.corpus>> \in published
    BY <2>1, <1>3 DEF JobGood, Mode
  <2>4. JobOK' /\ ConfigGood'
    BY <2>1, <2>2, <2>3, <1>4 DEF ConfigGood
  <2> QED
    BY <2>1, <2>2, <2>3, <2>4, <1>3, CompleteStays DEF BuiltInv, PointsGood, PublishedWhole
<1>16. ASSUME Rollback(p)
       PROVE  BuiltInv'
  <2>1. /\ UNCHANGED <<points, active, published, receipt, activated, job>>
        /\ config' = [mode |-> IF config = None \/ config.previous = None THEN "local"
                               ELSE config.previous,
                      previous |-> None]
    BY <1>16 DEF Rollback, index
  <2>2. ConfigGood'
    BY <2>1, <1>2, <1>3 DEF ConfigGood, MigrationType
  <2> QED
    BY <2>1, <2>2, <1>3 DEF BuiltInv, PointsGood, PublishedWhole, Complete, JobOK, JobGood
<1>17. ASSUME Kill(p)
       PROVE  BuiltInv'
  BY <1>4, <1>5, <1>6, <1>17 DEF Kill, index
<1> QED
  BY <1>8, <1>9, <1>10, <1>11, <1>12, <1>13, <1>14, <1>15, <1>16, <1>17 DEF Work

LEMMA BuiltStep == TypeInv /\ TypeInv' /\ BuiltInv /\ [Next]_vars => BuiltInv'
<1> SUFFICES ASSUME TypeInv, TypeInv', BuiltInv, [Next]_vars PROVE BuiltInv'
  OBVIOUS
<1>1. ASSUME UNCHANGED <<index, migration, job>> PROVE BuiltInv'
  BY <1>1, BuiltStays DEF index, migration
<1>2. ASSUME NEW s \in Searcher,
             (\E m \in Mode \cup {"keyword"} : SearchBegin(s, m)) \/ Search(s)
      PROVE  BuiltInv'
  BY <1>1, <1>2, SearcherType
<1>3. CASE \E n \in Note : \E c \in Edits(n) : Edit(n, c)
  BY <1>1, <1>3 DEF Edit
<1>4. CASE UNCHANGED vars
  BY <1>1, <1>4 DEF vars
<1> QED
  BY <1>2, <1>3, <1>4, ProcessBuilt DEF Next

LEMMA BuiltCorrect == Spec => [](TypeInv /\ BuiltInv)
<1>1. Init => BuiltInv
  <2> SUFFICES ASSUME Init PROVE BuiltInv
    OBVIOUS
  <2>1. JobOK
    BY NoJobType DEF Init, JobOK, JobGood
  <2> QED
    BY <2>1 DEF Init, BuiltInv, PointsGood, PublishedWhole, ConfigGood
<1> QED
  BY <1>1, BuiltStep, SearchTypeCorrect, PTL DEF Spec

\* What active.json names was whole when it was published and still is, and
\* provider.json names the server only after a drill found its notes in both
\* stores, whatever rebuilds ran beside each other, were killed or resumed.
THEOREM ActiveBuilt == Spec => []ActiveIsBuilt
<1>1. TypeInv /\ BuiltInv => ActiveIsBuilt
  <2> SUFFICES ASSUME TypeInv, BuiltInv PROVE ActiveIsBuilt
    OBVIOUS
  <2>1. active \in Corpus \cup {None} /\ activated \subseteq Corpus
    BY DEF TypeInv, TypeOK
  <2>2. active # None => /\ \E m \in Mode : <<m, active>> \in published
                         /\ \A m \in Mode : <<m, active>> \in published => Complete(m, active)
    BY <2>1 DEF BuiltInv, PublishedWhole
  <2>3. \A corpus \in activated, m \in Mode : Complete(m, corpus)
    BY <2>1 DEF BuiltInv, PublishedWhole
  <2>4. Configured = "server" => receipt # None /\ activated # {}
    BY DEF BuiltInv, ConfigGood, Configured
  <2> QED
    BY <2>2, <2>3, <2>4 DEF ActiveIsBuilt
<1> QED
  BY <1>1, BuiltCorrect, PTL

-----------------------------------------------------------------------------
(***************************************************************************)
(* What is answered.                                                       *)
(***************************************************************************)
LEMMA SearchStays ==
    ASSUME NEW q, SearchGood(q), file' = file, published \subseteq published'
    PROVE  SearchGood(q)'
BY DEF SearchGood

\* More notes have more chunks.
LEMMA CrowdGrows ==
    ASSUME NEW S \in SUBSET Note, NEW T \in SUBSET S, Crowd(T)
    PROVE  Crowd(S)
<1>1. IsFiniteSet(S)
  BY SearchAssumption, FS_Subset
<1>2. Cardinality(S) \in Nat /\ Cardinality(T) \in Nat /\ Cardinality(T) <= Cardinality(S)
  BY <1>1, FS_Subset, FS_CardinalityType
<1>3. \A a, b, c \in Nat : a <= b => a * c <= b * c
  OBVIOUS
<1>4. MaxChunks \in Nat /\ Limit \in Nat
  BY SearchAssumption
<1>5. Cardinality(T) * MaxChunks <= Cardinality(S) * MaxChunks
  BY <1>2, <1>3, <1>4
<1>6. Cardinality(T) * MaxChunks \in Nat /\ Cardinality(S) * MaxChunks \in Nat /\ 3 * Limit \in Nat
  BY <1>2, <1>4
<1> QED
  BY <1>5, <1>6 DEF Crowd

\* A note may leave the sight of a search when it is stale, and a note may become
\* stale.
LEMMA SightStep ==
    ASSUME NEW q, NEW r, InSightGood(q), Current(r) \subseteq Current(q),
           Stale(q) \subseteq Stale(r), InSight(q) \subseteq InSight(r) \cup Stale(r)
    PROVE  InSightGood(r)
<1>1. Current(r) \cap Stale(r) = {}
  BY DEF Current, Stale
<1>2. CASE Current(q) \subseteq InSight(q)
  BY <1>1, <1>2 DEF InSightGood
<1>3. CASE Crowd(InSight(q) \cup Stale(q))
  <2>1. InSight(r) \cup Stale(r) \subseteq Note
    BY DEF InSight, Stale
  <2>2. InSight(q) \cup Stale(q) \subseteq InSight(r) \cup Stale(r)
    OBVIOUS
  <2>3. Crowd(InSight(r) \cup Stale(r))
    BY <2>1, <2>2, <1>3, CrowdGrows
  <2> QED
    BY <2>3 DEF InSightGood
<1> QED
  BY <1>2, <1>3 DEF InSightGood

\* An edit is seen by every search in progress, and what a search takes for
\* unchanged was so before.
LEMMA EditSearch ==
    ASSUME TypeInv, SearchOK, NEW n \in Note, NEW c \in Edits(n), Edit(n, c)
    PROVE  SearchOK'
<1> SUFFICES ASSUME NEW s \in Searcher PROVE SearchGood(search[s])'
  BY DEF SearchOK
<1>1. PICK q \in Query : q = search[s] /\ SearchGood(q)
  BY TypeParts DEF SearchType, SearchOK
<1>2. /\ file \in [Note -> Content \cup {None}] /\ file' = [file EXCEPT ![n] = c]
      /\ published' = published
  BY TypeParts DEF NotesType, Corpus, Edit, index
<1>3. CASE q.pc \in {"idle", "done"}
  <2>1. search'[s] = q
    BY <1>1, <1>3 DEF Edit
  <2> QED
    BY <2>1, <1>1, <1>2, <1>3 DEF SearchGood
<1>4. CASE q.pc \notin {"idle", "done"}
  <2>1. search'[s] = [q EXCEPT !.seen[n] = @ \cup {c}]
    BY <1>1, <1>4 DEF Edit
  <2>2. PICK r : r = search'[s]
    OBVIOUS
  <2>3. /\ r.pc = q.pc /\ r.mode = q.mode /\ r.coll = q.coll /\ r.hits = q.hits
        /\ r.answer = q.answer /\ r.whole = q.whole
    BY <2>1, <2>2 DEF Query
  <2>4. /\ r.seen[n] = q.seen[n] \cup {c}
        /\ \A x \in Note \ {n} : r.seen[x] = q.seen[x]
    BY <2>1, <2>2 DEF Query
  <2>5. \A x \in Note : file[x] \in q.seen[x]
    BY <1>1, <1>4 DEF SearchGood
  <2>6. \A x \in Note : file'[x] \in r.seen[x]
    BY <2>4, <2>5, <1>2
  <2>7. \A a \in r.answer : /\ a.content.shared /\ a.content \in r.seen[a.note]
                            /\ r.mode # "keyword" => a.matched = a.content
    BY <2>3, <2>4, <1>1 DEF SearchGood, Query, Result
  <2>8. \A x \in Note : r.seen[x] = {r.coll[x]} => q.seen[x] = {q.coll[x]}
    BY <2>3, <2>4, <2>5
  <2>9. InSightGood(q) => InSightGood(r)
    <3>1. Current(r) \subseteq Current(q) /\ Stale(q) \subseteq Stale(r)
      BY <2>3, <2>8 DEF Current, Stale
    <3>2. InSight(q) = InSight(r)
      BY <2>3 DEF InSight, Pending
    <3> QED
      BY <3>1, <3>2, SightStep
  <2> QED
    BY <2>2, <2>3, <2>6, <2>7, <2>9, <1>1, <1>2, <1>4 DEF SearchGood
<1> QED
  BY <1>3, <1>4

\* One step of a search.
LEMMA SearcherSearch ==
    ASSUME TypeInv, TypeInv', BuiltInv, SearchOK, NEW s \in Searcher,
           (\E m \in Mode \cup {"keyword"} : SearchBegin(s, m)) \/ Search(s)
    PROVE  SearchOK'
<1> USE SearchAssumption
<1>1. PICK q \in Query : q = search[s] /\ SearchGood(q)
  BY TypeParts DEF SearchType, SearchOK
<1>2. UNCHANGED <<file, points, made, active, published>>
  BY SearcherType DEF notes, index
<1>3. NotesType /\ IndexType /\ SearchType
  BY TypeParts
<1>4. ASSUME NEW r, search' = [search EXCEPT ![s] = r], SearchGood(r)
      PROVE  SearchOK'
  <2>1. search'[s] = r /\ \A x \in Searcher \ {s} : search'[x] = search[x]
    BY <1>3, <1>4 DEF SearchType
  <2>2. SearchGood(search[s])'
    BY <2>1, <1>2, <1>4 DEF SearchGood
  <2>3. ASSUME NEW x \in Searcher \ {s} PROVE SearchGood(search[x])'
    BY <2>1, <1>2 DEF SearchGood, SearchOK
  <2> QED
    BY <2>2, <2>3 DEF SearchOK
<1>5. ASSUME NEW m \in Mode \cup {"keyword"}, SearchBegin(s, m)
      PROVE  SearchOK'
  <2> DEFINE r == search'[s]
  <2>1. /\ r.pc = IF m = "keyword" \/ active = None THEN "keyword" ELSE "query"
        /\ r.mode = IF active = None THEN "keyword" ELSE m
        /\ r.coll = IF m = "keyword" THEN None ELSE active
        /\ r.whole = (<<m, active>> \in published)
        /\ r.seen = [n \in Note |-> {file[n]}]
        /\ r.answer = {}
    BY <1>3, <1>5 DEF SearchBegin, SearchType, NoSearch
  <2>2. PICK t : t = r
    OBVIOUS
  <2>3. search' = [search EXCEPT ![s] = t]
    BY <2>2, <1>3, <1>5, ZenonT(60) DEF SearchBegin, SearchType
  <2>4. t.pc = "query" /\ t.whole => <<t.mode, t.coll>> \in published /\ t.coll \in Corpus
    BY <2>1, <2>2, <1>3 DEF IndexType
  <2>5. SearchGood(t)
    BY <2>1, <2>2, <2>4 DEF SearchGood
  <2> QED
    BY <2>3, <2>5, <1>4
<1>6. ASSUME SearchQuery(s)
      PROVE  SearchOK'
  <2> DEFINE found == Found(q)
             ns == {pt.note : pt \in found}
  <2>1. PICK best \in Ranked(ns) :
          search' = [search EXCEPT ![s].pc = "load",
                                   ![s].hits = {pt \in found : pt.note \in best}]
    BY <1>1, <1>6 DEF SearchQuery
  <2> USE DEF Found
  <2> DEFINE h == {pt \in found : pt.note \in best}
  <2>2. PICK r : r = [q EXCEPT !.pc = "load", !.hits = h]
    OBVIOUS
  <2>3. /\ r.pc = "load" /\ r.hits = h /\ r.mode = q.mode /\ r.coll = q.coll /\ r.whole = q.whole
        /\ r.seen = q.seen /\ r.answer = q.answer /\ q.pc = "query" /\ q.mode \in Mode
    BY <2>2, <1>1, <1>3, <1>6 DEF Query, SearchQuery, SearchType
  <2>4. ASSUME NEW n \in Note, q.whole, CanRead(q.coll[n])
        PROVE  n \in ns
    <3>1. <<q.mode, q.coll>> \in published /\ q.coll \in Corpus
      BY <2>3, <2>4, <1>1 DEF SearchGood
    <3>2. Complete(q.mode, q.coll)
      BY <3>1, <2>3 DEF BuiltInv, PublishedWhole
    <3>3. PICK pt \in points[q.mode] : pt.coll = q.coll /\ pt.note = n /\ pt.content = q.coll[n]
      BY <3>2, <2>4 DEF Complete, Name, CanRead
    <3>4. pt \in found
      BY <3>3, <2>4 DEF AuthFilter, CanRead
    <3> QED
      BY <3>3, <3>4
  <2>5. \A n \in ns : /\ n \in Note /\ CanRead(q.coll[n])
                      /\ \E pt \in found : pt.note = n /\ pt.content = q.coll[n]
    <3> SUFFICES ASSUME NEW pt \in found
                 PROVE  pt.note \in Note /\ pt.content = q.coll[pt.note] /\ CanRead(pt.content)
      OBVIOUS
    <3>1. pt \in Point
      BY <2>3, <1>3 DEF IndexType
    <3>2. pt.content = q.coll[pt.note]
      BY <2>3 DEF BuiltInv, PointsGood
    <3> QED
      BY <3>1, <3>2 DEF Point, CanRead, AuthFilter
  <2>6. best \subseteq ns /\ (best = ns \/ Cardinality(best) * MaxChunks >= CandidateLimit)
    BY DEF Ranked
  <2> HIDE DEF ns
  <2>7. \A n \in best : \E hit \in h : hit.note = n /\ hit.content = q.coll[n]
    BY <2>5, <2>6
  <2> HIDE DEF h, found
  <2>8. best \subseteq InSight(r) /\ best \subseteq Note
    BY <2>3, <2>5, <2>6, <2>7 DEF InSight, Pending
  <2>9. q.whole => InSightGood(r)
    <3>1. CASE q.whole /\ best = ns
      BY <3>1, <2>3, <2>4, <2>8 DEF InSightGood, Current
    <3>2. CASE Cardinality(best) * MaxChunks >= CandidateLimit
      <4>1. Cardinality(best) \in Nat
        BY <2>8, FS_Subset, FS_CardinalityType
      <4>2. Cardinality(best) * MaxChunks \in Nat
        BY <4>1
      <4>3. Crowd(best)
        BY <3>2, <4>2 DEF Crowd, CandidateLimit
      <4>4. InSight(r) \cup Stale(r) \subseteq Note
        BY DEF InSight, Stale
      <4>5. Crowd(InSight(r) \cup Stale(r))
        BY <4>3, <4>4, <2>8, CrowdGrows
      <4> QED
        BY <4>5 DEF InSightGood
    <3> QED
      BY <3>1, <3>2, <2>6
  <2>10. SearchGood(r)
    BY <2>3, <2>9, <1>1 DEF SearchGood
  <2>11. search' = [search EXCEPT ![s] = r]
    BY <2>1, <2>2, <1>1, <1>3 DEF SearchType, h
  <2> QED
    BY <2>10, <2>11, <1>4
<1>7. ASSUME SearchLoad(s)
      PROVE  SearchOK'
  <2>1. PICK hit \in q.hits :
          search' = [search EXCEPT
            ![s].hits = q.hits \ {hit},
            ![s].answer = IF Keeps(q, hit, file[hit.note])
                          THEN q.answer \cup {[note |-> hit.note, content |-> file[hit.note],
                                               matched |-> hit.content]}
                          ELSE q.answer]
    BY <1>1, <1>7 DEF SearchLoad
  <2> DEFINE new == [note |-> hit.note, content |-> file[hit.note], matched |-> hit.content]
             a == IF Keeps(q, hit, file[hit.note]) THEN q.answer \cup {new} ELSE q.answer
  <2>2. PICK r : r = [q EXCEPT !.hits = q.hits \ {hit}, !.answer = a]
    OBVIOUS
  <2>3. /\ r.pc = q.pc /\ r.hits = q.hits \ {hit} /\ r.mode = q.mode /\ r.coll = q.coll
        /\ r.whole = q.whole /\ r.seen = q.seen /\ r.answer = a /\ q.pc = "load"
    BY <2>2, <1>1, <1>7 DEF Query, SearchLoad
  <2>4. search' = [search EXCEPT ![s] = r]
    BY <2>1, <2>2, <1>1, <1>3 DEF SearchType
  <2>5. hit.note \in Note /\ \A x \in Note : file[x] \in q.seen[x]
    BY <2>3, <1>1 DEF Query, Hit, SearchGood
  <2>6. \A x \in a : /\ x.content.shared /\ x.content \in q.seen[x.note]
                     /\ q.mode # "keyword" => x.matched = x.content
    <3>1. \A x \in q.answer : /\ x.content.shared /\ x.content \in q.seen[x.note]
                              /\ q.mode # "keyword" => x.matched = x.content
      BY <1>1 DEF SearchGood
    <3>2. Keeps(q, hit, file[hit.note]) =>
             /\ new.content.shared /\ new.content \in q.seen[new.note]
             /\ q.mode # "keyword" => new.matched = new.content
      BY <2>5 DEF Keeps, CanRead
    <3> QED
      BY <3>1, <3>2
  <2>7. ASSUME q.mode # "keyword", InSightGood(q)
        PROVE  InSightGood(r)
    <3>1. Current(r) = Current(q) /\ Stale(r) = Stale(q)
      BY <2>3 DEF Current, Stale
    <3>2. NotesOf(q.answer) \subseteq NotesOf(r.answer)
      BY <2>3 DEF NotesOf
    <3>3. ASSUME NEW n \in Pending(q)
          PROVE  n \in InSight(r) \cup Stale(r)
      <4>1. n \in Note /\ CanRead(q.coll[n])
        BY <3>3 DEF Pending
      <4>2. CASE \E x \in q.hits \ {hit} : x.note = n /\ x.content = q.coll[n]
        BY <4>1, <4>2, <2>3 DEF InSight, Pending
      <4>3. CASE hit.note = n /\ hit.content = q.coll[n]
        <5>1. CASE Keeps(q, hit, file[hit.note])
          <6>1. new \in a /\ new.note = n
            BY <5>1, <4>3
          <6>2. n \in NotesOf(r.answer)
            BY <6>1, <2>3 DEF NotesOf
          <6> QED
            BY <6>2, <4>1 DEF InSight
        <5>2. CASE ~Keeps(q, hit, file[hit.note])
          <6>1. file[n] # q.coll[n]
            BY <5>2, <4>1, <4>3 DEF Keeps
          <6>2. q.seen[n] # {q.coll[n]}
            BY <6>1, <4>1, <2>5
          <6> QED
            BY <6>2, <4>1, <3>1 DEF Stale
        <5> QED
          BY <5>1, <5>2
      <4> QED
        BY <4>2, <4>3, <3>3 DEF Pending
    <3>4. InSight(q) \subseteq InSight(r) \cup Stale(r)
      BY <3>2, <3>3 DEF InSight
    <3> QED
      BY <3>1, <3>4, <2>7, SightStep
  <2> HIDE DEF a
  <2>8. SearchGood(r)
    BY <2>3, <2>5, <2>6, <2>7, <1>1 DEF SearchGood
  <2> QED
    BY <2>4, <2>8, <1>4
<1>8. ASSUME Fallback(s)
      PROVE  SearchOK'
  <2>1. PICK r : r = [q EXCEPT !.pc = "keyword", !.mode = "keyword",
                               !.coll = None, !.hits = {}, !.answer = {}]
    OBVIOUS
  <2>2. r.pc = "keyword" /\ r.mode = "keyword" /\ r.answer = {} /\ r.seen = q.seen
    BY <2>1 DEF Query
  <2>3. search' = [search EXCEPT ![s] = r]
    BY <2>1, <1>1, <1>8 DEF Fallback
  <2>4. SearchGood(r)
    BY <2>2, <1>1, <1>8 DEF SearchGood, Fallback
  <2> QED
    BY <2>3, <2>4, <1>4
<1>9. ASSUME KeywordQuery(s)
      PROVE  SearchOK'
  <2>0. PICK rows \in SUBSET Note :
          search' = [search EXCEPT ![s].pc = "load",
                      ![s].hits = {[coll |-> None, note |-> n, content |-> None] : n \in rows}]
    BY <1>9 DEF KeywordQuery
  <2> DEFINE h == {[coll |-> None, note |-> n, content |-> None] : n \in rows}
  <2>1. PICK r : r = [q EXCEPT !.pc = "load", !.hits = h]
    OBVIOUS
  <2> HIDE DEF h
  <2>2. r.pc = "load" /\ r.mode = q.mode /\ r.answer = q.answer /\ r.seen = q.seen
    BY <2>1 DEF Query
  <2>3. search' = [search EXCEPT ![s] = r]
    BY <2>0, <2>1, <1>1, <1>3 DEF SearchType, h
  <2>4. SearchGood(r)
    BY <2>2, <1>1, <1>9 DEF SearchGood, KeywordQuery
  <2> QED
    BY <2>3, <2>4, <1>4
<1>10. ASSUME SearchEnd(s)
       PROVE  SearchOK'
  <2>1. PICK kept \in Best(q.answer) :
          search' = [search EXCEPT ![s].pc = "done", ![s].answer = kept]
    BY <1>1, <1>10 DEF SearchEnd
  <2>2. PICK r : r = [q EXCEPT !.pc = "done", !.answer = kept]
    OBVIOUS
  <2>3. /\ r.pc = "done" /\ r.mode = q.mode /\ r.coll = q.coll /\ r.whole = q.whole
        /\ r.seen = q.seen /\ r.answer = kept /\ q.pc = "load" /\ q.hits = {}
    BY <2>2, <1>1, <1>10 DEF Query, SearchEnd
  <2>4. search' = [search EXCEPT ![s] = r]
    BY <2>1, <2>2, <1>1, <1>3 DEF SearchType
  <2>5. kept \subseteq q.answer /\ (Cardinality(kept) = Limit \/ kept = q.answer)
    BY DEF Best
  <2>6. ASSUME kept = q.answer, InSightGood(q)
        PROVE  AnswerGood(r)
    <3>1. Current(r) = Current(q) /\ Stale(r) = Stale(q)
      BY <2>3 DEF Current, Stale
    <3>2. NotesOf(r.answer) \subseteq Note
      BY <2>3, <2>6, <1>1 DEF NotesOf, Query, Result
    <3>3. InSight(q) = NotesOf(r.answer)
      BY <2>3, <2>6, <3>2 DEF InSight, Pending
    <3> QED
      BY <2>6, <3>1, <3>3 DEF InSightGood, AnswerGood
  <2>7. q.mode # "keyword" /\ q.whole => AnswerGood(r)
    BY <2>3, <2>5, <2>6, <1>1 DEF SearchGood, AnswerGood
  <2>8. \A x \in kept : /\ x.content.shared /\ x.content \in q.seen[x.note]
                        /\ q.mode # "keyword" => x.matched = x.content
    BY <2>5, <1>1 DEF SearchGood
  <2>9. SearchGood(r)
    BY <2>3, <2>7, <2>8 DEF SearchGood
  <2> QED
    BY <2>4, <2>9, <1>4
<1> QED
  BY <1>5, <1>6, <1>7, <1>8, <1>9, <1>10 DEF Search

LEMMA SearchStep == TypeInv /\ TypeInv' /\ BuiltInv /\ SearchOK /\ [Next]_vars => SearchOK'
<1> SUFFICES ASSUME TypeInv, TypeInv', BuiltInv, SearchOK, [Next]_vars PROVE SearchOK'
  OBVIOUS
<1>1. ASSUME UNCHANGED <<file, search>>, published \subseteq published'
      PROVE  SearchOK'
  BY <1>1 DEF SearchOK, SearchGood
<1>2. ASSUME NEW p \in Process,
             \/ \E m \in Mode : Reindex(p, m)
             \/ \E activate \in BOOLEAN : Drill(p, activate)
             \/ Work(p) \/ Rollback(p) \/ Kill(p)
      PROVE  SearchOK'
  BY <1>1, <1>2
  DEF Reindex, Drill, Work, Rollback, Kill, OpenCollection, IndexPoint, Publish, CompareLocal,
      CompareServer, WriteReceipt, Activate, notes, index
<1>3. CASE UNCHANGED vars
  BY <1>1, <1>3 DEF vars, notes, index
<1> QED
  BY <1>2, <1>3, EditSearch, SearcherSearch DEF Next

LEMMA SearchCorrect == Spec => []SearchOK
<1>1. Init => SearchOK
  BY DEF Init, SearchOK, SearchGood, NoSearch
<1> QED
  BY <1>1, SearchStep, BuiltCorrect, PTL DEF Spec

\* What a search answers is readable and is what the file held at some time
\* during the search: read_note and the comparison of the text decide, not the
\* index, however stale it is.
THEOREM AnswersCurrent == Spec => []AnswersAreCurrent
<1>1. SearchOK => AnswersAreCurrent
  BY DEF SearchOK, SearchGood, AnswersAreCurrent
<1> QED
  BY <1>1, SearchCorrect, PTL

\* A hybrid answer misses a readable note that did not change and is indexed as
\* it is, in a collection published in that store, only when it is full, or when
\* answered and stale notes have the chunks that fill the query.
THEOREM HybridComplete == Spec => []HybridIsComplete
<1>1. SearchOK => HybridIsComplete
  BY DEF SearchOK, SearchGood, HybridIsComplete, AnswerGood, Crowd
<1> QED
  BY <1>1, SearchCorrect, PTL
=============================================================================
