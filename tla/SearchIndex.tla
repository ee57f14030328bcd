---------------------------- MODULE SearchIndex ----------------------------
(***************************************************************************)
(* Hybrid search (retrieval.py, QdrantRetrievalProvider), its use by       *)
(* MemoryService.search with the keyword fallback, and the migration       *)
(* between an embedded and a server store (operations.py,                  *)
(* SearchMigrationManager).                                                *)
(*                                                                         *)
(* A rebuild reads all notes (here in one step), names a collection after  *)
(* their text, adds the points that the collection lacks one at a time,    *)
(* and then writes active.json, which both stores share.  Reindexing and   *)
(* searching take no lease; a drill holds it and rebuilds both stores.  A  *)
(* rebuild may be killed anywhere, and is resumed by the next one over the *)
(* same notes.                                                             *)
(*                                                                         *)
(* Searching is by one principal who has written nothing and may read what *)
(* is shared, and every note matches.  The ranking is arbitrary: a store   *)
(* answers with the chunks of any notes, as many as the query asks for,    *)
(* and any of the results that are left may be the best ones.  The chunks  *)
(* of a note, one at least, are one point.  A search leaves nothing        *)
(* behind, so that one by each searcher shows what many would.             *)
(* rebuild.json is only reported.  Two processes may use the embedded      *)
(* store at once; a library that refuses this is one more reason for a     *)
(* step to fail.  The queries of a drill are taken to reach every note.    *)
(***************************************************************************)
EXTENDS Integers, FiniteSets

CONSTANTS
    Note,       \* note ids
    Process,    \* command-line processes that reindex, drill and roll back
    Searcher,   \* threads and processes that search
    None,       \* no file, no collection, nobody: none of the other values
    Limit,      \* the number of results that a search asks for
    Floor,      \* the least number of chunks that a query asks for: 20
    MaxChunks,  \* no note has more chunks
    MaxEdits,   \* bound on the changes of files
    MaxJobs,    \* bound on the jobs begun
    MaxKills    \* bound on the jobs cut short

Mode == {"local", "server"}
Content == [text : 0..MaxEdits, shared : BOOLEAN]
Corpus == [Note -> Content \cup {None}]

ASSUME SearchAssumption ==
    /\ None \notin Process /\ None \notin Content /\ None \notin Corpus /\ None \notin BOOLEAN
    /\ IsFiniteSet(Note)
    /\ Limit \in Nat \ {0} /\ Floor \in Nat \ {0} /\ MaxChunks \in Nat \ {0}
    /\ MaxEdits \in Nat
    /\ MaxJobs \in Nat
    /\ MaxKills \in Nat

VARIABLES
    file,       \* file[n]: the content of the note's file, or None
    made,       \* made[m]: the collections that exist in store m
    points,     \* points[m]: their points, [coll, note, content]
    active,     \* the collection that active.json names, or None
    receipt,    \* migration.json: None, or whether it says activated
    config,     \* provider.json: None or [mode, previous]
    lease,      \* the process that holds the state lease, or None
    job,        \* job[p]: what p is doing, [pc, verb, mode, corpus, ids]
    search,     \* search[s]: what s is searching; history: "whole", whether the
                \* collection was published when the search began, and "seen",
                \* every content that each note has had since then
    published,  \* history: <<m, coll>>: a rebuild in m made coll active
    activated,  \* history: the corpora with which the server was activated
    edits,      \* history: changes of files so far
    jobs,       \* history: jobs begun so far
    kills       \* history: jobs cut short so far

notes == <<file, edits>>
index == <<made, points, active, published>>
migration == <<receipt, config, lease, activated>>
bounds == <<jobs, kills>>
vars == <<notes, index, migration, job, search, bounds>>

NoJob == [pc |-> "idle", verb |-> "none", mode |-> "local",
          corpus |-> [n \in Note |-> None], ids |-> {}]
NoSearch == [pc |-> "idle", mode |-> "keyword", coll |-> None, hits |-> {},
             answer |-> {}, whole |-> FALSE, seen |-> [n \in Note |-> {}]]

\* A collection is named by the fingerprints of the models, which stay the same
\* here, and of the notes; two corpora never share theirs.
Name(corpus) == corpus

\* A chunk is named by a digest of note and text, without the visibility.
PointId(n, content) == <<n, content.text>>

\* _can_read, for the principal who searches.
CanRead(content) == content # None /\ content.shared

\* The filter that the query carries, over what was indexed.
AuthFilter(pt) == pt.content.shared

-----------------------------------------------------------------------------
Init ==
    /\ file = [n \in Note |-> [text |-> 0, shared |-> TRUE]]
    /\ made = [m \in Mode |-> {}]
    /\ points = [m \in Mode |-> {}]
    /\ active = None
    /\ receipt = None
    /\ config = None
    /\ lease = None
    /\ job = [p \in Process |-> NoJob]
    /\ search = [s \in Searcher |-> NoSearch]
    /\ published = {}
    /\ activated = {}
    /\ edits = 0
    /\ jobs = 0
    /\ kills = 0

\* Another text, another visibility, or no file.
Edits(n) ==
    {None, [text |-> edits + 1, shared |-> TRUE]} \cup
    (IF file[n] = None THEN {} ELSE {[file[n] EXCEPT !.shared = ~@]})

\* A note is edited, shared or withdrawn, or its file is removed.
Edit(n, content) ==
    /\ edits < MaxEdits
    /\ content # file[n]
    /\ edits' = edits + 1
    /\ file' = [file EXCEPT ![n] = content]
    /\ search' = [s \in Searcher |-> IF search[s].pc \in {"idle", "done"} THEN search[s]
                                  ELSE [search[s] EXCEPT !.seen[n] = @ \cup {content}]]
    /\ UNCHANGED <<index, migration, job, bounds>>

-----------------------------------------------------------------------------
(***************************************************************************)
(* Rebuilding.                                                             *)
(***************************************************************************)
BeginJob(p) ==
    /\ job[p].pc = "idle"
    /\ jobs < MaxJobs
    /\ jobs' = jobs + 1
    /\ UNCHANGED kills

\* memory search-reindex with an explicit or the configured provider.
Reindex(p, m) ==
    /\ BeginJob(p)
    /\ job' = [job EXCEPT ![p] = [NoJob EXCEPT !.pc = "open", !.verb = "reindex", !.mode = m,
                                               !.corpus = file]]
    /\ UNCHANGED <<notes, index, migration, search>>

\* The drill wants the lease, and notes; it rebuilds the embedded store first.
Drill(p, activate) ==
    /\ BeginJob(p)
    /\ lease = None
    /\ \E n \in Note : file[n] # None
    /\ lease' = p
    /\ job' = [job EXCEPT ![p] = [NoJob EXCEPT !.pc = "open", !.corpus = file,
                                    !.verb = IF activate THEN "activate" ELSE "drill"]]
    /\ UNCHANGED <<notes, index, receipt, config, activated, search>>

\* The process ends; with StateLease gives the lease back.
EndJob(p) ==
    /\ job' = [job EXCEPT ![p] = NoJob]
    /\ lease' = IF lease = p THEN None ELSE lease

OpenCollection(p) ==
    LET j == job[p] IN
    /\ j.pc = "open"
    /\ made' = [made EXCEPT ![j.mode] = @ \cup {Name(j.corpus)}]
    /\ job' = [job EXCEPT ![p].pc = "points"]
    /\ UNCHANGED <<notes, points, active, published, migration, search, bounds>>

\* Faulty: a collection that another rebuild has begun is taken as it is.
MissingUnlessBegun(j) ==
    {n \in Note : /\ j.corpus[n] # None
                  /\ \A pt \in points[j.mode] : pt.coll # Name(j.corpus)}

\* Faulty: a point is named after the text alone.
MissingByText(j) ==
    {n \in Note : /\ j.corpus[n] # None
                  /\ \A pt \in points[j.mode] : ~(/\ pt.coll = Name(j.corpus)
                                                  /\ pt.content.text = j.corpus[n].text)}

\* The notes whose point, which is named after note and text, is missing.
Missing(j) ==
    {n \in Note : /\ j.corpus[n] # None
                  /\ \A pt \in points[j.mode] : ~(/\ pt.coll = Name(j.corpus)
                                                  /\ PointId(pt.note, pt.content) =
                                                       PointId(n, j.corpus[n]))}

IndexPoint(p) ==
    LET j == job[p] IN
    /\ j.pc = "points"
    /\ \E n \in Missing(j) :
         points' = [points EXCEPT ![j.mode] =
                      @ \cup {[coll |-> Name(j.corpus), note |-> n, content |-> j.corpus[n]]}]
    /\ UNCHANGED <<notes, made, active, published, migration, job, search, bounds>>

\* What follows a rebuild: the drill goes on to the server and to the queries.
AfterPublish(j) ==
    IF j.verb = "reindex" THEN "end"
    ELSE IF j.mode = "local" THEN "open" ELSE "compareLocal"

\* active.json is replaced once nothing is missing.
Publish(p) ==
    LET j == job[p] IN
    /\ j.pc = "points" /\ Missing(j) = {}
    /\ active' = Name(j.corpus)
    /\ published' = published \cup {<<j.mode, Name(j.corpus)>>}
    /\ IF AfterPublish(j) = "end" THEN EndJob(p)
       ELSE /\ job' = [job EXCEPT ![p].pc = AfterPublish(j), ![p].mode = "server"]
            /\ UNCHANGED lease
    /\ UNCHANGED <<notes, made, points, receipt, config, activated, search, bounds>>

-----------------------------------------------------------------------------
(***************************************************************************)
(* The queries of the drill, and activation.                               *)
(***************************************************************************)
\* What a store answers to the drill, which looks notes up in its own corpus.
Answered(m, corpus) ==
    {pt.note : pt \in {pt \in points[m] : /\ pt.coll = active
                                          /\ AuthFilter(pt)
                                          /\ corpus[pt.note] = pt.content}}

\* A collection that the store does not have, or another answer, ends it.
CompareLocal(p) ==
    LET j == job[p] IN
    /\ j.pc = "compareLocal"
    /\ IF active \in made["local"]
       THEN /\ job' = [job EXCEPT ![p].pc = "compareServer", ![p].ids = Answered("local", j.corpus)]
            /\ UNCHANGED lease
       ELSE EndJob(p)
    /\ UNCHANGED <<notes, index, receipt, config, activated, search, bounds>>

CompareServer(p) ==
    LET j == job[p] IN
    /\ j.pc = "compareServer"
    /\ IF active \in made["server"] /\ Answered("server", j.corpus) = j.ids
       THEN job' = [job EXCEPT ![p].pc = "receipt"] /\ UNCHANGED lease
       ELSE EndJob(p)
    /\ UNCHANGED <<notes, index, receipt, config, activated, search, bounds>>

WriteReceipt(p) ==
    /\ job[p].pc = "receipt"
    /\ receipt' = (job[p].verb = "activate")
    /\ IF job[p].verb = "activate"
       THEN job' = [job EXCEPT ![p].pc = "activate"] /\ UNCHANGED lease
       ELSE EndJob(p)
    /\ UNCHANGED <<notes, index, config, activated, search, bounds>>

\* A provider that was never configured counts as the embedded one.
Configured == IF config = None THEN "local" ELSE config.mode

Activate(p) ==
    /\ job[p].pc = "activate"
    /\ config' = [mode |-> "server", previous |-> Configured]
    /\ activated' = activated \cup {job[p].corpus}
    /\ EndJob(p)
    /\ UNCHANGED <<notes, index, receipt, search, bounds>>

\* Back to the recorded provider; a second rollback goes to the embedded one.
Rollback(p) ==
    /\ BeginJob(p)
    /\ lease = None
    /\ config' = [mode |-> IF config = None \/ config.previous = None THEN "local"
                           ELSE config.previous,
                  previous |-> None]
    /\ UNCHANGED <<notes, index, receipt, lease, activated, job, search>>

\* The process is killed, or a step raises.
Kill(p) ==
    /\ job[p].pc # "idle"
    /\ kills < MaxKills
    /\ kills' = kills + 1
    /\ EndJob(p)
    /\ UNCHANGED <<notes, index, receipt, config, activated, search, jobs>>

-----------------------------------------------------------------------------
(***************************************************************************)
(* Searching.                                                              *)
(***************************************************************************)
\* Without a provider, without an index: keyword search.
SearchBegin(s, m) ==
    /\ search[s].pc = "idle"
    /\ search' = [search EXCEPT ![s] =
         [NoSearch EXCEPT !.pc = IF m = "keyword" \/ active = None THEN "keyword" ELSE "query",
                          !.mode = IF active = None THEN "keyword" ELSE m,
                          !.coll = IF m = "keyword" THEN None ELSE active,
                          !.whole = <<m, active>> \in published,
                          !.seen = [n \in Note |-> {file[n]}]]]
    /\ UNCHANGED <<notes, index, migration, job, bounds>>

\* Faulty: no more chunks are asked for than results.
CandidateLimitBare == Limit

\* How many chunks a query asks for.
CandidateLimit == IF 3 * Limit > Floor THEN 3 * Limit ELSE Floor

\* The notes that the best chunks of those of ns can be of: all the notes, unless
\* the chunks of fewer are as many as were asked for.
Ranked(ns) ==
    {best \in SUBSET ns : /\ Cardinality(best) <= CandidateLimit
                          /\ best = ns \/ Cardinality(best) * MaxChunks >= CandidateLimit}

\* The points that the filter over what was indexed lets through.
Found(q) == {pt \in points[q.mode] : pt.coll = q.coll /\ AuthFilter(pt)}

\* query_points with the authorization filter.
SearchQuery(s) ==
    LET q == search[s] IN
    /\ q.pc = "query" /\ q.coll \in made[q.mode]
    /\ \E best \in Ranked({pt.note : pt \in Found(q)}) :
         search' = [search EXCEPT ![s].pc = "load",
                                  ![s].hits = {pt \in Found(q) : pt.note \in best}]
    /\ UNCHANGED <<notes, index, migration, job, bounds>>

\* Faulty: the filter over the index is trusted.
KeepsIndexed(q, hit, content) ==
    content # None /\ (q.mode # "keyword" \/ content.shared)

\* The note as it is now: unchanged since it was indexed, and readable.
Keeps(q, hit, content) ==
    /\ CanRead(content)
    /\ q.mode = "keyword" \/ content = hit.content

\* Each candidate is read from its file; what is not kept is passed over.
SearchLoad(s) ==
    LET q == search[s] IN
    /\ q.pc = "load"
    /\ \E hit \in q.hits :
         search' = [search EXCEPT
            ![s].hits = q.hits \ {hit},
            ![s].answer = IF Keeps(q, hit, file[hit.note])
                          THEN q.answer \cup {[note |-> hit.note, content |-> file[hit.note],
                                               matched |-> hit.content]}
                          ELSE q.answer]
    /\ UNCHANGED <<notes, index, migration, job, bounds>>

\* Whatever the provider raises, a missing collection first.
Fallback(s) ==
    /\ search[s].pc \in {"query", "load"} /\ search[s].mode # "keyword"
    /\ search' = [search EXCEPT ![s] = [@ EXCEPT !.pc = "keyword", !.mode = "keyword",
                                          !.coll = None, !.hits = {}, !.answer = {}]]
    /\ UNCHANGED <<notes, index, migration, job, bounds>>

\* The keyword index, which may lag behind the files in any way, can propose
\* any notes, up to the limit; read_note decides.
KeywordQuery(s) ==
    /\ search[s].pc = "keyword"
    /\ \E rows \in SUBSET Note :
         /\ Cardinality(rows) <= Limit
         /\ search' = [search EXCEPT ![s].pc = "load",
                         ![s].hits = {[coll |-> None, note |-> n, content |-> None] : n \in rows}]
    /\ UNCHANGED <<notes, index, migration, job, bounds>>

\* The results to return: all of them, or the best ones up to the limit.
Best(results) ==
    {kept \in SUBSET results : \/ Cardinality(kept) = Limit
                               \/ Cardinality(kept) < Limit /\ kept = results}

SearchEnd(s) ==
    /\ search[s].pc = "load" /\ search[s].hits = {}
    /\ \E kept \in Best(search[s].answer) :
         search' = [search EXCEPT ![s].pc = "done", ![s].answer = kept]
    /\ UNCHANGED <<notes, index, migration, job, bounds>>

Work(p) ==
    \/ OpenCollection(p) \/ IndexPoint(p) \/ Publish(p)
    \/ CompareLocal(p) \/ CompareServer(p) \/ WriteReceipt(p) \/ Activate(p)

Search(s) == SearchQuery(s) \/ SearchLoad(s) \/ Fallback(s) \/ KeywordQuery(s) \/ SearchEnd(s)

Next ==
    \/ \E n \in Note : \E c \in Edits(n) : Edit(n, c)
    \/ \E p \in Process : \/ \E m \in Mode : Reindex(p, m)
                          \/ \E activate \in BOOLEAN : Drill(p, activate)
                          \/ Work(p) \/ Rollback(p) \/ Kill(p)
    \/ \E s \in Searcher : (\E m \in Mode \cup {"keyword"} : SearchBegin(s, m)) \/ Search(s)

Spec == Init /\ [][Next]_vars

-----------------------------------------------------------------------------
Point == [coll : Corpus, note : Note, content : Content]
Complete(m, corpus) ==
    \A n \in Note : corpus[n] # None =>
        \E pt \in points[m] : pt.coll = Name(corpus) /\ pt.note = n /\ pt.content = corpus[n]

TypeOK ==
    /\ file \in Corpus
    /\ made \in [Mode -> SUBSET Corpus]
    /\ \A m \in Mode : points[m] \subseteq Point
    /\ active \in Corpus \cup {None}
    /\ receipt \in BOOLEAN \cup {None}
    /\ config \in [mode : Mode, previous : Mode \cup {None}] \cup {None}
    /\ lease \in Process \cup {None}
    /\ \A p \in Process : lease = p <=> job[p].verb \in {"drill", "activate"}

(***************************************************************************)
(* What searches are told to use is whole.  active.json: when a rebuild    *)
(* made a collection active, every note it was built from has its point    *)
(* there.  provider.json: "Activation is written only after the threshold  *)
(* passes" (docs/OPERATIONS.md:189), with the receipt there and the notes  *)
(* that were compared in both stores, although others reindex beside the   *)
(* drill and replace active.json.  This holds over kills, resumed          *)
(* rebuilds, and two rebuilds at a time.                                   *)
(***************************************************************************)
ActiveIsBuilt ==
    /\ active # None => /\ \E m \in Mode : <<m, active>> \in published
                        /\ \A m \in Mode : <<m, active>> \in published => Complete(m, active)
    /\ \A corpus \in activated, m \in Mode : Complete(m, corpus)
    /\ Configured = "server" => receipt # None /\ activated # {}

(***************************************************************************)
(* "Search results authorize and hydrate each returned note from           *)
(* authoritative Markdown" (docs/MEMORY_API.md:155): what is answered is   *)
(* readable and is what the file held at some time during this search,     *)
(* and a hybrid result was found by that text and no older one.            *)
(***************************************************************************)
AnswersAreCurrent ==
    \A s \in Searcher : \A a \in search[s].answer :
        /\ a.content.shared /\ a.content \in search[s].seen[a.note]
        /\ search[s].mode # "keyword" => a.matched = a.content

\* Of the notes that the filter lets through: those that stayed as they were
\* indexed during the search, those that did not, and those that were answered.
Current(q) == {n \in Note : CanRead(q.coll[n]) /\ q.seen[n] = {q.coll[n]}}
Stale(q) == {n \in Note : CanRead(q.coll[n]) /\ q.seen[n] # {q.coll[n]}}
NotesOf(results) == {a.note : a \in results}

(***************************************************************************)
(* What a hybrid answer may miss.  When a rebuild of the store had         *)
(* published the collection, a readable note that was indexed as it is and *)
(* did not change during the search is missing only from a full answer, or *)
(* because the chunks of answered and of stale notes, which are dropped    *)
(* after the query, could fill the three chunks asked for per result: the  *)
(* query asks for more than the results since it cannot know what is       *)
(* stale.  With at most three chunks a note and nothing stale, an answer   *)
(* that is not full misses nothing.                                        *)
(***************************************************************************)
HybridIsComplete ==
    \A s \in Searcher : LET q == search[s] IN
        q.pc = "done" /\ q.mode # "keyword" /\ q.whole =>
            \/ Current(q) \subseteq NotesOf(q.answer)
            \/ Cardinality(q.answer) = Limit
            \/ Cardinality(NotesOf(q.answer) \cup Stale(q)) * MaxChunks >= 3 * Limit
=============================================================================
