--------------------------- MODULE Subscriptions ---------------------------
(***************************************************************************)
(* The resource subscriptions of the MCP sidecar (mcp_server.py,           *)
(* ResourceSubscriptions).  One event loop runs the poller and the         *)
(* client's requests, so that a step lasts from one await to the next:     *)
(* other tasks run while a fetch or a notification is awaited.  run_stdio  *)
(* serves one session, so _sessions has at most one item; the poller keeps *)
(* its reference to an item that has been taken out of the table.          *)
(*                                                                         *)
(* A fingerprint is as good as the view it is taken of (SHA-256), and is   *)
(* represented by it.                                                      *)
(***************************************************************************)
EXTENDS Integers, FiniteSets

CONSTANTS
    Uri,          \* the resources: memory://note/<id>, memory://wakeup/<agent>
    MaxView,      \* the HTTP views of a resource are 0..MaxView
    Recurs,       \* whether a view may return to what it was before
    MaxRequests,  \* bound on the subscribe and unsubscribe requests
    MaxFaults     \* bound on hub outages, and on errors that end the session

ASSUME SubscriptionsAssumption ==
    /\ MaxView \in Nat
    /\ Recurs \in BOOLEAN
    /\ MaxRequests \in Nat
    /\ MaxFaults \in Nat

View == 0..MaxView
None == -1   \* no fingerprint, no view fetched yet

VARIABLES
    view,      \* view[u]: what the hub answers for u now
    up,        \* whether the hub answers
    attached,  \* whether _sessions holds the session's item
    prints,    \* item.resources: view or None by resource
    subs,      \* subscribe requests that await their fetch: <<uri, fetched>>
    poll,      \* the poller: [pc, held, todo, uri, previous, current]
    wanted,    \* history: u was subscribed, and neither unsubscribed nor ended since
    seen,      \* history: the view the client has, which it reads when it is told
    requests,  \* history: requests made so far
    faults     \* history: faults so far

vars == <<view, up, attached, prints, subs, poll, wanted, seen, requests, faults>>
env == <<view, up, faults>>

Prints == [Uri -> View \cup {None}]
NoPrints == [u \in Uri |-> None]

Sleeping == [pc |-> "sleep", held |-> FALSE, todo |-> {}, uri |-> None,
             previous |-> None, current |-> None]
Poll == [pc : {"sleep", "next", "fetch", "send", "store", "stopped"}, held : BOOLEAN,
         todo : SUBSET (Uri \X View), uri : Uri \cup {None},
         previous : View \cup {None}, current : View \cup {None}]

-----------------------------------------------------------------------------
Init ==
    /\ view = [u \in Uri |-> 0]
    /\ up = TRUE
    /\ attached = FALSE
    /\ prints = NoPrints
    /\ subs = {}
    /\ poll = Sleeping
    /\ wanted = [u \in Uri |-> FALSE]
    /\ seen = NoPrints
    /\ requests = 0
    /\ faults = 0

(***************************************************************************)
(* The hub, seen through fetch_resource: views change, and for a while it  *)
(* may not answer.                                                         *)
(***************************************************************************)
Change(u) ==
    /\ \E v \in View \ {view[u]} :
        /\ Recurs \/ v = view[u] + 1
        /\ view' = [view EXCEPT ![u] = v]
    /\ UNCHANGED <<up, attached, prints, subs, poll, wanted, seen, requests, faults>>

Outage ==
    /\ up
    /\ faults < MaxFaults
    /\ up' = FALSE
    /\ faults' = faults + 1
    /\ UNCHANGED <<view, attached, prints, subs, poll, wanted, seen, requests>>

HubBack ==
    /\ ~up
    /\ up' = TRUE
    /\ UNCHANGED <<view, attached, prints, subs, poll, wanted, seen, requests, faults>>

(***************************************************************************)
(* subscribe: the view is fetched in a worker thread; when the loop        *)
(* resumes the request, the item is found or created and the fingerprint   *)
(* set.  A failed fetch answers an error and changes nothing.              *)
(***************************************************************************)
SubscribeRequest(u) ==
    /\ requests < MaxRequests
    /\ <<u, None>> \notin subs
    /\ poll.pc # "stopped"
    /\ requests' = requests + 1
    /\ subs' = subs \cup {<<u, None>>}
    /\ UNCHANGED <<env, attached, prints, poll, wanted, seen>>

SubscribeFetch(u) ==
    /\ <<u, None>> \in subs
    /\ subs' = (subs \ {<<u, None>>}) \cup (IF up THEN {<<u, view[u]>>} ELSE {})
    /\ UNCHANGED <<env, attached, prints, poll, wanted, seen, requests>>

\* setdefault: a new item has no resources of the old one.
WithFingerprint(u, v) == [(IF attached THEN prints ELSE NoPrints) EXCEPT ![u] = v]

Subscribe(u, v) ==
    /\ <<u, v>> \in subs
    /\ v # None
    /\ subs' = subs \ {<<u, v>>}
    /\ attached' = TRUE
    /\ prints' = WithFingerprint(u, v)
    /\ wanted' = [wanted EXCEPT ![u] = TRUE]
    /\ seen' = [seen EXCEPT ![u] = view[u]]
    /\ UNCHANGED <<env, poll, requests>>

\* The item leaves the table with its last resource.
Unsubscribe(u) ==
    /\ requests < MaxRequests
    /\ requests' = requests + 1
    /\ attached
    /\ prints' = [prints EXCEPT ![u] = None]
    /\ attached' = (prints' # NoPrints)
    /\ poll' = [poll EXCEPT !.held = @ /\ attached']
    /\ wanted' = [wanted EXCEPT ![u] = FALSE]
    /\ UNCHANGED <<env, subs, seen>>

(***************************************************************************)
(* run: a round takes a copy of the item's resources and fetches them one  *)
(* by one.  "held" says that the poller's item is still the one in the     *)
(* table; what it writes to an item that is not is lost.                   *)
(***************************************************************************)
Subscribed == {u \in Uri : prints[u] # None}

Snapshot == {<<u, prints[u]>> : u \in Subscribed}

PollRound ==
    /\ poll = Sleeping
    /\ attached
    /\ poll' = [Sleeping EXCEPT !.pc = "next", !.held = TRUE, !.todo = Snapshot]
    /\ UNCHANGED <<env, attached, prints, subs, wanted, seen, requests>>

PollNext ==
    /\ poll.pc = "next"
    /\ IF poll.todo = {}
         THEN poll' = Sleeping
         ELSE \E r \in poll.todo :
                poll' = [poll EXCEPT !.pc = "fetch", !.todo = @ \ {r}, !.uri = r[1],
                                     !.previous = r[2], !.current = None]
    /\ UNCHANGED <<env, attached, prints, subs, wanted, seen, requests>>

\* Faulty: the handler is missing and the error ends the poller.
AfterOutageStopped(p) == [Sleeping EXCEPT !.pc = "stopped"]

\* HubClientError keeps the subscription and goes on with the next resource.
AfterOutage(p) == [p EXCEPT !.pc = "next"]

\* The answer of the worker thread.
PollFetch ==
    /\ poll.pc = "fetch"
    /\ poll.current = None
    /\ poll' = IF up THEN [poll EXCEPT !.current = view[poll.uri]]
                     ELSE AfterOutage(poll)
    /\ UNCHANGED <<env, attached, prints, subs, wanted, seen, requests>>

PollCompare ==
    /\ poll.pc = "fetch"
    /\ poll.current # None
    /\ poll' = [poll EXCEPT !.pc = IF poll.current = poll.previous THEN "next" ELSE "send"]
    /\ UNCHANGED <<env, attached, prints, subs, wanted, seen, requests>>

\* Faulty: the fingerprint is taken of the view at the time of the notice.
FingerprintSentNow(p) == view[p.uri]

FingerprintSent(p) == p.current

\* The notification is written; the loop resumes the poller afterwards.
PollSend ==
    /\ poll.pc = "send"
    /\ seen' = [seen EXCEPT ![poll.uri] = view[poll.uri]]
    /\ poll' = [poll EXCEPT !.pc = "store"]
    /\ UNCHANGED <<env, attached, prints, subs, wanted, requests>>

PollStore ==
    /\ poll.pc = "store"
    /\ prints' = IF poll.held THEN [prints EXCEPT ![poll.uri] = FingerprintSent(poll)]
                              ELSE prints
    /\ poll' = [poll EXCEPT !.pc = "next"]
    /\ UNCHANGED <<env, attached, subs, wanted, seen, requests>>

\* Any other error of the fetch or of the notification ends the session's entry.
SessionFault ==
    /\ poll.pc \in {"fetch", "send"}
    /\ faults < MaxFaults
    /\ faults' = faults + 1
    /\ attached' = FALSE
    /\ prints' = NoPrints
    /\ poll' = Sleeping
    /\ wanted' = [u \in Uri |-> FALSE]
    /\ UNCHANGED <<view, up, subs, seen, requests>>

\* run_stdio: the client closed the streams and the task group is cancelled.
Close ==
    /\ poll.pc # "stopped"
    /\ poll' = [Sleeping EXCEPT !.pc = "stopped"]
    /\ attached' = FALSE
    /\ prints' = NoPrints
    /\ subs' = {}
    /\ wanted' = [u \in Uri |-> FALSE]
    /\ UNCHANGED <<env, seen, requests>>

-----------------------------------------------------------------------------
Poller == PollRound \/ PollNext \/ PollFetch \/ PollCompare \/ PollSend \/ PollStore

Next ==
    \/ \E u \in Uri : Change(u) \/ SubscribeRequest(u) \/ SubscribeFetch(u) \/ Unsubscribe(u)
    \/ \E u \in Uri, v \in View : Subscribe(u, v)
    \/ Outage \/ HubBack \/ SessionFault \/ Close
    \/ Poller

\* The event loop resumes every task, worker threads answer, an outage ends.
Fairness ==
    /\ WF_vars(Poller)
    /\ WF_vars(HubBack)
    /\ \A u \in Uri : WF_vars(SubscribeFetch(u)) /\ WF_vars(\E v \in View : Subscribe(u, v))

Spec == Init /\ [][Next]_vars /\ Fairness

-----------------------------------------------------------------------------
TypeOK ==
    /\ view \in [Uri -> View]
    /\ up \in BOOLEAN
    /\ attached \in BOOLEAN
    /\ prints \in Prints
    /\ subs \subseteq Uri \X (View \cup {None})
    /\ poll \in Poll
    /\ wanted \in [Uri -> BOOLEAN]
    /\ seen \in Prints
    /\ requests \in 0..MaxRequests
    /\ faults \in 0..MaxFaults

(***************************************************************************)
(* A subscription the client holds is in the table, whatever the poller    *)
(* and other requests did while its view was fetched: it ends only by an   *)
(* unsubscribe or by an error that ends the session's entry, never by an   *)
(* outage of the hub.  An item without resources does not stay.  And its   *)
(* fingerprint equals the present view only when the client has that view, *)
(* told or answered after it came about: the poller cannot take a change   *)
(* for known that nobody was told of.  It holds while views do not recur.  *)
(***************************************************************************)
SubscriptionKept ==
    /\ \A u \in Uri : wanted[u] => prints[u] # None
    /\ attached <=> Subscribed # {}
    /\ \A u \in Uri : prints[u] = view[u] => seen[u] = view[u]

(***************************************************************************)
(* "A subscribed resource emits notifications/resources/updated when its   *)
(* authorized HTTP representation changes" (MCP_AGENT_INTEGRATION.md:61):  *)
(* a client that reads when it is told ends with the present view, through *)
(* outages of the hub and whatever else is subscribed meanwhile.           *)
(***************************************************************************)
EventuallySeen ==
    \A u \in Uri : (wanted[u] /\ seen[u] # view[u]) ~> (seen[u] = view[u] \/ ~wanted[u])
=============================================================================
