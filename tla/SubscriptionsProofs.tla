------------------------ MODULE SubscriptionsProofs ------------------------
(***************************************************************************)
(* The proofs about Subscriptions, for any resources, views, requests and  *)
(* faults.                                                                 *)
(***************************************************************************)
EXTENDS Subscriptions, TLAPS

\* The poller between two awaits: what it holds at each of its places.
Working == {"fetch", "send", "store"}
PollOK ==
    /\ poll.pc \in Working => poll.uri \in Uri
    /\ poll.pc \in {"send", "store"} => poll.current # None

TypeInv == TypeOK /\ PollOK

(***************************************************************************)
(* The table: the item is in it exactly while it has a resource, and what  *)
(* the poller holds, when that item is not the one in the table, is lost.  *)
(***************************************************************************)
TableInv ==
    /\ \A u \in Uri : wanted[u] => prints[u] # None
    /\ attached <=> Subscribed # {}
    /\ poll.held => attached

(***************************************************************************)
(* When views do not recur, nothing that was fetched is newer than what    *)
(* the hub answers now; and between the notification and the store the     *)
(* client has the view, or a later one, whose fingerprint will be stored.  *)
(***************************************************************************)
FreshInv ==
    /\ \A u \in Uri : prints[u] <= view[u]
    /\ \A s \in subs : s[2] <= view[s[1]]
    /\ poll.pc \in Working => poll.current <= view[poll.uri]
    /\ poll.pc = "store" /\ poll.current = view[poll.uri] => seen[poll.uri] = view[poll.uri]
    /\ \A u \in Uri : prints[u] = view[u] => seen[u] = view[u]

-----------------------------------------------------------------------------
(***************************************************************************)
(* Types                                                                   *)
(***************************************************************************)
LEMMA Views ==
  /\ None \notin View /\ None \in Int /\ View \subseteq Nat
  /\ \A v \in View : None < v /\ v \in Nat
  /\ \A v \in View \cup {None} : v \in Int
  BY SubscriptionsAssumption DEF View, None

LEMMA SleepingType ==
  /\ Sleeping \in Poll /\ Sleeping.pc = "sleep" /\ Sleeping.held = FALSE
  /\ [Sleeping EXCEPT !.pc = "stopped"] \in Poll
  /\ [Sleeping EXCEPT !.pc = "stopped"].pc = "stopped"
  /\ [Sleeping EXCEPT !.pc = "stopped"].held = FALSE
  BY DEF Sleeping, Poll

LEMMA NoPrintsType == NoPrints \in Prints /\ \A u \in Uri : NoPrints[u] = None
  BY DEF NoPrints, Prints

LEMMA TypeInit == Init => TypeInv
  <1> SUFFICES ASSUME Init PROVE TypeInv
    OBVIOUS
  <1>1. 0 \in View /\ 0 \in 0..MaxRequests /\ 0 \in 0..MaxFaults
    BY SubscriptionsAssumption DEF View
  <1>2. view \in [Uri -> View] /\ wanted \in [Uri -> BOOLEAN]
    BY <1>1 DEF Init
  <1>3. poll \in Poll /\ PollOK
    BY SleepingType DEF Init, PollOK, Working
  <1> QED BY <1>1, <1>2, <1>3, NoPrintsType DEF Init, TypeInv, TypeOK

\* What a step of the poller makes of its state.
LEMMA PollType ==
  ASSUME TypeInv, Poller
  PROVE  poll' \in Poll /\ PollOK'
  <1>0. poll \in Poll /\ view \in [Uri -> View] /\ prints \in Prints
    BY DEF TypeInv, TypeOK
  <1>1. ASSUME PollRound PROVE poll' \in Poll /\ PollOK'
    <2>1. Snapshot \in SUBSET (Uri \X View)
      BY <1>0 DEF Snapshot, Subscribed, Prints
    <2>2. poll' = [Sleeping EXCEPT !.pc = "next", !.held = TRUE, !.todo = Snapshot]
      BY <1>1 DEF PollRound
    <2>3. poll' \in Poll /\ poll'.pc = "next"
      BY <2>1, <2>2 DEF Sleeping, Poll
    <2> QED BY <2>3 DEF PollOK, Working
  <1>2. ASSUME PollNext PROVE poll' \in Poll /\ PollOK'
    <2>1. CASE poll.todo = {}
      BY <1>2, <2>1, SleepingType DEF PollNext, PollOK, Working
    <2>2. CASE poll.todo # {}
      <3>1. PICK r \in poll.todo :
              poll' = [poll EXCEPT !.pc = "fetch", !.todo = @ \ {r}, !.uri = r[1],
                                   !.previous = r[2], !.current = None]
        BY <1>2, <2>2 DEF PollNext
      <3>2. r[1] \in Uri /\ r[2] \in View
        BY <1>0, <3>1 DEF Poll
      <3>3. poll' \in Poll /\ poll'.pc = "fetch" /\ poll'.uri = r[1]
        BY <1>0, <3>1, <3>2 DEF Poll
      <3> QED BY <3>2, <3>3 DEF PollOK
    <2> QED BY <2>1, <2>2
  <1>3. ASSUME PollFetch PROVE poll' \in Poll /\ PollOK'
    <2>1. poll.uri \in Uri
      BY <1>3 DEF PollFetch, TypeInv, PollOK, Working
    <2>2. view[poll.uri] \in View
      BY <1>0, <2>1
    <2>3. CASE up
      <3>1. poll' = [poll EXCEPT !.current = view[poll.uri]]
        BY <1>3, <2>3 DEF PollFetch
      <3>2. poll' \in Poll /\ poll'.pc = "fetch" /\ poll'.uri = poll.uri
        BY <1>0, <1>3, <2>2, <3>1 DEF Poll, PollFetch
      <3> QED BY <2>1, <3>2 DEF PollOK
    <2>4. CASE ~up
      <3>1. poll' = [poll EXCEPT !.pc = "next"]
        BY <1>3, <2>4 DEF PollFetch, AfterOutage
      <3>2. poll' \in Poll /\ poll'.pc = "next"
        BY <1>0, <3>1 DEF Poll
      <3> QED BY <3>2 DEF PollOK, Working
    <2> QED BY <2>3, <2>4
  <1>4. ASSUME NEW pc \in {"next", "send", "store"}, poll' = [poll EXCEPT !.pc = pc],
               pc = "next" \/ (poll.uri \in Uri /\ poll.current # None)
        PROVE  poll' \in Poll /\ PollOK'
    <2>1. /\ poll' \in Poll /\ poll'.pc = pc /\ poll'.uri = poll.uri
          /\ poll'.current = poll.current
      BY <1>0, <1>4 DEF Poll
    <2> QED BY <1>4, <2>1 DEF PollOK, Working
  <1>5. ASSUME PollCompare PROVE poll' \in Poll /\ PollOK'
    <2>1. poll.uri \in Uri /\ poll.current # None
      BY <1>5 DEF PollCompare, TypeInv, PollOK, Working
    <2> QED BY <1>4, <1>5, <2>1 DEF PollCompare
  <1>6. ASSUME PollSend \/ PollStore PROVE poll' \in Poll /\ PollOK'
    <2>1. poll.uri \in Uri /\ poll.current # None
      BY <1>6 DEF PollSend, PollStore, TypeInv, PollOK, Working
    <2> QED BY <1>4, <1>6, <2>1 DEF PollSend, PollStore
  <1> QED BY <1>1, <1>2, <1>3, <1>5, <1>6 DEF Poller

LEMMA TypeNext == TypeInv /\ [Next]_vars => TypeInv'
  <1> SUFFICES ASSUME TypeInv, [Next]_vars PROVE TypeInv'
    OBVIOUS
  <1> USE DEF TypeInv
  <1>1. ASSUME NEW u \in Uri, Change(u) PROVE TypeInv'
    BY <1>1 DEF Change, TypeOK, PollOK
  <1>2. ASSUME Outage \/ HubBack PROVE TypeInv'
    <2>1. up' \in BOOLEAN
      BY <1>2 DEF Outage, HubBack
    <2>2. faults' \in 0..MaxFaults
      <3>1. faults \in 0..MaxFaults
        BY DEF TypeOK
      <3>2. faults' = faults \/ (faults < MaxFaults /\ faults' = faults + 1)
        BY <1>2 DEF Outage, HubBack
      <3> QED BY <3>1, <3>2, SubscriptionsAssumption
    <2>3. UNCHANGED <<view, attached, prints, subs, poll, wanted, seen, requests>>
      BY <1>2 DEF Outage, HubBack
    <2> QED BY <2>1, <2>2, <2>3 DEF TypeOK, PollOK
  <1>3. ASSUME NEW u \in Uri, SubscribeRequest(u) PROVE TypeInv'
    BY <1>3, SubscriptionsAssumption DEF SubscribeRequest, env, TypeOK, PollOK
  <1>4. ASSUME NEW u \in Uri, SubscribeFetch(u) PROVE TypeInv'
    BY <1>4 DEF SubscribeFetch, env, TypeOK, PollOK
  <1>5. ASSUME NEW u \in Uri, NEW v \in View, Subscribe(u, v) PROVE TypeInv'
    <2>1. prints' \in Prints
      BY <1>5, NoPrintsType DEF Subscribe, WithFingerprint, TypeOK, Prints
    <2>2. seen' \in Prints
      BY <1>5 DEF Subscribe, TypeOK, Prints
    <2>3. wanted' \in [Uri -> BOOLEAN] /\ attached' \in BOOLEAN
      BY <1>5 DEF Subscribe, TypeOK
    <2> QED BY <1>5, <2>1, <2>2, <2>3 DEF Subscribe, env, TypeOK, PollOK
  <1>6. ASSUME NEW u \in Uri, Unsubscribe(u) PROVE TypeInv'
    <2>1. prints' \in Prints
      BY <1>6 DEF Unsubscribe, TypeOK, Prints
    <2>2. wanted' \in [Uri -> BOOLEAN] /\ attached' \in BOOLEAN
      BY <1>6 DEF Unsubscribe, TypeOK
    <2>3. PICK h \in BOOLEAN : poll' = [poll EXCEPT !.held = h]
      BY <1>6, <2>2 DEF Unsubscribe, TypeOK, Poll
    <2>4. /\ poll' \in Poll /\ poll'.pc = poll.pc /\ poll'.uri = poll.uri
          /\ poll'.current = poll.current
      BY <2>3 DEF TypeOK, Poll
    <2>5. PollOK'
      BY <2>4 DEF PollOK
    <2>6. requests' \in 0..MaxRequests
      BY <1>6, SubscriptionsAssumption DEF Unsubscribe, TypeOK
    <2> QED BY <1>6, <2>1, <2>2, <2>4, <2>5, <2>6 DEF Unsubscribe, env, TypeOK
  <1>7. ASSUME SessionFault PROVE TypeInv'
    <2>1. faults' \in 0..MaxFaults
      BY <1>7, SubscriptionsAssumption DEF SessionFault, TypeOK
    <2>2. poll' \in Poll /\ PollOK'
      BY <1>7, SleepingType DEF SessionFault, PollOK, Working
    <2> QED BY <1>7, <2>1, <2>2, NoPrintsType DEF SessionFault, TypeOK
  <1>8. ASSUME Close PROVE TypeInv'
    <2>1. poll' \in Poll /\ PollOK'
      BY <1>8, SleepingType DEF Close, PollOK, Working
    <2> QED BY <1>8, <2>1, NoPrintsType DEF Close, env, TypeOK
  <1>9. ASSUME Poller PROVE TypeInv'
    <2>1. poll' \in Poll /\ PollOK'
      BY <1>9, PollType
    <2>2. prints' \in Prints
      BY <1>9 DEF Poller, PollRound, PollNext, PollFetch, PollCompare, PollSend, PollStore,
                  FingerprintSent, TypeOK, Prints, Poll
    <2>3. seen' \in Prints
      BY <1>9 DEF Poller, PollRound, PollNext, PollFetch, PollCompare, PollSend, PollStore,
                  TypeOK, PollOK, Working, Prints
    <2>4. UNCHANGED <<view, up, faults, attached, subs, wanted, requests>>
      BY <1>9 DEF Poller, PollRound, PollNext, PollFetch, PollCompare, PollSend, PollStore, env
    <2> QED BY <2>1, <2>2, <2>3, <2>4 DEF TypeOK
  <1>10. CASE UNCHANGED vars
    BY <1>10 DEF vars, TypeOK, PollOK
  <1> QED BY <1>1, <1>2, <1>3, <1>4, <1>5, <1>6, <1>7, <1>8, <1>9, <1>10 DEF Next

-----------------------------------------------------------------------------
(***************************************************************************)
(* The table                                                               *)
(***************************************************************************)
LEMMA TableInit == Init => TableInv
  BY SleepingType, NoPrintsType DEF Init, TableInv, Subscribed

\* An item with a resource is in the table.
LEMMA TableNext == TypeInv /\ TableInv /\ [Next]_vars => TableInv'
  <1> SUFFICES ASSUME TypeInv, TableInv, [Next]_vars PROVE TableInv'
    OBVIOUS
  <1>0. prints \in Prints /\ poll \in Poll /\ wanted \in [Uri -> BOOLEAN]
    BY DEF TypeInv, TypeOK
  <1>1. ASSUME UNCHANGED <<attached, prints, wanted>>, poll'.held => poll.held
        PROVE  TableInv'
    BY <1>1 DEF TableInv, Subscribed
  <1>2. ASSUME attached' = FALSE, prints' = NoPrints, wanted' = [u \in Uri |-> FALSE],
               poll'.held = FALSE
        PROVE  TableInv'
    BY <1>2, NoPrintsType DEF TableInv, Subscribed
  <1>3. ASSUME NEW u \in Uri, NEW v \in View, Subscribe(u, v) PROVE TableInv'
    <2>1. /\ attached' = TRUE /\ wanted' = [wanted EXCEPT ![u] = TRUE] /\ UNCHANGED poll
          /\ prints' = [(IF attached THEN prints ELSE NoPrints) EXCEPT ![u] = v]
      BY <1>3 DEF Subscribe, WithFingerprint
    <2>2. v # None
      BY Views
    <2>3. prints' \in Prints /\ prints'[u] = v
      BY <1>0, <2>1, NoPrintsType DEF Prints
    <2>4. \A w \in Uri : w # u /\ prints[w] # None => prints'[w] # None
      <3>1. CASE attached
        BY <1>0, <2>1, <3>1 DEF Prints
      <3>2. CASE ~attached
        BY <3>2 DEF TableInv, Subscribed
      <3> QED BY <3>1, <3>2
    <2>5. \A w \in Uri : w # u => wanted'[w] = wanted[w]
      BY <1>0, <2>1
    <2>6. \A w \in Uri : wanted'[w] => prints'[w] # None
      BY <2>2, <2>3, <2>4, <2>5 DEF TableInv
    <2>7. u \in Subscribed'
      BY <2>2, <2>3 DEF Subscribed
    <2> QED BY <2>1, <2>6, <2>7 DEF TableInv
  <1>4. ASSUME NEW u \in Uri, Unsubscribe(u) PROVE TableInv'
    <2>1. /\ prints' = [prints EXCEPT ![u] = None] /\ attached' = (prints' # NoPrints)
          /\ wanted' = [wanted EXCEPT ![u] = FALSE]
          /\ poll' = [poll EXCEPT !.held = poll.held /\ attached']
      BY <1>4 DEF Unsubscribe
    <2>2. prints' \in Prints
      BY <1>0, <2>1 DEF Prints
    <2>3. attached' <=> Subscribed' # {}
      BY <2>1, <2>2, NoPrintsType DEF Prints, Subscribed
    <2>4. \A w \in Uri : wanted'[w] => prints'[w] # None
      BY <1>0, <2>1 DEF TableInv, Prints
    <2>5. poll'.held => attached'
      <3>1. poll'.held = (poll.held /\ attached')
        BY <1>0, <2>1 DEF Poll
      <3> QED BY <3>1
    <2> QED BY <2>3, <2>4, <2>5 DEF TableInv
  <1>5. ASSUME PollStore PROVE TableInv'
    <2>1. poll.uri \in Uri /\ poll.current # None /\ poll'.held = poll.held
      BY <1>0, <1>5 DEF PollStore, TypeInv, PollOK, Working, Poll
    <2>2. CASE ~poll.held
      BY <1>1, <1>5, <2>1, <2>2 DEF PollStore
    <2>3. CASE poll.held
      <3>1. /\ prints' = [prints EXCEPT ![poll.uri] = poll.current]
            /\ UNCHANGED <<attached, wanted>>
        BY <1>5, <2>3 DEF PollStore, FingerprintSent
      <3>2. \A w \in Uri : prints[w] # None => prints'[w] # None
        BY <1>0, <2>1, <3>1 DEF Prints
      <3>3. poll.uri \in Subscribed'
        BY <1>0, <2>1, <3>1 DEF Subscribed, Prints
      <3> QED BY <2>1, <2>3, <3>1, <3>2, <3>3 DEF TableInv
    <2> QED BY <2>2, <2>3
  <1>6. ASSUME PollRound PROVE TableInv'
    BY <1>6 DEF PollRound, TableInv, Subscribed
  <1>7. ASSUME PollNext \/ PollFetch \/ PollCompare \/ PollSend PROVE TableInv'
    <2>1. UNCHANGED <<attached, prints, wanted>>
      BY <1>7 DEF PollNext, PollFetch, PollCompare, PollSend
    <2>2. poll'.held => poll.held
      <3>1. CASE PollNext
        <4>1. CASE poll.todo = {}
          BY <3>1, <4>1, SleepingType DEF PollNext
        <4>2. CASE poll.todo # {}
          <5>1. PICK r \in poll.todo :
                  poll' = [poll EXCEPT !.pc = "fetch", !.todo = @ \ {r}, !.uri = r[1],
                                       !.previous = r[2], !.current = None]
            BY <3>1, <4>2 DEF PollNext
          <5> QED BY <1>0, <5>1 DEF Poll
        <4> QED BY <4>1, <4>2
      <3>2. CASE PollFetch
        BY <1>0, <3>2 DEF PollFetch, AfterOutage, Poll
      <3>3. CASE PollCompare \/ PollSend
        BY <1>0, <3>3 DEF PollCompare, PollSend, Poll
      <3> QED BY <1>7, <3>1, <3>2, <3>3
    <2> QED BY <1>1, <2>1, <2>2
  <1>8. ASSUME SessionFault \/ Close PROVE TableInv'
    BY <1>2, <1>8, SleepingType DEF SessionFault, Close
  <1>9. ASSUME NEW u \in Uri, Change(u) \/ SubscribeRequest(u) \/ SubscribeFetch(u)
        PROVE  TableInv'
    BY <1>1, <1>9 DEF Change, SubscribeRequest, SubscribeFetch
  <1>10. ASSUME Outage \/ HubBack \/ UNCHANGED vars PROVE TableInv'
    BY <1>1, <1>10 DEF Outage, HubBack, vars
  <1> QED BY <1>3, <1>4, <1>5, <1>6, <1>7, <1>8, <1>9, <1>10 DEF Next, Poller

-----------------------------------------------------------------------------
(***************************************************************************)
(* Views that do not recur                                                 *)
(***************************************************************************)
LEMMA FreshInit == Init => FreshInv
  BY SleepingType, NoPrintsType, Views DEF Init, FreshInv, Working, None

LEMMA FreshNext ==
  ASSUME ~Recurs PROVE TypeInv /\ FreshInv /\ [Next]_vars => FreshInv'
  <1> SUFFICES ASSUME TypeInv, FreshInv, [Next]_vars PROVE FreshInv'
    OBVIOUS
  <1>0. /\ prints \in Prints /\ seen \in Prints /\ poll \in Poll /\ view \in [Uri -> View]
        /\ (poll.pc \in Working => poll.uri \in Uri)
        /\ \A u \in Uri : prints[u] \in Int /\ view[u] \in Nat /\ None < view[u]
    <2>1. /\ prints \in Prints /\ seen \in Prints /\ poll \in Poll /\ view \in [Uri -> View]
          /\ (poll.pc \in Working => poll.uri \in Uri)
      BY DEF TypeInv, TypeOK, PollOK
    <2>2. ASSUME NEW u \in Uri PROVE prints[u] \in Int /\ view[u] \in Nat /\ None < view[u]
      <3>1. prints[u] \in View \cup {None} /\ view[u] \in View
        BY <2>1 DEF Prints
      <3> QED BY <3>1, Views
    <2> QED BY <2>1, <2>2
  <1>1. ASSUME UNCHANGED <<prints, view, seen>>, \A s \in subs' : s[2] <= view[s[1]],
               \/ UNCHANGED poll
               \/ poll'.pc \notin Working
               \/ /\ poll'.pc \in {"fetch", "send"}
                  /\ poll'.current <= view[poll'.uri]
        PROVE  FreshInv'
    BY <1>1 DEF FreshInv, Working
  <1>2. ASSUME NEW u \in Uri, Change(u) PROVE FreshInv'
    <2>1. view' = [view EXCEPT ![u] = view[u] + 1]
          /\ UNCHANGED <<prints, seen, subs, poll>>
      BY <1>2 DEF Change
    <2>2. view'[u] = view[u] + 1 /\ \A w \in Uri : w # u => view'[w] = view[w]
      BY <1>0, <2>1
    <2>3. \A w \in Uri : prints'[w] <= view'[w] /\ (prints'[w] = view'[w] => seen'[w] = view'[w])
      BY <1>0, <2>1, <2>2 DEF FreshInv
    <2>4. ASSUME NEW s \in subs' PROVE s[2] <= view'[s[1]]
      <3>1. s[1] \in Uri /\ s[2] \in Int /\ s[2] <= view[s[1]]
        <4>1. s[1] \in Uri /\ s[2] \in View \cup {None}
          BY <2>1, <2>4 DEF TypeInv, TypeOK
        <4>2. s[2] <= view[s[1]]
          BY <2>1, <2>4 DEF FreshInv
        <4> QED BY <4>1, <4>2, Views
      <3> QED BY <1>0, <2>2, <3>1
    <2>5. ASSUME poll.pc \in Working
          PROVE  poll.current <= view'[poll.uri] /\ poll.uri \in Uri
                 /\ (poll.current = view'[poll.uri] => poll.uri # u)
      <3>1. poll.uri \in Uri /\ poll.current \in Int /\ poll.current <= view[poll.uri]
        <4>1. poll.uri \in Uri /\ poll.current \in View \cup {None}
          BY <1>0, <2>5 DEF Poll
        <4>2. poll.current <= view[poll.uri]
          BY <2>5 DEF FreshInv
        <4> QED BY <4>1, <4>2, Views
      <3> QED BY <1>0, <2>2, <3>1
    <2>6. poll'.pc = "store" /\ poll'.current = view'[poll'.uri] => seen'[poll'.uri] = view'[poll'.uri]
      BY <2>1, <2>2, <2>5 DEF FreshInv, Working
    <2> QED BY <2>1, <2>3, <2>4, <2>5, <2>6 DEF FreshInv
  <1>3. ASSUME NEW u \in Uri, SubscribeRequest(u) \/ SubscribeFetch(u) PROVE FreshInv'
    <2>1. subs' \subseteq subs \cup {<<u, None>>, <<u, view[u]>>}
      BY <1>3 DEF SubscribeRequest, SubscribeFetch
    <2>2. None <= view[u] /\ view[u] <= view[u]
      BY <1>0, Views
    <2>3. \A s \in subs' : s[2] <= view[s[1]]
      BY <2>1, <2>2 DEF FreshInv
    <2>4. UNCHANGED <<prints, view, seen, poll>>
      BY <1>3 DEF SubscribeRequest, SubscribeFetch, env
    <2> QED BY <1>1, <2>3, <2>4
  <1>4. ASSUME NEW u \in Uri, NEW v \in View, Subscribe(u, v) PROVE FreshInv'
    <2>1. /\ seen' = [seen EXCEPT ![u] = view[u]] /\ UNCHANGED <<view, poll>> /\ subs' \subseteq subs
          /\ prints' = [(IF attached THEN prints ELSE NoPrints) EXCEPT ![u] = v]
      BY <1>4 DEF Subscribe, WithFingerprint, env
    <2>2. v <= view[u]
      BY <1>4 DEF Subscribe, FreshInv
    <2>3. /\ prints'[u] = v /\ seen'[u] = view[u]
          /\ \A w \in Uri : w # u => /\ prints'[w] \in {prints[w], None}
                                     /\ seen'[w] = seen[w]
      BY <1>0, <2>1, NoPrintsType DEF Prints
    <2>4. \A w \in Uri : prints'[w] <= view[w] /\ (prints'[w] = view[w] => seen'[w] = view[w])
      BY <1>0, <2>2, <2>3, Views DEF FreshInv
    <2>5. poll.pc = "store" /\ poll.current = view[poll.uri] => seen'[poll.uri] = view[poll.uri]
      BY <1>0, <2>3 DEF FreshInv, Working
    <2> QED BY <2>1, <2>4, <2>5 DEF FreshInv
  <1>5. ASSUME NEW u \in Uri, Unsubscribe(u) PROVE FreshInv'
    <2>1. prints' = [prints EXCEPT ![u] = None] /\ UNCHANGED <<view, seen, subs>>
      BY <1>5 DEF Unsubscribe, env
    <2>2. poll'.pc = poll.pc /\ poll'.uri = poll.uri /\ poll'.current = poll.current
      BY <1>0, <1>5 DEF Unsubscribe, Poll
    <2>3. \A w \in Uri : prints'[w] \in {prints[w], None}
      BY <1>0, <2>1 DEF Prints
    <2>4. \A w \in Uri : prints'[w] <= view[w] /\ (prints'[w] = view[w] => seen[w] = view[w])
      BY <1>0, <2>3, Views DEF FreshInv
    <2> QED BY <2>1, <2>2, <2>4 DEF FreshInv
  <1>6. ASSUME SessionFault \/ Close PROVE FreshInv'
    <2>1. prints' = NoPrints /\ UNCHANGED <<view, seen>> /\ poll'.pc \notin Working
          /\ subs' \subseteq subs
      BY <1>6, SleepingType DEF SessionFault, Close, env, Working
    <2>2. \A w \in Uri : prints'[w] <= view[w] /\ prints'[w] # view[w]
      BY <1>0, <2>1, NoPrintsType, Views
    <2> QED BY <2>1, <2>2 DEF FreshInv, Working
  <1>7. ASSUME PollRound PROVE FreshInv'
    <2>1. poll'.pc = "next" /\ UNCHANGED <<prints, view, seen, subs>>
      BY <1>7 DEF PollRound, Sleeping, env
    <2> QED BY <1>1, <2>1 DEF FreshInv, Working
  <1>8. ASSUME PollNext PROVE FreshInv'
    <2>0. UNCHANGED <<prints, view, seen, subs>>
      BY <1>8 DEF PollNext, env
    <2>1. CASE poll.todo = {}
      BY <1>1, <1>8, <2>0, <2>1, SleepingType DEF PollNext, FreshInv, Working
    <2>2. CASE poll.todo # {}
      <3>1. PICK r \in poll.todo :
              poll' = [poll EXCEPT !.pc = "fetch", !.todo = @ \ {r}, !.uri = r[1],
                                   !.previous = r[2], !.current = None]
        BY <1>8, <2>2 DEF PollNext
      <3>2. poll'.pc = "fetch" /\ poll'.uri = r[1] /\ poll'.current = None /\ r[1] \in Uri
        BY <1>0, <3>1 DEF Poll
      <3>3. poll'.current <= view[poll'.uri]
        BY <1>0, <3>2, Views
      <3> QED BY <1>1, <2>0, <3>2, <3>3 DEF FreshInv
    <2> QED BY <2>1, <2>2
  <1>9. ASSUME PollFetch PROVE FreshInv'
    <2>0. UNCHANGED <<prints, view, seen, subs>> /\ poll.uri \in Uri
      BY <1>0, <1>9 DEF PollFetch, env, Working
    <2>1. CASE up
      <3>1. poll' = [poll EXCEPT !.current = view[poll.uri]] /\ poll.pc = "fetch"
        BY <1>9, <2>1 DEF PollFetch
      <3>2. poll'.pc = "fetch" /\ poll'.uri = poll.uri /\ poll'.current = view[poll.uri]
        BY <1>0, <3>1 DEF Poll
      <3>3. poll'.current <= view[poll'.uri]
        BY <1>0, <2>0, <3>2
      <3> QED BY <1>1, <2>0, <3>2, <3>3 DEF FreshInv
    <2>2. CASE ~up
      <3>1. poll'.pc = "next"
        BY <1>0, <1>9, <2>2 DEF PollFetch, AfterOutage, Poll
      <3> QED BY <1>1, <2>0, <3>1 DEF FreshInv, Working
    <2> QED BY <2>1, <2>2
  <1>10. ASSUME PollCompare PROVE FreshInv'
    <2>1. /\ UNCHANGED <<prints, view, seen, subs>> /\ poll.pc = "fetch"
          /\ poll'.pc \in {"next", "send"} /\ poll'.uri = poll.uri /\ poll'.current = poll.current
      BY <1>0, <1>10 DEF PollCompare, env, Poll
    <2> QED BY <1>1, <2>1 DEF FreshInv, Working
  <1>11. ASSUME PollSend PROVE FreshInv'
    <2>1. /\ UNCHANGED <<prints, view, subs>> /\ seen' = [seen EXCEPT ![poll.uri] = view[poll.uri]]
          /\ poll.pc = "send" /\ poll.uri \in Uri
      BY <1>0, <1>11 DEF PollSend, env, Working
    <2>2. poll'.pc = "store" /\ poll'.uri = poll.uri /\ poll'.current = poll.current
      BY <1>0, <1>11 DEF PollSend, Poll
    <2>3. /\ seen'[poll.uri] = view[poll.uri]
          /\ \A w \in Uri : w # poll.uri => seen'[w] = seen[w]
      BY <1>0, <2>1 DEF Prints
    <2> QED BY <2>1, <2>2, <2>3 DEF FreshInv, Working
  <1>12. ASSUME PollStore PROVE FreshInv'
    <2>1. /\ UNCHANGED <<seen, view, subs>> /\ poll.pc = "store" /\ poll.uri \in Uri
          /\ poll'.pc = "next"
      BY <1>0, <1>12 DEF PollStore, env, Working, Poll
    <2>2. CASE ~poll.held
      BY <1>1, <1>12, <2>1, <2>2 DEF PollStore, FreshInv, Working
    <2>3. CASE poll.held
      <3>1. prints' = [prints EXCEPT ![poll.uri] = poll.current]
        BY <1>12, <2>3 DEF PollStore, FingerprintSent
      <3>2. /\ prints'[poll.uri] = poll.current
            /\ \A w \in Uri : w # poll.uri => prints'[w] = prints[w]
        BY <1>0, <2>1, <3>1 DEF Prints
      <3>3. poll.current <= view[poll.uri]
            /\ (poll.current = view[poll.uri] => seen[poll.uri] = view[poll.uri])
        BY <2>1 DEF FreshInv, Working
      <3> QED BY <2>1, <3>2, <3>3 DEF FreshInv, Working
    <2> QED BY <2>2, <2>3
  <1>13. ASSUME Outage \/ HubBack \/ UNCHANGED vars PROVE FreshInv'
    BY <1>1, <1>13 DEF Outage, HubBack, vars, FreshInv
  <1> QED BY <1>2, <1>3, <1>4, <1>5, <1>6, <1>7, <1>8, <1>9, <1>10, <1>11, <1>12, <1>13
          DEF Next, Poller

-----------------------------------------------------------------------------
\* The safety part of the specification.
LEMMA Safety == Spec => Init /\ [][Next]_vars
  BY PTL DEF Spec

\* Every component of the sidecar keeps its type.
THEOREM SubscriptionsTypeCorrect == Spec => []TypeOK
  <1>1. TypeInv => TypeOK
    BY DEF TypeInv
  <1> QED BY <1>1, Safety, TypeInit, TypeNext, PTL

\* ResourceSubscriptions: while views do not recur, a subscription stays until
\* it is unsubscribed or the session's entry ends, the item is in the table
\* exactly while it has a resource, and no fingerprint is that of a view the
\* client was not told of.
THEOREM SubscriptionsKept == ASSUME ~Recurs PROVE Spec => []SubscriptionKept
  <1>1. TableInv /\ FreshInv => SubscriptionKept
    BY DEF TableInv, FreshInv, SubscriptionKept
  <1>2. TypeInv /\ FreshInv /\ [Next]_vars => FreshInv'
    BY FreshNext
  <1> QED BY <1>1, <1>2, Safety, TypeInit, TypeNext, TableInit, TableNext, FreshInit, PTL

\* Whether views recur or not, no subscription is lost and no empty item stays.
THEOREM TableKept == Spec => []TableInv
  BY Safety, TypeInit, TypeNext, TableInit, TableNext, PTL
=============================================================================
