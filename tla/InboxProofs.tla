---------------------------- MODULE InboxProofs ----------------------------
(***************************************************************************)
(* TLAPS proofs about Inbox, the lifecycle answers (Lifecycle) and the     *)
(* wake-up envelope (Wakeup), for any principals, consumers, notes,        *)
(* threads, route sets, page size and budgets, and any database that the   *)
(* migration can find.                                                     *)
(***************************************************************************)
EXTENDS Lifecycle, Wakeup, FiniteSetTheorems, SequenceTheorems, TLAPS

\* A logical delivery has the number of one of its reason rows.
SameRow(a, l) == a.seq = l.seq /\ a.note = l.note /\ a.recipient = l.recipient
Origin == \A l \in logical : \E a \in aliases : SameRow(a, l)

\* A watermark is below the next number.
BelowNext == \A c \in Consumer : watermark[c] < nextSeq

\* A delivery that consumer c need not be shown any more.
Covered(c, l, shown) == l.note \in shown \/ l.seq <= watermark[c]

\* The logical deliveries of a principal.
Of(p) == {l \in logical : l.recipient = p}

\* A page being read: its rows are rows of the inbox, what it has passed is
\* covered, and what it has still to read is a piece of the inbox without holes.
PageGood(f) ==
    /\ \A t \in f.todo : \E a \in aliases :
         a.seq = t.seq /\ a.note = t.note /\ a.recipient = Owner[f.consumer]
    /\ f.model = "v2" => \A t \in f.todo : \E l \in Of(Owner[f.consumer]) :
         l.seq = t.seq /\ l.note = t.note
    /\ f.model = "v2" => \A n \in f.items : \E l \in Of(Owner[f.consumer]) :
         l.note = n /\ l.seq <= f.high
    /\ \A l \in Of(Owner[f.consumer]) :
         /\ l.seq <= f.high => Covered(f.consumer, l, f.items \cup f.skipped)
         /\ \A t \in f.todo : l.seq <= t.seq =>
              l.seq <= f.high \/ [seq |-> l.seq, note |-> l.note] \in f.todo

FetchGood(th) ==
    /\ fetch[th].pc # "idle" => fetch[th].high < nextSeq
    /\ fetch[th].pc = "rows" => /\ fetch[th].high <= watermark[fetch[th].consumer]
                                /\ fetch[th].items = {} /\ fetch[th].skipped = {}
    /\ fetch[th].pc = "read" => PageGood(fetch[th])

\* The same for a page that was handed out.
CursorGood(cu) ==
    /\ cu.seq < nextSeq
    /\ cu.kind = "inbox" => \A l \in Of(Owner[cu.consumer]) :
         l.seq <= cu.seq => Covered(cu.consumer, l, cu.items \cup cu.skipped)
    /\ cu.model = "v2" => \A n \in cu.items : \E l \in Of(Owner[cu.consumer]) :
         l.note = n /\ l.seq <= cu.seq

\* An acknowledgement in progress is for a cursor of its own consumer, and a
\* legacy cursor cannot move the watermark.
AckGood(th) ==
    ack[th].pc = "commit" =>
        /\ ack[th].cursor \in cursors /\ ack[th].cursor.consumer = ack[th].consumer
        /\ ack[th].current <= watermark[ack[th].consumer]
        /\ ack[th].cursor.kind = "unknown" =>
             ack[th].cursor.seq <= watermark[ack[th].consumer]

Inv ==
    /\ TypeOK /\ OneLogicalDelivery /\ Origin /\ BelowNext
    /\ \A th \in Thread : FetchGood(th) /\ AckGood(th)
    /\ \A cu \in cursors : CursorGood(cu)
    /\ NoSilentLoss /\ ReceiptsAreHonest

\* What every step does to the tables: rows are added, with numbers that were
\* still to be handed out, and watermarks rise.
Grows ==
    /\ aliases \subseteq aliases' /\ logical \subseteq logical' /\ nextSeq <= nextSeq'
    /\ \A l \in logical' : l \in logical \/ nextSeq <= l.seq
    /\ \A c \in Consumer : watermark[c] <= watermark'[c]
    /\ cursors \subseteq cursors'

-----------------------------------------------------------------------------
\* A set of naturals with an upper bound has a greatest element.
LEMMA GreatestExists ==
    ASSUME NEW S \in SUBSET Nat, S # {}, NEW bound \in Nat, \A s \in S : s < bound
    PROVE  \E m \in S : \A s \in S : s <= m
<1> DEFINE gaps == {bound - s : s \in S}
           less == OpToRel(<, Nat)
<1>1. gaps \subseteq Nat /\ gaps # {}
  <2>1. \A s \in S : bound - s \in Nat
    OBVIOUS
  <2>2. PICK s \in S : TRUE
    OBVIOUS
  <2>3. bound - s \in gaps
    BY <2>2
  <2> QED
    BY <2>1, <2>3
<1>2. IsWellFoundedOn(less, Nat)
  BY NatLessThanWellFounded
<1>3. \A x, y \in Nat : <<y, x>> \in less <=> y < x
  BY DEF OpToRel
<1> HIDE DEF less
<1>4. PICK g \in gaps : \A h \in gaps : ~(<<h, g>> \in less)
  <2> HIDE DEF gaps
  <2> QED BY <1>1, <1>2, WFMin
<1>5. \A h \in gaps : ~(h < g)
  BY <1>1, <1>3, <1>4
<1> QED
  BY <1>5

\* A page is closed downwards: a row before a row of the page is on the page.
LEMMA PageClosed ==
    ASSUME NEW rows \in SUBSET Row, NEW bound \in Nat,
           \A q \in rows : q.seq < bound,
           \A q, r \in rows : q.seq = r.seq => q = r,
           NEW t \in Page(rows), NEW q \in rows, q.seq <= t.seq
    PROVE  q \in Page(rows)
<1> DEFINE below(r) == {p \in rows : p.seq < r.seq}
<1>1. t \in rows /\ Cardinality(below(t)) < Limit
  BY DEF Page
<1>2. below(q) \in SUBSET below(t)
  BY <1>1 DEF Row
<1>3. IsFiniteSet(below(t))
  <2> DEFINE num == [p \in below(t) |-> p.seq]
  <2>1. num \in Injection(below(t), 0..bound)
    BY DEF Row, Injection, IsInjective
  <2>2. IsFiniteSet(0..bound)
    BY FS_Interval
  <2> QED
    BY <2>1, <2>2, FS_Injection
<1>4. Cardinality(below(q)) <= Cardinality(below(t)) /\ IsFiniteSet(below(q))
  BY <1>2, <1>3, FS_Subset
<1>5. Cardinality(below(q)) \in Nat /\ Cardinality(below(t)) \in Nat
  BY <1>3, <1>4, FS_CardinalityType
<1>6. Cardinality(below(q)) < Limit
  <2> HIDE DEF below
  <2> QED BY <1>1, <1>4, <1>5, InboxAssumption
<1> QED
  BY <1>6 DEF Page

-----------------------------------------------------------------------------
(***************************************************************************)
(* What GenerateDeliveries does to the two tables                          *)
(***************************************************************************)

\* The routes that are used for a note are one of the possible route sets.
LEMMA TargetsType ==
    ASSUME TypeOK, NEW n \in Note, NEW r \in RouteSets
    PROVE  SnapshottedTargets(n, r) \in RouteSets
<1>1. routes[n] \in SUBSET RouteSets
  BY DEF TypeOK
<1>2. CASE routes[n] = {}
  BY <1>2 DEF SnapshottedTargets
<1>3. CASE routes[n] # {}
  <2>1. \E x \in RouteSets : x \in routes[n]
    BY <1>1, <1>3
  <2> QED
    BY <1>3, <2>1 DEF SnapshottedTargets
<1> QED
  BY <1>2, <1>3

\* New rows get different numbers, none of which was handed out before.
LEMMA NumberingFresh ==
    ASSUME TypeOK, NEW new \in SUBSET Route, IsFiniteSet(new), NEW num \in Numbering(new)
    PROVE  /\ nextSeq + Cardinality(new) \in Nat
           /\ nextSeq <= nextSeq + Cardinality(new)
           /\ \A r \in new : /\ num[r] \in Nat /\ nextSeq <= num[r]
                               /\ num[r] < nextSeq + Cardinality(new)
           /\ \A r, q \in new : num[r] = num[q] => r = q
<1>1. Cardinality(new) \in Nat
  BY FS_CardinalityType
<1>2. nextSeq \in Nat
  BY DEF TypeOK
<1>3. num \in [new -> nextSeq..(nextSeq + Cardinality(new) - 1)]
  BY DEF Numbering
<1>4. \A r \in new : num[r] \in nextSeq..(nextSeq + Cardinality(new) - 1)
  BY <1>3
<1>5. ASSUME NEW r \in new, NEW q \in new, num[r] = num[q]
      PROVE  r = q
  <2>1. Before(r, q) => num[r] < num[q]
    BY DEF Numbering
  <2>2. Before(q, r) => num[q] < num[r]
    BY DEF Numbering
  <2>3. ~Before(r, q) /\ ~Before(q, r)
    BY <1>1, <1>2, <1>4, <1>5, <2>1, <2>2
  <2>4. r \in Principal \X Reason /\ q \in Principal \X Reason /\ Principal \subseteq Nat
    BY InboxAssumption DEF Route
  <2>a. r[1] \in Nat /\ q[1] \in Nat
    BY <2>4
  <2>b. ~(r[1] < q[1]) /\ ~(q[1] < r[1])
    BY <2>3 DEF Before
  <2>5. r[1] = q[1]
    BY <2>a, <2>b
  <2>6. Rank(r[2]) = Rank(q[2])
    BY <2>3, <2>4, <2>5 DEF Before, Rank, Reason
  <2>7. r[2] = q[2]
    BY <2>4, <2>6 DEF Rank, Reason
  <2> QED
    BY <2>4, <2>5, <2>7
<1> QED
  BY <1>1, <1>2, <1>4, <1>5

\* The tables after GenerateDeliveries: nothing is removed, every new number is
\* fresh, and the logical deliveries still match the reason rows.
LEMMA GenerateTables ==
    ASSUME TypeOK, OneLogicalDelivery, Origin, NEW n \in Note, NEW p \in RouteSets,
           GenerateDeliveries(n, p)
    PROVE  /\ aliases \subseteq aliases' /\ aliases' \subseteq AliasRow
           /\ logical \subseteq logical' /\ logical' \subseteq LogicalRow
           /\ nextSeq' \in Nat /\ nextSeq <= nextSeq'
           /\ routes' \in [Note -> SUBSET RouteSets]
           /\ \A l \in logical' : l \in logical \/ nextSeq <= l.seq
           /\ OneLogicalDelivery' /\ Origin'
<1> DEFINE targets == SnapshottedTargets(n, p)
           new == {r \in targets : \A a \in aliases :
                     ~(a.note = n /\ a.recipient = r[1] /\ a.reason = r[2])}
           group(q) == {a \in aliases' : a.note = n /\ a.recipient = q
                                          /\ <<q, a.reason>> \in targets}
           rows == {[seq |-> a.seq, note |-> n, recipient |-> a.recipient] :
                      a \in {a \in aliases' :
                               /\ a \in group(a.recipient)
                               /\ \A b \in group(a.recipient) : b.seq <= a.seq}}
<1>1. targets \in RouteSets /\ targets \in SUBSET Route /\ IsFiniteSet(targets)
  BY TargetsType, InboxAssumption
<1>2. new \in SUBSET Route /\ IsFiniteSet(new)
  BY <1>1, FS_Subset
<1> HIDE DEF new
<1>3. PICK num \in Numbering(new) :
        /\ aliases' = aliases \cup {[seq |-> num[r], note |-> n, recipient |-> r[1],
                                    reason |-> r[2]] : r \in new}
        /\ logical' = logical \cup {r \in rows : \A l \in logical : ~LogicalTaken(l, r)}
        /\ nextSeq' = nextSeq + Cardinality(new)
        /\ routes' = [routes EXCEPT ![n] = {targets}]
  BY DEF GenerateDeliveries, new
<1>4. /\ nextSeq' \in Nat /\ nextSeq <= nextSeq'
      /\ \A r \in new : num[r] \in Nat /\ nextSeq <= num[r] /\ num[r] < nextSeq'
      /\ \A r, q \in new : num[r] = num[q] => r = q
  BY <1>2, <1>3, NumberingFresh
<1>5. \A r \in new : r \in Principal \X Reason /\ r = <<r[1], r[2]>>
  BY <1>2 DEF Route
<1>6. aliases \subseteq AliasRow /\ logical \subseteq LogicalRow /\ nextSeq \in Nat
  BY DEF TypeOK
<1>7. aliases \subseteq aliases' /\ logical \subseteq logical'
  BY <1>3
<1>8. ASSUME NEW a \in aliases', a \notin aliases
      PROVE  /\ a \in AliasRow /\ a.note = n /\ <<a.recipient, a.reason>> \in new
             /\ a.seq = num[<<a.recipient, a.reason>>]
             /\ nextSeq <= a.seq /\ a.seq < nextSeq'
  <2>1. PICK r \in new : a = [seq |-> num[r], note |-> n, recipient |-> r[1], reason |-> r[2]]
    BY <1>3, <1>8
  <2>2. r[1] \in Principal /\ r[2] \in Reason /\ r = <<r[1], r[2]>>
    BY <1>5
  <2>3. num[r] \in Nat /\ nextSeq <= num[r] /\ num[r] < nextSeq'
    BY <1>4
  <2>4. a.seq = num[r] /\ a.note = n /\ a.recipient = r[1] /\ a.reason = r[2]
    BY <2>1
  <2>5. a \in AliasRow
    BY <2>1, <2>2, <2>3 DEF AliasRow
  <2> QED
    BY <2>2, <2>3, <2>4, <2>5
<1>9. aliases' \subseteq AliasRow
  BY <1>6, <1>8
<1>10. \A a \in aliases' : a.seq \in Nat /\ a.note \in Note /\ a.recipient \in Principal
                            /\ a.reason \in Reason
  BY <1>9 DEF AliasRow
<1>11. \A a \in aliases' : a.seq < nextSeq' /\ (a \in aliases => a.seq < nextSeq)
  <2>1. \A a \in aliases : a.seq < nextSeq
    BY DEF OneLogicalDelivery
  <2>2. \A a \in aliases' : a \notin aliases => a.seq < nextSeq'
    BY <1>8
  <2> QED
    BY <1>4, <1>6, <1>10, <2>1, <2>2
<1>12. ASSUME NEW a \in aliases', NEW b \in aliases', a.seq = b.seq
       PROVE  a = b
  <2>1. CASE a \in aliases /\ b \in aliases
    BY <1>12, <2>1 DEF OneLogicalDelivery
  <2>2. CASE a \notin aliases /\ b \notin aliases
    <3>1. <<a.recipient, a.reason>> = <<b.recipient, b.reason>>
      BY <1>4, <1>8, <1>12, <2>2
    <3>2. a.recipient = b.recipient /\ a.reason = b.reason /\ a.note = b.note
      BY <1>8, <2>2, <3>1
    <3> QED
      BY <1>9, <1>12, <3>2 DEF AliasRow
  <2>3. CASE a \in aliases /\ b \notin aliases
    <3>1. a.seq < nextSeq /\ nextSeq <= b.seq /\ a.seq \in Nat
      BY <1>8, <1>10, <1>11, <2>3
    <3> QED
      BY <1>6, <1>12, <3>1
  <2>4. CASE a \notin aliases /\ b \in aliases
    <3>1. b.seq < nextSeq /\ nextSeq <= a.seq /\ b.seq \in Nat
      BY <1>8, <1>10, <1>11, <2>4
    <3> QED
      BY <1>6, <1>12, <3>1
  <2> QED
    BY <2>1, <2>2, <2>3, <2>4
\* A row that is inserted stands for a reason row that is new as well.
<1>13. ASSUME NEW l \in rows
       PROVE  \E a \in aliases' : /\ SameRow(a, l) /\ a.note = n
                                  /\ l = [seq |-> a.seq, note |-> n, recipient |-> a.recipient]
                                  /\ a \in group(a.recipient)
                                  /\ \A b \in group(a.recipient) : b.seq <= a.seq
  BY DEF SameRow
<1>14. ASSUME NEW l \in logical', l \notin logical
       PROVE  /\ l \in rows /\ l \in LogicalRow /\ l.note = n /\ nextSeq <= l.seq
              /\ \A k \in logical : ~LogicalTaken(k, l)
              /\ \E a \in aliases' : SameRow(a, l)
  <2>1. l \in rows /\ \A k \in logical : ~LogicalTaken(k, l)
    BY <1>3, <1>14
  <2>2. PICK a \in aliases' : SameRow(a, l) /\ a.note = n
                               /\ l = [seq |-> a.seq, note |-> n, recipient |-> a.recipient]
    BY <1>13, <2>1
  <2>3. l \in LogicalRow /\ l.note = n
    BY <1>10, <2>2 DEF LogicalRow
  <2>4. a \notin aliases
    BY <2>1, <2>2 DEF OneLogicalDelivery, LogicalTaken, SameRow
  <2>5. nextSeq <= l.seq
    BY <1>8, <2>2, <2>4
  <2> QED
    BY <2>1, <2>2, <2>3, <2>5
<1> HIDE DEF rows
<1>15. Origin'
  BY <1>7, <1>14 DEF Origin, SameRow
<1>16. ASSUME NEW k \in logical', NEW l \in logical',
              k.seq = l.seq \/ (k.note = l.note /\ k.recipient = l.recipient)
       PROVE  k = l
  <2>1. CASE k \in logical /\ l \in logical
    BY <1>16, <2>1 DEF OneLogicalDelivery
  <2>2. CASE k \in logical /\ l \notin logical
    BY <1>14, <1>16, <2>2 DEF LogicalTaken
  <2>3. CASE k \notin logical /\ l \in logical
    BY <1>14, <1>16, <2>3 DEF LogicalTaken
  <2>4. CASE k \notin logical /\ l \notin logical
    <3>1. k \in rows /\ l \in rows
      BY <1>14, <2>4
    <3>2. PICK a \in aliases' : /\ SameRow(a, k) /\ a.note = n
                                /\ k = [seq |-> a.seq, note |-> n, recipient |-> a.recipient]
                                /\ a \in group(a.recipient)
                                /\ \A b \in group(a.recipient) : b.seq <= a.seq
      BY <1>13, <3>1
    <3>3. PICK b \in aliases' : /\ SameRow(b, l) /\ b.note = n
                                /\ l = [seq |-> b.seq, note |-> n, recipient |-> b.recipient]
                                /\ b \in group(b.recipient)
                                /\ \A c \in group(b.recipient) : c.seq <= b.seq
      BY <1>13, <3>1
    <3>4. CASE k.seq = l.seq
      <4>1. a = b
        BY <1>12, <3>2, <3>3, <3>4 DEF SameRow
      <4> QED
        BY <3>2, <3>3, <4>1
    <3>5. CASE k.note = l.note /\ k.recipient = l.recipient
      <4>1. a.recipient = b.recipient
        BY <3>2, <3>3, <3>5 DEF SameRow
      <4>2. a.seq <= b.seq /\ b.seq <= a.seq
        BY <3>2, <3>3, <4>1
      <4>3. a.seq = b.seq
        BY <1>10, <4>2
      <4> QED
        BY <3>2, <3>3, <4>1, <4>3
    <3> QED
      BY <1>16, <3>4, <3>5
  <2> QED
    BY <2>1, <2>2, <2>3, <2>4
<1>17. ASSUME NEW a \in aliases'
       PROVE  \E l \in logical' : l.note = a.note /\ l.recipient = a.recipient
  <2>1. CASE a \in aliases
    BY <1>7, <2>1 DEF OneLogicalDelivery
  <2>2. CASE a \notin aliases
    <3> DEFINE seqs == {b.seq : b \in group(a.recipient)}
    <3>1. a \in group(a.recipient)
      BY <1>8, <2>2 DEF new
    <3>2. seqs \in SUBSET Nat /\ seqs # {} /\ \A s \in seqs : s < nextSeq'
      BY <1>10, <1>11, <3>1
    <3>3. PICK m \in seqs : \A s \in seqs : s <= m
      <4> HIDE DEF seqs
      <4> QED BY <1>4, <3>2, GreatestExists
    <3>4. PICK b \in group(a.recipient) : b.seq = m
      OBVIOUS
    <3>5. \A d \in group(a.recipient) : d.seq <= b.seq
      BY <3>3, <3>4
    <3>6. b \in aliases' /\ b.note = n /\ b.recipient = a.recipient /\ a.note = n
      BY <1>8, <2>2, <3>4
    <3> DEFINE r == [seq |-> b.seq, note |-> n, recipient |-> b.recipient]
    <3>7. r \in rows
      BY <3>4, <3>5, <3>6 DEF rows
    <3>8. CASE \A l \in logical : ~LogicalTaken(l, r)
      <4>1. r \in logical'
        BY <1>3, <3>7, <3>8
      <4> QED
        BY <3>6, <4>1
    <3>9. ASSUME NEW l \in logical, LogicalTaken(l, r)
          PROVE  l.note = a.note /\ l.recipient = a.recipient
      <4>1. CASE l.note = n /\ l.recipient = b.recipient
        BY <3>6, <4>1
      <4>2. CASE l.seq = b.seq
        <5>1. PICK d \in aliases : SameRow(d, l)
          BY DEF Origin
        <5>2. d = b
          BY <1>7, <1>12, <3>6, <4>2, <5>1 DEF SameRow
        <5> QED
          BY <3>6, <5>1, <5>2 DEF SameRow
      <4> QED
        BY <3>9, <4>1, <4>2 DEF LogicalTaken
    <3> QED
      BY <1>7, <3>8, <3>9
  <2> QED
    BY <2>1, <2>2
<1>18. OneLogicalDelivery'
  BY <1>11, <1>12, <1>16, <1>17 DEF OneLogicalDelivery
<1>19. routes' \in [Note -> SUBSET RouteSets]
  BY <1>1, <1>3 DEF TypeOK
<1>20. logical' \subseteq LogicalRow /\ \A l \in logical' : l \in logical \/ nextSeq <= l.seq
  BY <1>6, <1>14
<1> QED
  BY <1>4, <1>7, <1>9, <1>15, <1>18, <1>19, <1>20
-----------------------------------------------------------------------------
(***************************************************************************)
(* The invariant is preserved                                              *)
(***************************************************************************)

\* What the type invariant says of single elements.
LEMMA ElementTypes ==
    ASSUME TypeOK
    PROVE  /\ nextSeq \in Nat
           /\ \A a \in aliases : /\ a.seq \in Nat /\ a.note \in Note /\ a.recipient \in Principal
           /\ \A l \in logical : /\ l.seq \in Nat /\ l.note \in Note /\ l.recipient \in Principal
           /\ \A c \in Consumer : watermark[c] \in Nat /\ Owner[c] \in Principal
           /\ \A cu \in cursors : cu.seq \in Nat /\ cu.consumer \in Consumer
           /\ \A th \in Thread : fetch[th].pc # "idle" => fetch[th] \in Fetch
           /\ \A th \in Thread : ack[th].pc = "commit" => ack[th] \in Ack
BY InboxAssumption DEF TypeOK, AliasRow, LogicalRow, Cursor, NoFetch, NoAck

\* The fetch, the acknowledgement and the cursors that a step leaves alone are
\* still good when the tables have grown.
LEMMA FetchStays ==
    ASSUME Inv, TypeOK', Grows, NEW th \in Thread, fetch'[th] = fetch[th]
    PROVE  FetchGood(th)'
<1>1. FetchGood(th)
  BY DEF Inv
<1>2. nextSeq \in Nat /\ nextSeq' \in Nat
  BY DEF Inv, TypeOK
<1>3. CASE fetch[th].pc = "idle"
  BY <1>3 DEF FetchGood
<1>4. ASSUME fetch[th].pc # "idle"
      PROVE  /\ fetch[th] \in Fetch /\ fetch[th].high \in Nat /\ fetch[th].consumer \in Consumer
             /\ fetch[th].high < nextSeq
  BY <1>1, <1>4, ElementTypes DEF Fetch, FetchGood, Inv
<1>5. CASE fetch[th].pc = "rows"
  <2>1. /\ watermark[fetch[th].consumer] \in Nat /\ watermark'[fetch[th].consumer] \in Nat
        /\ watermark[fetch[th].consumer] <= watermark'[fetch[th].consumer]
    BY <1>4, <1>5 DEF Inv, TypeOK, Grows
  <2> QED
    BY <1>1, <1>2, <1>4, <1>5, <2>1 DEF FetchGood, Grows
<1>6. CASE fetch[th].pc = "read"
  <2> DEFINE f == fetch[th]
  <2>1. /\ watermark[f.consumer] \in Nat /\ watermark'[f.consumer] \in Nat
        /\ watermark[f.consumer] <= watermark'[f.consumer]
    BY <1>4, <1>6 DEF Inv, TypeOK, Grows
  <2>2. PageGood(f)
    BY <1>1, <1>6 DEF FetchGood
  <2>3. \A t \in f.todo : t.seq \in Nat /\ t.seq < nextSeq
    <3>1. \A t \in f.todo : \E a \in aliases : a.seq = t.seq
      BY <2>2 DEF PageGood
    <3>2. \A a \in aliases : a.seq < nextSeq /\ a.seq \in Nat
      BY ElementTypes DEF Inv, OneLogicalDelivery
    <3> QED
      BY <3>1, <3>2
  <2>4. \A l \in Of(Owner[f.consumer])' : l \in Of(Owner[f.consumer]) \/ nextSeq <= l.seq
    BY DEF Of, Grows
  <2>5. Of(Owner[f.consumer]) \subseteq Of(Owner[f.consumer])'
    BY DEF Of, Grows
  <2>6. \A l \in logical' : l.seq \in Nat
    BY DEF TypeOK, LogicalRow
  <2>7. \A l \in Of(Owner[f.consumer])' : l.seq \in Nat
    BY <2>6 DEF Of
  <2>8. PageGood(f)'
    <3>1. \A t \in f.todo : \E a \in aliases' :
            a.seq = t.seq /\ a.note = t.note /\ a.recipient = Owner[f.consumer]
      BY <2>2 DEF PageGood, Grows
    <3>2. f.model = "v2" => \A t \in f.todo : \E l \in Of(Owner[f.consumer])' :
            l.seq = t.seq /\ l.note = t.note
      BY <2>2, <2>5 DEF PageGood
    <3>3. f.model = "v2" => \A n \in f.items : \E l \in Of(Owner[f.consumer])' :
            l.note = n /\ l.seq <= f.high
      BY <2>2, <2>5 DEF PageGood
    <3>4. ASSUME NEW l \in Of(Owner[f.consumer])', l.seq <= f.high
          PROVE  Covered(f.consumer, l, f.items \cup f.skipped)'
      <4>1. l \in Of(Owner[f.consumer])
        BY <1>2, <1>4, <1>6, <2>4, <2>7, <3>4
      <4>2. Covered(f.consumer, l, f.items \cup f.skipped)
        BY <2>2, <3>4, <4>1 DEF PageGood
      <4> QED
        BY <2>1, <2>7, <4>2, fetch'[th] = fetch[th] DEF Covered
    <3>5. ASSUME NEW l \in Of(Owner[f.consumer])', NEW t \in f.todo, l.seq <= t.seq
          PROVE  l.seq <= f.high \/ [seq |-> l.seq, note |-> l.note] \in f.todo
      <4>1. l \in Of(Owner[f.consumer])
        BY <1>2, <2>3, <2>4, <2>7, <3>5
      <4> QED
        BY <2>2, <3>5, <4>1 DEF PageGood
    <3> QED
      BY <3>1, <3>2, <3>3, <3>4, <3>5, fetch'[th] = fetch[th] DEF PageGood, Covered, Of
  <2> QED
    BY <1>2, <1>4, <1>6, <2>8 DEF FetchGood, Grows
<1> QED
  <2>1. fetch[th].pc \in {"idle", "rows", "read"}
    BY <1>4 DEF Fetch
  <2> QED
    BY <1>3, <1>5, <1>6, <2>1

\* A cursor stays good: the deliveries that appear are above it.
LEMMA CursorStays ==
    ASSUME Inv, TypeOK', Grows, NEW cu \in cursors
    PROVE  CursorGood(cu)'
<1>1. CursorGood(cu)
  BY DEF Inv
<1>2. /\ nextSeq \in Nat /\ nextSeq' \in Nat /\ cu.seq \in Nat /\ cu.consumer \in Consumer
      /\ watermark[cu.consumer] \in Nat /\ watermark'[cu.consumer] \in Nat
      /\ watermark[cu.consumer] <= watermark'[cu.consumer]
      /\ cu.seq < nextSeq /\ nextSeq <= nextSeq'
  BY <1>1 DEF Inv, TypeOK, Cursor, CursorGood, Grows
<1>3. \A l \in Of(Owner[cu.consumer])' : l \in Of(Owner[cu.consumer]) \/ nextSeq <= l.seq
  BY DEF Of, Grows
<1>4. Of(Owner[cu.consumer]) \subseteq Of(Owner[cu.consumer])'
  BY DEF Of, Grows
<1>5. \A l \in Of(Owner[cu.consumer])' : l.seq \in Nat
  BY DEF TypeOK, LogicalRow, Of
<1>6. cu.seq < nextSeq'
  BY <1>2
<1>7. ASSUME cu.kind = "inbox", NEW l \in Of(Owner[cu.consumer])', l.seq <= cu.seq
      PROVE  Covered(cu.consumer, l, cu.items \cup cu.skipped)'
  <2>1. l \in Of(Owner[cu.consumer])
    BY <1>2, <1>3, <1>5, <1>7
  <2>2. Covered(cu.consumer, l, cu.items \cup cu.skipped)
    BY <1>1, <1>7, <2>1 DEF CursorGood
  <2> QED
    BY <1>2, <1>5, <2>2 DEF Covered
<1> QED
  BY <1>1, <1>4, <1>6, <1>7 DEF CursorGood

\* An acknowledgement in progress stays good: its watermark only rises.
LEMMA AckStays ==
    ASSUME Inv, TypeOK', Grows, NEW th \in Thread, ack'[th] = ack[th]
    PROVE  AckGood(th)'
<1> SUFFICES ASSUME ack[th].pc = "commit" PROVE AckGood(th)'
  BY DEF AckGood
<1>1. AckGood(th)
  BY DEF Inv
<1>2. ack[th] \in Ack
  BY ElementTypes DEF Inv
<1>3. /\ ack[th].consumer \in Consumer /\ ack[th].current \in Nat
      /\ ack[th].cursor.seq \in Nat
  BY <1>2 DEF Ack, Cursor
<1>4. /\ watermark[ack[th].consumer] \in Nat /\ watermark'[ack[th].consumer] \in Nat
      /\ watermark[ack[th].consumer] <= watermark'[ack[th].consumer]
  BY <1>3 DEF Inv, TypeOK, Grows
<1> QED
  BY <1>1, <1>3, <1>4 DEF AckGood, Grows

\* While no watermark moves, nothing is lost.
LEMMA NothingMoves ==
    ASSUME Inv, TypeOK', Grows, watermark' = watermark
    PROVE  BelowNext' /\ NoSilentLoss'
<1>1. \A c \in Consumer : watermark[c] \in Nat /\ watermark[c] < nextSeq
  BY DEF Inv, TypeOK, BelowNext
<1>2. nextSeq \in Nat /\ nextSeq' \in Nat /\ nextSeq <= nextSeq'
  BY DEF Inv, TypeOK, Grows
<1>3. BelowNext'
  BY <1>1, <1>2 DEF BelowNext
<1>4. ASSUME NEW c \in Consumer, NEW l \in logical',
             l.recipient = Owner[c], LegacyWatermark[c] < l.seq, l.seq <= watermark[c]
      PROVE  \E cu \in cursors' : /\ cu.consumer = c /\ cu.kind = "inbox"
                                  /\ l.note \in cu.items \cup cu.skipped
  <2>1. l.seq \in Nat
    BY DEF TypeOK, LogicalRow
  <2>2. l \in logical
    BY <1>1, <1>2, <1>4, <2>1 DEF Grows
  <2> QED
    BY <1>4, <2>2 DEF Inv, NoSilentLoss, Grows
<1> QED
  BY <1>3, <1>4 DEF NoSilentLoss

\* Receipts stay honest while the tables grow.
LEMMA HonestStays ==
    ASSUME Inv, TypeOK', Grows, NEW r \in receipts
    PROVE  /\ \E cu \in cursors' : cu.consumer = r.consumer /\ r.note \in cu.items
           /\ \E l \in logical' : /\ l.note = r.note /\ l.recipient = Owner[r.consumer]
                                  /\ l.seq <= watermark'[r.consumer]
<1>1. r.consumer \in Consumer
  BY DEF Inv, TypeOK
<1>2. /\ watermark[r.consumer] \in Nat /\ watermark'[r.consumer] \in Nat
      /\ watermark[r.consumer] <= watermark'[r.consumer]
  BY <1>1 DEF Inv, TypeOK, Grows
<1>3. PICK l \in logical : /\ l.note = r.note /\ l.recipient = Owner[r.consumer]
                           /\ l.seq <= watermark[r.consumer]
  BY DEF Inv, ReceiptsAreHonest
<1>4. l.seq \in Nat /\ l \in logical'
  BY DEF Inv, TypeOK, LogicalRow, Grows
<1>5. l.seq <= watermark'[r.consumer]
  BY <1>2, <1>3, <1>4
<1> QED
  BY <1>3, <1>4, <1>5 DEF Inv, ReceiptsAreHonest, Grows

-----------------------------------------------------------------------------
\* A step that leaves the tables and the watermarks alone has only to show
\* that the fetch, acknowledgement or cursor it changes is good.
LEMMA QuietStep ==
    ASSUME Inv, TypeOK', UNCHANGED <<aliases, logical, nextSeq, watermark, receipts>>,
           cursors \subseteq cursors',
           \A th \in Thread : fetch'[th] = fetch[th] \/ FetchGood(th)',
           \A th \in Thread : ack'[th] = ack[th] \/ AckGood(th)',
           \A cu \in cursors' : cu \in cursors \/ CursorGood(cu)'
    PROVE  Inv'
<1>1. Grows
  BY DEF Grows, Inv, TypeOK
<1>2. OneLogicalDelivery' /\ Origin'
  BY DEF Inv, OneLogicalDelivery, Origin
<1>3. BelowNext' /\ NoSilentLoss'
  BY <1>1, NothingMoves
<1>4. ReceiptsAreHonest'
  BY <1>1, HonestStays DEF ReceiptsAreHonest
<1>5. \A th \in Thread : FetchGood(th)' /\ AckGood(th)'
  BY <1>1, FetchStays, AckStays
<1>6. \A cu \in cursors' : CursorGood(cu)'
  BY <1>1, CursorStays
<1> QED
  BY <1>2, <1>3, <1>4, <1>5, <1>6 DEF Inv

\* _generate_deliveries_for_note: all it adds is above every page and watermark.
LEMMA GenerateDeliveriesStep ==
    ASSUME Inv, NEW n \in Note, NEW r \in RouteSets, GenerateDeliveries(n, r)
    PROVE  Inv'
<1>1. TypeOK /\ OneLogicalDelivery /\ Origin
  BY DEF Inv
<1>2. /\ aliases \subseteq aliases' /\ aliases' \subseteq AliasRow
      /\ logical \subseteq logical' /\ logical' \subseteq LogicalRow
      /\ nextSeq' \in Nat /\ nextSeq <= nextSeq'
      /\ routes' \in [Note -> SUBSET RouteSets]
      /\ \A l \in logical' : l \in logical \/ nextSeq <= l.seq
      /\ OneLogicalDelivery' /\ Origin'
  BY <1>1, GenerateTables
<1>3. UNCHANGED <<readable, watermark, cursors, receipts, fetch, ack>>
  BY DEF GenerateDeliveries
<1>4. TypeOK'
  BY <1>1, <1>2, <1>3 DEF TypeOK
<1>5. Grows
  BY <1>1, <1>2, <1>3 DEF Grows, TypeOK
<1>6. BelowNext' /\ NoSilentLoss'
  BY <1>3, <1>4, <1>5, NothingMoves
<1>7. ReceiptsAreHonest'
  BY <1>3, <1>4, <1>5, HonestStays DEF ReceiptsAreHonest
<1>8. \A th \in Thread : FetchGood(th)' /\ AckGood(th)'
  BY <1>3, <1>4, <1>5, FetchStays, AckStays
<1>9. \A cu \in cursors' : CursorGood(cu)'
  BY <1>3, <1>4, <1>5, CursorStays
<1> QED
  BY <1>2, <1>4, <1>6, <1>7, <1>8, <1>9 DEF Inv

\* An edit of a note touches no table of the inbox.
LEMMA ChangeReadableStep ==
    ASSUME Inv, NEW n \in Note, NEW p \in Principal, ChangeReadable(n, p)
    PROVE  Inv'
<1>1. TypeOK'
  BY DEF Inv, TypeOK, ChangeReadable
<1> QED
  BY <1>1, QuietStep DEF ChangeReadable

\* fetch_inbox, the watermark: the page starts where the consumer stands.
LEMMA FetchWatermarkStep ==
    ASSUME Inv, NEW th \in Thread, NEW c \in Consumer, NEW m \in Model, FetchWatermark(th, c, m)
    PROVE  Inv'
<1> DEFINE f == [pc |-> "rows", consumer |-> c, model |-> m, high |-> watermark[c],
                 todo |-> {}, items |-> {}, skipped |-> {}]
<1>1. watermark[c] \in Nat /\ watermark[c] < nextSeq
  BY DEF Inv, TypeOK, BelowNext
<1>2. f \in Fetch
  BY <1>1 DEF Fetch
<1>3. /\ fetch' = [fetch EXCEPT ![th] = f]
      /\ UNCHANGED <<aliases, logical, nextSeq, routes, readable, watermark, cursors, receipts, ack>>
  BY DEF FetchWatermark
<1>4. TypeOK'
  BY <1>2, <1>3 DEF Inv, TypeOK
<1>5. fetch'[th] = f /\ \A u \in Thread : u # th => fetch'[u] = fetch[u]
  BY <1>3 DEF Inv, TypeOK
<1>6. FetchGood(th)'
  BY <1>1, <1>3, <1>5 DEF FetchGood
<1> QED
  BY <1>3, <1>4, <1>5, <1>6, QuietStep

\* A page that is given up leaves nothing behind.
LEMMA DropFetchStep ==
    ASSUME Inv, NEW th \in Thread, DropFetch(th)
    PROVE  Inv'
<1>1. TypeOK'
  BY DEF Inv, TypeOK, DropFetch
<1>2. fetch'[th] = NoFetch /\ \A u \in Thread : u # th => fetch'[u] = fetch[u]
  BY DEF Inv, TypeOK, DropFetch
<1>3. FetchGood(th)'
  BY <1>2 DEF FetchGood, NoFetch
<1> QED
  BY <1>1, <1>2, <1>3, QuietStep DEF DropFetch

\* A kill loses only what the threads held.
LEMMA CrashStep ==
    ASSUME Inv, Crash
    PROVE  Inv'
<1>1. TypeOK'
  BY DEF Inv, TypeOK, Crash
<1>2. \A u \in Thread : fetch'[u] = NoFetch /\ ack'[u] = NoAck
  BY DEF Crash
<1>3. \A u \in Thread : FetchGood(u)' /\ AckGood(u)'
  BY <1>2 DEF FetchGood, AckGood, NoFetch, NoAck
<1> QED
  BY <1>1, <1>3, QuietStep DEF Crash

\* acknowledge_inbox, the checks: a legacy cursor is below the watermark.
LEMMA AckReadStep ==
    ASSUME Inv, NEW th \in Thread, NEW c \in Consumer, NEW cu \in cursors, AckRead(th, c, cu)
    PROVE  Inv'
<1> DEFINE a == [pc |-> "commit", consumer |-> c, cursor |-> cu, current |-> watermark[c]]
<1>1. watermark[c] \in Nat /\ cu \in Cursor
  BY DEF Inv, TypeOK
<1>2. a \in Ack
  BY <1>1 DEF Ack
<1>3. /\ ack' = [ack EXCEPT ![th] = a] /\ CursorAccepted(c, cu)
      /\ UNCHANGED <<aliases, logical, nextSeq, routes, readable, watermark, cursors, receipts, fetch>>
  BY DEF AckRead
<1>4. TypeOK'
  BY <1>2, <1>3 DEF Inv, TypeOK
<1>5. ack'[th] = a /\ \A u \in Thread : u # th => ack'[u] = ack[u]
  BY <1>3 DEF Inv, TypeOK
<1>6. AckGood(th)'
  BY <1>1, <1>3, <1>5 DEF AckGood, CursorAccepted
<1> QED
  BY <1>3, <1>4, <1>5, <1>6, QuietStep

\* _issue_cursor: a finished page becomes a good cursor.
LEMMA IssueCursorStep ==
    ASSUME Inv, NEW th \in Thread, IssueCursor(th)
    PROVE  Inv'
<1> DEFINE f == fetch[th]
           cu == [consumer |-> f.consumer, seq |-> f.high, model |-> f.model,
                  kind |-> "inbox", items |-> f.items, skipped |-> f.skipped]
<1>1. f \in Fetch /\ f.pc = "read"
  BY ElementTypes DEF Inv, IssueCursor
<1>2. cu \in Cursor
  BY <1>1 DEF Fetch, Cursor
<1>3. /\ fetch' = [fetch EXCEPT ![th] = NoFetch] /\ cursors' = cursors \cup {cu}
      /\ UNCHANGED <<aliases, logical, nextSeq, routes, readable, watermark, receipts, ack>>
  BY DEF IssueCursor
<1>4. TypeOK'
  BY <1>2, <1>3 DEF Inv, TypeOK
<1>5. fetch'[th] = NoFetch /\ \A u \in Thread : u # th => fetch'[u] = fetch[u]
  BY <1>3 DEF Inv, TypeOK
<1>6. FetchGood(th)'
  BY <1>5 DEF FetchGood, NoFetch
<1>7. FetchGood(th) /\ PageGood(f) /\ f.high < nextSeq
  BY <1>1 DEF Inv, FetchGood
<1>8. ASSUME NEW d, d = cu
      PROVE  CursorGood(d)'
  <2>1. /\ d.consumer = f.consumer /\ d.seq = f.high /\ d.model = f.model
        /\ d.items = f.items /\ d.skipped = f.skipped
    BY <1>8
  <2>2. d.seq < nextSeq'
    BY <1>3, <1>7, <2>1
  <2>3. \A l \in Of(Owner[f.consumer]) :
          l.seq <= f.high => Covered(f.consumer, l, f.items \cup f.skipped)
    BY <1>7 DEF PageGood
  <2>4. f.model = "v2" => \A n \in f.items : \E l \in Of(Owner[f.consumer]) :
          l.note = n /\ l.seq <= f.high
    BY <1>7 DEF PageGood
  <2>5. \A l \in Of(Owner[d.consumer])' :
          l.seq <= d.seq => Covered(d.consumer, l, d.items \cup d.skipped)'
    <3> HIDE DEF f
    <3> QED BY <1>3, <2>1, <2>3 DEF Of, Covered
  <2>6. d.model = "v2" => \A n \in d.items : \E l \in Of(Owner[d.consumer])' :
          l.note = n /\ l.seq <= d.seq
    <3> HIDE DEF f
    <3> QED BY <1>3, <2>1, <2>4 DEF Of
  <2> QED
    BY <2>2, <2>5, <2>6 DEF CursorGood
<1>9. \A d \in cursors' : d \in cursors \/ CursorGood(d)'
  BY <1>3, <1>8
<1> QED
  BY <1>3, <1>4, <1>5, <1>6, <1>9, QuietStep

\* fetch_inbox, the SELECT: a page of either model has no holes.
LEMMA FetchRowsStep ==
    ASSUME Inv, NEW th \in Thread, FetchRows(th)
    PROVE  Inv'
<1> DEFINE f == fetch[th]
           rows == Pending(f.model, Owner[f.consumer], f.high)
           g == [f EXCEPT !.pc = "read", !.todo = Page(rows)]
<1>1. f \in Fetch /\ f.pc = "rows"
  BY ElementTypes DEF Inv, FetchRows
<1>2. /\ fetch' = [fetch EXCEPT ![th] = g]
      /\ UNCHANGED <<aliases, logical, nextSeq, routes, readable, watermark, cursors, receipts, ack>>
  BY <1>1 DEF FetchRows, Fetch, Inv, TypeOK
<1>3. /\ f.high \in Nat /\ f.consumer \in Consumer /\ f.model \in Model
      /\ watermark[f.consumer] \in Nat
      /\ f.high < nextSeq /\ f.high <= watermark[f.consumer] /\ f.items = {} /\ f.skipped = {}
  BY <1>1, ElementTypes DEF Fetch, Inv, FetchGood
<1>4. rows \in SUBSET Row
  BY ElementTypes DEF Inv, Pending, Row
<1>5. \A t \in rows : \E a \in aliases :
        a.seq = t.seq /\ a.note = t.note /\ a.recipient = Owner[f.consumer]
  <2>1. ASSUME NEW t \in rows
        PROVE  \E a \in aliases \cup logical :
                 a.seq = t.seq /\ a.note = t.note /\ a.recipient = Owner[f.consumer]
    BY DEF Pending
  <2>2. \A l \in logical : \E a \in aliases :
          a.seq = l.seq /\ a.note = l.note /\ a.recipient = l.recipient
    BY DEF Inv, Origin, SameRow
  <2> QED
    BY <2>1, <2>2
<1>6. \A t \in rows : t.seq < nextSeq
  BY <1>5 DEF Inv, OneLogicalDelivery
<1>7. \A q, r \in rows : q.seq = r.seq => q = r
  <2> SUFFICES ASSUME NEW q \in rows, NEW r \in rows, q.seq = r.seq PROVE q = r
    OBVIOUS
  <2>1. q.note = r.note
    BY <1>5 DEF Inv, OneLogicalDelivery
  <2> QED
    BY <1>4, <2>1 DEF Row
<1>8. Page(rows) \subseteq rows
  BY DEF Page
<1>9. nextSeq \in Nat
  BY DEF Inv, TypeOK
<1>10. g \in Fetch
  BY <1>1, <1>4, <1>8 DEF Fetch
<1>11. TypeOK'
  BY <1>2, <1>10 DEF Inv, TypeOK
<1>12. fetch'[th] = g /\ \A u \in Thread : u # th => fetch'[u] = fetch[u]
  BY <1>2 DEF Inv, TypeOK
<1>13. f.model = "v2" => \A t \in rows : \E l \in Of(Owner[f.consumer]) :
         l.seq = t.seq /\ l.note = t.note
  BY DEF Pending, Of
\* A logical delivery above the watermark is in the inbox of either model.
<1>14. ASSUME NEW l \in Of(Owner[f.consumer])
       PROVE  l.seq <= f.high \/ [seq |-> l.seq, note |-> l.note] \in rows
  <2>1. l \in logical /\ l.recipient = Owner[f.consumer] /\ l.seq \in Nat
    BY ElementTypes DEF Of, Inv
  <2>2. CASE f.model = "v1"
    <3>1. PICK a \in aliases : a.seq = l.seq /\ a.note = l.note /\ a.recipient = l.recipient
      BY <2>1 DEF Inv, Origin, SameRow
    <3> QED
      BY <1>3, <2>1, <2>2, <3>1 DEF Pending
  <2>3. CASE f.model # "v1"
    BY <1>3, <2>1, <2>3 DEF Pending
  <2> QED
    BY <2>2, <2>3
<1>15. ASSUME NEW l \in Of(Owner[f.consumer]), NEW t \in Page(rows), l.seq <= t.seq
       PROVE  l.seq <= f.high \/ [seq |-> l.seq, note |-> l.note] \in Page(rows)
  <2> DEFINE q == [seq |-> l.seq, note |-> l.note]
  <2>1. ASSUME q \in rows
        PROVE  q \in Page(rows)
    <3>1. q.seq <= t.seq
      BY <1>15
    <3> HIDE DEF q, rows
    <3> QED
      BY <1>4, <1>6, <1>7, <1>9, <2>1, <3>1, PageClosed
  <2> QED
    BY <1>14, <2>1
<1>16. ASSUME NEW l \in Of(Owner[f.consumer]), l.seq <= f.high
       PROVE  l.seq <= watermark[f.consumer]
  <2>1. l.seq \in Nat
    BY ElementTypes DEF Of, Inv
  <2> QED
    BY <1>3, <1>16, <2>1
<1>17. /\ g.pc = "read" /\ g.consumer = f.consumer /\ g.model = f.model /\ g.high = f.high
       /\ g.todo = Page(rows) /\ g.items = {} /\ g.skipped = {}
  BY <1>1, <1>3 DEF Fetch
<1>18. PageGood(g)
  <2> HIDE DEF g, rows, f
  <2> QED
    BY <1>5, <1>8, <1>13, <1>15, <1>16, <1>17 DEF PageGood, Covered
<1>19. FetchGood(th)'
  <2>1. PageGood(fetch[th])'
    <3> HIDE DEF g
    <3> QED BY <1>2, <1>12, <1>18 DEF PageGood, Covered, Of
  <2> QED
    BY <1>2, <1>3, <1>12, <1>17, <2>1 DEF FetchGood
<1> QED
  BY <1>2, <1>11, <1>12, <1>19, QuietStep

\* fetch_inbox, one turn of the loop: the row that is passed becomes covered.
LEMMA ReadNoteStep ==
    ASSUME Inv, NEW th \in Thread, ReadNote(th)
    PROVE  Inv'
<1> DEFINE f == fetch[th]
           p == Owner[f.consumer]
<1>1. f \in Fetch /\ f.pc = "read"
  BY ElementTypes DEF Inv, ReadNote
<1>2. /\ f.high \in Nat /\ f.high < nextSeq /\ PageGood(f) /\ f.consumer \in Consumer
      /\ f.todo \subseteq Row /\ nextSeq \in Nat
  BY <1>1 DEF Fetch, Inv, FetchGood, TypeOK
<1>3. PICK r \in f.todo :
        /\ \A q \in f.todo : r.seq <= q.seq
        /\ fetch' = [fetch EXCEPT
              ![th] = [f EXCEPT
                 !.todo = f.todo \ {r},
                 !.high = IF r.seq > f.high THEN r.seq ELSE f.high,
                 !.items = IF <<r.note, Owner[f.consumer]>> \in readable
                           THEN f.items \cup {r.note} ELSE f.items,
                 !.skipped = IF <<r.note, Owner[f.consumer]>> \in readable
                             THEN f.skipped ELSE f.skipped \cup {r.note}]]
  BY DEF ReadNote
<1>4. UNCHANGED <<aliases, logical, nextSeq, routes, readable, watermark, cursors, receipts, ack>>
  BY DEF ReadNote
<1>5. PICK g : /\ fetch' = [fetch EXCEPT ![th] = g] /\ g \in Fetch
               /\ g.pc = "read" /\ g.consumer = f.consumer /\ g.model = f.model
               /\ g.todo = f.todo \ {r}
               /\ g.high = (IF r.seq > f.high THEN r.seq ELSE f.high)
               /\ g.items \cup g.skipped = f.items \cup f.skipped \cup {r.note}
               /\ g.items \subseteq f.items \cup {r.note}
  <2> DEFINE g == [f EXCEPT
                 !.todo = f.todo \ {r},
                 !.high = IF r.seq > f.high THEN r.seq ELSE f.high,
                 !.items = IF <<r.note, Owner[f.consumer]>> \in readable
                           THEN f.items \cup {r.note} ELSE f.items,
                 !.skipped = IF <<r.note, Owner[f.consumer]>> \in readable
                             THEN f.skipped ELSE f.skipped \cup {r.note}]
  <2>1. r.seq \in Nat /\ r.note \in Note
    BY <1>2 DEF Row
  <2>2. g \in Fetch
    BY <1>1, <2>1 DEF Fetch
  <2>3. /\ g.pc = "read" /\ g.consumer = f.consumer /\ g.model = f.model
        /\ g.todo = f.todo \ {r}
        /\ g.high = (IF r.seq > f.high THEN r.seq ELSE f.high)
        /\ g.items = (IF <<r.note, Owner[f.consumer]>> \in readable
                           THEN f.items \cup {r.note} ELSE f.items)
        /\ g.skipped = (IF <<r.note, Owner[f.consumer]>> \in readable
                             THEN f.skipped ELSE f.skipped \cup {r.note})
    BY <1>1 DEF Fetch
  <2>4. fetch' = [fetch EXCEPT ![th] = g]
    BY <1>3
  <2> HIDE DEF g, f
  <2>5. /\ g.items \cup g.skipped = f.items \cup f.skipped \cup {r.note}
        /\ g.items \subseteq f.items \cup {r.note}
    BY <2>3
  <2> QED
    BY <2>2, <2>3, <2>4, <2>5
<1>6. TypeOK'
  BY <1>4, <1>5 DEF Inv, TypeOK
<1>7. fetch'[th] = g /\ \A u \in Thread : u # th => fetch'[u] = fetch[u]
  BY <1>5 DEF Inv, TypeOK
<1>8. \A l \in Of(p) : l \in logical /\ l.seq \in Nat /\ l.recipient = p
  BY ElementTypes DEF Of, Inv
<1>9. /\ r.seq \in Nat /\ \E a \in aliases : a.seq = r.seq /\ a.note = r.note /\ a.recipient = p
  BY <1>2 DEF PageGood, Row
<1>10. r.seq < nextSeq
  BY <1>9 DEF Inv, OneLogicalDelivery
<1>11. g.high \in Nat /\ g.high < nextSeq /\ f.high <= g.high /\ r.seq <= g.high
  BY <1>2, <1>5, <1>9, <1>10
\* A delivery with the number of the row that is read is the one it stands for.
<1>12. ASSUME NEW l \in Of(p), l.seq = r.seq
       PROVE  l.note = r.note
  BY <1>8, <1>9, <1>12 DEF Inv, Origin, SameRow, OneLogicalDelivery
<1>13. ASSUME NEW l \in Of(p), l.seq <= g.high
       PROVE  Covered(f.consumer, l, g.items \cup g.skipped)
  <2>1. CASE l.seq <= f.high
    BY <1>2, <1>5, <2>1 DEF PageGood, Covered
  <2>2. CASE ~(l.seq <= f.high)
    <3>1. l.seq <= r.seq
      BY <1>2, <1>5, <1>8, <1>9, <1>13, <2>2
    <3>2. [seq |-> l.seq, note |-> l.note] \in f.todo
      BY <1>2, <2>2, <3>1 DEF PageGood
    <3>3. r.seq <= l.seq
      BY <1>3, <3>2
    <3>4. l.note = r.note
      BY <1>8, <1>9, <1>12, <3>1, <3>3
    <3> QED
      BY <1>5, <3>4 DEF Covered
  <2> QED
    BY <2>1, <2>2
<1>14. ASSUME NEW l \in Of(p), NEW t \in g.todo, l.seq <= t.seq
       PROVE  l.seq <= g.high \/ [seq |-> l.seq, note |-> l.note] \in g.todo
  <2>1. l.seq <= f.high \/ [seq |-> l.seq, note |-> l.note] \in f.todo
    BY <1>2, <1>5, <1>14 DEF PageGood
  <2>2. CASE l.seq <= f.high
    BY <1>2, <1>8, <1>11, <2>2
  <2>3. CASE [seq |-> l.seq, note |-> l.note] = r
    <3>1. l.seq = r.seq
      BY <2>3
    <3> QED
      BY <1>11, <3>1
  <2> QED
    BY <1>5, <2>1, <2>2, <2>3
<1>15. ASSUME g.model = "v2", NEW n \in g.items
       PROVE  \E l \in Of(p) : l.note = n /\ l.seq <= g.high
  <2>1. CASE n \in f.items
    <3>1. PICK l \in Of(p) : l.note = n /\ l.seq <= f.high
      BY <1>2, <1>5, <1>15, <2>1 DEF PageGood
    <3>2. l.seq <= g.high
      BY <1>2, <1>8, <1>11, <3>1
    <3> QED
      BY <3>1, <3>2
  <2>2. CASE n = r.note
    <3>1. PICK l \in Of(p) : l.seq = r.seq /\ l.note = r.note
      BY <1>2, <1>5, <1>15 DEF PageGood
    <3> QED
      BY <1>11, <2>2, <3>1
  <2> QED
    BY <1>5, <1>15, <2>1, <2>2
<1>16. PageGood(g)
  <2>1. \A t \in g.todo : \E a \in aliases :
          a.seq = t.seq /\ a.note = t.note /\ a.recipient = p
    BY <1>2, <1>5 DEF PageGood
  <2>2. g.model = "v2" => \A t \in g.todo : \E l \in Of(p) : l.seq = t.seq /\ l.note = t.note
    BY <1>2, <1>5 DEF PageGood
  <2>3. p = Owner[g.consumer] /\ f.consumer = g.consumer
    BY <1>5
  <2> HIDE DEF p, f
  <2> QED
    BY <1>13, <1>14, <1>15, <2>1, <2>2, <2>3 DEF PageGood
<1>17. FetchGood(th)'
  <2>1. PageGood(fetch[th])'
    BY <1>4, <1>7, <1>16 DEF PageGood, Covered, Of
  <2> QED
    BY <1>4, <1>5, <1>7, <1>11, <2>1 DEF FetchGood
<1> QED
  BY <1>4, <1>6, <1>7, <1>17, QuietStep

\* acknowledge_inbox, the commit: the watermark passes only covered deliveries.
LEMMA AckCommitStep ==
    ASSUME Inv, NEW th \in Thread, AckCommit(th)
    PROVE  Inv'
<1> DEFINE c == ack[th].consumer
           cu == ack[th].cursor
           current == ack[th].current
           newValue == NewValue(current, cu.seq)
<1>1. ack[th] \in Ack /\ ack[th].pc = "commit"
  BY ElementTypes DEF Inv, AckCommit
<1>2. /\ c \in Consumer /\ current \in Nat /\ cu.seq \in Nat /\ cu.kind \in {"inbox", "unknown"}
      /\ cu.model \in Model /\ cu.items \in SUBSET Note
  BY <1>1 DEF Ack, Cursor
<1>3. /\ cu \in cursors /\ cu.consumer = c /\ current <= watermark[c]
      /\ cu.kind = "unknown" => cu.seq <= watermark[c]
  BY <1>1 DEF Inv, AckGood
<1>4. CursorGood(cu) /\ watermark[c] \in Nat /\ nextSeq \in Nat /\ watermark[c] < nextSeq
  BY <1>2, <1>3 DEF Inv, TypeOK, BelowNext
<1>5. /\ receipts' = IF cu.seq > current
                     THEN receipts \cup {[consumer |-> c, note |-> l.note] :
                                           l \in ReceiptRows(cu, newValue)}
                     ELSE receipts
      /\ watermark' = [watermark EXCEPT ![c] = Upsert(@, newValue)]
      /\ ack' = [ack EXCEPT ![th] = NoAck]
      /\ UNCHANGED <<aliases, logical, nextSeq, routes, readable, cursors, fetch>>
  BY DEF AckCommit
<1> HIDE DEF c, cu, current
<1>6. /\ newValue \in Nat /\ cu.seq <= newValue /\ current <= newValue
      /\ newValue = cu.seq \/ newValue = current
  BY <1>2 DEF NewValue
<1>7. /\ watermark'[c] \in Nat /\ watermark[c] <= watermark'[c] /\ newValue <= watermark'[c]
      /\ watermark'[c] = watermark[c] \/ watermark'[c] = cu.seq
  <2>1. watermark'[c] = Upsert(watermark[c], newValue)
    BY <1>2, <1>5 DEF Inv, TypeOK
  <2> HIDE DEF newValue
  <2> QED
    BY <1>2, <1>3, <1>4, <1>6, <2>1 DEF Upsert
<1>8. \A d \in Consumer : d # c => watermark'[d] = watermark[d]
  BY <1>5 DEF Inv, TypeOK
<1>9. watermark' \in [Consumer -> Nat]
  BY <1>2, <1>4, <1>5, <1>7 DEF Inv, TypeOK
<1>10. receipts' \subseteq [consumer : Consumer, note : Note]
  <2>1. \A l \in ReceiptRows(cu, newValue) : l.note \in Note
    BY ElementTypes DEF ReceiptRows, Inv
  <2> QED
    BY <1>2, <1>5, <2>1 DEF Inv, TypeOK
<1>11. TypeOK'
  BY <1>5, <1>9, <1>10 DEF Inv, TypeOK
<1>12. Grows
  <2>1. \A d \in Consumer : watermark[d] <= watermark'[d]
    BY <1>7, <1>8 DEF Inv, TypeOK
  <2> QED
    BY <1>5, <2>1 DEF Grows, Inv, TypeOK
<1>13. OneLogicalDelivery' /\ Origin'
  BY <1>5 DEF Inv, OneLogicalDelivery, Origin
<1>14. BelowNext'
  <2>1. cu.seq < nextSeq
    BY <1>4 DEF CursorGood
  <2> QED
    BY <1>4, <1>5, <1>7, <1>8, <2>1 DEF Inv, BelowNext
\* A delivery that the watermark passes is on the acknowledged page.
<1>15. ASSUME NEW d \in Consumer, NEW l \in logical,
              l.recipient = Owner[d], LegacyWatermark[d] < l.seq, l.seq <= watermark'[d]
       PROVE  \E q \in cursors : /\ q.consumer = d /\ q.kind = "inbox"
                                 /\ l.note \in q.items \cup q.skipped
  <2>1. CASE l.seq <= watermark[d]
    BY <1>15, <2>1 DEF Inv, NoSilentLoss
  <2>2. CASE ~(l.seq <= watermark[d])
    <3>1. d = c /\ l.seq <= cu.seq
      BY <1>7, <1>8, <1>15, <2>2
    <3>2. l.seq \in Nat /\ cu.kind = "inbox"
      BY <1>2, <1>3, <1>4, <2>2, <3>1, ElementTypes DEF Inv
    <3>3. Covered(c, l, cu.items \cup cu.skipped)
      BY <1>3, <1>4, <1>15, <3>1, <3>2 DEF CursorGood, Of
    <3> QED
      BY <1>3, <2>2, <3>1, <3>2, <3>3 DEF Covered
  <2> QED
    BY <2>1, <2>2
<1>16. NoSilentLoss'
  BY <1>5, <1>15 DEF NoSilentLoss
<1>17. ASSUME NEW l \in ReceiptRows(cu, newValue)
       PROVE  /\ l \in logical /\ l.recipient = Owner[c] /\ l.note \in cu.items
              /\ l.seq <= watermark'[c]
  <2>1. /\ l \in logical /\ l.recipient = Owner[c] /\ l.note \in cu.items /\ l.seq \in Nat
        /\ cu.model = "v2" \/ newValue >= l.seq
    BY <1>3, ElementTypes DEF ReceiptRows, Inv
  <2>2. CASE newValue >= l.seq
    BY <1>6, <1>7, <2>1, <2>2
  <2>3. CASE cu.model = "v2"
    <3>1. PICK k \in logical : k.recipient = Owner[c] /\ k.note = l.note /\ k.seq <= cu.seq
      BY <1>3, <1>4, <2>1, <2>3 DEF CursorGood, Of
    <3>2. k = l
      BY <2>1, <3>1 DEF Inv, OneLogicalDelivery
    <3> QED
      BY <1>2, <1>6, <1>7, <2>1, <3>1, <3>2
  <2> QED
    BY <2>1, <2>2, <2>3
<1>18. ReceiptsAreHonest'
  <2>1. ASSUME NEW r \in receipts', r \notin receipts
        PROVE  /\ \E q \in cursors' : q.consumer = r.consumer /\ r.note \in q.items
               /\ \E l \in logical' : /\ l.note = r.note /\ l.recipient = Owner[r.consumer]
                                      /\ l.seq <= watermark'[r.consumer]
    <3>1. PICK l \in ReceiptRows(cu, newValue) : r = [consumer |-> c, note |-> l.note]
      BY <1>5, <2>1
    <3>2. r.consumer = c /\ r.note = l.note
      BY <3>1
    <3> QED
      BY <1>3, <1>5, <1>17, <3>2
  <2> QED
    BY <1>11, <1>12, <2>1, HonestStays DEF ReceiptsAreHonest
<1>19. \A u \in Thread : FetchGood(u)'
  BY <1>5, <1>11, <1>12, FetchStays
<1>20. \A u \in Thread : AckGood(u)'
  <2>1. ack'[th] = NoAck /\ \A u \in Thread : u # th => ack'[u] = ack[u]
    BY <1>5 DEF Inv, TypeOK
  <2>2. AckGood(th)'
    BY <2>1 DEF AckGood, NoAck
  <2> QED
    BY <1>11, <1>12, <2>1, <2>2, AckStays
<1>21. \A q \in cursors' : CursorGood(q)'
  BY <1>5, <1>11, <1>12, CursorStays
<1> QED
  BY <1>11, <1>13, <1>14, <1>16, <1>18, <1>19, <1>20, <1>21 DEF Inv

\* The migration leaves a database that satisfies the invariant.
LEMMA InitInv ==
    ASSUME Init
    PROVE  Inv
<1>1. /\ LegacyRows \subseteq AliasRow /\ \A a, b \in LegacyRows : a.seq = b.seq => a = b
      /\ LegacyNextSeq \in Nat /\ \A a \in LegacyRows : a.seq < LegacyNextSeq
  BY InboxAssumption
<1>2. \A a \in LegacyRows : /\ a.seq \in Nat /\ a.note \in Note /\ a.recipient \in Principal
  BY <1>1 DEF AliasRow
<1>3. ASSUME NEW l \in logical
      PROVE  \E a \in LegacyRows :
               /\ l = [seq |-> a.seq, note |-> a.note, recipient |-> a.recipient]
               /\ \A b \in LegacyRows :
                    b.note = a.note /\ b.recipient = a.recipient => b.seq <= a.seq
  BY DEF Init, Backfill
<1>4. logical \subseteq LogicalRow
  BY <1>2, <1>3 DEF LogicalRow
<1>5. \A cu \in LegacyCursors : /\ cu \in Cursor /\ cu.seq < LegacyNextSeq
                                /\ cu.kind = "unknown" /\ cu.model = "v1"
  <2>1. \A cu \in LegacyCursors : cu.seq < LegacyNextSeq
    BY InboxAssumption
  <2>2. LegacyCursors \subseteq [consumer : Consumer, seq : Nat, model : {"v1"},
                                 kind : {"unknown"}, items : {{}}, skipped : {{}}]
    BY InboxAssumption
  <2> QED
    BY <2>1, <2>2 DEF Cursor, Model
<1>6. TypeOK
  <2>1. LegacyWatermark \in [Consumer -> Nat] /\ LegacyNextSeq \in Nat
    BY InboxAssumption
  <2> QED
    BY <1>1, <1>4, <1>5, <2>1 DEF Init, TypeOK
<1>7. Origin
  BY <1>3 DEF Init, Origin, SameRow
<1>8. OneLogicalDelivery
  <2>1. ASSUME NEW k \in logical, NEW l \in logical,
               k.seq = l.seq \/ (k.note = l.note /\ k.recipient = l.recipient)
        PROVE  k = l
    <3>1. PICK a \in LegacyRows :
            /\ k = [seq |-> a.seq, note |-> a.note, recipient |-> a.recipient]
            /\ \A b \in LegacyRows :
                 b.note = a.note /\ b.recipient = a.recipient => b.seq <= a.seq
      BY <1>3
    <3>2. PICK d \in LegacyRows :
            /\ l = [seq |-> d.seq, note |-> d.note, recipient |-> d.recipient]
            /\ \A b \in LegacyRows :
                 b.note = d.note /\ b.recipient = d.recipient => b.seq <= d.seq
      BY <1>3
    <3>3. a.seq = d.seq
      BY <1>2, <2>1, <3>1, <3>2
    <3> QED
      BY <1>1, <3>1, <3>2, <3>3
  <2>2. ASSUME NEW a \in LegacyRows
        PROVE  \E l \in logical : l.note = a.note /\ l.recipient = a.recipient
    <3> DEFINE group == {b \in LegacyRows : b.note = a.note /\ b.recipient = a.recipient}
               seqs == {b.seq : b \in group}
    <3>1. seqs \in SUBSET Nat /\ seqs # {} /\ \A s \in seqs : s < LegacyNextSeq
      BY <1>1, <1>2
    <3>2. PICK m \in seqs : \A s \in seqs : s <= m
      <4> HIDE DEF seqs
      <4> QED BY <1>1, <3>1, GreatestExists
    <3>3. PICK b \in group : b.seq = m
      OBVIOUS
    <3>4. \A d \in group : d.seq <= b.seq
      BY <3>2, <3>3
    <3>5. [seq |-> b.seq, note |-> b.note, recipient |-> b.recipient] \in Backfill(LegacyRows)
      BY <3>3, <3>4 DEF Backfill
    <3> QED
      BY <3>3, <3>5 DEF Init
  <2> QED
    BY <1>1, <2>1, <2>2 DEF Init, OneLogicalDelivery
<1>9. BelowNext
  BY InboxAssumption DEF Init, BelowNext
<1>10. \A th \in Thread : FetchGood(th) /\ AckGood(th)
  BY DEF Init, FetchGood, AckGood, NoFetch, NoAck
<1>11. \A cu \in cursors : CursorGood(cu)
  BY <1>5 DEF Init, CursorGood
<1>12. NoSilentLoss
  <2> SUFFICES ASSUME NEW c \in Consumer, NEW l \in logical,
                      LegacyWatermark[c] < l.seq, l.seq <= watermark[c]
               PROVE  FALSE
    BY DEF NoSilentLoss
  <2>1. l.seq \in Nat /\ LegacyWatermark[c] \in Nat
    BY <1>6, ElementTypes, InboxAssumption
  <2> QED
    BY <2>1 DEF Init
<1>13. ReceiptsAreHonest
  BY DEF Init, ReceiptsAreHonest
<1> QED
  BY <1>6, <1>7, <1>8, <1>9, <1>10, <1>11, <1>12, <1>13 DEF Inv

-----------------------------------------------------------------------------
\* Inv is an inductive invariant of Spec: every step of a thread, of the note
\* store and of a crash preserves it.
THEOREM InboxInvariant == Spec => []Inv
<1>1. Init => Inv
  BY InitInv
<1>2. Inv /\ [Next]_vars => Inv'
  <2> SUFFICES ASSUME Inv, [Next]_vars PROVE Inv'
    OBVIOUS
  <2>1. ASSUME NEW n \in Note, NEW r \in RouteSets, GenerateDeliveries(n, r) PROVE Inv'
    BY <2>1, GenerateDeliveriesStep
  <2>2. ASSUME NEW n \in Note, NEW p \in Principal, ChangeReadable(n, p) PROVE Inv'
    BY <2>2, ChangeReadableStep
  <2>3. ASSUME NEW th \in Thread, NEW c \in Consumer, NEW m \in Model, FetchWatermark(th, c, m)
        PROVE  Inv'
    BY <2>3, FetchWatermarkStep
  <2>4. ASSUME NEW th \in Thread, FetchRows(th) PROVE Inv'
    BY <2>4, FetchRowsStep
  <2>5. ASSUME NEW th \in Thread, ReadNote(th) PROVE Inv'
    BY <2>5, ReadNoteStep
  <2>6. ASSUME NEW th \in Thread, IssueCursor(th) PROVE Inv'
    BY <2>6, IssueCursorStep
  <2>7. ASSUME NEW th \in Thread, DropFetch(th) PROVE Inv'
    BY <2>7, DropFetchStep
  <2>8. ASSUME NEW th \in Thread, NEW c \in Consumer, NEW cu \in cursors, AckRead(th, c, cu)
        PROVE  Inv'
    BY <2>8, AckReadStep
  <2>9. ASSUME NEW th \in Thread, AckCommit(th) PROVE Inv'
    BY <2>9, AckCommitStep
  <2>10. CASE Crash
    BY <2>10, CrashStep
  <2>11. CASE UNCHANGED vars
    <3>1. TypeOK'
      BY <2>11 DEF vars, Inv, TypeOK
    <3> QED
      BY <2>11, <3>1, QuietStep DEF vars
  <2> QED
    BY <2>1, <2>2, <2>3, <2>4, <2>5, <2>6, <2>7, <2>8, <2>9, <2>10, <2>11 DEF Next
<1> QED
  BY <1>1, <1>2, PTL DEF Spec

\* The tables and the threads' local state keep their types.
THEOREM InboxTypeCorrect == Spec => []TypeOK
<1>1. Inv => TypeOK
  BY DEF Inv
<1> QED
  BY <1>1, InboxInvariant, PTL

\* INSERT OR IGNORE never leaves a note and recipient without a logical
\* delivery, nor with two, whatever routes were recorded before.
THEOREM DeliveriesUnique == Spec => []OneLogicalDelivery
<1>1. Inv => OneLogicalDelivery
  BY DEF Inv
<1> QED
  BY <1>1, InboxInvariant, PTL

\* A watermark passes only deliveries that a page of the consumer went over,
\* for every number of threads and every page size.
THEOREM NothingLost == Spec => []NoSilentLoss
<1>1. Inv => NoSilentLoss
  BY DEF Inv
<1> QED
  BY <1>1, InboxInvariant, PTL

\* A receipt is for a member of a page of its consumer and lies at or below
\* the consumer's watermark.
THEOREM ReceiptsHonest == Spec => []ReceiptsAreHonest
<1>1. Inv => ReceiptsAreHonest
  BY DEF Inv
<1> QED
  BY <1>1, InboxInvariant, PTL

\* Watermarks rise, and receipts and cursors stay, in every step.
THEOREM NeverBack == Spec => WatermarkMonotone
<1> DEFINE Kept == /\ \A c \in Consumer : watermark[c] <= watermark'[c]
                   /\ receipts \subseteq receipts' /\ cursors \subseteq cursors'
<1>1. TypeOK /\ [Next]_vars => [Kept]_vars
  <2> SUFFICES ASSUME TypeOK, Next PROVE Kept
    OBVIOUS
  <2>1. watermark \in [Consumer -> Nat]
    BY DEF TypeOK
  <2>2. ASSUME NEW th \in Thread, AckCommit(th) PROVE Kept
    <3>1. ack[th] \in Ack
      BY <2>2, ElementTypes DEF AckCommit
    <3>2. ack[th].consumer \in Consumer /\ ack[th].current \in Nat /\ ack[th].cursor.seq \in Nat
      BY <3>1 DEF Ack, Cursor
    <3>3. NewValue(ack[th].current, ack[th].cursor.seq) \in Nat
      BY <3>2 DEF NewValue
    <3>4. \A s, v \in Nat : s <= Upsert(s, v)
      BY DEF Upsert
    <3>5. watermark' = [watermark EXCEPT ![ack[th].consumer] =
                          Upsert(@, NewValue(ack[th].current, ack[th].cursor.seq))]
      BY <2>2 DEF AckCommit
    <3>6. \A c \in Consumer : watermark[c] <= watermark'[c]
      BY <2>1, <3>2, <3>3, <3>4, <3>5
    <3> QED
      BY <2>2, <3>6 DEF AckCommit
  <2>3. CASE UNCHANGED <<watermark, receipts>> /\ cursors \subseteq cursors'
    BY <2>1, <2>3
  <2>4. ASSUME NEW n \in Note, NEW r \in RouteSets, GenerateDeliveries(n, r) PROVE Kept
    BY <2>3, <2>4 DEF GenerateDeliveries
  <2> QED
    BY <2>2, <2>3, <2>4, ZenonT(60) DEF Next, ChangeReadable, FetchWatermark, FetchRows, ReadNote,
       IssueCursor, DropFetch, AckRead, Crash
<1> QED
  BY <1>1, InboxTypeCorrect, PTL DEF Spec, WatermarkMonotone

-----------------------------------------------------------------------------
(***************************************************************************)
(* The lifecycle answers are honest, from the invariant of the inbox.      *)
(***************************************************************************)

\* A consumer that has a receipt for a delivery has passed it: there is only
\* one logical delivery for the note and the recipient of the receipt.
LEMMA ReceiptMeansPassed ==
    ASSUME Inv, NEW l \in logical, NEW c \in AckRows(l)
    PROVE  c \in HistoricalRows(l)
<1>1. TypeOK /\ OneLogicalDelivery /\ ReceiptsAreHonest
  BY DEF Inv
<1>2. PICK r \in receipts : r.note = l.note /\ Owner[r.consumer] = l.recipient /\ c = r.consumer
  BY DEF AckRows
<1>3. c \in Consumer
  BY <1>1, <1>2 DEF TypeOK
<1>4. PICK k \in logical : /\ k.note = r.note /\ k.recipient = Owner[r.consumer]
                           /\ k.seq <= watermark[r.consumer]
  BY <1>1, <1>2 DEF ReceiptsAreHonest
<1>5. k = l
  BY <1>1, <1>2, <1>4 DEF OneLogicalDelivery
<1>6. l.seq \in Nat /\ watermark[c] \in Nat
  BY <1>1, <1>3, ElementTypes DEF TypeOK
<1> QED
  BY <1>2, <1>3, <1>4, <1>5, <1>6 DEF HistoricalRows

\* Whoever asks is told of the deliveries what the watermarks say.
THEOREM LifecycleHonest == Spec => []LifecycleIsHonest
<1>1. ASSUME Inv PROVE LifecycleIsHonest
  <2> SUFFICES ASSUME NEW n \in Note, NEW caller \in Caller,
                      NEW l \in VisibleDeliveries(n, caller)
               PROVE  LET fact == DeliveryFact(l, caller)
                          passed == {c \in Consumer : Owner[c] = l.recipient
                                                       /\ l.seq <= watermark[c]} IN
                      /\ fact.acknowledged <=> passed # {}
                      /\ fact.consumers \subseteq passed
    BY DEF LifecycleIsHonest
  <2> DEFINE passed == {c \in Consumer : Owner[c] = l.recipient /\ l.seq <= watermark[c]}
  <2>1. l \in logical
    BY DEF VisibleDeliveries
  <2>2. l.seq \in Nat /\ \A c \in Consumer : watermark[c] \in Nat
    BY <1>1, <2>1, ElementTypes DEF Inv, TypeOK
  <2>3. HistoricalRows(l) = passed
    BY <2>2 DEF HistoricalRows
  <2>4. AckRows(l) \subseteq passed
    BY <1>1, <2>1, <2>3, ReceiptMeansPassed
  <2>5. Acknowledgements(l) \subseteq passed /\ (Acknowledgements(l) # {} <=> passed # {})
    BY <2>3, <2>4 DEF Acknowledgements
  <2>6. DeliveryFact(l, caller).acknowledged = (Acknowledgements(l) # {})
    BY DEF DeliveryFact
  <2>7. DeliveryFact(l, caller).consumers \subseteq Acknowledgements(l)
    BY DEF DeliveryFact
  <2> QED
    BY <2>5, <2>6, <2>7
<1> QED
  BY <1>1, InboxInvariant, PTL

-----------------------------------------------------------------------------
(***************************************************************************)
(* The wake-up envelope is honest, from the invariant of the inbox.  What  *)
(* Wakeup chooses is shown to exist with a least counterexample.           *)
(***************************************************************************)

\* The least-number principle, for a set in the place of a predicate.
LEMMA LeastNat ==
    ASSUME NEW T, T \subseteq Nat, T # {}
    PROVE  \E m \in T : \A k \in T : m <= k
<1>1. PICK m \in T : \A k \in T : ~(<<k, m>> \in OpToRel(<, Nat))
  BY NatLessThanWellFounded, WFMin
<1>2. ASSUME NEW k \in T PROVE m <= k
  <2>1. ~(k < m)
    BY <1>1 DEF OpToRel
  <2> QED BY <2>1
<1> QED BY <1>2

\* The rows of S, each once, in the order of their sequence.
Ordered(s, S) ==
    /\ s \in [1..Cardinality(S) -> S]
    /\ ToSet(s) = S
    /\ \A i, j \in DOMAIN s : i < j => s[i].seq < s[j].seq

\* The least row before the others.
LEMMA OrderedCons ==
    ASSUME NEW S, IsFiniteSet(S), S \subseteq Row, NEW x \in S,
           \A r \in S : r # x => x.seq < r.seq,
           NEW t, Ordered(t, S \ {x})
    PROVE  \E s : Ordered(s, S)
<1>1. PICK n \in Nat : n = Cardinality(S \ {x}) /\ Cardinality(S) = n + 1
  <2>1. Cardinality(S) \in Nat /\ IsFiniteSet(S \ {x}) /\ Cardinality(S \ {x}) = Cardinality(S) - 1
    BY FS_CardinalityType, FS_RemoveElement
  <2>2. Cardinality(S \ {x}) \in Nat
    BY <2>1, FS_CardinalityType
  <2> QED BY <2>1, <2>2
<1>2. /\ t \in [1..n -> S \ {x}] /\ ToSet(t) = S \ {x}
      /\ \A i, j \in 1..n : i < j => t[i].seq < t[j].seq
  BY <1>1 DEF Ordered
<1> DEFINE s == [i \in 1..(n + 1) |-> IF i = 1 THEN x ELSE t[i - 1]]
<1>3. ASSUME NEW i \in 1..(n + 1), i # 1 PROVE i - 1 \in 1..n /\ s[i] = t[i - 1] /\ s[i] \in S \ {x}
  BY <1>2, <1>3
<1>4. s[1] = x /\ 1 \in 1..(n + 1)
  OBVIOUS
<1>5. s \in [1..(n + 1) -> S]
  BY <1>3, <1>4
<1>6. ToSet(s) = S
  <2>1. ASSUME NEW r \in S PROVE \E i \in 1..(n + 1) : s[i] = r
    <3>1. CASE r = x
      BY <1>4, <3>1
    <3>2. CASE r # x
      <4>1. PICK i \in 1..n : t[i] = r
        BY <1>2, <3>2 DEF ToSet
      <4>2. i + 1 \in 1..(n + 1) /\ i + 1 # 1 /\ (i + 1) - 1 = i
        OBVIOUS
      <4> QED BY <1>3, <4>1, <4>2
    <3> QED BY <3>1, <3>2
  <2> QED BY <1>5, <2>1 DEF ToSet
<1>7. ASSUME NEW i \in 1..(n + 1), NEW j \in 1..(n + 1), i < j PROVE s[i].seq < s[j].seq
  <2>1. j # 1 /\ j - 1 \in 1..n /\ s[j] = t[j - 1] /\ s[j] \in S \ {x}
    BY <1>3, <1>7
  <2>2. CASE i = 1
    BY <1>4, <2>1, <2>2
  <2>3. CASE i # 1
    <3>1. i - 1 \in 1..n /\ s[i] = t[i - 1] /\ i - 1 < j - 1
      BY <1>3, <1>7, <2>3
    <3> QED BY <1>2, <2>1, <3>1
  <2> QED BY <2>2, <2>3
<1> HIDE DEF s
<1> QED BY <1>1, <1>5, <1>6, <1>7 DEF Ordered

\* InSequence has something to choose.
LEMMA OrderedExists ==
    ASSUME NEW S, IsFiniteSet(S), S \subseteq Row, \A r, q \in S : r.seq = q.seq => r = q
    PROVE  \E s : Ordered(s, S)
<1> DEFINE T == {n \in Nat : \E U \in SUBSET S : Cardinality(U) = n /\ ~\E s : Ordered(s, U)}
<1>1. Cardinality(S) \in Nat
  BY FS_CardinalityType
<1> SUFFICES ASSUME T # {} PROVE FALSE
  BY <1>1
<1>2. PICK m \in T : \A k \in T : m <= k
  <2>1. T \subseteq Nat
    OBVIOUS
  <2> HIDE DEF T
  <2> QED BY <2>1, LeastNat
<1>3. PICK U \in SUBSET S : Cardinality(U) = m /\ ~\E s : Ordered(s, U)
  OBVIOUS
<1>4. IsFiniteSet(U)
  BY FS_Subset
<1>5. U # {}
  <2> SUFFICES ASSUME U = {} PROVE FALSE
    OBVIOUS
  <2>1. Cardinality(U) = 0
    BY FS_EmptySet
  <2> DEFINE e == [i \in 1..0 |-> i]
  <2>2. e \in [1..0 -> U] /\ DOMAIN e = {}
    OBVIOUS
  <2>3. Ordered(e, U)
    BY <2>1, <2>2 DEF Ordered, ToSet
  <2> QED BY <1>3, <2>3
<1>6. PICK x \in U : \A r \in U : x.seq <= r.seq
  <2> DEFINE N == {r.seq : r \in U}
  <2>1. N \subseteq Nat /\ N # {}
    BY <1>5 DEF Row
  <2>2. PICK b \in N : \A k \in N : b <= k
    <3> HIDE DEF N
    <3> QED BY <2>1, LeastNat
  <2> QED BY <2>2
<1>7. \A r \in U : r # x => x.seq < r.seq
  BY <1>6 DEF Row
<1>8. Cardinality(U \ {x}) = m - 1 /\ IsFiniteSet(U \ {x})
  BY <1>3, <1>4, FS_RemoveElement
<1>9. m - 1 \in Nat /\ ~(m <= m - 1)
  <2>1. Cardinality(U \ {x}) \in Nat /\ m \in Nat
    BY <1>8, FS_CardinalityType
  <2> QED BY <1>8, <2>1
<1>10. \E t : Ordered(t, U \ {x})
  <2>1. m - 1 \notin T
    BY <1>2, <1>9
  <2>2. U \ {x} \in SUBSET S
    OBVIOUS
  <2> QED BY <1>8, <1>9, <2>1, <2>2
<1> HIDE DEF T
<1>11. \E s : Ordered(s, U)
  BY <1>4, <1>7, <1>10, OrderedCons
<1> QED BY <1>3, <1>11

LEMMA InSequenceOrdered ==
    ASSUME NEW S, IsFiniteSet(S), S \subseteq Row, \A r, q \in S : r.seq = q.seq => r = q
    PROVE  Ordered(InSequence(S), S)
<1>1. \E s \in [1..Cardinality(S) -> S] :
         /\ ToSet(s) = S
         /\ \A i, j \in DOMAIN s : i < j => s[i].seq < s[j].seq
  BY OrderedExists DEF Ordered
<1> QED BY <1>1 DEF InSequence, Ordered

\* The empty envelope fits: each of the two reasons takes one unit.
LEMMA EmptyFits ==
    ASSUME NEW candidates, NEW more
    PROVE  Bytes(candidates, << >>, more) \in 0..2
<1> DEFINE size(sum, i) == sum + (IF i.kind = "inbox" THEN 2 * i.bytes ELSE i.bytes)
<1>1. FoldLeft(size, 0, << >>) = 0
  <2>1. DOMAIN << >> = {} /\ SUBSET {} = {{}}
    OBVIOUS
  <2> DEFINE Is(it) == it = [s \in SUBSET {} |->
                IF s = {} THEN 0
                ELSE size(it[s \ {Max(s)}], << >>[Max(s)])]
  <2>2. \E it : Is(it)
    <3> DEFINE z == [s \in {{}} |-> 0]
    <3>1. Is(z)
      BY <2>1
    <3> QED BY <3>1
  <2>3. (CHOOSE it : Is(it))[{}] = 0
    <3>1. Is(CHOOSE it : Is(it))
      BY <2>2
    <3>2. {} \in SUBSET {}
      OBVIOUS
    <3> QED BY <3>1, <3>2
  <2> QED BY <2>1, <2>3 DEF FoldLeft, MapThenFoldSet
<1>2. PICK b : b = FoldLeft(size, 0, << >>)
  OBVIOUS
<1>3. Bytes(candidates, << >>, more)
        = b + (IF Len(<< >>) < Len(candidates) THEN 1 ELSE 0) + (IF more THEN 1 ELSE 0)
  BY <1>2, Zenon DEF Bytes
<1> HIDE DEF size
<1>4. b = 0
  BY <1>1, <1>2, Zenon
<1> QED BY <1>3, <1>4

\* The loop of wakeup ends with a prefix of the candidates that fits.
LEMMA PackedPrefix ==
    ASSUME NEW I, NEW candidates \in Seq(I), NEW more, NEW budget \in Nat, 2 <= budget
    PROVE  \E k \in 0..Len(candidates) :
              /\ Packed(candidates, more, budget) = SubSeq(candidates, 1, k)
              /\ Bytes(candidates, SubSeq(candidates, 1, k), more) <= budget
<1>1. Len(candidates) \in Nat
  OBVIOUS
<1> DEFINE fits(k) == Bytes(candidates, SubSeq(candidates, 1, k), more) <= budget
           Stop(k) == (\A j \in 1..k : fits(j)) /\ (k < Len(candidates) => ~fits(k + 1))
           T == {k \in 1..Len(candidates) : ~fits(k)}
<1>2. \E k \in 0..Len(candidates) : Stop(k)
  <2>1. CASE T = {}
    <3>1. \A j \in 1..Len(candidates) : fits(j)
      BY <2>1
    <3> HIDE DEF fits
    <3> QED BY <1>1, <3>1
  <2>2. CASE T # {}
    <3>1. T \subseteq Nat
      OBVIOUS
    <3>2. PICK m \in T : \A k \in T : m <= k
      <4> HIDE DEF T
      <4> QED BY <2>2, <3>1, LeastNat
    <3> HIDE DEF fits
    <3>3. m \in 1..Len(candidates) /\ ~fits(m) /\ \A j \in 1..(m - 1) : fits(j)
      BY <1>1, <3>2
    <3>4. m - 1 \in 0..Len(candidates) /\ (m - 1) + 1 = m
      BY <1>1, <3>3
    <3> QED BY <3>3, <3>4
  <2> QED BY <2>1, <2>2
<1> DEFINE count == CHOOSE k \in 0..Len(candidates) : Stop(k)
<1>3. count \in 0..Len(candidates) /\ Stop(count)
  <2> HIDE DEF Stop
  <2> QED BY <1>2
<1>4. Packed(candidates, more, budget) = SubSeq(candidates, 1, count)
  BY DEF Packed
<1> HIDE DEF count
<1>5. fits(count)
  <2>1. CASE count = 0
    <3>1. SubSeq(candidates, 1, 0) = << >>
      BY SubSeqEmpty
    <3>2. PICK b : b = Bytes(candidates, << >>, more)
      OBVIOUS
    <3>3. b \in 0..2
      BY <3>2, EmptyFits
    <3>4. b <= budget
      BY <3>3
    <3> QED BY <2>1, <3>1, <3>2, <3>4, Zenon
  <2>2. CASE count # 0
    <3>1. count \in 1..count
      BY <1>1, <1>3, <2>2
    <3> HIDE DEF fits
    <3> QED BY <1>3, <3>1
  <2> QED BY <2>1, <2>2
<1> QED BY <1>3, <1>4, <1>5

-----------------------------------------------------------------------------
\* What a section of the envelope is made of.
Item == [kind : Section, bytes : Nat, note : Note \cup Nat]

LEMMA SetToSeqType ==
    ASSUME NEW S \in SUBSET Note
    PROVE  SetToSeq(S) \in Seq(Note)
<1>1. IsFiniteSet(S)
  BY WakeupAssumption, FS_Subset
<1>2. Cardinality(S) \in Nat /\ ExistsBijection(1..Cardinality(S), S)
  BY <1>1, FS_CardinalityType
<1>3. \E f \in [1..Cardinality(S) -> S] : IsInjective(f)
  BY <1>2 DEF ExistsBijection, Bijection, Injection, IsInjective
<1>4. SetToSeq(S) \in [1..Cardinality(S) -> S]
  BY <1>3 DEF SetToSeq
<1> QED BY <1>2, <1>4

LEMMA CutType ==
    ASSUME NEW s \in Seq(Note), NEW limit \in Nat
    PROVE  Cut(s, limit) \in Seq(Note)
<1>1. Len(s) \in Nat
  OBVIOUS
<1>2. PICK n \in 0..Len(s) : Cut(s, limit) = SubSeq(s, 1, n)
  BY <1>1 DEF Cut
<1>3. \A i \in 1..n : s[i] \in Note
  BY <1>1
<1> QED BY <1>2, <1>3, SubSeqProperties

LEMMA ItemsType ==
    ASSUME NEW kind \in Section, NEW notes \in Seq(Note)
    PROVE  /\ Items(kind, notes) \in Seq(Item) /\ Len(Items(kind, notes)) = Len(notes)
           /\ \A i \in 1..Len(notes) : /\ Items(kind, notes)[i].kind = kind
                                       /\ Items(kind, notes)[i].note = notes[i]
<1>1. Len(notes) \in Nat /\ DOMAIN notes = 1..Len(notes)
  OBVIOUS
<1>2. PICK t : t = Items(kind, notes)
  OBVIOUS
<1>3. t = [i \in 1..Len(notes) |-> [kind |-> kind, bytes |-> NoteBytes[notes[i]],
                                    note |-> notes[i]]]
  BY <1>1, <1>2 DEF Items
<1>4. ASSUME NEW i \in 1..Len(notes)
      PROVE  t[i] \in Item /\ t[i].kind = kind /\ t[i].note = notes[i]
  <2>1. notes[i] \in Note
    OBVIOUS
  <2>2. NoteBytes[notes[i]] \in Nat
    BY <2>1, WakeupAssumption
  <2> QED BY <1>3, <2>1, <2>2 DEF Item
<1>5. t \in [1..Len(notes) -> Item]
  BY <1>3, <1>4
<1> QED BY <1>1, <1>2, <1>4, <1>5

LEMMA TaskItemsType ==
    ASSUME NEW tasks \in Nat
    PROVE  /\ ActiveTaskItems(tasks) \in Seq(Item) /\ Len(ActiveTaskItems(tasks)) = tasks
           /\ \A i \in 1..tasks : ActiveTaskItems(tasks)[i].kind = "activeTasks"
<1>1. ASSUME NEW i \in 1..tasks
      PROVE  [kind |-> "activeTasks", bytes |-> 1, note |-> i] \in Item
  BY DEF Item, Section
<1> QED BY <1>1 DEF ActiveTaskItems

\* Two sequences of items one after the other.
LEMMA ItemsConcat ==
    ASSUME NEW s \in Seq(Item), NEW t \in Seq(Item), NEW r, r = s \o t
    PROVE  /\ r \in Seq(Item) /\ Len(r) = Len(s) + Len(t)
           /\ \A i \in 1..Len(r) : r[i] = IF i <= Len(s) THEN s[i] ELSE t[i - Len(s)]
  BY ConcatProperties

\* Items of other sections, and the n inbox items of x from place p + 1 on.
Others(s) == s \in Seq(Item) /\ \A i \in 1..Len(s) : s[i].kind # "inbox"
InboxAt(x, p, n) ==
    /\ x \in Seq(Item) /\ p + n <= Len(x)
    /\ \A i \in 1..Len(x) : x[i].kind = "inbox" <=> i \in (p + 1)..(p + n)
Joined(x, a, b, d, e) == x = a \o b \o d \o e

\* Where the inbox items are among the candidates.
LEMMA InboxPlaces ==
    ASSUME NEW a, NEW b, NEW d, NEW e, Others(a), Others(d), Others(e), InboxAt(b, 0, Len(b)),
           NEW x, Joined(x, a, b, d, e)
    PROVE  InboxAt(x, Len(a), Len(b)) /\ \A k \in 1..Len(b) : x[Len(a) + k] = b[k]
<1>a. /\ a \in Seq(Item) /\ b \in Seq(Item) /\ d \in Seq(Item) /\ e \in Seq(Item)
      /\ \A i \in 1..Len(a) : a[i].kind # "inbox"
      /\ \A i \in 1..Len(d) : d[i].kind # "inbox"
      /\ \A i \in 1..Len(e) : e[i].kind # "inbox"
  BY DEF Others, InboxAt
<1>b. \A i \in 1..Len(b) : b[i].kind = "inbox"
  BY DEF InboxAt
<1>0. Len(a) \in Nat /\ Len(b) \in Nat /\ Len(d) \in Nat /\ Len(e) \in Nat
  BY <1>a
<1>1. PICK u : u = a \o b
  OBVIOUS
<1>2. /\ u \in Seq(Item) /\ Len(u) = Len(a) + Len(b)
      /\ \A i \in 1..Len(u) : u[i] = IF i <= Len(a) THEN a[i] ELSE b[i - Len(a)]
  BY <1>1, <1>a, ItemsConcat
<1>3. PICK v : v = u \o d
  OBVIOUS
<1>4. /\ v \in Seq(Item) /\ Len(v) = Len(u) + Len(d)
      /\ \A i \in 1..Len(v) : v[i] = IF i <= Len(u) THEN u[i] ELSE d[i - Len(u)]
  <2>1. u \in Seq(Item) /\ d \in Seq(Item)
    BY <1>2, <1>a
  <2> QED BY <1>3, <2>1, ItemsConcat
<1>5. /\ x \in Seq(Item) /\ Len(x) = Len(v) + Len(e)
      /\ \A i \in 1..Len(x) : x[i] = IF i <= Len(v) THEN v[i] ELSE e[i - Len(v)]
  <2>1. x = v \o e /\ v \in Seq(Item) /\ e \in Seq(Item)
    BY <1>1, <1>3, <1>4, <1>a DEF Joined
  <2> QED BY <2>1, ItemsConcat
<1>6. Len(a) + Len(b) <= Len(x)
  BY <1>0, <1>2, <1>4, <1>5
<1>7. ASSUME NEW i \in 1..Len(x)
      PROVE  x[i].kind = "inbox" <=> i \in (Len(a) + 1)..(Len(a) + Len(b))
  <2>1. CASE i <= Len(a)
    <3>1. x[i] = a[i] /\ i \in 1..Len(a) /\ i \notin (Len(a) + 1)..(Len(a) + Len(b))
      BY <1>0, <1>2, <1>4, <1>5, <2>1
    <3> QED BY <3>1, <1>a, <1>b
  <2>2. CASE Len(a) < i /\ i <= Len(u)
    <3>1. x[i] = b[i - Len(a)] /\ i - Len(a) \in 1..Len(b) /\ i \in (Len(a) + 1)..(Len(a) + Len(b))
      BY <1>0, <1>2, <1>4, <1>5, <2>2
    <3> QED BY <3>1, <1>a, <1>b
  <2>3. CASE Len(u) < i /\ i <= Len(v)
    <3>1. x[i] = d[i - Len(u)] /\ i - Len(u) \in 1..Len(d) /\ i \notin (Len(a) + 1)..(Len(a) + Len(b))
      BY <1>0, <1>2, <1>4, <1>5, <2>3
    <3> QED BY <3>1, <1>a, <1>b
  <2>4. CASE Len(v) < i
    <3>1. x[i] = e[i - Len(v)] /\ i - Len(v) \in 1..Len(e) /\ i \notin (Len(a) + 1)..(Len(a) + Len(b))
      BY <1>0, <1>2, <1>4, <1>5, <2>4
    <3> QED BY <3>1, <1>a, <1>b
  <2>5. i \in Int /\ Len(u) \in Int /\ Len(v) \in Int
    BY <1>0, <1>2, <1>4
  <2> QED BY <1>0, <2>1, <2>2, <2>3, <2>4, <2>5
<1>8. ASSUME NEW k \in 1..Len(b) PROVE x[Len(a) + k] = b[k]
  <2>1. PICK i : i = Len(a) + k
    OBVIOUS
  <2>2. i \in 1..Len(x) /\ i <= Len(v) /\ i <= Len(u) /\ ~(i <= Len(a)) /\ i - Len(a) = k
        /\ i \in 1..Len(v) /\ i \in 1..Len(u)
    BY <1>0, <1>2, <1>4, <1>5, <2>1
  <2>3. x[i] = b[k]
    BY <1>2, <1>4, <1>5, <2>2
  <2> QED BY <2>1, <2>3
<1> QED BY <1>5, <1>6, <1>7, <1>8 DEF InboxAt

-----------------------------------------------------------------------------
\* What a consumer has not acknowledged: each note and each number once.
LEMMA UnreadRows ==
    ASSUME Inv, NEW c \in Consumer
    PROVE  /\ Unread(c) \in SUBSET Row /\ IsFiniteSet(Unread(c))
           /\ \A q \in Unread(c) : q.seq < nextSeq
           /\ \A q, r \in Unread(c) : q.seq = r.seq \/ q.note = r.note => q = r
<1>1. TypeOK /\ OneLogicalDelivery /\ Origin /\ nextSeq \in Nat
  BY DEF Inv, TypeOK
<1>2. \A q \in Unread(c) : \E l \in logical :
         l.recipient = Owner[c] /\ q = [seq |-> l.seq, note |-> l.note]
  BY DEF Unread, Pending
<1>3. \A l \in logical : l.seq \in Nat /\ l.note \in Note /\ l.seq < nextSeq
  BY <1>1 DEF TypeOK, LogicalRow, OneLogicalDelivery, Origin, SameRow
<1>4. \A q \in Unread(c) : q.seq \in Nat /\ q \in Row /\ q.seq < nextSeq
  BY <1>2, <1>3 DEF Row
<1>5. ASSUME NEW q \in Unread(c), NEW r \in Unread(c), q.seq = r.seq \/ q.note = r.note
      PROVE  q = r
  <2>1. PICK k \in logical : k.recipient = Owner[c] /\ q = [seq |-> k.seq, note |-> k.note]
    BY <1>2
  <2>2. PICK l \in logical : l.recipient = Owner[c] /\ r = [seq |-> l.seq, note |-> l.note]
    BY <1>2
  <2>3. k = l
    BY <1>1, <1>5, <2>1, <2>2 DEF OneLogicalDelivery
  <2> QED BY <2>1, <2>2, <2>3
<1>6. IsFiniteSet(Unread(c))
  <2> DEFINE num == [p \in Unread(c) |-> p.seq]
  <2>1. num \in Injection(Unread(c), 0..nextSeq)
    BY <1>1, <1>4, <1>5 DEF Injection, IsInjective
  <2>2. IsFiniteSet(0..nextSeq)
    BY <1>1, FS_Interval
  <2> QED
    BY <2>1, <2>2, FS_Injection
<1> QED BY <1>4, <1>5, <1>6

\* The page of the inbox that wakeup reads, without the unreadable notes.
ReadableRows(c) == {r \in Page(Unread(c)) : <<r.note, Owner[c]>> \in readable}

LEMMA InboxNotesOrdered ==
    ASSUME Inv, NEW c \in Consumer
    PROVE  \E s : \E n \in Nat :
              /\ s \in [1..n -> ReadableRows(c)]
              /\ ToSet(s) = ReadableRows(c)
              /\ \A i, j \in 1..n : i < j => s[i].seq < s[j].seq
              /\ InboxNotes(c) \in Seq(Note) /\ Len(InboxNotes(c)) = n
              /\ \A i \in 1..n : InboxNotes(c)[i] = s[i].note
<1>1. ReadableRows(c) \subseteq Unread(c)
  BY DEF ReadableRows, Page
<1>2. /\ IsFiniteSet(ReadableRows(c)) /\ ReadableRows(c) \subseteq Row
      /\ \A r, q \in ReadableRows(c) : r.seq = q.seq => r = q
  BY <1>1, UnreadRows, FS_Subset
<1>3. PICK n \in Nat : n = Cardinality(ReadableRows(c))
  BY <1>2, FS_CardinalityType
<1>4. PICK s : s = InSequence(ReadableRows(c))
  OBVIOUS
<1>5. Ordered(s, ReadableRows(c))
  BY <1>2, <1>4, InSequenceOrdered
<1>6. /\ s \in [1..n -> ReadableRows(c)] /\ DOMAIN s = 1..n /\ ToSet(s) = ReadableRows(c)
      /\ \A i, j \in 1..n : i < j => s[i].seq < s[j].seq
  BY <1>3, <1>5 DEF Ordered
<1>7. InboxNotes(c) = [i \in 1..n |-> s[i].note]
  BY <1>4, <1>6 DEF InboxNotes, ReadableRows
<1>8. ASSUME NEW i \in 1..n PROVE s[i].note \in Note
  <2>1. s[i] \in Row
    BY <1>2, <1>6
  <2> QED BY <2>1 DEF Row
<1>9. InboxNotes(c) \in [1..n -> Note]
  BY <1>7, <1>8
<1>10. InboxNotes(c) \in Seq(Note) /\ Len(InboxNotes(c)) = n
  BY <1>9
<1>11. \A i \in 1..n : InboxNotes(c)[i] = s[i].note
  BY <1>7
<1> QED BY <1>6, <1>10, <1>11

\* The notes are the inbox items of x, together and in their order.
NotesAt(x, p, notes) ==
    InboxAt(x, p, Len(notes)) /\ \A k \in 1..Len(notes) : x[p + k].note = notes[k]

LEMMA CandidatePlaces ==
    ASSUME NEW c \in Consumer, InboxNotes(c) \in Seq(Note), NEW profiles \in SUBSET Note,
           NEW tasks \in Nat
    PROVE  \E p \in Nat : NotesAt(Candidates(c, profiles, tasks), p, InboxNotes(c))
<1>0. PICK x : x = Candidates(c, profiles, tasks)
  OBVIOUS
<1>1. PICK ps : ps = Cut(SetToSeq(History(Owner[c]) \cap profiles), 1)
  OBVIOUS
<1>2. PICK rs : rs = Cut(SetToSeq(History(Owner[c]) \ (profiles \cup ToSet(InboxNotes(c)))),
                         RecentLimit)
  OBVIOUS
<1>3. ps \in Seq(Note) /\ rs \in Seq(Note)
  <2>1. History(Owner[c]) \cap profiles \in SUBSET Note
        /\ History(Owner[c]) \ (profiles \cup ToSet(InboxNotes(c))) \in SUBSET Note
    BY DEF History
  <2>2. RecentLimit \in Nat /\ 1 \in Nat
    BY WakeupAssumption
  <2> QED BY <1>1, <1>2, <2>1, <2>2, SetToSeqType, CutType
<1>4. PICK a : a = Items("profile", ps)
  OBVIOUS
<1>5. PICK b : b = Items("inbox", InboxNotes(c))
  OBVIOUS
<1>6. PICK d : d = Items("recent", rs)
  OBVIOUS
<1>7. PICK e : e = ActiveTaskItems(tasks)
  OBVIOUS
<1>8. Joined(x, a, b, d, e)
  BY <1>0, <1>1, <1>2, <1>4, <1>5, <1>6, <1>7 DEF Candidates, Joined
<1>9. Others(a)
  <2>1. "profile" \in Section /\ "profile" # "inbox"
    BY DEF Section
  <2> QED BY <1>3, <1>4, <2>1, ItemsType DEF Others
<1>10. /\ b \in Seq(Item) /\ Len(b) = Len(InboxNotes(c))
       /\ \A i \in 1..Len(b) : b[i].kind = "inbox" /\ b[i].note = InboxNotes(c)[i]
  <2>1. "inbox" \in Section
    BY DEF Section
  <2> QED BY <1>5, <2>1, ItemsType
<1>11. Others(d)
  <2>1. "recent" \in Section /\ "recent" # "inbox"
    BY DEF Section
  <2> QED BY <1>3, <1>6, <2>1, ItemsType DEF Others
<1>12. Others(e)
  BY <1>7, TaskItemsType DEF Others
<1>13. InboxAt(x, Len(a), Len(b)) /\ \A k \in 1..Len(b) : x[Len(a) + k] = b[k]
  <2>1. InboxAt(b, 0, Len(b))
    BY <1>10 DEF InboxAt
  <2> QED BY <1>8, <1>9, <1>11, <1>12, <2>1, InboxPlaces
<1>14. PICK p \in Nat : p = Len(a)
  BY <1>9 DEF Others
<1>15. \A k \in 1..Len(InboxNotes(c)) : x[p + k].note = InboxNotes(c)[k]
  BY <1>10, <1>13, <1>14
<1> QED BY <1>0, <1>10, <1>13, <1>14, <1>15 DEF NotesAt

\* The places of the inbox items in an envelope of the first k candidates.
LEMMA PackedPlaces ==
    ASSUME NEW x, NEW p \in Nat, NEW n \in Nat, InboxAt(x, p, n),
           NEW k \in 0..Len(x)
    PROVE  /\ InSection("inbox", x) = (p + 1)..(p + n)
           /\ InSection("inbox", SubSeq(x, 1, k)) = {i \in (p + 1)..(p + n) : i <= k}
           /\ \A i \in InSection("inbox", SubSeq(x, 1, k)) : SubSeq(x, 1, k)[i] = x[i]
<1>0. PICK y : y = SubSeq(x, 1, k)
  OBVIOUS
<1>1. /\ x \in Seq(Item) /\ Len(x) \in Nat /\ DOMAIN x = 1..Len(x) /\ p + n <= Len(x)
      /\ \A i \in 1..Len(x) : x[i].kind = "inbox" <=> i \in (p + 1)..(p + n)
  BY DEF InboxAt
<1>2. DOMAIN y = 1..k /\ \A i \in 1..k : y[i] = x[i]
  <2>1. \A i \in 1..k : x[i] \in Item
    BY <1>1
  <2> QED BY <1>0, <1>1, <2>1, SubSeqProperties
<1>3. InSection("inbox", x) = (p + 1)..(p + n)
  BY <1>1 DEF InSection
<1>4. \A i : i \in InSection("inbox", y) <=> i \in 1..k /\ x[i].kind = "inbox"
  BY <1>2 DEF InSection
<1>5. InSection("inbox", y) = {i \in (p + 1)..(p + n) : i <= k}
  BY <1>1, <1>4
<1> QED BY <1>0, <1>2, <1>3, <1>4, <1>5

\* An envelope keeps to its budget and shows the first m notes of the page; if
\* that is not all of them, or the page is not all of the inbox, it says so.
ShowsFirst(env, c, m, budget) ==
    /\ {env.items[i].note : i \in InSection("inbox", env.items)} = {InboxNotes(c)[j] : j \in 1..m}
    /\ env.bytes <= budget
    /\ m < Len(InboxNotes(c)) \/ HasMore(c) => env.hasMore["inbox"] /\ env.readInbox

LEMMA EnvelopeShows ==
    ASSUME NEW c \in Consumer, InboxNotes(c) \in Seq(Note), NEW profiles \in SUBSET Note,
           NEW tasks \in Nat, NEW budget \in Nat, 2 <= budget
    PROVE  \E m \in 0..Len(InboxNotes(c)) :
              ShowsFirst(Envelope(c, profiles, tasks, budget), c, m, budget)
<1>0. PICK env : env = Envelope(c, profiles, tasks, budget)
  OBVIOUS
<1>1. PICK x : x = Candidates(c, profiles, tasks)
  OBVIOUS
<1>2. PICK n \in Nat : n = Len(InboxNotes(c))
  OBVIOUS
<1>3. PICK p \in Nat :
         /\ InboxAt(x, p, n)
         /\ \A j \in 1..n : x[p + j].note = InboxNotes(c)[j]
  BY <1>1, <1>2, CandidatePlaces DEF NotesAt
<1>4. PICK y : y = Packed(x, HasMore(c), budget)
  OBVIOUS
<1>5. /\ env.items = y /\ env.bytes = Bytes(x, y, HasMore(c))
      /\ env.hasMore = RefreshTruncation(x, y, HasMore(c))
      /\ env.readInbox = \E kind \in Section : env.hasMore[kind]
  BY <1>0, <1>1, <1>4 DEF Envelope
<1>6. PICK k \in 0..Len(x) : y = SubSeq(x, 1, k) /\ Bytes(x, SubSeq(x, 1, k), HasMore(c)) <= budget
  <2>1. x \in Seq(Item)
    BY <1>3 DEF InboxAt
  <2> QED BY <1>4, <2>1, PackedPrefix
<1>7. /\ InSection("inbox", x) = (p + 1)..(p + n)
      /\ InSection("inbox", y) = {i \in (p + 1)..(p + n) : i <= k}
      /\ \A i \in InSection("inbox", y) : y[i] = x[i]
  BY <1>3, <1>6, PackedPlaces
<1>8. k \in Nat
  BY <1>3, <1>6 DEF InboxAt
<1>9. PICK m \in 0..n : /\ \A j \in 1..n : j <= m <=> p + j <= k
                        /\ m < n => p + n > k
  <2>1. CASE k <= p
    <3>1. 0 \in 0..n /\ (\A j \in 1..n : j <= 0 <=> p + j <= k) /\ (0 < n => p + n > k)
      BY <1>8, <2>1
    <3> QED BY <3>1
  <2>2. CASE p < k /\ k <= p + n
    <3>1. k - p \in 0..n /\ (\A j \in 1..n : j <= k - p <=> p + j <= k) /\ (k - p < n => p + n > k)
      BY <1>8, <2>2
    <3> QED BY <3>1
  <2>3. CASE p + n < k
    <3>1. n \in 0..n /\ (\A j \in 1..n : j <= n <=> p + j <= k) /\ (n < n => p + n > k)
      BY <1>8, <2>3
    <3> QED BY <3>1
  <2> QED BY <1>8, <2>1, <2>2, <2>3
<1>10. {env.items[i].note : i \in InSection("inbox", env.items)} = {InboxNotes(c)[j] : j \in 1..m}
  <2>1. ASSUME NEW i \in InSection("inbox", y)
        PROVE  \E j \in 1..m : y[i].note = InboxNotes(c)[j]
    <3>1. i - p \in 1..n /\ p + (i - p) = i /\ i <= k
      BY <1>7
    <3>2. i - p \in 1..m
      BY <1>9, <3>1
    <3> QED BY <1>3, <1>7, <3>1, <3>2
  <2>2. ASSUME NEW j \in 1..m
        PROVE  \E i \in InSection("inbox", y) : y[i].note = InboxNotes(c)[j]
    <3>1. j \in 1..n /\ p + j <= k /\ p + j \in (p + 1)..(p + n)
      BY <1>9
    <3>2. p + j \in InSection("inbox", y)
      BY <1>7, <3>1
    <3> QED BY <1>3, <1>7, <3>1, <3>2
  <2> DEFINE L == {y[i].note : i \in InSection("inbox", y)}
             R == {InboxNotes(c)[j] : j \in 1..m}
  <2>3. ASSUME NEW z \in L PROVE z \in R
    <3>1. PICK i \in InSection("inbox", y) : z = y[i].note
      OBVIOUS
    <3>2. PICK j \in 1..m : y[i].note = InboxNotes(c)[j]
      BY <2>1
    <3> QED BY <3>1, <3>2
  <2>4. ASSUME NEW z \in R PROVE z \in L
    <3>1. PICK j \in 1..m : z = InboxNotes(c)[j]
      OBVIOUS
    <3>2. PICK i \in InSection("inbox", y) : y[i].note = InboxNotes(c)[j]
      BY <2>2
    <3> QED BY <3>1, <3>2
  <2>5. L = R
    <3> HIDE DEF L, R
    <3> QED BY <2>3, <2>4
  <2> QED BY <1>5, <2>5
<1>11. ASSUME m < n PROVE Included("inbox", y) < Included("inbox", x)
  <2>1. IsFiniteSet(InSection("inbox", x))
    BY <1>7, FS_Interval
  <2>2. p + n \in InSection("inbox", x) /\ p + n \notin InSection("inbox", y)
    BY <1>7, <1>9, <1>11
  <2>3. InSection("inbox", y) \subseteq InSection("inbox", x)
        /\ InSection("inbox", y) # InSection("inbox", x)
    BY <1>7, <2>2
  <2>4. /\ Cardinality(InSection("inbox", y)) <= Cardinality(InSection("inbox", x))
        /\ Cardinality(InSection("inbox", y)) # Cardinality(InSection("inbox", x))
        /\ IsFiniteSet(InSection("inbox", y))
    BY <2>1, <2>3, FS_Subset
  <2>5. Cardinality(InSection("inbox", y)) \in Nat /\ Cardinality(InSection("inbox", x)) \in Nat
    BY <2>1, <2>4, FS_CardinalityType
  <2> QED BY <2>4, <2>5 DEF Included
<1>12. ASSUME m < n \/ HasMore(c) PROVE env.hasMore["inbox"] /\ env.readInbox
  <2>1. "inbox" \in Section
    BY DEF Section
  <2>2. env.hasMore["inbox"]
    BY <1>5, <1>11, <1>12, <2>1 DEF RefreshTruncation
  <2> QED BY <1>5, <2>1, <2>2
<1>13. env.bytes <= budget
  BY <1>5, <1>6
<1> QED BY <1>0, <1>2, <1>10, <1>12, <1>13 DEF ShowsFirst

\* Without more rows than a page holds, the page is the whole inbox.
LEMMA PageIsAll ==
    ASSUME NEW rows \in SUBSET Row, IsFiniteSet(rows), ~(Cardinality(rows) > Limit),
           NEW r \in rows
    PROVE  r \in Page(rows)
<1> DEFINE below == {q \in rows : q.seq < r.seq}
<1>1. Cardinality(rows) \in Nat /\ Limit \in Nat
  BY FS_CardinalityType, InboxAssumption
<1>2. r \notin below
  BY DEF Row
<1>3. below \subseteq rows /\ below # rows
  BY <1>2
<1> HIDE DEF below
<1>4. IsFiniteSet(below) /\ Cardinality(below) <= Cardinality(rows)
      /\ Cardinality(below) # Cardinality(rows)
  BY <1>3, FS_Subset
<1>5. Cardinality(below) \in Nat
  BY <1>4, FS_CardinalityType
<1>6. Cardinality(below) < Limit
  BY <1>1, <1>4, <1>5
<1> USE DEF below
<1> QED BY <1>6 DEF Page

\* The envelope of wakeup keeps to its budget; an unread delivery that the agent
\* could read is in it or the envelope says that the inbox has more, and what is
\* left out is newer than what is shown.
THEOREM WakeupHonest == Spec => []WakeupIsHonest
<1>1. ASSUME Inv PROVE WakeupIsHonest
  <2> SUFFICES ASSUME NEW c \in Consumer, NEW profiles \in SUBSET Note, NEW tasks \in 0..1,
                      NEW budget \in 2..MaxBudget
               PROVE  LET envelope == Envelope(c, profiles, tasks, budget)
                          shown == {envelope.items[i].note :
                                      i \in InSection("inbox", envelope.items)}
                          missed == {r \in Unread(c) : /\ <<r.note, Owner[c]>> \in readable
                                                       /\ r.note \notin shown} IN
                      /\ envelope.bytes <= budget
                      /\ missed # {} => envelope.hasMore["inbox"] /\ envelope.readInbox
                      /\ \A r \in missed, q \in Unread(c) : q.note \in shown => q.seq < r.seq
    BY DEF WakeupIsHonest
  <2>1. PICK rows \in SUBSET Row : rows = Unread(c)
    BY <1>1, UnreadRows
  <2>2. /\ IsFiniteSet(rows) /\ nextSeq \in Nat /\ (\A q \in rows : q.seq < nextSeq)
        /\ (\A q, r \in rows : q.seq = r.seq \/ q.note = r.note => q = r)
    BY <1>1, <2>1, UnreadRows DEF Inv, TypeOK
  <2>3. \A r : r \in ReadableRows(c) <=> r \in Page(rows) /\ <<r.note, Owner[c]>> \in readable
    BY <2>1 DEF ReadableRows
  <2>4. PICK s : \E n \in Nat :
              /\ s \in [1..n -> ReadableRows(c)]
              /\ ToSet(s) = ReadableRows(c)
              /\ \A i, j \in 1..n : i < j => s[i].seq < s[j].seq
              /\ InboxNotes(c) \in Seq(Note) /\ Len(InboxNotes(c)) = n
              /\ \A i \in 1..n : InboxNotes(c)[i] = s[i].note
    BY <1>1, InboxNotesOrdered
  <2>5. PICK n \in Nat :
              /\ s \in [1..n -> ReadableRows(c)]
              /\ ToSet(s) = ReadableRows(c)
              /\ \A i, j \in 1..n : i < j => s[i].seq < s[j].seq
              /\ InboxNotes(c) \in Seq(Note) /\ Len(InboxNotes(c)) = n
              /\ \A i \in 1..n : InboxNotes(c)[i] = s[i].note
    BY <2>4
  <2>6. PICK env : env = Envelope(c, profiles, tasks, budget)
    OBVIOUS
  <2> DEFINE shown == {env.items[i].note : i \in InSection("inbox", env.items)}
             missed == {r \in Unread(c) : /\ <<r.note, Owner[c]>> \in readable
                                          /\ r.note \notin shown}
  <2>7. PICK m \in 0..n :
              /\ shown = {InboxNotes(c)[j] : j \in 1..m}
              /\ env.bytes <= budget
              /\ m < n \/ HasMore(c) => env.hasMore["inbox"] /\ env.readInbox
    <3>1. tasks \in Nat /\ budget \in Nat /\ 2 <= budget
      BY WakeupAssumption
    <3>2. PICK m \in 0..n : ShowsFirst(env, c, m, budget)
      BY <2>5, <2>6, <3>1, EnvelopeShows
    <3> QED BY <2>5, <3>2 DEF ShowsFirst
  <2> HIDE DEF shown
  <2>8. \A x : x \in shown <=> \E j \in 1..m : x = s[j].note
    <3>1. \A j \in 1..m : j \in 1..n
      OBVIOUS
    <3> QED BY <2>5, <2>7, <3>1
  <2>9. ASSUME NEW r \in rows, <<r.note, Owner[c]>> \in readable, r.note \notin shown, r \in Page(rows)
        PROVE  \E j \in 1..n : s[j] = r /\ m < j
    <3>1. PICK j \in 1..n : s[j] = r
      <4>1. r \in ToSet(s)
        BY <2>3, <2>5, <2>9
      <4> QED BY <2>5, <4>1 DEF ToSet
    <3>2. j \notin 1..m
      BY <2>8, <2>9, <3>1
    <3>3. m < j
      BY <3>2
    <3> QED BY <3>1, <3>3
  <2>10. ASSUME missed # {} PROVE env.hasMore["inbox"] /\ env.readInbox
    <3>1. PICK r \in rows : <<r.note, Owner[c]>> \in readable /\ r.note \notin shown
      BY <2>1, <2>10
    <3>2. CASE HasMore(c)
      BY <2>7, <3>2
    <3>3. CASE ~HasMore(c)
      <4>1. r \in Page(rows)
        BY <2>1, <2>2, <3>3, PageIsAll DEF HasMore
      <4>2. PICK j \in 1..n : s[j] = r /\ m < j
        BY <2>9, <3>1, <4>1
      <4>3. m < n
        BY <4>2
      <4> QED BY <2>7, <4>3
    <3> QED BY <3>2, <3>3
  <2>11. ASSUME NEW r \in missed, NEW q \in rows, q.note \in shown PROVE q.seq < r.seq
    <3>1. r \in rows /\ <<r.note, Owner[c]>> \in readable /\ r.note \notin shown
      BY <2>1
    <3>2. PICK i \in 1..m : q.note = s[i].note
      BY <2>8, <2>11
    <3>3. i \in 1..n /\ s[i] \in ReadableRows(c)
      BY <2>5
    <3>4. s[i] \in Page(rows) /\ s[i] \in rows
      BY <2>3, <3>3 DEF Page
    <3>5. q = s[i]
      BY <2>2, <3>2, <3>4
    <3>6. CASE r \in Page(rows)
      <4>1. PICK j \in 1..n : s[j] = r /\ m < j
        BY <2>9, <3>1, <3>6
      <4>2. i < j
        BY <4>1
      <4> QED BY <2>5, <3>3, <3>5, <4>1, <4>2
    <3>7. CASE r \notin Page(rows)
      <4>1. ~(r.seq <= q.seq)
        BY <2>2, <3>1, <3>4, <3>5, <3>7, PageClosed
      <4>2. r.seq \in Nat /\ q.seq \in Nat
        BY <3>1 DEF Row
      <4> QED BY <4>1, <4>2
    <3> QED BY <3>6, <3>7
  <2> QED
    BY <2>1, <2>6, <2>7, <2>10, <2>11 DEF shown
<1> QED
  BY <1>1, InboxInvariant, PTL
=============================================================================
