---------------------------- MODULE EventBusProofs ----------------------------
(***************************************************************************)
(* A subscriber that is not a whole ring behind gets what it wants, in     *)
(* order, for any events, subscribers, threads and size of the ring.  The  *)
(* invariant says which event each slot of the ring holds, and that the    *)
(* event a thread is writing is the only one that a reader can miss.       *)
(***************************************************************************)
EXTENDS EventBus, DataOpsTheorems

\* The thread that holds the lock is writing this event.
HolderIs(e) == pc[e] = "written" \/ (tpc = "written" /\ e = Head(ready))

\* Shape of what the steps read
BusType ==
  /\ ring \in [0..Size - 1 -> SUBSET Events] /\ head \in Nat
  /\ deferred \in Seq(Events) /\ ready \in Seq(Events) /\ log \in Seq(Events)
  /\ pc \in [Events -> EmitPC]
  /\ subs \subseteq Subs /\ overrun \subseteq Subs
  /\ spc \in [Subs -> Reading \cup {"out", "idle", "wait"}]
  /\ cursor \in [Subs -> Nat] /\ first \in [Subs -> Nat]
  /\ got \in [Subs -> Seq(Events)]

\* One thread at a time writes the ring.
LockOK ==
  /\ \A e, f \in Events : pc[e] = "written" /\ pc[f] = "written" => e = f
  /\ \A e \in Events : tpc = "written" => pc[e] # "written"
  /\ tpc # "write" => ready # <<>>

\* An event is in one place: with its emitter, deferred, taken by tick() or
\* in the ring.
PlacesOK ==
  /\ Once(deferred) /\ Once(ready) /\ Once(log)
  /\ In(deferred) \cap (In(ready) \cup In(log)) = {}
  /\ \A e \in In(ready) \cap In(log) : e = Head(ready) /\ tpc = "wake"
  /\ \A e \in In(deferred) \cup In(ready) : pc[e] = "returned"
  /\ \A e \in In(log) : pc[e] \in {"wake", "returned"}

\* The slots hold the last events, except for the one that is being written.
RingOK ==
  /\ head = Len(log)
  /\ \A k \in Nat : k < head /\ (head - k < Size \/ (head - k = Size /\ ~Locked)) =>
                      ring[k % Size] = {log[k + 1]}
  /\ \A e \in Events : HolderIs(e) => ring[head % Size] = {e}

\* A subscriber that lost nothing is not behind the slots, and was given what
\* it passed.
SubOK(s) ==
  /\ s \in subs =>
       /\ first[s] <= cursor[s] /\ cursor[s] <= head /\ spc[s] # "out"
       /\ spc[s] = "read" => cursor[s] < head
       /\ s \notin overrun =>
            /\ head - Size <= cursor[s]
            /\ Locked => head - Size < cursor[s]
            /\ got[s] = Kept(SubSeq(log, first[s] + 1, cursor[s]), Wants[s])
  /\ s \notin subs => spc[s] = "out" /\ got[s] = <<>>

SubsOK == \A s \in Subs : SubOK(s)

BusInv == BusType /\ LockOK /\ PlacesOK /\ RingOK /\ SubsOK

-----------------------------------------------------------------------------
\* Slots less than a ring apart are different.
LEMMA Slots ==
  ASSUME NEW n \in Nat, n # 0, NEW j \in Nat, NEW k \in Nat, j < k, k - j < n
  PROVE  j % n # k % n /\ j % n \in 0..n - 1
<1>1. ASSUME NEW i \in Int PROVE i % n = i - n * (i \div n) /\ i \div n \in Int
  OBVIOUS
<1>2. SUFFICES ASSUME j % n = k % n PROVE FALSE
  OBVIOUS
<1> DEFINE a == k \div n
           b == j \div n
<1>3. a \in Int /\ b \in Int /\ j - n * b = k - n * a
  <2>1. j % n = j - n * (j \div n) /\ j \div n \in Int
    <3>1. j \in Int
      OBVIOUS
    <3> QED
      BY <1>1, <3>1, Zenon
  <2>2. k % n = k - n * (k \div n) /\ k \div n \in Int
    <3>1. k \in Int
      OBVIOUS
    <3> QED
      BY <1>1, <3>1, Zenon
  <2>3. j - n * (j \div n) = k - n * (k \div n)
    BY <1>2, <2>1, <2>2, Zenon
  <2> QED
    BY <2>1, <2>2, <2>3, Zenon
<1> HIDE DEF a, b
<1>4. n * a \in Int /\ n * b \in Int /\ n * a - n * b = k - j
  BY <1>3
<1>5. CASE a <= b
  <2>1. n * a <= n * b
    BY <1>3, <1>5
  <2> QED
    BY <1>4, <2>1
<1>6. CASE a > b
  <2>1. a - b >= 1 /\ a - b \in Int
    BY <1>3, <1>6
  <2>2. n * (a - b) >= n
    BY <2>1
  <2>3. n * (a - b) = n * a - n * b
    BY <1>3
  <2> QED
    BY <1>4, <2>2, <2>3
<1> QED
  BY <1>3, <1>5, <1>6

\* A slot is an index of the ring.
LEMMA SlotIs == ASSUME NEW n \in Nat, n # 0, NEW k \in Nat PROVE k % n \in 0..n - 1
OBVIOUS

\* The ring has a place.
LEMMA SizeIs == Size \in Nat /\ Size # 0
BY BusAssumption
-----------------------------------------------------------------------------
\* The slot is written under the lock: what was in it is lost to those that
\* have not read it, and to nobody else.
LEMMA FillKeeps ==
  ASSUME BusInv, NEW e \in Events, Fill(e), ~Locked, Locked',
         \A f \in Events : HolderIs(f)' => f = e, UNCHANGED subVars
  PROVE  RingOK' /\ SubsOK' /\ ring' \in [0..Size - 1 -> SUBSET Events] /\ overrun' \subseteq Subs
<1>1. /\ ring \in [0..Size - 1 -> SUBSET Events] /\ head \in Nat /\ head = Len(log) /\ log \in Seq(Events)
      /\ subs \subseteq Subs /\ overrun \subseteq Subs /\ Size \in Nat /\ Size # 0
  BY SizeIs DEF BusInv, BusType, RingOK
<1>2. /\ ring' = [ring EXCEPT ![head % Size] = {e}] /\ head' = head /\ log' = log
      /\ overrun' = overrun \cup {s \in subs : cursor[s] <= head - Size}
      /\ UNCHANGED <<subs, spc, cursor, got, first>>
  BY DEF Fill, subVars
<1>3. head % Size \in 0..Size - 1
  BY <1>1, SlotIs
<1>4. /\ ring' \in [0..Size - 1 -> SUBSET Events] /\ ring'[head % Size] = {e}
      /\ \A i \in 0..Size - 1 : i # head % Size => ring'[i] = ring[i]
  BY <1>1, <1>2, <1>3
<1>5. RingOK'
  <2>1. ASSUME NEW k \in Nat, k < head, head - k < Size
        PROVE  ring'[k % Size] = {log[k + 1]}
    <3>1. k % Size # head % Size /\ k % Size \in 0..Size - 1
      BY <1>1, <2>1, Slots
    <3>2. ring[k % Size] = {log[k + 1]}
      BY <2>1 DEF BusInv, RingOK
    <3> QED
      BY <1>4, <3>1, <3>2
  <2>2. \A f \in Events : HolderIs(f)' => ring'[head % Size] = {f}
    BY <1>4
  <2> QED
    BY <1>1, <1>2, <2>1, <2>2 DEF RingOK
<1>6. ASSUME NEW s \in Subs PROVE SubOK(s)'
  <2>1. SubOK(s) /\ cursor \in [Subs -> Nat]
    BY DEF BusInv, SubsOK, BusType
  <2>2. s \in subs /\ s \notin overrun' => s \notin overrun /\ head - Size < cursor[s]
    BY <1>1, <1>2, <2>1
  <2>3. CASE s \in subs
    <3>1. /\ first[s] <= cursor[s] /\ cursor[s] <= head /\ spc[s] # "out"
          /\ spc[s] = "read" => cursor[s] < head
      BY <2>1, <2>3 DEF SubOK
    <3>2. s \notin overrun' => /\ head - Size <= cursor[s] /\ head - Size < cursor[s]
                               /\ got[s] = Kept(SubSeq(log, first[s] + 1, cursor[s]), Wants[s])
      BY <2>1, <2>2, <2>3 DEF SubOK
    <3> QED
      BY <1>2, <2>3, <3>1, <3>2 DEF SubOK
  <2>4. CASE s \notin subs
    BY <1>2, <2>1, <2>4 DEF SubOK
  <2> QED
    BY <2>3, <2>4
<1>7. overrun' \subseteq Subs
  BY <1>1, <1>2
<1> QED
  BY <1>4, <1>5, <1>6, <1>7 DEF SubsOK

\* Then the head passes the slot, and the lock is released.
LEMMA AdvanceKeeps ==
  ASSUME BusInv, NEW e \in Events, HolderIs(e), Locked, Advance(e), ~Locked', UNCHANGED subVars
  PROVE  RingOK' /\ SubsOK' /\ head' \in Nat /\ log' \in Seq(Events)
<1>1. /\ ring \in [0..Size - 1 -> SUBSET Events] /\ head \in Nat /\ head = Len(log) /\ log \in Seq(Events)
      /\ subs \subseteq Subs /\ overrun \subseteq Subs /\ Size \in Nat /\ Size # 0
      /\ cursor \in [Subs -> Nat] /\ first \in [Subs -> Nat]
  BY SizeIs DEF BusInv, BusType, RingOK
<1>2. /\ ring' = ring /\ head' = head + 1 /\ log' = Append(log, e) /\ overrun' = overrun
      /\ UNCHANGED <<subs, spc, cursor, got, first>>
  BY DEF Advance, subVars
<1>3. /\ log' \in Seq(Events) /\ Len(log') = head + 1 /\ log'[head + 1] = e
      /\ \A i \in 1..head : log'[i] = log[i]
  BY <1>1, <1>2
<1>4. \A f \in Events : ~HolderIs(f)'
  BY DEF HolderIs, Locked
<1>5. ASSUME NEW k \in Nat, k < head + 1, head + 1 - k <= Size
      PROVE  ring[k % Size] = {log'[k + 1]}
  <2>1. CASE k = head
    <3>1. ring[head % Size] = {e}
      BY DEF BusInv, RingOK
    <3> QED
      BY <1>3, <2>1, <3>1
  <2>2. CASE k # head
    <3>1. k < head /\ head - k < Size /\ k + 1 \in 1..head
      BY <1>1, <1>5, <2>2
    <3>2. ring[k % Size] = {log[k + 1]}
      BY <3>1 DEF BusInv, RingOK
    <3> QED
      BY <1>3, <3>1, <3>2
  <2> QED
    BY <2>1, <2>2
<1>6. RingOK'
  <2>1. \A k \in Nat : k < head + 1 /\ (head + 1 - k < Size \/ head + 1 - k = Size) => ring[k % Size] = {log'[k + 1]}
    <3>1. TAKE k \in Nat
    <3>2. HAVE k < head + 1 /\ (head + 1 - k < Size \/ head + 1 - k = Size)
    <3>3. head + 1 - k <= Size
      BY <1>1, <3>2
    <3> QED
      BY <1>5, <3>2, <3>3
  <2>2. ASSUME NEW k \in Nat, k < head', head' - k < Size \/ (head' - k = Size /\ ~Locked')
        PROVE  ring'[k % Size] = {log'[k + 1]}
    <3>1. k < head + 1 /\ (head + 1 - k < Size \/ head + 1 - k = Size)
      <4>1. head' = head + 1
        BY <1>2
      <4>2. head' - k < Size \/ head' - k = Size
        BY <2>2
      <4> QED
        <5>1. k < head'
          BY <2>2
        <5> QED
          BY <1>1, <4>1, <4>2, <5>1
    <3> QED
      BY <1>2, <2>1, <3>1
  <2>3. head' = Len(log')
    BY <1>2, <1>3
  <2> QED
    BY <1>4, <2>2, <2>3 DEF RingOK
<1>7. ASSUME NEW s \in Subs PROVE SubOK(s)'
  <2>1. SubOK(s) /\ cursor[s] \in Nat /\ first[s] \in Nat
    BY <1>1 DEF BusInv, SubsOK
  <2>2. CASE s \in subs
    <3>1. /\ first[s] <= cursor[s] /\ cursor[s] <= head /\ spc[s] # "out"
          /\ spc[s] = "read" => cursor[s] < head
      BY <2>1, <2>2 DEF SubOK
    <3>2. cursor[s] <= head + 1 /\ (cursor[s] < head => cursor[s] < head + 1)
      BY <1>1, <2>1, <3>1
    <3>3. ASSUME s \notin overrun
          PROVE  /\ head + 1 - Size <= cursor[s]
                 /\ got[s] = Kept(SubSeq(log', first[s] + 1, cursor[s]), Wants[s])
      <4>1. head - Size < cursor[s] /\ got[s] = Kept(SubSeq(log, first[s] + 1, cursor[s]), Wants[s])
        BY <2>1, <2>2, <3>3 DEF SubOK
      <4>2. SubSeq(log', first[s] + 1, cursor[s]) = SubSeq(log, first[s] + 1, cursor[s])
        BY <1>1, <1>2, <2>1, <3>1, WindowAppended
      <4> QED
        <5>1. head + 1 - Size <= cursor[s]
          BY <1>1, <2>1, <4>1
        <5> QED
          BY <4>1, <4>2, <5>1
    <3> QED
      <4>1. /\ s \in subs' /\ first'[s] = first[s] /\ cursor'[s] = cursor[s] /\ spc'[s] = spc[s] /\ got'[s] = got[s]
            /\ head' = head + 1 /\ overrun' = overrun
        BY <1>2, <2>2
      <4> QED
        <5>1. /\ first'[s] <= cursor'[s] /\ cursor'[s] <= head' /\ spc'[s] # "out"
              /\ spc'[s] = "read" => cursor'[s] < head'
          BY <3>1, <3>2, <4>1
        <5>2. s \notin overrun' => /\ head' - Size <= cursor'[s]
                                   /\ got'[s] = Kept(SubSeq(log', first'[s] + 1, cursor'[s]), Wants[s])
          <6>1. SUFFICES ASSUME s \notin overrun'
                         PROVE  /\ head' - Size <= cursor'[s]
                                /\ got'[s] = Kept(SubSeq(log', first'[s] + 1, cursor'[s]), Wants[s])
            OBVIOUS
          <6>2. head + 1 - Size <= cursor[s] /\ got[s] = Kept(SubSeq(log', first[s] + 1, cursor[s]), Wants[s])
            BY <3>3, <4>1, <6>1
          <6>3. head' - Size <= cursor'[s]
            BY <1>1, <2>1, <4>1, <6>2
          <6> QED
            BY <4>1, <6>2, <6>3
        <5>3. ~Locked'
          OBVIOUS
        <5> QED
          BY <4>1, <5>1, <5>2, <5>3 DEF SubOK
  <2>3. CASE s \notin subs
    BY <1>2, <2>1, <2>3 DEF SubOK
  <2> QED
    BY <2>2, <2>3
<1> QED
  BY <1>1, <1>2, <1>3, <1>6, <1>7 DEF SubsOK

\* Whatever does not write the ring leaves it as it is.
LEMMA RingStays ==
  ASSUME BusInv, UNCHANGED busVars, Locked' = Locked, \A e \in Events : HolderIs(e)' => HolderIs(e)
  PROVE  RingOK'
<1>1. UNCHANGED <<ring, head, log>>
  BY DEF busVars
<1> QED
  BY <1>1 DEF BusInv, RingOK

\* Subscribers that are left alone stay as they are.
LEMMA SubsStay ==
  ASSUME BusInv, UNCHANGED <<busVars, subVars>>, Locked' = Locked
  PROVE  SubsOK'
<1>1. UNCHANGED <<head, log, overrun, subs, spc, cursor, got, first>>
  BY DEF busVars, subVars
<1>2. ASSUME NEW s \in Subs PROVE SubOK(s)'
  BY <1>1 DEF BusInv, SubsOK, SubOK
<1> QED
  BY <1>2 DEF SubsOK
-----------------------------------------------------------------------------
\* emit() decides what becomes of the event.
LEMMA EmitKeeps ==
  ASSUME BusInv, NEW e \in Events, Emit(e)
  PROVE  BusInv'
<1>1. /\ pc[e] = "new" /\ UNCHANGED <<ring, head, log, overrun, deferred, ready, tpc, subs, spc, call, cursor, got, first>>
      /\ \E p \in {"returned", "defer", "write"} : pc' = [pc EXCEPT ![e] = p]
  BY DEF Emit, Goto, busVars, subVars
<1>2. PICK p \in {"returned", "defer", "write"} : pc' = [pc EXCEPT ![e] = p]
  BY <1>1
<1>3. pc \in [Events -> EmitPC]
  BY DEF BusInv, BusType
<1>4. /\ pc' \in [Events -> EmitPC] /\ \A f \in Events : f # e => pc'[f] = pc[f]
      /\ pc'[e] \in {"returned", "defer", "write"}
  BY <1>2, <1>3 DEF EmitPC
<1>5. /\ \A f \in Events : pc'[f] = "written" <=> pc[f] = "written"
      /\ \A f \in Events : pc[f] = "returned" => pc'[f] = "returned"
      /\ \A f \in Events : pc[f] \in {"wake", "returned"} => pc'[f] \in {"wake", "returned"}
  BY <1>1, <1>4
<1>6. Locked' = Locked /\ \A f \in Events : HolderIs(f)' => HolderIs(f)
  BY <1>1, <1>5 DEF Locked, HolderIs
<1>7. RingOK' /\ SubsOK'
  <2>1. UNCHANGED busVars /\ UNCHANGED <<busVars, subVars>>
    <3>1. /\ ring' = ring /\ head' = head /\ log' = log /\ overrun' = overrun /\ subs' = subs /\ spc' = spc
          /\ cursor' = cursor /\ first' = first /\ got' = got /\ call' = call
      BY <1>1
    <3> QED
      BY <3>1 DEF busVars, subVars
  <2>2. RingOK'
    BY <1>6, <2>1, RingStays
  <2>3. SubsOK'
    BY <1>6, <2>1, SubsStay
  <2> QED
    BY <2>2, <2>3
<1>8. LockOK'
  BY <1>1, <1>5 DEF BusInv, LockOK
<1>9. PlacesOK'
  <2>1. In(deferred) \cup In(ready) \cup In(log) \subseteq Events
    BY DEF In, BusInv, BusType
  <2> QED
    BY <1>1, <1>5, <2>1 DEF BusInv, PlacesOK
<1>10. BusType'
  BY <1>1, <1>4 DEF BusInv, BusType
<1> QED
  BY <1>7, <1>8, <1>9, <1>10 DEF BusInv

\* A deferred event is in its list, once.
LEMMA EmitDeferredKeeps ==
  ASSUME BusInv, NEW e \in Events, EmitDeferred(e)
  PROVE  BusInv'
<1>1. /\ pc[e] = "defer" /\ pc' = [pc EXCEPT ![e] = "returned"] /\ deferred' = Sorted(e, deferred)
      /\ UNCHANGED <<ring, head, log, overrun, ready, tpc, subs, spc, call, cursor, got, first>>
  BY DEF EmitDeferred, Goto, busVars, subVars
<1>2. pc \in [Events -> EmitPC] /\ deferred \in Seq(Events) /\ ready \in Seq(Events) /\ log \in Seq(Events)
  BY DEF BusInv, BusType
<1>3. /\ pc' \in [Events -> EmitPC] /\ pc'[e] = "returned" /\ \A f \in Events : f # e => pc'[f] = pc[f]
  BY <1>1, <1>2 DEF EmitPC
<1>4. e \notin In(deferred) \cup In(ready) \cup In(log)
  BY <1>1 DEF BusInv, PlacesOK
<1>5. deferred' \in Seq(Events) /\ Once(deferred') /\ In(deferred') = In(deferred) \cup {e}
  <2> DEFINE later == {i \in 1..Len(deferred) : From[e] < From[deferred[i]]}
             at == IF later = {} THEN Len(deferred) + 1 ELSE CHOOSE i \in later : \A j \in later : i <= j
  <2>1. deferred' = InsertAt(deferred, at, e)
    BY <1>1 DEF Sorted
  <2>2. at \in 1..Len(deferred) + 1
    <3>1. CASE later = {}
      BY <1>2, <3>1
    <3>2. CASE later # {}
      <4>1. later \in SUBSET Nat /\ later \subseteq 1..Len(deferred)
        OBVIOUS
      <4>2. at = CHOOSE i \in later : \A j \in later : i <= j
        BY <3>2
      <4> HIDE DEF later, at
      <4>3. \E i \in later : \A j \in later : i <= j
        BY <3>2, <4>1, LeastNat
      <4>4. at \in later
        BY <4>2, <4>3
      <4> QED
        BY <1>2, <4>1, <4>4
    <3> QED
      BY <3>1, <3>2
  <2>3. Once(deferred)
    BY DEF BusInv, PlacesOK
  <2> HIDE DEF at
  <2> QED
    BY <1>2, <1>4, <2>1, <2>2, <2>3, OnceInserted
<1>6. Locked' = Locked /\ \A f \in Events : HolderIs(f)' => HolderIs(f)
  BY <1>1, <1>3 DEF Locked, HolderIs
<1>7. RingOK' /\ SubsOK'
  <2>1. UNCHANGED busVars /\ UNCHANGED <<busVars, subVars>>
    <3>1. /\ ring' = ring /\ head' = head /\ log' = log /\ overrun' = overrun /\ subs' = subs /\ spc' = spc
          /\ cursor' = cursor /\ first' = first /\ got' = got /\ call' = call
      BY <1>1
    <3> QED
      BY <3>1 DEF busVars, subVars
  <2>2. RingOK'
    BY <1>6, <2>1, RingStays
  <2>3. SubsOK'
    BY <1>6, <2>1, SubsStay
  <2> QED
    BY <2>2, <2>3
<1>8. LockOK'
  BY <1>1, <1>3 DEF BusInv, LockOK
<1>9. PlacesOK'
  <2>1. In(deferred) \cup In(ready) \cup In(log) \subseteq Events
    BY <1>2 DEF In
  <2> QED
    BY <1>1, <1>3, <1>4, <1>5, <2>1 DEF BusInv, PlacesOK
<1>10. BusType'
  BY <1>1, <1>3, <1>5 DEF BusInv, BusType
<1> QED
  BY <1>7, <1>8, <1>9, <1>10 DEF BusInv

LEMMA EmitFillKeeps ==
  ASSUME BusInv, NEW e \in Events, EmitFill(e)
  PROVE  BusInv'
<1>1. /\ pc[e] = "write" /\ ~Locked /\ pc' = [pc EXCEPT ![e] = "written"] /\ Fill(e)
      /\ UNCHANGED <<deferred, ready, tpc, subVars>>
  BY DEF EmitFill, Goto
<1>2. pc \in [Events -> EmitPC]
  BY DEF BusInv, BusType
<1>3. pc' \in [Events -> EmitPC] /\ pc'[e] = "written" /\ \A f \in Events : f # e => pc'[f] = pc[f]
  BY <1>1, <1>2 DEF EmitPC
<1>4. Locked' /\ \A f \in Events : HolderIs(f)' => f = e
  BY <1>1, <1>3 DEF Locked, HolderIs
<1>5. RingOK' /\ SubsOK' /\ ring' \in [0..Size - 1 -> SUBSET Events] /\ overrun' \subseteq Subs
  BY <1>1, <1>4, FillKeeps
<1>6. LockOK'
  BY <1>1, <1>3 DEF BusInv, LockOK, Locked
<1>7. UNCHANGED <<head, log>>
  BY <1>1 DEF Fill
<1>8. PlacesOK'
  <2>1. In(deferred) \cup In(ready) \cup In(log) \subseteq Events
    BY DEF In, BusInv, BusType
  <2>2. e \notin In(deferred) \cup In(ready) \cup In(log)
    BY <1>1 DEF BusInv, PlacesOK
  <2> QED
    BY <1>1, <1>3, <1>7, <2>1, <2>2 DEF BusInv, PlacesOK
<1>9. BusType'
  BY <1>1, <1>3, <1>5, <1>7 DEF BusInv, BusType, subVars
<1> QED
  BY <1>5, <1>6, <1>8, <1>9 DEF BusInv

LEMMA EmitAdvanceKeeps ==
  ASSUME BusInv, NEW e \in Events, EmitAdvance(e)
  PROVE  BusInv'
<1>1. /\ pc[e] = "written" /\ pc' = [pc EXCEPT ![e] = "wake"] /\ Advance(e)
      /\ UNCHANGED <<deferred, ready, tpc, subVars>>
  BY DEF EmitAdvance, Goto
<1>2. pc \in [Events -> EmitPC] /\ log \in Seq(Events)
  BY DEF BusInv, BusType
<1>3. pc' \in [Events -> EmitPC] /\ pc'[e] = "wake" /\ \A f \in Events : f # e => pc'[f] = pc[f]
  BY <1>1, <1>2 DEF EmitPC
<1>4. HolderIs(e) /\ Locked /\ ~Locked'
  BY <1>1, <1>3 DEF Locked, HolderIs, BusInv, LockOK
<1>5. RingOK' /\ SubsOK' /\ head' \in Nat /\ log' \in Seq(Events)
  BY <1>1, <1>4, AdvanceKeeps
<1>6. LockOK'
  BY <1>1, <1>3 DEF BusInv, LockOK
<1>7. UNCHANGED <<ring, overrun>> /\ log' = Append(log, e)
  BY <1>1 DEF Advance
<1>8. e \notin In(deferred) \cup In(ready) \cup In(log)
  BY <1>1 DEF BusInv, PlacesOK
<1>9. Once(log') /\ In(log') = In(log) \cup {e}
  BY <1>2, <1>7, <1>8, OnceAppended DEF BusInv, PlacesOK
<1>10. PlacesOK'
  <2>1. In(deferred) \cup In(ready) \cup In(log) \subseteq Events
    BY DEF In, BusInv, BusType
  <2> QED
    BY <1>1, <1>3, <1>8, <1>9, <2>1 DEF BusInv, PlacesOK
<1>11. BusType'
  BY <1>1, <1>3, <1>5, <1>7 DEF BusInv, BusType, subVars
<1> QED
  BY <1>5, <1>6, <1>10, <1>11 DEF BusInv

LEMMA EmitNotifyKeeps ==
  ASSUME BusInv, NEW e \in Events, EmitNotify(e)
  PROVE  BusInv'
<1>1. /\ pc[e] = "wake" /\ pc' = [pc EXCEPT ![e] = "returned"]
      /\ UNCHANGED <<ring, head, log, overrun, deferred, ready, tpc, subs, spc, call, cursor, got, first>>
  BY DEF EmitNotify, Goto, busVars, subVars
<1>2. pc \in [Events -> EmitPC]
  BY DEF BusInv, BusType
<1>3. pc' \in [Events -> EmitPC] /\ pc'[e] = "returned" /\ \A f \in Events : f # e => pc'[f] = pc[f]
  BY <1>1, <1>2 DEF EmitPC
<1>4. Locked' = Locked /\ \A f \in Events : HolderIs(f)' => HolderIs(f)
  BY <1>1, <1>3 DEF Locked, HolderIs
<1>5. RingOK' /\ SubsOK'
  <2>1. UNCHANGED busVars /\ UNCHANGED <<busVars, subVars>>
    <3>1. /\ ring' = ring /\ head' = head /\ log' = log /\ overrun' = overrun /\ subs' = subs /\ spc' = spc
          /\ cursor' = cursor /\ first' = first /\ got' = got /\ call' = call
      BY <1>1
    <3> QED
      BY <3>1 DEF busVars, subVars
  <2>2. RingOK'
    BY <1>4, <2>1, RingStays
  <2>3. SubsOK'
    BY <1>4, <2>1, SubsStay
  <2> QED
    BY <2>2, <2>3
<1>6. LockOK'
  BY <1>1, <1>3 DEF BusInv, LockOK
<1>7. PlacesOK'
  <2>1. In(deferred) \cup In(ready) \cup In(log) \subseteq Events
    BY DEF In, BusInv, BusType
  <2> QED
    BY <1>1, <1>3, <2>1 DEF BusInv, PlacesOK
<1>8. BusType'
  BY <1>1, <1>3 DEF BusInv, BusType
<1> QED
  BY <1>5, <1>6, <1>7, <1>8 DEF BusInv
-----------------------------------------------------------------------------
\* tick() takes events out of the list; none is in both.
LEMMA TickTakeKeeps ==
  ASSUME BusInv, TickTake
  PROVE  BusInv'
<1> DEFINE due   == {e \in Events : ~Expired(e) /\ From[e] <= now}
           later == {e \in Events : ~Expired(e) /\ ~(From[e] <= now)}
<1>1. /\ ready = <<>> /\ ~Locked /\ ready' = Kept(deferred, due) /\ deferred' = Kept(deferred, later)
      /\ UNCHANGED <<ring, head, log, overrun, pc, tpc, subs, spc, call, cursor, got, first>>
  BY DEF TickTake, LoopFree, busVars, subVars
<1>2. deferred \in Seq(Events) /\ Once(deferred)
  BY DEF BusInv, BusType, PlacesOK
<1>3. due \cap later = {}
  OBVIOUS
<1> HIDE DEF due, later
<1>4. /\ ready' \in Seq(Events) /\ Once(ready') /\ In(ready') = In(deferred) \cap due
      /\ deferred' \in Seq(Events) /\ Once(deferred') /\ In(deferred') = In(deferred) \cap later
  BY <1>1, <1>2, OnceKept
<1>5. tpc = "write"
  BY <1>1 DEF BusInv, LockOK
<1>6. Locked' = Locked /\ \A f \in Events : HolderIs(f)' => HolderIs(f)
  BY <1>1, <1>5 DEF Locked, HolderIs
<1>7. RingOK' /\ SubsOK'
  <2>1. UNCHANGED busVars /\ UNCHANGED <<busVars, subVars>>
    <3>1. /\ ring' = ring /\ head' = head /\ log' = log /\ overrun' = overrun /\ subs' = subs /\ spc' = spc
          /\ cursor' = cursor /\ first' = first /\ got' = got /\ call' = call
      BY <1>1
    <3> QED
      BY <3>1 DEF busVars, subVars
  <2>2. RingOK'
    BY <1>6, <2>1, RingStays
  <2>3. SubsOK'
    BY <1>6, <2>1, SubsStay
  <2> QED
    BY <2>2, <2>3
<1>8. LockOK'
  BY <1>1, <1>5 DEF BusInv, LockOK
<1>9. PlacesOK'
  BY <1>1, <1>3, <1>4 DEF BusInv, PlacesOK
<1>10. BusType'
  BY <1>1, <1>4 DEF BusInv, BusType
<1> QED
  BY <1>7, <1>8, <1>9, <1>10 DEF BusInv

LEMMA TickFillKeeps ==
  ASSUME BusInv, TickFill
  PROVE  BusInv'
<1> DEFINE e == Head(ready)
<1>1. /\ ready # <<>> /\ tpc = "write" /\ ~Locked /\ tpc' = "written" /\ Fill(e)
      /\ UNCHANGED <<deferred, pc, ready, subVars>>
  BY DEF TickFill
<1>2. ready \in Seq(Events) /\ pc \in [Events -> EmitPC]
  BY DEF BusInv, BusType
<1>3. e \in Events
  BY <1>1, <1>2, TailIs
<1>4. Locked' /\ \A f \in Events : HolderIs(f)' => f = e
  BY <1>1 DEF Locked, HolderIs
<1>5. RingOK' /\ SubsOK' /\ ring' \in [0..Size - 1 -> SUBSET Events] /\ overrun' \subseteq Subs
  BY <1>1, <1>3, <1>4, FillKeeps
<1>6. LockOK'
  BY <1>1 DEF BusInv, LockOK, Locked
<1>7. UNCHANGED <<head, log>>
  BY <1>1 DEF Fill
<1>8. PlacesOK'
  BY <1>1, <1>7 DEF BusInv, PlacesOK
<1>9. BusType'
  BY <1>1, <1>5, <1>7 DEF BusInv, BusType, subVars
<1> QED
  BY <1>5, <1>6, <1>8, <1>9 DEF BusInv

LEMMA TickAdvanceKeeps ==
  ASSUME BusInv, TickAdvance
  PROVE  BusInv'
<1> DEFINE e == Head(ready)
<1>1. /\ tpc = "written" /\ tpc' = "wake" /\ Advance(e) /\ UNCHANGED <<deferred, pc, ready, subVars>>
  BY DEF TickAdvance
<1>2. ready \in Seq(Events) /\ ready # <<>> /\ log \in Seq(Events)
  BY <1>1 DEF BusInv, BusType, LockOK
<1>3. e \in Events /\ e \in In(ready)
  <2>1. Head(ready) = ready[1] /\ Head(ready) \in Events /\ 1 \in DOMAIN ready
    BY <1>2, TailIs
  <2> QED
    BY <2>1 DEF In
<1>4. HolderIs(e) /\ Locked /\ ~Locked'
  BY <1>1 DEF Locked, HolderIs, BusInv, LockOK
<1>5. RingOK' /\ SubsOK' /\ head' \in Nat /\ log' \in Seq(Events)
  BY <1>1, <1>3, <1>4, AdvanceKeeps
<1>6. LockOK'
  BY <1>1, <1>2 DEF BusInv, LockOK
<1>7. UNCHANGED <<ring, overrun>> /\ log' = Append(log, e)
  BY <1>1 DEF Advance
<1>8. e \notin In(deferred) \cup In(log) /\ In(ready) \cap In(log) = {} /\ pc[e] = "returned"
  BY <1>1, <1>3 DEF BusInv, PlacesOK
<1>9. Once(log') /\ In(log') = In(log) \cup {e}
  BY <1>2, <1>3, <1>7, <1>8, OnceAppended DEF BusInv, PlacesOK
<1>10. PlacesOK'
  BY <1>1, <1>8, <1>9 DEF BusInv, PlacesOK
<1>11. BusType'
  BY <1>1, <1>5, <1>7 DEF BusInv, BusType, subVars
<1> QED
  BY <1>5, <1>6, <1>10, <1>11 DEF BusInv

LEMMA TickNotifyKeeps ==
  ASSUME BusInv, TickNotify
  PROVE  BusInv'
<1>1. /\ tpc = "wake" /\ tpc' = "write" /\ ready' = Tail(ready)
      /\ UNCHANGED <<ring, head, log, overrun, deferred, pc, subs, spc, call, cursor, got, first>>
  BY DEF TickNotify, busVars, subVars
<1>2. ready \in Seq(Events) /\ ready # <<>> /\ Once(ready)
  BY <1>1 DEF BusInv, BusType, LockOK, PlacesOK
<1>3. Once(ready') /\ In(ready') = In(ready) \ {Head(ready)} /\ ready' \in Seq(Events)
  BY <1>1, <1>2, OnceTail
<1>4. Locked' = Locked /\ \A f \in Events : HolderIs(f)' => HolderIs(f)
  BY <1>1 DEF Locked, HolderIs
<1>5. RingOK' /\ SubsOK'
  <2>1. UNCHANGED busVars /\ UNCHANGED <<busVars, subVars>>
    <3>1. /\ ring' = ring /\ head' = head /\ log' = log /\ overrun' = overrun /\ subs' = subs /\ spc' = spc
          /\ cursor' = cursor /\ first' = first /\ got' = got /\ call' = call
      BY <1>1
    <3> QED
      BY <3>1 DEF busVars, subVars
  <2>2. RingOK'
    BY <1>4, <2>1, RingStays
  <2>3. SubsOK'
    BY <1>4, <2>1, SubsStay
  <2> QED
    BY <2>2, <2>3
<1>6. LockOK'
  BY <1>1 DEF BusInv, LockOK
<1>7. PlacesOK'
  BY <1>1, <1>3 DEF BusInv, PlacesOK
<1>8. BusType'
  BY <1>1, <1>3 DEF BusInv, BusType
<1> QED
  BY <1>5, <1>6, <1>7, <1>8 DEF BusInv

LEMMA CancelKeeps ==
  ASSUME BusInv, NEW e \in Events, Cancel(e)
  PROVE  BusInv'
<1>1. /\ deferred' = RemoveFirst(deferred, e)
      /\ UNCHANGED <<ring, head, log, overrun, ready, tpc, pc, subs, spc, call, cursor, got, first>>
  BY DEF Cancel, busVars, subVars
<1>2. deferred \in Seq(Events) /\ Once(deferred)
  BY DEF BusInv, BusType, PlacesOK
<1>3. deferred' \in Seq(Events) /\ Once(deferred') /\ In(deferred') = In(deferred) \ {e}
  BY <1>1, <1>2, OnceRemoved
<1>4. Locked' = Locked /\ \A f \in Events : HolderIs(f)' => HolderIs(f)
  BY <1>1 DEF Locked, HolderIs
<1>5. RingOK' /\ SubsOK'
  <2>1. UNCHANGED busVars /\ UNCHANGED <<busVars, subVars>>
    <3>1. /\ ring' = ring /\ head' = head /\ log' = log /\ overrun' = overrun /\ subs' = subs /\ spc' = spc
          /\ cursor' = cursor /\ first' = first /\ got' = got /\ call' = call
      BY <1>1
    <3> QED
      BY <3>1 DEF busVars, subVars
  <2>2. RingOK'
    BY <1>4, <2>1, RingStays
  <2>3. SubsOK'
    BY <1>4, <2>1, SubsStay
  <2> QED
    BY <2>2, <2>3
<1>6. LockOK'
  BY <1>1 DEF BusInv, LockOK
<1>7. PlacesOK'
  BY <1>1, <1>3 DEF BusInv, PlacesOK
<1>8. BusType'
  BY <1>1, <1>3 DEF BusInv, BusType
<1> QED
  BY <1>5, <1>6, <1>7, <1>8 DEF BusInv
-----------------------------------------------------------------------------
\* A step of the subscribers keeps the ring.
LEMMA SubscriberStep ==
  ASSUME BusInv, UNCHANGED <<busVars, deferred, ready, tpc, pc>>, SubsOK',
         subs' \subseteq Subs, spc' \in [Subs -> Reading \cup {"out", "idle", "wait"}],
         cursor' \in [Subs -> Nat], first' \in [Subs -> Nat], got' \in [Subs -> Seq(Events)]
  PROVE  BusInv'
<1>1. UNCHANGED <<ring, head, log, overrun>>
  BY DEF busVars
<1>2. Locked' = Locked /\ \A f \in Events : HolderIs(f)' => HolderIs(f)
  BY DEF Locked, HolderIs
<1>3. RingOK'
  BY <1>2, RingStays
<1>4. LockOK' /\ PlacesOK'
  BY <1>1 DEF BusInv, LockOK, PlacesOK
<1>5. BusType'
  BY <1>1 DEF BusInv, BusType
<1> QED
  BY <1>3, <1>4, <1>5 DEF BusInv

\* A subscriber starts at the head.
LEMMA SubscribeKeeps ==
  ASSUME BusInv, NEW s \in Subs, Subscribe(s)
  PROVE  BusInv'
<1>1. /\ spc[s] = "out" /\ subs' = subs \cup {s} /\ spc' = [spc EXCEPT ![s] = "idle"]
      /\ cursor' = [cursor EXCEPT ![s] = head] /\ first' = [first EXCEPT ![s] = head]
      /\ UNCHANGED <<busVars, deferred, pc, ready, tpc, got>>
  BY DEF Subscribe, At
<1>2. /\ head \in Nat /\ log \in Seq(Events) /\ subs \subseteq Subs /\ cursor \in [Subs -> Nat] /\ first \in [Subs -> Nat]
      /\ spc \in [Subs -> Reading \cup {"out", "idle", "wait"}] /\ got \in [Subs -> Seq(Events)]
      /\ Size \in Nat /\ Size # 0
  BY SizeIs DEF BusInv, BusType
<1>3. /\ cursor' \in [Subs -> Nat] /\ first' \in [Subs -> Nat] /\ spc' \in [Subs -> Reading \cup {"out", "idle", "wait"}]
      /\ subs' \subseteq Subs
  BY <1>1, <1>2
<1>4. UNCHANGED <<head, log, overrun>> /\ Locked' = Locked
  BY <1>1 DEF busVars, Locked
<1>5. ASSUME NEW t \in Subs PROVE SubOK(t)'
  <2>1. SubOK(t)
    BY DEF BusInv, SubsOK
  <2>2. CASE t = s
    <3>1. s \notin subs /\ got[s] = <<>>
      BY <1>1, <2>1, <2>2 DEF SubOK
    <3>2. cursor'[s] = head /\ first'[s] = head /\ spc'[s] = "idle"
      BY <1>1, <1>2
    <3>3. SubSeq(log, head + 1, head) = <<>>
      BY <1>2, WindowNone
    <3>4. Kept(<<>>, Wants[s]) = <<>>
      BY KeptNone
    <3>5. head <= head /\ head - Size <= head /\ head - Size < head
      BY <1>2
    <3> QED
      BY <1>1, <1>4, <2>2, <3>1, <3>2, <3>3, <3>4, <3>5 DEF SubOK
  <2>3. CASE t # s
    <3>1. cursor'[t] = cursor[t] /\ first'[t] = first[t] /\ spc'[t] = spc[t] /\ (t \in subs' <=> t \in subs) /\ got' = got
      BY <1>1, <1>2, <2>3
    <3> QED
      BY <1>4, <2>1, <3>1 DEF SubOK
  <2> QED
    BY <2>2, <2>3
<1> QED
  BY <1>1, <1>2, <1>3, <1>5, SubscriberStep DEF SubsOK

\* A step that only moves the subscriber's program counter
LEMMA MovesKeep ==
  ASSUME BusInv, NEW s \in Subs, NEW p \in Reading \cup {"idle", "wait"}, spc[s] # "out",
         p = "read" => cursor[s] < head, At(s, p),
         UNCHANGED <<busVars, deferred, pc, ready, tpc, subs, cursor, got, first>>
  PROVE  BusInv'
<1>1. /\ head \in Nat /\ subs \subseteq Subs /\ cursor \in [Subs -> Nat] /\ first \in [Subs -> Nat]
      /\ spc \in [Subs -> Reading \cup {"out", "idle", "wait"}] /\ got \in [Subs -> Seq(Events)]
  BY DEF BusInv, BusType
<1>2. spc' \in [Subs -> Reading \cup {"out", "idle", "wait"}] /\ spc'[s] = p /\ \A t \in Subs : t # s => spc'[t] = spc[t]
  BY <1>1 DEF At
<1>3. UNCHANGED <<head, log, overrun>> /\ Locked' = Locked
  BY DEF busVars, Locked
<1>4. ASSUME NEW t \in Subs PROVE SubOK(t)'
  <2>1. SubOK(t)
    BY DEF BusInv, SubsOK
  <2>2. CASE t = s
    <3>1. p # "out"
      BY DEF Reading
    <3> QED
      BY <1>2, <1>3, <2>1, <2>2, <3>1 DEF SubOK
  <2>3. CASE t # s
    BY <1>2, <1>3, <2>1, <2>3 DEF SubOK
  <2> QED
    BY <2>2, <2>3
<1> QED
  BY <1>1, <1>2, <1>4, SubscriberStep DEF SubsOK

\* One that lost nothing skips nothing.
LEMMA TrimKeeps ==
  ASSUME BusInv, NEW s \in Subs, Trim(s)
  PROVE  BusInv'
<1> DEFINE c == IF cursor[s] < head - Size THEN head - Size ELSE cursor[s]
<1>1. /\ spc[s] = "trim" /\ spc' = [spc EXCEPT ![s] = "scan"] /\ cursor' = [cursor EXCEPT ![s] = c]
      /\ UNCHANGED <<busVars, deferred, pc, ready, tpc, subs, got, first>>
  BY DEF Trim, At
<1>2. /\ head \in Nat /\ subs \subseteq Subs /\ cursor \in [Subs -> Nat] /\ first \in [Subs -> Nat]
      /\ spc \in [Subs -> Reading \cup {"out", "idle", "wait"}] /\ got \in [Subs -> Seq(Events)]
      /\ Size \in Nat /\ Size # 0
  BY SizeIs DEF BusInv, BusType
<1>3. cursor[s] \in Nat /\ c \in Nat /\ c >= cursor[s] /\ (cursor[s] <= head => c <= head)
  BY <1>2
<1>4. cursor[s] >= head - Size => c = cursor[s]
  BY <1>2
<1> HIDE DEF c
<1>5. /\ spc' \in [Subs -> Reading \cup {"out", "idle", "wait"}] /\ spc'[s] = "scan" /\ \A t \in Subs : t # s => spc'[t] = spc[t]
      /\ cursor' \in [Subs -> Nat] /\ cursor'[s] = c /\ \A t \in Subs : t # s => cursor'[t] = cursor[t]
  BY <1>1, <1>2, <1>3 DEF Reading
<1>6. UNCHANGED <<head, log, overrun>> /\ Locked' = Locked
  BY <1>1 DEF busVars, Locked
<1>7. ASSUME NEW t \in Subs PROVE SubOK(t)'
  <2>1. SubOK(t)
    BY DEF BusInv, SubsOK
  <2>2. CASE t = s
    <3>1. s \in subs
      BY <1>1, <2>1, <2>2 DEF SubOK
    <3>2. first[s] <= cursor[s] /\ cursor[s] <= head
      BY <2>1, <2>2, <3>1 DEF SubOK
    <3>3. first[s] <= c /\ c <= head
      BY <1>2, <1>3, <3>2
    <3>4. s \notin overrun => c = cursor[s]
      BY <1>2, <1>4, <2>1, <2>2, <3>1 DEF SubOK
    <3> QED
      BY <1>1, <1>5, <1>6, <2>1, <2>2, <3>1, <3>3, <3>4 DEF SubOK
  <2>3. CASE t # s
    <3>1. cursor'[t] = cursor[t] /\ spc'[t] = spc[t]
      BY <1>5, <2>3
    <3> QED
      BY <1>1, <1>6, <2>1, <3>1 DEF SubOK
  <2> QED
    BY <2>2, <2>3
<1> QED
  BY <1>1, <1>2, <1>5, <1>7, SubscriberStep DEF SubsOK

\* The slot at the cursor is the next event of the log.
LEMMA ReadKeeps ==
  ASSUME BusInv, NEW s \in Subs, Read(s)
  PROVE  BusInv'
<1> DEFINE match == ring[cursor[s] % Size] \cap Wants[s]
           p == IF match # {} /\ call[s] = "next" THEN "idle" ELSE "scan"
           g == got[s] \o SetToSeq(match)
           x == log[cursor[s] + 1]
<1>1. /\ spc[s] = "read" /\ spc' = [spc EXCEPT ![s] = p] /\ cursor' = [cursor EXCEPT ![s] = @ + 1]
      /\ got' = [got EXCEPT ![s] = g]
      /\ UNCHANGED <<busVars, deferred, pc, ready, tpc, subs, first>>
  BY DEF Read, At
<1>2. /\ head \in Nat /\ subs \subseteq Subs /\ cursor \in [Subs -> Nat] /\ first \in [Subs -> Nat]
      /\ spc \in [Subs -> Reading \cup {"out", "idle", "wait"}] /\ got \in [Subs -> Seq(Events)]
      /\ Size \in Nat /\ Size # 0 /\ log \in Seq(Events) /\ head = Len(log)
      /\ ring \in [0..Size - 1 -> SUBSET Events]
  BY SizeIs DEF BusInv, BusType, RingOK
<1>3. SubOK(s) /\ cursor[s] \in Nat /\ first[s] \in Nat
  BY <1>2 DEF BusInv, SubsOK
<1>4. s \in subs /\ first[s] <= cursor[s] /\ cursor[s] < head
  BY <1>1, <1>3 DEF SubOK
<1>5. ring[cursor[s] % Size] \subseteq Events /\ match \subseteq Events
  <2>1. cursor[s] % Size \in 0..Size - 1
    BY <1>2, <1>3, SlotIs
  <2> QED
    BY <1>2, <2>1
<1>6. ASSUME s \notin overrun
      PROVE  /\ ring[cursor[s] % Size] = {x}
             /\ head - Size <= cursor[s] /\ (Locked => head - Size < cursor[s])
             /\ got[s] = Kept(SubSeq(log, first[s] + 1, cursor[s]), Wants[s])
  <2>1. /\ head - Size <= cursor[s] /\ (Locked => head - Size < cursor[s])
        /\ got[s] = Kept(SubSeq(log, first[s] + 1, cursor[s]), Wants[s])
    BY <1>3, <1>4, <1>6 DEF SubOK
  <2>2. head - cursor[s] < Size \/ (head - cursor[s] = Size /\ ~Locked)
    <3>1. CASE Locked
      BY <1>2, <1>3, <2>1, <3>1
    <3>2. CASE ~Locked
      <4>1. head - cursor[s] < Size \/ head - cursor[s] = Size
        <5>1. head - Size <= cursor[s]
          BY <2>1
        <5>2. head \in Nat /\ Size \in Nat /\ cursor[s] \in Nat
          BY <1>2, <1>3
        <5> QED
          BY <5>1, <5>2
      <4> QED
        BY <3>2, <4>1
    <3> QED
      BY <3>1, <3>2
  <2>3. ring[cursor[s] % Size] = {log[cursor[s] + 1]}
    BY <1>3, <1>4, <2>2 DEF BusInv, RingOK
  <2> QED
    BY <2>1, <2>3
<1>7. ASSUME s \notin overrun
      PROVE  g = Kept(SubSeq(log, first[s] + 1, cursor[s] + 1), Wants[s])
  <2> DEFINE w == SubSeq(log, first[s] + 1, cursor[s])
  <2>1. w \in Seq(Events) /\ SubSeq(log, first[s] + 1, cursor[s] + 1) = Append(w, x)
    BY <1>2, <1>3, <1>4, WindowNext
  <2>2. x \in Events
    BY <1>2, <1>3, <1>4
  <2> HIDE DEF w, x
  <2>3. Kept(Append(w, x), Wants[s]) = IF x \in Wants[s] THEN Append(Kept(w, Wants[s]), x) ELSE Kept(w, Wants[s])
    BY <2>1, <2>2, KeptAppend
  <2>4. got[s] = Kept(w, Wants[s]) /\ match = {x} \cap Wants[s] /\ got[s] \in Seq(Events)
    BY <1>2, <1>6, <1>7 DEF w
  <2> HIDE DEF match
  <2>5. CASE x \in Wants[s]
    <3>1. match = {x}
      BY <2>4, <2>5
    <3>2. g = got[s] \o <<x>>
      BY <3>1, SetToSeqOne
    <3>3. got[s] \o <<x>> = Append(got[s], x)
      BY <2>2, <2>4
    <3> QED
      BY <2>1, <2>3, <2>4, <2>5, <3>2, <3>3
  <2>6. CASE x \notin Wants[s]
    <3>1. match = {}
      BY <2>4, <2>6
    <3>2. g = got[s] \o <<>>
      BY <3>1, SetToSeqNone
    <3>3. got[s] \o <<>> = got[s]
      BY <2>4
    <3> QED
      BY <2>1, <2>3, <2>4, <2>6, <3>2, <3>3
  <2> QED
    BY <2>5, <2>6
<1>8. g \in Seq(Events)
  <2>1. IsFiniteSet(match)
    BY <1>5, BusAssumption, FS_Subset
  <2>2. SetToSeq(match) \in [1..Cardinality(match) -> match] /\ Cardinality(match) \in Nat
    BY <2>1, SetToSeqIs, FS_CardinalityType
  <2> HIDE DEF match
  <2>3. SetToSeq(match) \in Seq(match)
    BY <2>2
  <2>4. SetToSeq(match) \in Seq(Events)
    BY <1>5, <2>2
  <2> QED
    BY <1>2, <2>4
<1>9. p \in {"idle", "scan"}
  OBVIOUS
<1> HIDE DEF p, g, match, x
<1>10. /\ spc' \in [Subs -> Reading \cup {"out", "idle", "wait"}] /\ spc'[s] = p
       /\ cursor' \in [Subs -> Nat] /\ cursor'[s] = cursor[s] + 1
       /\ got' \in [Subs -> Seq(Events)] /\ got'[s] = g
       /\ \A t \in Subs : t # s => spc'[t] = spc[t] /\ cursor'[t] = cursor[t] /\ got'[t] = got[t]
  BY <1>1, <1>2, <1>3, <1>8, <1>9 DEF Reading
<1>11. UNCHANGED <<head, log, overrun>> /\ Locked' = Locked
  BY <1>1 DEF busVars, Locked
<1>12. ASSUME NEW t \in Subs PROVE SubOK(t)'
  <2>1. SubOK(t)
    BY DEF BusInv, SubsOK
  <2>2. CASE t = s
    <3>1. first[s] <= cursor[s] + 1 /\ cursor[s] + 1 <= head
      BY <1>2, <1>3, <1>4
    <3>2. s \notin overrun => /\ head - Size <= cursor[s] + 1 /\ (Locked => head - Size < cursor[s] + 1)
                              /\ g = Kept(SubSeq(log, first[s] + 1, cursor[s] + 1), Wants[s])
      <4>1. SUFFICES ASSUME s \notin overrun
                     PROVE  head - Size <= cursor[s] + 1 /\ (Locked => head - Size < cursor[s] + 1)
        BY <1>7
      <4>2. head - Size <= cursor[s]
        BY <1>6, <4>1
      <4> QED
        BY <1>2, <1>3, <4>2
    <3>3. p # "out" /\ p # "read"
      BY <1>9
    <3> QED
      BY <1>1, <1>4, <1>10, <1>11, <2>2, <3>1, <3>2, <3>3 DEF SubOK
  <2>3. CASE t # s
    <3>1. cursor'[t] = cursor[t] /\ spc'[t] = spc[t] /\ got'[t] = got[t]
      BY <1>10, <2>3
    <3> QED
      BY <1>1, <1>11, <2>1, <3>1 DEF SubOK
  <2> QED
    BY <2>2, <2>3
<1> QED
  BY <1>1, <1>2, <1>10, <1>12, SubscriberStep DEF SubsOK
-----------------------------------------------------------------------------
LEMMA BusStarts == Init => BusInv
<1>1. SUFFICES ASSUME Init PROVE BusInv
  OBVIOUS
<1>2. BusType
  <2>1. <<>> \in Seq(Events) /\ 0 \in Nat /\ {} \subseteq Events
    OBVIOUS
  <2>2. ring \in [0..Size - 1 -> SUBSET Events]
    BY <1>1 DEF Init
  <2>3. /\ pc \in [Events -> EmitPC] /\ spc \in [Subs -> Reading \cup {"out", "idle", "wait"}]
        /\ cursor \in [Subs -> Nat] /\ first \in [Subs -> Nat] /\ got \in [Subs -> Seq(Events)]
    BY <1>1, <2>1 DEF Init, EmitPC
  <2> QED
    BY <1>1, <2>1, <2>2, <2>3 DEF Init, BusType
<1>3. In(<<>>) = {} /\ Once(<<>>) /\ Len(<<>>) = 0
  BY DEF In, Once
<1>4. tpc = "write" /\ (\A e \in Events : pc[e] = "new") /\ ready = <<>> /\ deferred = <<>> /\ log = <<>> /\ head = 0
  BY <1>1 DEF Init
<1>5. LockOK
  BY <1>4 DEF LockOK
<1>6. PlacesOK
  BY <1>3, <1>4 DEF PlacesOK
<1>7. RingOK
  <2>1. \A k \in Nat : ~(k < 0)
    OBVIOUS
  <2> QED
    BY <1>3, <1>4, <2>1 DEF RingOK, HolderIs
<1>8. SubsOK
  BY <1>1 DEF Init, SubsOK, SubOK
<1> QED
  BY <1>2, <1>5, <1>6, <1>7, <1>8 DEF BusInv

LEMMA BusKeeps == BusInv /\ [Next]_vars => BusInv'
<1>1. SUFFICES ASSUME BusInv, [Next]_vars PROVE BusInv'
  OBVIOUS
<1>2. ASSUME NEW e \in Events, Emit(e) \/ EmitStep(e) \/ Cancel(e) PROVE BusInv'
  BY <1>1, <1>2, EmitKeeps, EmitDeferredKeeps, EmitFillKeeps, EmitAdvanceKeeps, EmitNotifyKeeps, CancelKeeps
     DEF EmitStep
<1>3. ASSUME UNCHANGED <<busVars, deferred, ready, tpc, pc, subVars>> PROVE BusInv'
  <2>1. UNCHANGED <<ring, head, log, overrun, subs, spc, cursor, got, first>>
    BY <1>3 DEF busVars, subVars
  <2>2. Locked' = Locked
    BY <1>3 DEF Locked
  <2>3. SubsOK'
    BY <1>1, <1>3, <2>2, SubsStay
  <2>4. /\ subs \subseteq Subs /\ spc \in [Subs -> Reading \cup {"out", "idle", "wait"}]
        /\ cursor \in [Subs -> Nat] /\ first \in [Subs -> Nat] /\ got \in [Subs -> Seq(Events)]
    BY <1>1 DEF BusInv, BusType
  <2> QED
    BY <1>1, <1>3, <2>1, <2>3, <2>4, SubscriberStep
<1>4. ASSUME NEW s \in Subs, Subscribe(s) \/ LoopTurn(s) \/ ReadStep(s) PROVE BusInv'
  <2>1. CASE Subscribe(s)
    BY <1>1, <2>1, SubscribeKeeps
  <2>2. CASE Call(s)
    BY <1>1, <2>2, MovesKeep DEF Call, Reading
  <2>3. CASE Woken(s)
    BY <1>1, <2>3, MovesKeep DEF Woken, Reading
  <2>4. CASE RunSoon(s)
    BY <1>3, <2>4 DEF RunSoon
  <2>5. CASE Trim(s)
    BY <1>1, <2>5, TrimKeeps
  <2>6. CASE Scan(s)
    BY <1>1, <2>6, MovesKeep DEF Scan, Reading
  <2>7. CASE Read(s)
    BY <1>1, <2>7, ReadKeeps
  <2>8. CASE Clear(s)
    BY <1>1, <2>8, MovesKeep DEF Clear, Reading
  <2> QED
    BY <1>4, <2>1, <2>2, <2>3, <2>4, <2>5, <2>6, <2>7, <2>8 DEF LoopTurn, ReadStep
<1>5. CASE TickTake
  BY <1>1, <1>5, TickTakeKeeps
<1>6. CASE TickStep
  BY <1>1, <1>6, TickFillKeeps, TickAdvanceKeeps, TickNotifyKeeps DEF TickStep
<1>7. CASE Clock
  BY <1>3, <1>7 DEF Clock
<1>8. CASE UNCHANGED vars
  BY <1>3, <1>8 DEF vars
<1> QED
  BY <1>1, <1>2, <1>4, <1>5, <1>6, <1>7, <1>8 DEF Next

\* eventbus.py:9 and :12: for any events, subscribers and size of the ring, a
\* subscriber that is never a whole ring behind is given the events it matches
\* in the order of emission, and none is in the ring twice.
THEOREM InOrderTheorem == Spec => []InOrderUnlessOverrun
<1>1. BusInv => InOrderUnlessOverrun
  <2>1. SUFFICES ASSUME BusInv PROVE InOrderUnlessOverrun
    OBVIOUS
  <2>2. \A s \in subs \ overrun : got[s] = Kept(SubSeq(log, first[s] + 1, cursor[s]), Wants[s])
    BY <2>1 DEF BusInv, BusType, SubsOK, SubOK
  <2>3. Once(log)
    BY <2>1 DEF BusInv, PlacesOK
  <2> QED
    BY <2>2, <2>3 DEF InOrderUnlessOverrun, Once
<1> QED
  BY <1>1, BusStarts, BusKeeps, PTL DEF Spec
=============================================================================
