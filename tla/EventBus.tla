------------------------------ MODULE EventBus ------------------------------
(***************************************************************************)
(* The intra-node event channel (src/src/knarr/dht/eventbus.py): a ring    *)
(* buffer with one cursor per subscriber, and a list of deferred events    *)
(* that the heartbeat fires.                                               *)
(*                                                                         *)
(* Two kinds of thread meet here.  Emitters and cancellers run anywhere,   *)
(* handler threads included, and take the lock; the subscribers and tick   *)
(* run on the event loop, one at a time, and the subscribers read the head *)
(* and the ring without the lock.  A step is one access to shared state.   *)
(* An event is emitted once, by a thread of its own.  The bus is modelled  *)
(* with the event loop it was created on, as the node creates it, and      *)
(* without unsubscribe(), which the node never calls.                      *)
(***************************************************************************)
EXTENDS DataOps, FiniteSets, SequencesExt

CONSTANTS
  Events,    \* events, one emit() each
  Subs,      \* subscribers
  Wants,     \* [Subs -> SUBSET Events]: the events whose type a subscriber matches
  From,      \* [Events -> Nat]: valid_from, 0 for none
  Until,     \* [Events -> Nat]: valid_until, 0 for none
  Size,      \* slots of the ring
  MaxTime    \* bound on the clock

ASSUME BusAssumption ==
  /\ IsFiniteSet(Events) /\ IsFiniteSet(Subs)
  /\ Wants \in [Subs -> SUBSET Events]
  /\ From \in [Events -> Nat] /\ Until \in [Events -> Nat]
  /\ Size \in Nat \ {0} /\ MaxTime \in Nat

VARIABLES
  ring,      \* _ring, as the set of events in a slot (empty or one)
  head,      \* _head
  deferred,  \* _deferred
  pc,        \* where the emit() of an event is
  ready,     \* events tick() took and has not fired, in order
  tpc,       \* where tick() is with the first of them
  now,       \* the clock
  subs,      \* _subs
  spc,       \* where a subscriber is
  call,      \* whether it is in next() or poll()
  cursor,    \* _cursor
  wake,      \* subscribers whose _wake is set
  soon,      \* _wake.set callbacks handed to the loop
  log,       \* history: the events written, in order
  dead,      \* history: events discarded, expired or cancelled
  got,       \* history: what a subscriber was given, in order
  first,     \* history: its cursor when it subscribed
  overrun    \* history: subscribers that lost an unread slot

busVars == <<ring, head, log, overrun>>
subVars == <<subs, spc, call, cursor, got, first>>
vars == <<busVars, deferred, pc, ready, tpc, now, subVars, wake, soon, dead>>

EmitPC == {"new", "write", "written", "wake", "defer", "returned"}
Reading == {"trim", "scan", "read", "clear"}

BusTypeOK ==
  /\ ring \in [0..Size - 1 -> SUBSET Events] /\ head \in Nat
  /\ deferred \in Seq(Events) /\ ready \in Seq(Events) /\ log \in Seq(Events)
  /\ pc \in [Events -> EmitPC] /\ tpc \in {"write", "written", "wake"}
  /\ now \in 0..MaxTime
  /\ subs \subseteq Subs /\ wake \subseteq Subs /\ soon \subseteq Subs
  /\ overrun \subseteq Subs /\ dead \subseteq Events
  /\ spc \in [Subs -> Reading \cup {"out", "idle", "wait"}]
  /\ call \in [Subs -> {"next", "poll"}]
  /\ cursor \in [Subs -> Nat] /\ first \in [Subs -> Nat]
  /\ got \in [Subs -> Seq(Events)]

Init ==
  /\ ring = [i \in 0..Size - 1 |-> {}] /\ head = 0
  /\ deferred = <<>> /\ ready = <<>> /\ log = <<>>
  /\ pc = [e \in Events |-> "new"] /\ tpc = "write" /\ now = 0
  /\ subs = {} /\ wake = {} /\ soon = {} /\ overrun = {} /\ dead = {}
  /\ spc = [s \in Subs |-> "out"] /\ call = [s \in Subs |-> "next"]
  /\ cursor = [s \in Subs |-> 0] /\ first = [s \in Subs |-> 0]
  /\ got = [s \in Subs |-> <<>>]

\* self._lock is held only while the ring is written; every other critical
\* section is one step.
Locked == tpc = "written" \/ \E e \in Events : pc[e] = "written"
\* The loop runs one coroutine at a time.
LoopFree == ready = <<>> /\ \A s \in Subs : spc[s] \notin Reading

Expired(e) == Until[e] # 0 /\ Until[e] < now
Misdated(e) == From[e] # 0 /\ Until[e] # 0 /\ From[e] >= Until[e]
Goto(e, p) == pc' = [pc EXCEPT ![e] = p]
-----------------------------------------------------------------------------
(* Mutants: a plausible slip in the definition that is named.  No action   *)
(* uses them; they show that the properties can tell.                      *)

\* Trim: the oldest slot is off by one, or taken without a comparison.
TrimOffByOne(s) ==
  /\ spc[s] = "trim" /\ spc' = [spc EXCEPT ![s] = "scan"]
  /\ cursor' = [cursor EXCEPT ![s] = IF @ <= head - Size THEN head - Size + 1 ELSE @]
  /\ UNCHANGED <<busVars, deferred, pc, ready, tpc, now, subs, call, got,
                 first, wake, soon, dead>>

\* Notify: only subscribers that wait are woken.
NotifyWaiting(e) ==
  soon' = soon \cup {s \in subs : e \in Wants[s] /\ spc[s] = "wait"}

\* TickTake: what has expired stays in the list.
TickTakeStuck ==
  /\ LoopFree /\ ~Locked
  /\ \E i \in 1..Len(deferred) : ~Expired(deferred[i]) /\ From[deferred[i]] <= now
  /\ ready' = Kept(deferred, {e \in Events : ~Expired(e) /\ From[e] <= now})
  /\ deferred' = Kept(deferred, {e \in Events : Expired(e) \/ From[e] > now})
  /\ UNCHANGED <<busVars, pc, tpc, now, subVars, wake, soon, dead>>
-----------------------------------------------------------------------------
(* emit()                                                                  *)

\* _write_to_ring under the lock: first the slot, ...
Fill(e) ==
  /\ ring' = [ring EXCEPT ![head % Size] = {e}]
  /\ overrun' = overrun \cup {s \in subs : cursor[s] <= head - Size}
  /\ UNCHANGED <<head, log>>

\* ... then the head.
Advance(e) ==
  /\ head' = head + 1 /\ log' = Append(log, e)
  /\ UNCHANGED <<ring, overrun>>

\* _wake_subscribers: call_soon_threadsafe(sub._wake.set)
Notify(e) == soon' = soon \cup {s \in subs : e \in Wants[s]}

\* Where a deferred event goes: before the first one that is due later.
Sorted(e, q) ==
  LET later == {i \in 1..Len(q) : From[e] < From[q[i]]}
      at == IF later = {} THEN Len(q) + 1 ELSE CHOOSE i \in later : \A j \in later : i <= j
  IN  InsertAt(q, at, e)

\* The clock is read once and decides what becomes of the event.
Emit(e) ==
  /\ pc[e] = "new"
  /\ IF Expired(e) \/ Misdated(e)
     THEN Goto(e, "returned") /\ dead' = dead \cup {e}
     ELSE Goto(e, IF From[e] > now THEN "defer" ELSE "write") /\ UNCHANGED dead
  /\ UNCHANGED <<busVars, deferred, ready, tpc, now, subVars, wake, soon>>

EmitDeferred(e) ==
  /\ pc[e] = "defer" /\ ~Locked /\ Goto(e, "returned")
  /\ deferred' = Sorted(e, deferred)
  /\ UNCHANGED <<busVars, ready, tpc, now, subVars, wake, soon, dead>>

EmitFill(e) ==
  /\ pc[e] = "write" /\ ~Locked /\ Goto(e, "written") /\ Fill(e)
  /\ UNCHANGED <<deferred, ready, tpc, now, subVars, wake, soon, dead>>

EmitAdvance(e) ==
  /\ pc[e] = "written" /\ Goto(e, "wake") /\ Advance(e)
  /\ UNCHANGED <<deferred, ready, tpc, now, subVars, wake, soon, dead>>

EmitNotify(e) ==
  /\ pc[e] = "wake" /\ Goto(e, "returned") /\ Notify(e)
  /\ UNCHANGED <<busVars, deferred, ready, tpc, now, subVars, wake, dead>>
-----------------------------------------------------------------------------
(* tick() and cancel()                                                     *)

\* Under the lock: expired entries go, the due ones are taken, in order.
TickTake ==
  /\ LoopFree /\ ~Locked
  /\ \E i \in 1..Len(deferred) : Expired(deferred[i]) \/ From[deferred[i]] <= now
  /\ dead' = dead \cup {e \in ToSet(deferred) : Expired(e)}
  /\ ready' = Kept(deferred, {e \in Events : ~Expired(e) /\ From[e] <= now})
  /\ deferred' = Kept(deferred, {e \in Events : ~Expired(e) /\ ~(From[e] <= now)})
  /\ UNCHANGED <<busVars, pc, tpc, now, subVars, wake, soon>>

\* Each of them is fired after the lock was released.
TickFill ==
  /\ ready # <<>> /\ tpc = "write" /\ ~Locked /\ tpc' = "written"
  /\ Fill(Head(ready))
  /\ UNCHANGED <<deferred, pc, ready, now, subVars, wake, soon, dead>>

TickAdvance ==
  /\ tpc = "written" /\ tpc' = "wake" /\ Advance(Head(ready))
  /\ UNCHANGED <<deferred, pc, ready, now, subVars, wake, soon, dead>>

TickNotify ==
  /\ tpc = "wake" /\ tpc' = "write" /\ Notify(Head(ready))
  /\ ready' = Tail(ready)
  /\ UNCHANGED <<busVars, deferred, pc, now, subVars, wake, dead>>

\* cancel() that finds the event and returns True
Cancel(e) ==
  /\ ~Locked /\ e \in ToSet(deferred)
  /\ deferred' = RemoveFirst(deferred, e) /\ dead' = dead \cup {e}
  /\ UNCHANGED <<busVars, pc, ready, tpc, now, subVars, wake, soon>>

Clock ==
  /\ now < MaxTime /\ now' = now + 1
  /\ UNCHANGED <<busVars, deferred, pc, ready, tpc, subVars, wake, soon, dead>>
-----------------------------------------------------------------------------
(* Subscribers                                                             *)

At(s, p) == spc' = [spc EXCEPT ![s] = p]

Subscribe(s) ==
  /\ LoopFree /\ spc[s] = "out" /\ subs' = subs \cup {s} /\ At(s, "idle")
  /\ cursor' = [cursor EXCEPT ![s] = head]
  /\ first' = [first EXCEPT ![s] = head]
  /\ UNCHANGED <<busVars, deferred, pc, ready, tpc, now, call, got, wake, soon,
                 dead>>

\* The owner of the subscriber calls next() or poll().
Call(s) ==
  /\ LoopFree /\ spc[s] = "idle" /\ At(s, "trim")
  /\ \E c \in {"next", "poll"} : call' = [call EXCEPT ![s] = c]
  /\ UNCHANGED <<busVars, deferred, pc, ready, tpc, now, subs, cursor, got,
                 first, wake, soon, dead>>

\* await self._wake.wait() returns
Woken(s) ==
  /\ LoopFree /\ spc[s] = "wait" /\ s \in wake /\ At(s, "trim")
  /\ UNCHANGED <<busVars, deferred, pc, ready, tpc, now, subs, call, cursor,
                 got, first, wake, soon, dead>>

\* A subscriber that is behind skips to the oldest slot.
Trim(s) ==
  /\ spc[s] = "trim" /\ At(s, "scan")
  /\ cursor' = [cursor EXCEPT ![s] = IF @ < head - Size THEN head - Size ELSE @]
  /\ UNCHANGED <<busVars, deferred, pc, ready, tpc, now, subs, call, got,
                 first, wake, soon, dead>>

\* while self._cursor < self._bus._head
Scan(s) ==
  /\ spc[s] = "scan" /\ At(s, IF cursor[s] < head THEN "read" ELSE "clear")
  /\ UNCHANGED <<busVars, deferred, pc, ready, tpc, now, subs, call, cursor,
                 got, first, wake, soon, dead>>

\* The slot is read without the lock.  next() returns a match at once.
Read(s) ==
  /\ spc[s] = "read" /\ cursor' = [cursor EXCEPT ![s] = @ + 1]
  /\ LET match == ring[cursor[s] % Size] \cap Wants[s]
     IN  /\ got' = [got EXCEPT ![s] = @ \o SetToSeq(match)]
         /\ At(s, IF match # {} /\ call[s] = "next" THEN "idle" ELSE "scan")
  /\ UNCHANGED <<busVars, deferred, pc, ready, tpc, now, subs, call, first,
                 wake, soon, dead>>

\* self._wake.clear(), then next() waits and poll() returns
Clear(s) ==
  /\ spc[s] = "clear" /\ wake' = wake \ {s}
  /\ At(s, IF call[s] = "next" THEN "wait" ELSE "idle")
  /\ UNCHANGED <<busVars, deferred, pc, ready, tpc, now, subs, call, cursor,
                 got, first, soon, dead>>

\* The loop runs a _wake.set callback.
RunSoon(s) ==
  /\ LoopFree /\ s \in soon /\ soon' = soon \ {s} /\ wake' = wake \cup {s}
  /\ UNCHANGED <<busVars, deferred, pc, ready, tpc, now, subVars, dead>>
-----------------------------------------------------------------------------
EmitStep(e) == EmitDeferred(e) \/ EmitFill(e) \/ EmitAdvance(e) \/ EmitNotify(e)
TickStep == TickFill \/ TickAdvance \/ TickNotify
ReadStep(s) == Trim(s) \/ Scan(s) \/ Read(s) \/ Clear(s)

\* What the loop may start next for a subscriber.
LoopTurn(s) == Call(s) \/ Woken(s) \/ RunSoon(s)

Next ==
  \/ \E e \in Events : Emit(e) \/ EmitStep(e) \/ Cancel(e)
  \/ \E s \in Subs : Subscribe(s) \/ LoopTurn(s)
                     \/ ReadStep(s)
  \/ TickTake \/ TickStep \/ Clock

Spec == Init /\ [][Next]_vars

(* Threads run, time passes, the heartbeat ticks, and a subscriber's owner *)
(* calls again.  The loop serves its callbacks in order, so what needs the *)
(* loop gets it although others want it too.  The lock is taken a bounded  *)
(* number of times, so waiting for it needs no more than weak fairness.    *)
Fairness ==
  /\ \A e \in Events : WF_vars(EmitStep(e))
  /\ \A s \in Subs : WF_vars(ReadStep(s)) /\ SF_vars(LoopTurn(s))
  /\ SF_vars(TickTake) /\ WF_vars(TickStep) /\ WF_vars(Clock)

FairSpec == Spec /\ Fairness
-----------------------------------------------------------------------------
(* Safety                                                                  *)

(* The subscriber reads without the lock while emitters write.  As long as *)
(* it is never a whole ring behind it is nevertheless given every event it *)
(* matches in the order of emission, and once: emit, tick and cancel,      *)
(* which race for a deferred event, put it in the ring at most once        *)
(* (eventbus.py:9, :12, :242).                                             *)
InOrderUnlessOverrun ==
  /\ \A s \in subs \ overrun :
       got[s] = Kept(SubSeq(log, first[s] + 1, cursor[s]), Wants[s])
  /\ \A i, j \in DOMAIN log : log[i] = log[j] => i = j
-----------------------------------------------------------------------------
(* Liveness                                                                *)

(* Every matching event that reaches the ring reaches the subscriber,      *)
(* unless it falls a whole ring behind.                                    *)
EmittedIsReceived ==
  \A s \in Subs, e \in Events :
    (s \in subs /\ e \in Wants[s] /\ \E i \in first[s] + 1..Len(log) : log[i] = e)
      ~> (e \in ToSet(got[s]) \/ s \in overrun)

(* No deferred event is stuck (eventbus.py:267): it is fired, expires or   *)
(* is cancelled.                                                           *)
DeferredSettles ==
  \A e \in Events : (pc[e] = "defer" /\ From[e] <= MaxTime) ~> e \in ToSet(log) \cup dead
=============================================================================
