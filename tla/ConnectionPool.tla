--------------------------- MODULE ConnectionPool ---------------------------
(***************************************************************************)
(* Pooled connections to peers.  Every send() runs under the lock of its   *)
(* peer: reuse, open, retry once, fall back from a derived onion address.  *)
(* Evictions, remove() and the close after them do not take that lock, and *)
(* a caller with a deadline of its own cancels a send that runs.           *)
(***************************************************************************)
EXTENDS Naturals, Sequences, FiniteSets, SequencesExt

CONSTANTS
  Sends, PeerOf,  \* messages, and the peer each goes to
  OnionOnly,      \* peers whose address is an onion one
  TorUp,          \* a dialer is registered and onion addresses are preferred
  Keyed,          \* peers whose public key can be looked up
  MaxPool,        \* max_connections (50)
  MaxOpens,       \* bound: connections opened
  MaxCloses,      \* bound: closes by evict_idle() and remove()
  MaxCancels,     \* bound: sends that are cancelled
  NoSend

Peers == {PeerOf[s] : s \in Sends}
Conns == 1..MaxOpens

ASSUME PoolAssumption ==
  /\ DOMAIN PeerOf = Sends /\ OnionOnly \cup Keyed \subseteq Peers /\ TorUp \in BOOLEAN
  /\ {MaxPool, MaxOpens} \subseteq Nat \ {0} /\ {MaxCloses, MaxCancels} \subseteq Nat
  /\ NoSend \notin Sends

VARIABLES
  pool,      \* _pool: peer -> connection, 0 for none
  connHost,  \* _conn_hosts: "none", "clear" or "onion"
  order,     \* _creation_order
  lastUsed,  \* peers with an entry in _last_used
  lockOf,    \* the send that holds the lock of the peer
  inFlight,    \* connection -> messages that went in and were not answered, in order
  shut,      \* connections this node has closed
  opened,    \* number of connections opened
  pc,        \* where each send is
  host,      \* transport host it resolved
  conn,      \* connection it uses
  attempt,   \* 0: reused connection, 1: fresh, 2: retry, 3: fallback
  answer,    \* message whose answer it returned
  known,     \* peers whose public key is cached
  sticky,    \* _sticky_clearnet
  limited,   \* _derived_onion_fallback_ts within the window
  closer,    \* a close outside the lock that waits for wait_closed(), per peer
  closes,
  torn,       \* connections on which a send was cancelled as it awaited its answer
  cancels

poolVars == <<pool, connHost, order, lastUsed, lockOf, inFlight, shut, opened, pc, host,
              conn, attempt, answer, known, sticky, limited, closer, closes, torn, cancels>>
book  == <<pool, connHost, order, lastUsed>>
tor   == <<known, sticky, limited>>
cancelVars == <<torn, cancels>>
outer == <<closer, closes, cancelVars>>
wires == <<inFlight, shut, opened>>
ofSend   == <<pc, conn, attempt, answer>>

PoolTypeOK ==
  /\ pool \in [Peers -> 0..MaxOpens] /\ connHost \in [Peers -> {"none", "clear", "onion"}]
  /\ order \in Seq(Peers) /\ lastUsed \cup known \cup sticky \cup limited \subseteq Peers
  /\ lockOf \in [Peers -> Sends \cup {NoSend}] /\ inFlight \in [Conns -> Seq(Sends)]
  /\ shut \subseteq Conns /\ opened \in 0..MaxOpens /\ closes \in 0..MaxCloses
  /\ pc \in [Sends -> {"new", "lock", "send", "receive", "closing", "open", "dial", "failed", "done"}]
  /\ host \in [Sends -> {"none", "clear", "onion"}] /\ conn \in [Sends -> 0..MaxOpens]
  /\ attempt \in [Sends -> 0..3] /\ answer \in [Sends -> Sends \cup {NoSend}]
  /\ closer \in [Peers -> BOOLEAN] /\ torn \subseteq Conns /\ cancels \in 0..MaxCancels

PoolInit ==
  /\ pool = [p \in Peers |-> 0] /\ connHost = [p \in Peers |-> "none"] /\ order = <<>>
  /\ lastUsed = {} /\ lockOf = [p \in Peers |-> NoSend] /\ inFlight = [i \in Conns |-> <<>>]
  /\ shut = {} /\ opened = 0 /\ pc = [s \in Sends |-> "new"] /\ host = [s \in Sends |-> "none"]
  /\ conn = [s \in Sends |-> 0] /\ attempt = [s \in Sends |-> 0]
  /\ answer = [s \in Sends |-> NoSend] /\ known = {} /\ sticky = {} /\ limited = {}
  /\ closer = [p \in Peers |-> FALSE] /\ closes = 0 /\ torn = {} /\ cancels = 0
-----------------------------------------------------------------------------
\* Original host of a send: what the peer table says.
Given(s) == IF PeerOf[s] \in OnionOnly THEN "onion" ELSE "clear"

\* _resolve_transport_host(), before the lock
Resolve(s) ==
  LET p == PeerOf[s] IN
  /\ pc[s] = "new" /\ pc' = [pc EXCEPT ![s] = "lock"]
  /\ host' = [host EXCEPT ![s] = IF TorUp /\ p \in known \ sticky THEN "onion" ELSE Given(s)]
  /\ UNCHANGED <<book, lockOf, wires, conn, attempt, answer, tor, outer>>

\* _refill_peer_pubkey_async(), which a send without a cached key has scheduled
Refill(p) ==
  /\ TorUp /\ p \in Keyed \ known /\ known' = known \cup {p}
  /\ \E s \in Sends : PeerOf[s] = p /\ pc[s] # "new"
  /\ UNCHANGED <<book, lockOf, wires, ofSend, host, sticky, limited, outer>>

\* The fallback window ends, or the stay on clearnet that began within it.
WindowEnds(p) ==
  /\ \/ p \in limited /\ limited' = limited \ {p} /\ UNCHANGED sticky
     \/ p \in sticky /\ sticky' = sticky \ {p} /\ UNCHANGED limited
  /\ UNCHANGED <<book, lockOf, wires, ofSend, host, known, outer>>

Go(s, to) == pc' = [pc EXCEPT ![s] = to]

\* The synchronous half of _close_conn(): the pool loses the connection, the
\* rest follows once the transport is closed.
Popped(p) == pool' = [pool EXCEPT ![p] = 0] /\ shut' = shut \cup ({pool[p]} \ {0})

\* Its second half forgets the peer, whatever has been opened since.
Untrack(p) ==
  /\ lastUsed' = lastUsed \ {p} /\ connHost' = [connHost EXCEPT ![p] = "none"]
  /\ order' = RemoveFirst(order, p)

\* send() has the lock: a healthy connection to the same host is used again, any
\* other one is closed first.
Acquire(s) ==
  LET p == PeerOf[s] IN
  /\ pc[s] = "lock" /\ lockOf[p] = NoSend /\ lockOf' = [lockOf EXCEPT ![p] = s]
  /\ \/ /\ pool[p] # 0 /\ connHost[p] = host[s]
        /\ Go(s, "send") /\ conn' = [conn EXCEPT ![s] = pool[p]] /\ UNCHANGED <<pool, shut, attempt>>
     \/ \* another host, or closed by the peer
        /\ pool[p] # 0 /\ Go(s, "closing") /\ Popped(p) /\ UNCHANGED <<conn, attempt>>
     \/ /\ pool[p] = 0 /\ Go(s, "open") /\ attempt' = [attempt EXCEPT ![s] = 1]
        /\ UNCHANGED <<pool, shut, conn>>
  /\ UNCHANGED <<connHost, order, lastUsed, inFlight, opened, host, answer, tor, outer>>

\* _try_send(): the message goes out, or the connection proves broken.
Write(s) ==
  /\ pc[s] = "send"
  /\ \/ /\ conn[s] \notin shut /\ inFlight' = [inFlight EXCEPT ![conn[s]] = Append(@, s)] /\ Go(s, "receive")
     \/ Go(s, "failed") /\ UNCHANGED inFlight
  /\ UNCHANGED <<book, lockOf, shut, opened, host, conn, attempt, answer, tor, outer>>

Unlocked(s) == lockOf' = [lockOf EXCEPT ![PeerOf[s]] = NoSend]

\* The next answer on the connection is the one to the oldest message in it.
GetsReply(s) ==
  /\ pc[s] = "receive" /\ conn[s] \notin shut /\ inFlight[conn[s]] # <<>>
  /\ answer' = [answer EXCEPT ![s] = Head(inFlight[conn[s]])]
  /\ inFlight' = [inFlight EXCEPT ![conn[s]] = Tail(@)]
  /\ lastUsed' = lastUsed \cup {PeerOf[s]}
  /\ sticky' = IF attempt[s] = 3 THEN sticky \cup {PeerOf[s]} ELSE sticky
  /\ Go(s, "done") /\ Unlocked(s)
  /\ UNCHANGED <<pool, connHost, order, shut, opened, host, conn, attempt, known, limited, outer>>

\* Timeout, end of stream, or the connection was closed underneath.
GiveUp(s) ==
  /\ pc[s] = "receive" /\ Go(s, "failed")
  /\ UNCHANGED <<book, lockOf, wires, host, conn, attempt, answer, tor, outer>>

\* _handle_dial_failure(): only a derived onion falls back, once in a window.
DialFails(s) ==
  LET p    == PeerOf[s]
      back == attempt[s] < 3 /\ Given(s) = "clear" /\ host[s] = "onion" /\ p \notin limited
  IN /\ Go(s, IF back THEN "open" ELSE "done")
     /\ attempt' = IF back THEN [attempt EXCEPT ![s] = 3] ELSE attempt
     /\ host' = IF back THEN [host EXCEPT ![s] = "clear"] ELSE host
     /\ limited' = IF back THEN limited \cup {p} ELSE limited
     /\ IF back THEN UNCHANGED lockOf ELSE Unlocked(s)

\* One retry with a new connection, then the fallback.
Onward(s) ==
  IF attempt[s] < 2
  THEN Go(s, "open") /\ attempt' = [attempt EXCEPT ![s] = @ + 1] /\ UNCHANGED <<host, limited, lockOf>>
  ELSE DialFails(s)

\* Mutant of AfterFailure: the connection of the last attempt stays in the pool.
AfterFailureKeeps(s) ==
  /\ pc[s] = "failed"
  /\ IF pool[PeerOf[s]] # 0 /\ attempt[s] < 2
     THEN Popped(PeerOf[s]) /\ Go(s, "closing") /\ UNCHANGED <<attempt, host, limited, lockOf>>
     ELSE UNCHANGED <<pool, shut>> /\ Onward(s)
  /\ UNCHANGED <<connHost, order, lastUsed, inFlight, opened, conn, answer, known, sticky, outer>>

\* A failed attempt closes whatever connection the pool has for the peer.
AfterFailure(s) ==
  /\ pc[s] = "failed"
  /\ IF pool[PeerOf[s]] # 0
     THEN Popped(PeerOf[s]) /\ Go(s, "closing") /\ UNCHANGED <<attempt, host, limited, lockOf>>
     ELSE UNCHANGED <<pool, shut>> /\ Onward(s)
  /\ UNCHANGED <<connHost, order, lastUsed, inFlight, opened, conn, answer, known, sticky, outer>>

Closed(s) ==
  /\ pc[s] = "closing" /\ Untrack(PeerOf[s]) /\ Onward(s)
  /\ UNCHANGED <<pool, wires, conn, answer, known, sticky, outer>>

\* _evict_lifo(): the newest connection whose peer is not locked
Evicted ==
  LET free == {i \in DOMAIN order : pool[order[i]] # 0 /\ lockOf[order[i]] = NoSend}
  IN {i \in free : \A j \in free : j <= i}

\* _open(), up to the dial; an onion peer without a dialer is skipped, and the
\* circuit budget may refuse.
Open(s) ==
  LET full == Cardinality({p \in Peers : pool[p] # 0}) >= MaxPool IN
  /\ pc[s] = "open"
  /\ IF full /\ Evicted # {}
     THEN \E i \in Evicted :
            /\ Popped(order[i]) /\ lastUsed' = lastUsed \ {order[i]}
            /\ connHost' = [connHost EXCEPT ![order[i]] = "none"] /\ order' = RemoveAt(order, i)
     ELSE UNCHANGED <<book, shut>>
  /\ \/ /\ Go(s, "dial") /\ (host[s] = "onion" => TorUp) /\ UNCHANGED <<attempt, host, limited, lockOf>>
     \/ host[s] = "onion" /\ DialFails(s)
  /\ UNCHANGED <<inFlight, opened, conn, answer, known, sticky, outer>>

\* The dial is an await: the pool may have filled up meanwhile.
Dialled(s) ==
  LET p == PeerOf[s] IN
  /\ pc[s] = "dial" /\ opened < MaxOpens /\ opened' = opened + 1
  /\ pool' = [pool EXCEPT ![p] = opened'] /\ connHost' = [connHost EXCEPT ![p] = host[s]]
  /\ lastUsed' = lastUsed \cup {p} /\ order' = Append(order, p)
  /\ conn' = [conn EXCEPT ![s] = opened'] /\ Go(s, "send")
  /\ UNCHANGED <<inFlight, shut, lockOf, host, attempt, answer, tor, outer>>

NotDialled(s) ==
  /\ pc[s] = "dial" /\ DialFails(s)
  /\ UNCHANGED <<book, wires, conn, answer, known, sticky, outer>>

\* wait_for(flush_outbox(), 5.0), wait_for(pull_from_correspondents()) or stop()
\* cancels the send at an await.  CancelledError passes every "except Exception":
\* the lock is released and what is left of the send does not happen.
SendCancelled(s) ==
  /\ pc[s] \in {"lock", "receive", "closing", "dial"} /\ Go(s, "done")
  /\ cancels < MaxCancels /\ cancels' = cancels + 1
  /\ IF pc[s] = "lock" THEN UNCHANGED lockOf ELSE Unlocked(s)
  /\ torn' = IF pc[s] = "receive" THEN torn \cup {conn[s]} ELSE torn
  /\ UNCHANGED <<book, wires, host, conn, attempt, answer, tor, closer, closes>>

\* evict_idle() and remove(), without the lock
CloseStarts(p) ==
  /\ closes < MaxCloses /\ pool[p] # 0 /\ ~closer[p]
  /\ closes' = closes + 1 /\ closer' = [closer EXCEPT ![p] = TRUE] /\ Popped(p)
  /\ UNCHANGED <<connHost, order, lastUsed, lockOf, inFlight, opened, ofSend, host, tor, cancelVars>>

CloseEnds(p) ==
  /\ closer[p] /\ closer' = [closer EXCEPT ![p] = FALSE] /\ Untrack(p)
  /\ UNCHANGED <<pool, lockOf, wires, ofSend, host, tor, closes, cancelVars>>

PoolNext ==
  \/ \E s \in Sends : \/ Resolve(s) \/ Acquire(s) \/ Write(s) \/ GetsReply(s) \/ GiveUp(s)
                      \/ AfterFailure(s) \/ Closed(s) \/ Open(s) \/ Dialled(s) \/ NotDialled(s)
                      \/ SendCancelled(s)
  \/ \E p \in Peers : Refill(p) \/ WindowEnds(p) \/ CloseStarts(p) \/ CloseEnds(p)

PoolSpec == PoolInit /\ [][PoolNext]_poolVars
-----------------------------------------------------------------------------
(* Properties                                                              *)

\* pool.py:32 and :563: no two sends use a connection at once and an answer that
\* comes too late is never read by the next send: what a send returns is the
\* answer to its own message, though connections are closed, evicted and
\* replaced outside the lock, unless a send was cancelled on the connection.
AnswersOwn == \A s \in Sends : answer[s] \in {NoSend, s} \/ conn[s] \in torn

\* pool.py:537 without the exception: "The entire check-create-send-receive flow
\* runs under the per-peer lock, eliminating TOCTOU races that caused stream
\* corruption".
NoStreamMixed == \A s \in Sends : answer[s] \in {NoSend, s}
=============================================================================
