------------------------------ MODULE TorPlugin ------------------------------
(***************************************************************************)
(* The life of the tor plugin (plugins/tor/handler.py) and its connection  *)
(* to the control port of a Tor process (control.py): the handshake in     *)
(* on_init(), the event loop that becomes the only reader of the stream    *)
(* and hands replies to the command that waits, the verification that the  *)
(* hidden service is published, the poll for the hostname file in separate *)
(* key mode, the onion address advertised in place of the node's own, and  *)
(* the shutdown inside DHTNode.stop().  The Tor process is external.       *)
(***************************************************************************)
EXTENDS Integers, Sequences, SequencesExt

CONSTANTS
  Rounds,    \* attempts of the verification (5)
  Polls,     \* looks for the hostname file (60)
  Shared     \* key_mode is "shared": the onion follows from the node's key

VARIABLES
  torProcess, \* "none", "other" (a listener that is not Tor), "up", "gone"
  torLive,    \* its descriptor of the hidden service is published
  onionFile,  \* the hostname file has been written
  stream,     \* lines Tor has sent: [cmd, last, state]; events have cmd 0
  due,        \* commands it has not answered
  loading,    \* on_init(): "dependency", "connect", "subscribe", "wire", "over"
  control,    \* the connection: "closed", "open"
  demux,      \* run_event_loop(): "none", "reading", "block" (in a 650+ block),
              \* "over"
  reachable,  \* _daemon_reachable
  authOk,     \* _control_auth_ok
  published,  \* _hidden_service_published
  onion,      \* _own_onion is known
  commands,   \* number of commands sent by the verification
  pending,    \* the one whose future is _pending_reply, 0 for none
  heard,      \* _pending_reply_lines
  verify,     \* _verify_hidden_service(): "none", "asleep", "asking" (waits
              \* for the event loop), "reading" (the stream itself), "dialling",
              \* "over"
  round,      \* its attempt
  hostPoll,   \* _poll_separate_mode_hostname(): "none", "asleep", "over"
  looks,      \* and its attempts
  advertised, \* host in node_info: "own" or "onion"
  saved,      \* _pre_override_host: "none", "own" or "onion"
  consensus,  \* _consensus_lost
  torStop,    \* DHTNode.stop(): "no", "hook", "rest", "stopped", "aborted"
  doomed,     \* tasks on_shutdown() has still to cancel
  everLive    \* history: the descriptor was published at some time

torWorld   == <<torProcess, torLive, onionFile, everLive>>
torLink    == <<stream, due, control, demux, pending, heard, consensus>>
torReady   == <<loading, reachable, authOk>>
torVerify  == <<published, commands, verify, round>>
torHost    == <<onion, hostPoll, looks, advertised, saved>>
torStops   == <<torStop, doomed>>
torVars    == <<torWorld, torLink, torReady, torVerify, torHost, torStops>>

HsStates == {"published", "creating", "", "none"}   \* "none": 552, no such key
Line == [cmd: 0..Rounds, last: BOOLEAN, state: HsStates]

TorTypeOK ==
  /\ torProcess \in {"none", "other", "up", "gone"}
  /\ torLive \in BOOLEAN /\ onionFile \in BOOLEAN /\ everLive \in BOOLEAN
  /\ stream \in Seq(Line) /\ heard \in Seq(Line)
  /\ due \in Seq(1..Rounds)
  /\ loading \in {"dependency", "connect", "subscribe", "wire", "over"}
  /\ control \in {"closed", "open"}
  /\ demux \in {"none", "reading", "block", "over"}
  /\ reachable \in BOOLEAN /\ authOk \in BOOLEAN /\ published \in BOOLEAN
  /\ onion \in BOOLEAN /\ consensus \in BOOLEAN
  /\ commands \in 0..Rounds /\ pending \in 0..Rounds /\ round \in 0..Rounds
  /\ verify \in {"none", "asleep", "asking", "reading", "dialling", "over"}
  /\ hostPoll \in {"none", "asleep", "over"} /\ looks \in 0..Polls
  /\ advertised \in {"own", "onion"} /\ saved \in {"none", "own", "onion"}
  /\ torStop \in {"no", "hook", "rest", "stopped", "aborted"}
  /\ doomed \in Seq({"loop", "verify", "poll"})

TorInit ==
  /\ torProcess \in {"none", "other", "up"}
  /\ torLive = FALSE /\ everLive = FALSE /\ onionFile \in BOOLEAN
  /\ stream = <<>> /\ due = <<>> /\ heard = <<>>
  /\ loading = "dependency" /\ control = "closed" /\ demux = "none"
  /\ reachable = FALSE /\ authOk = FALSE /\ published = FALSE
  /\ onion = FALSE /\ consensus = FALSE
  /\ commands = 0 /\ pending = 0
  /\ verify = "none" /\ round = 0
  /\ hostPoll = "none" /\ looks = 0
  /\ advertised = "own" /\ saved = "none"
  /\ torStop = "no" /\ doomed = <<>>

(***************************************************************************)
(* The Tor process                                                         *)
(***************************************************************************)
Publishes ==
  /\ torProcess = "up" /\ onionFile
  /\ torLive' = ~torLive /\ everLive' = (everLive \/ torLive')
  /\ UNCHANGED <<torProcess, onionFile, torLink, torReady, torVerify, torHost, torStops>>

WritesHostname ==
  /\ torProcess = "up" /\ ~onionFile
  /\ onionFile' = TRUE
  /\ UNCHANGED <<torProcess, torLive, everLive, torLink, torReady, torVerify, torHost, torStops>>

\* It answers GETINFO hs/service/status: one line of value and the final
\* line, only the final 552 line, or a value the plugin cannot read.
AnswersCommand ==
  /\ torProcess = "up" /\ due # <<>>
  /\ \E s \in IF torLive THEN {"published", "", "none"} ELSE {"creating", "", "none"} :
       stream' = stream \o
         (IF s = "none" THEN <<>>
          ELSE <<[cmd |-> Head(due), last |-> FALSE, state |-> s]>>)
         \o <<[cmd |-> Head(due), last |-> TRUE, state |-> "none"]>>
  /\ due' = Tail(due)
  /\ UNCHANGED <<torWorld, control, demux, pending, heard, consensus, torReady, torVerify,
                 torHost, torStops>>

\* The process ends: the stream ends after what was sent.
TorDies ==
  /\ torProcess = "up"
  /\ torProcess' = "gone" /\ torLive' = FALSE
  /\ due' = <<>>
  /\ UNCHANGED <<onionFile, everLive, stream, control, demux, pending, heard, consensus,
                 torReady, torVerify, torHost, torStops>>

(***************************************************************************)
(* on_init()                                                               *)
(***************************************************************************)
\* Without python-socks the plugin stays loaded and does nothing.
Imports(there) ==
  /\ loading = "dependency"
  /\ loading' = IF there THEN "connect" ELSE "over"
  /\ UNCHANGED <<torWorld, torLink, reachable, authOk, torVerify, torHost, torStops>>

\* connect() and protocol_info(): a listener that does not answer like Tor
\* is taken for none at all.
Connects ==
  /\ loading = "connect"
  /\ reachable' = (torProcess = "up")
  /\ control' = IF torProcess = "up" THEN "open" ELSE "closed"
  /\ loading' = IF torProcess = "up" THEN "subscribe" ELSE "over"
  /\ UNCHANGED <<torWorld, stream, due, demux, pending, heard, consensus, authOk, torVerify,
                 torHost, torStops>>

\* authenticate(), subscribe_events() and start_event_loop(), which sets the
\* flag before the task first runs.  A failure of the first leaves a plugin
\* that only dials, one of the second does the same with _control_auth_ok
\* reset.
Subscribes(ok) ==
  /\ loading = "subscribe"
  /\ ok => torProcess = "up"
  /\ authOk' = ok
  /\ demux' = IF ok THEN "reading" ELSE "none"
  /\ loading' = "wire"
  /\ UNCHANGED <<torWorld, stream, due, control, pending, heard, consensus, reachable,
                 torVerify, torHost, torStops>>

\* _maybe_override_advertise_host()
Overrides(known) ==
  /\ saved' = IF known /\ advertised = "own" /\ saved = "none" THEN advertised ELSE saved
  /\ advertised' = IF known THEN "onion" ELSE advertised

\* The pool seams, the hostname file, torrc with its probe of the sidecar,
\* the override, the poll if no hostname was found, and the verification
\* task, which ends at once when the onion is not known.
Wires ==
  /\ loading = "wire"
  /\ loading' = "over"
  /\ onion' = (Shared \/ onionFile)
  /\ Overrides(onion')
  /\ hostPoll' = IF onion' THEN "none" ELSE "asleep"
  /\ verify' = IF onion' THEN "asleep" ELSE "over"
  /\ round' = IF onion' THEN 1 ELSE 0
  /\ UNCHANGED <<torWorld, torLink, reachable, authOk, published, commands, looks, torStops>>

(***************************************************************************)
(* The hostname poll                                                       *)
(***************************************************************************)
\* get_own_onion_address() for the cockpit reads the file as well, and keeps
\* the name; nothing is advertised or verified.
StatusAsked ==
  /\ loading = "over"
  /\ onion' = (onion \/ onionFile)
  /\ UNCHANGED <<torWorld, torLink, torReady, torVerify, hostPoll, looks, advertised, saved,
                 torStops>>

\* A found name is advertised and the verification, which ended without one,
\* is started again; the poll is over if the name is known already.
Looks ==
  /\ hostPoll = "asleep" /\ looks < Polls
  /\ looks' = looks + 1
  /\ LET found == ~onion /\ onionFile IN
       /\ onion' = (onion \/ found)
       /\ Overrides(found)
       /\ hostPoll' = IF onion' \/ looks' = Polls THEN "over" ELSE "asleep"
       /\ IF found /\ verify = "over" /\ reachable
          THEN verify' = "asleep" /\ round' = 1
          ELSE UNCHANGED <<verify, round>>
  /\ UNCHANGED <<torWorld, torLink, torReady, published, commands, torStops>>

(***************************************************************************)
(* The verification                                                        *)
(***************************************************************************)
\* What follows when the control port gave no positive answer: the last
\* attempt dials the own onion address, the others sleep.
NextRound ==
  /\ verify' = IF round = Rounds THEN "dialling" ELSE "asleep"
  /\ round' = IF round = Rounds THEN round ELSE round + 1

\* The delay is over.  The command is written; in the mode of the event loop
\* a future is installed, and when the loop has ended the reply is read from
\* the stream.
Asks ==
  /\ verify = "asleep"
  /\ IF published
     THEN verify' = "over" /\ UNCHANGED <<round, commands, pending, heard, due>>
     ELSE IF authOk
     THEN /\ commands' = commands + 1
          /\ LET looped == demux \in {"reading", "block"} IN
               /\ verify' = IF looped THEN "asking" ELSE "reading"
               /\ pending' = IF looped THEN commands' ELSE 0
          /\ heard' = <<>>
          /\ due' = IF torProcess = "up" THEN Append(due, commands') ELSE due
          /\ UNCHANGED round
     ELSE NextRound /\ UNCHANGED <<commands, pending, heard, due>>
  /\ UNCHANGED <<torWorld, stream, control, demux, consensus, torReady, published, torHost,
                 torStops>>

\* get_hs_status(): the state of the first line that carries a value.
StateOf(lines) ==
  LET valued == {i \in DOMAIN lines : lines[i].state # "none"} IN
  IF valued = {} THEN "none"
  ELSE lines[CHOOSE i \in valued : \A j \in valued : i <= j].state

GoodOrEmpty(s) == s \in {"published", ""}

\* Tor's names of a service that is up; a reply that could not be read is
\* none of them.
Good(s) == s = "published"

\* The reply is handed to the command that waits.
Replied(lines) ==
  /\ pending' = 0 /\ heard' = <<>>
  /\ IF Good(StateOf(lines))
     THEN published' = TRUE /\ verify' = "over" /\ UNCHANGED round
     ELSE NextRound /\ UNCHANGED published
  /\ UNCHANGED commands

\* Three seconds without a full reply: the future and the lines are dropped.
ReplyTimesOut ==
  /\ verify = "asking"
  /\ pending' = 0 /\ heard' = <<>>
  /\ NextRound
  /\ UNCHANGED <<torWorld, stream, due, control, demux, consensus, torReady, published,
                 commands, torHost, torStops>>

\* _read_reply(): the next line is one of this reply, or of an older one.
ReadsDirectly ==
  /\ verify = "reading" /\ stream # <<>>
  /\ stream' = Tail(stream)
  /\ LET l == Head(stream) IN
       IF l.last THEN Replied(Append(heard, l))
       ELSE heard' = Append(heard, l) /\ UNCHANGED <<pending, torVerify>>
  /\ UNCHANGED <<torWorld, due, control, demux, consensus, torReady, torHost, torStops>>

\* Or no line of a reply: silence, the end of the stream, an event or the
\* rest of a block.
ReadFails ==
  /\ verify = "reading"
  /\ heard' = <<>> /\ NextRound
  /\ UNCHANGED <<torWorld, stream, due, control, demux, pending, consensus, torReady,
                 published, commands, torHost, torStops>>

\* The self-dial: a circuit to the own address with a TLS session on it.
SelfDial(ok) ==
  /\ verify = "dialling"
  /\ ok => torProcess = "up" /\ torLive
  /\ published' = ok
  /\ verify' = "over"
  /\ UNCHANGED <<torWorld, torLink, torReady, commands, round, torHost, torStops>>

(***************************************************************************)
(* run_event_loop()                                                        *)
(***************************************************************************)
\* The next line.  A reply line nobody waits for is dropped; the others are
\* collected, and the last one resolves the future.
ReadsLine ==
  /\ demux = "reading" /\ stream # <<>>
  /\ stream' = Tail(stream)
  /\ LET l == Head(stream) IN
       IF pending = 0 THEN UNCHANGED <<pending, heard, torVerify>>
       ELSE IF l.last THEN Replied(Append(heard, l))
       ELSE heard' = Append(heard, l) /\ UNCHANGED <<pending, torVerify>>
  /\ UNCHANGED <<torWorld, due, control, demux, consensus, torReady, torHost, torStops>>

\* A 650 event of one line changes what is known of the consensus.
ReadsEvent(lost) ==
  /\ demux = "reading" /\ torProcess = "up"
  /\ consensus' = lost
  /\ UNCHANGED <<torWorld, stream, due, control, demux, pending, heard, torReady, torVerify,
                 torHost, torStops>>

\* A 650+NEWCONSENSUS block comes in several lines.
BlockBegins ==
  /\ demux = "reading" /\ torProcess = "up"
  /\ demux' = "block"
  /\ UNCHANGED <<torWorld, stream, due, control, pending, heard, consensus, torReady,
                 torVerify, torHost, torStops>>

BlockEnds ==
  /\ demux = "block"
  /\ demux' = "reading" /\ consensus' = FALSE
  /\ UNCHANGED <<torWorld, stream, due, control, pending, heard, torReady, torVerify, torHost,
                 torStops>>

\* The stream has ended, or a block stalls for 30 s: the command that waits
\* gets an error.  Nothing resets _daemon_reachable or connects again.
LoopEnds ==
  /\ \/ demux \in {"reading", "block"} /\ torProcess = "gone"
     \/ demux = "block" /\ torProcess = "up"
  /\ stream = <<>>
  /\ demux' = "over"
  /\ pending' = 0 /\ heard' = <<>>
  /\ IF verify = "asking" THEN NextRound ELSE UNCHANGED <<verify, round>>
  /\ UNCHANGED <<torWorld, stream, due, control, consensus, torReady, published, commands,
                 torHost, torStops>>

(***************************************************************************)
(* DHTNode.stop() and on_shutdown()                                        *)
(***************************************************************************)
Alive(t) ==
  CASE t = "loop"   -> demux \in {"reading", "block"}
    [] t = "verify" -> verify \in {"asleep", "asking", "reading", "dialling"}
    [] t = "poll"   -> hostPoll = "asleep"

StopCalled ==
  /\ torStop = "no" /\ loading = "over"
  /\ torStop' = "hook"
  /\ doomed' = <<"loop", "verify", "poll">>
  /\ UNCHANGED <<torWorld, torLink, torReady, torVerify, torHost>>

\* The task is cancelled and awaited.  The event loop returns when it is
\* cancelled between lines, and all other tasks end cancelled, which the
\* "except Exception" around the await does not catch: it leaves
\* on_shutdown(), _safe_run_plugin_hook() and DHTNode.stop().
Cancels ==
  /\ torStop = "hook" /\ doomed # <<>>
  /\ LET t == Head(doomed)
         raises == Alive(t) /\ (t = "loop" => demux = "block")
     IN /\ torStop' = IF raises THEN "aborted" ELSE "hook"
        /\ doomed' = IF raises THEN <<>> ELSE Tail(doomed)
        /\ demux' = IF t = "loop" /\ Alive(t) THEN "over" ELSE demux
        /\ hostPoll' = IF t = "poll" /\ Alive(t) THEN "over" ELSE hostPoll
        /\ IF t = "verify" /\ Alive(t)
           THEN verify' = "over" /\ UNCHANGED round
           ELSE IF t = "loop" /\ verify = "asking" THEN NextRound
           ELSE UNCHANGED <<verify, round>>
        /\ IF \/ t = "loop" /\ Alive(t)
              \/ t = "verify" /\ verify \in {"asking", "reading"}
           THEN pending' = 0 /\ heard' = <<>> ELSE UNCHANGED <<pending, heard>>
  /\ UNCHANGED <<torWorld, stream, due, control, consensus, torReady, published, commands,
                 onion, looks, advertised, saved>>

\* The control port is closed and the host that was replaced comes back.
Restores ==
  /\ torStop = "hook" /\ doomed = <<>>
  /\ torStop' = "rest"
  /\ control' = "closed" /\ stream' = <<>> /\ due' = <<>>
  /\ advertised' = IF saved # "none" /\ advertised = "onion" THEN saved ELSE advertised
  /\ saved' = "none"
  /\ UNCHANGED <<torWorld, demux, pending, heard, consensus, torReady, torVerify, onion,
                 hostPoll, looks, doomed>>

\* The rest of stop(): sidecar, bridges, background tasks, pool, server and
\* storage are closed.
StopEnds ==
  /\ torStop = "rest"
  /\ torStop' = "stopped"
  /\ UNCHANGED <<torWorld, torLink, torReady, torVerify, torHost, doomed>>

TorNext ==
  \/ Publishes \/ WritesHostname \/ AnswersCommand \/ TorDies
  \/ \E there \in BOOLEAN : Imports(there)
  \/ Connects \/ (\E ok \in BOOLEAN : Subscribes(ok)) \/ Wires
  \/ StatusAsked \/ Looks \/ Asks \/ ReplyTimesOut \/ ReadsDirectly \/ ReadFails
  \/ (\E ok \in BOOLEAN : SelfDial(ok))
  \/ ReadsLine \/ (\E lost \in BOOLEAN : ReadsEvent(lost)) \/ BlockBegins \/ BlockEnds
  \/ LoopEnds
  \/ StopCalled \/ Cancels \/ Restores \/ StopEnds

TorSpec == TorInit /\ [][TorNext]_torVars

(***************************************************************************)
(* Properties                                                              *)
(***************************************************************************)
\* The cockpit shows the service as live only if its descriptor was
\* published at some time, whatever replies were late, cut off, unreadable
\* or handed to another command.
PublishedWasLive == published => everLive
=============================================================================
