----------------------------- MODULE EbpfBridge -----------------------------
(***************************************************************************)
(* internal/ebpf/tracer.go, init.go, bridge.go and the PostgreSQL parser of*)
(* internal/ebpf/l7: the start of the tracer, the perf buffers and their   *)
(* readers, the channel of events and the bridge that makes spans of them. *)
(* A connection is a number; its address and the text it prepared under the*)
(* one statement name are that number, so a stale one shows. A slot is a   *)
(* pair of pid and fd, which the kernel gives again after a close.         *)
(***************************************************************************)
EXTENDS Integers, Sequences

CONSTANTS Slots,     \* pairs of pid and fd
          ChanSize,  \* places of the channel of events (1000)
          RingSize,  \* records of a perf buffer
          MaxConns,  \* bound: connections
          MaxSent    \* bound: frames a connection sends

VARIABLES
  run,       \* tracer.Run: "load", "list", "init", "attach", "up" or "failed"
  todo,      \* open connections init has still to announce
  open,      \* slot -> connection, or 0
  used,      \* connections so far
  sent,      \* frames the open connection of the slot has sent
  traced,    \* slots in the map active_connections of the kernel
  tcp, l7,   \* the perf buffers tcp_connect_events and l7_events
  lost,      \* lostSamples
  events,    \* the channel
  conns,     \* connTracker: slot -> connection whose address is known, or 0
  parsers,   \* parsersByConn: slot -> connection whose text is remembered, or 0
  spans      \* what was pushed

bridgeVars == <<run, todo, open, used, sent, traced, tcp, l7, lost, events, conns, parsers, spans>>

Event(kind, slot) == [kind |-> kind, slot |-> slot, conn |-> open[slot]]

BridgeTypeOK ==
  /\ run \in {"load", "list", "init", "attach", "up", "failed"}
  /\ open \in [Slots -> 0 .. MaxConns] /\ conns \in [Slots -> 0 .. MaxConns] /\ parsers \in [Slots -> 0 .. MaxConns]
  /\ traced \subseteq Slots /\ Len(events) <= ChanSize /\ Len(tcp) <= RingSize /\ Len(l7) <= RingSize

BridgeInit ==
  /\ run = "load" /\ todo = {}
  /\ open = [s \in Slots |-> 0] /\ used = 0 /\ sent = [s \in Slots |-> 0] /\ traced = {}
  /\ tcp = <<>> /\ l7 = <<>> /\ lost = 0 /\ events = <<>>
  /\ conns = [s \in Slots |-> 0] /\ parsers = [s \in Slots |-> 0] /\ spans = {}

-----------------------------------------------------------------------------
(* Run *)

RunFails ==
  /\ run \in {"load", "list", "attach"} /\ run' = "failed"
  /\ UNCHANGED <<todo, open, used, sent, traced, tcp, l7, lost, events, conns, parsers, spans>>

\* ebpf: the collection is loaded, the readers of the perf buffers start.
Load ==
  /\ run = "load" /\ run' = "list"
  /\ UNCHANGED <<todo, open, used, sent, traced, tcp, l7, lost, events, conns, parsers, spans>>

\* init: the sockets of all processes are listed, and announced one by one; each is
\* then put in the map of the kernel.
List ==
  /\ run = "list" /\ run' = "init"
  /\ todo' = {Event("open", s) : s \in {s \in Slots : open[s] # 0}}
  /\ UNCHANGED <<open, used, sent, traced, tcp, l7, lost, events, conns, parsers, spans>>

Announce(e) ==
  /\ run = "init" /\ e \in todo /\ Len(events) < ChanSize
  /\ events' = Append(events, e) /\ todo' = todo \ {e} /\ traced' = traced \cup {e.slot}
  /\ UNCHANGED <<run, open, used, sent, tcp, l7, lost, conns, parsers, spans>>

Announced ==
  /\ run = "init" /\ todo = {} /\ run' = "attach"
  /\ UNCHANGED <<todo, open, used, sent, traced, tcp, l7, lost, events, conns, parsers, spans>>

\* attachPrograms: from now on the kernel writes events.
Attach ==
  /\ run = "attach" /\ run' = "up"
  /\ UNCHANGED <<todo, open, used, sent, traced, tcp, l7, lost, events, conns, parsers, spans>>

-----------------------------------------------------------------------------
(* The kernel *)

\* A record is written, or counted as lost when the buffer is full.
ToTcp(e) == IF run = "up" /\ Len(tcp) < RingSize THEN tcp' = Append(tcp, e) /\ UNCHANGED lost
            ELSE UNCHANGED tcp /\ lost' = IF run = "up" THEN lost + 1 ELSE lost

Connect(s) ==
  /\ open[s] = 0 /\ used < MaxConns /\ used' = used + 1
  /\ open' = [open EXCEPT ![s] = used + 1] /\ sent' = [sent EXCEPT ![s] = 0]
  /\ ToTcp([kind |-> "open", slot |-> s, conn |-> used + 1])
  /\ traced' = IF run = "up" THEN traced \cup {s} ELSE traced
  /\ UNCHANGED <<run, todo, l7, events, conns, parsers, spans>>

Disconnect(s) ==
  /\ open[s] # 0 /\ open' = [open EXCEPT ![s] = 0]
  /\ ToTcp(Event("close", s))
  /\ traced' = IF run = "up" THEN traced \ {s} ELSE traced
  /\ UNCHANGED <<run, todo, used, sent, l7, events, conns, parsers, spans>>

\* A frame of the open connection: it prepares its statement or executes it.
Frame(s) ==
  /\ open[s] # 0 /\ sent[s] < MaxSent /\ sent' = [sent EXCEPT ![s] = @ + 1]
  /\ \E kind \in {"parse", "bind"} :
       IF run = "up" /\ s \in traced
       THEN IF Len(l7) < RingSize THEN l7' = Append(l7, Event(kind, s)) /\ UNCHANGED lost
            ELSE UNCHANGED l7 /\ lost' = lost + 1
       ELSE UNCHANGED <<l7, lost>>
  /\ UNCHANGED <<run, todo, open, used, traced, tcp, events, conns, parsers, spans>>

-----------------------------------------------------------------------------
(* runEventsReader, one for each buffer; it waits for a place in the channel *)

ReadTcp ==
  /\ tcp # <<>> /\ Len(events) < ChanSize
  /\ events' = Append(events, Head(tcp)) /\ tcp' = Tail(tcp)
  /\ UNCHANGED <<run, todo, open, used, sent, traced, l7, lost, conns, parsers, spans>>

ReadL7 ==
  /\ l7 # <<>> /\ Len(events) < ChanSize
  /\ events' = Append(events, Head(l7)) /\ l7' = Tail(l7)
  /\ UNCHANGED <<run, todo, open, used, sent, traced, tcp, lost, conns, parsers, spans>>

-----------------------------------------------------------------------------
(* RunBridge *)

ListeningAfterAttach == run = "up"

\* startEbpfTracer starts the bridge before tracer.Run.
Listening == TRUE

TrackOpen(e) ==
  /\ e.kind = "open" /\ conns' = [conns EXCEPT ![e.slot] = e.conn]
  /\ UNCHANGED <<parsers, spans>>

\* A close forgets the address. The parser of the slot stays.
TrackClose(e) ==
  /\ e.kind = "close" /\ conns' = [conns EXCEPT ![e.slot] = 0]
  /\ UNCHANGED <<parsers, spans>>

\* buildSpan with PostgresParser.Parse: the address comes from the tracker, the text of
\* an execution from the parser of the slot, where a preparation has put it. Text 0 is
\* "EXECUTE ... unknown".
BuildSpan(e) ==
  /\ e.kind \in {"parse", "bind"}
  /\ parsers' = IF e.kind = "parse" THEN [parsers EXCEPT ![e.slot] = e.conn] ELSE parsers
  /\ spans' = spans \cup {[conn |-> e.conn, peer |-> conns[e.slot], text |-> parsers'[e.slot]]}
  /\ UNCHANGED conns

\* physicalL7Latency: a measure that cannot be is dropped before the parser sees it.
Implausible(e) == e.kind \in {"parse", "bind"} /\ UNCHANGED <<conns, parsers, spans>>

Consume ==
  /\ Listening /\ events # <<>> /\ events' = Tail(events)
  /\ LET e == Head(events) IN TrackOpen(e) \/ TrackClose(e) \/ BuildSpan(e) \/ Implausible(e)
  /\ UNCHANGED <<run, todo, open, used, sent, traced, tcp, l7, lost>>

BridgeNext ==
  \/ RunFails \/ Load \/ List \/ Announced \/ Attach \/ ReadTcp \/ ReadL7 \/ Consume
  \/ \E e \in todo : Announce(e)
  \/ \E s \in Slots : Connect(s) \/ Disconnect(s) \/ Frame(s)

\* The goroutines of the agent run whenever they can.
BridgeFairness ==
  /\ WF_bridgeVars(Load) /\ WF_bridgeVars(List) /\ WF_bridgeVars(Announced)
  /\ WF_bridgeVars(Attach) /\ WF_bridgeVars(\E e \in todo : Announce(e))
  /\ WF_bridgeVars(Consume)

BridgeSpec == BridgeInit /\ [][BridgeNext]_bridgeVars /\ BridgeFairness

-----------------------------------------------------------------------------
(* Properties *)

\* The tracer comes up, or Run fails: announcing more connections than the channel
\* holds does not block it for ever ("era o 'trava no step 3/4'").
TracerUp == <>(run \in {"up", "failed"})

\* The text of a statement belongs to the connection that executed it: the parsers are
\* "por conexão. Limpos no Close."
StatementOfConnection == \A s \in spans : s.text \in {0, s.conn}
=============================================================================
