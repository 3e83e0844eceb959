----------------------------- MODULE SseBroker -----------------------------
(***************************************************************************)
(* The SSE broker (sse/broker.go) on every server instance, the stream     *)
(* handler (handler/sse.go) and the shutdown sequence (server/server.go).  *)
(*                                                                         *)
(* All streams are those of one event, and every message makes the browser *)
(* do the same: fetch the grid again.  So a queue of messages is its       *)
(* length.                                                                 *)
(***************************************************************************)
EXTENDS Integers

CONSTANTS
    Instances,   \* server processes behind one Redis
    Conns,       \* stream handlers: connections that exist at the same time
    Buffer,      \* capacity of a client's channel (64)
    MaxVersion,  \* bound on the number of changes
    Null

Versions == 1 .. MaxVersion

\* Who broadcasts: an instance's subscriber goroutine, or the handler that
\* made a change and could not reach Redis.
Casters == Instances \cup Versions

ASSUME BrokerAssumption ==
    /\ Buffer \in Nat \ {0}
    /\ MaxVersion \in Nat
    /\ Instances \cap Versions = {}
    /\ Null \notin Instances \cup Conns

VARIABLES
    version,     \* how many changes the tables hold
    announcer,   \* the handler of each change, on its way to Publish
    phase,       \* of each server process
    linked,      \* instances whose Redis subscription is established
    feed,        \* messages Redis has sent to an instance, not yet taken
    conn,        \* the stream handlers
    registered,  \* Broker.clients: the connections on it, their channels open
    chan,        \* messages in each connection's channel
    cast         \* connections a broadcast in progress has still to serve

brokerVars == <<version, announcer, phase, linked, feed, conn, registered, chan, cast>>

Announcer == [at : Instances \cup {Null}, st : {"none", "written", "local", "done"}]
Conn      == [at : Instances \cup {Null}, st : {"none", "told", "subscribed"}]

NoConn == [at |-> Null, st |-> "none"]

ConnsAt(i) == {k \in Conns : conn[k].at = i}
Running(i) == phase[i] # "exited"
Announcing(v) == announcer[v].st \in {"written", "local"}

\* The write lock of Broker.mu: no broadcast of the instance is under way.
CanLock(i) == \A b \in Casters : cast[b] \cap ConnsAt(i) = {}

BrokerInit ==
    /\ version = 0
    /\ announcer = [v \in Versions |-> [at |-> Null, st |-> "none"]]
    /\ phase = [i \in Instances |-> "up"]
    /\ linked = Instances
    /\ feed = [i \in Instances |-> 0]
    /\ conn = [k \in Conns |-> NoConn]
    /\ registered = {}
    /\ chan = [k \in Conns |-> 0]
    /\ cast = [b \in Casters |-> {}]

-----------------------------------------------------------------------------
(* Changes and their announcement.                                         *)

\* A handler on i commits a change; it will publish it before it replies.
Write(i) ==
    /\ Running(i) /\ version < MaxVersion
    /\ version' = version + 1
    /\ announcer' = [announcer EXCEPT ![version + 1] = [at |-> i, st |-> "written"]]
    /\ UNCHANGED <<phase, linked, feed, conn, registered, chan, cast>>

\* Redis passes a message to everyone subscribed at the moment.
Deliver(insts) == feed' = [i \in Instances |-> IF i \in insts THEN feed[i] + 1 ELSE feed[i]]

Publish(v) ==
    /\ announcer[v].st = "written"
    /\ Deliver(linked)
    /\ announcer' = [announcer EXCEPT ![v].st = "done"]
    /\ UNCHANGED <<version, phase, linked, conn, registered, chan, cast>>

\* Redis answers with an error, whether or not it took the message: broadcast
\* to the clients of this instance.
PublishFails(v, took) ==
    LET i == announcer[v].at
    IN  /\ announcer[v].st = "written"
        /\ Deliver(IF took THEN linked ELSE {})
        /\ cast' = [cast EXCEPT ![v] = registered \cap ConnsAt(i)]
        /\ announcer' = [announcer EXCEPT ![v].st = "local"]
        /\ UNCHANGED <<version, phase, linked, conn, registered, chan>>

LocalDone(v) ==
    /\ announcer[v].st = "local" /\ cast[v] = {}
    /\ announcer' = [announcer EXCEPT ![v].st = "done"]
    /\ UNCHANGED <<version, phase, linked, feed, conn, registered, chan, cast>>

-----------------------------------------------------------------------------
(* The subscriber goroutine and broadcast.                                 *)

Receive(i) ==
    /\ Running(i) /\ feed[i] > 0 /\ cast[i] = {}
    /\ feed' = [feed EXCEPT ![i] = @ - 1]
    /\ cast' = [cast EXCEPT ![i] = registered \cap ConnsAt(i)]
    /\ UNCHANGED <<version, announcer, phase, linked, conn, registered, chan>>

\* Mutant: the send waits for room in the channel.
SendWaits(b, k) ==
    /\ k \in cast[b] /\ chan[k] < Buffer
    /\ chan' = [chan EXCEPT ![k] = @ + 1]
    /\ cast' = [cast EXCEPT ![b] = @ \ {k}]
    /\ UNCHANGED <<version, announcer, phase, linked, feed, conn, registered>>

\* Mutant: the channel takes whatever is sent.
SendUnbounded(b, k) ==
    /\ k \in cast[b]
    /\ chan' = [chan EXCEPT ![k] = @ + 1]
    /\ cast' = [cast EXCEPT ![b] = @ \ {k}]
    /\ UNCHANGED <<version, announcer, phase, linked, feed, conn, registered>>

\* A message for a channel that is full is dropped.
Send(b, k) ==
    /\ k \in cast[b]
    /\ chan' = [chan EXCEPT ![k] = IF @ < Buffer THEN @ + 1 ELSE @]
    /\ cast' = [cast EXCEPT ![b] = @ \ {k}]
    /\ UNCHANGED <<version, announcer, phase, linked, feed, conn, registered>>

\* The connection to Redis breaks, and what was under way is lost, or some of
\* it; go-redis subscribes again.
LinkBreaks(i) ==
    /\ i \in linked
    /\ linked' = linked \ {i}
    /\ \E n \in 0 .. feed[i] : feed' = [feed EXCEPT ![i] = n]
    /\ UNCHANGED <<version, announcer, phase, conn, registered, chan, cast>>

Link(i) ==
    /\ Running(i) /\ i \notin linked
    /\ linked' = linked \cup {i}
    /\ UNCHANGED <<version, announcer, phase, feed, conn, registered, chan, cast>>

-----------------------------------------------------------------------------
(* The stream handler.                                                     *)

\* The response and "connected" are flushed ...
Tell(k, i) ==
    /\ conn[k] = NoConn /\ phase[i] = "up"
    /\ conn' = [conn EXCEPT ![k] = [at |-> i, st |-> "told"]]
    /\ UNCHANGED <<version, announcer, phase, linked, feed, registered, chan, cast>>

\* ... and then the broker comes to know the client.
Subscribe(k) ==
    /\ conn[k].st = "told" /\ CanLock(conn[k].at)
    /\ conn' = [conn EXCEPT ![k].st = "subscribed"]
    /\ registered' = registered \cup {k}
    /\ UNCHANGED <<version, announcer, phase, linked, feed, chan, cast>>

\* A message is taken from the channel and flushed.
Forward(k) ==
    /\ conn[k].st = "subscribed" /\ chan[k] > 0
    /\ chan' = [chan EXCEPT ![k] = @ - 1]
    /\ UNCHANGED <<version, announcer, phase, linked, feed, conn, registered, cast>>

\* Mutant: cleanup closes the channel without taking the lock.
ReturnUnlocked(k) ==
    /\ conn[k].st = "subscribed"
    /\ registered' = registered \ {k}
    /\ conn' = [conn EXCEPT ![k] = NoConn]
    /\ chan' = [chan EXCEPT ![k] = 0]
    /\ UNCHANGED <<version, announcer, phase, linked, feed, cast>>

\* The client is gone or the channel closed: the deferred cleanup takes the
\* connection off the broker and closes its channel.
Return(k) ==
    /\ conn[k].st = "subscribed" /\ CanLock(conn[k].at)
    /\ registered' = registered \ {k}
    /\ conn' = [conn EXCEPT ![k] = NoConn]
    /\ chan' = [chan EXCEPT ![k] = 0]
    /\ UNCHANGED <<version, announcer, phase, linked, feed, cast>>

-----------------------------------------------------------------------------
(* The life of a server process.                                           *)

\* A signal: Shutdown closes the listener and waits for the handlers.
Shutdown(i) ==
    /\ phase[i] = "up"
    /\ phase' = [phase EXCEPT ![i] = "draining"]
    /\ UNCHANGED <<version, announcer, linked, feed, conn, registered, chan, cast>>

\* Broker.Close: every channel still there is closed.  The process ends.
Close(i) ==
    /\ CanLock(i)
    /\ registered' = registered \ ConnsAt(i)
    /\ phase' = [phase EXCEPT ![i] = "exited"]
    /\ linked' = linked \ {i}
    /\ feed' = [feed EXCEPT ![i] = 0]
    /\ UNCHANGED <<version, announcer, conn, chan, cast>>

\* All handlers have returned: Shutdown returns nil and the broker is closed.
Drained(i) ==
    /\ phase[i] = "draining" /\ ConnsAt(i) = {}
    /\ \A v \in Versions : announcer[v].at = i => ~Announcing(v)
    /\ Close(i)

\* A crash, or Shutdown gives up after ten seconds and Start returns its error:
\* the process ends with all its handlers, and what they had yet to announce.
Exit(i) ==
    LET mine == {v \in Versions : announcer[v].at = i /\ Announcing(v)}
    IN  /\ Running(i)
        /\ phase' = [phase EXCEPT ![i] = "exited"]
        /\ linked' = linked \ {i}
        /\ feed' = [feed EXCEPT ![i] = 0]
        /\ registered' = registered \ ConnsAt(i)
        /\ conn' = [k \in Conns |-> IF k \in ConnsAt(i) THEN NoConn ELSE conn[k]]
        /\ chan' = [k \in Conns |-> IF k \in ConnsAt(i) THEN 0 ELSE chan[k]]
        /\ cast' = [b \in Casters |-> IF b = i \/ b \in mine THEN {} ELSE cast[b]]
        /\ announcer' = [v \in Versions |-> IF v \in mine THEN [announcer[v] EXCEPT !.st = "done"]
                                            ELSE announcer[v]]
        /\ UNCHANGED version

\* The container is started again; the subscription is established by and by.
Restart(i) ==
    /\ phase[i] = "exited"
    /\ phase' = [phase EXCEPT ![i] = "up"]
    /\ UNCHANGED <<version, announcer, linked, feed, conn, registered, chan, cast>>

-----------------------------------------------------------------------------
(* Properties.                                                             *)

BrokerTypeOK ==
    /\ version \in 0 .. MaxVersion
    /\ announcer \in [Versions -> Announcer]
    /\ phase \in [Instances -> {"up", "draining", "exited"}]
    /\ linked \subseteq Instances
    /\ feed \in [Instances -> Nat]
    /\ conn \in [Conns -> Conn]
    /\ registered \subseteq Conns
    /\ chan \in [Conns -> 0 .. Buffer]
    /\ cast \in [Casters -> SUBSET Conns]

\* No broadcast sends on a channel that has been closed, and no channel is
\* closed twice: either would end the process with a panic.  Close and cleanup
\* both close channels, so it takes the lock and the order of the shutdown.
ChannelsOpen ==
    /\ \A b \in Casters : cast[b] \subseteq registered
    /\ \A k \in Conns : conn[k].st = "subscribed" => k \in registered

=============================================================================
