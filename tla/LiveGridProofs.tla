--------------------------- MODULE LiveGridProofs ---------------------------
(***************************************************************************)
(* Channels: no broadcast uses a closed one and none is closed twice.      *)
(* Types of the open grids, and delivery: what is announced to them is not *)
(* lost, and their guesses are replaced.  All for any number of instances, *)
(* connections, tabs, updates and changes.                                 *)
(***************************************************************************)
EXTENDS LiveGrid, TLAPS

\* A change that has not been made is announced by nobody.
Unwritten == \A v \in Versions : v > version => announcer[v].st = "none"

\* The broker's map holds exactly the subscribed connections, and a running
\* handler is on some instance.
Registered ==
    /\ registered = {k \in Conns : conn[k].st = "subscribed"}
    /\ \A k \in Conns : conn[k].at = Null => conn[k] = NoConn

\* A broadcast reaches the connections of the instance it runs on, and the
\* handler that made a change broadcasts only while Publish is at its fallback.
CastsStay ==
    /\ \A i \in Instances : cast[i] \subseteq registered \cap ConnsAt(i)
    /\ \A v \in Versions :
          /\ cast[v] \subseteq registered \cap ConnsAt(announcer[v].at)
          /\ announcer[v].st # "local" => cast[v] = {}

BrokerInv == BrokerTypeOK /\ Unwritten /\ Registered /\ CastsStay

-----------------------------------------------------------------------------

LEMMA InvImpliesOpen == BrokerInv => ChannelsOpen
BY DEF BrokerInv, BrokerTypeOK, Registered, CastsStay, ChannelsOpen, Casters

LEMMA InitInv == BrokerInit => BrokerInv
BY BrokerAssumption
   DEF BrokerInit, BrokerInv, BrokerTypeOK, Unwritten, Registered, CastsStay, NoConn,
       Announcer, Conn, Casters, Versions, ConnsAt

\* What the actions on the broker have in common: all steps of Next that do
\* not leave its variables alone.
BrokerStep ==
    \/ \E i \in Instances : \/ Write(i) \/ Receive(i) \/ LinkBreaks(i) \/ Link(i)
                            \/ Shutdown(i) \/ Drained(i) \/ Exit(i) \/ Restart(i)
    \/ \E v \in Versions : Publish(v) \/ LocalDone(v) \/ \E took \in BOOLEAN : PublishFails(v, took)
    \/ \E b \in Casters, k \in Conns : Send(b, k)
    \/ \E k \in Conns : Subscribe(k) \/ Forward(k) \/ Return(k)
    \/ \E k \in Conns, i \in Instances : Tell(k, i)

LEMMA NextIsBrokerStep == [Next]_vars => BrokerStep \/ UNCHANGED brokerVars
BY DEF Next, vars, BrokerStep, FetchRead, FetchDone, FetchFails, Drop, Retry, Open, EditStart,
       EditGuess, EditApplied, EditAnswered, EditError, EditSuccess, Register, Message,
       HandlerReturns, Announce, Broadcasting, Change, Relink, Unlink, Stop, Stopped, Die,
       StartAgain

\* Steps that touch neither the handlers nor the broker's map nor a broadcast.
LEMMA InvFrame ==
    ASSUME BrokerInv,
           UNCHANGED <<version, announcer, conn, registered, cast>>,
           phase' \in [Instances -> {"up", "draining", "exited"}],
           linked' \subseteq Instances,
           feed' \in [Instances -> Nat],
           chan' \in [Conns -> 0 .. Buffer]
    PROVE  BrokerInv'
<1>1. \A i : ConnsAt(i)' = ConnsAt(i)
  BY DEF ConnsAt
<1>2. BrokerTypeOK' /\ Unwritten' /\ Registered'
  BY DEF BrokerInv, BrokerTypeOK, Unwritten, Registered
<1>3. CastsStay'
  BY <1>1 DEF BrokerInv, CastsStay
<1> QED
  BY <1>2, <1>3 DEF BrokerInv

LEMMA StepKeepsInv == BrokerInv /\ BrokerStep => BrokerInv'
<1> SUFFICES ASSUME BrokerInv, BrokerStep PROVE BrokerInv'
  OBVIOUS
<1>1. ASSUME NEW i \in Instances, Write(i) PROVE BrokerInv'
  <2>1. BrokerTypeOK'
    BY <1>1, BrokerAssumption DEF Write, BrokerInv, BrokerTypeOK, Announcer, Conn, Casters,
       Versions, NoConn, ConnsAt
  <2>2. Unwritten'
    BY <1>1, BrokerAssumption DEF Write, BrokerInv, BrokerTypeOK, Unwritten, Announcer,
       Conn, Casters, Versions
  <2>3. Registered'
    BY <1>1 DEF Write, BrokerInv, BrokerTypeOK, Registered, Conn, NoConn, ConnsAt
  <2>4. CastsStay'
    BY <1>1, BrokerAssumption DEF Write, BrokerInv, BrokerTypeOK, Unwritten, Registered,
       CastsStay,
       Announcer, Conn, Casters, Versions, NoConn, ConnsAt, CanLock
  <2> QED
    BY <2>1, <2>2, <2>3, <2>4 DEF BrokerInv
<1>2. ASSUME NEW i \in Instances, Receive(i) PROVE BrokerInv'
  <2>1. BrokerTypeOK'
    BY <1>2, BrokerAssumption DEF Receive, BrokerInv, BrokerTypeOK, Announcer, Conn,
       Casters, Versions, NoConn, ConnsAt
  <2>2. Unwritten'
    BY <1>2 DEF Receive, BrokerInv, BrokerTypeOK, Unwritten, Versions
  <2>3. Registered'
    BY <1>2 DEF Receive, BrokerInv, BrokerTypeOK, Registered, Conn, NoConn, ConnsAt
  <2>4. CastsStay'
    BY <1>2, BrokerAssumption DEF Receive, BrokerInv, BrokerTypeOK, CastsStay, Registered,
       ConnsAt,
       Casters
  <2> QED
    BY <2>1, <2>2, <2>3, <2>4 DEF BrokerInv
<1>3. ASSUME NEW i \in Instances, LinkBreaks(i) PROVE BrokerInv'
  <2>1. PICK n \in 0 .. feed[i] : feed' = [feed EXCEPT ![i] = n]
    BY <1>3 DEF LinkBreaks
  <2>2. feed' \in [Instances -> Nat]
    BY <2>1 DEF BrokerInv, BrokerTypeOK
  <2> QED
    BY <1>3, <2>2, InvFrame DEF LinkBreaks, BrokerInv, BrokerTypeOK
<1>4. ASSUME NEW i \in Instances, Link(i) PROVE BrokerInv'
  BY <1>4, InvFrame, BrokerAssumption DEF Link, BrokerInv, BrokerTypeOK
<1>5. ASSUME NEW i \in Instances, Shutdown(i) PROVE BrokerInv'
  BY <1>5, InvFrame, BrokerAssumption DEF Shutdown, BrokerInv, BrokerTypeOK
<1>6. ASSUME NEW i \in Instances, Restart(i) PROVE BrokerInv'
  BY <1>6, InvFrame, BrokerAssumption DEF Restart, BrokerInv, BrokerTypeOK
<1>7. ASSUME NEW i \in Instances, Drained(i) PROVE BrokerInv'
  <2>1. registered' = registered
    BY <1>7 DEF Drained, Close
  <2> QED
    BY <1>7, <2>1, InvFrame DEF Drained, Close, BrokerInv, BrokerTypeOK
<1>8. ASSUME NEW i \in Instances, Exit(i) PROVE BrokerInv'
  <2>1. BrokerTypeOK'
    <3>1. announcer' \in [Versions -> Announcer]
      BY <1>8 DEF Exit, BrokerInv, BrokerTypeOK, Announcer
    <3>2. cast' \in [Casters -> SUBSET Conns] /\ feed' \in [Instances -> Nat]
      BY <1>8 DEF Exit, BrokerInv, BrokerTypeOK
    <3>3. conn' \in [Conns -> Conn]
      BY <1>8 DEF Exit, BrokerInv, BrokerTypeOK, Conn, NoConn
    <3>4. chan' \in [Conns -> 0 .. Buffer]
      BY <1>8, BrokerAssumption DEF Exit, BrokerInv, BrokerTypeOK
    <3> QED
      BY <1>8, <3>1, <3>2, <3>3, <3>4 DEF Exit, BrokerInv, BrokerTypeOK
  <2>2. Unwritten'
    BY <1>8 DEF Exit, Announcing, BrokerInv, BrokerTypeOK, Unwritten, Versions
  <2>3. Registered'
    BY <1>8 DEF Exit, Announcing, BrokerInv, BrokerTypeOK, Registered, Conn, NoConn, ConnsAt
  <2>4. CastsStay'
    BY <1>8, BrokerAssumption DEF Exit, Announcing, BrokerInv, BrokerTypeOK, CastsStay,
       Registered, ConnsAt,
       Casters
  <2> QED
    BY <2>1, <2>2, <2>3, <2>4 DEF BrokerInv
<1>9. ASSUME NEW v \in Versions, Publish(v) PROVE BrokerInv'
  <2>1. BrokerTypeOK'
    <3>1. announcer' \in [Versions -> Announcer]
      BY <1>9 DEF Publish, BrokerInv, BrokerTypeOK, Announcer
    <3>2. feed' \in [Instances -> Nat]
      BY <1>9 DEF Publish, Deliver, BrokerInv, BrokerTypeOK
    <3> QED
      BY <1>9, <3>1, <3>2 DEF Publish, BrokerInv, BrokerTypeOK
  <2>2. Unwritten'
    BY <1>9 DEF Publish, BrokerInv, BrokerTypeOK, Unwritten, Versions
  <2>3. Registered'
    BY <1>9 DEF Publish, BrokerInv, BrokerTypeOK, Registered, Conn, NoConn, ConnsAt
  <2>4. CastsStay'
    BY <1>9, BrokerAssumption DEF Publish, BrokerInv, BrokerTypeOK, CastsStay, Registered,
       ConnsAt,
       Casters
  <2> QED
    BY <2>1, <2>2, <2>3, <2>4 DEF BrokerInv
<1>10. ASSUME NEW v \in Versions, LocalDone(v) PROVE BrokerInv'
  <2>1. BrokerTypeOK'
    BY <1>10, BrokerAssumption DEF LocalDone, BrokerInv, BrokerTypeOK, Announcer, Conn,
       Casters, Versions, NoConn, ConnsAt
  <2>2. Unwritten'
    BY <1>10 DEF LocalDone, BrokerInv, BrokerTypeOK, Unwritten, Versions
  <2>3. Registered'
    BY <1>10 DEF LocalDone, BrokerInv, BrokerTypeOK, Registered, Conn, NoConn, ConnsAt
  <2>4. CastsStay'
    BY <1>10, BrokerAssumption DEF LocalDone, BrokerInv, BrokerTypeOK, CastsStay,
       Registered, ConnsAt,
       Casters
  <2> QED
    BY <2>1, <2>2, <2>3, <2>4 DEF BrokerInv
<1>11. ASSUME NEW v \in Versions, NEW took \in BOOLEAN, PublishFails(v, took) PROVE BrokerInv'
  <2>1. BrokerTypeOK'
    <3>1. announcer' \in [Versions -> Announcer]
      BY <1>11 DEF PublishFails, BrokerInv, BrokerTypeOK, Announcer
    <3>2. cast' \in [Casters -> SUBSET Conns]
      BY <1>11 DEF PublishFails, BrokerInv, BrokerTypeOK
    <3>3. feed' \in [Instances -> Nat]
      BY <1>11 DEF PublishFails, Deliver, BrokerInv, BrokerTypeOK
    <3> QED
      BY <1>11, <3>1, <3>2, <3>3 DEF PublishFails, BrokerInv, BrokerTypeOK
  <2>2. Unwritten'
    BY <1>11 DEF PublishFails, BrokerInv, BrokerTypeOK, Unwritten, Versions
  <2>3. Registered'
    BY <1>11 DEF PublishFails, BrokerInv, BrokerTypeOK, Registered, Conn, NoConn, ConnsAt
  <2>4. CastsStay'
    BY <1>11, BrokerAssumption DEF PublishFails, BrokerInv, BrokerTypeOK, CastsStay,
       Registered, ConnsAt,
       Casters
  <2> QED
    BY <2>1, <2>2, <2>3, <2>4 DEF BrokerInv
<1>12. ASSUME NEW b \in Casters, NEW k \in Conns, Send(b, k) PROVE BrokerInv'
  <2>1. BrokerTypeOK'
    BY <1>12, BrokerAssumption DEF Send, BrokerInv, BrokerTypeOK, Announcer, Conn, Casters,
       Versions, NoConn, ConnsAt
  <2>2. Unwritten'
    BY <1>12 DEF Send, BrokerInv, BrokerTypeOK, Unwritten, Versions
  <2>3. Registered'
    BY <1>12 DEF Send, BrokerInv, BrokerTypeOK, Registered, Conn, NoConn, ConnsAt
  <2>4. CastsStay'
    BY <1>12, BrokerAssumption DEF Send, BrokerInv, BrokerTypeOK, CastsStay, Registered,
       ConnsAt,
       Casters
  <2> QED
    BY <2>1, <2>2, <2>3, <2>4 DEF BrokerInv
<1>13. ASSUME NEW k \in Conns, Subscribe(k) PROVE BrokerInv'
  <2>1. BrokerTypeOK'
    <3>1. conn' \in [Conns -> Conn]
      BY <1>13 DEF Subscribe, BrokerInv, BrokerTypeOK, Conn
    <3> QED
      BY <1>13, <3>1 DEF Subscribe, BrokerInv, BrokerTypeOK
  <2>2. Unwritten'
    BY <1>13 DEF Subscribe, BrokerInv, BrokerTypeOK, Unwritten, Versions
  <2>3. Registered'
    BY <1>13 DEF Subscribe, BrokerInv, BrokerTypeOK, Registered, Conn, NoConn, ConnsAt
  <2>4. CastsStay'
    BY <1>13, BrokerAssumption DEF Subscribe, BrokerInv, BrokerTypeOK, CastsStay,
       Registered, ConnsAt,
       Casters
  <2> QED
    BY <2>1, <2>2, <2>3, <2>4 DEF BrokerInv
<1>14. ASSUME NEW k \in Conns, Forward(k) PROVE BrokerInv'
  <2>1. chan' \in [Conns -> 0 .. Buffer]
    BY <1>14, BrokerAssumption DEF Forward, BrokerInv, BrokerTypeOK
  <2> QED
    BY <1>14, <2>1, InvFrame DEF Forward, BrokerInv, BrokerTypeOK
<1>15. ASSUME NEW k \in Conns, Return(k) PROVE BrokerInv'
  <2>1. BrokerTypeOK'
    BY <1>15, BrokerAssumption DEF Return, BrokerInv, BrokerTypeOK, Announcer, Conn,
       Casters, Versions, NoConn, ConnsAt
  <2>2. Unwritten'
    BY <1>15 DEF Return, BrokerInv, BrokerTypeOK, Unwritten, Versions
  <2>3. Registered'
    BY <1>15 DEF Return, BrokerInv, BrokerTypeOK, Registered, Conn, NoConn, ConnsAt
  <2>4. CastsStay'
    <3>1. conn[k].at \in Instances
      BY <1>15 DEF Return, BrokerInv, BrokerTypeOK, Conn, Registered, NoConn
    <3>2. \A b \in Casters : k \notin cast[b]
      BY <1>15 DEF Return, CanLock, ConnsAt
    <3>3. \A i \in Instances \cup {Null} : ConnsAt(i) \ {k} \subseteq ConnsAt(i)'
      BY <1>15 DEF Return, ConnsAt, BrokerInv, BrokerTypeOK
    <3>4. \A v \in Versions : announcer[v].at \in Instances \cup {Null}
      BY DEF BrokerInv, BrokerTypeOK, Announcer
    <3> QED
      BY <1>15, <3>2, <3>3, <3>4 DEF Return, BrokerInv, CastsStay, Casters
  <2> QED
    BY <2>1, <2>2, <2>3, <2>4 DEF BrokerInv
<1>16. ASSUME NEW k \in Conns, NEW i \in Instances, Tell(k, i) PROVE BrokerInv'
  <2>1. BrokerTypeOK'
    BY <1>16, BrokerAssumption DEF Tell, BrokerInv, BrokerTypeOK, Announcer, Conn, Casters,
       Versions, NoConn, ConnsAt
  <2>2. Unwritten'
    BY <1>16 DEF Tell, BrokerInv, BrokerTypeOK, Unwritten, Versions
  <2>3. Registered'
    BY <1>16, BrokerAssumption DEF Tell, BrokerInv, BrokerTypeOK, Registered, Conn, NoConn,
       ConnsAt
  <2>4. CastsStay'
    <3>1. k \notin registered
      BY <1>16 DEF Tell, BrokerInv, Registered, NoConn
    <3>2. \A x : ConnsAt(x) \ {k} \subseteq ConnsAt(x)'
      BY <1>16 DEF Tell, BrokerInv, BrokerTypeOK, ConnsAt
    <3> QED
      BY <1>16, <3>1, <3>2 DEF Tell, BrokerInv, CastsStay
  <2> QED
    BY <2>1, <2>2, <2>3, <2>4 DEF BrokerInv
<1> QED
  BY <1>1, <1>2, <1>3, <1>4, <1>5, <1>6, <1>7, <1>8,
     <1>9, <1>10, <1>11, <1>12, <1>13, <1>14, <1>15, <1>16 DEF BrokerStep

LEMMA StutterKeepsInv == BrokerInv /\ UNCHANGED brokerVars => BrokerInv'
BY DEF BrokerInv, BrokerTypeOK, Unwritten, Registered, CastsStay, ConnsAt, brokerVars

\* No broadcast sends on a channel that cleanup or Close has closed, and no
\* handler is left to close one that Close has closed before it (the locks of
\* sse/broker.go and the order of closing in server/server.go).
THEOREM ChannelsStayOpen == Spec => []ChannelsOpen
<1>1. Init => BrokerInv
  BY InitInv DEF Init
<1>2. BrokerInv /\ [Next]_vars => BrokerInv'
  BY NextIsBrokerStep, StepKeepsInv, StutterKeepsInv
<1> QED
  BY <1>1, <1>2, InvImpliesOpen, PTL DEF Spec

-----------------------------------------------------------------------------
(* Types of the open grids, and what is announced to them.                 *)

\* The hook has a connection only while it is open, and has given up when it
\* has counted MaxRetries failures.
Hooked ==
    \A c \in Clients : /\ cur[c] # Null => hook[c] = "open"
                       /\ hook[c] # "stopped" => retries[c] < MaxRetries

\* Updates are made in a grid that is there.
Drawn == \A c \in Clients, m \in Edits : edits[c][m] # NoEdit => loaded[c]

ClientInv == ClientTypeOK /\ Hooked /\ Drawn

\* Nothing shown or remembered is newer than the tables, and the answer on its
\* way is no older than the grid it will replace.
Fresh ==
    \A c \in Clients :
        /\ cache[c].ver <= version
        /\ fetch[c].st = "read" => cache[c].ver <= fetch[c].ver /\ fetch[c].ver <= version
        /\ \A m \in Edits : edits[c][m].old.ver <= version

\* Nothing is due to tab c, or it listens and has it, or will get it, or its
\* first load has swallowed the message.
Served(c) ==
    \/ due[c] = 0
    \/ /\ Listening(c) /\ due[c] <= version
       /\ due[c] <= cache[c].ver \/ due[c] <= missed[c] \/ OnItsWay(c, due[c])

DeliveryInv == Fresh /\ \A c \in Clients : Served(c)

-----------------------------------------------------------------------------
(* Types.                                                                  *)

LEMMA ClientInit == Init => ClientInv
BY BrokerAssumption, LiveAssumption
   DEF Init, ClientInv, ClientTypeOK, Hooked, Drawn, NoFetch, Asked, NoEdit, Grid, Fetch, Edit

LEMMA FetchValues ==
    BrokerTypeOK => NoFetch \in Fetch /\ Asked \in Fetch /\ Failed \in Fetch
BY BrokerAssumption DEF NoFetch, Asked, Failed, Fetch, BrokerTypeOK

\* The history and the budget.
LEMMA SpendKeepsType ==
    ASSUME left \in 0 .. MaxEvents, NEW e, Spend(e) PROVE left' \in 0 .. MaxEvents
BY LiveAssumption DEF Spend

\* A failure of tabs that were connecting or open.
LEMMA FailKeepsInv ==
    ASSUME ClientInv, NEW lost \in SUBSET Clients, Fail(lost),
           \A c \in lost : hook[c] \in {"connecting", "open"},
           left' \in 0 .. MaxEvents
    PROVE  ClientInv'
<1>1. cur' \in [Clients -> Conns \cup {Null}]
  BY DEF Fail, ClientInv, ClientTypeOK
<1>2. retries' \in [Clients -> 0 .. MaxRetries]
  BY LiveAssumption, SMTT(60) DEF Fail, ClientInv, ClientTypeOK, Hooked
<1>3. hook' \in [Clients -> {"connecting", "open", "waiting", "stopped"}]
  BY DEF Fail, ClientInv, ClientTypeOK
<1>4. /\ due' \in [Clients -> 0 .. MaxVersion] /\ promised' \in [Clients -> 0 .. MaxVersion]
      /\ missed' \in [Clients -> 0 .. MaxVersion]
  BY BrokerAssumption DEF Fail, ClientInv, ClientTypeOK
<1>5. Hooked' /\ Drawn'
  BY DEF Fail, ClientInv, ClientTypeOK, Hooked, Drawn
<1> QED
  BY <1>1, <1>2, <1>3, <1>4, <1>5 DEF Fail, ClientInv, ClientTypeOK

LEMMA AnnouncedKeepsInv ==
    ASSUME ClientInv, NEW v \in Versions, NEW insts, Announced(v, insts), left' \in 0 .. MaxEvents
    PROVE  ClientInv'
<1>1. due' \in [Clients -> 0 .. MaxVersion] /\ promised' \in [Clients -> 0 .. MaxVersion]
  BY BrokerAssumption DEF Announced, ClientInv, ClientTypeOK, Later, Versions
<1> QED
  BY <1>1 DEF Announced, clientVars, ClientInv, ClientTypeOK, Hooked, Drawn

\* The steps that leave the tabs' state alone, but for "due" when a link breaks.
LEMMA QuietKeepsInv ==
    ASSUME ClientInv, UNCHANGED <<clientVars, promised, missed>>,
           due' \in [Clients -> 0 .. MaxVersion], left' \in 0 .. MaxEvents
    PROVE  ClientInv'
BY DEF clientVars, ClientInv, ClientTypeOK, Hooked, Drawn

\* Requests and their history after an invalidation.
LEMMA InvalidateKeepsTypes ==
    ASSUME BrokerTypeOK, ClientTypeOK, NEW tabs, Invalidate(tabs)
    PROVE  fetch' \in [Clients -> Fetch] /\ missed' \in [Clients -> 0 .. MaxVersion]
BY FetchValues, BrokerAssumption DEF Invalidate, Swallowed, ClientTypeOK

LEMMA StepKeepsClientInv == BrokerInv /\ ClientInv /\ [Next]_vars => ClientInv'
<1> SUFFICES ASSUME BrokerInv, ClientInv, [Next]_vars PROVE ClientInv'
  OBVIOUS
<1>0. BrokerTypeOK /\ BrokerTypeOK'
  BY NextIsBrokerStep, StepKeepsInv, StutterKeepsInv DEF BrokerInv
<1>1. ASSUME NEW c \in Clients, FetchRead(c) \/ FetchDone(c) \/ FetchFails(c) PROVE ClientInv'
  <2>1. fetch' \in [Clients -> Fetch]
    <3>1. [st |-> "read", ver |-> version] \in Fetch
      BY <1>0 DEF BrokerTypeOK, Fetch
    <3> QED
      BY <1>0, <1>1, <3>1, FetchValues
         DEF FetchRead, FetchDone, FetchFails, ClientInv, ClientTypeOK
  <2>2. cache' \in [Clients -> Grid]
    <3>1. [ver |-> fetch[c].ver, guess |-> FALSE] \in Grid
      <4>1. fetch[c] \in Fetch
        BY DEF ClientInv, ClientTypeOK
      <4> QED
        BY <4>1 DEF Fetch, Grid
    <3> QED
      BY <1>1, <3>1 DEF FetchRead, FetchDone, FetchFails, ClientInv, ClientTypeOK
  <2> QED
    BY <1>1, <2>1, <2>2, SpendKeepsType
       DEF FetchRead, FetchDone, FetchFails, historyVars, ClientInv, ClientTypeOK, Hooked, Drawn
<1>2. ASSUME NEW c \in Clients, Drop(c) PROVE ClientInv'
  BY <1>2, FailKeepsInv, SpendKeepsType DEF Drop, ClientInv, ClientTypeOK
<1>3. ASSUME NEW c \in Clients, Retry(c) PROVE ClientInv'
  BY <1>3 DEF Retry, historyVars, ClientInv, ClientTypeOK, Hooked, Drawn
<1>4. ASSUME NEW c \in Clients, NEW k \in Conns, NEW i \in Instances, Open(c, k, i)
      PROVE  ClientInv'
  BY <1>4, LiveAssumption DEF Open, historyVars, ClientInv, ClientTypeOK, Hooked, Drawn
<1>5. ASSUME NEW c \in Clients, NEW m \in Edits,
             EditStart(c, m) \/ EditGuess(c, m) \/ EditApplied(c, m) \/ EditAnswered(c, m)
      PROVE  ClientInv'
  <2>1. fetch' \in [Clients -> Fetch] /\ missed' \in [Clients -> 0 .. MaxVersion]
    BY <1>0, <1>5, FetchValues, InvalidateKeepsTypes
       DEF EditStart, EditGuess, EditApplied, EditAnswered, EditError, EditSuccess, historyVars,
           ClientInv, ClientTypeOK
  <2>2. cache' \in [Clients -> Grid]
    <3>1. cache[c] \in Grid /\ edits[c][m] \in Edit
      BY DEF ClientInv, ClientTypeOK
    <3>2. [cache[c] EXCEPT !.guess = TRUE] \in Grid /\ edits[c][m].old \in Grid
      BY <3>1 DEF Grid, Edit
    <3> QED
      BY <1>5, <3>2 DEF EditStart, EditGuess, EditApplied, EditAnswered, EditError, EditSuccess,
                        ClientInv, ClientTypeOK
  <2>3. edits' \in [Clients -> [Edits -> Edit]]
    <3>1. cache[c] \in Grid /\ version' \in 0 .. MaxVersion /\ edits[c] \in [Edits -> Edit]
      BY <1>0 DEF ClientInv, ClientTypeOK, BrokerTypeOK
    <3>2. PICK e \in Edit : edits' = [edits EXCEPT ![c][m] = e]
      <4>1. NoEdit \in Edit
        BY BrokerAssumption DEF NoEdit, Edit, Grid
      <4>2. [edits[c][m] EXCEPT !.st = "started"] \in Edit
        BY <3>1 DEF Edit
      <4>3. [st |-> "sent", ver |-> 0, old |-> cache[c]] \in Edit
        BY <3>1, BrokerAssumption DEF Edit
      <4>4. [edits[c][m] EXCEPT !.st = "applied", !.ver = version'] \in Edit
        BY <3>1 DEF Edit
      <4>5. CASE EditStart(c, m)
        BY <4>2, <4>5 DEF EditStart
      <4>6. CASE EditGuess(c, m)
        BY <4>3, <4>6 DEF EditGuess
      <4>7. CASE EditApplied(c, m)
        BY <4>4, <4>7, <3>1 DEF EditApplied, ClientInv, ClientTypeOK
      <4>8. CASE EditAnswered(c, m)
        BY <4>1, <4>8 DEF EditAnswered, EditError, EditSuccess
      <4> QED
        BY <1>5, <4>5, <4>6, <4>7, <4>8
    <3> QED
      BY <3>2 DEF ClientInv, ClientTypeOK
  <2>4. left' \in 0 .. MaxEvents
    BY <1>5, SpendKeepsType
       DEF EditStart, EditGuess, EditApplied, EditAnswered, EditError, EditSuccess, ClientInv,
           ClientTypeOK
  <2>5. Drawn'
    <3>1. loaded[c]
      BY <1>5 DEF EditStart, EditGuess, EditApplied, EditAnswered, EditError, EditSuccess, NoEdit,
                  ClientInv, Drawn
    <3>2. loaded' = loaded /\ \A d \in Clients \ {c} : edits'[d] = edits[d]
      BY <1>5 DEF EditStart, EditGuess, EditApplied, EditAnswered, EditError, EditSuccess,
                  ClientInv, ClientTypeOK
    <3> QED
      BY <3>1, <3>2 DEF ClientInv, Drawn
  <2> QED
    BY <1>5, <2>1, <2>2, <2>3, <2>4, <2>5
       DEF EditStart, EditGuess, EditApplied, EditAnswered, EditError, EditSuccess, historyVars,
           ClientInv, ClientTypeOK, Hooked
<1>6. ASSUME NEW k \in Conns, Message(k) PROVE ClientInv'
  BY <1>0, <1>6, InvalidateKeepsTypes DEF Message, ClientInv, ClientTypeOK, Hooked, Drawn
<1>7. ASSUME NEW k \in Conns, HandlerReturns(k) PROVE ClientInv'
  BY <1>7, FailKeepsInv, BrokerAssumption DEF HandlerReturns, ClientInv, ClientTypeOK, Hooked
<1>8. ASSUME NEW v \in Versions, Announce(v) PROVE ClientInv'
  BY <1>8, AnnouncedKeepsInv, SpendKeepsType DEF Announce, ClientInv, ClientTypeOK
<1>9. ASSUME NEW i \in Instances, Unlink(i) PROVE ClientInv'
  <2>1. due' \in [Clients -> 0 .. MaxVersion]
    BY <1>9, BrokerAssumption DEF Unlink, ClientInv, ClientTypeOK
  <2> QED
    BY <1>9, <2>1, QuietKeepsInv, SpendKeepsType DEF Unlink, ClientInv, ClientTypeOK
<1>10. ASSUME NEW i \in Instances, Die(i) PROVE ClientInv'
  <2>1. \A c \in Clients : cur[c] \in ConnsAt(i) => hook[c] = "open"
    BY BrokerAssumption DEF ClientInv, Hooked, ConnsAt
  <2> QED
    BY <1>10, <2>1, FailKeepsInv, SpendKeepsType DEF Die, ClientInv, ClientTypeOK
<1>11. ASSUME UNCHANGED <<clientVars, historyVars>>, left' \in 0 .. MaxEvents PROVE ClientInv'
  BY <1>11, QuietKeepsInv DEF historyVars, ClientInv, ClientTypeOK
<1>12. ASSUME NEW i \in Instances, Stop(i) PROVE ClientInv'
  BY <1>12, <1>11, SpendKeepsType DEF Stop, ClientInv, ClientTypeOK
<1>13. CASE UNCHANGED <<clientVars, historyVars, left>>
  BY <1>11, <1>13 DEF ClientInv, ClientTypeOK
<1> QED
  BY <1>1, <1>2, <1>3, <1>4, <1>5, <1>6, <1>7, <1>8, <1>9, <1>10, <1>12, <1>13
     DEF Next, vars, Register, Change, Relink, Stopped, StartAgain

\* Type correctness: no channel holds more than its capacity, the hook never
\* counts past its limit (sse/broker.go:163-172, hooks/useSSE.ts:64-73).
THEOREM LiveTypeCorrect == Spec => []TypeOK
<1>1. Init => BrokerInv /\ ClientInv
  BY InitInv, ClientInit DEF Init
<1>2. BrokerInv /\ ClientInv /\ [Next]_vars => BrokerInv' /\ ClientInv'
  BY NextIsBrokerStep, StepKeepsInv, StutterKeepsInv, StepKeepsClientInv
<1>3. BrokerInv /\ ClientInv => TypeOK
  BY DEF BrokerInv, ClientInv, TypeOK
<1> QED
  BY <1>1, <1>2, <1>3, PTL DEF Spec

-----------------------------------------------------------------------------
(* Delivery.                                                               *)

LEMMA DeliveryInit == Init => DeliveryInv
BY BrokerAssumption, LiveAssumption
   DEF Init, BrokerInit, DeliveryInv, Fresh, Served, NoFetch, Asked, NoEdit

LEMMA DeliveryImplies == ClientInv /\ DeliveryInv => NothingAnnouncedIsLost
BY BrokerAssumption
   DEF ClientInv, ClientTypeOK, DeliveryInv, Served, NothingAnnouncedIsLost, Grid

LEMMA VersionGrows ==
    BrokerInv /\ [Next]_vars => version \in Nat /\ version' \in Nat /\ version <= version'
<1> SUFFICES ASSUME BrokerInv, [Next]_vars
             PROVE  version \in Nat /\ version' \in Nat /\ version <= version'
  OBVIOUS
<1>1. version \in Nat
  BY BrokerAssumption DEF BrokerInv, BrokerTypeOK
<1>2. CASE UNCHANGED brokerVars
  BY <1>1, <1>2 DEF brokerVars
<1>3. CASE BrokerStep
  <2>1. ASSUME NEW i, Write(i) PROVE version' = version + 1
    BY <2>1 DEF Write
  <2>2. ASSUME NEW i, \/ Receive(i) \/ LinkBreaks(i) \/ Link(i) \/ Shutdown(i) \/ Drained(i)
                     \/ Exit(i) \/ Restart(i)
        PROVE  version' = version
    BY <2>2 DEF Receive, LinkBreaks, Link, Shutdown, Drained, Close, Exit, Restart
  <2>3. ASSUME NEW v, NEW took, Publish(v) \/ LocalDone(v) \/ PublishFails(v, took)
        PROVE  version' = version
    BY <2>3 DEF Publish, LocalDone, PublishFails
  <2>4. ASSUME NEW b, NEW k, \/ Send(b, k) \/ Subscribe(k) \/ Forward(k) \/ Return(k)
                            \/ Tell(k, b)
        PROVE  version' = version
    BY <2>4 DEF Send, Subscribe, Forward, Return, Tell
  <2> QED
    BY <1>1, <1>3, <2>1, <2>2, <2>3, <2>4 DEF BrokerStep
<1> QED
  BY <1>2, <1>3, NextIsBrokerStep

\* Steps that change no grid, no update, and requests only to ask again.
LEMMA FreshFrame ==
    ASSUME ClientTypeOK, Fresh, UNCHANGED <<cache, edits>>,
           version \in Nat, version' \in Nat, version <= version',
           \A c \in Clients : fetch'[c] = fetch[c] \/ fetch'[c].st # "read"
    PROVE  Fresh'
<1>1. \A c \in Clients : cache[c].ver \in Nat /\ fetch[c].ver \in Nat
  BY BrokerAssumption DEF ClientTypeOK, Grid, Fetch
<1>2. \A c \in Clients, m \in Edits : edits[c][m].old.ver \in Nat
  <2> SUFFICES ASSUME NEW c \in Clients, NEW m \in Edits PROVE edits[c][m].old.ver \in Nat
    OBVIOUS
  <2>1. edits[c][m] \in Edit
    BY DEF ClientTypeOK
  <2> QED
    BY <2>1, BrokerAssumption DEF Edit, Grid
<1> QED
  BY <1>1, <1>2 DEF Fresh

\* A step of one update.
LEMMA EditFrame ==
    ASSUME ClientTypeOK, Fresh, version \in Nat, version' \in Nat, version <= version',
           NEW c \in Clients, NEW m \in Edits, NEW g, NEW e,
           cache' = [cache EXCEPT ![c] = g], g.ver \in Nat, g.ver <= version,
           edits' = [edits EXCEPT ![c][m] = e], e.old.ver \in Nat, e.old.ver <= version,
           \A d \in Clients \ {c} : fetch'[d] = fetch[d],
           fetch'[c].st # "read" \/ (fetch'[c] = fetch[c] /\ g.ver = cache[c].ver)
    PROVE  Fresh'
<1>1. \A d \in Clients : /\ fetch[d].ver \in Nat
                         /\ cache'[d].ver \in Nat /\ cache'[d].ver <= version
                         /\ fetch'[d].st = "read" => /\ fetch'[d] = fetch[d]
                                                     /\ cache'[d].ver = cache[d].ver
  BY BrokerAssumption DEF ClientTypeOK, Fresh, Grid, Fetch
<1>2. \A d \in Clients, n \in Edits : /\ edits'[d][n].old.ver \in Nat
                                      /\ edits'[d][n].old.ver <= version
  <2> SUFFICES ASSUME NEW d \in Clients, NEW n \in Edits
               PROVE  edits'[d][n].old.ver \in Nat /\ edits'[d][n].old.ver <= version
    OBVIOUS
  <2>1. edits[d][n] \in Edit
    BY DEF ClientTypeOK
  <2>2. edits[d][n].old.ver \in Nat
    BY <2>1, BrokerAssumption DEF Edit, Grid
  <2> QED
    BY <2>2 DEF ClientTypeOK, Fresh
<1> QED
  BY <1>1, <1>2 DEF Fresh

\* A step of the tab's side: what was in transit still is.
LEMMA ClientSide ==
    ASSUME NEW c \in Clients, Served(c),
           UNCHANGED <<feed, conn, cur[c], cast, chan, due[c], missed[c]>>,
           due[c] \in Nat, version \in Nat, version' \in Nat, version <= version',
           \/ due[c] <= cache'[c].ver
           \/ due[c] <= missed[c]
           \/ Coming(c, due[c])'
           \/ ~(due[c] <= cache[c].ver) /\ ~Coming(c, due[c])
    PROVE  Served(c)'
BY DEF Served, Listening, OnItsWay, InTransit

\* A step of the broker's side: the tab keeps what it has.
LEMMA BrokerSide ==
    ASSUME NEW c \in Clients, Served(c),
           UNCHANGED <<cache[c], fetch[c], edits[c], due[c], missed[c]>>,
           due[c] \in Nat, version \in Nat, version' \in Nat, version <= version',
           Listening(c) => Listening(c)' /\ (InTransit(c) => InTransit(c)')
    PROVE  Served(c)'
BY DEF Served, OnItsWay, Coming

LEMMA StepKeepsFresh == BrokerInv /\ ClientInv /\ DeliveryInv /\ [Next]_vars => Fresh'
<1> SUFFICES ASSUME BrokerInv, ClientInv, DeliveryInv, [Next]_vars PROVE Fresh'
  OBVIOUS
<1>0. ClientTypeOK /\ Fresh /\ version \in Nat /\ version' \in Nat /\ version <= version'
  BY VersionGrows DEF ClientInv, DeliveryInv
<1>1. \A c \in Clients : /\ cache[c] \in Grid /\ cache[c].ver \in Nat
                         /\ fetch[c] \in Fetch /\ fetch[c].ver \in Nat
  BY <1>0, BrokerAssumption DEF ClientTypeOK, Grid, Fetch
<1>2. \A c \in Clients, m \in Edits : edits[c][m].old.ver \in Nat
  <2> SUFFICES ASSUME NEW c \in Clients, NEW m \in Edits PROVE edits[c][m].old.ver \in Nat
    OBVIOUS
  <2>1. edits[c][m] \in Edit
    BY <1>0 DEF ClientTypeOK
  <2> QED
    BY <2>1, BrokerAssumption DEF Edit, Grid
<1>3. ASSUME NEW c \in Clients, FetchRead(c) \/ FetchDone(c) PROVE Fresh'
  <2>1. UNCHANGED <<version, edits>>
    BY <1>3 DEF FetchRead, FetchDone, brokerVars
  <2>2. CASE FetchRead(c)
    <3>1. /\ cache' = cache /\ fetch'[c].ver = version
          /\ \A d \in Clients \ {c} : fetch'[d] = fetch[d]
      BY <1>0, <2>2 DEF FetchRead, ClientTypeOK
    <3> QED
      BY <1>0, <2>1, <3>1 DEF Fresh
  <2>3. CASE FetchDone(c)
    <3>1. /\ fetch[c].st = "read" /\ cache'[c].ver = fetch[c].ver /\ fetch'[c].st # "read"
          /\ \A d \in Clients \ {c} : UNCHANGED <<cache[d], fetch[d]>>
      BY <1>0, <2>3 DEF FetchDone, ClientTypeOK, NoFetch
    <3> QED
      BY <1>0, <2>1, <3>1 DEF Fresh
  <2> QED
    BY <1>3, <2>2, <2>3
<1>4. ASSUME NEW c \in Clients, NEW m \in Edits,
             EditStart(c, m) \/ EditGuess(c, m) \/ EditApplied(c, m) \/ EditAnswered(c, m)
      PROVE  Fresh'
  <2>0. edits[c][m] \in Edit /\ edits[c][m].old.ver <= version /\ cache[c].ver <= version
    BY <1>0 DEF ClientTypeOK, Fresh
  <2> DEFINE started == [edits[c][m] EXCEPT !.st = "started"]
             guessed == [st |-> "sent", ver |-> 0, old |-> cache[c]]
             applied == [edits[c][m] EXCEPT !.st = "applied", !.ver = version']
             drawn   == [cache[c] EXCEPT !.guess = TRUE]
  <2>1. started.old = edits[c][m].old /\ applied.old = edits[c][m].old
    BY <2>0 DEF Edit
  <2>2. drawn.ver = cache[c].ver
    BY <1>1 DEF Grid
  <2>3. CASE EditStart(c, m)
    <3>1. fetch'[c].st # "read" /\ \A d \in Clients \ {c} : fetch'[d] = fetch[d]
      BY <1>0, <2>3 DEF EditStart, NoFetch, ClientTypeOK
    <3>2. edits' = [edits EXCEPT ![c][m] = started] /\ cache' = [cache EXCEPT ![c] = cache[c]]
      BY <1>0, <2>3 DEF EditStart, ClientTypeOK
    <3> HIDE DEF started
    <3> QED
      BY <1>0, <1>1, <1>2, <2>0, <2>1, <3>1, <3>2, EditFrame
  <2>4. CASE EditGuess(c, m)
    <3>1. edits' = [edits EXCEPT ![c][m] = guessed] /\ cache' = [cache EXCEPT ![c] = drawn]
      BY <1>0, <2>4 DEF EditGuess, ClientTypeOK
    <3>2. guessed.old.ver = cache[c].ver /\ fetch' = fetch
      BY <2>4 DEF EditGuess
    <3> HIDE DEF guessed, drawn
    <3> QED
      BY <1>0, <1>1, <2>0, <2>2, <3>1, <3>2, EditFrame
  <2>5. CASE EditApplied(c, m)
    <3>1. edits' = [edits EXCEPT ![c][m] = applied] /\ cache' = [cache EXCEPT ![c] = cache[c]]
      BY <1>0, <2>5 DEF EditApplied, ClientTypeOK
    <3>2. fetch' = fetch
      BY <2>5 DEF EditApplied
    <3> HIDE DEF applied
    <3> QED
      BY <1>0, <1>1, <1>2, <2>0, <2>1, <3>1, <3>2, EditFrame
  <2>6. CASE EditAnswered(c, m)
    <3>1. fetch'[c].st # "read" /\ \A d \in Clients \ {c} : fetch'[d] = fetch[d]
      <4>1. loaded[c]
        BY <2>6 DEF EditAnswered, EditError, EditSuccess, NoEdit, ClientInv, Drawn
      <4> QED
        BY <1>0, <2>6, <4>1
           DEF EditAnswered, EditError, EditSuccess, Invalidate, Joins, Asked, ClientTypeOK
    <3>2. /\ edits' = [edits EXCEPT ![c][m] = NoEdit]
          /\ NoEdit.old.ver \in Nat /\ NoEdit.old.ver <= version
      BY <1>0, <2>6 DEF EditAnswered, EditError, EditSuccess, NoEdit
    <3>3. \/ cache' = [cache EXCEPT ![c] = cache[c]]
          \/ cache' = [cache EXCEPT ![c] = edits[c][m].old]
      BY <1>0, <2>6 DEF EditAnswered, EditError, EditSuccess, ClientTypeOK
    <3>4. CASE cache' = [cache EXCEPT ![c] = cache[c]]
      BY <1>0, <1>1, <2>0, <3>1, <3>2, <3>4, EditFrame
    <3>5. CASE cache' = [cache EXCEPT ![c] = edits[c][m].old]
      BY <1>0, <1>2, <2>0, <3>1, <3>2, <3>5, EditFrame
    <3> QED
      BY <3>3, <3>4, <3>5
  <2> QED
    BY <1>4, <2>3, <2>4, <2>5, <2>6
<1>5. ASSUME UNCHANGED <<cache, edits>>,
             \A c \in Clients : fetch'[c] = fetch[c] \/ fetch'[c].st # "read"
      PROVE  Fresh'
  BY <1>0, <1>5, FreshFrame
<1>6. ASSUME NEW c \in Clients, FetchFails(c) \/ Drop(c) \/ Retry(c) PROVE Fresh'
  BY <1>0, <1>5, <1>6 DEF FetchFails, Drop, Fail, Retry, Failed, ClientTypeOK
<1>7. ASSUME NEW c \in Clients, NEW k \in Conns, NEW i \in Instances, Open(c, k, i) PROVE Fresh'
  BY <1>5, <1>7 DEF Open
<1>8. ASSUME NEW k \in Conns, Message(k) \/ HandlerReturns(k) PROVE Fresh'
  BY <1>5, <1>8 DEF Message, Invalidate, HandlerReturns, Fail, Asked
<1>9. ASSUME NEW v \in Versions, Announce(v) PROVE Fresh'
  BY <1>5, <1>9 DEF Announce, Announced, clientVars
<1>10. ASSUME NEW i \in Instances, Unlink(i) \/ Stop(i) \/ Die(i) PROVE Fresh'
  BY <1>5, <1>10 DEF Unlink, Stop, Die, Fail, clientVars
<1>11. CASE UNCHANGED <<clientVars, historyVars, left>>
  BY <1>5, <1>11 DEF clientVars
<1> QED
  BY <1>3, <1>4, <1>6, <1>7, <1>8, <1>9, <1>10, <1>11
     DEF Next, vars, Register, Change, Relink, Stopped, StartAgain

LEMMA StepKeepsServed ==
    ASSUME BrokerInv, ClientInv, DeliveryInv, [Next]_vars, NEW c \in Clients
    PROVE  Served(c)'
<1>0. /\ Served(c) /\ due[c] \in Nat /\ due[c] <= version
      /\ version \in Nat /\ version' \in Nat /\ version <= version' /\ missed[c] \in Nat
  BY VersionGrows, BrokerAssumption DEF ClientInv, ClientTypeOK, DeliveryInv, Served
<1>1. Listening(c) => /\ cur[c] \in registered /\ cur[c] \in Conns
                      /\ conn[cur[c]].at \in Instances
                      /\ cur[c] \in ConnsAt(conn[cur[c]].at)
  BY BrokerAssumption
     DEF Listening, BrokerInv, BrokerTypeOK, Registered, ClientInv, ClientTypeOK, Conn, NoConn,
         ConnsAt
<1>2. /\ cache[c] \in Grid /\ cache[c].ver \in Nat /\ cache[c].ver <= version
      /\ fetch[c].ver \in Nat
      /\ fetch[c].st = "read" => cache[c].ver <= fetch[c].ver
  BY BrokerAssumption DEF ClientInv, ClientTypeOK, DeliveryInv, Fresh, Grid, Fetch
<1> USE <1>0
\* The tabs.
<1>3. ASSUME NEW d \in Clients, FetchRead(d) \/ FetchDone(d) \/ FetchFails(d) PROVE Served(c)'
  <2>1. CASE c = d
    <3>1. UNCHANGED <<feed, conn, cur, cast, chan, due, missed, edits>>
      BY <1>3 DEF FetchRead, FetchDone, FetchFails, brokerVars, historyVars
    <3>2. CASE FetchRead(d)
      BY <2>1, <3>1, <3>2, ClientSide DEF FetchRead, Coming, ClientInv, ClientTypeOK
    <3>3. CASE FetchDone(d)
      <4>1. fetch[c].st = "read" /\ cache'[c].ver = fetch[c].ver
        BY <2>1, <3>3 DEF FetchDone, ClientInv, ClientTypeOK
      <4> QED
        BY <1>2, <3>1, <4>1, ClientSide DEF Coming
    <3>4. CASE FetchFails(d)
      BY <2>1, <3>1, <3>4, ClientSide DEF FetchFails, Failed, Coming, ClientInv, ClientTypeOK
    <3> QED
      BY <1>3, <3>2, <3>3, <3>4
  <2>2. CASE c # d
    <3>1. UNCHANGED <<cache[c], fetch[c], edits>>
      BY <1>3, <2>2 DEF FetchRead, FetchDone, FetchFails, ClientInv, ClientTypeOK
    <3> QED
      BY <1>3, <3>1, ClientSide
         DEF FetchRead, FetchDone, FetchFails, brokerVars, historyVars, Coming
  <2> QED
    BY <2>1, <2>2
<1>4. ASSUME NEW d \in Clients, Retry(d) PROVE Served(c)'
  BY <1>4, BrokerSide DEF Retry, brokerVars, historyVars, Listening, InTransit
<1>5. ASSUME NEW d \in Clients, NEW m \in Edits,
             EditStart(d, m) \/ EditGuess(d, m) \/ EditApplied(d, m) \/ EditAnswered(d, m)
      PROVE  Served(c)'
  <2>1. /\ UNCHANGED <<feed, conn, cur, cast, chan, due>>
        /\ c # d => missed'[c] = missed[c]
    BY <1>5 DEF Invalidate, ClientInv, ClientTypeOK, EditStart, EditGuess, EditApplied, EditAnswered, EditError, EditSuccess, Write,
                brokerVars, historyVars
  <2>2. CASE c = d
    <3>1. edits[d][m] \in Edit
      BY DEF ClientInv, ClientTypeOK
    <3>2. loaded[d]
      BY <1>5 DEF EditStart, EditGuess, EditApplied, EditAnswered, EditError, EditSuccess, NoEdit,
                  ClientInv, Drawn
    <3>3. edits'[d][m].st # "none" \/ fetch'[d].st = "asked"
      BY <1>5, <3>1, <3>2
         DEF EditStart, EditGuess, EditApplied, EditAnswered, EditError, EditSuccess,
             Invalidate, Joins, Asked, ClientInv, ClientTypeOK, Edit
    <3> QED
      BY <2>1, <2>2, <3>3 DEF Served, Listening, OnItsWay, Coming
  <2>3. CASE c # d
    <3>1. UNCHANGED <<cache[c], fetch[c], edits[c]>>
      BY <1>5, <2>3 DEF EditStart, EditGuess, EditApplied, EditAnswered, EditError, EditSuccess,
                        Invalidate, ClientInv, ClientTypeOK
    <3> QED
      BY <2>1, <2>3, <3>1, ClientSide DEF Coming
  <2> QED
    BY <2>2, <2>3
\* Connections come and go.
<1>6. ASSUME NEW d \in Clients, NEW k \in Conns, NEW i \in Instances, Open(d, k, i)
      PROVE  Served(c)'
  <2>1. CASE c = d
    <3>1. ~Listening(c)
      BY <1>6, <2>1 DEF Open, Listening, ClientInv, Hooked
    <3> QED
      BY <1>6, <3>1 DEF Open, historyVars, Served
  <2>2. CASE c # d
    <3>1. UNCHANGED <<cache, fetch, edits, due, missed, feed, chan, cast, cur[c]>>
      BY <1>6, <2>2 DEF Open, Tell, historyVars, ClientInv, ClientTypeOK
    <3>2. Listening(c) => conn'[cur[c]] = conn[cur[c]]
      BY <1>1, <1>6 DEF Open, Tell, Listening, NoConn, BrokerInv, BrokerTypeOK
    <3> QED
      BY <3>1, <3>2, BrokerSide DEF Listening, InTransit
  <2> QED
    BY <2>1, <2>2
<1>7. ASSUME NEW lost \in SUBSET Clients, Fail(lost), c \in lost PROVE Served(c)'
  BY <1>7 DEF Fail, Served
<1>8. ASSUME NEW lost \in SUBSET Clients, Fail(lost), c \notin lost
      PROVE  UNCHANGED <<cur[c], cache, fetch, edits, due[c], missed[c]>>
  BY <1>8 DEF Fail
<1>9. ASSUME NEW d \in Clients, Drop(d) PROVE Served(c)'
  <2>1. Fail({d}) /\ {d} \in SUBSET Clients /\ UNCHANGED brokerVars
    BY <1>9 DEF Drop
  <2>2. CASE c # d
    BY <1>8, <2>1, <2>2, BrokerSide DEF brokerVars, Listening, InTransit
  <2> QED
    BY <1>7, <2>1, <2>2
<1>10. ASSUME NEW k \in Conns, HandlerReturns(k) PROVE Served(c)'
  <2> DEFINE lost == {d \in Clients : cur[d] = k}
  <2>1. Fail(lost) /\ lost \in SUBSET Clients /\ Return(k)
    BY <1>10 DEF HandlerReturns
  <2>2. CASE c \notin lost
    <3>1. UNCHANGED <<cur[c], cache, fetch, edits, due[c], missed[c]>>
      BY <1>8, <2>1, <2>2
    <3>2. UNCHANGED <<feed, cast>> /\ (Listening(c) => UNCHANGED <<conn[cur[c]], chan[cur[c]]>>)
      BY <1>1, <2>1, <2>2, <3>1 DEF Return, BrokerInv, BrokerTypeOK
    <3> QED
      BY <3>1, <3>2, BrokerSide DEF Listening, InTransit
  <2> QED
    BY <1>7, <2>1, <2>2
<1>11. ASSUME NEW i \in Instances, Die(i) PROVE Served(c)'
  <2> DEFINE lost == {d \in Clients : cur[d] \in ConnsAt(i)}
  <2>1. Fail(lost) /\ lost \in SUBSET Clients /\ Exit(i)
    BY <1>11 DEF Die
  <2>2. CASE c \notin lost
    <3>1. UNCHANGED <<cur[c], cache, fetch, edits, due[c], missed[c]>>
      BY <1>8, <2>1, <2>2
    <3>2. Listening(c) => UNCHANGED <<conn[cur[c]], chan[cur[c]]>> /\ conn[cur[c]].at # i
      BY <1>1, <2>1, <2>2, <3>1 DEF Exit, ConnsAt
    <3>3. Listening(c) => feed'[conn[cur[c]].at] = feed[conn[cur[c]].at]
      BY <1>1, <2>1, <3>2 DEF Exit, BrokerInv, BrokerTypeOK
    <3>4. \A b \in Casters : cur[c] \in cast[b] => cur[c] \in cast'[b]
      BY <2>1, <2>2 DEF Exit, BrokerInv, CastsStay
    <3> QED
      BY <3>1, <3>2, <3>3, <3>4, BrokerSide DEF Listening, InTransit
  <2> QED
    BY <1>7, <2>1, <2>2
<1>12. ASSUME NEW k \in Conns, Register(k) PROVE Served(c)'
  <2>1. Listening(c) => conn'[cur[c]] = conn[cur[c]]
    BY <1>1, <1>12 DEF Register, Subscribe, Listening, BrokerInv, BrokerTypeOK
  <2> QED
    BY <1>12, <2>1, BrokerSide
       DEF Register, Subscribe, clientVars, historyVars, Listening, InTransit
\* Messages.
<1>13. ASSUME NEW k \in Conns, Message(k) PROVE Served(c)'
  <2>1. UNCHANGED <<conn, cur, cache, edits, due, feed, cast>>
    BY <1>13 DEF Message, Forward
  <2>2. CASE cur[c] = k
    <3>1. /\ fetch'[c] = IF Joins(c) THEN fetch[c] ELSE Asked
          /\ missed'[c] = Swallowed(c)
      BY <1>13, <2>2 DEF Message, Invalidate
    <3>2. Coming(c, due[c])' \/ due[c] <= missed'[c]
      BY <1>2, <2>1, <3>1 DEF Joins, Swallowed, Asked, Coming
    <3> QED
      BY <2>1, <3>2 DEF Served, Listening, OnItsWay
  <2>3. CASE cur[c] # k
    <3>1. UNCHANGED <<fetch[c], missed[c]>>
      BY <1>13, <2>3 DEF Message, Invalidate, ClientInv, ClientTypeOK
    <3> QED
      BY <1>1, <1>13, <2>1, <2>3, <3>1, BrokerSide
         DEF Message, Forward, Listening, InTransit, BrokerInv, BrokerTypeOK
  <2> QED
    BY <2>2, <2>3
<1>14. ASSUME NEW i \in Instances, Receive(i), UNCHANGED <<clientVars, historyVars>>
       PROVE  Served(c)'
  <2>1. Listening(c) /\ InTransit(c) => InTransit(c)'
    BY <1>1, <1>14 DEF Receive, clientVars, InTransit, BrokerInv, BrokerTypeOK, Casters
  <2> QED
    BY <1>14, <2>1, BrokerSide DEF Receive, clientVars, historyVars, Listening
<1>15. ASSUME NEW b \in Casters, NEW k \in Conns, Send(b, k), UNCHANGED <<clientVars, historyVars>>
       PROVE  Served(c)'
  <2>1. Listening(c) /\ InTransit(c) => InTransit(c)'
    BY <1>1, <1>15, BrokerAssumption
       DEF Send, clientVars, InTransit, BrokerInv, BrokerTypeOK, Casters
  <2> QED
    BY <1>15, <2>1, BrokerSide DEF Send, clientVars, historyVars, Listening
<1>16. ASSUME NEW v \in Versions, LocalDone(v), UNCHANGED <<clientVars, historyVars>>
       PROVE  Served(c)'
  BY <1>16, BrokerSide DEF LocalDone, clientVars, historyVars, Listening, InTransit
<1>17. ASSUME NEW v \in Versions, Publish(v), Announced(v, linked) PROVE Served(c)'
  <2> DEFINE at == conn[cur[c]].at
  <2>1. /\ UNCHANGED <<cur, cache, fetch, edits, missed, version, conn, cast, chan>>
        /\ v \in Nat /\ v <= version
    BY <1>17 DEF Publish, Announced, clientVars, BrokerInv, Unwritten, Versions
  <2>2. Listening(c) => feed'[at] = IF at \in linked THEN feed[at] + 1 ELSE feed[at]
    BY <1>1, <1>17 DEF Publish, Deliver
  <2>5. /\ Listening(c) /\ at \in linked => InTransit(c)'
        /\ Listening(c) /\ InTransit(c) => InTransit(c)'
    <3>1. Listening(c) => feed[at] \in Nat
      BY <1>1 DEF BrokerInv, BrokerTypeOK
    <3> QED
      BY <2>1, <2>2, <3>1 DEF InTransit
  <2>3. CASE Listening(c) /\ at \in linked
    <3>1. due'[c] = Later(due[c], v)
      BY <1>17, <2>3 DEF Announced
    <3> QED
      BY <2>1, <2>3, <2>5, <3>1 DEF Later, Served, Listening, OnItsWay
  <2>4. CASE ~(Listening(c) /\ at \in linked)
    <3>1. due'[c] = due[c]
      BY <1>17, <2>4 DEF Announced
    <3> QED
      BY <2>1, <2>5, <3>1, BrokerSide DEF Listening
  <2> QED
    BY <2>3, <2>4
<1>18. ASSUME NEW v \in Versions, NEW took \in BOOLEAN, PublishFails(v, took),
              Announced(v, {announcer[v].at} \cup (IF took THEN linked ELSE {}))
       PROVE  Served(c)'
  <2> DEFINE at == conn[cur[c]].at
             insts == {announcer[v].at} \cup (IF took THEN linked ELSE {})
  <2>1. /\ UNCHANGED <<cur, cache, fetch, edits, missed, version, conn, chan>>
        /\ v \in Nat /\ v <= version
    BY <1>18 DEF PublishFails, Announced, clientVars, BrokerInv, Unwritten, Versions
  <2>2. Listening(c) => feed'[at] = IF took /\ at \in linked THEN feed[at] + 1 ELSE feed[at]
    BY <1>1, <1>18 DEF PublishFails, Deliver
  <2>3. /\ cast'[v] = registered \cap ConnsAt(announcer[v].at)
        /\ \A b \in Casters : cast[b] \subseteq cast'[b]
    BY <1>18 DEF PublishFails, BrokerInv, BrokerTypeOK, CastsStay, Casters
  <2>6. /\ Listening(c) /\ at \in insts => InTransit(c)'
        /\ Listening(c) /\ InTransit(c) => InTransit(c)'
    <3>1. Listening(c) => feed[at] \in Nat
      BY <1>1 DEF BrokerInv, BrokerTypeOK
    <3>2. Listening(c) /\ at = announcer[v].at => InTransit(c)'
      BY <1>1, <2>1, <2>3 DEF InTransit, Casters
    <3>3. Listening(c) /\ took /\ at \in linked => InTransit(c)'
      BY <2>1, <2>2, <3>1 DEF InTransit
    <3>4. Listening(c) /\ InTransit(c) => InTransit(c)'
      BY <2>1, <2>2, <2>3, <3>1 DEF InTransit
    <3> QED
      BY <3>2, <3>3, <3>4
  <2>4. CASE Listening(c) /\ at \in insts
    <3>1. due'[c] = Later(due[c], v)
      BY <1>18, <2>4 DEF Announced
    <3> QED
      BY <2>1, <2>4, <2>6, <3>1 DEF Later, Served, Listening, OnItsWay
  <2>5. CASE ~(Listening(c) /\ at \in insts)
    <3>1. due'[c] = due[c]
      BY <1>18, <2>5 DEF Announced
    <3> QED
      BY <2>1, <2>6, <3>1, BrokerSide DEF Listening
  <2> QED
    BY <2>4, <2>5
\* Servers.
<1>19. ASSUME NEW i \in Instances, Change(i) \/ Relink(i) \/ Stop(i) \/ StartAgain(i)
       PROVE  Served(c)'
  BY <1>19, BrokerSide
     DEF Change, Write, Relink, Link, Stop, Shutdown, StartAgain, Restart, clientVars,
         historyVars, Listening, InTransit
<1>20. ASSUME NEW i \in Instances, Unlink(i) PROVE Served(c)'
  <2>1. CASE due'[c] = 0
    BY <2>1 DEF Served
  <2>2. CASE due'[c] # 0
    <3>1. UNCHANGED <<clientVars, due[c], missed, conn, cast, chan>>
      BY <1>20, <2>2 DEF Unlink, LinkBreaks
    <3>2. Listening(c) /\ feed[conn[cur[c]].at] > 0 => feed'[conn[cur[c]].at] > 0
      <4>1. PICK n \in 0 .. feed[i] : feed' = [feed EXCEPT ![i] = n]
        BY <1>20 DEF Unlink, LinkBreaks
      <4> QED
        BY <1>1, <1>20, <2>2, <4>1 DEF Unlink, BrokerInv, BrokerTypeOK
    <3> QED
      BY <3>1, <3>2, BrokerSide DEF clientVars, Listening, InTransit
  <2> QED
    BY <2>1, <2>2
<1>21. ASSUME NEW i \in Instances, Stopped(i) PROVE Served(c)'
  <2>1. Listening(c) => feed'[conn[cur[c]].at] = feed[conn[cur[c]].at]
    BY <1>1, <1>21 DEF Stopped, Drained, Close, BrokerInv, BrokerTypeOK
  <2> QED
    BY <1>21, <2>1, BrokerSide
       DEF Stopped, Drained, Close, clientVars, historyVars, Listening, InTransit
<1>22. CASE UNCHANGED vars
  BY <1>22, BrokerSide DEF vars, brokerVars, clientVars, historyVars, Listening, InTransit
<1>23. ASSUME NEW v \in Versions, Announce(v) PROVE Served(c)'
  BY <1>17, <1>18, <1>23 DEF Announce
<1>24. ASSUME Broadcasting, UNCHANGED <<clientVars, historyVars, left>> PROVE Served(c)'
  BY <1>14, <1>15, <1>16, <1>24 DEF Broadcasting
<1> QED
  BY <1>3, <1>4, <1>5, <1>6, <1>9, <1>10, <1>11, <1>12, <1>13, <1>19, <1>20, <1>21, <1>22,
     <1>23, <1>24 DEF Next

\* What is announced to a registered tab reaches it, but for what its first load
\* has swallowed: full channels, cancelled requests, roll-backs, failing publishes
\* and crashes of other instances take nothing away (sse/broker.go:159-174,
\* hooks/useSSE.ts:34-62, useShifts.ts:60-91).
THEOREM NothingIsLost == Spec => []NothingAnnouncedIsLost
<1>1. Init => BrokerInv /\ ClientInv /\ DeliveryInv
  BY InitInv, ClientInit, DeliveryInit DEF Init
<1>2. BrokerInv /\ ClientInv /\ DeliveryInv /\ [Next]_vars
      => BrokerInv' /\ ClientInv' /\ DeliveryInv'
  BY NextIsBrokerStep, StepKeepsInv, StutterKeepsInv, StepKeepsClientInv, StepKeepsFresh,
     StepKeepsServed DEF DeliveryInv
<1> QED
  BY <1>1, <1>2, DeliveryImplies, PTL DEF Spec

-----------------------------------------------------------------------------
(* Guesses.                                                                *)

\* What a tab has drawn into its grid, or brought back with a roll-back, is
\* replaced when its updates have ended (hooks/useShifts.ts:65-89).
THEOREM GuessesGetReplaced == Spec => []GuessesAreReplaced
<1>1. Init => GuessesAreReplaced
  BY DEF Init, GuessesAreReplaced
<1>2. ASSUME ClientInv, GuessesAreReplaced, [Next]_vars PROVE GuessesAreReplaced'
  <2>1. ASSUME NEW c \in Clients, FetchRead(c) \/ FetchDone(c) \/ FetchFails(c)
        PROVE  GuessesAreReplaced'
    <3>1. UNCHANGED edits /\ \A d \in Clients \ {c} : UNCHANGED <<cache[d], fetch[d]>>
      BY <1>2, <2>1 DEF FetchRead, FetchDone, FetchFails, ClientInv, ClientTypeOK
    <3>2. ~cache'[c].guess \/ fetch'[c] # NoFetch
      BY <1>2, <2>1 DEF FetchRead, FetchDone, FetchFails, NoFetch, Failed, ClientInv, ClientTypeOK
    <3> QED
      BY <1>2, <3>1, <3>2 DEF GuessesAreReplaced
  <2>2. ASSUME NEW c \in Clients, NEW m \in Edits, EditStart(c, m)
        PROVE  GuessesAreReplaced'
    <3>1. edits'[c][m] # NoEdit /\ \A d \in Clients \ {c} : UNCHANGED <<edits[d], fetch[d]>>
      <4>1. edits[c][m] \in Edit
        BY <1>2 DEF ClientInv, ClientTypeOK
      <4> QED
        BY <1>2, <2>2, <4>1 DEF EditStart, NoEdit, Edit, ClientInv, ClientTypeOK
    <3> QED
      BY <1>2, <2>2, <3>1 DEF EditStart, GuessesAreReplaced
  <2>3. ASSUME NEW c \in Clients, NEW m \in Edits, EditGuess(c, m) \/ EditApplied(c, m)
        PROVE  GuessesAreReplaced'
    <3>1. edits'[c][m] # NoEdit /\ \A d \in Clients \ {c} : UNCHANGED <<edits[d], cache[d]>>
      <4>1. edits[c][m] \in Edit
        BY <1>2 DEF ClientInv, ClientTypeOK
      <4> QED
        BY <1>2, <2>3, <4>1
           DEF EditGuess, EditApplied, NoEdit, Edit, ClientInv, ClientTypeOK
    <3> QED
      BY <1>2, <2>3, <3>1 DEF EditGuess, EditApplied, GuessesAreReplaced
  <2>4. ASSUME NEW c \in Clients, NEW m \in Edits, EditAnswered(c, m) PROVE GuessesAreReplaced'
    <3>1. /\ fetch'[c] # NoFetch
          /\ \A d \in Clients \ {c} : UNCHANGED <<edits[d], cache[d], fetch[d]>>
      BY <1>2, <2>4 DEF EditAnswered, EditError, EditSuccess, Invalidate, Joins, Asked, NoFetch,
                        ClientInv, ClientTypeOK
    <3> QED
      BY <1>2, <3>1 DEF GuessesAreReplaced
  <2>5. ASSUME UNCHANGED <<cache, edits>>,
               \A c \in Clients : fetch'[c] = fetch[c] \/ fetch'[c] = Asked
        PROVE  GuessesAreReplaced'
    BY <1>2, <2>5 DEF GuessesAreReplaced, Asked, NoFetch
  <2>6. ASSUME NEW c \in Clients, Drop(c) \/ Retry(c) PROVE GuessesAreReplaced'
    BY <2>5, <2>6 DEF Drop, Fail, Retry
  <2>7. ASSUME NEW c \in Clients, NEW k \in Conns, NEW i \in Instances, Open(c, k, i)
        PROVE  GuessesAreReplaced'
    BY <2>5, <2>7 DEF Open
  <2>8. ASSUME NEW k \in Conns, Message(k) \/ HandlerReturns(k) PROVE GuessesAreReplaced'
    BY <2>5, <2>8 DEF Message, Invalidate, HandlerReturns, Fail
  <2>9. ASSUME NEW v \in Versions, Announce(v) PROVE GuessesAreReplaced'
    BY <2>5, <2>9 DEF Announce, Announced, clientVars
  <2>10. ASSUME NEW i \in Instances, Unlink(i) \/ Stop(i) \/ Die(i) PROVE GuessesAreReplaced'
    BY <2>5, <2>10 DEF Unlink, Stop, Die, Fail, clientVars
  <2>11. CASE UNCHANGED <<clientVars, historyVars, left>>
    BY <2>5, <2>11 DEF clientVars
  <2> QED
    BY <1>2, <2>1, <2>2, <2>3, <2>4, <2>6, <2>7, <2>8, <2>9, <2>10, <2>11
       DEF Next, vars, Register, Change, Relink, Stopped, StartAgain
<1>3. Init => BrokerInv /\ ClientInv
  BY InitInv, ClientInit DEF Init
<1>4. BrokerInv /\ ClientInv /\ [Next]_vars => BrokerInv' /\ ClientInv'
  BY NextIsBrokerStep, StepKeepsInv, StutterKeepsInv, StepKeepsClientInv
<1> QED
  BY <1>1, <1>2, <1>3, <1>4, PTL DEF Spec

=============================================================================
