------------------------------ MODULE LiveGrid ------------------------------
(***************************************************************************)
(* Open grids in browsers: the SSE hook (web/src/hooks/useSSE.ts), the     *)
(* query cache with the optimistic update (web/src/hooks/useShifts.ts) and *)
(* the broker they listen to.                                              *)
(*                                                                         *)
(* What a grid shows is the version of the tables it was read from, and    *)
(* whether an update not yet confirmed is drawn on top (a guess).          *)
(***************************************************************************)
EXTENDS SseBroker

CONSTANTS
    Clients,      \* browser tabs with the grid open
    Slow,         \* those among them that may stop reading their stream,
                  \*   asleep; they edit nothing and have their grid (bounds)
    Edits,        \* updates a tab can have in flight at once
    MaxRetries,   \* failures in a row after which the hook stops (20)
    Events,       \* what may happen of the following
    MaxEvents     \* bound: how often any of it happens

AllEvents == {"drop", "publishFails", "linkBreaks", "exit", "shutdown", "edit", "fetchFails"}

ASSUME LiveAssumption ==
    /\ Slow \subseteq Clients
    /\ Null \notin Clients
    /\ MaxRetries \in Nat \ {0}
    /\ Events \subseteq AllEvents
    /\ MaxEvents \in Nat

VARIABLES
    hook,      \* the state of useSSE
    retries,   \* failures in a row
    cur,       \* the connection of a tab's EventSource
    cache,     \* the grid as shown
    loaded,    \* whether there is a grid to show: the first request has been answered
    fetch,     \* the request for the grid in flight
    edits,     \* updates in flight
    due,       \* (history) latest change announced to the tab's instance
               \*   since the tab's connection was registered with the broker
    promised,  \* (history) latest change announced since the hook was open
    missed,    \* (history) due when the first request, already read without it,
               \*   swallowed a message; 0 once the grid is asked for again
    left       \* what is left of MaxEvents

clientVars  == <<hook, retries, cur, cache, loaded, fetch, edits>>
historyVars == <<due, promised, missed>>
vars        == <<brokerVars, clientVars, historyVars, left>>

Grid  == [ver : 0 .. MaxVersion, guess : BOOLEAN]
Fetch == [st : {"none", "asked", "read", "failed"}, ver : 0 .. MaxVersion]
Edit  == [st : {"none", "started", "sent", "applied"}, ver : 0 .. MaxVersion, old : Grid]

NoFetch == [st |-> "none", ver |-> 0]
Asked   == [st |-> "asked", ver |-> 0]
Failed  == [st |-> "failed", ver |-> 0]
NoEdit  == [st |-> "none", ver |-> 0, old |-> [ver |-> 0, guess |-> FALSE]]

\* A tab that opens the page asks for the grid and for the stream; a slow one
\* has had its grid for long and connects again.
Init ==
    /\ BrokerInit
    /\ hook = [c \in Clients |-> "connecting"]
    /\ retries = [c \in Clients |-> 0]
    /\ cur = [c \in Clients |-> Null]
    /\ cache = [c \in Clients |-> [ver |-> 0, guess |-> FALSE]]
    /\ loaded = [c \in Clients |-> c \in Slow]
    /\ fetch = [c \in Clients |-> IF c \in Slow THEN NoFetch ELSE Asked]
    /\ edits = [c \in Clients |-> [m \in Edits |-> NoEdit]]
    /\ due = [c \in Clients |-> 0]
    /\ promised = [c \in Clients |-> 0]
    /\ missed = [c \in Clients |-> 0]
    /\ left = MaxEvents

Spend(event) == event \in Events /\ left > 0 /\ left' = left - 1

Owned(k) == \E c \in Clients : cur[c] = k

Listening(c) == cur[c] # Null /\ conn[cur[c]].st = "subscribed"

-----------------------------------------------------------------------------
(* The cache.                                                              *)

\* An invalidation cancels the request in flight and sends a new one, but there
\* must be data already: during the first load it joins that request, and its
\* answer, however old, counts as the new one.
Joins(c) == ~loaded[c] /\ fetch[c].st \in {"asked", "read"}

\* What the joined request will not have, when it has read the tables before.
Swallowed(c) == IF Joins(c) /\ fetch[c].st = "read" /\ fetch[c].ver < due[c] THEN due[c] ELSE 0

\* invalidateQueries in the tabs.
Invalidate(tabs) ==
    /\ fetch' = [c \in Clients |-> IF c \in tabs /\ ~Joins(c) THEN Asked ELSE fetch[c]]
    /\ missed' = [c \in Clients |-> IF c \in tabs THEN Swallowed(c) ELSE missed[c]]

\* The server reads the tables.  It does so in several statements; "ver" is
\* the version that every one of them has at least seen.
FetchRead(c) ==
    /\ fetch[c] = Asked
    /\ fetch' = [fetch EXCEPT ![c] = [st |-> "read", ver |-> version]]
    /\ UNCHANGED <<brokerVars, hook, retries, cur, cache, loaded, edits, historyVars, left>>

FetchDone(c) ==
    /\ fetch[c].st = "read"
    /\ cache' = [cache EXCEPT ![c] = [ver |-> fetch[c].ver, guess |-> FALSE]]
    /\ loaded' = [loaded EXCEPT ![c] = TRUE]
    /\ fetch' = [fetch EXCEPT ![c] = NoFetch]
    /\ UNCHANGED <<brokerVars, hook, retries, cur, edits, historyVars, left>>

\* The request fails and so does its one retry: the old grid, if there is one,
\* stays, marked as failed and invalid.
FetchFails(c) ==
    /\ fetch[c].st \in {"asked", "read"}
    /\ Spend("fetchFails")
    /\ fetch' = [fetch EXCEPT ![c] = Failed]
    /\ UNCHANGED <<brokerVars, hook, retries, cur, cache, loaded, edits, historyVars>>

-----------------------------------------------------------------------------
(* useUpdateShift.                                                         *)

\* onMutate, in a grid that is there, waits for cancelQueries ...
EditStart(c, m) ==
    /\ edits[c][m] = NoEdit /\ c \notin Slow /\ loaded[c]
    /\ Spend("edit")
    /\ fetch' = [fetch EXCEPT ![c] = NoFetch]
    /\ edits' = [edits EXCEPT ![c][m].st = "started"]
    /\ UNCHANGED <<brokerVars, hook, retries, cur, cache, loaded, historyVars>>

\* ... and then remembers the grid and draws the update into it.
EditGuess(c, m) ==
    /\ edits[c][m].st = "started"
    /\ edits' = [edits EXCEPT ![c][m] = [st |-> "sent", ver |-> 0, old |-> cache[c]]]
    /\ cache' = [cache EXCEPT ![c].guess = TRUE]
    /\ UNCHANGED <<brokerVars, hook, retries, cur, loaded, fetch, historyVars, left>>

\* The server carries it out.
EditApplied(c, m) ==
    /\ edits[c][m].st = "sent"
    /\ \E i \in Instances : Write(i)
    /\ edits' = [edits EXCEPT ![c][m].st = "applied", ![c][m].ver = version']
    /\ UNCHANGED <<hook, retries, cur, cache, loaded, fetch, historyVars, left>>

\* Mutant: nothing is invalidated when an update has failed.
EditErrorKeeps(c, m) ==
    /\ edits[c][m].st \in {"sent", "applied"}
    /\ cache' = [cache EXCEPT ![c] = edits[c][m].old]
    /\ edits' = [edits EXCEPT ![c][m] = NoEdit]
    /\ UNCHANGED <<brokerVars, hook, retries, cur, loaded, fetch, historyVars, left>>

\* onError rolls back to the remembered grid (the server has refused, or its
\* answer is lost), onSettled invalidates.
EditError(c, m) ==
    /\ edits[c][m].st \in {"sent", "applied"}
    /\ cache' = [cache EXCEPT ![c] = edits[c][m].old]
    /\ Invalidate({c})
    /\ edits' = [edits EXCEPT ![c][m] = NoEdit]
    /\ UNCHANGED <<brokerVars, hook, retries, cur, loaded, due, promised, left>>

\* The handler replies after it has published; onSettled invalidates.
EditSuccess(c, m) ==
    /\ edits[c][m].st = "applied" /\ ~Announcing(edits[c][m].ver)
    /\ Invalidate({c})
    /\ edits' = [edits EXCEPT ![c][m] = NoEdit]
    /\ UNCHANGED <<brokerVars, hook, retries, cur, cache, loaded, due, promised, left>>

-----------------------------------------------------------------------------
(* useSSE.                                                                 *)

\* onerror of the tabs in "lost": the EventSource is closed, and another one
\* made after a delay unless there were too many failures in a row.
Fail(lost) ==
    /\ cur' = [c \in Clients |-> IF c \in lost THEN Null ELSE cur[c]]
    /\ retries' = [c \in Clients |-> IF c \in lost THEN retries[c] + 1 ELSE retries[c]]
    /\ hook' = [c \in Clients |-> IF c \notin lost THEN hook[c]
                                  ELSE IF retries[c] + 1 < MaxRetries THEN "waiting" ELSE "stopped"]
    /\ due' = [c \in Clients |-> IF c \in lost THEN 0 ELSE due[c]]
    /\ promised' = [c \in Clients |-> IF c \in lost THEN 0 ELSE promised[c]]
    /\ missed' = [c \in Clients |-> IF c \in lost THEN 0 ELSE missed[c]]
    /\ UNCHANGED <<cache, loaded, fetch, edits>>

\* The stream opens: onopen.
Open(c, k, i) ==
    /\ hook[c] = "connecting" /\ ~Owned(k)
    /\ Tell(k, i)
    /\ hook' = [hook EXCEPT ![c] = "open"]
    /\ retries' = [retries EXCEPT ![c] = 0]
    /\ cur' = [cur EXCEPT ![c] = k]
    /\ UNCHANGED <<cache, loaded, fetch, edits, historyVars, left>>

\* No connection, or the connection breaks; the server will notice later.
Drop(c) ==
    /\ hook[c] \in {"connecting", "open"}
    /\ Spend("drop")
    /\ Fail({c})
    /\ UNCHANGED brokerVars

Retry(c) ==
    /\ hook[c] = "waiting"
    /\ hook' = [hook EXCEPT ![c] = "connecting"]
    /\ UNCHANGED <<brokerVars, retries, cur, cache, loaded, fetch, edits, historyVars, left>>

\* Mutant: any request in flight is left to finish, not only the first.
MessageJoins(k) ==
    /\ Forward(k)
    /\ fetch' = [c \in Clients |-> IF cur[c] = k /\ fetch[c].st \in {"none", "failed"}
                                  THEN Asked ELSE fetch[c]]
    /\ missed' = [c \in Clients |-> IF cur[c] = k THEN Swallowed(c) ELSE missed[c]]
    /\ UNCHANGED <<hook, retries, cur, cache, loaded, edits, due, promised, left>>

\* onmessage: whatever the message says, the grid is invalidated.
Message(k) ==
    /\ Forward(k)
    /\ Invalidate({c \in Clients : cur[c] = k})
    /\ UNCHANGED <<hook, retries, cur, cache, loaded, edits, due, promised, left>>

\* The stream handler returns once its client is gone or its channel closed.
HandlerReturns(k) ==
    /\ ~Owned(k) \/ k \notin registered
    /\ Return(k)
    /\ Fail({c \in Clients : cur[c] = k})
    /\ UNCHANGED left

-----------------------------------------------------------------------------
(* Announcements, with their history, and the servers.                     *)

Later(v, w) == IF v < w THEN w ELSE v

\* Change v is announced to the instances in "insts".
Announced(v, insts) ==
    /\ due' = [c \in Clients |->
                 IF Listening(c) /\ conn[cur[c]].at \in insts THEN Later(due[c], v) ELSE due[c]]
    /\ promised' = [c \in Clients |->
                      IF hook[c] = "open" THEN Later(promised[c], v) ELSE promised[c]]
    /\ UNCHANGED <<clientVars, missed>>

Announce(v) ==
    \/ Publish(v) /\ Announced(v, linked) /\ UNCHANGED left
    \/ \E took \in BOOLEAN :
          /\ Spend("publishFails")
          /\ PublishFails(v, took)
          /\ Announced(v, {announcer[v].at} \cup (IF took THEN linked ELSE {}))

Change(i) == Write(i) /\ UNCHANGED <<clientVars, historyVars, left>>

Broadcasting ==
    \/ \E v \in Versions : LocalDone(v)
    \/ \E i \in Instances : Receive(i)
    \/ \E b \in Casters, k \in Conns : Send(b, k)

Relink(i) == Link(i) /\ UNCHANGED <<clientVars, historyVars, left>>

\* What the broken link has lost counts as not announced to the instance.
Unlink(i) ==
    /\ LinkBreaks(i) /\ Spend("linkBreaks")
    /\ due' = [c \in Clients |-> IF Listening(c) /\ conn[cur[c]].at = i /\ feed'[i] < feed[i]
                                 THEN 0 ELSE due[c]]
    /\ UNCHANGED <<clientVars, promised, missed>>

Register(k) == Subscribe(k) /\ UNCHANGED <<clientVars, historyVars, left>>

Stop(i) == Shutdown(i) /\ Spend("shutdown") /\ UNCHANGED <<clientVars, historyVars>>

Stopped(i) == Drained(i) /\ UNCHANGED <<clientVars, historyVars, left>>

Die(i) ==
    /\ Spend("exit")
    /\ Exit(i)
    /\ Fail({c \in Clients : cur[c] \in ConnsAt(i)})

StartAgain(i) == Restart(i) /\ UNCHANGED <<clientVars, historyVars, left>>

-----------------------------------------------------------------------------

EditAnswered(c, m) == EditError(c, m) \/ EditSuccess(c, m)

Next ==
    \/ \E c \in Clients : FetchRead(c) \/ FetchDone(c) \/ FetchFails(c) \/ Drop(c) \/ Retry(c)
    \/ \E c \in Clients, k \in Conns, i \in Instances : Open(c, k, i)
    \/ \E c \in Clients, m \in Edits :
          EditStart(c, m) \/ EditGuess(c, m) \/ EditApplied(c, m) \/ EditAnswered(c, m)
    \/ \E k \in Conns : Register(k) \/ Message(k) \/ HandlerReturns(k)
    \/ \E v \in Versions : Announce(v)
    \/ Broadcasting /\ UNCHANGED <<clientVars, historyVars, left>>
    \/ \E i \in Instances :
          \/ Change(i)
          \/ Relink(i) \/ Unlink(i)
          \/ Stop(i) \/ Stopped(i) \/ Die(i) \/ StartAgain(i)

Spec == Init /\ [][Next]_vars

\* Goroutines that can run do, requests are answered, and a tab that is not
\* slow reads its stream.  Nobody has to change, edit or connect anything.
Fairness ==
    /\ \A v \in Versions : WF_vars(Announce(v))
    /\ WF_vars(Broadcasting /\ UNCHANGED <<clientVars, historyVars, left>>)
    /\ \A k \in Conns : /\ WF_vars(Register(k))
                        /\ WF_vars(HandlerReturns(k))
                        /\ WF_vars(Message(k) /\ \A c \in Slow : cur[c] # k)
    /\ \A c \in Clients : /\ WF_vars(FetchRead(c))
                          /\ WF_vars(FetchDone(c))
                          /\ \A m \in Edits : /\ WF_vars(EditGuess(c, m))
                                              /\ WF_vars(EditAnswered(c, m))

FairSpec == Spec /\ Fairness

-----------------------------------------------------------------------------
(* Properties.                                                             *)

ClientTypeOK ==
    /\ hook \in [Clients -> {"connecting", "open", "waiting", "stopped"}]
    /\ retries \in [Clients -> 0 .. MaxRetries]
    /\ cur \in [Clients -> Conns \cup {Null}]
    /\ cache \in [Clients -> Grid]
    /\ loaded \in [Clients -> BOOLEAN]
    /\ fetch \in [Clients -> Fetch]
    /\ edits \in [Clients -> [Edits -> Edit]]
    /\ due \in [Clients -> 0 .. MaxVersion]
    /\ promised \in [Clients -> 0 .. MaxVersion]
    /\ missed \in [Clients -> 0 .. MaxVersion]
    /\ left \in 0 .. MaxEvents

\* Channels never hold more than their capacity, the hook never counts past its
\* limit, and everything else has its type.
TypeOK == BrokerTypeOK /\ ClientTypeOK

\* A message is on its way from Redis to tab c ...
InTransit(c) ==
    \/ feed[conn[cur[c]].at] > 0
    \/ \E b \in Casters : cur[c] \in cast[b]
    \/ chan[cur[c]] > 0

\* ... or the tab has yet to ask for the grid, waits for an answer that has
\* change v, has an update in flight whose end will invalidate the grid, or
\* knows that its request has failed.
Coming(c, v) ==
    \/ fetch[c].st \in {"asked", "failed"}
    \/ fetch[c].st = "read" /\ fetch[c].ver >= v
    \/ \E m \in Edits : edits[c][m].st # "none"

OnItsWay(c, v) == InTransit(c) \/ Coming(c, v)

\* A registered tab that lacks an announced change gets it, although a full
\* channel drops messages, requests are cancelled by newer ones and by updates,
\* and a roll-back brings an older grid back.  Not so what the tab's first load
\* has swallowed: the announcements up to then, until it asks again.
NothingAnnouncedIsLost ==
    \A c \in Clients : Listening(c) /\ cache[c].ver < due[c] /\ missed[c] < due[c]
                        => OnItsWay(c, due[c])

\* A guess never stays: what an update has drawn into the grid, and what a
\* roll-back to a grid with another update's guess in it brings back, is still
\* to be replaced by what the server has.
GuessesAreReplaced ==
    \A c \in Clients : cache[c].guess => \/ fetch[c] # NoFetch
                                       \/ \E m \in Edits : edits[c][m] # NoEdit

\* "Push shift changes to all connected clients": the same for every tab whose
\* stream is open.
ConnectedClientsAreServed ==
    \A c \in Clients :
        hook[c] = "open" /\ cache[c].ver < promised[c] => OnItsWay(c, promised[c])

\* In the end the grid has every change announced to it, but for what its first
\* load has swallowed, and a tab that does not read its stream costs no other
\* tab anything.
GridCatchesUp == \A c \in Clients \ Slow : <>[](cache[c].ver >= due[c] \/ missed[c] >= due[c])

=============================================================================
