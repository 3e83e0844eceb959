----------------------------- MODULE Availability -----------------------------
(***************************************************************************)
(* A user paints when they can work: the editor of the web client in any   *)
(* number of tabs, and the service that replaces all of the user's entries *)
(* for the event, statement by statement.                                  *)
(***************************************************************************)
EXTENDS Integers, FiniteSetsExt

CONSTANTS
    Tabs,         \* browser tabs in which the user has the event open
    Saves,        \* Bound: the saves that may be sent, each once
    Statuses,     \* available, preferred, unavailable
    EventStart, EventEnd, Gran,
    Horizon,      \* Bound: no entry stored to begin with ends later
    InitEntries,  \* what may be stored to begin with: sets of entries
    Null

\* What the service stores ends by the horizon; what an editor submits may end
\* a slot later, before the range of the event is checked.
Entry(end) == [start : 0 .. Horizon, end : 0 .. end, status : Statuses]
Row == [save : Saves \cup {Null}, start : 0 .. Horizon, end : 0 .. Horizon, status : Statuses]

ASSUME AvailabilityAssumption ==
    /\ Null \notin Saves
    /\ Gran \in Nat \ {0}
    /\ EventStart \in Nat /\ EventEnd \in Nat
    /\ Horizon \in Nat /\ EventEnd <= Horizon
    /\ \A entries \in InitEntries : entries \subseteq Entry(Horizon)

VARIABLES
    rows,      \* table user_availability: the rows of this user and event
    saves,     \* handlers of PUT /events/{slug}/availability/mine
    cache,     \* per tab: query ["events", slug, "availability", "mine"], and whether it ever loaded
    stale,     \* per tab: the cached answer was invalidated and not fetched again yet
    fetch,     \* per tab: the request under way, if any, and the answer it carries
    editor     \* per tab: Null, or the open editor's slot map and its pending save

serviceVars == <<rows, saves>>
tabVars == <<cache, stale, fetch, editor>>
vars == <<rows, saves, cache, stale, fetch, editor>>

\* The editor's columns, counted from the event's start; the last one may
\* reach beyond the event's end.
Slots == {t \in EventStart .. EventEnd - 1 : (t - EventStart) % Gran = 0}

-----------------------------------------------------------------------------
(* The editor's slot map, read from stored entries and turned into them.   *)

\* The slots an entry covers, counted from its own start.
Covered(e) == {t \in e.start .. e.end - 1 : (t - e.start) % Gran = 0}

\* Later entries overwrite earlier ones; the query orders them by start, and
\* leaves the order of equal starts open.
Paintings(entries) ==
    LET slots == UNION {Covered(e) : e \in entries}
        Says(e, t, status) ==
            /\ t \in Covered(e) /\ e.status = status
            /\ \A f \in entries : t \in Covered(f) => f.start <= e.start
    IN  {m \in [slots -> Statuses] : \A t \in slots : \E e \in entries : Says(e, t, m[t])}

Blank == [t \in {} |-> Null]

\* Runs of equal status: a slot opens a new entry unless it follows the
\* previous painted slot immediately and with the same status.
\* Mutant: only a gap opens a new entry, a change of status does not.
OpensByGap(painted, t) ==
    \/ \A u \in DOMAIN painted : u >= t
    \/ Max({u \in DOMAIN painted : u < t}) + Gran # t

Opens(painted, t) ==
    LET before == {u \in DOMAIN painted : u < t}
    IN  before = {} \/ LET p == Max(before) IN painted[p] # painted[t] \/ p + Gran # t

\* Mutant: a run takes in the slot that opens the next one.
RunLong(painted, t) ==
    {u \in DOMAIN painted : u >= t /\ \A v \in DOMAIN painted : t < v /\ v < u => ~Opens(painted, v)}

\* The slots from t on, up to the one that opens the next entry.
Run(painted, t) ==
    {u \in DOMAIN painted : u >= t /\ \A v \in DOMAIN painted : t < v /\ v <= u => ~Opens(painted, v)}

ToEntries(painted) ==
    {[start |-> t, end |-> Max(Run(painted, t)) + Gran, status |-> painted[t]] :
        t \in {u \in DOMAIN painted : Opens(painted, u)}}

-----------------------------------------------------------------------------
(* AvailabilityService.SetAvailability.                                    *)

\* "left" are the entries still to be inserted, "heard" is what the tab knows
\* of its save. History, which no action reads:
\* "rivals" are the saves under way at the same time, "before" what was over
\* when the save began.
Unsent == [pc |-> "unsent", heard |-> "waiting", tab |-> Null, painted |-> Blank,
           left |-> {}, rivals |-> {}, before |-> {}]
Running == {s \in Saves : saves[s].pc \in {"validate", "delete", "insert"}}

\* Validation compares every entry with the event's range.
Accepted(entries) == \A e \in entries : e.start < e.end /\ EventStart <= e.start /\ e.end <= EventEnd

\* The handler returns, and its locals are gone.
Return(s, outcome) ==
    saves' = [saves EXCEPT ![s] = [pc |-> outcome, heard |-> @.heard, tab |-> @.tab, painted |-> Blank,
                                   left |-> {}, rivals |-> @.rivals, before |-> @.before]]

Validate(s) ==
    /\ saves[s].pc = "validate"
    /\ IF Accepted(saves[s].left)
          THEN saves' = [saves EXCEPT ![s].pc = "delete"] ELSE Return(s, "refused")
    /\ UNCHANGED <<rows, tabVars>>

\* Mutant: nothing is deleted for an empty list.
DeleteExistingIfAny(s) ==
    /\ saves[s].pc = "delete"
    /\ rows' = IF saves[s].left = {} THEN rows ELSE {}
    /\ saves' = [saves EXCEPT ![s].pc = "insert"]
    /\ UNCHANGED tabVars

DeleteExisting(s) ==
    /\ saves[s].pc = "delete"
    /\ rows' = {}
    /\ saves' = [saves EXCEPT ![s].pc = "insert"]
    /\ UNCHANGED tabVars

\* One INSERT per entry, in the order of their starts.
InsertNext(s) ==
    /\ saves[s].pc = "insert"
    /\ \E e \in saves[s].left :
          /\ \A f \in saves[s].left : e.start <= f.start
          /\ rows' = rows \cup {[save |-> s, start |-> e.start, end |-> e.end, status |-> e.status]}
          /\ saves' = [saves EXCEPT ![s].left = @ \ {e}]
    /\ UNCHANGED tabVars

AllInserted(s) ==
    /\ saves[s].pc = "insert" /\ saves[s].left = {}
    /\ Return(s, "stored")
    /\ UNCHANGED <<rows, tabVars>>

\* A statement fails, or the server goes down between two of them: there is no
\* transaction, so what was done stays done.
BreakOff(s) ==
    /\ s \in Running
    /\ Return(s, "refused")
    /\ UNCHANGED <<rows, tabVars>>

ServiceStep(s) == Validate(s) \/ DeleteExisting(s) \/ InsertNext(s) \/ AllInserted(s) \/ BreakOff(s)

-----------------------------------------------------------------------------
(* The query "mine" of one tab, with TanStack Query's rules.               *)

NothingYet == [loaded |-> FALSE, rows |-> {}]
Cached(data) == [loaded |-> TRUE, rows |-> data]

NoFetch == [pc |-> "none", rows |-> {}]
Asked == [pc |-> "asked", rows |-> {}]

\* The server reads the rows for the tab, and the answer travels back.
FetchRead(t) ==
    /\ fetch[t].pc = "asked"
    /\ fetch' = [fetch EXCEPT ![t] = [pc |-> "answered", rows |-> rows]]
    /\ UNCHANGED <<serviceVars, cache, stale, editor>>

\* An answer that differs from the cached one redraws the open editor: the
\* strokes made since it was opened are gone.
FetchDone(t) ==
    /\ fetch[t].pc = "answered"
    /\ cache' = [cache EXCEPT ![t] = Cached(fetch[t].rows)]
    /\ stale' = [stale EXCEPT ![t] = FALSE]
    /\ fetch' = [fetch EXCEPT ![t] = NoFetch]
    /\ IF editor[t] # Null /\ cache[t] # Cached(fetch[t].rows)
          THEN \E m \in Paintings(fetch[t].rows) : editor' = [editor EXCEPT ![t].painted = m]
          ELSE UNCHANGED editor
    /\ UNCHANGED serviceVars

FetchFails(t) ==
    /\ fetch[t].pc # "none"
    /\ fetch' = [fetch EXCEPT ![t] = NoFetch]
    /\ UNCHANGED <<serviceVars, cache, stale, editor>>

\* A query that is looked at is fetched again when the window gets the focus
\* and the answer is older than staleTime, for which any answer may be.
Refocus(t) ==
    /\ editor[t] # Null /\ fetch[t] = NoFetch
    /\ fetch' = [fetch EXCEPT ![t] = Asked]
    /\ UNCHANGED <<serviceVars, cache, stale, editor>>

-----------------------------------------------------------------------------
(* The editor of one tab.                                                  *)

Loaded(t) == IF cache[t].loaded THEN Paintings(cache[t].rows) ELSE {Blank}

\* An answer that is missing or invalidated is asked for, and so is an old one.
StartIfDue(t) ==
    LET started == IF fetch[t] = NoFetch THEN [fetch EXCEPT ![t] = Asked] ELSE fetch
    IN  IF ~cache[t].loaded \/ stale[t] THEN {started} ELSE {started, fetch}

\* Mutant: there is no slot map until the answer has come.
OpenRaw(t) ==
    /\ editor[t] = Null
    /\ \E m \in IF cache[t].loaded THEN Loaded(t) ELSE {Null} :
          editor' = [editor EXCEPT ![t] = [painted |-> m, pending |-> Null]]
    /\ fetch' \in StartIfDue(t)
    /\ UNCHANGED <<serviceVars, cache, stale>>

Open(t) ==
    /\ editor[t] = Null
    /\ \E m \in Loaded(t) : editor' = [editor EXCEPT ![t] = [painted |-> m, pending |-> Null]]
    /\ fetch' \in StartIfDue(t)
    /\ UNCHANGED <<serviceVars, cache, stale>>

\* Escape, Cancel or a click beside the dialog: the strokes are gone, a save
\* under way goes on.
Close(t) ==
    /\ editor[t] # Null
    /\ editor' = [editor EXCEPT ![t] = Null]
    /\ UNCHANGED <<serviceVars, cache, stale, fetch>>

\* Bound: no strokes once the last save is sent, nor while the editor's own
\* save is pending: those are kept or lost like strokes made afterwards.
CanDraw(t) == editor[t] # Null /\ editor[t].pending = Null /\ \E s \in Saves : saves[s] = Unsent

Painted(painted, slot, status) ==
    [u \in DOMAIN painted \cup {slot} |-> IF u = slot THEN status ELSE painted[u]]

\* The mouse goes down on a slot or is dragged over it.
Paint(t, slot, status) ==
    /\ CanDraw(t)
    /\ editor' = [editor EXCEPT ![t].painted = Painted(@, slot, status)]
    /\ UNCHANGED <<serviceVars, cache, stale, fetch>>

Without(painted, slots) == [u \in DOMAIN painted \ slots |-> painted[u]]

\* The mouse goes down on a slot that has the tool's status already.
Erase(t, slot) ==
    /\ CanDraw(t) /\ slot \in DOMAIN editor[t].painted
    /\ editor' = [editor EXCEPT ![t].painted = Without(@, {slot})]
    /\ UNCHANGED <<serviceVars, cache, stale, fetch>>

ClearAll(t) ==
    /\ CanDraw(t)
    /\ editor' = [editor EXCEPT ![t].painted = Blank]
    /\ UNCHANGED <<serviceVars, cache, stale, fetch>>

\* The handler starts, and those under way are its rivals as it is theirs.
AfterSending(t, s, r) ==
    CASE r = s         -> [pc |-> "validate", heard |-> "waiting", tab |-> t, painted |-> editor[t].painted,
                           left |-> ToEntries(editor[t].painted), rivals |-> Running,
                           before |-> {q \in Saves : saves[q].pc # "unsent"} \ Running]
      [] r \in Running -> [saves[r] EXCEPT !.rivals = @ \cup {s}]
      [] OTHER         -> saves[r]

\* The button is out of use while this editor's own save is pending; an editor
\* that was opened anew knows of none.
Save(t, s) ==
    /\ editor[t] # Null /\ editor[t].pending = Null
    /\ saves[s] = Unsent
    /\ saves' = [r \in Saves |-> AfterSending(t, s, r)]
    /\ editor' = [editor EXCEPT ![t].pending = s]
    /\ UNCHANGED <<rows, cache, stale, fetch>>

\* The request under way is thrown away for a new one only if the query has an
\* answer already; the very first request is waited for.
Joins(t) == ~cache[t].loaded /\ fetch[t] # NoFetch

\* What the tab knows after a save: that the query is being fetched, that it is
\* only marked, or that it waits for a first answer read some time ago.
HeardOfSuccess(t) ==
    CASE editor[t] = Null                         -> "marked"
      [] Joins(t) /\ fetch[t].pc = "answered"     -> "joined"
      [] OTHER                                    -> "fetching"

\* onSuccess invalidates the query: a query that is looked at is fetched again
\* at once, another one is only marked.  Then onClose closes whatever editor
\* the page has open.
\* Mutant: any request under way is waited for.
SaveSucceedsJoins(s) ==
    LET t == saves[s].tab
    IN  /\ saves[s].pc = "stored" /\ saves[s].heard = "waiting"
        /\ saves' = [saves EXCEPT ![s].heard = HeardOfSuccess(t)]
        /\ stale' = [stale EXCEPT ![t] = TRUE]
        /\ fetch' = IF editor[t] # Null /\ fetch[t] = NoFetch THEN [fetch EXCEPT ![t] = Asked] ELSE fetch
        /\ editor' = [editor EXCEPT ![t] = Null]
        /\ UNCHANGED <<rows, cache>>

SaveSucceeds(s) ==
    LET t == saves[s].tab
    IN  /\ saves[s].pc = "stored" /\ saves[s].heard = "waiting"
        /\ saves' = [saves EXCEPT ![s].heard = HeardOfSuccess(t)]
        /\ stale' = [stale EXCEPT ![t] = TRUE]
        /\ fetch' = IF editor[t] # Null /\ ~Joins(t) THEN [fetch EXCEPT ![t] = Asked] ELSE fetch
        /\ editor' = [editor EXCEPT ![t] = Null]
        /\ UNCHANGED <<rows, cache>>

\* The service answers with an error, or the connection is lost while it works
\* on: the editor stays, with its strokes and a button in use again.
SaveFails(s) ==
    LET t == saves[s].tab
    IN  /\ saves[s].pc # "unsent" /\ saves[s].heard = "waiting"
        /\ saves' = [saves EXCEPT ![s].heard = "failed"]
        /\ editor' = IF editor[t] # Null /\ editor[t].pending = s
                        THEN [editor EXCEPT ![t].pending = Null] ELSE editor
        /\ UNCHANGED <<rows, cache, stale, fetch>>

-----------------------------------------------------------------------------
Init ==
    /\ \E entries \in InitEntries :
          rows = {[save |-> Null, start |-> e.start, end |-> e.end, status |-> e.status] : e \in entries}
    /\ saves = [s \in Saves |-> Unsent]
    /\ cache = [t \in Tabs |-> NothingYet]
    /\ stale = [t \in Tabs |-> FALSE]
    /\ fetch = [t \in Tabs |-> NoFetch]
    /\ editor = [t \in Tabs |-> Null]

QueryStep(t) == FetchRead(t) \/ FetchDone(t) \/ FetchFails(t) \/ Refocus(t)

EditorStep(t) ==
    \/ Open(t) \/ Close(t) \/ ClearAll(t)
    \/ \E slot \in Slots : Erase(t, slot) \/ \E status \in Statuses : Paint(t, slot, status)

Next ==
    \/ \E s \in Saves : ServiceStep(s) \/ SaveSucceeds(s) \/ SaveFails(s) \/ \E t \in Tabs : Save(t, s)
    \/ \E t \in Tabs : QueryStep(t) \/ EditorStep(t)

Spec == Init /\ [][Next]_vars

-----------------------------------------------------------------------------
(* Properties.                                                             *)

Painting == UNION {[slots -> Statuses] : slots \in SUBSET (0 .. Horizon - 1)}

SaveRecord ==
    [pc : {"unsent", "validate", "delete", "insert", "stored", "refused"},
     heard : {"waiting", "fetching", "joined", "marked", "failed"},
     tab : Tabs \cup {Null}, painted : Painting, left : SUBSET Entry(Horizon + Gran),
     rivals : SUBSET Saves, before : SUBSET Saves]

\* Rows, saves in progress and the tabs' caches and editors have their types.
TypeOK ==
    /\ rows \subseteq Row
    /\ saves \in [Saves -> SaveRecord]
    /\ cache \in [Tabs -> [loaded : BOOLEAN, rows : SUBSET Row]]
    /\ stale \in [Tabs -> BOOLEAN]
    /\ fetch \in [Tabs -> [pc : {"none", "asked", "answered"}, rows : SUBSET Row]]
    /\ editor \in [Tabs -> {Null} \cup [painted : Painting, pending : Saves \cup {Null}]]

Register == INSTANCE AvailabilityRegister
    WITH writers <- Running, acknowledged <- {s \in Saves : saves[s].pc = "stored"},
         stored <- {r.save : r \in rows}, rivals <- [s \in Saves |-> saves[s].rivals]

\* Replacing all entries of a user: when a save is acknowledged, nothing is
\* stored but its own entries and those of saves that were under way with it,
\* although deletion and insertions are statements of their own.
ReplacesAll == Register!Spec

\* A save that nothing came in between stores exactly the painting that was
\* submitted: splitting it into entries loses nothing, and reading the rows
\* back fills the same slots.
StoresThePainting ==
    [][\A s \in Saves :
          saves[s].pc = "insert" /\ saves'[s].pc = "stored" /\ saves[s].rivals = {}
             => Paintings(rows) = {saves[s].painted}]_vars

\* Nothing in the schema keeps a user's entries apart; as long as the grid of
\* the event stays as it is, only saves that ran at the same time leave entries
\* that overlap.
OverlapsNeedRivals ==
    \A r, q \in rows : r # q /\ r.start < q.end /\ q.start < r.end =>
        r.save # q.save /\ Null \notin {r.save, q.save} /\ r.save \in saves[q.save].rivals

\* A tab whose save succeeded with the editor on screen never takes what it
\* has cached for current if that is older than the save: the request that the
\* opening of the editor started is thrown away and not waited for.  Not so a
\* save that met the tab's very first request with its answer on the way
\* ("joined"): that answer, read before, counts as current.
OwnSaveIsSeen ==
    \A s \in Saves : saves[s].heard = "fetching" =>
        LET t == saves[s].tab
            Old(data) == \E r \in data : r.save \in saves[s].before \cup {Null}
        IN  /\ ~stale[t] => cache[t].loaded /\ ~Old(cache[t].rows)
            /\ fetch[t].pc = "answered" => ~Old(fetch[t].rows)

=============================================================================
