---------------------------- MODULE EventSettings ----------------------------
(***************************************************************************)
(* The settings page of one event, open in the browsers of several admins: *)
(* its details, its lock, its teams, admins, pinned users, hidden hours    *)
(* and coverage requirements.  Every section shows a cached answer and     *)
(* sends requests that were made from it.                                  *)
(***************************************************************************)
EXTENDS Naturals, FiniteSets, SequencesExt

CONSTANTS
    Pages,          \* the admins, one settings page each
    SuperAdmins,    \* those of them with the role super_admin
    People,         \* users that may be event admins or pinned
    Teams,
    Names, Slugs, Texts,  \* values for the fields of the details form
    Needs, BadNeeds,\* times and numbers of a requirement; the bad ones end before they start
    NeedIds,        \* Bound: identifiers of requirements
    TypedHours,     \* Bound: what is typed into the two hour fields; Empty is a cleared field
    Empty,
    Requests,       \* Bound: the requests of all pages, each sent once
    InitDB,         \* what is stored to begin with
    Worked,         \* Bound: the sections that are worked in, one in a behaviour
    Refocused,      \* Bound: the pages that are left and looked at again
    LateKeys,       \* the queries that may still be loading when the page is first drawn
    Null

VARIABLES
    db,        \* the event's rows; Null once it is deleted
    slugs,     \* the slugs the event has had
    asks,      \* requests: on their way, being handled, answered
    cache,     \* per page and query: the cached answer, Null before it loads
    fetch,     \* per page and query: the request under way and the answer it carries
    ui,        \* per page: the slug in its address, its open form, dialog and editor
    owed,      \* history: queries that a page has not read since its own change was acknowledged
    section    \* Bound: the section that is worked in, fixed in Init

pageVars == <<cache, fetch, ui, owed>>
vars == <<db, slugs, asks, cache, fetch, ui, owed, section>>

Keys == {"event", "teams", "admins", "pinned", "hidden", "coverage"}
Sections == (Keys \ {"event"}) \cup {"details", "access"}
KeyOf(s) == IF s \in {"details", "access"} THEN "event" ELSE s
Fields == {"name", "slug", "description"}
Details == {d \in [Fields -> Names \cup Slugs \cup Texts] : d.slug \in Slugs}
TeamLists == UNION {[teams -> BOOLEAN] : teams \in SUBSET Teams}
HourRange == [lo : 0 .. 23, hi : 0 .. 23]
Sound(r) == r.lo < r.hi
Requirement == [id : NeedIds, team : Teams, need : Needs \cup BadNeeds]

\* The rows of an event.
Stores ==
    [event : Details, locked : BOOLEAN, public : BOOLEAN, teams : TeamLists,
     admins : SUBSET People, pinned : SUBSET People,
     hidden : Seq({r \in HourRange : Sound(r)}), coverage : SUBSET Requirement]

ASSUME EventSettingsAssumption ==
    /\ SuperAdmins \subseteq Pages /\ Pages \subseteq People
    /\ TypedHours \subseteq ((0 .. 23) \cup {Empty}) \X ((0 .. 23) \cup {Empty})
    /\ Worked \subseteq Sections /\ Refocused \subseteq Pages /\ LateKeys \subseteq Keys
    /\ InitDB \in Stores /\ Null \notin Pages \cup Requests \cup Slugs

-----------------------------------------------------------------------------
(* What a page reads.                                                      *)

\* Hidden hours are listed by their start; rows that start together come in
\* any order.
Listings(rows) ==
    {s \in {[i \in DOMAIN rows |-> rows[f[i]]] : f \in Surjection(DOMAIN rows, DOMAIN rows)} :
        \A i \in 1 .. Len(s) - 1 : s[i].lo <= s[i + 1].lo}

Views(p, k) ==
    CASE k = "event"  -> {[details |-> db.event, locked |-> db.locked, public |-> db.public,
                           mine |-> p \in db.admins]}
      [] k = "hidden" -> Listings(db.hidden)
      [] OTHER        -> {db[k]}

Enabled(p, k) == k # "admins" \/ p \in SuperAdmins
Readable(p, k) ==
    /\ db # Null /\ ui[p].slug = db.event.slug
    /\ k = "pinned" => p \in SuperAdmins \/ p \in db.admins

NoFetch == [pc |-> "none", data |-> Null]
Asked == [pc |-> "asked", data |-> Null]

FetchRead(p, k) ==
    /\ fetch[p][k].pc = "asked" /\ Readable(p, k)
    /\ \E v \in Views(p, k) : fetch' = [fetch EXCEPT ![p][k] = [pc |-> "answered", data |-> v]]
    /\ owed' = [owed EXCEPT ![p] = @ \ {k}]
    /\ UNCHANGED <<db, slugs, asks, cache, ui, section>>

\* The copy is replaced under an open form, editor or dialog.
FetchDone(p, k) ==
    /\ fetch[p][k].pc = "answered"
    /\ cache' = [cache EXCEPT ![p][k] = fetch[p][k].data]
    /\ fetch' = [fetch EXCEPT ![p][k] = NoFetch]
    /\ UNCHANGED <<db, slugs, asks, ui, owed, section>>

\* The slug is gone, the rights are gone, or the connection is.
FetchFails(p, k) ==
    /\ fetch[p][k].pc # "none"
    /\ fetch' = [fetch EXCEPT ![p][k] = NoFetch]
    /\ owed' = [owed EXCEPT ![p] = @ \ {k}]
    /\ UNCHANGED <<db, slugs, asks, cache, ui, section>>

\* The window gets the focus, and the answer is older than staleTime.  Nothing
\* tells when the request was sent: it is at its read at once.  An answer like
\* the copy that is there changes nothing, and is left out.
Refocus(p, k) ==
    /\ p \in Refocused /\ ui[p].slug # Null
    /\ k = KeyOf(section) /\ Enabled(p, k) /\ fetch[p][k] = NoFetch
    /\ Readable(p, k)
    /\ \E v \in Views(p, k) \ {cache[p][k]} :
          fetch' = [fetch EXCEPT ![p][k] = [pc |-> "answered", data |-> v]]
    /\ UNCHANGED <<db, slugs, asks, cache, ui, owed, section>>

-----------------------------------------------------------------------------
(* The requests, on the server.                                            *)

SuperOnly == {"lock", "public", "admin", "dropAdmin", "delete"}
Allowed(p, kind) == p \in SuperAdmins \/ (kind \notin SuperOnly /\ p \in db.admins)

\* "was" is history, for the properties.
Unsent == [pc |-> "unsent", page |-> Null, slug |-> Null, kind |-> Null, arg |-> Null,
           left |-> <<>>, was |-> Null]
Done == [Unsent EXCEPT !.pc = "done"]

Reaches(q) ==
    /\ asks[q].pc = "sent" /\ db # Null /\ asks[q].slug = db.event.slug
    /\ Allowed(asks[q].page, asks[q].kind)

\* Mutant: hidden hours may go round midnight.
ValidAnyRange(kind, arg) ==
    CASE kind \in {"admin", "dropAdmin", "pin", "unpin", "team", "dropTeam"} -> arg # Null
      [] kind = "addNeed"  -> arg.need \notin BadNeeds
      [] kind = "editNeed" -> arg.need \notin BadNeeds /\ \E c \in db.coverage : c.id = arg.id
      [] OTHER             -> TRUE

\* An id that is no id is refused, and so is a requirement that ends before it
\* starts or is gone.
Valid(kind, arg) ==
    CASE kind \in {"admin", "dropAdmin", "pin", "unpin", "team", "dropTeam"} -> arg # Null
      [] kind = "hidden"   -> \A i \in DOMAIN arg : Sound(arg[i])
      [] kind = "addNeed"  -> arg.need \notin BadNeeds
      [] kind = "editNeed" -> arg.need \notin BadNeeds /\ \E c \in db.coverage : c.id = arg.id
      [] OTHER             -> TRUE

\* What is given replaces what is there.
Over(new, old) ==
    [x \in DOMAIN new \cup DOMAIN old |-> IF x \in DOMAIN new THEN new[x] ELSE old[x]]

Effect(kind, arg) ==
    CASE kind = "details"   -> [db EXCEPT !.event = Over(arg, @)]
      [] kind = "lock"      -> [db EXCEPT !.locked = arg]
      [] kind = "public"    -> [db EXCEPT !.public = arg]
      [] kind = "team"      -> [db EXCEPT !.teams = Over([t \in {arg.team} |-> arg.visible], @)]
      [] kind = "dropTeam"  -> [db EXCEPT !.teams = [t \in DOMAIN @ \ {arg} |-> @[t]]]
      [] kind = "admin"     -> [db EXCEPT !.admins = @ \cup {arg}]
      [] kind = "dropAdmin" -> [db EXCEPT !.admins = @ \ {arg}]
      [] kind = "pin"       -> [db EXCEPT !.pinned = @ \cup {arg}]
      [] kind = "unpin"     -> [db EXCEPT !.pinned = @ \ {arg}]
      [] kind = "addNeed"   -> [db EXCEPT !.coverage = @ \cup {arg}]
      [] kind = "editNeed"  -> [db EXCEPT !.coverage = {IF c.id = arg.id THEN arg ELSE c : c \in @}]
      [] kind = "dropNeed"  -> [db EXCEPT !.coverage = {c \in @ : c.id # arg}]
      [] kind = "dropNeeds" -> [db EXCEPT !.coverage = {c \in @ : c.team # arg}]
      [] kind = "delete"    -> Null

Apply(q) ==
    /\ Reaches(q) /\ asks[q].kind # "hidden" /\ Valid(asks[q].kind, asks[q].arg)
    /\ db' = Effect(asks[q].kind, asks[q].arg)
    /\ slugs' = IF db' = Null THEN slugs ELSE slugs \cup {db'.event.slug}
    /\ asks' = [asks EXCEPT ![q].pc = "stored"]
    /\ UNCHANGED <<pageVars, section>>

\* SetHiddenRanges deletes all rows and inserts the new ones, statement by
\* statement and without a transaction.
Replacing == {q \in Requests : asks[q].pc = "inserting"}

\* "before" are the rows as they were, if the page had them right and no other
\* request replaces them at the same time.
Count(list, r) == Cardinality({i \in DOMAIN list : list[i] = r})
SameRows(s, t) == \A r \in HourRange : Count(s, r) = Count(t, r)
Seen(was) == [was EXCEPT !.base = Null, !.before =
                 IF Replacing = {} /\ SameRows(was.base, db.hidden) THEN db.hidden ELSE Null]

DeleteRanges(q) ==
    /\ Reaches(q) /\ asks[q].kind = "hidden" /\ Valid("hidden", asks[q].arg)
    /\ db' = [db EXCEPT !.hidden = <<>>]
    /\ asks' = [r \in Requests |->
          CASE r = q           -> [asks[q] EXCEPT !.pc = "inserting", !.left = asks[q].arg, !.arg = Null,
                                                  !.was = Seen(asks[q].was)]
            [] r \in Replacing -> [asks[r] EXCEPT !.was.before = Null]
            [] OTHER           -> asks[r]]
    /\ UNCHANGED <<slugs, pageVars, section>>

InsertRange(q) ==
    /\ q \in Replacing /\ asks[q].left # <<>> /\ db # Null
    /\ db' = [db EXCEPT !.hidden = Append(@, Head(asks[q].left))]
    /\ asks' = [asks EXCEPT ![q].left = Tail(@)]
    /\ UNCHANGED <<slugs, pageVars, section>>

RangesDone(q) ==
    /\ q \in Replacing /\ asks[q].left = <<>>
    /\ asks' = [asks EXCEPT ![q].pc = "stored", ![q].was.before = Null, ![q].was.row = Null]
    /\ UNCHANGED <<db, slugs, pageVars, section>>

-----------------------------------------------------------------------------
(* What the page does with an answer.                                      *)

\* Mutant: a pinned user is removed, and the admins are read again.
InvalidatedMixedUp(kind) ==
    CASE kind \in {"details", "lock", "public", "delete"} -> Keys
      [] kind \in {"team", "dropTeam"}                    -> {"teams"}
      [] kind \in {"admin", "dropAdmin", "unpin"}         -> {"admins"}
      [] kind = "pin"                                     -> {"pinned"}
      [] kind = "hidden"                                  -> {"hidden"}
      [] OTHER                                            -> {"coverage"}

\* queryKey ["events"] is the beginning of every key of the page.
Invalidated(kind) ==
    CASE kind \in {"details", "lock", "public", "delete"} -> Keys
      [] kind \in {"team", "dropTeam"}                    -> {"teams"}
      [] kind \in {"admin", "dropAdmin"}                  -> {"admins"}
      [] kind \in {"pin", "unpin"}                        -> {"pinned"}
      [] kind = "hidden"                                  -> {"hidden"}
      [] OTHER                                            -> {"coverage"}

\* The query whose answer the request changed.
Touched(kind) ==
    CASE kind \in {"details", "lock", "public"} -> {"event"}
      [] kind \in {"team", "dropTeam"}          -> {"teams"}
      [] kind \in {"admin", "dropAdmin"}        -> {"admins"}
      [] kind \in {"pin", "unpin"}              -> {"pinned"}
      [] kind = "hidden"                        -> {"hidden"}
      [] OTHER                                  -> {"coverage"}

\* An invalidated query is fetched again at once, and a request under way is
\* thrown away, unless it is the first: that one is waited for.
Refetched(p, ks) ==
    [k \in Keys |-> IF k \notin ks \/ k # KeyOf(section) \/ ~Enabled(p, k)
                       \/ (cache[p][k] = Null /\ fetch[p][k].pc # "none")
                    THEN fetch[p][k] ELSE Asked]

Closed == [slug |-> Null, form |-> Null, opened |-> Null, dialog |-> Null, editor |-> Null]
Blank(p) == [k \in Keys |-> Null]
FirstFetches(p) == [k \in Keys |-> IF k \in {KeyOf(section), "event"} /\ Enabled(p, k) THEN Asked ELSE NoFetch]

\* A removal closes the dialog that is open when the answer is there, whatever
\* that one asks about.
WithoutDialog(page) ==
    IF page.dialog # Null /\ page.dialog.kind # "delete" THEN [page EXCEPT !.dialog = Null] ELSE page

Removals == {"dropTeam", "dropAdmin", "unpin", "dropNeed", "dropNeeds"}
Confirmed(q) == asks[q].kind \in Removals \/ (asks[q].kind = "hidden" /\ asks[q].was.removal)

\* saveDetails moves the page to the new slug, where every query is a new one.
Renames(q) == asks[q].kind = "details" /\ "slug" \in DOMAIN asks[q].arg

Succeeds(q) ==
    LET a == asks[q]  p == a.page IN
    /\ a.pc = "stored" /\ asks' = [asks EXCEPT ![q] = Done]
    /\ UNCHANGED <<db, slugs, section>>
    /\ CASE a.kind = "delete" \/ ui[p].slug = Null ->
              /\ ui' = [ui EXCEPT ![p] = Closed]
              /\ cache' = [cache EXCEPT ![p] = Blank(p)]
              /\ fetch' = [fetch EXCEPT ![p] = [k \in Keys |-> NoFetch]]
              /\ owed' = [owed EXCEPT ![p] = {}]
         [] Renames(q) /\ ui[p].slug # Null ->
              /\ ui' = [ui EXCEPT ![p] = [@ EXCEPT !.slug = a.arg.slug, !.form = Null, !.opened = Null]]
              /\ cache' = [cache EXCEPT ![p] = Blank(p)]
              /\ fetch' = [fetch EXCEPT ![p] = FirstFetches(p)]
              /\ owed' = [owed EXCEPT ![p] = Touched(a.kind)]
         [] OTHER ->
              /\ ui' = [ui EXCEPT ![p] =
                    CASE a.kind = "details"  -> [@ EXCEPT !.form = Null, !.opened = Null]
                      [] a.kind = "editNeed" -> [@ EXCEPT !.editor = Null]
                      [] Confirmed(q)        -> WithoutDialog(@)
                      [] OTHER               -> @]
              /\ fetch' = [fetch EXCEPT ![p] = Refetched(p, Invalidated(a.kind))]
              /\ owed' = [owed EXCEPT ![p] =
                    @ \cup {k \in Touched(a.kind) \cap {KeyOf(section)} : cache[p][k] # Null /\ Enabled(p, k)}]
              /\ UNCHANGED cache

\* The answer is an error, or there is none: a handler that was at work stops
\* where it is, and what it has done stays done.
Fails(q) ==
    LET a == asks[q]  p == a.page IN
    /\ a.pc \in {"sent", "inserting", "stored"} /\ asks' = [asks EXCEPT ![q] = Done]
    /\ ui' = [ui EXCEPT ![p] =
          CASE a.kind = "delete" -> IF @.dialog # Null /\ @.dialog.kind = "delete"
                                       THEN [@ EXCEPT !.dialog = Null] ELSE @
            [] Confirmed(q)      -> WithoutDialog(@)
            [] OTHER             -> @]
    /\ UNCHANGED <<db, slugs, cache, fetch, owed, section>>

-----------------------------------------------------------------------------
(* What an admin does on the page.                                         *)

Pending(p, kind) ==
    \E q \in Requests : asks[q].page = p /\ asks[q].kind = kind /\ asks[q].pc \notin {"unsent", "done"}

\* Others see "access denied", which the page judges by its copy.
Shown(p, s) ==
    /\ ui[p].slug # Null /\ cache[p]["event"] # Null /\ section = s
    /\ p \in SuperAdmins \/ cache[p]["event"].mine

\* Bound: nothing is opened or typed once the last request is sent.
Free(p, s) == Shown(p, s) /\ ui[p].dialog = Null /\ \E q \in Requests : asks[q] = Unsent

Send(p, q, kind, arg, was) ==
    /\ asks[q] = Unsent
    /\ asks' = [asks EXCEPT ![q] = [pc |-> "sent", page |-> p, slug |-> ui[p].slug, kind |-> kind,
                                    arg |-> arg, left |-> <<>>, was |-> was]]

KeepRest == UNCHANGED <<db, slugs, cache, fetch, owed, section>>

StartEditDetails(p) ==
    /\ Free(p, "details") /\ ui[p].form = Null
    /\ LET details == cache[p]["event"].details
       IN  ui' = [ui EXCEPT ![p] = [@ EXCEPT !.form = details, !.opened = details]]
    /\ UNCHANGED asks /\ KeepRest

\* Name and slug are required, the description may be emptied.
\* Bound: a slug that the event had before is not typed again.
Type(p, f, v) ==
    /\ Free(p, "details") /\ ui[p].form # Null
    /\ f = "slug" => v \notin slugs
    /\ ui' = [ui EXCEPT ![p].form[f] = v]
    /\ UNCHANGED asks /\ KeepRest

CancelDetails(p) ==
    /\ Free(p, "details") /\ ui[p].form # Null
    /\ ui' = [ui EXCEPT ![p] = [@ EXCEPT !.form = Null, !.opened = Null]]
    /\ UNCHANGED asks /\ KeepRest

\* Only what differs from the copy at hand is sent; nothing, if nothing does.
\* Mutant: the whole form is sent.
ChangedAll(p) == ui[p].form

Changed(p) ==
    LET form == ui[p].form
        differs == {f \in Fields : form[f] # cache[p]["event"].details[f]}
    IN  [f \in differs |-> form[f]]

SaveDetails(p, q) ==
    /\ Free(p, "details") /\ ui[p].form # Null /\ ~Pending(p, "details")
    /\ IF DOMAIN Changed(p) = {}
          THEN /\ ui' = [ui EXCEPT ![p] = [@ EXCEPT !.form = Null, !.opened = Null]]
               /\ UNCHANGED asks
          ELSE /\ Send(p, q, "details", Changed(p),
                       [edited |-> {f \in Fields : ui[p].form[f] # ui[p].opened[f]},
                        fresh |-> cache[p]["event"].details = ui[p].opened])
               /\ UNCHANGED ui
    /\ KeepRest

\* The switches send the opposite of what the copy says.
Toggle(p, q, kind, field) ==
    /\ Free(p, "access") /\ p \in SuperAdmins /\ ~Pending(p, kind)
    /\ Send(p, q, kind, ~cache[p]["event"][field], Null)
    /\ UNCHANGED ui /\ KeepRest

Loaded(p, k) == Free(p, k) /\ cache[p][k] # Null

\* A check box of a listed team; a team that is not listed can be added.
SetTeam(p, q, t) ==
    /\ Free(p, "teams")
    /\ LET listed == IF cache[p]["teams"] = Null THEN <<>> ELSE cache[p]["teams"]
       IN  Send(p, q, "team",
                [team |-> t, visible |-> IF t \in DOMAIN listed THEN ~listed[t] ELSE TRUE], Null)
    /\ UNCHANGED ui /\ KeepRest

AddAdmin(p, q, u) ==
    /\ Free(p, "admins") /\ p \in SuperAdmins
    /\ Send(p, q, "admin", u, Null)
    /\ UNCHANGED ui /\ KeepRest

\* Who is listed as pinned is not offered.
AddPinnedUser(p, q, u) ==
    /\ Free(p, "pinned")
    /\ cache[p]["pinned"] # Null => u \notin cache[p]["pinned"]
    /\ Send(p, q, "pin", u, Null)
    /\ UNCHANGED ui /\ KeepRest

\* A cleared hour field is NaN, which is sent as null and decoded as 0.
Hour(h) == IF h = Empty THEN 0 ELSE h
ListedRanges(p) == IF cache[p]["hidden"] = Null THEN <<>> ELSE cache[p]["hidden"]

\* History: the row that is added or removed, if it is known.
RangesWas(p, removal, row) == [removal |-> removal, row |-> row, base |-> ListedRanges(p), before |-> Null]

AddHiddenRange(p, q, lo, hi) ==
    /\ Free(p, "hidden")
    /\ LET new == [lo |-> Hour(lo), hi |-> Hour(hi)]
       IN  Send(p, q, "hidden", Append(ListedRanges(p), new), RangesWas(p, FALSE, new))
    /\ UNCHANGED ui /\ KeepRest

AddCoverage(p, q, c) ==
    /\ Free(p, "coverage") /\ \A d \in db.coverage : d.id # c.id
    /\ ~\E r \in Requests : asks[r].kind = "addNeed" /\ asks[r].arg.id = c.id
    /\ Send(p, q, "addNeed", c, Null)
    /\ UNCHANGED ui /\ KeepRest

\* A requirement is copied into the editor and sent back whole: "team" and
\* "need" are what was copied or what was chosen since.
StartEditCoverage(p, c) ==
    /\ Loaded(p, "coverage") /\ c \in cache[p]["coverage"]
    /\ ui' = [ui EXCEPT ![p].editor = c.id]
    /\ UNCHANGED asks /\ KeepRest

UpdateCoverage(p, q, team, need) ==
    /\ Loaded(p, "coverage") /\ ui[p].editor # Null
    /\ \E c \in cache[p]["coverage"] : c.id = ui[p].editor
    /\ Send(p, q, "editNeed", [id |-> ui[p].editor, team |-> team, need |-> need], Null)
    /\ UNCHANGED ui /\ KeepRest

CancelEditCoverage(p) ==
    /\ Loaded(p, "coverage") /\ ui[p].editor # Null
    /\ ui' = [ui EXCEPT ![p].editor = Null]
    /\ UNCHANGED asks /\ KeepRest

\* The dialog in front of every removal keeps an id, which for a range of
\* hours is its place in the list; "shown" is history.  The service lists an
\* admin's "id", and the page looks for a "user_id".
IdOfAdmin(u) == Null

Removable(p) ==
    LET list == cache[p][KeyOf(section)]
        Of(kind, ids) == {[kind |-> kind, id |-> i] : i \in ids}
    IN  CASE section = "access"   -> IF p \in SuperAdmins THEN Of("delete", {Null}) ELSE {}
          [] section = "hidden"   -> Of("hidden", DOMAIN ListedRanges(p))
          [] list = Null          -> {}
          [] section = "teams"    -> Of("dropTeam", DOMAIN list)
          [] section = "admins"   -> Of("dropAdmin", {IdOfAdmin(u) : u \in list})
          [] section = "pinned"   -> Of("unpin", list)
          [] section = "coverage" -> Of("dropNeed", {c.id : c \in list}) \cup Of("dropNeeds", {c.team : c \in list})
          [] OTHER                -> {}

AskRemoval(p, r) ==
    /\ Free(p, section)
    /\ r \in Removable(p)
    /\ ui' = [ui EXCEPT ![p].dialog = [kind |-> r.kind, id |-> r.id,
                                       shown |-> IF r.kind = "hidden" THEN ListedRanges(p) ELSE <<>>]]
    /\ UNCHANGED asks /\ KeepRest

CancelRemoval(p) ==
    /\ ui[p].dialog # Null
    /\ ui' = [ui EXCEPT ![p].dialog = Null]
    /\ UNCHANGED asks /\ KeepRest

\* Everything but the i-th row of the list as it is now.
\* Mutant: the rows are counted from zero.
RemainingFromZero(list, i) == IF i + 1 \in DOMAIN list THEN RemoveAt(list, i + 1) ELSE list

Remaining(list, i) == IF i \in DOMAIN list THEN RemoveAt(list, i) ELSE list

\* The button works until the answer is there; only the deletion of the event
\* takes it out of use meanwhile.
Confirm(p, q) ==
    LET d == ui[p].dialog  list == ListedRanges(p) IN
    /\ d # Null
    /\ IF d.kind = "hidden"
          THEN Send(p, q, "hidden", Remaining(list, d.id),
                    RangesWas(p, TRUE, IF d.shown = list THEN list[d.id] ELSE Null))
          ELSE ~(d.kind = "delete" /\ Pending(p, "delete")) /\ Send(p, q, d.kind, d.id, Null)
    /\ UNCHANGED ui /\ KeepRest

-----------------------------------------------------------------------------
Init ==
    /\ section \in Worked
    /\ db = InitDB /\ slugs = {InitDB.event.slug}
    /\ asks = [q \in Requests |-> Unsent]
    /\ ui = [p \in Pages |-> [Closed EXCEPT !.slug = InitDB.event.slug]]
    /\ cache = [p \in Pages |-> [k \in Keys |->
          IF k = "event" \/ (k = KeyOf(section) /\ k \notin LateKeys /\ Enabled(p, k))
             THEN CHOOSE v \in Views(p, k) : TRUE ELSE Null]]
    /\ fetch = [p \in Pages |-> [k \in Keys |->
          IF k = KeyOf(section) /\ k \in LateKeys /\ Enabled(p, k) THEN Asked ELSE NoFetch]]
    /\ owed = [p \in Pages |-> {}]

ServerStep(q) == Apply(q) \/ DeleteRanges(q) \/ InsertRange(q) \/ RangesDone(q)
Answer(q) == Succeeds(q) \/ Fails(q)

DetailsStep(p) ==
    \/ StartEditDetails(p) \/ CancelDetails(p)
    \/ \E v \in Names : Type(p, "name", v)
    \/ \E v \in Slugs : Type(p, "slug", v)
    \/ \E v \in Texts : Type(p, "description", v)
    \/ \E q \in Requests : SaveDetails(p, q)

AccessStep(p, q) == Toggle(p, q, "lock", "locked") \/ Toggle(p, q, "public", "public")
TeamsStep(p, q) == \E t \in Teams : SetTeam(p, q, t)
AdminsStep(p, q) == \E u \in People : AddAdmin(p, q, u)
PinnedStep(p, q) == \E u \in People : AddPinnedUser(p, q, u)
HoursStep(p, q) == \E h \in TypedHours : AddHiddenRange(p, q, h[1], h[2])

CoverageStep(p) ==
    \/ CancelEditCoverage(p)
    \/ ui[p].slug # Null /\ cache[p]["coverage"] # Null /\ \E c \in cache[p]["coverage"] : StartEditCoverage(p, c)
    \/ \E q \in Requests :
          \/ db # Null /\ \E c \in Requirement : AddCoverage(p, q, c)
          \/ \E t \in Teams, n \in Needs \cup BadNeeds : UpdateCoverage(p, q, t, n)

RemovalStep(p) ==
    \/ CancelRemoval(p)
    \/ ui[p].slug # Null /\ \E r \in Removable(p) : AskRemoval(p, r)
    \/ \E q \in Requests : Confirm(p, q)

Next ==
    \/ \E q \in Requests : ServerStep(q) \/ Answer(q)
    \/ \E p \in Pages, k \in Keys : FetchRead(p, k) \/ FetchDone(p, k) \/ FetchFails(p, k) \/ Refocus(p, k)
    \/ \E p \in Pages : DetailsStep(p) \/ CoverageStep(p) \/ RemovalStep(p)
    \/ \E p \in Pages, q \in Requests :
          AccessStep(p, q) \/ TeamsStep(p, q) \/ AdminsStep(p, q) \/ PinnedStep(p, q) \/ HoursStep(p, q)

Spec == Init /\ [][Next]_vars

-----------------------------------------------------------------------------
(* Properties.                                                             *)

\* Rows, requests, copies and pages have their types; what is stored as hidden
\* hours is hours of a day, and ends after it starts, whatever was typed.
TypeOK ==
    /\ db # Null => db \in Stores
    /\ slugs \subseteq Slugs
    /\ \A q \in Requests : asks[q].pc \in {"unsent", "sent", "inserting", "stored", "done"}
    /\ \A p \in Pages, k \in Keys : fetch[p][k].pc \in {"none", "asked", "answered"}
    /\ owed \in [Pages -> SUBSET Keys]

\* Every section reads its rows again after its own change was acknowledged:
\* until the read, the query is under way, and an answer that is older than
\* the change is thrown away.  (A query that had no answer yet is left out:
\* its first request is waited for, although it may have read before.)
OwnChangesAreReadBack ==
    \A p \in Pages : \A k \in owed[p] : fetch[p][k].pc = "asked"

\* The whole list is sent for every addition and removal.  One that starts
\* from the rows as they are, and that no other comes in between, changes
\* exactly one row: the one that was typed, or the one that the dialog was
\* opened for if the list has stayed as it was.
RangeEditsAreExact ==
    [][\A q \in Requests :
          LET w == asks[q].was
              oneMore == \A r \in HourRange : Count(db.hidden, r) = Count(Append(w.before, w.row), r)
              oneLess == \A r \in HourRange : Count(w.before, r) = Count(Append(db.hidden, w.row), r)
          IN  asks[q].pc = "inserting" /\ asks'[q].pc = "stored" /\ w.before # Null /\ w.row # Null
                 => IF w.removal THEN oneLess ELSE oneMore]_vars

\* Two admins with the details form open do not undo each other's changes: a
\* save changes no field that its user has not edited, as long as the copy it
\* is compared with is the one that the form was filled from.
SaveKeepsOthersChanges ==
    [][\A q \in Requests :
          asks[q].pc = "sent" /\ asks'[q].pc = "stored" /\ asks[q].kind = "details" /\ asks[q].was.fresh
             => \A f \in Fields \ asks[q].was.edited : db'.event[f] = db.event[f]]_vars

\* The dialog "Remove {{name}} as event admin?" does what it says: a confirmed
\* removal that reaches the event can be carried out.
ConfirmedRemovalsAreValid ==
    \A q \in Requests : Confirmed(q) /\ Reaches(q) => Valid(asks[q].kind, asks[q].arg)

=============================================================================
