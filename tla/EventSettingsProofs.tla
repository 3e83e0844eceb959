------------------------ MODULE EventSettingsProofs ------------------------
(***************************************************************************)
(* The settings page of an event, for any number of pages and requests:    *)
(* types, own changes that are read back, details that keep what others    *)
(* changed, and hidden hours that change by one row.                       *)
(***************************************************************************)
EXTENDS EventSettings, FiniteSetTheorems, TLAPS

-----------------------------------------------------------------------------
(* The inductive invariants.                                               *)

\* What a query answers.
Answers(k) ==
    CASE k = "event"    -> [details : Details, locked : BOOLEAN, public : BOOLEAN, mine : BOOLEAN]
      [] k = "teams"    -> TeamLists
      [] k = "hidden"   -> Seq(HourRange)
      [] k = "coverage" -> SUBSET Requirement
      [] OTHER          -> SUBSET People

FilledIn(c, k) == c # Null => c \in Answers(k)

FetchOK(f, k) ==
    /\ f = [pc |-> f.pc, data |-> f.data] /\ f.pc \in {"none", "asked", "answered"}
    /\ f.pc = "answered" => f.data \in Answers(k)

\* The copies of a page, and the requests that read them again.
ReadOK(cp, ft) ==
    /\ cp = [p \in Pages |-> [k \in Keys |-> cp[p][k]]]
    /\ ft = [p \in Pages |-> [k \in Keys |-> [pc |-> ft[p][k].pc, data |-> ft[p][k].data]]]
    /\ \A p \in Pages, k \in Keys : FilledIn(cp[p][k], k) /\ FetchOK(ft[p][k], k)

\* Each section sends requests of its own.
Belongs(kind, s) ==
    \/ kind = "details" /\ s = "details"
    \/ kind \in {"lock", "public", "delete"} /\ s = "access"
    \/ kind \in {"team", "dropTeam"} /\ s = "teams"
    \/ kind \in {"admin", "dropAdmin"} /\ s = "admins"
    \/ kind \in {"pin", "unpin"} /\ s = "pinned"
    \/ kind = "hidden" /\ s = "hidden"
    \/ kind \in {"addNeed", "editNeed", "dropNeed", "dropNeeds"} /\ s = "coverage"

Changes ==
    {c \in UNION {[fs -> Names \cup Slugs \cup Texts] : fs \in SUBSET Fields} :
        "slug" \in DOMAIN c => c["slug"] \in Slugs}

ArgOK(kind, arg) ==
    /\ kind = "details" => arg \in Changes
    /\ kind \in {"lock", "public"} => arg \in BOOLEAN
    /\ kind = "team" => arg \in [team : Teams, visible : BOOLEAN]
    /\ kind \in {"admin", "pin"} => arg \in People
    /\ kind = "hidden" => arg \in Seq(HourRange)
    /\ kind \in {"addNeed", "editNeed"} => arg \in Requirement

\* A sent list of hidden hours differs in one row from the list it was made from.
OneRowOff(arg, w) ==
    /\ w = [removal |-> w.removal, row |-> w.row, base |-> w.base, before |-> w.before]
    /\ w.removal \in BOOLEAN /\ w.base \in Seq(HourRange) /\ w.before = Null
    /\ ~w.removal => w.row \in HourRange /\ arg = Append(w.base, w.row)
    /\ w.removal /\ w.row # Null => \E i \in DOMAIN w.base : w.row = w.base[i] /\ arg = RemoveAt(w.base, i)

\* Stored rows and those that are still to come make up the list that was sent.
OneRowMore(rows, w) == \A r \in HourRange : Count(rows, r) = Count(Append(w.before, w.row), r)
OneRowLess(rows, w) == \A r \in HourRange : Count(w.before, r) = Count(Append(rows, w.row), r)
Halfway(w, rows) ==
    /\ w = [removal |-> w.removal, row |-> w.row, base |-> w.base, before |-> w.before]
    /\ w.before # Null /\ w.row # Null => IF w.removal THEN OneRowLess(rows, w) ELSE OneRowMore(rows, w)

AskOK(a, s) ==
    /\ a = [pc |-> a.pc, page |-> a.page, slug |-> a.slug, kind |-> a.kind, arg |-> a.arg,
            left |-> a.left, was |-> a.was]
    /\ a.pc \in {"unsent", "sent", "inserting", "stored", "done"}
    /\ a.pc \in {"sent", "inserting", "stored"} => a.page \in Pages /\ Belongs(a.kind, s)
    /\ a.pc = "sent" => ArgOK(a.kind, a.arg)
    /\ a.pc = "sent" /\ a.kind = "hidden" => OneRowOff(a.arg, a.was)
    /\ a.pc = "sent" /\ a.kind = "details" /\ a.was.fresh => DOMAIN a.arg \subseteq a.was.edited
    /\ a.pc = "inserting" => a.kind = "hidden" /\ a.left \in Seq({r \in HourRange : Sound(r)})

PageOK(u, s) ==
    /\ u = [slug |-> u.slug, form |-> u.form, opened |-> u.opened, dialog |-> u.dialog, editor |-> u.editor]
    /\ u.form # Null => u.form \in Details
    /\ u.dialog # Null =>
          /\ u.dialog = [kind |-> u.dialog.kind, id |-> u.dialog.id, shown |-> u.dialog.shown]
          /\ u.dialog.kind \in Removals \cup {"hidden", "delete"}
          /\ Belongs(u.dialog.kind, s)
          /\ u.dialog.kind = "hidden" => u.dialog.id \in DOMAIN u.dialog.shown

\* The event is there, at least for a page that cannot delete it.
StoreOK(d, s) == d # Null \/ s = "hidden" => d \in Stores

\* Two replacements of the hidden hours at a time know nothing of the rows.
Alone(as) ==
    \A q, r \in Requests :
        as[q].pc = "inserting" /\ as[r].pc = "inserting" /\ as[q].was.before # Null => q = r

AsksOK(as, s) == as = [q \in Requests |-> as[q]] /\ \A q \in Requests : AskOK(as[q], s)
PagesOK(us, s) == us = [p \in Pages |-> us[p]] /\ \A p \in Pages : PageOK(us[p], s)

Shape ==
    /\ section \in Sections /\ slugs \subseteq Slugs /\ StoreOK(db, section)
    /\ AsksOK(asks, section) /\ PagesOK(ui, section)
    /\ ReadOK(cache, fetch)
    /\ owed \in [Pages -> SUBSET Keys]

Exactness ==
    /\ Alone(asks)
    /\ \A q \in Requests : asks[q].pc = "inserting" => Halfway(asks[q].was, db.hidden \o asks[q].left)

-----------------------------------------------------------------------------
(* The operators of the module.                                            *)

\* Every set of naturals that is not empty has a least element.
LEMMA Least ==
    ASSUME NEW S, S \subseteq Nat, S # {}
    PROVE  \E x \in S : \A y \in S : x <= y
<1> DEFINE R == OpToRel(<, Nat)
<1>1. IsWellFoundedOn(R, Nat)
  BY NatLessThanWellFounded
<1>2. R = {ss \in Nat \X Nat : ss[1] < ss[2]}
  BY DEF OpToRel
<1> HIDE DEF R
<1>3. PICK x \in S : \A y \in S : ~ (<<y, x>> \in R)
  BY <1>1, WFMin
<1>4. \A y \in S : <<y, x>> \in Nat \X Nat /\ <<y, x>>[1] = y /\ <<y, x>>[2] = x
  OBVIOUS
<1>5. \A y \in S : ~ (y < x)
  BY <1>2, <1>3, <1>4
<1> QED  BY <1>5

\* Rows of hidden hours can always be listed by their start: the shortest
\* sequence that cannot would have a row that starts last, and without it the
\* others can be.
Sorted(t) == \A i \in 1 .. Len(t) - 1 : t[i].lo <= t[i + 1].lo
Ordered(rows, f) == [i \in DOMAIN rows |-> rows[f[i]]]

LEMMA OrderedTypes ==
    ASSUME NEW rows \in Seq(HourRange), NEW f \in Surjection(DOMAIN rows, DOMAIN rows)
    PROVE  /\ Ordered(rows, f) \in Seq(HourRange) /\ Len(Ordered(rows, f)) = Len(rows)
           /\ \A i \in 1 .. Len(rows) : f[i] \in 1 .. Len(rows) /\ Ordered(rows, f)[i] = rows[f[i]]
<1>1. DOMAIN rows = 1 .. Len(rows) /\ Len(rows) \in Nat
  OBVIOUS
<1>4. f \in [1 .. Len(rows) -> 1 .. Len(rows)]
  BY <1>1 DEF Surjection
<1>2. \A i \in 1 .. Len(rows) : f[i] \in 1 .. Len(rows) /\ rows[f[i]] \in HourRange
  BY <1>1, <1>4
<1>3. Ordered(rows, f) = [i \in 1 .. Len(rows) |-> rows[f[i]]]
  BY <1>1 DEF Ordered
<1> QED  BY <1>1, <1>2, <1>3

LEMMA LastStart ==
    ASSUME NEW rows \in Seq(HourRange), rows # <<>>
    PROVE  \E m \in 1 .. Len(rows) : \A i \in 1 .. Len(rows) : rows[i].lo <= rows[m].lo
<1> DEFINE T == {23 - rows[i].lo : i \in 1 .. Len(rows)}
<1>1. \A i \in 1 .. Len(rows) : rows[i].lo \in Nat /\ rows[i].lo <= 23
  <2> TAKE i \in 1 .. Len(rows)
  <2>1. rows[i] \in HourRange
    OBVIOUS
  <2>2. ASSUME NEW h \in 0 .. 23 PROVE h \in Nat /\ h <= 23
    OBVIOUS
  <2>3. rows[i].lo \in 0 .. 23
    BY <2>1 DEF HourRange
  <2> QED  BY <2>2, <2>3
<1>2. 1 \in 1 .. Len(rows)
  OBVIOUS
<1>3. T \subseteq Nat /\ T # {}
  <2>1. ASSUME NEW i \in 1 .. Len(rows) PROVE 23 - rows[i].lo \in Nat
    <3>1. rows[i].lo \in Nat /\ rows[i].lo <= 23
      BY <1>1
    <3> QED  BY <3>1
  <2> QED  BY <2>1, <1>2
<1>4. PICK x \in T : \A y \in T : x <= y
  <2> HIDE DEF T
  <2> QED  BY <1>3, Least
<1>5. PICK m \in 1 .. Len(rows) : x = 23 - rows[m].lo
  BY <1>4
<1>6. \A i \in 1 .. Len(rows) : 23 - rows[m].lo <= 23 - rows[i].lo
  BY <1>4, <1>5
<1>7. ASSUME NEW i \in 1 .. Len(rows) PROVE rows[i].lo <= rows[m].lo
  <2>1. rows[i].lo \in Nat /\ rows[m].lo \in Nat /\ 23 - rows[m].lo <= 23 - rows[i].lo
    BY <1>1, <1>6
  <2> QED  BY <2>1
<1> QED  BY <1>7

LEMMA RowsCanBeSorted ==
    ASSUME NEW rows \in Seq(HourRange)
    PROVE  \E f \in Surjection(DOMAIN rows, DOMAIN rows) : Sorted(Ordered(rows, f))
<1> DEFINE Can(s) == \E f \in Surjection(DOMAIN s, DOMAIN s) : Sorted(Ordered(s, f))
<1> DEFINE Bad == {n \in Nat : \E s \in Seq(HourRange) : Len(s) = n /\ ~Can(s)}
<1>1. SUFFICES Bad = {}
  <2>1. Len(rows) \in Nat
    OBVIOUS
  <2> QED  BY <1>1, <2>1
<1>2. SUFFICES ASSUME Bad # {} PROVE FALSE
  OBVIOUS
<1>3. PICK n \in Bad : \A y \in Bad : n <= y
  <2>1. Bad \subseteq Nat
    OBVIOUS
  <2> HIDE DEF Bad
  <2> QED  BY <1>2, <2>1, Least
<1>4. PICK s \in Seq(HourRange) : Len(s) = n /\ ~Can(s)
  BY <1>3
<1>5. n \in Nat /\ DOMAIN s = 1 .. n /\ (\A i \in 1 .. n : s[i] \in HourRange)
  BY <1>3, <1>4
<1>6. n # 0
  <2>1. SUFFICES ASSUME n = 0 PROVE FALSE
    OBVIOUS
  <2> DEFINE f == [i \in 1 .. n |-> i]
  <2>2. f \in Surjection(DOMAIN s, DOMAIN s)
    BY <1>5 DEF Surjection
  <2>3. Len(Ordered(s, f)) = 0
    BY <2>1, <2>2, <1>4, OrderedTypes
  <2>4. Sorted(Ordered(s, f))
    BY <2>3 DEF Sorted
  <2> QED  BY <2>2, <2>4, <1>4
<1>7. PICK m \in 1 .. n : \A i \in 1 .. n : s[i].lo <= s[m].lo
  <2>1. s # <<>>
    BY <1>4, <1>6
  <2> HIDE DEF Can, Bad
  <2> QED  BY <1>4, <2>1, LastStart
<1> DEFINE t == [i \in 1 .. n - 1 |-> IF i < m THEN s[i] ELSE s[i + 1]]
<1>8. /\ t \in Seq(HourRange) /\ Len(t) = n - 1 /\ DOMAIN t = 1 .. n - 1
      /\ \A i \in 1 .. n - 1 : t[i] = IF i < m THEN s[i] ELSE s[i + 1]
  <2>1. \A i \in 1 .. n - 1 : i \in 1 .. n /\ i + 1 \in 1 .. n
    BY <1>5
  <2>2. \A i \in 1 .. n - 1 : (IF i < m THEN s[i] ELSE s[i + 1]) \in HourRange
    BY <2>1, <1>5
  <2>3. n - 1 \in Nat
    BY <1>5, <1>6
  <2> QED  BY <2>2, <2>3
<1>9. Can(t)
  <2>1. n - 1 \notin Bad
    BY <1>3, <1>5
  <2>2. n - 1 \in Nat
    BY <1>5, <1>6
  <2> HIDE DEF t, Can
  <2> QED  BY <1>8, <2>1, <2>2
<1>10. PICK g \in Surjection(DOMAIN t, DOMAIN t) : Sorted(Ordered(t, g))
  <2> HIDE DEF t
  <2> QED  BY <1>9
<1> HIDE DEF t
<1>11. /\ g \in [1 .. n - 1 -> 1 .. n - 1] /\ \A w \in 1 .. n - 1 : \E v \in 1 .. n - 1 : g[v] = w
  BY <1>10, <1>8 DEF Surjection
<1> DEFINE f == [i \in 1 .. n |-> IF i = n THEN m ELSE IF g[i] < m THEN g[i] ELSE g[i] + 1]
<1>12. f \in Surjection(DOMAIN s, DOMAIN s)
  <2>1. f \in [1 .. n -> 1 .. n]
    <3>1. \A i \in 1 .. n : i # n => g[i] \in 1 .. n - 1
      BY <1>5, <1>11
    <3>2. \A i \in 1 .. n : (IF i = n THEN m ELSE IF g[i] < m THEN g[i] ELSE g[i] + 1) \in 1 .. n
      BY <1>5, <1>7, <3>1
    <3> QED  BY <3>2
  <2>2. ASSUME NEW w \in 1 .. n PROVE \E v \in 1 .. n : f[v] = w
    <3>1. CASE w = m
      <4>1. n \in 1 .. n
        BY <1>5, <1>6
      <4> QED  BY <4>1, <3>1
    <3>2. CASE w < m
      <4>1. w \in 1 .. n - 1
        BY <3>2, <1>5, <1>7
      <4>2. PICK v \in 1 .. n - 1 : g[v] = w
        BY <4>1, <1>11
      <4>3. v \in 1 .. n /\ v # n
        BY <1>5
      <4> QED  BY <4>2, <4>3, <3>2
    <3>3. CASE m < w
      <4>1. w - 1 \in 1 .. n - 1 /\ ~ (w - 1 < m)
        BY <3>3, <1>5, <1>7
      <4>2. PICK v \in 1 .. n - 1 : g[v] = w - 1
        BY <4>1, <1>11
      <4>3. v \in 1 .. n /\ v # n /\ g[v] + 1 = w
        BY <4>2, <1>5
      <4> QED  BY <4>1, <4>2, <4>3
    <3> QED  BY <3>1, <3>2, <3>3, <1>5, <1>7
  <2> HIDE DEF f
  <2> QED  BY <2>1, <2>2, <1>5 DEF Surjection
<1>13. Sorted(Ordered(s, f))
  <2>1. SUFFICES ASSUME NEW i \in 1 .. n - 1
                 PROVE  Ordered(s, f)[i].lo <= Ordered(s, f)[i + 1].lo
    <3> HIDE DEF f
    <3> QED  BY <2>1, <1>12, <1>4, OrderedTypes DEF Sorted
  <2>2. i \in 1 .. n /\ i + 1 \in 1 .. n /\ i # n /\ g[i] \in 1 .. n - 1
    BY <1>5, <1>11
  <2>3. /\ Ordered(s, f)[i] = s[f[i]] /\ Ordered(s, f)[i + 1] = s[f[i + 1]]
        /\ f[i] \in 1 .. n /\ f[i + 1] \in 1 .. n
    <3> HIDE DEF f
    <3> QED  BY <2>2, <1>12, <1>4, OrderedTypes
  <2>4. CASE i + 1 = n
    <3>1. f[i + 1] = m
      BY <2>4, <2>2
    <3> QED  BY <3>1, <2>3, <1>7
  <2>5. CASE i + 1 # n
    <3>7. i \in 1 .. n - 2 /\ i + 1 \in 1 .. n - 1
      BY <2>5, <1>5
    <3>1. i \in 1 .. n - 2 /\ i + 1 \in 1 .. n - 1 /\ g[i + 1] \in 1 .. n - 1
      BY <3>7, <1>11
    <3>2. s[f[i]] = t[g[i]]
      <4>1. f[i] = IF g[i] < m THEN g[i] ELSE g[i] + 1
        BY <2>2
      <4> QED  BY <4>1, <2>2, <1>8
    <3>3. s[f[i + 1]] = t[g[i + 1]]
      <4>1. f[i + 1] = IF g[i + 1] < m THEN g[i + 1] ELSE g[i + 1] + 1
        BY <2>2, <2>5
      <4> QED  BY <4>1, <3>1, <1>8
    <3>4. Ordered(t, g)[i] = t[g[i]] /\ Ordered(t, g)[i + 1] = t[g[i + 1]] /\ Len(Ordered(t, g)) = n - 1
      <4> HIDE DEF Can, Bad, f
      <4>1. i \in 1 .. Len(t) /\ i + 1 \in 1 .. Len(t)
        BY <3>1, <1>8
      <4> QED  BY <4>1, <1>8, <1>10, OrderedTypes
    <3>5. i \in 1 .. Len(Ordered(t, g)) - 1
      BY <3>4, <3>1, <1>5
    <3>6. Ordered(t, g)[i].lo <= Ordered(t, g)[i + 1].lo
      BY <3>5, <1>10 DEF Sorted
    <3> QED  BY <3>6, <3>2, <3>3, <3>4, <2>3
  <2> QED  BY <2>4, <2>5
<1> HIDE DEF f
<1> QED  BY <1>12, <1>13, <1>4

\* A query has something to answer, and what it answers has its type.
LEMMA SomethingToRead ==
    ASSUME db \in Stores, NEW p \in Pages, NEW k \in Keys
    PROVE  /\ Views(p, k) # {}
           /\ \A v \in Views(p, k) : v \in Answers(k)
<1>1. /\ db.event \in Details /\ db.locked \in BOOLEAN /\ db.public \in BOOLEAN /\ db.teams \in TeamLists
      /\ db.admins \in SUBSET People /\ db.pinned \in SUBSET People
      /\ db.hidden \in Seq({r \in HourRange : Sound(r)}) /\ db.coverage \in SUBSET Requirement
  BY DEF Stores
<1>2. db.hidden \in Seq(HourRange)
  BY <1>1
<1>3. CASE k = "event"
  <2>1. [details |-> db.event, locked |-> db.locked, public |-> db.public, mine |-> p \in db.admins]
           \in [details : Details, locked : BOOLEAN, public : BOOLEAN, mine : BOOLEAN]
    BY <1>1
  <2> QED  BY <2>1, <1>3 DEF Views, Answers
<1>4. CASE k = "hidden"
  <2>1. Views(p, k) = Listings(db.hidden)
    BY <1>4 DEF Views
  <2>2. PICK f \in Surjection(DOMAIN db.hidden, DOMAIN db.hidden) : Sorted(Ordered(db.hidden, f))
    BY <1>2, RowsCanBeSorted
  <2>3. Ordered(db.hidden, f) \in Listings(db.hidden)
    BY <2>2 DEF Listings, Ordered, Sorted
  <2>4. \A v \in Listings(db.hidden) : v \in Seq(HourRange)
    <3> TAKE v \in Listings(db.hidden)
    <3>1. PICK g \in Surjection(DOMAIN db.hidden, DOMAIN db.hidden) : v = Ordered(db.hidden, g)
      BY DEF Listings, Ordered
    <3> QED  BY <3>1, <1>2, OrderedTypes
  <2> QED  BY <2>1, <2>3, <2>4, <1>4 DEF Answers
<1>5. CASE k \notin {"event", "hidden"}
  <2>1. k \in {"teams", "admins", "pinned", "coverage"}
    BY <1>5 DEF Keys
  <2>2. Views(p, k) = {db[k]}
    BY <1>5 DEF Views
  <2>3. db[k] \in Answers(k)
    BY <2>1, <1>1 DEF Answers
  <2> QED  BY <2>2, <2>3
<1> QED  BY <1>3, <1>4, <1>5

\* What is changed stays of its type.
LEMMA DetailsStayTyped ==
    ASSUME NEW new \in Changes, NEW old \in Details
    PROVE  Over(new, old) \in Details /\ \A f \in Fields \ DOMAIN new : Over(new, old)[f] = old[f]
<1>1. PICK fs \in SUBSET Fields : new \in [fs -> Names \cup Slugs \cup Texts]
  BY DEF Changes
<1>2. old \in [Fields -> Names \cup Slugs \cup Texts] /\ old["slug"] \in Slugs
  BY DEF Details
<1>3. DOMAIN new = fs /\ DOMAIN old = Fields /\ DOMAIN new \cup DOMAIN old = Fields
  BY <1>1, <1>2
<1>4. Over(new, old) = [f \in Fields |-> IF f \in fs THEN new[f] ELSE old[f]]
  BY <1>3 DEF Over
<1>5. Over(new, old) \in [Fields -> Names \cup Slugs \cup Texts]
  BY <1>1, <1>2, <1>4
<1>6. "slug" \in Fields
  BY DEF Fields
<1>7. Over(new, old)["slug"] \in Slugs
  BY <1>2, <1>3, <1>4, <1>6 DEF Changes
<1> QED  BY <1>3, <1>4, <1>5, <1>7 DEF Details

LEMMA TeamsStayTyped ==
    ASSUME NEW old \in TeamLists
    PROVE  /\ \A t \in Teams, b \in BOOLEAN : Over([u \in {t} |-> b], old) \in TeamLists
           /\ \A arg : [t \in DOMAIN old \ {arg} |-> old[t]] \in TeamLists
<1>1. PICK ts \in SUBSET Teams : old \in [ts -> BOOLEAN]
  BY DEF TeamLists
<1>2. ASSUME NEW t \in Teams, NEW b \in BOOLEAN PROVE Over([u \in {t} |-> b], old) \in TeamLists
  <2>1. Over([u \in {t} |-> b], old) \in [{t} \cup ts -> BOOLEAN]
    BY <1>1 DEF Over
  <2>2. {t} \cup ts \in SUBSET Teams
    OBVIOUS
  <2> QED  BY <2>1, <2>2 DEF TeamLists
<1>3. ASSUME NEW arg PROVE [t \in DOMAIN old \ {arg} |-> old[t]] \in TeamLists
  <2>1. [t \in DOMAIN old \ {arg} |-> old[t]] \in [ts \ {arg} -> BOOLEAN]
    BY <1>1
  <2>2. ts \ {arg} \in SUBSET Teams
    OBVIOUS
  <2> QED  BY <2>1, <2>2 DEF TeamLists
<1> QED  BY <1>2, <1>3

LEMMA RowsStayTyped ==
    ASSUME db \in Stores, NEW kind, NEW arg, NEW s, ArgOK(kind, arg), Belongs(kind, s),
           kind \notin {"hidden", "delete"}
    PROVE  /\ Effect(kind, arg) \in Stores
           /\ kind = "details" => \A f \in Fields \ DOMAIN arg : Effect(kind, arg).event[f] = db.event[f]
<1>1. /\ db.event \in Details /\ db.locked \in BOOLEAN /\ db.public \in BOOLEAN /\ db.teams \in TeamLists
      /\ db.admins \in SUBSET People /\ db.pinned \in SUBSET People
      /\ db.hidden \in Seq({r \in HourRange : Sound(r)}) /\ db.coverage \in SUBSET Requirement
  BY DEF Stores
<1>2. CASE kind = "details"
  <2>1. arg \in Changes
    BY <1>2 DEF ArgOK
  <2>2. Effect(kind, arg) = [db EXCEPT !.event = Over(arg, db.event)]
    BY <1>2 DEF Effect
  <2>3. Over(arg, db.event) \in Details /\ \A f \in Fields \ DOMAIN arg : Over(arg, db.event)[f] = db.event[f]
    BY <2>1, <1>1, DetailsStayTyped
  <2>4. Effect(kind, arg).event = Over(arg, db.event)
    BY <2>2 DEF Stores
  <2> QED  BY <2>2, <2>3, <2>4 DEF Stores
<1>3. CASE kind = "lock"
  BY <1>1, <1>3 DEF Effect, Stores, ArgOK
<1>4. CASE kind = "public"
  BY <1>1, <1>4 DEF Effect, Stores, ArgOK
<1>5. CASE kind = "team"
  <2>1. arg.team \in Teams /\ arg.visible \in BOOLEAN
    BY <1>5 DEF ArgOK
  <2>2. Effect(kind, arg) = [db EXCEPT !.teams = Over([t \in {arg.team} |-> arg.visible], db.teams)]
    BY <1>5 DEF Effect
  <2>3. Over([t \in {arg.team} |-> arg.visible], db.teams) \in TeamLists
    BY <2>1, <1>1, TeamsStayTyped
  <2> QED  BY <2>2, <2>3, <1>5 DEF Stores
<1>6. CASE kind = "dropTeam"
  <2>1. Effect(kind, arg) = [db EXCEPT !.teams = [t \in DOMAIN db.teams \ {arg} |-> db.teams[t]]]
    BY <1>6 DEF Effect
  <2>2. [t \in DOMAIN db.teams \ {arg} |-> db.teams[t]] \in TeamLists
    BY <1>1, TeamsStayTyped
  <2> QED  BY <2>1, <2>2, <1>6 DEF Stores
<1>7. CASE kind = "admin"
  <2>1. Effect(kind, arg) = [db EXCEPT !.admins = db.admins \cup {arg}] /\ arg \in People
    BY <1>7 DEF Effect, ArgOK
  <2> QED  BY <2>1, <1>1, <1>7 DEF Stores
<1>8. CASE kind = "dropAdmin"
  <2>1. Effect(kind, arg) = [db EXCEPT !.admins = db.admins \ {arg}]
    BY <1>8 DEF Effect
  <2> QED  BY <2>1, <1>1, <1>8 DEF Stores
<1>9. CASE kind = "pin"
  <2>1. Effect(kind, arg) = [db EXCEPT !.pinned = db.pinned \cup {arg}] /\ arg \in People
    BY <1>9 DEF Effect, ArgOK
  <2> QED  BY <2>1, <1>1, <1>9 DEF Stores
<1>10. CASE kind = "unpin"
  <2>1. Effect(kind, arg) = [db EXCEPT !.pinned = db.pinned \ {arg}]
    BY <1>10 DEF Effect
  <2> QED  BY <2>1, <1>1, <1>10 DEF Stores
<1>11. CASE kind = "addNeed"
  <2>1. Effect(kind, arg) = [db EXCEPT !.coverage = db.coverage \cup {arg}] /\ arg \in Requirement
    BY <1>11 DEF Effect, ArgOK
  <2> QED  BY <2>1, <1>1, <1>11 DEF Stores
<1>12. CASE kind = "editNeed"
  <2>1. /\ Effect(kind, arg) = [db EXCEPT !.coverage = {IF c.id = arg.id THEN arg ELSE c : c \in db.coverage}]
        /\ arg \in Requirement
    BY <1>12 DEF Effect, ArgOK
  <2>2. {IF c.id = arg.id THEN arg ELSE c : c \in db.coverage} \in SUBSET Requirement
    BY <2>1, <1>1
  <2> QED  BY <2>1, <2>2, <1>12 DEF Stores
<1>13. CASE kind = "dropNeed"
  <2>1. Effect(kind, arg) = [db EXCEPT !.coverage = {c \in db.coverage : c.id # arg}]
    BY <1>13 DEF Effect
  <2> QED  BY <2>1, <1>1, <1>13 DEF Stores
<1>14. CASE kind = "dropNeeds"
  <2>1. Effect(kind, arg) = [db EXCEPT !.coverage = {c \in db.coverage : c.team # arg}]
    BY <1>14 DEF Effect
  <2> QED  BY <2>1, <1>1, <1>14 DEF Stores
<1> QED
  BY <1>2, <1>3, <1>4, <1>5, <1>6, <1>7, <1>8, <1>9, <1>10, <1>11, <1>12, <1>13, <1>14 DEF Belongs

\* Counting the rows of a list.
LEMMA CountIsFinite ==
    ASSUME NEW S, NEW s \in Seq(S), NEW r
    PROVE  IsFiniteSet({i \in DOMAIN s : s[i] = r}) /\ Count(s, r) \in Nat
<1>1. IsFiniteSet(1 .. Len(s)) /\ DOMAIN s = 1 .. Len(s)
  BY FS_Interval
<1>2. IsFiniteSet({i \in DOMAIN s : s[i] = r})
  BY <1>1, FS_Subset
<1> QED  BY <1>2, FS_CardinalityType DEF Count

LEMMA CountOfOneMore ==
    ASSUME NEW S, NEW s \in Seq(S), NEW x \in S, NEW r
    PROVE  Count(Append(s, x), r) = IF x = r THEN Count(s, r) + 1 ELSE Count(s, r)
<1> DEFINE A == {i \in DOMAIN s : s[i] = r}
<1> DEFINE B == {i \in DOMAIN Append(s, x) : Append(s, x)[i] = r}
<1>1. Len(s) \in Nat /\ DOMAIN s = 1 .. Len(s) /\ DOMAIN Append(s, x) = 1 .. Len(s) + 1
  OBVIOUS
<1>2. /\ \A i \in 1 .. Len(s) : Append(s, x)[i] = s[i]
      /\ Append(s, x)[Len(s) + 1] = x
  OBVIOUS
<1>3. \A i : i \in 1 .. Len(s) + 1 <=> i \in 1 .. Len(s) \/ i = Len(s) + 1
  BY <1>1
<1>4. B = IF x = r THEN A \cup {Len(s) + 1} ELSE A
  BY <1>1, <1>2, <1>3
<1>5. Len(s) + 1 \notin A
  BY <1>1
<1>6. IsFiniteSet(A) /\ Cardinality(A) \in Nat
  BY CountIsFinite DEF Count
<1>7. Cardinality(A \cup {Len(s) + 1}) = Cardinality(A) + 1
  BY <1>5, <1>6, FS_AddElement
<1>8. Cardinality(B) = IF x = r THEN Cardinality(A) + 1 ELSE Cardinality(A)
  <2> HIDE DEF A, B
  <2> QED  BY <1>4, <1>7
<1> QED  BY <1>8 DEF Count

LEMMA WithoutOneRow ==
    ASSUME NEW S, NEW s \in Seq(S), NEW i \in DOMAIN s
    PROVE  /\ RemoveAt(s, i) \in Seq(S) /\ Len(RemoveAt(s, i)) = Len(s) - 1
           /\ \A j \in 1 .. Len(s) - 1 : RemoveAt(s, i)[j] = IF j < i THEN s[j] ELSE s[j + 1]
<1> DEFINE front == SubSeq(s, 1, i - 1)
<1> DEFINE back == SubSeq(s, i + 1, Len(s))
<1>1. Len(s) \in Nat /\ i \in 1 .. Len(s) /\ (\A j \in 1 .. Len(s) : s[j] \in S)
  OBVIOUS
<1>2. front \in Seq(S) /\ Len(front) = i - 1 /\ (\A j \in 1 .. i - 1 : front[j] = s[j])
  BY <1>1
<1>3. back \in Seq(S) /\ Len(back) = Len(s) - i /\ (\A j \in 1 .. Len(s) - i : back[j] = s[i + j])
  BY <1>1
<1>4. RemoveAt(s, i) = front \o back
  BY DEF RemoveAt
<1> HIDE DEF front, back
<1>5. RemoveAt(s, i) \in Seq(S) /\ Len(RemoveAt(s, i)) = Len(s) - 1
  BY <1>1, <1>2, <1>3, <1>4
<1>6. ASSUME NEW j \in 1 .. Len(s) - 1
      PROVE  RemoveAt(s, i)[j] = IF j < i THEN s[j] ELSE s[j + 1]
  <2>1. CASE j < i
    <3>1. (front \o back)[j] = front[j]
      BY <1>1, <1>2, <1>3, <2>1
    <3> QED  BY <3>1, <1>1, <1>2, <1>4, <2>1
  <2>2. CASE ~ (j < i)
    <3>3. j \in Nat /\ i \in Nat /\ i <= j /\ j <= Len(s) - 1 /\ 1 <= i
      BY <1>1, <2>2
    <3>4. Len(front) + Len(back) = Len(s) - 1
      BY <1>1, <1>2, <1>3
    <3>5. j - (i - 1) \in Nat /\ 1 <= j - (i - 1) /\ j - (i - 1) <= Len(s) - i /\ i + (j - (i - 1)) = j + 1
      BY <1>1, <3>3
    <3>2. j - (i - 1) \in 1 .. Len(s) - i /\ i + (j - (i - 1)) = j + 1 /\ j \in 1 .. Len(front) + Len(back)
      BY <3>4, <3>5, <1>1
    <3>1. (front \o back)[j] = back[j - (i - 1)]
      <4>1. j > Len(front)
        BY <1>1, <1>2, <2>2
      <4> QED  BY <1>2, <1>3, <3>2, <4>1, SMTT(30)
    <3> QED  BY <3>1, <3>2, <1>3, <1>4, <2>2
  <2> QED  BY <2>1, <2>2
<1> QED  BY <1>5, <1>6

LEMMA CountOfOneLess ==
    ASSUME NEW S, NEW s \in Seq(S), NEW i \in DOMAIN s, NEW r
    PROVE  Count(s, r) = Count(Append(RemoveAt(s, i), s[i]), r)
<1> DEFINE t == RemoveAt(s, i)
<1> DEFINE C == {j \in DOMAIN s : s[j] = r}
<1> DEFINE B == {j \in DOMAIN t : t[j] = r}
<1> DEFINE g == [j \in B |-> IF j < i THEN j ELSE j + 1]
<1>1. /\ Len(s) \in Nat /\ DOMAIN s = 1 .. Len(s) /\ i \in 1 .. Len(s) /\ s[i] \in S
      /\ t \in Seq(S) /\ DOMAIN t = 1 .. Len(s) - 1
      /\ \A j \in 1 .. Len(s) - 1 : t[j] = IF j < i THEN s[j] ELSE s[j + 1]
  BY WithoutOneRow
<1> HIDE DEF t
<1>2. IsFiniteSet(B) /\ IsFiniteSet(C) /\ Count(t, r) = Cardinality(B) /\ Count(s, r) = Cardinality(C)
  BY <1>1, CountIsFinite DEF Count
<1>3. g \in [B -> C \ {i}]
  <2>1. ASSUME NEW j \in B PROVE (IF j < i THEN j ELSE j + 1) \in C \ {i}
    <3>1. j \in 1 .. Len(s) - 1 /\ t[j] = r
      BY <1>1
    <3>2. j \in 1 .. Len(s) /\ j + 1 \in 1 .. Len(s)
      BY <3>1, <1>1
    <3> QED  BY <3>1, <3>2, <1>1
  <2> QED  BY <2>1
<1>4. \A j, l \in B : g[j] = g[l] => j = l
  <2> SUFFICES ASSUME NEW j \in B, NEW l \in B, g[j] = g[l] PROVE j = l
    OBVIOUS
  <2>1. j \in 1 .. Len(s) - 1 /\ l \in 1 .. Len(s) - 1
    BY <1>1
  <2> QED  BY <2>1, <1>1
<1>5. ASSUME NEW m \in C \ {i} PROVE \E j \in B : g[j] = m
  <2>1. m \in 1 .. Len(s) /\ s[m] = r /\ m # i
    BY <1>1
  <2>2. CASE m < i
    <3>1. m \in 1 .. Len(s) - 1 /\ t[m] = r
      BY <2>1, <2>2, <1>1
    <3>2. m \in B
      BY <3>1, <1>1
    <3> QED  BY <3>2, <2>2
  <2>3. CASE ~ (m < i)
    <3>1. m - 1 \in 1 .. Len(s) - 1 /\ ~ (m - 1 < i) /\ (m - 1) + 1 = m
      BY <2>1, <2>3, <1>1
    <3>2. t[m - 1] = r
      BY <3>1, <2>1, <1>1
    <3>3. m - 1 \in B
      BY <3>1, <3>2, <1>1
    <3> QED  BY <3>1, <3>3
  <2> QED  BY <2>2, <2>3
<1>6. g \in Bijection(B, C \ {i})
  <2>1. DOMAIN g = B
    OBVIOUS
  <2> HIDE DEF g, B, C
  <2>2. g \in Injection(B, C \ {i})
    BY <1>3, <1>4, <2>1 DEF Injection, IsInjective
  <2>3. g \in Surjection(B, C \ {i})
    BY <1>3, <1>5 DEF Surjection
  <2> QED  BY <2>2, <2>3 DEF Bijection
<1>7. Cardinality(C \ {i}) = Cardinality(B)
  <2> HIDE DEF g, B, C
  <2>1. ExistsBijection(B, C \ {i})
    BY <1>6 DEF ExistsBijection
  <2> QED  BY <1>2, <2>1, FS_Bijection
<1>8. i \in C <=> s[i] = r
  BY <1>1
<1>9. Cardinality(C \ {i}) = IF s[i] = r THEN Cardinality(C) - 1 ELSE Cardinality(C)
  <2> HIDE DEF B, C
  <2> QED  BY <1>2, <1>8, FS_RemoveElement
<1>10. Cardinality(C) \in Nat /\ Cardinality(B) \in Nat
  <2> HIDE DEF B, C
  <2> QED  BY <1>2, FS_CardinalityType
<1>11. Count(Append(t, s[i]), r) = IF s[i] = r THEN Count(t, r) + 1 ELSE Count(t, r)
  BY <1>1, CountOfOneMore
<1>12. Count(s, r) = Count(Append(t, s[i]), r)
  <2> HIDE DEF B, C
  <2> QED  BY <1>2, <1>7, <1>9, <1>10, <1>11
<1> QED  BY <1>12 DEF t

-----------------------------------------------------------------------------
(* Steps on one request or one page.                                       *)

LEMMA OneAsk ==
    ASSUME NEW s, AsksOK(asks, s), NEW q \in Requests, NEW a, AskOK(a, s), asks' = [asks EXCEPT ![q] = a]
    PROVE  AsksOK(asks', s)
<1>1. /\ asks' = [r \in Requests |-> asks'[r]]
      /\ \A r \in Requests : asks'[r] = IF r = q THEN a ELSE asks[r]
  BY DEF AsksOK
<1> QED  BY <1>1 DEF AsksOK

LEMMA IdleAsks ==
    ASSUME NEW s
    PROVE  AskOK(Unsent, s) /\ AskOK(Done, s) /\ Unsent.pc = "unsent" /\ Done.pc = "done"
<1>1. Done = [pc |-> "done", page |-> Null, slug |-> Null, kind |-> Null, arg |-> Null, left |-> <<>>, was |-> Null]
  BY DEF Done, Unsent
<1>2. AskOK(Unsent, s)
  BY DEF Unsent, AskOK
<1>3. AskOK(Done, s)
  BY <1>1 DEF AskOK
<1> QED  BY <1>1, <1>2, <1>3 DEF Unsent

LEMMA OnePage ==
    ASSUME NEW s, PagesOK(ui, s), NEW p \in Pages, NEW u, PageOK(u, s), ui' = [ui EXCEPT ![p] = u]
    PROVE  PagesOK(ui', s)
<1>1. /\ ui' = [r \in Pages |-> ui'[r]]
      /\ \A r \in Pages : ui'[r] = IF r = p THEN u ELSE ui[r]
  BY DEF PagesOK
<1> QED  BY <1>1 DEF PagesOK

\* A request that is sent says what its page saw and typed.
LEMMA SentAsk ==
    ASSUME NEW s, AsksOK(asks, s), NEW p \in Pages, NEW q \in Requests, NEW kind, NEW arg, NEW was,
           Send(p, q, kind, arg, was), Belongs(kind, s), ArgOK(kind, arg),
           kind = "hidden" => OneRowOff(arg, was),
           kind = "details" /\ was.fresh => DOMAIN arg \subseteq was.edited
    PROVE  AsksOK(asks', s) /\ \A r \in Requests : asks'[r].pc = "inserting" => asks'[r] = asks[r]
<1> DEFINE a == [pc |-> "sent", page |-> p, slug |-> ui[p].slug, kind |-> kind, arg |-> arg, left |-> <<>>, was |-> was]
<1>1. AskOK(a, s)
  BY DEF AskOK
<1>2. asks' = [asks EXCEPT ![q] = a]
  BY DEF Send
<1>3. AsksOK(asks', s)
  <2> HIDE DEF a
  <2> QED  BY <1>1, <1>2, OneAsk
<1>4. \A r \in Requests : asks'[r] = IF r = q THEN a ELSE asks[r]
  BY <1>2 DEF AsksOK
<1> QED  BY <1>3, <1>4

\* A step of an admin leaves rows and copies alone.
LEMMA RestIsKept ==
    ASSUME Shape, KeepRest, AsksOK(asks', section), PagesOK(ui', section)
    PROVE  Shape'
BY DEF Shape, KeepRest

LEMMA ExactnessIsKept ==
    ASSUME Exactness,
           \A q \in Requests : asks'[q].pc = "inserting" => asks'[q] = asks[q] /\ db'.hidden = db.hidden
    PROVE  Exactness'
<1>1. Alone(asks')
  BY DEF Exactness, Alone
<1>2. ASSUME NEW q \in Requests, asks'[q].pc = "inserting"
      PROVE  Halfway(asks'[q].was, db'.hidden \o asks'[q].left)
  BY <1>2 DEF Exactness
<1> QED  BY <1>1, <1>2 DEF Exactness

-----------------------------------------------------------------------------
(* The requests, on the server.                                            *)

LEMMA ApplyStep ==
    ASSUME Shape, Exactness, NEW q \in Requests, Apply(q)
    PROVE  Shape' /\ Exactness'
<1> DEFINE a == asks[q]
<1> DEFINE b == [a EXCEPT !.pc = "stored"]
<1>1. /\ a.pc = "sent" /\ db # Null /\ a.kind # "hidden" /\ Valid(a.kind, a.arg)
      /\ db' = Effect(a.kind, a.arg) /\ slugs' = IF db' = Null THEN slugs ELSE slugs \cup {db'.event.slug}
      /\ asks' = [asks EXCEPT ![q].pc = "stored"]
      /\ UNCHANGED <<cache, fetch, ui, owed, section>>
  BY DEF Apply, Reaches, pageVars
<1>2. /\ AskOK(a, section) /\ Belongs(a.kind, section) /\ ArgOK(a.kind, a.arg) /\ a.page \in Pages
      /\ db \in Stores /\ section # "hidden" /\ AsksOK(asks, section)
  BY <1>1 DEF Shape, AsksOK, AskOK, StoreOK, Belongs
<1>3. StoreOK(db', section)
  <2>1. CASE a.kind = "delete"
    BY <2>1, <1>1, <1>2 DEF Effect, StoreOK
  <2>2. CASE a.kind # "delete"
    BY <2>2, <1>1, <1>2, RowsStayTyped DEF StoreOK
  <2> QED  BY <2>1, <2>2
<1>4. slugs' \subseteq Slugs
  <2>1. db' # Null => db'.event.slug \in Slugs
    BY <1>3 DEF StoreOK, Stores, Details
  <2> QED  BY <2>1, <1>1 DEF Shape
<1>5. asks' = [asks EXCEPT ![q] = b]
  BY <1>1 DEF AsksOK, Shape
<1>6. AskOK(b, section)
  BY <1>1, <1>2 DEF AskOK
<1>7. AsksOK(asks', section)
  <2> HIDE DEF b
  <2> QED  BY <1>2, <1>5, <1>6, OneAsk
<1>8. Shape'
  BY <1>1, <1>3, <1>4, <1>7 DEF Shape
<1>9. \A r \in Requests : asks'[r].pc # "inserting"
  BY <1>1, <1>2, <1>7 DEF AsksOK, AskOK, Belongs
<1>10. Exactness'
  BY <1>9, ExactnessIsKept
<1> QED  BY <1>8, <1>10

LEMMA DeleteRangesStep ==
    ASSUME Shape, Exactness, NEW q \in Requests, DeleteRanges(q)
    PROVE  /\ Shape' /\ Exactness'
           /\ \A r \in Requests : asks'[r].pc = "stored" => asks[r].pc = "stored"
<1> DEFINE a == asks[q]
<1> DEFINE w == a.was
<1> DEFINE before == IF Replacing = {} /\ SameRows(w.base, db.hidden) THEN db.hidden ELSE Null
<1> DEFINE v == [removal |-> w.removal, row |-> w.row, base |-> Null, before |-> before]
<1> DEFINE b == [pc |-> "inserting", page |-> a.page, slug |-> a.slug, kind |-> a.kind, arg |-> Null,
                 left |-> a.arg, was |-> v]
<1>1. /\ a.pc = "sent" /\ db # Null /\ a.kind = "hidden" /\ Valid("hidden", a.arg)
      /\ db' = [db EXCEPT !.hidden = <<>>]
      /\ UNCHANGED <<slugs, cache, fetch, ui, owed, section>>
  BY DEF DeleteRanges, Reaches, pageVars
<1>2. /\ AskOK(a, section) /\ Belongs(a.kind, section) /\ ArgOK(a.kind, a.arg) /\ a.page \in Pages
      /\ OneRowOff(a.arg, w) /\ db \in Stores /\ section = "hidden" /\ AsksOK(asks, section)
  BY <1>1 DEF Shape, AsksOK, AskOK, StoreOK, Belongs
<1>3. Seen(w) = v
  <2>1. Seen(w) = [w EXCEPT !.base = Null, !.before = before]
    BY DEF Seen
  <2>2. w = [removal |-> w.removal, row |-> w.row, base |-> w.base, before |-> w.before]
    BY <1>2 DEF OneRowOff
  <2> HIDE DEF before, w
  <2> QED  BY <2>1, <2>2
<1>4. asks'[q] = b
  <2> HIDE DEF v
  <2>1. asks'[q] = [a EXCEPT !.pc = "inserting", !.left = a.arg, !.arg = Null, !.was = Seen(w)]
    <3> DEFINE x == [asks[q] EXCEPT !.pc = "inserting", !.left = asks[q].arg, !.arg = Null,
                                    !.was = Seen(asks[q].was)]
    <3>1. asks' = [r \in Requests |->
              CASE r = q -> x [] r \in Replacing -> [asks[r] EXCEPT !.was.before = Null] [] OTHER -> asks[r]]
      BY DEF DeleteRanges
    <3>2. asks[q].pc # "inserting"
      BY <1>1
    <3>3. q \notin Replacing
      BY <3>2 DEF Replacing
    <3>4. x = [a EXCEPT !.pc = "inserting", !.left = a.arg, !.arg = Null, !.was = Seen(w)]
      OBVIOUS
    <3> HIDE DEF x
    <3> QED  BY <3>1, <3>3, <3>4
  <2> QED  BY <2>1, <1>2, <1>3 DEF AskOK
<1>5. \A r \in Requests : r # q =>
         asks'[r] = IF asks[r].pc = "inserting" THEN [asks[r] EXCEPT !.was.before = Null] ELSE asks[r]
  BY DEF DeleteRanges, Replacing
<1>6. a.arg \in Seq({r \in HourRange : Sound(r)})
  <2>1. a.arg \in Seq(HourRange) /\ \A i \in DOMAIN a.arg : Sound(a.arg[i])
    BY <1>1, <1>2 DEF ArgOK, Valid
  <2>2. \A i \in DOMAIN a.arg : a.arg[i] \in {r \in HourRange : Sound(r)}
    BY <2>1
  <2> QED  BY <2>1, <2>2
<1>7. AskOK(b, section)
  BY <1>1, <1>2, <1>6 DEF AskOK
<1>8. ASSUME NEW r \in Requests, r # q, asks[r].pc = "inserting"
      PROVE  /\ AskOK(asks'[r], section) /\ asks'[r].was.before = Null
             /\ Halfway(asks'[r].was, db'.hidden \o asks'[r].left) /\ asks'[r].pc = "inserting"
  <2> DEFINE c == asks[r]
  <2> DEFINE x == [removal |-> c.was.removal, row |-> c.was.row, base |-> c.was.base, before |-> Null]
  <2>1. AskOK(c, section) /\ Halfway(c.was, db.hidden \o c.left)
    BY <1>2, <1>8 DEF AsksOK, Exactness
  <2>2. c.was = [removal |-> c.was.removal, row |-> c.was.row, base |-> c.was.base, before |-> c.was.before]
    BY <2>1 DEF Halfway
  <2>3. /\ asks'[r] = [pc |-> c.pc, page |-> c.page, slug |-> c.slug, kind |-> c.kind, arg |-> c.arg,
                       left |-> c.left, was |-> asks'[r].was]
        /\ asks'[r].was = x
    BY <1>5, <1>8, <2>1, <2>2 DEF AskOK
  <2>4. AskOK(asks'[r], section)
    BY <2>1, <2>3, <1>8 DEF AskOK
  <2> QED  BY <2>3, <2>4, <1>8 DEF Halfway
<1>9. AsksOK(asks', section)
  <2>1. asks' = [r \in Requests |-> asks'[r]]
    BY DEF DeleteRanges
  <2>2. \A r \in Requests : AskOK(asks'[r], section)
    <3> HIDE DEF b
    <3> QED  BY <1>2, <1>4, <1>5, <1>7, <1>8 DEF AsksOK
  <2> QED  BY <2>1, <2>2 DEF AsksOK
<1>10. db' \in Stores /\ db'.hidden = <<>>
  <2>1. <<>> \in Seq({r \in HourRange : Sound(r)})
    OBVIOUS
  <2> QED  BY <2>1, <1>1, <1>2 DEF Stores
<1>11. Shape'
  BY <1>1, <1>9, <1>10 DEF Shape, StoreOK
<1>12. Alone(asks')
  <2> SUFFICES ASSUME NEW r \in Requests, NEW t \in Requests, asks'[r].pc = "inserting",
                      asks'[t].pc = "inserting", asks'[r].was.before # Null
               PROVE  r = t
    BY DEF Alone
  <2>1. r = q
    BY <1>5, <1>8
  <2>2. v.before # Null
    BY <2>1, <1>4
  <2>3. Replacing = {}
    BY <2>2
  <2> QED  BY <2>1, <2>3, <1>5 DEF Replacing
<1>13. Halfway(v, a.arg)
  <2> SUFFICES ASSUME before # Null, w.row # Null
               PROVE  IF w.removal THEN OneRowLess(a.arg, v) ELSE OneRowMore(a.arg, v)
    BY DEF Halfway
  <2>1. before = db.hidden /\ before \in Seq(HourRange) /\ \A r \in HourRange : Count(w.base, r) = Count(before, r)
    BY <1>2 DEF SameRows, Stores
  <2>2. w.base \in Seq(HourRange)
    BY <1>2 DEF OneRowOff
  <2> HIDE DEF before
  <2>3. CASE ~w.removal
    <3>1. w.row \in HourRange /\ a.arg = Append(w.base, w.row)
      BY <2>3, <1>2 DEF OneRowOff
    <3>2. ASSUME NEW r \in HourRange PROVE Count(a.arg, r) = Count(Append(before, w.row), r)
      <4>1. Count(Append(w.base, w.row), r) = IF w.row = r THEN Count(w.base, r) + 1 ELSE Count(w.base, r)
        BY <2>2, <3>1, CountOfOneMore
      <4>2. Count(Append(before, w.row), r) = IF w.row = r THEN Count(before, r) + 1 ELSE Count(before, r)
        BY <2>1, <3>1, CountOfOneMore
      <4> QED  BY <4>1, <4>2, <3>1, <2>1
    <3> QED  BY <3>2, <2>3 DEF OneRowMore
  <2>4. CASE w.removal
    <3>1. PICK i \in DOMAIN w.base : w.row = w.base[i] /\ a.arg = RemoveAt(w.base, i)
      BY <2>4, <1>2 DEF OneRowOff
    <3>2. ASSUME NEW r \in HourRange PROVE Count(before, r) = Count(Append(a.arg, w.row), r)
      <4>1. Count(w.base, r) = Count(Append(a.arg, w.row), r)
        BY <2>2, <3>1, CountOfOneLess
      <4> QED  BY <4>1, <2>1
    <3> QED  BY <3>2, <2>4 DEF OneRowLess
  <2> QED  BY <2>3, <2>4
<1>14. ASSUME NEW r \in Requests, asks'[r].pc = "inserting"
       PROVE  Halfway(asks'[r].was, db'.hidden \o asks'[r].left)
  <2>1. CASE r = q
    <3>1. <<>> \o a.arg = a.arg
      BY <1>6
    <3>2. asks'[r].was = v /\ asks'[r].left = a.arg
      BY <2>1, <1>4
    <3> HIDE DEF v
    <3> QED  BY <3>1, <3>2, <1>10, <1>13
  <2>2. CASE r # q
    BY <2>2, <1>5, <1>8, <1>14
  <2> QED  BY <2>1, <2>2
<1>15. \A r \in Requests : asks'[r].pc = "stored" => asks[r].pc = "stored"
  <2>1. asks'[q].pc = "inserting"
    BY <1>4
  <2>2. ASSUME NEW r \in Requests, r # q PROVE asks'[r].pc = asks[r].pc
    BY <2>2, <1>5, <1>8
  <2> QED  BY <2>1, <2>2
<1> QED  BY <1>11, <1>12, <1>14, <1>15 DEF Exactness

\* A row that is moved from one list to the end of the other.
LEMMA MovedRow ==
    ASSUME NEW S, NEW s \in Seq(S), NEW t \in Seq(S), t # <<>>
    PROVE  Append(s, Head(t)) \o Tail(t) = s \o t
<1> DEFINE u == Append(s, Head(t)) \o Tail(t)
<1> DEFINE v == s \o t
<1>1. /\ Len(s) \in Nat /\ Len(t) \in Nat \ {0} /\ Len(Tail(t)) = Len(t) - 1 /\ Len(Append(s, Head(t))) = Len(s) + 1
      /\ Head(t) = t[1] /\ Head(t) \in S /\ Tail(t) \in Seq(S) /\ Append(s, Head(t)) \in Seq(S)
  OBVIOUS
<1>2. u \in Seq(S) /\ v \in Seq(S) /\ Len(u) = Len(s) + Len(t) /\ Len(v) = Len(s) + Len(t)
  BY <1>1
<1>3. ASSUME NEW i \in 1 .. Len(s) + Len(t) PROVE u[i] = v[i]
  <2>1. CASE i <= Len(s)
    BY <2>1, <1>1
  <2>2. CASE i = Len(s) + 1
    BY <2>2, <1>1
  <2>3. CASE i > Len(s) + 1
    <3>1. i - (Len(s) + 1) \in 1 .. Len(Tail(t)) /\ i - Len(s) \in 1 .. Len(t) /\ (i - (Len(s) + 1)) + 1 = i - Len(s)
      BY <2>3, <1>1
    <3>2. Tail(t)[i - (Len(s) + 1)] = t[(i - (Len(s) + 1)) + 1]
      BY <3>1
    <3>3. u[i] = Tail(t)[i - (Len(s) + 1)]
      BY <3>1, <2>3, <1>1
    <3>4. v[i] = t[i - Len(s)]
      BY <3>1, <2>3, <1>1
    <3> QED  BY <3>1, <3>2, <3>3, <3>4
  <2> QED  BY <2>1, <2>2, <2>3, <1>1
<1> HIDE DEF u, v
<1>4. u = v
  BY <1>2, <1>3
<1> QED  BY <1>4 DEF u, v

LEMMA InsertRangeStep ==
    ASSUME Shape, Exactness, NEW q \in Requests, InsertRange(q)
    PROVE  /\ Shape' /\ Exactness'
           /\ \A r \in Requests : asks'[r].pc = "stored" => asks[r].pc = "stored"
<1> DEFINE Rows == {r \in HourRange : Sound(r)}
<1> DEFINE a == asks[q]
<1> DEFINE l == Tail(a.left)
<1> DEFINE b == [pc |-> a.pc, page |-> a.page, slug |-> a.slug, kind |-> a.kind, arg |-> a.arg,
                 left |-> l, was |-> a.was]
<1>1. /\ a.pc = "inserting" /\ a.left # <<>> /\ db # Null
      /\ db' = [db EXCEPT !.hidden = Append(db.hidden, Head(a.left))]
      /\ asks' = [asks EXCEPT ![q].left = Tail(a.left)]
      /\ UNCHANGED <<slugs, cache, fetch, ui, owed, section>>
  BY DEF InsertRange, Replacing, pageVars
<1>2. /\ AskOK(a, section) /\ Belongs(a.kind, section) /\ a.page \in Pages /\ a.left \in Seq(Rows)
      /\ section = "hidden" /\ db \in Stores /\ AsksOK(asks, section)
  BY <1>1 DEF Shape, AsksOK, AskOK, StoreOK, Belongs
<1>3. Head(a.left) \in Rows /\ Tail(a.left) \in Seq(Rows) /\ db.hidden \in Seq(Rows)
  <2>1. db.hidden \in Seq(Rows)
    BY <1>2 DEF Stores
  <2> HIDE DEF Rows
  <2> QED  BY <1>1, <1>2, <2>1
<1>4. db' \in Stores /\ db'.hidden = Append(db.hidden, Head(a.left))
  <2>1. Append(db.hidden, Head(a.left)) \in Seq(Rows)
    <3> HIDE DEF Rows
    <3> QED  BY <1>3
  <2> QED  BY <2>1, <1>1, <1>2 DEF Stores
<1>5. asks' = [r \in Requests |-> asks'[r]] /\ asks'[q] = b /\ \A r \in Requests : r # q => asks'[r] = asks[r]
  <2>1. a = [pc |-> a.pc, page |-> a.page, slug |-> a.slug, kind |-> a.kind, arg |-> a.arg,
             left |-> a.left, was |-> a.was]
    BY <1>2 DEF AskOK
  <2>2. asks = [r \in Requests |-> asks[r]]
    BY <1>2 DEF AsksOK
  <2>3. asks' = [asks EXCEPT ![q].left = l]
    BY <1>1
  <2> HIDE DEF l
  <2> QED  BY <2>1, <2>2, <2>3
<1>7. AskOK(b, section)
  BY <1>1, <1>2, <1>3 DEF AskOK
<1>6. b.pc = a.pc /\ b.left = Tail(a.left) /\ b.was = a.was
  OBVIOUS
<1> HIDE DEF b
<1>8. AsksOK(asks', section) /\ \A r \in Requests : asks'[r] = IF r = q THEN b ELSE asks[r]
  BY <1>2, <1>5, <1>7 DEF AsksOK
<1>9. Shape'
  BY <1>1, <1>4, <1>8 DEF Shape, StoreOK
<1>10. \A r \in Requests : asks'[r].pc = asks[r].pc /\ asks'[r].was = asks[r].was
  BY <1>6, <1>8
<1>11. Alone(asks')
  BY <1>10 DEF Exactness, Alone
<1>12. Append(db.hidden, Head(a.left)) \o Tail(a.left) = db.hidden \o a.left
  <2> HIDE DEF Rows
  <2> QED  BY <1>1, <1>2, <1>3, MovedRow
<1>13. ASSUME NEW r \in Requests, asks'[r].pc = "inserting"
       PROVE  Halfway(asks'[r].was, db'.hidden \o asks'[r].left)
  <2>1. Halfway(asks[r].was, db.hidden \o asks[r].left)
    BY <1>13, <1>10 DEF Exactness
  <2>2. CASE r = q
    <3>1. asks'[r].left = Tail(a.left) /\ asks'[r].was = a.was
      <4>1. asks'[q] = b
        BY <1>8
      <4>2. b.left = Tail(a.left) /\ b.was = a.was
        BY <1>6
      <4> QED  BY <4>1, <4>2, <2>2
    <3> QED  BY <3>1, <2>1, <2>2, <1>4, <1>12
  <2>3. CASE r # q
    <3>1. asks[r].was.before = Null \/ asks[q].was.before = Null
      BY <2>3, <1>1, <1>10, <1>13 DEF Exactness, Alone
    <3>2. asks[r].was.before = Null
      BY <2>3, <1>1, <1>10, <1>13 DEF Exactness, Alone
    <3> QED  BY <3>2, <2>1, <1>10 DEF Halfway
  <2> QED  BY <2>2, <2>3
<1> QED  BY <1>9, <1>10, <1>11, <1>13 DEF Exactness

LEMMA RangesDoneStep ==
    ASSUME Shape, Exactness, NEW q \in Requests, RangesDone(q)
    PROVE  /\ Shape' /\ Exactness'
           /\ LET w == asks[q].was IN
              w.before # Null /\ w.row # Null =>
                  IF w.removal THEN OneRowLess(db.hidden, w) ELSE OneRowMore(db.hidden, w)
           /\ \A r \in Requests : r # q => asks'[r] = asks[r]
<1> DEFINE Rows == {r \in HourRange : Sound(r)}
<1> DEFINE a == asks[q]
<1> DEFINE w == [a.was EXCEPT !.before = Null, !.row = Null]
<1> DEFINE b == [pc |-> "stored", page |-> a.page, slug |-> a.slug, kind |-> a.kind, arg |-> a.arg,
                 left |-> a.left, was |-> w]
<1>1. /\ a.pc = "inserting" /\ a.left = <<>>
      /\ asks' = [asks EXCEPT ![q].pc = "stored", ![q].was.before = Null, ![q].was.row = Null]
      /\ UNCHANGED <<db, slugs, cache, fetch, ui, owed, section>>
  BY DEF RangesDone, Replacing, pageVars
<1>2. /\ AskOK(a, section) /\ Belongs(a.kind, section) /\ a.page \in Pages
      /\ section = "hidden" /\ db \in Stores /\ AsksOK(asks, section)
  BY <1>1 DEF Shape, AsksOK, AskOK, StoreOK, Belongs
<1>3. Halfway(a.was, db.hidden \o a.left)
  BY <1>1 DEF Exactness
<1>4. db.hidden \o a.left = db.hidden
  <2>1. db.hidden \in Seq(Rows)
    BY <1>2 DEF Stores
  <2> HIDE DEF Rows
  <2> QED  BY <1>1, <2>1
<1>5. asks' = [r \in Requests |-> asks'[r]] /\ asks'[q] = b /\ \A r \in Requests : r # q => asks'[r] = asks[r]
  <2>1. a = [pc |-> a.pc, page |-> a.page, slug |-> a.slug, kind |-> a.kind, arg |-> a.arg,
             left |-> a.left, was |-> a.was]
    BY <1>2 DEF AskOK
  <2>2. asks = [r \in Requests |-> asks[r]]
    BY <1>2 DEF AsksOK
  <2>3. asks' = [asks EXCEPT ![q].pc = "stored", ![q].was = w]
    BY <1>1, <2>2
  <2> HIDE DEF w
  <2> QED  BY <2>1, <2>2, <2>3
<1> HIDE DEF b
<1>7. AskOK(b, section)
  BY <1>2 DEF AskOK, b
<1>8. AsksOK(asks', section) /\ \A r \in Requests : asks'[r] = IF r = q THEN b ELSE asks[r]
  BY <1>2, <1>5, <1>7 DEF AsksOK
<1>9. Shape'
  BY <1>1, <1>8 DEF Shape
<1>10. \A r \in Requests : asks'[r].pc = "inserting" => asks'[r] = asks[r]
  BY <1>8 DEF b
<1>11. Exactness'
  BY <1>1, <1>10, ExactnessIsKept
<1> QED  BY <1>3, <1>4, <1>8, <1>9, <1>11 DEF Halfway

-----------------------------------------------------------------------------
(* Reading, on the page.                                                   *)

CopyStep(p, k) ==
    \/ cache' = cache
    \/ \E c : FilledIn(c, k) /\ cache' = [cache EXCEPT ![p][k] = c]

FetchStep(p, k, f) == fetch' = [fetch EXCEPT ![p][k] = f]

\* One query of one page reads on.
LEMMA OneRead ==
    ASSUME Shape, NEW p \in Pages, NEW k \in Keys, NEW f, FetchOK(f, k), FetchStep(p, k, f), CopyStep(p, k)
    PROVE  /\ ReadOK(cache', fetch')
           /\ \A o \in Pages, j \in Keys : fetch'[o][j] = IF o = p /\ j = k THEN f ELSE fetch[o][j]
<1>1. /\ cache = [o \in Pages |-> [j \in Keys |-> cache[o][j]]]
      /\ fetch = [o \in Pages |-> [j \in Keys |-> [pc |-> fetch[o][j].pc, data |-> fetch[o][j].data]]]
      /\ \A o \in Pages, j \in Keys :
            /\ FilledIn(cache[o][j], j) /\ fetch[o][j].pc \in {"none", "asked", "answered"}
            /\ fetch[o][j].pc = "answered" => fetch[o][j].data \in Answers(j)
  BY DEF Shape, ReadOK, FetchOK
<1>2. \A o \in Pages, j \in Keys : fetch'[o][j] = IF o = p /\ j = k THEN f ELSE fetch[o][j]
  BY <1>1 DEF FetchStep
<1>3. fetch' = [o \in Pages |-> [j \in Keys |-> [pc |-> fetch'[o][j].pc, data |-> fetch'[o][j].data]]]
  <2>1. DOMAIN fetch' = Pages /\ fetch' = [o \in Pages |-> fetch'[o]]
    BY <1>1 DEF FetchStep
  <2>2. ASSUME NEW o \in Pages
        PROVE  fetch'[o] = [j \in Keys |-> [pc |-> fetch'[o][j].pc, data |-> fetch'[o][j].data]]
    <3>1. fetch'[o] = [j \in Keys |-> fetch'[o][j]]
      BY <1>1 DEF FetchStep
    <3>2. \A j \in Keys : fetch'[o][j] = [pc |-> fetch'[o][j].pc, data |-> fetch'[o][j].data]
      BY <1>1, <1>2 DEF FetchOK
    <3> QED  BY <3>1, <3>2
  <2> QED  BY <2>1, <2>2
<1>4. /\ cache' = [o \in Pages |-> [j \in Keys |-> cache'[o][j]]]
      /\ \A o \in Pages, j \in Keys : FilledIn(cache'[o][j], j)
  <2>1. CASE cache' = cache
    BY <2>1, <1>1
  <2>2. ASSUME NEW c, FilledIn(c, k), cache' = [cache EXCEPT ![p][k] = c]
        PROVE  /\ cache' = [o \in Pages |-> [j \in Keys |-> cache'[o][j]]]
               /\ \A o \in Pages, j \in Keys : FilledIn(cache'[o][j], j)
    <3>1. \A o \in Pages, j \in Keys : cache'[o][j] = IF o = p /\ j = k THEN c ELSE cache[o][j]
      BY <2>2, <1>1
    <3>2. cache' = [o \in Pages |-> [j \in Keys |-> cache'[o][j]]]
      BY <2>2, <1>1
    <3>3. ASSUME NEW o \in Pages, NEW j \in Keys PROVE FilledIn(cache'[o][j], j)
      <4>1. CASE o = p /\ j = k
        BY <4>1, <3>1, <2>2
      <4>2. CASE ~ (o = p /\ j = k)
        BY <4>2, <3>1, <1>1
      <4> QED  BY <4>1, <4>2
    <3> QED  BY <3>2, <3>3
  <2> QED  BY <2>1, <2>2 DEF CopyStep
<1>5. \A o \in Pages, j \in Keys : FetchOK(fetch'[o][j], j)
  BY <1>1, <1>2 DEF Shape, ReadOK
<1> QED  BY <1>2, <1>3, <1>4, <1>5 DEF ReadOK

LEMMA ReadSteps ==
    ASSUME Shape, Exactness, OwnChangesAreReadBack, NEW p \in Pages, NEW k \in Keys,
           FetchRead(p, k) \/ FetchDone(p, k) \/ FetchFails(p, k) \/ Refocus(p, k)
    PROVE  Shape' /\ Exactness' /\ OwnChangesAreReadBack'
<1>1. UNCHANGED <<db, slugs, asks, ui, section>>
  BY DEF FetchRead, FetchDone, FetchFails, Refocus
<1>2. owed \in [Pages -> SUBSET Keys] /\ \A o \in Pages : \A j \in owed[o] : fetch[o][j].pc = "asked"
  BY DEF Shape, OwnChangesAreReadBack
<1>3. \A o \in Pages, j \in Keys : fetch[o][j].pc = "answered" => fetch[o][j].data \in Answers(j)
  BY DEF Shape, ReadOK, FetchOK
<1>4. Exactness'
  BY <1>1, ExactnessIsKept
<1>5. ASSUME NEW f, FetchOK(f, k), FetchStep(p, k, f), CopyStep(p, k),
             (owed' = owed /\ k \notin owed[p]) \/ owed' = [owed EXCEPT ![p] = @ \ {k}]
      PROVE  Shape' /\ OwnChangesAreReadBack'
  <2>1. /\ ReadOK(cache', fetch')
        /\ \A o \in Pages, j \in Keys : fetch'[o][j] = IF o = p /\ j = k THEN f ELSE fetch[o][j]
    BY <1>5, OneRead
  <2>2. owed' \in [Pages -> SUBSET Keys] /\ k \notin owed'[p] /\ \A o \in Pages : owed'[o] \subseteq owed[o]
    BY <1>2, <1>5
  <2>3. Shape'
    BY <1>1, <2>1, <2>2 DEF Shape
  <2>4. OwnChangesAreReadBack'
    <3> SUFFICES ASSUME NEW o \in Pages, NEW j \in owed'[o] PROVE fetch'[o][j].pc = "asked"
      BY DEF OwnChangesAreReadBack
    <3>1. j \in Keys /\ j \in owed[o] /\ ~ (o = p /\ j = k)
      BY <2>2
    <3> QED  BY <3>1, <2>1, <1>2
  <2> QED  BY <2>3, <2>4
<1>6. CASE FetchRead(p, k)
  <2>1. db \in Stores
    BY <1>6 DEF FetchRead, Readable, Shape, StoreOK
  <2>2. PICK v \in Views(p, k) : fetch' = [fetch EXCEPT ![p][k] = [pc |-> "answered", data |-> v]]
    BY <1>6 DEF FetchRead
  <2>3. v \in Answers(k)
    BY <2>1, SomethingToRead
  <2>4. UNCHANGED cache /\ owed' = [owed EXCEPT ![p] = @ \ {k}]
    BY <1>6 DEF FetchRead
  <2> DEFINE f == [pc |-> "answered", data |-> v]
  <2>5. FetchOK(f, k) /\ CopyStep(p, k)
    BY <2>3, <2>4 DEF FetchOK, CopyStep
  <2> HIDE DEF f
  <2>6. FetchStep(p, k, f)
    BY <2>2 DEF f, FetchStep
  <2> QED  BY <2>4, <2>5, <2>6, <1>4, <1>5
<1>7. CASE FetchDone(p, k)
  <2>1. fetch[p][k].pc = "answered" /\ fetch[p][k].data \in Answers(k)
    BY <1>3, <1>7 DEF FetchDone
  <2>2. /\ cache' = [cache EXCEPT ![p][k] = fetch[p][k].data] /\ FilledIn(fetch[p][k].data, k)
        /\ FetchStep(p, k, NoFetch) /\ owed' = owed
    BY <2>1, <1>7 DEF FetchDone, FilledIn, FetchStep
  <2>3. k \notin owed[p]
    BY <2>1, <1>2
  <2>4. FetchOK(NoFetch, k) /\ CopyStep(p, k)
    BY <2>2 DEF FetchOK, NoFetch, CopyStep
  <2> QED  BY <2>2, <2>3, <2>4, <1>4, <1>5
<1>8. CASE FetchFails(p, k)
  <2>1. /\ UNCHANGED cache /\ owed' = [owed EXCEPT ![p] = @ \ {k}]
        /\ FetchStep(p, k, NoFetch)
    BY <1>8 DEF FetchFails, FetchStep
  <2>2. FetchOK(NoFetch, k) /\ CopyStep(p, k)
    BY <2>1 DEF FetchOK, NoFetch, CopyStep
  <2> QED  BY <2>1, <2>2, <1>4, <1>5
<1>9. CASE Refocus(p, k)
  <2>1. db \in Stores
    BY <1>9 DEF Refocus, Readable, Shape, StoreOK
  <2>2. PICK v \in Views(p, k) : fetch' = [fetch EXCEPT ![p][k] = [pc |-> "answered", data |-> v]]
    BY <1>9 DEF Refocus
  <2>3. v \in Answers(k)
    BY <2>1, SomethingToRead
  <2>4. UNCHANGED cache /\ owed' = owed
    BY <1>9 DEF Refocus
  <2>5. fetch[p][k].pc = "none"
    BY <1>9 DEF Refocus, NoFetch
  <2>6. k \notin owed[p]
    BY <2>5, <1>2
  <2> DEFINE f == [pc |-> "answered", data |-> v]
  <2>7. FetchOK(f, k) /\ CopyStep(p, k)
    BY <2>3, <2>4 DEF FetchOK, CopyStep
  <2> HIDE DEF f
  <2>8. FetchStep(p, k, f)
    BY <2>2 DEF f, FetchStep
  <2> QED  BY <2>4, <2>6, <2>7, <2>8, <1>4, <1>5
<1> QED  BY <1>6, <1>7, <1>8, <1>9

\* All queries of one page, after an answer.
RowOK(c, f) ==
    /\ c = [k \in Keys |-> c[k]] /\ f = [k \in Keys |-> f[k]]
    /\ \A k \in Keys : FilledIn(c[k], k) /\ FetchOK(f[k], k)
RowStep(p, c, f) == cache' = [cache EXCEPT ![p] = c] /\ fetch' = [fetch EXCEPT ![p] = f]

LEMMA OneRow ==
    ASSUME Shape, NEW p \in Pages, NEW c, NEW f, RowOK(c, f), RowStep(p, c, f)
    PROVE  /\ ReadOK(cache', fetch')
           /\ \A o \in Pages : fetch'[o] = IF o = p THEN f ELSE fetch[o]
<1>1. /\ cache = [o \in Pages |-> [j \in Keys |-> cache[o][j]]]
      /\ fetch = [o \in Pages |-> [j \in Keys |-> [pc |-> fetch[o][j].pc, data |-> fetch[o][j].data]]]
      /\ \A o \in Pages, j \in Keys : FilledIn(cache[o][j], j) /\ FetchOK(fetch[o][j], j)
  BY DEF Shape, ReadOK
<1>2. /\ cache' = [o \in Pages |-> cache'[o]] /\ fetch' = [o \in Pages |-> fetch'[o]]
      /\ \A o \in Pages : cache'[o] = (IF o = p THEN c ELSE cache[o]) /\ fetch'[o] = (IF o = p THEN f ELSE fetch[o])
  BY <1>1 DEF RowStep
<1>3. ASSUME NEW o \in Pages
      PROVE  /\ cache'[o] = [j \in Keys |-> cache'[o][j]]
             /\ fetch'[o] = [j \in Keys |-> [pc |-> fetch'[o][j].pc, data |-> fetch'[o][j].data]]
             /\ \A j \in Keys : FilledIn(cache'[o][j], j) /\ FetchOK(fetch'[o][j], j)
  <2>1. CASE o = p
    <3>1. cache'[o] = c /\ fetch'[o] = f
      BY <1>2, <2>1
    <3>2. \A j \in Keys : f[j] = [pc |-> f[j].pc, data |-> f[j].data]
      BY DEF RowOK, FetchOK
    <3>3. f = [j \in Keys |-> [pc |-> f[j].pc, data |-> f[j].data]]
      BY <3>2 DEF RowOK
    <3> QED  BY <3>1, <3>3 DEF RowOK
  <2>2. CASE o # p
    <3>1. cache'[o] = cache[o] /\ fetch'[o] = fetch[o]
      BY <1>2, <2>2
    <3>2. /\ cache[o] = [j \in Keys |-> cache[o][j]]
          /\ fetch[o] = [j \in Keys |-> [pc |-> fetch[o][j].pc, data |-> fetch[o][j].data]]
      BY <1>1
    <3> QED  BY <3>1, <3>2, <1>1
  <2> QED  BY <2>1, <2>2
<1> QED  BY <1>2, <1>3 DEF ReadOK

LEMMA FetchKinds ==
    ASSUME NEW k
    PROVE  /\ FetchOK(NoFetch, k) /\ FetchOK(Asked, k) /\ Asked.pc = "asked"
           /\ FilledIn(Null, k)
BY DEF FetchOK, NoFetch, Asked, FilledIn

LEMMA PageKinds ==
    ASSUME NEW s
    PROVE  /\ PageOK(Closed, s)
           /\ \A u : PageOK(u, s) => /\ PageOK(WithoutDialog(u), s)
                                     /\ PageOK([u EXCEPT !.dialog = Null], s)
                                     /\ PageOK([u EXCEPT !.form = Null, !.opened = Null], s)
                                     /\ PageOK([u EXCEPT !.editor = Null], s)
<1>1. PageOK(Closed, s)
  BY DEF PageOK, Closed
<1>2. ASSUME NEW u, PageOK(u, s)
      PROVE  /\ PageOK([u EXCEPT !.dialog = Null], s)
             /\ PageOK([u EXCEPT !.form = Null, !.opened = Null], s)
             /\ PageOK([u EXCEPT !.editor = Null], s)
  <2>1. PICK x : x = [u EXCEPT !.dialog = Null]
    OBVIOUS
  <2>2. PageOK(x, s)
    BY <1>2, <2>1 DEF PageOK
  <2>3. PICK y : y = [u EXCEPT !.form = Null, !.opened = Null]
    OBVIOUS
  <2>4. PageOK(y, s)
    BY <1>2, <2>3 DEF PageOK
  <2>5. PICK z : z = [u EXCEPT !.editor = Null]
    OBVIOUS
  <2>6. PageOK(z, s)
    BY <1>2, <2>5 DEF PageOK
  <2> QED  BY <2>1, <2>2, <2>3, <2>4, <2>5, <2>6
<1> QED  BY <1>1, <1>2 DEF WithoutDialog

LEMMA FailsStep ==
    ASSUME Shape, Exactness, OwnChangesAreReadBack, NEW q \in Requests, Fails(q)
    PROVE  Shape' /\ Exactness' /\ OwnChangesAreReadBack'
<1> DEFINE a == asks[q]
<1> DEFINE p == a.page
<1>1. a.pc \in {"sent", "inserting", "stored"} /\ asks' = [asks EXCEPT ![q] = Done] /\ KeepRest
  BY DEF Fails, KeepRest
<1>2. p \in Pages /\ AsksOK(asks, section) /\ PagesOK(ui, section) /\ PageOK(ui[p], section)
  BY <1>1 DEF Shape, AsksOK, AskOK, PagesOK
<1>3. AsksOK(asks', section)
  BY <1>1, <1>2, IdleAsks, OneAsk
<1>4. PagesOK(ui', section)
  <2>1. \/ ui' = [ui EXCEPT ![p] = [ui[p] EXCEPT !.dialog = Null]]
        \/ ui' = [ui EXCEPT ![p] = WithoutDialog(ui[p])]
        \/ ui' = [ui EXCEPT ![p] = ui[p]]
    <3>1. ui' = [ui EXCEPT ![p] =
                    CASE a.kind = "delete" -> IF ui[p].dialog # Null /\ ui[p].dialog.kind = "delete"
                                                 THEN [ui[p] EXCEPT !.dialog = Null] ELSE ui[p]
                      [] Confirmed(q)      -> WithoutDialog(ui[p])
                      [] OTHER             -> ui[p]]
      BY DEF Fails
    <3>2. a.kind = "delete" => ~Confirmed(q)
      BY DEF Confirmed, Removals
    <3> HIDE DEF a, p
    <3>3. CASE a.kind = "delete" /\ ui[p].dialog # Null /\ ui[p].dialog.kind = "delete"
      BY <3>1, <3>2, <3>3
    <3>4. CASE a.kind = "delete" /\ ~ (ui[p].dialog # Null /\ ui[p].dialog.kind = "delete")
      BY <3>1, <3>2, <3>4
    <3>5. CASE a.kind # "delete" /\ Confirmed(q)
      BY <3>1, <3>5
    <3>6. CASE a.kind # "delete" /\ ~Confirmed(q)
      BY <3>1, <3>6
    <3> QED  BY <3>3, <3>4, <3>5, <3>6
  <2>2. PICK u : PageOK(u, section) /\ ui' = [ui EXCEPT ![p] = u]
    BY <2>1, <1>2, PageKinds
  <2> QED  BY <1>2, <2>2, OnePage
<1>5. Shape'
  BY <1>1, <1>3, <1>4, RestIsKept
<1>6. \A r \in Requests : asks'[r].pc = "inserting" => asks'[r] = asks[r]
  <2>1. \A r \in Requests : asks'[r] = IF r = q THEN Done ELSE asks[r]
    BY <1>1, <1>2 DEF AsksOK
  <2> QED  BY <2>1, IdleAsks
<1>7. Exactness'
  BY <1>1, <1>6, ExactnessIsKept DEF KeepRest
<1>8. OwnChangesAreReadBack'
  BY <1>1 DEF KeepRest, OwnChangesAreReadBack
<1> QED  BY <1>5, <1>7, <1>8

\* What a change touches is read again, so that a page owes only reads that
\* are under way.
LEMMA SucceedsStep ==
    ASSUME Shape, Exactness, OwnChangesAreReadBack, NEW q \in Requests, Succeeds(q)
    PROVE  Shape' /\ Exactness' /\ OwnChangesAreReadBack'
<1> DEFINE a == asks[q]
<1> DEFINE p == a.page
<1>1. a.pc = "stored" /\ asks' = [asks EXCEPT ![q] = Done] /\ UNCHANGED <<db, slugs, section>>
  BY DEF Succeeds
<1>2. p \in Pages /\ AsksOK(asks, section) /\ PagesOK(ui, section) /\ PageOK(ui[p], section)
  BY <1>1 DEF Shape, AsksOK, AskOK, PagesOK
<1>3. AsksOK(asks', section)
  BY <1>1, <1>2, IdleAsks, OneAsk
<1>4. \A r \in Requests : asks'[r].pc = "inserting" => asks'[r] = asks[r]
  <2>1. \A r \in Requests : asks'[r] = IF r = q THEN Done ELSE asks[r]
    BY <1>1, <1>2 DEF AsksOK
  <2> QED  BY <2>1, IdleAsks
<1>5. Exactness'
  BY <1>1, <1>4, ExactnessIsKept
<1>6. /\ owed \in [Pages -> SUBSET Keys] /\ \A o \in Pages : \A j \in owed[o] : fetch[o][j].pc = "asked"
      /\ cache = [o \in Pages |-> cache[o]] /\ cache[p] = [j \in Keys |-> cache[p][j]]
      /\ \A j \in Keys : FilledIn(cache[p][j], j) /\ FetchOK(fetch[p][j], j)
  <2>1. cache = [o \in Pages |-> [j \in Keys |-> cache[o][j]]]
    BY DEF Shape, ReadOK
  <2> QED  BY <2>1, <1>2 DEF Shape, OwnChangesAreReadBack, ReadOK
<1>7. ASSUME NEW u, NEW c, NEW f, NEW w, PageOK(u, section), ui' = [ui EXCEPT ![p] = u],
             RowOK(c, f), RowStep(p, c, f),
             w \in SUBSET Keys, \A k \in w : f[k].pc = "asked", owed' = [owed EXCEPT ![p] = w]
      PROVE  Shape' /\ OwnChangesAreReadBack'
  <2>1. PagesOK(ui', section)
    BY <1>2, <1>7, OnePage
  <2>2. ReadOK(cache', fetch') /\ \A o \in Pages : fetch'[o] = IF o = p THEN f ELSE fetch[o]
    <3> HIDE DEF p
    <3> QED  BY <1>2, <1>7, OneRow
  <2>3. owed' \in [Pages -> SUBSET Keys] /\ \A o \in Pages : owed'[o] = IF o = p THEN w ELSE owed[o]
    BY <1>2, <1>6, <1>7
  <2>4. Shape'
    BY <1>1, <1>3, <2>1, <2>2, <2>3 DEF Shape
  <2>5. OwnChangesAreReadBack'
    <3> SUFFICES ASSUME NEW o \in Pages, NEW j \in owed'[o] PROVE fetch'[o][j].pc = "asked"
      BY DEF OwnChangesAreReadBack
    <3>1. CASE o = p
      BY <3>1, <2>2, <2>3, <1>7
    <3>2. CASE o # p
      BY <3>2, <2>2, <2>3, <1>6
    <3> QED  BY <3>1, <3>2
  <2> QED  BY <2>4, <2>5
<1>8. CASE a.kind = "delete" \/ ui[p].slug = Null
  <2> DEFINE c == Blank(p)
  <2> DEFINE f == [k \in Keys |-> NoFetch]
  <2> DEFINE w == {}
  <2>1. /\ ui' = [ui EXCEPT ![p] = Closed] /\ cache' = [cache EXCEPT ![p] = c]
        /\ fetch' = [fetch EXCEPT ![p] = f] /\ owed' = [owed EXCEPT ![p] = w]
    <3>1. ~ (Renames(q) /\ ui[p].slug # Null)
      BY <1>8 DEF Renames
    <3> QED  BY <1>8, <3>1 DEF Succeeds
  <2>2. RowOK(c, f)
    BY FetchKinds DEF RowOK, Blank
  <2>3. PageOK(Closed, section)
    BY PageKinds
  <2>4. RowStep(p, c, f)
    BY <2>1 DEF RowStep
  <2>5. w \in SUBSET Keys /\ \A k \in w : f[k].pc = "asked"
    OBVIOUS
  <2> HIDE DEF c, f, w, a, p
  <2> QED  BY <2>1, <2>2, <2>3, <2>4, <2>5, <1>5, <1>7
<1>9. CASE Renames(q) /\ ~ (a.kind = "delete" \/ ui[p].slug = Null)
  <2> DEFINE c == Blank(p)
  <2> DEFINE f == FirstFetches(p)
  <2> DEFINE v == a.arg.slug
  <2> DEFINE u == [ui[p] EXCEPT !.slug = v, !.form = Null, !.opened = Null]
  <2>1. /\ ui' = [ui EXCEPT ![p] = u] /\ cache' = [cache EXCEPT ![p] = c]
        /\ fetch' = [fetch EXCEPT ![p] = f] /\ owed' = [owed EXCEPT ![p] = Touched(a.kind)]
    BY <1>9 DEF Succeeds
  <2>2. RowOK(c, f)
    BY FetchKinds DEF RowOK, Blank, FirstFetches
  <2>3. PageOK(u, section)
    <3>1. PICK x : x = u
      OBVIOUS
    <3> HIDE DEF v, p
    <3>2. PageOK(x, section)
      BY <1>2, <3>1 DEF PageOK
    <3> QED  BY <3>1, <3>2
  <2>4. RowStep(p, c, f)
    BY <2>1 DEF RowStep
  <2>5. Touched(a.kind) \in SUBSET Keys /\ \A k \in Touched(a.kind) : f[k].pc = "asked"
    <3>1. Touched(a.kind) = {"event"}
      BY <1>9 DEF Renames, Touched
    <3>2. f["event"] = Asked /\ "event" \in Keys
      BY DEF FirstFetches, Enabled, Keys
    <3> HIDE DEF f
    <3> QED  BY <3>1, <3>2, FetchKinds
  <2> HIDE DEF c, f, u, v, a, p
  <2> QED  BY <2>1, <2>2, <2>3, <2>4, <2>5, <1>5, <1>7
<1>10. CASE ~ (Renames(q) /\ ui[p].slug # Null) /\ ~ (a.kind = "delete" \/ ui[p].slug = Null)
  <2> DEFINE c == cache[p]
  <2> DEFINE f == Refetched(p, Invalidated(a.kind))
  <2> DEFINE new == {k \in Touched(a.kind) \cap {KeyOf(section)} : cache[p][k] # Null /\ Enabled(p, k)}
  <2> DEFINE w == owed[p] \cup new
  <2> DEFINE u == CASE a.kind = "details"  -> [ui[p] EXCEPT !.form = Null, !.opened = Null]
                    [] a.kind = "editNeed" -> [ui[p] EXCEPT !.editor = Null]
                    [] Confirmed(q)        -> WithoutDialog(ui[p])
                    [] OTHER               -> ui[p]
  <2>1. /\ ui' = [ui EXCEPT ![p] = u] /\ cache' = cache
        /\ fetch' = [fetch EXCEPT ![p] = f] /\ owed' = [owed EXCEPT ![p] = w]
    BY <1>10 DEF Succeeds
  <2>2. RowOK(c, f)
    <3>1. f = [k \in Keys |-> f[k]] /\ \A k \in Keys : f[k] = fetch[p][k] \/ f[k] = Asked
      BY DEF Refetched
    <3> HIDE DEF f
    <3> QED  BY <3>1, <1>6, FetchKinds DEF RowOK
  <2>3. PageOK(u, section)
    <3> DEFINE u1 == [ui[p] EXCEPT !.form = Null, !.opened = Null]
    <3> DEFINE u2 == [ui[p] EXCEPT !.editor = Null]
    <3>1. u = u1 \/ u = u2 \/ u = WithoutDialog(ui[p]) \/ u = ui[p]
      <4> HIDE DEF a, p, u1, u2
      <4>1. u = CASE a.kind = "details"  -> u1 [] a.kind = "editNeed" -> u2
                  [] Confirmed(q)        -> WithoutDialog(ui[p]) [] OTHER -> ui[p]
        BY DEF u1, u2
      <4> HIDE DEF u
      <4> QED  BY <4>1
    <3>2. PageOK(u1, section) /\ PageOK(u2, section) /\ PageOK(WithoutDialog(ui[p]), section)
      BY <1>2, PageKinds
    <3> HIDE DEF u, u1, u2, p
    <3> QED  BY <3>1, <3>2, <1>2
  <2>4. RowStep(p, c, f)
    <3> HIDE DEF f, p, u, w
    <3> QED  BY <2>1, <1>6 DEF RowStep
  <2>5. w \in SUBSET Keys /\ \A k \in w : f[k].pc = "asked"
    <3>1. \A k \in Keys : f[k] = fetch[p][k] \/ f[k] = Asked
      BY DEF Refetched
    <3>2. ASSUME NEW k \in new PROVE k \in Keys /\ f[k] = Asked
      <4>1. k \in Touched(a.kind) /\ k = KeyOf(section) /\ cache[p][k] # Null /\ Enabled(p, k)
        OBVIOUS
      <4>2. k \in Invalidated(a.kind) /\ k \in Keys
        <5> HIDE DEF a, p
        <5> QED  BY <4>1 DEF Touched, Invalidated, Keys
      <4>3. f[k] = IF k \notin Invalidated(a.kind) \/ k # KeyOf(section) \/ ~Enabled(p, k)
                      \/ (cache[p][k] = Null /\ fetch[p][k].pc # "none")
                   THEN fetch[p][k] ELSE Asked
        BY <4>2 DEF Refetched
      <4> QED  BY <4>1, <4>2, <4>3
    <3> HIDE DEF f, new, p
    <3> QED  BY <3>1, <3>2, <1>2, <1>6, FetchKinds
  <2> HIDE DEF c, f, u, w, a, p
  <2> QED  BY <2>1, <2>2, <2>3, <2>4, <2>5, <1>5, <1>7
<1> QED
  <2> HIDE DEF a, p
  <2> QED  BY <1>8, <1>9, <1>10

-----------------------------------------------------------------------------
(* What an admin does on the page.                                         *)

\* The step keeps rows, copies and owed reads, and starts no replacement.
LEMMA AdminStep ==
    ASSUME Shape, Exactness, OwnChangesAreReadBack, KeepRest,
           AsksOK(asks', section), PagesOK(ui', section),
           \A r \in Requests : asks'[r].pc = "inserting" => asks'[r] = asks[r]
    PROVE  Shape' /\ Exactness' /\ OwnChangesAreReadBack'
<1>1. Shape'
  BY RestIsKept
<1>2. Exactness'
  BY ExactnessIsKept DEF KeepRest
<1>3. OwnChangesAreReadBack'
  BY DEF KeepRest, OwnChangesAreReadBack
<1> QED  BY <1>1, <1>2, <1>3

\* The page is drawn anew, and nothing is sent ...
LEMMA DrawStep ==
    ASSUME Shape, Exactness, OwnChangesAreReadBack, KeepRest, UNCHANGED asks,
           NEW p \in Pages, NEW u, PageOK(u, section), ui' = [ui EXCEPT ![p] = u]
    PROVE  Shape' /\ Exactness' /\ OwnChangesAreReadBack'
<1>1. PagesOK(ui', section)
  BY OnePage DEF Shape
<1>2. AsksOK(asks', section)
  BY DEF Shape
<1> QED  BY <1>1, <1>2, AdminStep

\* ... or a request is sent from the page as it is.
LEMMA SendStep ==
    ASSUME Shape, Exactness, OwnChangesAreReadBack, KeepRest, UNCHANGED ui,
           NEW p \in Pages, NEW q \in Requests, NEW kind, NEW arg, NEW was,
           Send(p, q, kind, arg, was), Belongs(kind, section), ArgOK(kind, arg),
           kind = "hidden" => OneRowOff(arg, was),
           kind = "details" /\ was.fresh => DOMAIN arg \subseteq was.edited
    PROVE  Shape' /\ Exactness' /\ OwnChangesAreReadBack'
<1>1. AsksOK(asks', section) /\ \A r \in Requests : asks'[r].pc = "inserting" => asks'[r] = asks[r]
  BY SentAsk DEF Shape
<1>2. PagesOK(ui', section)
  BY DEF Shape
<1> QED  BY <1>1, <1>2, AdminStep

\* What a page shows.
LEMMA CopiesAreTyped ==
    ASSUME Shape, NEW p \in Pages
    PROVE  /\ PageOK(ui[p], section)
           /\ cache[p]["event"] # Null => cache[p]["event"] \in
                 [details : Details, locked : BOOLEAN, public : BOOLEAN, mine : BOOLEAN]
           /\ cache[p]["teams"] # Null => cache[p]["teams"] \in TeamLists
           /\ cache[p]["coverage"] # Null => cache[p]["coverage"] \in SUBSET Requirement
           /\ ListedRanges(p) \in Seq(HourRange)
<1>1. \A k \in Keys : FilledIn(cache[p][k], k)
  BY DEF Shape, ReadOK
<1>2. cache[p]["hidden"] # Null => cache[p]["hidden"] \in Seq(HourRange)
  BY <1>1 DEF Keys, FilledIn, Answers
<1>3. ListedRanges(p) \in Seq(HourRange)
  <2>1. <<>> \in Seq(HourRange)
    OBVIOUS
  <2> QED  BY <1>2, <2>1 DEF ListedRanges
<1>4. cache[p]["event"] # Null => cache[p]["event"] \in
         [details : Details, locked : BOOLEAN, public : BOOLEAN, mine : BOOLEAN]
  BY <1>1 DEF Keys, FilledIn, Answers
<1>5. cache[p]["teams"] # Null => cache[p]["teams"] \in TeamLists
  BY <1>1 DEF Keys, FilledIn, Answers
<1>6. cache[p]["coverage"] # Null => cache[p]["coverage"] \in SUBSET Requirement
  BY <1>1 DEF Keys, FilledIn, Answers
<1> QED  BY <1>3, <1>4, <1>5, <1>6 DEF Shape, PagesOK

\* A save from a copy that is as the form was filled sends what was edited.
LEMMA DetailsSteps ==
    ASSUME Shape, Exactness, OwnChangesAreReadBack, NEW p \in Pages, DetailsStep(p)
    PROVE  Shape' /\ Exactness' /\ OwnChangesAreReadBack'
<1>1. PageOK(ui[p], section)
  BY CopiesAreTyped
<1>2. CASE StartEditDetails(p)
  <2> DEFINE d == cache[p]["event"].details
  <2>1. cache[p]["event"] # Null /\ KeepRest /\ UNCHANGED asks
    BY <1>2 DEF StartEditDetails, Free, Shown
  <2>2. d \in Details
    BY <2>1, CopiesAreTyped
  <2>3. PICK u : u = [ui[p] EXCEPT !.form = d, !.opened = d]
    OBVIOUS
  <2>4. PageOK(u, section)
    <3> HIDE DEF d
    <3> QED  BY <1>1, <2>2, <2>3 DEF PageOK
  <2>5. ui' = [ui EXCEPT ![p] = u]
    BY <1>2, <2>3 DEF StartEditDetails
  <2> QED  BY <2>1, <2>4, <2>5, DrawStep
<1>3. CASE CancelDetails(p)
  <2>1. KeepRest /\ UNCHANGED asks
    BY <1>3 DEF CancelDetails
  <2>2. PICK u : u = [ui[p] EXCEPT !.form = Null, !.opened = Null]
    OBVIOUS
  <2>3. PageOK(u, section)
    BY <1>1, <2>2, PageKinds
  <2>4. ui' = [ui EXCEPT ![p] = u]
    BY <1>3, <2>2 DEF CancelDetails
  <2> QED  BY <2>1, <2>3, <2>4, DrawStep
<1>4. ASSUME NEW f \in Fields, NEW v \in Names \cup Slugs \cup Texts, f = "slug" => v \in Slugs, Type(p, f, v)
      PROVE  Shape' /\ Exactness' /\ OwnChangesAreReadBack'
  <2>1. ui[p].form # Null /\ KeepRest /\ UNCHANGED asks /\ ui' = [ui EXCEPT ![p].form[f] = v]
    BY <1>4 DEF Type
  <2>2. PICK d : d = [ui[p].form EXCEPT ![f] = v]
    OBVIOUS
  <2>3. d \in Details
    <3>1. ui[p].form \in Details
      BY <1>1, <2>1 DEF PageOK
    <3> QED  BY <3>1, <2>2, <1>4 DEF Details, Fields
  <2>4. PICK u : u = [ui[p] EXCEPT !.form = d]
    OBVIOUS
  <2>5. PageOK(u, section)
    BY <1>1, <2>3, <2>4 DEF PageOK
  <2>6. ui' = [ui EXCEPT ![p] = u]
    BY <2>1, <2>2, <2>4
  <2> QED  BY <2>1, <2>5, <2>6, DrawStep
<1>5. ASSUME NEW q \in Requests, SaveDetails(p, q)
      PROVE  Shape' /\ Exactness' /\ OwnChangesAreReadBack'
  <2>1. cache[p]["event"] # Null /\ ui[p].form # Null /\ KeepRest /\ section = "details"
    BY <1>5 DEF SaveDetails, Free, Shown
  <2>2. cache[p]["event"].details \in Details /\ ui[p].form \in Details
    BY <2>1, <1>1, CopiesAreTyped DEF PageOK
  <2>3. CASE DOMAIN Changed(p) = {}
    <3>1. PICK u : u = [ui[p] EXCEPT !.form = Null, !.opened = Null]
      OBVIOUS
    <3>2. PageOK(u, section)
      BY <1>1, <3>1, PageKinds
    <3>3. ui' = [ui EXCEPT ![p] = u] /\ UNCHANGED asks
      BY <1>5, <2>3, <3>1 DEF SaveDetails
    <3> QED  BY <2>1, <3>2, <3>3, DrawStep
  <2>4. CASE DOMAIN Changed(p) # {}
    <3> DEFINE differs == {f \in Fields : ui[p].form[f] # cache[p]["event"].details[f]}
    <3>1. PICK arg : arg = Changed(p)
      OBVIOUS
    <3>2. PICK was : was = [edited |-> {f \in Fields : ui[p].form[f] # ui[p].opened[f]},
                            fresh |-> cache[p]["event"].details = ui[p].opened]
      OBVIOUS
    <3>3. Send(p, q, "details", arg, was) /\ UNCHANGED ui
      BY <1>5, <2>4, <3>1, <3>2 DEF SaveDetails
    <3>4. arg = [f \in differs |-> ui[p].form[f]]
      BY <3>1 DEF Changed
    <3>5. ArgOK("details", arg)
      <4>1. arg \in [differs -> Names \cup Slugs \cup Texts] /\ differs \in SUBSET Fields
        BY <3>4, <2>2 DEF Details
      <4>2. "slug" \in DOMAIN arg => arg["slug"] \in Slugs
        BY <3>4, <2>2 DEF Details
      <4> HIDE DEF differs
      <4> QED  BY <4>1, <4>2 DEF ArgOK, Changes
    <3>6. was.fresh => DOMAIN arg \subseteq was.edited
      BY <3>2, <3>4
    <3>7. Belongs("details", section)
      BY <2>1 DEF Belongs
    <3> HIDE DEF differs
    <3> QED  BY <2>1, <3>3, <3>5, <3>6, <3>7, SendStep
  <2> QED  BY <2>3, <2>4
<1> QED
  <2>1. \A v \in Slugs : Type(p, "slug", v) => Shape' /\ Exactness' /\ OwnChangesAreReadBack'
    BY <1>4 DEF Fields
  <2>2. \A v \in Names : Type(p, "name", v) => Shape' /\ Exactness' /\ OwnChangesAreReadBack'
    BY <1>4 DEF Fields
  <2>3. \A v \in Texts : Type(p, "description", v) => Shape' /\ Exactness' /\ OwnChangesAreReadBack'
    BY <1>4 DEF Fields
  <2> QED  BY <1>2, <1>3, <1>5, <2>1, <2>2, <2>3 DEF DetailsStep

LEMMA SectionSteps ==
    ASSUME Shape, Exactness, OwnChangesAreReadBack, NEW p \in Pages, NEW q \in Requests,
           AccessStep(p, q) \/ TeamsStep(p, q) \/ AdminsStep(p, q) \/ PinnedStep(p, q)
    PROVE  Shape' /\ Exactness' /\ OwnChangesAreReadBack'
<1>1. ASSUME NEW kind \in {"lock", "public"}, NEW field \in {"locked", "public"}, Toggle(p, q, kind, field)
      PROVE  Shape' /\ Exactness' /\ OwnChangesAreReadBack'
  <2>1. cache[p]["event"] # Null /\ KeepRest /\ UNCHANGED ui /\ section = "access"
    BY <1>1 DEF Toggle, Free, Shown
  <2>2. cache[p]["event"][field] \in BOOLEAN
    BY <2>1, CopiesAreTyped
  <2>3. PICK arg : arg = ~cache[p]["event"][field]
    OBVIOUS
  <2>4. Send(p, q, kind, arg, Null)
    BY <1>1, <2>3 DEF Toggle
  <2>5. ArgOK(kind, arg) /\ Belongs(kind, section) /\ kind # "hidden" /\ kind # "details"
    BY <2>1, <2>2, <2>3 DEF ArgOK, Belongs
  <2> QED  BY <2>1, <2>4, <2>5, SendStep
<1>2. ASSUME NEW t \in Teams, SetTeam(p, q, t)
      PROVE  Shape' /\ Exactness' /\ OwnChangesAreReadBack'
  <2> DEFINE listed == IF cache[p]["teams"] = Null THEN <<>> ELSE cache[p]["teams"]
  <2>1. KeepRest /\ UNCHANGED ui /\ section = "teams"
    BY <1>2 DEF SetTeam, Free, Shown
  <2>2. PICK b : b = IF t \in DOMAIN listed THEN ~listed[t] ELSE TRUE
    OBVIOUS
  <2>3. b \in BOOLEAN
    <3>1. listed \in TeamLists
      <4>1. <<>> \in [{} -> BOOLEAN] /\ {} \in SUBSET Teams
        OBVIOUS
      <4>2. <<>> \in TeamLists
        BY <4>1 DEF TeamLists
      <4> QED  BY <4>2, CopiesAreTyped
    <3>2. PICK ts \in SUBSET Teams : listed \in [ts -> BOOLEAN]
      BY <3>1 DEF TeamLists
    <3> HIDE DEF listed
    <3> QED  BY <2>2, <3>2
  <2>4. PICK arg : arg = [team |-> t, visible |-> b]
    OBVIOUS
  <2>5. Send(p, q, "team", arg, Null)
    BY <1>2, <2>2, <2>4 DEF SetTeam
  <2>6. ArgOK("team", arg) /\ Belongs("team", section)
    BY <2>1, <2>3, <2>4 DEF ArgOK, Belongs
  <2> QED  BY <2>1, <2>5, <2>6, SendStep
<1>3. ASSUME NEW u \in People, AddAdmin(p, q, u)
      PROVE  Shape' /\ Exactness' /\ OwnChangesAreReadBack'
  <2>1. KeepRest /\ UNCHANGED ui /\ section = "admins" /\ Send(p, q, "admin", u, Null)
    BY <1>3 DEF AddAdmin, Free, Shown
  <2>2. ArgOK("admin", u) /\ Belongs("admin", section)
    BY <2>1 DEF ArgOK, Belongs
  <2> QED  BY <2>1, <2>2, SendStep
<1>4. ASSUME NEW u \in People, AddPinnedUser(p, q, u)
      PROVE  Shape' /\ Exactness' /\ OwnChangesAreReadBack'
  <2>1. KeepRest /\ UNCHANGED ui /\ section = "pinned" /\ Send(p, q, "pin", u, Null)
    BY <1>4 DEF AddPinnedUser, Free, Shown
  <2>2. ArgOK("pin", u) /\ Belongs("pin", section)
    BY <2>1 DEF ArgOK, Belongs
  <2> QED  BY <2>1, <2>2, SendStep
<1> QED  BY <1>1, <1>2, <1>3, <1>4 DEF AccessStep, TeamsStep, AdminsStep, PinnedStep

LEMMA HoursSteps ==
    ASSUME Shape, Exactness, OwnChangesAreReadBack, NEW p \in Pages, NEW q \in Requests, HoursStep(p, q)
    PROVE  Shape' /\ Exactness' /\ OwnChangesAreReadBack'
<1>1. PICK h \in TypedHours : AddHiddenRange(p, q, h[1], h[2])
  BY DEF HoursStep
<1>2. PICK new : new = [lo |-> Hour(h[1]), hi |-> Hour(h[2])]
  OBVIOUS
<1>3. new \in HourRange
  <2>1. h[1] \in (0 .. 23) \cup {Empty} /\ h[2] \in (0 .. 23) \cup {Empty}
    BY EventSettingsAssumption
  <2>2. 0 \in 0 .. 23
    OBVIOUS
  <2>3. Hour(h[1]) \in 0 .. 23 /\ Hour(h[2]) \in 0 .. 23
    BY <2>1, <2>2 DEF Hour
  <2> QED  BY <1>2, <2>3 DEF HourRange
<1>4. PICK arg, was : arg = Append(ListedRanges(p), new) /\ was = RangesWas(p, FALSE, new)
  OBVIOUS
<1>5. KeepRest /\ UNCHANGED ui /\ section = "hidden" /\ Send(p, q, "hidden", arg, was)
  BY <1>1, <1>2, <1>4 DEF AddHiddenRange, Free, Shown
<1>6. OneRowOff(arg, was) /\ arg \in Seq(HourRange)
  BY <1>3, <1>4, CopiesAreTyped DEF OneRowOff, RangesWas
<1>7. ArgOK("hidden", arg) /\ Belongs("hidden", section)
  BY <1>5, <1>6 DEF ArgOK, Belongs
<1> QED  BY <1>5, <1>6, <1>7, SendStep

LEMMA CoverageSteps ==
    ASSUME Shape, Exactness, OwnChangesAreReadBack, NEW p \in Pages, CoverageStep(p)
    PROVE  Shape' /\ Exactness' /\ OwnChangesAreReadBack'
<1>1. PageOK(ui[p], section)
  BY CopiesAreTyped
<1>2. CASE CancelEditCoverage(p)
  <2>1. KeepRest /\ UNCHANGED asks
    BY <1>2 DEF CancelEditCoverage
  <2>2. PICK u : u = [ui[p] EXCEPT !.editor = Null]
    OBVIOUS
  <2>3. PageOK(u, section)
    BY <1>1, <2>2, PageKinds
  <2>4. ui' = [ui EXCEPT ![p] = u]
    BY <1>2, <2>2 DEF CancelEditCoverage
  <2> QED  BY <2>1, <2>3, <2>4, DrawStep
<1>3. ASSUME NEW c, StartEditCoverage(p, c)
      PROVE  Shape' /\ Exactness' /\ OwnChangesAreReadBack'
  <2>1. KeepRest /\ UNCHANGED asks
    BY <1>3 DEF StartEditCoverage
  <2>2. PICK u : u = [ui[p] EXCEPT !.editor = c.id]
    OBVIOUS
  <2>3. PageOK(u, section)
    BY <1>1, <2>2 DEF PageOK
  <2>4. ui' = [ui EXCEPT ![p] = u]
    BY <1>3, <2>2 DEF StartEditCoverage
  <2> QED  BY <2>1, <2>3, <2>4, DrawStep
<1>4. ASSUME NEW q \in Requests, NEW c \in Requirement, AddCoverage(p, q, c)
      PROVE  Shape' /\ Exactness' /\ OwnChangesAreReadBack'
  <2>1. KeepRest /\ UNCHANGED ui /\ section = "coverage" /\ Send(p, q, "addNeed", c, Null)
    BY <1>4 DEF AddCoverage, Free, Shown
  <2>2. ArgOK("addNeed", c) /\ Belongs("addNeed", section)
    BY <2>1 DEF ArgOK, Belongs
  <2> QED  BY <2>1, <2>2, SendStep
<1>5. ASSUME NEW q \in Requests, NEW t \in Teams, NEW n \in Needs \cup BadNeeds, UpdateCoverage(p, q, t, n)
      PROVE  Shape' /\ Exactness' /\ OwnChangesAreReadBack'
  <2>1. /\ KeepRest /\ UNCHANGED ui /\ section = "coverage" /\ cache[p]["coverage"] # Null
        /\ \E c \in cache[p]["coverage"] : c.id = ui[p].editor
    BY <1>5 DEF UpdateCoverage, Loaded, Free, Shown
  <2>2. ui[p].editor \in NeedIds
    BY <2>1, CopiesAreTyped DEF Requirement
  <2>3. PICK arg : arg = [id |-> ui[p].editor, team |-> t, need |-> n]
    OBVIOUS
  <2>4. Send(p, q, "editNeed", arg, Null)
    BY <1>5, <2>3 DEF UpdateCoverage
  <2>5. arg \in Requirement
    BY <2>2, <2>3 DEF Requirement
  <2>6. ArgOK("editNeed", arg) /\ Belongs("editNeed", section)
    BY <2>1, <2>5 DEF ArgOK, Belongs
  <2> QED  BY <2>1, <2>4, <2>6, SendStep
<1> QED  BY <1>2, <1>3, <1>4, <1>5 DEF CoverageStep

\* The dialog asks about what the section lists.
LEMMA AskedRemovals ==
    ASSUME NEW p, NEW r \in Removable(p)
    PROVE  /\ r.kind \in Removals \cup {"hidden", "delete"} /\ Belongs(r.kind, section)
           /\ r.kind = "hidden" => r.id \in DOMAIN ListedRanges(p)
<1> DEFINE list == cache[p][KeyOf(section)]
<1> DEFINE Of(kind, ids) == {[kind |-> kind, id |-> i] : i \in ids}
<1>1. CASE section = "access"
  <2>1. r \in Of("delete", {Null})
    BY <1>1 DEF Removable
  <2> QED  BY <1>1, <2>1 DEF Belongs
<1>2. CASE section = "hidden"
  <2>1. r \in Of("hidden", DOMAIN ListedRanges(p))
    BY <1>2 DEF Removable
  <2> QED  BY <1>2, <2>1 DEF Belongs
<1>3. CASE section = "teams"
  <2>1. r \in Of("dropTeam", DOMAIN list)
    BY <1>3 DEF Removable
  <2> QED  BY <1>3, <2>1 DEF Belongs, Removals
<1>4. CASE section = "admins"
  <2>1. r \in Of("dropAdmin", {IdOfAdmin(u) : u \in list})
    BY <1>4 DEF Removable
  <2> QED  BY <1>4, <2>1 DEF Belongs, Removals
<1>5. CASE section = "pinned"
  <2>1. r \in Of("unpin", list)
    BY <1>5 DEF Removable
  <2> QED  BY <1>5, <2>1 DEF Belongs, Removals
<1>6. CASE section = "coverage"
  <2>1. r \in Of("dropNeed", {c.id : c \in list}) \cup Of("dropNeeds", {c.team : c \in list})
    BY <1>6 DEF Removable
  <2> QED  BY <1>6, <2>1 DEF Belongs, Removals
<1>7. CASE section \notin {"access", "hidden", "teams", "admins", "pinned", "coverage"}
  BY <1>7 DEF Removable
<1> QED  BY <1>1, <1>2, <1>3, <1>4, <1>5, <1>6, <1>7

LEMMA RemovalSteps ==
    ASSUME Shape, Exactness, OwnChangesAreReadBack, NEW p \in Pages, RemovalStep(p)
    PROVE  Shape' /\ Exactness' /\ OwnChangesAreReadBack'
<1>1. PageOK(ui[p], section)
  BY CopiesAreTyped
<1>2. CASE CancelRemoval(p)
  <2>1. KeepRest /\ UNCHANGED asks
    BY <1>2 DEF CancelRemoval
  <2>2. PICK u : u = [ui[p] EXCEPT !.dialog = Null]
    OBVIOUS
  <2>3. PageOK(u, section)
    BY <1>1, <2>2, PageKinds
  <2>4. ui' = [ui EXCEPT ![p] = u]
    BY <1>2, <2>2 DEF CancelRemoval
  <2> QED  BY <2>1, <2>3, <2>4, DrawStep
<1>3. ASSUME NEW r \in Removable(p), AskRemoval(p, r)
      PROVE  Shape' /\ Exactness' /\ OwnChangesAreReadBack'
  <2> DEFINE shown == IF r.kind = "hidden" THEN ListedRanges(p) ELSE <<>>
  <2>1. KeepRest /\ UNCHANGED asks
    BY <1>3 DEF AskRemoval
  <2>2. PICK d : d = [kind |-> r.kind, id |-> r.id, shown |-> shown]
    OBVIOUS
  <2>3. PICK u : u = [ui[p] EXCEPT !.dialog = d]
    OBVIOUS
  <2>4. /\ d = [kind |-> d.kind, id |-> d.id, shown |-> d.shown]
        /\ d.kind \in Removals \cup {"hidden", "delete"} /\ Belongs(d.kind, section)
        /\ d.kind = "hidden" => d.id \in DOMAIN d.shown
    BY <2>2, AskedRemovals
  <2>5. PageOK(u, section)
    BY <1>1, <2>3, <2>4 DEF PageOK
  <2>6. ui' = [ui EXCEPT ![p] = u]
    BY <1>3, <2>2, <2>3 DEF AskRemoval
  <2> QED  BY <2>1, <2>5, <2>6, DrawStep
<1>4. ASSUME NEW q \in Requests, Confirm(p, q)
      PROVE  Shape' /\ Exactness' /\ OwnChangesAreReadBack'
  <2> DEFINE d == ui[p].dialog
  <2> DEFINE list == ListedRanges(p)
  <2>1. d # Null /\ KeepRest /\ UNCHANGED ui
    BY <1>4 DEF Confirm
  <2>2. /\ d.kind \in Removals \cup {"hidden", "delete"} /\ Belongs(d.kind, section)
        /\ d.kind = "hidden" => d.id \in DOMAIN d.shown
    BY <1>1, <2>1 DEF PageOK
  <2>3. CASE d.kind = "hidden"
    <3>1. PICK arg : arg = Remaining(list, d.id)
      OBVIOUS
    <3>2. PICK row : row = IF d.shown = list THEN list[d.id] ELSE Null
      OBVIOUS
    <3>3. PICK was : was = RangesWas(p, TRUE, row)
      OBVIOUS
    <3>4. Send(p, q, "hidden", arg, was)
      BY <1>4, <2>3, <3>1, <3>2, <3>3 DEF Confirm
    <3>5. list \in Seq(HourRange)
      BY CopiesAreTyped
    <3>6. arg \in Seq(HourRange)
      <4> HIDE DEF list, d
      <4> QED  BY <3>1, <3>5, WithoutOneRow DEF Remaining
    <3>7. was = [removal |-> TRUE, row |-> row, base |-> list, before |-> Null]
      BY <3>3 DEF RangesWas
    <3>8. row # Null => d.id \in DOMAIN list /\ row = list[d.id] /\ arg = RemoveAt(list, d.id)
      <4>1. row # Null => d.shown = list
        BY <3>2
      <4> HIDE DEF list, d
      <4> QED  BY <2>2, <2>3, <3>1, <3>2, <4>1 DEF Remaining
    <3>9. OneRowOff(arg, was)
      <4> HIDE DEF list, d
      <4> QED  BY <3>5, <3>7, <3>8 DEF OneRowOff
    <3>10. ArgOK("hidden", arg) /\ Belongs("hidden", section)
      BY <2>2, <2>3, <3>6 DEF ArgOK
    <3> HIDE DEF list, d
    <3> QED  BY <2>1, <3>4, <3>9, <3>10, SendStep
  <2>4. CASE d.kind # "hidden"
    <3>1. PICK kind, arg : kind = d.kind /\ arg = d.id
      OBVIOUS
    <3>2. Send(p, q, kind, arg, Null)
      BY <1>4, <2>4, <3>1 DEF Confirm
    <3>3. ArgOK(kind, arg) /\ Belongs(kind, section) /\ kind # "hidden" /\ kind # "details"
      BY <2>2, <2>4, <3>1 DEF ArgOK, Removals
    <3> HIDE DEF d, list
    <3> QED  BY <2>1, <3>2, <3>3, SendStep
  <2> QED  BY <2>3, <2>4
<1> QED  BY <1>2, <1>3, <1>4 DEF RemovalStep

-----------------------------------------------------------------------------
(* The theorems.                                                           *)

LEMMA ShapeToBegin == Init => Shape /\ Exactness /\ OwnChangesAreReadBack
<1> SUFFICES ASSUME Init PROVE Shape /\ Exactness /\ OwnChangesAreReadBack
  OBVIOUS
<1>1. db \in Stores /\ section \in Sections /\ slugs \subseteq Slugs
  BY EventSettingsAssumption DEF Init, Stores, Details
<1>2. asks = [q \in Requests |-> Unsent] /\ AsksOK(asks, section) /\ \A q \in Requests : asks[q].pc # "inserting"
  <2>1. asks = [q \in Requests |-> Unsent]
    BY DEF Init
  <2> QED  BY <2>1, IdleAsks DEF AsksOK
<1>3. PagesOK(ui, section)
  <2> DEFINE u == [Closed EXCEPT !.slug = InitDB.event.slug]
  <2>1. ui = [p \in Pages |-> u]
    BY DEF Init
  <2>2. PageOK(u, section)
    BY DEF PageOK, Closed
  <2> HIDE DEF u
  <2> QED  BY <2>1, <2>2 DEF PagesOK
<1>4. ReadOK(cache, fetch)
  <2> DEFINE first(p, k) == IF k = "event" \/ (k = KeyOf(section) /\ k \notin LateKeys /\ Enabled(p, k))
                            THEN CHOOSE v \in Views(p, k) : TRUE ELSE Null
  <2> DEFINE sent(p, k) == IF k = KeyOf(section) /\ k \in LateKeys /\ Enabled(p, k) THEN Asked ELSE NoFetch
  <2>1. /\ cache = [p \in Pages |-> [k \in Keys |-> first(p, k)]]
        /\ fetch = [p \in Pages |-> [k \in Keys |-> sent(p, k)]]
    BY DEF Init
  <2>2. ASSUME NEW p \in Pages, NEW k \in Keys
        PROVE  FilledIn(first(p, k), k) /\ FetchOK(sent(p, k), k)
    <3>1. (CHOOSE v \in Views(p, k) : TRUE) \in Answers(k)
      BY <1>1, SomethingToRead
    <3>2. FilledIn(first(p, k), k)
      BY <3>1, FetchKinds DEF FilledIn
    <3> QED  BY <3>2, FetchKinds
  <2>3. \A p \in Pages, k \in Keys : sent(p, k) = [pc |-> sent(p, k).pc, data |-> sent(p, k).data]
    BY DEF Asked, NoFetch
  <2> HIDE DEF first, sent
  <2>4. \A p \in Pages, k \in Keys : cache[p][k] = first(p, k) /\ fetch[p][k] = sent(p, k)
    BY <2>1
  <2>5. cache = [p \in Pages |-> [k \in Keys |-> cache[p][k]]]
    BY <2>1, <2>4
  <2>6. fetch = [p \in Pages |-> [k \in Keys |-> [pc |-> fetch[p][k].pc, data |-> fetch[p][k].data]]]
    <3>1. \A p \in Pages : fetch[p] = [k \in Keys |-> sent(p, k)]
      BY <2>1
    <3>2. \A p \in Pages : fetch[p] = [k \in Keys |-> [pc |-> fetch[p][k].pc, data |-> fetch[p][k].data]]
      <4> TAKE p \in Pages
      <4>1. \A k \in Keys : sent(p, k) = [pc |-> fetch[p][k].pc, data |-> fetch[p][k].data]
        BY <2>3, <2>4
      <4> QED  BY <3>1, <4>1
    <3> QED  BY <2>1, <3>2
  <2> QED  BY <2>2, <2>4, <2>5, <2>6 DEF ReadOK
<1>5. owed = [p \in Pages |-> {}]
  BY DEF Init
<1>6. Exactness
  BY <1>2 DEF Exactness, Alone
<1> QED  BY <1>1, <1>2, <1>3, <1>4, <1>5, <1>6 DEF Shape, StoreOK, OwnChangesAreReadBack

LEMMA ShapeStays ==
    ASSUME Shape, Exactness, OwnChangesAreReadBack, [Next]_vars
    PROVE  Shape' /\ Exactness' /\ OwnChangesAreReadBack'
<1>1. CASE UNCHANGED vars
  BY <1>1 DEF vars, pageVars, Shape, Exactness, OwnChangesAreReadBack
<1>2. ASSUME NEW q \in Requests, ServerStep(q)
      PROVE  Shape' /\ Exactness' /\ OwnChangesAreReadBack'
  <2>1. Shape' /\ Exactness'
    BY <1>2, ApplyStep, DeleteRangesStep, InsertRangeStep, RangesDoneStep DEF ServerStep
  <2>2. UNCHANGED <<fetch, owed>>
    BY <1>2 DEF ServerStep, Apply, DeleteRanges, InsertRange, RangesDone, pageVars
  <2> QED  BY <2>1, <2>2 DEF OwnChangesAreReadBack
<1>3. ASSUME NEW q \in Requests, Answer(q)
      PROVE  Shape' /\ Exactness' /\ OwnChangesAreReadBack'
  BY <1>3, SucceedsStep, FailsStep DEF Answer
<1>4. ASSUME NEW p \in Pages, NEW k \in Keys,
             FetchRead(p, k) \/ FetchDone(p, k) \/ FetchFails(p, k) \/ Refocus(p, k)
      PROVE  Shape' /\ Exactness' /\ OwnChangesAreReadBack'
  BY <1>4, ReadSteps
<1>5. ASSUME NEW p \in Pages, DetailsStep(p) \/ CoverageStep(p) \/ RemovalStep(p)
      PROVE  Shape' /\ Exactness' /\ OwnChangesAreReadBack'
  BY <1>5, DetailsSteps, CoverageSteps, RemovalSteps
<1>6. ASSUME NEW p \in Pages, NEW q \in Requests,
             AccessStep(p, q) \/ TeamsStep(p, q) \/ AdminsStep(p, q) \/ PinnedStep(p, q) \/ HoursStep(p, q)
      PROVE  Shape' /\ Exactness' /\ OwnChangesAreReadBack'
  BY <1>6, SectionSteps, HoursSteps
<1> QED  BY <1>1, <1>2, <1>3, <1>4, <1>5, <1>6 DEF Next

LEMMA Invariants == Spec => [](Shape /\ Exactness /\ OwnChangesAreReadBack)
<1>1. Shape /\ Exactness /\ OwnChangesAreReadBack /\ [Next]_vars => (Shape /\ Exactness /\ OwnChangesAreReadBack)'
  BY ShapeStays
<1> QED  BY <1>1, ShapeToBegin, PTL DEF Spec

\* Rows, requests, copies and pages have their types: the settings page never
\* makes the service store something that is no row of an event, and hidden
\* hours end after they start, whatever is typed into the fields.
THEOREM SettingsAreTyped == Spec => []TypeOK
<1>1. Shape => TypeOK
  BY DEF Shape, StoreOK, AsksOK, AskOK, ReadOK, FetchOK, TypeOK
<1> QED  BY <1>1, Invariants, PTL

\* A page reads every section again after its own change was acknowledged, and
\* no answer from before the change takes the place of that read.
THEOREM OwnChangesGetReadBack == Spec => []OwnChangesAreReadBack
BY Invariants, PTL

\* Which step acknowledges a request.
LEMMA OnlySent ==
    ASSUME NEW p \in Pages, NEW q \in Requests, asks = [r \in Requests |-> asks[r]],
           DetailsStep(p) \/ CoverageStep(p) \/ RemovalStep(p)
              \/ \E r \in Requests : AccessStep(p, r) \/ TeamsStep(p, r) \/ AdminsStep(p, r)
                                        \/ PinnedStep(p, r) \/ HoursStep(p, r)
    PROVE  asks'[q] = asks[q] \/ asks'[q].pc = "sent"
<1>1. ASSUME NEW r \in Requests, NEW kind, NEW arg, NEW was, Send(p, r, kind, arg, was)
      PROVE  asks'[q] = asks[q] \/ asks'[q].pc = "sent"
  BY <1>1 DEF Send
<1>2. DetailsStep(p) => UNCHANGED asks \/ \E r \in Requests : SaveDetails(p, r)
  BY DEF DetailsStep, StartEditDetails, CancelDetails, Type
<1>3. ASSUME NEW r \in Requests, SaveDetails(p, r), ~UNCHANGED asks
      PROVE  \E arg, was : Send(p, r, "details", arg, was)
  BY <1>3 DEF SaveDetails
<1>4. CoverageStep(p) => UNCHANGED asks \/ \E r \in Requests : \E kind, arg, was : Send(p, r, kind, arg, was)
  BY DEF CoverageStep, CancelEditCoverage, StartEditCoverage, AddCoverage, UpdateCoverage
<1>5. RemovalStep(p) => UNCHANGED asks \/ \E r \in Requests : \E kind, arg, was : Send(p, r, kind, arg, was)
  BY DEF RemovalStep, CancelRemoval, AskRemoval, Confirm
<1>6. ASSUME NEW r \in Requests,
             AccessStep(p, r) \/ TeamsStep(p, r) \/ AdminsStep(p, r) \/ PinnedStep(p, r) \/ HoursStep(p, r)
      PROVE  \E kind, arg, was : Send(p, r, kind, arg, was)
  BY <1>6 DEF AccessStep, TeamsStep, AdminsStep, PinnedStep, HoursStep, Toggle, SetTeam, AddAdmin,
              AddPinnedUser, AddHiddenRange
<1> QED  BY <1>1, <1>2, <1>3, <1>4, <1>5, <1>6

LEMMA Acknowledged ==
    ASSUME Shape, Exactness, [Next]_vars, NEW q \in Requests, asks'[q].pc = "stored", asks[q].pc # "stored"
    PROVE  Apply(q) \/ RangesDone(q)
<1>1. asks = [r \in Requests |-> asks[r]]
  BY DEF Shape, AsksOK
<1>2. CASE UNCHANGED vars
  BY <1>2 DEF vars
<1>3. ASSUME NEW r \in Requests, ServerStep(r) PROVE Apply(q) \/ RangesDone(q)
  <2>1. Apply(r) \/ RangesDone(r)
    BY <1>3, DeleteRangesStep, InsertRangeStep DEF ServerStep
  <2>2. r # q => asks'[q] = asks[q]
    BY <1>1, <2>1, RangesDoneStep DEF Apply
  <2> QED  BY <2>1, <2>2
<1>4. ASSUME NEW r \in Requests, Answer(r) PROVE FALSE
  <2>1. asks' = [asks EXCEPT ![r] = Done]
    BY <1>4 DEF Answer, Succeeds, Fails
  <2> QED  BY <1>1, <2>1, IdleAsks, SMTT(30)
<1>5. ASSUME NEW p \in Pages, NEW k \in Keys,
             FetchRead(p, k) \/ FetchDone(p, k) \/ FetchFails(p, k) \/ Refocus(p, k)
      PROVE  FALSE
  BY <1>5 DEF FetchRead, FetchDone, FetchFails, Refocus
<1>6. ASSUME NEW p \in Pages, DetailsStep(p) \/ CoverageStep(p) \/ RemovalStep(p) PROVE FALSE
  BY <1>1, <1>6, OnlySent
<1>7. ASSUME NEW p \in Pages, NEW r \in Requests,
             AccessStep(p, r) \/ TeamsStep(p, r) \/ AdminsStep(p, r) \/ PinnedStep(p, r) \/ HoursStep(p, r)
      PROVE  FALSE
  BY <1>1, <1>7, OnlySent
<1> QED  BY <1>2, <1>3, <1>4, <1>5, <1>6, <1>7 DEF Next

\* A replacement of the hidden hours that started from the rows as they were,
\* and that no other came in between, has added the row that was typed or has
\* removed the row that the dialog was opened for, and has done nothing else.
THEOREM RangesChangeByOne == Spec => RangeEditsAreExact
<1>1. ASSUME Shape, Exactness, [Next]_vars
      PROVE  [\A q \in Requests :
          LET w == asks[q].was
              oneMore == \A r \in HourRange : Count(db.hidden, r) = Count(Append(w.before, w.row), r)
              oneLess == \A r \in HourRange : Count(w.before, r) = Count(Append(db.hidden, w.row), r)
          IN  asks[q].pc = "inserting" /\ asks'[q].pc = "stored" /\ w.before # Null /\ w.row # Null
                 => IF w.removal THEN oneLess ELSE oneMore]_vars
  <2> SUFFICES ASSUME NEW q \in Requests, asks[q].pc = "inserting", asks'[q].pc = "stored",
                      asks[q].was.before # Null, asks[q].was.row # Null
               PROVE  IF asks[q].was.removal THEN OneRowLess(db.hidden, asks[q].was)
                                             ELSE OneRowMore(db.hidden, asks[q].was)
    BY DEF OneRowLess, OneRowMore
  <2>1. Apply(q) \/ RangesDone(q)
    BY <1>1, Acknowledged
  <2>2. ~Apply(q)
    BY DEF Apply, Reaches
  <2> QED  BY <1>1, <2>1, <2>2, RangesDoneStep
<1> QED  BY <1>1, Invariants, PTL DEF RangeEditsAreExact, Spec

\* A save changes no field that its user has not edited, whatever others have
\* stored meanwhile, as long as it is compared with the copy that the form was
\* filled from.
THEOREM SavesKeepTheRest == Spec => SaveKeepsOthersChanges
<1>1. ASSUME Shape, Exactness, [Next]_vars
      PROVE  [\A q \in Requests :
          asks[q].pc = "sent" /\ asks'[q].pc = "stored" /\ asks[q].kind = "details" /\ asks[q].was.fresh
             => \A f \in Fields \ asks[q].was.edited : db'.event[f] = db.event[f]]_vars
  <2> SUFFICES ASSUME NEW q \in Requests, asks[q].pc = "sent", asks'[q].pc = "stored",
                      asks[q].kind = "details", asks[q].was.fresh,
                      NEW f \in Fields \ asks[q].was.edited
               PROVE  db'.event[f] = db.event[f]
    OBVIOUS
  <2>1. Apply(q) \/ RangesDone(q)
    BY <1>1, Acknowledged
  <2>2. db' = Effect(asks[q].kind, asks[q].arg) /\ db # Null
    BY <2>1 DEF Apply, Reaches, RangesDone, Replacing
  <2>3. /\ ArgOK(asks[q].kind, asks[q].arg) /\ Belongs(asks[q].kind, section)
        /\ DOMAIN asks[q].arg \subseteq asks[q].was.edited
    BY <1>1 DEF Shape, AsksOK, AskOK
  <2>4. db \in Stores
    BY <1>1, <2>2 DEF Shape, StoreOK
  <2>5. \A g \in Fields \ DOMAIN asks[q].arg : Effect(asks[q].kind, asks[q].arg).event[g] = db.event[g]
    BY <2>3, <2>4, RowsStayTyped
  <2> QED  BY <2>2, <2>3, <2>5
<1> QED  BY <1>1, Invariants, PTL DEF SaveKeepsOthersChanges, Spec

=============================================================================
