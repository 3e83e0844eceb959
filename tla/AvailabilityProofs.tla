-------------------------- MODULE AvailabilityProofs --------------------------
(***************************************************************************)
(* For any number of tabs and saves, any event and any entries: replacing  *)
(* all availability, statement by statement and without a transaction,     *)
(* implements the register; entries and slot maps convert into each other  *)
(* without loss; on the event's grid only rivals leave entries that        *)
(* overlap; and a tab never takes for current what is older than its save. *)
(***************************************************************************)
EXTENDS Availability, WellFoundedInduction, TLAPS

\* A save is a record with these fields, whatever they hold.
Fields(s) == [pc |-> saves[s].pc, heard |-> saves[s].heard, tab |-> saves[s].tab,
              painted |-> saves[s].painted, left |-> saves[s].left,
              rivals |-> saves[s].rivals, before |-> saves[s].before]
Shape == saves = [s \in Saves |-> Fields(s)]

\* Two handlers that are both under way know of each other.
RivalsKnown == \A s, r \in Running : s # r => r \in saves[s].rivals

\* Since its DELETE, only a save's own rows and those of its rivals came in.
OldRowsGone ==
    \A s \in Saves : saves[s].pc = "insert" => \A r \in rows : r.save \in {s} \cup saves[s].rivals

ReplaceInv == Shape /\ RivalsKnown /\ OldRowsGone

\* The row that save s writes for entry e, and the entries it has written.
Filed(s, e) == [save |-> s, start |-> e.start, end |-> e.end, status |-> e.status]
Written(s) == ToEntries(saves[s].painted) \ saves[s].left

\* What a handler has still to insert, and what it has inserted, is the
\* painting it was sent.
InHand(s) ==
    /\ saves[s].pc # "unsent" => saves[s].tab \in Tabs
    /\ saves[s].pc \in {"validate", "delete"} => saves[s].left = ToEntries(saves[s].painted)
    /\ saves[s].pc \in {"delete", "insert"} => Accepted(saves[s].left)
    /\ saves[s].pc = "insert" =>
          /\ saves[s].left \subseteq ToEntries(saves[s].painted)
          /\ \A r \in rows : r.save = s => \E e \in Written(s) : r = Filed(s, e)
          /\ saves[s].rivals = {} => \A e \in Written(s) : Filed(s, e) \in rows
LeftIsPainted == \A s \in Saves : InHand(s)

\* What was over when a save began stays over, and once the save has deleted,
\* nothing of it is stored.
OverBefore(s) ==
    /\ \A q \in saves[s].before : q \in Saves /\ saves[q].pc \in {"stored", "refused"}
    /\ saves[s].pc \in {"insert", "stored"} => \A r \in rows : r.save \notin saves[s].before \cup {Null}
    /\ saves[s].heard = "fetching" => saves[s].pc = "stored"
BeforeIsOver == \A s \in Saves : OverBefore(s)

\* Being rivals is mutual, and only saves that were sent are rivals.
RivalsMutual ==
    \A s, r \in Saves : r \in saves[s].rivals => s \in saves[r].rivals /\ saves[r].pc # "unsent"

\* Rows of two saves stand side by side only if the saves are rivals.
RowsOfRivals ==
    \A r, q \in rows : r.save # q.save => Null \notin {r.save, q.save} /\ r.save \in saves[q.save].rivals

EditorInv == TypeOK /\ ReplaceInv /\ LeftIsPainted /\ BeforeIsOver /\ RivalsMutual /\ RowsOfRivals

\* As long as nobody changes the start or the granularity of the event, the
\* slots of everything stored, cached and painted are the editor's own.
Aligned(t) == (t - EventStart) % Gran = 0
AllAligned(data) == \A r \in data : Aligned(r.start)
Apart(e, f) == e.end <= f.start \/ f.end <= e.start

OnTheGrid ==
    \A entries \in InitEntries : AllAligned(entries) /\ \A e, f \in entries : e # f => Apart(e, f)

GridInv ==
    /\ AllAligned(rows)
    /\ \A t \in Tabs : AllAligned(cache[t].rows) /\ AllAligned(fetch[t].rows)
    /\ \A t \in Tabs : editor[t] # Null => \A u \in DOMAIN editor[t].painted : Aligned(u)
    /\ \A s \in Saves : \A u \in DOMAIN saves[s].painted : Aligned(u)
    /\ \A s \in Saves : AllAligned(saves[s].left)
    /\ \A r, q \in rows : r.save = q.save /\ r # q => Apart(r, q)

-----------------------------------------------------------------------------
(* What the steps do to the fields the register shows.                     *)

\* Save s goes on with program counter x, and everybody keeps their rivals.
Moves(s, x) ==
    /\ Shape'
    /\ \A r \in Saves : saves'[r].rivals = saves[r].rivals
    /\ \A r \in Saves : saves'[r].pc = IF r = s THEN x ELSE saves[r].pc

\* A save whose record was written anew.
Rewritten(s, x, heard, painted, left) ==
    saves' = [r \in Saves |-> IF r = s
        THEN [pc |-> x, heard |-> heard, tab |-> saves[s].tab, painted |-> painted,
              left |-> left, rivals |-> saves[s].rivals, before |-> saves[s].before]
        ELSE saves[r]]

LEMMA RewrittenMoves ==
    ASSUME Shape, NEW s \in Saves, NEW x, NEW heard, NEW painted, NEW left,
           Rewritten(s, x, heard, painted, left)
    PROVE  Moves(s, x)
<1>1. saves'[s] = [pc |-> x, heard |-> heard, tab |-> saves[s].tab, painted |-> painted,
                   left |-> left, rivals |-> saves[s].rivals, before |-> saves[s].before]
  BY DEF Rewritten
<1>2. saves'[s] = Fields(s)'
  BY <1>1 DEF Fields
<1>3. ASSUME NEW r \in Saves, r # s PROVE saves'[r] = saves[r] /\ saves'[r] = Fields(r)'
  <2>1. saves'[r] = saves[r]
    BY <1>3 DEF Rewritten
  <2>2. saves[r] = Fields(r)
    BY DEF Shape
  <2>3. Fields(r)' = Fields(r)
    BY <2>1 DEF Fields
  <2> QED BY <2>1, <2>2, <2>3
<1>4. saves' = [r \in Saves |-> saves'[r]]
  BY DEF Rewritten
<1>5. \A r \in Saves : saves'[r] = Fields(r)'
  BY <1>2, <1>3
<1>6. Shape'
  BY <1>4, <1>5 DEF Shape
<1>7. \A r \in Saves : saves'[r].rivals = saves[r].rivals
  BY <1>1, <1>3
<1>8. \A r \in Saves : saves'[r].pc = IF r = s THEN x ELSE saves[r].pc
  BY <1>1, <1>3
<1> QED BY <1>6, <1>7, <1>8 DEF Moves

LEMMA ReturnRewrites ==
    ASSUME Shape, NEW s \in Saves, NEW x, Return(s, x)
    PROVE  Rewritten(s, x, saves[s].heard, Blank, {})
<1>1. DOMAIN saves = Saves
  BY DEF Shape
<1> QED BY <1>1 DEF Return, Rewritten

LEMMA StepRewrites ==
    ASSUME Shape, NEW s \in Saves, NEW x, saves' = [saves EXCEPT ![s].pc = x]
    PROVE  Rewritten(s, x, saves[s].heard, saves[s].painted, saves[s].left)
<1>1. saves[s] = Fields(s) /\ DOMAIN saves = Saves
  BY DEF Shape
<1>2. [saves[s] EXCEPT !.pc = x]
        = [pc |-> x, heard |-> saves[s].heard, tab |-> saves[s].tab, painted |-> saves[s].painted,
           left |-> saves[s].left, rivals |-> saves[s].rivals, before |-> saves[s].before]
  BY <1>1 DEF Fields
<1> QED BY <1>1, <1>2 DEF Rewritten

LEMMA InsertRewrites ==
    ASSUME Shape, NEW s \in Saves, NEW e, saves' = [saves EXCEPT ![s].left = e]
    PROVE  Rewritten(s, saves[s].pc, saves[s].heard, saves[s].painted, e)
<1>1. saves[s] = Fields(s) /\ DOMAIN saves = Saves
  BY DEF Shape
<1>2. [saves[s] EXCEPT !.left = e]
        = [pc |-> saves[s].pc, heard |-> saves[s].heard, tab |-> saves[s].tab, painted |-> saves[s].painted,
           left |-> e, rivals |-> saves[s].rivals, before |-> saves[s].before]
  BY <1>1 DEF Fields
<1> QED BY <1>1, <1>2 DEF Rewritten

LEMMA HearingRewrites ==
    ASSUME Shape, NEW s \in Saves, NEW x, saves' = [saves EXCEPT ![s].heard = x]
    PROVE  Rewritten(s, saves[s].pc, x, saves[s].painted, saves[s].left)
<1>1. saves[s] = Fields(s) /\ DOMAIN saves = Saves
  BY DEF Shape
<1>2. [saves[s] EXCEPT !.heard = x]
        = [pc |-> saves[s].pc, heard |-> x, tab |-> saves[s].tab, painted |-> saves[s].painted,
           left |-> saves[s].left, rivals |-> saves[s].rivals, before |-> saves[s].before]
  BY <1>1 DEF Fields
<1> QED BY <1>1, <1>2 DEF Rewritten

LEMMA ReturnMoves ==
    ASSUME Shape, NEW s \in Saves, NEW x, Return(s, x)
    PROVE  Moves(s, x)
BY ReturnRewrites, RewrittenMoves

LEMMA StepMoves ==
    ASSUME Shape, NEW s \in Saves, NEW x, saves' = [saves EXCEPT ![s].pc = x]
    PROVE  Moves(s, x)
BY StepRewrites, RewrittenMoves

LEMMA InsertMoves ==
    ASSUME Shape, NEW s \in Saves, NEW e, saves' = [saves EXCEPT ![s].left = e]
    PROVE  Moves(s, saves[s].pc)
BY InsertRewrites, RewrittenMoves

LEMMA HearingMoves ==
    ASSUME Shape, NEW s \in Saves, NEW x, saves' = [saves EXCEPT ![s].heard = x]
    PROVE  Moves(s, saves[s].pc)
BY HearingRewrites, RewrittenMoves

-----------------------------------------------------------------------------
(* What the register shows of the state.                                   *)

Acknowledged == {s \in Saves : saves[s].pc = "stored"}
Stored == {r.save : r \in rows}
Rivals == [s \in Saves |-> saves[s].rivals]
registerVars == <<Running, Acknowledged, Stored, Rivals>>

LEMMA MovesShown ==
    ASSUME NEW s \in Saves, NEW x, Moves(s, x)
    PROVE  /\ Rivals' = Rivals
           /\ Running' = IF x \in {"validate", "delete", "insert"} THEN Running \cup {s} ELSE Running \ {s}
           /\ Acknowledged' = IF x = "stored" THEN Acknowledged \cup {s} ELSE Acknowledged \ {s}
BY DEF Moves, Rivals, Running, Acknowledged

\* Going on to a step that does not insert yet, or to the end, keeps the
\* invariant if the rows stay.
LEMMA MovesKeep ==
    ASSUME ReplaceInv, NEW s \in Saves, NEW x, Moves(s, x), s \in Running \/ x \notin {"validate", "delete", "insert"},
           x # "insert" \/ saves[s].pc = "insert", UNCHANGED rows
    PROVE  ReplaceInv'
<1>1. Running' \subseteq Running /\ \A r \in Saves : saves'[r].rivals = saves[r].rivals
  BY MovesShown DEF Moves
<1>2. RivalsKnown'
  <2> SUFFICES ASSUME NEW a \in Running', NEW b \in Running', a # b PROVE b \in saves'[a].rivals
    BY DEF RivalsKnown
  <2>1. a \in Running /\ b \in Running /\ a \in Saves
    BY <1>1 DEF Running
  <2> QED BY <1>1, <2>1 DEF ReplaceInv, RivalsKnown
<1>3. OldRowsGone'
  BY <1>1 DEF ReplaceInv, OldRowsGone, Moves
<1> QED BY <1>2, <1>3 DEF ReplaceInv, Moves

-----------------------------------------------------------------------------
(* Every step keeps the invariant and is a step of the register, or none.  *)

LEMMA InitReplaces ==
    Init => ReplaceInv /\ Register!Init
<1> SUFFICES ASSUME Init PROVE ReplaceInv /\ Register!Init
  OBVIOUS
<1>1. \A s \in Saves : saves[s] = Unsent
  BY DEF Init
<1>2. \A s \in Saves : Unsent = Fields(s)
  BY <1>1 DEF Unsent, Fields
<1>3. saves = [s \in Saves |-> Unsent]
  BY DEF Init
<1>4. Shape
  BY <1>2, <1>3 DEF Shape
<1>5. \A s \in Saves : saves[s].pc = "unsent" /\ saves[s].rivals = {}
  BY <1>1 DEF Unsent
<1>6. Running = {} /\ Acknowledged = {} /\ Rivals = [s \in Saves |-> {}]
  BY <1>5 DEF Running, Acknowledged, Rivals
<1>7. ReplaceInv
  BY <1>4, <1>5, <1>6 DEF ReplaceInv, RivalsKnown, OldRowsGone
<1> QED BY <1>6, <1>7 DEF Register!Init, Acknowledged, Rivals

LEMMA ValidateReplaces ==
    ASSUME ReplaceInv, NEW s \in Saves, Validate(s)
    PROVE  ReplaceInv' /\ [Register!Next]_registerVars
<1>0. s \in Running /\ saves[s].pc = "validate" /\ UNCHANGED rows
  BY DEF Validate, Running
<1>1. CASE saves' = [saves EXCEPT ![s].pc = "delete"]
  <2>1. Moves(s, "delete")
    BY <1>1, StepMoves DEF ReplaceInv
  <2>2. ReplaceInv'
    BY <1>0, <2>1, MovesKeep
  <2>3. UNCHANGED registerVars
    BY <1>0, <2>1, MovesShown DEF registerVars, Acknowledged, Stored
  <2> QED BY <2>2, <2>3
<1>2. CASE Return(s, "refused")
  <2>1. Moves(s, "refused")
    BY <1>2, ReturnMoves DEF ReplaceInv
  <2>2. ReplaceInv'
    BY <1>0, <2>1, MovesKeep
  <2>3. Running' = Running \ {s} /\ Rivals' = Rivals /\ Stored' = Stored /\ Acknowledged' = Acknowledged
    BY <1>0, <2>1, MovesShown DEF Acknowledged, Stored
  <2>4. Register!GiveUp(s)
    BY <1>0, <2>3 DEF Register!GiveUp, Acknowledged, Stored, Rivals
  <2> QED BY <2>2, <2>4 DEF Register!Next
<1> QED BY <1>1, <1>2 DEF Validate

LEMMA DeleteReplaces ==
    ASSUME ReplaceInv, NEW s \in Saves, DeleteExisting(s)
    PROVE  ReplaceInv' /\ [Register!Next]_registerVars
<1>1. Moves(s, "insert") /\ s \in Running /\ rows' = {}
  BY StepMoves DEF DeleteExisting, Running, ReplaceInv
<1>2. Running' = Running /\ Rivals' = Rivals /\ Acknowledged' = Acknowledged
  <2>1. saves[s].pc = "delete"
    BY DEF DeleteExisting
  <2> QED BY <1>1, <2>1, MovesShown DEF Acknowledged
<1>3. RivalsKnown'
  BY <1>1, <1>2 DEF ReplaceInv, RivalsKnown, Moves, Running
<1>4. OldRowsGone'
  BY <1>1 DEF OldRowsGone
<1>5. Register!Write(s)
  BY <1>1, <1>2 DEF Register!Write, Acknowledged, Stored, Rivals
<1> QED BY <1>1, <1>3, <1>4, <1>5 DEF Register!Next, ReplaceInv, Moves

LEMMA InsertReplaces ==
    ASSUME ReplaceInv, NEW s \in Saves, InsertNext(s)
    PROVE  ReplaceInv' /\ [Register!Next]_registerVars
<1>1. PICK e \in saves[s].left :
          /\ rows' = rows \cup {[save |-> s, start |-> e.start, end |-> e.end, status |-> e.status]}
          /\ saves' = [saves EXCEPT ![s].left = @ \ {e}]
  BY DEF InsertNext
<1>2. Moves(s, saves[s].pc) /\ s \in Running /\ saves[s].pc = "insert"
  BY <1>1, InsertMoves DEF InsertNext, Running, ReplaceInv
<1>3. Running' = Running /\ Rivals' = Rivals /\ Acknowledged' = Acknowledged
  BY <1>2, MovesShown DEF Acknowledged
<1>4. RivalsKnown'
  BY <1>2, <1>3 DEF ReplaceInv, RivalsKnown, Moves, Running
<1>5. OldRowsGone'
  <2> SUFFICES ASSUME NEW a \in Saves, saves'[a].pc = "insert", NEW r \in rows'
               PROVE  r.save \in {a} \cup saves'[a].rivals
    BY DEF OldRowsGone
  <2>1. saves[a].pc = "insert" /\ saves'[a].rivals = saves[a].rivals /\ a \in Running
    BY <1>2 DEF Moves, Running
  <2>2. CASE r \in rows
    BY <2>1, <2>2 DEF ReplaceInv, OldRowsGone
  <2>3. CASE r.save = s
    BY <1>2, <2>1, <2>3 DEF ReplaceInv, RivalsKnown
  <2> QED BY <1>1, <2>2, <2>3
<1>6. Stored' \subseteq Stored \cup {s}
  BY <1>1 DEF Stored
<1>7. Register!Write(s)
  BY <1>2, <1>3, <1>6 DEF Register!Write, Acknowledged, Stored, Rivals
<1> QED BY <1>2, <1>4, <1>5, <1>7 DEF Register!Next, ReplaceInv, Moves

LEMMA ReturnReplaces ==
    ASSUME ReplaceInv, NEW s \in Saves, AllInserted(s) \/ BreakOff(s)
    PROVE  ReplaceInv' /\ [Register!Next]_registerVars
<1>1. CASE AllInserted(s)
  <2>1. Moves(s, "stored") /\ s \in Running /\ saves[s].pc = "insert" /\ rows' = rows
    BY <1>1, ReturnMoves DEF AllInserted, Running, ReplaceInv
  <2>2. ReplaceInv'
    BY <2>1, MovesKeep
  <2>3. Running' = Running \ {s} /\ Rivals' = Rivals /\ Acknowledged' = Acknowledged \cup {s} /\ Stored' = Stored
    BY <2>1, MovesShown DEF Stored
  <2>4. Stored \subseteq {s} \cup Rivals[s]
    BY <2>1 DEF ReplaceInv, OldRowsGone, Stored, Rivals
  <2>5. Register!Acknowledge(s)
    BY <2>1, <2>3, <2>4 DEF Register!Acknowledge, Acknowledged, Stored, Rivals
  <2> QED BY <2>2, <2>5 DEF Register!Next
<1>2. CASE BreakOff(s)
  <2>1. Moves(s, "refused") /\ s \in Running /\ rows' = rows
    BY <1>2, ReturnMoves DEF BreakOff, ReplaceInv
  <2>2. ReplaceInv'
    BY <2>1, MovesKeep
  <2>3. Running' = Running \ {s} /\ Rivals' = Rivals /\ Acknowledged' = Acknowledged /\ Stored' = Stored
    BY <2>1, MovesShown DEF Stored, Acknowledged, Running
  <2>4. Register!GiveUp(s)
    BY <2>1, <2>3 DEF Register!GiveUp, Acknowledged, Stored, Rivals
  <2> QED BY <2>2, <2>4 DEF Register!Next
<1> QED BY <1>1, <1>2

LEMMA HearingReplaces ==
    ASSUME ReplaceInv, NEW s \in Saves, SaveSucceeds(s) \/ SaveFails(s)
    PROVE  ReplaceInv' /\ [Register!Next]_registerVars
<1>1. rows' = rows /\ \E x : saves' = [saves EXCEPT ![s].heard = x]
  BY DEF SaveSucceeds, SaveFails
<1>2. Moves(s, saves[s].pc)
  BY <1>1, HearingMoves DEF ReplaceInv
<1>3. ReplaceInv'
  BY <1>1, <1>2, MovesKeep DEF Running
<1>4. UNCHANGED registerVars
  BY <1>1, <1>2, MovesShown DEF registerVars, Acknowledged, Stored, Running
<1> QED BY <1>3, <1>4

\* A save is sent: it starts with the painting of the editor, and becomes a
\* rival of those under way as they are its own.
Sending(t, s) ==
    /\ Shape' /\ rows' = rows /\ saves[s].pc = "unsent" /\ saves[s].rivals = {}
    /\ saves'[s].pc = "validate" /\ saves'[s].heard = "waiting" /\ saves'[s].tab = t
    /\ saves'[s].painted = editor[t].painted /\ saves'[s].left = ToEntries(editor[t].painted)
    /\ saves'[s].rivals = Running
    /\ saves'[s].before = {q \in Saves : saves[q].pc # "unsent"} \ Running
    /\ \A r \in Saves : r # s =>
          /\ saves'[r].pc = saves[r].pc /\ saves'[r].heard = saves[r].heard /\ saves'[r].tab = saves[r].tab
          /\ saves'[r].painted = saves[r].painted /\ saves'[r].left = saves[r].left
          /\ saves'[r].before = saves[r].before
          /\ saves'[r].rivals = IF r \in Running THEN saves[r].rivals \cup {s} ELSE saves[r].rivals

LEMMA SaveForms ==
    ASSUME Shape, NEW s \in Saves, NEW t \in Tabs, Save(t, s)
    PROVE  Sending(t, s)
<1> DEFINE begun == {q \in Saves : saves[q].pc # "unsent"} \ Running
           sent == [pc |-> "validate", heard |-> "waiting", tab |-> t, painted |-> editor[t].painted,
                    left |-> ToEntries(editor[t].painted), rivals |-> Running, before |-> begun]
<1>0. saves[s].pc = "unsent" /\ saves[s].rivals = {} /\ saves' = [r \in Saves |-> AfterSending(t, s, r)]
  <2>1. saves[s] = Unsent
    BY DEF Save
  <2>2. Unsent.pc = "unsent" /\ Unsent.rivals = {}
    BY DEF Unsent
  <2> QED BY <2>1, <2>2 DEF Save
<1>1. s \notin Running /\ rows' = rows
  BY <1>0 DEF Save, Running
<1>2. saves'[s] = sent
  <2>1. AfterSending(t, s, s) = sent
    BY <1>1 DEF AfterSending
  <2> QED BY <1>0, <2>1
<1>3. ASSUME NEW r \in Running PROVE saves'[r] = [saves[r] EXCEPT !.rivals = @ \cup {s}]
  <2>1. r \in Saves /\ r # s
    BY <1>1 DEF Running
  <2> QED BY <1>0, <2>1 DEF AfterSending
<1>4. ASSUME NEW r \in Saves, r # s, r \notin Running PROVE saves'[r] = saves[r]
  BY <1>0, <1>4 DEF AfterSending
<1>5. ASSUME NEW r \in Running
      PROVE  /\ saves'[r].pc = saves[r].pc /\ saves'[r].heard = saves[r].heard /\ saves'[r].tab = saves[r].tab
             /\ saves'[r].painted = saves[r].painted /\ saves'[r].left = saves[r].left
             /\ saves'[r].before = saves[r].before /\ saves'[r].rivals = saves[r].rivals \cup {s}
             /\ saves'[r] = Fields(r)'
  <2>1. saves[r] = Fields(r)
    BY DEF Shape, Running
  <2>2. saves'[r] = [pc |-> saves[r].pc, heard |-> saves[r].heard, tab |-> saves[r].tab,
                     painted |-> saves[r].painted, left |-> saves[r].left,
                     rivals |-> saves[r].rivals \cup {s}, before |-> saves[r].before]
    BY <1>3, <2>1 DEF Fields
  <2> QED BY <2>2 DEF Fields
<1> HIDE DEF begun, sent
<1>7. /\ saves'[s].pc = "validate" /\ saves'[s].heard = "waiting" /\ saves'[s].tab = t
      /\ saves'[s].painted = editor[t].painted /\ saves'[s].left = ToEntries(editor[t].painted)
      /\ saves'[s].rivals = Running
      /\ saves'[s].before = begun
  BY <1>2 DEF sent
<1>8. Shape'
  <2>1. saves' = [r \in Saves |-> saves'[r]]
    BY <1>0
  <2>2. saves'[s] = Fields(s)'
    BY <1>2 DEF Fields, sent
  <2>3. ASSUME NEW r \in Saves, r # s, r \notin Running PROVE saves'[r] = Fields(r)'
    <3>1. saves[r] = Fields(r)
      BY DEF Shape
    <3> QED BY <1>4, <2>3, <3>1 DEF Fields
  <2>4. \A r \in Saves : saves'[r] = Fields(r)'
    BY <1>5, <2>2, <2>3
  <2> QED BY <2>1, <2>4 DEF Shape
<1> QED BY <1>0, <1>1, <1>4, <1>5, <1>7, <1>8 DEF Sending, begun

LEMMA SaveReplaces ==
    ASSUME ReplaceInv, NEW s \in Saves, NEW t \in Tabs, Save(t, s)
    PROVE  ReplaceInv' /\ [Register!Next]_registerVars
<1>0. Shape /\ Sending(t, s)
  BY SaveForms DEF ReplaceInv
<1>1. s \notin Running /\ rows' = rows /\ saves'[s].pc = "validate" /\ saves'[s].rivals = Running
  BY <1>0 DEF Sending, Running
<1>2. ASSUME NEW r \in Saves, r # s
      PROVE  /\ saves'[r].pc = saves[r].pc
             /\ saves'[r].rivals = IF r \in Running THEN saves[r].rivals \cup {s} ELSE saves[r].rivals
  BY <1>0, <1>2 DEF Sending
<1>3. Shape'
  BY <1>0 DEF Sending
<1>4. Running' = Running \cup {s} /\ Acknowledged' = Acknowledged
  <2>1. saves[s].pc = "unsent"
    BY <1>0 DEF Sending
  <2> QED BY <1>1, <1>2, <2>1 DEF Running, Acknowledged
<1>5. Rivals' = [r \in Saves |-> CASE r = s       -> Running
                                    [] r \in Running -> Rivals[r] \cup {s}
                                    [] OTHER       -> Rivals[r]]
  BY <1>1, <1>2 DEF Rivals, Running
<1>6. RivalsKnown'
  <2> SUFFICES ASSUME NEW a \in Running', NEW b \in Running', a # b PROVE b \in saves'[a].rivals
    BY DEF RivalsKnown
  <2>1. a \in Saves /\ b \in Saves /\ a \in Running \cup {s} /\ b \in Running \cup {s}
    BY <1>4 DEF Running
  <2> QED BY <1>1, <1>2, <2>1 DEF ReplaceInv, RivalsKnown
<1>7. OldRowsGone'
  <2> SUFFICES ASSUME NEW a \in Saves, saves'[a].pc = "insert", NEW r \in rows
               PROVE  r.save \in {a} \cup saves'[a].rivals
    BY <1>1 DEF OldRowsGone
  <2>1. a # s /\ saves[a].pc = "insert"
    BY <1>1, <1>2
  <2> QED BY <1>2, <2>1 DEF ReplaceInv, OldRowsGone
<1>8. Register!Begin(s)
  BY <1>1, <1>4, <1>5 DEF Register!Begin, Acknowledged, Stored, Rivals
<1> QED BY <1>3, <1>6, <1>7, <1>8 DEF Register!Next, ReplaceInv

LEMMA StepReplaces ==
    ASSUME ReplaceInv, [Next]_vars
    PROVE  ReplaceInv' /\ [Register!Next]_registerVars
<1>1. ASSUME UNCHANGED <<rows, saves>> PROVE ReplaceInv' /\ [Register!Next]_registerVars
  <2>1. UNCHANGED registerVars
    BY <1>1 DEF registerVars, Running, Acknowledged, Stored, Rivals
  <2>2. ReplaceInv'
    BY <1>1 DEF ReplaceInv, Shape, Fields, RivalsKnown, OldRowsGone, Running
  <2> QED BY <2>1, <2>2
<1>2. ASSUME NEW s \in Saves, ServiceStep(s) \/ SaveSucceeds(s) \/ SaveFails(s) \/ \E t \in Tabs : Save(t, s)
      PROVE  ReplaceInv' /\ [Register!Next]_registerVars
  BY <1>2, ValidateReplaces, DeleteReplaces, InsertReplaces, ReturnReplaces, HearingReplaces, SaveReplaces
     DEF ServiceStep
<1>3. ASSUME NEW t \in Tabs, QueryStep(t) \/ EditorStep(t) PROVE UNCHANGED <<rows, saves>>
  BY <1>3 DEF QueryStep, EditorStep, FetchRead, FetchDone, FetchFails, Refocus, Open, Close, ClearAll,
              Erase, Paint, serviceVars
<1> QED BY <1>1, <1>2, <1>3 DEF Next, vars

-----------------------------------------------------------------------------
\* SetAvailability implements the register: whatever saves overlap and
\* wherever one of them breaks off, a save is acknowledged only over rows of
\* its own and of saves that ran together with it.
THEOREM SetAvailabilityReplaces == Spec => ReplacesAll
<1>1. Init => ReplaceInv /\ Register!Init
  BY InitReplaces
<1>2. ReplaceInv /\ [Next]_vars => ReplaceInv' /\ [Register!Next]_registerVars
  BY StepReplaces
<1> QED BY <1>1, <1>2, PTL DEF Spec, ReplacesAll, Register!Spec, registerVars, Acknowledged, Stored, Rivals

-----------------------------------------------------------------------------
(* Arithmetic of the slots.                                                *)

LEMMA Numbers ==
    /\ Gran \in Nat /\ Gran > 0 /\ EventStart \in Nat /\ EventEnd \in Nat
    /\ Horizon \in Nat /\ EventEnd <= Horizon /\ Null \notin Saves
BY AvailabilityAssumption

\* Every set of naturals that is not empty has a least element: the induction
\* behind every lemma below about slots.
LEMMA Least == ASSUME NEW S, S \subseteq Nat, S # {} PROVE \E x \in S : \A y \in S : x <= y
<1> DEFINE R == OpToRel(<, Nat)
<1>1. IsWellFoundedOn(R, Nat)
  BY NatLessThanWellFounded
<1>3. R = {ss \in Nat \X Nat : ss[1] < ss[2]}
  BY DEF OpToRel
<1> HIDE DEF R
<1>2. PICK x \in S : \A y \in S : ~ (<<y,x>> \in R)
  BY <1>1, WFMin
<1>4. \A y \in S : <<y,x>> \in Nat \X Nat /\ <<y,x>>[1] = y /\ <<y,x>>[2] = x
  OBVIOUS
<1>5. \A y \in S : ~ (y < x)
  BY <1>2, <1>3, <1>4
<1> QED BY <1>5

\* The maximum of a bounded set is in it.
LEMMA Greatest == ASSUME NEW S, NEW n \in Nat, S \subseteq 0 .. n, S # {} PROVE Max(S) \in S /\ \A y \in S : y <= Max(S)
<1> DEFINE T == {n - x : x \in S}
<1>1. PICK z \in T : \A y \in T : z <= y
  <2>1. T \subseteq Nat /\ T # {}
    <3>1. \A x \in S : n - x \in Nat
      OBVIOUS
    <3> QED BY <3>1
  <2> HIDE DEF T
  <2> QED BY <2>1, Least
<1>2. PICK x \in S : z = n - x
  OBVIOUS
<1>3. \A y \in S : x >= y
  <2> SUFFICES ASSUME NEW y \in S PROVE x >= y
    OBVIOUS
  <2>1. n - y \in T
    OBVIOUS
  <2>2. z <= n - y
   BY <1>1, <2>1
  <2> QED BY <1>2, <2>2
<1>4. \E u \in S : \A y \in S : u >= y
  BY <1>3
<1>5. Max(S) \in S /\ \A y \in S : Max(S) >= y
  BY <1>4 DEF Max
<1> QED BY <1>5

\* Quotient and remainder.
LEMMA DivMod ==
    ASSUME NEW a \in Int, NEW b \in Nat \ {0}
    PROVE  a \div b \in Int /\ a % b \in 0 .. b - 1 /\ a = (b * (a \div b)) + (a % b)
  BY SMTT(20)

\* Quotient and remainder are unique.
LEMMA Unique ==
    ASSUME NEW b \in Nat \ {0}, NEW k \in Int, NEW r \in 0 .. b - 1, NEW j \in Int, NEW s \in 0 .. b - 1,
           (b * k) + r = (b * j) + s
    PROVE  k = j /\ r = s
<1>1. b * (k - j) = s - r
  BY SMTT(20)
<1>2. CASE k - j >= 1
  <2>1. b * (k - j) >= b
    BY <1>2, SMTT(20)
  <2> QED BY <1>1, <2>1
<1>3. CASE j - k >= 1
  <2>1. b * (k - j) <= -b
    BY <1>3, SMTT(20)
  <2> QED BY <1>1, <2>1
<1> QED BY <1>1, <1>2, <1>3

\* Multiples of the divisor change the quotient only.
LEMMA ModPlus ==
    ASSUME NEW a \in Int, NEW b \in Nat \ {0}, NEW k \in Int
    PROVE  (a + (b * k)) % b = a % b
<1> DEFINE q == a \div b
           r == a % b
           q2 == (a + (b * k)) \div b
           r2 == (a + (b * k)) % b
<1>0. a + (b * k) \in Int
  OBVIOUS
<1>1. a = (b * q) + r /\ q \in Int /\ r \in 0 .. b - 1
  BY DivMod
<1>2. a + (b * k) = (b * q2) + r2 /\ q2 \in Int /\ r2 \in 0 .. b - 1
  BY <1>0, DivMod
<1> HIDE DEF q, r, q2, r2
<1>3. (b * (q + k)) + r = (b * q2) + r2
  <2>1. b * (q + k) = (b * q) + (b * k)
    BY <1>1, SMTT(20)
  <2> QED BY <1>1, <1>2, <2>1
<1>5. q + k \in Int
  BY <1>1
<1>4. r = r2
  BY <1>1, <1>2, <1>3, <1>5, Unique
<1> QED BY <1>4 DEF r, r2

LEMMA ModZero ==
    ASSUME NEW a \in Int, NEW b \in Nat \ {0}
    PROVE  a % b = 0 <=> \E k \in Int : a = b * k
<1>1. ASSUME a % b = 0 PROVE \E k \in Int : a = b * k
  <2>1. a \div b \in Int /\ a = (b * (a \div b)) + (a % b)
    BY DivMod
  <2>2. ASSUME NEW q \in Int, a = (b * q) + 0 PROVE a = b * q
    BY <2>2
  <2>3. a = b * (a \div b)
    BY <1>1, <2>1, <2>2
  <2> QED BY <2>1, <2>3
<1>2. ASSUME NEW k \in Int, a = b * k PROVE a % b = 0
  <2>1. 0 % b = 0
    <3>1. 0 = (b * (0 \div b)) + (0 % b) /\ 0 \div b \in Int /\ 0 % b \in 0 .. b - 1
      BY DivMod
    <3>2. (b * 0) + 0 = (b * (0 \div b)) + (0 % b)
      BY <3>1
    <3> QED BY <3>1, <3>2, Unique
  <2>2. (0 + (b * k)) % b = 0 % b
    BY ModPlus
  <2>3. 0 + (b * k) = a
    BY <1>2
  <2> QED BY <2>1, <2>2, <2>3
<1> QED BY <1>1, <1>2

\* Two numbers on the same grid are apart by a step at least.
LEMMA OneStep ==
    ASSUME NEW a \in Int, NEW b \in Nat \ {0}, a % b = 0, a > 0
    PROVE  a >= b
<1>1. 0 <= a /\ a < b => a = 0
  BY SMTT(20)
<1> QED BY <1>1

\* One slot on, and from one slot of the grid to another.
LEMMA SlotOn ==
    ASSUME NEW a \in Int, NEW c \in Int, c = a + Gran
    PROVE  c % Gran = a % Gran
<1>1. Gran \in Nat \ {0} /\ 1 \in Int
  BY AvailabilityAssumption
<1>2. (a + (Gran * 1)) % Gran = a % Gran
  BY <1>1, ModPlus, Zenon
<1>3. c = a + (Gran * 1)
  BY <1>1
<1> QED BY <1>2, <1>3

LEMMA SlotsApart ==
    ASSUME NEW a \in Int, NEW c \in Int, NEW d \in Int, a % Gran = 0, c % Gran = 0, d = c - a
    PROVE  d % Gran = 0
<1>0. Gran \in Nat \ {0}
  BY AvailabilityAssumption
<1>1. PICK k \in Int : a = Gran * k
  BY <1>0, ModZero
<1>2. PICK j \in Int : c = Gran * j
  BY <1>0, ModZero
<1>3. j - k \in Int /\ d = Gran * (j - k)
  BY <1>0, <1>1, <1>2, SMTT(20)
<1> QED BY <1>0, <1>3, ModZero

-----------------------------------------------------------------------------
(* Splitting a painting into entries and reading the entries back.         *)

\* A painting is a function on slots before the horizon.
LEMMA PaintingShape ==
    ASSUME NEW p \in Painting
    PROVE  DOMAIN p \subseteq 0 .. Horizon - 1 /\ p \in [DOMAIN p -> Statuses]
BY DEF Painting

\* A slot that opens no entry follows one of its own status directly.
LEMMA Follows ==
    ASSUME NEW p \in Painting, NEW u \in DOMAIN p, ~Opens(p, u)
    PROVE  /\ u - Gran \in DOMAIN p /\ p[u - Gran] = p[u]
           /\ \A v \in DOMAIN p : v < u => v <= u - Gran
<1> DEFINE before == {v \in DOMAIN p : v < u}
<1>1. before # {} /\ p[Max(before)] = p[u] /\ Max(before) + Gran = u
  BY DEF Opens
<1>2. before \subseteq 0 .. Horizon - 1 /\ Horizon - 1 \in Nat /\ u \in Nat
  BY PaintingShape, AvailabilityAssumption
<1> HIDE DEF before
<1>3. Max(before) \in before /\ \A v \in before : v <= Max(before)
  BY <1>1, <1>2, Greatest
<1>4. Max(before) = u - Gran
  <2>1. Max(before) \in Int /\ u \in Int /\ Gran \in Int
    <3>1. Horizon \in Int /\ Gran \in Int
      BY AvailabilityAssumption
    <3>2. Max(before) \in 0 .. Horizon - 1
      BY <1>2, <1>3
    <3>3. \A n \in 0 .. Horizon - 1 : n \in Int
      BY <3>1
    <3> QED BY <1>2, <3>1, <3>2, <3>3
  <2> QED BY <1>1, <2>1
<1> QED BY <1>1, <1>3, <1>4 DEF before

\* A run goes on slot by slot, in one status.
LEMMA RunSteps ==
    ASSUME NEW p \in Painting, NEW t \in DOMAIN p, NEW u \in Run(p, t)
    PROVE  p[u] = p[t] /\ (u - t) % Gran = 0
<1> DEFINE Bad == {x \in Run(p, t) : ~(p[x] = p[t] /\ (x - t) % Gran = 0)}
<1> SUFFICES ASSUME Bad # {} PROVE FALSE
  OBVIOUS
<1>0. DOMAIN p \subseteq Nat /\ Gran \in Nat \ {0}
  BY PaintingShape, AvailabilityAssumption
<1>1. Bad \subseteq Nat
  BY <1>0 DEF Run
<1>2. PICK x \in Bad : \A y \in Bad : x <= y
  <2> HIDE DEF Bad
  <2> QED BY <1>1, Least
<1>3. x \in DOMAIN p /\ x >= t /\ \A v \in DOMAIN p : t < v /\ v <= x => ~Opens(p, v)
  BY <1>2 DEF Run
<1>4. CASE x = t
  <2>1. (x - t) % Gran = 0
    <3>1. x - t = Gran * 0
      BY <1>0, <1>3, <1>4
    <3>2. x - t \in Int
      BY <1>0, <1>3
    <3> QED BY <1>0, <3>1, <3>2, ModZero
  <2> QED BY <1>2, <1>4, <2>1
<1>5. CASE x > t
  <2>1. ~Opens(p, x)
    BY <1>0, <1>3, <1>5
  <2>2. x - Gran \in DOMAIN p /\ p[x - Gran] = p[x] /\ t <= x - Gran
    BY <1>3, <1>5, <2>1, Follows
  <2>3. x - Gran \in Run(p, t)
    BY <1>0, <1>3, <2>2 DEF Run
  <2>4. x - Gran \notin Bad
    BY <1>0, <1>2, <1>3, <2>2
  <2>5. p[x - Gran] = p[t] /\ ((x - Gran) - t) % Gran = 0
    BY <2>3, <2>4
  <2>6. (x - t) % Gran = 0
    <3>1. (x - Gran) - t \in Int /\ x - t \in Int /\ x - t = ((x - Gran) - t) + Gran
      BY <1>0, <1>3, <2>2
    <3>2. (x - t) % Gran = ((x - Gran) - t) % Gran
      BY <3>1, SlotOn
    <3> QED BY <2>5, <3>2
  <2> QED BY <1>2, <2>2, <2>5, <2>6
<1> QED BY <1>0, <1>3, <1>4, <1>5

\* A run is not empty and has a last slot.
LEMMA RunEnds ==
    ASSUME NEW p \in Painting, NEW t \in DOMAIN p
    PROVE  t \in Run(p, t) /\ Max(Run(p, t)) \in Run(p, t) /\ \A u \in Run(p, t) : u <= Max(Run(p, t))
<1>0. DOMAIN p \subseteq 0 .. Horizon - 1 /\ Horizon - 1 \in Nat
  BY PaintingShape, AvailabilityAssumption
<1>1. t \in Run(p, t) /\ Run(p, t) \subseteq 0 .. Horizon - 1
  BY <1>0 DEF Run
<1> QED BY <1>0, <1>1, Greatest

\* The slots of a run are all those of its entry.
LEMMA RunIsCovered ==
    ASSUME NEW p \in Painting, NEW t \in DOMAIN p, NEW e, e.start = t, e.end = Max(Run(p, t)) + Gran
    PROVE  Covered(e) = Run(p, t)
<1> DEFINE m == Max(Run(p, t))
<1>0. DOMAIN p \subseteq Nat /\ Gran \in Nat \ {0} /\ t \in Nat
  BY PaintingShape, AvailabilityAssumption
<1>1. m \in Run(p, t) /\ m \in DOMAIN p /\ m \in Nat /\ m >= t /\ \A u \in Run(p, t) : u <= m
  BY <1>0, RunEnds DEF Run
<1>2. (m - t) % Gran = 0
  BY <1>1, RunSteps
<1>3. Covered(e) = {x \in t .. m + Gran - 1 : (x - t) % Gran = 0}
  <2>1. Covered(e) = {x \in e.start .. e.end - 1 : (x - e.start) % Gran = 0}
    BY DEF Covered
  <2>2. \A x : x \in Covered(e) <=> x \in t .. m + Gran - 1 /\ (x - t) % Gran = 0
    BY <1>0, <1>1, <2>1
  <2> QED BY <2>2
<1> HIDE DEF m
<1>4. ASSUME NEW u \in Run(p, t) PROVE u \in Covered(e)
  <2>1. u \in Nat /\ t <= u /\ u <= m
    BY <1>0, <1>1 DEF Run
  <2>2. (u - t) % Gran = 0
    BY RunSteps
  <2> QED BY <1>0, <1>1, <1>3, <2>1, <2>2
<1>5. ASSUME NEW x \in Covered(e), x >= m PROVE x = m
  <2>1. x \in Nat /\ x < m + Gran /\ (x - t) % Gran = 0
    BY <1>0, <1>1, <1>3
  <2>2. x - t \in Int /\ m - t \in Int /\ x - m \in Int /\ x - m = (x - t) - (m - t)
    BY <1>0, <1>1, <2>1
  <2>5. (x - m) % Gran = 0 
    BY <1>2, <2>1, <2>2, SlotsApart
  <2> QED BY <1>0, <1>1, <1>5, <2>1, <2>5, OneStep
<1>6. ASSUME NEW z \in Covered(e), z \notin Run(p, t) PROVE FALSE
  <2> DEFINE Bad == {x \in Covered(e) : x \notin Run(p, t)}
  <2>1. Bad \subseteq 0 .. m + Gran - 1 /\ m + Gran - 1 \in Nat /\ Bad # {}
    BY <1>0, <1>1, <1>3, <1>6
  <2>2. Max(Bad) \in Bad /\ \A y \in Bad : y <= Max(Bad)
    <3> HIDE DEF Bad
    <3> QED BY <2>1, Greatest
  <2>3. PICK x \in Covered(e) : x \notin Run(p, t) /\ \A y \in Bad : y <= x
    BY <2>2
  <2>4. x \in Nat /\ x < m /\ t <= x /\ (x - t) % Gran = 0
    BY <1>0, <1>1, <1>3, <1>5, <2>3
  <2>5. ((x + Gran) - t) % Gran = 0
    <3>1. x - t \in Int /\ (x + Gran) - t \in Int /\ (x + Gran) - t = (x - t) + Gran
      BY <1>0, <2>4
    <3>2. ((x + Gran) - t) % Gran = (x - t) % Gran
      BY <3>1, SlotOn
    <3> QED BY <2>4, <3>2
  <2>6. x + Gran \in Covered(e)
    BY <1>0, <1>1, <1>3, <2>4, <2>5
  <2>7. x + Gran \in Run(p, t)
    BY <1>0, <2>3, <2>4, <2>6
  <2>8. x + Gran \in DOMAIN p /\ ~Opens(p, x + Gran) /\ \A v \in DOMAIN p : t < v /\ v <= x + Gran => ~Opens(p, v)
    BY <1>0, <2>4, <2>7 DEF Run
  <2>9. (x + Gran) - Gran \in DOMAIN p
    BY <2>8, Follows
  <2>10. x \in DOMAIN p
    <3>1. (x + Gran) - Gran = x
      BY <1>0, <2>4
    <3> QED BY <2>9, <3>1
  <2>11. x \in Run(p, t)
    BY <1>0, <2>4, <2>8, <2>10 DEF Run
  <2> QED BY <2>3, <2>11
<1> QED BY <1>4, <1>6

\* Every painted slot is in the run of one entry, and of one only.
LEMMA EveryRun ==
    ASSUME NEW p \in Painting, NEW u \in DOMAIN p
    PROVE  \E t \in DOMAIN p : Opens(p, t) /\ u \in Run(p, t)
<1> DEFINE Bad == {x \in DOMAIN p : \A t \in DOMAIN p : ~(Opens(p, t) /\ x \in Run(p, t))}
<1> SUFFICES ASSUME Bad # {} PROVE FALSE
  OBVIOUS
<1>0. DOMAIN p \subseteq Nat /\ Gran \in Nat \ {0}
  BY PaintingShape, AvailabilityAssumption
<1>1. Bad \subseteq Nat
  BY <1>0
<1>2. PICK x \in Bad : \A y \in Bad : x <= y
  <2> HIDE DEF Bad
  <2> QED BY <1>1, Least
<1>3. ~Opens(p, x)
  BY <1>2, RunEnds
<1>4. x - Gran \in DOMAIN p /\ \A v \in DOMAIN p : v < x => v <= x - Gran
  BY <1>2, <1>3, Follows
<1>5. PICK t \in DOMAIN p : Opens(p, t) /\ x - Gran \in Run(p, t)
  BY <1>0, <1>1, <1>2, <1>4
<1>6. x \in Run(p, t)
  BY <1>0, <1>2, <1>3, <1>4, <1>5 DEF Run
<1> QED BY <1>2, <1>5, <1>6

LEMMA OneRun ==
    ASSUME NEW p \in Painting, NEW t \in DOMAIN p, NEW r \in DOMAIN p, Opens(p, t), Opens(p, r),
           NEW u \in Run(p, t), u \in Run(p, r)
    PROVE  t = r
<1>0. DOMAIN p \subseteq Nat
  BY PaintingShape
<1>1. u \in Nat /\ t \in Nat /\ r \in Nat /\ t <= u /\ r <= u
  BY <1>0 DEF Run
<1>2. ~(t < r) /\ ~(r < t)
  BY <1>1 DEF Run
<1> QED BY <1>1, <1>2

\* The data stored for a painting: one row for each of its entries.
StoredAs(data, p) ==
    /\ \A r \in data : \E e \in ToEntries(p) : r.start = e.start /\ r.end = e.end /\ r.status = e.status
    /\ \A e \in ToEntries(p) : \E r \in data : r.start = e.start /\ r.end = e.end /\ r.status = e.status

\* An entry starts where a run opens, and ends a slot after the run's last.
LEMMA EntryShape ==
    ASSUME NEW p \in Painting, NEW e \in ToEntries(p)
    PROVE  /\ e.start \in DOMAIN p /\ Opens(p, e.start)
           /\ e.end = Max(Run(p, e.start)) + Gran /\ e.status = p[e.start]
BY DEF ToEntries

\* Reading back the rows of a painting gives the painting.
LEMMA RoundTrip ==
    ASSUME NEW p \in Painting, NEW data, StoredAs(data, p)
    PROVE  Paintings(data) = {p}
<1>1. ASSUME NEW r \in data
      PROVE  /\ r.start \in DOMAIN p /\ Opens(p, r.start) /\ r.status = p[r.start]
             /\ Covered(r) = Run(p, r.start)
  BY EntryShape, RunIsCovered DEF StoredAs
<1>2. ASSUME NEW u \in DOMAIN p
      PROVE  \E r \in data : u \in Covered(r)
  <2>1. PICK t \in DOMAIN p : Opens(p, t) /\ u \in Run(p, t)
    BY EveryRun
  <2>2. PICK e \in ToEntries(p) : e.start = t
    <3> DEFINE e == [start |-> t, end |-> Max(Run(p, t)) + Gran, status |-> p[t]]
    <3>1. e \in ToEntries(p)
      BY <2>1 DEF ToEntries
    <3> QED BY <3>1
  <2>3. PICK r \in data : r.start = t
    BY <2>2 DEF StoredAs
  <2> QED BY <1>1, <2>1, <2>3
<1>3. ASSUME NEW r \in data, NEW u \in Covered(r)
      PROVE  u \in DOMAIN p /\ p[u] = r.status /\ \A q \in data : u \in Covered(q) => q.start = r.start
  <2>1. u \in DOMAIN p /\ u \in Run(p, r.start)
    BY <1>1 DEF Run
  <2>2. p[u] = r.status
    BY <1>1, <2>1, RunSteps
  <2> QED BY <1>1, <2>1, <2>2, OneRun
<1> DEFINE slots == UNION {Covered(e) : e \in data}
<1>4. slots = DOMAIN p
  BY <1>2, <1>3
<1> DEFINE Says(e, t, status) ==
             /\ t \in Covered(e) /\ e.status = status
             /\ \A f \in data : t \in Covered(f) => f.start <= e.start
<1>5. Paintings(data) = {m \in [slots -> Statuses] : \A t \in slots : \E e \in data : Says(e, t, m[t])}
  BY DEF Paintings
<1>6. ASSUME NEW e \in data, NEW t \in slots, NEW status
      PROVE  Says(e, t, status) => status = p[t]
  BY <1>3
<1>7. ASSUME NEW t \in slots PROVE \E e \in data : Says(e, t, p[t])
  <2>1. PICK e \in data : t \in Covered(e)
    BY <1>2, <1>4
  <2>2. \A f \in data : t \in Covered(f) => f.start <= e.start
    <3>1. e.start \in Nat
      BY <1>1, PaintingShape
    <3> QED BY <1>3, <2>1, <3>1
  <2> QED BY <1>3, <2>1, <2>2
<1> HIDE DEF slots, Says
<1>8. p \in [slots -> Statuses]
  BY <1>4, PaintingShape
<1>9. p \in Paintings(data)
  BY <1>5, <1>7, <1>8
<1>10. ASSUME NEW m \in Paintings(data) PROVE m = p
  <2>1. m \in [slots -> Statuses] /\ \A t \in slots : m[t] = p[t]
    BY <1>5, <1>6
  <2> QED BY <1>8, <2>1
<1> QED BY <1>9, <1>10

LEMMA PaintingBuilt ==
    ASSUME NEW slots, slots \subseteq 0 .. Horizon - 1, NEW p \in [slots -> Statuses]
    PROVE  p \in Painting
BY DEF Painting

LEMMA BlankIsPainting == Blank \in Painting
<1>1. Blank \in [{} -> Statuses]
  BY DEF Blank
<1> QED BY <1>1, PaintingBuilt

\* What the editor submits, reads back and draws are entries and paintings.
LEMMA EntriesTyped ==
    ASSUME NEW p \in Painting
    PROVE  ToEntries(p) \subseteq Entry(Horizon + Gran)
<1> SUFFICES ASSUME NEW t \in DOMAIN p
             PROVE  [start |-> t, end |-> Max(Run(p, t)) + Gran, status |-> p[t]] \in Entry(Horizon + Gran)
  BY DEF ToEntries
<1>1. Max(Run(p, t)) \in DOMAIN p
  BY RunEnds DEF Run
<1>2. t \in 0 .. Horizon /\ p[t] \in Statuses /\ Max(Run(p, t)) \in 0 .. Horizon
  BY <1>1, PaintingShape, Numbers
<1>3. Max(Run(p, t)) + Gran \in 0 .. Horizon + Gran
  BY <1>2, Numbers
<1> QED BY <1>2, <1>3 DEF Entry

LEMMA PaintingsTyped ==
    ASSUME NEW data, \A r \in data : r.start \in 0 .. Horizon /\ r.end \in 0 .. Horizon, NEW p \in Paintings(data)
    PROVE  p \in Painting
<1> DEFINE slots == UNION {Covered(e) : e \in data}
<1>1. p \in [slots -> Statuses]
  BY DEF Paintings
<1>2. slots \subseteq 0 .. Horizon - 1
  <2> SUFFICES ASSUME NEW e \in data, NEW t \in Covered(e) PROVE t \in 0 .. Horizon - 1
    OBVIOUS
  <2>1. t \in e.start .. e.end - 1 /\ e.start \in 0 .. Horizon /\ e.end \in 0 .. Horizon
    BY DEF Covered
  <2> QED BY <2>1, Numbers
<1> HIDE DEF slots
<1> QED BY <1>1, <1>2, PaintingBuilt

LEMMA PaintedTyped ==
    ASSUME NEW p \in Painting, NEW slot \in Slots, NEW status \in Statuses
    PROVE  Painted(p, slot, status) \in Painting
<1>1. DOMAIN p \cup {slot} \subseteq 0 .. Horizon - 1
  <2>1. slot \in 0 .. Horizon - 1
    BY Numbers DEF Slots
  <2> QED BY <2>1, PaintingShape
<1>2. Painted(p, slot, status) \in [DOMAIN p \cup {slot} -> Statuses]
  BY PaintingShape DEF Painted
<1> QED BY <1>1, <1>2, PaintingBuilt

LEMMA WithoutTyped ==
    ASSUME NEW p \in Painting, NEW slots
    PROVE  Without(p, slots) \in Painting
<1>1. DOMAIN p \ slots \subseteq 0 .. Horizon - 1
  BY PaintingShape
<1>2. Without(p, slots) \in [DOMAIN p \ slots -> Statuses]
  BY PaintingShape DEF Without
<1> QED BY <1>1, <1>2, PaintingBuilt

-----------------------------------------------------------------------------
(* What the steps do to the saves, field by field.                         *)

\* A save other than the one that takes a step keeps its record.
LEMMA RewrittenFields ==
    ASSUME NEW s \in Saves, NEW x, NEW heard, NEW painted, NEW left, Rewritten(s, x, heard, painted, left)
    PROVE  /\ saves'[s].pc = x /\ saves'[s].heard = heard /\ saves'[s].painted = painted
           /\ saves'[s].left = left /\ saves'[s].tab = saves[s].tab
           /\ saves'[s].rivals = saves[s].rivals /\ saves'[s].before = saves[s].before
           /\ \A r \in Saves : r # s => saves'[r] = saves[r]
           /\ DOMAIN saves' = Saves
<1>1. saves'[s] = [pc |-> x, heard |-> heard, tab |-> saves[s].tab, painted |-> painted,
                   left |-> left, rivals |-> saves[s].rivals, before |-> saves[s].before]
  BY DEF Rewritten
<1>2. \A r \in Saves : r # s => saves'[r] = saves[r]
  BY DEF Rewritten
<1>3. DOMAIN saves' = Saves
  BY DEF Rewritten
<1> QED BY <1>1, <1>2, <1>3

LEMMA RewrittenTyped ==
    ASSUME TypeOK, NEW s \in Saves, NEW x \in {"unsent", "validate", "delete", "insert", "stored", "refused"},
           NEW heard \in {"waiting", "fetching", "joined", "marked", "failed"}, NEW painted \in Painting,
           NEW left \in SUBSET Entry(Horizon + Gran), Rewritten(s, x, heard, painted, left)
    PROVE  saves' \in [Saves -> SaveRecord]
<1>1. saves[s] \in SaveRecord /\ \A r \in Saves : saves[r] \in SaveRecord
  BY DEF TypeOK
<1>2. [pc |-> x, heard |-> heard, tab |-> saves[s].tab, painted |-> painted,
       left |-> left, rivals |-> saves[s].rivals, before |-> saves[s].before] \in SaveRecord
  BY <1>1 DEF SaveRecord
<1> QED BY <1>1, <1>2 DEF Rewritten

\* The steps of a handler and of hearing of it, each as a rewritten record.
Refusing(s) == s \in Running /\ Rewritten(s, "refused", saves[s].heard, Blank, {}) /\ rows' = rows
Passing(s) ==
    /\ saves[s].pc = "validate" /\ Accepted(saves[s].left) /\ rows' = rows
    /\ Rewritten(s, "delete", saves[s].heard, saves[s].painted, saves[s].left)
Deleting(s) ==
    /\ saves[s].pc = "delete" /\ rows' = {}
    /\ Rewritten(s, "insert", saves[s].heard, saves[s].painted, saves[s].left)
Inserting(s, e) ==
    /\ saves[s].pc = "insert" /\ rows' = rows \cup {Filed(s, e)}
    /\ Rewritten(s, "insert", saves[s].heard, saves[s].painted, saves[s].left \ {e})
Ending(s) ==
    /\ saves[s].pc = "insert" /\ saves[s].left = {} /\ rows' = rows
    /\ Rewritten(s, "stored", saves[s].heard, Blank, {})
Hearing(s, heard) ==
    /\ saves[s].pc # "unsent" /\ rows' = rows /\ (heard = "fetching" => saves[s].pc = "stored")
    /\ Rewritten(s, saves[s].pc, heard, saves[s].painted, saves[s].left)

\* Every step of a handler is one of these, and leaves the tabs alone.
LEMMA ServiceForms ==
    ASSUME Shape, NEW s \in Saves, ServiceStep(s)
    PROVE  /\ UNCHANGED tabVars
           /\ Refusing(s) \/ Passing(s) \/ Deleting(s) \/ Ending(s) \/ \E e \in saves[s].left : Inserting(s, e)
<1>1. CASE Validate(s)
  <2>1. CASE Accepted(saves[s].left) /\ saves' = [saves EXCEPT ![s].pc = "delete"]
    BY <1>1, <2>1, StepRewrites DEF Validate, Passing
  <2>2. CASE Return(s, "refused")
    <3>1. s \in Running
      BY <1>1 DEF Validate, Running
    <3> QED BY <1>1, <2>2, <3>1, ReturnRewrites DEF Validate, Refusing
  <2> QED BY <1>1, <2>1, <2>2 DEF Validate
<1>2. CASE DeleteExisting(s)
  BY <1>2, StepRewrites DEF DeleteExisting, Deleting
<1>3. CASE InsertNext(s)
  <2>1. PICK e \in saves[s].left :
            /\ rows' = rows \cup {Filed(s, e)}
            /\ saves' = [saves EXCEPT ![s].left = @ \ {e}]
    BY <1>3 DEF InsertNext, Filed
  <2>2. DOMAIN saves = Saves
    BY DEF Shape
  <2>3. saves' = [saves EXCEPT ![s].left = saves[s].left \ {e}]
    BY <2>1, <2>2
  <2>4. Inserting(s, e)
    BY <1>3, <2>1, <2>3, InsertRewrites DEF InsertNext, Inserting
  <2> QED BY <1>3, <2>4 DEF InsertNext
<1>4. CASE AllInserted(s)
  BY <1>4, ReturnRewrites DEF AllInserted, Ending
<1>5. CASE BreakOff(s)
  BY <1>5, ReturnRewrites DEF BreakOff, Refusing
<1> QED BY <1>1, <1>2, <1>3, <1>4, <1>5 DEF ServiceStep

LEMMA HearingForms ==
    ASSUME Shape, NEW s \in Saves, SaveSucceeds(s) \/ SaveFails(s)
    PROVE  \E heard \in {"fetching", "joined", "marked", "failed"} : Hearing(s, heard)
<1>1. CASE SaveSucceeds(s)
  <2> DEFINE h == HeardOfSuccess(saves[s].tab)
  <2>1. saves' = [saves EXCEPT ![s].heard = h] /\ saves[s].pc = "stored" /\ rows' = rows
    BY <1>1 DEF SaveSucceeds
  <2>2. h \in {"fetching", "joined", "marked", "failed"}
    BY DEF HeardOfSuccess
  <2> HIDE DEF h
  <2>3. Hearing(s, h)
    BY <2>1, HearingRewrites DEF Hearing
  <2> QED BY <2>2, <2>3
<1>2. CASE SaveFails(s)
  <2>1. saves' = [saves EXCEPT ![s].heard = "failed"] /\ saves[s].pc # "unsent" /\ rows' = rows
    BY <1>2 DEF SaveFails
  <2>2. Hearing(s, "failed")
    BY <2>1, HearingRewrites DEF Hearing
  <2> QED BY <2>2
<1> QED BY <1>1, <1>2

LEMMA SendingTyped ==
    ASSUME TypeOK, Shape, NEW s \in Saves, NEW t \in Tabs, Save(t, s)
    PROVE  saves' \in [Saves -> SaveRecord]
<1>1. saves \in [Saves -> SaveRecord] /\ editor[t].painted \in Painting
  BY DEF TypeOK, Save
<1>2. saves' = [r \in Saves |-> AfterSending(t, s, r)]
  BY DEF Save
<1>3. ASSUME NEW r \in Saves PROVE AfterSending(t, s, r) \in SaveRecord
  <2>0. saves[r] \in SaveRecord /\ Running \subseteq Saves
    BY <1>1 DEF Running
  <2>1. CASE r = s
    <3>1. ToEntries(editor[t].painted) \subseteq Entry(Horizon + Gran)
      BY <1>1, EntriesTyped
    <3> QED BY <1>1, <2>0, <2>1, <3>1 DEF AfterSending, SaveRecord
  <2>2. CASE r # s /\ r \in Running
    <3>1. [saves[r] EXCEPT !.rivals = @ \cup {s}] \in SaveRecord
      BY <2>0 DEF SaveRecord
    <3> QED BY <2>2, <3>1 DEF AfterSending
  <2>3. CASE r # s /\ r \notin Running
    BY <2>0, <2>3 DEF AfterSending
  <2> QED BY <2>1, <2>2, <2>3
<1> QED BY <1>2, <1>3

LEMMA InitEditor == Init => EditorInv
<1> SUFFICES ASSUME Init PROVE EditorInv
  OBVIOUS
<1>1. \A s \in Saves : /\ saves[s].pc = "unsent" /\ saves[s].heard = "waiting" /\ saves[s].tab = Null
                       /\ saves[s].painted = Blank /\ saves[s].left = {} /\ saves[s].rivals = {} /\ saves[s].before = {}
  BY DEF Init, Unsent
<1>2. PICK entries \in InitEntries :
          rows = {[save |-> Null, start |-> e.start, end |-> e.end, status |-> e.status] : e \in entries}
  BY DEF Init
<1>3. rows \subseteq Row /\ \A r \in rows : r.save = Null
  <2>1. entries \subseteq Entry(Horizon)
    BY AvailabilityAssumption
  <2>2. ASSUME NEW e \in entries
        PROVE  [save |-> Null, start |-> e.start, end |-> e.end, status |-> e.status] \in Row
    <3>1. e \in Entry(Horizon)
      BY <2>1
    <3> QED BY <3>1 DEF Entry, Row
  <2> QED BY <1>2, <2>2
<1>4. TypeOK
  <2>1. Unsent \in SaveRecord
    BY BlankIsPainting DEF Unsent, SaveRecord
  <2>2. saves \in [Saves -> SaveRecord]
    BY <2>1 DEF Init
  <2>3. cache \in [Tabs -> [loaded : BOOLEAN, rows : SUBSET Row]]
    BY DEF Init, NothingYet
  <2>4. fetch \in [Tabs -> [pc : {"none", "asked", "answered"}, rows : SUBSET Row]]
    BY DEF Init, NoFetch
  <2> QED BY <1>3, <2>2, <2>3, <2>4 DEF Init, TypeOK
<1>5. ReplaceInv
  BY InitReplaces
<1>6. LeftIsPainted /\ BeforeIsOver /\ RivalsMutual
  BY <1>1 DEF LeftIsPainted, InHand, BeforeIsOver, OverBefore, RivalsMutual
<1>7. RowsOfRivals
  BY <1>3 DEF RowsOfRivals
<1> QED BY <1>4, <1>5, <1>6, <1>7 DEF EditorInv

-----------------------------------------------------------------------------
(* The handler's steps.                                                    *)

\* Rivals only grow, so rows that stay keep the rows of rivals beside them.
LEMMA RowsStay ==
    ASSUME EditorInv, rows' \subseteq rows, \A r \in Saves : saves[r].rivals \subseteq saves'[r].rivals
    PROVE  RowsOfRivals'
<1> SUFFICES ASSUME NEW r \in rows', NEW q \in rows', r.save # q.save
             PROVE  Null \notin {r.save, q.save} /\ r.save \in saves'[q.save].rivals
  BY DEF RowsOfRivals
<1>1. Null \notin {r.save, q.save} /\ r.save \in saves[q.save].rivals
  BY DEF EditorInv, RowsOfRivals
<1>2. q.save \in Saves
  BY <1>1 DEF EditorInv, TypeOK, Row
<1> QED BY <1>1, <1>2

\* The steps of a handler leave its rivals alone.
LEMMA RivalsStay ==
    ASSUME EditorInv, NEW s \in Saves, NEW x, NEW heard, NEW painted, NEW left,
           x # "unsent", Rewritten(s, x, heard, painted, left)
    PROVE  RivalsMutual' /\ \A r \in Saves : saves'[r].rivals = saves[r].rivals
<1>1. saves'[s].pc = x /\ saves'[s].rivals = saves[s].rivals /\ \A r \in Saves : r # s => saves'[r] = saves[r]
  BY RewrittenFields
<1>2. RivalsMutual
  BY DEF EditorInv
<1> QED BY <1>1, <1>2 DEF RivalsMutual

LEMMA RefusingKeeps ==
    ASSUME EditorInv, NEW s \in Saves, Refusing(s)
    PROVE  saves' \in [Saves -> SaveRecord] /\ rows' \subseteq Row
           /\ LeftIsPainted' /\ BeforeIsOver' /\ RivalsMutual' /\ RowsOfRivals'
<1>1. Rewritten(s, "refused", saves[s].heard, Blank, {}) /\ rows' = rows
      /\ saves[s].pc \in {"validate", "delete", "insert"}
  BY DEF Refusing, Running
<1>2. saves[s].heard \in {"waiting", "fetching", "joined", "marked", "failed"} /\ rows' \subseteq Row
  BY <1>1 DEF EditorInv, TypeOK, SaveRecord
<1>3. saves' \in [Saves -> SaveRecord]
  BY <1>1, <1>2, RewrittenTyped, BlankIsPainting DEF EditorInv
<1>4. /\ saves'[s].pc = "refused" /\ saves'[s].heard = saves[s].heard
      /\ saves'[s].left = {} /\ saves'[s].tab = saves[s].tab
      /\ saves'[s].rivals = saves[s].rivals /\ saves'[s].before = saves[s].before
      /\ \A r \in Saves : r # s => saves'[r] = saves[r]
  BY <1>1, RewrittenFields
<1>5. LeftIsPainted'
  BY <1>1, <1>4 DEF EditorInv, LeftIsPainted, InHand, Written
<1>6. BeforeIsOver'
  BY <1>1, <1>4 DEF EditorInv, BeforeIsOver, OverBefore
<1>7. RivalsMutual' /\ RowsOfRivals'
  BY <1>1, RivalsStay, RowsStay
<1> QED BY <1>2, <1>3, <1>5, <1>6, <1>7

LEMMA PassingKeeps ==
    ASSUME EditorInv, NEW s \in Saves, Passing(s)
    PROVE  saves' \in [Saves -> SaveRecord] /\ rows' \subseteq Row
           /\ LeftIsPainted' /\ BeforeIsOver' /\ RivalsMutual' /\ RowsOfRivals'
<1>1. Rewritten(s, "delete", saves[s].heard, saves[s].painted, saves[s].left) /\ rows' = rows
      /\ saves[s].pc = "validate" /\ Accepted(saves[s].left)
  BY DEF Passing
<1>2. saves[s] \in SaveRecord /\ rows' \subseteq Row
  BY <1>1 DEF EditorInv, TypeOK
<1>3. saves' \in [Saves -> SaveRecord]
  <2>1. saves[s].heard \in {"waiting", "fetching", "joined", "marked", "failed"} /\ saves[s].painted \in Painting
        /\ saves[s].left \in SUBSET Entry(Horizon + Gran)
    BY <1>2 DEF SaveRecord
  <2> QED BY <1>1, <2>1, RewrittenTyped DEF EditorInv
<1>4. /\ saves'[s].pc = "delete" /\ saves'[s].heard = saves[s].heard /\ saves'[s].painted = saves[s].painted
      /\ saves'[s].left = saves[s].left /\ saves'[s].tab = saves[s].tab
      /\ saves'[s].rivals = saves[s].rivals /\ saves'[s].before = saves[s].before
      /\ \A r \in Saves : r # s => saves'[r] = saves[r]
  BY <1>1, RewrittenFields
<1>5. LeftIsPainted'
  BY <1>1, <1>4 DEF EditorInv, LeftIsPainted, InHand, Written
<1>6. BeforeIsOver'
  BY <1>1, <1>4 DEF EditorInv, BeforeIsOver, OverBefore
<1>7. RivalsMutual' /\ RowsOfRivals'
  BY <1>1, RivalsStay, RowsStay
<1> QED BY <1>2, <1>3, <1>5, <1>6, <1>7

LEMMA DeletingKeeps ==
    ASSUME EditorInv, NEW s \in Saves, Deleting(s)
    PROVE  saves' \in [Saves -> SaveRecord] /\ rows' \subseteq Row
           /\ LeftIsPainted' /\ BeforeIsOver' /\ RivalsMutual' /\ RowsOfRivals'
<1>1. Rewritten(s, "insert", saves[s].heard, saves[s].painted, saves[s].left) /\ rows' = {}
      /\ saves[s].pc = "delete"
  BY DEF Deleting
<1>2. saves[s] \in SaveRecord /\ rows' \subseteq Row
  BY <1>1 DEF EditorInv, TypeOK
<1>3. saves' \in [Saves -> SaveRecord]
  <2>1. saves[s].heard \in {"waiting", "fetching", "joined", "marked", "failed"} /\ saves[s].painted \in Painting
        /\ saves[s].left \in SUBSET Entry(Horizon + Gran)
    BY <1>2 DEF SaveRecord
  <2> QED BY <1>1, <2>1, RewrittenTyped DEF EditorInv
<1>4. /\ saves'[s].pc = "insert" /\ saves'[s].heard = saves[s].heard /\ saves'[s].painted = saves[s].painted
      /\ saves'[s].left = saves[s].left /\ saves'[s].tab = saves[s].tab
      /\ saves'[s].rivals = saves[s].rivals /\ saves'[s].before = saves[s].before
      /\ \A r \in Saves : r # s => saves'[r] = saves[r]
  BY <1>1, RewrittenFields
<1>5. LeftIsPainted'
  <2>1. Written(s)' = {}
    BY <1>1, <1>4 DEF EditorInv, LeftIsPainted, InHand, Written
  <2>2. ASSUME NEW r \in Saves, r # s, saves[r].pc = "insert" PROVE saves[r].rivals # {}
    BY <1>1, <2>2 DEF EditorInv, ReplaceInv, RivalsKnown, Running
  <2>3. LeftIsPainted
    BY DEF EditorInv
  <2> QED BY <1>1, <1>4, <2>1, <2>2, <2>3 DEF LeftIsPainted, InHand
<1>6. BeforeIsOver'
  BY <1>1, <1>4 DEF EditorInv, BeforeIsOver, OverBefore
<1>7. RivalsMutual' /\ RowsOfRivals'
  BY <1>1, RivalsStay, RowsStay
<1> QED BY <1>2, <1>3, <1>5, <1>6, <1>7

LEMMA EndingKeeps ==
    ASSUME EditorInv, NEW s \in Saves, Ending(s)
    PROVE  saves' \in [Saves -> SaveRecord] /\ rows' \subseteq Row
           /\ LeftIsPainted' /\ BeforeIsOver' /\ RivalsMutual' /\ RowsOfRivals'
<1>1. Rewritten(s, "stored", saves[s].heard, Blank, {}) /\ rows' = rows /\ saves[s].pc = "insert"
  BY DEF Ending
<1>2. saves[s].heard \in {"waiting", "fetching", "joined", "marked", "failed"} /\ rows' \subseteq Row
  BY <1>1 DEF EditorInv, TypeOK, SaveRecord
<1>3. saves' \in [Saves -> SaveRecord]
  BY <1>1, <1>2, RewrittenTyped, BlankIsPainting DEF EditorInv
<1>4. /\ saves'[s].pc = "stored" /\ saves'[s].heard = saves[s].heard
      /\ saves'[s].left = {} /\ saves'[s].tab = saves[s].tab
      /\ saves'[s].rivals = saves[s].rivals /\ saves'[s].before = saves[s].before
      /\ \A r \in Saves : r # s => saves'[r] = saves[r]
  BY <1>1, RewrittenFields
<1>5. LeftIsPainted'
  BY <1>1, <1>4 DEF EditorInv, LeftIsPainted, InHand, Written
<1>6. BeforeIsOver'
  BY <1>1, <1>4 DEF EditorInv, BeforeIsOver, OverBefore
<1>7. RivalsMutual' /\ RowsOfRivals'
  BY <1>1, RivalsStay, RowsStay
<1> QED BY <1>2, <1>3, <1>5, <1>6, <1>7

LEMMA HearingKeeps ==
    ASSUME EditorInv, NEW s \in Saves, NEW heard \in {"fetching", "joined", "marked", "failed"}, Hearing(s, heard)
    PROVE  saves' \in [Saves -> SaveRecord] /\ rows' \subseteq Row
           /\ LeftIsPainted' /\ BeforeIsOver' /\ RivalsMutual' /\ RowsOfRivals'
<1>1. Rewritten(s, saves[s].pc, heard, saves[s].painted, saves[s].left) /\ rows' = rows
      /\ saves[s].pc # "unsent" /\ (heard = "fetching" => saves[s].pc = "stored")
  BY DEF Hearing
<1>2. saves[s] \in SaveRecord /\ rows' \subseteq Row
  BY <1>1 DEF EditorInv, TypeOK
<1>3. saves' \in [Saves -> SaveRecord]
  <2>1. saves[s].pc \in {"unsent", "validate", "delete", "insert", "stored", "refused"}
        /\ saves[s].painted \in Painting /\ saves[s].left \in SUBSET Entry(Horizon + Gran)
    BY <1>2 DEF SaveRecord
  <2> QED BY <1>1, <2>1, RewrittenTyped DEF EditorInv
<1>4. /\ saves'[s].pc = saves[s].pc /\ saves'[s].heard = heard /\ saves'[s].painted = saves[s].painted
      /\ saves'[s].left = saves[s].left /\ saves'[s].tab = saves[s].tab
      /\ saves'[s].rivals = saves[s].rivals /\ saves'[s].before = saves[s].before
      /\ \A r \in Saves : r # s => saves'[r] = saves[r]
  BY <1>1, RewrittenFields
<1>5. LeftIsPainted'
  <2>1. \A r \in Saves : Written(r)' = Written(r)
    BY <1>4 DEF Written
  <2>2. LeftIsPainted
    BY DEF EditorInv
  <2> QED BY <1>1, <1>4, <2>1, <2>2 DEF LeftIsPainted, InHand
<1>6. BeforeIsOver'
  BY <1>1, <1>4 DEF EditorInv, BeforeIsOver, OverBefore
<1>7. RivalsMutual' /\ RowsOfRivals'
  BY <1>1, RivalsStay, RowsStay
<1> QED BY <1>2, <1>3, <1>5, <1>6, <1>7

LEMMA InsertingKeeps ==
    ASSUME EditorInv, NEW s \in Saves, NEW e \in saves[s].left, Inserting(s, e)
    PROVE  saves' \in [Saves -> SaveRecord] /\ rows' \subseteq Row
           /\ LeftIsPainted' /\ BeforeIsOver' /\ RivalsMutual' /\ RowsOfRivals'
<1>1. Rewritten(s, "insert", saves[s].heard, saves[s].painted, saves[s].left \ {e})
      /\ rows' = rows \cup {Filed(s, e)} /\ saves[s].pc = "insert" /\ s \in Running
  BY DEF Inserting, Running
<1>2. saves[s] \in SaveRecord /\ rows \subseteq Row
  BY <1>1 DEF EditorInv, TypeOK
<1>3. saves' \in [Saves -> SaveRecord]
  <2>1. saves[s].heard \in {"waiting", "fetching", "joined", "marked", "failed"} /\ saves[s].painted \in Painting
        /\ saves[s].left \ {e} \in SUBSET Entry(Horizon + Gran)
    BY <1>2 DEF SaveRecord
  <2> QED BY <1>1, <2>1, RewrittenTyped DEF EditorInv
<1>4. /\ saves'[s].pc = "insert" /\ saves'[s].heard = saves[s].heard /\ saves'[s].painted = saves[s].painted
      /\ saves'[s].left = saves[s].left \ {e} /\ saves'[s].tab = saves[s].tab
      /\ saves'[s].rivals = saves[s].rivals /\ saves'[s].before = saves[s].before
      /\ \A r \in Saves : r # s => saves'[r] = saves[r]
  BY <1>1, RewrittenFields
<1>5. e \in Entry(Horizon + Gran) /\ e.start < e.end /\ e.end <= EventEnd
  BY <1>1, <1>2 DEF EditorInv, LeftIsPainted, InHand, Accepted, SaveRecord
<1>6. Filed(s, e) \in Row /\ Filed(s, e).save = s
  <2>1. e.start \in 0 .. Horizon /\ e.end \in 0 .. Horizon /\ e.status \in Statuses
    BY <1>5, Numbers DEF Entry
  <2> QED BY <2>1 DEF Filed, Row
<1>7. LeftIsPainted'
  <2>1. Written(s)' = Written(s) \cup {e} /\ \A r \in Saves : r # s => Written(r)' = Written(r)
    BY <1>1, <1>4 DEF Written, EditorInv, LeftIsPainted, InHand
  <2>2. ASSUME NEW r \in Saves, r # s, saves[r].pc = "insert" PROVE saves[r].rivals # {}
    BY <1>1, <2>2 DEF EditorInv, ReplaceInv, RivalsKnown, Running
  <2>3. LeftIsPainted
    BY DEF EditorInv
  <2>4. ASSUME NEW r \in Saves, r # s, saves[r].pc = "insert", NEW q \in rows', q.save = r
        PROVE  \E f \in Written(r)' : q = Filed(r, f)
    BY <1>1, <1>6, <2>1, <2>3, <2>4 DEF LeftIsPainted, InHand
  <2>5. ASSUME NEW q \in rows', q.save = s
        PROVE  \E f \in Written(s)' : q = Filed(s, f)
    <3>1. CASE q \in rows
      BY <1>1, <2>1, <2>3, <2>5, <3>1 DEF LeftIsPainted, InHand
    <3>2. CASE q = Filed(s, e)
      BY <2>1, <3>2
    <3> QED BY <1>1, <3>1, <3>2
  <2>6. saves[s].rivals = {} => \A f \in Written(s)' : Filed(s, f) \in rows'
    BY <1>1, <2>1, <2>3 DEF LeftIsPainted, InHand
  <2>7. Accepted(saves'[s].left)
    BY <1>1, <1>4, <2>3 DEF LeftIsPainted, InHand, Accepted
  <2>8. saves'[s].left \subseteq ToEntries(saves'[s].painted)
    BY <1>1, <1>4, <2>3 DEF LeftIsPainted, InHand
  <2>9. InHand(s)'
    BY <1>1, <1>4, <2>3, <2>5, <2>6, <2>7, <2>8 DEF LeftIsPainted, InHand
  <2>10. ASSUME NEW r \in Saves, r # s PROVE InHand(r)'
    <3>1. InHand(r) /\ saves'[r] = saves[r] /\ Written(r)' = Written(r)
      BY <1>4, <2>1, <2>3, <2>10 DEF LeftIsPainted
    <3> QED BY <2>2, <2>4, <2>10, <3>1 DEF InHand
  <2> QED BY <2>9, <2>10 DEF LeftIsPainted
<1>8. BeforeIsOver'
  <2>1. BeforeIsOver /\ s # Null
    BY Numbers DEF EditorInv
  <2>2. \A r \in Saves : s \notin saves[r].before
    BY <1>1, <2>1 DEF BeforeIsOver, OverBefore
  <2> QED BY <1>1, <1>4, <1>6, <2>1, <2>2 DEF BeforeIsOver, OverBefore
<1>9. RivalsMutual' /\ \A r \in Saves : saves'[r].rivals = saves[r].rivals
  BY <1>1, RivalsStay
<1>10. RowsOfRivals'
  <2>1. ASSUME NEW r \in rows, r.save # s
        PROVE  r.save # Null /\ s # Null /\ r.save \in saves[s].rivals /\ s \in saves[r.save].rivals
    <3>1. r.save \in saves[s].rivals /\ saves[s].rivals \subseteq Saves
      BY <1>1, <1>2, <2>1 DEF EditorInv, ReplaceInv, OldRowsGone, SaveRecord
    <3> QED BY <3>1, Numbers DEF EditorInv, RivalsMutual
  <2>2. ASSUME NEW r \in rows, NEW q \in rows, r.save # q.save
        PROVE  Null \notin {r.save, q.save} /\ r.save \in saves[q.save].rivals /\ q.save \in Saves
    BY <1>2, <2>2 DEF EditorInv, RowsOfRivals, Row
  <2>3. \A r \in rows : r.save # s => r.save \in Saves
    BY <1>2, <2>1 DEF Row
  <2> SUFFICES ASSUME NEW r \in rows', NEW q \in rows', r.save # q.save
               PROVE  Null \notin {r.save, q.save} /\ r.save \in saves'[q.save].rivals
    BY DEF RowsOfRivals
  <2>4. CASE r \in rows /\ q \in rows
    BY <1>9, <2>2, <2>4
  <2>5. CASE r \in rows /\ q = Filed(s, e)
    BY <1>6, <1>9, <2>1, <2>5
  <2>6. CASE r = Filed(s, e) /\ q \in rows
    BY <1>6, <1>9, <2>1, <2>3, <2>6
  <2>7. CASE r = Filed(s, e) /\ q = Filed(s, e)
    BY <2>7
  <2> QED BY <1>1, <2>4, <2>5, <2>6, <2>7
<1> QED BY <1>1, <1>2, <1>3, <1>6, <1>7, <1>8, <1>9, <1>10

LEMMA SendingKeeps ==
    ASSUME EditorInv, NEW s \in Saves, NEW t \in Tabs, Sending(t, s)
    PROVE  LeftIsPainted' /\ BeforeIsOver' /\ RivalsMutual' /\ RowsOfRivals'
<1>1. \A r \in Saves : r # s =>
          /\ saves'[r].pc = saves[r].pc /\ saves'[r].heard = saves[r].heard /\ saves'[r].tab = saves[r].tab
          /\ saves'[r].painted = saves[r].painted /\ saves'[r].left = saves[r].left
          /\ saves'[r].before = saves[r].before
          /\ saves'[r].rivals = IF r \in Running THEN saves[r].rivals \cup {s} ELSE saves[r].rivals
  BY DEF Sending
<1>2. /\ saves[s].pc = "unsent" /\ saves[s].rivals = {} /\ s \notin Running /\ rows' = rows
      /\ saves'[s].pc = "validate" /\ saves'[s].heard = "waiting" /\ saves'[s].tab = t
      /\ saves'[s].left = ToEntries(saves'[s].painted) /\ saves'[s].rivals = Running
      /\ saves'[s].before = {q \in Saves : saves[q].pc # "unsent"} \ Running
  BY DEF Sending, Running
<1>3. LeftIsPainted'
  <2>1. LeftIsPainted
    BY DEF EditorInv
  <2>2. \A r \in Saves : r # s => Written(r)' = Written(r)
    BY <1>1 DEF Written
  <2>3. \A r \in Saves : r # s /\ saves'[r].rivals = {} => saves[r].rivals = {}
    BY <1>1
  <2>4. InHand(s)'
    BY <1>2 DEF InHand
  <2>5. ASSUME NEW r \in Saves, r # s PROVE InHand(r)'
    <3>1. /\ saves'[r].pc = saves[r].pc /\ saves'[r].tab = saves[r].tab /\ saves'[r].left = saves[r].left
          /\ saves'[r].painted = saves[r].painted /\ (saves'[r].rivals = {} => saves[r].rivals = {})
          /\ Written(r)' = Written(r) /\ rows' = rows /\ InHand(r)
      BY <1>1, <1>2, <2>1, <2>2, <2>5 DEF LeftIsPainted
    <3> QED BY <3>1 DEF InHand
  <2> QED BY <2>4, <2>5 DEF LeftIsPainted
<1>4. BeforeIsOver'
  <2>1. BeforeIsOver
    BY DEF EditorInv
  <2>2. \A q \in Saves : saves[q].pc # "unsent" /\ q \notin Running => saves[q].pc \in {"stored", "refused"}
    <3>1. \A q \in Saves : saves[q].pc \in {"unsent", "validate", "delete", "insert", "stored", "refused"}
      BY DEF EditorInv, TypeOK, SaveRecord
    <3> QED BY <3>1 DEF Running
  <2>3. OverBefore(s)'
    <3> SUFFICES ASSUME NEW q \in saves'[s].before PROVE q \in Saves /\ saves'[q].pc \in {"stored", "refused"}
      BY <1>2 DEF OverBefore
    <3>1. q \in Saves /\ q # s /\ saves[q].pc \in {"stored", "refused"}
      BY <1>2, <2>2
    <3> QED BY <1>1, <3>1
  <2>4. ASSUME NEW r \in Saves, r # s PROVE OverBefore(r)'
    <3>1. \A q \in saves[r].before : q # s
      BY <1>2, <2>1 DEF BeforeIsOver, OverBefore
    <3>2. /\ saves'[r].pc = saves[r].pc /\ saves'[r].heard = saves[r].heard
          /\ saves'[r].before = saves[r].before /\ rows' = rows /\ OverBefore(r)
      BY <1>1, <1>2, <2>1, <2>4 DEF BeforeIsOver
    <3> QED BY <1>1, <3>1, <3>2 DEF OverBefore
  <2> QED BY <2>3, <2>4 DEF BeforeIsOver
<1>5. RivalsMutual'
  <2>1. RivalsMutual
    BY DEF EditorInv
  <2>2. \A r \in Saves : s \notin saves[r].rivals
    BY <1>2, <2>1 DEF RivalsMutual
  <2>3. Running \subseteq Saves /\ \A r \in Running : saves[r].pc # "unsent"
    BY DEF Running
  <2> SUFFICES ASSUME NEW a \in Saves, NEW b \in Saves, b \in saves'[a].rivals
               PROVE  a \in saves'[b].rivals /\ saves'[b].pc # "unsent"
    BY DEF RivalsMutual
  <2>4. CASE a = s
    <3>1. b \in Running /\ b # s
      BY <1>2, <2>4
    <3> QED BY <1>1, <2>3, <2>4, <3>1
  <2>5. CASE a # s /\ b = s
    <3>1. a \in Running
      BY <1>1, <2>2, <2>5
    <3> QED BY <1>2, <2>5, <3>1
  <2>6. CASE a # s /\ b # s
    <3>1. b \in saves[a].rivals
      BY <1>1, <2>6
    <3> QED BY <1>1, <2>1, <2>6, <3>1 DEF RivalsMutual
  <2> QED BY <2>4, <2>5, <2>6
<1>6. RowsOfRivals'
  BY <1>1, <1>2, RowsStay
<1> QED BY <1>3, <1>4, <1>5, <1>6

(* What the steps of a tab do.                                             *)

Cache == [loaded : BOOLEAN, rows : SUBSET Row]
Fetch == [pc : {"none", "asked", "answered"}, rows : SUBSET Row]
Editor == {Null} \cup [painted : Painting, pending : Saves \cup {Null}]
TabsTyped ==
    /\ cache \in [Tabs -> Cache] /\ stale \in [Tabs -> BOOLEAN] /\ fetch \in [Tabs -> Fetch]
    /\ editor \in [Tabs -> Editor]

LEMMA TypeParts == TypeOK <=> rows \subseteq Row /\ saves \in [Saves -> SaveRecord] /\ TabsTyped
BY DEF TypeOK, TabsTyped, Cache, Fetch, Editor

LEMMA FetchesTyped == NoFetch \in Fetch /\ Asked \in Fetch
BY DEF NoFetch, Asked, Fetch

LEMMA StoredPaintings ==
    ASSUME NEW data \in SUBSET Row, NEW p \in Paintings(data)
    PROVE  p \in Painting
<1>1. \A r \in data : r.start \in 0 .. Horizon /\ r.end \in 0 .. Horizon
  BY DEF Row
<1> QED BY <1>1, PaintingsTyped

LEMMA QueryTyped ==
    ASSUME rows \subseteq Row, TabsTyped, NEW t \in Tabs, QueryStep(t)
    PROVE  TabsTyped' /\ UNCHANGED <<rows, saves>>
<1>1. cache[t] \in Cache /\ fetch[t] \in Fetch /\ editor[t] \in Editor
  BY DEF TabsTyped
<1>2. CASE FetchRead(t)
  <2>1. [pc |-> "answered", rows |-> rows] \in Fetch
    BY DEF Fetch
  <2>2. fetch' \in [Tabs -> Fetch]
    BY <1>2, <2>1 DEF FetchRead, TabsTyped
  <2> QED BY <1>2, <2>2 DEF FetchRead, TabsTyped, serviceVars
<1>3. CASE FetchDone(t)
  <2>0. fetch[t].rows \in SUBSET Row
    BY <1>1 DEF Fetch
  <2>1. Cached(fetch[t].rows) \in Cache
    BY <2>0 DEF Cached, Cache
  <2>2. editor' \in [Tabs -> Editor]
    <3>1. CASE editor[t] # Null /\ cache[t] # Cached(fetch[t].rows)
      <4>1. PICK m \in Paintings(fetch[t].rows) : editor' = [editor EXCEPT ![t].painted = m]
        BY <1>3, <3>1 DEF FetchDone
      <4>2. m \in Painting
        BY <2>0, StoredPaintings
      <4>3. [editor[t] EXCEPT !.painted = m] \in Editor
        BY <1>1, <3>1, <4>2 DEF Editor
      <4> QED BY <4>1, <4>3 DEF TabsTyped
    <3>2. CASE ~(editor[t] # Null /\ cache[t] # Cached(fetch[t].rows))
      BY <1>3, <3>2 DEF FetchDone, TabsTyped
    <3> QED BY <3>1, <3>2
  <2>3. cache' \in [Tabs -> Cache] /\ stale' \in [Tabs -> BOOLEAN] /\ fetch' \in [Tabs -> Fetch]
    BY <1>3, <2>1, FetchesTyped DEF FetchDone, TabsTyped
  <2> QED BY <1>3, <2>2, <2>3 DEF FetchDone, TabsTyped, serviceVars
<1>4. CASE FetchFails(t)
  BY <1>4, FetchesTyped DEF FetchFails, TabsTyped, serviceVars
<1>5. CASE Refocus(t)
  BY <1>5, FetchesTyped DEF Refocus, TabsTyped, serviceVars
<1> QED BY <1>2, <1>3, <1>4, <1>5 DEF QueryStep

LEMMA Restarted ==
    ASSUME TabsTyped, NEW t \in Tabs, fetch' \in StartIfDue(t)
    PROVE  /\ fetch' \in [Tabs -> Fetch]
           /\ \A u \in Tabs : fetch'[u] = fetch[u] \/ fetch'[u] = Asked
<1>1. fetch' = fetch \/ fetch' = [fetch EXCEPT ![t] = Asked]
  BY DEF StartIfDue
<1> QED BY <1>1, FetchesTyped DEF TabsTyped

LEMMA EditorTyped ==
    ASSUME TabsTyped, NEW t \in Tabs, EditorStep(t)
    PROVE  TabsTyped' /\ UNCHANGED <<rows, saves, cache, stale>>
           /\ \A u \in Tabs : fetch'[u] = fetch[u] \/ fetch'[u] = Asked
<1>1. cache[t] \in Cache /\ editor[t] \in Editor /\ editor \in [Tabs -> Editor]
  BY DEF TabsTyped
<1>2. CASE Open(t)
  <2>1. PICK m \in Loaded(t) : editor' = [editor EXCEPT ![t] = [painted |-> m, pending |-> Null]]
    BY <1>2 DEF Open
  <2>2. m \in Painting
    <3>1. cache[t].rows \in SUBSET Row
      BY <1>1 DEF Cache
    <3> QED BY <2>1, <3>1, StoredPaintings, BlankIsPainting DEF Loaded
  <2>3. [painted |-> m, pending |-> Null] \in Editor
    BY <2>2 DEF Editor
  <2>4. editor' \in [Tabs -> Editor]
    BY <1>1, <2>1, <2>3
  <2>5. fetch' \in [Tabs -> Fetch] /\ \A u \in Tabs : fetch'[u] = fetch[u] \/ fetch'[u] = Asked
    BY <1>2, Restarted DEF Open
  <2> QED BY <1>2, <2>4, <2>5 DEF Open, TabsTyped, serviceVars
<1>3. ASSUME NEW m \in Painting, editor[t] # Null, editor' = [editor EXCEPT ![t].painted = m]
      PROVE  editor' \in [Tabs -> Editor]
  <2>1. [editor[t] EXCEPT !.painted = m] \in Editor
    BY <1>1, <1>3 DEF Editor
  <2> QED BY <1>1, <1>3, <2>1
<1>4. editor[t] # Null => editor[t].painted \in Painting
  BY <1>1 DEF Editor
<1>5. CASE Close(t)
  BY <1>1, <1>5 DEF Close, TabsTyped, serviceVars, Editor
<1>6. CASE ClearAll(t)
  BY <1>3, <1>6, BlankIsPainting DEF ClearAll, CanDraw, TabsTyped, serviceVars
<1>7. ASSUME NEW slot \in Slots, Erase(t, slot) PROVE TabsTyped' /\ UNCHANGED <<rows, saves, cache, stale, fetch>>
  <2>1. editor' = [editor EXCEPT ![t].painted = Without(editor[t].painted, {slot})] /\ editor[t] # Null
    BY <1>1, <1>7 DEF Erase, CanDraw
  <2>2. editor' \in [Tabs -> Editor]
    BY <1>3, <1>4, <2>1, WithoutTyped
  <2> QED BY <1>7, <2>2 DEF Erase, TabsTyped, serviceVars
<1>8. ASSUME NEW slot \in Slots, NEW status \in Statuses, Paint(t, slot, status)
      PROVE  TabsTyped' /\ UNCHANGED <<rows, saves, cache, stale, fetch>>
  <2>1. editor' = [editor EXCEPT ![t].painted = Painted(editor[t].painted, slot, status)] /\ editor[t] # Null
    BY <1>1, <1>8 DEF Paint, CanDraw
  <2>2. editor' \in [Tabs -> Editor]
    BY <1>3, <1>4, <2>1, PaintedTyped
  <2> QED BY <1>8, <2>2 DEF Paint, TabsTyped, serviceVars
<1> QED BY <1>2, <1>5, <1>6, <1>7, <1>8 DEF EditorStep, Close, ClearAll, serviceVars

LEMMA HearingTyped ==
    ASSUME TabsTyped, NEW s \in Saves, SaveSucceeds(s) \/ SaveFails(s)
    PROVE  TabsTyped'
<1> DEFINE t == saves[s].tab
<1>1. CASE SaveSucceeds(s)
  <2>1. stale' \in [Tabs -> BOOLEAN] /\ editor' \in [Tabs -> Editor]
    BY <1>1 DEF SaveSucceeds, TabsTyped, Editor
  <2>2. fetch' \in [Tabs -> Fetch]
    BY <1>1, FetchesTyped DEF SaveSucceeds, TabsTyped
  <2> QED BY <1>1, <2>1, <2>2 DEF SaveSucceeds, TabsTyped
<1>2. CASE SaveFails(s)
  <2>1. editor' = editor \/ (editor[t] # Null /\ editor' = [editor EXCEPT ![t].pending = Null])
    BY <1>2 DEF SaveFails
  <2>2. editor' \in [Tabs -> Editor]
    BY <2>1 DEF TabsTyped, Editor
  <2> QED BY <1>2, <2>2 DEF SaveFails, TabsTyped
<1> QED BY <1>1, <1>2

LEMMA SendingTabs ==
    ASSUME TabsTyped, NEW s \in Saves, NEW t \in Tabs, Save(t, s)
    PROVE  TabsTyped' /\ UNCHANGED <<cache, stale, fetch>>
<1>1. editor[t] \in Editor /\ editor[t] # Null
  BY DEF TabsTyped, Save
<1>2. [editor[t] EXCEPT !.pending = s] \in Editor
  BY <1>1 DEF Editor
<1> QED BY <1>1, <1>2 DEF TabsTyped, Save

-----------------------------------------------------------------------------
LEMMA SavesUntouched ==
    ASSUME EditorInv, UNCHANGED <<rows, saves>>
    PROVE  LeftIsPainted' /\ BeforeIsOver' /\ RivalsMutual' /\ RowsOfRivals'
<1>1. \A s \in Saves : Written(s)' = Written(s)
  BY DEF Written
<1>2. LeftIsPainted'
  BY <1>1 DEF EditorInv, LeftIsPainted, InHand
<1>3. BeforeIsOver' /\ RivalsMutual' /\ RowsOfRivals'
  BY DEF EditorInv, BeforeIsOver, OverBefore, RivalsMutual, RowsOfRivals
<1> QED BY <1>2, <1>3

LEMMA StepKeeps ==
    ASSUME EditorInv, [Next]_vars
    PROVE  EditorInv'
<1>0. ReplaceInv' /\ Shape /\ TypeOK /\ TabsTyped /\ rows \subseteq Row /\ saves \in [Saves -> SaveRecord]
  BY StepReplaces, TypeParts DEF EditorInv, ReplaceInv
<1> DEFINE Goal == rows' \subseteq Row /\ saves' \in [Saves -> SaveRecord] /\ TabsTyped'
                   /\ LeftIsPainted' /\ BeforeIsOver' /\ RivalsMutual' /\ RowsOfRivals'
<1>1. ASSUME NEW s \in Saves, ServiceStep(s) PROVE Goal
  <2>1. TabsTyped'
    BY <1>0, <1>1, ServiceForms DEF tabVars, TabsTyped
  <2> QED BY <1>0, <1>1, <2>1, ServiceForms, RefusingKeeps, PassingKeeps, DeletingKeeps, EndingKeeps, InsertingKeeps
<1>2. ASSUME NEW s \in Saves, SaveSucceeds(s) \/ SaveFails(s) PROVE Goal
  BY <1>0, <1>2, HearingForms, HearingKeeps, HearingTyped
<1>3. ASSUME NEW s \in Saves, NEW t \in Tabs, Save(t, s) PROVE Goal
  <2>1. Sending(t, s) /\ rows' = rows
    BY <1>0, <1>3, SaveForms DEF Save
  <2> QED BY <1>0, <1>3, <2>1, SendingKeeps, SendingTyped, SendingTabs
<1>4. ASSUME NEW t \in Tabs, QueryStep(t) \/ EditorStep(t) PROVE Goal
  <2>1. TabsTyped' /\ rows' = rows /\ saves' = saves
    BY <1>0, <1>4, QueryTyped, EditorTyped
  <2> QED BY <1>0, <2>1, SavesUntouched
<1>5. ASSUME UNCHANGED vars PROVE Goal
  <2>1. TabsTyped' /\ rows' = rows /\ saves' = saves
    BY <1>0, <1>5 DEF vars, TabsTyped
  <2> QED BY <1>0, <2>1, SavesUntouched
<1>6. Goal
  BY <1>1, <1>2, <1>3, <1>4, <1>5 DEF Next
<1>7. TypeOK'
  <2>1. TypeOK' <=> rows' \subseteq Row /\ saves' \in [Saves -> SaveRecord] /\ TabsTyped'
    BY DEF TypeOK, TabsTyped, Cache, Fetch, Editor
  <2> QED BY <1>6, <2>1
<1> QED BY <1>0, <1>6, <1>7 DEF EditorInv

\* Whatever is stored, cached, painted or under way is of its kind: every
\* stored entry lies before the horizon, every painting read back from stored
\* entries is a painting of slots.
THEOREM EditorTypes == Spec => []TypeOK
<1>1. Init => EditorInv
  BY InitEditor
<1>2. EditorInv /\ [Next]_vars => EditorInv'
  BY StepKeeps
<1>3. EditorInv => TypeOK
  BY DEF EditorInv
<1> QED BY <1>1, <1>2, <1>3, PTL DEF Spec

-----------------------------------------------------------------------------
\* A handler without rivals ends over exactly the rows of its painting.
LEMMA EndingStores ==
    ASSUME EditorInv, NEW s \in Saves, saves[s].pc = "insert", saves[s].left = {}, saves[s].rivals = {}
    PROVE  Paintings(rows) = {saves[s].painted}
<1> DEFINE p == saves[s].painted
<1>1. p \in Painting /\ InHand(s) /\ Written(s) = ToEntries(p)
  BY DEF EditorInv, TypeOK, SaveRecord, LeftIsPainted, Written
<1>2. \A r \in rows : r.save = s
  BY DEF EditorInv, ReplaceInv, OldRowsGone
<1>3. \A r \in rows : \E e \in ToEntries(p) : r = Filed(s, e)
  BY <1>1, <1>2 DEF InHand
<1>4. \A e \in ToEntries(p) : Filed(s, e) \in rows
  BY <1>1 DEF InHand
<1>5. \A e : Filed(s, e).start = e.start /\ Filed(s, e).end = e.end /\ Filed(s, e).status = e.status
  BY DEF Filed
<1>6. StoredAs(rows, p)
  BY <1>3, <1>4, <1>5 DEF StoredAs
<1> QED BY <1>1, <1>6, RoundTrip

LEMMA StepStores ==
    ASSUME EditorInv, [Next]_vars, NEW s \in Saves,
           saves[s].pc = "insert", saves'[s].pc = "stored", saves[s].rivals = {}
    PROVE  Paintings(rows) = {saves[s].painted}
<1>0. Shape /\ "insert" # "stored"
  BY DEF EditorInv, ReplaceInv
<1>1. CASE saves[s].left = {}
  BY <1>1, EndingStores
<1>2. ASSUME NEW r \in Saves, ServiceStep(r) PROVE saves[s].left = {}
  <2>1. Refusing(r) \/ Passing(r) \/ Deleting(r) \/ Ending(r) \/ \E e \in saves[r].left : Inserting(r, e)
    BY <1>0, <1>2, ServiceForms
  <2>2. ASSUME NEW x, NEW heard, NEW painted, NEW left, Rewritten(r, x, heard, painted, left), x # "stored"
        PROVE  FALSE
    <3>1. saves'[r].pc = x /\ \A q \in Saves : q # r => saves'[q] = saves[q]
      BY <2>2, RewrittenFields
    <3> QED BY <2>2, <3>1
  <2>3. ASSUME Ending(r) PROVE saves[s].left = {}
    <3>1. Rewritten(r, "stored", saves[r].heard, Blank, {}) /\ saves[r].left = {}
      BY <2>3 DEF Ending
    <3>2. r = s
      BY <3>1, RewrittenFields
    <3> QED BY <3>1, <3>2
  <2>4. ~Refusing(r) /\ ~Passing(r) /\ ~Deleting(r)
    BY <2>2 DEF Refusing, Passing, Deleting
  <2>5. ASSUME NEW e, Inserting(r, e) PROVE FALSE
    BY <2>2, <2>5 DEF Inserting
  <2> QED BY <2>1, <2>3, <2>4, <2>5
<1>3. ASSUME NEW r \in Saves, SaveSucceeds(r) \/ SaveFails(r) PROVE FALSE
  BY <1>0, <1>3, HearingForms, RewrittenFields DEF Hearing
<1>4. ASSUME NEW r \in Saves, NEW t \in Tabs, Save(t, r) PROVE FALSE
  <2>1. Sending(t, r)
    BY <1>0, <1>4, SaveForms
  <2> QED BY <2>1 DEF Sending
<1>5. ASSUME NEW t \in Tabs, QueryStep(t) \/ EditorStep(t) PROVE FALSE
  BY <1>5, QueryTyped, EditorTyped, TypeParts DEF EditorInv
<1>6. CASE UNCHANGED vars
  BY <1>6 DEF vars
<1> QED BY <1>1, <1>2, <1>3, <1>4, <1>5, <1>6 DEF Next

\* A save that nothing came in between stores the painting that was submitted:
\* toEntries of the editor and the reading of its entries are inverse, for any
\* slots, statuses and granularity, painted on the event's grid or not.
THEOREM SavesStoreTheirPainting == Spec => StoresThePainting
<1>1. Init => EditorInv
  BY InitEditor
<1>2. EditorInv /\ [Next]_vars => EditorInv'
  BY StepKeeps
<1>3. EditorInv /\ [Next]_vars =>
          [\A s \in Saves : saves[s].pc = "insert" /\ saves'[s].pc = "stored" /\ saves[s].rivals = {}
              => Paintings(rows) = {saves[s].painted}]_vars
  BY StepStores
<1> QED BY <1>1, <1>2, <1>3, PTL DEF Spec, StoresThePainting

-----------------------------------------------------------------------------
(* What a tab takes for current after its own save.                        *)

Old(s, data) == \E r \in data : r.save \in saves[s].before \cup {Null}
Seen(s) ==
    saves[s].heard = "fetching" =>
        /\ ~stale[saves[s].tab] => cache[saves[s].tab].loaded /\ ~Old(s, cache[saves[s].tab].rows)
        /\ fetch[saves[s].tab].pc = "answered" => ~Old(s, fetch[saves[s].tab].rows)

LEMMA SeenParts == OwnSaveIsSeen <=> \A s \in Saves : Seen(s)
BY DEF OwnSaveIsSeen, Seen, Old

LEMMA TabsQuiet ==
    ASSUME OwnSaveIsSeen, UNCHANGED <<cache, stale, fetch>>,
           \A s \in Saves : saves'[s].heard = "fetching" =>
               saves[s].heard = "fetching" /\ saves'[s].tab = saves[s].tab /\ saves'[s].before = saves[s].before
    PROVE  OwnSaveIsSeen'
<1>1. \A s \in Saves : Seen(s)
  BY SeenParts
<1> SUFFICES ASSUME NEW s \in Saves PROVE Seen(s)'
  BY DEF OwnSaveIsSeen, Seen, Old
<1> QED BY <1>1 DEF Seen, Old

\* Rows stored after a tab heard of its save are none of the older ones.
LEMMA StoredIsNew ==
    ASSUME EditorInv, NEW s \in Saves, saves[s].heard = "fetching"
    PROVE  saves[s].tab \in Tabs /\ ~Old(s, rows)
BY DEF EditorInv, LeftIsPainted, InHand, BeforeIsOver, OverBefore, Old

LEMMA QuerySeen ==
    ASSUME EditorInv, OwnSaveIsSeen, NEW t \in Tabs, QueryStep(t)
    PROVE  OwnSaveIsSeen'
<1>1. TabsTyped /\ saves' = saves
  BY QueryTyped, TypeParts DEF EditorInv
<1> SUFFICES ASSUME NEW s \in Saves, saves[s].heard = "fetching" PROVE Seen(s)'
  BY <1>1 DEF OwnSaveIsSeen, Seen, Old
<1>2. Seen(s) /\ saves[s].tab \in Tabs /\ ~Old(s, rows) /\ \A data : Old(s, data)' <=> Old(s, data)
  BY <1>1, SeenParts, StoredIsNew DEF Old
<1>3. CASE FetchRead(t)
  BY <1>1, <1>2, <1>3 DEF FetchRead, Seen, TabsTyped, Old
<1>4. CASE FetchDone(t)
  <2>1. fetch' = [fetch EXCEPT ![t] = NoFetch] /\ stale' = [stale EXCEPT ![t] = FALSE]
        /\ cache' = [cache EXCEPT ![t] = Cached(fetch[t].rows)] /\ fetch[t].pc = "answered"
    BY <1>4 DEF FetchDone
  <2>2. NoFetch.pc = "none" /\ Cached(fetch[t].rows).loaded /\ Cached(fetch[t].rows).rows = fetch[t].rows
    BY DEF NoFetch, Cached
  <2>3. CASE saves[s].tab = t
    <3>1. cache'[t] = Cached(fetch[t].rows) /\ fetch'[t] = NoFetch
      BY <1>1, <2>1 DEF TabsTyped
    <3>2. ~Old(s, fetch[t].rows)
      BY <1>2, <2>1, <2>3 DEF Seen
    <3> QED BY <1>1, <2>2, <2>3, <3>1, <3>2 DEF Seen, Old
  <2>4. CASE saves[s].tab # t
    <3>1. /\ cache'[saves[s].tab] = cache[saves[s].tab] /\ fetch'[saves[s].tab] = fetch[saves[s].tab]
          /\ stale'[saves[s].tab] = stale[saves[s].tab]
      BY <1>1, <1>2, <2>1, <2>4 DEF TabsTyped
    <3> QED BY <1>1, <1>2, <3>1 DEF Seen, Old
  <2> QED BY <2>3, <2>4
<1>5. ASSUME UNCHANGED <<cache, stale>>, fetch' = [fetch EXCEPT ![t] = NoFetch] \/ fetch' = [fetch EXCEPT ![t] = Asked]
      PROVE  Seen(s)'
  <2>1. fetch'[saves[s].tab] = fetch[saves[s].tab] \/ fetch'[saves[s].tab].pc # "answered"
    BY <1>1, <1>2, <1>5 DEF TabsTyped, NoFetch, Asked
  <2> QED BY <1>1, <1>2, <1>5, <2>1 DEF Seen, Old
<1> QED BY <1>3, <1>4, <1>5 DEF QueryStep, FetchFails, Refocus

LEMMA EditingSeen ==
    ASSUME EditorInv, OwnSaveIsSeen, NEW t \in Tabs, EditorStep(t)
    PROVE  OwnSaveIsSeen'
<1>1. saves' = saves /\ cache' = cache /\ stale' = stale /\ \A u \in Tabs : fetch'[u] = fetch[u] \/ fetch'[u] = Asked
  BY EditorTyped, TypeParts DEF EditorInv
<1> SUFFICES ASSUME NEW s \in Saves, saves[s].heard = "fetching" PROVE Seen(s)'
  BY <1>1 DEF OwnSaveIsSeen, Seen, Old
<1>2. Seen(s) /\ saves[s].tab \in Tabs
  BY SeenParts, StoredIsNew
<1>3. Asked.pc # "answered"
  BY DEF Asked
<1> QED BY <1>1, <1>2, <1>3 DEF Seen, Old

LEMMA SuccessSeen ==
    ASSUME EditorInv, OwnSaveIsSeen, NEW s \in Saves, SaveSucceeds(s)
    PROVE  OwnSaveIsSeen'
<1> DEFINE t == saves[s].tab
<1>1. TabsTyped /\ Shape /\ saves \in [Saves -> SaveRecord] /\ t \in Tabs
  <2>1. InHand(s) /\ saves[s].pc = "stored"
    BY DEF EditorInv, LeftIsPainted, SaveSucceeds
  <2> QED BY <2>1, TypeParts DEF EditorInv, ReplaceInv, InHand
<1>2. /\ saves' = [saves EXCEPT ![s].heard = HeardOfSuccess(t)]
      /\ stale' = [stale EXCEPT ![t] = TRUE] /\ cache' = cache
      /\ fetch' = IF editor[t] # Null /\ ~Joins(t) THEN [fetch EXCEPT ![t] = Asked] ELSE fetch
  BY DEF SaveSucceeds
<1>3. /\ saves'[s].tab = t /\ saves'[s].before = saves[s].before
      /\ saves'[s].heard = HeardOfSuccess(t)
      /\ \A r \in Saves : r # s => saves'[r] = saves[r]
  BY <1>1, <1>2 DEF SaveRecord
<1>4. Asked.pc # "answered"
  BY DEF Asked
<1>5. /\ stale'[t] = TRUE /\ fetch'[t] = (IF editor[t] # Null /\ ~Joins(t) THEN Asked ELSE fetch[t])
      /\ \A u \in Tabs : u # t => stale'[u] = stale[u] /\ fetch'[u] = fetch[u]
  BY <1>1, <1>2 DEF TabsTyped
<1> HIDE DEF t
<1>6. Seen(s)'
  BY <1>3, <1>4, <1>5 DEF Seen, HeardOfSuccess
<1>7. ASSUME NEW r \in Saves, r # s PROVE Seen(r)'
  <2>1. Seen(r) /\ saves'[r] = saves[r] /\ (saves[r].heard = "fetching" => saves[r].tab \in Tabs)
    BY <1>3, <1>7, SeenParts, StoredIsNew
  <2> QED BY <1>2, <1>4, <1>5, <2>1 DEF Seen, Old
<1> QED BY <1>6, <1>7 DEF OwnSaveIsSeen, Seen, Old

LEMMA StepSeen ==
    ASSUME EditorInv, OwnSaveIsSeen, [Next]_vars
    PROVE  OwnSaveIsSeen'
<1>0. Shape /\ TabsTyped
  BY TypeParts DEF EditorInv, ReplaceInv
<1>1. ASSUME NEW s \in Saves, ServiceStep(s) PROVE OwnSaveIsSeen'
  <2>1. UNCHANGED tabVars /\ \E x, painted, left : Rewritten(s, x, saves[s].heard, painted, left)
    BY <1>0, <1>1, ServiceForms DEF Refusing, Passing, Deleting, Ending, Inserting
  <2>2. \A r \in Saves : saves'[r].heard = saves[r].heard /\ saves'[r].tab = saves[r].tab
                         /\ saves'[r].before = saves[r].before
    BY <2>1, RewrittenFields
  <2> QED BY <2>1, <2>2, TabsQuiet DEF tabVars
<1>2. ASSUME NEW s \in Saves, SaveFails(s) PROVE OwnSaveIsSeen'
  <2>1. saves' = [saves EXCEPT ![s].heard = "failed"] /\ UNCHANGED <<cache, stale, fetch>>
    BY <1>2 DEF SaveFails
  <2>2. Rewritten(s, saves[s].pc, "failed", saves[s].painted, saves[s].left)
    BY <1>0, <2>1, HearingRewrites
  <2>3. /\ saves'[s].heard = "failed"
        /\ \A r \in Saves : r # s => saves'[r] = saves[r]
    BY <2>2, RewrittenFields
  <2> QED BY <2>1, <2>3, TabsQuiet
<1>3. ASSUME NEW s \in Saves, NEW t \in Tabs, Save(t, s) PROVE OwnSaveIsSeen'
  <2>1. Sending(t, s) /\ UNCHANGED <<cache, stale, fetch>>
    BY <1>0, <1>3, SaveForms, SendingTabs
  <2> QED BY <2>1, TabsQuiet DEF Sending
<1>4. CASE UNCHANGED vars
  BY <1>4, TabsQuiet DEF vars
<1> QED BY <1>1, <1>2, <1>3, <1>4, SuccessSeen, QuerySeen, EditingSeen DEF Next

\* A tab whose save succeeded with the editor on screen never takes an answer
\* that is older than the save for current (useSetMyAvailability invalidates
\* the query, and the request under way is thrown away, unless it is the tab's
\* first and has been answered already).
THEOREM TabsSeeTheirSaves == Spec => []OwnSaveIsSeen
<1>1. Init => EditorInv /\ OwnSaveIsSeen
  <2>1. Init => \A s \in Saves : saves[s].heard = "waiting"
    BY DEF Init, Unsent
  <2> QED BY <2>1, InitEditor DEF OwnSaveIsSeen
<1>2. EditorInv /\ [Next]_vars => EditorInv'
  BY StepKeeps
<1>3. EditorInv /\ OwnSaveIsSeen /\ [Next]_vars => OwnSaveIsSeen'
  BY StepSeen
<1> QED BY <1>1, <1>2, <1>3, PTL DEF Spec

-----------------------------------------------------------------------------
(* The grid of the event.                                                  *)

AllPainted(p) == \A u \in DOMAIN p : Aligned(u)

LEMMA SlotsSum ==
    ASSUME NEW a \in Int, NEW c \in Int, NEW d \in Int, a % Gran = 0, c % Gran = 0, d = a + c
    PROVE  d % Gran = 0
<1>0. Gran \in Nat \ {0}
  BY AvailabilityAssumption
<1>1. PICK k \in Int : a = Gran * k
  BY <1>0, ModZero
<1>2. PICK j \in Int : c = Gran * j
  BY <1>0, ModZero
<1>3. k + j \in Int /\ d = Gran * (k + j)
  BY <1>0, <1>1, <1>2, SMTT(20)
<1> QED BY <1>0, <1>3, ModZero

\* The entries of a painting on the grid do not overlap.
LEMMA EntriesApart ==
    ASSUME NEW p \in Painting, AllPainted(p), NEW e \in ToEntries(p), NEW f \in ToEntries(p), e # f
    PROVE  Apart(e, f)
<1>0. DOMAIN p \subseteq Nat /\ Gran \in Nat \ {0} /\ EventStart \in Nat
  BY PaintingShape, AvailabilityAssumption
<1>1. e.start # f.start
  BY DEF ToEntries
<1>2. ASSUME NEW a \in ToEntries(p), NEW b \in ToEntries(p), a.start < b.start PROVE a.end <= b.start
  <2> DEFINE m == Max(Run(p, a.start))
  <2>1. a.start \in DOMAIN p /\ b.start \in DOMAIN p /\ Opens(p, b.start) /\ a.end = m + Gran
    BY EntryShape
  <2>2. m \in Run(p, a.start)
    BY <2>1, RunEnds
  <2> HIDE DEF m
  <2>3. m \in DOMAIN p /\ m \in Nat /\ b.start \in Nat /\ ~(b.start <= m)
    BY <1>0, <1>2, <2>1, <2>2 DEF Run
  <2>4. (m - EventStart) % Gran = 0 /\ (b.start - EventStart) % Gran = 0
    BY <2>1, <2>3 DEF AllPainted, Aligned
  <2>5. /\ m - EventStart \in Int /\ b.start - EventStart \in Int /\ b.start - m \in Int
        /\ b.start - m = (b.start - EventStart) - (m - EventStart)
    BY <1>0, <2>3
  <2>6. (b.start - m) % Gran = 0
    BY <2>4, <2>5, SlotsApart
  <2>7. b.start - m >= Gran
    BY <1>0, <2>3, <2>5, <2>6, OneStep
  <2> QED BY <1>0, <2>1, <2>3, <2>7
<1>3. e.start \in Nat /\ f.start \in Nat
  BY <1>0, EntryShape
<1> QED BY <1>1, <1>2, <1>3 DEF Apart

LEMMA EntriesAligned ==
    ASSUME NEW p \in Painting, AllPainted(p)
    PROVE  AllAligned(ToEntries(p))
BY EntryShape DEF AllPainted, AllAligned

LEMMA PaintingsAligned ==
    ASSUME NEW data \in SUBSET Row, AllAligned(data), NEW p \in Paintings(data)
    PROVE  AllPainted(p)
<1> DEFINE slots == UNION {Covered(e) : e \in data}
<1>1. p \in [slots -> Statuses]
  BY DEF Paintings
<1> SUFFICES ASSUME NEW e \in data, NEW u \in Covered(e) PROVE Aligned(u)
  BY <1>1 DEF AllPainted
<1>2. e.start \in Nat /\ e.end \in Nat /\ (e.start - EventStart) % Gran = 0 /\ EventStart \in Nat
  BY Numbers DEF Row, AllAligned, Aligned
<1>3. u \in Nat /\ (u - e.start) % Gran = 0
  BY <1>2 DEF Covered
<1>4. /\ u - e.start \in Int /\ e.start - EventStart \in Int /\ u - EventStart \in Int
      /\ u - EventStart = (u - e.start) + (e.start - EventStart)
  BY <1>2, <1>3
<1> QED BY <1>2, <1>3, <1>4, SlotsSum DEF Aligned

-----------------------------------------------------------------------------
RowsOnGrid == AllAligned(rows) /\ \A r, q \in rows : r.save = q.save /\ r # q => Apart(r, q)
SavesOnGrid == \A s \in Saves : AllPainted(saves[s].painted) /\ AllAligned(saves[s].left)
TabsOnGrid ==
    \A t \in Tabs :
        /\ AllAligned(cache[t].rows) /\ AllAligned(fetch[t].rows)
        /\ editor[t] # Null => AllPainted(editor[t].painted)

LEMMA GridParts == GridInv <=> RowsOnGrid /\ SavesOnGrid /\ TabsOnGrid
BY DEF GridInv, RowsOnGrid, SavesOnGrid, TabsOnGrid, AllPainted

LEMMA InitGrid == OnTheGrid /\ Init => RowsOnGrid /\ SavesOnGrid /\ TabsOnGrid
<1> SUFFICES ASSUME OnTheGrid, Init PROVE RowsOnGrid /\ SavesOnGrid /\ TabsOnGrid
  OBVIOUS
<1>1. PICK entries \in InitEntries :
          rows = {[save |-> Null, start |-> e.start, end |-> e.end, status |-> e.status] : e \in entries}
  BY DEF Init
<1>2. AllAligned(entries) /\ \A e, f \in entries : e # f => Apart(e, f)
  BY DEF OnTheGrid
<1>3. RowsOnGrid
  BY <1>1, <1>2 DEF RowsOnGrid, AllAligned, Apart
<1>4. AllPainted(Blank) /\ AllAligned({})
  BY DEF AllPainted, AllAligned, Blank
<1>5. SavesOnGrid
  BY <1>4 DEF SavesOnGrid, Init, Unsent
<1>6. TabsOnGrid
  BY <1>4 DEF TabsOnGrid, Init, NothingYet, NoFetch
<1> QED BY <1>3, <1>5, <1>6

LEMMA RewrittenGrid ==
    ASSUME SavesOnGrid, NEW s \in Saves, NEW x, NEW heard, NEW painted, NEW left,
           AllPainted(painted), AllAligned(left), Rewritten(s, x, heard, painted, left)
    PROVE  SavesOnGrid'
<1>1. /\ saves'[s].painted = painted /\ saves'[s].left = left
      /\ \A r \in Saves : r # s => saves'[r] = saves[r]
  BY RewrittenFields
<1> SUFFICES ASSUME NEW r \in Saves PROVE AllPainted(saves'[r].painted) /\ AllAligned(saves'[r].left)
  BY DEF SavesOnGrid, AllPainted, AllAligned, Aligned
<1> QED BY <1>1 DEF SavesOnGrid

LEMMA InsertingGrid ==
    ASSUME EditorInv, RowsOnGrid, SavesOnGrid, NEW s \in Saves, NEW e \in saves[s].left, Inserting(s, e)
    PROVE  RowsOnGrid' /\ SavesOnGrid'
<1>1. Rewritten(s, "insert", saves[s].heard, saves[s].painted, saves[s].left \ {e})
      /\ rows' = rows \cup {Filed(s, e)} /\ saves[s].pc = "insert"
  BY DEF Inserting
<1>2. AllPainted(saves[s].painted) /\ AllAligned(saves[s].left) /\ saves[s].painted \in Painting
  BY DEF SavesOnGrid, EditorInv, TypeOK, SaveRecord
<1>3. AllAligned(saves[s].left \ {e})
  BY <1>2 DEF AllAligned
<1>4. SavesOnGrid'
  BY <1>1, <1>2, <1>3, RewrittenGrid
<1>5. /\ Filed(s, e).save = s /\ Filed(s, e).start = e.start /\ Filed(s, e).end = e.end
      /\ \A f : Filed(s, f).start = f.start /\ Filed(s, f).end = f.end
  BY DEF Filed
<1>6. AllAligned(rows')
  BY <1>1, <1>2, <1>5 DEF RowsOnGrid, AllAligned
<1>7. ASSUME NEW r \in rows, r.save = s PROVE Apart(r, Filed(s, e)) /\ Apart(Filed(s, e), r)
  <2>1. PICK f \in Written(s) : r = Filed(s, f)
    BY <1>1, <1>7 DEF EditorInv, LeftIsPainted, InHand
  <2>2. f \in ToEntries(saves[s].painted) /\ e \in ToEntries(saves[s].painted) /\ f # e
    BY <1>1, <2>1 DEF EditorInv, LeftIsPainted, InHand, Written
  <2>3. Apart(f, e)
    BY <1>2, <2>2, EntriesApart
  <2> QED BY <1>5, <2>1, <2>3 DEF Apart
<1>8. ASSUME NEW r \in rows', NEW q \in rows', r.save = q.save, r # q PROVE Apart(r, q)
  <2>1. CASE r \in rows /\ q \in rows
    BY <1>8, <2>1 DEF RowsOnGrid
  <2> QED BY <1>1, <1>5, <1>7, <1>8, <2>1
<1> QED BY <1>4, <1>6, <1>8 DEF RowsOnGrid, AllAligned, Aligned, Apart

LEMMA ServiceGrid ==
    ASSUME EditorInv, RowsOnGrid, SavesOnGrid, TabsOnGrid, NEW s \in Saves, ServiceStep(s)
    PROVE  RowsOnGrid' /\ SavesOnGrid' /\ TabsOnGrid'
<1>1. TabsOnGrid'
  BY ServiceForms DEF EditorInv, ReplaceInv, tabVars, TabsOnGrid, AllAligned, AllPainted, Aligned
<1>2. /\ AllPainted(saves[s].painted) /\ AllAligned(saves[s].left)
      /\ AllPainted(Blank) /\ AllAligned({})
  BY DEF SavesOnGrid, AllPainted, AllAligned, Blank
<1>3. ASSUME rows' \subseteq rows, NEW x, NEW heard, NEW painted, NEW left,
             AllPainted(painted), AllAligned(left), Rewritten(s, x, heard, painted, left)
      PROVE  RowsOnGrid' /\ SavesOnGrid'
  BY <1>3, RewrittenGrid DEF RowsOnGrid, AllAligned, Aligned, Apart
<1>4. CASE Refusing(s)
  BY <1>1, <1>2, <1>3, <1>4 DEF Refusing
<1>5. CASE Passing(s)
  BY <1>1, <1>2, <1>3, <1>5 DEF Passing
<1>6. CASE Deleting(s)
  BY <1>1, <1>2, <1>3, <1>6 DEF Deleting
<1>7. CASE Ending(s)
  BY <1>1, <1>2, <1>3, <1>7 DEF Ending
<1> QED BY <1>1, <1>4, <1>5, <1>6, <1>7, ServiceForms, InsertingGrid DEF EditorInv, ReplaceInv

LEMMA SendingGrid ==
    ASSUME EditorInv, RowsOnGrid, SavesOnGrid, TabsOnGrid, NEW s \in Saves, NEW t \in Tabs, Save(t, s)
    PROVE  RowsOnGrid' /\ SavesOnGrid' /\ TabsOnGrid'
<1>1. Sending(t, s) /\ UNCHANGED <<cache, fetch>> /\ editor[t] # Null /\ TabsTyped
  BY SaveForms, SendingTabs, TypeParts DEF EditorInv, ReplaceInv, Save
<1>2. editor[t].painted \in Painting /\ AllPainted(editor[t].painted)
  BY <1>1 DEF TabsTyped, Editor, TabsOnGrid
<1>3. AllAligned(ToEntries(editor[t].painted))
  BY <1>2, EntriesAligned
<1>4. SavesOnGrid'
  <2> SUFFICES ASSUME NEW r \in Saves PROVE AllPainted(saves'[r].painted) /\ AllAligned(saves'[r].left)
    BY DEF SavesOnGrid, AllPainted, AllAligned, Aligned
  <2>1. CASE r = s
    BY <1>1, <1>2, <1>3, <2>1 DEF Sending
  <2>2. CASE r # s
    BY <1>1, <2>2 DEF Sending, SavesOnGrid
  <2> QED BY <2>1, <2>2
<1>5. TabsOnGrid'
  <2>1. editor' = [editor EXCEPT ![t].pending = s] /\ editor \in [Tabs -> Editor]
    BY <1>1 DEF Save, TabsTyped
  <2>2. [editor[t] EXCEPT !.pending = s].painted = editor[t].painted
    BY <1>1, <2>1 DEF Editor
  <2> SUFFICES ASSUME NEW u \in Tabs
               PROVE  /\ AllAligned(cache[u].rows) /\ AllAligned(fetch[u].rows)
                      /\ editor'[u] # Null => AllPainted(editor'[u].painted)
    BY <1>1 DEF TabsOnGrid, AllPainted, AllAligned, Aligned
  <2>3. CASE u = t
    BY <1>1, <1>2, <2>1, <2>2, <2>3 DEF TabsOnGrid
  <2>4. CASE u # t
    BY <2>1, <2>4 DEF TabsOnGrid
  <2> QED BY <2>3, <2>4
<1>6. RowsOnGrid'
  BY <1>1 DEF Sending, RowsOnGrid, AllAligned, Aligned, Apart
<1> QED BY <1>4, <1>5, <1>6

LEMMA TabsRedrawn ==
    ASSUME TabsOnGrid, NEW t \in Tabs, UNCHANGED <<cache>>, \A u \in Tabs : u # t => editor'[u] = editor[u],
           editor'[t] # Null => AllPainted(editor'[t].painted),
           \A u \in Tabs : fetch'[u] = fetch[u] \/ AllAligned(fetch'[u].rows)
    PROVE  TabsOnGrid'
<1> SUFFICES ASSUME NEW u \in Tabs
             PROVE  /\ AllAligned(cache[u].rows) /\ AllAligned(fetch'[u].rows)
                    /\ editor'[u] # Null => AllPainted(editor'[u].painted)
  BY DEF TabsOnGrid, AllPainted, AllAligned, Aligned
<1> QED BY DEF TabsOnGrid

LEMMA QueryGrid ==
    ASSUME EditorInv, RowsOnGrid, SavesOnGrid, TabsOnGrid, NEW t \in Tabs, QueryStep(t)
    PROVE  RowsOnGrid' /\ SavesOnGrid' /\ TabsOnGrid'
<1>1. TabsTyped /\ rows' = rows /\ saves' = saves
  BY QueryTyped, TypeParts DEF EditorInv
<1>2. RowsOnGrid' /\ SavesOnGrid'
  BY <1>1 DEF RowsOnGrid, SavesOnGrid, AllAligned, AllPainted, Aligned, Apart
<1>3. AllAligned(NoFetch.rows) /\ AllAligned(Asked.rows)
  BY DEF NoFetch, Asked, AllAligned
<1>4. CASE FetchRead(t)
  <2>1. \A u \in Tabs : fetch'[u] = fetch[u] \/ fetch'[u].rows = rows
    BY <1>1, <1>4 DEF FetchRead, TabsTyped
  <2>2. AllAligned(rows)
    BY DEF RowsOnGrid
  <2> QED BY <1>2, <1>4, <2>1, <2>2, TabsRedrawn DEF FetchRead, TabsOnGrid
<1>5. CASE FetchDone(t)
  <2>1. /\ cache' = [cache EXCEPT ![t] = Cached(fetch[t].rows)] /\ fetch' = [fetch EXCEPT ![t] = NoFetch]
    BY <1>5 DEF FetchDone
  <2>2. AllAligned(fetch[t].rows) /\ fetch[t].rows \in SUBSET Row /\ Cached(fetch[t].rows).rows = fetch[t].rows
    BY <1>1 DEF TabsOnGrid, TabsTyped, Fetch, Cached
  <2>3. /\ \A u \in Tabs : u # t => editor'[u] = editor[u]
        /\ editor'[t] # Null => AllPainted(editor'[t].painted)
    <3>1. CASE editor[t] # Null /\ cache[t] # Cached(fetch[t].rows)
      <4>1. PICK m \in Paintings(fetch[t].rows) : editor' = [editor EXCEPT ![t].painted = m]
        BY <1>5, <3>1 DEF FetchDone
      <4>2. AllPainted(m)
        BY <2>2, PaintingsAligned
      <4>3. [editor[t] EXCEPT !.painted = m].painted = m /\ editor \in [Tabs -> Editor]
        BY <1>1, <3>1 DEF TabsTyped, Editor
      <4> QED BY <4>1, <4>2, <4>3
    <3>2. CASE ~(editor[t] # Null /\ cache[t] # Cached(fetch[t].rows))
      BY <1>5, <3>2 DEF FetchDone, TabsOnGrid
    <3> QED BY <3>1, <3>2
  <2> SUFFICES ASSUME NEW u \in Tabs
               PROVE  /\ AllAligned(cache'[u].rows) /\ AllAligned(fetch'[u].rows)
                      /\ editor'[u] # Null => AllPainted(editor'[u].painted)
    BY <1>2 DEF TabsOnGrid, AllPainted, AllAligned, Aligned
  <2>4. CASE u = t
    BY <1>1, <1>3, <2>1, <2>2, <2>3, <2>4 DEF TabsTyped
  <2>5. CASE u # t
    BY <1>1, <2>1, <2>3, <2>5 DEF TabsTyped, TabsOnGrid
  <2> QED BY <2>4, <2>5
<1>6. CASE FetchFails(t)
  <2>1. \A u \in Tabs : fetch'[u] = fetch[u] \/ fetch'[u] = NoFetch
    BY <1>1, <1>6 DEF FetchFails, TabsTyped
  <2> QED BY <1>2, <1>3, <1>6, <2>1, TabsRedrawn DEF FetchFails, TabsOnGrid
<1>7. CASE Refocus(t)
  <2>1. \A u \in Tabs : fetch'[u] = fetch[u] \/ fetch'[u] = Asked
    BY <1>1, <1>7 DEF Refocus, TabsTyped
  <2> QED BY <1>2, <1>3, <1>7, <2>1, TabsRedrawn DEF Refocus, TabsOnGrid
<1> QED BY <1>4, <1>5, <1>6, <1>7 DEF QueryStep

LEMMA EditingGrid ==
    ASSUME EditorInv, RowsOnGrid, SavesOnGrid, TabsOnGrid, NEW t \in Tabs, EditorStep(t)
    PROVE  RowsOnGrid' /\ SavesOnGrid' /\ TabsOnGrid'
<1>1. /\ TabsTyped /\ editor \in [Tabs -> Editor] /\ UNCHANGED <<rows, saves, cache>>
      /\ \A u \in Tabs : fetch'[u] = fetch[u] \/ fetch'[u] = Asked
  BY EditorTyped, TypeParts DEF EditorInv, TabsTyped
<1>2. RowsOnGrid' /\ SavesOnGrid'
  BY <1>1 DEF RowsOnGrid, SavesOnGrid, AllAligned, AllPainted, Aligned, Apart
<1>3. AllAligned(Asked.rows) /\ AllPainted(Blank)
  BY DEF Asked, AllAligned, AllPainted, Blank
<1>4. ASSUME \A u \in Tabs : u # t => editor'[u] = editor[u],
             editor'[t] # Null => AllPainted(editor'[t].painted)
      PROVE  TabsOnGrid'
  BY <1>1, <1>3, <1>4, TabsRedrawn
<1>5. ASSUME NEW m, AllPainted(m), editor[t] # Null, editor' = [editor EXCEPT ![t].painted = m]
      PROVE  TabsOnGrid'
  <2>1. [editor[t] EXCEPT !.painted = m].painted = m
    BY <1>1, <1>5 DEF Editor
  <2>2. editor'[t].painted = m
    BY <1>1, <1>5, <2>1
  <2>3. \A u \in Tabs : u # t => editor'[u] = editor[u]
    BY <1>1, <1>5
  <2> QED BY <1>4, <1>5, <2>2, <2>3
<1>6. CASE Open(t)
  <2>1. PICK m \in Loaded(t) : editor' = [editor EXCEPT ![t] = [painted |-> m, pending |-> Null]]
    BY <1>6 DEF Open
  <2>2. AllPainted(m)
    <3>1. cache[t].rows \in SUBSET Row /\ AllAligned(cache[t].rows)
      BY <1>1 DEF TabsTyped, Cache, TabsOnGrid
    <3> QED BY <1>3, <2>1, <3>1, PaintingsAligned DEF Loaded
  <2>3. editor'[t].painted = m /\ \A u \in Tabs : u # t => editor'[u] = editor[u]
    BY <1>1, <2>1
  <2> QED BY <1>2, <1>4, <2>2, <2>3
<1>7. CASE Close(t)
  <2>1. editor' = [editor EXCEPT ![t] = Null]
    BY <1>7 DEF Close
  <2> QED BY <1>1, <1>2, <1>4, <2>1
<1>8. CASE ClearAll(t)
  BY <1>2, <1>3, <1>5, <1>8 DEF ClearAll, CanDraw
<1>9. ASSUME NEW slot \in Slots, Erase(t, slot) PROVE TabsOnGrid'
  <2>1. editor' = [editor EXCEPT ![t].painted = Without(editor[t].painted, {slot})] /\ editor[t] # Null
    BY <1>1, <1>9 DEF Erase, CanDraw
  <2>2. AllPainted(Without(editor[t].painted, {slot}))
    BY <2>1 DEF TabsOnGrid, AllPainted, Without
  <2> QED BY <1>5, <2>1, <2>2
<1>10. ASSUME NEW slot \in Slots, NEW status \in Statuses, Paint(t, slot, status) PROVE TabsOnGrid'
  <2>1. editor' = [editor EXCEPT ![t].painted = Painted(editor[t].painted, slot, status)] /\ editor[t] # Null
    BY <1>1, <1>10 DEF Paint, CanDraw
  <2>2. Aligned(slot)
    BY DEF Slots, Aligned
  <2>3. AllPainted(Painted(editor[t].painted, slot, status))
    BY <2>1, <2>2 DEF TabsOnGrid, AllPainted, Painted
  <2> QED BY <1>5, <2>1, <2>3
<1> QED BY <1>2, <1>6, <1>7, <1>8, <1>9, <1>10 DEF EditorStep

LEMMA HearingGrid ==
    ASSUME EditorInv, RowsOnGrid, SavesOnGrid, TabsOnGrid, NEW s \in Saves, SaveSucceeds(s) \/ SaveFails(s)
    PROVE  RowsOnGrid' /\ SavesOnGrid' /\ TabsOnGrid'
<1> DEFINE t == saves[s].tab
<1>1. TabsTyped /\ Shape /\ AllPainted(saves[s].painted) /\ AllAligned(saves[s].left)
  BY TypeParts DEF EditorInv, ReplaceInv, SavesOnGrid
<1>2. PICK heard : Hearing(s, heard)
  BY <1>1, HearingForms
<1>3. SavesOnGrid' /\ rows' = rows
  BY <1>1, <1>2, RewrittenGrid DEF Hearing
<1>4. RowsOnGrid'
  BY <1>3 DEF RowsOnGrid, AllAligned, Aligned, Apart
<1>5. saves[s].pc # "unsent" => t \in Tabs
  BY DEF EditorInv, LeftIsPainted, InHand
<1>6. t \in Tabs
  BY <1>5 DEF SaveSucceeds, SaveFails
<1>7. AllAligned(Asked.rows)
  BY DEF Asked, AllAligned
<1> HIDE DEF t
<1>8. cache' = cache /\ \A u \in Tabs : fetch'[u] = fetch[u] \/ fetch'[u] = Asked
  BY <1>1, <1>6 DEF SaveSucceeds, SaveFails, TabsTyped, t
<1>9. editor' = editor \/ editor' = [editor EXCEPT ![t] = Null]
      \/ (editor[t] # Null /\ editor' = [editor EXCEPT ![t].pending = Null])
  BY DEF SaveSucceeds, SaveFails, t
<1>10. editor[t] # Null => [editor[t] EXCEPT !.pending = Null].painted = editor[t].painted
  BY <1>1, <1>6 DEF TabsTyped, Editor
<1>11. /\ \A u \in Tabs : u # t => editor'[u] = editor[u]
       /\ editor'[t] # Null => editor[t] # Null /\ editor'[t].painted = editor[t].painted
  BY <1>1, <1>6, <1>9, <1>10 DEF TabsTyped
<1>12. editor'[t] # Null => AllPainted(editor'[t].painted)
  BY <1>6, <1>11 DEF TabsOnGrid
<1> QED BY <1>3, <1>4, <1>6, <1>7, <1>8, <1>11, <1>12, TabsRedrawn

LEMMA StepGrid ==
    ASSUME EditorInv, GridInv, [Next]_vars
    PROVE  GridInv'
<1>0. RowsOnGrid /\ SavesOnGrid /\ TabsOnGrid
  BY GridParts
<1>1. CASE UNCHANGED vars
  BY <1>0, <1>1 DEF vars, GridInv, AllAligned, Aligned, Apart
<1>2. CASE Next
  <2>1. RowsOnGrid' /\ SavesOnGrid' /\ TabsOnGrid'
    BY <1>0, <1>2, ServiceGrid, HearingGrid, SendingGrid, QueryGrid, EditingGrid DEF Next
  <2> QED BY <2>1 DEF GridInv, RowsOnGrid, SavesOnGrid, TabsOnGrid, AllPainted
<1> QED BY <1>1, <1>2

LEMMA GridKeepsApart == EditorInv /\ GridInv => OverlapsNeedRivals
<1> SUFFICES ASSUME EditorInv, GridInv, NEW r \in rows, NEW q \in rows, r # q, r.start < q.end, q.start < r.end
             PROVE  r.save # q.save /\ Null \notin {r.save, q.save} /\ r.save \in saves[q.save].rivals
  BY DEF OverlapsNeedRivals
<1>1. r.start \in Int /\ r.end \in Int /\ q.start \in Int /\ q.end \in Int
  BY DEF EditorInv, TypeOK, Row
<1>2. r.save # q.save
  BY <1>1 DEF GridInv, Apart
<1> QED BY <1>2 DEF EditorInv, RowsOfRivals

\* On the event's grid only saves that ran at the same time leave entries that
\* overlap.  The grid is a hypothesis: after a change of the event's start or
\* granularity an old entry off the grid, kept by an editor that paints beside
\* it, overlaps the new ones of the same save.
THEOREM EntriesStayApart == OnTheGrid => (Spec => []OverlapsNeedRivals)
<1>1. OnTheGrid /\ Init => EditorInv /\ GridInv
  BY InitEditor, InitGrid, GridParts
<1>2. EditorInv /\ [Next]_vars => EditorInv'
  BY StepKeeps
<1>3. EditorInv /\ GridInv /\ [Next]_vars => GridInv'
  BY StepGrid
<1>4. EditorInv /\ GridInv => OverlapsNeedRivals
  BY GridKeepsApart
<1> QED BY <1>1, <1>2, <1>3, <1>4, PTL DEF Spec

=============================================================================
