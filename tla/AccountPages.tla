----------------------------- MODULE AccountPages -----------------------------
(***************************************************************************)
(* The accounts in the browser: the user that every page is drawn from     *)
(* (AuthContext), the login and registration forms, and the settings page  *)
(* with its three sections, profile, second factor and connections, each   *)
(* with a copy of its own of what is stored.  One account is used on       *)
(* several devices at once; its second factor is handled by TwoFactor, the *)
(* other requests here.                                                    *)
(***************************************************************************)
EXTENDS TwoFactor, TLC

CONSTANTS
    Devices,      \* browsers, with one page and one cookie each
    Names, Mails, \* values of the profile's fields, and usernames to register
    Taken,        \* the mail addresses of other accounts
    Providers,    \* OAuth providers
    Visits,       \* Bound: per part, how often a device opens the settings page
    Sends,        \* Bound: per part, what a device sends beside TwoFactor's calls
    InUse,        \* Bound: the parts that are worked in, one in a behaviour
    Nothing       \* no answer yet, nobody signed in

ASSUME AccountPagesAssumption ==
    /\ InUse \subseteq DOMAIN Visits /\ InUse \subseteq DOMAIN Sends
    /\ Names # {} /\ Taken \subseteq Mails /\ Taken # Mails
    /\ Nothing \notin Names \cup Devices \cup (Devices \X Nat)

VARIABLES
    profile,   \* the account's row: name, mail, and whether its password was changed
    linked,    \* its rows in oauth_connections
    members,   \* registered usernames, with the role
    live,      \* the devices whose cookie is a valid session
    user,      \* per device: the user of AuthContext, or Nothing
    page,      \* per device: what is on the screen
    list,      \* per device: the cached connections, and whether they are marked as old
    wires,     \* requests and answers under way, other than TwoFactor's
    caller,    \* per call of TwoFactor: who waits for its answer
    left,      \* Bound: per device, what it may still send
    part,      \* Bound: the part that is worked in, fixed in Init
    past       \* history, for the properties

server == <<profile, linked, members, live>>
vars == <<twoFactorVars, server, user, page, list, wires, caller, left, part, past>>

\* What GET /auth/me answers for the account.
Me == [name |-> profile.name, mail |-> profile.mail, totp |-> enabled]

-----------------------------------------------------------------------------
(* The screen.                                                             *)

NoFactor == [on |-> FALSE, step |-> "idle", offered |-> NoCall, shown |-> NoCall]
NoForm == [name |-> Nothing, mail |-> Nothing, typed |-> {}, drift |-> FALSE]

\* "busy" and "token" belong to the second factor's section and to the login
\* form, "saving" to the profile and to the registration form.
Blank(at, visit) ==
    [at |-> at, visit |-> visit, busy |-> FALSE, saving |-> FALSE, token |-> NoCall,
     unlinking |-> FALSE, factor |-> NoFactor, form |-> NoForm]

\* The form and the switch are copied from the user when the page is opened,
\* and never again.
Opened(u, visit) ==
    [Blank("settings", visit) EXCEPT
        !.factor = [NoFactor EXCEPT !.on = u.totp],
        !.form = IF part = "profile"
                 THEN [NoForm EXCEPT !.name = u.name, !.mail = u.mail] ELSE NoForm]

\* Mutant: the login and registration forms are not guarded.
RoutedUnguarded(p, u) ==
    IF u = Nothing /\ p.at \in {"home", "settings", "loading"} THEN Blank("login", p.visit)
    ELSE p

\* The routes follow the user: without one only the login and registration
\* forms are drawn, with one neither of them is.
Routed(p, u) ==
    CASE u = Nothing /\ p.at \in {"home", "settings", "loading"} -> Blank("login", p.visit)
      [] u # Nothing /\ p.at \in {"login", "register", "loading"} -> Blank("home", p.visit)
      [] OTHER -> p

\* History: a profile form that is drawn over a changed user.
Drifting(p, u, old) == [p EXCEPT !.form.drift = @ \/ (p.form # NoForm /\ u # old)]

\* The user of AuthContext is set, under whatever page is open.
SetUser(d, u, p) ==
    /\ user' = [user EXCEPT ![d] = u]
    /\ page' = [page EXCEPT ![d] = Routed(Drifting(p, u, user[d]), u)]

Sent(d) == left[d] > 0 /\ left' = [left EXCEPT ![d] = @ - 1]

TypeOK ==
    /\ TwoFactorTypeOK
    /\ profile \in [name : Names, mail : Mails, pass : BOOLEAN]
    /\ linked \subseteq Providers /\ live \subseteq Devices
    /\ \A d \in Devices :
          /\ page[d].at \in {"loading", "login", "register", "home", "settings"}
          /\ page[d].factor.step \in {"idle", "setup", "codes"}
          /\ (page[d].factor.step = "setup") = (page[d].factor.offered \in Calls)
          /\ (page[d].factor.step = "codes") = (page[d].factor.shown \in Calls)
          /\ page[d].at \in {"home", "settings"} <=> user[d] # Nothing
          /\ list[d] \in [rows : (SUBSET Providers) \cup {Nothing}, stale : BOOLEAN]

-----------------------------------------------------------------------------
(* GET /auth/me: when the page is loaded, and as refreshUser.              *)

Refresh(d, why, visit) ==
    [kind |-> "me", dev |-> d, why |-> why, visit |-> visit, told |-> Nothing]

Free == [dev |-> Nothing, visit |-> 0, told |-> Nothing, batch |-> NoCall]
Waits(c) == caller[c] # Free

\* A refresh may be overtaken by another answer with the user in it.
Crossed(d) ==
    \/ \E m \in wires : m.kind = "me" /\ m.dev = d
    \/ \E c \in Calls : Waits(c) /\ caller[c].dev = d /\ calls[c].kind \notin Changing
Blurred(d) == IF Crossed(d) THEN past.blurred \cup {d} ELSE past.blurred

\* setLoading(false) of a form that is still there.
Released(d, visit) ==
    IF page[d].at = "settings" /\ page[d].visit = visit
    THEN [page[d] EXCEPT !.saving = FALSE] ELSE page[d]

AnswerMe(m) ==
    /\ m.kind = "me" /\ m.told = Nothing /\ m.dev \in live
    /\ wires' = (wires \ {m}) \cup {[m EXCEPT !.told = Me]}
    /\ UNCHANGED <<twoFactorVars, server, user, page, list, caller, left, part, past>>

HearMe(m) ==
    /\ m.kind = "me" /\ m.told # Nothing
    /\ wires' = wires \ {m}
    /\ SetUser(m.dev, m.told, IF m.why = "save" THEN Released(m.dev, m.visit) ELSE page[m.dev])
    /\ UNCHANGED <<twoFactorVars, server, list, caller, left, part, past>>

\* No session or no connection: the first one leaves nobody signed in, a later
\* one leaves the user as it is.
MissMe(m) ==
    /\ m.kind = "me"
    /\ wires' = wires \ {m}
    /\ IF m.why = "mount"
       THEN SetUser(m.dev, Nothing, page[m.dev]) /\ UNCHANGED past
       ELSE /\ page' = [page EXCEPT ![m.dev] =
                          IF m.why = "save" THEN Released(m.dev, m.visit) ELSE @]
            /\ past' = [past EXCEPT !.blurred = @ \cup {m.dev}]
            /\ UNCHANGED user
    /\ UNCHANGED <<twoFactorVars, server, list, caller, left, part>>

-----------------------------------------------------------------------------
(* Going about, and logging out.                                           *)

NoList == [rows |-> Nothing, stale |-> FALSE]
Loading(d) == \E m \in wires : m.kind = "list" /\ m.dev = d
FetchList(d) ==
    (wires \ {m \in wires : m.kind = "list" /\ m.dev = d})
       \cup {[kind |-> "list", dev |-> d, told |-> Nothing]}

\* A request for the connections that is under way is joined.  Otherwise they
\* are fetched unless they are there, not marked and fresh (staleTime).
OpenSettings(d) ==
    /\ page[d].at = "home" /\ page[d].visit < Visits[part] /\ part # "register"
    /\ page' = [page EXCEPT ![d] = Opened(user[d], @.visit + 1)]
    /\ \/ /\ Loading(d) \/ (~list[d].stale /\ (part = "connections" => list[d].rows # Nothing))
          /\ UNCHANGED wires
       \/ part = "connections" /\ ~Loading(d) /\ wires' = FetchList(d)
    /\ UNCHANGED <<twoFactorVars, server, user, list, caller, left, part, past>>

\* Bound: while an answer is waited for.
LeaveSettings(d) ==
    /\ page[d].at = "settings" /\ page[d].visit < Visits[part]
    /\ page[d].busy \/ page[d].saving \/ page[d].unlinking
    /\ page' = [page EXCEPT ![d] = Blank("home", @.visit)]
    /\ UNCHANGED <<twoFactorVars, server, user, list, wires, caller, left, part, past>>

GoToRegister(d) ==
    /\ page[d].at = "login" /\ page[d].token = NoCall /\ part = "register"
    /\ page' = [page EXCEPT ![d] = Blank("register", @.visit)]
    /\ UNCHANGED <<twoFactorVars, server, user, list, wires, caller, left, part, past>>

Logout(d) ==
    /\ user[d] # Nothing /\ Sent(d)
    /\ wires' = wires \cup {[kind |-> "logout", dev |-> d, at |-> "sent"]}
    /\ UNCHANGED <<twoFactorVars, server, user, page, list, caller, part, past>>

EndSession(m) ==
    /\ m.kind = "logout" /\ m.at = "sent"
    /\ live' = live \ {m.dev}
    /\ wires' = (wires \ {m}) \cup {[m EXCEPT !.at = "ok"]}
    /\ UNCHANGED <<twoFactorVars, profile, linked, members, user, page, list, caller, left,
                   part, past>>

HearLogout(m) ==
    /\ m.kind = "logout" /\ m.at = "ok"
    /\ wires' = wires \ {m}
    /\ SetUser(m.dev, Nothing, page[m.dev])
    /\ UNCHANGED <<twoFactorVars, server, list, caller, left, part, past>>

\* The session expires, or an administrator deactivates the account.
SessionEnds(d) ==
    /\ d \in live /\ part = "profile"
    /\ live' = live \ {d}
    /\ UNCHANGED <<twoFactorVars, profile, linked, members, user, page, list, wires, caller,
                   left, part, past>>

-----------------------------------------------------------------------------
(* The profile's form.                                                     *)

TypeProfile(d, field, value) ==
    /\ part = "profile" /\ page[d].at = "settings" /\ left[d] > 0
    /\ page[d].form[field] # value /\ field \notin page[d].form.typed
    /\ page' = [page EXCEPT ![d].form[field] = value, ![d].form.typed = @ \cup {field}]
    /\ UNCHANGED <<twoFactorVars, server, user, list, wires, caller, left, part, past>>

\* Mutant: every field is sent.
ChangedAll(d) == {"name", "mail"}

\* The form is compared with the user as it is now.
Changed(d) == {field \in {"name", "mail"} : page[d].form[field] # user[d][field]}

\* "typed" and "drift" are history.
SaveProfile(d, password) ==
    /\ part = "profile" /\ page[d].at = "settings" /\ ~page[d].saving
    /\ Changed(d) # {} \/ password
    /\ Sent(d)
    /\ page' = [page EXCEPT ![d].saving = TRUE]
    /\ wires' = wires \cup {[kind |-> "save", dev |-> d, visit |-> page[d].visit,
                             fields |-> [field \in Changed(d) |-> page[d].form[field]],
                             password |-> password, at |-> "sent",
                             typed |-> page[d].form.typed, drift |-> page[d].form.drift]}
    /\ UNCHANGED <<twoFactorVars, server, user, list, caller, part, past>>

\* The password is written first, and stays when the rest is refused.
WritePassword(m) ==
    /\ m.kind = "save" /\ m.at = "sent" /\ m.dev \in live
    /\ profile' = [profile EXCEPT !.pass = @ \/ m.password]
    /\ wires' = (wires \ {m}) \cup {[m EXCEPT !.at = "fields"]}
    /\ UNCHANGED <<twoFactorVars, linked, members, live, user, page, list, caller, left,
                   part, past>>

WriteFields(m) ==
    /\ m.kind = "save" /\ m.at = "fields"
    /\ "mail" \in DOMAIN m.fields => m.fields["mail"] \notin Taken
    /\ profile' = [field \in DOMAIN profile |->
                     IF field \in DOMAIN m.fields THEN m.fields[field] ELSE profile[field]]
    /\ wires' = (wires \ {m}) \cup {[m EXCEPT !.at = "ok"]}
    /\ past' = [past EXCEPT !.writer = m.dev]
    /\ UNCHANGED <<twoFactorVars, linked, members, live, user, page, list, caller, left, part>>

\* The button stays disabled until the user is read again.
HearSaved(m) ==
    /\ m.kind = "save" /\ m.at = "ok"
    /\ wires' = (wires \ {m}) \cup {Refresh(m.dev, "save", m.visit)}
    /\ past' = [past EXCEPT !.blurred = Blurred(m.dev)]
    /\ UNCHANGED <<twoFactorVars, server, user, page, list, caller, left, part>>

\* Refused, failed, or the answer is lost.
MissSaved(m) ==
    /\ m.kind = "save"
    /\ wires' = wires \ {m}
    /\ page' = [page EXCEPT ![m.dev] = Released(m.dev, m.visit)]
    /\ past' = [past EXCEPT !.blurred = @ \cup {m.dev}]
    /\ UNCHANGED <<twoFactorVars, server, user, list, caller, left, part>>

-----------------------------------------------------------------------------
(* The connections.                                                        *)

AnswerList(m) ==
    /\ m.kind = "list" /\ m.told = Nothing /\ m.dev \in live
    /\ wires' = (wires \ {m}) \cup {[m EXCEPT !.told = linked]}
    /\ UNCHANGED <<twoFactorVars, server, user, page, list, caller, left, part, past>>

\* The buttons stay disabled until the list that an unlinking asks for is there:
\* they are free when no unlinking of this visit is under way.
Freed(d) ==
    [page EXCEPT ![d].unlinking =
        @ /\ \E m \in wires : m.kind = "unlink" /\ m.dev = d /\ m.visit = page[d].visit]

\* The answer is stored and clears the mark, although it may be older.
HearList(m) ==
    /\ m.kind = "list" /\ m.told # Nothing
    /\ wires' = wires \ {m}
    /\ list' = [list EXCEPT ![m.dev] = [rows |-> m.told, stale |-> FALSE]]
    /\ page' = Freed(m.dev)
    /\ UNCHANGED <<twoFactorVars, server, user, caller, left, part, past>>

MissList(m) ==
    /\ m.kind = "list"
    /\ wires' = wires \ {m}
    /\ page' = Freed(m.dev)
    /\ past' = [past EXCEPT !.blurred = @ \cup {m.dev}]
    /\ UNCHANGED <<twoFactorVars, server, user, list, caller, left, part>>

Unlink(d, id) ==
    /\ page[d].at = "settings" /\ list[d].rows # Nothing /\ id \in list[d].rows
    /\ ~page[d].unlinking
    /\ Sent(d)
    /\ page' = [page EXCEPT ![d].unlinking = TRUE]
    /\ wires' = wires \cup {[kind |-> "unlink", dev |-> d, visit |-> page[d].visit,
                             id |-> id, at |-> "sent"]}
    /\ UNCHANGED <<twoFactorVars, server, user, list, caller, part, past>>

DeleteConnection(m) ==
    /\ m.kind = "unlink" /\ m.at = "sent" /\ m.dev \in live
    /\ linked' = linked \ {m.id}
    /\ wires' = (wires \ {m}) \cup {[m EXCEPT !.at = "ok"]}
    /\ UNCHANGED <<twoFactorVars, profile, members, live, user, page, list, caller, left,
                   part, past>>

Clickable(m) ==
    [page EXCEPT ![m.dev].unlinking = @ /\ page[m.dev].visit # m.visit]

\* The page was left, and an answer that still has the connection is under way.
Overtaken(d, id) ==
    /\ page[d].at # "settings"
    /\ \E m \in wires : m.kind = "list" /\ m.dev = d /\ m.told # Nothing /\ id \in m.told

\* Mutant: the list is fetched again where it is shown, and not marked.
HearUnlinkedRefetch(m) ==
    /\ m.kind = "unlink" /\ m.at = "ok"
    /\ wires' = (IF page[m.dev].at = "settings" THEN FetchList(m.dev) ELSE wires) \ {m}
    /\ page' = Freed(m.dev)
    /\ past' = [past EXCEPT !.gone[m.dev] = IF Overtaken(m.dev, m.id) THEN @
                                           ELSE @ \cup ({m.id} \ linked)]
    /\ UNCHANGED <<twoFactorVars, server, user, list, caller, left, part>>

\* The list, which was there to be clicked on, is invalidated: marked, and fetched
\* again if it is on the page, an answer that is under way being dropped.  When
\* the page was left nothing is fetched, and the answer is kept.  "gone" is
\* history.
HearUnlinked(m) ==
    /\ m.kind = "unlink" /\ m.at = "ok"
    /\ wires' = (IF page[m.dev].at = "settings" THEN FetchList(m.dev) ELSE wires) \ {m}
    /\ page' = Freed(m.dev)
    /\ list' = [list EXCEPT ![m.dev].stale = TRUE]
    /\ past' = [past EXCEPT !.gone[m.dev] = IF Overtaken(m.dev, m.id) THEN @
                                           ELSE @ \cup ({m.id} \ linked)]
    /\ UNCHANGED <<twoFactorVars, server, user, caller, left, part>>

MissUnlinked(m) ==
    /\ m.kind = "unlink"
    /\ wires' = wires \ {m}
    /\ page' = Clickable(m)
    /\ UNCHANGED <<twoFactorVars, server, user, list, caller, left, part, past>>

\* Over the provider's site, which may refuse, and back: the page is loaded
\* afresh.  Bound: an answer to Unlink is waited for before.
Link(d, id) ==
    /\ part = "connections" /\ page[d].at = "settings"
    /\ IF list[d].rows = Nothing THEN ~Loading(d) ELSE id \notin list[d].rows
    /\ ~\E m \in wires : m.kind = "unlink" /\ m.dev = d
    /\ Sent(d)
    /\ linked' \in {linked, linked \cup {id}}
    /\ user' = [user EXCEPT ![d] = Nothing]
    /\ page' = [page EXCEPT ![d] = Blank("loading", @.visit)]
    /\ list' = [list EXCEPT ![d] = NoList]
    /\ wires' = {m \in wires : m.dev # d} \cup {Refresh(d, "mount", 0)}
    /\ past' = [past EXCEPT !.gone = [e \in Devices |-> IF e = d THEN {} ELSE @[e] \ {id}]]
    /\ UNCHANGED <<twoFactorVars, profile, members, live, caller, part>>

-----------------------------------------------------------------------------
(* The second factor and the login form.                                   *)

Heard(c) == caller' = [caller EXCEPT ![c] = Free]

\* The codes of the setup that is shown are kept until the answer.
Send(d, c, kind, code, token) ==
    /\ Ask(c, kind, code, token)
    /\ caller' = [caller EXCEPT ![c] = [dev |-> d, visit |-> page[d].visit,
                                       told |-> Nothing, batch |-> page[d].factor.offered]]
    /\ page' = [page EXCEPT ![d].busy = TRUE]
    /\ past' = [past EXCEPT !.calm = @ /\ ~\E b \in Calls \ {c} :
                                           AtWork(b) /\ {calls[b].kind, kind} \subseteq Changing]
    /\ UNCHANGED <<server, user, list, wires, left, part>>

\* The authenticator knows every secret that a setup has answered with.
Scanned == {c \in Calls : calls[c].kind = "setup" /\ calls[c].at = "ok"}
Digits == {DigitsOf(c) : c \in Scanned}
Noted == UNION {Generated(c) : c \in {b \in Calls : calls[b].kind \in {"setup", "renew"}
                                                    /\ calls[b].at = "ok"}}

Section(d, step) ==
    part = "factor" /\ page[d].at = "settings" /\ ~page[d].busy /\ page[d].factor.step = step

Setup(d, c) == Section(d, "idle") /\ ~page[d].factor.on /\ Send(d, c, "setup", NoCall, NoCall)

Enable(d, c) ==
    Section(d, "setup") /\ \E code \in Digits : Send(d, c, "enable", code, NoCall)

\* The forms to switch off and to renew the codes are shown together.
DisableOrRenew(d, c) ==
    /\ Section(d, "idle") /\ page[d].factor.on
    /\ \E kind \in {"disable", "renew"}, code \in Digits : Send(d, c, kind, code, NoCall)

\* Neither is disabled while a request is under way.
CancelSetup(d) ==
    /\ page[d].factor.step = "setup"
    /\ page' = [page EXCEPT ![d].factor = [@ EXCEPT !.step = "idle", !.offered = NoCall]]
    /\ UNCHANGED <<twoFactorVars, server, user, list, wires, caller, left, part, past>>

CodesSaved(d) ==
    /\ page[d].factor.step = "codes"
    /\ page' = [page EXCEPT ![d].factor = [@ EXCEPT !.step = "idle", !.shown = NoCall]]
    /\ UNCHANGED <<twoFactorVars, server, user, list, wires, caller, left, part, past>>

Form(d) == part = "factor" /\ page[d].at = "login" /\ ~page[d].busy

LogIn(d, c) == Form(d) /\ page[d].token = NoCall /\ Send(d, c, "login", NoCall, NoCall)

Verify(d, c) ==
    /\ Form(d) /\ page[d].token \in Calls
    /\ \E code \in Digits \cup Noted : Send(d, c, "verify", code, page[d].token)

BackToPassword(d) ==
    /\ page[d].at = "login" /\ page[d].token # NoCall
    /\ page' = [page EXCEPT ![d].token = NoCall]
    /\ UNCHANGED <<twoFactorVars, server, user, list, wires, caller, left, part, past>>

\* One statement of a call.  The user that a login answers with is the one that
\* its first statement read.  A setup writes the switch as it was, off.
Serve(c) ==
    /\ (calls[c].at = "sent" /\ calls[c].kind \in Changing) => caller[c].dev \in live
    /\ Handle(c)
    /\ caller' = IF calls[c].at = "sent" /\ calls[c].kind \notin Changing
                 THEN [caller EXCEPT ![c].told = Me] ELSE caller
    /\ past' = [past EXCEPT
          !.writer = IF calls[c].at = "write" /\ calls[c].kind # "setup" THEN caller[c].dev ELSE @,
          !.turner = IF calls[c].at = "write" THEN <<caller[c].dev, caller[c].visit>> ELSE @,
          !.renewer = IF calls[c].at = "purge" THEN caller[c].dev ELSE @,
          !.used = IF calls[c].at = "use" THEN @ \cup {calls[c].code} ELSE @]
    /\ UNCHANGED <<server, user, page, list, wires, left, part>>

\* "blurred" are the devices that do not know what came of a request.
ServeFails(c) ==
    /\ CallFails(c)
    /\ past' = [past EXCEPT !.blurred =
                  IF calls[c].at \in {"purge", "insert"} THEN @ \cup {caller[c].dev} ELSE @]
    /\ UNCHANGED <<server, user, page, list, wires, caller, left, part>>

TokenRunsOut(c) ==
    /\ TokenExpires(c)
    /\ UNCHANGED <<server, user, page, list, wires, caller, left, part, past>>

\* Mutant: the switch stays where it was.
ShownStillOn(f, c) ==
    IF calls[c].at = "refused" THEN f
    ELSE CASE calls[c].kind = "setup"   -> [f EXCEPT !.step = "setup", !.offered = c]
           [] calls[c].kind = "enable"  -> [on |-> TRUE, step |-> "codes", offered |-> NoCall,
                                            shown |-> caller[c].batch]
           [] calls[c].kind = "disable" -> f
           [] calls[c].kind = "renew"   -> [f EXCEPT !.step = "codes", !.shown = c]

\* What the section shows after an answer.  A refusal changes nothing else.
Shown(f, c) ==
    IF calls[c].at = "refused" THEN f
    ELSE CASE calls[c].kind = "setup"   -> [f EXCEPT !.step = "setup", !.offered = c]
           [] calls[c].kind = "enable"  -> [on |-> TRUE, step |-> "codes", offered |-> NoCall,
                                            shown |-> caller[c].batch]
           [] calls[c].kind = "disable" -> [f EXCEPT !.on = FALSE]
           [] calls[c].kind = "renew"   -> [f EXCEPT !.step = "codes", !.shown = c]

\* The section or the login form that has sent the call is still drawn.
There(c) ==
    LET p == page[caller[c].dev]
    IN  /\ p.visit = caller[c].visit
        /\ p.at = IF calls[c].kind \in Changing THEN "settings" ELSE "login"

\* A section that was left takes no notice, but the user is still refreshed.
HearChange(c) ==
    /\ Waits(c) /\ calls[c].kind \in Changing /\ calls[c].at \in Over
    /\ LET d == caller[c].dev
       IN  /\ page' = IF There(c)
                      THEN [page EXCEPT ![d].busy = FALSE, ![d].factor = Shown(@, c)]
                      ELSE page
           /\ IF calls[c].at = "ok" /\ calls[c].kind \in {"enable", "disable"}
              THEN /\ wires' = wires \cup {Refresh(d, "turn", 0)}
                   /\ past' = [past EXCEPT !.blurred = Blurred(d)]
              ELSE UNCHANGED <<wires, past>>
    /\ Heard(c)
    /\ UNCHANGED <<twoFactorVars, server, user, list, left, part>>

\* The cookie comes with the answer.
HearLogin(c) ==
    /\ Waits(c) /\ calls[c].kind \notin Changing /\ calls[c].at = "ok"
    /\ LET d == caller[c].dev
       IN  /\ live' = live \cup {d}
           /\ SetUser(d, caller[c].told, [page[d] EXCEPT !.busy = @ /\ ~There(c)])
    /\ Heard(c)
    /\ UNCHANGED <<twoFactorVars, profile, linked, members, list, wires, left, part, past>>

HearNoLogin(c) ==
    /\ Waits(c) /\ calls[c].kind \notin Changing
    /\ calls[c].at \in {"challenged", "refused"}
    /\ page' = IF There(c)
               THEN [page EXCEPT ![caller[c].dev].busy = FALSE,
                                 ![caller[c].dev].token = IF calls[c].at = "challenged" THEN c ELSE @]
               ELSE page
    /\ Heard(c)
    /\ UNCHANGED <<twoFactorVars, server, user, list, wires, left, part, past>>

\* The connection breaks: the page shows an error, whatever came of the call.
\* Bound: it breaks under the answer.
LoseCall(c) ==
    /\ Waits(c) /\ calls[c].at \in Over
    /\ page' = [page EXCEPT ![caller[c].dev].busy = @ /\ ~There(c)]
    /\ Heard(c)
    /\ past' = [past EXCEPT !.blurred = @ \cup {caller[c].dev}]
    /\ UNCHANGED <<twoFactorVars, server, user, list, wires, left, part>>

-----------------------------------------------------------------------------
(* Registration.                                                           *)

Register(d, name) ==
    /\ page[d].at = "register" /\ ~page[d].saving
    /\ Sent(d)
    /\ page' = [page EXCEPT ![d].saving = TRUE]
    /\ wires' = wires \cup {[kind |-> "register", dev |-> d, name |-> name,
                             role |-> "read_only", at |-> "sent"]}
    /\ UNCHANGED <<twoFactorVars, server, user, list, caller, part, past>>

Usernames == {u.name : u \in members}

CheckUsername(m) ==
    /\ m.kind = "register" /\ m.at = "sent" /\ m.name \notin Usernames
    /\ wires' = (wires \ {m}) \cup {[m EXCEPT !.at = "checked"]}
    /\ UNCHANGED <<twoFactorVars, server, user, page, list, caller, left, part, past>>

\* Mutant: the count includes the user to come.
RoleAfter(count) == IF count = 1 THEN "super_admin" ELSE "read_only"
RoleFor(count) == IF count = 0 THEN "super_admin" ELSE "read_only"

CountUsers(m) ==
    /\ m.kind = "register" /\ m.at = "checked"
    /\ wires' = (wires \ {m}) \cup {[m EXCEPT !.at = "counted",
                                             !.role = RoleFor(Cardinality(members))]}
    /\ UNCHANGED <<twoFactorVars, server, user, page, list, caller, left, part, past>>

\* The username is unique in the table too.
CreateUser(m) ==
    /\ m.kind = "register" /\ m.at = "counted" /\ m.name \notin Usernames
    /\ members' = members \cup {[name |-> m.name, role |-> m.role]}
    /\ wires' = (wires \ {m}) \cup {[m EXCEPT !.at = "created"]}
    /\ UNCHANGED <<twoFactorVars, profile, linked, live, user, page, list, caller, left,
                   part, past>>

\* The session is stored and the answer heard.
HearRegistered(m) ==
    /\ m.kind = "register" /\ m.at = "created"
    /\ live' = live \cup {m.dev}
    /\ wires' = wires \ {m}
    /\ SetUser(m.dev, [name |-> m.name, mail |-> Nothing, totp |-> FALSE],
               [page[m.dev] EXCEPT !.saving = FALSE])
    /\ UNCHANGED <<twoFactorVars, profile, linked, members, list, caller, left, part, past>>

\* Refused, failed at any statement, or lost.
MissRegistered(m) ==
    /\ m.kind = "register"
    /\ wires' = wires \ {m}
    /\ page' = [page EXCEPT ![m.dev].saving = FALSE]
    /\ UNCHANGED <<twoFactorVars, server, user, list, caller, left, part, past>>

-----------------------------------------------------------------------------
Init ==
    /\ TwoFactorInit
    /\ part \in InUse
    /\ enabled => part = "factor" /\ secret = CHOOSE c \in Calls : TRUE
    /\ profile = [name |-> CHOOSE n \in Names : TRUE, mail |-> CHOOSE m \in Mails \ Taken : TRUE,
                  pass |-> FALSE]
    /\ linked \in IF part = "connections" THEN SUBSET Providers ELSE {{}}
    /\ members = {}
    /\ live \in CASE part = "register" -> {{}}
                 [] part = "factor"   -> {{d} : d \in Devices}
                 [] OTHER             -> {Devices}
    /\ user = [d \in Devices |-> Nothing]
    /\ page = [d \in Devices |-> Blank("loading", 0)]
    /\ list = [d \in Devices |-> NoList]
    /\ wires = {Refresh(d, "mount", 0) : d \in Devices}
    /\ caller = [c \in Calls |-> Free]
    /\ left = [d \in Devices |-> Sends[part]]
    /\ past = [writer |-> Nothing, turner |-> Nothing, renewer |-> Nothing, blurred |-> {},
               used |-> {}, calm |-> TRUE, gone |-> [d \in Devices |-> {}]]

\* Bound: the calls are interchangeable, and taken in one order.
Idle == {c \in Calls : calls[c].at = "idle"}
NextCalls == IF Idle = {} THEN {} ELSE {CHOOSE c \in Idle : TRUE}

ByHand(d) ==
    \/ OpenSettings(d) \/ LeaveSettings(d) \/ GoToRegister(d) \/ Logout(d) \/ SessionEnds(d)
    \/ \E name \in Names : TypeProfile(d, "name", name)
    \/ \E mail \in Mails : TypeProfile(d, "mail", mail)
    \/ \E password \in BOOLEAN : SaveProfile(d, password)
    \/ \E id \in Providers : Unlink(d, id) \/ Link(d, id)
    \/ \E c \in NextCalls : Setup(d, c) \/ Enable(d, c) \/ DisableOrRenew(d, c)
                           \/ LogIn(d, c) \/ Verify(d, c)
    \/ CancelSetup(d) \/ CodesSaved(d) \/ BackToPassword(d)
    \/ \E name \in Names : Register(d, name)

OnTheWay(m) ==
    \/ AnswerMe(m) \/ HearMe(m) \/ MissMe(m)
    \/ EndSession(m) \/ HearLogout(m)
    \/ WritePassword(m) \/ WriteFields(m) \/ HearSaved(m) \/ MissSaved(m)
    \/ AnswerList(m) \/ HearList(m) \/ MissList(m)
    \/ DeleteConnection(m) \/ HearUnlinked(m) \/ MissUnlinked(m)
    \/ CheckUsername(m) \/ CountUsers(m) \/ CreateUser(m)
    \/ HearRegistered(m) \/ MissRegistered(m)

OfCall(c) ==
    \/ Serve(c) \/ ServeFails(c) \/ TokenRunsOut(c)
    \/ HearChange(c) \/ HearLogin(c) \/ HearNoLogin(c) \/ LoseCall(c)

Next ==
    \/ \E d \in Devices : ByHand(d)
    \/ \E m \in wires : OnTheWay(m)
    \/ \E c \in Calls : OfCall(c)

Spec == Init /\ [][Next]_vars

-----------------------------------------------------------------------------
(* Properties.                                                             *)

Nobody(d) == ~\E c \in Calls : Waits(c) /\ caller[c].dev = d
Quiet(d) == Nobody(d) /\ ~\E m \in wires : m.dev = d
Clear(d) == d \notin past.blurred

\* When nothing of a device is under way and it was the last to change the
\* account, the user its pages are drawn from is the one that is stored: the
\* saved profile and the switched factor are read back (refreshUser), over
\* reloads, logouts and pages left meanwhile; not claimed when two reads of the
\* user were under way at once.  A connection that the device was told is gone is
\* not on its settings page once the list is not being fetched, unless it was
\* made again, be the page left and opened again before or after the answer; not
\* claimed when that came to a page that was left, with an older list still under
\* way, which is then kept.  Neither is claimed when an answer was lost.
OwnChangesAreShown ==
    \A d \in Devices : Clear(d) =>
        /\ user[d] # Nothing /\ Quiet(d) /\ past.calm /\ past.writer = d => user[d] = Me
        /\ page[d].at = "settings" /\ list[d].rows # Nothing /\ ~Loading(d)
           => past.gone[d] \cap list[d].rows = {}

\* A section that was the last to write the switch, and waits for nothing,
\* shows it as it is stored, although it only ever keeps a copy
\* (useState(initialTotpEnabled)), whatever other devices and logins did before.
OwnSwitchIsSeen ==
    \A d \in Devices :
        /\ page[d].at = "settings" /\ ~page[d].busy /\ Clear(d)
        /\ past.turner = <<d, page[d].visit>>
        => page[d].factor.on = enabled

\* The recovery codes on a screen are the ones that are stored, but for those
\* that have logged in, as long as no other device replaced them and no two
\* changes overlapped: setups that were cancelled, left or repeated, codes shown
\* by the switch although the setup made them, and logins by code in between.
ShownCodesAreStored ==
    \A d \in Devices :
        /\ past.calm /\ Clear(d) /\ past.renewer = d
        /\ page[d].factor.step = "codes"
        => /\ Generated(page[d].factor.shown) \ past.used \subseteq codes
           /\ codes \subseteq Generated(page[d].factor.shown)

\* A profile form that was not redrawn over a changed user sends the fields that
\* were typed into and no other, whatever was saved elsewhere since it was
\* opened.
SavesSendOnlyTyped ==
    \A m \in wires : m.kind = "save" /\ ~m.drift => DOMAIN m.fields \subseteq m.typed

\* However the statements of several first registrations interleave or fail,
\* there is never a user without a super admin.
SomeoneAdministers == members # {} => \E u \in members : u.role = "super_admin"
=============================================================================
