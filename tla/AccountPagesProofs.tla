-------------------------- MODULE AccountPagesProofs --------------------------
(***************************************************************************)
(* Every step of the pages is a step of TwoFactor or leaves the second     *)
(* factor alone, so what TwoFactor promises whatever is asked of it holds  *)
(* of the whole.  The promise is that the second factor is on only with a  *)
(* secret that a code was accepted for; it holds because an EnableTOTP     *)
(* under way has a confirmed secret in hand and writes that one.  Of the   *)
(* registrations it is shown that they never leave the users without an    *)
(* administrator.                                                          *)
(*                                                                         *)
(* Of what the pages show, everything rests on one invariant, Shape: every *)
(* answer under way has somebody to wait for it, who waits in a visit that *)
(* has been, and a section waits for one call at a time.  On it stand the  *)
(* typed fields, the switch, the recovery codes and the user.              *)
(***************************************************************************)
EXTENDS AccountPages, FiniteSetTheorems, TLAPS

-----------------------------------------------------------------------------
(* Types.                                                                  *)

LEMMA UnaskedIsCall ==
    /\ Unasked \in Call
    /\ \A kind \in Kinds, at \in Over : [Unasked EXCEPT !.kind = kind, !.at = at] \in Call
  BY DEF Unasked, Call, Kinds, Changing, Steps, Over

LEMMA GeneratedAreCodes ==
    ASSUME NEW c \in Calls
    PROVE  Generated(c) \subseteq Code
  BY TwoFactorAssumption DEF Generated, Code

\* A call that goes on stays a call.
LEMMA GoesKeepsType ==
    ASSUME TwoFactorTypeOK, NEW c \in Calls, NEW at \in Steps, Goes(c, at)
    PROVE  calls' \in [Calls -> Call]
<1>1. calls \in [Calls -> Call] /\ calls[c] \in Call
  BY DEF TwoFactorTypeOK
<1>2. calls[c].kind \in Kinds
  BY <1>1 DEF Call
<1>3. CASE at \in Over
  <2>1. [Unasked EXCEPT !.kind = calls[c].kind, !.at = at] \in Call
    BY <1>2, <1>3, UnaskedIsCall
  <2> QED
    BY <1>1, <1>3, <2>1 DEF Goes
<1>4. CASE at \notin Over
  <2>1. [calls[c] EXCEPT !.at = at] \in Call
    BY <1>1 DEF Call
  <2> QED
    BY <1>1, <1>4, <2>1 DEF Goes
<1> QED
  BY <1>3, <1>4

\* Who is about to write may, and an EnableTOTP has a confirmed secret in hand.
MayWrite(call, secrets) ==
    call.at = "write" => \/ call.kind \in {"setup", "disable"}
                         \/ call.kind = "enable" /\ call.saw \in secrets

Justified ==
    /\ EnabledSecretIsConfirmed
    /\ \A c \in Calls : MayWrite(calls[c], confirmed)

\* A call that does not go to its write leaves the others' as they were.
LEMMA GoesKeepsJustified ==
    ASSUME TwoFactorTypeOK, Justified,
           NEW c \in Calls, NEW at \in Steps \ {"write"}, Goes(c, at),
           UNCHANGED confirmed
    PROVE  \A b \in Calls : MayWrite(calls'[b], confirmed')
<1> SUFFICES ASSUME NEW b \in Calls
             PROVE  MayWrite(calls'[b], confirmed)
  OBVIOUS
<1>1. calls \in [Calls -> Call] /\ calls[c] \in Call
  BY DEF TwoFactorTypeOK
<1>2. CASE b = c
  <2>1. calls'[c].at = at
    <3>1. CASE at \in Over
      BY <1>1, <3>1 DEF Goes, Unasked
    <3>2. CASE at \notin Over
      BY <1>1, <3>2 DEF Goes, Call
    <3> QED
      BY <3>1, <3>2
  <2> QED
    BY <1>2, <2>1 DEF MayWrite
<1>3. CASE b # c
  BY <1>1, <1>3 DEF Goes, Justified
<1> QED
  BY <1>2, <1>3

-----------------------------------------------------------------------------
(* Steps.                                                                  *)

LEMMA HandleKeepsType ==
    ASSUME TwoFactorTypeOK, Justified, NEW c \in Calls, Handle(c)
    PROVE  TwoFactorTypeOK'
<1>1. calls \in [Calls -> Call] /\ calls[c] \in Call
  BY DEF TwoFactorTypeOK
<1>2. Generated(c) \subseteq Code
  BY GeneratedAreCodes
<1>3. {"write", "purge", "insert", "list", "use", "open", "ok", "challenged", "refused"} \subseteq Steps
  BY DEF Steps, Over
<1>4. CASE ReadForSetup(c)
  BY <1>3, <1>4, GoesKeepsType DEF ReadForSetup, rows, TwoFactorTypeOK
<1>5. CASE ReadForEnable(c)
  <2>1. CASE ~enabled /\ Accepts(secret, calls[c].code)
    <3>1. secret \in Calls
      BY <2>1 DEF Accepts, TwoFactorTypeOK
    <3>2. [calls[c] EXCEPT !.at = "write", !.saw = secret] \in Call
      BY <1>1, <1>3, <3>1 DEF Call
    <3>3. calls' = [calls EXCEPT ![c] = [@ EXCEPT !.at = "write", !.saw = secret]]
      BY <1>5, <2>1 DEF ReadForEnable
    <3>4. calls' \in [Calls -> Call]
      BY <1>1, <3>2, <3>3
    <3> QED
      BY <1>5, <2>1, <3>1, <3>4 DEF ReadForEnable, rows, TwoFactorTypeOK
  <2>2. CASE ~(~enabled /\ Accepts(secret, calls[c].code))
    BY <1>3, <1>5, <2>2, GoesKeepsType DEF ReadForEnable, rows, TwoFactorTypeOK
  <2> QED
    BY <2>1, <2>2
<1>6. CASE ReadForDisable(c)
  BY <1>3, <1>6, GoesKeepsType DEF ReadForDisable, rows, TwoFactorTypeOK
<1>7. CASE ReadForRenew(c)
  BY <1>3, <1>7, GoesKeepsType DEF ReadForRenew, rows, TwoFactorTypeOK
<1>8. CASE ReadForLogin(c)
  BY <1>3, <1>8, GoesKeepsType DEF ReadForLogin, TwoFactorTypeOK
<1>9. CASE ReadForVerify(c)
  BY <1>3, <1>9, GoesKeepsType DEF ReadForVerify, rows, TwoFactorTypeOK
<1>10. CASE WriteSecret(c)
  <2>1. calls' \in [Calls -> Call]
    BY <1>3, <1>10, GoesKeepsType DEF WriteSecret
  <2>2. secret' \in Calls \cup {NoCall} /\ enabled' \in BOOLEAN
    BY <1>1, <1>10 DEF WriteSecret, Writes, Call, TwoFactorTypeOK, Justified, MayWrite
  <2> QED
    BY <1>10, <2>1, <2>2 DEF WriteSecret, TwoFactorTypeOK
<1>11. CASE PurgeCodes(c)
  BY <1>3, <1>11, GoesKeepsType DEF PurgeCodes, TwoFactorTypeOK
<1>12. CASE InsertCodes(c)
  BY <1>2, <1>3, <1>12, GoesKeepsType DEF InsertCodes, TwoFactorTypeOK
<1>13. CASE ListCodes(c)
  BY <1>3, <1>13, GoesKeepsType DEF ListCodes, rows, TwoFactorTypeOK
<1>14. CASE UseCode(c)
  BY <1>3, <1>14, GoesKeepsType DEF UseCode, TwoFactorTypeOK
<1>15. CASE OpenSession(c)
  BY <1>3, <1>15, GoesKeepsType DEF OpenSession, TwoFactorTypeOK
<1> QED
  BY <1>4, <1>5, <1>6, <1>7, <1>8, <1>9, <1>10, <1>11, <1>12, <1>13, <1>14, <1>15 DEF Handle

LEMMA HandleKeepsJustified ==
    ASSUME TwoFactorTypeOK, Justified, NEW c \in Calls, Handle(c)
    PROVE  Justified'
<1>1. calls \in [Calls -> Call] /\ calls[c] \in Call
  BY DEF TwoFactorTypeOK
<1>2. {"purge", "insert", "list", "use", "open", "ok", "challenged", "refused"}
          \subseteq Steps \ {"write"}
  BY DEF Steps, Over
<1>3. ASSUME NEW kind \in {"setup", "disable"}, Goes(c, "write"), UNCHANGED <<rows, confirmed>>,
             calls[c].kind = kind
      PROVE  Justified'
  BY <1>1, <1>3 DEF Goes, Over, Justified, EnabledSecretIsConfirmed, MayWrite, rows, Call
<1>4. ASSUME NEW at \in Steps \ {"write"}, Goes(c, at), UNCHANGED <<secret, enabled, confirmed>>
      PROVE  Justified'
  BY <1>4, GoesKeepsJustified DEF Justified, EnabledSecretIsConfirmed
<1>5. CASE ReadForSetup(c)
  BY <1>2, <1>3, <1>4, <1>5 DEF ReadForSetup, Reads, rows
<1>6. CASE ReadForEnable(c)
  <2>1. CASE ~enabled /\ Accepts(secret, calls[c].code)
    <3>1. calls' = [calls EXCEPT ![c] = [@ EXCEPT !.at = "write", !.saw = secret]]
      BY <1>6, <2>1 DEF ReadForEnable
    <3>2. calls'[c].saw = secret
      BY <1>1, <3>1 DEF Call
    <3>3. confirmed' = confirmed \cup {secret} /\ UNCHANGED <<secret, enabled>>
      BY <1>6, <2>1 DEF ReadForEnable, rows
    <3>4. \A b \in Calls \ {c} : calls'[b] = calls[b]
      BY <1>1, <3>1
    <3>5. calls'[c].kind = "enable"
      BY <1>1, <1>6, <3>1 DEF Call, ReadForEnable, Reads
    <3> QED
      BY <3>2, <3>3, <3>4, <3>5 DEF Justified, EnabledSecretIsConfirmed, MayWrite
  <2>2. CASE ~(~enabled /\ Accepts(secret, calls[c].code))
    BY <1>2, <1>4, <1>6, <2>2 DEF ReadForEnable, rows
  <2> QED
    BY <2>1, <2>2
<1>7. CASE ReadForDisable(c)
  BY <1>2, <1>3, <1>4, <1>7 DEF ReadForDisable, Reads, rows
<1>8. CASE ReadForRenew(c)
  BY <1>2, <1>4, <1>8 DEF ReadForRenew, rows
<1>9. CASE ReadForLogin(c)
  BY <1>2, <1>4, <1>9 DEF ReadForLogin
<1>10. CASE ReadForVerify(c)
  BY <1>2, <1>4, <1>10 DEF ReadForVerify, rows
<1>11. CASE WriteSecret(c)
  <2>1. EnabledSecretIsConfirmed'
    BY <1>11 DEF WriteSecret, Writes, Justified, EnabledSecretIsConfirmed, MayWrite
  <2> QED
    BY <1>2, <1>11, <2>1, GoesKeepsJustified DEF WriteSecret, Justified
<1>12. CASE PurgeCodes(c)
  BY <1>2, <1>4, <1>12 DEF PurgeCodes
<1>13. CASE InsertCodes(c)
  BY <1>2, <1>4, <1>13 DEF InsertCodes
<1>14. CASE ListCodes(c)
  BY <1>2, <1>4, <1>14 DEF ListCodes, rows
<1>15. CASE UseCode(c)
  BY <1>2, <1>4, <1>15 DEF UseCode
<1>16. CASE OpenSession(c)
  BY <1>2, <1>4, <1>16 DEF OpenSession
<1> QED
  BY <1>5, <1>6, <1>7, <1>8, <1>9, <1>10, <1>11, <1>12, <1>13, <1>14, <1>15, <1>16 DEF Handle

LEMMA TwoFactorStep ==
    ASSUME TwoFactorTypeOK, Justified, [TwoFactorNext]_twoFactorVars
    PROVE  TwoFactorTypeOK' /\ Justified'
<1>1. calls \in [Calls -> Call]
  BY DEF TwoFactorTypeOK
<1>2. CASE UNCHANGED twoFactorVars
  BY <1>2 DEF twoFactorVars, TwoFactorTypeOK, Justified, EnabledSecretIsConfirmed
<1>3. ASSUME NEW c \in Calls, NEW kind \in Kinds, NEW code \in Code \cup {NoCall},
             NEW token \in Calls \cup {NoCall}, Ask(c, kind, code, token)
      PROVE  TwoFactorTypeOK' /\ Justified'
  <2> DEFINE asked == [kind |-> kind, code |-> code, token |-> token, at |-> "sent", saw |-> NoCall]
  <2>1. asked \in Call /\ asked.at = "sent"
    BY <1>3 DEF Call, Steps
  <2>2. calls' = [calls EXCEPT ![c] = asked]
    BY <1>3 DEF Ask
  <2> HIDE DEF asked
  <2>3. calls' \in [Calls -> Call] /\ \A b \in Calls : b # c => calls'[b] = calls[b]
    BY <1>1, <2>1, <2>2
  <2>4. calls'[c].at = "sent"
    BY <1>1, <2>1, <2>2
  <2>5. UNCHANGED <<secret, enabled, codes, tokens, confirmed>>
    BY <1>3 DEF Ask, rows
  <2> QED
    BY <2>3, <2>4, <2>5 DEF TwoFactorTypeOK, Justified, EnabledSecretIsConfirmed, MayWrite
<1>4. ASSUME NEW c \in Calls, Handle(c)
      PROVE  TwoFactorTypeOK' /\ Justified'
  BY <1>4, HandleKeepsType, HandleKeepsJustified
<1>5. ASSUME NEW c \in Calls, CallFails(c)
      PROVE  TwoFactorTypeOK' /\ Justified'
  <2>1. "refused" \in Steps \ {"write"}
    BY DEF Steps, Over
  <2>2. Goes(c, "refused") /\ UNCHANGED <<secret, enabled, codes, tokens, confirmed>>
    BY <1>5 DEF CallFails, rows
  <2> QED
    BY <2>1, <2>2, GoesKeepsType, GoesKeepsJustified DEF TwoFactorTypeOK, Justified, EnabledSecretIsConfirmed
<1>6. ASSUME NEW c \in Calls, TokenExpires(c)
      PROVE  TwoFactorTypeOK' /\ Justified'
  BY <1>6 DEF TokenExpires, TwoFactorTypeOK, Justified, EnabledSecretIsConfirmed
<1> QED
  BY <1>2, <1>3, <1>4, <1>5, <1>6 DEF TwoFactorNext

LEMMA TwoFactorStart ==
    ASSUME TwoFactorInit
    PROVE  TwoFactorTypeOK /\ Justified
<1>1. Unasked \in Call /\ Unasked.at = "idle"
  BY UnaskedIsCall DEF Unasked
<1>2. CASE secret = NoCall /\ enabled = FALSE /\ codes = {} /\ confirmed = {}
           /\ calls = [c \in Calls |-> Unasked]
  BY <1>1, <1>2 DEF TwoFactorInit, TwoFactorTypeOK, Justified, EnabledSecretIsConfirmed, MayWrite
<1>3. ASSUME NEW first \in Calls, secret = first, enabled = TRUE, codes = Generated(first),
             confirmed = {first},
             calls = [c \in Calls |-> IF c = first THEN [Unasked EXCEPT !.kind = "setup", !.at = "ok"]
                                      ELSE Unasked]
      PROVE  TwoFactorTypeOK /\ Justified
  <2> DEFINE done == [Unasked EXCEPT !.kind = "setup", !.at = "ok"]
  <2>1. done \in Call
    BY UnaskedIsCall DEF Kinds, Changing, Over
  <2>2. done.at = "ok"
    BY DEF Unasked
  <2>3. calls = [c \in Calls |-> IF c = first THEN done ELSE Unasked]
    BY <1>3
  <2> HIDE DEF done
  <2>4. calls \in [Calls -> Call] /\ \A c \in Calls : calls[c].at # "write"
    BY <1>1, <2>1, <2>2, <2>3
  <2>5. tokens = {}
    BY DEF TwoFactorInit
  <2> QED
    BY <1>3, <2>4, <2>5, GeneratedAreCodes DEF TwoFactorTypeOK, Justified, EnabledSecretIsConfirmed, MayWrite
<1> QED
  BY <1>2, <1>3 DEF TwoFactorInit

-----------------------------------------------------------------------------
(* The pages ask nothing of TwoFactor that its specification does not take *)
(* into account.                                                           *)

LEMMA SendAsks ==
    ASSUME NEW d \in Devices, NEW c \in Calls,
           Setup(d, c) \/ Enable(d, c) \/ DisableOrRenew(d, c) \/ LogIn(d, c) \/ Verify(d, c)
    PROVE  TwoFactorNext
<1>1. Digits \subseteq Code /\ Noted \subseteq Code
  BY GeneratedAreCodes, TwoFactorAssumption DEF Digits, DigitsOf, Noted, Scanned, Code
<1>2. \A kind \in Kinds, code \in Code \cup {NoCall}, token \in Calls \cup {NoCall} :
          Send(d, c, kind, code, token) => TwoFactorNext
  BY DEF Send, TwoFactorNext
<1>3. {"setup", "enable", "disable", "renew", "login", "verify"} \subseteq Kinds
  BY DEF Kinds, Changing
<1> QED
  BY <1>1, <1>2, <1>3 DEF Setup, Enable, DisableOrRenew, LogIn, Verify

LEMMA ByHandAsks ==
    ASSUME NEW d \in Devices, ByHand(d)
    PROVE  [TwoFactorNext]_twoFactorVars
<1>1. NextCalls \subseteq Calls
  BY DEF NextCalls, Idle
<1>2. CASE \E c \in NextCalls : \/ Setup(d, c) \/ Enable(d, c) \/ DisableOrRenew(d, c)
                               \/ LogIn(d, c) \/ Verify(d, c)
  BY <1>1, <1>2, SendAsks
<1>3. CASE OpenSettings(d) \/ LeaveSettings(d) \/ GoToRegister(d) \/ Logout(d) \/ SessionEnds(d)
  BY <1>3 DEF OpenSettings, LeaveSettings, GoToRegister, Logout, SessionEnds
<1>4. CASE \/ \E name \in Names : TypeProfile(d, "name", name) \/ Register(d, name)
           \/ \E mail \in Mails : TypeProfile(d, "mail", mail)
           \/ \E password \in BOOLEAN : SaveProfile(d, password)
  BY <1>4 DEF TypeProfile, Register, SaveProfile
<1>5. CASE \E id \in Providers : Unlink(d, id) \/ Link(d, id)
  BY <1>5 DEF Unlink, Link
<1>6. CASE CancelSetup(d) \/ CodesSaved(d) \/ BackToPassword(d)
  BY <1>6 DEF CancelSetup, CodesSaved, BackToPassword
<1> QED
  BY <1>2, <1>3, <1>4, <1>5, <1>6 DEF ByHand

LEMMA OnTheWayStutters ==
    ASSUME NEW m \in wires, OnTheWay(m)
    PROVE  UNCHANGED twoFactorVars
<1>1. CASE AnswerMe(m) \/ HearMe(m) \/ MissMe(m) \/ EndSession(m) \/ HearLogout(m)
  BY <1>1 DEF AnswerMe, HearMe, MissMe, EndSession, HearLogout
<1>2. CASE WritePassword(m) \/ WriteFields(m) \/ HearSaved(m) \/ MissSaved(m)
  BY <1>2 DEF WritePassword, WriteFields, HearSaved, MissSaved
<1>3. CASE AnswerList(m) \/ HearList(m) \/ MissList(m)
  BY <1>3 DEF AnswerList, HearList, MissList
<1>4. CASE DeleteConnection(m) \/ HearUnlinked(m) \/ MissUnlinked(m)
  BY <1>4 DEF DeleteConnection, HearUnlinked, MissUnlinked
<1>5. CASE \/ CheckUsername(m) \/ CountUsers(m) \/ CreateUser(m)
           \/ HearRegistered(m) \/ MissRegistered(m)
  BY <1>5 DEF CheckUsername, CountUsers, CreateUser, HearRegistered, MissRegistered
<1> QED
  BY <1>1, <1>2, <1>3, <1>4, <1>5 DEF OnTheWay

LEMMA OfCallServes ==
    ASSUME NEW c \in Calls, OfCall(c)
    PROVE  [TwoFactorNext]_twoFactorVars
<1>1. CASE Serve(c) \/ ServeFails(c) \/ TokenRunsOut(c)
  BY <1>1 DEF Serve, ServeFails, TokenRunsOut, TwoFactorNext
<1>2. CASE HearChange(c) \/ HearLogin(c) \/ HearNoLogin(c) \/ LoseCall(c)
  BY <1>2 DEF HearChange, HearLogin, HearNoLogin, LoseCall
<1> QED
  BY <1>1, <1>2 DEF OfCall

\* The pages use the second factor in the ways TwoFactor allows, and in no
\* other: every step of the client and of the other requests is one of its
\* steps or leaves its tables and calls as they are.
THEOREM PagesUseTwoFactor == Spec => TwoFactorSpec
<1>1. Init => TwoFactorInit
  BY DEF Init
<1>2. [Next]_vars => [TwoFactorNext]_twoFactorVars
  <2>1. CASE UNCHANGED vars
    BY <2>1 DEF vars
  <2>2. CASE Next
    BY <2>2, ByHandAsks, OnTheWayStutters, OfCallServes DEF Next
  <2> QED
    BY <2>1, <2>2
<1> QED
  BY <1>1, <1>2, PTL DEF Spec, TwoFactorSpec

\* Whatever is asked of the second factor on any number of devices, and wherever
\* it breaks off, it is on only with a secret that a code was accepted for: a
\* setup in between neither slips its own secret under the switch nor leaves it
\* half on.
THEOREM SecretIsConfirmed == Spec => [](TwoFactorTypeOK /\ EnabledSecretIsConfirmed)
<1>1. TwoFactorInit => TwoFactorTypeOK /\ Justified
  BY TwoFactorStart
<1>2. TwoFactorTypeOK /\ Justified /\ [TwoFactorNext]_twoFactorVars => (TwoFactorTypeOK /\ Justified)'
  BY TwoFactorStep
<1>3. Justified => EnabledSecretIsConfirmed
  BY DEF Justified
<1> QED
  BY <1>1, <1>2, <1>3, PagesUseTwoFactor, PTL DEF TwoFactorSpec

-----------------------------------------------------------------------------
(* Registrations.  One that has counted users, and will not become an      *)
(* administrator, has counted at least one; and users only ever come.      *)

Registration == [kind : {"register"}, dev : Devices, name : Names, role : {"super_admin", "read_only"},
                 at : {"sent", "checked", "counted", "created"}]

Told(m) ==
    /\ "kind" \in DOMAIN m
    /\ m.kind = "register" => m \in Registration
    /\ m.kind = "register" /\ m.at = "counted" /\ m.role = "read_only" => members # {}

Administered == SomeoneAdministers /\ \A m \in wires : Told(m)

\* A message of another request.
Elses(m) == "kind" \in DOMAIN m /\ m.kind # "register"

LEMMA OtherMessages ==
    ASSUME Administered, UNCHANGED members,
           \A m \in wires' : m \in wires \/ Elses(m)
    PROVE  Administered'
  BY DEF Administered, SomeoneAdministers, Told, Elses

LEMMA ByHandAdministered ==
    ASSUME Administered, NEW d \in Devices, ByHand(d)
    PROVE  Administered'
<1>1. CASE OpenSettings(d) \/ LeaveSettings(d) \/ GoToRegister(d) \/ Logout(d) \/ SessionEnds(d)
  BY <1>1, OtherMessages
     DEF OpenSettings, FetchList, LeaveSettings, GoToRegister, Logout, SessionEnds, server, Elses
<1>2. CASE \/ \E name \in Names : TypeProfile(d, "name", name)
           \/ \E mail \in Mails : TypeProfile(d, "mail", mail)
  BY <1>2, OtherMessages DEF TypeProfile, server
<1>3. CASE \E id \in Providers : Unlink(d, id) \/ Link(d, id)
  BY <1>3, OtherMessages DEF Unlink, Link, Refresh, server, Elses
<1>4. CASE \E c \in NextCalls : \/ Setup(d, c) \/ Enable(d, c) \/ DisableOrRenew(d, c)
                               \/ LogIn(d, c) \/ Verify(d, c)
  BY <1>4, OtherMessages DEF Setup, Enable, DisableOrRenew, LogIn, Verify, Send, server
<1>5. CASE CancelSetup(d) \/ CodesSaved(d) \/ BackToPassword(d)
  BY <1>5, OtherMessages DEF CancelSetup, CodesSaved, BackToPassword, server
<1>6. ASSUME NEW name \in Names, Register(d, name)
      PROVE  Administered'
  <2> DEFINE new == [kind |-> "register", dev |-> d, name |-> name, role |-> "read_only", at |-> "sent"]
  <2>1. new \in Registration /\ "kind" \in DOMAIN new /\ new.at = "sent"
    BY DEF Registration
  <2>2. wires' = wires \cup {new} /\ UNCHANGED members
    BY <1>6 DEF Register, server
  <2> HIDE DEF new
  <2> QED
    BY <2>1, <2>2 DEF Administered, SomeoneAdministers, Told
<1>7. ASSUME NEW password \in BOOLEAN, SaveProfile(d, password)
      PROVE  Administered'
  <2>1. PICK fields, typed, drift :
            wires' = wires \cup {[kind |-> "save", dev |-> d, visit |-> page[d].visit,
                                  fields |-> fields, password |-> password, at |-> "sent",
                                  typed |-> typed, drift |-> drift]}
    BY <1>7, Zenon DEF SaveProfile
  <2> QED
    BY <1>7, <2>1, OtherMessages DEF SaveProfile, server, Elses
<1> QED
  BY <1>1, <1>2, <1>3, <1>4, <1>5, <1>6, <1>7 DEF ByHand

LEMMA OnTheWayAdministered ==
    ASSUME Administered, NEW m \in wires, OnTheWay(m)
    PROVE  Administered'
<1>1. "kind" \in DOMAIN m /\ (m.kind = "register" => m \in Registration)
  BY DEF Administered, Told
<1>2. CASE AnswerMe(m) \/ HearMe(m) \/ MissMe(m) \/ EndSession(m) \/ HearLogout(m)
  BY <1>1, <1>2, OtherMessages
     DEF AnswerMe, HearMe, MissMe, EndSession, HearLogout, server, Elses
<1>3. CASE WritePassword(m) \/ WriteFields(m) \/ HearSaved(m) \/ MissSaved(m)
  BY <1>1, <1>3, OtherMessages
     DEF WritePassword, WriteFields, HearSaved, MissSaved, Refresh, server, Elses
<1>4. CASE AnswerList(m) \/ HearList(m) \/ MissList(m)
  BY <1>1, <1>4, OtherMessages DEF AnswerList, HearList, MissList, server, Elses
<1>5. CASE DeleteConnection(m) \/ HearUnlinked(m) \/ MissUnlinked(m)
  BY <1>1, <1>5, OtherMessages
     DEF DeleteConnection, HearUnlinked, MissUnlinked, FetchList, server, Elses
<1>6. CASE CheckUsername(m)
  <2>1. [m EXCEPT !.at = "checked"] \in Registration
    BY <1>1, <1>6 DEF CheckUsername, Registration
  <2>2. [m EXCEPT !.at = "checked"].at = "checked"
    BY <1>1, <1>6 DEF CheckUsername, Registration
  <2> QED
    BY <1>6, <2>1, <2>2 DEF CheckUsername, server, Administered, SomeoneAdministers, Told, Registration
<1>7. CASE CountUsers(m)
  <2> DEFINE role == RoleFor(Cardinality(members))
             counted == [m EXCEPT !.at = "counted", !.role = role]
  <2>1. role \in {"super_admin", "read_only"} /\ (role = "read_only" => members # {})
    BY FS_EmptySet DEF RoleFor
  <2>2. m \in Registration
    BY <1>1, <1>7 DEF CountUsers
  <2> HIDE DEF role
  <2>3. counted \in Registration /\ counted.role = role
    BY <2>1, <2>2 DEF Registration
  <2>4. wires' = (wires \ {m}) \cup {counted} /\ UNCHANGED members
    BY <1>7 DEF CountUsers, server, role
  <2>5. "kind" \in DOMAIN counted
    BY <2>3 DEF Registration
  <2> HIDE DEF counted
  <2>6. Told(counted)
    BY <2>1, <2>3, <2>5 DEF Told
  <2> QED
    BY <2>4, <2>6 DEF Administered, SomeoneAdministers, Told
<1>8. CASE CreateUser(m)
  <2> DEFINE created == [m EXCEPT !.at = "created"]
             member == [name |-> m.name, role |-> m.role]
  <2>1. m \in Registration
    BY <1>1, <1>8 DEF CreateUser
  <2>2. created \in Registration /\ created.at = "created" /\ "kind" \in DOMAIN created
    BY <2>1 DEF Registration
  <2>3. wires' = (wires \ {m}) \cup {created} /\ members' = members \cup {member}
    BY <1>8 DEF CreateUser
  <2>4. m.role = "super_admin" \/ members # {}
    BY <1>8, <2>1 DEF CreateUser, Administered, Told, Registration
  <2>5. SomeoneAdministers'
    BY <2>3, <2>4 DEF Administered, SomeoneAdministers
  <2> HIDE DEF created, member
  <2>6. \A b \in wires' : Told(b)'
    BY <2>2, <2>3 DEF Administered, Told
  <2> QED
    BY <2>5, <2>6 DEF Administered
<1>9. CASE HearRegistered(m) \/ MissRegistered(m)
  BY <1>9, OtherMessages DEF HearRegistered, MissRegistered, server
<1> QED
  BY <1>2, <1>3, <1>4, <1>5, <1>6, <1>7, <1>8, <1>9 DEF OnTheWay

LEMMA OfCallAdministered ==
    ASSUME Administered, NEW c \in Calls, OfCall(c)
    PROVE  Administered'
<1>1. CASE Serve(c) \/ ServeFails(c) \/ TokenRunsOut(c)
  BY <1>1, OtherMessages DEF Serve, ServeFails, TokenRunsOut, server
<1>2. CASE HearChange(c)
  BY <1>2, OtherMessages DEF HearChange, Refresh, server, Elses
<1>3. CASE HearLogin(c) \/ HearNoLogin(c) \/ LoseCall(c)
  BY <1>3, OtherMessages DEF HearLogin, HearNoLogin, LoseCall, server
<1> QED
  BY <1>1, <1>2, <1>3 DEF OfCall

\* Any number of browsers may register the first users at once, and each of
\* their registrations may break off after any statement: there is an
\* administrator as soon as there is a user.
THEOREM SomebodyAdministers == Spec => []SomeoneAdministers
<1>1. Init => Administered
  BY DEF Init, Administered, SomeoneAdministers, Told, Refresh
<1>2. Administered /\ [Next]_vars => Administered'
  <2>1. CASE UNCHANGED vars
    BY <2>1 DEF vars, server, Administered, SomeoneAdministers, Told
  <2>2. CASE Administered /\ Next
    BY <2>2, ByHandAdministered, OnTheWayAdministered, OfCallAdministered DEF Next
  <2> QED
    BY <2>1, <2>2
<1>3. Administered => SomeoneAdministers
  BY DEF Administered
<1> QED
  BY <1>1, <1>2, <1>3, PTL DEF Spec

-----------------------------------------------------------------------------
(* What is on the screens, on the way and in the tables.  "w" is the part  *)
(* that is worked in.                                                      *)

Account == [name : Names, mail : Mails, totp : BOOLEAN]
Newcomer == [name : Names, mail : {Nothing}, totp : {FALSE}]

\* Whom a page is told of.
Person(w) == IF w = "register" THEN Account \cup Newcomer ELSE Account

Fields == {"name", "mail"}
Factor == [on : BOOLEAN, step : {"idle", "setup", "codes"},
           offered : Calls \cup {NoCall}, shown : Calls \cup {NoCall}]
ProfileForm == [name : Names \cup {Nothing}, mail : Mails \cup {Nothing},
                typed : SUBSET Fields, drift : BOOLEAN]
Page == [at : {"loading", "login", "register", "home", "settings"}, visit : Nat,
         busy : BOOLEAN, saving : BOOLEAN, token : Calls \cup {NoCall}, unlinking : BOOLEAN,
         factor : Factor, form : ProfileForm]

\* The page follows the user, the section's step is the one its codes are for,
\* and the profile's form is filled.
SectionFits(f) ==
    /\ (f.step = "setup") = (f.offered \in Calls)
    /\ (f.step = "codes") = (f.shown \in Calls)

PageFits(p, u, w) ==
    /\ SectionFits(p.factor)
    /\ p.at # "settings" => p.factor = NoFactor /\ p.form = NoForm
    /\ p.at \in {"home", "settings"} <=> u # Nothing
    /\ p.at = "settings" => w # "register"
    /\ p.at = "settings" /\ w = "profile" => p.form.name \in Names /\ p.form.mail \in Mails
    /\ p.at = "register" => w = "register"

ClientTypes ==
    /\ user \in [Devices -> Person(part) \cup {Nothing}]
    /\ page \in [Devices -> Page]
    /\ \A d \in Devices : PageFits(page[d], user[d], part)

\* No page goes back to an earlier visit.
MovesOn == \A d \in Devices : page[d].visit <= page'[d].visit

LEMMA BlankFits ==
    ASSUME NEW at \in {"loading", "login", "register", "home"}, NEW visit \in Nat, NEW u, NEW w,
           at = "home" <=> u # Nothing, at = "register" => w = "register"
    PROVE  Blank(at, visit) \in Page /\ PageFits(Blank(at, visit), u, w)
           /\ Blank(at, visit).visit = visit /\ Blank(at, visit).at = at
<1>1. NoFactor \in Factor /\ NoForm \in ProfileForm
  BY DEF NoFactor, NoForm, Factor, ProfileForm
<1>2. SectionFits(NoFactor)
  BY TwoFactorAssumption DEF NoFactor, SectionFits
<1> HIDE DEF NoFactor, NoForm
<1>3. Blank(at, visit) \in Page
  BY <1>1 DEF Blank, Page
<1> QED
  BY <1>2, <1>3 DEF Blank, PageFits

LEMMA OpenedFits ==
    ASSUME NEW u \in Account, u # Nothing, NEW visit \in Nat, part # "register"
    PROVE  Opened(u, visit) \in Page /\ PageFits(Opened(u, visit), u, part)
           /\ Opened(u, visit).visit = visit /\ Opened(u, visit).at = "settings"
           /\ Opened(u, visit).factor.step = "idle" /\ Opened(u, visit).factor.on = u.totp
           /\ Opened(u, visit).busy = FALSE
<1> DEFINE f == [NoFactor EXCEPT !.on = u.totp]
           g == IF part = "profile" THEN [NoForm EXCEPT !.name = u.name, !.mail = u.mail] ELSE NoForm
<1>1. f \in Factor /\ SectionFits(f) /\ f.step = "idle" /\ f.on = u.totp
  BY TwoFactorAssumption DEF NoFactor, Factor, SectionFits, Account
<1>2. g \in ProfileForm /\ (part = "profile" => g.name \in Names /\ g.mail \in Mails)
  BY DEF NoForm, ProfileForm, Account
<1>3. Opened(u, visit) = [Blank("settings", visit) EXCEPT !.factor = f, !.form = g]
  BY DEF Opened
<1> HIDE DEF f, g
<1>4. Opened(u, visit) = [at |-> "settings", visit |-> visit, busy |-> FALSE, saving |-> FALSE,
                          token |-> NoCall, unlinking |-> FALSE, factor |-> f, form |-> g]
  BY <1>3 DEF Blank
<1>5. Opened(u, visit) \in Page
  BY <1>1, <1>2, <1>4 DEF Page
<1> QED
  BY <1>1, <1>2, <1>4, <1>5 DEF PageFits

\* The routes may replace the page.
LEMMA RoutedFits ==
    ASSUME NEW p \in Page, NEW old, NEW u, NEW w, PageFits(p, old, w)
    PROVE  /\ Routed(p, u) \in Page /\ PageFits(Routed(p, u), u, w)
           /\ Routed(p, u).visit = p.visit
           /\ Routed(p, u).at # "settings" \/ Routed(p, u) = p
<1>1. CASE u = Nothing /\ p.at \in {"home", "settings", "loading"}
  BY <1>1, BlankFits DEF Routed, Page
<1>2. CASE u # Nothing /\ p.at \in {"login", "register", "loading"}
  BY <1>2, BlankFits DEF Routed, Page
<1>3. CASE /\ ~(u = Nothing /\ p.at \in {"home", "settings", "loading"})
           /\ ~(u # Nothing /\ p.at \in {"login", "register", "loading"})
  <2>1. Routed(p, u) = p
    BY <1>3 DEF Routed
  <2>2. p.at \in {"home", "settings"} <=> u # Nothing
    BY <1>3 DEF Page
  <2>3. PageFits(p, u, w)
    BY <2>2 DEF PageFits
  <2> QED
    BY <2>1, <2>3
<1> QED
  BY <1>1, <1>2, <1>3

\* The form of a page may drift from the user.
LEMMA DriftFits ==
    ASSUME NEW p \in Page, NEW old, NEW u, NEW w, PageFits(p, old, w)
    PROVE  LET r == Drifting(p, u, old)
           IN  /\ r \in Page /\ PageFits(r, old, w) /\ r.visit = p.visit /\ r.at = p.at
               /\ r.factor = p.factor /\ r.busy = p.busy
               /\ r.form.name = p.form.name /\ r.form.mail = p.form.mail
               /\ r.form.typed = p.form.typed
               /\ r.form.drift \/ r = p
<1>1. p.form \in ProfileForm /\ p.form.drift \in BOOLEAN
  BY DEF Page, ProfileForm
<1>2. CASE p.form.drift = (p.form.drift \/ (p.form # NoForm /\ u # old))
  <2>1. [p EXCEPT !.form.drift = p.form.drift] = p
    BY <1>1 DEF Page, ProfileForm
  <2>2. Drifting(p, u, old) = p
    BY <1>2, <2>1, Zenon DEF Drifting
  <2> QED
    BY <2>2
<1>3. CASE p.form # NoForm /\ u # old /\ ~p.form.drift
  <2> DEFINE g == [p.form EXCEPT !.drift = TRUE]
             r == [p EXCEPT !.form = g]
  <2>1. g \in ProfileForm /\ g.name = p.form.name /\ g.mail = p.form.mail /\ g.typed = p.form.typed
        /\ g.drift
    BY <1>1 DEF ProfileForm
  <2>2. Drifting(p, u, old) = r
    BY <1>3 DEF Drifting
  <2> HIDE DEF g
  <2>3. r \in Page /\ r.visit = p.visit /\ r.at = p.at /\ r.factor = p.factor /\ r.busy = p.busy
        /\ r.form = g
    BY <2>1 DEF Page
  <2>4. p.at = "settings"
    BY <1>3 DEF PageFits
  <2> HIDE DEF r
  <2>5. PageFits(r, old, w)
    BY <2>1, <2>3, <2>4 DEF PageFits
  <2> QED
    BY <2>1, <2>2, <2>3, <2>5
<1> QED
  BY <1>1, <1>2, <1>3

\* What a page is edited to, with its routing and its section as they were.
LEMMA EditFits ==
    ASSUME ClientTypes, NEW d \in Devices, NEW p \in Page, PageFits(p, user[d], part),
           page[d].visit <= p.visit, page' = [page EXCEPT ![d] = p], UNCHANGED <<user, part>>
    PROVE  ClientTypes' /\ MovesOn
<1>1. page' \in [Devices -> Page] /\ page'[d] = p /\ \A e \in Devices : e # d => page'[e] = page[e]
  BY DEF ClientTypes
<1>2. \A e \in Devices : PageFits(page'[e], user[e], part)
  BY <1>1 DEF ClientTypes
<1>3. \A e \in Devices : page[e].visit \in Nat
  BY DEF ClientTypes, Page
<1>4. MovesOn
  BY <1>1, <1>3 DEF MovesOn
<1> QED
  BY <1>1, <1>2, <1>4 DEF ClientTypes

LEMMA SetUserFits ==
    ASSUME ClientTypes, NEW d \in Devices, NEW u \in Person(part) \cup {Nothing}, NEW p \in Page,
           PageFits(p, user[d], part), p.visit = page[d].visit, SetUser(d, u, p), UNCHANGED part
    PROVE  ClientTypes' /\ MovesOn
<1> DEFINE r == Drifting(p, u, user[d])
           q == Routed(r, u)
<1>1. user' = [user EXCEPT ![d] = u] /\ page' = [page EXCEPT ![d] = q]
  BY DEF SetUser
<1>2. r \in Page /\ PageFits(r, user[d], part) /\ r.visit = p.visit
  BY DriftFits
<1> HIDE DEF r
<1>3. q \in Page /\ PageFits(q, u, part) /\ q.visit = p.visit
  BY <1>2, RoutedFits
<1> HIDE DEF q
<1>4. page' \in [Devices -> Page] /\ page'[d] = q /\ \A e \in Devices : e # d => page'[e] = page[e]
  BY <1>1, <1>3 DEF ClientTypes
<1>5. /\ user' \in [Devices -> Person(part) \cup {Nothing}] /\ user'[d] = u
      /\ \A e \in Devices : e # d => user'[e] = user[e]
  BY <1>1 DEF ClientTypes
<1>6. \A e \in Devices : PageFits(page'[e], user'[e], part)
  BY <1>3, <1>4, <1>5 DEF ClientTypes
<1>7. \A e \in Devices : page[e].visit \in Nat
  BY DEF ClientTypes, Page
<1>8. MovesOn
  BY <1>3, <1>4, <1>7 DEF MovesOn
<1> QED
  BY <1>4, <1>5, <1>6, <1>8 DEF ClientTypes

\* Only what the section or the form does not show is edited.
LEMMA TouchFits ==
    ASSUME ClientTypes, NEW d \in Devices, NEW p \in Page, p.at = page[d].at,
           p.visit = page[d].visit, p.factor = page[d].factor, p.form = page[d].form,
           page' = [page EXCEPT ![d] = p], UNCHANGED <<user, part>>
    PROVE  ClientTypes' /\ MovesOn
<1>1. PageFits(page[d], user[d], part) /\ page[d].visit \in Nat
  BY DEF ClientTypes, Page
<1>2. PageFits(p, user[d], part)
  BY <1>1 DEF PageFits
<1>3. page[d].visit <= p.visit
  BY <1>1
<1> QED
  BY <1>2, <1>3, EditFits

LEMMA SamePages ==
    ASSUME ClientTypes, UNCHANGED <<user, page, part>>
    PROVE  ClientTypes' /\ MovesOn
<1>1. \A d \in Devices : page[d].visit \in Nat
  BY DEF ClientTypes, Page
<1> QED
  BY <1>1 DEF ClientTypes, MovesOn

\* What is heard of the connections touches no more of a page than its buttons.
LEMMA ButtonsOnly ==
    ASSUME NEW m, HearList(m) \/ MissList(m) \/ HearUnlinked(m) \/ MissUnlinked(m)
    PROVE  /\ \E u : page' = [page EXCEPT ![m.dev] = [page[m.dev] EXCEPT !.unlinking =
                                page[m.dev].unlinking /\ u]]
           /\ UNCHANGED <<user, part>>
<1>1. CASE HearList(m) \/ MissList(m) \/ HearUnlinked(m)
  <2>1. page' = Freed(m.dev) /\ UNCHANGED <<user, part>>
    BY <1>1 DEF HearList, MissList, HearUnlinked
  <2> QED
    BY <2>1 DEF Freed
<1>2. CASE MissUnlinked(m)
  BY <1>2 DEF MissUnlinked, Clickable
<1> QED
  BY <1>1, <1>2

\* The messages, each kind with what it holds.
MeMessage(w) == [kind : {"me"}, dev : Devices, why : {"mount", "save", "turn"}, visit : Nat,
                 told : Person(w) \cup {Nothing}]
ListMessage == [kind : {"list"}, dev : Devices, told : (SUBSET Providers) \cup {Nothing}]
LogoutMessage == [kind : {"logout"}, dev : Devices, at : {"sent", "ok"}]
SaveMessage == [kind : {"save"}, dev : Devices, visit : Nat,
                fields : UNION {[S -> Names \cup Mails] : S \in SUBSET Fields},
                password : BOOLEAN, at : {"sent", "fields", "ok"}, typed : SUBSET Fields,
                drift : BOOLEAN]
UnlinkMessage == [kind : {"unlink"}, dev : Devices, visit : Nat, id : Providers, at : {"sent", "ok"}]

MessageFits(m, w) ==
    /\ m \in UNION {MeMessage(w), ListMessage, LogoutMessage, SaveMessage, UnlinkMessage, Registration}
    /\ m.kind = "save" =>
          /\ w = "profile"
          /\ "name" \in DOMAIN m.fields => m.fields["name"] \in Names
          /\ "mail" \in DOMAIN m.fields => m.fields["mail"] \in Mails
    /\ m.kind = "register" => w = "register"

WireTypes == \A m \in wires : MessageFits(m, part)

LEMMA MessageKinds ==
    ASSUME NEW w, NEW m, MessageFits(m, w)
    PROVE  /\ m.dev \in Devices
           /\ m.kind = "me" => m \in MeMessage(w)
           /\ m.kind = "list" => m \in ListMessage
           /\ m.kind = "logout" => m \in LogoutMessage
           /\ m.kind = "save" => m \in SaveMessage
           /\ m.kind = "unlink" => m \in UnlinkMessage
           /\ m.kind = "register" => m \in Registration
  BY DEF MessageFits, MeMessage, ListMessage, LogoutMessage, SaveMessage, UnlinkMessage, Registration

\* The calls, with who waits for them.
Asking(w) == [dev : Devices, visit : Nat, told : Person(w) \cup {Nothing},
              batch : Calls \cup {NoCall}]

CallFits(call, asker, w) ==
    /\ call.at \notin {"idle"} \cup Over => asker # Free
    /\ asker # Free => w = "factor" /\ call.at # "idle"
    /\ call.at = "write" => call.kind \in {"setup", "enable", "disable"}
    /\ call.at = "purge" => call.kind \in {"setup", "disable", "renew"}
    /\ call.at = "insert" => call.kind \in {"setup", "renew"}
    /\ call.at \in {"list", "use", "open"} => call.kind = "verify"
    /\ call.at = "challenged" => call.kind = "login"

CallerTypes ==
    /\ caller \in [Calls -> Asking(part) \cup {Free}]
    /\ \A c \in Calls : CallFits(calls[c], caller[c], part)

\* Nobody waits in a visit to come, or has written in one.
VisitsFit ==
    /\ \A c \in Calls : Waits(c) => caller[c].visit <= page[caller[c].dev].visit
    /\ \A d \in Devices, v \in Nat : past.turner = <<d, v>> => v <= page[d].visit

Past == [writer : Devices \cup {Nothing}, turner : (Devices \X Nat) \cup {Nothing},
         renewer : Devices \cup {Nothing}, blurred : SUBSET Devices,
         used : SUBSET (Code \cup {NoCall}), calm : BOOLEAN, gone : [Devices -> SUBSET Providers]]

Connections == [rows : (SUBSET Providers) \cup {Nothing}, stale : BOOLEAN]
ServerTypes ==
    /\ profile \in [name : Names, mail : Mails, pass : BOOLEAN]
    /\ linked \subseteq Providers /\ live \subseteq Devices
    /\ list \in [Devices -> Connections]

\* The section that is drawn on d waits for c.
Asks(d, c) ==
    /\ Waits(c) /\ calls[c].kind \in Changing /\ caller[c].dev = d
    /\ page[d].at = "settings" /\ caller[c].visit = page[d].visit

\* What a section shows while it waits for a call.
Asked(p, call, asker) ==
    /\ p.busy
    /\ call.kind = "setup" => p.factor.step = "idle" /\ ~p.factor.on
    /\ call.kind = "enable" => p.factor.step \in {"idle", "setup"} /\ asker.batch \in Calls
    /\ call.kind \in {"disable", "renew"} => p.factor.step = "idle"

OneAtATime ==
    \A d \in Devices, c \in Calls : Asks(d, c) =>
        /\ Asked(page[d], calls[c], caller[c])
        /\ \A b \in Calls : Asks(d, b) => b = c

Shape ==
    /\ TwoFactorTypeOK /\ Justified
    /\ ServerTypes /\ ClientTypes /\ WireTypes /\ CallerTypes /\ VisitsFit
    /\ past \in Past
    /\ OneAtATime

LEMMA MeIsAccount ==
    ASSUME Shape
    PROVE  Me \in Account /\ Me \in Person(part) /\ Account \subseteq Person(part)
  BY DEF Shape, ServerTypes, TwoFactorTypeOK, Me, Account, Person

LEMMA AskersWait ==
    ASSUME CallerTypes, NEW c \in Calls
    PROVE  Waits(c) <=> caller[c] \in Asking(part)
  BY AccountPagesAssumption DEF CallerTypes, Waits, Free, Asking

-----------------------------------------------------------------------------
(* The pages keep their types.                                             *)

LEMMA ReleasedFits ==
    ASSUME ClientTypes, NEW d \in Devices, NEW visit
    PROVE  LET p == Released(d, visit)
           IN  /\ p \in Page /\ p.at = page[d].at /\ p.visit = page[d].visit /\ p.busy = page[d].busy
               /\ p.factor = page[d].factor /\ p.form = page[d].form
               /\ PageFits(p, user[d], part)
<1>1. page[d] \in Page /\ PageFits(page[d], user[d], part)
  BY DEF ClientTypes
<1> DEFINE q == [page[d] EXCEPT !.saving = FALSE]
<1>2. /\ q \in Page /\ q.at = page[d].at /\ q.visit = page[d].visit /\ q.busy = page[d].busy
      /\ q.factor = page[d].factor /\ q.form = page[d].form
  BY <1>1 DEF Page
<1> HIDE DEF q
<1>3. PageFits(q, user[d], part)
  BY <1>1, <1>2 DEF PageFits
<1>4. Released(d, visit) \in {q, page[d]}
  BY DEF Released, q
<1> QED
  BY <1>1, <1>2, <1>3, <1>4

LEMMA ShownFits ==
    ASSUME NEW f \in Factor, SectionFits(f), NEW c \in Calls, calls[c].kind \in Changing,
           NEW p, p.factor = f, Asked(p, calls[c], caller[c])
    PROVE  Shown(f, c) \in Factor /\ SectionFits(Shown(f, c))
<1>1. CASE calls[c].at = "refused"
  BY <1>1 DEF Shown
<1>2. CASE calls[c].at # "refused" /\ calls[c].kind = "setup"
  <2>1. f.shown \notin Calls /\ Shown(f, c) = [f EXCEPT !.step = "setup", !.offered = c]
    BY <1>2 DEF Shown, Asked, SectionFits
  <2> QED
    BY <2>1 DEF Factor, SectionFits
<1>3. CASE calls[c].at # "refused" /\ calls[c].kind = "enable"
  <2>1. Shown(f, c) = [on |-> TRUE, step |-> "codes", offered |-> NoCall, shown |-> caller[c].batch]
    BY <1>3 DEF Shown
  <2> QED
    BY <1>3, <2>1, TwoFactorAssumption DEF Factor, SectionFits, Asked
<1>4. CASE calls[c].at # "refused" /\ calls[c].kind = "disable"
  <2>1. Shown(f, c) = [f EXCEPT !.on = FALSE]
    BY <1>4 DEF Shown
  <2> QED
    BY <2>1 DEF Factor, SectionFits
<1>5. CASE calls[c].at # "refused" /\ calls[c].kind = "renew"
  <2>1. f.offered \notin Calls /\ Shown(f, c) = [f EXCEPT !.step = "codes", !.shown = c]
    BY <1>5 DEF Shown, Asked, SectionFits
  <2> QED
    BY <2>1 DEF Factor, SectionFits
<1> QED
  BY <1>1, <1>2, <1>3, <1>4, <1>5 DEF Changing

LEMMA ByHandPages ==
    ASSUME Shape, NEW d \in Devices, ByHand(d)
    PROVE  ClientTypes' /\ MovesOn
<1>1. ClientTypes /\ page[d] \in Page /\ PageFits(page[d], user[d], part)
      /\ user[d] \in Person(part) \cup {Nothing}
  BY DEF Shape, ClientTypes
<1>2. CASE OpenSettings(d)
  <2> DEFINE p == Opened(user[d], page[d].visit + 1)
  <2>1. page[d].at = "home" /\ part # "register" /\ page' = [page EXCEPT ![d] = p]
        /\ UNCHANGED <<user, part>>
    BY <1>2 DEF OpenSettings
  <2>2. user[d] # Nothing
    BY <1>1, <2>1 DEF PageFits
  <2>3. user[d] \in Account
    BY <1>1, <2>1, <2>2 DEF Person
  <2>4. page[d].visit \in Nat /\ page[d].visit + 1 \in Nat
    BY <1>1 DEF Page
  <2>5. p \in Page /\ PageFits(p, user[d], part) /\ p.visit = page[d].visit + 1
    BY <2>1, <2>2, <2>3, <2>4, OpenedFits
  <2> HIDE DEF p
  <2>6. page[d].visit <= p.visit
    BY <2>4, <2>5
  <2> QED
    BY <1>1, <2>1, <2>5, <2>6, EditFits
<1>3. CASE LeaveSettings(d) \/ GoToRegister(d)
  <2>1. PICK at \in {"home", "register"} :
           /\ page' = [page EXCEPT ![d] = Blank(at, page[d].visit)] /\ UNCHANGED <<user, part>>
           /\ at = "home" => page[d].at = "settings"
           /\ at = "register" => page[d].at = "login" /\ part = "register"
    BY <1>3 DEF LeaveSettings, GoToRegister
  <2>2. at = "home" <=> user[d] # Nothing
    BY <1>1, <2>1 DEF PageFits
  <2>3. page[d].visit \in Nat
    BY <1>1 DEF Page
  <2> DEFINE p == Blank(at, page[d].visit)
  <2>4. p \in Page /\ PageFits(p, user[d], part) /\ p.visit = page[d].visit
    BY SMTT(60), <2>1, <2>2, <2>3, BlankFits
  <2>5. page' = [page EXCEPT ![d] = p] /\ UNCHANGED <<user, part>>
    BY <2>1
  <2> HIDE DEF p
  <2>6. page[d].visit <= p.visit
    BY <2>3, <2>4
  <2> QED
    BY <1>1, <2>4, <2>5, <2>6, EditFits
<1>4. CASE Logout(d) \/ SessionEnds(d)
  BY <1>1, <1>4, SamePages DEF Logout, SessionEnds, server
<1>5. ASSUME NEW field \in Fields, NEW value, TypeProfile(d, field, value),
             field = "name" => value \in Names, field = "mail" => value \in Mails
      PROVE  ClientTypes' /\ MovesOn
  <2> DEFINE g == [page[d].form EXCEPT ![field] = value, !.typed = @ \cup {field}]
             p == [page[d] EXCEPT !.form = g]
  <2>1. page' = [page EXCEPT ![d] = p] /\ UNCHANGED <<user, part>> /\ page[d].at = "settings"
        /\ part = "profile"
    BY <1>5 DEF TypeProfile
  <2>2. page[d].form \in ProfileForm /\ page[d].form.name \in Names /\ page[d].form.mail \in Mails
    BY <1>1, <2>1 DEF Page, PageFits
  <2>3. g \in ProfileForm /\ g.name \in Names /\ g.mail \in Mails
    <3>1. CASE field = "name"
      BY <1>5, <2>2, <3>1 DEF ProfileForm, Fields
    <3>2. CASE field = "mail"
      BY <1>5, <2>2, <3>2 DEF ProfileForm, Fields
    <3> QED
      BY <3>1, <3>2 DEF Fields
  <2> HIDE DEF g
  <2>4. p \in Page /\ p.at = page[d].at /\ p.visit = page[d].visit /\ p.factor = page[d].factor
        /\ p.form = g
    BY <1>1, <2>3 DEF Page
  <2> HIDE DEF p
  <2>5. PageFits(p, user[d], part)
    BY <1>1, <2>1, <2>3, <2>4 DEF PageFits
  <2>6. page[d].visit \in Nat
    BY <1>1 DEF Page
  <2>7. page[d].visit <= p.visit
    BY <2>4, <2>6
  <2> QED
    BY <1>1, <2>1, <2>4, <2>5, <2>7, EditFits
<1>6. CASE (\E password \in BOOLEAN : SaveProfile(d, password)) \/ (\E name \in Names : Register(d, name))
  <2> DEFINE p == [page[d] EXCEPT !.saving = TRUE]
  <2>1. page' = [page EXCEPT ![d] = p] /\ UNCHANGED <<user, part>>
    BY <1>6 DEF SaveProfile, Register
  <2>2. p \in Page /\ p.at = page[d].at /\ p.visit = page[d].visit /\ p.factor = page[d].factor
        /\ p.form = page[d].form
    BY <1>1 DEF Page
  <2> HIDE DEF p
  <2> QED
    BY <1>1, <2>1, <2>2, TouchFits
<1>7. ASSUME NEW id \in Providers, Unlink(d, id)
      PROVE  ClientTypes' /\ MovesOn
  <2> DEFINE p == [page[d] EXCEPT !.unlinking = TRUE]
  <2>1. page' = [page EXCEPT ![d] = p] /\ UNCHANGED <<user, part>>
    BY <1>7 DEF Unlink
  <2>2. p \in Page /\ p.at = page[d].at /\ p.visit = page[d].visit /\ p.factor = page[d].factor
        /\ p.form = page[d].form
    BY <1>1 DEF Page
  <2> HIDE DEF p
  <2> QED
    BY <1>1, <2>1, <2>2, TouchFits
<1>8. ASSUME NEW id \in Providers, Link(d, id)
      PROVE  ClientTypes' /\ MovesOn
  <2> DEFINE p == Blank("loading", page[d].visit)
  <2>1. page' = [page EXCEPT ![d] = p] /\ user' = [user EXCEPT ![d] = Nothing] /\ UNCHANGED part
    BY <1>8 DEF Link
  <2>2. page[d].visit \in Nat
    BY <1>1 DEF Page
  <2>3. p \in Page /\ PageFits(p, Nothing, part) /\ p.visit = page[d].visit
    BY <2>2, BlankFits
  <2> HIDE DEF p
  <2>4. /\ page' \in [Devices -> Page] /\ page'[d] = p /\ \A e \in Devices : e # d => page'[e] = page[e]
        /\ user' \in [Devices -> Person(part) \cup {Nothing}] /\ user'[d] = Nothing
        /\ \A e \in Devices : e # d => user'[e] = user[e]
    BY <1>1, <2>1, <2>3 DEF ClientTypes
  <2>5. \A e \in Devices : PageFits(page'[e], user'[e], part)
    BY <1>1, <2>3, <2>4 DEF ClientTypes
  <2>6. \A e \in Devices : page[e].visit \in Nat
    BY <1>1 DEF ClientTypes, Page
  <2>7. MovesOn
    BY <2>3, <2>4, <2>6 DEF MovesOn
  <2> QED
    BY <2>1, <2>4, <2>5, <2>7 DEF ClientTypes
<1>9. CASE \E c \in NextCalls : \/ Setup(d, c) \/ Enable(d, c) \/ DisableOrRenew(d, c)
                               \/ LogIn(d, c) \/ Verify(d, c)
  <2> DEFINE p == [page[d] EXCEPT !.busy = TRUE]
  <2>1. page' = [page EXCEPT ![d] = p] /\ UNCHANGED <<user, part>>
    BY <1>9 DEF Setup, Enable, DisableOrRenew, LogIn, Verify, Send
  <2>2. p \in Page /\ p.at = page[d].at /\ p.visit = page[d].visit /\ p.factor = page[d].factor
        /\ p.form = page[d].form
    BY <1>1 DEF Page
  <2> HIDE DEF p
  <2> QED
    BY <1>1, <2>1, <2>2, TouchFits
<1>10. ASSUME NEW f \in Factor, SectionFits(f), page' = [page EXCEPT ![d].factor = f],
              UNCHANGED <<user, part>>, page[d].factor.step # "idle"
       PROVE  ClientTypes' /\ MovesOn
  <2> DEFINE p == [page[d] EXCEPT !.factor = f]
  <2>1. page' = [page EXCEPT ![d] = p]
    BY <1>10
  <2>2. p \in Page /\ p.at = page[d].at /\ p.visit = page[d].visit /\ p.factor = f
        /\ p.form = page[d].form
    BY <1>1, <1>10 DEF Page
  <2>3. page[d].at = "settings"
    BY <1>1, <1>10 DEF PageFits, NoFactor
  <2> HIDE DEF p
  <2>4. PageFits(p, user[d], part)
    BY <1>1, <1>10, <2>2, <2>3 DEF PageFits
  <2>5. page[d].visit \in Nat
    BY <1>1 DEF Page
  <2>6. page[d].visit <= p.visit
    BY <2>2, <2>5
  <2> QED
    BY <1>1, <1>10, <2>1, <2>2, <2>4, <2>6, EditFits
<1>11. CASE CancelSetup(d) \/ CodesSaved(d)
  <2> DEFINE f == [page[d].factor EXCEPT !.step = "idle", !.offered = NoCall]
             g == [page[d].factor EXCEPT !.step = "idle", !.shown = NoCall]
  <2>1. page[d].factor \in Factor /\ SectionFits(page[d].factor)
    BY <1>1 DEF Page, PageFits
  <2>2. CASE CancelSetup(d)
    <3>1. f \in Factor /\ SectionFits(f)
      BY <2>1, <2>2, TwoFactorAssumption DEF CancelSetup, Factor, SectionFits
    <3>2. page' = [page EXCEPT ![d].factor = f] /\ UNCHANGED <<user, part>>
          /\ page[d].factor.step # "idle"
      BY <2>2 DEF CancelSetup
    <3> QED
      BY <1>10, <3>1, <3>2
  <2>3. CASE CodesSaved(d)
    <3>1. g \in Factor /\ SectionFits(g)
      BY <2>1, <2>3, TwoFactorAssumption DEF CodesSaved, Factor, SectionFits
    <3>2. page' = [page EXCEPT ![d].factor = g] /\ UNCHANGED <<user, part>>
          /\ page[d].factor.step # "idle"
      BY <2>3 DEF CodesSaved
    <3> QED
      BY <1>10, <3>1, <3>2
  <2> QED
    BY <1>11, <2>2, <2>3
<1>12. CASE BackToPassword(d)
  <2> DEFINE p == [page[d] EXCEPT !.token = NoCall]
  <2>1. page' = [page EXCEPT ![d] = p] /\ UNCHANGED <<user, part>>
    BY <1>12 DEF BackToPassword
  <2>2. p \in Page /\ p.at = page[d].at /\ p.visit = page[d].visit /\ p.factor = page[d].factor
        /\ p.form = page[d].form
    BY <1>1 DEF Page
  <2> HIDE DEF p
  <2> QED
    BY <1>1, <2>1, <2>2, TouchFits
<1> QED
  BY <1>2, <1>3, <1>4, <1>5, <1>6, <1>7, <1>8, <1>9, <1>11, <1>12 DEF ByHand, Fields

LEMMA OnTheWayPages ==
    ASSUME Shape, NEW m \in wires, OnTheWay(m)
    PROVE  ClientTypes' /\ MovesOn
<1> DEFINE d == m.dev
<1>1. ClientTypes /\ MessageFits(m, part) /\ d \in Devices
  BY MessageKinds DEF Shape, WireTypes
<1>2. page[d] \in Page /\ PageFits(page[d], user[d], part)
  BY <1>1 DEF ClientTypes
<1>3. Nothing \in Person(part) \cup {Nothing}
  OBVIOUS
<1>4. ASSUME NEW visit, page' = [page EXCEPT ![d] = Released(d, visit)], UNCHANGED <<user, part>>
      PROVE  ClientTypes' /\ MovesOn
  BY <1>1, <1>4, ReleasedFits, TouchFits
<1>5. CASE \/ AnswerMe(m) \/ EndSession(m) \/ WritePassword(m) \/ WriteFields(m) \/ HearSaved(m)
           \/ AnswerList(m) \/ DeleteConnection(m)
           \/ CheckUsername(m) \/ CountUsers(m) \/ CreateUser(m)
  <2>1. UNCHANGED <<user, page, part>>
    BY <1>5 DEF AnswerMe, EndSession, WritePassword, WriteFields, HearSaved, AnswerList,
                DeleteConnection, CheckUsername, CountUsers, CreateUser
  <2> QED
    BY <1>1, <2>1, SamePages
<1>6. CASE HearMe(m)
  <2> DEFINE p == IF m.why = "save" THEN Released(d, m.visit) ELSE page[d]
  <2>1. m.told \in Person(part) \cup {Nothing}
    BY <1>1, <1>6, MessageKinds DEF HearMe, MeMessage
  <2>2. SetUser(d, m.told, p) /\ UNCHANGED part
    BY <1>6 DEF HearMe
  <2>3. p \in Page /\ PageFits(p, user[d], part) /\ p.visit = page[d].visit
    BY <1>1, <1>2, ReleasedFits
  <2> HIDE DEF p, d
  <2> QED
    BY <1>1, <2>1, <2>2, <2>3, SetUserFits
<1>7. CASE MissMe(m)
  <2>1. CASE m.why = "mount"
    <3>1. SetUser(d, Nothing, page[d]) /\ UNCHANGED part
      BY <1>7, <2>1 DEF MissMe
    <3> QED
      BY <1>1, <1>2, <1>3, <3>1, SetUserFits
  <2>2. CASE m.why # "mount"
    <3>1. /\ page' = [page EXCEPT ![d] = IF m.why = "save" THEN Released(d, m.visit) ELSE @]
          /\ UNCHANGED <<user, part>>
      BY <1>7, <2>2 DEF MissMe
    <3>2. CASE m.why = "save"
      BY <1>4, <3>1, <3>2
    <3>3. CASE m.why # "save"
      BY <1>1, <1>2, <3>1, <3>3, TouchFits
    <3> QED
      BY <3>2, <3>3
  <2> QED
    BY <2>1, <2>2
<1>8. CASE HearLogout(m)
  <2>1. SetUser(d, Nothing, page[d]) /\ UNCHANGED part
    BY <1>8 DEF HearLogout
  <2> QED
    BY <1>1, <1>2, <1>3, <2>1, SetUserFits
<1>9. CASE MissSaved(m)
  BY <1>4, <1>9 DEF MissSaved
<1>10. CASE HearList(m) \/ MissList(m) \/ HearUnlinked(m) \/ MissUnlinked(m)
  <2>0. PICK u : /\ page' = [page EXCEPT ![d] = [page[d] EXCEPT !.unlinking = page[d].unlinking /\ u]]
                 /\ UNCHANGED <<user, part>>
    BY <1>10, ButtonsOnly
  <2> DEFINE p == [page[d] EXCEPT !.unlinking = page[d].unlinking /\ u]
  <2>1. page' = [page EXCEPT ![d] = p] /\ UNCHANGED <<user, part>>
    BY <2>0
  <2>2. p \in Page /\ p.at = page[d].at /\ p.visit = page[d].visit /\ p.factor = page[d].factor
        /\ p.form = page[d].form
    BY <1>2 DEF Page
  <2> HIDE DEF p, d
  <2> QED
    BY <1>1, <2>1, <2>2, TouchFits
<1>11. CASE HearRegistered(m)
  <2> DEFINE p == [page[d] EXCEPT !.saving = FALSE]
             u == [name |-> m.name, mail |-> Nothing, totp |-> FALSE]
  <2>1. m.name \in Names /\ part = "register"
    BY <1>1, <1>11, MessageKinds DEF HearRegistered, Registration, MessageFits
  <2>2. u \in Person(part) \cup {Nothing}
    BY <2>1 DEF Person, Newcomer
  <2>3. SetUser(d, u, p) /\ UNCHANGED part
    BY <1>11 DEF HearRegistered
  <2>4. p \in Page /\ p.at = page[d].at /\ p.visit = page[d].visit /\ p.factor = page[d].factor
        /\ p.form = page[d].form
    BY <1>2 DEF Page
  <2> HIDE DEF p, d, u
  <2>5. PageFits(p, user[d], part)
    BY <1>2, <2>4 DEF PageFits
  <2> QED
    BY <1>1, <2>2, <2>3, <2>4, <2>5, SetUserFits
<1>12. CASE MissRegistered(m)
  <2> DEFINE p == [page[d] EXCEPT !.saving = FALSE]
  <2>1. page' = [page EXCEPT ![d] = p] /\ UNCHANGED <<user, part>>
    BY <1>12 DEF MissRegistered
  <2>2. p \in Page /\ p.at = page[d].at /\ p.visit = page[d].visit /\ p.factor = page[d].factor
        /\ p.form = page[d].form
    BY <1>2 DEF Page
  <2> HIDE DEF p, d
  <2> QED
    BY <1>1, <2>1, <2>2, TouchFits
<1> QED
  BY <1>5, <1>6, <1>7, <1>8, <1>9, <1>10, <1>11, <1>12 DEF OnTheWay

LEMMA ThereAsks ==
    ASSUME NEW c \in Calls, Waits(c), There(c), calls[c].kind \in Changing
    PROVE  Asks(caller[c].dev, c)
  BY DEF There, Asks

LEMMA OfCallPages ==
    ASSUME Shape, NEW c \in Calls, OfCall(c)
    PROVE  ClientTypes' /\ MovesOn
<1> DEFINE d == caller[c].dev
<1>1. ClientTypes /\ CallerTypes
  BY DEF Shape
<1>2. CASE Serve(c) \/ ServeFails(c) \/ TokenRunsOut(c)
  <2>1. UNCHANGED <<user, page, part>>
    BY <1>2 DEF Serve, ServeFails, TokenRunsOut
  <2> QED
    BY <1>1, <2>1, SamePages
<1> SUFFICES ASSUME Waits(c)
             PROVE  ClientTypes' /\ MovesOn
  BY <1>2 DEF OfCall, HearChange, HearLogin, HearNoLogin, LoseCall
<1>3. caller[c] \in Asking(part) /\ d \in Devices
  BY <1>1, AskersWait DEF Asking
<1>4. page[d] \in Page /\ PageFits(page[d], user[d], part)
  BY <1>1, <1>3 DEF ClientTypes
<1>5. CASE HearChange(c)
  <2>1. UNCHANGED <<user, part>> /\ calls[c].kind \in Changing
    BY <1>5 DEF HearChange
  <2>2. CASE ~There(c)
    <3>1. page' = page
      BY <1>5, <2>2 DEF HearChange
    <3> QED
      BY <1>1, <2>1, <3>1, SamePages
  <2>3. CASE There(c)
    <3> DEFINE f == Shown(page[d].factor, c)
               p == [page[d] EXCEPT !.busy = FALSE, !.factor = f]
    <3>1. Asks(d, c)
      BY <2>1, <2>3, ThereAsks
    <3>2. Asked(page[d], calls[c], caller[c]) /\ page[d].at = "settings"
      BY <1>3, <3>1 DEF Shape, OneAtATime, Asks
    <3>3. page[d].factor \in Factor /\ SectionFits(page[d].factor)
      BY <1>4 DEF Page, PageFits
    <3>4. f \in Factor /\ SectionFits(f)
      BY <2>1, <3>2, <3>3, ShownFits
    <3>5. page' = [page EXCEPT ![d] = p]
      BY <1>5, <2>3 DEF HearChange
    <3> HIDE DEF f, d
    <3>6. p \in Page /\ p.at = page[d].at /\ p.visit = page[d].visit /\ p.factor = f
          /\ p.form = page[d].form
      BY <1>4, <3>4 DEF Page
    <3> HIDE DEF p
    <3>7. PageFits(p, user[d], part)
      BY <1>4, <3>2, <3>4, <3>6 DEF PageFits
    <3>8. page[d].visit \in Nat
      BY <1>4 DEF Page
    <3>9. page[d].visit <= p.visit
      BY <3>6, <3>8
    <3> QED
      BY <1>1, <1>3, <2>1, <3>5, <3>6, <3>7, <3>9, EditFits
  <2> QED
    BY <2>2, <2>3
<1>6. CASE HearLogin(c)
  <2> DEFINE p == [page[d] EXCEPT !.busy = @ /\ ~There(c)]
  <2>1. SetUser(d, caller[c].told, p) /\ UNCHANGED part
    BY <1>6 DEF HearLogin
  <2>2. caller[c].told \in Person(part) \cup {Nothing}
    BY <1>3 DEF Asking
  <2>3. p \in Page /\ p.at = page[d].at /\ p.visit = page[d].visit /\ p.factor = page[d].factor
        /\ p.form = page[d].form
    BY <1>4 DEF Page
  <2> HIDE DEF p, d
  <2>4. PageFits(p, user[d], part)
    BY <1>4, <2>3 DEF PageFits
  <2> QED
    BY <1>1, <1>3, <2>1, <2>2, <2>3, <2>4, SetUserFits
<1>7. CASE HearNoLogin(c)
  <2>1. UNCHANGED <<user, part>>
    BY <1>7 DEF HearNoLogin
  <2>2. CASE ~There(c)
    <3>1. page' = page
      BY <1>7, <2>2 DEF HearNoLogin
    <3> QED
      BY <1>1, <2>1, <3>1, SamePages
  <2>3. CASE There(c)
    <3> DEFINE token == IF calls[c].at = "challenged" THEN c ELSE page[d].token
               p == [page[d] EXCEPT !.busy = FALSE, !.token = token]
    <3>1. page' = [page EXCEPT ![d] = p]
      BY <1>7, <2>3 DEF HearNoLogin
    <3>2. token \in Calls \cup {NoCall}
      BY <1>4 DEF Page
    <3> HIDE DEF token
    <3>3. p \in Page /\ p.at = page[d].at /\ p.visit = page[d].visit /\ p.factor = page[d].factor
          /\ p.form = page[d].form
      BY <1>4, <3>2 DEF Page
    <3> HIDE DEF p, d
    <3> QED
      BY <1>1, <1>3, <2>1, <3>1, <3>3, TouchFits
  <2> QED
    BY <2>2, <2>3
<1>8. CASE LoseCall(c)
  <2> DEFINE p == [page[d] EXCEPT !.busy = @ /\ ~There(c)]
  <2>1. page' = [page EXCEPT ![d] = p] /\ UNCHANGED <<user, part>>
    BY <1>8 DEF LoseCall
  <2>2. p \in Page /\ p.at = page[d].at /\ p.visit = page[d].visit /\ p.factor = page[d].factor
        /\ p.form = page[d].form
    BY <1>4 DEF Page
  <2> HIDE DEF p, d
  <2> QED
    BY <1>1, <1>3, <2>1, <2>2, TouchFits
<1> QED
  BY <1>2, <1>5, <1>6, <1>7, <1>8 DEF OfCall

LEMMA PagesStep ==
    ASSUME Shape, Next
    PROVE  ClientTypes' /\ MovesOn
  BY ByHandPages, OnTheWayPages, OfCallPages DEF Next

LEMMA SamePart ==
    ASSUME Next
    PROVE  UNCHANGED part
<1>1. ASSUME NEW d \in Devices, ByHand(d)
      PROVE  UNCHANGED part
  BY <1>1 DEF ByHand, OpenSettings, LeaveSettings, GoToRegister, Logout, SessionEnds, TypeProfile,
              SaveProfile, Unlink, Link, Setup, Enable, DisableOrRenew, LogIn, Verify, Send,
              CancelSetup, CodesSaved, BackToPassword, Register
<1>2. ASSUME NEW m \in wires, OnTheWay(m)
      PROVE  UNCHANGED part
  BY <1>2 DEF OnTheWay, AnswerMe, HearMe, MissMe, EndSession, HearLogout, WritePassword, WriteFields,
              HearSaved, MissSaved, AnswerList, HearList, MissList, DeleteConnection, HearUnlinked,
              MissUnlinked, CheckUsername, CountUsers, CreateUser, HearRegistered, MissRegistered
<1>3. ASSUME NEW c \in Calls, OfCall(c)
      PROVE  UNCHANGED part
  BY <1>3 DEF OfCall, Serve, ServeFails, TokenRunsOut, HearChange, HearLogin, HearNoLogin, LoseCall
<1> QED
  BY SMTT(60), <1>1, <1>2, <1>3 DEF Next

-----------------------------------------------------------------------------
(* The messages keep their types.                                          *)

LEMMA NewMessagesFit ==
    ASSUME WireTypes, UNCHANGED part,
           \A m \in wires' : m \in wires \/ MessageFits(m, part)
    PROVE  WireTypes'
  BY DEF WireTypes

LEMMA RefreshFits ==
    ASSUME NEW d \in Devices, NEW why \in {"mount", "save", "turn"}, NEW visit \in Nat, NEW w
    PROVE  MessageFits(Refresh(d, why, visit), w)
<1>1. Refresh(d, why, visit) \in MeMessage(w)
  BY DEF Refresh, MeMessage
<1>2. Refresh(d, why, visit).kind = "me"
  BY DEF Refresh
<1> QED
  BY <1>1, <1>2 DEF MessageFits

LEMMA FetchFits ==
    ASSUME WireTypes, NEW d \in Devices, NEW m \in FetchList(d)
    PROVE  m \in wires \/ MessageFits(m, part)
<1> DEFINE fetch == [kind |-> "list", dev |-> d, told |-> Nothing]
<1>1. fetch \in ListMessage /\ fetch.kind = "list"
  BY DEF ListMessage
<1>2. m \in wires \/ m = fetch
  BY DEF FetchList
<1> QED
  BY <1>1, <1>2 DEF MessageFits

LEMMA ByHandMessages ==
    ASSUME Shape, NEW d \in Devices, ByHand(d), UNCHANGED part
    PROVE  WireTypes'
<1>1. WireTypes /\ ClientTypes /\ page[d] \in Page /\ PageFits(page[d], user[d], part)
  BY DEF Shape, ClientTypes
<1>2. CASE OpenSettings(d)
  <2>1. wires' = wires \/ wires' = FetchList(d)
    BY <1>2 DEF OpenSettings
  <2> QED
    BY <1>1, <2>1, FetchFits, NewMessagesFit
<1>3. CASE Logout(d)
  <2> DEFINE n == [kind |-> "logout", dev |-> d, at |-> "sent"]
  <2>1. n \in LogoutMessage /\ n.kind = "logout" /\ wires' = wires \cup {n}
    BY <1>3 DEF Logout, LogoutMessage
  <2>2. MessageFits(n, part)
    BY <2>1 DEF MessageFits
  <2> QED
    BY <1>1, <2>1, <2>2, NewMessagesFit
<1>4. ASSUME NEW password \in BOOLEAN, SaveProfile(d, password)
      PROVE  WireTypes'
  <2> DEFINE f == [field \in Changed(d) |-> page[d].form[field]]
             n == [kind |-> "save", dev |-> d, visit |-> page[d].visit, fields |-> f,
                   password |-> password, at |-> "sent", typed |-> page[d].form.typed,
                   drift |-> page[d].form.drift]
  <2>1. part = "profile" /\ page[d].at = "settings" /\ wires' = wires \cup {n}
    BY <1>4 DEF SaveProfile
  <2>2. page[d].form \in ProfileForm /\ page[d].form.name \in Names /\ page[d].form.mail \in Mails
    BY <1>1, <2>1 DEF Page, PageFits
  <2>3. Changed(d) \in SUBSET Fields
    BY DEF Changed, Fields
  <2>4. \A field \in Changed(d) : page[d].form[field] \in Names \cup Mails
    BY <2>2, <2>3 DEF Fields
  <2>5. f \in [Changed(d) -> Names \cup Mails]
    BY <2>4
  <2>6. f \in UNION {[S -> Names \cup Mails] : S \in SUBSET Fields}
    BY <2>3, <2>5
  <2>7. /\ "name" \in DOMAIN f => f["name"] \in Names
        /\ "mail" \in DOMAIN f => f["mail"] \in Mails
    BY <2>2
  <2> HIDE DEF f
  <2>8. n \in SaveMessage /\ n.kind = "save" /\ n.fields = f
    BY <1>1, <2>2, <2>6 DEF SaveMessage, Page, ProfileForm
  <2> HIDE DEF n
  <2>9. MessageFits(n, part)
    BY <2>1, <2>7, <2>8 DEF MessageFits
  <2> QED
    BY <1>1, <2>1, <2>9, NewMessagesFit
<1>5. ASSUME NEW id \in Providers, Unlink(d, id)
      PROVE  WireTypes'
  <2> DEFINE n == [kind |-> "unlink", dev |-> d, visit |-> page[d].visit, id |-> id, at |-> "sent"]
  <2>1. n \in UnlinkMessage /\ n.kind = "unlink" /\ wires' = wires \cup {n}
    BY <1>1, <1>5 DEF Unlink, UnlinkMessage, Page
  <2>2. MessageFits(n, part)
    BY <2>1 DEF MessageFits
  <2> QED
    BY <1>1, <2>1, <2>2, NewMessagesFit
<1>6. ASSUME NEW id \in Providers, Link(d, id)
      PROVE  WireTypes'
  <2>1. wires' = {m \in wires : m.dev # d} \cup {Refresh(d, "mount", 0)}
    BY <1>6 DEF Link
  <2>2. MessageFits(Refresh(d, "mount", 0), part)
    BY RefreshFits
  <2>3. \A m \in wires' : m \in wires \/ MessageFits(m, part)
    BY <2>1, <2>2
  <2> QED
    BY <1>1, <2>3, NewMessagesFit
<1>7. ASSUME NEW name \in Names, Register(d, name)
      PROVE  WireTypes'
  <2> DEFINE n == [kind |-> "register", dev |-> d, name |-> name, role |-> "read_only", at |-> "sent"]
  <2>1. n \in Registration /\ n.kind = "register" /\ wires' = wires \cup {n}
        /\ page[d].at = "register"
    BY <1>7 DEF Register, Registration
  <2>2. MessageFits(n, part)
    BY <1>1, <2>1 DEF MessageFits, PageFits
  <2> QED
    BY <1>1, <2>1, <2>2, NewMessagesFit
<1>8. CASE wires' = wires
  BY <1>1, <1>8, NewMessagesFit
<1>9. (\E c \in NextCalls : \/ Setup(d, c) \/ Enable(d, c) \/ DisableOrRenew(d, c)
                               \/ LogIn(d, c) \/ Verify(d, c)) => wires' = wires
  BY DEF Setup, Enable, DisableOrRenew, LogIn, Verify, Send
<1>10. \/ LeaveSettings(d) \/ GoToRegister(d) \/ SessionEnds(d)
       \/ \E name \in Names : TypeProfile(d, "name", name)
       \/ \E mail \in Mails : TypeProfile(d, "mail", mail)
       \/ CancelSetup(d) \/ CodesSaved(d) \/ BackToPassword(d)
       => wires' = wires
  BY DEF LeaveSettings, GoToRegister, SessionEnds, TypeProfile, CancelSetup, CodesSaved,
         BackToPassword
<1> QED
  BY <1>2, <1>3, <1>4, <1>5, <1>6, <1>7, <1>8, <1>9, <1>10 DEF ByHand

LEMMA OnTheWayMessages ==
    ASSUME Shape, NEW m \in wires, OnTheWay(m), UNCHANGED part
    PROVE  WireTypes'
<1>1. WireTypes /\ MessageFits(m, part)
  BY DEF Shape, WireTypes
<1>2. ASSUME NEW n, MessageFits(n, part), wires' = (wires \ {m}) \cup {n}
      PROVE  WireTypes'
  BY <1>1, <1>2, NewMessagesFit
<1>3. CASE AnswerMe(m)
  <2> DEFINE n == [m EXCEPT !.told = Me]
  <2>1. m \in MeMessage(part)
    BY <1>1, <1>3, MessageKinds DEF AnswerMe
  <2>2. n \in MeMessage(part) /\ n.kind = "me"
    BY <2>1, MeIsAccount DEF MeMessage
  <2>3. MessageFits(n, part)
    BY <2>2 DEF MessageFits
  <2> QED
    BY <1>2, <1>3, <2>3 DEF AnswerMe
<1>4. CASE EndSession(m)
  <2> DEFINE n == [m EXCEPT !.at = "ok"]
  <2>1. m \in LogoutMessage
    BY <1>1, <1>4, MessageKinds DEF EndSession
  <2>2. n \in LogoutMessage /\ n.kind = "logout"
    BY <2>1 DEF LogoutMessage
  <2>3. MessageFits(n, part)
    BY <2>2 DEF MessageFits
  <2> QED
    BY <1>2, <1>4, <2>3 DEF EndSession
<1>5. CASE WritePassword(m) \/ WriteFields(m)
  <2>1. PICK at \in {"fields", "ok"} : wires' = (wires \ {m}) \cup {[m EXCEPT !.at = at]}
    BY <1>5 DEF WritePassword, WriteFields
  <2> DEFINE n == [m EXCEPT !.at = at]
  <2>2. m \in SaveMessage /\ m.kind = "save"
    BY <1>1, <1>5, MessageKinds DEF WritePassword, WriteFields
  <2>3. n \in SaveMessage /\ n.kind = "save" /\ n.fields = m.fields
    BY <2>2 DEF SaveMessage
  <2> HIDE DEF n
  <2>4. MessageFits(n, part)
    BY <1>1, <2>2, <2>3 DEF MessageFits
  <2> QED
    BY <1>2, <2>1, <2>4 DEF n
<1>6. CASE HearSaved(m)
  <2>1. m \in SaveMessage
    BY <1>1, <1>6, MessageKinds DEF HearSaved
  <2>2. MessageFits(Refresh(m.dev, "save", m.visit), part)
    BY <2>1, RefreshFits DEF SaveMessage
  <2> QED
    BY <1>2, <1>6, <2>2 DEF HearSaved
<1>7. CASE AnswerList(m)
  <2> DEFINE n == [m EXCEPT !.told = linked]
  <2>1. m \in ListMessage
    BY <1>1, <1>7, MessageKinds DEF AnswerList
  <2>2. n \in ListMessage /\ n.kind = "list"
    BY <2>1 DEF ListMessage, Shape, ServerTypes
  <2>3. MessageFits(n, part)
    BY <2>2 DEF MessageFits
  <2> QED
    BY <1>2, <1>7, <2>3 DEF AnswerList
<1>8. CASE DeleteConnection(m)
  <2> DEFINE n == [m EXCEPT !.at = "ok"]
  <2>1. m \in UnlinkMessage
    BY <1>1, <1>8, MessageKinds DEF DeleteConnection
  <2>2. n \in UnlinkMessage /\ n.kind = "unlink"
    BY <2>1 DEF UnlinkMessage
  <2>3. MessageFits(n, part)
    BY <2>2 DEF MessageFits
  <2> QED
    BY <1>2, <1>8, <2>3 DEF DeleteConnection
<1>9. CASE HearUnlinked(m)
  <2>1. m.dev \in Devices /\ (wires' \subseteq FetchList(m.dev) \/ wires' \subseteq wires)
    BY <1>1, <1>9, MessageKinds DEF HearUnlinked
  <2>2. \A n \in wires' : n \in wires \/ MessageFits(n, part)
    BY <1>1, <2>1, FetchFits
  <2> QED
    BY <1>1, <2>2, NewMessagesFit
<1>10. CASE CheckUsername(m) \/ CountUsers(m) \/ CreateUser(m)
  <2>1. m \in Registration /\ m.kind = "register"
    BY <1>1, <1>10, MessageKinds DEF CheckUsername, CountUsers, CreateUser
  <2>2. \A n \in Registration : n.kind = "register" /\ MessageFits(n, part)
    BY <1>1, <2>1 DEF MessageFits, Registration
  <2>3. \A at \in {"checked", "created"} : [m EXCEPT !.at = at] \in Registration
    BY <2>1 DEF Registration
  <2>4. RoleFor(Cardinality(members)) \in {"super_admin", "read_only"}
    BY DEF RoleFor
  <2>5. [m EXCEPT !.at = "counted", !.role = RoleFor(Cardinality(members))] \in Registration
    BY <2>1, <2>4 DEF Registration
  <2> QED
    BY <1>2, <1>10, <2>2, <2>3, <2>5 DEF CheckUsername, CountUsers, CreateUser
<1>11. CASE \/ HearMe(m) \/ MissMe(m) \/ HearLogout(m) \/ MissSaved(m) \/ HearList(m) \/ MissList(m)
            \/ MissUnlinked(m) \/ HearRegistered(m) \/ MissRegistered(m)
  <2>1. wires' = wires \ {m}
    BY <1>11 DEF HearMe, MissMe, HearLogout, MissSaved, HearList, MissList, MissUnlinked,
                HearRegistered, MissRegistered
  <2> QED
    BY <1>1, <2>1, NewMessagesFit
<1> QED
  BY <1>3, <1>4, <1>5, <1>6, <1>7, <1>8, <1>9, <1>10, <1>11 DEF OnTheWay

LEMMA OfCallMessages ==
    ASSUME Shape, NEW c \in Calls, OfCall(c), UNCHANGED part
    PROVE  WireTypes'
<1>1. WireTypes /\ CallerTypes
  BY DEF Shape
<1>2. CASE HearChange(c)
  <2>1. caller[c].dev \in Devices
    BY <1>1, <1>2, AskersWait DEF HearChange, Asking
  <2>2. MessageFits(Refresh(caller[c].dev, "turn", 0), part)
    BY <2>1, RefreshFits
  <2>3. wires' \in {wires, wires \cup {Refresh(caller[c].dev, "turn", 0)}}
    BY <1>2 DEF HearChange
  <2> QED
    BY <1>1, <2>2, <2>3, NewMessagesFit
<1>3. CASE Serve(c) \/ ServeFails(c) \/ TokenRunsOut(c) \/ HearLogin(c) \/ HearNoLogin(c) \/ LoseCall(c)
  <2>1. wires' = wires
    BY <1>3 DEF Serve, ServeFails, TokenRunsOut, HearLogin, HearNoLogin, LoseCall
  <2> QED
    BY <1>1, <2>1, NewMessagesFit
<1> QED
  BY <1>2, <1>3 DEF OfCall

LEMMA MessagesStep ==
    ASSUME Shape, Next
    PROVE  WireTypes'
  BY SamePart, ByHandMessages, OnTheWayMessages, OfCallMessages DEF Next

-----------------------------------------------------------------------------
(* So do the tables and the lists.                                         *)

LEMMA SameTables ==
    ASSUME ServerTypes, UNCHANGED <<profile, linked, live, list>>
    PROVE  ServerTypes'
  BY DEF ServerTypes

LEMMA TablesStep ==
    ASSUME Shape, Next
    PROVE  ServerTypes'
<1>1. ServerTypes /\ WireTypes /\ CallerTypes
  BY DEF Shape
<1>2. ASSUME NEW d \in Devices, ByHand(d)
      PROVE  ServerTypes'
  <2>1. CASE \E id \in Providers : Link(d, id)
    BY <1>1, <2>1 DEF Link, ServerTypes, Connections, NoList
  <2>2. CASE SessionEnds(d)
    BY SMTT(60), <1>1, <2>2 DEF SessionEnds, ServerTypes
  <2>3. CASE \/ OpenSettings(d) \/ LeaveSettings(d) \/ GoToRegister(d) \/ Logout(d)
             \/ \E name \in Names : TypeProfile(d, "name", name) \/ Register(d, name)
             \/ \E mail \in Mails : TypeProfile(d, "mail", mail)
             \/ \E password \in BOOLEAN : SaveProfile(d, password)
             \/ \E id \in Providers : Unlink(d, id)
             \/ CancelSetup(d) \/ CodesSaved(d) \/ BackToPassword(d)
    BY <1>1, <2>3, SameTables
       DEF OpenSettings, LeaveSettings, GoToRegister, Logout, TypeProfile, Register, SaveProfile,
           Unlink, CancelSetup, CodesSaved, BackToPassword, server
  <2>4. CASE \E c \in NextCalls : \/ Setup(d, c) \/ Enable(d, c) \/ DisableOrRenew(d, c)
                                 \/ LogIn(d, c) \/ Verify(d, c)
    BY <1>1, <2>4, SameTables DEF Setup, Enable, DisableOrRenew, LogIn, Verify, Send, server
  <2> QED
    BY <1>2, <2>1, <2>2, <2>3, <2>4 DEF ByHand
<1>3. ASSUME NEW m \in wires, OnTheWay(m)
      PROVE  ServerTypes'
  <2>1. MessageFits(m, part)
    BY <1>1 DEF WireTypes
  <2>2. CASE EndSession(m)
    BY <1>1, <2>2 DEF EndSession, ServerTypes
  <2>3. CASE WritePassword(m)
    <3>1. m.password \in BOOLEAN
      BY <2>1, <2>3, MessageKinds DEF WritePassword, SaveMessage
    <3> QED
      BY <1>1, <2>3, <3>1 DEF WritePassword, ServerTypes
  <2>4. CASE WriteFields(m)
    <3>1. /\ "name" \in DOMAIN m.fields => m.fields["name"] \in Names
          /\ "mail" \in DOMAIN m.fields => m.fields["mail"] \in Mails
      BY <2>1, <2>4 DEF WriteFields, MessageFits
    <3>2. m \in SaveMessage
      BY <2>1, <2>4, MessageKinds DEF WriteFields
    <3>3. DOMAIN m.fields \subseteq {"name", "mail"}
      BY <3>2 DEF SaveMessage, Fields
    <3>4. profile' = [field \in {"name", "mail", "pass"} |->
                        IF field \in DOMAIN m.fields THEN m.fields[field] ELSE profile[field]]
      BY <1>1, <2>4 DEF WriteFields, ServerTypes
    <3>5. profile' \in [name : Names, mail : Mails, pass : BOOLEAN]
      BY <1>1, <3>1, <3>3, <3>4 DEF ServerTypes
    <3> QED
      BY <1>1, <2>4, <3>5 DEF WriteFields, ServerTypes
  <2>5. CASE HearList(m)
    <3>1. m \in ListMessage
      BY <2>1, <2>5, MessageKinds DEF HearList
    <3> QED
      BY <1>1, <2>5, <3>1 DEF HearList, ListMessage, ServerTypes, Connections, server
  <2>6. CASE DeleteConnection(m)
    BY <1>1, <2>6 DEF DeleteConnection, ServerTypes
  <2>7. CASE HearRegistered(m)
    <3>1. m.dev \in Devices
      BY <2>1, MessageKinds
    <3> QED
      BY <1>1, <2>7, <3>1 DEF HearRegistered, ServerTypes
  <2>8. CASE \/ AnswerMe(m) \/ HearMe(m) \/ MissMe(m) \/ HearLogout(m) \/ HearSaved(m) \/ MissSaved(m)
             \/ AnswerList(m) \/ MissList(m) \/ MissUnlinked(m)
             \/ CheckUsername(m) \/ CountUsers(m) \/ CreateUser(m) \/ MissRegistered(m)
    BY <1>1, <2>8, SameTables
       DEF AnswerMe, HearMe, MissMe, HearLogout, HearSaved, MissSaved, AnswerList, MissList,
           MissUnlinked, CheckUsername, CountUsers, CreateUser, MissRegistered, server
  <2>9. CASE HearUnlinked(m)
    BY <1>1, <2>9 DEF HearUnlinked, ServerTypes, Connections, server
  <2> QED
    BY <1>3, <2>2, <2>3, <2>4, <2>5, <2>6, <2>7, <2>8, <2>9 DEF OnTheWay
<1>4. ASSUME NEW c \in Calls, OfCall(c)
      PROVE  ServerTypes'
  <2>1. CASE HearLogin(c)
    <3>1. caller[c].dev \in Devices
      BY <1>1, <2>1, AskersWait DEF HearLogin, Asking
    <3> QED
      BY <1>1, <2>1, <3>1 DEF HearLogin, ServerTypes
  <2>2. CASE Serve(c) \/ ServeFails(c) \/ TokenRunsOut(c) \/ HearChange(c) \/ HearNoLogin(c) \/ LoseCall(c)
    BY <1>1, <2>2, SameTables
       DEF Serve, ServeFails, TokenRunsOut, HearChange, HearNoLogin, LoseCall, server
  <2> QED
    BY <1>4, <2>1, <2>2 DEF OfCall
<1> QED
  BY <1>2, <1>3, <1>4 DEF Next

-----------------------------------------------------------------------------
(* How a call goes on.                                                     *)

LEMMA GoesTo ==
    ASSUME TwoFactorTypeOK, NEW c \in Calls, NEW at \in Steps, Goes(c, at)
    PROVE  /\ calls'[c].at = at /\ calls'[c].kind = calls[c].kind
           /\ \A b \in Calls : b # c => calls'[b] = calls[b]
<1>1. calls \in [Calls -> Call] /\ calls[c] \in Call
  BY DEF TwoFactorTypeOK
<1>2. CASE at \in Over
  BY <1>1, <1>2 DEF Goes, Unasked
<1>3. CASE at \notin Over
  BY <1>1, <1>3 DEF Goes, Call
<1> QED
  BY <1>2, <1>3

\* The step after "at", for each kind of call.
Follows(kind, at, next) ==
    /\ at = "sent" =>
          \/ next = "write" /\ kind \in {"setup", "enable", "disable"}
          \/ next = "purge" /\ kind = "renew"
          \/ next \in {"open", "list"} /\ kind = "verify"
          \/ next \in {"ok", "challenged"} /\ kind = "login"
          \/ next = "refused"
    /\ at = "write" => next = IF kind = "enable" THEN "ok" ELSE "purge"
    /\ at = "purge" => next = IF kind = "disable" THEN "ok" ELSE "insert"
    /\ at = "insert" => next = "ok"
    /\ at = "list" => next \in {"use", "refused"}
    /\ at = "use" => next = "open"
    /\ at = "open" => next \in {"ok", "refused"}

\* What a statement does to the switch and the codes.
Effects(c) ==
    /\ enabled' = IF calls[c].at = "write" THEN calls[c].kind = "enable" ELSE enabled
    /\ calls[c].at = "purge" => codes' = {}
    /\ calls[c].at = "insert" => codes' = codes \cup Generated(c)
    /\ calls[c].at = "use" => codes' \in {codes, codes \ {calls[c].code}}
    /\ calls[c].at \notin {"purge", "insert", "use"} => codes' = codes

Moved(c) ==
    /\ calls[c].at \in {"sent", "write", "purge", "insert", "list", "use", "open"}
    /\ calls'[c].kind = calls[c].kind
    /\ Follows(calls[c].kind, calls[c].at, calls'[c].at)
    /\ calls[c].at = "sent" /\ calls[c].kind = "setup" /\ calls'[c].at = "write" => ~enabled
    /\ \A b \in Calls : b # c => calls'[b] = calls[b]

LEMMA HandleMoves ==
    ASSUME TwoFactorTypeOK, NEW c \in Calls, Handle(c)
    PROVE  Moved(c) /\ Effects(c)
<1>1. calls \in [Calls -> Call] /\ calls[c] \in Call
  BY DEF TwoFactorTypeOK
<1>2. {"write", "purge", "insert", "list", "use", "open", "ok", "challenged", "refused"} \subseteq Steps
  BY DEF Steps, Over
<1>3. ASSUME NEW at \in Steps, Goes(c, at), Follows(calls[c].kind, calls[c].at, at),
             calls[c].at \in {"sent", "write", "purge", "insert", "list", "use", "open"},
             calls[c].at = "sent" /\ calls[c].kind = "setup" /\ at = "write" => ~enabled
      PROVE  Moved(c)
  BY <1>3, GoesTo DEF Moved
<1>4. CASE ReadForSetup(c)
  <2>1. Moved(c)
    <3>1. CASE enabled
      BY <1>2, <1>3, <1>4, <3>1 DEF ReadForSetup, Reads, Follows
    <3>2. CASE ~enabled
      BY <1>2, <1>3, <1>4, <3>2 DEF ReadForSetup, Reads, Follows
    <3> QED
      BY <3>1, <3>2
  <2> QED
    BY <1>4, <2>1 DEF ReadForSetup, Reads, rows, Effects
<1>5. CASE ReadForEnable(c)
  <2>1. Moved(c)
    <3>1. CASE ~enabled /\ Accepts(secret, calls[c].code)
      <4>1. calls' = [calls EXCEPT ![c] = [@ EXCEPT !.at = "write", !.saw = secret]]
        BY <1>5, <3>1 DEF ReadForEnable
      <4>2. calls'[c].at = "write" /\ calls'[c].kind = calls[c].kind
            /\ \A b \in Calls : b # c => calls'[b] = calls[b]
        BY <1>1, <4>1 DEF Call
      <4> QED
        BY <1>5, <4>2 DEF ReadForEnable, Reads, Follows, Moved
    <3>2. CASE ~(~enabled /\ Accepts(secret, calls[c].code))
      BY <1>2, <1>3, <1>5, <3>2 DEF ReadForEnable, Reads, Follows
    <3> QED
      BY <3>1, <3>2
  <2> QED
    BY <1>5, <2>1 DEF ReadForEnable, Reads, rows, Effects
<1>6. CASE ReadForDisable(c)
  <2>1. Moved(c)
    BY <1>2, <1>3, <1>6 DEF ReadForDisable, Reads, Follows
  <2> QED
    BY <1>6, <2>1 DEF ReadForDisable, Reads, rows, Effects
<1>7. CASE ReadForRenew(c)
  <2>1. Moved(c)
    BY <1>2, <1>3, <1>7 DEF ReadForRenew, Reads, Follows
  <2> QED
    BY <1>7, <2>1 DEF ReadForRenew, Reads, rows, Effects
<1>8. CASE ReadForLogin(c)
  <2>1. Moved(c)
    BY <1>2, <1>3, <1>8 DEF ReadForLogin, Reads, Follows
  <2> QED
    BY <1>8, <2>1 DEF ReadForLogin, Reads, Effects
<1>9. CASE ReadForVerify(c)
  <2>1. PICK at \in {"refused", "open", "list"} : Goes(c, at)
    BY <1>9 DEF ReadForVerify
  <2>2. Moved(c)
    BY <1>2, <1>3, <1>9, <2>1 DEF ReadForVerify, Reads, Follows
  <2> QED
    BY <1>9, <2>2 DEF ReadForVerify, Reads, rows, Effects
<1>10. CASE WriteSecret(c)
  <2>1. Moved(c)
    BY <1>2, <1>3, <1>10 DEF WriteSecret, Follows
  <2> QED
    BY <1>10, <2>1 DEF WriteSecret, Writes, Effects
<1>11. CASE PurgeCodes(c)
  <2>1. Moved(c)
    BY <1>2, <1>3, <1>11 DEF PurgeCodes, Follows
  <2> QED
    BY <1>11, <2>1 DEF PurgeCodes, Effects
<1>12. CASE InsertCodes(c)
  <2>1. Moved(c)
    BY <1>2, <1>3, <1>12 DEF InsertCodes, Follows
  <2> QED
    BY <1>12, <2>1 DEF InsertCodes, Effects
<1>13. CASE ListCodes(c)
  <2>1. Moved(c)
    BY <1>2, <1>3, <1>13 DEF ListCodes, Follows
  <2> QED
    BY <1>13, <2>1 DEF ListCodes, rows, Effects
<1>14. CASE UseCode(c)
  <2>1. Moved(c)
    BY <1>2, <1>3, <1>14 DEF UseCode, Follows
  <2> QED
    BY <1>14, <2>1 DEF UseCode, Effects
<1>15. CASE OpenSession(c)
  <2>1. Moved(c)
    BY <1>2, <1>3, <1>15 DEF OpenSession, Follows
  <2> QED
    BY <1>15, <2>1 DEF OpenSession, Effects
<1> QED
  BY <1>4, <1>5, <1>6, <1>7, <1>8, <1>9, <1>10, <1>11, <1>12, <1>13, <1>14, <1>15 DEF Handle

-----------------------------------------------------------------------------
(* The steps that the second factor has no part in.  A page stays, or is   *)
(* left, or the settings are opened anew.                                  *)

Turned(e) ==
    \/ /\ page'[e].at = page[e].at /\ page'[e].visit = page[e].visit
       /\ page'[e].busy = page[e].busy /\ page'[e].factor = page[e].factor
    \/ page'[e].at # "settings"
    \/ /\ page[e].at = "home" /\ page'[e].at = "settings" /\ page'[e].visit = page[e].visit + 1
       /\ page'[e].factor.step = "idle" /\ OpenSettings(e)

Aside ==
    /\ UNCHANGED <<enabled, codes, calls, caller>>
    /\ \A e \in Devices : Turned(e)
    /\ past'.calm = past.calm /\ past'.used = past.used
    /\ past'.turner = past.turner /\ past'.renewer = past.renewer
    /\ past.blurred \subseteq past'.blurred

LEMMA EditTurns ==
    ASSUME ClientTypes, NEW d \in Devices, NEW p, page' = [page EXCEPT ![d] = p],
           \/ p.at # "settings"
           \/ /\ p.at = page[d].at /\ p.visit = page[d].visit
              /\ p.busy = page[d].busy /\ p.factor = page[d].factor
    PROVE  \A e \in Devices : Turned(e)
<1>1. page'[d] = p /\ \A e \in Devices : e # d => page'[e] = page[e]
  BY DEF ClientTypes
<1> QED
  BY <1>1 DEF Turned

LEMMA SamePagesTurn ==
    ASSUME UNCHANGED page
    PROVE  \A e \in Devices : Turned(e)
  BY DEF Turned

LEMMA SetUserTurns ==
    ASSUME ClientTypes, NEW d \in Devices, NEW u, NEW p \in Page, PageFits(p, user[d], part),
           p.at = page[d].at, p.visit = page[d].visit, p.busy = page[d].busy,
           p.factor = page[d].factor, SetUser(d, u, p)
    PROVE  \A e \in Devices : Turned(e)
<1> DEFINE r == Drifting(p, u, user[d])
           q == Routed(r, u)
<1>1. page' = [page EXCEPT ![d] = q]
  BY DEF SetUser
<1>2. r \in Page /\ PageFits(r, user[d], part) /\ r.visit = p.visit /\ r.at = p.at
      /\ r.factor = p.factor /\ r.busy = p.busy
  BY DriftFits
<1> HIDE DEF r
<1>3. q.at # "settings" \/ q = r
  BY <1>2, RoutedFits
<1> HIDE DEF q
<1> QED
  BY <1>1, <1>2, <1>3, EditTurns

\* The history that the second factor has no part in.
LEMMA PastAside ==
    ASSUME past \in Past,
           \/ past' = past
           \/ \E d \in Devices : past' = [past EXCEPT !.blurred = @ \cup {d}]
           \/ \E d \in Devices : past' = [past EXCEPT !.blurred = Blurred(d)]
           \/ \E d \in Devices : past' = [past EXCEPT !.writer = d]
           \/ \E gone \in [Devices -> SUBSET Providers] : past' = [past EXCEPT !.gone = gone]
    PROVE  /\ past' \in Past
           /\ past'.calm = past.calm /\ past'.used = past.used
           /\ past'.turner = past.turner /\ past'.renewer = past.renewer
           /\ past.blurred \subseteq past'.blurred
<1>1. CASE past' = past
  BY <1>1
<1>2. CASE \E d \in Devices : past' = [past EXCEPT !.blurred = @ \cup {d}]
  BY <1>2 DEF Past
<1>3. CASE \E d \in Devices : past' = [past EXCEPT !.blurred = Blurred(d)]
  <2>1. PICK d \in Devices : past' = [past EXCEPT !.blurred = Blurred(d)]
    BY <1>3
  <2>2. Blurred(d) \in SUBSET Devices /\ past.blurred \subseteq Blurred(d)
    BY DEF Blurred, Past
  <2> QED
    BY <2>1, <2>2 DEF Past
<1>4. CASE \E d \in Devices : past' = [past EXCEPT !.writer = d]
  BY <1>4 DEF Past
<1>5. CASE \E gone \in [Devices -> SUBSET Providers] : past' = [past EXCEPT !.gone = gone]
  BY <1>5 DEF Past
<1> QED
  BY <1>1, <1>2, <1>3, <1>4, <1>5

LEMMA ByHandAside ==
    ASSUME Shape, NEW d \in Devices, ByHand(d),
           ~\E c \in NextCalls : \/ Setup(d, c) \/ Enable(d, c) \/ DisableOrRenew(d, c)
                                \/ LogIn(d, c) \/ Verify(d, c),
           ~CancelSetup(d), ~CodesSaved(d)
    PROVE  Aside /\ past' \in Past
<1>1. ClientTypes /\ page[d] \in Page /\ PageFits(page[d], user[d], part) /\ past \in Past
      /\ user[d] \in Person(part) \cup {Nothing}
  BY DEF Shape, ClientTypes
<1>2. CASE OpenSettings(d)
  <2> DEFINE p == Opened(user[d], page[d].visit + 1)
  <2>1. page[d].at = "home" /\ part # "register" /\ page' = [page EXCEPT ![d] = p]
    BY <1>2 DEF OpenSettings
  <2>2. user[d] # Nothing /\ user[d] \in Account
    BY <1>1, <2>1 DEF PageFits, Person
  <2>3. page[d].visit + 1 \in Nat
    BY <1>1 DEF Page
  <2>4. p.at = "settings" /\ p.visit = page[d].visit + 1 /\ p.factor.step = "idle"
    BY <2>1, <2>2, <2>3, OpenedFits
  <2> HIDE DEF p
  <2>5. \A e \in Devices : Turned(e)
    BY <1>1, <1>2, <2>1, <2>4 DEF Turned, ClientTypes
  <2> QED
    BY <1>1, <1>2, <2>5, PastAside DEF OpenSettings, Aside, twoFactorVars
<1>3. CASE LeaveSettings(d) \/ GoToRegister(d)
  <2>1. PICK at \in {"home", "register"} : page' = [page EXCEPT ![d] = Blank(at, page[d].visit)]
    BY <1>3 DEF LeaveSettings, GoToRegister
  <2>2. Blank(at, page[d].visit).at # "settings"
    BY DEF Blank
  <2>3. \A e \in Devices : Turned(e)
    BY <1>1, <2>1, <2>2, EditTurns
  <2> QED
    BY <1>1, <1>3, <2>3, PastAside DEF LeaveSettings, GoToRegister, Aside, twoFactorVars
<1>4. CASE Logout(d) \/ SessionEnds(d)
  BY <1>1, <1>4, PastAside, SamePagesTurn DEF Logout, SessionEnds, Aside, twoFactorVars
<1>5. ASSUME NEW field, NEW value, TypeProfile(d, field, value)
      PROVE  Aside /\ past' \in Past
  <2> DEFINE p == [page[d] EXCEPT !.form[field] = value, !.form.typed = @ \cup {field}]
  <2>1. page' = [page EXCEPT ![d] = p]
    BY <1>5 DEF TypeProfile
  <2>2. p.at = page[d].at /\ p.visit = page[d].visit /\ p.busy = page[d].busy /\ p.factor = page[d].factor
    BY <1>1 DEF Page
  <2> HIDE DEF p
  <2>3. \A e \in Devices : Turned(e)
    BY <1>1, <2>1, <2>2, EditTurns
  <2> QED
    BY <1>1, <1>5, <2>3, PastAside DEF TypeProfile, Aside, twoFactorVars
<1>6. CASE (\E password \in BOOLEAN : SaveProfile(d, password)) \/ (\E name \in Names : Register(d, name))
  <2> DEFINE p == [page[d] EXCEPT !.saving = TRUE]
  <2>1. page' = [page EXCEPT ![d] = p]
    BY <1>6 DEF SaveProfile, Register
  <2>2. p.at = page[d].at /\ p.visit = page[d].visit /\ p.busy = page[d].busy /\ p.factor = page[d].factor
    BY <1>1 DEF Page
  <2> HIDE DEF p
  <2>3. \A e \in Devices : Turned(e)
    BY <1>1, <2>1, <2>2, EditTurns
  <2>4. UNCHANGED <<twoFactorVars, caller, past>>
    BY <1>6 DEF SaveProfile, Register
  <2> QED
    BY <1>1, <2>3, <2>4, PastAside DEF Aside, twoFactorVars
<1>7. ASSUME NEW id \in Providers, Unlink(d, id)
      PROVE  Aside /\ past' \in Past
  <2> DEFINE p == [page[d] EXCEPT !.unlinking = TRUE]
  <2>1. page' = [page EXCEPT ![d] = p]
    BY <1>7 DEF Unlink
  <2>2. p.at = page[d].at /\ p.visit = page[d].visit /\ p.busy = page[d].busy /\ p.factor = page[d].factor
    BY <1>1 DEF Page
  <2> HIDE DEF p
  <2>3. \A e \in Devices : Turned(e)
    BY <1>1, <2>1, <2>2, EditTurns
  <2> QED
    BY <1>1, <1>7, <2>3, PastAside DEF Unlink, Aside, twoFactorVars
<1>8. ASSUME NEW id \in Providers, Link(d, id)
      PROVE  Aside /\ past' \in Past
  <2> DEFINE gone == [e \in Devices |-> IF e = d THEN {} ELSE past.gone[e] \ {id}]
  <2>1. page' = [page EXCEPT ![d] = Blank("loading", page[d].visit)] /\ past' = [past EXCEPT !.gone = gone]
    BY <1>8 DEF Link
  <2>2. Blank("loading", page[d].visit).at # "settings"
    BY DEF Blank
  <2>3. \A e \in Devices : Turned(e)
    BY <1>1, <2>1, <2>2, EditTurns
  <2>4. gone \in [Devices -> SUBSET Providers]
    BY <1>1 DEF Past
  <2> QED
    BY <1>1, <1>8, <2>1, <2>3, <2>4, PastAside DEF Link, Aside, twoFactorVars
<1>9. CASE BackToPassword(d)
  <2> DEFINE p == [page[d] EXCEPT !.token = NoCall]
  <2>1. page' = [page EXCEPT ![d] = p]
    BY <1>9 DEF BackToPassword
  <2>2. p.at = page[d].at /\ p.visit = page[d].visit /\ p.busy = page[d].busy /\ p.factor = page[d].factor
    BY <1>1 DEF Page
  <2> HIDE DEF p
  <2>3. \A e \in Devices : Turned(e)
    BY <1>1, <2>1, <2>2, EditTurns
  <2> QED
    BY <1>1, <1>9, <2>3, PastAside DEF BackToPassword, Aside, twoFactorVars
<1> QED
  BY <1>2, <1>3, <1>4, <1>5, <1>6, <1>7, <1>8, <1>9 DEF ByHand

LEMMA OnTheWayAside ==
    ASSUME Shape, NEW m \in wires, OnTheWay(m)
    PROVE  Aside /\ past' \in Past
<1> DEFINE d == m.dev
<1>1. ClientTypes /\ MessageFits(m, part) /\ d \in Devices /\ past \in Past
  BY MessageKinds DEF Shape, WireTypes
<1>2. page[d] \in Page /\ PageFits(page[d], user[d], part)
  BY <1>1 DEF ClientTypes
<1>3. UNCHANGED <<enabled, codes, calls, caller>>
  <2>1. UNCHANGED caller
    BY DEF OnTheWay, AnswerMe, HearMe, MissMe, EndSession, HearLogout, WritePassword, WriteFields,
           HearSaved, MissSaved, AnswerList, HearList, MissList, DeleteConnection, HearUnlinked,
           MissUnlinked, CheckUsername, CountUsers, CreateUser, HearRegistered, MissRegistered
  <2> QED
    BY <2>1, OnTheWayStutters DEF twoFactorVars
<1>4. \A e \in Devices : Turned(e)
  <2>1. ASSUME NEW visit, page' = [page EXCEPT ![d] = Released(d, visit)]
        PROVE  \A e \in Devices : Turned(e)
    BY <1>1, <2>1, ReleasedFits, EditTurns
  <2>2. CASE \/ AnswerMe(m) \/ EndSession(m) \/ WritePassword(m) \/ WriteFields(m) \/ HearSaved(m)
             \/ AnswerList(m) \/ DeleteConnection(m)
             \/ CheckUsername(m) \/ CountUsers(m) \/ CreateUser(m)
    <3>1. UNCHANGED page
      BY <2>2 DEF AnswerMe, EndSession, WritePassword, WriteFields, HearSaved, AnswerList,
                  DeleteConnection, CheckUsername, CountUsers, CreateUser
    <3> QED
      BY <3>1, SamePagesTurn
  <2>3. CASE HearMe(m)
    <3> DEFINE p == IF m.why = "save" THEN Released(d, m.visit) ELSE page[d]
    <3>1. SetUser(d, m.told, p)
      BY <2>3 DEF HearMe
    <3>2. p \in Page /\ PageFits(p, user[d], part) /\ p.at = page[d].at /\ p.visit = page[d].visit
          /\ p.busy = page[d].busy /\ p.factor = page[d].factor
      BY <1>1, <1>2, ReleasedFits
    <3> HIDE DEF p, d
    <3> QED
      BY <1>1, <3>1, <3>2, SetUserTurns
  <2>4. CASE MissMe(m)
    <3>1. CASE m.why = "mount"
      <4>1. SetUser(d, Nothing, page[d])
        BY <2>4, <3>1 DEF MissMe
      <4> QED
        BY <1>1, <1>2, <4>1, SetUserTurns
    <3>2. CASE m.why # "mount"
      <4>1. page' = [page EXCEPT ![d] = IF m.why = "save" THEN Released(d, m.visit) ELSE @]
        BY <2>4, <3>2 DEF MissMe
      <4>2. CASE m.why = "save"
        BY <2>1, <4>1, <4>2
      <4>3. CASE m.why # "save"
        BY <1>1, <4>1, <4>3, EditTurns
      <4> QED
        BY <4>2, <4>3
    <3> QED
      BY <3>1, <3>2
  <2>5. CASE HearLogout(m)
    <3>1. SetUser(d, Nothing, page[d])
      BY <2>5 DEF HearLogout
    <3> QED
      BY <1>1, <1>2, <3>1, SetUserTurns
  <2>6. CASE MissSaved(m)
    BY <2>1, <2>6 DEF MissSaved
  <2>7. CASE HearList(m) \/ MissList(m) \/ HearUnlinked(m) \/ MissUnlinked(m)
    <3>0. PICK u : page' = [page EXCEPT ![d] = [page[d] EXCEPT !.unlinking = page[d].unlinking /\ u]]
      BY <2>7, ButtonsOnly
    <3> DEFINE p == [page[d] EXCEPT !.unlinking = page[d].unlinking /\ u]
    <3>1. page' = [page EXCEPT ![d] = p]
      BY <3>0
    <3>2. p.at = page[d].at /\ p.visit = page[d].visit /\ p.busy = page[d].busy
          /\ p.factor = page[d].factor
      BY <1>2 DEF Page
    <3> HIDE DEF p, d
    <3> QED
      BY <1>1, <3>1, <3>2, EditTurns
  <2>8. CASE HearRegistered(m) \/ MissRegistered(m)
    <3> DEFINE p == [page[d] EXCEPT !.saving = FALSE]
    <3>1. p \in Page /\ p.at = page[d].at /\ p.visit = page[d].visit /\ p.busy = page[d].busy
          /\ p.factor = page[d].factor /\ p.form = page[d].form
      BY <1>2 DEF Page
    <3>2. \/ page' = [page EXCEPT ![d] = p]
          \/ SetUser(d, [name |-> m.name, mail |-> Nothing, totp |-> FALSE], p)
      BY <2>8 DEF HearRegistered, MissRegistered
    <3> HIDE DEF p, d
    <3>3. PageFits(p, user[d], part)
      BY <1>2, <3>1 DEF PageFits
    <3> QED
      BY <1>1, <3>1, <3>2, <3>3, EditTurns, SetUserTurns
  <2> QED
    BY <2>2, <2>3, <2>4, <2>5, <2>6, <2>7, <2>8 DEF OnTheWay
<1>5. \/ past' = past
      \/ past' = [past EXCEPT !.blurred = @ \cup {d}]
      \/ past' = [past EXCEPT !.blurred = Blurred(d)]
      \/ past' = [past EXCEPT !.writer = d]
      \/ HearUnlinked(m)
  BY DEF OnTheWay, AnswerMe, HearMe, MissMe, EndSession, HearLogout, WritePassword, WriteFields,
         HearSaved, MissSaved, AnswerList, HearList, MissList, DeleteConnection,
         MissUnlinked, CheckUsername, CountUsers, CreateUser, HearRegistered, MissRegistered
<1>6. CASE HearUnlinked(m)
  <2> DEFINE gone == [past.gone EXCEPT ![d] = IF Overtaken(d, m.id) THEN @
                                               ELSE @ \cup ({m.id} \ linked)]
  <2>1. m.id \in Providers
    BY <1>1, <1>6, MessageKinds DEF HearUnlinked, UnlinkMessage
  <2>2. gone \in [Devices -> SUBSET Providers]
    BY <1>1, <2>1 DEF Past
  <2>3. past' = [past EXCEPT !.gone = gone]
    BY <1>6 DEF HearUnlinked
  <2> HIDE DEF gone
  <2> QED
    BY <1>1, <1>3, <1>4, <2>2, <2>3, PastAside DEF Aside
<1>7. CASE ~HearUnlinked(m)
  BY <1>1, <1>3, <1>4, <1>5, <1>7, PastAside DEF Aside
<1> QED
  BY <1>6, <1>7

LEMMA ExpiryAside ==
    ASSUME Shape, NEW c \in Calls, TokenRunsOut(c)
    PROVE  Aside /\ past' \in Past
  BY SamePagesTurn DEF Shape, TokenRunsOut, TokenExpires, Aside

-----------------------------------------------------------------------------
(* What the sections and the login forms send, and who hears the answer.   *)

MaySend(d, kind) ==
    /\ part = "factor" /\ ~page[d].busy
    /\ page[d].at = IF kind \in Changing THEN "settings" ELSE "login"
    /\ kind = "setup" => page[d].factor.step = "idle" /\ ~page[d].factor.on
    /\ kind = "enable" => page[d].factor.step = "setup"
    /\ kind \in {"disable", "renew"} => page[d].factor.step = "idle"

Sends5(d, c) == Setup(d, c) \/ Enable(d, c) \/ DisableOrRenew(d, c) \/ LogIn(d, c) \/ Verify(d, c)

LEMMA SentAsAllowed ==
    ASSUME NEW d \in Devices, NEW c \in NextCalls, Sends5(d, c)
    PROVE  \E kind \in Kinds, code \in Code \cup {NoCall}, token \in Calls \cup {NoCall} :
              Send(d, c, kind, code, token) /\ MaySend(d, kind) /\ c \in Calls
<1>1. Digits \subseteq Code /\ Noted \subseteq Code
  BY GeneratedAreCodes, TwoFactorAssumption DEF Digits, DigitsOf, Noted, Scanned, Code
<1>2. c \in Calls
  BY DEF NextCalls, Idle
<1>3. CASE Setup(d, c)
  <2>1. "setup" \in Kinds /\ MaySend(d, "setup")
    BY <1>3 DEF Setup, Section, MaySend, Kinds, Changing
  <2> QED
    BY <1>2, <1>3, <2>1 DEF Setup
<1>4. CASE Enable(d, c)
  <2>1. "enable" \in Kinds /\ MaySend(d, "enable")
    BY <1>4 DEF Enable, Section, MaySend, Kinds, Changing
  <2> QED
    BY <1>1, <1>2, <1>4, <2>1 DEF Enable
<1>5. CASE DisableOrRenew(d, c)
  <2>1. \A kind \in {"disable", "renew"} : kind \in Kinds /\ MaySend(d, kind)
    BY <1>5 DEF DisableOrRenew, Section, MaySend, Kinds, Changing
  <2> QED
    BY <1>1, <1>2, <1>5, <2>1 DEF DisableOrRenew
<1>6. CASE LogIn(d, c)
  <2>1. "login" \in Kinds /\ MaySend(d, "login")
    BY <1>6 DEF LogIn, Form, MaySend, Kinds, Changing
  <2> QED
    BY <1>2, <1>6, <2>1 DEF LogIn
<1>7. CASE Verify(d, c)
  <2>1. "verify" \in Kinds /\ MaySend(d, "verify")
    BY <1>7 DEF Verify, Form, MaySend, Kinds, Changing
  <2> QED
    BY <1>1, <1>2, <1>7, <2>1 DEF Verify
<1> QED
  BY <1>3, <1>4, <1>5, <1>6, <1>7 DEF Sends5

LEMMA SentCall ==
    ASSUME Shape, NEW d \in Devices, NEW c \in Calls, NEW kind, NEW code, NEW token,
           Send(d, c, kind, code, token)
    PROVE  /\ calls[c].at = "idle" /\ calls'[c].at = "sent" /\ calls'[c].kind = kind
           /\ caller'[c] = [dev |-> d, visit |-> page[d].visit, told |-> Nothing,
                            batch |-> page[d].factor.offered]
           /\ \A b \in Calls : b # c => calls'[b] = calls[b] /\ caller'[b] = caller[b]
           /\ page' = [page EXCEPT ![d] = [page[d] EXCEPT !.busy = TRUE]]
           /\ UNCHANGED <<enabled, codes>>
<1>1. calls \in [Calls -> Call] /\ DOMAIN caller = Calls
  BY DEF Shape, TwoFactorTypeOK, CallerTypes
<1> QED
  BY <1>1 DEF Send, Ask, rows

\* A call waits on as it was, or its answer is heard.
GoesOn(b) ==
    \/ caller'[b] = Free
    \/ /\ Waits(b) /\ calls'[b].kind = calls[b].kind /\ caller'[b].dev = caller[b].dev
       /\ caller'[b].visit = caller[b].visit /\ caller'[b].batch = caller[b].batch

LEMMA ServedGoesOn ==
    ASSUME Shape, NEW c \in Calls, Serve(c) \/ ServeFails(c)
    PROVE  /\ \A b \in Calls : GoesOn(b)
           /\ caller' \in [Calls -> Asking(part) \cup {Free}]
           /\ Waits(c) /\ caller'[c] # Free
           /\ caller'[c].told \in {caller[c].told, Me}
           /\ \A b \in Calls : b # c => caller'[b] = caller[b] /\ calls'[b] = calls[b]
<1>1. CallerTypes /\ TwoFactorTypeOK
  BY DEF Shape
<1>2. calls[c].at \notin {"idle"} \cup Over /\ calls'[c].kind = calls[c].kind
      /\ \A b \in Calls : b # c => calls'[b] = calls[b]
  <2>1. CASE Serve(c)
    BY <1>1, <2>1, HandleMoves DEF Serve, Moved, Over
  <2>2. CASE ServeFails(c)
    <3>1. "refused" \in Steps
      BY DEF Steps, Over
    <3> QED
      BY <1>1, <2>2, <3>1, GoesTo DEF ServeFails, CallFails, AtWork
  <2> QED
    BY <2>1, <2>2
<1>3. Waits(c)
  BY <1>1, <1>2 DEF CallerTypes, CallFits, Waits
<1>4. caller[c] \in Asking(part)
  BY <1>1, <1>3, AskersWait
<1> DEFINE t == [caller[c] EXCEPT !.told = Me]
<1>5. t \in Asking(part) /\ t.dev = caller[c].dev /\ t.visit = caller[c].visit
      /\ t.batch = caller[c].batch /\ t.told = Me
  BY <1>4, MeIsAccount DEF Asking
<1>6. caller' = caller \/ caller' = [caller EXCEPT ![c] = t]
  BY DEF Serve, ServeFails
<1> HIDE DEF t
<1>7. caller' \in [Calls -> Asking(part) \cup {Free}]
      /\ \A b \in Calls : b # c => caller'[b] = caller[b]
  BY <1>1, <1>5, <1>6 DEF CallerTypes
<1>8. caller'[c] \in {caller[c], t}
  BY <1>1, <1>6 DEF CallerTypes
<1>9. t # Free
  BY <1>5, AccountPagesAssumption DEF Free, Asking
<1>10. \A b \in Calls : b # c => GoesOn(b)
  BY <1>2, <1>7 DEF GoesOn, Waits
<1>11. GoesOn(c)
  BY <1>2, <1>3, <1>5, <1>8 DEF GoesOn
<1> QED
  BY <1>2, <1>3, <1>5, <1>7, <1>8, <1>9, <1>10, <1>11 DEF Waits

LEMMA HeardGoesOn ==
    ASSUME Shape, NEW c \in Calls, HearChange(c) \/ HearLogin(c) \/ HearNoLogin(c) \/ LoseCall(c)
    PROVE  /\ Waits(c) /\ calls[c].at \in Over /\ UNCHANGED <<calls, enabled, codes>>
           /\ caller'[c] = Free /\ \A b \in Calls : b # c => caller'[b] = caller[b]
           /\ caller' \in [Calls -> Asking(part) \cup {Free}]
           /\ \A b \in Calls : GoesOn(b)
<1>1. CallerTypes
  BY DEF Shape
<1>2. Waits(c) /\ calls[c].at \in Over /\ UNCHANGED <<calls, enabled, codes>> /\ Heard(c)
  BY DEF HearChange, HearLogin, HearNoLogin, LoseCall, twoFactorVars, Over
<1>3. caller'[c] = Free /\ (\A b \in Calls : b # c => caller'[b] = caller[b])
      /\ caller' \in [Calls -> Asking(part) \cup {Free}]
  BY <1>1, <1>2 DEF CallerTypes, Heard
<1> QED
  BY <1>2, <1>3 DEF GoesOn, Waits

\* Every step is a step aside, or one of these.
LEMMA FactorSteps ==
    ASSUME Shape, Next
    PROVE  \/ Aside /\ past' \in Past
           \/ \E d \in Devices, c \in NextCalls : Sends5(d, c)
           \/ \E d \in Devices : CancelSetup(d) \/ CodesSaved(d)
           \/ \E c \in Calls : \/ Serve(c) \/ ServeFails(c)
                               \/ HearChange(c) \/ HearLogin(c) \/ HearNoLogin(c) \/ LoseCall(c)
<1>1. ASSUME NEW d \in Devices, ByHand(d), ~(Aside /\ past' \in Past)
      PROVE  \/ \E c \in NextCalls : Sends5(d, c)
             \/ CancelSetup(d) \/ CodesSaved(d)
  BY <1>1, ByHandAside DEF Sends5
<1>2. ASSUME NEW m \in wires, OnTheWay(m)
      PROVE  Aside /\ past' \in Past
  BY <1>2, OnTheWayAside
<1>3. ASSUME NEW c \in Calls, OfCall(c), ~(Aside /\ past' \in Past)
      PROVE  Serve(c) \/ ServeFails(c) \/ HearChange(c) \/ HearLogin(c) \/ HearNoLogin(c) \/ LoseCall(c)
  BY <1>3, ExpiryAside DEF OfCall
<1> QED
  BY <1>1, <1>2, <1>3 DEF Next

LEMMA PastStep ==
    ASSUME Shape, Next
    PROVE  past' \in Past
<1>1. past \in Past /\ CallerTypes
  BY DEF Shape
<1>2. ASSUME NEW d \in Devices, NEW c \in NextCalls, Sends5(d, c)
      PROVE  past' \in Past
  <2>1. PICK v \in BOOLEAN : past' = [past EXCEPT !.calm = v]
    <3>1. \A kind, code, token : Send(d, c, kind, code, token) =>
             past' = [past EXCEPT !.calm = @ /\ ~\E b \in Calls \ {c} :
                                     AtWork(b) /\ {calls[b].kind, kind} \subseteq Changing]
      BY DEF Send
    <3>2. PICK kind, code, token : Send(d, c, kind, code, token)
      BY <1>2, SentAsAllowed
    <3> QED
      BY <3>1, <3>2
  <2> QED
    BY <1>1, <2>1 DEF Past
<1>3. ASSUME NEW d \in Devices, CancelSetup(d) \/ CodesSaved(d)
      PROVE  past' \in Past
  BY <1>1, <1>3 DEF CancelSetup, CodesSaved
<1>4. ASSUME NEW c \in Calls, Waits(c), \/ Serve(c) \/ ServeFails(c) \/ HearChange(c)
                             \/ HearLogin(c) \/ HearNoLogin(c) \/ LoseCall(c)
      PROVE  past' \in Past
  <2>1. caller[c].dev \in Devices /\ caller[c].visit \in Nat
    BY <1>1, <1>4, AskersWait DEF Asking
  <2>2. calls[c].code \in Code \cup {NoCall}
    BY DEF Shape, TwoFactorTypeOK, Call
  <2>3. CASE Serve(c)
    <3>1. PICK writer \in Devices \cup {Nothing}, turner \in (Devices \X Nat) \cup {Nothing},
               renewer \in Devices \cup {Nothing}, used \in SUBSET (Code \cup {NoCall}) :
            past' = [past EXCEPT !.writer = writer, !.turner = turner, !.renewer = renewer, !.used = used]
      <4>1. past.writer \in Devices \cup {Nothing} /\ past.turner \in (Devices \X Nat) \cup {Nothing}
            /\ past.renewer \in Devices \cup {Nothing} /\ past.used \in SUBSET (Code \cup {NoCall})
        BY <1>1 DEF Past
      <4> DEFINE writer == IF calls[c].at = "write" /\ calls[c].kind # "setup" THEN caller[c].dev
                           ELSE past.writer
                 turner == IF calls[c].at = "write" THEN <<caller[c].dev, caller[c].visit>> ELSE past.turner
                 renewer == IF calls[c].at = "purge" THEN caller[c].dev ELSE past.renewer
                 used == IF calls[c].at = "use" THEN past.used \cup {calls[c].code} ELSE past.used
      <4>2. writer \in Devices \cup {Nothing} /\ turner \in (Devices \X Nat) \cup {Nothing}
            /\ renewer \in Devices \cup {Nothing} /\ used \in SUBSET (Code \cup {NoCall})
        BY <2>1, <2>2, <4>1
      <4>3. past' = [past EXCEPT !.writer = writer, !.turner = turner, !.renewer = renewer, !.used = used]
        BY <2>3 DEF Serve
      <4> HIDE DEF writer, turner, renewer, used
      <4> QED
        BY <4>2, <4>3
    <3> QED
      BY <1>1, <3>1 DEF Past
  <2>4. CASE ServeFails(c) \/ LoseCall(c)
    <3>1. past' = [past EXCEPT !.blurred = past.blurred \cup {caller[c].dev}] \/ past' = past
          \/ past' = [past EXCEPT !.blurred = past.blurred]
      BY <2>4 DEF ServeFails, LoseCall
    <3> QED
      BY <1>1, <2>1, <3>1 DEF Past
  <2>5. CASE HearChange(c)
    <3>1. past' = past \/ past' = [past EXCEPT !.blurred = Blurred(caller[c].dev)]
      BY <2>5 DEF HearChange
    <3> QED
      BY <1>1, <2>1, <3>1, PastAside
  <2>6. CASE HearLogin(c) \/ HearNoLogin(c)
    BY <1>1, <2>6 DEF HearLogin, HearNoLogin
  <2> QED
    BY <1>4, <2>3, <2>4, <2>5, <2>6
<1> QED
  BY <1>2, <1>3, <1>4, FactorSteps, ServedGoesOn, HeardGoesOn


\* Who waits for a call stays who asked it, with the call at a step of its kind.
LEMMA CallerStep ==
    ASSUME Shape, Next
    PROVE  CallerTypes'
<1>1. CallerTypes /\ TwoFactorTypeOK /\ UNCHANGED part
  BY SamePart DEF Shape
<1>2. CASE UNCHANGED <<calls, caller>>
  BY <1>1, <1>2 DEF CallerTypes
<1>3. ASSUME NEW c \in Calls, caller' \in [Calls -> Asking(part) \cup {Free}],
             \A b \in Calls : b # c => calls'[b] = calls[b] /\ caller'[b] = caller[b],
             CallFits(calls'[c], caller'[c], part)
      PROVE  CallerTypes'
  <2>1. \A b \in Calls : CallFits(calls'[b], caller'[b], part)
    BY <1>1, <1>3 DEF CallerTypes
  <2> QED
    BY <1>1, <1>3, <2>1 DEF CallerTypes
<1>4. ASSUME NEW d \in Devices, NEW c \in NextCalls, Sends5(d, c)
      PROVE  CallerTypes'
  <2>1. PICK kind \in Kinds, code \in Code \cup {NoCall}, token \in Calls \cup {NoCall} :
            Send(d, c, kind, code, token) /\ MaySend(d, kind) /\ c \in Calls
    BY <1>4, SentAsAllowed
  <2>2. page[d] \in Page
    BY DEF Shape, ClientTypes
  <2> DEFINE asking == [dev |-> d, visit |-> page[d].visit, told |-> Nothing,
                        batch |-> page[d].factor.offered]
  <2>3. asking \in Asking(part)
    BY <2>2 DEF Page, Factor, Asking
  <2>4. caller' = [caller EXCEPT ![c] = asking]
    BY <2>1 DEF Send
  <2>5. calls'[c].at = "sent" /\ caller'[c] = asking
        /\ \A b \in Calls : b # c => calls'[b] = calls[b] /\ caller'[b] = caller[b]
    BY <2>1, SentCall
  <2> HIDE DEF asking
  <2>6. caller' \in [Calls -> Asking(part) \cup {Free}]
    BY <1>1, <2>3, <2>4 DEF CallerTypes
  <2>7. asking # Free
    BY <2>3, AccountPagesAssumption DEF Asking, Free
  <2>8. CallFits(calls'[c], caller'[c], part)
    BY <2>1, <2>5, <2>7 DEF CallFits, MaySend
  <2> QED
    BY <1>3, <2>1, <2>5, <2>6, <2>8
<1>5. ASSUME NEW c \in Calls, Serve(c) \/ ServeFails(c)
      PROVE  CallerTypes'
  <2>1. /\ caller' \in [Calls -> Asking(part) \cup {Free}]
        /\ Waits(c) /\ caller'[c] # Free
        /\ \A b \in Calls : b # c => caller'[b] = caller[b] /\ calls'[b] = calls[b]
    BY <1>5, ServedGoesOn
  <2>2. part = "factor"
    BY <1>1, <2>1 DEF CallerTypes, CallFits, Waits
  <2>3. CASE Serve(c)
    <3>1. Moved(c) /\ CallFits(calls[c], caller[c], part)
      BY <1>1, <2>3, HandleMoves DEF Serve, CallerTypes
    <3>2. CallFits(calls'[c], caller'[c], part)
      BY <2>1, <2>2, <3>1 DEF Moved, Follows, CallFits, Changing
    <3> QED
      BY <1>3, <2>1, <3>2
  <2>4. CASE ServeFails(c)
    <3>1. "refused" \in Steps
      BY DEF Steps, Over
    <3>2. calls'[c].at = "refused"
      BY <1>1, <2>4, <3>1, GoesTo DEF ServeFails, CallFails
    <3> QED
      BY <1>3, <2>1, <2>2, <3>2 DEF CallFits
  <2> QED
    BY <1>5, <2>3, <2>4
<1>6. ASSUME NEW c \in Calls, HearChange(c) \/ HearLogin(c) \/ HearNoLogin(c) \/ LoseCall(c)
      PROVE  CallerTypes'
  <2>1. /\ Waits(c) /\ calls[c].at \in Over /\ UNCHANGED calls
        /\ caller'[c] = Free /\ \A b \in Calls : b # c => caller'[b] = caller[b]
        /\ caller' \in [Calls -> Asking(part) \cup {Free}]
    BY <1>6, HeardGoesOn
  <2>2. CallFits(calls[c], caller[c], part)
    BY <1>1 DEF CallerTypes
  <2>3. CallFits(calls'[c], caller'[c], part)
    BY <2>1, <2>2 DEF CallFits, Over
  <2> QED
    BY <1>3, <2>1, <2>3
<1>7. ASSUME NEW d \in Devices, CancelSetup(d) \/ CodesSaved(d)
      PROVE  UNCHANGED <<calls, caller>>
  BY <1>7 DEF CancelSetup, CodesSaved, twoFactorVars
<1> QED
  BY <1>2, <1>4, <1>5, <1>6, <1>7, FactorSteps DEF Aside

\* But for a new call, who waits has waited before.
LEMMA StepGoesOn ==
    ASSUME Shape, Next
    PROVE  \/ \A b \in Calls : GoesOn(b)
           \/ \E d \in Devices, c \in NextCalls : Sends5(d, c)
<1>1. ASSUME UNCHANGED <<calls, caller>>
      PROVE  \A b \in Calls : GoesOn(b)
  BY <1>1 DEF GoesOn, Waits
<1>2. ASSUME NEW d \in Devices, CancelSetup(d) \/ CodesSaved(d)
      PROVE  UNCHANGED <<calls, caller>>
  BY <1>2 DEF CancelSetup, CodesSaved, twoFactorVars
<1> QED
  BY <1>1, <1>2, FactorSteps, ServedGoesOn, HeardGoesOn DEF Aside

LEMMA VisitsStep ==
    ASSUME Shape, Next
    PROVE  VisitsFit'
<1>1. CallerTypes /\ VisitsFit /\ MovesOn /\ past \in Past
  BY PagesStep DEF Shape
<1>2. \A d \in Devices : page[d].visit \in Nat /\ page'[d].visit \in Nat
  BY PagesStep DEF Shape, ClientTypes, Page
<1>3. \A c \in Calls : Waits(c) => caller[c].dev \in Devices /\ caller[c].visit \in Nat
  BY <1>1, AskersWait DEF Asking
<1>4. ASSUME NEW c \in Calls, Waits(c), NEW visit \in Nat, visit = caller[c].visit
      PROVE  visit <= page'[caller[c].dev].visit
  BY <1>1, <1>2, <1>3, <1>4 DEF VisitsFit, MovesOn
<1>5. \A c \in Calls : Waits(c)' => caller'[c].visit <= page'[caller'[c].dev].visit
  <2>1. CASE \A b \in Calls : GoesOn(b)
    BY <1>3, <1>4, <2>1 DEF GoesOn, Waits
  <2>2. ASSUME NEW d \in Devices, NEW c \in NextCalls, Sends5(d, c)
        PROVE  \A b \in Calls : Waits(b)' => caller'[b].visit <= page'[caller'[b].dev].visit
    <3>1. PICK kind, code, token : Send(d, c, kind, code, token) /\ c \in Calls
      BY <2>2, SentAsAllowed
    <3>2. /\ caller'[c] = [dev |-> d, visit |-> page[d].visit, told |-> Nothing,
                           batch |-> page[d].factor.offered]
          /\ \A b \in Calls : b # c => caller'[b] = caller[b]
      BY <3>1, SentCall
    <3>3. page[d].visit <= page'[d].visit
      BY <1>1 DEF MovesOn
    <3> QED
      BY <1>3, <1>4, <3>2, <3>3 DEF Waits
  <2> QED
    BY <2>1, <2>2, StepGoesOn
<1>6. \A d \in Devices, v \in Nat : past'.turner = <<d, v>> => v <= page'[d].visit
  <2>1. CASE past'.turner = past.turner
    BY <1>1, <1>2, <2>1 DEF VisitsFit, MovesOn
  <2>2. ASSUME NEW c \in Calls, Waits(c), past'.turner = <<caller[c].dev, caller[c].visit>>
        PROVE  \A d \in Devices, v \in Nat : past'.turner = <<d, v>> => v <= page'[d].visit
    BY <1>3, <1>4, <2>2
  <2>3. \/ past'.turner = past.turner
        \/ \E c \in Calls : Waits(c) /\ past'.turner = <<caller[c].dev, caller[c].visit>>
    <3>1. ASSUME NEW d \in Devices, NEW c \in NextCalls, Sends5(d, c)
          PROVE  past'.turner = past.turner
      BY <1>1, <3>1, SentAsAllowed DEF Send, Past
    <3>2. ASSUME NEW d \in Devices, CancelSetup(d) \/ CodesSaved(d)
          PROVE  past'.turner = past.turner
      BY <3>2 DEF CancelSetup, CodesSaved
    <3>3. ASSUME NEW c \in Calls, Serve(c)
          PROVE  \/ past'.turner = past.turner
                 \/ Waits(c) /\ past'.turner = <<caller[c].dev, caller[c].visit>>
      <4>1. Waits(c)
        BY <3>3, ServedGoesOn
      <4>2. past'.turner = IF calls[c].at = "write" THEN <<caller[c].dev, caller[c].visit>> ELSE past.turner
        BY <1>1, <3>3 DEF Serve, Past
      <4> QED
        BY <4>1, <4>2
    <3>4. ASSUME NEW c \in Calls, ServeFails(c) \/ HearChange(c) \/ HearLogin(c) \/ HearNoLogin(c) \/ LoseCall(c)
          PROVE  past'.turner = past.turner
      BY <1>1, <3>4 DEF ServeFails, HearChange, HearLogin, HearNoLogin, LoseCall, Past
    <3> QED
      BY <3>1, <3>2, <3>3, <3>4, FactorSteps DEF Aside
  <2> QED
    BY <2>1, <2>2, <2>3
<1> QED
  BY <1>5, <1>6 DEF VisitsFit

-----------------------------------------------------------------------------
(* A section waits for one call at a time.                                 *)

\* The section that has waited for c hears of it.
Answered(c) ==
    /\ HearChange(c) \/ LoseCall(c)
    /\ There(c) /\ calls[c].kind \in Changing

\* All the others that hear of a call are forms and sections that were left.
LEMMA UnansweredTurns ==
    ASSUME Shape, NEW c \in Calls, HearChange(c) \/ HearLogin(c) \/ HearNoLogin(c) \/ LoseCall(c),
           ~Answered(c)
    PROVE  \A e \in Devices : Turned(e)
<1> DEFINE d == caller[c].dev
<1>1. ClientTypes /\ CallerTypes /\ Waits(c)
  BY HeardGoesOn DEF Shape
<1>2. d \in Devices
  BY <1>1, AskersWait DEF Asking
<1>3. page[d] \in Page /\ PageFits(page[d], user[d], part)
  BY <1>1, <1>2 DEF ClientTypes
<1>4. CASE HearChange(c)
  <2>1. page' = page
    BY <1>4 DEF HearChange, Answered
  <2> QED
    BY <2>1, SamePagesTurn
<1>5. There(c) /\ calls[c].kind \notin Changing => page[d].at # "settings"
  BY DEF There
<1>6. CASE HearLogin(c)
  <2> DEFINE p == [page[d] EXCEPT !.busy = @ /\ ~There(c)]
             r == Drifting(p, caller[c].told, user[d])
             q == Routed(r, caller[c].told)
  <2>1. page' = [page EXCEPT ![d] = q]
    BY <1>6 DEF HearLogin, SetUser
  <2>2. p \in Page /\ p.at = page[d].at /\ p.visit = page[d].visit /\ p.factor = page[d].factor
        /\ p.form = page[d].form
    BY <1>3 DEF Page
  <2>3. There(c) \/ p.busy = page[d].busy
    BY <1>3 DEF Page
  <2>4. calls[c].kind \notin Changing
    BY <1>6 DEF HearLogin
  <2> HIDE DEF p, d
  <2>5. PageFits(p, user[d], part)
    BY <1>3, <2>2 DEF PageFits
  <2>6. r \in Page /\ PageFits(r, user[d], part) /\ r.visit = p.visit /\ r.at = p.at
        /\ r.factor = p.factor /\ r.busy = p.busy
    BY <2>2, <2>5, DriftFits
  <2> HIDE DEF r
  <2>7. q.at # "settings" \/ q = r
    BY <2>6, RoutedFits
  <2> HIDE DEF q
  <2> QED
    BY <1>1, <1>2, <1>5, <2>1, <2>2, <2>3, <2>4, <2>6, <2>7, EditTurns
<1>7. CASE HearNoLogin(c)
  <2>1. CASE There(c)
    <3> DEFINE p == [page[d] EXCEPT !.busy = FALSE,
                                    !.token = IF calls[c].at = "challenged" THEN c ELSE page[d].token]
    <3>1. page' = [page EXCEPT ![d] = p]
      BY <1>7, <2>1 DEF HearNoLogin
    <3>2. p.at = page[d].at
      BY <1>3 DEF Page
    <3>3. p.at # "settings"
      BY <1>5, <1>7, <2>1, <3>2 DEF HearNoLogin
    <3> HIDE DEF p, d
    <3> QED
      BY <1>1, <1>2, <3>1, <3>3, EditTurns
  <2>2. CASE ~There(c)
    BY <1>7, <2>2, SamePagesTurn DEF HearNoLogin
  <2> QED
    BY <2>1, <2>2
<1>8. CASE LoseCall(c)
  <2> DEFINE p == [page[d] EXCEPT !.busy = @ /\ ~There(c)]
  <2>1. page' = [page EXCEPT ![d] = p]
    BY <1>8 DEF LoseCall
  <2>2. p.at = page[d].at /\ p.visit = page[d].visit /\ p.factor = page[d].factor
    BY <1>3 DEF Page
  <2>3. There(c) \/ p.busy = page[d].busy
    BY <1>3 DEF Page
  <2>4. There(c) => calls[c].kind \notin Changing
    BY <1>8 DEF Answered
  <2> HIDE DEF p, d
  <2> QED
    BY <1>1, <1>2, <1>5, <2>1, <2>2, <2>3, <2>4, EditTurns
<1> QED
  BY <1>4, <1>6, <1>7, <1>8

\* What an answer does to the section that has waited for it.
LEMMA AnswerSettles ==
    ASSUME Shape, NEW c \in Calls, Answered(c)
    PROVE  \E d \in Devices :
               /\ caller[c].dev = d /\ Asks(d, c)
               /\ page'[d].at = "settings" /\ page'[d].visit = page[d].visit /\ ~page'[d].busy
               /\ HearChange(c) => page'[d].factor = Shown(page[d].factor, c)
               /\ ~HearChange(c) => page'[d].factor = page[d].factor
               /\ \A e \in Devices : e # d => page'[e] = page[e]
               /\ \A b \in Calls : Asks(d, b) => b = c
<1>1. ClientTypes /\ CallerTypes /\ Waits(c) /\ OneAtATime
  BY HeardGoesOn DEF Shape, Answered
<1>2. PICK d \in Devices : d = caller[c].dev
  BY <1>1, AskersWait DEF Asking
<1>3. page[d] \in Page
  BY <1>1, <1>2 DEF ClientTypes
<1>4. Asks(d, c)
  BY <1>1, <1>2, ThereAsks DEF Answered
<1>5. page[d].at = "settings" /\ \A b \in Calls : Asks(d, b) => b = c
  BY <1>1, <1>2, <1>4 DEF OneAtATime, Asks
<1>6. There(c) /\ (HearChange(c) \/ LoseCall(c))
  BY DEF Answered
<1> DEFINE f == Shown(page[d].factor, c)
           p == [page[d] EXCEPT !.busy = FALSE, !.factor = f]
           q == [page[d] EXCEPT !.busy = page[d].busy /\ ~There(c)]
<1>7. p.at = page[d].at /\ p.visit = page[d].visit /\ ~p.busy /\ p.factor = f
  BY <1>3 DEF Page
<1>8. q.at = page[d].at /\ q.visit = page[d].visit /\ ~q.busy /\ q.factor = page[d].factor
  BY <1>3, <1>6 DEF Page
<1>9. HearChange(c) => page' = [page EXCEPT ![d] = p]
  BY <1>2, <1>6 DEF HearChange
<1>10. LoseCall(c) => page' = [page EXCEPT ![d] = q]
  BY <1>2, <1>6 DEF LoseCall
<1> HIDE DEF f, p, q
<1>11. page'[d] = (IF HearChange(c) THEN p ELSE q) /\ \A e \in Devices : e # d => page'[e] = page[e]
  BY <1>1, <1>6, <1>9, <1>10 DEF ClientTypes
<1> QED
  BY <1>2, <1>4, <1>5, <1>7, <1>8, <1>11 DEF f

\* Who asks in a page that stays has asked before.
LEMMA AskedBefore ==
    ASSUME Shape, NEW e \in Devices, NEW b \in Calls, GoesOn(b), Turned(e), Asks(e, b)'
    PROVE  /\ Asks(e, b) /\ page'[e].busy = page[e].busy /\ page'[e].factor = page[e].factor
           /\ page'[e].visit = page[e].visit
           /\ caller'[b].batch = caller[b].batch /\ calls'[b].kind = calls[b].kind
<1>1. Waits(b) /\ caller'[b].dev = caller[b].dev /\ caller'[b].visit = caller[b].visit
      /\ caller'[b].batch = caller[b].batch /\ calls'[b].kind = calls[b].kind
  BY DEF GoesOn, Asks, Waits
<1>2. caller[b].dev = e /\ page'[e].at = "settings" /\ page'[e].visit = caller[b].visit
      /\ calls[b].kind \in Changing
  BY <1>1 DEF Asks
<1>3. caller[b].visit <= page[e].visit /\ caller[b].visit \in Nat /\ page[e].visit \in Nat
  BY <1>1, <1>2, AskersWait DEF Shape, VisitsFit, Asking, ClientTypes, Page
<1>4. page'[e].visit # page[e].visit + 1
  BY <1>2, <1>3
<1>5. /\ page'[e].at = page[e].at /\ page'[e].visit = page[e].visit
      /\ page'[e].busy = page[e].busy /\ page'[e].factor = page[e].factor
  BY <1>2, <1>4 DEF Turned
<1> QED
  BY <1>1, <1>2, <1>5 DEF Asks

LEMMA TurnedKeepsOne ==
    ASSUME Shape, \A b \in Calls : GoesOn(b), \A e \in Devices : Turned(e)
    PROVE  OneAtATime'
<1>1. OneAtATime
  BY DEF Shape
<1>2. ASSUME NEW d \in Devices, NEW c \in Calls, Asks(d, c)'
      PROVE  Asked(page'[d], calls'[c], caller'[c]) /\ \A b \in Calls : Asks(d, b)' => b = c
  <2>1. /\ Asks(d, c) /\ page'[d].busy = page[d].busy /\ page'[d].factor = page[d].factor
        /\ caller'[c].batch = caller[c].batch /\ calls'[c].kind = calls[c].kind
    BY <1>2, AskedBefore
  <2>2. Asked(page[d], calls[c], caller[c]) /\ \A b \in Calls : Asks(d, b) => b = c
    BY <1>1, <2>1 DEF OneAtATime
  <2>3. Asked(page'[d], calls'[c], caller'[c])
    BY <2>1, <2>2 DEF Asked
  <2>4. \A b \in Calls : Asks(d, b)' => Asks(d, b)
    BY AskedBefore
  <2> QED
    BY <2>2, <2>3, <2>4
<1> QED
  BY <1>2 DEF OneAtATime

LEMMA OneStep ==
    ASSUME Shape, Next
    PROVE  OneAtATime'
<1>1. OneAtATime /\ ClientTypes /\ CallerTypes
  BY DEF Shape
<1>2. CASE Aside
  <2>1. \A b \in Calls : GoesOn(b)
    BY <1>2 DEF Aside, GoesOn, Waits
  <2> QED
    BY <1>2, <2>1, TurnedKeepsOne DEF Aside
<1>3. ASSUME NEW d \in Devices, NEW c \in NextCalls, Sends5(d, c)
      PROVE  OneAtATime'
  <2>1. PICK kind \in Kinds, code \in Code \cup {NoCall}, token \in Calls \cup {NoCall} :
            Send(d, c, kind, code, token) /\ MaySend(d, kind) /\ c \in Calls
    BY <1>3, SentAsAllowed
  <2> DEFINE asking == [dev |-> d, visit |-> page[d].visit, told |-> Nothing,
                        batch |-> page[d].factor.offered]
             p == [page[d] EXCEPT !.busy = TRUE]
  <2>2. /\ calls'[c].kind = kind /\ caller'[c] = asking
        /\ \A b \in Calls : b # c => calls'[b] = calls[b] /\ caller'[b] = caller[b]
        /\ page' = [page EXCEPT ![d] = p]
    BY <2>1, SentCall
  <2>3. asking.dev = d /\ asking.visit = page[d].visit /\ asking.batch = page[d].factor.offered
    OBVIOUS
  <2>4. page[d] \in Page /\ SectionFits(page[d].factor)
    BY <1>1 DEF ClientTypes, PageFits
  <2>5. p.at = page[d].at /\ p.visit = page[d].visit /\ p.busy /\ p.factor = page[d].factor
    BY <2>4 DEF Page
  <2> HIDE DEF asking, p
  <2>6. page'[d] = p /\ \A e \in Devices : e # d => page'[e] = page[e]
    BY <1>1, <2>2 DEF ClientTypes
  <2>7. \A b \in Calls : ~Asks(d, b)
    BY <1>1, <2>1 DEF OneAtATime, Asked, MaySend
  <2>8. \A b \in Calls \ {c} : ~Asks(d, b)'
    BY <2>2, <2>5, <2>6, <2>7 DEF Asks, Waits
  <2>9. \A e \in Devices \ {d} : ~Asks(e, c)'
    BY <2>2, <2>3 DEF Asks
  <2>10. Asks(d, c)' => Asked(page'[d], calls'[c], caller'[c])
    BY <2>1, <2>2, <2>3, <2>4, <2>5, <2>6 DEF Asks, Asked, MaySend, SectionFits, Changing
  <2>11. \A e \in Devices \ {d}, b \in Calls \ {c} :
           /\ Asks(e, b)' <=> Asks(e, b)
           /\ Asked(page'[e], calls'[b], caller'[b]) <=> Asked(page[e], calls[b], caller[b])
    BY <2>2, <2>6 DEF Asks, Waits
  <2> QED
    BY <1>1, <2>8, <2>9, <2>10, <2>11 DEF OneAtATime
<1>4. ASSUME NEW c \in Calls, Serve(c) \/ ServeFails(c)
      PROVE  OneAtATime'
  <2>1. UNCHANGED page
    BY <1>4 DEF Serve, ServeFails
  <2> QED
    BY <1>4, <2>1, ServedGoesOn, SamePagesTurn, TurnedKeepsOne
<1>5. ASSUME NEW c \in Calls, HearChange(c) \/ HearLogin(c) \/ HearNoLogin(c) \/ LoseCall(c), ~Answered(c)
      PROVE  OneAtATime'
  BY <1>5, HeardGoesOn, UnansweredTurns, TurnedKeepsOne
<1>6. ASSUME NEW c \in Calls, Answered(c)
      PROVE  OneAtATime'
  <2>1. PICK d \in Devices :
        /\ caller[c].dev = d /\ Asks(d, c)
        /\ page'[d].at = "settings" /\ page'[d].visit = page[d].visit
        /\ \A e \in Devices : e # d => page'[e] = page[e]
        /\ \A b \in Calls : Asks(d, b) => b = c
    BY <1>6, AnswerSettles
  <2>2. /\ UNCHANGED calls /\ caller'[c] = Free /\ \A b \in Calls : b # c => caller'[b] = caller[b]
    BY <1>6, HeardGoesOn DEF Answered
  <2>3. page[d].at = "settings"
    BY <2>1 DEF Asks
  <2>4. \A b \in Calls : ~Asks(d, b)'
    BY <2>1, <2>2, <2>3 DEF Asks, Waits
  <2>5. \A e \in Devices : ~Asks(e, c)'
    BY <2>2 DEF Asks, Waits
  <2>6. \A e \in Devices \ {d}, b \in Calls \ {c} :
           /\ Asks(e, b)' <=> Asks(e, b)
           /\ Asked(page'[e], calls'[b], caller'[b]) <=> Asked(page[e], calls[b], caller[b])
    BY <2>1, <2>2 DEF Asks, Waits
  <2> QED
    BY <1>1, <2>4, <2>5, <2>6 DEF OneAtATime
<1>7. ASSUME NEW d \in Devices, CancelSetup(d) \/ CodesSaved(d)
      PROVE  OneAtATime'
  <2>1. UNCHANGED <<calls, caller>>
    BY <1>7 DEF CancelSetup, CodesSaved, twoFactorVars
  <2>2. page[d] \in Page
    BY <1>1 DEF ClientTypes
  <2>3. PICK f : /\ page' = [page EXCEPT ![d] = [page[d] EXCEPT !.factor = f]]
                 /\ f.step = "idle" /\ f.on = page[d].factor.on
    <3> DEFINE f == [page[d].factor EXCEPT !.step = "idle", !.offered = NoCall]
               g == [page[d].factor EXCEPT !.step = "idle", !.shown = NoCall]
    <3>1. f.step = "idle" /\ f.on = page[d].factor.on /\ g.step = "idle" /\ g.on = page[d].factor.on
      BY <2>2 DEF Page, Factor
    <3>2. page' = [page EXCEPT ![d] = [page[d] EXCEPT !.factor = f]]
          \/ page' = [page EXCEPT ![d] = [page[d] EXCEPT !.factor = g]]
      BY <1>7 DEF CancelSetup, CodesSaved
    <3> HIDE DEF f, g
    <3> QED
      BY <3>1, <3>2
  <2>4. page'[d].at = page[d].at /\ page'[d].visit = page[d].visit /\ page'[d].busy = page[d].busy
        /\ page'[d].factor = f /\ \A e \in Devices : e # d => page'[e] = page[e]
    BY <1>1, <2>2, <2>3 DEF ClientTypes, Page
  <2>5. \A e \in Devices, b \in Calls : Asks(e, b)' <=> Asks(e, b)
    BY <2>1, <2>4 DEF Asks, Waits
  <2>6. \A e \in Devices, b \in Calls : Asked(page[e], calls[b], caller[b])
                                      => Asked(page'[e], calls'[b], caller'[b])
    BY <2>1, <2>3, <2>4 DEF Asked
  <2> QED
    BY <1>1, <2>5, <2>6 DEF OneAtATime
<1> QED
  BY <1>2, <1>3, <1>4, <1>5, <1>6, <1>7, FactorSteps

LEMMA StartFits ==
    ASSUME Init
    PROVE  Shape
<1>1. TwoFactorTypeOK /\ Justified
  BY TwoFactorStart DEF Init
<1>2. ServerTypes
  <2>1. (CHOOSE n \in Names : TRUE) \in Names /\ (CHOOSE m \in Mails \ Taken : TRUE) \in Mails
    BY AccountPagesAssumption
  <2>2. profile \in [name : Names, mail : Mails, pass : BOOLEAN]
    BY <2>1 DEF Init
  <2>3. linked \subseteq Providers
    BY DEF Init
  <2>4. live \subseteq Devices
    BY DEF Init
  <2>5. list \in [Devices -> Connections]
    BY DEF Init, Connections, NoList
  <2> QED
    BY <2>2, <2>3, <2>4, <2>5 DEF ServerTypes
<1>3. ClientTypes
  <2> DEFINE p == Blank("loading", 0)
  <2>1. p \in Page /\ PageFits(p, Nothing, part)
    BY BlankFits
  <2>2. page = [d \in Devices |-> p] /\ user = [d \in Devices |-> Nothing]
    BY DEF Init
  <2> HIDE DEF p
  <2> QED
    BY <2>1, <2>2 DEF ClientTypes
<1>4. WireTypes
  <2>1. ASSUME NEW d \in Devices
        PROVE  MessageFits(Refresh(d, "mount", 0), part)
    <3>1. Refresh(d, "mount", 0) \in MeMessage(part) /\ Refresh(d, "mount", 0).kind = "me"
      BY DEF Refresh, MeMessage
    <3> QED
      BY <3>1 DEF MessageFits
  <2> QED
    BY <2>1 DEF Init, WireTypes
<1>5. caller = [c \in Calls |-> Free] /\ past.turner = Nothing /\ past.calm = TRUE
  BY DEF Init
<1>6. CallerTypes
  <2>1. \A c \in Calls : calls[c].at \in {"idle"} \cup Over /\ calls[c].at # "challenged"
    <3>1. Unasked.at = "idle" /\ [Unasked EXCEPT !.kind = "setup", !.at = "ok"].at = "ok"
      BY DEF Unasked
    <3>2. \A c \in Calls : calls[c] \in {Unasked, [Unasked EXCEPT !.kind = "setup", !.at = "ok"]}
      BY DEF Init, TwoFactorInit
    <3> QED
      BY <3>1, <3>2 DEF Over
  <2>2. \A c \in Calls : CallFits(calls[c], Free, part)
    BY <2>1 DEF CallFits, Over
  <2> QED
    BY <1>5, <2>2 DEF CallerTypes
<1>7. VisitsFit /\ OneAtATime
  BY <1>5, AccountPagesAssumption DEF VisitsFit, Waits, OneAtATime, Asks
<1>8. past \in Past
  BY DEF Init, Past
<1> QED
  BY <1>1, <1>2, <1>3, <1>4, <1>6, <1>7, <1>8 DEF Shape

LEMMA SameShape ==
    ASSUME Shape, UNCHANGED vars
    PROVE  Shape'
<1>1. UNCHANGED twoFactorVars /\ UNCHANGED server
      /\ UNCHANGED <<user, page, list, wires, caller, left, part, past>>
  BY DEF vars
<1>2. TwoFactorTypeOK' /\ Justified'
  BY <1>1, TwoFactorStep DEF Shape
<1>3. ServerTypes' /\ ClientTypes' /\ WireTypes'
  BY <1>1 DEF Shape, server, ServerTypes, ClientTypes, WireTypes
<1>4. UNCHANGED calls
  BY <1>1 DEF twoFactorVars
<1>5. CallerTypes' /\ VisitsFit' /\ past' \in Past
  BY <1>1, <1>4 DEF Shape, CallerTypes, VisitsFit, Waits
<1>6. OneAtATime'
  BY <1>1, <1>4 DEF Shape, OneAtATime, Asks, Waits
<1> QED
  BY <1>2, <1>3, <1>5, <1>6 DEF Shape

LEMMA ShapeStep ==
    ASSUME Shape, [Next]_vars
    PROVE  Shape'
<1>1. CASE UNCHANGED vars
  BY <1>1, SameShape
<1>2. CASE Next
  <2>1. [TwoFactorNext]_twoFactorVars
    BY <1>2, ByHandAsks, OnTheWayStutters, OfCallServes DEF Next
  <2>2. TwoFactorTypeOK' /\ Justified'
    BY <2>1, TwoFactorStep DEF Shape
  <2> QED
    BY <1>2, <2>2, PagesStep, MessagesStep, TablesStep, CallerStep, VisitsStep, PastStep, OneStep DEF Shape
<1> QED
  BY <1>1, <1>2

LEMMA ShapeInvariant == Spec => []Shape
  BY StartFits, ShapeStep, PTL DEF Spec

\* Whatever any number of devices do at once, and whatever is lost on the way:
\* the settings and the home page are drawn for a user who is signed in, the
\* other forms for nobody, and the second factor's section is in its step for
\* codes with codes to show, and in the step for a new secret with one.
THEOREM PagesAreDrawn == Spec => []TypeOK
<1>1. Shape => TypeOK
  <2> SUFFICES ASSUME Shape, NEW d \in Devices
               PROVE  /\ page[d].at \in {"loading", "login", "register", "home", "settings"}
                      /\ page[d].factor.step \in {"idle", "setup", "codes"}
                      /\ (page[d].factor.step = "setup") = (page[d].factor.offered \in Calls)
                      /\ (page[d].factor.step = "codes") = (page[d].factor.shown \in Calls)
                      /\ page[d].at \in {"home", "settings"} <=> user[d] # Nothing
                      /\ list[d] \in [rows : (SUBSET Providers) \cup {Nothing}, stale : BOOLEAN]
    BY DEF TypeOK, Shape, ServerTypes
  <2>1. page[d] \in Page /\ PageFits(page[d], user[d], part)
    BY DEF Shape, ClientTypes
  <2>2. page[d].factor \in Factor /\ SectionFits(page[d].factor)
    BY <2>1 DEF Page, PageFits
  <2>3. page[d].factor.step \in {"idle", "setup", "codes"}
        /\ page[d].at \in {"loading", "login", "register", "home", "settings"}
    BY <2>1, <2>2 DEF Page, Factor
  <2>4. page[d].at \in {"home", "settings"} <=> user[d] # Nothing
    BY <2>1 DEF PageFits
  <2>5. list[d] \in [rows : (SUBSET Providers) \cup {Nothing}, stale : BOOLEAN]
    BY DEF Shape, ServerTypes, Connections
  <2> QED
    BY <2>2, <2>3, <2>4, <2>5 DEF SectionFits
<1> QED
  BY <1>1, ShapeInvariant, PTL

-----------------------------------------------------------------------------
(* The profile's form.  As long as it was not drawn over a changed user,   *)
(* what differs from the user was typed.                                   *)

FormFits(p, u, w) ==
    p.at = "settings" /\ w = "profile" /\ ~p.form.drift =>
       /\ p.form.name # u.name => "name" \in p.form.typed
       /\ p.form.mail # u.mail => "mail" \in p.form.typed

Untyped == \A d \in Devices : FormFits(page[d], user[d], part)

FormInv == Untyped /\ SavesSendOnlyTyped

LEMMA EditKeepsForm ==
    ASSUME ClientTypes, Untyped, NEW d \in Devices, NEW p, FormFits(p, user[d], part),
           page' = [page EXCEPT ![d] = p], UNCHANGED <<user, part>>
    PROVE  Untyped'
<1>1. page'[d] = p /\ \A e \in Devices : e # d => page'[e] = page[e]
  BY DEF ClientTypes
<1> QED
  BY <1>1 DEF Untyped

LEMMA TouchKeepsForm ==
    ASSUME ClientTypes, Untyped, NEW d \in Devices, NEW p, p.at = page[d].at, p.form = page[d].form,
           page' = [page EXCEPT ![d] = p], UNCHANGED <<user, part>>
    PROVE  Untyped'
<1>1. FormFits(p, user[d], part)
  BY DEF Untyped, FormFits
<1> QED
  BY <1>1, EditKeepsForm

LEMMA SetUserKeepsForm ==
    ASSUME ClientTypes, Untyped, NEW d \in Devices, NEW u, NEW p \in Page, PageFits(p, user[d], part),
           p.at = page[d].at, p.form = page[d].form, SetUser(d, u, p), UNCHANGED part
    PROVE  Untyped'
<1> DEFINE r == Drifting(p, u, user[d])
           q == Routed(r, u)
<1>1. user' = [user EXCEPT ![d] = u] /\ page' = [page EXCEPT ![d] = q]
  BY DEF SetUser
<1>2. FormFits(p, user[d], part)
  BY DEF Untyped, FormFits
<1>3. r \in Page /\ PageFits(r, user[d], part) /\ r.at = p.at /\ (r.form.drift \/ r = p)
  BY DriftFits
<1>4. p.form # NoForm /\ u # user[d] => r.form.drift
  <2> DEFINE g == [p.form EXCEPT !.drift = TRUE]
  <2>1. g.drift
    BY DEF Page, ProfileForm
  <2>2. p.form.drift \/ TRUE = TRUE
    OBVIOUS
  <2>3. ASSUME p.form # NoForm, u # user[d]
        PROVE  r = [p EXCEPT !.form = g]
    BY <2>3 DEF Drifting
  <2> HIDE DEF g, r
  <2>4. [p EXCEPT !.form = g].form = g
    BY DEF Page
  <2> QED
    BY <2>1, <2>3, <2>4
<1>5. p.at = "settings" /\ part = "profile" => p.form # NoForm
  BY AccountPagesAssumption DEF PageFits, NoForm
<1>6. FormFits(r, u, part)
  BY <1>2, <1>3, <1>4, <1>5 DEF FormFits
<1> HIDE DEF r
<1>7. q.at # "settings" \/ q = r
  BY <1>3, RoutedFits
<1> HIDE DEF q
<1>8. FormFits(q, u, part)
  BY <1>6, <1>7 DEF FormFits
<1>9. page'[d] = q /\ user'[d] = u
      /\ \A e \in Devices : e # d => page'[e] = page[e] /\ user'[e] = user[e]
  BY <1>1 DEF ClientTypes
<1> QED
  BY <1>8, <1>9 DEF Untyped

LEMMA ByHandForm ==
    ASSUME Shape, Untyped, NEW d \in Devices, ByHand(d)
    PROVE  Untyped'
<1>1. ClientTypes /\ page[d] \in Page /\ PageFits(page[d], user[d], part)
      /\ user[d] \in Person(part) \cup {Nothing}
  BY DEF Shape, ClientTypes
<1>2. CASE OpenSettings(d)
  <2> DEFINE p == Opened(user[d], page[d].visit + 1)
             g == [NoForm EXCEPT !.name = user[d].name, !.mail = user[d].mail]
  <2>1. part = "profile" => p.form = g
    BY DEF Opened, Blank
  <2>2. g.name = user[d].name /\ g.mail = user[d].mail
    BY DEF NoForm
  <2> HIDE DEF g
  <2>3. FormFits(p, user[d], part)
    BY <2>1, <2>2 DEF FormFits
  <2>4. page' = [page EXCEPT ![d] = p] /\ UNCHANGED <<user, part>>
    BY <1>2 DEF OpenSettings
  <2> HIDE DEF p
  <2> QED
    BY <1>1, <2>3, <2>4, EditKeepsForm
<1>3. CASE LeaveSettings(d) \/ GoToRegister(d)
  <2>1. PICK at \in {"home", "register"} :
           page' = [page EXCEPT ![d] = Blank(at, page[d].visit)] /\ UNCHANGED <<user, part>>
    BY <1>3 DEF LeaveSettings, GoToRegister
  <2>2. FormFits(Blank(at, page[d].visit), user[d], part)
    BY DEF Blank, FormFits
  <2> QED
    BY <1>1, <2>1, <2>2, EditKeepsForm
<1>4. CASE Logout(d) \/ SessionEnds(d)
  BY <1>4 DEF Logout, SessionEnds, Untyped
<1>5. ASSUME NEW field \in Fields, NEW value, TypeProfile(d, field, value)
      PROVE  Untyped'
  <2> DEFINE g == [page[d].form EXCEPT ![field] = value, !.typed = @ \cup {field}]
             p == [page[d] EXCEPT !.form = g]
  <2>1. page' = [page EXCEPT ![d] = p] /\ UNCHANGED <<user, part>>
    BY <1>5 DEF TypeProfile
  <2>2. page[d].form \in ProfileForm
    BY <1>1 DEF Page
  <2>3. /\ g.drift = page[d].form.drift /\ g.typed = page[d].form.typed \cup {field}
        /\ field # "name" => g.name = page[d].form.name
        /\ field # "mail" => g.mail = page[d].form.mail
    BY <2>2 DEF ProfileForm, Fields
  <2> HIDE DEF g
  <2>4. p.at = page[d].at /\ p.form = g
    BY <1>1 DEF Page
  <2> HIDE DEF p
  <2>5. FormFits(page[d], user[d], part)
    BY DEF Untyped
  <2>6. FormFits(p, user[d], part)
    BY <2>3, <2>4, <2>5 DEF FormFits, Fields
  <2> QED
    BY <1>1, <2>1, <2>6, EditKeepsForm
<1>6. CASE (\E password \in BOOLEAN : SaveProfile(d, password)) \/ (\E name \in Names : Register(d, name))
  <2> DEFINE p == [page[d] EXCEPT !.saving = TRUE]
  <2>1. page' = [page EXCEPT ![d] = p] /\ UNCHANGED <<user, part>>
    BY <1>6 DEF SaveProfile, Register
  <2>2. p.at = page[d].at /\ p.form = page[d].form
    BY <1>1 DEF Page
  <2> HIDE DEF p
  <2> QED
    BY <1>1, <2>1, <2>2, TouchKeepsForm
<1>7. ASSUME NEW id \in Providers, Unlink(d, id)
      PROVE  Untyped'
  <2> DEFINE p == [page[d] EXCEPT !.unlinking = TRUE]
  <2>1. page' = [page EXCEPT ![d] = p] /\ UNCHANGED <<user, part>>
    BY <1>7 DEF Unlink
  <2>2. p.at = page[d].at /\ p.form = page[d].form
    BY <1>1 DEF Page
  <2> HIDE DEF p
  <2> QED
    BY <1>1, <2>1, <2>2, TouchKeepsForm
<1>8. ASSUME NEW id \in Providers, Link(d, id)
      PROVE  Untyped'
  <2>1. page' = [page EXCEPT ![d] = Blank("loading", page[d].visit)] /\ UNCHANGED part
        /\ user' = [user EXCEPT ![d] = Nothing]
    BY <1>8 DEF Link
  <2>2. page'[d].at # "settings"
        /\ \A e \in Devices : e # d => page'[e] = page[e] /\ user'[e] = user[e]
    BY <1>1, <2>1 DEF ClientTypes, Blank
  <2> QED
    BY <2>1, <2>2 DEF Untyped, FormFits
<1>9. CASE \E c \in NextCalls : \/ Setup(d, c) \/ Enable(d, c) \/ DisableOrRenew(d, c)
                               \/ LogIn(d, c) \/ Verify(d, c)
  <2> DEFINE p == [page[d] EXCEPT !.busy = TRUE]
  <2>1. page' = [page EXCEPT ![d] = p] /\ UNCHANGED <<user, part>>
    BY <1>9 DEF Setup, Enable, DisableOrRenew, LogIn, Verify, Send
  <2>2. p.at = page[d].at /\ p.form = page[d].form
    BY <1>1 DEF Page
  <2> HIDE DEF p
  <2> QED
    BY <1>1, <2>1, <2>2, TouchKeepsForm
<1>10. CASE CancelSetup(d) \/ CodesSaved(d)
  <2>1. PICK f : page' = [page EXCEPT ![d] = [page[d] EXCEPT !.factor = f]] /\ UNCHANGED <<user, part>>
    BY <1>10 DEF CancelSetup, CodesSaved
  <2> DEFINE p == [page[d] EXCEPT !.factor = f]
  <2>2. p.at = page[d].at /\ p.form = page[d].form
    BY <1>1 DEF Page
  <2>3. page' = [page EXCEPT ![d] = p]
    BY <2>1
  <2> HIDE DEF p
  <2> QED
    BY <1>1, <2>1, <2>2, <2>3, TouchKeepsForm
<1>11. CASE BackToPassword(d)
  <2> DEFINE p == [page[d] EXCEPT !.token = NoCall]
  <2>1. page' = [page EXCEPT ![d] = p] /\ UNCHANGED <<user, part>>
    BY <1>11 DEF BackToPassword
  <2>2. p.at = page[d].at /\ p.form = page[d].form
    BY <1>1 DEF Page
  <2> HIDE DEF p
  <2> QED
    BY <1>1, <2>1, <2>2, TouchKeepsForm
<1> QED
  BY <1>2, <1>3, <1>4, <1>5, <1>6, <1>7, <1>8, <1>9, <1>10, <1>11 DEF ByHand, Fields

LEMMA OnTheWayForm ==
    ASSUME Shape, Untyped, NEW m \in wires, OnTheWay(m)
    PROVE  Untyped'
<1> DEFINE d == m.dev
<1>1. ClientTypes /\ MessageFits(m, part) /\ d \in Devices
  BY MessageKinds DEF Shape, WireTypes
<1>2. page[d] \in Page /\ PageFits(page[d], user[d], part)
  BY <1>1 DEF ClientTypes
<1>3. ASSUME NEW visit, page' = [page EXCEPT ![d] = Released(d, visit)], UNCHANGED <<user, part>>
      PROVE  Untyped'
  BY <1>1, <1>3, ReleasedFits, TouchKeepsForm
<1>4. CASE \/ AnswerMe(m) \/ EndSession(m) \/ WritePassword(m) \/ WriteFields(m) \/ HearSaved(m)
           \/ AnswerList(m) \/ DeleteConnection(m)
           \/ CheckUsername(m) \/ CountUsers(m) \/ CreateUser(m)
  <2>1. UNCHANGED <<user, page, part>>
    BY <1>4 DEF AnswerMe, EndSession, WritePassword, WriteFields, HearSaved, AnswerList,
                DeleteConnection, CheckUsername, CountUsers, CreateUser
  <2> QED
    BY <2>1 DEF Untyped
<1>5. CASE HearMe(m)
  <2> DEFINE p == IF m.why = "save" THEN Released(d, m.visit) ELSE page[d]
  <2>1. SetUser(d, m.told, p) /\ UNCHANGED part
    BY <1>5 DEF HearMe
  <2>2. p \in Page /\ PageFits(p, user[d], part) /\ p.at = page[d].at /\ p.form = page[d].form
    BY <1>1, <1>2, ReleasedFits
  <2> HIDE DEF p, d
  <2> QED
    BY <1>1, <2>1, <2>2, SetUserKeepsForm
<1>6. CASE MissMe(m)
  <2>1. CASE m.why = "mount"
    <3>1. SetUser(d, Nothing, page[d]) /\ UNCHANGED part
      BY <1>6, <2>1 DEF MissMe
    <3> QED
      BY <1>1, <1>2, <3>1, SetUserKeepsForm
  <2>2. CASE m.why # "mount"
    <3>1. /\ page' = [page EXCEPT ![d] = IF m.why = "save" THEN Released(d, m.visit) ELSE @]
          /\ UNCHANGED <<user, part>>
      BY <1>6, <2>2 DEF MissMe
    <3>2. CASE m.why = "save"
      BY <1>3, <3>1, <3>2
    <3>3. CASE m.why # "save"
      BY <1>1, <3>1, <3>3, TouchKeepsForm
    <3> QED
      BY <3>2, <3>3
  <2> QED
    BY <2>1, <2>2
<1>7. CASE HearLogout(m)
  <2>1. SetUser(d, Nothing, page[d]) /\ UNCHANGED part
    BY <1>7 DEF HearLogout
  <2> QED
    BY <1>1, <1>2, <2>1, SetUserKeepsForm
<1>8. CASE MissSaved(m)
  BY <1>3, <1>8 DEF MissSaved
<1>9. CASE HearList(m) \/ MissList(m) \/ HearUnlinked(m) \/ MissUnlinked(m)
  <2>0. PICK u : /\ page' = [page EXCEPT ![d] = [page[d] EXCEPT !.unlinking = page[d].unlinking /\ u]]
                 /\ UNCHANGED <<user, part>>
    BY <1>9, ButtonsOnly
  <2> DEFINE p == [page[d] EXCEPT !.unlinking = page[d].unlinking /\ u]
  <2>1. page' = [page EXCEPT ![d] = p] /\ UNCHANGED <<user, part>>
    BY <2>0
  <2>2. p.at = page[d].at /\ p.form = page[d].form
    BY <1>2 DEF Page
  <2> HIDE DEF p, d
  <2> QED
    BY <1>1, <2>1, <2>2, TouchKeepsForm
<1>10. CASE HearRegistered(m) \/ MissRegistered(m)
  <2>1. part = "register"
    BY <1>1, <1>10 DEF HearRegistered, MissRegistered, MessageFits
  <2>2. UNCHANGED part
    BY <1>10 DEF HearRegistered, MissRegistered
  <2> QED
    BY <2>1, <2>2 DEF Untyped, FormFits
<1> QED
  BY <1>4, <1>5, <1>6, <1>7, <1>8, <1>9, <1>10 DEF OnTheWay

\* No call is made while the profile is worked on.
LEMMA OfCallForm ==
    ASSUME Shape, Untyped, NEW c \in Calls, OfCall(c)
    PROVE  Untyped'
<1>1. CASE Serve(c) \/ ServeFails(c) \/ TokenRunsOut(c)
  <2>1. UNCHANGED <<user, page, part>>
    BY <1>1 DEF Serve, ServeFails, TokenRunsOut
  <2> QED
    BY <2>1 DEF Untyped
<1>2. CASE HearChange(c) \/ HearLogin(c) \/ HearNoLogin(c) \/ LoseCall(c)
  <2>1. Waits(c) /\ UNCHANGED part
    BY <1>2 DEF HearChange, HearLogin, HearNoLogin, LoseCall
  <2>2. part = "factor"
    BY <2>1 DEF Shape, CallerTypes, CallFits, Waits
  <2> QED
    BY <2>1, <2>2 DEF Untyped, FormFits
<1> QED
  BY <1>1, <1>2 DEF OfCall

LEMMA FormStep ==
    ASSUME Shape, Untyped, Next
    PROVE  Untyped'
  BY ByHandForm, OnTheWayForm, OfCallForm DEF Next

\* A save is on the way as it was sent.
SameSave(m, b) ==
    b.kind = "save" /\ m.dev = b.dev /\ m.fields = b.fields /\ m.typed = b.typed /\ m.drift = b.drift

LEMMA SavesOnTheWay ==
    ASSUME Shape, Next, NEW m \in wires', m.kind = "save"
    PROVE  \/ m \in wires
           \/ \E b \in wires : SameSave(m, b) /\ (m.at = "ok" => WriteFields(b))
           \/ \E d \in Devices : /\ part = "profile" /\ page[d].at = "settings" /\ m.at = "sent"
                                 /\ DOMAIN m.fields = Changed(d) /\ m.typed = page[d].form.typed
                                 /\ m.drift = page[d].form.drift
<1>1. CASE m \in wires
  BY <1>1
<1>2. CASE m \notin wires
  <2>1. ASSUME NEW d \in Devices, ByHand(d)
        PROVE  \E password \in BOOLEAN : SaveProfile(d, password)
    <3>1. CASE wires' = wires
      BY <1>2, <3>1
    <3>2. CASE OpenSettings(d)
      BY <1>2, <3>2 DEF OpenSettings, FetchList
    <3>3. CASE Logout(d) \/ \E id \in Providers : Unlink(d, id) \/ Link(d, id)
      BY <1>2, <3>3 DEF Logout, Unlink, Link, Refresh
    <3>4. CASE \E name \in Names : Register(d, name)
      BY SMTT(60), <1>2, <3>4 DEF Register
    <3>5. \/ \E c \in NextCalls : \/ Setup(d, c) \/ Enable(d, c) \/ DisableOrRenew(d, c)
                               \/ LogIn(d, c) \/ Verify(d, c)
          \/ LeaveSettings(d) \/ GoToRegister(d) \/ SessionEnds(d)
          \/ \E name \in Names : TypeProfile(d, "name", name)
          \/ \E mail \in Mails : TypeProfile(d, "mail", mail)
          \/ CancelSetup(d) \/ CodesSaved(d) \/ BackToPassword(d)
          => wires' = wires
      BY DEF LeaveSettings, GoToRegister, SessionEnds, TypeProfile, CancelSetup, CodesSaved,
             BackToPassword, Setup, Enable, DisableOrRenew, LogIn, Verify, Send
    <3> QED
      BY <2>1, <3>1, <3>2, <3>3, <3>4, <3>5 DEF ByHand
  <2>2. ASSUME NEW d \in Devices, NEW password \in BOOLEAN, SaveProfile(d, password)
        PROVE  /\ part = "profile" /\ page[d].at = "settings" /\ m.at = "sent"
               /\ DOMAIN m.fields = Changed(d) /\ m.typed = page[d].form.typed
               /\ m.drift = page[d].form.drift
    BY <1>2, <2>2 DEF SaveProfile
  <2>3. ASSUME NEW b \in wires, OnTheWay(b)
        PROVE  SameSave(m, b) /\ (m.at = "ok" => WriteFields(b))
    <3>1. MessageFits(b, part)
      BY DEF Shape, WireTypes
    <3>2. CASE WritePassword(b)
      <4>1. m = [b EXCEPT !.at = "fields"] /\ b.kind = "save"
        BY <1>2, <3>2 DEF WritePassword
      <4>2. b \in SaveMessage
        BY <3>1, <4>1, MessageKinds
      <4> QED
        BY <4>1, <4>2 DEF SameSave, SaveMessage
    <3>3. CASE WriteFields(b)
      <4>1. m = [b EXCEPT !.at = "ok"] /\ b.kind = "save"
        BY <1>2, <3>3 DEF WriteFields
      <4>2. b \in SaveMessage
        BY <3>1, <4>1, MessageKinds
      <4> QED
        BY <3>3, <4>1, <4>2 DEF SameSave, SaveMessage
    <3>4. CASE AnswerMe(b)
      <4>1. m = [b EXCEPT !.told = Me] /\ b.kind = "me"
        BY <1>2, <3>4 DEF AnswerMe
      <4>2. b \in MeMessage(part)
        BY <3>1, <4>1, MessageKinds
      <4> QED
        BY <4>1, <4>2 DEF MeMessage
    <3>5. CASE EndSession(b)
      <4>1. m = [b EXCEPT !.at = "ok"] /\ b.kind = "logout"
        BY <1>2, <3>5 DEF EndSession
      <4>2. b \in LogoutMessage
        BY <3>1, <4>1, MessageKinds
      <4> QED
        BY <4>1, <4>2 DEF LogoutMessage
    <3>6. CASE HearSaved(b)
      BY <1>2, <3>6 DEF HearSaved, Refresh
    <3>7. CASE AnswerList(b)
      <4>1. m = [b EXCEPT !.told = linked] /\ b.kind = "list"
        BY <1>2, <3>7 DEF AnswerList
      <4>2. b \in ListMessage
        BY <3>1, <4>1, MessageKinds
      <4> QED
        BY <4>1, <4>2 DEF ListMessage
    <3>8. CASE DeleteConnection(b)
      <4>1. m = [b EXCEPT !.at = "ok"] /\ b.kind = "unlink"
        BY <1>2, <3>8 DEF DeleteConnection
      <4>2. b \in UnlinkMessage
        BY <3>1, <4>1, MessageKinds
      <4> QED
        BY <4>1, <4>2 DEF UnlinkMessage
    <3>9. CASE HearUnlinked(b)
      BY <1>2, <3>9 DEF HearUnlinked, FetchList
    <3>10. CASE CheckUsername(b) \/ CountUsers(b) \/ CreateUser(b)
      <4>1. b \in Registration
        BY <3>1, <3>10, MessageKinds DEF CheckUsername, CountUsers, CreateUser
      <4>2. \A at, role : [b EXCEPT !.at = at].kind = "register"
                          /\ [b EXCEPT !.at = at, !.role = role].kind = "register"
        BY <4>1 DEF Registration
      <4>3. CASE CheckUsername(b) \/ CreateUser(b)
        <5>1. PICK at : m = [b EXCEPT !.at = at]
          BY <1>2, <4>3 DEF CheckUsername, CreateUser
        <5> QED
          BY <4>2, <5>1
      <4>4. CASE CountUsers(b)
        <5>1. PICK role : m = [b EXCEPT !.at = "counted", !.role = role]
          BY <1>2, <4>4 DEF CountUsers
        <5> QED
          BY <4>2, <5>1
      <4> QED
        BY <3>10, <4>3, <4>4
    <3>11. CASE \/ HearMe(b) \/ MissMe(b) \/ HearLogout(b) \/ MissSaved(b) \/ HearList(b) \/ MissList(b)
                \/ MissUnlinked(b) \/ HearRegistered(b) \/ MissRegistered(b)
      BY <1>2, <3>11 DEF HearMe, MissMe, HearLogout, MissSaved, HearList, MissList, MissUnlinked,
                HearRegistered, MissRegistered
    <3> QED
      BY <2>3, <3>2, <3>3, <3>4, <3>5, <3>6, <3>7, <3>8, <3>9, <3>10, <3>11 DEF OnTheWay
  <2>4. ASSUME NEW c \in Calls, OfCall(c)
        PROVE  FALSE
    <3>1. CASE HearChange(c)
      BY <1>2, <3>1 DEF HearChange, Refresh
    <3>2. CASE Serve(c) \/ ServeFails(c) \/ TokenRunsOut(c) \/ HearLogin(c) \/ HearNoLogin(c) \/ LoseCall(c)
      BY <1>2, <3>2 DEF Serve, ServeFails, TokenRunsOut, HearLogin, HearNoLogin, LoseCall
    <3> QED
      BY <2>4, <3>1, <3>2 DEF OfCall
  <2> QED
    BY <2>1, <2>2, <2>3, <2>4 DEF Next
<1> QED
  BY <1>1, <1>2

LEMMA SavesStep ==
    ASSUME Shape, FormInv, Next
    PROVE  SavesSendOnlyTyped'
<1> SUFFICES ASSUME NEW m \in wires', m.kind = "save", ~m.drift
             PROVE  DOMAIN m.fields \subseteq m.typed
  BY DEF SavesSendOnlyTyped
<1>1. CASE m \in wires
  BY <1>1 DEF FormInv, SavesSendOnlyTyped
<1>2. CASE \E b \in wires : SameSave(m, b)
  BY <1>2 DEF FormInv, SavesSendOnlyTyped, SameSave
<1>3. ASSUME NEW d \in Devices, part = "profile", page[d].at = "settings",
             DOMAIN m.fields = Changed(d), m.typed = page[d].form.typed, m.drift = page[d].form.drift
      PROVE  DOMAIN m.fields \subseteq m.typed
  BY <1>3 DEF FormInv, Untyped, FormFits, Changed
<1> QED
  BY <1>1, <1>2, <1>3, SavesOnTheWay

\* However the user of a page changes under its profile's form, by other tabs'
\* saves, by logins and refreshes, a save sends only what was typed, unless the
\* form was left standing over a changed user.
THEOREM TypedFieldsAreSent == Spec => []SavesSendOnlyTyped
<1>1. Init => FormInv
  BY DEF Init, FormInv, Untyped, FormFits, SavesSendOnlyTyped, Refresh, Blank
<1>2. Shape /\ FormInv /\ [Next]_vars => FormInv'
  <2>1. CASE UNCHANGED vars
    BY <2>1 DEF vars, FormInv, Untyped, SavesSendOnlyTyped
  <2>2. CASE Shape /\ FormInv /\ Next
    BY <2>2, FormStep, SavesStep DEF FormInv
  <2> QED
    BY <2>1, <2>2
<1>3. FormInv => SavesSendOnlyTyped
  BY DEF FormInv
<1> QED
  BY <1>1, <1>2, <1>3, ShapeInvariant, PTL DEF Spec

-----------------------------------------------------------------------------
(* The switch.  A section that has written it last shows it as it is, or   *)
(* waits for the answer that will tell.                                    *)

\* The call has written the switch.
Written(c) ==
    \/ calls[c].kind \in {"setup", "disable"} /\ calls[c].at \in {"purge", "insert", "ok"}
    \/ calls[c].kind = "enable" /\ calls[c].at = "ok"

Tells(d, c) == Asks(d, c) /\ Written(c)

SwitchFits(d) ==
    page[d].at = "settings" /\ Clear(d) /\ past.turner = <<d, page[d].visit>> =>
       /\ \A c \in Calls : Tells(d, c) => enabled = (calls[c].kind = "enable")
       /\ (\A c \in Calls : ~Tells(d, c)) => page[d].factor.on = enabled

Switch == \A d \in Devices : SwitchFits(d)

\* A page that the last writer of the switch is on has not been opened since.
LEMMA TurnerStays ==
    ASSUME Shape, NEW d \in Devices, Turned(d), page'[d].at = "settings",
           past.turner = <<d, page'[d].visit>>
    PROVE  /\ page[d].at = "settings" /\ page'[d].visit = page[d].visit
           /\ page'[d].busy = page[d].busy /\ page'[d].factor = page[d].factor
<1>1. page[d].visit \in Nat
  BY DEF Shape, ClientTypes, Page
<1>2. page'[d].visit # page[d].visit + 1
  BY <1>1 DEF Shape, VisitsFit
<1> QED
  BY <1>2 DEF Turned

LEMMA AsksStill ==
    ASSUME NEW d \in Devices, NEW c \in Calls, Asks(d, c), GoesOn(c), Waits(c)',
           page'[d].at = "settings", page'[d].visit = page[d].visit
    PROVE  Asks(d, c)'
  BY DEF Asks, GoesOn, Waits

\* What keeps the switch in step with a section.
LEMMA SwitchKept ==
    ASSUME NEW d \in Devices, SwitchFits(d), Clear(d), UNCHANGED enabled,
           past'.turner = past.turner, page[d].at = "settings", page'[d].visit = page[d].visit,
           page'[d].factor.on = page[d].factor.on,
           \A c \in Calls : Tells(d, c)' <=> Tells(d, c),
           \A c \in Calls : Asks(d, c)' => calls'[c].kind = calls[c].kind
    PROVE  SwitchFits(d)'
  BY DEF SwitchFits, Tells

LEMMA SwitchStep ==
    ASSUME Shape, Switch, Next, NEW d \in Devices, page'[d].at = "settings", Clear(d)',
           past'.turner = <<d, page'[d].visit>>
    PROVE  SwitchFits(d)'
<1>1. ClientTypes /\ CallerTypes /\ TwoFactorTypeOK /\ OneAtATime /\ past \in Past /\ past' \in Past
  BY PastStep DEF Shape
<1>2. SwitchFits(d)
  BY DEF Switch
<1>3. ASSUME past.blurred \subseteq past'.blurred
      PROVE  Clear(d)
  BY <1>3 DEF Clear
<1>4. CASE Aside
  <2>1. Clear(d) /\ past'.turner = past.turner /\ Turned(d) /\ UNCHANGED <<enabled, calls, caller>>
    BY <1>3, <1>4 DEF Aside
  <2>2. /\ page[d].at = "settings" /\ page'[d].visit = page[d].visit
        /\ page'[d].busy = page[d].busy /\ page'[d].factor = page[d].factor
    BY <2>1, TurnerStays
  <2>3. \A c \in Calls : (Tells(d, c)' <=> Tells(d, c)) /\ calls'[c].kind = calls[c].kind
    BY <2>1, <2>2 DEF Tells, Asks, Waits, Written
  <2> QED
    BY <1>2, <2>1, <2>2, <2>3, SwitchKept
<1>5. ASSUME NEW e \in Devices, NEW c \in NextCalls, Sends5(e, c)
      PROVE  SwitchFits(d)'
  <2>1. PICK kind \in Kinds, code \in Code \cup {NoCall}, token \in Calls \cup {NoCall} :
            Send(e, c, kind, code, token) /\ MaySend(e, kind) /\ c \in Calls
    BY <1>5, SentAsAllowed
  <2> DEFINE p == [page[e] EXCEPT !.busy = TRUE]
  <2>2. /\ calls[c].at = "idle" /\ calls'[c].at = "sent"
        /\ \A b \in Calls : b # c => calls'[b] = calls[b] /\ caller'[b] = caller[b]
        /\ page' = [page EXCEPT ![e] = p] /\ UNCHANGED enabled
    BY ZenonT(60), <2>1, SentCall
  <2>3. p.at = page[e].at /\ p.visit = page[e].visit /\ p.factor = page[e].factor
    BY <1>1 DEF ClientTypes, Page
  <2> HIDE DEF p
  <2>4. page'[d].at = page[d].at /\ page'[d].visit = page[d].visit /\ page'[d].factor = page[d].factor
    BY <1>1, <2>2, <2>3 DEF ClientTypes
  <2>5. past'.turner = past.turner /\ past.blurred = past'.blurred
    BY <1>1, <2>1 DEF Send, Past
  <2>6. ~Written(c) /\ ~Written(c)'
    BY <2>2 DEF Written
  <2>7. \A b \in Calls : b # c => (Tells(d, b)' <=> Tells(d, b)) /\ calls'[b].kind = calls[b].kind
    BY <2>2, <2>4 DEF Tells, Asks, Waits, Written
  <2>8. ~Tells(d, c) /\ ~Tells(d, c)'
    BY <2>6 DEF Tells
  <2>9. SwitchFits(d)'
    <3>1. Clear(d) /\ past.turner = <<d, page[d].visit>> /\ page[d].at = "settings"
      BY <1>3, <2>4, <2>5
    <3>2. \A b \in Calls : Tells(d, b)' => b # c
      BY <2>8
    <3>3. \A b \in Calls : Tells(d, b) => b # c
      BY <2>8
    <3> QED
      BY <1>2, <2>2, <2>4, <2>7, <3>1, <3>2, <3>3 DEF SwitchFits
  <2> QED
    BY <2>9
<1>6. ASSUME NEW e \in Devices, CancelSetup(e) \/ CodesSaved(e)
      PROVE  SwitchFits(d)'
  <2>1. UNCHANGED <<calls, caller, enabled>> /\ past' = past
    BY <1>6 DEF CancelSetup, CodesSaved, twoFactorVars
  <2>2. page[e] \in Page
    BY <1>1 DEF ClientTypes
  <2> DEFINE f == [page[e].factor EXCEPT !.step = "idle", !.offered = NoCall]
             g == [page[e].factor EXCEPT !.step = "idle", !.shown = NoCall]
             p(h) == [page[e] EXCEPT !.factor = h]
  <2>3. page' = [page EXCEPT ![e] = p(f)] \/ page' = [page EXCEPT ![e] = p(g)]
    BY <1>6 DEF CancelSetup, CodesSaved
  <2>4. f.on = page[e].factor.on /\ g.on = page[e].factor.on
    BY <2>2 DEF Page, Factor
  <2> HIDE DEF f, g
  <2>5. page'[d].at = page[d].at /\ page'[d].visit = page[d].visit
        /\ page'[d].factor.on = page[d].factor.on
    BY <1>1, <2>2, <2>3, <2>4 DEF ClientTypes, Page
  <2>6. \A c \in Calls : (Tells(d, c)' <=> Tells(d, c)) /\ calls'[c].kind = calls[c].kind
    BY <2>1, <2>5 DEF Tells, Asks, Waits, Written
  <2>7. Clear(d) /\ page[d].at = "settings"
    BY <2>1, <2>5 DEF Clear
  <2> QED
    BY <1>2, <2>1, <2>5, <2>6, <2>7, SwitchKept
<1>7. ASSUME NEW c \in Calls, Serve(c)
      PROVE  SwitchFits(d)'
  <2>1. Moved(c) /\ Effects(c) /\ UNCHANGED page
    BY <1>1, <1>7, HandleMoves DEF Serve
  <2>2. /\ \A b \in Calls : GoesOn(b)
        /\ Waits(c) /\ caller'[c] # Free
        /\ \A b \in Calls : b # c => caller'[b] = caller[b] /\ calls'[b] = calls[b]
    BY <1>7, ServedGoesOn
  <2>3. /\ past'.turner = IF calls[c].at = "write" THEN <<caller[c].dev, caller[c].visit>> ELSE past.turner
        /\ past'.blurred = past.blurred
    BY <1>1, <1>7 DEF Serve, Past
  <2>4. Clear(d) /\ CallFits(calls[c], caller[c], part) /\ caller[c].dev \in Devices
        /\ caller[c].visit \in Nat
    BY <1>1, <1>3, <2>2, <2>3, AskersWait DEF CallerTypes, Asking
  <2>5. CASE calls[c].at = "write"
    <3>1. caller[c].dev = d /\ caller[c].visit = page'[d].visit
      BY <2>3, <2>4, <2>5
    <3>2. calls[c].kind \in {"setup", "enable", "disable"}
      BY <2>4, <2>5 DEF CallFits
    <3>3. Asks(d, c)
      BY <2>1, <2>2, <3>1, <3>2 DEF Asks, Changing
    <3>4. Asks(d, c)'
      BY <2>1, <2>2, <3>3, AsksStill DEF Waits, Asks
    <3>5. Written(c)' /\ calls'[c].kind = calls[c].kind
      BY <2>1, <2>5, <3>2 DEF Moved, Follows, Written
    <3>6. \A b \in Calls : Asks(d, b) => b = c
      BY <1>1, <3>3 DEF OneAtATime
    <3>7. \A b \in Calls : Asks(d, b)' => b = c
      BY <2>1, <2>2, <3>6 DEF Asks, GoesOn, Waits
    <3>8. enabled' = (calls[c].kind = "enable")
      BY <2>1, <2>5 DEF Effects
    <3> QED
      BY <3>4, <3>5, <3>7, <3>8 DEF SwitchFits, Tells
  <2>6. CASE calls[c].at # "write"
    <3>1. past'.turner = past.turner /\ enabled' = enabled
      BY <2>1, <2>3, <2>6 DEF Effects
    <3>2. Asks(d, c)' <=> Asks(d, c)
      BY <2>1, <2>2 DEF Asks, GoesOn, Waits
    <3>3. Written(c)' <=> Written(c)
      BY <2>1, <2>4, <2>6 DEF Moved, Follows, CallFits, Written
    <3>4. \A b \in Calls : b # c => (Tells(d, b)' <=> Tells(d, b)) /\ calls'[b].kind = calls[b].kind
      BY <2>1, <2>2 DEF Tells, Asks, Waits, Written
    <3>5. \A b \in Calls : (Tells(d, b)' <=> Tells(d, b)) /\ calls'[b].kind = calls[b].kind
      BY <2>1, <3>2, <3>3, <3>4 DEF Tells, Moved
    <3>6. /\ page[d].at = "settings" /\ page'[d].visit = page[d].visit
          /\ page'[d].factor.on = page[d].factor.on
      BY <2>1
    <3> QED
      BY <1>2, <2>4, <3>1, <3>5, <3>6, SwitchKept
  <2> QED
    BY <2>5, <2>6
<1>8. ASSUME NEW c \in Calls, ServeFails(c)
      PROVE  SwitchFits(d)'
  <2>1. /\ \A b \in Calls : GoesOn(b)
        /\ Waits(c) /\ caller'[c] # Free
        /\ \A b \in Calls : b # c => caller'[b] = caller[b] /\ calls'[b] = calls[b]
    BY <1>8, ServedGoesOn
  <2>2. /\ past'.turner = past.turner /\ past.blurred \subseteq past'.blurred
        /\ calls[c].at \in {"purge", "insert"} => caller[c].dev \in past'.blurred
    BY <1>1, <1>8 DEF ServeFails, Past
  <2>3. "refused" \in Steps
    BY DEF Steps, Over
  <2>4. calls'[c].at = "refused" /\ calls'[c].kind = calls[c].kind /\ AtWork(c) /\ UNCHANGED enabled
    BY <1>1, <1>8, <2>3, GoesTo DEF ServeFails, CallFails, rows
  <2>5. UNCHANGED page
    BY <1>8 DEF ServeFails
  <2>6. ~Tells(d, c) /\ ~Tells(d, c)'
    BY <2>2, <2>4 DEF Tells, Asks, Written, AtWork, Over, Clear
  <2>7. \A b \in Calls : b # c => (Tells(d, b)' <=> Tells(d, b)) /\ calls'[b].kind = calls[b].kind
    BY <2>1, <2>5 DEF Tells, Asks, Waits, Written
  <2>8. \A b \in Calls : (Tells(d, b)' <=> Tells(d, b)) /\ calls'[b].kind = calls[b].kind
    BY <2>4, <2>6, <2>7
  <2>9. Clear(d) /\ page[d].at = "settings" /\ page'[d].visit = page[d].visit
        /\ page'[d].factor.on = page[d].factor.on
    BY <1>3, <2>2, <2>5
  <2> QED
    BY <1>2, <2>2, <2>4, <2>8, <2>9, SwitchKept
<1>9. ASSUME NEW c \in Calls, HearChange(c) \/ HearLogin(c) \/ HearNoLogin(c) \/ LoseCall(c)
      PROVE  /\ past'.turner = past.turner /\ past.blurred \subseteq past'.blurred
             /\ LoseCall(c) => caller[c].dev \in past'.blurred
  BY <1>1, <1>9 DEF HearChange, HearLogin, HearNoLogin, LoseCall, Blurred, Past
<1>10. ASSUME NEW c \in Calls, HearChange(c) \/ HearLogin(c) \/ HearNoLogin(c) \/ LoseCall(c), ~Answered(c)
      PROVE  SwitchFits(d)'
  <2>1. /\ Waits(c) /\ UNCHANGED <<calls, enabled>>
        /\ caller'[c] = Free /\ \A b \in Calls : b # c => caller'[b] = caller[b]
    BY <1>10, HeardGoesOn
  <2>2. Turned(d) /\ Clear(d) /\ past'.turner = past.turner
    BY <1>3, <1>9, <1>10, UnansweredTurns
  <2>3. /\ page[d].at = "settings" /\ page'[d].visit = page[d].visit
        /\ page'[d].busy = page[d].busy /\ page'[d].factor = page[d].factor
    BY <2>2, TurnerStays
  <2>4. ~Asks(d, c) /\ ~Asks(d, c)'
    BY <1>10, <2>1 DEF Asks, Answered, There, HearLogin, HearNoLogin, Waits
  <2>5. \A b \in Calls : (Tells(d, b)' <=> Tells(d, b)) /\ calls'[b].kind = calls[b].kind
    BY <2>1, <2>3, <2>4 DEF Tells, Asks, Waits, Written
  <2> QED
    BY <1>2, <2>1, <2>2, <2>3, <2>5, SwitchKept
<1>11. ASSUME NEW c \in Calls, Answered(c)
       PROVE  SwitchFits(d)'
  <2>1. PICK e \in Devices :
           /\ caller[c].dev = e /\ Asks(e, c)
           /\ page'[e].at = "settings" /\ page'[e].visit = page[e].visit /\ ~page'[e].busy
           /\ HearChange(c) => page'[e].factor = Shown(page[e].factor, c)
           /\ ~HearChange(c) => page'[e].factor = page[e].factor
           /\ \A x \in Devices : x # e => page'[x] = page[x]
           /\ \A b \in Calls : Asks(e, b) => b = c
    BY <1>11, AnswerSettles
  <2>2. /\ Waits(c) /\ calls[c].at \in Over /\ UNCHANGED <<calls, enabled>>
        /\ caller'[c] = Free /\ \A b \in Calls : b # c => caller'[b] = caller[b]
    BY <1>11, HeardGoesOn DEF Answered
  <2>3. Clear(d) /\ past'.turner = past.turner /\ (LoseCall(c) => e \in past'.blurred)
    BY <1>3, <1>9, <1>11, <2>1 DEF Answered
  <2>4. CASE d # e
    <3>1. page'[d] = page[d]
      BY <2>1, <2>4
    <3>2. \A b \in Calls : (Tells(d, b)' <=> Tells(d, b)) /\ calls'[b].kind = calls[b].kind
      BY <2>1, <2>2, <2>4, <3>1 DEF Tells, Asks, Waits, Written
    <3> QED
      BY <1>2, <2>2, <2>3, <3>1, <3>2, SwitchKept
  <2>5. CASE d = e
    <3>1. HearChange(c) /\ calls[c].kind \in Changing
      BY <1>11, <2>3, <2>5 DEF Answered, Clear
    <3>2. page'[d].factor = Shown(page[d].factor, c) /\ Asks(d, c)
      BY <2>1, <2>5, <3>1
    <3>3. Asked(page[d], calls[c], caller[c]) /\ page[d].at = "settings"
      BY <1>1, <3>2 DEF OneAtATime, Asks
    <3>4. past.turner = <<d, page[d].visit>>
      BY <2>1, <2>3, <2>5
    <3>5. \A b \in Calls : ~Asks(d, b)'
      BY <2>1, <2>2, <2>5, <3>3 DEF Asks, Waits
    <3>6. Tells(d, c) => enabled = (calls[c].kind = "enable")
      BY <1>2, <2>3, <3>3, <3>4 DEF SwitchFits
    <3>7. ~Tells(d, c) => page[d].factor.on = enabled
      BY <1>2, <2>1, <2>3, <2>5, <3>3, <3>4 DEF SwitchFits, Tells
    <3>8. page[d].factor \in Factor /\ enabled \in BOOLEAN
      BY <1>1 DEF ClientTypes, Page, TwoFactorTypeOK
    <3>9. CallFits(calls[c], caller[c], part)
      BY <1>1 DEF CallerTypes
    <3>10. page'[d].factor.on = enabled
      <4>1. CASE calls[c].at = "refused"
        <5>1. ~Tells(d, c)
          BY <4>1 DEF Tells, Written
        <5> QED
          BY <3>2, <3>7, <4>1, <5>1 DEF Shown
      <4>2. CASE calls[c].at = "ok" /\ calls[c].kind = "renew"
        <5>1. ~Tells(d, c)
          BY <4>2 DEF Tells, Written
        <5>2. Shown(page[d].factor, c).on = page[d].factor.on
          BY <3>8, <4>2 DEF Shown, Factor
        <5> QED
          BY <3>2, <3>7, <5>1, <5>2
      <4>3. CASE calls[c].at = "ok" /\ calls[c].kind = "setup"
        <5>1. Tells(d, c)
          BY <3>2, <4>3 DEF Tells, Written
        <5>2. Shown(page[d].factor, c).on = page[d].factor.on
          BY <3>8, <4>3 DEF Shown, Factor
        <5>3. page[d].factor.on = FALSE /\ enabled = FALSE
          BY <3>3, <3>6, <3>8, <4>3, <5>1 DEF Asked, Factor
        <5> QED
          BY <3>2, <5>2, <5>3
      <4>4. CASE calls[c].at = "ok" /\ calls[c].kind = "enable"
        <5>1. Tells(d, c)
          BY <3>2, <4>4 DEF Tells, Written
        <5>2. Shown(page[d].factor, c).on = TRUE
          BY <4>4 DEF Shown
        <5>3. enabled = TRUE
          BY <3>6, <4>4, <5>1
        <5> QED
          BY <3>2, <5>2, <5>3
      <4>5. CASE calls[c].at = "ok" /\ calls[c].kind = "disable"
        <5>1. Tells(d, c)
          BY <3>2, <4>5 DEF Tells, Written
        <5>2. Shown(page[d].factor, c).on = FALSE
          BY <3>8, <4>5 DEF Shown, Factor
        <5>3. enabled = FALSE
          BY <3>6, <4>5, <5>1
        <5> QED
          BY <3>2, <5>2, <5>3
      <4>6. calls[c].at \in {"ok", "refused"}
        BY <2>2, <3>1, <3>9 DEF Over, CallFits, Changing
      <4> QED
        BY <3>1, <4>1, <4>2, <4>3, <4>4, <4>5, <4>6 DEF Changing
    <3> QED
      BY <2>2, <3>5, <3>10 DEF SwitchFits, Tells
  <2> QED
    BY <2>4, <2>5
<1> QED
  BY <1>4, <1>5, <1>6, <1>7, <1>8, <1>10, <1>11, FactorSteps

\* A section that has switched the second factor last, and has its answer, shows
\* the switch as it is stored, through whatever other devices ask meanwhile and
\* however their statements and its own interleave.
THEOREM SwitchesAreSeen == Spec => []OwnSwitchIsSeen
<1>1. Init => Switch
  BY DEF Init, Switch, SwitchFits, Blank
<1>2. Shape /\ Switch /\ [Next]_vars => Switch'
  <2>1. CASE UNCHANGED vars
    BY <2>1 DEF vars, twoFactorVars, Switch, SwitchFits, Tells, Asks, Waits, Written, Clear
  <2>2. CASE Shape /\ Switch /\ Next
    <3>1. ASSUME NEW d \in Devices, ~(page'[d].at = "settings" /\ Clear(d)'
                                      /\ past'.turner = <<d, page'[d].visit>>)
          PROVE  SwitchFits(d)'
      BY <3>1 DEF SwitchFits
    <3> QED
      BY <2>2, <3>1, SwitchStep DEF Switch
  <2> QED
    BY <2>1, <2>2
<1>3. Shape /\ Switch => OwnSwitchIsSeen
  BY DEF Shape, OneAtATime, Asked, Switch, SwitchFits, Tells, OwnSwitchIsSeen
<1> QED
  BY <1>1, <1>2, <1>3, ShapeInvariant, PTL DEF Spec

-----------------------------------------------------------------------------
(* The recovery codes.  While no two changes overlap, nothing is shown     *)
(* that a change under way is about to replace.                            *)

\* The call is under way and may change the second factor.
Alters(c) == AtWork(c) /\ calls[c].kind \in Changing

\* Who waits on the device of a change under way waits in a page that was left.
LeftBehind(b, c) ==
    /\ Alters(b) /\ Waits(c) /\ calls[c].kind \in Changing /\ b # c
    /\ caller[b].dev = caller[c].dev
    => caller[c].visit < caller[b].visit

Ready(c) ==
    /\ calls[c].kind = "setup" /\ calls[c].at = "write" => ~enabled
    /\ calls[c].at = "insert" => codes = {} /\ past.renewer = caller[c].dev

ShowsNone(f, kind) == f.step # "codes" /\ (f.step = "setup" => kind = "enable")

Alone ==
    past.calm =>
       /\ \A b, c \in Calls : Alters(b) /\ Alters(c) => b = c
       /\ \A b, c \in Calls : LeftBehind(b, c)
       /\ \A c \in Calls : Ready(c)
       /\ \A c \in Calls : Alters(c) => ShowsNone(page[caller[c].dev].factor, calls[c].kind)

\* But for those that were used, the codes of x are stored, and no others.
Stored(x, table, used) == Generated(x) \ used \subseteq table /\ table \subseteq Generated(x)

CodesAhead(c) ==
    /\ calls[c].kind = "enable" => Stored(caller[c].batch, codes, past.used)
    /\ calls[c].kind \in {"setup", "renew"} /\ calls[c].at = "ok" => Stored(c, codes, past.used)

CodesFit(d) ==
    past.calm /\ Clear(d) /\ past.renewer = d =>
       /\ page[d].factor.step = "codes" => Stored(page[d].factor.shown, codes, past.used)
       /\ page[d].factor.step = "setup" => Stored(page[d].factor.offered, codes, past.used)
       /\ \A c \in Calls : Asks(d, c) => CodesAhead(c)

CodesInv == Alone /\ \A d \in Devices : CodesFit(d)

\* A page that turns shows its section as it was, or the start of it.
LEMMA TurnedShows ==
    ASSUME Shape, ClientTypes', NEW d \in Devices, Turned(d)
    PROVE  page'[d].factor = page[d].factor \/ page'[d].factor.step = "idle"
<1>1. page'[d].at # "settings" => page'[d].factor = NoFactor
  BY DEF ClientTypes, PageFits
<1>2. NoFactor.step = "idle"
  BY DEF NoFactor
<1> QED
  BY <1>1, <1>2 DEF Turned

\* What is under way waits, and is at a step of its kind.
LEMMA AltersWaits ==
    ASSUME CallerTypes, NEW c \in Calls
    PROVE  /\ Alters(c) => Waits(c)
           /\ calls[c].at \in {"write", "purge", "insert"} => Alters(c)
           /\ Waits(c) => caller[c].dev \in Devices /\ caller[c].visit \in Nat
<1>1. CallFits(calls[c], caller[c], part)
  BY DEF CallerTypes
<1>2. Waits(c) => caller[c] \in Asking(part)
  BY AskersWait
<1> QED
  BY <1>1, <1>2 DEF CallFits, Alters, AtWork, Waits, Changing, Over, Asking

\* The steps that leave the calls and the codes, and at most go back to the
\* start of a section.
LEMMA CodesStay ==
    ASSUME Shape, CodesInv, CallerTypes', UNCHANGED <<calls, codes, enabled>>,
           \A c \in Calls : GoesOn(c),
           past'.calm = past.calm, past'.used = past.used, past'.renewer = past.renewer,
           past.blurred \subseteq past'.blurred,
           \A d \in Devices : page'[d].factor = page[d].factor \/ page'[d].factor.step = "idle",
           \A d \in Devices, c \in Calls : Asks(d, c)' => Asks(d, c)
    PROVE  CodesInv'
<1>1. \A c \in Calls : Alters(c)' <=> Alters(c)
  BY DEF Alters, AtWork
<1>2. \A c \in Calls : /\ Alters(c) => Waits(c)'
                       /\ calls[c].at = "insert" => Alters(c)
  BY <1>1, AltersWaits DEF Shape, CallerTypes, CallFits, Alters, AtWork, Waits
<1>3. \A c \in Calls : Waits(c)' => /\ Waits(c) /\ caller'[c].dev = caller[c].dev
                                    /\ caller'[c].visit = caller[c].visit
                                    /\ caller'[c].batch = caller[c].batch
                                    /\ caller[c].dev \in Devices
  BY AltersWaits DEF GoesOn, Waits, Shape
<1>4. Alone'
  <2> SUFFICES ASSUME past.calm
               PROVE  Alone'
    BY DEF Alone
  <2>1. \A b, c \in Calls : Alters(b)' /\ Alters(c)' => b = c
    BY <1>1 DEF CodesInv, Alone
  <2>2. \A b, c \in Calls : LeftBehind(b, c)'
    BY <1>1, <1>2, <1>3 DEF CodesInv, Alone, LeftBehind
  <2>3. \A c \in Calls : Ready(c)'
    BY <1>2, <1>3 DEF CodesInv, Alone, Ready
  <2>4. \A c \in Calls : Alters(c)' => ShowsNone(page'[caller'[c].dev].factor, calls'[c].kind)
    BY <1>1, <1>2, <1>3 DEF CodesInv, Alone, ShowsNone
  <2> QED
    BY <2>1, <2>2, <2>3, <2>4 DEF Alone
<1>5. ASSUME NEW d \in Devices
      PROVE  CodesFit(d)'
  <2>1. Clear(d)' => Clear(d)
    BY DEF Clear
  <2>2. \A c \in Calls : Asks(d, c)' => Waits(c)'
    BY DEF Asks, Waits
  <2>3. \A c \in Calls : Asks(d, c)' /\ CodesAhead(c) => CodesAhead(c)'
    BY <1>3, <2>2 DEF CodesAhead
  <2>4. CodesFit(d)
    BY DEF CodesInv
  <2>5. page'[d].factor = page[d].factor \/ page'[d].factor.step = "idle"
    OBVIOUS
  <2>6. \A c \in Calls : Asks(d, c)' => Asks(d, c)
    OBVIOUS
  <2>7. past.calm /\ Clear(d) /\ past.renewer = d =>
          /\ page'[d].factor.step = "codes" => Stored(page'[d].factor.shown, codes, past.used)
          /\ page'[d].factor.step = "setup" => Stored(page'[d].factor.offered, codes, past.used)
          /\ \A c \in Calls : Asks(d, c)' => CodesAhead(c)'
    BY <2>3, <2>4, <2>5, <2>6 DEF CodesFit
  <2> QED
    BY <2>1, <2>7 DEF CodesFit
<1> QED
  BY <1>4, <1>5 DEF CodesInv

LEMMA SendCodes ==
    ASSUME Shape, CodesInv, NEW d \in Devices, NEW c \in NextCalls, Sends5(d, c)
    PROVE  CodesInv'
<1>1. ClientTypes /\ CallerTypes /\ OneAtATime /\ VisitsFit /\ past \in Past
  BY DEF Shape
<1>2. PICK kind \in Kinds, code \in Code \cup {NoCall}, token \in Calls \cup {NoCall} :
          Send(d, c, kind, code, token) /\ MaySend(d, kind) /\ c \in Calls
  BY SentAsAllowed
<1> DEFINE p == [page[d] EXCEPT !.busy = TRUE]
           asking == [dev |-> d, visit |-> page[d].visit, told |-> Nothing,
                      batch |-> page[d].factor.offered]
<1>3. /\ calls[c].at = "idle" /\ calls'[c].at = "sent" /\ calls'[c].kind = kind
      /\ caller'[c] = asking
      /\ \A b \in Calls : b # c => calls'[b] = calls[b] /\ caller'[b] = caller[b]
      /\ page' = [page EXCEPT ![d] = p]
      /\ UNCHANGED <<enabled, codes>>
  BY <1>2, SentCall
<1>4. p.at = page[d].at /\ p.visit = page[d].visit /\ p.factor = page[d].factor
  BY <1>1 DEF ClientTypes, Page
<1>5. asking.dev = d /\ asking.visit = page[d].visit /\ asking.batch = page[d].factor.offered
  OBVIOUS
<1> HIDE DEF p, asking
<1>6. \A e \in Devices : page'[e].at = page[e].at /\ page'[e].visit = page[e].visit
                         /\ page'[e].factor = page[e].factor
  BY <1>1, <1>3, <1>4 DEF ClientTypes
<1>7. /\ past'.used = past.used /\ past'.renewer = past.renewer /\ past'.blurred = past.blurred
      /\ past'.calm = (past.calm /\ ~\E b \in Calls \ {c} :
                                        AtWork(b) /\ {calls[b].kind, kind} \subseteq Changing)
  BY <1>1, <1>2 DEF Send, Past
<1>8. past'.calm => past.calm /\ (kind \in Changing => \A b \in Calls : b # c => ~Alters(b))
  BY <1>7 DEF Alters
<1>9. \A b \in Calls : /\ b # c => (Alters(b)' <=> Alters(b))
                       /\ calls[b].at = "insert" => Alters(b)
                       /\ calls[b].at = "write" => Alters(b)
                       /\ Alters(b) => Waits(b) /\ caller[b].dev \in Devices
                       /\ Waits(b) => caller[b].dev \in Devices
  BY <1>1, <1>3, AltersWaits DEF Alters, AtWork
<1>10. Alters(c)' <=> kind \in Changing
  BY <1>3 DEF Alters, AtWork, Over
<1>11. ASSUME past'.calm
       PROVE  Alone'
  <2>1. \A a, b \in Calls : Alters(a)' /\ Alters(b)' => a = b
    BY <1>8, <1>9, <1>10, <1>11 DEF CodesInv, Alone
  <2>2. ASSUME NEW a \in Calls, NEW b \in Calls, Alters(a)', Waits(b)', calls'[b].kind \in Changing,
               a # b, caller'[a].dev = caller'[b].dev
        PROVE  caller'[b].visit < caller'[a].visit
    <3>1. CASE a # c /\ b # c
      BY <1>3, <1>8, <1>9, <1>11, <2>2, <3>1 DEF CodesInv, Alone, LeftBehind, Waits
    <3>2. CASE a = c
      <4>1. Waits(b) /\ caller[b].dev = d /\ calls[b].kind \in Changing /\ caller'[b] = caller[b]
        BY <1>3, <1>5, <2>2, <3>2 DEF Waits
      <4>2. page[d].at = "settings" /\ ~page[d].busy
        BY <1>2, <1>10, <2>2, <3>2 DEF MaySend
      <4>3. ~Asks(d, b)
        BY <1>1, <4>2 DEF OneAtATime, Asked
      <4>4. caller[b].visit # page[d].visit
        BY <4>1, <4>2, <4>3 DEF Asks
      <4>5. caller[b].visit <= page[d].visit /\ caller[b].visit \in Nat /\ page[d].visit \in Nat
        BY <1>1, <4>1, AltersWaits DEF VisitsFit, ClientTypes, Page
      <4> QED
        BY <1>3, <1>5, <3>2, <4>1, <4>4, <4>5
    <3>3. CASE b = c
      BY <1>3, <1>8, <1>9, <1>11, <2>2, <3>3
    <3> QED
      BY <3>1, <3>2, <3>3
  <2>3. \A b \in Calls : Ready(b)'
    BY <1>3, <1>7, <1>8, <1>11 DEF CodesInv, Alone, Ready
  <2>4. ASSUME NEW b \in Calls, Alters(b)'
        PROVE  ShowsNone(page'[caller'[b].dev].factor, calls'[b].kind)
    <3>1. CASE b # c
      BY <1>3, <1>6, <1>8, <1>9, <1>11, <2>4, <3>1 DEF CodesInv, Alone
    <3>2. CASE b = c
      BY <1>2, <1>3, <1>5, <1>6, <1>10, <2>4, <3>2 DEF MaySend, ShowsNone, Changing
    <3> QED
      BY <3>1, <3>2
  <2>5. \A a, b \in Calls : LeftBehind(a, b)'
    BY <2>2 DEF LeftBehind
  <2> QED
    BY <2>1, <2>3, <2>4, <2>5 DEF Alone
<1>12. ASSUME NEW e \in Devices, past'.calm, Clear(e), past.renewer = e
       PROVE  /\ page'[e].factor.step = "codes" => Stored(page'[e].factor.shown, codes, past.used)
              /\ page'[e].factor.step = "setup" => Stored(page'[e].factor.offered, codes, past.used)
              /\ \A b \in Calls : Asks(e, b)' => CodesAhead(b)'
  <2>1. CodesFit(e) /\ past.calm
    BY <1>8, <1>12 DEF CodesInv
  <2>2. /\ page[e].factor.step = "codes" => Stored(page[e].factor.shown, codes, past.used)
        /\ page[e].factor.step = "setup" => Stored(page[e].factor.offered, codes, past.used)
        /\ \A b \in Calls : Asks(e, b) => CodesAhead(b)
    BY <1>12, <2>1 DEF CodesFit
  <2>3. \A b \in Calls : b # c /\ Asks(e, b)' => Asks(e, b)
    BY <1>3, <1>6 DEF Asks, Waits
  <2>4. \A b \in Calls : b # c /\ CodesAhead(b) => CodesAhead(b)'
    BY <1>3, <1>7 DEF CodesAhead
  <2>5. Asks(e, c)' => CodesAhead(c)'
    <3>1. Asks(e, c)' => e = d
      BY <1>3, <1>5 DEF Asks
    <3>2. kind = "enable" => page[d].factor.step = "setup"
      BY <1>2 DEF MaySend
    <3>3. e = d /\ kind = "enable" => Stored(caller'[c].batch, codes, past.used)
      BY <1>3, <1>5, <2>2, <3>2
    <3> QED
      BY <1>3, <1>7, <3>1, <3>3 DEF CodesAhead
  <2> QED
    BY <1>6, <2>2, <2>3, <2>4, <2>5
<1>13. ASSUME NEW e \in Devices
       PROVE  CodesFit(e)'
  <2>1. Clear(e)' => Clear(e)
    BY <1>7 DEF Clear
  <2> QED
    BY <1>3, <1>7, <1>12, <2>1 DEF CodesFit
<1> QED
  BY <1>11, <1>13 DEF CodesInv, Alone

LEMMA FailCodes ==
    ASSUME Shape, CodesInv, NEW c \in Calls, ServeFails(c)
    PROVE  CodesInv'
<1>1. CallerTypes /\ TwoFactorTypeOK /\ past \in Past
  BY DEF Shape
<1>2. /\ \A b \in Calls : GoesOn(b)
      /\ Waits(c) /\ \A b \in Calls : b # c => caller'[b] = caller[b] /\ calls'[b] = calls[b]
  BY ServedGoesOn
<1>3. "refused" \in Steps
  BY DEF Steps, Over
<1>4. calls'[c].at = "refused" /\ calls'[c].kind = calls[c].kind /\ UNCHANGED <<enabled, codes, page, caller>>
  BY <1>1, <1>3, GoesTo DEF ServeFails, CallFails, rows
<1>5. /\ past'.calm = past.calm /\ past'.used = past.used /\ past'.renewer = past.renewer
      /\ past.blurred \subseteq past'.blurred
  BY <1>1 DEF ServeFails, Past
<1>6. ~Alters(c)' /\ \A b \in Calls : Alters(b)' => Alters(b) /\ calls'[b] = calls[b]
  BY <1>2, <1>4 DEF Alters, AtWork, Over
<1>7. Alone'
  <2> SUFFICES ASSUME past.calm
               PROVE  Alone'
    BY <1>5 DEF Alone
  <2>1. \A a, b \in Calls : Alters(a)' /\ Alters(b)' => a = b
    BY <1>6 DEF CodesInv, Alone
  <2>2. \A a, b \in Calls : LeftBehind(a, b)'
    <3>1. \A b \in Calls : calls'[b].kind = calls[b].kind /\ (Waits(b)' <=> Waits(b))
      BY <1>2, <1>4 DEF Waits
    <3>2. \A a, b \in Calls : LeftBehind(a, b)
      BY DEF CodesInv, Alone
    <3> QED
      BY <1>4, <1>6, <3>1, <3>2 DEF LeftBehind
  <2>3. \A b \in Calls : Ready(b)'
    BY <1>2, <1>4, <1>5 DEF CodesInv, Alone, Ready
  <2>4. \A b \in Calls : Alters(b)' => ShowsNone(page'[caller'[b].dev].factor, calls'[b].kind)
    BY <1>4, <1>6 DEF CodesInv, Alone
  <2> QED
    BY <2>1, <2>2, <2>3, <2>4 DEF Alone
<1>8. ASSUME NEW d \in Devices
      PROVE  CodesFit(d)'
  <2>1. Clear(d)' => Clear(d)
    BY <1>5 DEF Clear
  <2>2. \A b \in Calls : Asks(d, b)' => Asks(d, b)
    BY <1>2, <1>4 DEF Asks, Waits
  <2>3. \A b \in Calls : CodesAhead(b) => CodesAhead(b)'
    BY <1>2, <1>4, <1>5 DEF CodesAhead
  <2>4. CodesFit(d)
    BY DEF CodesInv
  <2> QED
    BY <1>4, <1>5, <2>1, <2>2, <2>3, <2>4 DEF CodesFit
<1> QED
  BY <1>7, <1>8 DEF CodesInv

LEMMA ServeCodes ==
    ASSUME Shape, CodesInv, CallerTypes', NEW c \in Calls, Serve(c)
    PROVE  CodesInv'
<1>1. CallerTypes /\ TwoFactorTypeOK /\ VisitsFit /\ past \in Past /\ ClientTypes
  BY DEF Shape
<1>2. /\ \A b \in Calls : b # c => calls'[b] = calls[b]
      /\ Waits(c) /\ UNCHANGED page
  BY ServedGoesOn DEF Serve
<1>3. Moved(c) /\ Effects(c)
  BY <1>1, HandleMoves DEF Serve
<1>4. /\ past'.calm = past.calm /\ past'.blurred = past.blurred
      /\ past'.renewer = IF calls[c].at = "purge" THEN caller[c].dev ELSE past.renewer
      /\ past'.used = IF calls[c].at = "use" THEN past.used \cup {calls[c].code} ELSE past.used
  BY <1>1 DEF Serve, Past
<1>5. \A b \in Calls : /\ Waits(b)' <=> Waits(b)
                       /\ caller'[b].dev = caller[b].dev /\ caller'[b].visit = caller[b].visit
                       /\ caller'[b].batch = caller[b].batch /\ calls'[b].kind = calls[b].kind
  BY <1>2, <1>3, ServedGoesOn DEF GoesOn, Waits, Moved
<1>6. /\ \A b \in Calls : Alters(b)' => Alters(b)
      /\ calls[c].at \in {"write", "purge", "insert"} => Alters(c)
      /\ \A b \in Calls : calls[b].at \in {"write", "insert"} => Alters(b)
  BY <1>1, <1>2, <1>3, AltersWaits DEF Alters, AtWork, Moved, Over
<1>7. CallFits(calls[c], caller[c], part) /\ caller[c].dev \in Devices /\ caller[c].visit \in Nat
  BY <1>1, <1>2, AltersWaits DEF CallerTypes
<1>8. past.calm => \A b \in Calls : Ready(b)'
  <2> SUFFICES ASSUME past.calm, NEW b \in Calls
               PROVE  Ready(b)'
    OBVIOUS
  <2>1. CASE b = c
    BY <1>3, <1>4, <1>5, <2>1 DEF Ready, Moved, Effects, Follows
  <2>2. CASE b # c /\ calls[b].at \in {"write", "insert"}
    <3>1. Alters(b) /\ ~Alters(c)
      BY <1>6, <2>2 DEF CodesInv, Alone
    <3>2. UNCHANGED enabled /\ codes' \subseteq codes
      BY <1>3, <1>6, <3>1 DEF Effects, Moved
    <3>3. past'.renewer = past.renewer
      BY <1>4, <1>6, <3>1
    <3>4. Ready(b)
      BY DEF CodesInv, Alone
    <3> QED
      BY <1>2, <1>5, <2>2, <3>2, <3>3, <3>4 DEF Ready
  <2>3. CASE b # c /\ calls[b].at \notin {"write", "insert"}
    BY <1>2, <2>3 DEF Ready
  <2> QED
    BY <2>1, <2>2, <2>3
<1>9. Alone'
  <2> SUFFICES ASSUME past.calm
               PROVE  Alone'
    BY <1>4 DEF Alone
  <2>1. \A a, b \in Calls : Alters(a)' /\ Alters(b)' => a = b
    BY <1>6 DEF CodesInv, Alone
  <2>2. \A a, b \in Calls : LeftBehind(a, b)
    BY DEF CodesInv, Alone
  <2>3. \A a, b \in Calls : LeftBehind(a, b)'
    BY <1>5, <1>6, <2>2 DEF LeftBehind
  <2>4. \A b \in Calls : Alters(b)' => ShowsNone(page'[caller'[b].dev].factor, calls'[b].kind)
    BY <1>2, <1>5, <1>6 DEF CodesInv, Alone
  <2> QED
    BY <1>8, <2>1, <2>3, <2>4 DEF Alone
<1>10. ASSUME past.calm, calls[c].at \in {"purge", "insert"}
       PROVE  LET d == caller[c].dev
              IN  /\ page[d].factor.step \notin {"codes", "setup"}
                  /\ \A b \in Calls : Asks(d, b) => b = c
  <2>1. PICK d \in Devices : d = caller[c].dev
    BY <1>7
  <2>2. Alters(c) /\ calls[c].kind # "enable"
    BY <1>6, <1>7, <1>10 DEF CallFits
  <2>3. page[d].factor.step \notin {"codes", "setup"}
    BY <1>10, <2>1, <2>2 DEF CodesInv, Alone, ShowsNone
  <2>4. ASSUME NEW b \in Calls, Asks(d, b), b # c
        PROVE  FALSE
    <3>1. caller[b].visit < caller[c].visit
      BY <1>10, <2>1, <2>2, <2>4 DEF CodesInv, Alone, LeftBehind, Asks
    <3>2. caller[b].visit = page[d].visit /\ page[d].visit \in Nat
      BY <1>1, <2>4 DEF Asks, ClientTypes, Page
    <3>3. caller[c].visit <= page[d].visit
      BY <1>1, <1>2, <2>1 DEF VisitsFit
    <3> QED
      BY <1>7, <3>1, <3>2, <3>3
  <2> QED
    BY <2>1, <2>3, <2>4
<1>11. ASSUME NEW d \in Devices
       PROVE  CodesFit(d)'
  <2> SUFFICES ASSUME past.calm, Clear(d), past'.renewer = d
               PROVE  /\ page[d].factor.step = "codes" => Stored(page[d].factor.shown, codes', past'.used)
                      /\ page[d].factor.step = "setup" => Stored(page[d].factor.offered, codes', past'.used)
                      /\ \A b \in Calls : Asks(d, b)' => CodesAhead(b)'
    BY <1>2, <1>4 DEF CodesFit, Clear
  <2>1. \A b \in Calls : Asks(d, b)' => Asks(d, b)
    BY <1>2, <1>5 DEF Asks
  <2>2. CASE calls[c].at \in {"purge", "insert"}
    <3>1. d = caller[c].dev
      BY <1>4, <2>2 DEF CodesInv, Alone, Ready
    <3>2. page[d].factor.step \notin {"codes", "setup"} /\ \A b \in Calls : Asks(d, b)' => b = c
      BY <1>10, <2>1, <2>2, <3>1
    <3>3. calls[c].kind # "enable" /\ calls'[c].kind = calls[c].kind
      BY <1>5, <1>7, <2>2 DEF CallFits
    <3>4. calls[c].at = "purge" /\ calls'[c].at = "ok" => calls[c].kind = "disable"
      BY <1>3 DEF Moved, Follows
    <3>5. calls[c].at = "insert" => codes' = Generated(c)
      <4>1. calls[c].at = "insert" => codes = {}
        BY DEF CodesInv, Alone, Ready
      <4> QED
        BY <1>3, <4>1 DEF Effects
    <3>6. CodesAhead(c)'
      BY <2>2, <3>3, <3>4, <3>5 DEF CodesAhead, Stored
    <3> QED
      BY <3>2, <3>6
  <2>3. CASE calls[c].at \notin {"purge", "insert"}
    <3>1. past.renewer = d /\ CodesFit(d)
      BY <1>4, <2>3 DEF CodesInv
    <3>2. \A x : Stored(x, codes, past.used) => Stored(x, codes', past'.used)
      <4>1. CASE calls[c].at = "use"
        <5>1. codes' \in {codes, codes \ {calls[c].code}}
              /\ past'.used = past.used \cup {calls[c].code}
          BY <1>3, <1>4, <4>1 DEF Effects
        <5> QED
          BY <5>1 DEF Stored
      <4>2. CASE calls[c].at # "use"
        BY <1>3, <1>4, <2>3, <4>2 DEF Effects
      <4> QED
        BY <4>1, <4>2
    <3>3. calls'[c].at = "ok" => calls[c].kind \notin {"setup", "renew"}
      <4>1. calls[c].at \in {"sent", "write", "list", "use", "open"}
        BY <1>3, <2>3 DEF Moved
      <4> QED
        BY <1>3, <1>7, <2>3, <4>1 DEF Moved, Follows, CallFits
    <3>4. ASSUME NEW b \in Calls, Asks(d, b)'
          PROVE  CodesAhead(b)'
      <4>1. CodesAhead(b)
        BY <2>1, <3>1, <3>4 DEF CodesFit
      <4>2. CASE b # c
        BY <1>2, <1>5, <3>2, <4>1, <4>2 DEF CodesAhead
      <4>3. CASE b = c
        BY <1>5, <3>2, <3>3, <4>1, <4>3 DEF CodesAhead
      <4> QED
        BY <4>2, <4>3
    <3> QED
      BY <3>1, <3>2, <3>4 DEF CodesFit
  <2> QED
    BY <2>2, <2>3
<1> QED
  BY <1>9, <1>11 DEF CodesInv

\* What a section shows after an answer, of the codes.
LEMMA ShownCodes ==
    ASSUME NEW f \in Factor, NEW c \in Calls, calls[c].kind \in Changing, NEW table, NEW used,
           f.step = "codes" => Stored(f.shown, table, used),
           f.step = "setup" => Stored(f.offered, table, used),
           calls[c].at \in {"ok", "refused"},
           calls[c].kind = "enable" => Stored(caller[c].batch, table, used),
           calls[c].kind \in {"setup", "renew"} /\ calls[c].at = "ok" => Stored(c, table, used)
    PROVE  LET g == Shown(f, c)
           IN  /\ g.step = "codes" => Stored(g.shown, table, used)
               /\ g.step = "setup" => Stored(g.offered, table, used)
<1>1. CASE calls[c].at = "refused"
  BY <1>1 DEF Shown
<1>2. CASE calls[c].at = "ok" /\ calls[c].kind = "setup"
  BY <1>2 DEF Shown, Factor
<1>3. CASE calls[c].at = "ok" /\ calls[c].kind = "enable"
  BY <1>3 DEF Shown
<1>4. CASE calls[c].at = "ok" /\ calls[c].kind = "disable"
  BY <1>4 DEF Shown, Factor
<1>5. CASE calls[c].at = "ok" /\ calls[c].kind = "renew"
  BY <1>5 DEF Shown, Factor
<1> QED
  BY <1>1, <1>2, <1>3, <1>4, <1>5 DEF Changing

LEMMA AnsweredCodes ==
    ASSUME Shape, CodesInv, NEW c \in Calls, Answered(c)
    PROVE  CodesInv'
<1>1. CallerTypes /\ VisitsFit /\ past \in Past /\ ClientTypes
  BY DEF Shape
<1>2. PICK d \in Devices :
         /\ caller[c].dev = d /\ Asks(d, c)
         /\ page'[d].at = "settings" /\ page'[d].visit = page[d].visit /\ ~page'[d].busy
         /\ HearChange(c) => page'[d].factor = Shown(page[d].factor, c)
         /\ ~HearChange(c) => page'[d].factor = page[d].factor
         /\ \A x \in Devices : x # d => page'[x] = page[x]
         /\ \A b \in Calls : Asks(d, b) => b = c
  BY AnswerSettles
<1>3. /\ Waits(c) /\ calls[c].at \in Over /\ UNCHANGED <<calls, enabled, codes>>
      /\ caller'[c] = Free /\ \A b \in Calls : b # c => caller'[b] = caller[b]
  BY HeardGoesOn DEF Answered
<1>4. /\ past'.calm = past.calm /\ past'.used = past.used /\ past'.renewer = past.renewer
      /\ past.blurred \subseteq past'.blurred
  BY <1>1 DEF Answered, HearChange, LoseCall, Blurred, Past
<1>5. \A b \in Calls : /\ Alters(b)' <=> Alters(b)
                       /\ Alters(b) => b # c /\ Waits(b) /\ caller[b].dev \in Devices
                       /\ calls[b].at \in {"write", "insert"} => Alters(b)
                       /\ Waits(b)' => b # c /\ Waits(b)
  BY <1>1, <1>3, AltersWaits DEF Alters, AtWork, Waits
<1>6. calls[c].kind \in Changing /\ calls[c].at \in {"ok", "refused"}
  BY <1>1, <1>2, <1>3 DEF Asks, Over, CallerTypes, CallFits, Changing
\* No change is under way where one is heard of.
<1>7. ASSUME past.calm, NEW b \in Calls, Alters(b)
      PROVE  caller[b].dev # d
  <2> SUFFICES ASSUME caller[b].dev = d
               PROVE  FALSE
    OBVIOUS
  <2>1. LeftBehind(b, c)
    BY <1>7 DEF CodesInv, Alone
  <2>2. caller[c].visit < caller[b].visit
    BY <1>2, <1>3, <1>5, <1>6, <1>7, <2>1 DEF LeftBehind
  <2>3. caller[b].visit <= page[d].visit /\ caller[c].visit = page[d].visit
    BY <1>1, <1>2, <1>5, <1>7 DEF VisitsFit, Asks
  <2>4. caller[b].visit \in Nat /\ caller[c].visit \in Nat
    BY <1>1, <1>3, <1>5, <1>7, AltersWaits
  <2> QED
    BY <2>2, <2>3, <2>4
<1>8. Alone'
  <2> SUFFICES ASSUME past.calm
               PROVE  Alone'
    BY <1>4 DEF Alone
  <2>1. \A a, b \in Calls : Alters(a)' /\ Alters(b)' => a = b
    BY <1>5 DEF CodesInv, Alone
  <2>2. \A a, b \in Calls : LeftBehind(a, b)
    BY DEF CodesInv, Alone
  <2>3. \A a, b \in Calls : LeftBehind(a, b)'
    BY <1>3, <1>5, <2>2 DEF LeftBehind
  <2>4. \A b \in Calls : Ready(b)
    BY DEF CodesInv, Alone
  <2>5. \A b \in Calls : Ready(b)'
    BY <1>3, <1>4, <1>5, <2>4 DEF Ready
  <2>6. \A b \in Calls : Alters(b) => ShowsNone(page[caller[b].dev].factor, calls[b].kind)
    BY DEF CodesInv, Alone
  <2>7. \A b \in Calls : Alters(b)' => ShowsNone(page'[caller'[b].dev].factor, calls'[b].kind)
    BY <1>2, <1>3, <1>5, <1>7, <2>6
  <2> QED
    BY <2>1, <2>3, <2>5, <2>7 DEF Alone
<1>9. ASSUME NEW e \in Devices
      PROVE  CodesFit(e)'
  <2> SUFFICES ASSUME past.calm, Clear(e), past.renewer = e
               PROVE  /\ page'[e].factor.step = "codes" => Stored(page'[e].factor.shown, codes, past.used)
                      /\ page'[e].factor.step = "setup" => Stored(page'[e].factor.offered, codes, past.used)
                      /\ \A b \in Calls : Asks(e, b)' => CodesAhead(b)'
    BY <1>3, <1>4 DEF CodesFit, Clear
  <2>1. /\ page[e].factor.step = "codes" => Stored(page[e].factor.shown, codes, past.used)
        /\ page[e].factor.step = "setup" => Stored(page[e].factor.offered, codes, past.used)
        /\ \A b \in Calls : Asks(e, b) => CodesAhead(b)
    BY DEF CodesInv, CodesFit
  <2>2. \A b \in Calls : Asks(e, b)' => b # c
    BY <1>5 DEF Asks
  <2>3. CASE e # d
    <3>1. \A b \in Calls : Asks(e, b)' => Asks(e, b)
      BY <1>2, <1>3, <2>2, <2>3 DEF Asks, Waits
    <3>2. \A b \in Calls : b # c /\ CodesAhead(b) => CodesAhead(b)'
      BY <1>3, <1>4 DEF CodesAhead
    <3> QED
      BY <1>2, <2>1, <2>2, <2>3, <3>1, <3>2
  <2>4. CASE e = d
    <3>1. \A b \in Calls : ~Asks(e, b)'
      BY <1>2, <1>3, <2>2, <2>4 DEF Asks, Waits
    <3>2. CodesAhead(c) /\ page[d].factor \in Factor
      BY <1>1, <1>2, <2>1, <2>4 DEF ClientTypes, Page
    <3>3. CASE HearChange(c)
      <4> DEFINE g == Shown(page[d].factor, c)
      <4>1. page'[e].factor = g
        BY <1>2, <2>4, <3>3
      <4>2. /\ g.step = "codes" => Stored(g.shown, codes, past.used)
            /\ g.step = "setup" => Stored(g.offered, codes, past.used)
        BY <1>6, <2>1, <2>4, <3>2, ShownCodes DEF CodesAhead
      <4> HIDE DEF g
      <4> QED
        BY <3>1, <4>1, <4>2
    <3>4. CASE ~HearChange(c)
      BY <1>2, <2>1, <2>4, <3>1, <3>4
    <3> QED
      BY <3>3, <3>4
  <2> QED
    BY <2>3, <2>4
<1> QED
  BY <1>8, <1>9 DEF CodesInv

LEMMA CodesStep ==
    ASSUME Shape, CodesInv, Next
    PROVE  CodesInv'
<1>1. CallerTypes' /\ ClientTypes' /\ ClientTypes /\ past \in Past
  BY CallerStep, PagesStep DEF Shape
<1>2. CASE Aside
  <2>1. \A b \in Calls : GoesOn(b)
    BY <1>2 DEF Aside, GoesOn, Waits
  <2>2. \A d \in Devices : page'[d].factor = page[d].factor \/ page'[d].factor.step = "idle"
    BY <1>1, <1>2, TurnedShows DEF Aside
  <2>3. \A d \in Devices, c \in Calls : Asks(d, c)' => Asks(d, c)
    BY <1>2, <2>1, AskedBefore DEF Aside
  <2> QED
    BY <1>1, <1>2, <2>1, <2>2, <2>3, CodesStay DEF Aside
<1>3. ASSUME NEW e \in Devices, CancelSetup(e) \/ CodesSaved(e)
      PROVE  CodesInv'
  <2>1. UNCHANGED <<calls, caller, enabled, codes, past>>
    BY <1>3 DEF CancelSetup, CodesSaved, twoFactorVars
  <2>2. \A b \in Calls : GoesOn(b)
    BY <2>1 DEF GoesOn, Waits
  <2>3. page[e] \in Page
    BY <1>1 DEF ClientTypes
  <2> DEFINE f == [page[e].factor EXCEPT !.step = "idle", !.offered = NoCall]
             g == [page[e].factor EXCEPT !.step = "idle", !.shown = NoCall]
             p(h) == [page[e] EXCEPT !.factor = h]
  <2>4. page' = [page EXCEPT ![e] = p(f)] \/ page' = [page EXCEPT ![e] = p(g)]
    BY <1>3 DEF CancelSetup, CodesSaved
  <2>5. f.step = "idle" /\ g.step = "idle"
    BY <2>3 DEF Page, Factor
  <2> HIDE DEF f, g
  <2>6. \A d \in Devices : /\ page'[d].at = page[d].at /\ page'[d].visit = page[d].visit
                           /\ page'[d].factor = page[d].factor \/ page'[d].factor.step = "idle"
    BY <1>1, <2>3, <2>4, <2>5 DEF ClientTypes, Page
  <2>7. \A d \in Devices, c \in Calls : Asks(d, c)' => Asks(d, c)
    BY <2>1, <2>6 DEF Asks, Waits
  <2> QED
    BY <1>1, <2>1, <2>2, <2>6, <2>7, CodesStay
<1>4. ASSUME NEW c \in Calls, HearChange(c) \/ HearLogin(c) \/ HearNoLogin(c) \/ LoseCall(c), ~Answered(c)
      PROVE  CodesInv'
  <2>1. /\ past'.calm = past.calm /\ past'.used = past.used /\ past'.renewer = past.renewer
        /\ past.blurred \subseteq past'.blurred
    BY <1>1, <1>4 DEF HearChange, HearLogin, HearNoLogin, LoseCall, Blurred, Past
  <2>2. (\A b \in Calls : GoesOn(b)) /\ UNCHANGED <<calls, enabled, codes>>
    BY <1>4, HeardGoesOn
  <2>3. \A d \in Devices : Turned(d)
    BY <1>4, UnansweredTurns
  <2>4. \A d \in Devices : page'[d].factor = page[d].factor \/ page'[d].factor.step = "idle"
    BY <1>1, <2>3, TurnedShows
  <2>5. \A d \in Devices, b \in Calls : Asks(d, b)' => Asks(d, b)
    BY <2>2, <2>3, AskedBefore
  <2> QED
    BY <1>1, <2>1, <2>2, <2>4, <2>5, CodesStay
<1> QED
  BY <1>1, <1>2, <1>3, <1>4, FactorSteps, SendCodes, ServeCodes, FailCodes, AnsweredCodes

LEMMA CodesStart ==
    ASSUME Init
    PROVE  CodesInv
<1>1. Shape
  BY StartFits
<1>2. caller = [c \in Calls |-> Free] /\ past.renewer = Nothing
  BY DEF Init
<1>3. \A c \in Calls : ~Waits(c)
  BY <1>2 DEF Waits
<1>4. \A c \in Calls : ~Alters(c) /\ calls[c].at \notin {"write", "insert"}
  BY <1>1, <1>3, AltersWaits DEF Shape
<1>5. Alone
  BY <1>3, <1>4 DEF Alone, LeftBehind, Ready
<1>6. \A d \in Devices : CodesFit(d)
  BY <1>2, AccountPagesAssumption DEF CodesFit
<1> QED
  BY <1>5, <1>6 DEF CodesInv

LEMMA CodesRest ==
    ASSUME CodesInv, UNCHANGED vars
    PROVE  CodesInv'
<1>1. UNCHANGED <<calls, caller, codes, enabled, past, page>>
  BY DEF vars, twoFactorVars
<1>2. Alone'
  BY <1>1 DEF CodesInv, Alone, LeftBehind, Ready, Alters, AtWork, Waits
<1>3. \A d \in Devices : CodesFit(d)'
  BY <1>1 DEF CodesInv, CodesFit, CodesAhead, Asks, Waits, Clear
<1> QED
  BY <1>2, <1>3 DEF CodesInv

\* Codes that a device shows, or will show when its setup is switched on, are the
\* stored ones as long as it was the last to replace them and no two changes ran
\* at once: on any number of devices, however often setups are cancelled or
\* repeated, and whatever codes log in meanwhile.
THEOREM ShownCodesStay == Spec => []ShownCodesAreStored
<1>1. Shape /\ CodesInv /\ [Next]_vars => CodesInv'
  BY CodesRest, CodesStep
<1>2. CodesInv => ShownCodesAreStored
  BY DEF CodesInv, CodesFit, Stored, ShownCodesAreStored
<1> QED
  BY <1>1, <1>2, CodesStart, ShapeInvariant, PTL DEF Spec

-----------------------------------------------------------------------------
(* The messages under way, as far as the lists and the users are told of.  *)

\* A message is answered or advanced, and stays of its kind.
LEMMA EditedMessages ==
    ASSUME Shape, NEW b \in wires
    PROVE  /\ b.kind \in {"logout", "save", "unlink", "register"} =>
                 \A at : [b EXCEPT !.at = at].kind = b.kind
           /\ b.kind = "register" => \A role, at : [b EXCEPT !.at = at, !.role = role].kind = "register"
           /\ b.kind \in {"me", "list"} =>
                 \A told : LET n == [b EXCEPT !.told = told]
                           IN  n.kind = b.kind /\ n.dev = b.dev /\ n.told = told
<1>1. MessageFits(b, part)
  BY DEF Shape, WireTypes
<1>2. CASE b.kind = "logout"
  BY <1>1, <1>2, MessageKinds DEF LogoutMessage
<1>3. CASE b.kind = "save"
  BY <1>1, <1>3, MessageKinds DEF SaveMessage
<1>4. CASE b.kind = "unlink"
  BY <1>1, <1>4, MessageKinds DEF UnlinkMessage
<1>5. CASE b.kind = "register"
  BY <1>1, <1>5, MessageKinds DEF Registration
<1>6. CASE b.kind = "me"
  BY <1>1, <1>6, MessageKinds DEF MeMessage
<1>7. CASE b.kind = "list"
  BY <1>1, <1>7, MessageKinds DEF ListMessage
<1> QED
  BY <1>2, <1>3, <1>4, <1>5, <1>6, <1>7

LEMMA FetchedMessage ==
    ASSUME NEW d
    PROVE  LET n == [kind |-> "list", dev |-> d, told |-> Nothing]
           IN  n.kind = "list" /\ n.dev = d /\ n.told = Nothing
  OBVIOUS

\* The user and the list that a new message tells of are the stored ones.
LEMMA NewMessages ==
    ASSUME Shape, Next, NEW n \in wires', n \notin wires, n.kind \in {"me", "list"}
    PROVE  /\ n.kind = "me" => n.told \in {Nothing, Me}
           /\ n.kind = "list" => n.told \in {Nothing, linked}
<1>1. ASSUME NEW d \in Devices, ByHand(d)
      PROVE  n.told = Nothing
  <2>1. CASE OpenSettings(d)
    BY <2>1 DEF OpenSettings, FetchList
  <2>2. CASE \E id \in Providers : Link(d, id)
    BY <2>2 DEF Link, Refresh
  <2>3. CASE Logout(d) \/ \E id \in Providers : Unlink(d, id)
    BY <2>3 DEF Logout, Unlink
  <2>4. CASE (\E name \in Names : Register(d, name)) \/ \E password \in BOOLEAN : SaveProfile(d, password)
    BY SMTT(60), <2>4 DEF Register, SaveProfile
  <2>5. \/ \E c \in NextCalls : \/ Setup(d, c) \/ Enable(d, c) \/ DisableOrRenew(d, c)
                                \/ LogIn(d, c) \/ Verify(d, c)
        \/ LeaveSettings(d) \/ GoToRegister(d) \/ SessionEnds(d)
        \/ \E name \in Names : TypeProfile(d, "name", name)
        \/ \E mail \in Mails : TypeProfile(d, "mail", mail)
        \/ CancelSetup(d) \/ CodesSaved(d) \/ BackToPassword(d)
        => wires' = wires
    BY DEF LeaveSettings, GoToRegister, SessionEnds, TypeProfile, CancelSetup, CodesSaved,
           BackToPassword, Setup, Enable, DisableOrRenew, LogIn, Verify, Send
  <2> QED
    BY <1>1, <2>1, <2>2, <2>3, <2>4, <2>5 DEF ByHand
<1>2. ASSUME NEW b \in wires, OnTheWay(b)
      PROVE  n.told = Nothing \/ (n.kind = "me" /\ n.told = Me) \/ (n.kind = "list" /\ n.told = linked)
  <2>1. CASE AnswerMe(b)
    <3>1. n = [b EXCEPT !.told = Me] /\ b.kind = "me"
      BY <2>1 DEF AnswerMe
    <3> QED
      BY <3>1, EditedMessages
  <2>2. CASE AnswerList(b)
    <3>1. n = [b EXCEPT !.told = linked] /\ b.kind = "list"
      BY <2>2 DEF AnswerList
    <3> QED
      BY <3>1, EditedMessages
  <2>3. CASE HearSaved(b) \/ HearUnlinked(b)
    BY <2>3 DEF HearSaved, HearUnlinked, FetchList, Refresh
  <2>4. CASE \/ EndSession(b) \/ WritePassword(b) \/ WriteFields(b) \/ DeleteConnection(b)
             \/ CheckUsername(b) \/ CreateUser(b)
    <3>1. PICK at : n = [b EXCEPT !.at = at]
      BY <2>4 DEF EndSession, WritePassword, WriteFields, DeleteConnection, CheckUsername, CreateUser
    <3>2. b.kind \in {"logout", "save", "unlink", "register"}
      BY <2>4 DEF EndSession, WritePassword, WriteFields, DeleteConnection, CheckUsername, CreateUser
    <3>3. [b EXCEPT !.at = at].kind = b.kind
      BY <3>2, EditedMessages
    <3> QED
      BY <3>1, <3>2, <3>3
  <2>5. CASE CountUsers(b)
    <3>1. PICK role : n = [b EXCEPT !.at = "counted", !.role = role]
      BY <2>5 DEF CountUsers
    <3>2. [b EXCEPT !.at = "counted", !.role = role].kind = "register"
      BY <2>5, EditedMessages DEF CountUsers
    <3> QED
      BY <3>1, <3>2
  <2>6. CASE \/ HearMe(b) \/ MissMe(b) \/ HearLogout(b) \/ MissSaved(b) \/ HearList(b) \/ MissList(b)
             \/ MissUnlinked(b) \/ HearRegistered(b) \/ MissRegistered(b)
    BY <2>6 DEF HearMe, MissMe, HearLogout, MissSaved, HearList, MissList, MissUnlinked,
                HearRegistered, MissRegistered
  <2> QED
    BY <1>2, <2>1, <2>2, <2>3, <2>4, <2>5, <2>6 DEF OnTheWay
<1>3. ASSUME NEW c \in Calls, OfCall(c)
      PROVE  n.told = Nothing
  <2>1. CASE HearChange(c)
    BY <2>1 DEF HearChange, Refresh
  <2>2. CASE Serve(c) \/ ServeFails(c) \/ TokenRunsOut(c) \/ HearLogin(c) \/ HearNoLogin(c) \/ LoseCall(c)
    BY <2>2 DEF Serve, ServeFails, TokenRunsOut, HearLogin, HearNoLogin, LoseCall
  <2> QED
    BY <1>3, <2>1, <2>2 DEF OfCall
<1> QED
  BY <1>1, <1>2, <1>3 DEF Next

\* A message about d is under way.
Some(kind, d) == \E m \in wires : m.kind = kind /\ m.dev = d

\* A refresh or a fetch that is over is heard of, or asked for anew, or lost;
\* a saved profile is heard of, or that it was saved gets lost.
Missed(m) ==
    \/ m.dev \in past'.blurred
    \/ m.kind = "me" /\ (user'[m.dev] \in {Nothing, m.told} \/ Some("me", m.dev)')
    \/ m.kind = "list" /\ (list'[m.dev] = NoList \/ HearList(m) \/ Some("list", m.dev)')
    \/ m.kind = "save" /\ (m.at # "ok" \/ HearSaved(m))
LEMMA OldMessages ==
    ASSUME Shape, Next, NEW m \in wires, m \notin wires', m.kind \in {"me", "list", "save"}
    PROVE  Missed(m)
<1>1. /\ MessageFits(m, part) /\ m.dev \in Devices
      /\ user \in [Devices -> Person(part) \cup {Nothing}]
      /\ list \in [Devices -> Connections] /\ past \in Past
  BY MessageKinds DEF Shape, WireTypes, ServerTypes, ClientTypes
<1>2. ASSUME NEW d \in Devices, ByHand(d)
      PROVE  Missed(m)
  <2>1. CASE OpenSettings(d)
    <3>1. wires' = FetchList(d) /\ ~Loading(d) /\ m.kind = "list" /\ m.dev = d
      BY <2>1 DEF OpenSettings, FetchList
    <3> QED
      BY <3>1 DEF Loading
  <2>2. ASSUME NEW id \in Providers, Link(d, id)
        PROVE  Missed(m)
    <3>1. m.dev = d /\ user'[d] = Nothing /\ list'[d] = NoList /\ part = "connections"
      BY <1>1, <2>2 DEF Link
    <3>2. m.kind # "save"
      BY <1>1, <3>1 DEF MessageFits
    <3> QED
      BY <3>1, <3>2 DEF Missed
  <2>3. CASE Logout(d) \/ \E id \in Providers : Unlink(d, id)
    BY <2>3 DEF Logout, Unlink
  <2>4. CASE (\E name \in Names : Register(d, name)) \/ \E password \in BOOLEAN : SaveProfile(d, password)
    BY SMTT(60), <2>4 DEF Register, SaveProfile
  <2>5. \/ \E c \in NextCalls : \/ Setup(d, c) \/ Enable(d, c) \/ DisableOrRenew(d, c)
                                \/ LogIn(d, c) \/ Verify(d, c)
        \/ LeaveSettings(d) \/ GoToRegister(d) \/ SessionEnds(d)
        \/ \E name \in Names : TypeProfile(d, "name", name)
        \/ \E mail \in Mails : TypeProfile(d, "mail", mail)
        \/ CancelSetup(d) \/ CodesSaved(d) \/ BackToPassword(d)
        => wires' = wires
    BY DEF LeaveSettings, GoToRegister, SessionEnds, TypeProfile, CancelSetup, CodesSaved,
           BackToPassword, Setup, Enable, DisableOrRenew, LogIn, Verify, Send
  <2> QED
    BY <1>2, <2>1, <2>2, <2>3, <2>4, <2>5 DEF ByHand
<1>3. ASSUME NEW b \in wires, OnTheWay(b)
      PROVE  Missed(m)
  <2>1. CASE HearUnlinked(b)
    <3>0. b.kind = "unlink" /\ wires' \in {wires \ {b}, FetchList(b.dev) \ {b}}
      BY <2>1 DEF HearUnlinked
    <3>1. m.kind = "list" /\ m.dev = b.dev /\ wires' = FetchList(b.dev) \ {b} /\ b.kind = "unlink"
      BY <3>0 DEF FetchList
    <3>2. [kind |-> "list", dev |-> b.dev, told |-> Nothing] \in wires'
      BY <3>1, FetchedMessage DEF FetchList
    <3>3. Some("list", b.dev)'
      BY <3>2, FetchedMessage DEF Some
    <3> QED
      BY <3>1, <3>3 DEF Missed
  <2>2. CASE AnswerMe(b)
    <3> DEFINE n == [b EXCEPT !.told = Me]
    <3>1. m = b /\ n \in wires' /\ b.kind = "me"
      BY <2>2 DEF AnswerMe
    <3>2. n.kind = "me" /\ n.dev = m.dev
      BY <3>1, EditedMessages
    <3> HIDE DEF n
    <3>3. Some("me", m.dev)'
      BY <3>1, <3>2 DEF Some
    <3> QED
      BY <3>1, <3>3 DEF Missed
  <2>3. CASE AnswerList(b)
    <3> DEFINE n == [b EXCEPT !.told = linked]
    <3>1. m = b /\ n \in wires' /\ b.kind = "list"
      BY <2>3 DEF AnswerList
    <3>2. n.kind = "list" /\ n.dev = m.dev
      BY <3>1, EditedMessages
    <3> HIDE DEF n
    <3>3. Some("list", m.dev)'
      BY <3>1, <3>2 DEF Some
    <3> QED
      BY <3>1, <3>3 DEF Missed
  <2>4. CASE HearMe(b)
    BY <1>1, <2>4 DEF HearMe, SetUser, Missed
  <2>5. CASE MissMe(b)
    <3>1. m = b
      BY <2>5 DEF MissMe
    <3>2. CASE b.why = "mount"
      BY <1>1, <2>5, <3>1, <3>2 DEF MissMe, SetUser, Missed
    <3>3. CASE b.why # "mount"
      BY <1>1, <2>5, <3>1, <3>3 DEF MissMe, Missed, Past
    <3> QED
      BY <3>2, <3>3
  <2>6. CASE MissList(b) \/ MissSaved(b)
    BY <1>1, <2>6 DEF MissList, MissSaved, Missed, Past
  <2>7. CASE HearList(b) \/ HearSaved(b)
    BY <2>7 DEF HearList, HearSaved, Missed
  <2>8. CASE WritePassword(b) \/ WriteFields(b)
    BY <2>8 DEF WritePassword, WriteFields, Missed
  <2>9. CASE \/ HearLogout(b) \/ EndSession(b) \/ DeleteConnection(b) \/ MissUnlinked(b)
             \/ CheckUsername(b) \/ CountUsers(b) \/ CreateUser(b)
             \/ HearRegistered(b) \/ MissRegistered(b)
    BY <2>9 DEF HearLogout, EndSession, DeleteConnection, MissUnlinked, CheckUsername, CountUsers,
                CreateUser, HearRegistered, MissRegistered
  <2> QED
    BY <1>3, <2>1, <2>2, <2>3, <2>4, <2>5, <2>6, <2>7, <2>8, <2>9 DEF OnTheWay
<1>4. ASSUME NEW c \in Calls, OfCall(c)
      PROVE  FALSE
  <2>1. CASE HearChange(c)
    BY <2>1 DEF HearChange
  <2>2. CASE Serve(c) \/ ServeFails(c) \/ TokenRunsOut(c) \/ HearLogin(c) \/ HearNoLogin(c) \/ LoseCall(c)
    BY <2>2 DEF Serve, ServeFails, TokenRunsOut, HearLogin, HearNoLogin, LoseCall
  <2> QED
    BY <1>4, <2>1, <2>2 DEF OfCall
<1> QED
  BY <1>2, <1>3, <1>4 DEF Next

-----------------------------------------------------------------------------
(* The connections.  What a device was told is gone is neither linked nor  *)
(* on a list that is under way; its own list has it at most until the one  *)
(* that is being fetched comes in, or as long as it is marked, and one     *)
(* that is marked is being fetched while the settings are open.            *)

ListFits(d) ==
    /\ past.gone[d] \cap linked = {}
    /\ \A m \in wires : m.kind = "list" /\ m.dev = d /\ m.told # Nothing =>
          past.gone[d] \cap m.told = {}
    /\ Clear(d) /\ list[d].rows # Nothing /\ ~list[d].stale /\ ~Some("list", d)
       => past.gone[d] \cap list[d].rows = {}
    /\ Clear(d) /\ list[d].stale /\ page[d].at = "settings" => Some("list", d)

\* Device d hears that a connection is removed.
Unlinked(d) == \E m \in wires : HearUnlinked(m) /\ m.dev = d

\* What a step does to the connections, to a device's list of them, and to those
\* it was told are gone.
ListEffects(d) ==
    /\ past.gone[d] \cap linked = {} => past'.gone[d] \cap linked' = {}
    /\ past'.gone[d] \subseteq past.gone[d] \/ Unlinked(d)
    /\ \/ list'[d] \in {list[d], NoList}
       \/ Unlinked(d) /\ list'[d].stale
       \/ \E m \in wires : /\ m.kind = "list" /\ m.dev = d /\ m.told # Nothing
                           /\ list'[d] = [rows |-> m.told, stale |-> FALSE]
    /\ past.blurred \subseteq past'.blurred

LEMMA HearsUnlinked ==
    ASSUME Shape, NEW m \in wires, HearUnlinked(m), NEW d \in Devices
    PROVE  /\ UNCHANGED linked /\ past'.blurred = past.blurred
           /\ d # m.dev => list'[d] = list[d] /\ past'.gone[d] = past.gone[d]
           /\ d = m.dev => list'[d].stale
           /\ d = m.dev => past'.gone[d] = IF Overtaken(d, m.id) THEN past.gone[d]
                                           ELSE past.gone[d] \cup ({m.id} \ linked)
<1>1. past \in Past /\ list \in [Devices -> Connections] /\ m.dev \in Devices
  BY MessageKinds DEF Shape, ServerTypes, WireTypes
<1>2. /\ list' = [list EXCEPT ![m.dev].stale = TRUE] /\ UNCHANGED linked
      /\ past' = [past EXCEPT !.gone[m.dev] = IF Overtaken(m.dev, m.id) THEN @
                                              ELSE @ \cup ({m.id} \ linked)]
  BY DEF HearUnlinked, server
<1>3. past'.blurred = past.blurred
  BY <1>1, <1>2 DEF Past
<1>4. /\ d # m.dev => past'.gone[d] = past.gone[d]
      /\ d = m.dev => past'.gone[d] = IF Overtaken(d, m.id) THEN past.gone[d]
                                      ELSE past.gone[d] \cup ({m.id} \ linked)
  BY <1>1, <1>2 DEF Past
<1>5. (d # m.dev => list'[d] = list[d]) /\ (d = m.dev => list'[d].stale)
  BY <1>1, <1>2 DEF Connections
<1> QED
  BY <1>2, <1>3, <1>4, <1>5

LEMMA ListsMove ==
    ASSUME Shape, Next, NEW d \in Devices
    PROVE  ListEffects(d)
<1>1. past \in Past /\ list \in [Devices -> Connections]
  BY DEF Shape, ServerTypes
<1>2. CASE UNCHANGED <<linked, list>> /\ past'.gone = past.gone /\ past.blurred \subseteq past'.blurred
  BY <1>2 DEF ListEffects
<1>3. ASSUME NEW e \in Devices, ByHand(e)
      PROVE  ListEffects(d)
  <2>1. ASSUME NEW id \in Providers, Link(e, id)
        PROVE  ListEffects(d)
    <3>1. past'.gone[d] = IF d = e THEN {} ELSE past.gone[d] \ {id}
      BY <1>1, <2>1 DEF Link, Past
    <3>2. past'.blurred = past.blurred
      BY <1>1, <2>1 DEF Link, Past
    <3>3. list'[d] \in {list[d], NoList} /\ linked' \subseteq linked \cup {id}
      BY <1>1, <2>1 DEF Link
    <3> QED
      BY <3>1, <3>2, <3>3 DEF ListEffects
  <2>2. CASE \/ OpenSettings(e) \/ LeaveSettings(e) \/ GoToRegister(e) \/ Logout(e) \/ SessionEnds(e)
             \/ \E name \in Names : TypeProfile(e, "name", name)
             \/ \E mail \in Mails : TypeProfile(e, "mail", mail)
             \/ CancelSetup(e) \/ CodesSaved(e) \/ BackToPassword(e)
    BY <1>2, <2>2 DEF OpenSettings, LeaveSettings, GoToRegister, Logout, SessionEnds, TypeProfile,
              CancelSetup, CodesSaved, BackToPassword, server
  <2>3. CASE \/ \E password \in BOOLEAN : SaveProfile(e, password)
             \/ \E id \in Providers : Unlink(e, id)
             \/ \E name \in Names : Register(e, name)
    BY <1>2, <2>3 DEF SaveProfile, Unlink, Register, server
  <2>4. ASSUME NEW c \in NextCalls, Sends5(e, c)
        PROVE  ListEffects(d)
    <3>1. PICK kind, code, token : Send(e, c, kind, code, token)
      BY <2>4, SentAsAllowed
    <3> QED
      BY <1>1, <1>2, <3>1 DEF Send, server, Past
  <2> QED
    BY <1>3, <2>1, <2>2, <2>3, <2>4 DEF ByHand, Sends5
<1>4. ASSUME NEW m \in wires, OnTheWay(m)
      PROVE  ListEffects(d)
  <2>1. CASE HearUnlinked(m)
    <3>1. CASE m.dev = d
      <4>1. past.gone[d] \cap linked = {} => past'.gone[d] \cap linked' = {}
        BY <2>1, <3>1, HearsUnlinked
      <4> QED
        BY <2>1, <3>1, <4>1, HearsUnlinked DEF ListEffects, Unlinked
    <3>2. CASE m.dev # d
      BY <2>1, <3>2, HearsUnlinked DEF ListEffects
    <3> QED
      BY <3>1, <3>2
  <2>2. CASE DeleteConnection(m)
    BY <2>2 DEF DeleteConnection, ListEffects
  <2>3. CASE HearList(m)
    <3>1. m.dev \in Devices
      BY MessageKinds DEF Shape, WireTypes
    <3>2. UNCHANGED <<linked, past>> /\ list'[d] = IF d = m.dev THEN [rows |-> m.told, stale |-> FALSE] ELSE list[d]
      BY <1>1, <2>3, <3>1 DEF HearList, server
    <3> QED
      BY <2>3, <3>2 DEF ListEffects, HearList
  <2>4. CASE \/ AnswerMe(m) \/ HearMe(m) \/ MissMe(m) \/ EndSession(m) \/ HearLogout(m)
             \/ WritePassword(m) \/ AnswerList(m) \/ MissUnlinked(m)
             \/ CheckUsername(m) \/ CountUsers(m) \/ CreateUser(m)
             \/ HearRegistered(m) \/ MissRegistered(m)
    <3>1. UNCHANGED <<linked, list>>
      BY <2>4 DEF AnswerMe, HearMe, MissMe, EndSession, HearLogout, WritePassword, AnswerList,
                  MissUnlinked, CheckUsername, CountUsers, CreateUser, HearRegistered, MissRegistered, server
    <3>2. past' = past \/ MissMe(m)
      BY <2>4 DEF AnswerMe, HearMe, EndSession, HearLogout, WritePassword, AnswerList,
                  MissUnlinked, CheckUsername, CountUsers, CreateUser, HearRegistered, MissRegistered
    <3>3. past'.gone = past.gone /\ past.blurred \subseteq past'.blurred
      BY <1>1, <3>2 DEF MissMe, Past
    <3> QED
      BY <1>2, <3>1, <3>3
  <2>5. CASE WriteFields(m) \/ HearSaved(m) \/ MissSaved(m) \/ MissList(m)
    BY <1>1, <1>2, <2>5 DEF WriteFields, HearSaved, MissSaved, MissList, server, Past, Blurred
  <2> QED
    BY <1>4, <2>1, <2>2, <2>3, <2>4, <2>5 DEF OnTheWay
<1>5. ASSUME NEW c \in Calls, OfCall(c)
      PROVE  ListEffects(d)
  <2>1. UNCHANGED <<linked, list>>
    BY <1>5 DEF OfCall, Serve, ServeFails, TokenRunsOut, HearChange, HearLogin, HearNoLogin, LoseCall, server
  <2>2. CASE Serve(c)
    BY <1>1, <1>2, <2>1, <2>2 DEF Serve, Past
  <2>3. CASE ServeFails(c) \/ HearChange(c) \/ LoseCall(c)
    BY <1>1, <1>2, <2>1, <2>3 DEF ServeFails, HearChange, LoseCall, Past, Blurred
  <2>4. CASE TokenRunsOut(c) \/ HearLogin(c) \/ HearNoLogin(c)
    BY <1>2, <2>1, <2>4 DEF TokenRunsOut, HearLogin, HearNoLogin
  <2> QED
    BY <1>5, <2>2, <2>3, <2>4 DEF OfCall
<1> QED
  BY <1>3, <1>4, <1>5 DEF Next

\* The settings are entered by opening them.
LEMMA EntersSettings ==
    ASSUME Shape, Next, NEW d \in Devices, page'[d].at = "settings"
    PROVE  page[d].at = "settings" \/ OpenSettings(d)
<1>1. ClientTypes
  BY DEF Shape
<1>2. CASE Aside
  BY <1>2 DEF Aside, Turned
<1>3. ASSUME NEW e \in Devices, NEW c \in NextCalls, Sends5(e, c)
      PROVE  page[d].at = "settings"
  <2>1. PICK kind, code, token : Send(e, c, kind, code, token)
    BY <1>3, SentAsAllowed
  <2> QED
    BY <1>1, <2>1 DEF Send, ClientTypes, Page
<1>4. ASSUME NEW e \in Devices, CancelSetup(e) \/ CodesSaved(e)
      PROVE  page[d].at = "settings"
  BY <1>1, <1>4 DEF CancelSetup, CodesSaved, ClientTypes, Page
<1>5. ASSUME NEW c \in Calls, Serve(c) \/ ServeFails(c)
      PROVE  page[d].at = "settings"
  BY <1>5 DEF Serve, ServeFails
<1>6. ASSUME NEW c \in Calls, HearChange(c) \/ HearNoLogin(c) \/ LoseCall(c)
      PROVE  page[d].at = "settings"
  BY <1>1, <1>6 DEF HearChange, HearNoLogin, LoseCall, ClientTypes, Page
<1>7. ASSUME NEW c \in Calls, HearLogin(c)
      PROVE  page[d].at = "settings"
  <2> DEFINE e == caller[c].dev
  <2>1. \E p : p.at = page[e].at /\ SetUser(e, caller[c].told, p)
    <3>1. SetUser(e, caller[c].told, [page[e] EXCEPT !.busy = @ /\ ~There(c)])
      BY <1>7 DEF HearLogin
    <3>2. e \in Devices
      BY <1>7, AskersWait DEF Shape, HearLogin, Asking
    <3>3. [page[e] EXCEPT !.busy = @ /\ ~There(c)].at = page[e].at
      BY <1>1, <3>2 DEF ClientTypes, Page
    <3> QED
      BY <3>1, <3>3
  <2> HIDE DEF e
  <2>2. PICK p : p.at = page[e].at /\ SetUser(e, caller[c].told, p)
    BY <2>1
  <2> QED
    BY <1>1, <2>2 DEF SetUser, Drifting, Routed, Blank, ClientTypes
<1> QED
  BY <1>2, <1>3, <1>4, <1>5, <1>6, <1>7, FactorSteps

\* A device that hears of a removal with the settings open fetches its list, and
\* otherwise does not count it as gone if an answer that has it is under way.
LEMMA UnlinkedStep ==
    ASSUME Shape, NEW d \in Devices, ListFits(d), Next, Unlinked(d)
    PROVE  ListFits(d)'
<1>1. ListEffects(d)
  BY ListsMove
<1>2. PICK m \in wires : HearUnlinked(m) /\ m.dev = d
  BY DEF Unlinked
<1>3. m.kind = "unlink" /\ list'[d].stale /\ page'[d].at = page[d].at
  <2>1. PICK u : page' = [page EXCEPT ![d] = [page[d] EXCEPT !.unlinking = page[d].unlinking /\ u]]
    BY <1>2, ButtonsOnly
  <2>2. page'[d].at = page[d].at
    BY <2>1 DEF Shape, ClientTypes, Page
  <2> QED
    BY <1>2, <2>2, HearsUnlinked DEF HearUnlinked
<1>4. past'.gone[d] \cap linked' = {}
  BY <1>1 DEF ListEffects, ListFits
<1>5. CASE page[d].at = "settings"
  <2>1. wires' = FetchList(d) \ {m}
    BY <1>2, <1>5 DEF HearUnlinked
  <2>2. [kind |-> "list", dev |-> d, told |-> Nothing] \in wires'
    BY <1>3, <2>1, FetchedMessage DEF FetchList
  <2>3. Some("list", d)'
    BY <2>2, FetchedMessage DEF Some
  <2>4. \A n \in wires' : n.kind = "list" /\ n.dev = d => n.told = Nothing
    BY <2>1, FetchedMessage DEF FetchList
  <2> QED
    BY <1>3, <1>4, <2>3, <2>4 DEF ListFits
<1>6. CASE page[d].at # "settings"
  <2>1. wires' = wires \ {m}
    BY <1>2, <1>6 DEF HearUnlinked
  <2>2. ASSUME NEW n \in wires', n.kind = "list", n.dev = d, n.told # Nothing
        PROVE  past'.gone[d] \cap n.told = {}
    <3>1. past.gone[d] \cap n.told = {}
      BY <2>1, <2>2 DEF ListFits
    <3>2. m.id \in n.told => Overtaken(d, m.id)
      BY <1>6, <2>1, <2>2 DEF Overtaken
    <3>3. CASE Overtaken(d, m.id)
      <4>1. past'.gone[d] = past.gone[d]
        BY <1>2, <3>3, HearsUnlinked
      <4> QED
        BY <3>1, <4>1
    <3>4. CASE ~Overtaken(d, m.id)
      <4>1. past'.gone[d] = past.gone[d] \cup ({m.id} \ linked)
        BY <1>2, <3>4, HearsUnlinked
      <4> QED
        BY <3>1, <3>2, <3>4, <4>1
    <3> QED
      BY <3>3, <3>4
  <2> QED
    BY <1>3, <1>4, <1>6, <2>2 DEF ListFits
<1> QED
  BY <1>5, <1>6

LEMMA ListStep ==
    ASSUME Shape, NEW d \in Devices, ListFits(d), Next
    PROVE  ListFits(d)'
<1>1. ListEffects(d)
  BY ListsMove
<1>2. CASE ~Unlinked(d)
  <2>1. past'.gone[d] \subseteq past.gone[d]
    BY <1>1, <1>2 DEF ListEffects
  <2>2. ASSUME NEW n \in wires', n.kind = "list", n.dev = d, n.told # Nothing
        PROVE  past'.gone[d] \cap n.told = {}
    <3>1. CASE n \in wires
      BY <2>1, <2>2, <3>1 DEF ListFits
    <3>2. CASE n \notin wires
      BY <2>1, <2>2, <3>2, NewMessages DEF ListFits
    <3> QED
      BY <3>1, <3>2
  <2>3. ASSUME Clear(d)', list'[d] = list[d], Some("list", d), ~Some("list", d)'
        PROVE  \/ list'[d] = NoList
               \/ \E m \in wires : /\ m.kind = "list" /\ m.dev = d /\ m.told # Nothing
                                   /\ list'[d] = [rows |-> m.told, stale |-> FALSE]
    <3>1. PICK m \in wires : m.kind = "list" /\ m.dev = d
      BY <2>3 DEF Some
    <3>2. m \notin wires'
      BY <2>3, <3>1 DEF Some
    <3>3. Missed(m)
      BY <3>1, <3>2, OldMessages
    <3>4. list'[d] = NoList \/ HearList(m)
      BY <2>3, <3>1, <3>3 DEF Missed, Clear
    <3> QED
      BY <3>1, <3>4 DEF HearList, Shape, ServerTypes
  <2>4. ASSUME Clear(d)', list'[d].rows # Nothing, ~list'[d].stale, ~Some("list", d)'
        PROVE  past'.gone[d] \cap list'[d].rows = {}
    <3>1. CASE \E m \in wires : /\ m.kind = "list" /\ m.dev = d /\ m.told # Nothing
                                /\ list'[d] = [rows |-> m.told, stale |-> FALSE]
      BY <2>1, <3>1 DEF ListFits
    <3>2. CASE list'[d] = list[d] /\ ~Some("list", d)
      BY <1>1, <2>1, <2>4, <3>2 DEF ListFits, ListEffects, Clear
    <3>3. list'[d] # NoList
      BY <2>4 DEF NoList
    <3> QED
      BY <1>1, <1>2, <2>3, <2>4, <3>1, <3>2, <3>3 DEF ListEffects
  <2>5. ASSUME Clear(d)', list'[d].stale, page'[d].at = "settings"
        PROVE  Some("list", d)'
    <3>0. list'[d] # NoList /\ \A told : list'[d] # [rows |-> told, stale |-> FALSE]
      BY <2>5 DEF NoList
    <3>1. list'[d] = list[d]
      BY <1>1, <1>2, <3>0 DEF ListEffects
    <3>2. CASE Some("list", d)
      BY <2>3, <2>5, <3>0, <3>1, <3>2
    <3>3. CASE page[d].at = "settings"
      <4>1. Some("list", d)
        BY <1>1, <2>5, <3>1, <3>3 DEF ListFits, ListEffects, Clear
      <4> QED
        BY <3>2, <4>1
    <3>4. CASE OpenSettings(d) /\ ~Some("list", d)
      <4>1. ~Loading(d)
        BY <3>4 DEF Loading, Some
      <4>2. wires' = FetchList(d)
        BY <2>5, <3>1, <3>4, <4>1 DEF OpenSettings
      <4>3. [kind |-> "list", dev |-> d, told |-> Nothing] \in wires'
        BY <4>2 DEF FetchList
      <4> QED
        BY <4>3, FetchedMessage DEF Some
    <3> QED
      BY <2>5, <3>2, <3>3, <3>4, EntersSettings
  <2>6. past'.gone[d] \cap linked' = {}
    BY <1>1 DEF ListEffects, ListFits
  <2> QED
    BY <2>2, <2>4, <2>5, <2>6 DEF ListFits
<1> QED
  BY <1>2, UnlinkedStep

-----------------------------------------------------------------------------
(* The user.  A device that has changed the account last is owed a         *)
(* refresh, or whatever it is going to hear of the user is what is stored. *)

Turn == {"enable", "disable"}
LogsIn(c, d) == Waits(c) /\ caller[c].dev = d /\ calls[c].kind \notin Changing

Owed(d) ==
    \/ \E m \in wires : m.kind = "save" /\ m.dev = d /\ m.at = "ok"
    \/ \E c \in Calls : Waits(c) /\ caller[c].dev = d /\ calls[c].kind \in Turn /\ Written(c)
InStep(d) ==
    /\ \A m \in wires : m.kind = "me" /\ m.dev = d => m.told \in {Nothing, Me}
    /\ \A c \in Calls : LogsIn(c, d) => caller[c].told \in {Nothing, Me}
    /\ user[d] \in {Nothing, Me} \/ Some("me", d)
UserFits(d) ==
    past.calm /\ Clear(d) /\ past.writer = d =>
       part \in {"profile", "factor"} /\ (Owed(d) \/ InStep(d))

LEMMA PastWanes ==
    ASSUME Shape, Next
    PROVE  (past'.calm => past.calm) /\ past.blurred \subseteq past'.blurred
<1>1. past \in Past
  BY DEF Shape
<1>2. ASSUME NEW d \in Devices, NEW c \in NextCalls, Sends5(d, c)
      PROVE  (past'.calm => past.calm) /\ past.blurred \subseteq past'.blurred
  <2>1. PICK kind, code, token : Send(d, c, kind, code, token)
    BY <1>2, SentAsAllowed
  <2> QED
    BY <1>1, <2>1 DEF Send, Past
<1>3. ASSUME NEW d \in Devices, CancelSetup(d) \/ CodesSaved(d)
      PROVE  past' = past
  BY <1>3 DEF CancelSetup, CodesSaved
<1>4. ASSUME NEW c \in Calls, Serve(c) \/ ServeFails(c)
      PROVE  (past'.calm => past.calm) /\ past.blurred \subseteq past'.blurred
  BY ZenonT(60), <1>1, <1>4 DEF Serve, ServeFails, Past
<1>5. ASSUME NEW c \in Calls, HearChange(c) \/ HearLogin(c) \/ HearNoLogin(c) \/ LoseCall(c)
      PROVE  (past'.calm => past.calm) /\ past.blurred \subseteq past'.blurred
  BY <1>1, <1>5 DEF HearChange, HearLogin, HearNoLogin, LoseCall, Past, Blurred
<1> QED
  BY <1>2, <1>3, <1>4, <1>5, FactorSteps DEF Aside

\* What is stored of the user changes with the fields of a profile and with the
\* switch, and in no other step.
LEMMA MeChanges ==
    ASSUME Shape, Next
    PROVE  \/ UNCHANGED <<profile.name, profile.mail, enabled>> /\ past'.writer = past.writer
           \/ \E m \in wires : WriteFields(m)
           \/ \E c \in Calls : Serve(c) /\ calls[c].at = "write"
<1>1. past \in Past /\ profile \in [name : Names, mail : Mails, pass : BOOLEAN]
  BY DEF Shape, ServerTypes
<1> DEFINE Same == UNCHANGED <<profile.name, profile.mail, enabled>> /\ past'.writer = past.writer
<1>2. ASSUME NEW d \in Devices, ByHand(d)
      PROVE  Same
  <2>1. ASSUME NEW id \in Providers, Link(d, id)
        PROVE  Same
    BY <1>1, <2>1 DEF Link, Past, twoFactorVars
  <2>2. CASE \/ OpenSettings(d) \/ LeaveSettings(d) \/ GoToRegister(d) \/ Logout(d) \/ SessionEnds(d)
             \/ \E name \in Names : TypeProfile(d, "name", name)
             \/ \E mail \in Mails : TypeProfile(d, "mail", mail)
             \/ CancelSetup(d) \/ CodesSaved(d) \/ BackToPassword(d)
    BY <2>2 DEF OpenSettings, LeaveSettings, GoToRegister, Logout, SessionEnds, TypeProfile,
                CancelSetup, CodesSaved, BackToPassword, server, twoFactorVars
  <2>3. CASE \/ \E password \in BOOLEAN : SaveProfile(d, password)
             \/ \E id \in Providers : Unlink(d, id)
             \/ \E name \in Names : Register(d, name)
    BY <2>3 DEF SaveProfile, Unlink, Register, server, twoFactorVars
  <2>4. ASSUME NEW c \in NextCalls, Sends5(d, c)
        PROVE  Same
    <3>1. PICK kind, code, token : Send(d, c, kind, code, token)
      BY <2>4, SentAsAllowed
    <3> QED
      BY <1>1, <3>1 DEF Send, Ask, rows, server, Past
  <2> QED
    BY <1>2, <2>1, <2>2, <2>3, <2>4 DEF ByHand, Sends5
<1>3. ASSUME NEW m \in wires, OnTheWay(m), ~WriteFields(m)
      PROVE  Same
  <2>1. CASE WritePassword(m)
    BY <1>1, <2>1 DEF WritePassword, twoFactorVars
  <2>2. CASE \/ AnswerMe(m) \/ HearMe(m) \/ EndSession(m) \/ HearLogout(m)
             \/ AnswerList(m) \/ HearList(m) \/ DeleteConnection(m) \/ MissUnlinked(m)
             \/ CheckUsername(m) \/ CountUsers(m) \/ CreateUser(m)
             \/ HearRegistered(m) \/ MissRegistered(m)
    BY <2>2 DEF AnswerMe, HearMe, EndSession, HearLogout, AnswerList, HearList, DeleteConnection,
                MissUnlinked, CheckUsername, CountUsers, CreateUser, HearRegistered, MissRegistered,
                server, twoFactorVars
  <2>3. CASE MissMe(m) \/ HearSaved(m) \/ MissSaved(m) \/ MissList(m) \/ HearUnlinked(m)
    BY <1>1, <2>3 DEF MissMe, HearSaved, MissSaved, MissList, HearUnlinked, server, twoFactorVars, Past
  <2> QED
    BY <1>3, <2>1, <2>2, <2>3 DEF OnTheWay
<1>4. ASSUME NEW c \in Calls, OfCall(c), ~(Serve(c) /\ calls[c].at = "write")
      PROVE  Same
  <2>1. CASE Serve(c)
    <3>1. Effects(c)
      BY <2>1, HandleMoves DEF Serve, Shape
    <3>2. UNCHANGED profile /\ past'.writer = past.writer
      BY <1>1, <1>4, <2>1 DEF Serve, server, Past
    <3> QED
      BY <1>4, <2>1, <3>1, <3>2 DEF Effects
  <2>2. CASE ServeFails(c) \/ TokenRunsOut(c)
    BY <1>1, <2>2 DEF ServeFails, TokenRunsOut, CallFails, TokenExpires, rows, server, Past
  <2>3. CASE HearChange(c) \/ HearLogin(c) \/ HearNoLogin(c) \/ LoseCall(c)
    BY <1>1, <2>3 DEF HearChange, HearLogin, HearNoLogin, LoseCall, server, twoFactorVars, Past
  <2> QED
    BY <1>4, <2>1, <2>2, <2>3 DEF OfCall
<1> QED
  BY <1>2, <1>3, <1>4 DEF Next

\* Whom a page is drawn for after a step.
LEMMA UserMoves ==
    ASSUME Shape, Next, NEW d \in Devices, part # "register"
    PROVE  \/ user'[d] \in {user[d], Nothing}
           \/ \E m \in wires : m.kind = "me" /\ m.dev = d /\ user'[d] = m.told
           \/ \E c \in Calls : LogsIn(c, d) /\ user'[d] = caller[c].told
<1>1. user \in [Devices -> Person(part) \cup {Nothing}]
  BY DEF Shape, ClientTypes
<1>2. ASSUME NEW e \in Devices, ByHand(e)
      PROVE  user'[d] \in {user[d], Nothing}
  <2>1. ASSUME NEW id \in Providers, Link(e, id)
        PROVE  user'[d] \in {user[d], Nothing}
    BY <1>1, <2>1 DEF Link
  <2>2. CASE \/ OpenSettings(e) \/ LeaveSettings(e) \/ GoToRegister(e) \/ Logout(e) \/ SessionEnds(e)
             \/ \E name \in Names : TypeProfile(e, "name", name)
             \/ \E mail \in Mails : TypeProfile(e, "mail", mail)
             \/ CancelSetup(e) \/ CodesSaved(e) \/ BackToPassword(e)
    BY <2>2 DEF OpenSettings, LeaveSettings, GoToRegister, Logout, SessionEnds, TypeProfile,
                CancelSetup, CodesSaved, BackToPassword
  <2>3. CASE \/ \E password \in BOOLEAN : SaveProfile(e, password)
             \/ \E id \in Providers : Unlink(e, id)
             \/ \E name \in Names : Register(e, name)
    BY <2>3 DEF SaveProfile, Unlink, Register
  <2>4. ASSUME NEW c \in NextCalls, Sends5(e, c)
        PROVE  UNCHANGED user
    <3>1. PICK kind, code, token : Send(e, c, kind, code, token)
      BY <2>4, SentAsAllowed
    <3> QED
      BY <3>1 DEF Send
  <2> QED
    BY <1>2, <2>1, <2>2, <2>3, <2>4 DEF ByHand, Sends5
<1>3. ASSUME NEW m \in wires, OnTheWay(m)
      PROVE  \/ user'[d] \in {user[d], Nothing}
             \/ m.kind = "me" /\ m.dev = d /\ user'[d] = m.told
  <2>1. MessageFits(m, part)
    BY DEF Shape, WireTypes
  <2>2. ~HearRegistered(m)
    BY <2>1 DEF HearRegistered, MessageFits
  <2>3. CASE HearMe(m) \/ MissMe(m) \/ HearLogout(m)
    BY <1>1, <2>3 DEF HearMe, MissMe, HearLogout, SetUser
  <2>4. CASE ~(HearMe(m) \/ MissMe(m) \/ HearLogout(m))
    <3>1. UNCHANGED user
      BY <1>3, <2>2, <2>4 DEF OnTheWay, AnswerMe, EndSession, WritePassword, WriteFields, HearSaved,
         MissSaved, AnswerList, HearList, MissList, DeleteConnection, HearUnlinked, MissUnlinked,
         CheckUsername, CountUsers, CreateUser, MissRegistered, server
    <3> QED
      BY <3>1
  <2> QED
    BY <2>3, <2>4
<1>4. ASSUME NEW c \in Calls, OfCall(c)
      PROVE  user'[d] = user[d] \/ (LogsIn(c, d) /\ user'[d] = caller[c].told)
  <2>1. CASE HearLogin(c)
    BY <1>1, <2>1 DEF HearLogin, SetUser, LogsIn
  <2>2. CASE ~HearLogin(c)
    BY <1>4, <2>2 DEF OfCall, Serve, ServeFails, TokenRunsOut, HearChange, HearNoLogin, LoseCall
  <2> QED
    BY <2>1, <2>2
<1> QED
  BY <1>2, <1>3, <1>4 DEF Next

\* A refresh that is asked for, with no other answer about the user under way,
\* settles the user.
LEMMA AskedAnew ==
    ASSUME Shape, NEW d \in Devices, NEW why, NEW visit, ~Crossed(d),
           \A m \in wires' : m \in wires \/ m = Refresh(d, why, visit),
           Refresh(d, why, visit) \in wires',
           \A c \in Calls : LogsIn(c, d)' => LogsIn(c, d)
    PROVE  InStep(d)'
<1> DEFINE r == Refresh(d, why, visit)
<1>1. r.kind = "me" /\ r.dev = d /\ r.told = Nothing /\ r \in wires'
  BY DEF Refresh
<1>2. \A m \in wires' : m \in wires \/ m = r
  OBVIOUS
<1> HIDE DEF r
<1>3. \A m \in wires' : m.kind = "me" /\ m.dev = d => m = r
  BY <1>2 DEF Crossed
<1>4. \A c \in Calls : ~LogsIn(c, d)'
  BY DEF Crossed, LogsIn
<1>5. Some("me", d)'
  BY <1>1 DEF Some
<1> QED
  BY <1>1, <1>3, <1>4, <1>5 DEF InStep

\* The two answers after which a device asks for its user.
ToldDone(d) ==
    \/ \E m \in wires : HearSaved(m) /\ m.dev = d
    \/ \E c \in Calls : HearChange(c) /\ caller[c].dev = d /\ calls[c].at = "ok"
                         /\ calls[c].kind \in Turn
LEMMA AskAgain ==
    ASSUME Shape, NEW d \in Devices, ToldDone(d), Clear(d)'
    PROVE  InStep(d)'
<1>1. past \in Past
  BY DEF Shape
<1>2. ASSUME NEW m \in wires, HearSaved(m), m.dev = d
      PROVE  InStep(d)'
  <2>1. past'.blurred = Blurred(d)
    BY <1>1, <1>2 DEF HearSaved, Past
  <2>2. ~Crossed(d)
    BY <2>1 DEF Clear, Blurred
  <2>3. wires' = (wires \ {m}) \cup {Refresh(d, "save", m.visit)} /\ UNCHANGED <<calls, caller>>
    BY <1>2 DEF HearSaved, twoFactorVars
  <2>4. \A c \in Calls : LogsIn(c, d)' => LogsIn(c, d)
    BY <2>3 DEF LogsIn, Waits
  <2> QED
    BY <2>2, <2>3, <2>4, AskedAnew
<1>3. ASSUME NEW c \in Calls, HearChange(c), caller[c].dev = d, calls[c].at = "ok", calls[c].kind \in Turn
      PROVE  InStep(d)'
  <2>1. past'.blurred = Blurred(d)
    BY <1>1, <1>3 DEF HearChange, Past, Turn
  <2>2. ~Crossed(d)
    BY <2>1 DEF Clear, Blurred
  <2>3. wires' = wires \cup {Refresh(d, "turn", 0)} /\ UNCHANGED calls
    BY <1>3 DEF HearChange, twoFactorVars, Turn
  <2>4. caller'[c] = Free /\ \A b \in Calls : b # c => caller'[b] = caller[b]
    BY <1>3, HeardGoesOn
  <2>5. \A b \in Calls : LogsIn(b, d)' => LogsIn(b, d)
    BY <2>3, <2>4 DEF LogsIn, Waits
  <2> QED
    BY <2>2, <2>3, <2>5, AskedAnew
<1> QED
  BY <1>2, <1>3 DEF ToldDone

LEMMA OwedStays ==
    ASSUME Shape, Next, NEW d \in Devices, Owed(d), ~ToldDone(d), Clear(d)'
    PROVE  Owed(d)'
<1>1. CallerTypes /\ TwoFactorTypeOK /\ past \in Past
  BY DEF Shape
<1>2. ASSUME NEW m \in wires, m.kind = "save", m.dev = d, m.at = "ok"
      PROVE  m \in wires'
  <2> SUFFICES ASSUME m \notin wires'
               PROVE  FALSE
    OBVIOUS
  <2>1. Missed(m)
    BY <1>2, OldMessages
  <2>2. HearSaved(m)
    BY <1>2, <2>1 DEF Missed, Clear
  <2> QED
    BY <1>2, <2>2 DEF ToldDone
<1>3. ASSUME NEW c \in Calls, Waits(c), caller[c].dev = d, calls[c].kind \in Turn, Written(c)
      PROVE  Waits(c)' /\ caller'[c].dev = d /\ calls'[c].kind \in Turn /\ Written(c)'
  <2>1. CASE UNCHANGED <<calls, caller>>
    BY <1>3, <2>1 DEF Waits, Written
  <2>2. ASSUME NEW e \in Devices, NEW b \in NextCalls, Sends5(e, b)
        PROVE  UNCHANGED <<calls[c], caller[c]>>
    <3>1. PICK kind, code, token : Send(e, b, kind, code, token) /\ b \in Calls
      BY <2>2, SentAsAllowed
    <3>2. calls[c].at # "idle"
      BY <1>3 DEF Written
    <3> QED
      BY <3>1, <3>2, SentCall
  <2>3. ASSUME NEW e \in Devices, CancelSetup(e) \/ CodesSaved(e)
        PROVE  UNCHANGED <<calls, caller>>
    BY <2>3 DEF CancelSetup, CodesSaved, twoFactorVars
  <2>4. ASSUME NEW b \in Calls, Serve(b)
        PROVE  Waits(c)' /\ caller'[c].dev = d /\ calls'[c].kind \in Turn /\ Written(c)'
    <3>1. CASE b # c
      BY <1>3, <2>4, <3>1, ServedGoesOn DEF Waits, Written
    <3>2. CASE b = c
      <4>1. Moved(c) /\ CallFits(calls[c], caller[c], part)
        BY <1>1, <2>4, <3>2, HandleMoves DEF Serve, CallerTypes
      <4>2. calls[c].kind = "disable" /\ calls[c].at = "purge"
        BY <1>3, <4>1 DEF Written, Turn, Moved, CallFits
      <4>3. calls'[c].at = "ok" /\ calls'[c].kind = "disable"
        BY <4>1, <4>2 DEF Moved, Follows
      <4>4. GoesOn(c) /\ caller'[c] # Free
        BY <2>4, <3>2, ServedGoesOn
      <4> QED
        BY <1>3, <4>3, <4>4 DEF GoesOn, Waits, Written, Turn
    <3> QED
      BY <3>1, <3>2
  <2>5. ASSUME NEW b \in Calls, ServeFails(b)
        PROVE  UNCHANGED <<calls[c], caller[c]>>
    <3>1. b # c
      <4> SUFFICES ASSUME b = c
                   PROVE  FALSE
        OBVIOUS
      <4>1. AtWork(c) /\ CallFits(calls[c], caller[c], part)
        BY <1>1, <2>5 DEF ServeFails, CallFails, CallerTypes
      <4>2. calls[c].at = "purge"
        BY <1>3, <4>1 DEF Written, Turn, AtWork, Over, CallFits
      <4>3. d \in past'.blurred
        BY <1>1, <1>3, <2>5, <4>2 DEF ServeFails, Past
      <4> QED
        BY <4>3 DEF Clear
    <3> QED
      BY <2>5, <3>1, ServedGoesOn
  <2>6. ASSUME NEW b \in Calls, HearChange(b) \/ HearLogin(b) \/ HearNoLogin(b) \/ LoseCall(b)
        PROVE  UNCHANGED <<calls[c], caller[c]>>
    <3>1. b # c
      <4> SUFFICES ASSUME b = c
                   PROVE  FALSE
        OBVIOUS
      <4>1. calls[c].kind \in Changing
        BY <1>3 DEF Turn, Changing
      <4>2. ~LoseCall(c)
        <5>1. LoseCall(c) => d \in past'.blurred
          BY <1>1, <1>3 DEF LoseCall, Past
        <5> QED
          BY <5>1 DEF Clear
      <4>3. HearChange(c)
        BY <2>6, <4>1, <4>2 DEF HearLogin, HearNoLogin
      <4>4. calls[c].at = "ok"
        BY <1>3, <2>6, HeardGoesOn DEF Written, Over
      <4> QED
        BY <1>3, <4>3, <4>4 DEF ToldDone
    <3> QED
      BY <2>6, <3>1, HeardGoesOn
  <2> QED
    BY <1>3, <2>1, <2>2, <2>3, <2>4, <2>5, <2>6, FactorSteps DEF Aside, Waits, Written
<1> QED
  BY <1>2, <1>3 DEF Owed

\* Whoever logs in is told the user that is stored.
LEMMA LoginsTold ==
    ASSUME Shape, Next, NEW d \in Devices, NEW c \in Calls, LogsIn(c, d)'
    PROVE  caller'[c].told \in {Nothing, Me} \/ (LogsIn(c, d) /\ caller'[c].told = caller[c].told)
<1>1. CASE UNCHANGED <<calls, caller>>
  BY <1>1 DEF LogsIn, Waits
<1>2. ASSUME NEW e \in Devices, NEW b \in NextCalls, Sends5(e, b)
      PROVE  caller'[c].told = Nothing \/ UNCHANGED <<calls[c], caller[c]>>
  <2>1. PICK kind, code, token : Send(e, b, kind, code, token) /\ b \in Calls
    BY <1>2, SentAsAllowed
  <2>2. CASE b = c
    <3>1. caller'[c] = [dev |-> e, visit |-> page[e].visit, told |-> Nothing,
                        batch |-> page[e].factor.offered]
      BY <2>1, <2>2, SentCall
    <3> QED
      BY <3>1
  <2>3. CASE b # c
    BY <2>1, <2>3, SentCall
  <2> QED
    BY <2>2, <2>3
<1>3. ASSUME NEW e \in Devices, CancelSetup(e) \/ CodesSaved(e)
      PROVE  UNCHANGED <<calls, caller>>
  BY <1>3 DEF CancelSetup, CodesSaved, twoFactorVars
<1>4. ASSUME NEW b \in Calls, Serve(b) \/ ServeFails(b)
      PROVE  caller'[c].told = Me \/ (LogsIn(c, d) /\ caller'[c].told = caller[c].told)
  <2>1. GoesOn(c) /\ caller'[c] # Free
    BY <1>4, ServedGoesOn DEF LogsIn, Waits
  <2>2. LogsIn(c, d)
    BY <2>1 DEF LogsIn, GoesOn, Waits
  <2> QED
    BY <1>4, <2>2, ServedGoesOn
<1>5. ASSUME NEW b \in Calls, HearChange(b) \/ HearLogin(b) \/ HearNoLogin(b) \/ LoseCall(b)
      PROVE  UNCHANGED <<calls[c], caller[c]>>
  BY <1>5, HeardGoesOn DEF LogsIn, Waits
<1> QED
  BY <1>1, <1>2, <1>3, <1>4, <1>5, FactorSteps DEF Aside, LogsIn, Waits

LEMMA StaysInStep ==
    ASSUME Shape, Next, NEW d \in Devices, InStep(d), Clear(d)', Me' = Me, part # "register"
    PROVE  InStep(d)'
<1>1. ASSUME NEW m \in wires', m.kind = "me", m.dev = d
      PROVE  m.told \in {Nothing, Me}
  BY <1>1, NewMessages DEF InStep
<1>2. \A c \in Calls : LogsIn(c, d)' => caller'[c].told \in {Nothing, Me}
  BY LoginsTold DEF InStep
<1>3. user'[d] \in {Nothing, Me} \/ Some("me", d)'
  <2>1. CASE user'[d] = user[d] /\ user[d] \notin {Nothing, Me}
    <3>1. PICK m \in wires : m.kind = "me" /\ m.dev = d
      BY <2>1 DEF InStep, Some
    <3>2. CASE m \in wires'
      BY <3>1, <3>2 DEF Some
    <3>3. CASE m \notin wires'
      <4>1. Missed(m)
        BY <3>1, <3>3, OldMessages
      <4> QED
        BY <3>1, <4>1 DEF Missed, InStep, Clear
    <3> QED
      BY <3>2, <3>3
  <2>2. CASE ~(user'[d] = user[d] /\ user[d] \notin {Nothing, Me})
    BY <2>2, UserMoves DEF InStep
  <2> QED
    BY <2>1, <2>2
<1> QED
  BY <1>1, <1>2, <1>3 DEF InStep

LEMMA UserStep ==
    ASSUME Shape, Alone, NEW d \in Devices, UserFits(d), Next
    PROVE  UserFits(d)'
<1> SUFFICES ASSUME past'.calm, Clear(d)', past'.writer = d
             PROVE  part \in {"profile", "factor"} /\ (Owed(d)' \/ InStep(d)')
  BY SamePart DEF UserFits
<1>1. past.calm /\ Clear(d) /\ past \in Past /\ CallerTypes
  BY PastWanes DEF Clear, Shape
<1>2. ASSUME past.writer = d, Me' = Me
      PROVE  part \in {"profile", "factor"} /\ (Owed(d)' \/ InStep(d)')
  <2>1. part \in {"profile", "factor"} /\ (Owed(d) \/ InStep(d))
    BY <1>1, <1>2 DEF UserFits
  <2>2. CASE ToldDone(d)
    BY <2>1, <2>2, AskAgain
  <2>3. CASE ~ToldDone(d)
    BY <1>2, <2>1, <2>3, OwedStays, StaysInStep
  <2> QED
    BY <2>2, <2>3
<1>3. CASE UNCHANGED <<profile.name, profile.mail, enabled>> /\ past'.writer = past.writer
  BY <1>2, <1>3 DEF Me
<1>4. ASSUME NEW m \in wires, WriteFields(m)
      PROVE  part \in {"profile", "factor"} /\ Owed(d)'
  <2> DEFINE n == [m EXCEPT !.at = "ok"]
  <2>1. MessageFits(m, part) /\ m.kind = "save"
    BY <1>4 DEF Shape, WireTypes, WriteFields
  <2>2. m \in SaveMessage /\ part = "profile"
    BY <2>1, MessageKinds DEF MessageFits
  <2>3. n.kind = "save" /\ n.dev = m.dev /\ n.at = "ok"
    BY <2>2 DEF SaveMessage
  <2>4. n \in wires' /\ past'.writer = m.dev
    BY <1>1, <1>4 DEF WriteFields, Past
  <2> HIDE DEF n
  <2> QED
    BY <2>2, <2>3, <2>4 DEF Owed
<1>5. ASSUME NEW c \in Calls, Serve(c), calls[c].at = "write"
      PROVE  part \in {"profile", "factor"} /\ (Owed(d)' \/ InStep(d)')
  <2>1. /\ Moved(c) /\ Effects(c) /\ UNCHANGED profile
        /\ Waits(c) /\ caller'[c] # Free /\ GoesOn(c)
    BY <1>5, HandleMoves, ServedGoesOn DEF Serve, Shape, server
  <2>2. CallFits(calls[c], caller[c], part)
    BY <1>1 DEF CallerTypes
  <2>3. part = "factor"
    BY <2>1, <2>2 DEF CallFits, Waits
  <2>4. CASE calls[c].kind = "setup"
    <3>1. past'.writer = past.writer
      BY <1>1, <1>5, <2>4 DEF Serve, Past
    <3>2. enabled = FALSE /\ enabled' = FALSE
      BY <1>1, <1>5, <2>1, <2>4 DEF Alone, Ready, Effects, Shape, TwoFactorTypeOK
    <3> QED
      BY <1>2, <2>1, <3>1, <3>2 DEF Me
  <2>5. CASE calls[c].kind # "setup"
    <3>1. past'.writer = caller[c].dev
      BY <1>1, <1>5, <2>5 DEF Serve, Past
    <3>2. calls[c].kind \in Turn
      BY <1>5, <2>2, <2>5 DEF CallFits, Turn
    <3>3. Written(c)' /\ calls'[c].kind = calls[c].kind
      BY <1>5, <2>1, <3>2 DEF Moved, Follows, Turn, Written
    <3>4. Waits(c)' /\ caller'[c].dev = d
      BY <2>1, <3>1 DEF GoesOn, Waits
    <3> QED
      BY <2>3, <3>2, <3>3, <3>4 DEF Owed
  <2> QED
    BY <2>4, <2>5
<1> QED
  BY <1>3, <1>4, <1>5, MeChanges

ShownInv == CodesInv /\ \A d \in Devices : UserFits(d) /\ ListFits(d)

\* A device that has the last word on the account, and has all its answers, draws
\* its pages from the user that is stored, and lists on its settings page no
\* connection that it was told is gone, but for one it was told of while an older
\* list was under way to a page that was left: on any number of devices, whatever
\* is under way on the others.
THEOREM ChangesAreShown == Spec => []OwnChangesAreShown
<1>1. Init => ShownInv
  <2> SUFFICES ASSUME Init
               PROVE  ShownInv
    OBVIOUS
  <2>1. \A d \in Devices : past.writer # d /\ past.gone[d] = {} /\ ~list[d].stale
    BY AccountPagesAssumption DEF Init, NoList
  <2>2. \A d \in Devices : UserFits(d) /\ ListFits(d)
    BY <2>1 DEF UserFits, ListFits
  <2> QED
    BY <2>2, CodesStart DEF ShownInv
<1>2. Shape /\ ShownInv /\ [Next]_vars => ShownInv'
  <2>1. ASSUME ShownInv, UNCHANGED vars
        PROVE  ShownInv'
    <3>1. UNCHANGED <<calls, caller, enabled, past, user, page, list, wires, linked, profile, part>>
      BY <2>1 DEF vars, twoFactorVars, server
    <3>2. CodesInv'
      BY <2>1, CodesRest DEF ShownInv
    <3>3. ASSUME NEW d \in Devices
          PROVE  UserFits(d)' /\ ListFits(d)'
      <4>1. UserFits(d) /\ ListFits(d)
        BY <2>1 DEF ShownInv
      <4>2. (Owed(d)' <=> Owed(d)) /\ (InStep(d)' <=> InStep(d)) /\ (Clear(d)' <=> Clear(d))
        BY <3>1 DEF Owed, InStep, Clear, Waits, Written, LogsIn, Some, Me
      <4>3. UserFits(d)'
        BY <3>1, <4>1, <4>2 DEF UserFits
      <4>4. ListFits(d)'
        BY <3>1, <4>1 DEF ListFits, Some, Clear
      <4> QED
        BY <4>3, <4>4
    <3> QED
      BY <3>2, <3>3 DEF ShownInv
  <2>2. ASSUME Shape, ShownInv, Next
        PROVE  ShownInv'
    BY <2>2, CodesStep, UserStep, ListStep DEF ShownInv, CodesInv
  <2> QED
    BY <2>1, <2>2
<1>3. ShownInv => OwnChangesAreShown
  <2> SUFFICES ASSUME ShownInv, NEW d \in Devices, Clear(d)
               PROVE  /\ user[d] # Nothing /\ Quiet(d) /\ past.calm /\ past.writer = d => user[d] = Me
                      /\ page[d].at = "settings" /\ list[d].rows # Nothing /\ ~Loading(d)
                         => past.gone[d] \cap list[d].rows = {}
    BY DEF OwnChangesAreShown
  <2>1. UserFits(d) /\ ListFits(d)
    BY DEF ShownInv
  <2>2. Quiet(d) => ~Owed(d) /\ ~Some("me", d)
    BY DEF Quiet, Nobody, Owed, Some
  <2>3. Loading(d) <=> Some("list", d)
    BY DEF Loading, Some
  <2> QED
    BY <2>1, <2>2, <2>3 DEF UserFits, InStep, ListFits
<1> QED
  BY <1>1, <1>2, <1>3, ShapeInvariant, PTL DEF Spec

=============================================================================
