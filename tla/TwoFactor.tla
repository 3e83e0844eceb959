------------------------------ MODULE TwoFactor ------------------------------
(***************************************************************************)
(* The second factor of one account: the secret of its authenticator, the  *)
(* switch, the recovery codes and the login in two steps.  Every operation *)
(* is a chain of single statements on the tables, with no transaction      *)
(* around them, and any statement may fail.                                *)
(*                                                                         *)
(* A secret and a set of recovery codes are named by the call that         *)
(* generated them.                                                         *)
(***************************************************************************)
EXTENDS Naturals, FiniteSets

CONSTANTS
    Calls,      \* Bound: the calls of all devices, each made once
    NoCall,
    CodesEach   \* recoveryCodeCount

ASSUME TwoFactorAssumption ==
    NoCall \notin Calls /\ CodesEach \in Nat \ {0}

VARIABLES
    secret,     \* users.totp_secret
    enabled,    \* users.totp_enabled
    codes,      \* the unused rows of recovery_codes
    tokens,     \* pending logins in Redis
    calls,      \* what is asked, and how far it is handled
    confirmed   \* history: the secrets a code was accepted for, to switch on

rows == <<secret, enabled, codes, tokens>>
twoFactorVars == <<secret, enabled, codes, tokens, calls, confirmed>>

\* What is typed: number 0 is the six digits of an authenticator, the others
\* are the recovery codes that were generated together.
Code == [of : Calls, number : 0 .. CodesEach]
Generated(c) == {[of |-> c, number |-> n] : n \in 1 .. CodesEach}
DigitsOf(s) == [of |-> s, number |-> 0]

Changing == {"setup", "enable", "disable", "renew"}
Kinds == Changing \cup {"login", "verify"}
Over == {"ok", "challenged", "refused"}
Steps == {"idle", "sent", "write", "purge", "insert", "list", "use", "open"} \cup Over
Call == [kind : Kinds, code : Code \cup {NoCall}, token : Calls \cup {NoCall},
         at : Steps, saw : Calls \cup {NoCall}]
Unasked == [kind |-> "login", code |-> NoCall, token |-> NoCall, at |-> "idle", saw |-> NoCall]

TwoFactorTypeOK ==
    /\ secret \in Calls \cup {NoCall} /\ enabled \in BOOLEAN
    /\ codes \subseteq Code /\ tokens \subseteq Calls
    /\ calls \in [Calls -> Call] /\ confirmed \subseteq Calls

AtWork(c) == calls[c].at \notin {"idle"} \cup Over

\* The account has no second factor, or has it from a setup of long ago.
TwoFactorInit ==
    /\ tokens = {}
    /\ \/ /\ secret = NoCall /\ enabled = FALSE /\ codes = {} /\ confirmed = {}
          /\ calls = [c \in Calls |-> Unasked]
       \/ \E first \in Calls :
             /\ secret = first /\ enabled = TRUE /\ codes = Generated(first) /\ confirmed = {first}
             /\ calls = [c \in Calls |-> IF c = first
                                        THEN [Unasked EXCEPT !.kind = "setup", !.at = "ok"]
                                        ELSE Unasked]

Ask(c, kind, code, token) ==
    /\ calls[c].at = "idle"
    /\ calls' = [calls EXCEPT ![c] = [kind |-> kind, code |-> code, token |-> token,
                                      at |-> "sent", saw |-> NoCall]]
    /\ UNCHANGED <<rows, confirmed>>

\* A call that is over is forgotten but for its kind.
Goes(c, at) ==
    calls' = [calls EXCEPT ![c] = IF at \in Over THEN [Unasked EXCEPT !.kind = calls[c].kind, !.at = at]
                                  ELSE [@ EXCEPT !.at = at]]
Reads(c, kind) == calls[c].at = "sent" /\ calls[c].kind = kind

\* totp.Validate
Accepts(s, code) == s # NoCall /\ code = DigitsOf(s)

-----------------------------------------------------------------------------
(* The first statement reads the account; the guards look at what it read. *)

ReadForSetup(c) ==
    /\ Reads(c, "setup")
    /\ Goes(c, IF enabled THEN "refused" ELSE "write")
    /\ UNCHANGED <<rows, confirmed>>

ReadForEnable(c) ==
    /\ Reads(c, "enable")
    /\ IF ~enabled /\ Accepts(secret, calls[c].code)
       THEN /\ calls' = [calls EXCEPT ![c] = [@ EXCEPT !.at = "write", !.saw = secret]]
            /\ confirmed' = confirmed \cup {secret}
       ELSE Goes(c, "refused") /\ UNCHANGED confirmed
    /\ UNCHANGED rows

ReadForDisable(c) ==
    /\ Reads(c, "disable")
    /\ Goes(c, IF enabled /\ Accepts(secret, calls[c].code) THEN "write" ELSE "refused")
    /\ UNCHANGED <<rows, confirmed>>

\* Mutant: the old codes stay.
RenewOverOld(c) ==
    /\ Reads(c, "renew")
    /\ Goes(c, IF enabled /\ Accepts(secret, calls[c].code) THEN "insert" ELSE "refused")
    /\ UNCHANGED <<rows, confirmed>>

ReadForRenew(c) ==
    /\ Reads(c, "renew")
    /\ Goes(c, IF enabled /\ Accepts(secret, calls[c].code) THEN "purge" ELSE "refused")
    /\ UNCHANGED <<rows, confirmed>>

\* The password is right: without a second factor the session is created.
ReadForLogin(c) ==
    /\ Reads(c, "login")
    /\ Goes(c, IF enabled THEN "challenged" ELSE "ok")
    /\ tokens' = IF enabled THEN tokens \cup {c} ELSE tokens
    /\ UNCHANGED <<secret, enabled, codes, confirmed>>

ReadForVerify(c) ==
    /\ Reads(c, "verify")
    /\ Goes(c, IF calls[c].token \notin tokens \/ ~enabled THEN "refused"
               ELSE IF Accepts(secret, calls[c].code) THEN "open" ELSE "list")
    /\ UNCHANGED <<rows, confirmed>>

-----------------------------------------------------------------------------
(* The statements that follow.                                             *)

\* Mutant: switching on leaves the secret that is stored.
WritesWithoutSecret(c) ==
    /\ secret' = CASE calls[c].kind = "setup" -> c
                   [] calls[c].kind = "enable" -> secret
                   [] calls[c].kind = "disable" -> NoCall
    /\ enabled' = (calls[c].kind = "enable")

\* SetTOTPSecret writes the secret and the switch together; switching on
\* writes back the secret that was read.
Writes(c) ==
    /\ secret' = CASE calls[c].kind = "setup" -> c
                   [] calls[c].kind = "enable" -> calls[c].saw
                   [] calls[c].kind = "disable" -> NoCall
    /\ enabled' = (calls[c].kind = "enable")

WriteSecret(c) ==
    /\ calls[c].at = "write"
    /\ Writes(c)
    /\ Goes(c, IF calls[c].kind = "enable" THEN "ok" ELSE "purge")
    /\ UNCHANGED <<codes, tokens, confirmed>>

PurgeCodes(c) ==
    /\ calls[c].at = "purge"
    /\ codes' = {}
    /\ Goes(c, IF calls[c].kind = "disable" THEN "ok" ELSE "insert")
    /\ UNCHANGED <<secret, enabled, tokens, confirmed>>

InsertCodes(c) ==
    /\ calls[c].at = "insert"
    /\ codes' = codes \cup Generated(c)
    /\ Goes(c, "ok")
    /\ UNCHANGED <<secret, enabled, tokens, confirmed>>

ListCodes(c) ==
    /\ calls[c].at = "list"
    /\ Goes(c, IF calls[c].code \in codes THEN "use" ELSE "refused")
    /\ UNCHANGED <<rows, confirmed>>

\* A row that is used or deleted by now is nobody's concern, nor is an error.
UseCode(c) ==
    /\ calls[c].at = "use"
    /\ codes' \in {codes, codes \ {calls[c].code}}
    /\ Goes(c, "open")
    /\ UNCHANGED <<secret, enabled, tokens, confirmed>>

\* The pending login is consumed, and the session may not be stored.
OpenSession(c) ==
    /\ calls[c].at = "open"
    /\ tokens' = tokens \ {calls[c].token}
    /\ \E at \in {"ok", "refused"} : Goes(c, at)
    /\ UNCHANGED <<secret, enabled, codes, confirmed>>

\* A statement fails, or the session of the caller is not valid.
CallFails(c) ==
    /\ AtWork(c) /\ calls[c].at \notin {"use", "open"}
    /\ Goes(c, "refused")
    /\ UNCHANGED <<rows, confirmed>>

TokenExpires(c) ==
    /\ c \in tokens
    /\ tokens' = tokens \ {c}
    /\ UNCHANGED <<secret, enabled, codes, calls, confirmed>>

Handle(c) ==
    \/ ReadForSetup(c) \/ ReadForEnable(c) \/ ReadForDisable(c)
    \/ ReadForRenew(c) \/ ReadForLogin(c) \/ ReadForVerify(c)
    \/ WriteSecret(c) \/ PurgeCodes(c) \/ InsertCodes(c)
    \/ ListCodes(c) \/ UseCode(c) \/ OpenSession(c)

TwoFactorNext ==
    \E c \in Calls :
        \/ \E kind \in Kinds, code \in Code \cup {NoCall}, token \in Calls \cup {NoCall} :
              Ask(c, kind, code, token)
        \/ Handle(c) \/ CallFails(c) \/ TokenExpires(c)

TwoFactorSpec == TwoFactorInit /\ [][TwoFactorNext]_twoFactorVars

\* Whatever the calls, and however their statements interleave or break off,
\* the second factor is only on with a secret that the user has typed a code
\* of.  EnableTOTP makes sure by writing back the secret it validated, even
\* over a setup that was started meanwhile; DisableTOTP and the second step of
\* a login rely on it when they dereference the secret.
EnabledSecretIsConfirmed == enabled => secret \in confirmed

=============================================================================
