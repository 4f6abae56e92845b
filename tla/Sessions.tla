------------------------------ MODULE Sessions -----------------------------
(***************************************************************************)
(* How a person signs in and out: CLI tokens, the device-code flow, the    *)
(* password form, logout (app/api/auth.py, app/storage/repo.py), and what  *)
(* disabling an account does to them (app/api/admin.py).  Accounts are     *)
(* those of module Accounts, whose actions this module composes with.      *)
(*                                                                         *)
(* A CLI that logs in starts a code, shows it to its user, and polls       *)
(* /auth/device/token until it is given a token, is told that the code is  *)
(* dead, cannot reach the service, or has waited expires_in (cli/main.py). *)
(* Whoever else holds the code may poll it too.                            *)
(***************************************************************************)
EXTENDS Accounts

CONSTANTS
  Tokens,       \* tokens that may be issued (new_cli_token never repeats)
  Codes,        \* device codes that may be started
  NoUser,
  NoCode,       \* a token of the password form
  TokenTtl,     \* CLI_TOKEN_TTL_HOURS
  CodeTtl       \* TTL_MINUTES of a device code, and expires_in of the CLI

ASSUME SessionsAssumption ==
  /\ NoUser \notin Users /\ NoCode \notin Codes
  /\ {TokenTtl, CodeTtl} \subseteq Nat

VARIABLES
  token,   \* the row of each token
  code,    \* the row of each device code, and the CLI that polls it
  cut,     \* history: the tokens that some logout or disable ended
  spared   \* history: those there were when a disable was cut short, and nothing ended since

sessionVars == <<token, code, cut, spared>>

vars == <<accountVars, token, code, cut, spared>>

TokenType ==
  [user : Users \cup {NoUser}, status : {"unused", "issued", "revoked"},
   expires : Nat, code : Codes \cup {NoCode}]

CodeType ==
  [status  : {"unused", "pending", "approved", "claimed", "purged"},
   user    : Users \cup {NoUser},
   expires : Nat,
   cli     : {"off", "polling", "in", "failed", "timedout"}]

SInit ==
  /\ Init
  /\ token = [t \in Tokens |-> [user |-> NoUser, status |-> "unused",
                                expires |-> 0, code |-> NoCode]]
  /\ code = [d \in Codes |-> [status |-> "unused", user |-> NoUser,
                              expires |-> 0, cli |-> "off"]]
  /\ cut = {} /\ spared = {}

\* CliTokenRepo.resolve
Resolves(t) == token[t].status = "issued" /\ token[t].expires > now

CodeExpired(d) == code[d].expires <= now

Issued(u, d) == [user |-> u, status |-> "issued", expires |-> now + TokenTtl,
                 code |-> d]

\* revoke and revoke_all_for_user: whoever is not revoked yet, now is.
Revoked(T) == [t \in Tokens |-> IF t \in T /\ token[t].status = "issued"
                                  THEN [token[t] EXCEPT !.status = "revoked"]
                                  ELSE token[t]]

TokensOf(u) == {t \in Tokens : token[t].user = u}
IssuedTo(u) == {t \in TokensOf(u) : token[t].status = "issued"}
LiveTokensOf(u) == {t \in IssuedTo(u) : token[t].expires > now}

-----------------------------------------------------------------------------
(* Signing in.                                                             *)

\* current_principal: a verified assertion of an account (Users), or a token.
\* The account's status is not looked at.
Principal(u) == up /\ user[u].status # "none" /\ ~Poisoned(u)

\* login_submit with a right password.
LoginWithPassword(u, t) ==
  /\ up /\ user[u].status = "active" /\ token[t].status = "unused"
  /\ token' = [token EXCEPT ![t] = Issued(u, NoCode)]
  /\ UNCHANGED <<accountVars, code, cut, spared>>

\* purge_expired
Purged ==
  [d \in Codes |-> IF code[d].status # "unused" /\ CodeExpired(d)
                     THEN [code[d] EXCEPT !.status = "purged"] ELSE code[d]]

\* device_start: purge what has expired, then insert the new code.
DeviceStart(d) ==
  /\ up /\ code[d].status = "unused"
  /\ now + CodeTtl <= MaxTime     \* bound: the code expires within the model
  /\ code' = [Purged EXCEPT ![d] = [status |-> "pending", user |-> NoUser,
                                     expires |-> now + CodeTtl,
                                     cli |-> "polling"]]
  /\ UNCHANGED <<accountVars, token, cut, spared>>

\* device_start of a CLI whose own code is not followed.
DeviceStartElsewhere ==
  /\ up /\ code' = Purged
  /\ UNCHANGED <<accountVars, token, cut, spared>>

\* Mutant of DeviceApprove: a code that was used already is bound again.
DeviceApproveAgain(u, d) ==
  /\ Principal(u)
  /\ code[d].status \in {"pending", "approved", "claimed"} /\ ~CodeExpired(d)
  /\ code' = [code EXCEPT ![d].status = "approved", ![d].user = u]
  /\ UNCHANGED <<accountVars, token, cut, spared>>

\* device_approve: bind a signed-in identity, whatever its status, to a code.
DeviceApprove(u, d) ==
  /\ Principal(u) /\ code[d].status = "pending" /\ ~CodeExpired(d)
  /\ code' = [code EXCEPT ![d].status = "approved", ![d].user = u]
  /\ UNCHANGED <<accountVars, token, cut, spared>>

\* What a poll of device_token is answered, apart from a token.
PollAnswer(d) ==
  CASE code[d].status \in {"unused", "purged"}       -> "invalid_grant"
    [] code[d].status = "pending"                    -> "authorization_pending"
    [] code[d].status = "claimed" \/ CodeExpired(d)  -> "expired_token"
    [] OTHER                                         -> "token"

\* The poll that claims the code and is given a token.  It is the CLI's, and
\* then the answer may be lost and the CLI gives up; or another poller's.
DeviceToken(d, t) ==
  /\ up /\ PollAnswer(d) = "token" /\ token[t].status = "unused"
  /\ token' = [token EXCEPT ![t] = Issued(code[d].user, d)]
  /\ \E cli \in {code[d].cli} \cup
                 (IF code[d].cli = "polling" THEN {"in", "failed"} ELSE {}) :
       code' = [code EXCEPT ![d].status = "claimed", ![d].cli = cli]
  /\ UNCHANGED <<accountVars, cut, spared>>

\* The process dies between the two commits of device_token: the code is claimed and no token
\* is issued.  A CLI whose poll it was is not answered, and gives up.
ClaimCutShort(d) ==
  /\ PollAnswer(d) = "token" /\ Stops
  /\ \E cli \in {code[d].cli} \cup (IF code[d].cli = "polling" THEN {"failed"} ELSE {}) :
       code' = [code EXCEPT ![d].status = "claimed", ![d].cli = cli]
  /\ UNCHANGED <<token, cut, spared>>

\* The CLI is told the code is dead, and gives up.
PollFails(d) ==
  /\ up /\ code[d].cli = "polling"
  /\ PollAnswer(d) \in {"invalid_grant", "expired_token"}
  /\ code' = [code EXCEPT ![d].cli = "failed"]
  /\ UNCHANGED <<accountVars, token, cut, spared>>

\* The CLI cannot reach the service, which may be down or not, and gives up.
PollUnreachable(d) ==
  /\ code[d].cli = "polling"
  /\ code' = [code EXCEPT ![d].cli = "failed"]
  /\ UNCHANGED <<accountVars, token, cut, spared>>

\* Mutant of PollTimesOut: it waits for as long as it is not told to give up.
PollTimesOutIfPurged(d) ==
  /\ code[d].cli = "polling" /\ code[d].status = "purged"
  /\ code' = [code EXCEPT ![d].cli = "timedout"]
  /\ UNCHANGED <<accountVars, token, cut, spared>>

\* The CLI has polled for expires_in.
PollTimesOut(d) ==
  /\ code[d].cli = "polling" /\ CodeExpired(d)
  /\ code' = [code EXCEPT ![d].cli = "timedout"]
  /\ UNCHANGED <<accountVars, token, cut, spared>>

-----------------------------------------------------------------------------
(* Signing out.                                                            *)

\* logout with a bearer token, and logout_web.
LogoutOne(t) ==
  /\ up /\ Resolves(t)
  /\ token' = Revoked({t})
  /\ cut' = cut \cup {t} /\ spared' = spared \ {t}
  /\ UNCHANGED <<accountVars, code>>

\* logout with a cookie or an assertion: every token of the account.
LogoutAll(u) ==
  /\ Principal(u)
  /\ token' = Revoked(TokensOf(u))
  /\ cut' = cut \cup LiveTokensOf(u) /\ spared' = spared \ TokensOf(u)
  /\ UNCHANGED <<accountVars, code>>

\* The process dies between the two commits of disable_user: the account is disabled, and its
\* tokens are what they were.
DisableCutShort(u) ==
  /\ DisableInterrupted(u)
  /\ spared' = spared \cup IssuedTo(u)
  /\ UNCHANGED <<token, code, cut>>

\* Mutant of DisableUser: the tokens are left to their TTL.
DisableLeavesTokens(u) ==
  /\ Disable(u)
  /\ cut' = cut \cup LiveTokensOf(u) /\ spared' = spared \ TokensOf(u)
  /\ UNCHANGED <<token, code>>

\* disable_user as a whole: both of its commits.
DisableUser(u) ==
  /\ Disable(u)
  /\ token' = Revoked(TokensOf(u))
  /\ cut' = cut \cup LiveTokensOf(u) /\ spared' = spared \ TokensOf(u)
  /\ UNCHANGED code

-----------------------------------------------------------------------------

\* The steps of Accounts that touch no session.
AccountStep ==
  /\ \/ Start \/ Stops \/ Tick
     \/ \E u \in Users :
          \/ FirstLogin(u) \/ Activate(u)
          \/ \E roles \in RoleSets : Approve(u, roles) \/ SetRole(u, roles)
          \/ BeginQuestion(u) \/ EndQuestion(u)
  /\ UNCHANGED sessionVars

Poll(d) ==
  (\E t \in Tokens : DeviceToken(d, t)) \/ ClaimCutShort(d) \/ PollFails(d) \/ PollUnreachable(d)

SNext ==
  \/ AccountStep
  \/ \E u \in Users :
       \/ LogoutAll(u) \/ DisableUser(u) \/ DisableCutShort(u)
       \/ \E t \in Tokens : LoginWithPassword(u, t)
       \/ \E d \in Codes : DeviceApprove(u, d)
  \/ \E t \in Tokens : LogoutOne(t)
  \/ DeviceStartElsewhere
  \/ \E d \in Codes : DeviceStart(d) \/ Poll(d) \/ PollTimesOut(d)

SSpec == SInit /\ [][SNext]_vars

\* The CLI's loop runs, and the clock does.
FairSpec == SSpec /\ WF_vars(AccountStep /\ now' # now)
                  /\ \A d \in Codes : WF_vars(PollTimesOut(d))

-----------------------------------------------------------------------------
(* Properties.                                                             *)

STypeOK ==
  /\ TypeOK
  /\ token \in [Tokens -> TokenType]
  /\ code \in [Codes -> CodeType]
  /\ cut \in SUBSET Tokens /\ spared \in SUBSET Tokens

\* A device code yields at most one token, for the account that approved it,
\* even when the answer to the poll that claimed it is lost.
CodesAreSingleUse ==
  \A d \in Codes :
    /\ \A t1, t2 \in Tokens :
         token[t1].code = d /\ token[t2].code = d => t1 = t2
    /\ \A t \in Tokens : token[t].code = d =>
         token[t].user = code[d].user /\ code[d].status \in {"claimed", "purged"}

\* A session that a logout or a disable ended never works again, also when
\* the account is enabled or approved later, and one that an earlier disable
\* had left as well.
EndedSessionsStayDead == \A t \in cut : ~Resolves(t)

\* A person whose account is disabled can only have a session through a
\* device code: one approved earlier, or by a verified assertion, since no
\* step of the device flow looks at the account.  The password form gives none,
\* and the sessions there were when it was disabled are over: unless the process
\* died between the two commits of disable_user, and then they live until the
\* disable is made again, or the account is enabled with them (admin.py:95-97).
DisabledOnlyByCode ==
  \A t \in Tokens \ spared :
    Resolves(t) /\ user[token[t].user].status = "disabled" => token[t].code # NoCode

\* An end is an end: of a session, and of a disabled account's ways to one.
EndingsHold == EndedSessionsStayDead /\ DisabledOnlyByCode

\* A CLI that waits for its code learns the outcome or stops waiting.
LoginEnds == \A d \in Codes : code[d].cli = "polling" ~> code[d].cli # "polling"
=============================================================================
