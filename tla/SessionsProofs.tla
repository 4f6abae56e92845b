--------------------------- MODULE SessionsProofs --------------------------
(***************************************************************************)
(* Proofs about module Sessions, for any accounts, tokens, codes and       *)
(* lifetimes, on top of those about Accounts.  Every step of Sessions is a *)
(* step of Accounts, so the promises about accounts still hold while       *)
(* people sign in and out; a device code yields one token at most; and a   *)
(* session that was ended, or a disabled account's way to a new one with a *)
(* password, stays closed.                                                 *)
(*                                                                         *)
(* None of the properties is inductive alone.  A code yields one token     *)
(* because the code of a token is claimed before anything else can happen; *)
(* an ended token stays dead because a revoked row is never issued again;  *)
(* and expiry plays no part in any of it, so the invariant speaks of       *)
(* issued rows, expired or not.  A disable that was cut short leaves the   *)
(* tokens there are: those are the ones the last part does not speak of.   *)
(***************************************************************************)
EXTENDS Sessions, AccountsProofs

\* Whoever a token or an approved code is for is an account.
RowsHaveUsers ==
  /\ \A t \in Tokens : token[t].status = "issued" => token[t].user \in Users
  /\ \A d \in Codes : code[d].status = "approved" => code[d].user \in Users

\* An ended session is a revoked row, not just an expired one.
CutIsRevoked == \A t \in cut : token[t].status = "revoked"

\* DisabledOnlyByCode for every issued row, expired or not.
DisabledIssuedByCode ==
  \A t \in Tokens \ spared :
    token[t].status = "issued" /\ user[token[t].user].status = "disabled"
      => token[t].code # NoCode

\* The inductive invariant.
IInv ==
  /\ STypeOK
  /\ RowsHaveUsers
  /\ CodesAreSingleUse
  /\ CutIsRevoked
  /\ DisabledIssuedByCode

(***************************************************************************)
(* Sessions implements Accounts.                                           *)
(***************************************************************************)

\* What no account action touches stays, and every other step is one of theirs.
LEMMA StepsOfAccounts == SNext => [Next]_accountVars
<1> SUFFICES ASSUME SNext PROVE [Next]_accountVars
  OBVIOUS
<1>1. CASE AccountStep
  BY <1>1 DEF AccountStep, Next, NextFor
<1>2. CASE \E u \in Users : DisableUser(u) \/ DisableCutShort(u)
  BY <1>2 DEF DisableUser, DisableCutShort, Next, NextFor
<1>5. CASE \E d \in Codes : ClaimCutShort(d)
  BY <1>5 DEF ClaimCutShort, Next
<1>3. CASE \/ \E u \in Users :
                \/ LogoutAll(u)
                \/ \E t \in Tokens : LoginWithPassword(u, t)
                \/ \E d \in Codes : DeviceApprove(u, d)
           \/ \E t \in Tokens : LogoutOne(t)
  BY <1>3 DEF LogoutAll, LoginWithPassword, DeviceApprove, LogoutOne
<1>4. CASE \/ DeviceStartElsewhere
           \/ \E d \in Codes :
                \/ DeviceStart(d) \/ PollFails(d) \/ PollUnreachable(d) \/ PollTimesOut(d)
                \/ \E t \in Tokens : DeviceToken(d, t)
  BY <1>4 DEF DeviceStartElsewhere, DeviceStart, DeviceToken, PollFails,
              PollUnreachable, PollTimesOut
<1> QED
  BY <1>1, <1>2, <1>3, <1>4, <1>5 DEF SNext, Poll

\* Signing in and out, with every interleaving and crash of it, implements
\* module Accounts.
THEOREM SessionsImplementAccounts == SSpec => Spec
<1>1. SInit => Init
  BY DEF SInit
<1>2. [SNext]_vars => [Next]_accountVars
  BY StepsOfAccounts DEF vars, accountVars
<1> QED
  BY <1>1, <1>2, PTL DEF SSpec, Spec

\* So its promises hold while people sign in and out: an account that is active
\* or asks has somebody who answers for it.
THEOREM AccountableSessions == SSpec => []AccessIsAccountable
BY SessionsImplementAccounts, AccountableTheorem, PTL

\* And nobody holds more than the role they were given.
THEOREM RoleSessions == SSpec => []RoleIsNotExceeded
BY SessionsImplementAccounts, RoleTheorem, PTL

(***************************************************************************)
(* Rows.                                                                   *)
(***************************************************************************)

\* The bounds and the clock are numbers.
LEMMA Clock ==
  ASSUME TypeOK
  PROVE  now \in Nat /\ now + TokenTtl \in Nat /\ now + CodeTtl \in Nat
BY Bounds, SessionsAssumption DEF TypeOK

\* A row that a sign-in issues.
LEMMA IssuedRow ==
  ASSUME TypeOK, NEW u \in Users, NEW d \in Codes \cup {NoCode}
  PROVE  /\ Issued(u, d) \in TokenType
         /\ Issued(u, d).user = u /\ Issued(u, d).status = "issued"
         /\ Issued(u, d).code = d
BY Clock DEF Issued, TokenType

\* Revoking changes the status of the issued rows of T, and nothing else.
LEMMA RevokedRows ==
  ASSUME STypeOK, NEW T
  PROVE  /\ Revoked(T) \in [Tokens -> TokenType]
         /\ \A t \in Tokens :
              /\ Revoked(T)[t].user = token[t].user
              /\ Revoked(T)[t].code = token[t].code
              /\ Revoked(T)[t].status =
                   IF t \in T /\ token[t].status = "issued"
                     THEN "revoked" ELSE token[t].status
<1>1. ASSUME NEW t \in Tokens
      PROVE  /\ Revoked(T)[t] \in TokenType
             /\ Revoked(T)[t].user = token[t].user
             /\ Revoked(T)[t].code = token[t].code
             /\ Revoked(T)[t].status =
                  IF t \in T /\ token[t].status = "issued"
                    THEN "revoked" ELSE token[t].status
  <2>1. token[t] \in TokenType
    BY DEF STypeOK
  <2>2. Revoked(T)[t] = IF t \in T /\ token[t].status = "issued"
                          THEN [token[t] EXCEPT !.status = "revoked"]
                          ELSE token[t]
    BY DEF Revoked
  <2> QED
    BY <2>1, <2>2 DEF TokenType
<1> QED
  BY <1>1 DEF Revoked

\* Purging marks rows, and changes nothing else of them.
LEMMA PurgedRows ==
  ASSUME STypeOK
  PROVE  /\ Purged \in [Codes -> CodeType]
         /\ \A d \in Codes :
              /\ Purged[d].user = code[d].user
              /\ Purged[d].status \in {code[d].status, "purged"}
              /\ code[d].status = "unused" => Purged[d].status = "unused"
<1>1. ASSUME NEW d \in Codes
      PROVE  /\ Purged[d] \in CodeType
             /\ Purged[d].user = code[d].user
             /\ Purged[d].status \in {code[d].status, "purged"}
             /\ code[d].status = "unused" => Purged[d].status = "unused"
  <2>1. code[d] \in CodeType
    BY DEF STypeOK
  <2>2. Purged[d] = IF code[d].status # "unused" /\ CodeExpired(d)
                      THEN [code[d] EXCEPT !.status = "purged"] ELSE code[d]
    BY DEF Purged
  <2> QED
    BY <2>1, <2>2 DEF CodeType
<1> QED
  BY <1>1 DEF Purged

(***************************************************************************)
(* The invariant: first what a step may do to the rows, then the steps.    *)
(***************************************************************************)

\* The first state.
LEMMA SInitIInv == SInit => IInv
<1> SUFFICES ASSUME SInit PROVE IInv
  OBVIOUS
<1>1. TypeOK
  BY TypeInit DEF SInit
<1>2. STypeOK
  BY <1>1 DEF SInit, STypeOK, TokenType, CodeType
<1>3. CodesAreSingleUse
  BY SessionsAssumption DEF SInit, CodesAreSingleUse
<1> QED
  BY <1>2, <1>3 DEF SInit, IInv, RowsHaveUsers, CutIsRevoked, DisabledIssuedByCode

\* A step of the accounts disables nobody but by disable_user.
LEMMA AccountStepDisablesNobody ==
  ASSUME TypeOK, AccountStep
  PROVE  \A u \in Users : user'[u].status = "disabled" => user[u].status = "disabled"
<1>0. user \in [Users -> UserType]
  BY DEF TypeOK
<1>1. CASE Start
  BY <1>0, <1>1 DEF Start, Bootstrapped, Activated, UserType
<1>2. CASE Stops \/ Tick
  BY <1>2 DEF Stops, Tick
<1>3. ASSUME NEW u \in Users,
             \/ FirstLogin(u) \/ Activate(u)
             \/ \E roles \in RoleSets : Approve(u, roles) \/ SetRole(u, roles)
             \/ BeginQuestion(u) \/ EndQuestion(u)
      PROVE  \A v \in Users : user'[v].status = "disabled" => user[v].status = "disabled"
  <2>1. CASE FirstLogin(u)
    BY <1>0, <2>1 DEF FirstLogin, UserType
  <2>2. CASE Activate(u) \/ \E roles \in RoleSets : Approve(u, roles)
    <3>1. user' = [user EXCEPT ![u] = Activated(user[u])]
      BY <2>2 DEF Activate, Approve
    <3>2. user'[u].status = "active" /\ \A v \in Users \ {u} : user'[v] = user[v]
      BY <1>0, <3>1 DEF Activated, UserType
    <3> QED
      BY <3>2
  <2>3. CASE (\E roles \in RoleSets : SetRole(u, roles)) \/ BeginQuestion(u) \/ EndQuestion(u)
    BY <2>3 DEF SetRole, BeginQuestion, EndQuestion
  <2> QED
    BY <1>3, <2>1, <2>2, <2>3
<1> QED
  BY <1>1, <1>2, <1>3 DEF AccountStep

\* A step that at most revokes, of T, and disables only whom it revokes.
LEMMA RevokingStep ==
  ASSUME IInv, TypeOK', NEW T, token' = Revoked(T), code' = code,
         cut' \subseteq cut \cup {t \in T \cap Tokens : Resolves(t)},
         spared' = spared \ T,
         \A u \in Users :
           user'[u].status = "disabled"
             => user[u].status = "disabled" \/ TokensOf(u) \subseteq T
  PROVE  IInv'
<1> DEFINE R == Revoked(T)
<1>1. /\ R \in [Tokens -> TokenType]
      /\ \A t \in Tokens :
           /\ R[t].user = token[t].user /\ R[t].code = token[t].code
           /\ R[t].status = IF t \in T /\ token[t].status = "issued"
                              THEN "revoked" ELSE token[t].status
  BY RevokedRows DEF IInv
<1>2. token' = R
  OBVIOUS
<1> HIDE DEF R
<1>3. STypeOK'
  BY <1>1, <1>2 DEF IInv, STypeOK
<1>4. RowsHaveUsers'
  BY <1>1, <1>2 DEF IInv, RowsHaveUsers
<1>5. CodesAreSingleUse'
  BY <1>1, <1>2 DEF IInv, CodesAreSingleUse
<1>6. CutIsRevoked'
  BY <1>1, <1>2 DEF IInv, STypeOK, CutIsRevoked, Resolves
<1>7. DisabledIssuedByCode'
  <2> SUFFICES ASSUME NEW t \in Tokens, t \notin spared', token'[t].status = "issued",
                      user'[token'[t].user].status = "disabled"
               PROVE  token'[t].code # NoCode
    BY DEF DisabledIssuedByCode
  <2>1. /\ token[t].status = "issued" /\ t \notin T
        /\ token'[t].user = token[t].user /\ token'[t].code = token[t].code
    BY <1>1, <1>2
  <2>5. t \notin spared
    BY <2>1
  <2>2. token[t].user \in Users
    BY <2>1 DEF IInv, RowsHaveUsers
  <2>3. t \in TokensOf(token[t].user)
    BY DEF TokensOf
  <2>4. user[token[t].user].status = "disabled"
    BY <2>1, <2>2, <2>3
  <2> QED
    BY <2>1, <2>4, <2>5 DEF IInv, DisabledIssuedByCode
<1> QED
  BY <1>3, <1>4, <1>5, <1>6, <1>7 DEF IInv

\* A step of the device flow that issues nothing.
CodeMoves(C, D) ==
  \/ D.user = C.user /\ D.status \in {C.status, "purged"}
  \/ C.status = "unused" /\ D.status = "pending"
  \/ C.status = "pending" /\ D.status = "approved" /\ D.user \in Users
  \/ D.status = "claimed" /\ D.user = C.user /\ C.status = "approved"

\* No token is of a code that can still be claimed, so none is disturbed.
LEMMA CodeStep ==
  ASSUME IInv, TypeOK', UNCHANGED <<user, token, cut, spared>>,
         code' \in [Codes -> CodeType],
         \A d \in Codes : CodeMoves(code[d], code'[d])
  PROVE  IInv'
<1>1. STypeOK'
  BY DEF IInv, STypeOK
<1>2. RowsHaveUsers'
  BY DEF IInv, RowsHaveUsers, CodeMoves
<1>3. CodesAreSingleUse'
  BY DEF IInv, CodesAreSingleUse, CodeMoves
<1>4. CutIsRevoked' /\ DisabledIssuedByCode'
  BY DEF IInv, CutIsRevoked, DisabledIssuedByCode
<1> QED
  BY <1>1, <1>2, <1>3, <1>4 DEF IInv

\* A fresh token for u by the password form, or by d, which is claimed with it.
LEMMA IssuingStep ==
  ASSUME IInv, UNCHANGED <<accountVars, cut, spared>>,
         NEW t \in Tokens, NEW u \in Users, NEW d \in Codes \cup {NoCode},
         token[t].status = "unused", token' = [token EXCEPT ![t] = Issued(u, d)],
         code' \in [Codes -> CodeType],
         d = NoCode => user[u].status = "active" /\ code' = code,
         d \in Codes =>
           /\ code[d].status = "approved" /\ code[d].user = u
           /\ code'[d].status = "claimed" /\ code'[d].user = u
           /\ \A o \in Codes \ {d} : code'[o] = code[o]
  PROVE  IInv'
<1> DEFINE N == Issued(u, d)
<1>1. /\ N \in TokenType /\ N.user = u /\ N.status = "issued" /\ N.code = d
  BY IssuedRow DEF IInv, STypeOK
<1>2. token' = [token EXCEPT ![t] = N]
  OBVIOUS
<1> HIDE DEF N
<1>3. /\ token \in [Tokens -> TokenType] /\ token' \in [Tokens -> TokenType]
      /\ token'[t] = N /\ \A o \in Tokens \ {t} : token'[o] = token[o]
  BY <1>1, <1>2 DEF IInv, STypeOK
<1>4. STypeOK'
  BY <1>3 DEF IInv, STypeOK, TypeOK, accountVars
<1>5. RowsHaveUsers'
  <2>1. \A o \in Tokens : token'[o].status = "issued" => token'[o].user \in Users
    BY <1>1, <1>3 DEF IInv, RowsHaveUsers
  <2>2. \A o \in Codes : code'[o].status = "approved" => code'[o].user \in Users
    BY DEF IInv, RowsHaveUsers
  <2> QED
    BY <2>1, <2>2 DEF RowsHaveUsers
<1>6. CodesAreSingleUse'
  <2> SUFFICES ASSUME NEW c \in Codes
               PROVE  /\ \A o1, o2 \in Tokens :
                           token'[o1].code = c /\ token'[o2].code = c => o1 = o2
                      /\ \A o \in Tokens : token'[o].code = c =>
                           /\ token'[o].user = code'[c].user
                           /\ code'[c].status \in {"claimed", "purged"}
    BY DEF CodesAreSingleUse
  <2>1. CASE c = d
    <3>1. \A o \in Tokens \ {t} : token[o].code # c
      BY <2>1 DEF IInv, CodesAreSingleUse
    <3>2. \A o \in Tokens : token'[o].code = c => o = t
      BY <1>3, <3>1
    <3> QED
      BY <1>1, <1>3, <2>1, <3>2
  <2>2. CASE c # d
    <3>1. token'[t].code # c /\ code'[c] = code[c]
      BY <1>1, <1>3, <2>2
    <3> QED
      BY <1>3, <3>1 DEF IInv, CodesAreSingleUse
  <2> QED
    BY <2>1, <2>2
<1>7. CutIsRevoked'
  BY <1>3 DEF IInv, STypeOK, CutIsRevoked
<1>8. DisabledIssuedByCode'
  BY <1>1, <1>3 DEF IInv, DisabledIssuedByCode, accountVars
<1> QED
  BY <1>4, <1>5, <1>6, <1>7, <1>8 DEF IInv

\* A poll that is given a token claims its code in the same step.
LEMMA DeviceTokenKeepsIInv ==
  ASSUME IInv, NEW d \in Codes, NEW t \in Tokens, DeviceToken(d, t)
  PROVE  IInv'
<1>1. code[d].status = "approved"
  BY DEF DeviceToken, PollAnswer, IInv, STypeOK, CodeType
<1>2. PICK cli \in {code[d].cli, "in", "failed"} :
        code' = [code EXCEPT ![d].status = "claimed", ![d].cli = cli]
  BY DEF DeviceToken
<1>3. code \in [Codes -> CodeType] /\ code[d].cli \in {"off", "polling", "in", "failed", "timedout"}
  BY DEF IInv, STypeOK, CodeType
<1>4. /\ code' \in [Codes -> CodeType]
      /\ code'[d].status = "claimed" /\ code'[d].user = code[d].user
      /\ \A o \in Codes \ {d} : code'[o] = code[o]
  BY <1>2, <1>3 DEF CodeType
<1>5. code[d].user \in Users
  BY <1>1 DEF IInv, RowsHaveUsers
<1>6. /\ token[t].status = "unused"
      /\ token' = [token EXCEPT ![t] = Issued(code[d].user, d)]
      /\ UNCHANGED <<accountVars, cut, spared>>
  BY DEF DeviceToken
<1>7. d # NoCode
  BY SessionsAssumption
<1> QED
  BY <1>1, <1>4, <1>5, <1>6, <1>7, IssuingStep

\* The steps of the device flow that issue nothing.
LEMMA DeviceKeepsIInv ==
  ASSUME IInv, TypeOK', NEW d \in Codes,
         \/ DeviceStart(d) \/ ClaimCutShort(d)
         \/ PollFails(d) \/ PollUnreachable(d) \/ PollTimesOut(d)
         \/ \E u \in Users : DeviceApprove(u, d)
  PROVE  IInv'
<1>0. code \in [Codes -> CodeType]
  BY DEF IInv, STypeOK
<1>1. CASE DeviceStart(d)
  <2> DEFINE N == [status |-> "pending", user |-> NoUser,
                   expires |-> now + CodeTtl, cli |-> "polling"]
  <2>1. /\ code' = [Purged EXCEPT ![d] = N] /\ code[d].status = "unused"
        /\ UNCHANGED <<user, token, cut, spared>>
    BY <1>1 DEF DeviceStart, accountVars
  <2>2. N \in CodeType /\ N.status = "pending"
    BY Clock DEF CodeType, IInv, STypeOK
  <2> HIDE DEF N
  <2>3. Purged \in [Codes -> CodeType]
    BY PurgedRows DEF IInv
  <2>4. /\ code' \in [Codes -> CodeType] /\ code'[d] = N
        /\ \A o \in Codes \ {d} : code'[o] = Purged[o]
    BY <2>1, <2>2, <2>3
  <2>5. ASSUME NEW o \in Codes PROVE CodeMoves(code[o], code'[o])
    BY <2>1, <2>2, <2>4, PurgedRows DEF CodeMoves, IInv
  <2> QED
    BY <2>1, <2>4, <2>5, CodeStep
<1>2. CASE PollFails(d) \/ PollUnreachable(d) \/ PollTimesOut(d)
  <2>1. PICK cli \in {"failed", "timedout"} : code' = [code EXCEPT ![d].cli = cli]
    BY <1>2 DEF PollFails, PollUnreachable, PollTimesOut
  <2>2. UNCHANGED <<user, token, cut, spared>>
    BY <1>2 DEF PollFails, PollUnreachable, PollTimesOut, accountVars
  <2>3. /\ code' \in [Codes -> CodeType]
        /\ \A o \in Codes : /\ code'[o].user = code[o].user
                            /\ code'[o].status = code[o].status
    BY <1>0, <2>1 DEF CodeType
  <2> QED
    BY <2>2, <2>3, CodeStep DEF CodeMoves
<1>3. ASSUME NEW u \in Users, DeviceApprove(u, d) PROVE IInv'
  <2>1. /\ code' = [code EXCEPT ![d].status = "approved", ![d].user = u]
        /\ code[d].status = "pending" /\ UNCHANGED <<user, token, cut, spared>>
    BY <1>3 DEF DeviceApprove, accountVars
  <2>2. /\ code' \in [Codes -> CodeType]
        /\ code'[d].status = "approved" /\ code'[d].user = u
        /\ \A o \in Codes \ {d} : code'[o] = code[o]
    BY <1>0, <2>1 DEF CodeType
  <2>3. ASSUME NEW o \in Codes PROVE CodeMoves(code[o], code'[o])
    BY <2>1, <2>2 DEF CodeMoves
  <2> QED
    BY <2>1, <2>2, <2>3, CodeStep
<1>4. CASE ClaimCutShort(d)
  <2>1. PICK cli \in {code[d].cli, "failed"} :
          code' = [code EXCEPT ![d].status = "claimed", ![d].cli = cli]
    BY <1>4 DEF ClaimCutShort
  <2>2. /\ code[d].status = "approved" /\ UNCHANGED <<user, token, cut, spared>>
    BY <1>4 DEF ClaimCutShort, Stops, PollAnswer, IInv, STypeOK, CodeType
  <2>3. code[d] \in CodeType
    BY <1>0
  <2>4. /\ code' \in [Codes -> CodeType]
        /\ code'[d].status = "claimed" /\ code'[d].user = code[d].user
        /\ \A o \in Codes \ {d} : code'[o] = code[o]
    BY <1>0, <2>1, <2>3 DEF CodeType
  <2>5. ASSUME NEW o \in Codes PROVE CodeMoves(code[o], code'[o])
    BY <2>2, <2>4 DEF CodeMoves
  <2> QED
    BY <2>2, <2>4, <2>5, CodeStep
<1> QED
  BY <1>1, <1>2, <1>3, <1>4

\* A purge by the login of a CLI that is not followed here.
LEMMA PurgeKeepsIInv ==
  ASSUME IInv, TypeOK', DeviceStartElsewhere
  PROVE  IInv'
<1>1. code' = Purged /\ UNCHANGED <<user, token, cut, spared>>
  BY DEF DeviceStartElsewhere, accountVars
<1> QED
  BY <1>1, PurgedRows, CodeStep DEF CodeMoves, IInv

\* Every step keeps the invariant.
LEMMA SNextIInv == IInv /\ [SNext]_vars => IInv'
<1> SUFFICES ASSUME IInv, [SNext]_vars PROVE IInv'
  OBVIOUS
<1>0. TypeOK'
  <2>1. [Next]_accountVars
    BY StepsOfAccounts DEF vars, accountVars
  <2> QED
    BY <2>1, TypeNext DEF IInv, STypeOK
<1>1. CASE AccountStep
  <2>1. UNCHANGED <<token, code, cut, spared>>
    BY <1>1 DEF AccountStep, sessionVars
  <2>2. \A u \in Users : user'[u].status = "disabled" => user[u].status = "disabled"
    BY <1>1, AccountStepDisablesNobody DEF IInv, STypeOK
  <2>3. STypeOK' /\ RowsHaveUsers' /\ CodesAreSingleUse' /\ CutIsRevoked'
    BY <1>0, <2>1 DEF IInv, STypeOK, RowsHaveUsers, CodesAreSingleUse, CutIsRevoked
  <2>4. DisabledIssuedByCode'
    BY <2>1, <2>2 DEF IInv, RowsHaveUsers, DisabledIssuedByCode
  <2> QED
    BY <2>3, <2>4 DEF IInv
<1>2. ASSUME NEW u \in Users, LogoutAll(u) PROVE IInv'
  <2>1. /\ token' = Revoked(TokensOf(u)) /\ UNCHANGED <<accountVars, code>>
        /\ cut' = cut \cup LiveTokensOf(u) /\ spared' = spared \ TokensOf(u)
    BY <1>2 DEF LogoutAll
  <2>2. user' = user
    BY <2>1 DEF accountVars
  <2>3. LiveTokensOf(u) = {t \in TokensOf(u) \cap Tokens : Resolves(t)}
    BY DEF LiveTokensOf, IssuedTo, TokensOf, Resolves
  <2> QED
    BY <1>0, <2>1, <2>2, <2>3, RevokingStep
<1>3. ASSUME NEW u \in Users, DisableUser(u) PROVE IInv'
  <2>1. /\ token' = Revoked(TokensOf(u)) /\ code' = code
        /\ cut' = cut \cup LiveTokensOf(u) /\ spared' = spared \ TokensOf(u)
    BY <1>3 DEF DisableUser
  <2>2. \A v \in Users :
          user'[v].status = "disabled"
            => user[v].status = "disabled" \/ TokensOf(v) \subseteq TokensOf(u)
    BY <1>3 DEF DisableUser, Disable, IInv, STypeOK, TypeOK
  <2>3. LiveTokensOf(u) = {t \in TokensOf(u) \cap Tokens : Resolves(t)}
    BY DEF LiveTokensOf, IssuedTo, TokensOf, Resolves
  <2> QED
    BY <1>0, <2>1, <2>2, <2>3, RevokingStep
<1>9. ASSUME NEW u \in Users, DisableCutShort(u) PROVE IInv'
  <2>1. UNCHANGED <<token, code, cut>> /\ spared' = spared \cup IssuedTo(u)
    BY <1>9 DEF DisableCutShort
  <2>2. \A v \in Users \ {u} : user'[v] = user[v]
    BY <1>9 DEF DisableCutShort, DisableInterrupted, IInv, STypeOK, TypeOK
  <2>3. spared' \in SUBSET Tokens
    BY <2>1 DEF IssuedTo, TokensOf, IInv, STypeOK
  <2>4. STypeOK' /\ RowsHaveUsers' /\ CodesAreSingleUse' /\ CutIsRevoked'
    BY <1>0, <2>1, <2>3 DEF IInv, STypeOK, RowsHaveUsers, CodesAreSingleUse, CutIsRevoked
  <2>5. DisabledIssuedByCode'
    BY <2>1, <2>2 DEF IInv, RowsHaveUsers, DisabledIssuedByCode, IssuedTo, TokensOf
  <2> QED
    BY <2>4, <2>5 DEF IInv
<1>4. ASSUME NEW t \in Tokens, LogoutOne(t) PROVE IInv'
  <2>1. /\ token' = Revoked({t}) /\ UNCHANGED <<accountVars, code>>
        /\ cut' = cut \cup {t} /\ spared' = spared \ {t} /\ Resolves(t)
    BY <1>4 DEF LogoutOne
  <2>2. user' = user
    BY <2>1 DEF accountVars
  <2> QED
    BY <1>0, <2>1, <2>2, RevokingStep
<1>5. ASSUME NEW u \in Users, NEW t \in Tokens, LoginWithPassword(u, t) PROVE IInv'
  <2>1. /\ user[u].status = "active" /\ token[t].status = "unused"
        /\ token' = [token EXCEPT ![t] = Issued(u, NoCode)]
        /\ UNCHANGED <<accountVars, code, cut, spared>>
    BY <1>5 DEF LoginWithPassword
  <2>2. code' \in [Codes -> CodeType] /\ NoCode \notin Codes
    BY <2>1, SessionsAssumption DEF IInv, STypeOK
  <2> QED
    BY <2>1, <2>2, IssuingStep
<1>6. CASE \E d \in Codes : (\E u \in Users : DeviceApprove(u, d))
                            \/ DeviceStart(d) \/ Poll(d) \/ PollTimesOut(d)
  BY <1>0, <1>6, DeviceKeepsIInv, DeviceTokenKeepsIInv DEF Poll
<1>7. CASE DeviceStartElsewhere
  BY <1>0, <1>7, PurgeKeepsIInv
<1>8. CASE UNCHANGED vars
  BY <1>0, <1>8
  DEF vars, accountVars, IInv, STypeOK, RowsHaveUsers, CodesAreSingleUse,
      CutIsRevoked, DisabledIssuedByCode
<1> QED
  BY <1>1, <1>2, <1>3, <1>4, <1>5, <1>6, <1>7, <1>8, <1>9 DEF SNext

\* So it holds throughout.
LEMMA SInvariance == SSpec => []IInv
BY SInitIInv, SNextIInv, PTL DEF SSpec

(***************************************************************************)
(* The theorems.                                                           *)
(***************************************************************************)

\* Every reachable state is well typed.
THEOREM SessionsTypeCorrect == SSpec => []STypeOK
<1>1. IInv => STypeOK
  BY DEF IInv
<1> QED
  BY <1>1, SInvariance, PTL

\* A device code yields at most one token, for the account that approved it,
\* whoever polls, whatever answer is lost and however often codes are purged.
THEOREM SingleUseTheorem == SSpec => []CodesAreSingleUse
<1>1. IInv => CodesAreSingleUse
  BY DEF IInv
<1> QED
  BY <1>1, SInvariance, PTL

\* A session that a logout or a disable ended never works again, and a disabled
\* account only has a session that was given for a device code, or that was there
\* when the process died between the two commits of a disable, and that nothing
\* has ended since.
THEOREM EndingsTheorem == SSpec => []EndingsHold
<1>1. IInv => EndedSessionsStayDead
  BY DEF IInv, CutIsRevoked, EndedSessionsStayDead, Resolves
<1>2. IInv => DisabledOnlyByCode
  BY DEF IInv, DisabledIssuedByCode, DisabledOnlyByCode, Resolves
<1>3. IInv => EndingsHold
  BY <1>1, <1>2 DEF EndingsHold
<1> QED
  BY <1>3, SInvariance, PTL
=============================================================================
