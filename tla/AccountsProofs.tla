---------------------------- MODULE AccountsProofs --------------------------
(***************************************************************************)
(* Proofs about module Accounts, for any users, surfaces, roles and clock. *)
(* The two safety properties are inductive together with the types: an     *)
(* account never loses the name of who answers for it, and time only ever  *)
(* takes grants away.                                                      *)
(***************************************************************************)
EXTENDS Accounts, TLAPS

\* The rows that WithRows writes are expiries, for every surface.
LEMMA WithRowsType ==
  ASSUME NEW rows \in [Surfaces -> Expiries], NEW S, NEW e \in Expiries
  PROVE  WithRows(rows, S, e) \in [Surfaces -> Expiries]
BY DEF WithRows

\* Every expiry is an integer, so that it compares with the clock.
LEMMA ExpiryIsInt ==
  ASSUME NEW e \in Expiries
  PROVE  e \in Int
BY AccountsAssumption DEF Expiries, NoRow, Never, Naive

\* NoRow, Never and every time are expiries.
LEMMA SomeExpiries == NoRow \in Expiries /\ Never \in Expiries
BY DEF Expiries

(***************************************************************************)
(* Types.                                                                  *)
(***************************************************************************)

\* The bounds are numbers.
LEMMA Bounds == MaxTime \in Nat /\ MaxRestarts \in Nat
BY AccountsAssumption DEF AccountsAssumption

\* The first state is well typed.
LEMMA TypeInit == Init => TypeOK
<1> SUFFICES ASSUME Init PROVE TypeOK
  OBVIOUS
<1>1. starts \in 0..MaxRestarts /\ now \in 0..MaxTime
  BY Bounds DEF Init
<1>5. up \in BOOLEAN
  BY DEF Init
<1>2. user \in [Users -> UserType]
  BY DEF Init, NewUser, UserType
<1>3. held \in [Users -> [Surfaces -> Expiries]]
  BY SomeExpiries DEF Init
<1>4. /\ asking \in [Users -> [on : BOOLEAN, surfaces : SUBSET Surfaces]]
      /\ assigned \in [Users -> SUBSET Roles]
  BY DEF Init, Idle
<1> QED BY <1>1, <1>2, <1>3, <1>4, <1>5 DEF TypeOK

\* Every step keeps the types.
LEMMA TypeNext == TypeOK /\ [Next]_accountVars => TypeOK'
<1> SUFFICES ASSUME TypeOK, [Next]_accountVars PROVE TypeOK'
  OBVIOUS
<1> USE Bounds
<1>1. ASSUME Start PROVE TypeOK'
  <2>1. user' \in [Users -> UserType]
    BY <1>1 DEF Start, Bootstrapped, Activated, TypeOK, UserType
  <2>2. held' \in [Users -> [Surfaces -> Expiries]]
    BY <1>1, WithRowsType, SomeExpiries DEF Start, TypeOK
  <2>3. assigned' \in [Users -> SUBSET Roles]
    BY <1>1 DEF Start, TypeOK
  <2>4. up' \in BOOLEAN /\ starts' \in 0..MaxRestarts /\ now' \in 0..MaxTime
    BY <1>1 DEF Start, TypeOK
  <2>5. asking' \in [Users -> [on : BOOLEAN, surfaces : SUBSET Surfaces]]
    BY <1>1 DEF Start, TypeOK
  <2> QED BY <2>1, <2>2, <2>3, <2>4, <2>5 DEF TypeOK
<1>2. ASSUME Stops PROVE TypeOK'
  BY <1>2 DEF Stops, Dies, Idle, TypeOK
<1>3. ASSUME Tick PROVE TypeOK'
  BY <1>3 DEF Tick, TypeOK
<1>4. ASSUME NEW u \in Users, NextFor(u) PROVE TypeOK'
  <2>1. CASE FirstLogin(u)
    BY <2>1 DEF FirstLogin, TypeOK, UserType
  <2>2. CASE Activate(u)
    BY <2>2 DEF Activate, Activated, TypeOK, UserType
  <2>3. CASE Disable(u)
    BY <2>3 DEF Disable, TypeOK, UserType
  <2>12. CASE DisableInterrupted(u)
    BY <2>12 DEF DisableInterrupted, Dies, Idle, TypeOK, UserType
  <2>4. ASSUME NEW s \in Surfaces, NEW e \in Expiries, Grant(u, s, e) PROVE TypeOK'
    BY <2>4 DEF Grant, TypeOK
  <2>5. ASSUME NEW s \in Surfaces, Revoke(u, s) PROVE TypeOK'
    BY <2>5, SomeExpiries DEF Revoke, TypeOK
  <2>6. ASSUME NEW roles \in RoleSets, Approve(u, roles) PROVE TypeOK'
    <3>1. WithRows(held[u], Wanted(roles), Never) \in [Surfaces -> Expiries]
      BY WithRowsType, SomeExpiries DEF TypeOK
    <3>2. held' \in [Users -> [Surfaces -> Expiries]]
      BY <2>6, <3>1 DEF Approve, TypeOK
    <3>3. user' \in [Users -> UserType]
      BY <2>6 DEF Approve, Activated, TypeOK, UserType
    <3> QED BY <2>6, <3>2, <3>3 DEF Approve, TypeOK
  <2>7. ASSUME NEW roles \in RoleSets, SetRole(u, roles) PROVE TypeOK'
    <3>1. WithRows(WithRows(held[u], SurfacesFor(u) \ Wanted(roles), NoRow),
                   Wanted(roles) \ SurfacesFor(u), Never) \in [Surfaces -> Expiries]
      BY WithRowsType, SomeExpiries DEF TypeOK
    <3>2. held' \in [Users -> [Surfaces -> Expiries]]
      BY <2>7, <3>1 DEF SetRole, TypeOK
    <3> QED BY <2>7, <3>2 DEF SetRole, TypeOK, RoleSets
  <2>8. ASSUME NEW roles \in RoleSets, NEW done \in SUBSET Surfaces,
               ApproveInterrupted(u, roles, done)
        PROVE  TypeOK'
    <3>1. WithRows(held[u], done, Never) \in [Surfaces -> Expiries]
      BY WithRowsType, SomeExpiries DEF TypeOK
    <3>2. held' \in [Users -> [Surfaces -> Expiries]]
      BY <2>8, <3>1 DEF ApproveInterrupted, TypeOK
    <3> QED BY <2>8, <3>2 DEF ApproveInterrupted, Dies, Idle, TypeOK
  <2>9. ASSUME NEW roles \in RoleSets, NEW gone \in SUBSET Surfaces,
               NEW given \in SUBSET Surfaces,
               SetRoleInterrupted(u, roles, gone, given)
        PROVE  TypeOK'
    <3>1. WithRows(WithRows(held[u], gone, NoRow), given, Never)
            \in [Surfaces -> Expiries]
      BY WithRowsType, SomeExpiries DEF TypeOK
    <3>2. held' \in [Users -> [Surfaces -> Expiries]]
      BY <2>9, <3>1 DEF SetRoleInterrupted, TypeOK
    <3>3. assigned' \in [Users -> SUBSET Roles]
      BY <2>9 DEF SetRoleInterrupted, TypeOK, RoleSets
    <3> QED BY <2>9, <3>2, <3>3 DEF SetRoleInterrupted, Dies, Idle, TypeOK
  <2>10. CASE BeginQuestion(u)
    BY <2>10 DEF BeginQuestion, TypeOK, SurfacesFor
  <2>11. CASE EndQuestion(u)
    BY <2>11 DEF EndQuestion, TypeOK, Idle
  <2> QED BY <1>4, <2>1, <2>2, <2>3, <2>4, <2>5, <2>6, <2>7, <2>8, <2>9, <2>10,
             <2>11, <2>12 DEF NextFor
<1>5. CASE UNCHANGED accountVars
  BY <1>5 DEF accountVars, TypeOK
<1> QED BY <1>1, <1>2, <1>3, <1>4, <1>5 DEF Next

\* In every reachable state the rows, the clock, the running questions and the
\* assigned roles have their types.
THEOREM TypeCorrect == Spec => []TypeOK
<1>1. Init => TypeOK
  BY TypeInit
<1>2. TypeOK /\ [Next]_accountVars => TypeOK'
  BY TypeNext
<1> QED BY <1>1, <1>2, PTL DEF Spec

(***************************************************************************)
(* An active account, and one with a question running, is accounted for.   *)
(***************************************************************************)

\* No step loses who answers for an account.
LEMMA AccountableNext ==
  TypeOK /\ AccessIsAccountable /\ [Next]_accountVars => AccessIsAccountable'
<1> SUFFICES ASSUME TypeOK, AccessIsAccountable, [Next]_accountVars
             PROVE  AccessIsAccountable'
  OBVIOUS
<1> USE DEF AccessIsAccountable
<1>t. /\ user \in [Users -> UserType]
      /\ asking \in [Users -> [on : BOOLEAN, surfaces : SUBSET Surfaces]]
  BY DEF TypeOK
<1>1. ASSUME Start PROVE AccessIsAccountable'
  BY <1>1, <1>t DEF Start, Bootstrapped, Activated, UserType
<1>2. ASSUME Stops PROVE AccessIsAccountable'
  BY <1>2 DEF Stops, Dies, Idle
<1>3. ASSUME Tick PROVE AccessIsAccountable'
  BY <1>3 DEF Tick
<1>4. ASSUME NEW u \in Users, NextFor(u) PROVE AccessIsAccountable'
  <2>1. CASE FirstLogin(u)
    BY <2>1, <1>t DEF FirstLogin, UserType
  <2>2. CASE Activate(u)
    BY <2>2, <1>t DEF Activate, Activated, UserType
  <2>3. CASE Disable(u)
    BY <2>3, <1>t DEF Disable, UserType
  <2>11. CASE DisableInterrupted(u)
    BY <2>11, <1>t DEF DisableInterrupted, Dies, Idle, UserType
  <2>4. CASE \E s \in Surfaces : (\E e \in Expiries : Grant(u, s, e)) \/ Revoke(u, s)
    BY <2>4 DEF Grant, Revoke
  <2>5. ASSUME NEW roles \in RoleSets, Approve(u, roles) PROVE AccessIsAccountable'
    BY <2>5, <1>t DEF Approve, Activated, UserType
  <2>6. CASE \E roles \in RoleSets : SetRole(u, roles)
    BY <2>6 DEF SetRole
  <2>7. CASE \E roles \in RoleSets, done \in SUBSET Surfaces :
               ApproveInterrupted(u, roles, done)
    BY <2>7 DEF ApproveInterrupted, Dies, Idle
  <2>8. CASE \E roles \in RoleSets, gone, given \in SUBSET Surfaces :
               SetRoleInterrupted(u, roles, gone, given)
    BY <2>8 DEF SetRoleInterrupted, Dies, Idle
  <2>9. CASE BeginQuestion(u)
    BY <2>9, <1>t DEF BeginQuestion, Passes
  <2>10. CASE EndQuestion(u)
    BY <2>10, <1>t DEF EndQuestion, Idle
  <2> QED BY <1>4, <2>1, <2>2, <2>3, <2>4, <2>5, <2>6, <2>7, <2>8, <2>9, <2>10,
             <2>11 DEF NextFor
<1>5. CASE UNCHANGED accountVars
  BY <1>5 DEF accountVars
<1> QED BY <1>1, <1>2, <1>3, <1>4, <1>5 DEF Next

\* However often the service crashes between the commits of a decision, every
\* active account and every question that runs has somebody who answers for it.
THEOREM AccountableTheorem == Spec => []AccessIsAccountable
<1>1. Init => AccessIsAccountable
  BY DEF Init, AccessIsAccountable, NewUser, Idle
<1>2. TypeOK /\ AccessIsAccountable /\ [Next]_accountVars => AccessIsAccountable'
  BY AccountableNext
<1>3. Spec => []TypeOK
  BY TypeCorrect
<1> QED BY <1>1, <1>2, <1>3, PTL DEF Spec

(***************************************************************************)
(* Nobody holds more than the role they were given.                        *)
(***************************************************************************)

\* Writing rows that never expire gives just these surfaces; removing rows
\* takes just these away.
LEMMA RowsGiven ==
  ASSUME TypeOK, NEW u \in Users, NEW gone, NEW given \in SUBSET Surfaces,
         NEW s \in Surfaces,
         held'[u] = WithRows(WithRows(held[u], gone, NoRow), given, Never),
         now' = now, s \in SurfacesFor(u)'
  PROVE  s \in given \/ (s \in SurfacesFor(u) /\ s \notin gone)
<1>1. now \in Nat
  BY Bounds DEF TypeOK
<1>2. CASE s \in given
  BY <1>2
<1>3. CASE s \notin given /\ s \in gone
  <2>1. held'[u][s] = NoRow
    BY <1>3 DEF WithRows
  <2> QED BY <1>1, <2>1 DEF SurfacesFor, Unexpired, NoRow, Never
<1>4. CASE s \notin given /\ s \notin gone
  <2>1. held'[u][s] = held[u][s]
    BY <1>4 DEF WithRows
  <2> QED BY <1>4, <2>1 DEF SurfacesFor, Unexpired
<1> QED BY <1>2, <1>3, <1>4

\* Someone whose rows and roles are left alone has no more surfaces later.
LEMMA OthersKeep ==
  ASSUME TypeOK, RoleIsNotExceeded, NEW v \in Users,
         held'[v] = held[v], assigned'[v] = assigned[v],
         now' = now \/ (now < MaxTime /\ now' = now + 1),
         assigned'[v] # {}
  PROVE  SurfacesFor(v)' \subseteq Wanted(assigned'[v])
<1>1. now \in Nat
  BY Bounds DEF TypeOK
<1>2. ASSUME NEW s \in Surfaces, Unexpired(v, s)' PROVE Unexpired(v, s)
  <2>1. held[v][s] \in Int
    BY ExpiryIsInt DEF TypeOK
  <2>2. held[v][s] = Never \/ held[v][s] > now'
    BY <1>2 DEF Unexpired
  <2> QED BY <1>1, <2>1, <2>2 DEF Unexpired
<1>3. SurfacesFor(v)' \subseteq SurfacesFor(v)
  BY <1>2 DEF SurfacesFor
<1> QED BY <1>3 DEF RoleIsNotExceeded

\* No step adds to what a role gave.
LEMMA RoleNext ==
  TypeOK /\ RoleIsNotExceeded /\ [Next]_accountVars => RoleIsNotExceeded'
<1> SUFFICES ASSUME TypeOK, RoleIsNotExceeded, [Next]_accountVars,
                    NEW v \in Users, assigned'[v] # {}
             PROVE  SurfacesFor(v)' \subseteq Wanted(assigned'[v])
  BY DEF RoleIsNotExceeded, Wanted
<1>t. /\ assigned \in [Users -> SUBSET Roles]
      /\ held \in [Users -> [Surfaces -> Expiries]]
  BY DEF TypeOK
<1> DEFINE Kept == held'[v] = held[v] /\ assigned'[v] = assigned[v]
<1>k. ASSUME Kept, now' = now \/ (now < MaxTime /\ now' = now + 1)
      PROVE  SurfacesFor(v)' \subseteq Wanted(assigned'[v])
  BY <1>k, OthersKeep
<1>1. CASE Start
  <2>1. Kept /\ now' = now
    BY <1>1 DEF Start
  <2> QED BY <2>1, <1>k
<1>2. CASE Stops
  BY <1>2, <1>k DEF Stops
<1>3. CASE Tick
  BY <1>3, <1>k DEF Tick
<1>4. ASSUME NEW u \in Users, NextFor(u)
      PROVE  SurfacesFor(v)' \subseteq Wanted(assigned'[v])
  <2>1. CASE \/ FirstLogin(u) \/ Activate(u) \/ Disable(u) \/ DisableInterrupted(u)
             \/ BeginQuestion(u) \/ EndQuestion(u)
    <3>1. Kept /\ now' = now
      BY <2>1 DEF FirstLogin, Activate, Disable, DisableInterrupted, BeginQuestion,
                  EndQuestion
    <3> QED BY <3>1, <1>k
  <2>2. ASSUME NEW s \in Surfaces,
               (\E e \in Expiries \ {NoRow} : Grant(u, s, e)) \/ Revoke(u, s)
        PROVE  SurfacesFor(v)' \subseteq Wanted(assigned'[v])
    <3>1. u # v /\ Kept /\ now' = now
      BY <2>2, <1>t DEF Grant, Revoke
    <3> QED BY <3>1, <1>k
  <2>3. ASSUME NEW roles \in RoleSets, Approve(u, roles)
        PROVE  SurfacesFor(v)' \subseteq Wanted(assigned'[v])
    <3>1. u # v /\ Kept /\ now' = now
      BY <2>3, <1>t DEF Approve
    <3> QED BY <3>1, <1>k
  <2>4. ASSUME NEW roles \in RoleSets, NEW done \in SUBSET Surfaces,
               ApproveInterrupted(u, roles, done)
        PROVE  SurfacesFor(v)' \subseteq Wanted(assigned'[v])
    <3>1. u # v /\ Kept /\ now' = now
      BY <2>4, <1>t DEF ApproveInterrupted
    <3> QED BY <3>1, <1>k
  <2>5. ASSUME NEW roles \in RoleSets, SetRole(u, roles)
        PROVE  SurfacesFor(v)' \subseteq Wanted(assigned'[v])
    <3>0. now' = now
      BY <2>5 DEF SetRole
    <3>1. CASE u # v
      <4>1. Kept
        BY <2>5, <3>1, <1>t DEF SetRole
      <4> QED BY <4>1, <3>0, <1>k
    <3>2. CASE u = v
      <4> DEFINE gone == SurfacesFor(v) \ Wanted(roles)
                 given == (Wanted(roles) \ SurfacesFor(v)) \cap Surfaces
      <4>1. assigned'[v] = roles
        BY <2>5, <3>2, <1>t DEF SetRole
      <4>2. Wanted(roles) \subseteq Surfaces
        BY AccountsAssumption DEF Wanted, RoleSets, AccountsAssumption
      <4>3. held'[v] = WithRows(WithRows(held[v], gone, NoRow), given, Never)
        BY <2>5, <3>2, <1>t, <4>2 DEF SetRole
      <4>4. ASSUME NEW s \in SurfacesFor(v)' PROVE s \in Wanted(roles)
        <5>1. s \in Surfaces
          BY DEF SurfacesFor
        <5>2. s \in given \/ (s \in SurfacesFor(v) /\ s \notin gone)
          BY <5>1, <4>3, <3>0, RowsGiven
        <5> QED BY <5>2
      <4> QED BY <4>1, <4>4
    <3> QED BY <3>1, <3>2
  <2>6. ASSUME NEW roles \in RoleSets, NEW gone \in SUBSET Surfaces,
               NEW given \in SUBSET Surfaces,
               SetRoleInterrupted(u, roles, gone, given)
        PROVE  SurfacesFor(v)' \subseteq Wanted(assigned'[v])
    <3>0. now' = now
      BY <2>6 DEF SetRoleInterrupted
    <3>1. CASE u # v
      <4>1. Kept
        BY <2>6, <3>1, <1>t DEF SetRoleInterrupted
      <4> QED BY <4>1, <3>0, <1>k
    <3>2. CASE u = v
      <4>1. given # {} /\ assigned'[v] = roles
        BY <2>6, <3>2, <1>t DEF SetRoleInterrupted
      <4>2. gone = SurfacesFor(v) \ Wanted(roles) /\ given \subseteq Wanted(roles)
        BY <2>6, <3>2, <4>1 DEF SetRoleInterrupted
      <4>3. held'[v] = WithRows(WithRows(held[v], gone, NoRow), given, Never)
        BY <2>6, <3>2, <1>t DEF SetRoleInterrupted
      <4>4. ASSUME NEW s \in SurfacesFor(v)' PROVE s \in Wanted(roles)
        <5>1. s \in Surfaces
          BY DEF SurfacesFor
        <5>2. s \in given \/ (s \in SurfacesFor(v) /\ s \notin gone)
          BY <5>1, <4>3, <3>0, RowsGiven
        <5> QED BY <5>2, <4>2
      <4> QED BY <4>1, <4>4
    <3> QED BY <3>1, <3>2
  <2> QED BY <1>4, <2>1, <2>2, <2>3, <2>4, <2>5, <2>6 DEF NextFor
<1>5. CASE UNCHANGED accountVars
  BY <1>5, <1>k DEF accountVars
<1> QED BY <1>1, <1>2, <1>3, <1>4, <1>5 DEF Next

\* Once set_role has granted anything, even in a crash between its commits, the
\* person holds nothing beyond the roles set, until the next decision.
THEOREM RoleTheorem == Spec => []RoleIsNotExceeded
<1>1. Init => RoleIsNotExceeded
  BY DEF Init, RoleIsNotExceeded
<1>2. TypeOK /\ RoleIsNotExceeded /\ [Next]_accountVars => RoleIsNotExceeded'
  BY RoleNext
<1>3. Spec => []TypeOK
  BY TypeCorrect
<1> QED BY <1>1, <1>2, <1>3, PTL DEF Spec
=============================================================================
