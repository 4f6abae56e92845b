------------------------------ MODULE Accounts -----------------------------
(***************************************************************************)
(* Who may use the service and which surfaces they hold: the users and     *)
(* grants tables (app/storage/repo.py), the admin endpoints that change    *)
(* them (app/api/admin.py), the administrators seeded at startup           *)
(* (app/main.py), and the copy of a person's surfaces that a question      *)
(* carries for as long as it runs (app/api/ask.py).                        *)
(*                                                                         *)
(* Handlers run on one event loop without an await between reading the     *)
(* caller's account and writing, so an action is a whole handler.  The     *)
(* exception is a handler of several commits when the process dies: those  *)
(* are the Interrupted actions.                                            *)
(***************************************************************************)
EXTENDS Integers

CONSTANTS
  Users,
  Surfaces,     \* the Surface enum
  Admin,        \* Surface.ADMIN
  Roles,        \* keys of ROLES
  SurfacesOf,   \* the surfaces of each role
  Bootstrap,    \* INFRAGPT_BOOTSTRAP_ADMINS
  Askers,       \* bound: the users whose questions are followed
  MaxTime,      \* bound: the clock, and the expiry of grants
  MaxRestarts   \* bound: process starts

ASSUME AccountsAssumption ==
  /\ Admin \in Surfaces
  /\ SurfacesOf \in [Roles -> SUBSET Surfaces]
  /\ Bootstrap \subseteq Users /\ Askers \subseteq Users
  /\ {MaxTime, MaxRestarts} \subseteq Nat

VARIABLES
  up,        \* is the process serving?
  starts,    \* process starts so far
  now,
  user,      \* the row of each user
  held,      \* held[u][s]: the expires_at of the grant of s to u
  asking,    \* the question each user has running, with its surfaces
  assigned   \* history: the roles set_role last granted, until another decision

accountVars == <<up, starts, now, user, held, asking, assigned>>

-----------------------------------------------------------------------------
(* Grants.                                                                 *)

NoRow == 0    \* no grant row
Never == -1   \* expires_at is NULL
Naive == -2   \* expires_at has no time zone, like 2026-12-31

Expiries == {NoRow, Never, Naive} \cup (1..MaxTime)

\* ~_expired(expires_at), for a row that can be compared with the clock.
Unexpired(u, s) == held[u][s] = Never \/ held[u][s] > now

\* surfaces_for_user
SurfacesFor(u) == {s \in Surfaces : Unexpired(u, s)}

\* Comparing a naive timestamp with an aware clock raises TypeError out of
\* surfaces_for_user, hence out of every handler that reads u's surfaces.
Poisoned(u) == \E s \in Surfaces : held[u][s] = Naive

Wanted(roles) == UNION {SurfacesOf[r] : r \in roles}

RoleSets == SUBSET Roles \ {{}}

NewUser == [status |-> "none", accountable |-> FALSE]

UserType ==
  [status      : {"none", "pending", "active", "disabled"},
   accountable : BOOLEAN]     \* activated_by is set

Idle == [on |-> FALSE, surfaces |-> {}]

Init ==
  /\ up = FALSE /\ starts = 0 /\ now = 0
  /\ user = [u \in Users |-> NewUser]
  /\ held = [u \in Users |-> [s \in Surfaces |-> NoRow]]
  /\ asking = [u \in Users |-> Idle]
  /\ assigned = [u \in Users |-> {}]

Activated(U) == [U EXCEPT !.status = "active", !.accountable = TRUE]

\* One INSERT ... ON CONFLICT DO UPDATE or DELETE for each surface of S.
WithRows(rows, S, e) == [s \in Surfaces |-> IF s \in S THEN e ELSE rows[s]]

-----------------------------------------------------------------------------
(* Startup.                                                                *)

\* Mutant of Bootstrapped: activated_by is not set.
BootstrappedByNobody(u) ==
  IF u \in Bootstrap /\ user[u].status \in {"none", "pending"}
  THEN [user[u] EXCEPT !.status = "active"] ELSE user[u]
\* get_or_create, then activate whoever is pending.
Bootstrapped(u) ==
  IF u \in Bootstrap /\ user[u].status \in {"none", "pending"}
  THEN Activated(user[u]) ELSE user[u]

\* has_surface raises on a naive expiry, and then the service does not start.
Start ==
  /\ ~up /\ starts < MaxRestarts
  /\ \A u \in Bootstrap : ~Poisoned(u)
  /\ up' = TRUE /\ starts' = starts + 1
  /\ user' = [u \in Users |-> Bootstrapped(u)]
  /\ LET elevated == {u \in Bootstrap : ~Unexpired(u, Admin)} IN
       /\ held' = [u \in Users |-> IF u \in elevated
                                     THEN WithRows(held[u], {Admin}, Never)
                                     ELSE held[u]]
       /\ assigned' = [u \in Users |-> IF u \in elevated THEN {} ELSE assigned[u]]
  /\ UNCHANGED <<now, asking>>

\* The process is gone, and with it every question that was running.
Dies == up' = FALSE /\ asking' = [u \in Users |-> Idle]

Stops ==
  /\ up /\ Dies
  /\ UNCHANGED <<starts, now, user, held, assigned>>

Tick ==
  /\ now < MaxTime /\ now' = now + 1
  /\ UNCHANGED <<up, starts, user, held, asking, assigned>>

-----------------------------------------------------------------------------
(* The admin endpoints.                                                    *)

Passes(u) == up /\ user[u].status = "active" /\ ~Poisoned(u)

\* require_admin for some caller, and _user_out(storage, user_id) for the
\* subject: 404 if there is no such user, TypeError if poisoned.
Manages(u) ==
  /\ \E a \in Users : Passes(a) /\ Unexpired(a, Admin)
  /\ user[u].status # "none" /\ ~Poisoned(u)

\* get_or_create: the first login makes a pending account.
FirstLogin(u) ==
  /\ up /\ user[u].status = "none"
  /\ user' = [user EXCEPT ![u].status = "pending"]
  /\ UNCHANGED <<up, starts, now, held, asking, assigned>>

\* activate_user, and enable_user, which does the same.
Activate(u) ==
  /\ Manages(u)
  /\ user' = [user EXCEPT ![u] = Activated(@)]
  /\ UNCHANGED <<up, starts, now, held, asking, assigned>>

\* disable_user; Sessions adds what it does to the tokens.
Disable(u) ==
  /\ Manages(u)
  /\ user' = [user EXCEPT ![u].status = "disabled"]
  /\ UNCHANGED <<up, starts, now, held, asking, assigned>>

\* The process dies after disable_user's set_status, and before it revokes the tokens.
DisableInterrupted(u) ==
  /\ Manages(u)
  /\ user' = [user EXCEPT ![u].status = "disabled"]
  /\ Dies /\ UNCHANGED <<starts, now, held, assigned>>

\* grant_surface: the expiry is whatever text the caller sent.
Grant(u, s, e) ==
  /\ Manages(u)
  /\ held' = [held EXCEPT ![u][s] = e]
  /\ assigned' = [assigned EXCEPT ![u] = {}]
  /\ UNCHANGED <<up, starts, now, user, asking>>

Revoke(u, s) ==
  /\ Manages(u)
  /\ held' = [held EXCEPT ![u][s] = NoRow]
  /\ assigned' = [assigned EXCEPT ![u] = {}]
  /\ UNCHANGED <<up, starts, now, user, asking>>

\* approve_user: grant the surfaces of the roles, then activate.
Approve(u, roles) ==
  /\ Manages(u)
  /\ held' = [held EXCEPT ![u] = WithRows(@, Wanted(roles), Never)]
  /\ user' = [user EXCEPT ![u] = Activated(@)]
  /\ assigned' = [assigned EXCEPT ![u] = {}]
  /\ UNCHANGED <<up, starts, now, asking>>

\* The process dies after some of approve_user's grants.
ApproveInterrupted(u, roles, done) ==
  /\ Manages(u) /\ done \subseteq Wanted(roles)
  /\ held' = [held EXCEPT ![u] = WithRows(@, done, Never)]
  /\ assigned' = [assigned EXCEPT ![u] = {}]
  /\ Dies /\ UNCHANGED <<starts, now, user>>

\* set_role: revoke what is held and not wanted, grant what is wanted and not
\* held.  A row that is both held and wanted keeps its expiry.
SetRole(u, roles) ==
  /\ Manages(u)
  /\ LET wanted == Wanted(roles)
         has    == SurfacesFor(u)
     IN  held' = [held EXCEPT ![u] =
                    WithRows(WithRows(@, has \ wanted, NoRow),
                             wanted \ has, Never)]
  /\ assigned' = [assigned EXCEPT ![u] = roles]
  /\ UNCHANGED <<up, starts, now, user, asking>>

\* Mutant of SetRoleInterrupted: it grants before it revokes.
SetRoleInterruptedUp(u, roles, gone, given) ==
  /\ Manages(u)
  /\ LET wanted == Wanted(roles)
         has    == SurfacesFor(u)
     IN  /\ gone \subseteq has \ wanted /\ given \subseteq wanted \ has
         /\ gone # {} => given = wanted \ has
         /\ held' = [held EXCEPT ![u] =
                       WithRows(WithRows(@, gone, NoRow), given, Never)]
  /\ assigned' = [assigned EXCEPT ![u] = IF given = {} THEN {} ELSE roles]
  /\ Dies /\ UNCHANGED <<starts, now, user>>

\* The process dies after some of set_role's revocations, or after all of
\* them and some of its grants.
SetRoleInterrupted(u, roles, gone, given) ==
  /\ Manages(u)
  /\ LET wanted == Wanted(roles)
         has    == SurfacesFor(u)
     IN  /\ gone \subseteq has \ wanted /\ given \subseteq wanted \ has
         /\ given # {} => gone = has \ wanted
         /\ held' = [held EXCEPT ![u] =
                       WithRows(WithRows(@, gone, NoRow), given, Never)]
  /\ assigned' = [assigned EXCEPT ![u] = IF given = {} THEN {} ELSE roles]
  /\ Dies /\ UNCHANGED <<starts, now, user>>

-----------------------------------------------------------------------------
(* Questions.                                                              *)

\* A question starts with the surfaces of current_principal, and _answer and
\* dispatch use that copy until it ends.
BeginQuestion(u) ==
  /\ u \in Askers /\ Passes(u) /\ ~asking[u].on
  /\ asking' = [asking EXCEPT ![u] = [on |-> TRUE, surfaces |-> SurfacesFor(u)]]
  /\ UNCHANGED <<up, starts, now, user, held, assigned>>

EndQuestion(u) ==
  /\ asking[u].on
  /\ asking' = [asking EXCEPT ![u] = Idle]
  /\ UNCHANGED <<up, starts, now, user, held, assigned>>

-----------------------------------------------------------------------------

NextFor(u) ==
  \/ FirstLogin(u) \/ Activate(u) \/ Disable(u) \/ DisableInterrupted(u)
  \/ \E s \in Surfaces :
       (\E e \in Expiries \ {NoRow} : Grant(u, s, e)) \/ Revoke(u, s)
  \/ \E roles \in RoleSets :
       \/ Approve(u, roles) \/ SetRole(u, roles)
       \/ \E done \in SUBSET Surfaces : ApproveInterrupted(u, roles, done)
       \/ \E gone, given \in SUBSET Surfaces :
            SetRoleInterrupted(u, roles, gone, given)
  \/ BeginQuestion(u) \/ EndQuestion(u)

Next == Start \/ Stops \/ Tick \/ \E u \in Users : NextFor(u)

Spec == Init /\ [][Next]_accountVars

-----------------------------------------------------------------------------
(* Properties.                                                             *)

TypeOK ==
  /\ up \in BOOLEAN /\ starts \in 0..MaxRestarts /\ now \in 0..MaxTime
  /\ user \in [Users -> UserType]
  /\ held \in [Users -> [Surfaces -> Expiries]]
  /\ asking \in [Users -> [on : BOOLEAN, surfaces : SUBSET Surfaces]]
  /\ assigned \in [Users -> SUBSET Roles]

\* Nobody gets in without a person, or the bootstrap list, answering for it:
\* an active account has an activated_by, and a question only ever runs for an
\* account that had one.
AccessIsAccountable ==
  \A u \in Users : user[u].status = "active" \/ asking[u].on
                     => user[u].accountable

\* Once set_role has granted anything, even if it was cut short, a person
\* holds nothing beyond the roles it sets, whatever they held before, until
\* another decision about their grants is taken: a demotion takes access away
\* before it gives any, and no old row comes back.
RoleIsNotExceeded ==
  \A u \in Users : assigned[u] # {} => SurfacesFor(u) \subseteq Wanted(assigned[u])

=============================================================================
