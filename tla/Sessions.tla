------------------------------- MODULE Sessions -------------------------------
(***************************************************************************)
(* The sessions of one user (app/services/auth_service.py and              *)
(* get_current_user in app/api/dependencies.py).  A session is a row of     *)
(* refresh_tokens; exchanging its token revokes it and makes a new one.     *)
(* Requests run in several threads, each in a transaction at READ COMMITTED *)
(* whose writes reach the database at a flush and become visible at the     *)
(* commit; a row written by an open transaction is locked until then.       *)
(*                                                                         *)
(* A session is named by the request that issued it, and with it the        *)
(* refresh token and the access token that request answers with.            *)
(*                                                                         *)
(* Every reading of the clock that is stored is later than those before.    *)
(***************************************************************************)
EXTENDS Naturals, FiniteSets

CONSTANTS
    Requests,         \* requests of the user's devices
    None,             \* no session
    Threads,          \* requests that run at one time
    MaxSessions,      \* max_active_sessions_per_user
    Second,           \* readings of the clock that share one value of iat
    ReuseProtection,  \* refresh_token_reuse_protection
    Faults            \* "db": a transaction fails; "ban": see SetActive

ASSUME RequestsAssumption == IsFiniteSet(Requests) /\ None \notin Requests
ASSUME BoundsAssumption == {Threads, MaxSessions, Second} \subseteq Nat \ {0}
ASSUME ProtectionAssumption == ReuseProtection \in BOOLEAN
ASSUME FaultsAssumption == Faults \subseteq {"db", "ban"}

VARIABLES
    pc,          \* where each request is
    kind,        \* which operation it is
    cred,        \* the session whose token it presents
    stamp,       \* the tokens_revoked_at it will write, 0 for none
    stale,       \* the sessions it will revoke
    denies,      \* whether it will insert its access token in revoked_tokens
    outcome,     \* what its client is told
    created,     \* refresh_tokens.created_at of the session it inserts
    rows,        \* committed rows of refresh_tokens
    revoked,     \* those with a revoked_at
    denied,      \* revoked_tokens: sessions whose access token is refused
    revokedAt,   \* users.tokens_revoked_at, 0 for NULL
    active,      \* users.is_active
    deleted,     \* users.deleted_at is set
    clock,       \* the latest stored reading of the clock
    overlapped   \* history: revocations of everything that overlapped another

requestVars == <<pc, kind, cred, stamp, stale, denies, outcome>>
userVars == <<revokedAt, active, deleted>>
vars == <<requestVars, created, rows, revoked, denied, userVars, clock, overlapped>>

Kinds == {"login", "refresh", "logout", "logout_all", "reset", "delete", "revoke_session"}
PCs == {"idle", "user", "issue", "select", "commit", "done"}
Outcomes == {"none", "ok", "refused", "error"}

Running(r) == pc[r] \notin {"idle", "done"}
InFlight == {r \in Requests : Running(r)}

(* Rows that a query for revoked_at IS NULL finds. *)
Live == rows \ revoked

(* A session that has been flushed and not committed. *)
Flushed(r) == pc[r] = "commit" /\ created[r] # 0

(* A token carries the second in which it was issued. *)
Iat(s) == created[s] - (created[s] % Second)

Init ==
    /\ pc = [r \in Requests |-> "idle"]
    /\ kind = [r \in Requests |-> "login"]
    /\ cred = [r \in Requests |-> None]
    /\ stamp = [r \in Requests |-> 0]
    /\ stale = [r \in Requests |-> {}]
    /\ denies = [r \in Requests |-> FALSE]
    /\ outcome = [r \in Requests |-> "none"]
    /\ created = [r \in Requests |-> 0]
    /\ rows = {}
    /\ revoked = {}
    /\ denied = {}
    /\ revokedAt = 0
    /\ active = TRUE
    /\ deleted = FALSE
    /\ clock = 0
    /\ overlapped = {}

Goto(r, label) == pc' = [pc EXCEPT ![r] = label]
Tell(r, o) == outcome' = [outcome EXCEPT ![r] = o]
Refuse(r) == Goto(r, "done") /\ Tell(r, "refused")

(* A thread takes request r: operation k, with the tokens of session c. *)
Take(r, k, c) ==
    /\ pc[r] = "idle"
    /\ Cardinality(InFlight) < Threads
    /\ kind' = [kind EXCEPT ![r] = k]
    /\ cred' = [cred EXCEPT ![r] = c]

(* datetime.now, as the revocation of everything will store it. *)
Stamp(r) ==
    /\ clock' = clock + 1
    /\ stamp' = [stamp EXCEPT ![r] = clock + 1]

-----------------------------------------------------------------------------
(* The first step of each operation: what it looks at before it changes     *)
(* anything.                                                                *)

(* verify_login_otp with the right password and code: load the user.        *)
Login(r) ==
    /\ Take(r, "login", None)
    /\ IF active /\ ~deleted
         THEN Goto(r, "issue") /\ UNCHANGED outcome
         ELSE Refuse(r)
    /\ UNCHANGED <<stamp, stale, denies, created, rows, revoked, denied, userVars, clock, overlapped>>

(* refresh_access_token: the token's row, if it is not revoked ...           *)
Refresh(r, c) ==
    /\ Take(r, "refresh", c)
    /\ stale' = [stale EXCEPT ![r] = {c} \cap Live]
    /\ Goto(r, "user")
    /\ UNCHANGED <<stamp, denies, outcome, created, rows, revoked, denied, userVars, clock, overlapped>>

(* revoke_refresh_token: nothing to do for a token that is not live.        *)
Logout(r, c) ==
    /\ Take(r, "logout", c)
    /\ IF c \in Live
         THEN /\ stale' = [stale EXCEPT ![r] = {c}]
              /\ denies' = [denies EXCEPT ![r] = c \notin denied]
              /\ Goto(r, "commit")
              /\ UNCHANGED outcome
         ELSE /\ Goto(r, "done")
              /\ Tell(r, "ok")
              /\ UNCHANGED <<stale, denies>>
    /\ UNCHANGED <<stamp, created, rows, revoked, denied, userVars, clock, overlapped>>

(* get_current_user *)
AccessAccepted(c) ==
    /\ active /\ ~deleted
    /\ c \notin denied
    /\ Iat(c) >= revokedAt

(* logout_all_devices, change_password, delete_account: authenticate, and   *)
(* take the time.                                                           *)
RevokeAll(r, k, c) ==
    /\ k \in {"logout_all", "delete"}
    /\ Take(r, k, c)
    /\ IF AccessAccepted(c)
         THEN Stamp(r) /\ Goto(r, "select") /\ UNCHANGED outcome
         ELSE Refuse(r) /\ UNCHANGED <<stamp, clock>>
    /\ UNCHANGED <<stale, denies, created, rows, revoked, denied, userVars, overlapped>>

(* reset_password with the right codes asks for no token and no is_active.  *)
Reset(r) ==
    /\ Take(r, "reset", None)
    /\ IF ~deleted
         THEN Stamp(r) /\ Goto(r, "select") /\ UNCHANGED outcome
         ELSE Refuse(r) /\ UNCHANGED <<stamp, clock>>
    /\ UNCHANGED <<stale, denies, created, rows, revoked, denied, userVars, overlapped>>

RevokeSession(r, c) ==
    /\ Take(r, "revoke_session", c)
    /\ IF AccessAccepted(c)
         THEN Goto(r, "select") /\ UNCHANGED outcome
         ELSE Refuse(r)
    /\ UNCHANGED <<stamp, stale, denies, created, rows, revoked, denied, userVars, clock, overlapped>>

-----------------------------------------------------------------------------
(* Faulty variant: without the comparison with tokens_revoked_at. *)
TokenAnyAge(c) == active /\ ~deleted

(* What refresh_access_token asks of a live token and its user. *)
TokenAccepted(c) ==
    /\ active /\ ~deleted
    /\ created[c] >= revokedAt

(* ... then the user.  A token that is refused is revoked by the way.  One   *)
(* that was not found has been used, revoked or evicted before: with reuse   *)
(* protection all sessions go.                                              *)
LoadUser(r) ==
    /\ pc[r] = "user"
    /\ IF stale[r] # {}
         THEN /\ IF TokenAccepted(cred[r])
                   THEN Goto(r, "issue") /\ UNCHANGED outcome
                   ELSE Goto(r, "commit") /\ Tell(r, "refused")
              /\ UNCHANGED <<stamp, clock>>
         ELSE IF active /\ ~deleted /\ ReuseProtection
           THEN Stamp(r) /\ Goto(r, "select") /\ Tell(r, "refused")
           ELSE Refuse(r) /\ UNCHANGED <<stamp, clock>>
    /\ UNCHANGED <<kind, cred, stale, denies, created, rows, revoked, denied, userVars, overlapped>>

(* Faulty variant: a slice that starts one too late. *)
OneTooMany(seen) ==
    {s \in seen : Cardinality({t \in seen : created'[t] > created'[s]}) > MaxSessions}

(* active_sessions[max_active_sessions_per_user :], newest first. *)
Excess(seen) ==
    {s \in seen : Cardinality({t \in seen : created'[t] > created'[s]}) >= MaxSessions}

(* _issue_tokens: the flush writes the user's last_login_at (a login) or the *)
(* exchanged token's revoked_at (a refresh), waiting for a transaction that  *)
(* has written the same row, then inserts the session; then the sessions     *)
(* beyond the limit are listed.                                             *)
IssueTokens(r) ==
    /\ pc[r] = "issue"
    /\ \A q \in Requests : Flushed(q) => kind[q] # kind[r] \/ cred[q] # cred[r]
    /\ clock' = clock + 1
    /\ created' = [created EXCEPT ![r] = clock + 1]
    /\ stale' = [stale EXCEPT ![r] = @ \cup Excess((Live \ @) \cup {r})]
    /\ Goto(r, "commit")
    /\ Tell(r, "ok")
    /\ UNCHANGED <<kind, cred, stamp, denies, rows, revoked, denied, userVars, overlapped>>

(* Faulty variant: a session that was not found is not noticed. *)
SelectUnchecked(r) ==
    /\ pc[r] = "select"
    /\ kind[r] = "revoke_session"
    /\ \E t \in Live \cup {None} : stale' = [stale EXCEPT ![r] = {t}]
    /\ Goto(r, "commit")
    /\ Tell(r, "ok")
    /\ UNCHANGED <<kind, cred, stamp, denies, created, rows, revoked, denied, userVars, clock, overlapped>>

(* revoke_session: the session asked for, if it is live. *)
SelectSession(r) ==
    /\ pc[r] = "select"
    /\ kind[r] = "revoke_session"
    /\ \/ /\ \E t \in Live : stale' = [stale EXCEPT ![r] = {t}]
          /\ Goto(r, "commit")
          /\ Tell(r, "ok")
       \/ Refuse(r) /\ UNCHANGED stale
    /\ UNCHANGED <<kind, cred, stamp, denies, created, rows, revoked, denied, userVars, clock, overlapped>>

(* _revoke_all_user_sessions: list the live sessions; then the request's own *)
(* access token, unless it is in revoked_tokens already.                    *)
SelectAll(r) ==
    /\ pc[r] = "select"
    /\ kind[r] # "revoke_session"
    /\ stale' = [stale EXCEPT ![r] = Live]
    /\ denies' = [denies EXCEPT ![r] = kind[r] \in {"logout_all", "delete"} /\ cred[r] \notin denied]
    /\ Goto(r, "commit")
    /\ IF kind[r] = "refresh" THEN UNCHANGED outcome ELSE Tell(r, "ok")
    /\ UNCHANGED <<kind, cred, stamp, created, rows, revoked, denied, userVars, clock, overlapped>>

-----------------------------------------------------------------------------
(* The commit writes the rows the request has changed; it waits while a      *)
(* transaction that has flushed holds one of them: a login the user's, a     *)
(* refresh its token's.                                                     *)
Free(r) ==
    \A q \in Requests \ {r} : Flushed(q) =>
        /\ cred[q] \notin stale[r]
        /\ stamp[r] # 0 => kind[q] # "login"

(* Other revocations of everything that have taken their time. *)
RevokingAll(r) == {q \in Requests \ {r} : pc[q] \in {"select", "commit"} /\ stamp[q] # 0}

(* Faulty variant: the exchanged token stays live. *)
ApplyKeepsToken(r) ==
    /\ rows' = IF created[r] # 0 THEN rows \cup {r} ELSE rows
    /\ revoked' = revoked \cup (IF kind[r] = "refresh" THEN stale[r] \ {cred[r]} ELSE stale[r])
    /\ denied' = IF denies[r] THEN denied \cup {cred[r]} ELSE denied
    /\ revokedAt' = IF stamp[r] # 0 THEN stamp[r] ELSE revokedAt
    /\ active' = (active /\ ~(kind[r] = "delete" /\ stamp[r] # 0))
    /\ deleted' = (deleted \/ (kind[r] = "delete" /\ stamp[r] # 0))
    /\ overlapped' = IF stamp[r] # 0 /\ RevokingAll(r) # {}
                       THEN overlapped \cup {r} \cup RevokingAll(r)
                       ELSE overlapped

(* The request's writes, all of them. *)
Apply(r) ==
    /\ rows' = IF created[r] # 0 THEN rows \cup {r} ELSE rows
    /\ revoked' = revoked \cup stale[r]
    /\ denied' = IF denies[r] THEN denied \cup {cred[r]} ELSE denied
    /\ revokedAt' = IF stamp[r] # 0 THEN stamp[r] ELSE revokedAt
    /\ active' = (active /\ ~(kind[r] = "delete" /\ stamp[r] # 0))
    /\ deleted' = (deleted \/ (kind[r] = "delete" /\ stamp[r] # 0))
    /\ overlapped' = IF stamp[r] # 0 /\ RevokingAll(r) # {}
                       THEN overlapped \cup {r} \cup RevokingAll(r)
                       ELSE overlapped

ApplyNothing == UNCHANGED <<rows, revoked, denied, userVars, overlapped>>

(* revoked_tokens.jti is unique: of two requests that both found the access  *)
(* token missing, the second fails and loses everything else it did.        *)
Commit(r) ==
    /\ pc[r] = "commit"
    /\ Free(r)
    /\ Goto(r, "done")
    /\ IF denies[r] /\ cred[r] \in denied
         THEN Tell(r, "error") /\ ApplyNothing
         ELSE /\ Apply(r)
              /\ IF kind[r] = "logout" THEN Tell(r, "ok") ELSE UNCHANGED outcome
    /\ UNCHANGED <<kind, cred, stamp, stale, denies, created, clock>>

(* The transaction fails: on a broken connection, or as the victim of a      *)
(* deadlock.  At a broken commit it may be in all the same.                 *)
DatabaseFails(r) ==
    /\ "db" \in Faults
    /\ Running(r)
    /\ Goto(r, "done")
    /\ Tell(r, "error")
    /\ \/ ApplyNothing
       \/ pc[r] = "commit" /\ Free(r) /\ ~(denies[r] /\ cred[r] \in denied) /\ Apply(r)
    /\ UNCHANGED <<kind, cred, stamp, stale, denies, created, clock>>

(* ban_or_unban_user: it writes the user's row as well. *)
SetActive ==
    /\ "ban" \in Faults
    /\ \A q \in Requests : Flushed(q) => kind[q] # "login"
    /\ active' = ~active
    /\ UNCHANGED <<requestVars, created, rows, revoked, denied, revokedAt, deleted, clock, overlapped>>

Arrive(r) ==
    \/ Login(r) \/ Reset(r)
    \/ \E c \in rows :
         \/ Refresh(r, c) \/ Logout(r, c) \/ RevokeSession(r, c)
         \/ \E k \in Kinds : RevokeAll(r, k, c)

Next ==
    \/ \E r \in Requests :
         \/ Arrive(r) \/ LoadUser(r) \/ IssueTokens(r)
         \/ SelectSession(r) \/ SelectAll(r) \/ Commit(r) \/ DatabaseFails(r)
    \/ SetActive

Spec == Init /\ [][Next]_vars

-----------------------------------------------------------------------------
TypeOK ==
    /\ pc \in [Requests -> PCs]
    /\ kind \in [Requests -> Kinds]
    /\ cred \in [Requests -> rows \cup {None}]
    /\ stamp \in [Requests -> 0..clock]
    /\ stale \in [Requests -> SUBSET Requests]
    /\ denies \in [Requests -> BOOLEAN]
    /\ outcome \in [Requests -> Outcomes]
    /\ created \in [Requests -> 0..clock]
    /\ rows \subseteq Requests
    /\ revoked \subseteq rows
    /\ denied \subseteq rows
    /\ revokedAt \in 0..clock
    /\ active \in BOOLEAN
    /\ deleted \in BOOLEAN
    /\ clock \in Nat
    /\ overlapped \subseteq Requests

(* The cap on sessions is applied to what one transaction sees.  Logins wait *)
(* for each other on the user's row, and exchanges of one token on its row,  *)
(* so what slips past it is one session for each other thread               *)
(* (_issue_tokens).                                                         *)
SessionCap == Cardinality(Live) <= MaxSessions + Threads - 1

(* Sessions that were made from one token and reached their client. *)
Successors(c) == {r \in rows : kind[r] = "refresh" /\ cred[r] = c}

(* A refresh token is for one use; requests that look at it at the same time *)
(* can each exchange it, and no request that comes later                    *)
(* (refresh_access_token).                                                  *)
ExchangedAtOnce == \A c \in rows : Cardinality(Successors(c)) <= Threads

(* A revocation of everything that has been answered. *)
RevokedAll(r) == pc[r] = "done" /\ stamp[r] # 0 /\ outcome[r] # "error"

(* After logout-all, a password change or reset, a deletion or a detected    *)
(* reuse, no token from before it is accepted, neither refresh nor access,   *)
(* not even that of a session whose transaction was open when the live       *)
(* sessions were listed.  Required of revocations that overlap no other one: *)
(* each writes the time it took, and the last to commit may have taken the   *)
(* earlier (_revoke_all_user_sessions, tokens_revoked_at).                   *)
RevocationHolds ==
    \A r \in Requests : RevokedAll(r) /\ r \notin overlapped =>
        \A s \in rows : created[s] < stamp[r] =>
            /\ ~(s \in Live /\ TokenAccepted(s))
            /\ ~AccessAccepted(s)

(* The answer of /logout-all: "Logged out from all devices".  Then a device  *)
(* that was logged in before has to log in again: no session is accepted     *)
(* that was exchanged for one from before.  Checked as written.             *)
LoggedOutFromAllDevices ==
    \A r \in Requests : kind[r] = "logout_all" /\ RevokedAll(r) /\ r \notin overlapped =>
        \A s \in Live : kind[s] = "refresh" /\ created[cred[s]] < stamp[r] => ~TokenAccepted(s)

=============================================================================
