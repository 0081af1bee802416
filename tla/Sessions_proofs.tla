---------------------------- MODULE Sessions_proofs ---------------------------
(* Theorems about Sessions, for any requests, threads, limits and faults.     *)
EXTENDS Sessions, FiniteSetTheorems, WellFoundedInduction, NaturalsInduction, TLAPS

(* Where a request is tells what it has done: the session it presents, the    *)
(* sessions it will revoke, the one it has made.                              *)
StageOf(r) ==
    /\ kind[r] \notin {"login", "reset"} => cred[r] \in rows
    /\ stale[r] \subseteq rows \cup (IF created[r] # 0 THEN {r} ELSE {})
    /\ denies[r] => cred[r] \in rows
    /\ pc[r] = "idle" => ~denies[r] /\ stale[r] = {}
    /\ created[r] # 0 => pc[r] \in {"commit", "done"} /\ kind[r] \in {"login", "refresh"}
    /\ r \in rows => pc[r] = "done" /\ created[r] # 0 /\ stale[r] \subseteq revoked
    /\ stamp[r] # 0 => /\ pc[r] \in {"select", "commit", "done"} /\ created[r] = 0
                       /\ kind[r] # "revoke_session"
    /\ pc[r] = "user" => kind[r] = "refresh" /\ stale[r] \subseteq {cred[r]}
    /\ pc[r] = "issue" => kind[r] \in {"login", "refresh"}
    /\ pc[r] = "issue" \/ created[r] # 0 => (kind[r] = "refresh" => cred[r] \in stale[r])
Stage == \A r \in Requests : StageOf(r)

(* No more requests run than there are threads. *)
ThreadsBound == Cardinality(InFlight) <= Threads

(* Requests that may exchange session c. *)
Exchangers(c) == {r \in InFlight : kind[r] = "refresh" /\ cred[r] = c /\ c \in stale[r]}

(* Once a session was exchanged no request takes it up, so that those that    *)
(* have exchanged it and those that still may are together at most the        *)
(* threads.                                                                   *)
Exchanges == \A c \in Requests :
    /\ c \notin revoked => Successors(c) = {}
    /\ Cardinality(Successors(c)) + Cardinality(Exchangers(c)) <= Threads

(* A revocation that overlapped no other is not undone by one that took its   *)
(* time before it.                                                            *)
Revocations ==
    \A r \in Requests : RevokedAll(r) /\ r \notin overlapped =>
        /\ stamp[r] <= revokedAt
        /\ \A q \in Requests : pc[q] \in {"select", "commit"} /\ stamp[q] # 0 => stamp[r] < stamp[q]

(* The clock tells sessions apart. *)
Distinct == \A s, t \in Requests : created[s] # 0 /\ created[s] = created[t] => s = t

(* What may be live beside session s and is not newer: what s left when it    *)
(* listed the sessions, and what was open then.                               *)
Beside(s) ==
    {s} \cup {t \in Live \ stale[s] : created[t] <= created[s]}
        \cup {t \in Requests : Flushed(t) /\ created[t] <= created[s]}
Cap == \A s \in Requests :
    s \in rows \/ Flushed(s) => Cardinality(Beside(s)) <= MaxSessions + Threads - 1

Typed == TypeOK /\ Stage

USE DEF Goto, Tell, Refuse, Take, Stamp

-----------------------------------------------------------------------------
(* Types. *)

LEMMA Bounds ==
  /\ Threads \in Nat \ {0} /\ MaxSessions \in Nat \ {0} /\ Second \in Nat \ {0}
  /\ IsFiniteSet(Requests) /\ None \notin Requests
  BY BoundsAssumption, RequestsAssumption

(* The types but for the truth values, which need provers of their own. *)
TypeData ==
    /\ pc \in [Requests -> PCs]
    /\ kind \in [Requests -> Kinds]
    /\ cred \in [Requests -> rows \cup {None}]
    /\ stamp \in [Requests -> 0..clock]
    /\ stale \in [Requests -> SUBSET Requests]
    /\ outcome \in [Requests -> Outcomes]
    /\ created \in [Requests -> 0..clock]
    /\ rows \subseteq Requests
    /\ revoked \subseteq rows
    /\ denied \subseteq rows
    /\ revokedAt \in 0..clock
    /\ clock \in Nat
    /\ overlapped \subseteq Requests
TypeFlags == denies \in [Requests -> BOOLEAN] /\ active \in BOOLEAN /\ deleted \in BOOLEAN

LEMMA TypeParts == TypeOK <=> TypeData /\ TypeFlags
  BY DEF TypeOK, TypeData, TypeFlags

LEMMA InitTyped == Init => Typed /\ ThreadsBound
  <1> SUFFICES ASSUME Init PROVE Typed /\ ThreadsBound
    OBVIOUS
  <1>1. TypeFlags
    BY Zenon DEF Init, TypeFlags
  <1>2. TypeData
    BY DEF Init, TypeData, PCs, Kinds, Outcomes
  <1>3. Stage
    BY DEF Init, Stage, StageOf
  <1>4. InFlight = {}
    BY DEF Init, InFlight, Running
  <1>5. ThreadsBound
    <2>1. Cardinality({}) = 0
      BY FS_EmptySet
    <2> QED BY <1>4, <2>1, Bounds DEF ThreadsBound
  <1> QED BY <1>1, <1>2, <1>3, <1>5, TypeParts DEF Typed

(* The steps of one request. *)
RequestStep(r) ==
    \/ Arrive(r) \/ LoadUser(r) \/ IssueTokens(r)
    \/ SelectSession(r) \/ SelectAll(r) \/ Commit(r) \/ DatabaseFails(r)

LEMMA Steps ==
  [Next]_vars => (\E r \in Requests : RequestStep(r)) \/ SetActive \/ UNCHANGED vars
  BY DEF Next, RequestStep

(* The ways in which a request arrives. *)
LEMMA Arrivals ==
  ASSUME Typed, NEW r \in Requests, Arrive(r)
  PROVE  \/ Login(r) \/ Reset(r)
         \/ \E c \in rows : \/ Refresh(r, c) \/ Logout(r, c) \/ RevokeSession(r, c)
                           \/ \E k \in {"logout_all", "delete"} : RevokeAll(r, k, c)
  BY DEF Arrive, RevokeAll

(* What a step of one request leaves alone. *)
Kept(q) ==
    /\ pc'[q] = pc[q] /\ kind'[q] = kind[q] /\ cred'[q] = cred[q] /\ stamp'[q] = stamp[q]
    /\ stale'[q] = stale[q] /\ denies'[q] = denies[q] /\ outcome'[q] = outcome[q]
    /\ created'[q] = created[q]

LEMMA OthersKept ==
  ASSUME Typed, NEW r \in Requests, RequestStep(r)
  PROVE  \A q \in Requests \ {r} : Kept(q)
  <1> SUFFICES ASSUME NEW q \in Requests \ {r} PROVE Kept(q)
    OBVIOUS
  <1> USE DEF Kept, requestVars, Typed, TypeOK
  <1>1. CASE Arrive(r)
    <2>1. CASE Login(r) \/ Reset(r)
      BY <2>1 DEF Login, Reset
    <2>2. ASSUME NEW c \in rows, Refresh(r, c) \/ Logout(r, c) \/ RevokeSession(r, c)
          PROVE  Kept(q)
      BY <2>2 DEF Refresh, Logout, RevokeSession
    <2>3. ASSUME NEW c \in rows, NEW k \in {"logout_all", "delete"}, RevokeAll(r, k, c)
          PROVE  Kept(q)
      BY <2>3 DEF RevokeAll
    <2> QED BY <1>1, <2>1, <2>2, <2>3, Arrivals
  <1>2. CASE LoadUser(r)
    BY <1>2 DEF LoadUser
  <1>3. CASE IssueTokens(r)
    BY <1>3 DEF IssueTokens
  <1>4. CASE SelectSession(r) \/ SelectAll(r)
    BY <1>4 DEF SelectSession, SelectAll
  <1>5. CASE Commit(r) \/ DatabaseFails(r)
    BY <1>5 DEF Commit, DatabaseFails
  <1> QED BY <1>1, <1>2, <1>3, <1>4, <1>5 DEF RequestStep

(* The steps that commit, and all others: only the former touch the tables.   *)
Commits(r) ==
    /\ pc[r] = "commit" /\ pc'[r] = "done" /\ Apply(r)
    /\ kind' = kind /\ cred' = cred /\ stamp' = stamp /\ stale' = stale /\ denies' = denies
    /\ created' = created /\ clock' = clock

LEMMA Effects ==
  ASSUME Typed, NEW r \in Requests, RequestStep(r)
  PROVE  Commits(r) \/ UNCHANGED <<rows, revoked, denied, revokedAt, active, deleted, overlapped>>
  <1> USE DEF ApplyNothing, userVars
  <1>1. CASE Arrive(r)
    <2>1. CASE Login(r) \/ Reset(r)
      BY <2>1 DEF Login, Reset
    <2>2. ASSUME NEW c \in rows, Refresh(r, c) \/ Logout(r, c) \/ RevokeSession(r, c)
          PROVE  UNCHANGED <<rows, revoked, denied, revokedAt, active, deleted, overlapped>>
      BY <2>2 DEF Refresh, Logout, RevokeSession
    <2>3. ASSUME NEW c \in rows, NEW k \in {"logout_all", "delete"}, RevokeAll(r, k, c)
          PROVE  UNCHANGED <<rows, revoked, denied, revokedAt, active, deleted, overlapped>>
      BY <2>3 DEF RevokeAll
    <2> QED BY <1>1, <2>1, <2>2, <2>3, Arrivals
  <1>2. CASE LoadUser(r) \/ IssueTokens(r) \/ SelectSession(r) \/ SelectAll(r)
    BY <1>2 DEF LoadUser, IssueTokens, SelectSession, SelectAll
  <1>3. CASE Commit(r)
    BY <1>3 DEF Commit, Commits, Typed, TypeOK
  <1>4. CASE DatabaseFails(r)
    BY <1>4 DEF DatabaseFails, Commits, Typed, TypeOK
  <1> QED BY <1>1, <1>2, <1>3, <1>4 DEF RequestStep

LEMMA StepFlags ==
  ASSUME TypeOK, [Next]_vars
  PROVE  TypeFlags'
  <1>1. active \in BOOLEAN /\ deleted \in BOOLEAN /\ denies \in [Requests -> BOOLEAN]
    BY DEF TypeOK
  <1>2. ASSUME NEW r \in Requests, NEW b \in BOOLEAN PROVE [denies EXCEPT ![r] = b] \in [Requests -> BOOLEAN]
    BY <1>1
  <1>3. ASSUME NEW r \in Requests, RequestStep(r)
        PROVE  denies' \in [Requests -> BOOLEAN]
    <2>1. \/ denies' = denies
          \/ \E b \in BOOLEAN : denies' = [denies EXCEPT ![r] = b]
      <3>1. ASSUME NEW c, Logout(r, c)
            PROVE  denies' = denies \/ \E b \in BOOLEAN : denies' = [denies EXCEPT ![r] = b]
        <4>1. (c \notin denied) \in BOOLEAN
          OBVIOUS
        <4> QED BY <3>1, <4>1, Zenon DEF Logout
      <3>2. ASSUME SelectAll(r)
            PROVE  \E b \in BOOLEAN : denies' = [denies EXCEPT ![r] = b]
        <4> DEFINE b == (kind[r] \in {"logout_all", "delete"} /\ cred[r] \notin denied)
        <4>1. b \in BOOLEAN
          OBVIOUS
        <4>2. denies' = [denies EXCEPT ![r] = b]
          BY <3>2 DEF SelectAll
        <4> HIDE DEF b
        <4> QED BY <4>1, <4>2
      <3>3. CASE Arrive(r)
        <4>1. CASE Login(r) \/ Reset(r)
          BY <4>1, Zenon DEF Login, Reset
        <4>2. ASSUME NEW c, \/ Refresh(r, c) \/ RevokeSession(r, c)
                            \/ \E k \in Kinds : RevokeAll(r, k, c)
              PROVE  denies' = denies
          BY <4>2, Zenon DEF Refresh, RevokeSession, RevokeAll
        <4> QED BY <3>1, <3>3, <4>1, <4>2, Zenon DEF Arrive
      <3>4. CASE LoadUser(r) \/ IssueTokens(r) \/ SelectSession(r) \/ Commit(r) \/ DatabaseFails(r)
        BY <3>4, Zenon DEF LoadUser, IssueTokens, SelectSession, Commit, DatabaseFails
      <3> QED BY <1>3, <3>2, <3>3, <3>4, Zenon DEF RequestStep
    <2> QED BY <1>1, <1>2, <2>1, Zenon
  <1>4. ASSUME NEW r \in Requests, RequestStep(r)
        PROVE  active' \in BOOLEAN /\ deleted' \in BOOLEAN
    <2> USE DEF userVars
    <2>1. CASE Arrive(r)
      <3>1. CASE Login(r) \/ Reset(r)
        BY <1>1, <3>1, Zenon DEF Login, Reset
      <3>2. ASSUME NEW c, \/ Refresh(r, c) \/ Logout(r, c) \/ RevokeSession(r, c)
                          \/ \E k \in Kinds : RevokeAll(r, k, c)
            PROVE  active' = active /\ deleted' = deleted
        BY <3>2, Zenon DEF Refresh, Logout, RevokeSession, RevokeAll
      <3> QED BY <1>1, <2>1, <3>1, <3>2, Zenon DEF Arrive
    <2>2. CASE LoadUser(r) \/ IssueTokens(r) \/ SelectSession(r) \/ SelectAll(r)
      BY <1>1, <2>2, Zenon DEF LoadUser, IssueTokens, SelectSession, SelectAll
    <2>3. Apply(r) => active' \in BOOLEAN /\ deleted' \in BOOLEAN
      BY Zenon DEF Apply
    <2>4. ApplyNothing => active' \in BOOLEAN /\ deleted' \in BOOLEAN
      BY <1>1, Zenon DEF ApplyNothing
    <2>5. CASE Commit(r) \/ DatabaseFails(r)
      BY <2>3, <2>4, <2>5, Zenon DEF Commit, DatabaseFails
    <2> QED BY <1>4, <2>1, <2>2, <2>5, Zenon DEF RequestStep
  <1>5. CASE SetActive
    <2>1. active' \in BOOLEAN
      BY <1>5, Zenon DEF SetActive
    <2>2. deleted' = deleted /\ denies' = denies
      BY <1>5 DEF SetActive, requestVars
    <2> QED BY <1>1, <2>1, <2>2, Zenon DEF TypeFlags
  <1>6. CASE UNCHANGED vars
    <2>1. active' = active /\ deleted' = deleted /\ denies' = denies
      BY <1>6 DEF vars, requestVars, userVars
    <2> QED BY <1>1, <2>1, Zenon DEF TypeFlags
  <1> QED BY <1>3, <1>4, <1>5, <1>6, Steps, Zenon DEF TypeFlags

(* What a listing adds to the sessions a request revokes. *)
LEMMA ExcessSeen ==
  ASSUME NEW seen
  PROVE  Excess(seen) \subseteq seen
  BY DEF Excess

LEMMA StepData ==
  ASSUME Typed, [Next]_vars
  PROVE  TypeData'
  <1>a. TypeData
    BY TypeParts DEF Typed
  <1> USE DEF TypeData, userVars
  <1>c. clock + 1 \in Nat /\ clock + 1 \in 0..(clock + 1) /\ 0..clock \subseteq 0..(clock + 1)
    BY <1>a
  <1>1. ASSUME NEW r \in Requests, Arrive(r)
        PROVE  TypeData'
    <2>1. CASE Login(r)
      BY <1>a, <2>1 DEF Login, PCs, Kinds, Outcomes
    <2>2. CASE Reset(r)
      <3>1. /\ pc' \in [Requests -> PCs] /\ kind' \in [Requests -> Kinds] /\ outcome' \in [Requests -> Outcomes]
            /\ cred' \in [Requests -> rows \cup {None}]
        BY <1>a, <2>2 DEF Reset, PCs, Kinds, Outcomes
      <3>2. clock' \in Nat /\ clock <= clock' /\ stamp' \in [Requests -> 0..clock']
        BY <1>a, <1>c, <2>2 DEF Reset
      <3>3. UNCHANGED <<stale, created, rows, revoked, denied, revokedAt, overlapped>>
        BY <2>2 DEF Reset
      <3> QED BY <1>a, <3>1, <3>2, <3>3
    <2>3. ASSUME NEW c \in rows, Refresh(r, c)
          PROVE  TypeData'
      <3>1. {c} \cap Live \in SUBSET Requests
        BY <1>a DEF Live
      <3>2. stale' \in [Requests -> SUBSET Requests]
        BY <1>a, <2>3, <3>1 DEF Refresh
      <3> QED BY <1>a, <2>3, <3>2 DEF Refresh, PCs, Kinds, Outcomes
    <2>4. ASSUME NEW c \in rows, Logout(r, c)
          PROVE  TypeData'
      <3>1. stale' \in [Requests -> SUBSET Requests]
        BY <1>a, <2>4 DEF Logout
      <3>2. outcome' \in [Requests -> Outcomes] /\ pc' \in [Requests -> PCs]
        BY <1>a, <2>4 DEF Logout, Outcomes, PCs
      <3> QED BY <1>a, <2>4, <3>1, <3>2 DEF Logout, Kinds
    <2>5. ASSUME NEW c \in rows, RevokeSession(r, c)
          PROVE  TypeData'
      BY <1>a, <2>5 DEF RevokeSession, PCs, Kinds, Outcomes
    <2>6. ASSUME NEW c \in rows, NEW k \in {"logout_all", "delete"}, RevokeAll(r, k, c)
          PROVE  TypeData'
      <3>1. /\ pc' \in [Requests -> PCs] /\ kind' \in [Requests -> Kinds] /\ outcome' \in [Requests -> Outcomes]
            /\ cred' \in [Requests -> rows \cup {None}]
        BY <1>a, <2>6 DEF RevokeAll, PCs, Kinds, Outcomes
      <3>2. clock' \in Nat /\ clock <= clock' /\ stamp' \in [Requests -> 0..clock']
        BY <1>a, <1>c, <2>6 DEF RevokeAll
      <3>3. UNCHANGED <<stale, created, rows, revoked, denied, revokedAt, overlapped>>
        BY <2>6 DEF RevokeAll
      <3> QED BY <1>a, <3>1, <3>2, <3>3
    <2> QED BY <1>1, <2>1, <2>2, <2>3, <2>4, <2>5, <2>6, Arrivals
  <1>2. ASSUME NEW r \in Requests, LoadUser(r)
        PROVE  TypeData'
    <2>1. /\ pc' \in [Requests -> PCs] /\ outcome' \in [Requests -> Outcomes]
      BY <1>a, <1>2 DEF LoadUser, PCs, Outcomes
    <2>2. clock' \in Nat /\ clock <= clock' /\ stamp' \in [Requests -> 0..clock']
      BY <1>a, <1>c, <1>2 DEF LoadUser
    <2>3. UNCHANGED <<kind, cred, stale, created, rows, revoked, denied, revokedAt, overlapped>>
      BY <1>2 DEF LoadUser
    <2> QED BY <1>a, <2>1, <2>2, <2>3
  <1>3. ASSUME NEW r \in Requests, IssueTokens(r)
        PROVE  TypeData'
    <2>1. /\ pc' \in [Requests -> PCs] /\ outcome' \in [Requests -> Outcomes]
      BY <1>a, <1>3 DEF IssueTokens, PCs, Outcomes
    <2>2. clock' \in Nat /\ clock <= clock' /\ created' \in [Requests -> 0..clock']
      BY <1>a, <1>c, <1>3 DEF IssueTokens
    <2>3. UNCHANGED <<kind, cred, stamp, rows, revoked, denied, revokedAt, overlapped>>
      BY <1>3 DEF IssueTokens
    <2>4. stale' \in [Requests -> SUBSET Requests]
      <3>1. PICK seen : seen = (Live \ stale[r]) \cup {r} /\ stale' = [stale EXCEPT ![r] = @ \cup Excess(seen)]
        BY <1>3 DEF IssueTokens
      <3>2. Excess(seen) \subseteq Requests
        BY <1>a, <3>1, ExcessSeen DEF Live
      <3> QED BY <1>a, <3>1, <3>2
    <2> QED BY <1>a, <2>1, <2>2, <2>3, <2>4
  <1>4. ASSUME NEW r \in Requests, SelectSession(r)
        PROVE  TypeData'
    <2>1. stale' \in [Requests -> SUBSET Requests]
      BY <1>a, <1>4 DEF SelectSession, Live
    <2> QED BY <1>a, <1>4, <2>1 DEF SelectSession, PCs, Outcomes
  <1>5. ASSUME NEW r \in Requests, SelectAll(r)
        PROVE  TypeData'
    <2>1. stale' \in [Requests -> SUBSET Requests]
      BY <1>a, <1>5 DEF SelectAll, Live
    <2>2. pc' \in [Requests -> PCs] /\ outcome' \in [Requests -> Outcomes]
      BY <1>a, <1>5 DEF SelectAll, PCs, Outcomes
    <2> QED BY <1>a, <1>5, <2>1, <2>2 DEF SelectAll
  <1>6. ASSUME NEW r \in Requests, Commits(r), outcome' \in [Requests -> Outcomes], pc' \in [Requests -> PCs]
        PROVE  TypeData'
    <2>1. stale[r] \subseteq rows' /\ (denies[r] => cred[r] \in rows')
      BY <1>6 DEF Commits, Apply, Typed, Stage, StageOf
    <2>2. rows \subseteq rows' /\ rows' \subseteq Requests /\ revoked' \subseteq rows' /\ denied' \subseteq rows'
      BY <1>a, <1>6, <2>1 DEF Commits, Apply
    <2>3. overlapped' \subseteq Requests
      BY <1>a, <1>6 DEF Commits, Apply, RevokingAll
    <2>4. revokedAt' \in 0..clock
      BY <1>a, <1>6 DEF Commits, Apply
    <2> QED BY <1>a, <1>6, <2>2, <2>3, <2>4 DEF Commits
  <1>7. ASSUME NEW r \in Requests, Commit(r) \/ DatabaseFails(r)
        PROVE  TypeData'
    <2>1. outcome' \in [Requests -> Outcomes] /\ pc' \in [Requests -> PCs]
      BY <1>a, <1>7 DEF Commit, DatabaseFails, Outcomes, PCs
    <2>2. CASE UNCHANGED <<rows, revoked, denied, revokedAt, active, deleted, overlapped>>
      BY <1>a, <1>7, <2>1, <2>2 DEF Commit, DatabaseFails
    <2> QED BY <1>6, <1>7, <2>1, <2>2, Effects DEF RequestStep
  <1>8. CASE SetActive
    BY <1>a, <1>8 DEF SetActive, requestVars
  <1>9. CASE UNCHANGED vars
    BY <1>a, <1>9 DEF vars, requestVars
  <1> QED BY <1>1, <1>2, <1>3, <1>4, <1>5, <1>7, <1>8, <1>9, Steps DEF RequestStep

LEMMA StepTypes ==
  ASSUME Typed, [Next]_vars
  PROVE  TypeOK'
  <1>1. TypeData' /\ TypeFlags'
    BY StepData, StepFlags DEF Typed
  <1> QED BY <1>1 DEF TypeOK, TypeData, TypeFlags

-----------------------------------------------------------------------------
(* Where requests are. *)

LEMMA StageKept ==
  ASSUME NEW q \in Requests, StageOf(q), Kept(q),
         rows \subseteq rows', revoked \subseteq revoked', q \in rows' => q \in rows
  PROVE  StageOf(q)'
  BY DEF StageOf, Kept

LEMMA ArriveStage ==
  ASSUME Typed, NEW r \in Requests, Arrive(r)
  PROVE  StageOf(r)'
  <1>1. /\ created[r] = 0 /\ r \notin rows /\ ~denies[r] /\ stale[r] = {} /\ stamp[r] = 0
        /\ pc[r] = "idle" /\ UNCHANGED <<created, rows, revoked>>
        /\ clock + 1 # 0 /\ r \in DOMAIN stamp
    <2>1. pc[r] = "idle" /\ UNCHANGED <<created, rows, revoked>>
      BY DEF Arrive, Login, Reset, Refresh, Logout, RevokeSession, RevokeAll, userVars
    <2> QED BY <2>1 DEF Typed, TypeOK, Stage, StageOf
  <1> USE DEF Typed, TypeOK
  <1>2. CASE Login(r)
    <2>1. /\ kind'[r] = "login" /\ pc'[r] \in {"issue", "done"} /\ stale'[r] = stale[r]
          /\ denies' = denies /\ stamp'[r] = stamp[r]
      BY <1>2 DEF Login
    <2> QED BY <1>1, <2>1 DEF StageOf
  <1>3. CASE Reset(r)
    <2>1. /\ kind'[r] = "reset" /\ stale'[r] = stale[r] /\ denies' = denies
          /\ pc'[r] = "select" \/ (pc'[r] = "done" /\ stamp'[r] = stamp[r])
      BY <1>3 DEF Reset
    <2> QED BY <1>1, <2>1 DEF StageOf
  <1>4. ASSUME NEW c \in rows, Refresh(r, c)
        PROVE  StageOf(r)'
    <2>1. /\ kind'[r] = "refresh" /\ pc'[r] = "user" /\ cred'[r] = c /\ denies' = denies
          /\ stamp'[r] = stamp[r] /\ stale'[r] = {c} \cap Live
      BY <1>4 DEF Refresh
    <2> QED BY <1>1, <2>1 DEF StageOf, Live
  <1>5. ASSUME NEW c \in rows, Logout(r, c)
        PROVE  StageOf(r)'
    <2>1. /\ kind'[r] = "logout" /\ pc'[r] \in {"commit", "done"} /\ cred'[r] = c
          /\ stamp'[r] = stamp[r] /\ stale'[r] \subseteq rows
      BY <1>1, <1>5 DEF Logout
    <2> QED BY <1>1, <2>1 DEF StageOf
  <1>6. ASSUME NEW c \in rows, RevokeSession(r, c)
        PROVE  StageOf(r)'
    <2>1. /\ kind'[r] = "revoke_session" /\ pc'[r] \in {"select", "done"} /\ cred'[r] = c
          /\ stamp'[r] = stamp[r] /\ stale'[r] = stale[r] /\ denies' = denies
      BY <1>6 DEF RevokeSession
    <2> QED BY <1>1, <2>1 DEF StageOf
  <1>7. ASSUME NEW c \in rows, NEW k \in {"logout_all", "delete"}, RevokeAll(r, k, c)
        PROVE  StageOf(r)'
    <2>1. /\ kind'[r] = k /\ cred'[r] = c /\ stale'[r] = stale[r] /\ denies' = denies
          /\ pc'[r] = "select" \/ (pc'[r] = "done" /\ stamp'[r] = stamp[r])
      BY <1>7 DEF RevokeAll
    <2> QED BY <1>1, <2>1 DEF StageOf
  <1> QED BY <1>2, <1>3, <1>4, <1>5, <1>6, <1>7, Arrivals

(* A request that has issued tokens. *)
LEMMA Issued ==
  ASSUME Typed, NEW r \in Requests, IssueTokens(r)
  PROVE  /\ pc[r] = "issue" /\ created[r] = 0 /\ stamp[r] = 0 /\ r \notin rows
         /\ pc'[r] = "commit" /\ created'[r] = clock + 1 /\ clock' = clock + 1
         /\ \A q \in Requests \ {r} : created'[q] = created[q]
         /\ stale'[r] = stale[r] \cup Excess((Live \ stale[r]) \cup {r})
         /\ UNCHANGED <<kind, cred, stamp, denies, rows, revoked, denied>>
  <1>1. pc[r] = "issue" /\ r \in DOMAIN pc /\ r \in DOMAIN created /\ r \in DOMAIN stale
    BY DEF IssueTokens, Typed, TypeOK
  <1>2. pc'[r] = "commit" /\ created' = [created EXCEPT ![r] = clock + 1] /\ clock' = clock + 1
    BY <1>1 DEF IssueTokens
  <1>3. stale'[r] = stale[r] \cup Excess((Live \ stale[r]) \cup {r})
    BY <1>1 DEF IssueTokens
  <1>4. created[r] = 0 /\ stamp[r] = 0 /\ r \notin rows
    BY <1>1 DEF Typed, Stage, StageOf
  <1>5. UNCHANGED <<kind, cred, stamp, denies, rows, revoked, denied>>
    BY DEF IssueTokens
  <1>6. \A q \in Requests \ {r} : created'[q] = created[q]
    BY <1>2 DEF Typed, TypeOK
  <1> QED BY <1>1, <1>2, <1>3, <1>4, <1>5, <1>6

LEMMA StepStage ==
  ASSUME Typed, [Next]_vars
  PROVE  Stage'
  <1>a. \A q \in Requests : StageOf(q)
    BY DEF Typed, Stage
  <1>b. ASSUME NEW r \in Requests, RequestStep(r)
        PROVE  /\ rows \subseteq rows' /\ revoked \subseteq revoked'
               /\ rows' \subseteq rows \cup {r}
               /\ ~Commits(r) => rows' = rows /\ revoked' = revoked
    BY <1>b, Effects DEF Commits, Apply
  <1>1. ASSUME NEW r \in Requests, RequestStep(r), StageOf(r)'
        PROVE  Stage'
    <2> SUFFICES ASSUME NEW q \in Requests \ {r} PROVE StageOf(q)'
      BY <1>1 DEF Stage
    <2> QED BY <1>a, <1>b, <1>1, OthersKept, StageKept
  <1>2. ASSUME NEW r \in Requests, LoadUser(r)
        PROVE  StageOf(r)'
    <2>1. /\ pc[r] = "user" /\ UNCHANGED <<kind, cred, stale, denies, created, rows, revoked>>
          /\ \/ pc'[r] = "issue" /\ stale[r] # {} /\ stamp'[r] = stamp[r]
             \/ pc'[r] \in {"commit", "done"} /\ stamp'[r] = stamp[r]
             \/ pc'[r] = "select"
      BY <1>2 DEF LoadUser, Typed, TypeOK
    <2>2. StageOf(r) /\ created[r] = 0 /\ stamp[r] = 0 /\ r \notin rows
      BY <1>a, <2>1 DEF StageOf
    <2> QED BY <2>1, <2>2 DEF StageOf
  <1>3. ASSUME NEW r \in Requests, IssueTokens(r)
        PROVE  StageOf(r)'
    <2>1. Excess((Live \ stale[r]) \cup {r}) \subseteq rows \cup {r}
      BY ExcessSeen DEF Live
    <2>2. clock + 1 # 0
      BY DEF Typed, TypeOK
    <2> QED BY <1>a, <1>3, <2>1, <2>2, Issued DEF StageOf
  <1>4. ASSUME NEW r \in Requests, SelectSession(r) \/ SelectAll(r)
        PROVE  StageOf(r)'
    <2>1. /\ pc[r] = "select" /\ pc'[r] \in {"commit", "done"}
          /\ stale'[r] \subseteq rows \/ stale'[r] = stale[r]
          /\ UNCHANGED <<kind, cred, stamp, created, rows, revoked>>
      BY <1>4 DEF SelectSession, SelectAll, Typed, TypeOK, Live
    <2>2. denies'[r] => denies[r] \/ kind[r] \in {"logout_all", "delete"}
      BY <1>4 DEF SelectSession, SelectAll, Typed, TypeOK
    <2>3. StageOf(r) /\ created[r] = 0 /\ r \notin rows
      BY <1>a, <2>1 DEF StageOf
    <2> QED BY <2>1, <2>2, <2>3 DEF StageOf
  <1>5. ASSUME NEW r \in Requests, Commit(r) \/ DatabaseFails(r)
        PROVE  StageOf(r)'
    <2>1. /\ pc[r] \notin {"idle", "done"} /\ pc'[r] = "done"
          /\ UNCHANGED <<kind, cred, stamp, stale, denies, created>>
      BY <1>5 DEF Commit, DatabaseFails, Running, Typed, TypeOK
    <2>2. StageOf(r) /\ r \notin rows
      BY <1>a, <2>1 DEF StageOf
    <2>3. r \in rows' => created[r] # 0 /\ stale[r] \subseteq revoked'
      BY <1>5, <2>2, Effects DEF RequestStep, Commits, Apply
    <2>4. rows \subseteq rows'
      BY <1>5, <1>b DEF RequestStep
    <2> QED BY <2>1, <2>2, <2>3, <2>4 DEF StageOf
  <1>6. ASSUME NEW r \in Requests, RequestStep(r)
        PROVE  Stage'
    <2>1. StageOf(r)'
      BY <1>2, <1>3, <1>4, <1>5, <1>6, ArriveStage DEF RequestStep
    <2> QED BY <1>1, <1>6, <2>1
  <1>7. CASE SetActive \/ UNCHANGED vars
    <2>1. \A q \in Requests : Kept(q)
      BY <1>7 DEF Kept, SetActive, vars, requestVars
    <2>2. rows' = rows /\ revoked' = revoked
      BY <1>7 DEF SetActive, vars
    <2> QED BY <1>a, <2>1, <2>2, StageKept DEF Stage
  <1> QED BY <1>6, <1>7, Steps

-----------------------------------------------------------------------------
(* Threads. *)

LEMMA Flight ==
  /\ IsFiniteSet(InFlight) /\ Cardinality(InFlight) \in Nat
  /\ IsFiniteSet(InFlight') /\ Cardinality(InFlight') \in Nat
  <1>1. InFlight \subseteq Requests /\ InFlight' \subseteq Requests
    BY DEF InFlight
  <1> QED BY <1>1, Bounds, FS_Subset, FS_CardinalityType

LEMMA WhereItWas ==
  ASSUME NEW r \in Requests, RequestStep(r), ~Arrive(r)
  PROVE  Running(r)
  BY DEF RequestStep, LoadUser, IssueTokens, SelectSession, SelectAll, Commit, DatabaseFails, Running

LEMMA StepBound ==
  ASSUME Typed, ThreadsBound, [Next]_vars
  PROVE  ThreadsBound'
  <1>1. ASSUME InFlight' \subseteq InFlight PROVE ThreadsBound'
    <2>1. Cardinality(InFlight') <= Cardinality(InFlight)
      BY <1>1, Flight, FS_Subset
    <2> QED BY <2>1, Flight, Bounds DEF ThreadsBound
  <1>2. ASSUME NEW r \in Requests, RequestStep(r)
        PROVE  ThreadsBound'
    <2>1. \A q \in Requests \ {r} : pc'[q] = pc[q]
      BY <1>2, OthersKept DEF Kept
    <2>2. CASE Arrive(r)
      <3>1. Cardinality(InFlight) < Threads
        BY <2>2 DEF Arrive, Login, Reset, Refresh, Logout, RevokeSession, RevokeAll
      <3>2. InFlight' \subseteq InFlight \cup {r}
        BY <2>1 DEF InFlight, Running
      <3>3. /\ IsFiniteSet(InFlight \cup {r})
            /\ \/ Cardinality(InFlight \cup {r}) = Cardinality(InFlight)
               \/ Cardinality(InFlight \cup {r}) = Cardinality(InFlight) + 1
        BY Flight, FS_AddElement
      <3>4. Cardinality(InFlight') <= Cardinality(InFlight \cup {r})
        BY <3>2, <3>3, FS_Subset
      <3> QED BY <3>1, <3>3, <3>4, Flight, Bounds DEF ThreadsBound
    <2>3. CASE ~Arrive(r)
      <3>1. r \in InFlight
        BY <1>2, <2>3, WhereItWas DEF InFlight
      <3>2. InFlight' \subseteq InFlight
        BY <2>1, <3>1 DEF InFlight, Running
      <3> QED BY <1>1, <3>2
    <2> QED BY <2>2, <2>3
  <1>3. CASE SetActive \/ UNCHANGED vars
    BY <1>1, <1>3 DEF SetActive, vars, requestVars, InFlight, Running
  <1> QED BY <1>2, <1>3, Steps

-----------------------------------------------------------------------------
(* Exchanges of one token. *)

LEMMA FiniteSides ==
  ASSUME rows \subseteq Requests, NEW c
  PROVE  /\ IsFiniteSet(Successors(c)) /\ Cardinality(Successors(c)) \in Nat
         /\ IsFiniteSet(Exchangers(c)) /\ Cardinality(Exchangers(c)) \in Nat
  <1>1. Exchangers(c) \subseteq Requests /\ Successors(c) \subseteq Requests
    BY DEF Exchangers, Successors, InFlight
  <1> QED BY <1>1, Bounds, FS_Subset, FS_CardinalityType

(* Only a token that is live is taken up. *)
LEMMA TakesUp ==
  ASSUME Typed, NEW r \in Requests, RequestStep(r), NEW c, r \in Exchangers(c)', r \notin Exchangers(c)
  PROVE  c \notin revoked /\ ~Commits(r)
  <1>1. kind'[r] = "refresh" /\ cred'[r] = c /\ c \in stale'[r] /\ pc'[r] \notin {"idle", "done"}
    BY DEF Exchangers, InFlight, Running
  <1>2. ~Commits(r)
    BY <1>1 DEF Commits
  <1>3. kind[r] = "refresh" /\ cred[r] = c /\ c \in stale[r] => ~Running(r)
    BY DEF Exchangers, InFlight
  <1> USE DEF Typed, TypeOK
  <1>4. CASE Arrive(r)
    <2>1. CASE Login(r) \/ Reset(r)
      BY <1>1, <2>1 DEF Login, Reset
    <2>2. ASSUME NEW d \in rows, Refresh(r, d)
          PROVE  c \notin revoked
      BY <1>1, <2>2 DEF Refresh, Live
    <2>3. ASSUME NEW d \in rows, \/ Logout(r, d) \/ RevokeSession(r, d)
                                 \/ \E k \in {"logout_all", "delete"} : RevokeAll(r, k, d)
          PROVE  c \notin revoked
      BY <1>1, <2>3 DEF Logout, RevokeSession, RevokeAll
    <2> QED BY <1>2, <1>4, <2>1, <2>2, <2>3, Arrivals
  <1>5. CASE LoadUser(r)
    BY <1>1, <1>3, <1>5, WhereItWas DEF LoadUser, Running
  <1>6. CASE IssueTokens(r)
    <2>1. kind[r] = "refresh" /\ cred[r] = c /\ pc[r] = "issue"
      BY <1>1, <1>6, Issued
    <2>2. c \in stale[r]
      BY <2>1 DEF Stage, StageOf
    <2> QED BY <1>3, <2>1, <2>2 DEF Running
  <1>7. CASE SelectSession(r)
    BY <1>1, <1>7 DEF SelectSession
  <1>8. CASE SelectAll(r)
    BY <1>1, <1>2, <1>8 DEF SelectAll, Live
  <1>9. CASE Commit(r) \/ DatabaseFails(r)
    BY <1>1, <1>9 DEF Commit, DatabaseFails
  <1> QED BY <1>2, <1>4, <1>5, <1>6, <1>7, <1>8, <1>9 DEF RequestStep

LEMMA StepExchanges ==
  ASSUME Typed, Typed', ThreadsBound', Exchanges, [Next]_vars
  PROVE  Exchanges'
  <1> USE Bounds
  <1>a. rows \subseteq Requests /\ rows' \subseteq Requests
    BY DEF Typed, TypeOK
  <1>p. \A c : /\ IsFiniteSet(Successors(c)') /\ Cardinality(Successors(c)') \in Nat
               /\ IsFiniteSet(Exchangers(c)') /\ Cardinality(Exchangers(c)') \in Nat
    <2>1. \A c : Exchangers(c)' \subseteq Requests /\ Successors(c)' \subseteq Requests
      BY <1>a DEF Exchangers, Successors, InFlight
    <2> QED BY <2>1, FS_Subset, FS_CardinalityType
  <1>1. ASSUME NEW c \in Requests, c \notin revoked' => c \notin revoked,
               Successors(c)' = Successors(c), Exchangers(c)' \subseteq Exchangers(c)
        PROVE  /\ c \notin revoked' => Successors(c)' = {}
               /\ Cardinality(Successors(c)') + Cardinality(Exchangers(c)') <= Threads
    <2>1. Cardinality(Exchangers(c)') <= Cardinality(Exchangers(c))
      BY <1>a, <1>1, FiniteSides, FS_Subset
    <2>2. Cardinality(Successors(c)) \in Nat /\ Cardinality(Exchangers(c)) \in Nat
      BY <1>a, FiniteSides
    <2>3. Cardinality(Successors(c)) + Cardinality(Exchangers(c)) <= Threads /\ (c \notin revoked => Successors(c) = {})
      BY DEF Exchanges
    <2> QED BY <1>p, <1>1, <2>1, <2>2, <2>3
  <1>2. CASE SetActive \/ UNCHANGED vars
    <2>1. UNCHANGED <<pc, kind, cred, stale, rows, revoked>>
      BY <1>2 DEF SetActive, vars, requestVars
    <2> QED BY <2>1 DEF Exchanges, Exchangers, Successors, InFlight, Running
  <1>3. ASSUME NEW r \in Requests, RequestStep(r), NEW c \in Requests
        PROVE  /\ c \notin revoked' => Successors(c)' = {}
               /\ Cardinality(Successors(c)') + Cardinality(Exchangers(c)') <= Threads
    <2>1. \A q \in Requests \ {r} : Kept(q)
      BY <1>3, OthersKept
    <2>2. Exchangers(c)' \subseteq Exchangers(c) \cup {r}
      BY <2>1 DEF Exchangers, InFlight, Running, Kept
    <2>3. Running(r) \/ pc[r] = "idle"
      BY <1>3, WhereItWas DEF Arrive, Login, Reset, Refresh, Logout, RevokeSession, RevokeAll
    <2>4. r \notin rows
      BY <2>3 DEF Running, Typed, Stage, StageOf
    <2>5. CASE Commits(r)
      <3>1. /\ rows' = (IF created[r] # 0 THEN rows \cup {r} ELSE rows) /\ revoked' = revoked \cup stale[r]
            /\ kind' = kind /\ cred' = cred /\ pc'[r] = "done"
        BY <2>5 DEF Commits, Apply
      <3>2. Exchangers(c)' \subseteq Exchangers(c) \ {r}
        BY <2>2, <3>1 DEF Exchangers, InFlight, Running
      <3>3. CASE created[r] # 0 /\ kind[r] = "refresh" /\ cred[r] = c
        <4>1. c \in stale[r] /\ r \in Exchangers(c)
          BY <2>5, <3>3 DEF Typed, Stage, StageOf, Exchangers, InFlight, Running, Commits
        <4>2. Successors(c)' = Successors(c) \cup {r} /\ r \notin Successors(c)
          BY <2>4, <3>1, <3>3 DEF Successors
        <4>3. Cardinality(Successors(c)') = Cardinality(Successors(c)) + 1
          <5>1. IsFiniteSet(Successors(c))
            BY <1>a, FiniteSides
          <5>2. Cardinality(Successors(c) \cup {r}) = Cardinality(Successors(c)) + 1
            BY <4>2, <5>1, FS_AddElement
          <5> QED BY <4>2, <5>2
        <4>4. Cardinality(Exchangers(c)') <= Cardinality(Exchangers(c)) - 1
          <5>1. IsFiniteSet(Exchangers(c))
            BY <1>a, FiniteSides
          <5>2. IsFiniteSet(Exchangers(c) \ {r}) /\ Cardinality(Exchangers(c) \ {r}) = Cardinality(Exchangers(c)) - 1
            BY <4>1, <5>1, FS_RemoveElement
          <5>3. Cardinality(Exchangers(c)') <= Cardinality(Exchangers(c) \ {r})
            BY <3>2, <5>2, FS_Subset
          <5> QED BY <5>2, <5>3
        <4>5. Cardinality(Successors(c)) \in Nat /\ Cardinality(Exchangers(c)) \in Nat
          BY <1>a, FiniteSides
        <4>6. Cardinality(Successors(c)) + Cardinality(Exchangers(c)) <= Threads
          BY DEF Exchanges
        <4> QED BY <1>p, <3>1, <4>1, <4>3, <4>4, <4>5, <4>6
      <3>4. CASE ~(created[r] # 0 /\ kind[r] = "refresh" /\ cred[r] = c)
        <4>1. Successors(c)' = Successors(c)
          BY <3>1, <3>4, <2>4 DEF Successors
        <4> QED BY <1>1, <3>1, <3>2, <4>1
      <3> QED BY <3>3, <3>4
    <2>6. CASE ~Commits(r)
      <3>1. UNCHANGED <<rows, revoked>>
        BY <1>3, <2>6, Effects
      <3>2. Successors(c)' = Successors(c)
        BY <1>a, <2>1, <2>4, <3>1 DEF Successors, Kept
      <3>3. CASE r \in Exchangers(c)' /\ r \notin Exchangers(c)
        <4>1. Successors(c)' = {}
          BY <1>3, <3>2, <3>3, TakesUp DEF Exchanges
        <4>2. Exchangers(c)' \subseteq InFlight'
          BY DEF Exchangers
        <4>3. Cardinality(Exchangers(c)') <= Threads
          <5>1. Cardinality(Exchangers(c)') <= Cardinality(InFlight')
            BY <4>2, Flight, FS_Subset
          <5> QED BY <1>p, <5>1, Flight DEF ThreadsBound
        <4>4. Cardinality(Successors(c)') = 0
          BY <4>1, FS_EmptySet
        <4> QED BY <1>p, <4>1, <4>3, <4>4
      <3>4. CASE ~(r \in Exchangers(c)' /\ r \notin Exchangers(c))
        <4>1. Exchangers(c)' \subseteq Exchangers(c)
          BY <2>2, <3>4
        <4> QED BY <1>1, <3>1, <3>2, <4>1
      <3> QED BY <3>3, <3>4
    <2> QED BY <2>5, <2>6
  <1>4. ASSUME NEW r \in Requests, RequestStep(r)
        PROVE  Exchanges'
    BY <1>3, <1>4 DEF Exchanges
  <1> QED BY <1>2, <1>4, Steps

-----------------------------------------------------------------------------
(* Revocations of everything. *)

(* What is about to revoke everything has just taken the time, or had before. *)
LEMMA StampStep ==
  ASSUME Typed, NEW r \in Requests, RequestStep(r), stamp'[r] # 0, pc'[r] \in {"select", "commit"}
  PROVE  (pc[r] \in {"select", "commit"} /\ stamp'[r] = stamp[r]) \/ stamp'[r] = clock + 1
  <1> USE DEF Typed, TypeOK
  <1>1. \/ stamp'[r] = stamp[r]
        \/ stamp'[r] = clock + 1
    BY DEF RequestStep, Arrive, Login, Reset, Refresh, Logout, RevokeSession, RevokeAll, LoadUser,
           IssueTokens, SelectSession, SelectAll, Commit, DatabaseFails
  <1>2. pc[r] # "done"
    <2>1. CASE Arrive(r)
      BY <2>1 DEF Arrive, Login, Reset, Refresh, Logout, RevokeSession, RevokeAll
    <2> QED BY <2>1, WhereItWas DEF Running
  <1>3. CASE stamp'[r] = stamp[r]
    <2>1. StageOf(r)
      BY DEF Stage
    <2> QED BY <1>2, <1>3, <2>1 DEF StageOf
  <1> QED BY <1>1, <1>3

(* Whoever has revoked everything has committed. *)
LEMMA RevokesAtCommit ==
  ASSUME Typed, NEW r \in Requests, RequestStep(r), RevokedAll(r)'
  PROVE  Commits(r)
  <1>1. pc'[r] = "done" /\ stamp'[r] # 0 /\ outcome'[r] # "error"
    BY DEF RevokedAll
  <1>2. StageOf(r) /\ r \in DOMAIN pc /\ r \in DOMAIN outcome /\ r \in DOMAIN kind /\ r \in DOMAIN stamp
    BY DEF Typed, TypeOK, Stage
  <1>3. CASE Arrive(r)
    <2>1. stamp[r] = 0
      BY <1>2, <1>3 DEF StageOf, Arrive, Login, Reset, Refresh, Logout, RevokeSession, RevokeAll
    <2>2. CASE Login(r) \/ Reset(r)
      BY <1>1, <1>2, <2>1, <2>2 DEF Login, Reset
    <2>3. ASSUME NEW c \in rows, \/ Refresh(r, c) \/ Logout(r, c) \/ RevokeSession(r, c)
                                 \/ \E k \in {"logout_all", "delete"} : RevokeAll(r, k, c)
          PROVE  FALSE
      BY <1>1, <1>2, <2>1, <2>3 DEF Refresh, Logout, RevokeSession, RevokeAll
    <2> QED BY <1>1, <1>2, <1>3, <2>2, <2>3, Arrivals
  <1>4. CASE LoadUser(r)
    BY <1>1, <1>2, <1>4 DEF LoadUser, StageOf
  <1>5. CASE IssueTokens(r) \/ SelectAll(r)
    BY <1>1, <1>2, <1>5 DEF IssueTokens, SelectAll
  <1>6. CASE SelectSession(r)
    BY <1>1, <1>2, <1>6 DEF SelectSession, StageOf
  <1>7. CASE Commit(r)
    BY <1>1, <1>2, <1>7 DEF Commit, Commits
  <1>8. CASE DatabaseFails(r)
    BY <1>1, <1>2, <1>8 DEF DatabaseFails
  <1> QED BY <1>3, <1>4, <1>5, <1>6, <1>7, <1>8 DEF RequestStep

LEMMA StepRevocations ==
  ASSUME Typed, Typed', Revocations, [Next]_vars
  PROVE  Revocations'
  <1>a. /\ clock \in Nat /\ revokedAt \in Nat /\ revokedAt <= clock
        /\ \A q \in Requests : stamp[q] \in Nat /\ stamp[q] <= clock
    BY DEF Typed, TypeOK
  <1>1. CASE SetActive \/ UNCHANGED vars
    BY <1>1 DEF SetActive, vars, requestVars, userVars, Revocations, RevokedAll
  <1>2. ASSUME NEW r \in Requests, RequestStep(r), NEW x \in Requests,
               RevokedAll(x)', x \notin overlapped'
        PROVE  /\ stamp'[x] <= revokedAt'
               /\ \A q \in Requests : pc'[q] \in {"select", "commit"} /\ stamp'[q] # 0 => stamp'[x] < stamp'[q]
    <2>1. \A q \in Requests \ {r} : Kept(q)
      BY <1>2, OthersKept
    <2>2. CASE x = r
      <3>1. Commits(r) /\ stamp'[r] # 0
        BY <1>2, <2>2, RevokesAtCommit DEF RevokedAll
      <3>2. revokedAt' = stamp[r] /\ stamp' = stamp /\ pc'[r] = "done" /\ RevokingAll(r) = {}
        BY <1>2, <2>2, <3>1 DEF Commits, Apply
      <3>3. ASSUME NEW q \in Requests PROVE ~(pc'[q] \in {"select", "commit"} /\ stamp'[q] # 0)
        BY <2>1, <3>2 DEF RevokingAll, Kept
      <3> QED BY <1>a, <2>2, <3>2, <3>3
    <2>3. CASE x # r
      <3>1. RevokedAll(x) /\ stamp'[x] = stamp[x]
        BY <1>2, <2>1, <2>3 DEF RevokedAll, Kept
      <3>2. overlapped \subseteq overlapped'
        BY <1>2, Effects DEF Commits, Apply
      <3>3. /\ stamp[x] <= revokedAt
            /\ \A q \in Requests : pc[q] \in {"select", "commit"} /\ stamp[q] # 0 => stamp[x] < stamp[q]
        BY <1>2, <3>1, <3>2 DEF Revocations
      <3>4. stamp[x] <= revokedAt'
        <4>1. CASE Commits(r)
          BY <1>a, <3>3, <4>1 DEF Commits, Apply
        <4>2. CASE revokedAt' = revokedAt
          BY <3>3, <4>2
        <4> QED BY <1>2, <4>1, <4>2, Effects
      <3>5. ASSUME NEW q \in Requests, pc'[q] \in {"select", "commit"}, stamp'[q] # 0
            PROVE  stamp[x] < stamp'[q]
        <4>1. CASE q = r
          <5>1. (pc[r] \in {"select", "commit"} /\ stamp'[r] = stamp[r]) \/ stamp'[r] = clock + 1
            BY <1>2, <3>5, <4>1, StampStep
          <5> QED BY <1>a, <3>3, <3>5, <4>1, <5>1
        <4>2. CASE q # r
          BY <2>1, <3>3, <3>5, <4>2 DEF Kept
        <4> QED BY <4>1, <4>2
      <3> QED BY <3>1, <3>4, <3>5
    <2> QED BY <2>2, <2>3
  <1>3. ASSUME NEW r \in Requests, RequestStep(r)
        PROVE  Revocations'
    BY <1>2, <1>3 DEF Revocations
  <1> QED BY <1>1, <1>3, Steps

-----------------------------------------------------------------------------
(* The cap on sessions. *)

LEMMA NewSession ==
  ASSUME Typed, NEW r \in Requests, RequestStep(r), ~IssueTokens(r)
  PROVE  created' = created /\ ~Flushed(r)'
  <1>1. created' = created
    BY DEF RequestStep, Arrive, Login, Reset, Refresh, Logout, RevokeSession, RevokeAll, LoadUser,
           SelectSession, SelectAll, Commit, DatabaseFails
  <1>2. StageOf(r) /\ r \in DOMAIN pc
    BY DEF Typed, TypeOK, Stage
  <1>3. CASE Commit(r) \/ DatabaseFails(r)
    BY <1>2, <1>3 DEF Commit, DatabaseFails, Flushed
  <1>4. CASE ~Commit(r) /\ ~DatabaseFails(r)
    <2>1. pc[r] \in {"idle", "user", "select"}
      BY <1>4 DEF RequestStep, Arrive, Login, Reset, Refresh, Logout, RevokeSession, RevokeAll, LoadUser,
                  SelectSession, SelectAll
    <2>2. created[r] = 0
      BY <1>2, <2>1 DEF StageOf
    <2> QED BY <1>1, <2>2 DEF Flushed
  <1> QED BY <1>1, <1>3, <1>4

LEMMA StepDistinct ==
  ASSUME Typed, Distinct, [Next]_vars
  PROVE  Distinct'
  <1>1. CASE SetActive \/ UNCHANGED vars
    BY <1>1 DEF SetActive, vars, Distinct
  <1>2. ASSUME NEW r \in Requests, RequestStep(r), ~IssueTokens(r)
        PROVE  Distinct'
    BY <1>2, NewSession DEF Distinct
  <1>3. ASSUME NEW r \in Requests, IssueTokens(r)
        PROVE  Distinct'
    <2>1. created'[r] = clock + 1 /\ \A q \in Requests \ {r} : created'[q] = created[q]
      BY <1>3, Issued
    <2>2. \A q \in Requests : created[q] # clock + 1
      BY DEF Typed, TypeOK
    <2> QED BY <2>1, <2>2 DEF Distinct
  <1> QED BY <1>1, <1>2, <1>3, Steps

(* Of some requests one has the least number. *)
LEMMA Least ==
  ASSUME NEW S, S # {}, NEW f, \A s \in S : f[s] \in Nat
  PROVE  \E m \in S : \A s \in S : f[m] <= f[s]
  <1> DEFINE T == {f[s] : s \in S}
             R == OpToRel(<, Nat)
  <1>1. T \subseteq Nat /\ T # {}
    OBVIOUS
  <1>2. IsWellFoundedOn(R, Nat)
    BY NatLessThanWellFounded
  <1>3. PICK x \in T : \A y \in T : ~(<<y, x>> \in R)
    <2> HIDE DEF T, R
    <2> QED BY <1>1, <1>2, WFMin
  <1>4. \A y \in T : ~(y < x)
    BY <1>1, <1>3 DEF OpToRel
  <1>5. PICK m \in S : x = f[m]
    OBVIOUS
  <1>6. ASSUME NEW s \in S PROVE f[m] <= f[s]
    <2>1. ~(f[s] < f[m]) /\ f[s] \in Nat /\ f[m] \in Nat
      BY <1>4, <1>5
    <2> QED BY <2>1
  <1> QED BY <1>6

(* Those that have fewer than n others after them are at most n.              *)
LEMMA Newest ==
  ASSUME NEW S, IsFiniteSet(S), NEW f, \A s \in S : f[s] \in Nat,
         \A s, t \in S : f[s] = f[t] => s = t,
         NEW n \in Nat,
         NEW K, K \subseteq S, \A s \in K : ~(Cardinality({t \in S : f[t] > f[s]}) >= n)
  PROVE  IsFiniteSet(K) /\ Cardinality(K) \in Nat /\ Cardinality(K) <= n
  <1>1. IsFiniteSet(K) /\ Cardinality(K) \in Nat
    BY FS_Subset, FS_CardinalityType
  <1>2. CASE K = {}
    <2>1. Cardinality({}) = 0
      BY FS_EmptySet
    <2> QED BY <1>1, <1>2, <2>1
  <1>3. CASE K # {}
    <2>1. \A s \in K : f[s] \in Nat
      OBVIOUS
    <2>2. PICK m \in K : \A s \in K : f[m] <= f[s]
      BY <1>3, <2>1, Least
    <2> DEFINE A == {t \in S : f[t] > f[m]}
    <2>3. K \ {m} \subseteq A
      <3> SUFFICES ASSUME NEW s \in K, s # m PROVE s \in S /\ f[s] > f[m]
        OBVIOUS
      <3>1. f[s] # f[m] /\ f[m] <= f[s] /\ f[s] \in Nat /\ f[m] \in Nat
        BY <2>1, <2>2
      <3> QED BY <3>1
    <2>4. A \subseteq S /\ ~(Cardinality(A) >= n)
      OBVIOUS
    <2> HIDE DEF A
    <2>5. IsFiniteSet(A) /\ Cardinality(A) \in Nat
      BY <2>4, FS_Subset, FS_CardinalityType
    <2>6. Cardinality(K \ {m}) <= Cardinality(A)
      BY <2>3, <2>5, FS_Subset
    <2>7. Cardinality(K \ {m}) = Cardinality(K) - 1
      BY <1>1, FS_RemoveElement
    <2> QED BY <1>1, <2>4, <2>5, <2>6, <2>7
  <1> QED BY <1>2, <1>3

(* What a request that issues tokens will keep, and what is open then.        *)
LEMMA IssueCap ==
  ASSUME Typed, Typed', ThreadsBound', Distinct', NEW r \in Requests, IssueTokens(r)
  PROVE  Cardinality(Beside(r)') <= MaxSessions + Threads - 1
  <1> USE Bounds
  <1> DEFINE seen == (Live \ stale[r]) \cup {r}
             kept == seen \ Excess(seen)
             open == InFlight' \ {r}
  <1>1. /\ pc'[r] = "commit" /\ created'[r] = clock + 1 /\ stale'[r] = stale[r] \cup Excess(seen)
        /\ UNCHANGED <<rows, revoked>> /\ r \notin rows
        /\ \A q \in Requests \ {r} : created'[q] = created[q]
    BY Issued
  <1>2. seen \subseteq Requests /\ IsFiniteSet(seen)
    <2>1. seen \subseteq Requests
      BY DEF Typed, TypeOK, Live
    <2> QED BY <2>1, FS_Subset
  <1>3. \A s \in seen : created'[s] \in Nat /\ created'[s] # 0
    <2>1. \A s \in Live : s \in rows
      BY DEF Live
    <2>2. \A s \in rows : created'[s] # 0
      BY <1>1 DEF Typed, TypeOK, Stage, StageOf
    <2>3. \A s \in Requests : created'[s] \in Nat
      BY DEF Typed, TypeOK
    <2> QED BY <1>1, <1>2, <2>1, <2>2, <2>3 DEF Typed, TypeOK
  <1>4. \A s, t \in seen : created'[s] = created'[t] => s = t
    BY <1>2, <1>3 DEF Distinct
  <1>5. \A s \in kept : ~(Cardinality({t \in seen : created'[t] > created'[s]}) >= MaxSessions)
    <2> HIDE DEF seen
    <2> QED BY DEF Excess
  <1>6. IsFiniteSet(kept) /\ Cardinality(kept) \in Nat /\ Cardinality(kept) <= MaxSessions
    <2>1. kept \subseteq seen
      OBVIOUS
    <2> HIDE DEF seen, kept
    <2> QED BY <1>2, <1>3, <1>4, <1>5, <2>1, Newest
  <1>7. r \in kept
    <2>1. \A t \in seen : ~(created'[t] > created'[r])
      BY <1>1, <1>2 DEF Typed, TypeOK
    <2>2. {t \in seen : created'[t] > created'[r]} = {}
      BY <2>1
    <2>3. Cardinality({}) = 0
      BY FS_EmptySet
    <2>4. r \in seen
      OBVIOUS
    <2> HIDE DEF seen
    <2> QED BY <2>2, <2>3, <2>4 DEF Excess
  <1>8. r \in InFlight'
    BY <1>1 DEF InFlight, Running
  <1>9. /\ IsFiniteSet(open) /\ Cardinality(open) \in Nat
        /\ Cardinality(open) <= Threads - 1
    <2>1. IsFiniteSet(open) /\ Cardinality(open) = Cardinality(InFlight') - 1
      BY <1>8, Flight, FS_RemoveElement
    <2>2. Cardinality(open) \in Nat
      BY <2>1, FS_CardinalityType
    <2> QED BY <2>1, <2>2, Flight DEF ThreadsBound
  <1>10. Beside(r)' \subseteq kept \cup open
    <2> SUFFICES ASSUME NEW t \in Beside(r)' PROVE t \in kept \cup open
      OBVIOUS
    <2>1. CASE t \in (Live \ stale[r])'
      <3>1. t \in seen /\ t \notin Excess(seen)
        BY <1>1, <2>1 DEF Live
      <3> QED BY <3>1
    <2>2. CASE t \in Requests /\ Flushed(t)'
      <3>1. t \in InFlight'
        BY <2>2 DEF Flushed, InFlight, Running
      <3> QED BY <1>7, <3>1
    <2>3. CASE t = r
      BY <1>7, <2>3
    <2> QED BY <2>1, <2>2, <2>3 DEF Beside
  <1> HIDE DEF kept, open
  <1>11. /\ IsFiniteSet(kept \cup open) /\ Cardinality(kept \cup open) <= MaxSessions + Threads - 1
         /\ Cardinality(kept \cup open) \in Nat
    <2>1. /\ IsFiniteSet(kept \cup open)
          /\ Cardinality(kept \cup open) = Cardinality(kept) + Cardinality(open) - Cardinality(kept \cap open)
      BY <1>6, <1>9, FS_Union
    <2>2. kept \cap open \subseteq kept
      OBVIOUS
    <2>3. Cardinality(kept \cap open) \in Nat
      BY <1>6, <2>2, FS_Subset, FS_CardinalityType
    <2> QED BY <1>6, <1>9, <2>1, <2>3, FS_CardinalityType
  <1>12. Cardinality(Beside(r)') \in Nat /\ Cardinality(Beside(r)') <= Cardinality(kept \cup open)
    BY <1>10, <1>11, FS_Subset, FS_CardinalityType
  <1> QED BY <1>11, <1>12

LEMMA StepCap ==
  ASSUME Typed, Typed', ThreadsBound', Distinct', Cap, [Next]_vars
  PROVE  Cap'
  <1> USE Bounds
  <1>a. rows \subseteq Requests /\ rows' \subseteq Requests
    BY DEF Typed, TypeOK
  <1>1. ASSUME NEW s \in Requests, s \in rows \/ Flushed(s), Beside(s)' \subseteq Beside(s)
        PROVE  Cardinality(Beside(s)') <= MaxSessions + Threads - 1
    <2>1. Beside(s) \subseteq Requests
      BY <1>a DEF Beside, Live
    <2>2. IsFiniteSet(Beside(s)) /\ Cardinality(Beside(s)) \in Nat
      BY <2>1, FS_Subset, FS_CardinalityType
    <2>3. Cardinality(Beside(s)') <= Cardinality(Beside(s)) /\ Cardinality(Beside(s)') \in Nat
      BY <1>1, <2>2, FS_Subset, FS_CardinalityType
    <2>4. Cardinality(Beside(s)) <= MaxSessions + Threads - 1
      BY <1>1 DEF Cap
    <2> QED BY <2>2, <2>3, <2>4
  <1>2. CASE SetActive \/ UNCHANGED vars
    <2>1. UNCHANGED <<pc, stale, created, rows, revoked>>
      BY <1>2 DEF SetActive, vars, requestVars
    <2> QED BY <2>1 DEF Cap, Beside, Live, Flushed
  <1>3. ASSUME NEW r \in Requests, RequestStep(r), NEW s \in Requests, (s \in rows \/ Flushed(s))',
               ~IssueTokens(r)
        PROVE  Cardinality(Beside(s)') <= MaxSessions + Threads - 1
    <2>1. \A q \in Requests \ {r} : Kept(q)
      BY <1>3, OthersKept
    <2>2. created' = created /\ ~Flushed(r)'
      BY <1>3, NewSession
    <2>3. \A q \in Requests : Flushed(q)' => q # r /\ Flushed(q)
      BY <2>1, <2>2 DEF Flushed, Kept
    <2>4. CASE Commits(r)
      <3>1. /\ rows' = (IF created[r] # 0 THEN rows \cup {r} ELSE rows) /\ revoked' = revoked \cup stale[r]
            /\ stale' = stale /\ pc[r] = "commit"
        BY <2>4 DEF Commits, Apply
      <3>2. \A t \in rows' : t \in rows \/ Flushed(t)
        BY <3>1 DEF Flushed
      <3>3. s \in rows \/ Flushed(s)
        BY <1>3, <2>3, <3>2
      <3>4. Beside(s)' \subseteq Beside(s)
        <4> SUFFICES ASSUME NEW t \in Beside(s)' PROVE t \in Beside(s)
          OBVIOUS
        <4>1. CASE t \in rows' /\ t \notin revoked' /\ t \notin stale'[s] /\ created'[t] <= created'[s]
          BY <1>a, <2>2, <3>1, <3>2, <4>1 DEF Beside, Live
        <4>2. CASE t \in Requests /\ Flushed(t)' /\ created'[t] <= created'[s]
          BY <2>2, <2>3, <4>2 DEF Beside
        <4> QED BY <4>1, <4>2 DEF Beside, Live
      <3> QED BY <1>1, <3>3, <3>4
    <2>5. CASE UNCHANGED <<rows, revoked>>
      <3>1. s # r
        <4>1. Running(r) \/ pc[r] = "idle"
          BY <1>3, WhereItWas DEF Arrive, Login, Reset, Refresh, Logout, RevokeSession, RevokeAll
        <4>2. r \notin rows
          BY <4>1 DEF Running, Typed, Stage, StageOf
        <4> QED BY <1>3, <2>2, <2>5, <4>2
      <3>2. s \in rows \/ Flushed(s)
        BY <1>3, <2>3, <2>5
      <3>3. stale'[s] = stale[s]
        BY <2>1, <3>1 DEF Kept
      <3>4. Beside(s)' \subseteq Beside(s)
        BY <2>2, <2>3, <2>5, <3>3 DEF Beside, Live
      <3> QED BY <1>1, <3>2, <3>4
    <2> QED BY <1>3, <2>4, <2>5, Effects
  <1>4. ASSUME NEW r \in Requests, IssueTokens(r), NEW s \in Requests, (s \in rows \/ Flushed(s))', s # r
        PROVE  Cardinality(Beside(s)') <= MaxSessions + Threads - 1
    <2>1. \A q \in Requests \ {r} : Kept(q)
      BY <1>4, OthersKept DEF RequestStep
    <2>2. /\ created'[r] = clock + 1 /\ UNCHANGED <<rows, revoked>> /\ r \notin rows
      BY <1>4, Issued
    <2>3. s \in rows \/ Flushed(s)
      BY <1>4, <2>1, <2>2 DEF Flushed, Kept
    <2>4. ~(created'[r] <= created'[s]) /\ created'[s] = created[s] /\ stale'[s] = stale[s]
      BY <1>4, <2>1, <2>2 DEF Kept, Typed, TypeOK
    <2>5. Beside(s)' \subseteq Beside(s)
      <3> SUFFICES ASSUME NEW t \in Beside(s)' PROVE t \in Beside(s)
        OBVIOUS
      <3>1. t = s \/ created'[t] <= created'[s]
        BY DEF Beside
      <3>2. t # r
        BY <1>4, <2>4, <3>1
      <3>3. t \in Requests
        BY <1>a DEF Beside, Live
      <3>4. Kept(t)
        BY <2>1, <3>2, <3>3
      <3> QED BY <2>2, <2>4, <3>4 DEF Beside, Live, Flushed, Kept
    <2> QED BY <1>1, <2>3, <2>5
  <1>5. ASSUME NEW r \in Requests, RequestStep(r)
        PROVE  Cap'
    BY <1>3, <1>4, <1>5, IssueCap DEF Cap
  <1> QED BY <1>2, <1>5, Steps

-----------------------------------------------------------------------------
(* Theorems. *)

SessionInvariant == Typed /\ ThreadsBound /\ Exchanges /\ Revocations /\ Distinct /\ Cap

LEMMA InitInvariant == Init => SessionInvariant
  <1> SUFFICES ASSUME Init PROVE SessionInvariant
    OBVIOUS
  <1>1. /\ rows = {}
        /\ \A r \in Requests : pc[r] = "idle" /\ created[r] = 0 /\ kind[r] = "login"
    BY DEF Init
  <1>2. Exchanges
    <2>1. \A c : Successors(c) = {} /\ Exchangers(c) = {}
      BY <1>1 DEF Successors, Exchangers, InFlight, Running
    <2>2. Cardinality({}) = 0
      BY FS_EmptySet
    <2> QED BY <2>1, <2>2, Bounds DEF Exchanges
  <1>3. Revocations /\ Distinct
    BY <1>1 DEF Revocations, RevokedAll, Distinct
  <1>4. Cap
    BY <1>1 DEF Cap, Flushed
  <1> QED BY <1>2, <1>3, <1>4, InitTyped DEF SessionInvariant

LEMMA StepInvariant == SessionInvariant /\ [Next]_vars => SessionInvariant'
  <1> SUFFICES ASSUME SessionInvariant, [Next]_vars PROVE SessionInvariant'
    OBVIOUS
  <1>1. Typed'
    BY StepTypes, StepStage DEF SessionInvariant, Typed
  <1>2. ThreadsBound' /\ Distinct'
    BY StepBound, StepDistinct DEF SessionInvariant
  <1> QED BY <1>1, <1>2, StepExchanges, StepRevocations, StepCap DEF SessionInvariant

LEMMA AlwaysInvariant == Spec => []SessionInvariant
  BY InitInvariant, StepInvariant, PTL DEF Spec

(* Every variable keeps its type; what is revoked or denied has a row.        *)
THEOREM SessionsTypeCorrect == Spec => []TypeOK
  <1>1. SessionInvariant => TypeOK
    BY DEF SessionInvariant, Typed
  <1> QED BY <1>1, AlwaysInvariant, PTL

(* max_active_sessions_per_user is exceeded by no more than one session for   *)
(* each other thread (_issue_tokens).                                         *)
THEOREM SessionsCapped == Spec => []SessionCap
  <1>1. SessionInvariant => SessionCap
    <2> SUFFICES ASSUME SessionInvariant PROVE SessionCap
      OBVIOUS
    <2> USE Bounds
    <2>1. CASE Live = {}
      <3>1. Cardinality({}) = 0
        BY FS_EmptySet
      <3> QED BY <2>1, <3>1 DEF SessionCap
    <2>2. CASE Live # {}
      <3> DEFINE f == [s \in Live |-> clock - created[s]]
      <3>1. Live \subseteq rows /\ rows \subseteq Requests
        BY DEF SessionInvariant, Typed, TypeOK, Live
      <3>2. clock \in Nat /\ \A s \in Live : created[s] \in Nat /\ created[s] <= clock
        BY <3>1 DEF SessionInvariant, Typed, TypeOK
      <3>3. \A s \in Live : f[s] \in Nat /\ f[s] = clock - created[s]
        BY <3>2
      <3> HIDE DEF f
      <3>4. PICK s \in Live : \A t \in Live : f[s] <= f[t]
        BY <2>2, <3>3, Least
      <3>5. \A t \in Live : created[t] <= created[s]
        BY <3>2, <3>3, <3>4
      <3>6. Live \subseteq Live \ stale[s]
        BY <3>1 DEF SessionInvariant, Typed, Stage, StageOf, Live
      <3>7. Live \subseteq Beside(s)
        BY <3>5, <3>6 DEF Beside
      <3>8. Cardinality(Beside(s)) <= MaxSessions + Threads - 1
        BY <3>1 DEF SessionInvariant, Cap
      <3>9. Beside(s) \subseteq Requests
        BY <3>1 DEF Beside
      <3>10. /\ IsFiniteSet(Beside(s)) /\ Cardinality(Beside(s)) \in Nat
             /\ Cardinality(Live) <= Cardinality(Beside(s)) /\ Cardinality(Live) \in Nat
        BY <3>7, <3>9, FS_Subset, FS_CardinalityType
      <3> QED BY <3>8, <3>10 DEF SessionCap
    <2> QED BY <2>1, <2>2
  <1> QED BY <1>1, AlwaysInvariant, PTL

(* A refresh token is exchanged at most once for each thread: all that        *)
(* exchange it had looked at it together (refresh_access_token).              *)
THEOREM SessionsExchangedAtOnce == Spec => []ExchangedAtOnce
  <1>1. SessionInvariant => ExchangedAtOnce
    <2> SUFFICES ASSUME SessionInvariant, NEW c \in rows PROVE Cardinality(Successors(c)) <= Threads
      BY DEF ExchangedAtOnce
    <2>1. rows \subseteq Requests
      BY DEF SessionInvariant, Typed, TypeOK
    <2>2. Cardinality(Successors(c)) + Cardinality(Exchangers(c)) <= Threads
      BY <2>1 DEF SessionInvariant, Exchanges
    <2>3. Cardinality(Successors(c)) \in Nat /\ Cardinality(Exchangers(c)) \in Nat
      BY <2>1, FiniteSides
    <2> QED BY <2>2, <2>3, Bounds
  <1> QED BY <1>1, AlwaysInvariant, PTL

(* After an answered revocation of everything no token from before it is      *)
(* accepted, if no other revocation ran across it (_revoke_all_user_sessions, *)
(* get_current_user).                                                         *)
THEOREM SessionsRevocationHolds == Spec => []RevocationHolds
  <1>1. SessionInvariant => RevocationHolds
    <2> SUFFICES ASSUME SessionInvariant, NEW r \in Requests, RevokedAll(r), r \notin overlapped,
                        NEW s \in rows, created[s] < stamp[r]
                 PROVE  ~TokenAccepted(s) /\ ~AccessAccepted(s)
      BY DEF RevocationHolds
    <2>1. stamp[r] <= revokedAt
      BY DEF SessionInvariant, Revocations
    <2>2. stamp[r] \in Nat /\ revokedAt \in Nat /\ created[s] \in Nat
      BY DEF SessionInvariant, Typed, TypeOK
    <2>3. ~(created[s] >= revokedAt)
      BY <2>1, <2>2
    <2>4. created[s] % Second \in Nat
      BY <2>2, Bounds
    <2>5. ~(Iat(s) >= revokedAt)
      BY <2>1, <2>2, <2>4 DEF Iat
    <2> QED BY <2>3, <2>5 DEF TokenAccepted, AccessAccepted
  <1> QED BY <1>1, AlwaysInvariant, PTL
=============================================================================
